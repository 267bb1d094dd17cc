----------------------- MODULE HeavyModelLeaseProofs -----------------------
(***************************************************************************)
(* Theorems of HeavyModelLease for any number of leases.                   *)
(***************************************************************************)
EXTENDS HeavyModelLease, TLAPS

(* No fault but an unwritten marker, so that the operator waits for an idle system
   before a recovery, and no caller that leaves its model loaded behind it. *)
Undisturbed == Faults \subseteq {"markError"} /\ \A l \in Leases : Kind[l] # "planner"

(* Type correctness, whatever the faults. *)
THEOREM TypeCorrect == Spec => []TypeOK
<1> USE LeaseConstants
<1>1. Init => TypeOK
  BY DEF Init, TypeOK, PCs, RenewerPCs
<1>2. TypeOK /\ [Next]_vars => TypeOK'
  <2> SUFFICES ASSUME TypeOK, [Next]_vars PROVE TypeOK'
    OBVIOUS
  <2> USE DEF TypeOK, PCs, RenewerPCs, Goto, GotoRenewer
  <2>1. ASSUME NEW l \in Leases, Caller(l) PROVE TypeOK'
    <3>1. CASE Acquire(l)  BY <3>1 DEF Acquire
    <3>2. CASE AcquireFails(l)  BY <3>2 DEF AcquireFails
    <3>3. CASE LoadModel(l)  BY <3>3 DEF LoadModel
    <3>4. CASE FinishCall(l)  BY <3>4 DEF FinishCall
    <3>5. CASE Unload(l)  BY <3>5 DEF Unload
    <3>6. CASE RecordRetained(l)  BY <3>6 DEF RecordRetained
    <3>7. CASE Release(l)  BY <3>7 DEF Release
    <3>8. CASE DeleteKey(l)  BY <3>8 DEF DeleteKey
    <3>9. CASE StopChild(l)  BY <3>9 DEF StopChild
    <3> QED  BY <2>1, <3>1, <3>2, <3>3, <3>4, <3>5, <3>6, <3>7, <3>8, <3>9 DEF Caller, Proceeds
  <2>2. ASSUME NEW l \in Leases, Renewer(l) PROVE TypeOK'
    BY <2>2 DEF Renewer, RenewCheck, Renew, MarkLost
  <2>3. CASE Environment
    BY <2>3 DEF Environment, Expire, ModelEvicted, Crash, ConfirmNotResident, Recover
  <2>4. CASE UNCHANGED vars
    BY <2>4 DEF vars
  <2> QED  BY <2>1, <2>2, <2>3, <2>4 DEF Next
<1> QED  BY <1>1, <1>2, PTL DEF Spec

-----------------------------------------------------------------------------
LEMMA SlotInvInit == Init => SlotInv
BY LeaseConstants DEF Init, SlotInv, Acquired, Unsafe

LEMMA SlotInvStep ==
  ASSUME Undisturbed, TypeOK, SlotInv, [Next]_vars
  PROVE  SlotInv'
<1> USE LeaseConstants DEF Undisturbed, TypeOK, SlotInv, Acquired, Unsafe, PCs, RenewerPCs
<1> USE DEF Goto, GotoRenewer
<1>1. ASSUME NEW l \in Leases, Caller(l) PROVE SlotInv'
  <2>1. CASE Acquire(l)  BY <2>1 DEF Acquire
  <2>2. CASE AcquireFails(l)  BY <2>2 DEF AcquireFails
  <2>3. CASE LoadModel(l)  BY <2>3 DEF LoadModel
  <2>4. CASE FinishCall(l)  BY <2>4 DEF FinishCall, Kinds
  <2>5. CASE Unload(l)  BY <2>5 DEF Unload
  <2>6. CASE RecordRetained(l)  BY <2>6 DEF RecordRetained
  <2>7. CASE Release(l)  BY <2>7 DEF Release
  <2>8. CASE DeleteKey(l)  BY <2>8 DEF DeleteKey
  <2>9. CASE StopChild(l)  BY <2>9 DEF StopChild, CancelEventSet
  <2> QED  BY <1>1, <2>1, <2>2, <2>3, <2>4, <2>5, <2>6, <2>7, <2>8, <2>9 DEF Caller, Proceeds
<1>2. ASSUME NEW l \in Leases, Renewer(l) PROVE SlotInv'
  <2>1. CASE RenewCheck(l)  BY <2>1 DEF RenewCheck
  <2>2. CASE Renew(l)  BY <2>2 DEF Renew
  <2>3. CASE MarkLost(l)  BY <2>3 DEF MarkLost
  <2> QED  BY <1>2, <2>1, <2>2, <2>3 DEF Renewer
<1>3. CASE Environment
  <2>1. CASE Expire  BY <2>1 DEF Expire
  <2>2. ASSUME NEW l \in Leases, ModelEvicted(l) PROVE SlotInv'
    BY <2>2 DEF ModelEvicted
  <2>3. ASSUME NEW l \in Leases, Crash(l) PROVE SlotInv'
    BY <2>3 DEF Crash
  <2>4. CASE OperatorWaits /\ ConfirmNotResident
    BY <2>4 DEF ConfirmNotResident, OperatorWaits, OllamaKinds, Kinds
  <2>5. CASE Recover  BY <2>5 DEF Recover
  <2> QED  BY <1>3, <2>1, <2>2, <2>3, <2>4, <2>5 DEF Environment
<1>4. CASE UNCHANGED vars
  BY <1>4 DEF vars
<1> QED  BY <1>1, <1>2, <1>3, <1>4 DEF Next

(* The inductive invariant holds in every undisturbed behaviour. *)
THEOREM SlotInvariant == ASSUME Undisturbed PROVE Spec => []SlotInv
BY SlotInvInit, SlotInvStep, TypeCorrect, PTL DEF Spec

(* Two heavy models are never resident together: the holder of the key is the
   only lease whose model can be, from the load to the confirmed unload. *)
THEOREM HeavyModelsExclude == ASSUME Undisturbed PROVE Spec => []AtMostOneResident
<1>1. TypeOK /\ SlotInv => AtMostOneResident
  BY DEF TypeOK, SlotInv, AtMostOneResident
<1> QED  BY <1>1, TypeCorrect, SlotInvariant, PTL

(* Every step of the lease is a step of the slot or leaves it alone. *)
THEOREM LeaseImplementsSlot == ASSUME Undisturbed PROVE Spec => SlotRefinement
<1>1. Init => Slot!SlotInit
  BY DEF Init, Slot!SlotInit, Unsafe
<1>2. TypeOK /\ SlotInv /\ [Next]_vars => [Slot!SlotNext]_(Slot!slotVars)
  <2> SUFFICES ASSUME TypeOK, SlotInv, [Next]_vars
               PROVE  Slot!SlotNext \/ UNCHANGED <<key, Unsafe, resident>>
    BY DEF Slot!slotVars
  <2> USE LeaseConstants DEF Undisturbed, TypeOK, SlotInv, Acquired, Unsafe, Slot!SlotNext,
        Slot!Take, Slot!Enter, Slot!Leave, Slot!Give, Slot!Close, Slot!Reopen
  <2>1. ASSUME NEW l \in Leases, Caller(l)
        PROVE  Slot!SlotNext \/ UNCHANGED <<key, Unsafe, resident>>
    <3>1. CASE Acquire(l)  BY <3>1 DEF Acquire
    <3>2. CASE AcquireFails(l)  BY <3>2 DEF AcquireFails
    <3>3. CASE LoadModel(l)  BY <3>3 DEF LoadModel
    <3>4. CASE FinishCall(l)  BY <3>4 DEF FinishCall
    <3>5. CASE Unload(l)  BY <3>5 DEF Unload
    <3>6. CASE RecordRetained(l)  BY <3>6 DEF RecordRetained
    <3>7. CASE Release(l)  BY <3>7 DEF Release
    <3>8. CASE DeleteKey(l)  BY <3>8 DEF DeleteKey
    <3>9. CASE StopChild(l)  BY <3>9 DEF StopChild
    <3> QED  BY <2>1, <3>1, <3>2, <3>3, <3>4, <3>5, <3>6, <3>7, <3>8, <3>9 DEF Caller, Proceeds
  <2>2. ASSUME NEW l \in Leases, Renewer(l)
        PROVE  Slot!SlotNext \/ UNCHANGED <<key, Unsafe, resident>>
    BY <2>2 DEF Renewer, RenewCheck, Renew, MarkLost
  <2>3. CASE Environment
    <3>1. CASE Expire  BY <3>1 DEF Expire
    <3>2. ASSUME NEW l \in Leases, ModelEvicted(l) \/ Crash(l)
          PROVE  Slot!SlotNext \/ UNCHANGED <<key, Unsafe, resident>>
      BY <3>2 DEF ModelEvicted, Crash
    <3>3. CASE ConfirmNotResident  BY <3>3 DEF ConfirmNotResident
    <3>4. CASE Recover  BY <3>4 DEF Recover
    <3> QED  BY <2>3, <3>1, <3>2, <3>3, <3>4 DEF Environment
  <2>4. CASE UNCHANGED vars  BY <2>4 DEF vars
  <2> QED  BY <2>1, <2>2, <2>3, <2>4 DEF Next
<1> QED  BY <1>1, <1>2, TypeCorrect, SlotInvariant, PTL DEF Spec, SlotRefinement, Slot!SlotSpec

-----------------------------------------------------------------------------
(* Whatever fails, only the owner's own release, a recovery or the end of the
   TTL takes the key off its owner: no token deletes the key of a later one. *)
THEOREM KeyStaysWithOwner == Spec => OwnerKeepsKey
<1>1. TypeOK /\ [Next]_vars
        => [\A l \in Leases : key = l /\ key' # l
              => \/ pc[l] = "deleting" /\ pc'[l] = "done"
                 \/ operator = "confirmed" /\ operator' = "idle"
                 \/ pc' = pc /\ operator' = operator]_vars
  <2> SUFFICES ASSUME TypeOK, [Next]_vars, NEW l \in Leases, key = l, key' # l
               PROVE  \/ pc[l] = "deleting" /\ pc'[l] = "done"
                      \/ operator = "confirmed" /\ operator' = "idle"
                      \/ pc' = pc /\ operator' = operator
    OBVIOUS
  <2>1. ASSUME NEW m \in Leases, Caller(m) PROVE pc[l] = "deleting" /\ pc'[l] = "done"
    <3>1. DeleteKey(m)
      BY <2>1, LeaseConstants DEF Caller, Proceeds, StopChild, Acquire, AcquireFails, LoadModel, FinishCall, Unload,
           RecordRetained, Release
    <3> QED  BY <3>1 DEF DeleteKey, Goto, TypeOK
  <2>2. ASSUME NEW m \in Leases, Renewer(m) PROVE FALSE
    BY <2>2 DEF Renewer, RenewCheck, Renew, MarkLost
  <2>3. CASE Environment
    BY <2>3 DEF Environment, Expire, ModelEvicted, Crash, ConfirmNotResident, Recover
  <2> QED  BY <2>1, <2>2, <2>3 DEF Next, vars
<1> QED  BY <1>1, TypeCorrect, PTL DEF Spec, OwnerKeepsKey

(* The renewer of a lease in use has only ended, or is writing the marker, after
   it has set the loss, which the caller looks at after its call. *)
LossIsSeen ==
    \A l \in Leases :
        /\ pc[l] = "new" => renewer[l] = "none"
        /\ Acquired(l) => renewer[l] # "none" /\ (renewer[l] \in {"marking", "dead"} => l \in lost)

LEMMA LossIsSeenStep ==
  ASSUME TypeOK, LossIsSeen, [Next]_vars
  PROVE  LossIsSeen'
<1> USE LeaseConstants DEF TypeOK, LossIsSeen, Acquired, PCs, RenewerPCs, Goto, GotoRenewer
<1>1. ASSUME NEW l \in Leases, Caller(l) PROVE LossIsSeen'
  <2>1. CASE Acquire(l)  BY <2>1 DEF Acquire
  <2>2. CASE AcquireFails(l)  BY <2>2 DEF AcquireFails
  <2>3. CASE LoadModel(l)  BY <2>3 DEF LoadModel
  <2>4. CASE FinishCall(l)  BY <2>4 DEF FinishCall
  <2>5. CASE Unload(l)  BY <2>5 DEF Unload
  <2>6. CASE RecordRetained(l)  BY <2>6 DEF RecordRetained
  <2>7. CASE Release(l)  BY <2>7 DEF Release
  <2>8. CASE DeleteKey(l)  BY <2>8 DEF DeleteKey
  <2>9. CASE StopChild(l)  BY <2>9 DEF StopChild
  <2> QED  BY <1>1, <2>1, <2>2, <2>3, <2>4, <2>5, <2>6, <2>7, <2>8, <2>9 DEF Caller, Proceeds
<1>2. ASSUME NEW l \in Leases, Renewer(l) PROVE LossIsSeen'
  BY <1>2 DEF Renewer, RenewCheck, Renew, MarkLost
<1>3. CASE Environment
  BY <1>3 DEF Environment, Expire, ModelEvicted, Crash, ConfirmNotResident, Recover
<1>4. CASE UNCHANGED vars
  BY <1>4 DEF vars
<1> QED  BY <1>1, <1>2, <1>3, <1>4 DEF Next

(* Whatever fails, a result of a call that has lost its key is kept only before
   the renewer's next turn: a renewal that has found the loss is believed. *)
THEOREM LostCallsKeepNothing == Spec => LostCallKeepsNothing
<1>1. Init => LossIsSeen
  BY DEF Init, LossIsSeen, Acquired
<1>2. TypeOK /\ LossIsSeen /\ [Next]_vars
        => [\A l \in accepted' \ accepted : key = l \/ renewer[l] \in {"sleep", "checked"}]_vars
  <2> SUFFICES ASSUME TypeOK, LossIsSeen, [Next]_vars, NEW l \in accepted' \ accepted
               PROVE  renewer[l] \in {"sleep", "checked"}
    OBVIOUS
  <2>1. ASSUME NEW m \in Leases, Caller(m) PROVE renewer[l] \in {"sleep", "checked"}
    <3>1. FinishCall(m)
      BY <2>1 DEF Caller, Proceeds, Acquire, AcquireFails, LoadModel, StopChild, Unload,
           RecordRetained, Release, DeleteKey
    <3>2. l = m /\ pc[m] = "working" /\ m \notin lost  BY <3>1 DEF FinishCall
    <3> QED  BY <3>2 DEF LossIsSeen, Acquired, TypeOK, RenewerPCs
  <2>2. ASSUME NEW m \in Leases, Renewer(m) PROVE FALSE
    BY <2>2 DEF Renewer, RenewCheck, Renew, MarkLost
  <2>3. CASE Environment
    BY <2>3 DEF Environment, Expire, ModelEvicted, Crash, ConfirmNotResident, Recover
  <2> QED  BY <2>1, <2>2, <2>3 DEF Next, vars
<1> QED  BY <1>1, <1>2, LossIsSeenStep, TypeCorrect, PTL DEF Spec, LostCallKeepsNothing

-----------------------------------------------------------------------------
(* The marker gets written, and the operator runs a recovery as its guide says,
   when no worker is at work; expiry, late renewals, Redis errors and crashes
   are all allowed. *)
LossIsReported == Faults \cap {"markError", "hastyOperator"} = {}

(* A lease lost in use is in the marker once its renewer has ended, and nobody
   takes the marker away while a lease is in use. *)
LossInv ==
    /\ \A l \in Leases : pc[l] = "new" => renewer[l] = "none" /\ l \notin lost
    /\ \A l \in Leases : renewer[l] = "dead" /\ l \in lost /\ Acquired(l) => Unsafe
    /\ operator = "confirmed" => Unsafe /\ \A l \in Leases : ~Acquired(l)

LEMMA LossInvStep ==
  ASSUME LossIsReported, TypeOK, LossInv, [Next]_vars
  PROVE  LossInv'
<1> USE LeaseConstants DEF LossIsReported, TypeOK, LossInv, Acquired, Unsafe, PCs, RenewerPCs
<1> USE DEF Goto, GotoRenewer
<1>1. ASSUME NEW l \in Leases, Caller(l) PROVE LossInv'
  <2>1. CASE Acquire(l)  BY <2>1 DEF Acquire
  <2>2. CASE AcquireFails(l)  BY <2>2 DEF AcquireFails
  <2>3. CASE LoadModel(l)  BY <2>3 DEF LoadModel
  <2>4. CASE FinishCall(l)  BY <2>4 DEF FinishCall
  <2>5. CASE Unload(l)  BY <2>5 DEF Unload
  <2>6. CASE RecordRetained(l)  BY <2>6 DEF RecordRetained
  <2>7. CASE Release(l)  BY <2>7 DEF Release
  <2>8. CASE DeleteKey(l)  BY <2>8 DEF DeleteKey
  <2>9. CASE StopChild(l)  BY <2>9 DEF StopChild, CancelEventSet
  <2> QED  BY <1>1, <2>1, <2>2, <2>3, <2>4, <2>5, <2>6, <2>7, <2>8, <2>9 DEF Caller, Proceeds
<1>2. ASSUME NEW l \in Leases, Renewer(l) PROVE LossInv'
  <2>1. CASE RenewCheck(l)  BY <2>1 DEF RenewCheck
  <2>2. CASE Renew(l)  BY <2>2 DEF Renew
  <2>3. CASE MarkLost(l)  BY <2>3 DEF MarkLost
  <2> QED  BY <1>2, <2>1, <2>2, <2>3 DEF Renewer
<1>3. CASE Environment
  <2>1. CASE Expire  BY <2>1 DEF Expire
  <2>2. ASSUME NEW l \in Leases, ModelEvicted(l) PROVE LossInv'
    BY <2>2 DEF ModelEvicted
  <2>3. ASSUME NEW l \in Leases, Crash(l) PROVE LossInv'
    BY <2>3 DEF Crash
  <2>4. CASE OperatorWaits /\ ConfirmNotResident
    BY <2>4 DEF OperatorWaits, ConfirmNotResident
  <2>5. CASE Recover  BY <2>5 DEF Recover
  <2> QED  BY <1>3, <2>1, <2>2, <2>3, <2>4, <2>5 DEF Environment
<1>4. CASE UNCHANGED vars
  BY <1>4 DEF vars
<1> QED  BY <1>1, <1>2, <1>3, <1>4 DEF Next

(* After a lease is lost under a working caller no new heavy work starts. *)
THEOREM LossStopsNewWork == ASSUME LossIsReported PROVE Spec => NoWorkBesideALoss
<1>1. Init => LossInv
  BY DEF Init, LossInv, Acquired
<1>2. TypeOK /\ LossInv /\ [Next]_vars
        => [\A l, m \in Leases :
              ~(pc[l] = "new" /\ pc'[l] = "held" /\ m \in lost /\ renewer[m] = "dead" /\ Acquired(m))]_vars
  <2> SUFFICES ASSUME TypeOK, LossInv, [Next]_vars, NEW l \in Leases, NEW m \in Leases,
                      pc[l] = "new", pc'[l] = "held", m \in lost, renewer[m] = "dead", Acquired(m)
               PROVE  FALSE
    OBVIOUS
  <2>1. Unsafe
    BY DEF LossInv
  <2>2. ASSUME NEW n \in Leases, Caller(n) PROVE FALSE
    BY <2>1, <2>2 DEF TypeOK, Goto, Caller, Proceeds, Acquire, AcquireFails, LoadModel, FinishCall,
         StopChild, Unload, RecordRetained, Release, DeleteKey
  <2>3. ASSUME NEW n \in Leases, Renewer(n) PROVE FALSE
    BY <2>3 DEF Renewer, RenewCheck, Renew, MarkLost
  <2>4. CASE Environment
    BY <2>4 DEF TypeOK, Goto, Environment, Expire, ModelEvicted, Crash, ConfirmNotResident, Recover
  <2> QED  BY <2>2, <2>3, <2>4 DEF Next, vars
<1> QED  BY <1>1, <1>2, LossInvStep, TypeCorrect, PTL DEF Spec, NoWorkBesideALoss
=============================================================================
