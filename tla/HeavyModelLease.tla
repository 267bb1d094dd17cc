-------------------------- MODULE HeavyModelLease --------------------------
(***************************************************************************)
(* The Redis lease that lets one heavy model (a Whisper child process or   *)
(* the Ollama model) be resident at a time                                 *)
(* (backend/app/runtime/heavy_model_lease.py), its callers in the stage    *)
(* executors, and the operator command recover-heavy-model (cli.py).       *)
(*                                                                         *)
(* Two Redis keys: the lease key (token of its owner, with a TTL) and the  *)
(* unsafe marker (no TTL).  A lease object is used once, so it stands for  *)
(* its token.  Each has two threads, the caller and the renewer, and a     *)
(* Redis call is one step of either.                                       *)
(***************************************************************************)
EXTENDS Naturals, FiniteSets

CONSTANTS
    Leases,     \* lease objects, one acquisition attempt each
    NoLease,    \* "no key": the value of an absent Redis key
    Kind,       \* the caller that owns a lease object
    Faults      \* what the environment may do wrong, see FaultKinds

(* "whisper", "bench": a spawned child that the parent reaps before release and
              stops when the lease is lost (so does the narration check);
   "targeted": the Stage 3.5 re-transcription, a child that is only reaped;
   "ollama":   Stage 2.7, whose release unloads the model and checks it;
   "planner":  Stages 3, 4.1 and 4.2, whose local provider unloads nothing. *)
Kinds == {"whisper", "bench", "targeted", "ollama", "planner"}
OllamaKinds == {"ollama", "planner"}

(* "expiry":   the TTL runs out although the renewer lives (stalled process);
   "lateRenew": a renewal outlasts the 0.5 s join of release;
   "redisError": the Redis call of a renewal or a release raises;
   "markError":  the Redis call that writes the unsafe marker raises;
   "crash":     a process is killed;
   "hastyOperator": recovery is run while another lease is in use. *)
FaultKinds == {"expiry", "lateRenew", "redisError", "markError", "crash", "hastyOperator"}

ASSUME LeaseConstants ==
    /\ NoLease \notin Leases
    /\ Kind \in [Leases -> Kinds]
    /\ Faults \subseteq FaultKinds

VARIABLES
    key,        \* owner recorded in the lease key, or NoLease
    unsafe,     \* lease that wrote the unsafe marker, or NoLease
    pc,         \* where the caller of each lease object stands
    renewer,    \* where the renewer thread of each lease object stands
    retained,   \* leases with _retained set
    lost,       \* leases with _ownership_lost set
    resident,   \* leases whose model occupies memory
    accepted,   \* leases whose model result was kept by the caller
    operator    \* the recovery command: "idle" or "confirmed"

vars == <<key, unsafe, pc, renewer, retained, lost, resident, accepted, operator>>

PCs == {"new", "held", "working", "unload", "retaining", "exit", "deleting",
        "retained", "refused", "busy", "done", "dead"}
RenewerPCs == {"none", "sleep", "checked", "marking", "dead"}

(* Every variable holds what the code can put there; in particular both Redis
   keys name a lease or are absent. *)
TypeOK ==
    /\ key \in Leases \union {NoLease}
    /\ unsafe \in Leases \union {NoLease}
    /\ pc \in [Leases -> PCs]
    /\ renewer \in [Leases -> RenewerPCs]
    /\ retained \subseteq Leases /\ lost \subseteq Leases
    /\ resident \subseteq Leases /\ accepted \subseteq Leases
    /\ operator \in {"idle", "confirmed"}

(* Between acquire and release: the interval in which _acquired is set. *)
Acquired(l) == pc[l] \in {"held", "working", "unload", "retaining", "exit"}
Unsafe == unsafe # NoLease

(* Mutant: the benchmark does not hand its event to the lease. *)
CancelEventUnset(l) == l \in lost /\ Kind[l] = "whisper"

(* The loss of a lease sets the cancel event of the callers that passed one. *)
CancelEventSet(l) == l \in lost /\ Kind[l] \in {"whisper", "bench"}

Init ==
    /\ key = NoLease /\ unsafe = NoLease
    /\ pc = [l \in Leases |-> "new"]
    /\ renewer = [l \in Leases |-> "none"]
    /\ retained = {} /\ lost = {} /\ resident = {} /\ accepted = {}
    /\ operator = "idle"

-----------------------------------------------------------------------------
(* The caller's thread. *)

Goto(l, label) == pc' = [pc EXCEPT ![l] = label]

(* Mutant: SET without NX, the key is taken from whoever holds it. *)
AcquireBlind(l) ==
    /\ pc[l] = "new" /\ ~Unsafe
    /\ key' = l
    /\ Goto(l, "held")
    /\ renewer' = [renewer EXCEPT ![l] = "sleep"]
    /\ UNCHANGED <<unsafe, retained, lost, resident, accepted, operator>>

(* _ACQUIRE_LUA answered ACQUIRED: marker checked and key set in one script. *)
Acquire(l) ==
    /\ pc[l] = "new" /\ ~Unsafe /\ key = NoLease
    /\ key' = l
    /\ Goto(l, "held")
    /\ renewer' = [renewer EXCEPT ![l] = "sleep"]
    /\ UNCHANGED <<unsafe, retained, lost, resident, accepted, operator>>

(* UNSAFE raises at once; BUSY is polled until the deadline, then raises. *)
AcquireFails(l) ==
    /\ pc[l] = "new"
    /\ \/ Unsafe /\ Goto(l, "refused")
       \/ ~Unsafe /\ key # NoLease /\ Goto(l, "busy")
    /\ UNCHANGED <<key, unsafe, renewer, retained, lost, resident, accepted, operator>>

(* The caller starts the child or sends the first local request. *)
LoadModel(l) ==
    /\ pc[l] = "held"
    /\ resident' = resident \union {l}
    /\ Goto(l, "working")
    /\ UNCHANGED <<key, unsafe, renewer, retained, lost, accepted, operator>>

(* Mutant: the loss is not looked at after the call. *)
FinishCallUnchecked(l) ==
    /\ pc[l] = "working"
    /\ IF Kind[l] = "ollama"
       THEN Goto(l, "unload") /\ UNCHANGED resident
       ELSE /\ Goto(l, "exit")
            /\ resident' = IF Kind[l] = "planner" THEN resident ELSE resident \ {l}
    /\ accepted' \in {accepted, accepted \union {l}}
    /\ UNCHANGED <<key, unsafe, renewer, retained, lost, operator>>

(* The model call returns, fails or times out.  The parent reaps its child
   before the lease is left; a result is kept only if the loss is not known. *)
FinishCall(l) ==
    /\ pc[l] = "working"
    /\ IF Kind[l] = "ollama"
       THEN Goto(l, "unload") /\ UNCHANGED resident
       ELSE /\ Goto(l, "exit")
            /\ resident' = IF Kind[l] = "planner" THEN resident ELSE resident \ {l}
    /\ \/ l \notin lost /\ accepted' = accepted \union {l}
       \/ UNCHANGED accepted
    /\ UNCHANGED <<key, unsafe, renewer, retained, lost, operator>>

(* The parent waits for its child in short polls, sees the event in one of them,
   terminates the child and joins it: no result comes of the call. *)
StopChild(l) ==
    /\ pc[l] = "working" /\ CancelEventSet(l)
    /\ resident' = resident \ {l}
    /\ Goto(l, "exit")
    /\ UNCHANGED <<key, unsafe, renewer, retained, lost, accepted, operator>>

(* Stage 2.7 release: unload confirmed, or a warning that retains the lease. *)
Unload(l) ==
    /\ pc[l] = "unload"
    /\ \/ /\ resident' = resident \ {l}
          /\ Goto(l, "exit")
          /\ UNCHANGED retained
       \/ /\ retained' = retained \union {l}
          /\ Goto(l, "retaining")
          /\ UNCHANGED resident
    /\ UNCHANGED <<key, unsafe, renewer, lost, accepted, operator>>

(* Mutant: the marker records the purpose and not the lease. *)
RecordRetainedPurpose(l) ==
    /\ pc[l] = "retaining"
    /\ unsafe' = Kind[l]
    /\ Goto(l, "exit")
    /\ UNCHANGED <<key, renewer, retained, lost, resident, accepted, operator>>

(* retain() calls on_unsafe, which writes the marker; the write may raise. *)
RecordRetained(l) ==
    /\ pc[l] = "retaining"
    /\ \/ unsafe' = l
       \/ "markError" \in Faults /\ UNCHANGED unsafe
    /\ Goto(l, "exit")
    /\ UNCHANGED <<key, renewer, retained, lost, resident, accepted, operator>>

(* release(): a retained lease keeps its key and its renewer. *)
Release(l) ==
    /\ pc[l] = "exit"
    /\ Goto(l, IF l \in retained THEN "retained" ELSE "deleting")
    /\ UNCHANGED <<key, unsafe, renewer, retained, lost, resident, accepted, operator>>

(* Mutant: DEL without comparing the token. *)
DeleteKeyBlind(l) ==
    /\ pc[l] = "deleting"
    /\ renewer[l] \notin {"checked", "marking"} \/ "lateRenew" \in Faults
    /\ key' = NoLease
    /\ Goto(l, "done")
    /\ UNCHANGED <<unsafe, renewer, retained, lost, resident, accepted, operator>>

(* ... otherwise it joins the renewer for 0.5 s and compares-and-deletes.  A
   renewer asleep is left behind; one inside a Redis call is waited for. *)
DeleteKey(l) ==
    /\ pc[l] = "deleting"
    /\ renewer[l] \notin {"checked", "marking"} \/ "lateRenew" \in Faults
    /\ \/ key' = IF key = l THEN NoLease ELSE key
       \/ "redisError" \in Faults /\ UNCHANGED key
    /\ Goto(l, "done")
    /\ UNCHANGED <<unsafe, renewer, retained, lost, resident, accepted, operator>>

-----------------------------------------------------------------------------
(* The renewer's thread: one turn of its loop is a check of the flags, then a
   Redis call, then (when the lease was lost) the unsafe marker. *)

GotoRenewer(l, label) == renewer' = [renewer EXCEPT ![l] = label]

RenewCheck(l) ==
    /\ renewer[l] = "sleep"
    /\ GotoRenewer(l, IF Acquired(l) \/ l \in retained THEN "checked" ELSE "dead")
    /\ UNCHANGED <<key, unsafe, pc, retained, lost, resident, accepted, operator>>

(* _RENEW_LUA; zero or an exception is the loss of the lease. *)
Renew(l) ==
    /\ renewer[l] = "checked"
    /\ \/ key = l /\ GotoRenewer(l, "sleep") /\ UNCHANGED lost
       \/ /\ key # l \/ "redisError" \in Faults
          /\ GotoRenewer(l, "marking")
          /\ lost' = lost \union {l}
    /\ UNCHANGED <<key, unsafe, pc, retained, resident, accepted, operator>>

(* Mutant: a lost lease leaves no marker. *)
MarkLostSilently(l) ==
    /\ renewer[l] = "marking"
    /\ GotoRenewer(l, "dead")
    /\ UNCHANGED <<key, unsafe, pc, retained, lost, resident, accepted, operator>>

MarkLost(l) ==
    /\ renewer[l] = "marking"
    /\ \/ unsafe' = l
       \/ "markError" \in Faults /\ UNCHANGED unsafe
    /\ GotoRenewer(l, "dead")
    /\ UNCHANGED <<key, pc, retained, lost, resident, accepted, operator>>

-----------------------------------------------------------------------------
(* The environment. *)

(* The TTL ends once nothing renews the key, or early when a process stalls. *)
Expire ==
    /\ key # NoLease
    /\ renewer[key] \in {"marking", "dead"} \/ "expiry" \in Faults
    /\ key' = NoLease
    /\ UNCHANGED <<unsafe, pc, renewer, retained, lost, resident, accepted, operator>>

(* Ollama drops an idle model; the child of a killed parent ends. *)
ModelEvicted(l) ==
    /\ l \in resident /\ pc[l] # "working"
    /\ resident' = resident \ {l}
    /\ UNCHANGED <<key, unsafe, pc, renewer, retained, lost, accepted, operator>>

Crash(l) ==
    /\ "crash" \in Faults
    /\ Acquired(l) \/ pc[l] \in {"deleting", "retained"}
    /\ Goto(l, "dead")
    /\ GotoRenewer(l, "dead")
    /\ UNCHANGED <<key, unsafe, retained, lost, resident, accepted, operator>>

(* recover-heavy-model looks at the marker: one left by a benchmark whose
   process is gone needs no more; otherwise Ollama must list no model.  It does
   not ask whether anybody holds the lease. *)
ConfirmNotResident ==
    /\ operator = "idle" /\ Unsafe
    /\ \/ Kind[unsafe] = "bench" /\ pc[unsafe] \in {"done", "dead"}
       \/ \A l \in resident : Kind[l] \notin OllamaKinds
    /\ operator' = "confirmed"
    /\ UNCHANGED <<key, unsafe, pc, renewer, retained, lost, resident, accepted>>

(* The command is run by hand.  No code keeps it from a busy system: that the
   operator waits until no caller is between its acquire and its release is an
   assumption on the operator, dropped by the fault "hastyOperator". *)
OperatorWaits ==
    "hastyOperator" \in Faults \/ \A l \in Leases : ~Acquired(l) /\ pc[l] # "deleting"

(* ... and then runs _RECOVER_LUA: both keys go, unless there is no marker. *)
Recover ==
    /\ operator = "confirmed"
    /\ operator' = "idle"
    /\ key' = IF Unsafe THEN NoLease ELSE key
    /\ unsafe' = NoLease
    /\ UNCHANGED <<pc, renewer, retained, lost, resident, accepted>>

Proceeds(l) ==
    \/ Acquire(l) \/ AcquireFails(l) \/ LoadModel(l) \/ StopChild(l)
    \/ Unload(l) \/ RecordRetained(l) \/ Release(l) \/ DeleteKey(l)
Caller(l) == Proceeds(l) \/ FinishCall(l)
Renewer(l) == RenewCheck(l) \/ Renew(l) \/ MarkLost(l)
Environment ==
    \/ Expire \/ Recover
    \/ OperatorWaits /\ ConfirmNotResident
    \/ \E l \in Leases : ModelEvicted(l) \/ Crash(l)

Next == Environment \/ \E l \in Leases : Caller(l) \/ Renewer(l)

Spec == Init /\ [][Next]_vars

(* Threads that can run do run.  Nothing is promised of the operator, of a TTL
   or of the length of a model call: a child may take its two hours. *)
FairSpec == Spec /\ \A l \in Leases : WF_vars(Proceeds(l)) /\ WF_vars(Renewer(l))

-----------------------------------------------------------------------------
(* Properties. *)

(* Two heavy models never share the memory: Whisper children and the one
   Ollama model exclude each other (two leases may name the same Ollama model),
   even when the unsafe marker could not be written: the retained lease stays.
   "heavy-model lease ... serializes worker transcription, reconstruction, and
   benchmark commands". *)
AtMostOneResident ==
    \A l1, l2 \in resident : l1 = l2 \/ (Kind[l1] \in OllamaKinds /\ Kind[l2] \in OllamaKinds)

(* Why, while the only fault is a marker that is not written: the conjuncts are
   inductive together.  A lease in use or resident holds the key and has a live
   renewer; only a retained lease is resident after its call, or reports a loss;
   and between the two halves of a recovery the marker keeps everything still. *)
SlotInv ==
    /\ \A l \in Leases : Acquired(l) \/ l \in resident
           => key = l /\ renewer[l] \in {"sleep", "checked"}
    /\ \A l \in Leases : l \in resident
           => pc[l] \in {"working", "unload"} \/ l \in retained
    /\ \A l \in Leases : pc[l] \in {"unload", "retaining"} \/ l \in retained
           => Kind[l] = "ollama"
    /\ \A l \in Leases : pc[l] \in {"new", "held", "working", "unload", "deleting"}
           => l \notin retained
    /\ \A l \in Leases : pc[l] = "retaining" => l \in retained
    /\ \A l \in Leases : key = l => pc[l] \notin {"new", "refused", "busy"}
    /\ \A l \in Leases : renewer[l] = "checked" /\ l \notin retained
           => key = l /\ (Acquired(l) \/ pc[l] = "deleting")
    /\ \A l \in Leases : pc[l] = "new" => renewer[l] = "none"
    /\ \A l \in Leases : renewer[l] = "marking" \/ unsafe = l => l \in retained
    /\ operator = "confirmed"
           => /\ Unsafe /\ resident = {}
              /\ \A l \in Leases : ~Acquired(l) /\ pc[l] # "deleting"

Slot == INSTANCE ModelSlot WITH
    Users <- Leases, Nobody <- NoLease,
    slot <- key, closed <- Unsafe, inside <- resident

(* Under the same assumption the lease implements the slot. *)
SlotRefinement == Slot!SlotSpec

(* The loss of a lease is looked at after the model call.  A result of a call
   that no longer holds the key is kept only when the renewer has not yet come
   round to notice: its next turn is still to come, or under way. *)
LostCallKeepsNothing ==
    [][\A l \in accepted' \ accepted : key = l \/ renewer[l] \in {"sleep", "checked"}]_vars

(* While a caller whose lease was lost and reported is still inside its model
   call, or on its way out, nobody else gets the lease: "Overlapping
   Whisper/Ollama jobs cannot start after a lease expiry because the unsafe marker
   blocks the next acquisition". *)
NoWorkBesideALoss ==
    [][\A l, m \in Leases :
        ~(pc[l] = "new" /\ pc'[l] = "held" /\ m \in lost /\ renewer[m] = "dead" /\ Acquired(m))]_vars

(* The key leaves its owner only through that owner's release, through the end
   of the TTL, or through a recovery; never by the release of an old token. *)
OwnerKeepsKey ==
    [][\A l \in Leases : key = l /\ key' # l
        => \/ pc[l] = "deleting" /\ pc'[l] = "done"
           \/ operator = "confirmed" /\ operator' = "idle"
           \/ pc' = pc /\ operator' = operator]_vars

(* Recovery "never deletes a valid newly acquired lease". *)
RecoverySparesValidLease ==
    [][operator = "confirmed" /\ operator' = "idle" /\ key # NoLease
        => pc[key] \in {"retained", "done", "dead"}]_vars

(* "An Ollama lease is never released before unload is confirmed or the bounded
   failure path has recorded that the environment is unsafe". *)
UnloadBeforeRelease ==
    \A l \in resident : Kind[l] \in OllamaKinds /\ pc[l] \in {"retained", "done"}
        => Unsafe \/ key = l

(* The marker "is written when an Ollama unload fails or when a heavy-model
   lease is lost while work is active". *)
MarkerMeansActiveWork ==
    [][unsafe' # unsafe /\ unsafe' # NoLease => Acquired(unsafe')]_vars

(* "If the Redis lease renewal fails or ownership is lost while Whisper work is
   active, the spawned child is cancelled and reaped": from the moment another
   process may take the key, renewer, cancel event and poll together end the child
   that is still at work, however long its call would have lasted, unless its
   parent dies first. *)
LostChildStops ==
    \A l \in Leases :
        pc[l] = "working" /\ key # l /\ Kind[l] \in {"whisper", "bench"}
            ~> l \notin resident \/ pc[l] = "dead"
=============================================================================
