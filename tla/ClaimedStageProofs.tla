-------------------------- MODULE ClaimedStageProofs --------------------------
(***************************************************************************)
(* Theorems of ClaimedStage for any number of jobs, deliveries and requests *)
(* and, unless one says otherwise, under every fault.                       *)
(***************************************************************************)
EXTENDS ClaimedStage, TLAPS

(* Type correctness, whatever the faults. *)
THEOREM TypeCorrect == Spec => []TypeOK
<1> USE StageConstants DEF JobStatus, Active, RowStatus, Rows, NewRow, ClientPC, WorkerPC,
                           Unclaimed, Beat
<1>1. Init => TypeOK
  BY DEF Init, TypeOK
<1>2. TypeOK /\ [Next]_vars => TypeOK'
  <2> SUFFICES ASSUME TypeOK, [Next]_vars PROVE TypeOK'
    OBVIOUS
  <2> USE DEF TypeOK, jobVars, workerVars, clientVars
  <2>1. ASSUME NEW c \in Clients, QueueRequest(c) \/ Client(c) PROVE TypeOK'
    <3> USE DEF Return, Send
    <3>1. CASE QueueRequest(c)  BY <3>1 DEF QueueRequest
    <3>2. CASE QueueActive(c)
      <4>1. inbox' \in [Jobs -> Nat]  BY <3>2 DEF QueueActive, ActiveJobs
      <4>2. tries' \in [Clients -> 0..2]  BY <3>2 DEF QueueActive
      <4>3. UNCHANGED <<jobVars, row, workerVars, cancelling>>  BY <3>2 DEF QueueActive
      <4>4. \/ Return(c)
            \/ /\ cpc' \in [Clients -> ClientPC] /\ cpc'[c] # "dispatch"
               /\ \A d \in Clients \ {c} : cpc'[d] = cpc[d]
               /\ UNCHANGED <<seen, cjob>>
        BY <3>2 DEF QueueActive
      <4>5. /\ cpc' \in [Clients -> ClientPC]
            /\ seen' \in [Clients -> Jobs \union {NoJob}]
            /\ cjob' \in [Clients -> Jobs \union {NoJob}]
            /\ \A d \in Clients : cpc'[d] = "dispatch" => cjob'[d] \in Jobs
        BY <4>4
      <4> QED  BY <4>1, <4>2, <4>3, <4>5
    <3>3. CASE QueueClear(c)  BY <3>3 DEF QueueClear
    <3>4. CASE QueueCached(c)  BY <3>4 DEF QueueCached
    <3>5. CASE QueueClaim(c)
      <4>1. CASE row.active = NoJob
        <5>1. PICK j \in Jobs :
                /\ status' = [status EXCEPT ![j] = "QUEUED"]
                /\ row' = [row EXCEPT !.active = j]
                /\ cjob' = [cjob EXCEPT ![c] = j]
                /\ cpc' = [cpc EXCEPT ![c] = "dispatch"]
          BY <3>5, <4>1 DEF QueueClaim
        <5>2. UNCHANGED <<version, stale, inbox, workerVars, seen, tries, cancelling>>
          BY <3>5, <4>1 DEF QueueClaim
        <5> QED  BY <5>1, <5>2
      <4>2. CASE row.active # NoJob  BY <3>5, <4>2 DEF QueueClaim
      <4> QED  BY <4>1, <4>2
    <3>6. CASE QueueDispatch(c)  BY <3>6 DEF QueueDispatch
    <3> HIDE DEF TypeOK
    <3> QED  BY <2>1, <3>1, <3>2, <3>3, <3>4, <3>5, <3>6 DEF Client
  <2>2. ASSUME NEW w \in Workers, Take(w) PROVE TypeOK'
    <3>1. PICK j \in Jobs : Deliver(w, j)  BY <2>2 DEF Take
    <3>2. inbox' \in [Jobs -> Nat]
      <4>1. inbox[j] \in Nat /\ inbox[j] > 0 /\ inbox' = [inbox EXCEPT ![j] = @ - 1]
        BY <3>1 DEF Deliver
      <4> HIDE DEF TypeOK
      <4>2. inbox \in [Jobs -> Nat] /\ inbox[j] - 1 \in Nat  BY <4>1 DEF TypeOK
      <4> QED  BY <4>1, <4>2
    <3>3. UNCHANGED <<status, version, stale, row, cpc, seen, cjob, tries, cancelling>>
      BY <3>1 DEF Deliver
    <3>4. CASE UNCHANGED workerVars  BY <3>2, <3>3, <3>4
    <3>5. CASE ~UNCHANGED workerVars
      <4>1. /\ wpc' = [wpc EXCEPT ![w] = "start"]
            /\ wjob' = [wjob EXCEPT ![w] = j]
            /\ UNCHANGED <<token, copy>>
        BY <3>1, <3>5 DEF Deliver, Goto
      <4> QED  BY <3>2, <3>3, <4>1
    <3> QED  BY <3>4, <3>5
  <2>3. ASSUME NEW w \in Workers, Worker(w) PROVE TypeOK'
    <3> USE DEF Goto, Ack, WriteRow, OverwriteRow, Send, CancelledRow, FailedRow, CompleteRow
    <3>1. CASE Start(w)  BY <3>1 DEF Start
    <3>2. CASE StartCancelled(w)  BY <3>2 DEF StartCancelled
    <3>3. CASE ClaimJob(w)  BY <3>3 DEF ClaimJob
    <3>4. CASE SkipDuplicate(w)  BY <3>4 DEF SkipDuplicate
    <3>5. CASE ReadToken(w)  BY <3>5 DEF ReadToken
    <3>6. CASE Check(w)  BY <3>6 DEF Check
    <3>7. CASE GiveUp(w)  BY <3>7 DEF GiveUp
    <3>8. CASE TakeRow(w)  BY <3>8 DEF TakeRow
    <3>9. CASE Work(w)  BY <3>9 DEF Work
    <3>10. CASE Persist(w)  BY <3>10 DEF Persist
    <3>11. CASE PersistRejected(w)  BY <3>11 DEF PersistRejected
    <3>12. CASE ReconcileCancelled(w)  BY <3>12 DEF ReconcileCancelled
    <3>13. CASE Finish(w)  BY <3>13 DEF Finish
    <3>14. CASE MarkFailed(w)  BY <3>14 DEF MarkFailed
    <3>15. CASE FinishFailed(w)  BY <3>15 DEF FinishFailed
    <3>16. CASE PersistFails(w)  BY <3>16 DEF PersistFails
    <3>17. CASE RecordFailure(w)  BY <3>17 DEF RecordFailure
    <3>18. CASE Raise(w)  BY <3>18 DEF Raise
    <3>19. CASE FailUnclaimed(w)  BY <3>19 DEF FailUnclaimed
    <3> HIDE DEF TypeOK
    <3> QED  BY <2>3, <3>1, <3>2, <3>3, <3>4, <3>5, <3>6, <3>7, <3>8, <3>9, <3>10, <3>11,
                <3>12, <3>13, <3>14, <3>15, <3>16, <3>17, <3>18, <3>19 DEF Worker
  <2>4. ASSUME NEW w \in Workers, Broken(w) PROVE TypeOK'
    <3> USE DEF Send, Ack, Goto
    <3>1. CASE Heartbeat(w)  BY <3>1 DEF Heartbeat
    <3>2. CASE Crash(w)  BY <3>2 DEF Crash
    <3>3. CASE Redeliver(w)  BY <3>3 DEF Redeliver
    <3> HIDE DEF TypeOK
    <3> QED  BY <2>4, <3>1, <3>2, <3>3 DEF Broken
  <2>5. ASSUME NEW j \in Jobs, Outside(j) PROVE TypeOK'
    BY <2>5 DEF Outside, CancelRead, CancelWrite, GoStale
  <2>6. CASE UNCHANGED vars
    BY <2>6 DEF vars
  <2> QED  BY <2>1, <2>2, <2>3, <2>4, <2>5, <2>6 DEF Next
<1> QED  BY <1>1, <1>2, PTL DEF Spec

-----------------------------------------------------------------------------
(* No delivery is stopped between its claim and the read of its token. *)
TokensAreRead == "claimStall" \notin Faults

LEMMA TokenInvInit == Init => TokenInv
BY StageConstants DEF Init, TokenInv, Unclaimed

LEMMA TokenInvStep ==
  ASSUME TokensAreRead, TypeOK, TokenInv, [Next]_vars
  PROVE  TokenInv'
<1> DEFINE Same == UNCHANGED <<version, wpc, wjob, token>>
<1> USE StageConstants DEF TokensAreRead, jobVars, workerVars, clientVars
<1> DEFINE Types == /\ status \in [Jobs -> JobStatus] /\ version \in [Jobs -> Nat]
                    /\ wpc \in [Workers -> WorkerPC]
                    /\ wjob \in [Workers -> Jobs \union {NoJob}]
                    /\ \A w \in Workers : wpc[w] # "idle" => wjob[w] \in Jobs
                    /\ token \in [Workers -> Nat]
<1>0. Types
  BY DEF TypeOK
<1> USE <1>0 DEF TokenInv
<1>1. ASSUME NEW c \in Clients, QueueRequest(c) \/ Client(c) PROVE TokenInv'
  <2>1. /\ Same /\ UNCHANGED stale
        /\ \A j \in Jobs : status[j] # "none" => status'[j] = status[j]
    BY <1>1 DEF QueueRequest, Client, QueueActive, QueueClear, QueueCached, QueueClaim,
                QueueDispatch
  <2> QED  BY <2>1
<1>2. ASSUME NEW w \in Workers, Take(w) PROVE TokenInv'
  <2>1. PICK j \in Jobs : Deliver(w, j)  BY <1>2 DEF Take
  <2>2. UNCHANGED <<status, version, stale, token>> /\ wpc[w] = "idle"
    BY <2>1 DEF Deliver
  <2>3. token[w] = 0  BY <2>2 DEF Unclaimed
  <2>4. CASE UNCHANGED <<wpc, wjob>>  BY <2>2, <2>4
  <2>5. CASE ~UNCHANGED <<wpc, wjob>>
    <3>1. wpc' = [wpc EXCEPT ![w] = "start"] /\ wjob' = [wjob EXCEPT ![w] = j]
      BY <2>1, <2>5 DEF Deliver, Goto
    <3>2. version[j] \in Nat  OBVIOUS
    <3> QED  BY <2>2, <2>3, <3>1, <3>2 DEF Unclaimed
  <2> QED  BY <2>4, <2>5
<1>3. ASSUME NEW w \in Workers, Worker(w) PROVE TokenInv'
  <2> USE DEF Goto, Ack, Unclaimed
  <2>1. CASE Start(w)  BY <2>1 DEF Start
  <2>2. CASE StartCancelled(w)  BY <2>2 DEF StartCancelled
  <2>3. CASE ClaimJob(w)  BY <2>3 DEF ClaimJob, Claimable
  <2>4. CASE SkipDuplicate(w)  BY <2>4 DEF SkipDuplicate
  <2>5. CASE ReadToken(w)  BY <2>5 DEF ReadToken
  <2>6. CASE Check(w)  BY <2>6 DEF Check
  <2>7. CASE GiveUp(w)  BY <2>7 DEF GiveUp
  <2>8. CASE TakeRow(w)  BY <2>8 DEF TakeRow
  <2>9. CASE Work(w)  BY <2>9 DEF Work
  <2>10. CASE Persist(w)  BY <2>10 DEF Persist
  <2>11. CASE PersistRejected(w)  BY <2>11 DEF PersistRejected
  <2>12. CASE ReconcileCancelled(w)  BY <2>12 DEF ReconcileCancelled
  <2>13. CASE Finish(w)  BY <2>13 DEF Finish, Owns, Current
  <2>14. CASE MarkFailed(w)  BY <2>14 DEF MarkFailed
  <2>15. CASE FinishFailed(w)  BY <2>15 DEF FinishFailed, Owns, Current
  <2>16. CASE PersistFails(w)  BY <2>16 DEF PersistFails
  <2>17. CASE RecordFailure(w)  BY <2>17 DEF RecordFailure
  <2>18. CASE Raise(w)  BY <2>18 DEF Raise
  <2>19. CASE FailUnclaimed(w)  BY <2>19 DEF FailUnclaimed
  <2> HIDE DEF TokenInv, Goto, Ack, Unclaimed
  <2> QED  BY <1>3, <2>1, <2>2, <2>3, <2>4, <2>5, <2>6, <2>7, <2>8, <2>9, <2>10, <2>11,
              <2>12, <2>13, <2>14, <2>15, <2>16, <2>17, <2>18, <2>19 DEF Worker
<1>4. ASSUME NEW w \in Workers, Broken(w) PROVE TokenInv'
  BY <1>4 DEF Broken, Heartbeat, Crash, Redeliver, Ack, Goto, Unclaimed
<1>5. ASSUME NEW j \in Jobs, Outside(j) PROVE TokenInv'
  BY <1>5 DEF Outside, CancelRead, CancelWrite, GoStale
<1>6. CASE UNCHANGED vars
  BY <1>6 DEF vars
<1> QED  BY <1>1, <1>2, <1>3, <1>4, <1>5, <1>6 DEF Next

(* The tokens order the claims of a job. *)
THEOREM TokensInOrder == ASSUME TokensAreRead PROVE Spec => []TokenInv
BY TokenInvInit, TokenInvStep, TypeCorrect, PTL DEF Spec

(* Whatever crashes, stalls and duplicates do, at most one delivery holds the
   current claim of a job. *)
THEOREM OneOwner == ASSUME TokensAreRead PROVE Spec => []SingleOwner
<1>1. TokenInv => SingleOwner
  BY DEF TokenInv, SingleOwner, Current
<1> QED  BY <1>1, TokensInOrder, PTL

-----------------------------------------------------------------------------
(* What each part of Next may do to a job's status and to the row. *)
LEMMA QueueSteps ==
  ASSUME TypeOK, NEW c \in Clients, QueueRequest(c) \/ Client(c)
  PROVE  /\ \A j \in Jobs : status[j] # "none" => status'[j] = status[j]
         /\ row'.status = row.status
         /\ UNCHANGED workerVars
BY DEF QueueRequest, Client, QueueActive, QueueClear, QueueCached, QueueClaim, QueueDispatch,
       jobVars, workerVars, TypeOK, Rows

LEMMA QuietSteps ==
  ASSUME \/ \E w \in Workers : Take(w) \/ Broken(w)
         \/ \E j \in Jobs : CancelRead(j) \/ GoStale(j)
         \/ UNCHANGED vars
  PROVE  UNCHANGED <<status, row>>
BY DEF Take, Deliver, Broken, Heartbeat, Crash, Redeliver, CancelRead, GoStale, vars, jobVars

(* A worker never overwrites a cancellation the API has written: it is never
   resurrected as running, successful or failed. *)
THEOREM CancellationSticks == Spec => CancelledIsFinal
<1>1. TypeOK /\ [Next]_vars
        => [\A j \in Jobs : status[j] = "CANCELLED" => status'[j] = "CANCELLED"]_vars
  <2> SUFFICES ASSUME TypeOK, [Next]_vars, NEW j \in Jobs, status[j] = "CANCELLED"
               PROVE  status'[j] = "CANCELLED"
    OBVIOUS
  <2>1. ASSUME NEW c \in Clients, QueueRequest(c) \/ Client(c) PROVE status'[j] = status[j]
    BY <2>1, QueueSteps
  <2>2. ASSUME NEW w \in Workers, Worker(w) PROVE status'[j] = status[j]
    <3> USE DEF jobVars
    <3>1. CASE ClaimJob(w)  BY <3>1 DEF ClaimJob, Claimable, TypeOK
    <3>2. CASE Finish(w)  BY <3>2 DEF Finish, Owns, TypeOK
    <3>3. CASE FinishFailed(w)  BY <3>3 DEF FinishFailed, Owns, TypeOK
    <3>4. CASE FailUnclaimed(w)  BY <3>4 DEF FailUnclaimed, TypeOK
    <3>5. CASE ~(ClaimJob(w) \/ Finish(w) \/ FinishFailed(w) \/ FailUnclaimed(w))
      BY <2>2, <3>5 DEF Worker, Start, StartCancelled, SkipDuplicate, ReadToken, Check, GiveUp,
           TakeRow, Work, Persist, PersistRejected, ReconcileCancelled, MarkFailed,
           PersistFails, RecordFailure, Raise
    <3> QED  BY <3>1, <3>2, <3>3, <3>4, <3>5
  <2>3. ASSUME NEW i \in Jobs, CancelWrite(i) PROVE status'[j] = "CANCELLED"
    BY <2>3 DEF CancelWrite, TypeOK
  <2> QED  BY <2>1, <2>2, <2>3, QuietSteps DEF Next, Outside
<1> QED  BY <1>1, TypeCorrect, PTL DEF Spec, CancelledIsFinal

(* Only a delivery that holds the current claim of a RUNNING job completes the
   row, so nothing is persisted by a superseded or a cancelled run. *)
THEOREM OnlyOwnersComplete == Spec => CompletionIsFenced
<1>1. TypeOK /\ [Next]_vars
        => [row'.status = "COMPLETE" /\ row.status # "COMPLETE"
              => \E w \in Workers : Owns(w) /\ wpc[w] = "persist" /\ wpc'[w] # "persist"]_vars
  <2> SUFFICES ASSUME TypeOK, [Next]_vars, row'.status = "COMPLETE", row.status # "COMPLETE"
               PROVE  \E w \in Workers : Owns(w) /\ wpc[w] = "persist" /\ wpc'[w] # "persist"
    OBVIOUS
  <2>1. ASSUME NEW c \in Clients, QueueRequest(c) \/ Client(c) PROVE FALSE
    BY <2>1, QueueSteps
  <2>2. ASSUME NEW w \in Workers, Worker(w), ~Persist(w) PROVE FALSE
    BY <2>2 DEF Worker, Start, StartCancelled, ClaimJob, SkipDuplicate, ReadToken, Check, GiveUp,
         TakeRow, Work, PersistRejected, ReconcileCancelled, Finish, MarkFailed, FinishFailed,
         PersistFails, RecordFailure, Raise, FailUnclaimed, WriteRow, OverwriteRow,
         CancelledRow, FailedRow
  <2>3. ASSUME NEW w \in Workers, Persist(w)
        PROVE  Owns(w) /\ wpc[w] = "persist" /\ wpc'[w] # "persist"
    BY <2>3 DEF Persist, Goto, TypeOK
  <2>4. ASSUME NEW j \in Jobs, CancelWrite(j) PROVE FALSE
    BY <2>4 DEF CancelWrite
  <2> QED  BY <2>1, <2>2, <2>3, <2>4, QuietSteps DEF Next, Outside
<1> QED  BY <1>1, TypeCorrect, PTL DEF Spec, CompletionIsFenced

(* A delivery moves itself only. *)
LEMMA WorkerMovesItself ==
  ASSUME TypeOK, NEW w \in Workers, NEW v \in Workers, v # w,
         Take(v) \/ Worker(v) \/ Broken(v)
  PROVE  wpc'[w] = wpc[w] /\ token'[w] = token[w]
BY DEF TypeOK, Take, Deliver, Worker, Start, StartCancelled, ClaimJob, SkipDuplicate, ReadToken,
       Check, GiveUp, TakeRow, Work, Persist, PersistRejected, ReconcileCancelled, Finish,
       MarkFailed, FinishFailed, PersistFails, RecordFailure, Raise, FailUnclaimed, Broken,
       Heartbeat, Crash, Redeliver, Goto, Ack, workerVars

(* A superseded delivery changes neither a job nor the row. *)
THEOREM SupersededWritesNothing == ASSUME TokensAreRead PROVE Spec => SupersededIsInert
<1>1. TypeOK /\ TokenInv /\ [Next]_vars
        => [\A w \in Workers :
              token[w] # 0 /\ ~Current(w) /\ <<wpc[w], token[w]>>' # <<wpc[w], token[w]>>
                => UNCHANGED <<status, row>>]_vars
  <2> SUFFICES ASSUME TypeOK, TokenInv, [Next]_vars, NEW w \in Workers, token[w] # 0,
                      ~Current(w), wpc'[w] # wpc[w] \/ token'[w] # token[w]
               PROVE  UNCHANGED <<status, row>>
    OBVIOUS
  <2>1. ASSUME NEW c \in Clients, QueueRequest(c) \/ Client(c) PROVE FALSE
    BY <2>1, QueueSteps DEF workerVars
  <2>2. ASSUME NEW v \in Workers, v # w, Take(v) \/ Worker(v) \/ Broken(v) PROVE FALSE
    BY <2>2, WorkerMovesItself
  <2>3. ASSUME Worker(w) PROVE UNCHANGED <<status, row>>
    <3>1. wpc[w] \notin Unclaimed  BY DEF TokenInv
    <3>2. ~Owns(w) /\ ~CancelledUnder(w)  BY DEF Owns, CancelledUnder
    <3> QED
      BY <2>3, <3>1, <3>2 DEF Worker, Start, StartCancelled, ClaimJob, SkipDuplicate, ReadToken,
           Check, GiveUp, TakeRow, Work, Persist, PersistRejected, ReconcileCancelled, Finish,
           MarkFailed, FinishFailed, PersistFails, RecordFailure, Raise, FailUnclaimed,
           Unclaimed, jobVars
  <2>4. ASSUME NEW j \in Jobs, CancelWrite(j) PROVE FALSE
    BY <2>4 DEF CancelWrite, workerVars
  <2> QED  BY <2>1, <2>2, <2>3, <2>4, QuietSteps DEF Next, Outside
<1> QED  BY <1>1, TypeCorrect, TokensInOrder, PTL DEF Spec, SupersededIsInert

-----------------------------------------------------------------------------
(* No job gets a second message: nothing crashes, repeats or retries a task or
   cancels it, and where the queue re-sends for stale runs (Stage 4.2) no run
   grows stale.  Stalls and failed writes of the other stages are allowed, and
   so are requests that die before they send. *)
JobsRunOnce ==
    /\ Faults \cap {"crash", "redeliver", "retry", "cancel"} = {}
    /\ RecoverStale => Faults \cap {"stall", "claimStall", "dbError"} = {}

AtDispatch(c, j) == cpc[c] = "dispatch" /\ cjob[c] = j
AtWorker(w, j) == wpc[w] # "idle" /\ wjob[w] = j
Holding == {"claimed", "check", "take", "work", "persist", "fail"}
Ending == {"finish", "failFinish", "recordFinish"}

(* A job is in one place: a message, a request about to send it, a delivery. *)
OnePlace ==
    /\ \A j \in Jobs : inbox[j] <= 1
    /\ \A j \in Jobs : inbox[j] > 0 =>
           /\ \A c \in Clients : ~AtDispatch(c, j)
           /\ \A w \in Workers : ~AtWorker(w, j)
    /\ \A j \in Jobs, c \in Clients : AtDispatch(c, j) =>
           /\ \A w \in Workers : ~AtWorker(w, j)
           /\ \A d \in Clients : AtDispatch(d, j) => d = c
    /\ \A j \in Jobs, w \in Workers : AtWorker(w, j) =>
           \A v \in Workers : AtWorker(v, j) => v = w

(* Its status tells the place, and a delivery past its claim owns it. *)
StatusOfPlace ==
    /\ cancelling = {} /\ \A j \in Jobs : status[j] # "CANCELLED"
    /\ \A j \in Jobs : inbox[j] > 0 => status[j] = "QUEUED"
    /\ \A j \in Jobs, c \in Clients : AtDispatch(c, j) => status[j] = "QUEUED"
    /\ \A w \in Workers :
        /\ wpc[w] \notin {"startCancel", "cancel", "reconcile"}
        /\ wpc[w] \in {"start", "claim"} => status[wjob[w]] = "QUEUED"
        /\ wpc[w] \in Holding \union Ending => status[wjob[w]] = "RUNNING"
        /\ wpc[w] = "record" => status[wjob[w]] \in {"RUNNING", "FAILED"}
        /\ wpc[w] = "raise" => status[wjob[w]] = "FAILED"
        /\ wpc[w] = "claimed" => version[wjob[w]] # 0
        /\ wpc[w] \notin Unclaimed => Current(w)

(* The row is held from the insertion of the job to the write that ends its
   run, and no request takes off a claim it has not seen ended. *)
RowHeld ==
    /\ \A j \in Jobs : status[j] = "QUEUED" => row.active = j
    /\ \A w \in Workers :
        /\ wpc[w] \in Holding => row.active = wjob[w]
        /\ wpc[w] = "record" /\ status[wjob[w]] = "RUNNING" => row.active = wjob[w]
        /\ wpc[w] \in Holding \union {"claim"} => copy[w].active = wjob[w]
    /\ \A j \in Jobs : status[j] = "none" => row.active # j /\ \A c \in Clients : seen[c] # j
    /\ \A c \in Clients : cpc[c] = "clear" => seen[c] \in Jobs /\ status[seen[c]] \notin Active

(* The queue of Stage 4.2 finds no stale run to send again. *)
NotAbandoned ==
    RecoverStale => \A j \in Jobs : status[j] = "RUNNING" =>
        /\ j \notin stale
        /\ \E w \in Workers : wjob[w] = j /\ wpc[w] \in Beat \union {"claimed"}

RunOnceInv == OnePlace /\ StatusOfPlace /\ RowHeld /\ NotAbandoned

LEMMA RunOnceInit == Init => RunOnceInv
BY StageConstants DEF Init, NewRow, RunOnceInv, OnePlace, StatusOfPlace, RowHeld, NotAbandoned, AtDispatch,
   AtWorker, Holding, Ending, Unclaimed, Beat

LEMMA RunOnceClient ==
  ASSUME JobsRunOnce, TypeOK, RunOnceInv, NEW c \in Clients, QueueRequest(c) \/ Client(c)
  PROVE  RunOnceInv'
<1> USE StageConstants DEF JobsRunOnce, TypeOK, RunOnceInv, jobVars, workerVars, clientVars
<1> USE DEF AtDispatch, AtWorker, Holding, Ending, Unclaimed, Beat, Active
<1> USE DEF OnePlace, StatusOfPlace, RowHeld, NotAbandoned, Current
<1>1. CASE QueueRequest(c)
  <2>1. OnePlace'  BY <1>1 DEF QueueRequest
  <2>2. StatusOfPlace'  BY <1>1 DEF QueueRequest
  <2>3. RowHeld'  BY <1>1 DEF QueueRequest
  <2>4. NotAbandoned'  BY <1>1 DEF QueueRequest
  <2> QED  BY <2>1, <2>2, <2>3, <2>4
<1>2. CASE QueueActive(c)
  <2>1. OnePlace'
    <3>1. UNCHANGED <<inbox, workerVars>>
      BY <1>2 DEF QueueActive, ActiveJobs
    <3>2. \A d \in Clients, j \in Jobs : AtDispatch(d, j)' => AtDispatch(d, j)
      BY <1>2 DEF QueueActive, Return
    <3> QED  BY <3>1, <3>2
  <2>2. StatusOfPlace'  BY <1>2 DEF QueueActive, Return, Send, ActiveJobs
  <2>3. RowHeld'  BY <1>2 DEF QueueActive, Return, Send, ActiveJobs
  <2>4. NotAbandoned'  BY <1>2 DEF QueueActive, Return, Send, ActiveJobs
  <2> QED  BY <2>1, <2>2, <2>3, <2>4
<1>3. CASE QueueClear(c)
  <2>1. OnePlace'  BY <1>3 DEF QueueClear, Rows
  <2>2. StatusOfPlace'  BY <1>3 DEF QueueClear, Rows
  <2>3. RowHeld'  BY <1>3 DEF QueueClear, Rows
  <2>4. NotAbandoned'  BY <1>3 DEF QueueClear, Rows
  <2> QED  BY <2>1, <2>2, <2>3, <2>4
<1>4. CASE QueueCached(c)
  <2>1. OnePlace'  BY <1>4 DEF QueueCached, Return
  <2>2. StatusOfPlace'  BY <1>4 DEF QueueCached, Return
  <2>3. RowHeld'  BY <1>4 DEF QueueCached, Return
  <2>4. NotAbandoned'  BY <1>4 DEF QueueCached, Return
  <2> QED  BY <2>1, <2>2, <2>3, <2>4
<1>5. CASE QueueClaim(c)
  <2>1. OnePlace'
    <3>1. UNCHANGED <<inbox, workerVars>>
      BY <1>5 DEF QueueClaim
    <3>2. CASE row.active = NoJob
      <4>1. PICK i \in Jobs : status[i] = "none" /\ cjob' = [cjob EXCEPT ![c] = i]
                             /\ cpc' = [cpc EXCEPT ![c] = "dispatch"]
        BY <1>5, <3>2 DEF QueueClaim
      <4>2. /\ inbox[i] = 0
            /\ \A w \in Workers : ~AtWorker(w, i)
            /\ \A d \in Clients : ~AtDispatch(d, i)
        <5>1. inbox[i] \in Nat /\ ~(inbox[i] > 0)
          BY <4>1
        <5>2. ASSUME NEW w \in Workers, AtWorker(w, i) PROVE FALSE
          BY <4>1, <5>2 DEF WorkerPC
        <5> QED  BY <4>1, <5>1, <5>2
      <4>3. \A d \in Clients, j \in Jobs :
              AtDispatch(d, j)' => AtDispatch(d, j) \/ (d = c /\ j = i)
        BY <4>1
      <4>4. \A j \in Jobs : ~AtDispatch(c, j)
        BY <1>5 DEF QueueClaim
      <4> QED  BY <3>1, <4>2, <4>3, <4>4
    <3>3. CASE row.active # NoJob
      <4>1. \A d \in Clients, j \in Jobs : AtDispatch(d, j)' => AtDispatch(d, j)
        BY <1>5, <3>3 DEF QueueClaim
      <4> QED  BY <3>1, <4>1
    <3> QED  BY <3>2, <3>3
  <2>2. StatusOfPlace'  BY <1>5 DEF QueueClaim, Rows
  <2>3. RowHeld'  BY <1>5 DEF QueueClaim, Rows
  <2>4. NotAbandoned'  BY <1>5 DEF QueueClaim, Rows
  <2> QED  BY <2>1, <2>2, <2>3, <2>4
<1>6. CASE QueueDispatch(c)
  <2>1. OnePlace'
    <3>1. UNCHANGED workerVars
      BY <1>6 DEF QueueDispatch
    <3>2. PICK i \in Jobs : AtDispatch(c, i)
      BY <1>6 DEF QueueDispatch
    <3>3. /\ inbox[i] = 0 /\ \A w \in Workers : ~AtWorker(w, i)
          /\ \A d \in Clients \ {c} : ~AtDispatch(d, i)
      BY <3>2
    <3>4. \A d \in Clients, j \in Jobs : AtDispatch(d, j)' => AtDispatch(d, j) /\ d # c
      BY <1>6 DEF QueueDispatch, Return
    <3>5. inbox' \in {inbox, [inbox EXCEPT ![i] = @ + 1]}
      BY <1>6, <3>2 DEF QueueDispatch, Send
    <3>6. \A j \in Jobs : inbox'[j] = inbox[j] \/ (j = i /\ inbox'[j] = 1)
      BY <3>3, <3>5
    <3> QED  BY <3>1, <3>3, <3>4, <3>6
  <2>2. StatusOfPlace'  BY <1>6 DEF QueueDispatch, Return, Send
  <2>3. RowHeld'  BY <1>6 DEF QueueDispatch, Return, Send
  <2>4. NotAbandoned'  BY <1>6 DEF QueueDispatch, Return, Send
  <2> QED  BY <2>1, <2>2, <2>3, <2>4
<1> QED  BY <1>1, <1>2, <1>3, <1>4, <1>5, <1>6 DEF Client

(* A delivery that goes on, or ends, sends nothing and takes no other job. *)
LEMMA WorkerKeepsPlace ==
  ASSUME JobsRunOnce, TypeOK, OnePlace, NEW w \in Workers, Worker(w)
  PROVE  OnePlace'
<1>1. UNCHANGED <<inbox, clientVars>>
  BY DEF JobsRunOnce, Worker, Start, StartCancelled, ClaimJob, SkipDuplicate, ReadToken, Check,
         GiveUp, TakeRow, Work, Persist, PersistRejected, ReconcileCancelled, Finish,
         MarkFailed, FinishFailed, PersistFails, RecordFailure, Raise, FailUnclaimed
<1>2. \A v \in Workers, j \in Jobs : AtWorker(v, j)' => AtWorker(v, j)
  BY DEF TypeOK, AtWorker, Worker, Goto, Ack, workerVars, Start, StartCancelled, ClaimJob,
         SkipDuplicate, ReadToken, Check, GiveUp, TakeRow, Work, Persist, PersistRejected,
         ReconcileCancelled, Finish, MarkFailed, FinishFailed, PersistFails, RecordFailure,
         Raise, FailUnclaimed
<1> QED  BY <1>1, <1>2 DEF OnePlace, AtDispatch, clientVars

(* What a delivery writes into its job fits the place it goes to. *)
LEMMA WorkerStatus ==
  ASSUME JobsRunOnce, TypeOK, OnePlace, StatusOfPlace, RowHeld, NEW w \in Workers, Worker(w)
  PROVE  StatusOfPlace'
<1> USE StageConstants DEF JobsRunOnce, TypeOK, jobVars, workerVars, clientVars
<1> USE DEF OnePlace, StatusOfPlace, RowHeld, Current
<1> USE DEF AtDispatch, AtWorker, Holding, Ending, Unclaimed, Beat, Active
<1>1. CASE Start(w)  BY <1>1 DEF Start, Goto
<1>2. CASE StartCancelled(w)  BY <1>2 DEF StartCancelled, Ack, Goto
<1>3. CASE ClaimJob(w)  BY <1>3 DEF ClaimJob, Claimable, Goto
<1>4. CASE SkipDuplicate(w)  BY <1>4 DEF SkipDuplicate, Claimable, Ack, Goto
<1>5. CASE ReadToken(w)  BY <1>5 DEF ReadToken, Goto
<1>6. CASE Check(w)  BY <1>6 DEF Check, Goto, ActiveJobs
<1>7. CASE GiveUp(w)  BY <1>7 DEF GiveUp, Owns, CancelledUnder, Ack, Goto
<1>8. CASE TakeRow(w)  BY <1>8 DEF TakeRow, Owns, WriteRow, Goto
<1>9. CASE Work(w)  BY <1>9 DEF Work, Goto, CancelledUnder
<1>10. CASE Persist(w)  BY <1>10 DEF Persist, Owns, WriteRow, CompleteRow, Goto
<1>11. CASE PersistRejected(w)  BY <1>11 DEF PersistRejected, CancelledUnder, Goto
<1>12. CASE ReconcileCancelled(w)  BY <1>12 DEF ReconcileCancelled, CancelledUnder,
      OverwriteRow, CancelledRow, Ack, Goto
<1>13. CASE Finish(w)  BY <1>13 DEF Finish, Owns, Ack, Goto
<1>14. CASE MarkFailed(w)  BY <1>14 DEF MarkFailed, Owns, WriteRow, FailedRow, CancelledUnder,
      CancelledRow, Goto
<1>15. CASE FinishFailed(w)  BY <1>15 DEF FinishFailed, Owns, Goto
<1>16. CASE PersistFails(w)  BY <1>16 DEF PersistFails, Owns, Goto
<1>17. CASE RecordFailure(w)  BY <1>17 DEF RecordFailure, Owns, OverwriteRow, FailedRow, Goto,
      CancelledUnder, CancelledRow
<1>18. CASE Raise(w)  BY <1>18 DEF Raise, Send, Ack, Goto
<1>19. CASE FailUnclaimed(w)  BY <1>19 DEF FailUnclaimed, OverwriteRow, FailedRow, Ack, Goto
<1> QED  BY <1>1, <1>2, <1>3, <1>4, <1>5, <1>6, <1>7, <1>8, <1>9, <1>10, <1>11, <1>12, <1>13,
         <1>14, <1>15, <1>16, <1>17, <1>18, <1>19 DEF Worker

(* A delivery lets the row go with the end of its run, and takes no other's. *)
LEMMA WorkerRow ==
  ASSUME JobsRunOnce, TypeOK, OnePlace, StatusOfPlace, RowHeld, NEW w \in Workers, Worker(w)
  PROVE  RowHeld'
<1> USE StageConstants DEF JobsRunOnce, TypeOK, jobVars, workerVars, clientVars
<1> USE DEF OnePlace, StatusOfPlace, RowHeld, Current
<1> USE DEF AtDispatch, AtWorker, Holding, Ending, Unclaimed, Beat, Active
<1>1. CASE Start(w)  BY <1>1 DEF Start, Goto
<1>2. CASE StartCancelled(w)  BY <1>2 DEF StartCancelled, Ack, Goto
<1>3. CASE ClaimJob(w)  BY <1>3 DEF ClaimJob, Claimable, Goto
<1>4. CASE SkipDuplicate(w)  BY <1>4 DEF SkipDuplicate, Claimable, Ack, Goto
<1>5. CASE ReadToken(w)  BY <1>5 DEF ReadToken, Goto
<1>6. CASE Check(w)  BY <1>6 DEF Check, Goto, ActiveJobs
<1>7. CASE GiveUp(w)  BY <1>7 DEF GiveUp, Owns, CancelledUnder, Ack, Goto
<1>8. CASE TakeRow(w)  BY <1>8 DEF TakeRow, Owns, WriteRow, Goto
<1>9. CASE Work(w)  BY <1>9 DEF Work, Goto, CancelledUnder
<1>10. CASE Persist(w)  BY <1>10 DEF Persist, Owns, WriteRow, CompleteRow, Goto
<1>11. CASE PersistRejected(w)  BY <1>11 DEF PersistRejected, CancelledUnder, Goto
<1>12. CASE ReconcileCancelled(w)  BY <1>12 DEF ReconcileCancelled, CancelledUnder,
      OverwriteRow, CancelledRow, Ack, Goto
<1>13. CASE Finish(w)  BY <1>13 DEF Finish, Owns, Ack, Goto
<1>14. CASE MarkFailed(w)  BY <1>14 DEF MarkFailed, Owns, WriteRow, FailedRow, CancelledUnder,
      CancelledRow, Goto
<1>15. CASE FinishFailed(w)  BY <1>15 DEF FinishFailed, Owns, Goto
<1>16. CASE PersistFails(w)  BY <1>16 DEF PersistFails, Owns, Goto
<1>17. CASE RecordFailure(w)  BY <1>17 DEF RecordFailure, Owns, OverwriteRow, FailedRow, Goto,
      CancelledUnder, CancelledRow
<1>18. CASE Raise(w)  BY <1>18 DEF Raise, Send, Ack, Goto
<1>19. CASE FailUnclaimed(w)  BY <1>19 DEF FailUnclaimed, OverwriteRow, FailedRow, Ack, Goto
<1> QED  BY <1>1, <1>2, <1>3, <1>4, <1>5, <1>6, <1>7, <1>8, <1>9, <1>10, <1>11, <1>12, <1>13,
         <1>14, <1>15, <1>16, <1>17, <1>18, <1>19 DEF Worker

(* A run is left only when its job has ended. *)
LEMMA WorkerStays ==
  ASSUME JobsRunOnce, TypeOK, RunOnceInv, NEW w \in Workers, Worker(w)
  PROVE  NotAbandoned'
<1> USE StageConstants DEF JobsRunOnce, TypeOK, jobVars, workerVars, clientVars
<1> USE DEF RunOnceInv, OnePlace, StatusOfPlace, NotAbandoned, Current
<1> USE DEF AtWorker, Holding, Ending, Unclaimed, Beat, Active
<1>1. CASE Start(w)  BY <1>1 DEF Start, Goto
<1>2. CASE StartCancelled(w)  BY <1>2 DEF StartCancelled, Ack, Goto
<1>3. CASE ClaimJob(w)  BY <1>3 DEF ClaimJob, Claimable, Goto
<1>4. CASE SkipDuplicate(w)  BY <1>4 DEF SkipDuplicate, Claimable, Ack, Goto
<1>5. CASE ReadToken(w)  BY <1>5 DEF ReadToken, Goto
<1>6. CASE Check(w)  BY <1>6 DEF Check, Goto, ActiveJobs
<1>7. CASE GiveUp(w)  BY <1>7 DEF GiveUp, Owns, CancelledUnder, Ack, Goto
<1>8. CASE TakeRow(w)  BY <1>8 DEF TakeRow, Owns, WriteRow, Goto
<1>9. CASE Work(w)  BY <1>9 DEF Work, Goto, CancelledUnder
<1>10. CASE Persist(w)  BY <1>10 DEF Persist, Owns, WriteRow, CompleteRow, Goto
<1>11. CASE PersistRejected(w)  BY <1>11 DEF PersistRejected, CancelledUnder, Goto
<1>12. CASE ReconcileCancelled(w)  BY <1>12 DEF ReconcileCancelled, CancelledUnder,
      OverwriteRow, CancelledRow, Ack, Goto
<1>13. CASE Finish(w)  BY <1>13 DEF Finish, Owns, Ack, Goto
<1>14. CASE MarkFailed(w)  BY <1>14 DEF MarkFailed, Owns, WriteRow, FailedRow, CancelledUnder,
      CancelledRow, Goto
<1>15. CASE FinishFailed(w)  BY <1>15 DEF FinishFailed, Owns, Goto
<1>16. CASE PersistFails(w)  BY <1>16 DEF PersistFails, Owns, Goto
<1>17. CASE RecordFailure(w)  BY <1>17 DEF RecordFailure, Owns, OverwriteRow, FailedRow, Goto,
      CancelledUnder, CancelledRow
<1>18. CASE Raise(w)  BY <1>18 DEF Raise, Send, Ack, Goto
<1>19. CASE FailUnclaimed(w)  BY <1>19 DEF FailUnclaimed, OverwriteRow, FailedRow, Ack, Goto
<1> QED  BY <1>1, <1>2, <1>3, <1>4, <1>5, <1>6, <1>7, <1>8, <1>9, <1>10, <1>11, <1>12, <1>13,
         <1>14, <1>15, <1>16, <1>17, <1>18, <1>19 DEF Worker

LEMMA RunOnceWorker ==
  ASSUME JobsRunOnce, TypeOK, RunOnceInv, NEW w \in Workers, Worker(w)
  PROVE  RunOnceInv'
BY WorkerKeepsPlace, WorkerStatus, WorkerRow, WorkerStays DEF RunOnceInv

LEMMA RunOnceTake ==
  ASSUME JobsRunOnce, TypeOK, RunOnceInv, NEW w \in Workers, Take(w)
  PROVE  RunOnceInv'
<1> USE StageConstants DEF TypeOK, RunOnceInv, jobVars, workerVars, clientVars
<1> USE DEF AtDispatch, AtWorker, Holding, Ending, Unclaimed, Beat, Active
<1> USE DEF OnePlace, StatusOfPlace, RowHeld, NotAbandoned, Current
<1>1. PICK j \in Jobs : Deliver(w, j)
  BY DEF Take
<1>2. /\ UNCHANGED <<jobVars, row, clientVars, cancelling, token, copy>>
      /\ wpc[w] = "idle" /\ inbox[j] = 1 /\ status[j] = "QUEUED"
      /\ wpc' = [wpc EXCEPT ![w] = "start"] /\ wjob' = [wjob EXCEPT ![w] = j]
  BY <1>1 DEF Deliver, Goto
<1>3. inbox' = [inbox EXCEPT ![j] = 0]
  BY <1>1, <1>2 DEF Deliver
<1>4. OnePlace'
  <2>1. \A v \in Workers, i \in Jobs : AtWorker(v, i)' => AtWorker(v, i) \/ (v = w /\ i = j)
    BY <1>2
  <2>2. \A i \in Jobs : ~AtWorker(w, i)
    BY <1>2
  <2>3. /\ \A v \in Workers : ~AtWorker(v, j)
        /\ \A d \in Clients : ~AtDispatch(d, j)
    BY <1>2
  <2> QED  BY <1>2, <1>3, <2>1, <2>2, <2>3
<1>5. StatusOfPlace'  BY <1>2, <1>3
<1>6. RowHeld'  BY <1>2, <1>3
<1>7. NotAbandoned'  BY <1>2, <1>3
<1> QED  BY <1>4, <1>5, <1>6, <1>7

LEMMA RunOnceOutside ==
  ASSUME JobsRunOnce, TypeOK, RunOnceInv,
         \/ \E w \in Workers : Broken(w)
         \/ \E j \in Jobs : Outside(j)
         \/ UNCHANGED vars
  PROVE  RunOnceInv'
<1> USE StageConstants DEF JobsRunOnce, TypeOK, RunOnceInv, jobVars, workerVars, clientVars
<1>1. /\ UNCHANGED <<status, version, row, inbox, workerVars, clientVars, cancelling>>
      /\ stale' \subseteq stale \/ \E j \in Jobs : GoStale(j)
  BY DEF Broken, Heartbeat, Crash, Redeliver, Outside, CancelRead, CancelWrite, GoStale, vars,
         StatusOfPlace
<1>2. OnePlace' /\ StatusOfPlace' /\ RowHeld'
  BY <1>1 DEF OnePlace, StatusOfPlace, RowHeld, AtDispatch, AtWorker, Holding, Ending, Current
<1>3. NotAbandoned'
  BY <1>1 DEF NotAbandoned, GoStale, StatusOfPlace, Beating, Unclaimed, Beat
<1> QED  BY <1>2, <1>3

(* Jobs that run once: their one place, its status and the row they hold. *)
THEOREM RunsOnce == ASSUME JobsRunOnce PROVE Spec => []RunOnceInv
<1>1. TypeOK /\ RunOnceInv /\ [Next]_vars => RunOnceInv'
  BY RunOnceClient, RunOnceTake, RunOnceWorker, RunOnceOutside DEF Next
<1> QED  BY <1>1, RunOnceInit, TypeCorrect, PTL DEF Spec

(* Two deliveries never plan the row at once, even when requests race, runs
   stall and results cannot be written: each would hold the row for its job. *)
THEOREM OneRowWorkerAtATime == ASSUME JobsRunOnce PROVE Spec => []OneRowWorker
<1>1. TypeOK /\ RunOnceInv => OneRowWorker
  <2> SUFFICES ASSUME TypeOK, RunOnceInv, NEW v \in Workers, NEW w \in Workers,
                      wpc[v] \in {"work", "persist"}, wpc[w] \in {"work", "persist"}
               PROVE  v = w
    BY DEF OneRowWorker
  <2>1. row.active = wjob[v] /\ row.active = wjob[w]
    BY DEF RunOnceInv, RowHeld, Holding
  <2> QED  BY <2>1 DEF TypeOK, RunOnceInv, OnePlace, AtWorker
<1> QED  BY <1>1, TypeCorrect, RunsOnce, PTL

(* A queued job keeps the row, though nothing may ever come to run it: a request
   takes off only the claim it has read, of a job that has ended. *)
THEOREM QueuedKeepsRow == ASSUME JobsRunOnce PROVE Spec => []QueuedJobHoldsRow
<1>1. RunOnceInv => QueuedJobHoldsRow
  BY DEF RunOnceInv, RowHeld, QueuedJobHoldsRow
<1> QED  BY <1>1, RunsOnce, PTL

(* Nobody but its own delivery takes the row from an active job: a request that
   clears a finished claim never clears a newer one. *)
THEOREM NewerClaimIsKept == ASSUME JobsRunOnce PROVE Spec => NewerClaimKeepsRow
<1>1. TypeOK /\ RunOnceInv /\ [Next]_vars
        => [\A j \in ActiveJobs : row.active = j /\ row'.active # j
              => \E w \in Workers : wjob[w] = j /\ wpc'[w] # wpc[w]]_vars
  <2> SUFFICES ASSUME TypeOK, RunOnceInv, [Next]_vars, NEW j \in ActiveJobs,
                      row.active = j, row'.active # j
               PROVE  \E w \in Workers : wjob[w] = j /\ wpc'[w] # wpc[w]
    OBVIOUS
  <2>1. ASSUME NEW c \in Clients, QueueRequest(c) \/ Client(c) PROVE FALSE
    <3>1. CASE QueueClear(c)
      BY <3>1 DEF QueueClear, RunOnceInv, RowHeld, ActiveJobs
    <3>2. CASE QueueClaim(c)
      BY <3>2, StageConstants DEF QueueClaim, ActiveJobs
    <3> QED  BY <2>1, <3>1, <3>2 DEF QueueRequest, Client, QueueActive, QueueCached, QueueDispatch
  <2>2. ASSUME NEW w \in Workers, Worker(w) PROVE wjob[w] = j /\ wpc'[w] # wpc[w]
    <3> USE DEF RunOnceInv, StatusOfPlace, RowHeld, Holding, Ending, TypeOK, ActiveJobs, Goto, Ack
    <3>1. CASE Persist(w)
      BY <3>1 DEF Persist
    <3>2. CASE MarkFailed(w)
      BY <3>2 DEF MarkFailed
    <3>3. CASE RecordFailure(w)
      BY <3>3 DEF RecordFailure, Owns, CancelledUnder
    <3>4. CASE FailUnclaimed(w)
      BY <3>4 DEF FailUnclaimed
    <3>5. CASE TakeRow(w)
      BY <3>5 DEF TakeRow, WriteRow
    <3>6. ASSUME ~Persist(w), ~MarkFailed(w), ~RecordFailure(w), ~FailUnclaimed(w), ~TakeRow(w)
          PROVE  FALSE
      BY <2>2, <3>6 DEF Worker, Start, StartCancelled, ClaimJob, SkipDuplicate, ReadToken, Check,
           GiveUp, Work, PersistRejected, ReconcileCancelled, Finish, FinishFailed, PersistFails,
           Raise
    <3> QED  BY <3>1, <3>2, <3>3, <3>4, <3>5, <3>6
  <2>3. ASSUME NEW i \in Jobs, CancelWrite(i) PROVE FALSE
    BY <2>3 DEF CancelWrite
  <2> QED  BY <2>1, <2>2, <2>3, QuietSteps DEF Next, Outside
<1> QED  BY <1>1, TypeCorrect, RunsOnce, PTL DEF Spec, NewerClaimKeepsRow

-----------------------------------------------------------------------------
(* The fenced job: what each part of Next does to the holders of a claim, to the
   jobs and to the completed plan set. *)
HeldBy == [j \in Jobs |-> {w \in Workers : Holds(w, j)}]
Completed == IF row.status = "COMPLETE" THEN {"row"} ELSE {}

(* The API cancels no job that was never inserted. *)
CancelsAJob == \A j \in cancelling : status[j] # "none"

LEMMA CancelsAJobStep ==
  ASSUME TypeOK, CancelsAJob, [Next]_vars
  PROVE  CancelsAJob'
<1> SUFFICES ASSUME NEW j \in cancelling' PROVE status'[j] # "none"
  BY DEF CancelsAJob
<1> USE DEF CancelsAJob, TypeOK, jobVars, workerVars, clientVars
<1>1. ASSUME NEW c \in Clients, QueueRequest(c) \/ Client(c) PROVE status'[j] # "none"
  <2>1. UNCHANGED cancelling
    BY <1>1 DEF QueueRequest, Client, QueueActive, QueueClear, QueueCached, QueueClaim, QueueDispatch
  <2> QED  BY <1>1, <2>1, QueueSteps
<1>2. ASSUME NEW w \in Workers, Take(w) \/ Broken(w) PROVE status'[j] # "none"
  BY <1>2 DEF Take, Deliver, Broken, Heartbeat, Crash, Redeliver
<1>3. ASSUME NEW w \in Workers, Worker(w) PROVE status'[j] # "none"
  BY <1>3 DEF Worker, Start, StartCancelled, ClaimJob, SkipDuplicate, ReadToken, Check, GiveUp,
       TakeRow, Work, Persist, PersistRejected, ReconcileCancelled, Finish, MarkFailed, FinishFailed,
       PersistFails, RecordFailure, Raise, FailUnclaimed
<1>4. ASSUME NEW i \in Jobs, Outside(i) PROVE status'[j] # "none"
  BY <1>4 DEF Outside, CancelRead, CancelWrite, GoStale, Active
<1>5. CASE UNCHANGED vars
  BY <1>5 DEF vars
<1> QED  BY <1>1, <1>2, <1>3, <1>4, <1>5 DEF Next

LEMMA CancelsAJobAlways == Spec => []CancelsAJob
<1>1. Init => CancelsAJob
  BY DEF Init, CancelsAJob
<1> QED  BY <1>1, CancelsAJobStep, TypeCorrect, PTL DEF Spec

(* A delivery that moves without claiming anything holds what it held. *)
LEMMA HoldsOn ==
  ASSUME UNCHANGED <<version, wjob, token>>, NEW w \in Workers,
         wpc[w] # "claimed", NEW label, label # "claimed", wpc' = [wpc EXCEPT ![w] = label],
         TypeOK
  PROVE  HeldBy' = HeldBy
<1>1. \A v \in Workers, j \in Jobs : Holds(v, j)' <=> Holds(v, j)
  BY DEF Holds, Current, TypeOK
<1> QED  BY <1>1 DEF HeldBy

(* A delivery that ends holds nothing any more. *)
LEMMA LetsGo ==
  ASSUME TypeOK, NEW w \in Workers, Ack(w), UNCHANGED version
  PROVE  HeldBy' = [j \in Jobs |-> HeldBy[j] \ {w}]
<1>1. \A v \in Workers \ {w}, j \in Jobs : Holds(v, j)' <=> Holds(v, j)
  BY DEF Holds, Current, TypeOK, Ack, Goto
<1>2. \A j \in Jobs : ~Holds(w, j)'
  BY StageConstants DEF Holds, Current, TypeOK, Ack, Goto
<1> QED  BY <1>1, <1>2 DEF HeldBy

(* The holder of a current token is the only one, and of one job. *)
LEMMA SoleHolder ==
  ASSUME TypeOK, TokenInv, NEW w \in Workers, wjob[w] \in Jobs, Current(w)
  PROVE  /\ HeldBy[wjob[w]] = {w}
         /\ \A j \in Jobs \ {wjob[w]} : w \notin HeldBy[j]
<1>1. \A v \in Workers \ {w} : ~Holds(v, wjob[w])
  <2> SUFFICES ASSUME NEW v \in Workers \ {w}, Holds(v, wjob[w]) PROVE FALSE
    OBVIOUS
  <2> QED  BY DEF Holds, Current, TokenInv
<1> QED  BY <1>1 DEF Holds, HeldBy

(* Nothing that is published is lost or added by a write that does not complete
   the row. *)
LEMMA NotCompleted ==
  ASSUME row'.status = row.status \/ row'.status # "COMPLETE"
  PROVE  Completed' \subseteq Completed
BY DEF Completed

LEMMA RefineClient ==
  ASSUME TypeOK, NEW c \in Clients, QueueRequest(c) \/ Client(c)
  PROVE  \/ \E j \in Jobs : Job!Insert(j)
         \/ UNCHANGED <<status, version, HeldBy, Completed>>
<1>1. UNCHANGED <<version, HeldBy, Completed>>
  <2>1. UNCHANGED <<version, wpc, wjob, token>>
    BY QueueSteps DEF workerVars, QueueRequest, Client, QueueActive, QueueClear, QueueCached, QueueClaim,
       QueueDispatch, jobVars
  <2> QED  BY <2>1, QueueSteps DEF HeldBy, Completed, Holds, Current
<1>2. \/ UNCHANGED status
      \/ \E j \in Jobs : status[j] = "none" /\ status' = [status EXCEPT ![j] = "QUEUED"]
  BY DEF QueueRequest, Client, QueueActive, QueueClear, QueueCached, QueueClaim, QueueDispatch, jobVars
<1> QED  BY <1>1, <1>2 DEF Job!Insert, Job!Withdraw, HeldBy, Completed

LEMMA RefineTake ==
  ASSUME TypeOK, TokenInv, NEW w \in Workers, Take(w)
  PROVE  UNCHANGED <<status, version, HeldBy, Completed>>
<1>1. PICK j \in Jobs : Deliver(w, j)
  BY DEF Take
<1>2. UNCHANGED <<status, version, row, token>> /\ wpc[w] = "idle" /\ token[w] = 0
  BY <1>1 DEF Deliver, jobVars, TokenInv, Unclaimed, workerVars
<1>3. \/ UNCHANGED <<wpc, wjob>>
      \/ wpc' = [wpc EXCEPT ![w] = "start"] /\ wjob' = [wjob EXCEPT ![w] = j]
  BY <1>1 DEF Deliver, workerVars, Goto
<1>4. \A v \in Workers, i \in Jobs : Holds(v, i)' <=> Holds(v, i)
  BY <1>2, <1>3 DEF Holds, Current, TypeOK
<1> QED  BY <1>2, <1>4 DEF HeldBy, Completed

LEMMA RefineWorker ==
  ASSUME TypeOK, TokenInv, NEW w \in Workers, Worker(w)
  PROVE  \/ \E j \in Jobs : Job!Refuse(j)
         \/ \E j \in Jobs : Job!Claim(w, j) \/ Job!Conclude(w, j)
         \/ Job!Leave({}) \/ Job!Leave({w})
         \/ UNCHANGED <<status, version, HeldBy, Completed>>
<1> DEFINE Goal == \/ \E j \in Jobs : Job!Refuse(j)
                   \/ \E j \in Jobs : Job!Claim(w, j) \/ Job!Conclude(w, j)
                   \/ Job!Leave({}) \/ Job!Leave({w})
                   \/ UNCHANGED <<status, version, HeldBy, Completed>>
<1>0. wjob[w] \in Jobs
  BY DEF TypeOK, Worker, Start, StartCancelled, ClaimJob, SkipDuplicate, ReadToken, Check, GiveUp,
       TakeRow, Work, Persist, PersistRejected, ReconcileCancelled, Finish, MarkFailed, FinishFailed,
       PersistFails, RecordFailure, Raise, FailUnclaimed
<1> USE <1>0
<1> SUFFICES Goal
  OBVIOUS
<1> HIDE DEF Goal
<1>1. ASSUME Ack(w), UNCHANGED <<status, version>>, row'.status = row.status \/ row'.status # "COMPLETE"
      PROVE  Goal
  BY <1>1, LetsGo, NotCompleted DEF Goal, Job!Leave, Job!Withdraw, HeldBy, Completed
<1>2. ASSUME UNCHANGED <<status, version, wjob, token>>, wpc[w] # "claimed",
             NEW label, label # "claimed", Goto(w, label),
             row'.status = row.status \/ row'.status # "COMPLETE"
      PROVE  Goal
  <2>1. HeldBy' = HeldBy /\ Completed' \subseteq Completed
    BY <1>2, HoldsOn, NotCompleted DEF Goto
  <2>2. HeldBy' = [j \in Jobs |-> HeldBy[j] \ {}]
    BY <2>1 DEF HeldBy
  <2> QED  BY <1>2, <2>1, <2>2 DEF Goal, Job!Leave, Job!Withdraw, HeldBy, Completed
<1>3. CASE Start(w)  BY <1>2, <1>3 DEF Start, jobVars
<1>4. CASE StartCancelled(w)  BY <1>1, <1>4 DEF StartCancelled, jobVars
<1>5. CASE ClaimJob(w)
  <2>0. PICK i \in Jobs : i = wjob[w]
    OBVIOUS
  <2>1. /\ status[i] \in {"QUEUED", "FAILED", "RUNNING"}
        /\ status' = [status EXCEPT ![i] = "RUNNING"]
        /\ version' = [version EXCEPT ![i] = @ + 1]
        /\ wpc' = [wpc EXCEPT ![w] = "claimed"]
        /\ UNCHANGED <<row, wjob, token>>
    BY <1>5, <2>0 DEF ClaimJob, Claimable, Goto
  <2>2. ASSUME NEW v \in Workers, v # w PROVE ~Holds(v, i)'
    <3>1. ~(wjob[v] = i /\ wpc[v] = "claimed")
      BY <1>5, <2>0 DEF TokenInv, ClaimJob, Claimable
    <3>2. wjob[v] = i => token[v] <= version[i]
      <4>1. CASE wpc[v] = "idle"  BY <4>1 DEF TokenInv, Unclaimed, TypeOK
      <4>2. CASE wpc[v] # "idle"  BY <4>2 DEF TokenInv
      <4> QED  BY <4>1, <4>2
    <3>3. version'[i] = version[i] + 1 /\ version[i] \in Nat /\ token[v] \in Nat
      BY <2>1 DEF TypeOK
    <3> QED  BY <2>0, <2>1, <2>2, <3>1, <3>2, <3>3 DEF Holds, Current, TypeOK
  <2>3. Holds(w, i)'
    BY <2>0, <2>1 DEF Holds, TypeOK
  <2>4. \A v \in Workers, k \in Jobs \ {i} : Holds(v, k)' <=> Holds(v, k)
    BY <2>0, <2>1 DEF Holds, Current, TypeOK
  <2>5. HeldBy' = [HeldBy EXCEPT ![i] = {w}]
    <3>1. {v \in Workers : Holds(v, i)'} = {w}
      BY <2>2, <2>3
    <3>2. \A k \in Jobs \ {i} : {v \in Workers : Holds(v, k)'} = {v \in Workers : Holds(v, k)}
      BY <2>4
    <3>3. HeldBy' = [k \in Jobs |-> {v \in Workers : Holds(v, k)'}]
      BY DEF HeldBy
    <3>4. \A k \in Jobs : HeldBy[k] = {v \in Workers : Holds(v, k)}
      BY DEF HeldBy
    <3>5. ASSUME NEW k \in Jobs PROVE HeldBy'[k] = IF k = i THEN {w} ELSE HeldBy[k]
      BY <3>1, <3>2, <3>3, <3>4
    <3>6. HeldBy' = [k \in Jobs |-> HeldBy'[k]] /\ HeldBy = [k \in Jobs |-> HeldBy[k]]
      BY DEF HeldBy
    <3> QED  BY <3>5, <3>6
  <2> QED  BY <2>1, <2>5 DEF Goal, Job!Claim, HeldBy, Completed
<1>6. CASE SkipDuplicate(w)  BY <1>1, <1>6 DEF SkipDuplicate, jobVars
<1>7. CASE ReadToken(w)
  <2>1. /\ UNCHANGED <<status, version, row, wjob>> /\ wpc[w] = "claimed"
        /\ token' = [token EXCEPT ![w] = version[wjob[w]]]
        /\ wpc' = [wpc EXCEPT ![w] = "check"]
    BY <1>7 DEF ReadToken, jobVars, Goto
  <2>2. version[wjob[w]] # 0
    BY <2>1 DEF TokenInv
  <2>3. \A v \in Workers, k \in Jobs : Holds(v, k)' <=> Holds(v, k)
    BY <2>1, <2>2 DEF Holds, Current, TypeOK
  <2> QED  BY <2>1, <2>3 DEF Goal, HeldBy, Completed
<1>8. CASE Check(w)  BY <1>2, <1>8 DEF Check, jobVars
<1>9. CASE GiveUp(w)  BY <1>1, <1>9 DEF GiveUp, jobVars
<1>10. CASE TakeRow(w)
  <2>1. row'.status = row.status \/ row'.status # "COMPLETE"
    BY <1>10 DEF TakeRow, WriteRow
  <2> QED  BY <1>2, <1>10, <2>1 DEF TakeRow, jobVars
<1>11. CASE Work(w)  BY <1>2, <1>11 DEF Work, jobVars
<1>12. CASE Persist(w)
  <2>1. Owns(w) /\ UNCHANGED <<status, version, wjob, token>> /\ Goto(w, "finish") /\ wpc[w] = "persist"
    BY <1>12 DEF Persist, jobVars
  <2>2. HeldBy' = HeldBy
    BY <2>1, HoldsOn DEF Goto
  <2>3. w \in HeldBy[wjob[w]] /\ status[wjob[w]] = "RUNNING"
    BY <2>1, SoleHolder DEF Owns
  <2>4. Completed' \subseteq Completed \union {"row"}
    BY DEF Completed
  <2> QED  BY <2>1, <2>2, <2>3, <2>4 DEF Goal, Job!Conclude, HeldBy, Completed
<1>13. CASE PersistRejected(w)  BY <1>2, <1>13 DEF PersistRejected, jobVars
<1>14. CASE ReconcileCancelled(w)
  BY <1>1, <1>14 DEF ReconcileCancelled, OverwriteRow, CancelledRow, jobVars
<1>15. CASE Finish(w)
  <2>1. CASE Owns(w)
    <3>1. /\ Ack(w) /\ UNCHANGED <<version, row>>
          /\ status' = [status EXCEPT ![wjob[w]] = "SUCCEEDED"]
      BY <1>15, <2>1 DEF Finish
    <3>2. HeldBy[wjob[w]] = {w} /\ \A j \in Jobs \ {wjob[w]} : w \notin HeldBy[j]
      BY <2>1, SoleHolder DEF Owns
    <3>3. HeldBy' = [HeldBy EXCEPT ![wjob[w]] = {}]
      <4>1. HeldBy' = [j \in Jobs |-> HeldBy[j] \ {w}]
        BY <3>1, LetsGo
      <4>2. HeldBy = [j \in Jobs |-> HeldBy[j]]
        BY DEF HeldBy
      <4>3. \A j \in Jobs : HeldBy[j] \ {w} = IF j = wjob[w] THEN {} ELSE HeldBy[j]
        BY <3>2
      <4> QED  BY <4>1, <4>2, <4>3
    <3>4. Completed' \subseteq Completed \union {"row"}
      BY DEF Completed
    <3>5. status[wjob[w]] = "RUNNING" /\ w \in HeldBy[wjob[w]]
      BY <2>1, <3>2 DEF Owns
    <3> QED  BY <3>1, <3>3, <3>4, <3>5 DEF Goal, Job!Conclude, Job!Outcomes, HeldBy, Completed
  <2>2. CASE ~Owns(w)
    BY <1>1, <1>15, <2>2 DEF Finish
  <2> QED  BY <2>1, <2>2
<1>16. CASE MarkFailed(w)
  <2>1. row'.status = row.status \/ row'.status # "COMPLETE"
    BY <1>16 DEF MarkFailed, WriteRow, FailedRow, CancelledRow
  <2> QED  BY <1>2, <1>16, <2>1 DEF MarkFailed, jobVars
<1>17. CASE FinishFailed(w)
  <2>1. PICK label : label # "claimed" /\ Goto(w, label)
    BY <1>17 DEF FinishFailed
  <2>2. UNCHANGED <<version, row, wjob, token>> /\ wpc[w] # "claimed"
    BY <1>17 DEF FinishFailed
  <2>3. CASE Owns(w)
    <3>1. status' = [status EXCEPT ![wjob[w]] = "FAILED"]
      BY <1>17, <2>3 DEF FinishFailed
    <3>2. HeldBy' = HeldBy
      BY <2>1, <2>2, HoldsOn DEF Goto
    <3>3. status[wjob[w]] = "RUNNING" /\ w \in HeldBy[wjob[w]]
      BY <2>3, SoleHolder DEF Owns
    <3>4. Completed' \subseteq Completed \union {"row"}
      BY DEF Completed
    <3> QED  BY <2>2, <3>1, <3>2, <3>3, <3>4 DEF Goal, Job!Conclude, Job!Outcomes, HeldBy, Completed
  <2>4. CASE ~Owns(w)
    BY <1>2, <1>17, <2>1, <2>2, <2>4 DEF FinishFailed
  <2> QED  BY <2>3, <2>4
<1>18. CASE PersistFails(w)  BY <1>2, <1>18 DEF PersistFails, jobVars
<1>19. CASE RecordFailure(w)
  <2>1. row'.status = row.status \/ row'.status # "COMPLETE"
    BY <1>19 DEF RecordFailure, OverwriteRow, FailedRow, CancelledRow
  <2> QED  BY <1>2, <1>19, <2>1 DEF RecordFailure, jobVars
<1>20. CASE Raise(w)  BY <1>1, <1>20 DEF Raise, jobVars
<1>21. CASE FailUnclaimed(w)
  <2>1. /\ wpc[w] = "claim" /\ status[wjob[w]] = "QUEUED" /\ Ack(w) /\ UNCHANGED version
        /\ status' = [status EXCEPT ![wjob[w]] = "FAILED"] /\ row'.status # "COMPLETE"
    BY <1>21 DEF FailUnclaimed, OverwriteRow, FailedRow
  <2>2. \A j \in Jobs : ~Holds(w, j)
    BY <2>1 DEF Holds, Current, TokenInv, Unclaimed
  <2>3. HeldBy' = HeldBy
    <3>1. \A j \in Jobs : HeldBy[j] \ {w} = HeldBy[j]
      BY <2>2 DEF HeldBy
    <3>2. HeldBy = [j \in Jobs |-> HeldBy[j]]
      BY DEF HeldBy
    <3> QED  BY <2>1, <3>1, <3>2, LetsGo
  <2> QED  BY <2>1, <2>3, NotCompleted DEF Goal, Job!Refuse, Job!Withdraw, HeldBy, Completed
<1> QED
  BY <1>3, <1>4, <1>5, <1>6, <1>7, <1>8, <1>9, <1>10, <1>11, <1>12, <1>13, <1>14, <1>15, <1>16,
     <1>17, <1>18, <1>19, <1>20, <1>21 DEF Worker

(* The stage implements the fenced job: whatever crashes, stalls, is repeated or
   cancelled, each of its steps claims a job, ends it or completes the plan set
   as the holder of the newest claim, cancels it, or leaves all of that alone. *)
THEOREM ImplementsFencedJob == ASSUME TokensAreRead PROVE Spec => JobRefinement
<1>1. Init => Job!JobInit
  BY DEF Init, Job!JobInit, Holds, Current, NewRow
<1>2. TypeOK /\ TokenInv /\ CancelsAJob /\ [Next]_vars => [Job!JobNext]_(Job!jobVars)
  <2> SUFFICES ASSUME TypeOK, TokenInv, CancelsAJob, [Next]_vars
               PROVE  Job!JobNext \/ UNCHANGED <<status, version, HeldBy, Completed>>
    BY DEF Job!jobVars, HeldBy, Completed
  <2>1. ASSUME NEW c \in Clients, QueueRequest(c) \/ Client(c)
        PROVE  Job!JobNext \/ UNCHANGED <<status, version, HeldBy, Completed>>
    BY <2>1, RefineClient DEF Job!JobNext
  <2>2. ASSUME NEW w \in Workers, Take(w)
        PROVE  UNCHANGED <<status, version, HeldBy, Completed>>
    BY <2>2, RefineTake
  <2>3. ASSUME NEW w \in Workers, Worker(w)
        PROVE  Job!JobNext \/ UNCHANGED <<status, version, HeldBy, Completed>>
    BY <2>3, RefineWorker DEF Job!JobNext
  <2>4. ASSUME NEW w \in Workers, Broken(w)
        PROVE  Job!JobNext \/ UNCHANGED <<status, version, HeldBy, Completed>>
    <3>1. CASE Heartbeat(w) \/ Redeliver(w)
      BY <3>1 DEF Heartbeat, Redeliver, jobVars, workerVars, HeldBy, Completed, Holds, Current
    <3>2. CASE Crash(w)
      <4>1. HeldBy' = [j \in Jobs |-> HeldBy[j] \ {w}] /\ UNCHANGED <<status, version, Completed>>
        BY <3>2, LetsGo DEF Crash, jobVars, Completed
      <4>2. Job!Leave({w})
        BY <4>1 DEF Job!Leave, Job!Withdraw, HeldBy, Completed
      <4> QED  BY <4>2 DEF Job!JobNext
    <3> QED  BY <2>4, <3>1, <3>2 DEF Broken
  <2>5. ASSUME NEW j \in Jobs, Outside(j)
        PROVE  Job!JobNext \/ UNCHANGED <<status, version, HeldBy, Completed>>
    <3>1. CASE CancelRead(j) \/ GoStale(j)
      BY <3>1 DEF CancelRead, GoStale, jobVars, workerVars, HeldBy, Completed, Holds, Current
    <3>2. CASE CancelWrite(j)
      <4>1. UNCHANGED <<version, HeldBy, Completed>>
        BY <3>2 DEF CancelWrite, workerVars, HeldBy, Completed, Holds, Current
      <4>2. /\ status[j] # "none"
            /\ status' = [i \in Jobs |-> IF i \in {j} THEN "CANCELLED" ELSE status[i]]
        BY <3>2 DEF CancelWrite, CancelsAJob, TypeOK
      <4>3. Job!Cancel({j})
        BY <4>1, <4>2 DEF Job!Cancel, Job!Withdraw, HeldBy, Completed
      <4> QED  BY <4>3 DEF Job!JobNext
    <3> QED  BY <2>5, <3>1, <3>2 DEF Outside
  <2>6. CASE UNCHANGED vars
    BY <2>6 DEF vars, jobVars, workerVars, HeldBy, Completed, Holds, Current
  <2> QED  BY <2>1, <2>2, <2>3, <2>4, <2>5, <2>6 DEF Next
<1> QED
  BY <1>1, <1>2, TypeCorrect, TokensInOrder, CancelsAJobAlways, PTL
     DEF Spec, JobRefinement, Job!JobSpec
=============================================================================
