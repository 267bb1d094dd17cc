---------------------------- MODULE ClaimedStage ----------------------------
(***************************************************************************)
(* The durable job protocol of the candidate-scoped stages 4.1 (planning), *)
(* 4.2 (governance) and 5.1 (visual composition): queue.py inserts a job   *)
(* and claims the stage's row with a compare-and-swap on active_job_id,    *)
(* executor.py claims the job (claim_version), works, and fences every     *)
(* write on that token; workers/tasks.py wraps it in a Celery task; api    *)
(* cancels.  The definitions translate transformation/planning; the other  *)
(* two stages run the same protocol, except that the 4.2 queue re-sends    *)
(* the message of an abandoned job (RecoverStale).                         *)
(*                                                                         *)
(* One row (one candidate's plan set).  A step is one database transaction *)
(* or one read: sessions use expire_on_commit=False, so what a session has *)
(* loaded stays as it was until it is refreshed or rolled back (copy).     *)
(***************************************************************************)
EXTENDS Naturals, FiniteSets

CONSTANTS
    Jobs,           \* job identifiers
    Workers,        \* Celery deliveries that can run at the same time
    Clients,        \* requests that call the queue function
    NoJob,          \* SQL NULL in active_job_id
    RecoverStale,   \* TRUE: the queue of Stage 4.2; FALSE: of 4.1 and 5.1
    Faults,         \* subset of FaultKinds
    MaxClaims,      \* bound: a job claimed so often meets no further fault
    MaxMessages     \* bound: messages of one job in the broker

(* "crash":      a worker process dies;
   "stall":      a live worker misses heartbeats for the whole stale window;
   "claimStall": ... between the claim it commits and the read of its token;
   "redeliver":  the visibility timeout repeats an unacknowledged message;
   "retry":      the provider fails with a retryable error;
   "dbError":    the transaction that persists a result fails;
   "lostSend":   the request dies, or the broker is down, after its commit;
   "cancel":     the API cancels an active job. *)
FaultKinds == {"crash", "stall", "claimStall", "redeliver", "retry", "dbError",
               "lostSend", "cancel"}

ASSUME StageConstants ==
    /\ NoJob \notin Jobs
    /\ RecoverStale \in BOOLEAN
    /\ Faults \subseteq FaultKinds
    /\ MaxClaims \in Nat /\ MaxMessages \in Nat

VARIABLES
    status,     \* [Jobs -> JobStatus], "none" while the row does not exist
    version,    \* [Jobs -> Nat], processing_jobs.claim_version
    stale,      \* jobs whose heartbeat_at is older than the stale window
    row,        \* the plan set: execution_status and active_job_id
    inbox,      \* [Jobs -> Nat], messages waiting in the broker
    wpc,        \* [Workers -> ...] where each delivery stands
    wjob,       \* [Workers -> Jobs \cup {NoJob}], the job it was delivered
    token,      \* [Workers -> Nat], the claim version it wrote, 0 before
    copy,       \* [Workers -> Rows], the plan set as its session loaded it
    cpc,        \* [Clients -> ...] where each request stands
    seen,       \* [Clients -> Jobs \cup {NoJob}], active_job_id as it read it
    cjob,       \* [Clients -> Jobs \cup {NoJob}], the job it inserted
    tries,      \* [Clients -> 0..2], turns of the queue loop
    cancelling  \* jobs whose status the API has read as active

jobVars == <<status, version, stale>>
workerVars == <<wpc, wjob, token, copy>>
clientVars == <<cpc, seen, cjob, tries>>
vars == <<jobVars, row, inbox, workerVars, clientVars, cancelling>>

JobStatus == {"none", "QUEUED", "RUNNING", "SUCCEEDED", "FAILED", "CANCELLED"}
Active == {"QUEUED", "RUNNING"}
(* COMPLETE stands for PROVIDER_DEGRADED too: both end a run with an output. *)
RowStatus == {"QUEUED", "PLANNING", "COMPLETE", "FAILED", "CANCELLED"}
Rows == [status : RowStatus, active : Jobs \union {NoJob}]
NewRow == [status |-> "QUEUED", active |-> NoJob]
Unclaimed == {"idle", "start", "startCancel", "claim", "claimed"}
Beat == {"check", "take", "work", "persist", "finish", "cancel", "reconcile",
         "fail", "failFinish"}
WorkerPC == Unclaimed \union Beat \union {"record", "recordFinish", "raise"}
ClientPC == {"idle", "active", "clear", "claim", "dispatch"}

(* Every variable holds what the code can put there; the plan set never gets a
   job's status, and a delivery in progress knows its job. *)
TypeOK ==
    /\ status \in [Jobs -> JobStatus]
    /\ version \in [Jobs -> Nat]
    /\ stale \subseteq Jobs /\ cancelling \subseteq Jobs
    /\ row \in Rows
    /\ inbox \in [Jobs -> Nat]
    /\ wpc \in [Workers -> WorkerPC]
    /\ wjob \in [Workers -> Jobs \union {NoJob}]
    /\ \A w \in Workers : wpc[w] # "idle" => wjob[w] \in Jobs
    /\ token \in [Workers -> Nat]
    /\ copy \in [Workers -> Rows]
    /\ cpc \in [Clients -> ClientPC]
    /\ seen \in [Clients -> Jobs \union {NoJob}]
    /\ cjob \in [Clients -> Jobs \union {NoJob}]
    /\ \A c \in Clients : cpc[c] = "dispatch" => cjob[c] \in Jobs
    /\ tries \in [Clients -> 0..2]

Init ==
    /\ status = [j \in Jobs |-> "none"]
    /\ version = [j \in Jobs |-> 0]
    /\ stale = {} /\ cancelling = {}
    /\ row = NewRow
    /\ inbox = [j \in Jobs |-> 0]
    /\ wpc = [w \in Workers |-> "idle"]
    /\ wjob = [w \in Workers |-> NoJob]
    /\ token = [w \in Workers |-> 0]
    /\ copy = [w \in Workers |-> NewRow]
    /\ cpc = [c \in Clients |-> "idle"]
    /\ seen = [c \in Clients |-> NoJob]
    /\ cjob = [c \in Clients |-> NoJob]
    /\ tries = [c \in Clients |-> 0]

ActiveJobs == {j \in Jobs : status[j] \in Active}

-----------------------------------------------------------------------------
(* The queue function, called by API requests (queue.py). *)

Return(c) ==
    /\ cpc' = [cpc EXCEPT ![c] = "idle"]
    /\ seen' = [seen EXCEPT ![c] = NoJob]
    /\ cjob' = [cjob EXCEPT ![c] = NoJob]
    /\ tries' = [tries EXCEPT ![c] = 0]

Send(j) == inbox[j] < MaxMessages /\ inbox' = [inbox EXCEPT ![j] = @ + 1]

(* get_or_create_plan_set: the request's session loads the row. *)
QueueRequest(c) ==
    /\ cpc[c] = "idle"
    /\ cpc' = [cpc EXCEPT ![c] = "active"]
    /\ seen' = [seen EXCEPT ![c] = row.active]
    /\ UNCHANGED <<jobVars, row, inbox, workerVars, cjob, tries, cancelling>>

(* _active_job: an active job answers the request; after two turns without one
   the request gives up.  Stage 4.2 re-sends the message of a stale one. *)
QueueActive(c) ==
    /\ cpc[c] = "active"
    /\ \/ /\ ActiveJobs # {}
          /\ Return(c)
          /\ \/ \E j \in ActiveJobs : RecoverStale /\ status[j] = "RUNNING" /\ j \in stale /\ Send(j)
             \/ (~RecoverStale \/ \E j \in ActiveJobs : j \notin stale) /\ UNCHANGED inbox
       \/ ActiveJobs = {} /\ tries[c] = 2 /\ Return(c) /\ UNCHANGED inbox
       \/ /\ ActiveJobs = {} /\ tries[c] < 2
          /\ cpc' = [cpc EXCEPT ![c] = IF seen[c] = NoJob THEN "claim" ELSE "clear"]
          /\ tries' = [tries EXCEPT ![c] = @ + 1]
          /\ UNCHANGED <<seen, cjob, inbox>>
    /\ UNCHANGED <<jobVars, row, workerVars, cancelling>>

(* Mutant: the claim of a finished job is left where it is. *)
QueueClearLost(c) ==
    /\ cpc[c] = "clear"
    /\ cpc' = [cpc EXCEPT ![c] = "active"]
    /\ UNCHANGED <<jobVars, row, inbox, workerVars, seen, cjob, tries, cancelling>>

(* Mutant: active_job_id is cleared without WHERE active_job_id = seen. *)
QueueClearBlind(c) ==
    /\ cpc[c] = "clear"
    /\ row' = [row EXCEPT !.active = NoJob]
    /\ seen' = [seen EXCEPT ![c] = row'.active]
    /\ cpc' = [cpc EXCEPT ![c] = "active"]
    /\ UNCHANGED <<jobVars, inbox, workerVars, cjob, tries, cancelling>>

(* _clear_stale_claim: drop the claim that was read, if it is still there. *)
QueueClear(c) ==
    /\ cpc[c] = "clear"
    /\ row' = IF row.active = seen[c] THEN [row EXCEPT !.active = NoJob] ELSE row
    /\ seen' = [seen EXCEPT ![c] = row'.active]
    /\ cpc' = [cpc EXCEPT ![c] = "active"]
    /\ UNCHANGED <<jobVars, inbox, workerVars, cjob, tries, cancelling>>

(* A current COMPLETE row is returned as cached, unless the request forces; a
   request also ends here when the bound on job identifiers is reached. *)
QueueCached(c) ==
    /\ cpc[c] = "claim"
    /\ row.status = "COMPLETE" \/ \A j \in Jobs : status[j] # "none"
    /\ Return(c)
    /\ UNCHANGED <<jobVars, row, inbox, workerVars, cancelling>>

(* Mutant: the row is claimed without WHERE active_job_id IS NULL. *)
QueueClaimBlind(c) ==
    /\ cpc[c] = "claim"
    /\ \E j \in Jobs :
         /\ status[j] = "none"
         /\ status' = [status EXCEPT ![j] = "QUEUED"]
         /\ row' = [row EXCEPT !.active = j]
         /\ cjob' = [cjob EXCEPT ![c] = j]
    /\ cpc' = [cpc EXCEPT ![c] = "dispatch"]
    /\ UNCHANGED <<version, stale, inbox, workerVars, seen, tries, cancelling>>

(* Insert a job and claim the row in one transaction; both are undone when the
   row is already claimed. *)
QueueClaim(c) ==
    /\ cpc[c] = "claim"
    /\ IF row.active = NoJob
       THEN \E j \in Jobs :
              /\ status[j] = "none"
              /\ status' = [status EXCEPT ![j] = "QUEUED"]
              /\ row' = [row EXCEPT !.active = j]
              /\ cjob' = [cjob EXCEPT ![c] = j]
              /\ cpc' = [cpc EXCEPT ![c] = "dispatch"]
              /\ UNCHANGED seen
       ELSE /\ cpc' = [cpc EXCEPT ![c] = "active"]
            /\ seen' = [seen EXCEPT ![c] = row.active]
            /\ UNCHANGED <<status, row, cjob>>
    /\ UNCHANGED <<version, stale, inbox, workerVars, tries, cancelling>>

(* _dispatch: the message is sent after the commit, unless the request fails. *)
QueueDispatch(c) ==
    /\ cpc[c] = "dispatch"
    /\ Send(cjob[c]) \/ ("lostSend" \in Faults /\ UNCHANGED inbox)
    /\ Return(c)
    /\ UNCHANGED <<jobVars, row, workerVars, cancelling>>

(* cancel_job: the status is read, then CANCELLED is written over whatever it
   has become. *)
CancelRead(j) ==
    /\ "cancel" \in Faults
    /\ status[j] \in Active /\ j \notin cancelling
    /\ cancelling' = cancelling \union {j}
    /\ UNCHANGED <<jobVars, row, inbox, workerVars, clientVars>>

CancelWrite(j) ==
    /\ j \in cancelling
    /\ cancelling' = cancelling \ {j}
    /\ status' = [status EXCEPT ![j] = "CANCELLED"]
    /\ UNCHANGED <<version, stale, row, inbox, workerVars, clientVars>>

-----------------------------------------------------------------------------
(* A Celery delivery: the task wrapper and the executor. *)

Goto(w, label) == wpc' = [wpc EXCEPT ![w] = label]

(* The task returns or raises, and its message is acknowledged. *)
Ack(w) ==
    /\ Goto(w, "idle")
    /\ wjob' = [wjob EXCEPT ![w] = NoJob]
    /\ token' = [token EXCEPT ![w] = 0]
    /\ copy' = [copy EXCEPT ![w] = NewRow]

(* The session writes the attributes that differ from what it has loaded. *)
WriteRow(w, value) ==
    /\ row' = [status |-> IF copy[w].status = value.status THEN row.status ELSE value.status,
               active |-> IF copy[w].active = value.active THEN row.active ELSE value.active]
    /\ copy' = [copy EXCEPT ![w] = value]

(* After a rollback nothing is loaded, so every attribute is written. *)
OverwriteRow(value) == row' = value

(* _fence_claim: the token is current, and the job still RUNNING. *)
Current(w) == token[w] # 0 /\ version[wjob[w]] = token[w]
Owns(w) == Current(w) /\ status[wjob[w]] = "RUNNING"
CancelledUnder(w) == Current(w) /\ status[wjob[w]] = "CANCELLED"

CancelledRow == [status |-> "CANCELLED", active |-> NoJob]
FailedRow == [status |-> "FAILED", active |-> NoJob]
(* Mutant: the plan set gets a job's status. *)
SucceededRow == [status |-> "SUCCEEDED", active |-> NoJob]
CompleteRow == [status |-> "COMPLETE", active |-> NoJob]

(* A message is taken; the wrapper drops it when the job reads CANCELLED. *)
Deliver(w, j) ==
    /\ wpc[w] = "idle" /\ inbox[j] > 0
    /\ inbox' = [inbox EXCEPT ![j] = @ - 1]
    /\ IF status[j] = "CANCELLED"
       THEN UNCHANGED workerVars
       ELSE /\ Goto(w, "start")
            /\ wjob' = [wjob EXCEPT ![w] = j]
            /\ UNCHANGED <<token, copy>>
    /\ UNCHANGED <<jobVars, row, clientVars, cancelling>>

(* execute: the plan set is loaded and the job's cancellation read again. *)
Start(w) ==
    /\ wpc[w] = "start"
    /\ copy' = [copy EXCEPT ![w] = row]
    /\ Goto(w, IF status[wjob[w]] = "CANCELLED" THEN "startCancel" ELSE "claim")
    /\ UNCHANGED <<jobVars, row, inbox, wjob, token, clientVars, cancelling>>

(* _mark_cancelled of a delivery that owns no claim: no fence applies. *)
StartCancelled(w) ==
    /\ wpc[w] = "startCancel"
    /\ row' = [status |-> IF copy[w].status = "CANCELLED" THEN row.status ELSE "CANCELLED",
               active |-> IF copy[w].active = NoJob THEN row.active ELSE NoJob]
    /\ Ack(w)
    /\ UNCHANGED <<jobVars, inbox, clientVars, cancelling>>

(* Mutant: an abandoned job cannot be claimed. *)
ClaimableOnce(j) == status[j] \in {"QUEUED", "FAILED"}

(* _claim_job: QUEUED, FAILED or abandoned RUNNING; anything else is a
   duplicate delivery, skipped and acknowledged. *)
Claimable(j) ==
    status[j] \in {"QUEUED", "FAILED"} \/ (status[j] = "RUNNING" /\ j \in stale)

(* Mutant: a reclaim does not advance the version. *)
ClaimJobFirst(w) ==
    /\ wpc[w] = "claim" /\ Claimable(wjob[w])
    /\ status' = [status EXCEPT ![wjob[w]] = "RUNNING"]
    /\ version' = [version EXCEPT ![wjob[w]] = 1]
    /\ stale' = stale \ {wjob[w]}
    /\ Goto(w, "claimed")
    /\ UNCHANGED <<row, inbox, wjob, token, copy, clientVars, cancelling>>

ClaimJob(w) ==
    /\ wpc[w] = "claim"
    /\ Claimable(wjob[w])
    /\ status' = [status EXCEPT ![wjob[w]] = "RUNNING"]
    /\ version' = [version EXCEPT ![wjob[w]] = @ + 1]
    /\ stale' = stale \ {wjob[w]}
    /\ Goto(w, "claimed")
    /\ UNCHANGED <<row, inbox, wjob, token, copy, clientVars, cancelling>>

(* The token is what the version has become when it is read, after the commit. *)
ReadToken(w) ==
    /\ wpc[w] = "claimed"
    /\ token' = [token EXCEPT ![w] = version[wjob[w]]]
    /\ Goto(w, "check")
    /\ UNCHANGED <<jobVars, row, inbox, wjob, copy, clientVars, cancelling>>

SkipDuplicate(w) ==
    /\ wpc[w] = "claim" /\ ~Claimable(wjob[w])
    /\ Ack(w)
    /\ UNCHANGED <<jobVars, row, inbox, clientVars, cancelling>>

(* Before any work: inputs may be missing, the loaded row may be a cache hit
   or claimed by another active job, the claim may be superseded. *)
Check(w) ==
    /\ wpc[w] = "check"
    /\ \/ Goto(w, "fail")
       \/ copy[w].status = "COMPLETE" /\ Goto(w, "finish")
       \/ copy[w].active \in ActiveJobs \ {wjob[w]} /\ Goto(w, "finish")
       \/ ~(copy[w].active \in ActiveJobs \ {wjob[w]}) /\ Current(w) /\ Goto(w, "take")
    /\ UNCHANGED <<jobVars, row, inbox, wjob, token, copy, clientVars, cancelling>>

(* Superseded or rejected without a word: the current owner decides. *)
GiveUp(w) ==
    /\ \/ wpc[w] = "check" /\ ~Current(w)
       \/ wpc[w] = "take" /\ ~Owns(w)
       \/ wpc[w] = "persist" /\ ~Owns(w) /\ ~CancelledUnder(w)
       \/ wpc[w] = "cancel" /\ ~CancelledUnder(w)
       \/ wpc[w] = "reconcile" /\ ~Current(w)
    /\ Ack(w)
    /\ UNCHANGED <<jobVars, row, inbox, clientVars, cancelling>>

(* _claim: the row is claimed and put in PLANNING under the fence. *)
TakeRow(w) ==
    /\ wpc[w] = "take" /\ Owns(w)
    /\ WriteRow(w, [status |-> "PLANNING", active |-> wjob[w]])
    /\ Goto(w, "work")
    /\ UNCHANGED <<jobVars, inbox, wjob, token, clientVars, cancelling>>

(* The provider call: done, stopped by _should_stop, or failed. *)
Work(w) ==
    /\ wpc[w] = "work"
    /\ \/ Goto(w, "persist")
       \/ (~Current(w) \/ CancelledUnder(w)) /\ Goto(w, "cancel")
       \/ Goto(w, "fail")
    /\ UNCHANGED <<jobVars, row, inbox, wjob, token, copy, clientVars, cancelling>>

(* _persist, fenced on the token and on RUNNING; a persisted cancellation is
   reconciled instead, after the rollback. *)
Persist(w) ==
    /\ wpc[w] = "persist" /\ Owns(w)
    /\ WriteRow(w, CompleteRow)
    /\ Goto(w, "finish")
    /\ UNCHANGED <<jobVars, inbox, wjob, token, clientVars, cancelling>>

PersistRejected(w) ==
    /\ wpc[w] = "persist" /\ CancelledUnder(w)
    /\ Goto(w, "reconcile")
    /\ UNCHANGED <<jobVars, row, inbox, wjob, token, copy, clientVars, cancelling>>

(* _mark_cancelled of a cancelled run, and _reconcile_cancelled: fenced on the
   token alone. *)
ReconcileCancelled(w) ==
    /\ wpc[w] \in {"cancel", "reconcile"} /\ CancelledUnder(w)
    /\ OverwriteRow(CancelledRow)
    /\ Ack(w)
    /\ UNCHANGED <<jobVars, inbox, clientVars, cancelling>>

(* Mutant: the job is finished by its id, without the fence. *)
FinishUnfenced(w) ==
    /\ wpc[w] = "finish"
    /\ status' = [status EXCEPT ![wjob[w]] = "SUCCEEDED"]
    /\ Ack(w)
    /\ UNCHANGED <<version, stale, row, inbox, clientVars, cancelling>>

(* _finish_job(SUCCEEDED). *)
Finish(w) ==
    /\ wpc[w] = "finish"
    /\ status' = IF Owns(w) THEN [status EXCEPT ![wjob[w]] = "SUCCEEDED"] ELSE status
    /\ Ack(w)
    /\ UNCHANGED <<version, stale, row, inbox, clientVars, cancelling>>

(* _mark_failed, then _finish_job(FAILED). *)
MarkFailed(w) ==
    /\ wpc[w] = "fail"
    /\ \/ Owns(w) /\ WriteRow(w, FailedRow)
       \/ CancelledUnder(w) /\ WriteRow(w, CancelledRow)
       \/ ~Owns(w) /\ ~CancelledUnder(w) /\ UNCHANGED <<row, copy>>
    /\ Goto(w, "failFinish")
    /\ UNCHANGED <<jobVars, inbox, wjob, token, clientVars, cancelling>>

(* ... whose update, when it changes nothing, sets claim_lost: the wrapper's
   record_failure then leaves the row alone. *)
FinishFailed(w) ==
    /\ wpc[w] \in {"failFinish", "recordFinish"}
    /\ status' = IF Owns(w) THEN [status EXCEPT ![wjob[w]] = "FAILED"] ELSE status
    /\ Goto(w, IF wpc[w] = "failFinish" /\ Owns(w) THEN "record" ELSE "raise")
    /\ UNCHANGED <<version, stale, row, inbox, wjob, token, copy, clientVars, cancelling>>

(* The transaction of _persist raises; no handler of execute catches it. *)
PersistFails(w) ==
    /\ wpc[w] = "persist" /\ Owns(w)
    /\ "dbError" \in Faults /\ version[wjob[w]] < MaxClaims
    /\ Goto(w, "record")
    /\ UNCHANGED <<jobVars, row, inbox, wjob, token, copy, clientVars, cancelling>>

(* The wrapper's record_failure rolls back, then fails a run that is still
   RUNNING or reconciles a cancelled one. *)
RecordFailure(w) ==
    /\ wpc[w] = "record"
    /\ \/ Owns(w) /\ OverwriteRow(FailedRow) /\ Goto(w, "recordFinish")
       \/ CancelledUnder(w) /\ OverwriteRow(CancelledRow) /\ Goto(w, "raise")
       \/ ~Owns(w) /\ ~CancelledUnder(w) /\ UNCHANGED row /\ Goto(w, "raise")
    /\ UNCHANGED <<jobVars, inbox, wjob, token, copy, clientVars, cancelling>>

(* Then the task is retried with a new message, or fails for good. *)
Raise(w) ==
    /\ wpc[w] = "raise"
    /\ \/ "retry" \in Faults /\ version[wjob[w]] < MaxClaims /\ Send(wjob[w])
       \/ UNCHANGED inbox
    /\ Ack(w)
    /\ UNCHANGED <<jobVars, row, clientVars, cancelling>>

(* An error before the claim: only an unowned QUEUED job is failed. *)
FailUnclaimed(w) ==
    /\ wpc[w] = "claim" /\ status[wjob[w]] = "QUEUED"
    /\ status' = [status EXCEPT ![wjob[w]] = "FAILED"]
    /\ OverwriteRow(FailedRow)
    /\ Ack(w)
    /\ UNCHANGED <<version, stale, inbox, clientVars, cancelling>>

-----------------------------------------------------------------------------
(* Heartbeats, crashes and the broker. *)

(* The worker's heartbeat thread runs from the claim to the end of execute. *)
Beating(w) == wpc[w] \in Beat

Heartbeat(w) ==
    /\ Beating(w) /\ Owns(w)
    /\ stale' = stale \ {wjob[w]}
    /\ UNCHANGED <<status, version, row, inbox, workerVars, clientVars, cancelling>>

(* The stale window passes without a heartbeat. *)
GoStale(j) ==
    /\ status[j] = "RUNNING" /\ j \notin stale
    /\ \/ "stall" \in Faults /\ version[j] < MaxClaims
       \/ ~\E w \in Workers : wjob[w] = j /\ (wpc[w] = "claimed" \/ (Beating(w) /\ Current(w)))
    /\ "claimStall" \in Faults \/ \A w \in Workers : wjob[w] = j => wpc[w] # "claimed"
    /\ stale' = stale \union {j}
    /\ UNCHANGED <<status, version, row, inbox, workerVars, clientVars, cancelling>>

(* The process dies; its unacknowledged message goes back to the broker.  (A
   crash before the claim changes nothing but the place of the message.) *)
Crash(w) ==
    /\ "crash" \in Faults /\ wpc[w] \notin Unclaimed \ {"claimed"} /\ version[wjob[w]] < MaxClaims
    /\ Send(wjob[w])
    /\ Ack(w)
    /\ UNCHANGED <<jobVars, row, clientVars, cancelling>>

(* The visibility timeout repeats the message of a task that still runs. *)
Redeliver(w) ==
    /\ "redeliver" \in Faults /\ wpc[w] # "idle" /\ version[wjob[w]] < MaxClaims
    /\ Send(wjob[w])
    /\ UNCHANGED <<jobVars, row, workerVars, clientVars, cancelling>>

Client(c) ==
    \/ QueueActive(c) \/ QueueClear(c) \/ QueueCached(c) \/ QueueClaim(c) \/ QueueDispatch(c)
Worker(w) ==
    \/ Start(w) \/ StartCancelled(w) \/ ClaimJob(w) \/ SkipDuplicate(w) \/ ReadToken(w) \/ Check(w)
    \/ GiveUp(w) \/ TakeRow(w) \/ Work(w) \/ Persist(w) \/ PersistRejected(w)
    \/ ReconcileCancelled(w) \/ Finish(w) \/ MarkFailed(w) \/ FinishFailed(w)
    \/ PersistFails(w) \/ RecordFailure(w) \/ Raise(w) \/ FailUnclaimed(w)
Take(w) == \E j \in Jobs : Deliver(w, j)
Broken(w) == Heartbeat(w) \/ Crash(w) \/ Redeliver(w)
Outside(j) == CancelRead(j) \/ CancelWrite(j) \/ GoStale(j)

Next ==
    \/ \E c \in Clients : QueueRequest(c) \/ Client(c)
    \/ \E w \in Workers : Take(w) \/ Worker(w) \/ Broken(w)
    \/ \E j \in Jobs : Outside(j)

Spec == Init /\ [][Next]_vars

(* Requests and deliveries that have begun go on, messages are delivered, an
   abandoned heartbeat grows old.  Nothing makes an operator call the queue. *)
Fairness ==
    /\ \A c \in Clients : WF_vars(Client(c))
    /\ \A w \in Workers : WF_vars(Take(w)) /\ WF_vars(Worker(w))
    /\ \A j \in Jobs : WF_vars(CancelWrite(j)) /\ WF_vars(GoStale(j))
FairSpec == Spec /\ Fairness

(* ... except under this fairness: the operator asks again and again. *)
PersistentSpec == FairSpec /\ \A c \in Clients : WF_vars(QueueRequest(c))

-----------------------------------------------------------------------------
(* Properties. *)

(* A claim token has one holder: however messages are duplicated and stale runs
   reclaimed, two deliveries never both hold the current version of a job. *)
SingleOwner ==
    \A w1, w2 \in Workers :
        Current(w1) /\ Current(w2) /\ wjob[w1] = wjob[w2] => w1 = w2

(* Why, as an inductive invariant, while nothing stalls between a claim and the
   read of its token: a token never exceeds the version, a delivery that has
   claimed and not yet read is the only one at its version, and the run it has
   claimed cannot be reclaimed before it has read. *)
TokenInv ==
    /\ \A w \in Workers : wpc[w] \in Unclaimed => token[w] = 0
    /\ \A w \in Workers : wpc[w] # "idle" => token[w] <= version[wjob[w]]
    /\ \A w \in Workers : wpc[w] = "claimed"
           => /\ wjob[w] \notin stale /\ status[wjob[w]] \in {"RUNNING", "CANCELLED"}
              /\ version[wjob[w]] # 0
    /\ \A w1, w2 \in Workers : w1 # w2 /\ wjob[w1] = wjob[w2] =>
           /\ wpc[w1] = "claimed" => wpc[w2] # "claimed" /\ token[w2] # version[wjob[w1]]
           /\ token[w1] # 0 => token[w1] # token[w2]

(* "A superseded worker can never persist, cancel, fail, or finalize": once its
   job has been claimed again, no step of a delivery changes a job or the row. *)
SupersededIsInert ==
    [][\A w \in Workers :
         token[w] # 0 /\ ~Current(w) /\ <<wpc[w], token[w]>>' # <<wpc[w], token[w]>>
           => UNCHANGED <<status, row>>]_vars

(* A cancellation written by the API is never overwritten by a worker, however
   its claim, failure and retry paths interleave with it. *)
CancelledIsFinal ==
    [][\A j \in Jobs : status[j] = "CANCELLED" => status'[j] = "CANCELLED"]_vars

(* The row turns COMPLETE only by a delivery that holds the current claim of a
   job that is still RUNNING: nothing is persisted after a cancellation. *)
CompletionIsFenced ==
    [][row'.status = "COMPLETE" /\ row.status # "COMPLETE"
         => \E w \in Workers : Owns(w) /\ wpc[w] = "persist" /\ wpc'[w] # "persist"]_vars

(* "Concurrent queue requests ... yielding one plan set and at most one active
   job". *)
OneActiveJob == \A j1, j2 \in ActiveJobs : j1 = j2

(* Two deliveries never plan the same row at once, each under a valid claim. *)
OneRowWorker ==
    \A w1, w2 \in Workers :
        (\A w \in {w1, w2} : Owns(w) /\ wpc[w] \in {"work", "persist"}) => w1 = w2

(* A queued job holds the row, also when its message was lost and nothing will
   ever run it: a request that found an earlier job ended, and takes that one's
   claim off, leaves the row to the job queued since.  So every later request is
   answered with the waiting job, and the operator can cancel it. *)
QueuedJobHoldsRow == \A j \in Jobs : status[j] = "QUEUED" => row.active = j

(* What one wants of a queued job: its message waits, is about to be sent, or is
   in the hands of a delivery that has yet to try the claim.  The code commits the
   job before it sends, so a lost send or a refused broker leaves a queued job that
   no delivery will ever reach: the configuration stage_lost shows it. *)
QueuedJobIsDelivered ==
    \A j \in Jobs : status[j] = "QUEUED" =>
        \/ inbox[j] > 0
        \/ \E c \in Clients : cpc[c] = "dispatch" /\ cjob[c] = j
        \/ \E w \in Workers : wjob[w] = j /\ wpc[w] \in {"start", "claim"}

(* The row of an active job is taken from it by its own deliveries only. *)
NewerClaimKeepsRow ==
    [][\A j \in ActiveJobs : row.active = j /\ row'.active # j
         => \E w \in Workers : wjob[w] = j /\ wpc'[w] # wpc[w]]_vars

(* A cancelled job does not hold its row for ever: its worker, or when that died
   the next queue request, takes the claim off. *)
CancelledRowIsFreed ==
    \A j \in Jobs :
        (status[j] = "CANCELLED" /\ row.active = j) ~> row.active # j

(* A run ends, where the queue sends the message of a stale run again (Stage 4.2)
   and an operator goes on asking: then "a run abandoned by a crashed worker is
   reclaimable once its renewable heartbeat goes stale". *)
RunEnds == \A j \in Jobs : status[j] = "RUNNING" ~> status[j] # "RUNNING"

-----------------------------------------------------------------------------
(* The holders of a claim: its token read, or about to be. *)
Holds(w, j) == wjob[w] = j /\ (wpc[w] = "claimed" \/ Current(w))

Job == INSTANCE FencedJob WITH
    Holders <- Workers, Results <- {"row"},
    holder <- [j \in Jobs |-> {w \in Workers : Holds(w, j)}],
    published <- IF row.status = "COMPLETE" THEN {"row"} ELSE {}

(* While tokens are read without a stall, the stage implements the fenced job:
   its plan set is completed, and its job ended, by the holder alone. *)
JobRefinement == Job!JobSpec
=============================================================================
