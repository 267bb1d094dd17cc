---------------------------- MODULE UnclaimedStage ----------------------------
(***************************************************************************)
(* The job protocol of the two stages whose jobs carry no claim version:   *)
(* 3.5 (candidate refinement) and 4.0 (transformation eligibility).  A     *)
(* request inserts a job and puts it into active_job_id of its row (4.0 by *)
(* a compare-and-swap, 3.5 without); the task wrapper writes the job, the  *)
(* executor the row, neither looking at who else does.  An operator may    *)
(* hand in a manual transcript of a refinement at any time.                *)
(*                                                                         *)
(* One row.  A step is one transaction, or the reads that lead to the next *)
(* one.  Sessions use expire_on_commit=False: the objects a session loaded *)
(* stay as they were (copy), and a flush writes only the columns that      *)
(* differ from what it loaded.                                             *)
(***************************************************************************)
EXTENDS Naturals, FiniteSets

CONSTANTS
    Jobs,           \* job identifiers
    Workers,        \* Celery deliveries that can run at the same time
    Clients,        \* sessions of API requests
    NoJob,          \* SQL NULL in active_job_id
    Settings,       \* the situations examined: [stage, clients, faults], see below
    LastInput,      \* bound: versions of the upstream data
    MaxMishaps,     \* bound: crashes, repeated messages, failures, cancellations, edits
    MaxMessages     \* bound: messages of one job in the broker

(* "crash":     a worker dies and its message returns;
   "redeliver": the visibility timeout repeats an unacknowledged message;
   "raise":     the stage's work fails, perhaps with a retryable error;
   "cancel":    the API cancels an active job;
   "edit":      the upstream data changes;
   "manual":    an operator submits a manual transcript. *)
FaultKinds == {"crash", "redeliver", "raise", "cancel", "edit", "manual"}

ASSUME UnclaimedConstants ==
    /\ NoJob \notin Jobs
    /\ Settings \subseteq [stage : {"refinement", "analysis"}, clients : SUBSET Clients,
                      faults : SUBSET FaultKinds]
    /\ LastInput \in Nat \ {0} /\ MaxMishaps \in Nat /\ MaxMessages \in Nat

VARIABLES
    setting,    \* the situation of this behaviour
    upstream,   \* the present version of what the stage reads
    status,     \* [Jobs -> JobStatus], "none" while the job does not exist
    row,        \* the candidate_refinements or ..._eligibility_analyses row
    inbox,      \* [Jobs -> Nat], messages waiting in the broker
    forced,     \* jobs whose message says force
    mishaps,    \* mishaps so far
    wpc,        \* [Workers -> WorkerPC], where each delivery stands
    wjob,       \* [Workers -> Jobs \cup {NoJob}], its job
    copy,       \* [Workers -> Rows], the row as its session holds it
    basis,      \* [Workers -> 0..LastInput], the upstream version it works on
    cpc,        \* [Clients -> ClientPC], where each request stands
    ccopy,      \* [Clients -> Rows], the row as its session holds it
    cjob,       \* [Clients -> Jobs \cup {NoJob}], the job it has inserted
    cforce,     \* [Clients -> BOOLEAN], its force parameter
    tries,      \* [Clients -> 0..2], turns of the 4.0 queue loop
    cancelling  \* jobs whose status the API has read as active

workerVars == <<wpc, wjob, copy, basis>>
clientVars == <<cpc, ccopy, cjob, cforce, tries>>
worldVars == <<setting, upstream, mishaps, cancelling>>
vars == <<status, row, inbox, forced, workerVars, clientVars, worldVars>>

JobStatus == {"none", "QUEUED", "RUNNING", "SUCCEEDED", "FAILED", "CANCELLED"}
Active == {"QUEUED", "RUNNING"}
(* WORKING is REFINING or ANALYZING, READY a finished result that may be cached,
   REVIEW one that may not (degraded, or waiting for manual review). *)
Lives == {"NEW", "WORKING", "READY", "REVIEW", "FAILED", "CANCELLED"}
Texts == {"none", "automatic", "manual"}
Rows == [active : Jobs \union {NoJob}, life : Lives, input : 0..LastInput,
         text : Texts, manual : BOOLEAN, eligible : BOOLEAN]
NewRow == [active |-> NoJob, life |-> "NEW", input |-> 0,
           text |-> "none", manual |-> FALSE, eligible |-> FALSE]
WorkerPC == {"idle", "mark", "touch", "load", "check", "claim", "work", "persist",
             "finish", "endCancelled", "endFailed", "retry"}
ClientPC == {"idle", "look", "clear", "insert", "dispatch", "submit"}

(* Every variable holds what the code can put there, and a delivery or a request
   in progress knows its job. *)
TypeOK ==
    /\ setting \in Settings /\ upstream \in 1..LastInput /\ mishaps \in 0..MaxMishaps
    /\ status \in [Jobs -> JobStatus] /\ row \in Rows
    /\ inbox \in [Jobs -> Nat] /\ forced \subseteq Jobs /\ cancelling \subseteq Jobs
    /\ wpc \in [Workers -> WorkerPC] /\ wjob \in [Workers -> Jobs \union {NoJob}]
    /\ \A w \in Workers : wpc[w] # "idle" => wjob[w] \in Jobs
    /\ copy \in [Workers -> Rows] /\ basis \in [Workers -> 0..LastInput]
    /\ cpc \in [Clients -> ClientPC] /\ ccopy \in [Clients -> Rows]
    /\ cjob \in [Clients -> Jobs \union {NoJob}]
    /\ \A c \in Clients : cpc[c] = "dispatch" => cjob[c] \in Jobs
    /\ cforce \in [Clients -> BOOLEAN] /\ tries \in [Clients -> 0..2]

Init ==
    /\ setting \in Settings /\ upstream = 1 /\ mishaps = 0
    /\ status = [j \in Jobs |-> "none"] /\ row = NewRow
    /\ inbox = [j \in Jobs |-> 0] /\ forced = {} /\ cancelling = {}
    /\ wpc = [w \in Workers |-> "idle"] /\ wjob = [w \in Workers |-> NoJob]
    /\ copy = [w \in Workers |-> NewRow] /\ basis = [w \in Workers |-> 0]
    /\ cpc = [c \in Clients |-> "idle"] /\ ccopy = [c \in Clients |-> NewRow]
    /\ cjob = [c \in Clients |-> NoJob] /\ cforce = [c \in Clients |-> FALSE]
    /\ tries = [c \in Clients |-> 0]

Refinement == setting.stage = "refinement"
Analysis == setting.stage = "analysis"
May(fault) == fault \in setting.faults
ActiveJobs == {j \in Jobs : status[j] \in Active}
CanMishap == mishaps < MaxMishaps

(* What a flush leaves in the row: of a session that loaded old and now holds
   new, only the columns that differ. *)
Column(old, new, present) == IF new # old THEN new ELSE present
Flush(old, new) ==
    [active   |-> Column(old.active, new.active, row.active),
     life     |-> Column(old.life, new.life, row.life),
     input    |-> Column(old.input, new.input, row.input),
     text     |-> Column(old.text, new.text, row.text),
     manual   |-> Column(old.manual, new.manual, row.manual),
     eligible |-> Column(old.eligible, new.eligible, row.eligible)]

Send(j) == inbox[j] < MaxMessages /\ inbox' = [inbox EXCEPT ![j] = @ + 1]

-----------------------------------------------------------------------------
(* A queue request (refinement/queue.py, transformation/queue.py). *)

Return(c) ==
    /\ cpc' = [cpc EXCEPT ![c] = "idle"]
    /\ ccopy' = [ccopy EXCEPT ![c] = NewRow]
    /\ cjob' = [cjob EXCEPT ![c] = NoJob]
    /\ cforce' = [cforce EXCEPT ![c] = FALSE]
    /\ tries' = [tries EXCEPT ![c] = 0]

(* get_or_create_...: the request's session loads the row. *)
QueueRequest(c) ==
    /\ cpc[c] = "idle" /\ c \in setting.clients
    /\ cpc' = [cpc EXCEPT ![c] = "look"]
    /\ ccopy' = [ccopy EXCEPT ![c] = row]
    /\ \E force \in BOOLEAN : cforce' = [cforce EXCEPT ![c] = force]
    /\ UNCHANGED <<status, row, inbox, forced, workerVars, cjob, tries, worldVars>>

(* _matches_cache: 3.5 looks neither at the row's status nor at force. *)
Cached(c) ==
    /\ ccopy[c].eligible /\ ccopy[c].input = upstream
    /\ Analysis => ccopy[c].life = "READY" /\ ~cforce[c]

(* Mutant: the loop is not bounded. *)
QueueLookForEver(c) ==
    /\ cpc[c] = "look"
    /\ IF ActiveJobs # {}
         THEN Return(c)
       ELSE IF Analysis /\ ccopy[c].active # NoJob
         THEN cpc' = [cpc EXCEPT ![c] = "clear"] /\ UNCHANGED <<ccopy, cjob, cforce, tries>>
       ELSE IF Cached(c)
         THEN Return(c)
         ELSE cpc' = [cpc EXCEPT ![c] = "insert"] /\ UNCHANGED <<ccopy, cjob, cforce, tries>>
    /\ UNCHANGED <<status, row, inbox, forced, workerVars, worldVars>>

(* _active_job; 4.0 then takes off the claim of a job that is over, looks again,
   and gives up after two turns. *)
QueueLook(c) ==
    /\ cpc[c] = "look"
    /\ IF ActiveJobs # {} \/ tries[c] = 2
         THEN Return(c)
       ELSE IF Analysis /\ ccopy[c].active # NoJob
         THEN cpc' = [cpc EXCEPT ![c] = "clear"] /\ UNCHANGED <<ccopy, cjob, cforce, tries>>
       ELSE IF Cached(c)
         THEN Return(c)
         ELSE cpc' = [cpc EXCEPT ![c] = "insert"] /\ UNCHANGED <<ccopy, cjob, cforce, tries>>
    /\ UNCHANGED <<status, row, inbox, forced, workerVars, worldVars>>

(* The row as the session holds it for its next turn. *)
Again(c) ==
    /\ cpc' = [cpc EXCEPT ![c] = "look"]
    /\ ccopy' = [ccopy EXCEPT ![c] = row']
    /\ tries' = [tries EXCEPT ![c] = @ + 1]
    /\ UNCHANGED <<cjob, cforce>>

(* _clear_stale_claim: a compare-and-swap on the claim it has read. *)
QueueClear(c) ==
    /\ cpc[c] = "clear"
    /\ row' = IF row.active = ccopy[c].active THEN [row EXCEPT !.active = NoJob] ELSE row
    /\ Again(c)
    /\ UNCHANGED <<status, inbox, forced, workerVars, worldVars>>

(* Mutant: 4.0 claims the row without a compare-and-swap, as 3.5 does. *)
QueueInsertBlind(c) ==
    /\ cpc[c] = "insert"
    /\ \E j \in Jobs :
         /\ status[j] = "none"
         /\ status' = [status EXCEPT ![j] = "QUEUED"]
         /\ row' = Flush(ccopy[c], [ccopy[c] EXCEPT !.active = j])
         /\ forced' = IF cforce[c] THEN forced \union {j} ELSE forced
         /\ cjob' = [cjob EXCEPT ![c] = j]
         /\ cpc' = [cpc EXCEPT ![c] = "dispatch"]
    /\ UNCHANGED <<inbox, workerVars, ccopy, cforce, tries, worldVars>>

(* Insert the job and claim the row, in one transaction.  3.5 writes
   active_job_id whatever it holds; a 4.0 request that finds it taken rolls back. *)
QueueInsert(c) ==
    /\ cpc[c] = "insert"
    /\ \/ \E j \in Jobs :
            /\ status[j] = "none"
            /\ Analysis => row.active = NoJob
            /\ status' = [status EXCEPT ![j] = "QUEUED"]
            /\ row' = IF Analysis THEN [row EXCEPT !.active = j]
                      ELSE Flush(ccopy[c], [ccopy[c] EXCEPT !.active = j])
            /\ forced' = IF cforce[c] THEN forced \union {j} ELSE forced
            /\ cjob' = [cjob EXCEPT ![c] = j]
            /\ cpc' = [cpc EXCEPT ![c] = "dispatch"]
            /\ UNCHANGED <<ccopy, cforce, tries>>
       \/ Analysis /\ row.active # NoJob /\ row' = row /\ Again(c) /\ UNCHANGED <<status, forced>>
    /\ UNCHANGED <<inbox, workerVars, worldVars>>

(* _dispatch, after the commit. *)
QueueDispatch(c) ==
    /\ cpc[c] = "dispatch"
    /\ Send(cjob[c])
    /\ Return(c)
    /\ UNCHANGED <<status, row, forced, workerVars, worldVars>>

(* apply_manual_transcript: load the row, then commit text and status.  (Bound:
   the text is submitted once.) *)
ManualRequest(c) ==
    /\ Refinement /\ May("manual") /\ cpc[c] = "idle" /\ c \in setting.clients /\ ~row.manual
    /\ cpc' = [cpc EXCEPT ![c] = "submit"]
    /\ ccopy' = [ccopy EXCEPT ![c] = row]
    /\ UNCHANGED <<status, row, inbox, forced, workerVars, cjob, cforce, tries, worldVars>>

ManualSubmit(c) ==
    /\ cpc[c] = "submit"
    /\ \E life \in {"READY", "REVIEW"} :
         row' = Flush(ccopy[c], [ccopy[c] EXCEPT !.manual = TRUE, !.text = "manual",
                                                 !.life = life, !.eligible = (life = "READY")])
    /\ Return(c)
    /\ UNCHANGED <<status, inbox, forced, workerVars, worldVars>>

-----------------------------------------------------------------------------
(* A delivery (workers/tasks.py, then the stage's executor). *)

Goto(w, pc) == wpc' = [wpc EXCEPT ![w] = pc]

(* The task ends and its session is closed. *)
Leave(w) ==
    /\ Goto(w, "idle")
    /\ wjob' = [wjob EXCEPT ![w] = NoJob]
    /\ copy' = [copy EXCEPT ![w] = NewRow]
    /\ basis' = [basis EXCEPT ![w] = 0]

(* Mutant: a job that runs already is skipped as a duplicate. *)
DeliverOnce(w, j) ==
    /\ wpc[w] = "idle" /\ inbox[j] > 0
    /\ inbox' = [inbox EXCEPT ![j] = @ - 1]
    /\ IF status[j] \in {"CANCELLED", "RUNNING"}
         THEN UNCHANGED <<wpc, wjob>>
         ELSE Goto(w, "mark") /\ wjob' = [wjob EXCEPT ![w] = j]
    /\ UNCHANGED <<status, row, forced, copy, basis, clientVars, worldVars>>

(* The wrapper loads the job; a cancelled one ends the task.  "touch": the job
   reads RUNNING already, so the flush will not write its status. *)
Deliver(w, j) ==
    /\ wpc[w] = "idle" /\ inbox[j] > 0
    /\ inbox' = [inbox EXCEPT ![j] = @ - 1]
    /\ IF status[j] = "CANCELLED"
         THEN UNCHANGED <<wpc, wjob>>
         ELSE /\ Goto(w, IF status[j] = "RUNNING" THEN "touch" ELSE "mark")
              /\ wjob' = [wjob EXCEPT ![w] = j]
    /\ UNCHANGED <<status, row, forced, copy, basis, clientVars, worldVars>>

(* RUNNING is written whatever the job has become since it was read. *)
MarkRunning(w) ==
    /\ wpc[w] \in {"mark", "touch"}
    /\ status' = IF wpc[w] = "mark" THEN [status EXCEPT ![wjob[w]] = "RUNNING"] ELSE status
    /\ Goto(w, "load")
    /\ UNCHANGED <<row, inbox, forced, wjob, copy, basis, clientVars, worldVars>>

(* execute loads the row into the session. *)
Load(w) ==
    /\ wpc[w] = "load"
    /\ copy' = [copy EXCEPT ![w] = row]
    /\ Goto(w, "check")
    /\ UNCHANGED <<status, row, inbox, forced, wjob, basis, clientVars, worldVars>>

Stopped(w) == status[wjob[w]] = "CANCELLED"

(* _mark_cancelled, _mark_failed: the row is given up, whoever holds it. *)
GiveUp(w, life) ==
    row' = Flush(copy[w], [copy[w] EXCEPT !.life = life, !.active = NoJob])

(* The polls of the job: before the start, during the work, and before the
   result is persisted. *)
NoticeCancel(w) ==
    /\ wpc[w] \in {"check", "work"} /\ Stopped(w)
    /\ GiveUp(w, "CANCELLED")
    /\ Goto(w, "endCancelled")
    /\ UNCHANGED <<status, inbox, forced, wjob, copy, basis, clientVars, worldVars>>

(* is_cache_hit: the row as loaded holds a result of the present input. *)
CacheHit(w) ==
    /\ wjob[w] \notin forced
    /\ copy[w].eligible /\ copy[w].input = upstream
    /\ copy[w].life = "READY" \/ (Analysis /\ copy[w].life = "REVIEW")

(* _claimed_by_other_job: the row as loaded names another job that is active. *)
ClaimedByOther(w) == copy[w].active # wjob[w] /\ copy[w].active \in ActiveJobs

(* A hit, or another job's claim, ends the task as a success. *)
Check(w) ==
    /\ wpc[w] = "check" /\ ~Stopped(w)
    /\ Goto(w, IF CacheHit(w) \/ ClaimedByOther(w) THEN "finish" ELSE "claim")
    /\ basis' = [basis EXCEPT ![w] = upstream]
    /\ UNCHANGED <<status, row, inbox, forced, wjob, copy, clientVars, worldVars>>

(* _claim: an unconditional write; a column that already reads so is left out. *)
Claim(w) ==
    /\ wpc[w] = "claim"
    /\ LET new == [copy[w] EXCEPT !.active = wjob[w], !.life = "WORKING"]
       IN row' = Flush(copy[w], new) /\ copy' = [copy EXCEPT ![w] = new]
    /\ Goto(w, "work")
    /\ UNCHANGED <<status, inbox, forced, wjob, basis, clientVars, worldVars>>

(* The work is done and the last poll finds the job alive. *)
Work(w) ==
    /\ wpc[w] = "work" /\ ~Stopped(w)
    /\ Goto(w, "persist")
    /\ UNCHANGED <<status, row, inbox, forced, wjob, copy, basis, clientVars, worldVars>>

(* _persist, unless a manual text was in the row when it was loaded with the
   automatic one. *)
Persist(w) ==
    /\ wpc[w] = "persist"
    /\ \E life \in {"READY", "REVIEW"} :
         row' = Flush(copy[w],
                      [copy[w] EXCEPT !.life = life, !.eligible = (life = "READY"),
                                      !.input = basis[w], !.active = NoJob,
                                      !.text = IF copy[w].manual THEN "manual" ELSE "automatic"])
    /\ Goto(w, "finish")
    /\ UNCHANGED <<status, inbox, forced, wjob, copy, basis, clientVars, worldVars>>

(* The work raises, or in 4.0 its inputs cannot be resolved before the claim. *)
Fail(w) ==
    /\ May("raise") /\ CanMishap
    /\ wpc[w] = "work" \/ (Analysis /\ wpc[w] = "check" /\ ~Stopped(w))
    /\ GiveUp(w, IF Stopped(w) THEN "CANCELLED" ELSE "FAILED")
    /\ Goto(w, "endFailed")
    /\ mishaps' = mishaps + 1
    /\ UNCHANGED <<status, inbox, forced, wjob, copy, basis, clientVars, setting, upstream, cancelling>>

(* The wrapper ends its job: its copy of it reads RUNNING, so whatever the API
   has written meanwhile is overwritten. *)
End(w, result) ==
    status' = [status EXCEPT ![wjob[w]] = result]

Finish(w) ==
    /\ \/ wpc[w] = "finish" /\ End(w, "SUCCEEDED")
       \/ wpc[w] = "endCancelled" /\ End(w, "CANCELLED")
    /\ Leave(w)
    /\ UNCHANGED <<row, inbox, forced, clientVars, worldVars>>

FinishFailed(w) ==
    /\ wpc[w] = "endFailed" /\ End(w, "FAILED")
    /\ \/ Leave(w)
       \/ Goto(w, "retry") /\ UNCHANGED <<wjob, copy, basis>>
    /\ UNCHANGED <<row, inbox, forced, clientVars, worldVars>>

(* self.retry: a new message of the same job. *)
Retry(w) ==
    /\ wpc[w] = "retry"
    /\ Send(wjob[w])
    /\ Leave(w)
    /\ UNCHANGED <<status, row, forced, clientVars, worldVars>>

-----------------------------------------------------------------------------
(* What goes wrong, and what the world does. *)

Crash(w) ==
    /\ May("crash") /\ CanMishap /\ wpc[w] # "idle"
    /\ mishaps' = mishaps + 1
    /\ Send(wjob[w])
    /\ Leave(w)
    /\ UNCHANGED <<status, row, forced, clientVars, setting, upstream, cancelling>>

Redeliver(w) ==
    /\ May("redeliver") /\ CanMishap /\ wpc[w] # "idle"
    /\ mishaps' = mishaps + 1
    /\ Send(wjob[w])
    /\ UNCHANGED <<status, row, forced, workerVars, clientVars, setting, upstream, cancelling>>

(* cancel_job: read the status, then write CANCELLED. *)
CancelRead(j) ==
    /\ May("cancel") /\ CanMishap /\ status[j] \in Active
    /\ mishaps' = mishaps + 1
    /\ cancelling' = cancelling \union {j}
    /\ UNCHANGED <<status, row, inbox, forced, workerVars, clientVars, setting, upstream>>

CancelWrite(j) ==
    /\ j \in cancelling
    /\ cancelling' = cancelling \ {j}
    /\ status' = [status EXCEPT ![j] = "CANCELLED"]
    /\ UNCHANGED <<row, inbox, forced, workerVars, clientVars, setting, upstream, mishaps>>

Edit ==
    /\ May("edit") /\ \E v \in 1..LastInput : v # upstream /\ upstream' = v
    /\ CanMishap /\ mishaps' = mishaps + 1
    /\ UNCHANGED <<status, row, inbox, forced, workerVars, clientVars, setting, cancelling>>

Client(c) ==
    QueueLook(c) \/ QueueClear(c) \/ QueueInsert(c) \/ QueueDispatch(c) \/ ManualSubmit(c)
Worker(w) ==
    \/ MarkRunning(w) \/ Load(w) \/ NoticeCancel(w) \/ Check(w) \/ Claim(w) \/ Work(w)
    \/ Persist(w) \/ Fail(w) \/ Finish(w) \/ FinishFailed(w) \/ Retry(w)
Take(w) == \E j \in Jobs : Deliver(w, j)

Next ==
    \/ \E c \in Clients : QueueRequest(c) \/ ManualRequest(c) \/ Client(c)
    \/ \E w \in Workers : Take(w) \/ Worker(w) \/ Crash(w) \/ Redeliver(w)
    \/ \E j \in Jobs : CancelRead(j) \/ CancelWrite(j)
    \/ Edit

Spec == Init /\ [][Next]_vars

(* Requests that have begun end, a worker process takes the next message and
   runs it: worker_concurrency = 1, acks late. *)
FairSpec ==
    /\ Spec
    /\ \A c \in Clients : WF_vars(Client(c))
    /\ \A w \in Workers : WF_vars(Worker(w)) /\ WF_vars(Take(w))

-----------------------------------------------------------------------------
(* Properties. *)

Working(w) == wpc[w] \in {"work", "persist"}

(* Of an analysis, no two deliveries ever work at once, however requests, forced
   ones too, interleave with jobs: the compare-and-swap on active_job_id and the
   executor's look at another job's claim see to it between them, although
   neither holds the row up to the end of its job.  (Not after a crash or a
   retried failure: then an earlier job comes back unclaimed.) *)
OneRowWorker ==
    Analysis /\ setting.faults \subseteq {"edit"} =>
        \A w1, w2 \in Workers : Working(w1) /\ Working(w2) => w1 = w2

(* Every job whose message was sent ends: a crashed worker's message runs the job
   again, and neither cancellations nor failures of the stage nor another job's
   claim can hold it up. *)
JobsEnd == \A j \in Jobs : status[j] \in Active ~> status[j] \notin Active

(* "Automated work never overwrites or removes manual text". *)
ManualTextStands == [][row.text = "manual" => row'.text = "manual"]_vars
=============================================================================
