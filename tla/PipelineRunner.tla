--------------------------- MODULE PipelineRunner ---------------------------
(***************************************************************************)
(* The whole-source pipeline: PipelineRunner (pipeline/runner.py), the      *)
(* Celery task run_pipeline_stage that wraps it and schedules the next      *)
(* stage (workers/tasks.py), and the API requests that start, restart,      *)
(* retry and cancel it (api/app.py).                                        *)
(*                                                                          *)
(* One source.  Stages are numbered in the order of _NEXT_STAGE, INGEST is  *)
(* 1; a lifecycle state is the number of the stage that comes next.  A step *)
(* is one database transaction, or one message; what a session has loaded   *)
(* of a job stays as it was (expire_on_commit=False, copy).                 *)
(***************************************************************************)
EXTENDS Naturals, Sequences

CONSTANTS
    LastStage,    \* number of stages; the last is CANDIDATE_ANALYSIS
    Needs,        \* [Stages -> SUBSET Stages], whose output a stage reads
    Deferred,     \* stages that leave their output to the runner's commit:
                  \* INGEST and PROBE
    Polling,      \* stages that poll their job for a cancellation and may
                  \* refuse a skip: reconstruction and candidate analysis
    Restartable,  \* stages an API or CLI request can start by themselves
    MaxJobs,      \* bound: processing_jobs rows
    Workers,      \* Celery deliveries that can run at the same time
    Faults,       \* subset of FaultKinds
    MaxRetries,   \* MAX_RETRIES of the task
    MaxRequests,  \* bound: process, restart, retry and cancel requests
    MaxMishaps,   \* bound: crashes and redeliveries
    MaxInput      \* bound: versions of one stage's input

(* "failure", "retryable": a stage raises an error of that kind;
   "cancel":    the API cancels an active job;
   "crash":     a worker process dies;
   "redeliver": the visibility timeout repeats an unacknowledged message. *)
FaultKinds == {"failure", "retryable", "cancel", "crash", "redeliver"}

Stages == 1..LastStage
Jobs == 1..MaxJobs      \* in the order of created_at
NoJob == 0

ASSUME PipelineConstants ==
    /\ LastStage \in Nat \ {0}
    /\ Needs \in [Stages -> SUBSET Stages]
    /\ Deferred \subseteq Stages /\ Polling \subseteq Stages /\ Restartable \subseteq Stages
    /\ MaxJobs \in Nat /\ MaxRetries \in Nat /\ MaxRequests \in Nat
    /\ MaxMishaps \in Nat /\ MaxInput \in Nat \ {0}
    /\ Faults \subseteq FaultKinds

Messages == [stage : Stages, job : Jobs \union {NoJob}, force : BOOLEAN, tries : 0..MaxRetries]

VARIABLES
    job,        \* [Jobs -> JobStatus]; "none" while the row does not exist
    created,    \* number of job rows
    runs,       \* [Stages -> Seq(Runs)], pipeline_runs rows, latest last
    input,      \* [Stages -> 1..MaxInput], what each input fingerprint is of
    output,     \* [Stages -> 0..MaxInput], the input the persisted output was
                \* made from; 0 while there is no output
    lifecycle,  \* source_videos.lifecycle_state
    inbox,      \* [Messages -> Nat], messages in the broker
    outgoing,   \* messages of requests that have committed their job
    cancelling, \* jobs whose status a cancel request has read as active
    wpc,        \* [Workers -> ...] where each delivery stands
    msg,        \* [Workers -> Messages], the message it was delivered
    wjob,       \* [Workers -> Jobs \cup {NoJob}], the job of its run
    copy,       \* [Workers -> JobStatus], that job as its session has it
    seen,       \* [Workers -> Nat], the lifecycle as its session has it
    wrun,       \* [Workers -> Nat], the row of runs[stage] it drives
    requests,   \* requests served
    mishaps     \* crashes and redeliveries so far

apiVars == <<outgoing, cancelling, requests>>
workerVars == <<wpc, msg, wjob, copy, seen, wrun>>
sourceVars == <<runs, input, output, lifecycle>>
vars == <<job, created, sourceVars, inbox, apiVars, workerVars, mishaps>>

JobStatus == {"none", "QUEUED", "RUNNING", "SUCCEEDED", "FAILED", "CANCELLED"}
RunStatus == {"RUNNING", "SUCCEEDED", "FAILED", "CANCELLED"}
Runs == [status : RunStatus, fingerprint : 1..MaxInput]
Driving == {"execute", "succeed", "cancelled", "failed", "failedRetryable"}
WorkerPC == {"idle", "run", "schedule", "retry"} \union Driving
FirstMessage == [stage |-> 1, job |-> NoJob, force |-> FALSE, tries |-> 0]

(* Every variable holds what the code can put there; a delivery that drives a run
   knows its job and a row that exists. *)
TypeOK ==
    /\ job \in [Jobs -> JobStatus] /\ created \in 0..MaxJobs
    /\ runs \in [Stages -> Seq(Runs)]
    /\ input \in [Stages -> 1..MaxInput] /\ output \in [Stages -> 0..MaxInput]
    /\ lifecycle \in 1..(LastStage + 1)
    /\ inbox \in [Messages -> Nat] /\ outgoing \subseteq Messages
    /\ cancelling \subseteq Jobs
    /\ wpc \in [Workers -> WorkerPC]
    /\ msg \in [Workers -> Messages]
    /\ wjob \in [Workers -> Jobs \union {NoJob}]
    /\ copy \in [Workers -> JobStatus] /\ seen \in [Workers -> 0..(LastStage + 1)]
    /\ wrun \in [Workers -> Nat]
    /\ \A w \in Workers : wpc[w] \in Driving
           => wjob[w] \in Jobs /\ wrun[w] \in 1..Len(runs[msg[w].stage])
    /\ requests \in 0..MaxRequests /\ mishaps \in 0..MaxMishaps

Init ==
    /\ job = [j \in Jobs |-> "none"] /\ created = 0
    /\ runs = [s \in Stages |-> <<>>]
    /\ input = [s \in Stages |-> 1] /\ output = [s \in Stages |-> 0]
    /\ lifecycle = 1
    /\ inbox = [m \in Messages |-> 0] /\ outgoing = {} /\ cancelling = {}
    /\ wpc = [w \in Workers |-> "idle"]
    /\ msg = [w \in Workers |-> FirstMessage]
    /\ wjob = [w \in Workers |-> NoJob]
    /\ copy = [w \in Workers |-> "none"] /\ seen = [w \in Workers |-> 0]
    /\ wrun = [w \in Workers |-> 0]
    /\ requests = 0 /\ mishaps = 0

Send(m) == inbox' = [inbox EXCEPT ![m] = @ + 1]

-----------------------------------------------------------------------------
(* API requests.  A request commits its job, then sends its message. *)

Request == requests < MaxRequests /\ requests' = requests + 1

NewJob(status) ==
    /\ created < MaxJobs
    /\ created' = created + 1
    /\ job' = [job EXCEPT ![created + 1] = status]

(* process_source. *)
Process ==
    /\ Request
    /\ NewJob("QUEUED")
    /\ outgoing' = outgoing \union {[FirstMessage EXCEPT !.job = created + 1]}
    /\ UNCHANGED <<sourceVars, inbox, cancelling, workerVars, mishaps>>

(* retranscribe_source, reconstruct_source, queue_candidate_analysis. *)
Restart(s, force) ==
    /\ Request
    /\ NewJob("QUEUED")
    /\ outgoing' = outgoing \union
         {[stage |-> s, job |-> created + 1, force |-> force, tries |-> 0]}
    /\ UNCHANGED <<sourceVars, inbox, cancelling, workerVars, mishaps>>

(* retry_source: the source's latest job, of any stage, goes through INGEST. *)
RetrySource ==
    /\ created > 0 /\ job[created] \in {"FAILED", "CANCELLED"}
    /\ Request
    /\ job' = [job EXCEPT ![created] = "QUEUED"]
    /\ outgoing' = outgoing \union {[FirstMessage EXCEPT !.job = created]}
    /\ UNCHANGED <<created, sourceVars, inbox, cancelling, workerVars, mishaps>>

Dispatch(m) ==
    /\ m \in outgoing
    /\ outgoing' = outgoing \ {m}
    /\ Send(m)
    /\ UNCHANGED <<job, created, sourceVars, cancelling, requests, workerVars, mishaps>>

(* cancel_job: the status is read, then CANCELLED is written over whatever it
   has become. *)
CancelRead(j) ==
    /\ "cancel" \in Faults
    /\ job[j] \in {"QUEUED", "RUNNING"} /\ j \notin cancelling
    /\ Request
    /\ cancelling' = cancelling \union {j}
    /\ UNCHANGED <<job, created, sourceVars, inbox, outgoing, workerVars, mishaps>>

CancelWrite(j) ==
    /\ j \in cancelling
    /\ cancelling' = cancelling \ {j}
    /\ job' = [job EXCEPT ![j] = "CANCELLED"]
    /\ UNCHANGED <<created, sourceVars, inbox, outgoing, requests, workerVars, mishaps>>

-----------------------------------------------------------------------------
(* The task.  w is the delivery, its stage is msg[w].stage. *)

Stage(w) == msg[w].stage
Goto(w, label) == wpc' = [wpc EXCEPT ![w] = label]

Ack(w) ==
    /\ Goto(w, "idle")
    /\ msg' = [msg EXCEPT ![w] = FirstMessage]
    /\ wjob' = [wjob EXCEPT ![w] = NoJob]
    /\ copy' = [copy EXCEPT ![w] = "none"] /\ seen' = [seen EXCEPT ![w] = 0]
    /\ wrun' = [wrun EXCEPT ![w] = 0]

(* A message is taken and its job loaded; a cancelled job's message is dropped. *)
Deliver(w, m) ==
    /\ wpc[w] = "idle" /\ inbox[m] > 0
    /\ inbox' = [inbox EXCEPT ![m] = @ - 1]
    /\ IF m.job # NoJob /\ job[m.job] = "CANCELLED"
       THEN UNCHANGED workerVars
       ELSE /\ Goto(w, "run")
            /\ msg' = [msg EXCEPT ![w] = m]
            /\ wjob' = [wjob EXCEPT ![w] = m.job]
            /\ copy' = [copy EXCEPT ![w] = IF m.job = NoJob THEN "none" ELSE job[m.job]]
            /\ UNCHANGED <<seen, wrun>>
    /\ UNCHANGED <<job, created, sourceVars, apiVars, mishaps>>

Latest(s) == runs[s][Len(runs[s])]

(* Mutant: a stage that has succeeded is skipped, whatever its input is now. *)
SucceededOnce(s) == runs[s] # <<>> /\ Latest(s).status = "SUCCEEDED"

(* The latest run succeeded, on the input the stage has now. *)
UpToDate(s) ==
    runs[s] # <<>> /\ Latest(s).status = "SUCCEEDED" /\ Latest(s).fingerprint = input[s]

(* The stage is skipped when its latest run succeeded on the same input. *)
Skip(w) ==
    /\ wpc[w] = "run"
    /\ ~msg[w].force /\ UpToDate(Stage(w))
    /\ Goto(w, "schedule")
    /\ UNCHANGED <<job, created, sourceVars, inbox, apiVars, msg, wjob, copy, seen, wrun, mishaps>>

(* Mutant: a new row is never added to the session. *)
RowsUnsaved(w) ==
    LET s == Stage(w)
        run == [status |-> "RUNNING", fingerprint |-> input[s]]
    IN  IF runs[s] = <<>> THEN <<>> ELSE [runs[s] EXCEPT ![Len(runs[s])] = run]

(* A succeeded run of another input, or a forced one, is left as it is and a
   new row appended; any other latest row is run again. *)
Rows(w) ==
    LET s == Stage(w)
        run == [status |-> "RUNNING", fingerprint |-> input[s]]
        fresh == \/ runs[s] = <<>>
                 \/ Latest(s).status = "SUCCEEDED" /\ (msg[w].force \/ ~UpToDate(s))
    IN  IF fresh THEN Append(runs[s], run) ELSE [runs[s] EXCEPT ![Len(runs[s])] = run]

(* Job and run become RUNNING in one transaction.  (A stage that polls may
   refuse to be skipped: skip_is_allowed.)  The job's status is written when it
   differs from what the session has loaded. *)
Begin(w) ==
    /\ wpc[w] = "run"
    /\ msg[w].force \/ ~UpToDate(Stage(w)) \/ Stage(w) \in Polling
    /\ runs' = [runs EXCEPT ![Stage(w)] = Rows(w)]
    /\ wrun' = [wrun EXCEPT ![w] = Len(Rows(w))]
    /\ IF wjob[w] = NoJob
       THEN /\ NewJob("RUNNING")
            /\ wjob' = [wjob EXCEPT ![w] = created + 1]
       ELSE /\ job' = IF copy[w] = "RUNNING" THEN job ELSE [job EXCEPT ![wjob[w]] = "RUNNING"]
            /\ UNCHANGED <<created, wjob>>
    /\ copy' = [copy EXCEPT ![w] = "RUNNING"]
    /\ seen' = [seen EXCEPT ![w] = lifecycle]
    /\ Goto(w, "execute")
    /\ UNCHANGED <<input, output, lifecycle, inbox, apiVars, msg, mishaps>>

(* The output of a stage may change the input of the stages that read it;
   ingesting a URL replaces it by a path, which is INGEST's own input. *)
Readers(s) == {t \in Stages : s \in Needs[t]} \union (IF s = 1 THEN {1} ELSE {})

Publish(s) ==
    /\ output' = [output EXCEPT ![s] = input[s]]
    /\ \E changed \in SUBSET Readers(s) :
         /\ \A t \in changed : input[t] < MaxInput
         /\ input' = [t \in Stages |-> IF t \in changed THEN input[t] + 1 ELSE input[t]]

(* Mutant: a stage does not look for the output it reads. *)
MissingNothing(s) == {}

Missing(s) == {t \in Needs[s] : output[t] = 0}

(* The executor ends, and has committed its output unless it leaves that to
   the runner. *)
Produce(w) ==
    /\ wpc[w] = "execute"
    /\ Stage(w) \in Polling => job[wjob[w]] # "CANCELLED"
    /\ Missing(Stage(w)) = {}
    /\ IF Stage(w) \in Deferred THEN UNCHANGED <<input, output>> ELSE Publish(Stage(w))
    /\ Goto(w, "succeed")
    /\ UNCHANGED <<job, created, runs, lifecycle, inbox, apiVars, msg, wjob, copy, seen, wrun,
                   mishaps>>

(* It raises: a persisted cancellation seen by a poll, a missing input, or an
   error of its own. *)
ExecutorRaises(w) ==
    /\ wpc[w] = "execute"
    /\ \/ Stage(w) \in Polling /\ job[wjob[w]] = "CANCELLED" /\ Goto(w, "cancelled")
       \/ "failure" \in Faults /\ Goto(w, "failed")
       \/ Missing(Stage(w)) # {} /\ Goto(w, "failed")
       \/ "retryable" \in Faults /\ Goto(w, "failedRetryable")
    /\ UNCHANGED <<job, created, sourceVars, inbox, apiVars, msg, wjob, copy, seen, wrun, mishaps>>

(* Mutant: a failure leaves the run row as it is. *)
SetRunUnlessFailed(w, status) ==
    IF status = "FAILED" THEN UNCHANGED runs
    ELSE runs' = [runs EXCEPT ![Stage(w)][wrun[w]].status = status]

SetRun(w, status) == runs' = [runs EXCEPT ![Stage(w)][wrun[w]].status = status]

(* Run, job and lifecycle are written together, whatever the job has become;
   the lifecycle is written when it differs from what the session has loaded. *)
Succeed(w) ==
    /\ wpc[w] = "succeed"
    /\ SetRun(w, "SUCCEEDED")
    /\ job' = [job EXCEPT ![wjob[w]] = "SUCCEEDED"]
    /\ lifecycle' = IF seen[w] = Stage(w) + 1 THEN lifecycle ELSE Stage(w) + 1
    /\ IF Stage(w) \in Deferred THEN Publish(Stage(w)) ELSE UNCHANGED <<input, output>>
    /\ Goto(w, "schedule")
    /\ UNCHANGED <<created, inbox, apiVars, msg, wjob, copy, seen, wrun, mishaps>>

(* _persist_failure: the loaded job is RUNNING, so only StageCancelled cancels. *)
PersistFailure(w) ==
    /\ wpc[w] \in {"cancelled", "failed", "failedRetryable"}
    /\ LET status == IF wpc[w] = "cancelled" THEN "CANCELLED" ELSE "FAILED"
       IN  SetRun(w, status) /\ job' = [job EXCEPT ![wjob[w]] = status]
    /\ IF wpc[w] = "failedRetryable"
       THEN Goto(w, "retry") /\ UNCHANGED <<msg, wjob, copy, seen, wrun>>
       ELSE Ack(w)
    /\ UNCHANGED <<created, input, output, lifecycle, inbox, apiVars, mishaps>>

(* Mutant: attempts are not counted. *)
RetryForever(w) ==
    /\ wpc[w] = "retry"
    /\ Send(msg[w])
    /\ Ack(w)
    /\ UNCHANGED <<job, created, sourceVars, apiVars, mishaps>>

(* A retryable error is retried with the arguments of the message. *)
Retry(w) ==
    /\ wpc[w] = "retry"
    /\ IF msg[w].tries < MaxRetries
       THEN Send([msg[w] EXCEPT !.tries = @ + 1])
       ELSE UNCHANGED inbox
    /\ Ack(w)
    /\ UNCHANGED <<job, created, sourceVars, apiVars, mishaps>>

(* The next stage is sent without a job. *)
Schedule(w) ==
    /\ wpc[w] = "schedule"
    /\ IF Stage(w) < LastStage
       THEN Send([FirstMessage EXCEPT !.stage = Stage(w) + 1])
       ELSE UNCHANGED inbox
    /\ Ack(w)
    /\ UNCHANGED <<job, created, sourceVars, apiVars, mishaps>>

(* Mutant: the message was acknowledged when it was delivered. *)
CrashEarlyAck(w) ==
    /\ "crash" \in Faults /\ wpc[w] # "idle" /\ mishaps < MaxMishaps
    /\ Ack(w)
    /\ mishaps' = mishaps + 1
    /\ UNCHANGED <<job, created, sourceVars, inbox, apiVars>>

(* The process dies, or the visibility timeout passes: the message of an
   unacknowledged delivery is delivered again. *)
Crash(w) ==
    /\ "crash" \in Faults /\ wpc[w] # "idle" /\ mishaps < MaxMishaps
    /\ Send(msg[w])
    /\ Ack(w)
    /\ mishaps' = mishaps + 1
    /\ UNCHANGED <<job, created, sourceVars, apiVars>>

Redeliver(w) ==
    /\ "redeliver" \in Faults /\ wpc[w] # "idle" /\ mishaps < MaxMishaps
    /\ Send(msg[w])
    /\ mishaps' = mishaps + 1
    /\ UNCHANGED <<job, created, sourceVars, apiVars, workerVars>>

Worker(w) ==
    \/ \E m \in Messages : Deliver(w, m)
    \/ Skip(w) \/ Begin(w) \/ Produce(w) \/ ExecutorRaises(w) \/ Succeed(w)
    \/ PersistFailure(w) \/ Retry(w) \/ Schedule(w)
Operator ==
    \/ Process \/ RetrySource
    \/ \E s \in Restartable, force \in BOOLEAN : Restart(s, force)
    \/ \E j \in Jobs : CancelRead(j)

Next ==
    \/ Operator
    \/ \E m \in Messages : Dispatch(m)
    \/ \E j \in Jobs : CancelWrite(j)
    \/ \E w \in Workers : Worker(w) \/ Crash(w) \/ Redeliver(w)

Spec == Init /\ [][Next]_vars

(* Requests that have begun end, and workers work; no operator is obliged. *)
FairSpec ==
    /\ Spec
    /\ WF_vars(\E m \in Messages : Dispatch(m)) /\ WF_vars(\E j \in Jobs : CancelWrite(j))
    /\ \A w \in Workers : WF_vars(Worker(w))
-----------------------------------------------------------------------------
(* Safety *)

(* Outputs build on one another: no stage has one before the stages it reads,
   and the lifecycle never names a stage whose predecessor left nothing. *)
LifecycleIsEarned ==
    /\ \A s \in Stages : output[s] # 0 => \A t \in Needs[s] : output[t] # 0
    /\ lifecycle > 1 => output[lifecycle - 1] # 0

(* _latest_run is the row a reader sees: an older attempt is never RUNNING,
   however deliveries of one stage overlap. *)
OnlyLatestRuns ==
    \A s \in Stages : \A i \in 1..Len(runs[s]) :
        runs[s][i].status = "RUNNING" => i = Len(runs[s])

(* A RUNNING pipeline run is somebody's: a delivery drives it, or a message of
   its stage will run it again.  (A crash of a cancelled job's delivery breaks
   this: the message is then dropped.) *)
RunIsDriven ==
    \A s \in Stages : \A i \in 1..Len(runs[s]) :
        runs[s][i].status = "RUNNING" =>
            \/ \E w \in Workers : wpc[w] \in Driving /\ Stage(w) = s /\ wrun[w] = i
            \/ \E w \in Workers : wpc[w] = "run" /\ Stage(w) = s
            \/ \E m \in Messages : inbox[m] > 0 /\ m.stage = s

(* A stage that may be skipped has an output made from its present input.  (For
   one delivery at a time: two that drive one row record one fingerprint.) *)
SkipIsFresh == \A s \in Stages : UpToDate(s) => output[s] = input[s]

Idle ==
    /\ outgoing = {} /\ cancelling = {}
    /\ \A m \in Messages : inbox[m] = 0
    /\ \A w \in Workers : wpc[w] = "idle"

(* A stage whose latest attempt ended badly, or a job that stays cancelled. *)
Stopped ==
    \/ \E s \in Stages : runs[s] # <<>> /\ Latest(s).status \in {"FAILED", "CANCELLED"}
    \/ \E j \in Jobs : job[j] = "CANCELLED"

(* What PIPELINE.md says of a processed source in which no stage fails: it ends
   READY_FOR_REFINEMENT.  Processing a URL source again breaks it. *)
ProcessedIsReady == requests > 0 /\ Idle => lifecycle = LastStage + 1 \/ Stopped

(* runner.py says of a cancellation: "keep the job cancelled, never overwrite it as
   successful or failed".  A cancelled job is only requeued, by an operator. *)
CancelledStays ==
    [][\A j \in Jobs : job[j] = "CANCELLED" => job'[j] \in {"CANCELLED", "QUEUED"}]_vars

-----------------------------------------------------------------------------
(* Liveness *)

(* A process request reaches every stage, across crashes, redeliveries and
   retries, or stops at a failed attempt or a cancelled job: a skipped stage still
   schedules the next. *)
ChainCompletes ==
    (\E j \in Jobs : [FirstMessage EXCEPT !.job = j] \in outgoing)
        ~> (\A s \in Stages : output[s] # 0) \/ Stopped

(* Retries are bounded: with no further request the pipeline comes to rest. *)
Quiesces == <>[]Idle

(* "update job progress": a job that was queued is taken up.  A request whose
   stage is skipped leaves its job QUEUED. *)
QueuedJobIsTaken == \A j \in Jobs : job[j] = "QUEUED" ~> job[j] # "QUEUED"
=============================================================================
