------------------------ MODULE PipelineRunnerProofs ------------------------
(***************************************************************************)
(* Theorems about PipelineRunner, for any number of stages, deliveries,     *)
(* jobs and requests.                                                       *)
(***************************************************************************)
EXTENDS PipelineRunner, SequenceTheorems, TLAPS

(* The API's own steps, and those of the workers. *)
LEMMA NextCases ==
    ASSUME Next
    PROVE  \/ Process \/ RetrySource
           \/ \E s \in Restartable, force \in BOOLEAN : Restart(s, force)
           \/ \E j \in Jobs : CancelRead(j) \/ CancelWrite(j)
           \/ \E m \in Messages : Dispatch(m)
           \/ \E w \in Workers, m \in Messages : Deliver(w, m)
           \/ \E w \in Workers : \/ Skip(w) \/ Begin(w) \/ Produce(w) \/ ExecutorRaises(w)
                                 \/ Succeed(w) \/ PersistFailure(w) \/ Retry(w)
                                 \/ Schedule(w) \/ Crash(w) \/ Redeliver(w)
BY DEF Next, Operator, Worker

-----------------------------------------------------------------------------
(* Type correctness *)

(* One more message in the broker. *)
LEMMA SendType ==
    ASSUME inbox \in [Messages -> Nat], NEW m \in Messages, Send(m)
    PROVE  inbox' \in [Messages -> Nat]
BY DEF Send

(* The message celery.retry publishes is a message. *)
LEMMA RetriedMessage ==
    ASSUME NEW m \in Messages, m.tries < MaxRetries
    PROVE  [m EXCEPT !.tries = @ + 1] \in Messages
<1>1. m.tries + 1 \in 0..MaxRetries
    <2>1. m.tries \in 0..MaxRetries  BY DEF Messages
    <2> QED  BY <2>1, PipelineConstants
<1>2. /\ m = [stage |-> m.stage, job |-> m.job, force |-> m.force, tries |-> m.tries]
      /\ m.stage \in Stages /\ m.job \in Jobs \union {NoJob} /\ m.force \in BOOLEAN
    BY DEF Messages
<1>3. [m EXCEPT !.tries = @ + 1]
        = [stage |-> m.stage, job |-> m.job, force |-> m.force, tries |-> m.tries + 1]
    BY <1>2
<1> QED  BY <1>1, <1>2, <1>3 DEF Messages

(* Taking a row to another status keeps the rows rows. *)
LEMMA RowUpdate ==
    ASSUME NEW rows \in Seq(Runs), NEW i \in 1..Len(rows), NEW run \in Runs
    PROVE  /\ [rows EXCEPT ![i] = run] \in Seq(Runs)
           /\ Len([rows EXCEPT ![i] = run]) = Len(rows)
BY ExceptSeq

LEMMA RowStatus ==
    ASSUME NEW rows \in Seq(Runs), NEW i \in 1..Len(rows), NEW status \in RunStatus
    PROVE  /\ [rows EXCEPT ![i].status = status] \in Seq(Runs)
           /\ Len([rows EXCEPT ![i].status = status]) = Len(rows)
<1>1. rows[i] \in Runs
    BY ElementOfSeq
<1>2. [rows[i] EXCEPT !.status = status] \in Runs
    BY <1>1 DEF Runs
<1>3. [rows EXCEPT ![i].status = status]
        = [rows EXCEPT ![i] = [rows[i] EXCEPT !.status = status]]
    OBVIOUS
<1> QED BY <1>2, <1>3, RowUpdate

(* A driven row's status changes, and nothing else of the rows. *)
LEMMA SetRunType ==
    ASSUME TypeOK, NEW w \in Workers, wpc[w] \in Driving,
           NEW status \in RunStatus, SetRun(w, status)
    PROVE  /\ runs' \in [Stages -> Seq(Runs)]
           /\ \A s \in Stages : Len(runs'[s]) = Len(runs[s])
<1> DEFINE s == Stage(w)
<1>1. s \in Stages /\ runs[s] \in Seq(Runs) /\ wrun[w] \in 1..Len(runs[s])
    BY DEF TypeOK, Stage, Messages
<1>2. runs' = [runs EXCEPT ![s] = [runs[s] EXCEPT ![wrun[w]].status = status]]
    BY <1>1 DEF SetRun, TypeOK
<1>3. /\ [runs[s] EXCEPT ![wrun[w]].status = status] \in Seq(Runs)
      /\ Len([runs[s] EXCEPT ![wrun[w]].status = status]) = Len(runs[s])
    BY <1>1, RowStatus
<1> QED BY <1>1, <1>2, <1>3 DEF TypeOK

(* The rows Begin writes: one more, or as many as there were; the last RUNNING,
   the others untouched. *)
LEMMA RowsType ==
    ASSUME TypeOK, NEW w \in Workers
    PROVE  LET s == Stage(w)
           IN  /\ Rows(w) \in Seq(Runs)
               /\ Len(Rows(w)) \in {Len(runs[s]), Len(runs[s]) + 1} /\ Len(Rows(w)) > 0
               /\ Len(Rows(w)) = Len(runs[s]) + 1 =>
                      runs[s] = <<>> \/ Latest(s).status = "SUCCEEDED"
               /\ Rows(w)[Len(Rows(w))].status = "RUNNING"
               /\ \A i \in 1..(Len(Rows(w)) - 1) : Rows(w)[i] = runs[s][i]
<1> DEFINE s == Stage(w)
           run == [status |-> "RUNNING", fingerprint |-> input[s]]
<1>1. s \in Stages /\ runs[s] \in Seq(Runs) /\ run \in Runs
    BY DEF TypeOK, Stage, Messages, Runs, RunStatus
<1>2. CASE Rows(w) = Append(runs[s], run) /\ (runs[s] = <<>> \/ Latest(s).status = "SUCCEEDED")
    <2>1. /\ Append(runs[s], run) \in Seq(Runs)
          /\ Len(Append(runs[s], run)) = Len(runs[s]) + 1
          /\ \A i \in 1..Len(runs[s]) : Append(runs[s], run)[i] = runs[s][i]
          /\ Append(runs[s], run)[Len(runs[s]) + 1] = run
        BY <1>1, AppendProperties
    <2>2. Len(runs[s]) \in Nat
        BY <1>1, LenProperties
    <2> QED BY <1>1, <1>2, <2>1, <2>2
<1>3. CASE runs[s] # <<>> /\ Rows(w) = [runs[s] EXCEPT ![Len(runs[s])] = run]
    <2>1. Len(runs[s]) \in Nat /\ Len(runs[s]) \in 1..Len(runs[s])
        BY <1>1, <1>3, LenProperties, EmptySeq
    <2>2. /\ Rows(w) \in Seq(Runs) /\ Len(Rows(w)) = Len(runs[s])
          /\ \A i \in 1..Len(runs[s]) :
                Rows(w)[i] = IF i = Len(runs[s]) THEN run ELSE runs[s][i]
        BY <1>1, <1>3, <2>1, ExceptSeq
    <2> QED BY <2>1, <2>2
<1> QED BY <1>2, <1>3 DEF Rows

(* A new output, and the inputs it changes. *)
LEMMA PublishType ==
    ASSUME TypeOK, NEW s \in Stages, Publish(s)
    PROVE  /\ input' \in [Stages -> 1..MaxInput] /\ output' \in [Stages -> 0..MaxInput]
           /\ output'[s] # 0 /\ \A t \in Stages : output[t] # 0 => output'[t] # 0
<1> USE PipelineConstants DEF TypeOK
<1>1. PICK changed \in SUBSET Readers(s) :
         /\ \A t \in changed : input[t] < MaxInput
         /\ input' = [t \in Stages |-> IF t \in changed THEN input[t] + 1 ELSE input[t]]
    BY DEF Publish
<1>2. input' \in [Stages -> 1..MaxInput]
    BY <1>1
<1>3. output' = [output EXCEPT ![s] = input[s]] /\ input[s] \in 1..MaxInput
    BY DEF Publish
<1> QED BY <1>2, <1>3

(* An acknowledged delivery leaves nothing behind. *)
LEMMA AckType ==
    ASSUME TypeOK, NEW w \in Workers, Ack(w)
    PROVE  /\ wpc' \in [Workers -> WorkerPC] /\ msg' \in [Workers -> Messages]
           /\ wjob' \in [Workers -> Jobs \union {NoJob}] /\ copy' \in [Workers -> JobStatus]
           /\ seen' \in [Workers -> 0..(LastStage + 1)] /\ wrun' \in [Workers -> Nat]
<1>1. FirstMessage \in Messages /\ 0 \in 0..(LastStage + 1)
    BY PipelineConstants DEF FirstMessage, Messages, Stages
<1> QED BY <1>1 DEF Ack, Goto, TypeOK, WorkerPC, JobStatus

(* What a job, a message and a delivery's session may hold. *)
THEOREM TypeCorrect == Spec => []TypeOK
<1> USE PipelineConstants DEF JobStatus, WorkerPC, Driving, Jobs
<1>1. Init => TypeOK
  <2>1. FirstMessage \in Messages  BY DEF FirstMessage, Messages, Stages
  <2>2. [s \in Stages |-> <<>>] \in [Stages -> Seq(Runs)]  BY EmptySeq
  <2> QED  BY <2>1, <2>2 DEF Init, TypeOK
<1>2. TypeOK /\ [Next]_vars => TypeOK'
  <2> SUFFICES ASSUME TypeOK, [Next]_vars PROVE TypeOK'
    OBVIOUS
  <2>m. FirstMessage \in Messages /\ \A j \in Jobs : [FirstMessage EXCEPT !.job = j] \in Messages
    <3>1. FirstMessage \in Messages  BY DEF FirstMessage, Messages, Stages
    <3>2. ASSUME NEW j \in Jobs PROVE [FirstMessage EXCEPT !.job = j] \in Messages
      BY <3>1 DEF Messages
    <3> QED  BY <3>1, <3>2
  <2>s. ASSUME NEW w \in Workers
        PROVE  Stage(w) \in Stages /\ msg[w] \in Messages
    BY DEF TypeOK, Stage, Messages
  <2>1. CASE Process
    <3> USE DEF Process, Request, NewJob
    <3>1. job' \in [Jobs -> JobStatus] /\ created' \in 0..MaxJobs
      BY <2>1 DEF TypeOK
    <3>2. outgoing' \subseteq Messages  BY <2>1, <2>m DEF TypeOK
    <3>3. requests' \in 0..MaxRequests
          /\ UNCHANGED <<cancelling, runs, input, output, lifecycle, inbox, wpc, msg, wjob, copy, seen, wrun,
                      mishaps>>
      BY <2>1 DEF TypeOK, sourceVars, workerVars
    <3> QED  BY <3>1, <3>2, <3>3 DEF TypeOK
  <2>2. CASE RetrySource
    <3> USE DEF RetrySource, Request
    <3>1. job' \in [Jobs -> JobStatus]
      BY <2>2 DEF TypeOK
    <3>2. outgoing' \subseteq Messages  BY <2>2, <2>m DEF TypeOK
    <3>3. requests' \in 0..MaxRequests /\ UNCHANGED created
          /\ UNCHANGED <<cancelling, runs, input, output, lifecycle, inbox, wpc, msg, wjob, copy, seen, wrun,
                      mishaps>>
      BY <2>2 DEF TypeOK, sourceVars, workerVars
    <3> QED  BY <3>1, <3>2, <3>3 DEF TypeOK
  <2>3. ASSUME NEW s \in Restartable, NEW force \in BOOLEAN, Restart(s, force) PROVE TypeOK'
    <3> USE DEF Restart, Request, NewJob
    <3>1. job' \in [Jobs -> JobStatus] /\ created' \in 0..MaxJobs
      BY <2>3 DEF TypeOK
    <3>2. created + 1 \in Jobs  BY <2>3 DEF TypeOK
    <3>3. outgoing' \subseteq Messages  BY <2>3, <3>2 DEF TypeOK, Messages
    <3> QED  BY <2>3, <3>1, <3>3 DEF TypeOK, sourceVars, workerVars, Stage
  <2>4. ASSUME NEW j \in Jobs, CancelRead(j) \/ CancelWrite(j) PROVE TypeOK'
    <3>1. CASE CancelRead(j)
      <4>1. requests' \in 0..MaxRequests /\ cancelling' \subseteq Jobs
        BY <3>1, PipelineConstants DEF CancelRead, Request, TypeOK
      <4> QED  BY <3>1, <4>1 DEF CancelRead, TypeOK, sourceVars, workerVars, Stage
    <3>2. CASE CancelWrite(j)
      BY <3>2 DEF CancelWrite, TypeOK, sourceVars, workerVars, Stage
    <3> QED  BY <2>4, <3>1, <3>2
  <2>5. ASSUME NEW m \in Messages, Dispatch(m) PROVE TypeOK'
    <3>1. inbox' \in [Messages -> Nat]  BY <2>5, SendType DEF Dispatch, TypeOK
    <3> QED  BY <2>5, <3>1 DEF Dispatch, TypeOK, sourceVars, workerVars, Stage

  <2>6. ASSUME NEW w \in Workers, NEW m \in Messages, Deliver(w, m) PROVE TypeOK'
    <3>1. inbox' \in [Messages -> Nat]
      <4>1. inbox[m] \in Nat /\ inbox[m] > 0 /\ inbox' = [inbox EXCEPT ![m] = @ - 1]
        BY <2>6 DEF Deliver, TypeOK
      <4>2. inbox \in [Messages -> Nat] /\ inbox[m] - 1 \in Nat  BY <4>1 DEF TypeOK
      <4> QED  BY <4>1, <4>2
    <3>2. UNCHANGED <<job, created, runs, input, output, lifecycle, outgoing, cancelling,
                      requests, mishaps>>
      BY <2>6 DEF Deliver, sourceVars, apiVars
    <3>3. CASE UNCHANGED workerVars
      BY <3>1, <3>2, <3>3 DEF TypeOK, workerVars, Stage
    <3>4. CASE ~UNCHANGED workerVars
      <4>1. /\ wpc' = [wpc EXCEPT ![w] = "run"] /\ msg' = [msg EXCEPT ![w] = m]
            /\ wjob' = [wjob EXCEPT ![w] = m.job]
            /\ copy' = [copy EXCEPT ![w] = IF m.job = NoJob THEN "none" ELSE job[m.job]]
            /\ UNCHANGED <<seen, wrun>>
        BY <2>6, <3>4 DEF Deliver, Goto
      <4>2. m.job \in Jobs \union {NoJob}  BY DEF Messages
      <4> QED  BY <3>1, <3>2, <4>1, <4>2 DEF TypeOK
    <3> QED  BY <3>3, <3>4
  <2>7. ASSUME NEW w \in Workers,
               Skip(w) \/ Produce(w) \/ ExecutorRaises(w) \/ Redeliver(w)
        PROVE  TypeOK'
    <3>1. CASE Skip(w)  BY <3>1 DEF Skip, Goto, TypeOK, sourceVars, apiVars
    <3>2. CASE Produce(w)
      <4>1. input' \in [Stages -> 1..MaxInput] /\ output' \in [Stages -> 0..MaxInput]
        BY <3>2, <2>s, PublishType DEF Produce, TypeOK
      <4> QED  BY <3>2, <4>1 DEF Produce, Goto, TypeOK, apiVars
    <3>3. CASE ExecutorRaises(w)
      BY <3>3 DEF ExecutorRaises, Goto, TypeOK, sourceVars, apiVars
    <3>4. CASE Redeliver(w)
      <4>1. inbox' \in [Messages -> Nat]
        BY <3>4, <2>s, SendType DEF Redeliver, TypeOK
      <4> QED  BY <3>4, <4>1 DEF Redeliver, TypeOK, sourceVars, apiVars, workerVars
    <3> QED  BY <2>7, <3>1, <3>2, <3>3, <3>4
  <2>8. ASSUME NEW w \in Workers, Begin(w) PROVE TypeOK'
    <3>1. /\ Rows(w) \in Seq(Runs) /\ Len(Rows(w)) > 0 /\ Len(Rows(w)) \in Nat
          /\ Len(Rows(w)) >= Len(runs[Stage(w)])
      <4>1. runs[Stage(w)] \in Seq(Runs)  BY <2>s DEF TypeOK
      <4>2. Len(runs[Stage(w)]) \in Nat  BY <4>1, LenProperties
      <4>3. /\ Rows(w) \in Seq(Runs) /\ Len(Rows(w)) > 0
            /\ Len(Rows(w)) \in {Len(runs[Stage(w)]), Len(runs[Stage(w)]) + 1}
        BY RowsType
      <4> QED  BY <4>2, <4>3
    <3>2. runs' = [runs EXCEPT ![Stage(w)] = Rows(w)] /\ wrun' = [wrun EXCEPT ![w] = Len(Rows(w))]
      BY <2>8 DEF Begin
    <3>3. runs' \in [Stages -> Seq(Runs)] /\ wrun' \in [Workers -> Nat]
      BY <3>1, <3>2 DEF TypeOK
    <3>4. /\ job' \in [Jobs -> JobStatus] /\ created' \in 0..MaxJobs
          /\ wjob' \in [Workers -> Jobs \union {NoJob}] /\ wjob'[w] \in Jobs
          /\ \A v \in Workers : v # w => wjob'[v] = wjob[v]
      <4>1. CASE wjob[w] = NoJob
        <5>1. /\ created < MaxJobs /\ created' = created + 1
              /\ job' = [job EXCEPT ![created + 1] = "RUNNING"]
              /\ wjob' = [wjob EXCEPT ![w] = created + 1]
          BY <2>8, <4>1 DEF Begin, NewJob
        <5>2. created \in 0..MaxJobs /\ created + 1 \in Jobs  BY <5>1 DEF TypeOK
        <5> QED  BY <5>1, <5>2 DEF TypeOK
      <4>2. CASE wjob[w] # NoJob
        BY <2>8, <4>2 DEF Begin, TypeOK, NoJob
      <4> QED  BY <4>1, <4>2
    <3>5. /\ wpc' = [wpc EXCEPT ![w] = "execute"] /\ copy' = [copy EXCEPT ![w] = "RUNNING"]
          /\ seen' = [seen EXCEPT ![w] = lifecycle]
          /\ UNCHANGED <<input, output, lifecycle, inbox, outgoing, cancelling, requests, msg,
                         mishaps>>
      BY <2>8 DEF Begin, Goto, apiVars
    <3>6. ASSUME NEW v \in Workers, wpc'[v] \in Driving
          PROVE  wjob'[v] \in Jobs /\ wrun'[v] \in 1..Len(runs'[msg'[v].stage])
      <4>1. CASE v = w
        <5>1. runs'[msg'[v].stage] = Rows(w) /\ wrun'[v] = Len(Rows(w))
          BY <4>1, <3>2, <3>5, <2>s DEF TypeOK, Stage
        <5> QED  BY <4>1, <5>1, <3>1, <3>4
      <4>2. CASE v # w
        <5>1. wpc[v] \in Driving /\ wjob'[v] = wjob[v] /\ wrun'[v] = wrun[v] /\ msg'[v] = msg[v]
          BY <4>2, <3>2, <3>4, <3>5, <3>6 DEF TypeOK
        <5>2. Len(runs'[msg[v].stage]) >= Len(runs[msg[v].stage])
          BY <3>1, <3>2, <2>s, LenProperties DEF TypeOK, Stage
        <5>3. Len(runs[msg[v].stage]) \in Nat /\ Len(runs'[msg[v].stage]) \in Nat
          BY <3>3, <2>s, LenProperties DEF TypeOK, Stage
        <5>4. wjob[v] \in Jobs /\ wrun[v] \in 1..Len(runs[msg[v].stage])
          BY <5>1 DEF TypeOK
        <5> QED  BY <5>1, <5>2, <5>3, <5>4
      <4> QED  BY <4>1, <4>2
    <3>7. lifecycle \in 0..(LastStage + 1)  BY DEF TypeOK
    <3>8. /\ wpc' \in [Workers -> WorkerPC] /\ copy' \in [Workers -> JobStatus]
          /\ seen' \in [Workers -> 0..(LastStage + 1)]
      BY <3>5, <3>7 DEF TypeOK
    <3> QED  BY <3>3, <3>4, <3>5, <3>6, <3>8 DEF TypeOK
  <2>9. ASSUME NEW w \in Workers, Succeed(w) \/ PersistFailure(w) PROVE TypeOK'
    <3>1. wpc[w] \in Driving /\ wjob[w] \in Jobs  BY <2>9 DEF Succeed, PersistFailure, TypeOK
    <3>2. PICK status \in {"SUCCEEDED", "CANCELLED", "FAILED"} :
             SetRun(w, status) /\ job' = [job EXCEPT ![wjob[w]] = status]
      BY <2>9 DEF Succeed, PersistFailure
    <3>3. job' \in [Jobs -> JobStatus]  BY <3>1, <3>2 DEF TypeOK
    <3>4. /\ runs' \in [Stages -> Seq(Runs)]
          /\ \A s \in Stages : Len(runs'[s]) = Len(runs[s])
      BY <3>1, <3>2, SetRunType DEF RunStatus
    <3>5. CASE Succeed(w)
      <4>1. input' \in [Stages -> 1..MaxInput] /\ output' \in [Stages -> 0..MaxInput]
        BY <3>5, <2>s, PublishType DEF Succeed, TypeOK
      <4>2. lifecycle' \in 1..(LastStage + 1)
        <5>1. lifecycle' = lifecycle \/ lifecycle' = Stage(w) + 1  BY <3>5 DEF Succeed
        <5>2. lifecycle \in 1..(LastStage + 1)  BY DEF TypeOK
        <5>3. Stage(w) + 1 \in 1..(LastStage + 1)  BY <2>s, PipelineConstants DEF Stages
        <5> QED  BY <5>1, <5>2, <5>3
      <4>3. wpc' = [wpc EXCEPT ![w] = "schedule"]
            /\ UNCHANGED <<created, inbox, outgoing, cancelling, requests, msg, wjob, copy, seen,
                           wrun, mishaps>>
        BY <3>5 DEF Succeed, Goto, apiVars
      <4>4. ASSUME NEW v \in Workers, wpc'[v] \in Driving
            PROVE  wjob'[v] \in Jobs /\ wrun'[v] \in 1..Len(runs'[msg'[v].stage])
        BY <4>3, <4>4, <3>4, <2>s DEF TypeOK, Stage
      <4> QED  BY <3>3, <3>4, <4>1, <4>2, <4>3, <4>4 DEF TypeOK
    <3>6. CASE PersistFailure(w)
      <4>1. UNCHANGED <<created, input, output, lifecycle, inbox, outgoing, cancelling, requests,
                       mishaps>>
        BY <3>6 DEF PersistFailure, apiVars
      <4>2. \/ /\ wpc' = [wpc EXCEPT ![w] = "retry"]
               /\ UNCHANGED <<msg, wjob, copy, seen, wrun>>
            \/ Ack(w)
        BY <3>6 DEF PersistFailure, Goto
      <4>3. /\ wpc' \in [Workers -> WorkerPC] /\ msg' \in [Workers -> Messages]
            /\ wjob' \in [Workers -> Jobs \union {NoJob}] /\ copy' \in [Workers -> JobStatus]
            /\ seen' \in [Workers -> 0..(LastStage + 1)] /\ wrun' \in [Workers -> Nat]
        <5>1. CASE Ack(w)  BY <5>1, <2>m, AckType
        <5>2. CASE ~Ack(w)  BY <4>2, <5>2 DEF TypeOK
        <5> QED  BY <5>1, <5>2
      <4>4. ASSUME NEW v \in Workers, wpc'[v] \in Driving
            PROVE  wjob'[v] \in Jobs /\ wrun'[v] \in 1..Len(runs'[msg'[v].stage])
        <5>1. v # w
          BY <4>2, <4>4 DEF TypeOK, Ack, Goto, Driving
        <5>2. wpc'[v] = wpc[v] /\ msg'[v] = msg[v] /\ wjob'[v] = wjob[v] /\ wrun'[v] = wrun[v]
          BY <4>2, <5>1 DEF TypeOK, Ack, Goto
        <5>3. wjob[v] \in Jobs /\ wrun[v] \in 1..Len(runs[msg[v].stage])
          BY <4>4, <5>2 DEF TypeOK
        <5>4. msg[v].stage \in Stages
          BY <2>s DEF Stage
        <5> QED  BY <3>4, <5>2, <5>3, <5>4
      <4> QED  BY <3>3, <3>4, <4>1, <4>3, <4>4 DEF TypeOK
    <3> QED  BY <2>9, <3>5, <3>6
  <2>10. ASSUME NEW w \in Workers, Retry(w) \/ Schedule(w) \/ Crash(w) PROVE TypeOK'
    <3>1. inbox' \in [Messages -> Nat]
      <4>1. CASE Retry(w)
        <5>1. msg[w].tries < MaxRetries => [msg[w] EXCEPT !.tries = @ + 1] \in Messages
          BY <2>s, RetriedMessage DEF TypeOK
        <5> QED  BY <4>1, <5>1, SendType DEF Retry, TypeOK
      <4>2. CASE Schedule(w)
        <5>1. Stage(w) < LastStage => [FirstMessage EXCEPT !.stage = Stage(w) + 1] \in Messages
          BY <2>m, <2>s DEF Messages, Stages
        <5> QED  BY <4>2, <5>1, SendType DEF Schedule, TypeOK
      <4>3. CASE Crash(w)  BY <4>3, <2>s, SendType DEF Crash, TypeOK
      <4> QED  BY <2>10, <4>1, <4>2, <4>3
    <3>2. /\ Ack(w) /\ mishaps' \in 0..MaxMishaps
          /\ UNCHANGED <<job, created, runs, input, output, lifecycle, outgoing, cancelling,
                         requests>>
      BY <2>10 DEF Retry, Schedule, Crash, sourceVars, apiVars, TypeOK
    <3>3. /\ wpc' \in [Workers -> WorkerPC] /\ msg' \in [Workers -> Messages]
          /\ wjob' \in [Workers -> Jobs \union {NoJob}] /\ copy' \in [Workers -> JobStatus]
          /\ seen' \in [Workers -> 0..(LastStage + 1)] /\ wrun' \in [Workers -> Nat]
      BY <3>2, AckType
    <3>4. ASSUME NEW v \in Workers, wpc'[v] \in Driving
          PROVE  wjob'[v] \in Jobs /\ wrun'[v] \in 1..Len(runs'[msg'[v].stage])
      BY <3>2, <3>4 DEF TypeOK, Ack, Goto
    <3> QED  BY <3>1, <3>2, <3>3, <3>4 DEF TypeOK
  <2>11. CASE UNCHANGED vars
    BY <2>11 DEF TypeOK, vars, sourceVars, apiVars, workerVars
  <2> HIDE DEF TypeOK
  <2> QED  BY <2>1, <2>2, <2>3, <2>4, <2>5, <2>6, <2>7, <2>8, <2>9, <2>10, <2>11, NextCases
<1> QED  BY <1>1, <1>2, PTL DEF Spec

-----------------------------------------------------------------------------
(* Attempts *)

(* Closing a run changes one row's status, and not to RUNNING. *)
LEMMA SetRunRows ==
    ASSUME TypeOK, NEW w \in Workers, wpc[w] \in Driving,
           NEW status \in RunStatus \ {"RUNNING"}, SetRun(w, status)
    PROVE  /\ \A s \in Stages : Len(runs'[s]) = Len(runs[s])
           /\ \A s \in Stages : \A i \in 1..Len(runs[s]) :
                 runs'[s][i].status = "RUNNING" =>
                    runs[s][i].status = "RUNNING" /\ ~(s = Stage(w) /\ i = wrun[w])
<1> DEFINE t == Stage(w)
<1>1. t \in Stages /\ runs[t] \in Seq(Runs) /\ wrun[w] \in 1..Len(runs[t])
    BY DEF TypeOK, Stage, Messages
<1>2. \A s \in Stages : Len(runs'[s]) = Len(runs[s])
    BY SetRunType
<1>3. runs' = [runs EXCEPT ![t] = [runs[t] EXCEPT ![wrun[w]].status = status]]
    BY <1>1 DEF SetRun, TypeOK
<1>4. runs[t][wrun[w]] \in Runs
    BY <1>1, ElementOfSeq
<1>5. [runs[t][wrun[w]] EXCEPT !.status = status].status = status
    BY <1>4 DEF Runs
<1>6. runs[t] \in [1..Len(runs[t]) -> Runs]
    BY <1>1, LenProperties
<1>7. \A i \in 1..Len(runs[t]) :
         runs'[t][i] = IF i = wrun[w] THEN [runs[t][wrun[w]] EXCEPT !.status = status]
                       ELSE runs[t][i]
    BY <1>1, <1>3, <1>6 DEF TypeOK
<1>8. \A s \in Stages : s # t => runs'[s] = runs[s]
    BY <1>1, <1>3 DEF TypeOK
<1> QED BY <1>1, <1>2, <1>5, <1>7, <1>8

(* Begin makes one row RUNNING, the last, and leaves the others. *)
LEMMA BeginRows ==
    ASSUME TypeOK, NEW w \in Workers, Begin(w)
    PROVE  /\ Stage(w) \in Stages
           /\ wrun'[w] = Len(runs'[Stage(w)]) /\ wrun'[w] > 0
           /\ wrun'[w] \in {Len(runs[Stage(w)]), Len(runs[Stage(w)]) + 1}
           /\ wrun'[w] = Len(runs[Stage(w)]) + 1 =>
                  runs[Stage(w)] = <<>> \/ Latest(Stage(w)).status = "SUCCEEDED"
           /\ \A i \in 1..(wrun'[w] - 1) : runs'[Stage(w)][i] = runs[Stage(w)][i]
           /\ \A s \in Stages : s # Stage(w) => runs'[s] = runs[s]
<1>1. Stage(w) \in Stages
    BY DEF TypeOK, Stage, Messages
<1>2. runs' = [runs EXCEPT ![Stage(w)] = Rows(w)] /\ wrun' = [wrun EXCEPT ![w] = Len(Rows(w))]
    BY DEF Begin
<1>3. runs'[Stage(w)] = Rows(w) /\ wrun'[w] = Len(Rows(w))
    BY <1>1, <1>2 DEF TypeOK
<1> QED BY <1>1, <1>2, <1>3, RowsType DEF TypeOK

(* An older attempt of a stage is never RUNNING: the row _latest_run returns is
   the one that stands for the stage. *)
THEOREM LatestAttempt == Spec => []OnlyLatestRuns
<1>1. Init => OnlyLatestRuns
    BY DEF Init, OnlyLatestRuns
<1>2. TypeOK /\ OnlyLatestRuns /\ [Next]_vars => OnlyLatestRuns'
  <2> SUFFICES ASSUME TypeOK, OnlyLatestRuns, [Next]_vars PROVE OnlyLatestRuns'
    OBVIOUS
  <2>1. CASE UNCHANGED runs  BY <2>1 DEF OnlyLatestRuns
  <2>2. ASSUME NEW w \in Workers, Begin(w) PROVE OnlyLatestRuns'
    <3> SUFFICES ASSUME NEW s \in Stages, NEW i \in 1..Len(runs'[s]),
                        runs'[s][i].status = "RUNNING"
                 PROVE  i = Len(runs'[s])
      BY DEF OnlyLatestRuns
    <3>1. CASE s # Stage(w)  BY <2>2, <3>1, BeginRows DEF OnlyLatestRuns
    <3>2. CASE s = Stage(w) /\ i # Len(runs'[s])
      <4>1. runs[s] \in Seq(Runs) /\ Len(runs[s]) \in Nat
        BY <3>2, LenProperties DEF TypeOK
      <4>2. i \in 1..(wrun'[w] - 1) /\ i \in 1..Len(runs[s])
        BY <2>2, <3>2, <4>1, BeginRows
      <4>3. runs[s][i].status = "RUNNING"  BY <2>2, <3>2, <4>2, BeginRows
      <4>4. i = Len(runs[s])  BY <4>2, <4>3 DEF OnlyLatestRuns
      <4>5. wrun'[w] = Len(runs[s]) + 1  BY <2>2, <3>2, <4>1, <4>2, <4>4, BeginRows
      <4>6. runs[s] # <<>>  BY <4>1, <4>2, EmptySeq
      <4>7. Latest(s).status = "SUCCEEDED"  BY <2>2, <3>2, <4>5, <4>6, BeginRows
      <4> QED  BY <4>3, <4>4, <4>7 DEF Latest
    <3> QED  BY <3>1, <3>2
  <2>3. ASSUME NEW w \in Workers, Succeed(w) \/ PersistFailure(w) PROVE OnlyLatestRuns'
    <3>1. wpc[w] \in Driving  BY <2>3 DEF Succeed, PersistFailure, Driving
    <3>2. PICK status \in RunStatus \ {"RUNNING"} : SetRun(w, status)
      BY <2>3 DEF Succeed, PersistFailure, RunStatus
    <3> QED  BY <3>1, <3>2, SetRunRows DEF OnlyLatestRuns
  <2>4. CASE UNCHANGED vars  BY <2>1, <2>4 DEF vars, sourceVars
  <2>5. ASSUME NEW w \in Workers,
               \/ \E m \in Messages : Deliver(w, m)
               \/ Skip(w) \/ Produce(w) \/ ExecutorRaises(w) \/ Retry(w) \/ Schedule(w)
               \/ Crash(w) \/ Redeliver(w)
        PROVE  UNCHANGED runs
    BY <2>5 DEF Deliver, Skip, Produce, ExecutorRaises, Retry, Schedule, Crash, Redeliver,
                sourceVars
  <2>6. ASSUME \/ Process \/ RetrySource
               \/ \E s \in Restartable, force \in BOOLEAN : Restart(s, force)
               \/ \E j \in Jobs : CancelRead(j) \/ CancelWrite(j)
               \/ \E m \in Messages : Dispatch(m)
        PROVE  UNCHANGED runs
    BY <2>6 DEF Process, RetrySource, Restart, CancelRead, CancelWrite, Dispatch, sourceVars
  <2> QED  BY <2>1, <2>2, <2>3, <2>4, <2>5, <2>6, NextCases
<1> QED  BY <1>1, <1>2, TypeCorrect, PTL DEF Spec


-----------------------------------------------------------------------------
(* Outputs *)

(* LifecycleIsEarned is inductive with what a delivery that is about to succeed
   has established: its inputs are there, and its output too unless it leaves
   that to the runner. *)
EarnedInv ==
    /\ LifecycleIsEarned
    /\ \A w \in Workers : wpc[w] = "succeed" =>
          /\ \A t \in Needs[Stage(w)] : output[t] # 0
          /\ Stage(w) \in Deferred \/ output[Stage(w)] # 0

(* Nothing takes an output away, and a new one has the outputs it is made from;
   so an output survives, and so does the lifecycle that names it. *)
LEMMA PublishKeeps ==
    ASSUME TypeOK, EarnedInv, NEW s \in Stages, \A t \in Needs[s] : output[t] # 0,
           \/ Publish(s)
           \/ UNCHANGED <<input, output>>
    PROVE  /\ \A t \in Stages : output[t] # 0 => output'[t] # 0
           /\ Publish(s) => output'[s] # 0
           /\ \A t \in Stages : output'[t] # 0 => \A u \in Needs[t] : output'[u] # 0
<1>1. \A t \in Stages : output[t] # 0 => output'[t] # 0
    BY PublishType
<1>2. \A t \in Stages : t # s => output'[t] = output[t]
    BY DEF Publish, TypeOK
<1>3. \A t \in Stages : Needs[t] \subseteq Stages
    BY PipelineConstants
<1> QED BY <1>1, <1>2, <1>3, PublishType DEF EarnedInv, LifecycleIsEarned

(* The lifecycle names only stages whose predecessor has left an output, and no
   output lacks the outputs it was made from. *)
THEOREM EarnedLifecycle == Spec => []LifecycleIsEarned
<1>1. Init => EarnedInv
    BY DEF Init, EarnedInv, LifecycleIsEarned
<1>2. TypeOK /\ EarnedInv /\ [Next]_vars => EarnedInv'
  <2> SUFFICES ASSUME TypeOK, EarnedInv, [Next]_vars PROVE EarnedInv'
    OBVIOUS
  <2>w. ASSUME NEW w \in Workers PROVE Stage(w) \in Stages
    BY DEF TypeOK, Stage, Messages
  <2>l. lifecycle > 1 => lifecycle - 1 \in Stages
    BY PipelineConstants DEF TypeOK, Stages
  <2>1. ASSUME UNCHANGED <<output, lifecycle>>,
               \A v \in Workers : wpc'[v] = "succeed" => wpc[v] = "succeed" /\ msg'[v] = msg[v]
        PROVE  EarnedInv'
    BY <2>1 DEF EarnedInv, LifecycleIsEarned, Stage
  <2>2. ASSUME NEW w \in Workers, Produce(w) PROVE EarnedInv'
    <3>1. /\ wpc' = [wpc EXCEPT ![w] = "succeed"] /\ UNCHANGED <<msg, lifecycle>>
          /\ Stage(w) \in Stages /\ \A t \in Needs[Stage(w)] : output[t] # 0
          /\ IF Stage(w) \in Deferred THEN UNCHANGED <<input, output>> ELSE Publish(Stage(w))
      BY <2>2, <2>w DEF Produce, Goto, Missing
    <3>2. /\ \A t \in Stages : output[t] # 0 => output'[t] # 0
          /\ Publish(Stage(w)) => output'[Stage(w)] # 0
          /\ \A t \in Stages : output'[t] # 0 => \A u \in Needs[t] : output'[u] # 0
      BY <3>1, PublishKeeps
    <3>3. LifecycleIsEarned'
      BY <3>1, <3>2, <2>l DEF EarnedInv, LifecycleIsEarned
    <3>4. ASSUME NEW v \in Workers, wpc'[v] = "succeed"
          PROVE  /\ \A t \in Needs[Stage(v)] : output'[t] # 0
                 /\ Stage(v) \in Deferred \/ output'[Stage(v)] # 0
      <4>1. Needs[Stage(v)] \subseteq Stages  BY <2>w, PipelineConstants
      <4>2. CASE v = w  BY <3>1, <3>2, <4>1, <4>2
      <4>3. CASE v # w
        <5>1. wpc[v] = "succeed"  BY <3>1, <3>4, <4>3 DEF TypeOK
        <5> QED  BY <3>2, <4>1, <5>1, <2>w DEF EarnedInv
      <4> QED  BY <4>2, <4>3
    <3>5. \A v \in Workers : Stage(v)' = Stage(v)  BY <3>1 DEF Stage
    <3> QED  BY <3>3, <3>4, <3>5 DEF EarnedInv
  <2>3. ASSUME NEW w \in Workers, Succeed(w) PROVE EarnedInv'
    <3>1. /\ wpc[w] = "succeed" /\ wpc' = [wpc EXCEPT ![w] = "schedule"] /\ UNCHANGED msg
          /\ lifecycle' \in {lifecycle, Stage(w) + 1}
          /\ IF Stage(w) \in Deferred THEN Publish(Stage(w)) ELSE UNCHANGED <<input, output>>
      BY <2>3 DEF Succeed, Goto
    <3>2. /\ \A t \in Needs[Stage(w)] : output[t] # 0
          /\ Stage(w) \in Deferred \/ output[Stage(w)] # 0
      BY <3>1 DEF EarnedInv
    <3>3. /\ \A t \in Stages : output[t] # 0 => output'[t] # 0
          /\ Publish(Stage(w)) => output'[Stage(w)] # 0
          /\ \A t \in Stages : output'[t] # 0 => \A u \in Needs[t] : output'[u] # 0
      BY <3>1, <3>2, <2>w, PublishKeeps
    <3>4. output'[Stage(w)] # 0  BY <3>1, <3>2, <3>3, <2>w
    <3>5. (Stage(w) + 1) - 1 = Stage(w)  BY <2>w DEF Stages
    <3>6. LifecycleIsEarned'
      BY <3>1, <3>3, <3>4, <3>5, <2>l DEF EarnedInv, LifecycleIsEarned
    <3>7. ASSUME NEW v \in Workers, wpc'[v] = "succeed"
          PROVE  /\ \A t \in Needs[Stage(v)] : output'[t] # 0
                 /\ Stage(v) \in Deferred \/ output'[Stage(v)] # 0
      <4>1. Needs[Stage(v)] \subseteq Stages  BY <2>w, PipelineConstants
      <4>2. wpc[v] = "succeed"  BY <3>1, <3>7 DEF TypeOK
      <4> QED  BY <3>3, <4>1, <4>2, <2>w DEF EarnedInv
    <3>8. \A v \in Workers : Stage(v)' = Stage(v)  BY <3>1 DEF Stage
    <3> QED  BY <3>6, <3>7, <3>8 DEF EarnedInv
  <2>4. ASSUME NEW w \in Workers, NEW m \in Messages, Deliver(w, m) PROVE EarnedInv'
    BY <2>1, <2>4 DEF Deliver, Goto, sourceVars, workerVars, TypeOK
  <2>5. ASSUME NEW w \in Workers,
               \/ Skip(w) \/ Begin(w) \/ ExecutorRaises(w) \/ PersistFailure(w) \/ Retry(w)
               \/ Schedule(w) \/ Crash(w) \/ Redeliver(w)
        PROVE  EarnedInv'
    <3>1. CASE Skip(w)  BY <2>1, <3>1 DEF Skip, Goto, sourceVars, TypeOK
    <3>2. CASE Begin(w)  BY <2>1, <3>2 DEF Begin, Goto, TypeOK
    <3>3. CASE ExecutorRaises(w)  BY <2>1, <3>3 DEF ExecutorRaises, Goto, sourceVars, TypeOK
    <3>4. CASE PersistFailure(w)  BY <2>1, <3>4 DEF PersistFailure, Goto, Ack, TypeOK
    <3>5. CASE Retry(w) \/ Schedule(w) \/ Crash(w)
      <4>1. Ack(w) /\ UNCHANGED <<output, lifecycle>>
        BY <3>5 DEF Retry, Schedule, Crash, sourceVars
      <4> QED  BY <2>1, <4>1 DEF Ack, Goto, TypeOK
    <3>6. CASE Redeliver(w)  BY <2>1, <3>6 DEF Redeliver, sourceVars, workerVars
    <3> QED  BY <2>5, <3>1, <3>2, <3>3, <3>4, <3>5, <3>6
  <2>6. ASSUME \/ Process \/ RetrySource
               \/ \E s \in Restartable, force \in BOOLEAN : Restart(s, force)
               \/ \E j \in Jobs : CancelRead(j) \/ CancelWrite(j)
               \/ \E m \in Messages : Dispatch(m)
        PROVE  EarnedInv'
    <3>1. UNCHANGED <<output, lifecycle, wpc, msg>>
      BY <2>6 DEF Process, RetrySource, Restart, CancelRead, CancelWrite, Dispatch, sourceVars,
                  workerVars
    <3> QED  BY <2>1, <3>1
  <2>7. CASE UNCHANGED vars
    BY <2>1, <2>7 DEF vars, sourceVars, workerVars
  <2> HIDE DEF EarnedInv
  <2> QED  BY <2>2, <2>3, <2>4, <2>5, <2>6, <2>7, NextCases
<1>3. EarnedInv => LifecycleIsEarned
    BY DEF EarnedInv
<1> QED  BY <1>1, <1>2, <1>3, TypeCorrect, PTL DEF Spec


-----------------------------------------------------------------------------
(* Runs and those who drive them *)

NothingCancelled ==
    /\ cancelling = {}
    /\ \A j \in Jobs : job[j] # "CANCELLED"
    /\ \A w \in Workers : wpc[w] # "cancelled"

(* Without cancel requests nothing is cancelled: the runner cancels only what
   somebody has cancelled before. *)
LEMMA NothingIsCancelled ==
    ASSUME "cancel" \notin Faults
    PROVE  Spec => []NothingCancelled
<1>1. Init => NothingCancelled
    BY DEF Init, NothingCancelled
<1>2. TypeOK /\ NothingCancelled /\ [Next]_vars => NothingCancelled'
  <2> SUFFICES ASSUME TypeOK, NothingCancelled, [Next]_vars PROVE NothingCancelled'
    OBVIOUS
  <2> USE DEF NothingCancelled, NoJob
  <2>1. CASE Process  BY <2>1 DEF Process, NewJob, TypeOK, workerVars
  <2>2. CASE RetrySource  BY <2>2 DEF RetrySource, TypeOK, workerVars
  <2>3. ASSUME NEW s \in Restartable, NEW force \in BOOLEAN, Restart(s, force)
        PROVE  NothingCancelled'
    BY <2>3 DEF Restart, NewJob, TypeOK, workerVars
  <2>4. ASSUME NEW j \in Jobs, CancelRead(j) \/ CancelWrite(j) PROVE NothingCancelled'
    BY <2>4 DEF CancelRead, CancelWrite
  <2>5. ASSUME NEW m \in Messages, Dispatch(m) PROVE NothingCancelled'
    BY <2>5 DEF Dispatch, workerVars
  <2>6. ASSUME NEW w \in Workers, NEW m \in Messages, Deliver(w, m) PROVE NothingCancelled'
    BY <2>6 DEF Deliver, Goto, TypeOK, apiVars, workerVars
  <2>7. ASSUME NEW w \in Workers, Begin(w) PROVE NothingCancelled'
    <3>1. wpc' = [wpc EXCEPT ![w] = "execute"] /\ UNCHANGED cancelling
      BY <2>7 DEF Begin, Goto, apiVars
    <3>2. \E j \in Nat : job' = job \/ job' = [job EXCEPT ![j] = "RUNNING"]
      <4>1. wjob[w] \in Nat /\ created + 1 \in Nat
        BY PipelineConstants DEF TypeOK, Jobs, NoJob
      <4> QED  BY <2>7, <4>1 DEF Begin, NewJob
    <3> QED  BY <3>1, <3>2 DEF TypeOK
  <2>8. ASSUME NEW w \in Workers, Skip(w) \/ Produce(w) \/ ExecutorRaises(w) PROVE NothingCancelled'
    <3>1. wpc[w] = "execute" => wjob[w] \in Jobs  BY DEF TypeOK, Driving
    <3> QED
      BY <2>8, <3>1 DEF Skip, Produce, ExecutorRaises, Goto, TypeOK, apiVars
  <2>9. ASSUME NEW w \in Workers, Succeed(w) PROVE NothingCancelled'
    BY <2>9 DEF Succeed, Goto, TypeOK, apiVars
  <2>10. ASSUME NEW w \in Workers, PersistFailure(w) PROVE NothingCancelled'
    <3>1. job' = [job EXCEPT ![wjob[w]] = "FAILED"] /\ UNCHANGED cancelling
      BY <2>10 DEF PersistFailure, apiVars
    <3>2. wpc' = [wpc EXCEPT ![w] = "retry"] \/ wpc' = [wpc EXCEPT ![w] = "idle"]
      BY <2>10 DEF PersistFailure, Goto, Ack
    <3> QED  BY <3>1, <3>2 DEF TypeOK
  <2>11. ASSUME NEW w \in Workers, Retry(w) \/ Schedule(w) \/ Crash(w) PROVE NothingCancelled'
    <3>1. UNCHANGED <<job, cancelling>> /\ wpc' = [wpc EXCEPT ![w] = "idle"]
      BY <2>11 DEF Retry, Schedule, Crash, Ack, Goto, apiVars
    <3> QED  BY <3>1 DEF TypeOK
  <2>12. ASSUME NEW w \in Workers, Redeliver(w) PROVE NothingCancelled'
    BY <2>12 DEF Redeliver, apiVars, workerVars
  <2>13. CASE UNCHANGED vars  BY <2>13 DEF vars, apiVars, workerVars
  <2> HIDE DEF NothingCancelled
  <2> QED  BY <2>1, <2>2, <2>3, <2>4, <2>5, <2>6, <2>7, <2>8, <2>9, <2>10, <2>11, <2>12, <2>13,
              NextCases
<1> QED  BY <1>1, <1>2, TypeCorrect, PTL DEF Spec

(* The witnesses of RunIsDriven for row i of stage s. *)
Drives(w, s, i) == wpc[w] \in Driving /\ Stage(w) = s /\ wrun[w] = i
WillRun(s) ==
    \/ \E w \in Workers : wpc[w] = "run" /\ Stage(w) = s
    \/ \E m \in Messages : inbox[m] > 0 /\ m.stage = s

(* A message that is sent stays pending until a delivery takes it. *)
LEMMA SendPends ==
    ASSUME TypeOK, NEW m \in Messages, Send(m)
    PROVE  inbox'[m] > 0 /\ \A n \in Messages : inbox[n] > 0 => inbox'[n] > 0
BY DEF Send, TypeOK

(* Under crashes, redeliveries and failures, and as long as nothing is
   cancelled, a RUNNING pipeline run is driven or will be taken up again. *)
THEOREM RunsAreDriven == ASSUME "cancel" \notin Faults PROVE Spec => []RunIsDriven
<1>1. Init => RunIsDriven
    BY DEF Init, RunIsDriven
<1>2. TypeOK /\ OnlyLatestRuns /\ OnlyLatestRuns' /\ NothingCancelled /\ RunIsDriven /\ [Next]_vars
        => RunIsDriven'
  <2> SUFFICES ASSUME TypeOK, OnlyLatestRuns, OnlyLatestRuns', NothingCancelled, RunIsDriven,
                      [Next]_vars,
                      NEW s \in Stages, NEW i \in 1..Len(runs'[s]),
                      runs'[s][i].status = "RUNNING"
               PROVE  (\E w \in Workers : Drives(w, s, i)') \/ WillRun(s)'
    BY DEF RunIsDriven, Drives, WillRun
  <2> DEFINE Was == i \in 1..Len(runs[s]) /\ runs[s][i].status = "RUNNING"
  <2>1. Was => (\E w \in Workers : Drives(w, s, i)) \/ WillRun(s)
    BY DEF RunIsDriven, Drives, WillRun
  <2>m. ASSUME NEW w \in Workers PROVE msg[w] \in Messages
    BY DEF TypeOK
  <2>2. ASSUME UNCHANGED <<runs, wpc, msg, wrun>>,
               \A m \in Messages : inbox[m] > 0 => inbox'[m] > 0
        PROVE  (\E w \in Workers : Drives(w, s, i)') \/ WillRun(s)'
    <3>1. Was  BY <2>2
    <3>2. \A w \in Workers : Drives(w, s, i) => Drives(w, s, i)'
      BY <2>2 DEF Drives, Stage
    <3>3. WillRun(s) => WillRun(s)'  BY <2>2 DEF WillRun, Stage
    <3> QED  BY <2>1, <3>1, <3>2, <3>3
  (* A step of w: the others' witnesses stay, and w hands its own on. *)
  <2>3. ASSUME NEW w \in Workers, Was,
               \A v \in Workers \ {w} : wpc'[v] = wpc[v] /\ msg'[v] = msg[v] /\ wrun'[v] = wrun[v],
               \A m \in Messages : inbox[m] > 0 /\ m.stage = s => WillRun(s)',
               Drives(w, s, i) => Drives(w, s, i)' \/ WillRun(s)',
               wpc[w] = "run" /\ Stage(w) = s => WillRun(s)'
        PROVE  (\E v \in Workers : Drives(v, s, i)') \/ WillRun(s)'
    <3>1. \A v \in Workers \ {w} : Drives(v, s, i) => Drives(v, s, i)'
      BY <2>3 DEF Drives, Stage
    <3>2. \A v \in Workers \ {w} : wpc[v] = "run" /\ Stage(v) = s => WillRun(s)'
      BY <2>3 DEF WillRun, Stage
    <3>3. WillRun(s) => WillRun(s)'  BY <2>3, <3>2 DEF WillRun
    <3> QED  BY <2>1, <2>3, <3>1, <3>3
  <2>4. ASSUME NEW w \in Workers, NEW m \in Messages, Deliver(w, m)
        PROVE  (\E v \in Workers : Drives(v, s, i)') \/ WillRun(s)'
    <3>1. m.job # NoJob => m.job \in Jobs  BY DEF Messages
    <3>2. /\ wpc[w] = "idle" /\ inbox' = [inbox EXCEPT ![m] = @ - 1]
          /\ wpc' = [wpc EXCEPT ![w] = "run"] /\ msg' = [msg EXCEPT ![w] = m]
          /\ UNCHANGED <<runs, wrun>>
      BY <2>4, <3>1 DEF Deliver, Goto, NothingCancelled, sourceVars
    <3>3. Was  BY <3>2
    <3>4. m.stage = s => WillRun(s)'
      BY <3>2 DEF WillRun, Stage, TypeOK
    <3>5. \A n \in Messages : inbox[n] > 0 /\ n.stage = s => WillRun(s)'
      <4>1. \A n \in Messages : n # m /\ inbox[n] > 0 => inbox'[n] > 0  BY <3>2 DEF TypeOK
      <4> QED  BY <3>4, <4>1 DEF WillRun
    <3>6. \A v \in Workers \ {w} : wpc'[v] = wpc[v] /\ msg'[v] = msg[v] /\ wrun'[v] = wrun[v]
      BY <3>2 DEF TypeOK
    <3>7. ~Drives(w, s, i) /\ wpc[w] # "run"  BY <3>2 DEF Drives, Driving
    <3> QED  BY <2>3, <3>3, <3>5, <3>6, <3>7
  <2>5. ASSUME NEW w \in Workers, Skip(w)
        PROVE  (\E v \in Workers : Drives(v, s, i)') \/ WillRun(s)'
    <3>1. /\ wpc[w] = "run" /\ wpc' = [wpc EXCEPT ![w] = "schedule"] /\ UpToDate(Stage(w))
          /\ UNCHANGED <<runs, inbox, msg, wrun>>
      BY <2>5 DEF Skip, Goto, sourceVars
    <3>2. Was  BY <3>1
    <3>3. Stage(w) # s  BY <3>1, <3>2 DEF OnlyLatestRuns, UpToDate, Latest
    <3>4. \A v \in Workers \ {w} : wpc'[v] = wpc[v] /\ msg'[v] = msg[v] /\ wrun'[v] = wrun[v]
      BY <3>1 DEF TypeOK
    <3>5. \A m \in Messages : inbox[m] > 0 /\ m.stage = s => WillRun(s)'  BY <3>1 DEF WillRun
    <3> QED  BY <2>3, <3>2, <3>3, <3>4, <3>5 DEF Drives
  <2>6. ASSUME NEW w \in Workers, Begin(w)
        PROVE  (\E v \in Workers : Drives(v, s, i)') \/ WillRun(s)'
    <3>1. /\ wpc[w] = "run" /\ wpc' = [wpc EXCEPT ![w] = "execute"] /\ UNCHANGED <<inbox, msg>>
          /\ wrun' = [wrun EXCEPT ![w] = Len(Rows(w))]
      BY <2>6 DEF Begin, Goto
    <3>2. CASE s = Stage(w)
      <4>1. i = Len(runs'[s])  BY DEF OnlyLatestRuns
      <4>2. wrun'[w] = i /\ wpc'[w] = "execute" /\ msg'[w] = msg[w]
        BY <2>6, <3>1, <3>2, <4>1, BeginRows DEF TypeOK
      <4>3. Drives(w, s, i)'  BY <3>2, <4>2 DEF Drives, Driving, Stage
      <4> QED  BY <4>3
    <3>3. CASE s # Stage(w)
      <4>1. Was  BY <2>6, <3>3, BeginRows
      <4>2. \A v \in Workers \ {w} : wpc'[v] = wpc[v] /\ msg'[v] = msg[v] /\ wrun'[v] = wrun[v]
        BY <3>1 DEF TypeOK
      <4>3. \A m \in Messages : inbox[m] > 0 /\ m.stage = s => WillRun(s)'  BY <3>1 DEF WillRun
      <4> QED  BY <2>3, <3>3, <4>1, <4>2, <4>3 DEF Drives
    <3> QED  BY <3>2, <3>3
  <2>7. ASSUME NEW w \in Workers, Produce(w) \/ ExecutorRaises(w)
        PROVE  (\E v \in Workers : Drives(v, s, i)') \/ WillRun(s)'
    <3>1. PICK label \in Driving : wpc' = [wpc EXCEPT ![w] = label]
      BY <2>7 DEF Produce, ExecutorRaises, Goto, Driving
    <3>2. wpc[w] = "execute" /\ UNCHANGED <<runs, inbox, msg, wrun>>
      BY <2>7 DEF Produce, ExecutorRaises, sourceVars
    <3>3. Was  BY <3>2
    <3>4. \A v \in Workers \ {w} : wpc'[v] = wpc[v] /\ msg'[v] = msg[v] /\ wrun'[v] = wrun[v]
      BY <3>1, <3>2 DEF TypeOK
    <3>5. \A m \in Messages : inbox[m] > 0 /\ m.stage = s => WillRun(s)'  BY <3>2 DEF WillRun
    <3>6. Drives(w, s, i) => Drives(w, s, i)'
      BY <3>1, <3>2 DEF Drives, Stage, TypeOK
    <3> QED  BY <2>3, <3>2, <3>3, <3>4, <3>5, <3>6
  <2>8. ASSUME NEW w \in Workers, Succeed(w) \/ PersistFailure(w)
        PROVE  (\E v \in Workers : Drives(v, s, i)') \/ WillRun(s)'
    <3>1. wpc[w] \in Driving /\ wpc[w] # "run" /\ UNCHANGED inbox
      BY <2>8 DEF Succeed, PersistFailure, Driving
    <3>2. PICK status \in RunStatus \ {"RUNNING"} : SetRun(w, status)
      BY <2>8 DEF Succeed, PersistFailure, RunStatus
    <3>3. Was /\ ~(s = Stage(w) /\ i = wrun[w])
      BY <3>1, <3>2, SetRunRows
    <3>4. \A v \in Workers \ {w} : wpc'[v] = wpc[v] /\ msg'[v] = msg[v] /\ wrun'[v] = wrun[v]
      BY <2>8 DEF Succeed, PersistFailure, Goto, Ack, TypeOK
    <3>5. \A m \in Messages : inbox[m] > 0 /\ m.stage = s => WillRun(s)'  BY <3>1 DEF WillRun
    <3> QED  BY <2>3, <3>1, <3>3, <3>4, <3>5 DEF Drives
  <2>9. ASSUME NEW w \in Workers, Retry(w) \/ Schedule(w)
        PROVE  (\E v \in Workers : Drives(v, s, i)') \/ WillRun(s)'
    <3>1. wpc[w] \notin Driving /\ wpc[w] # "run" /\ Ack(w) /\ UNCHANGED runs
      BY <2>9 DEF Retry, Schedule, Driving, sourceVars
    <3>2. \A m \in Messages : inbox[m] > 0 => inbox'[m] > 0
      <4>1. UNCHANGED inbox \/ \E m \in Messages : Send(m)
        <5>1. CASE Retry(w) /\ msg[w].tries < MaxRetries
          <6>1. [msg[w] EXCEPT !.tries = @ + 1] \in Messages
            BY <5>1, <2>m, RetriedMessage
          <6> QED  BY <5>1, <6>1 DEF Retry
        <5>2. CASE Schedule(w) /\ Stage(w) < LastStage
          <6>1. FirstMessage \in Messages /\ Stage(w) + 1 \in Stages
            BY <5>2, <2>m, PipelineConstants DEF FirstMessage, Messages, Stages, Stage
          <6>2. [FirstMessage EXCEPT !.stage = Stage(w) + 1] \in Messages
            BY <6>1 DEF Messages
          <6> QED  BY <5>2, <6>2 DEF Schedule
        <5> QED  BY <2>9, <5>1, <5>2 DEF Retry, Schedule
      <4> QED  BY <4>1, SendPends
    <3>3. Was  BY <3>1
    <3>4. \A v \in Workers \ {w} : wpc'[v] = wpc[v] /\ msg'[v] = msg[v] /\ wrun'[v] = wrun[v]
      BY <3>1 DEF Ack, Goto, TypeOK
    <3>5. \A m \in Messages : inbox[m] > 0 /\ m.stage = s => WillRun(s)'  BY <3>2 DEF WillRun
    <3> QED  BY <2>3, <3>1, <3>3, <3>4, <3>5 DEF Drives
  <2>10. ASSUME NEW w \in Workers, Crash(w)
        PROVE  (\E v \in Workers : Drives(v, s, i)') \/ WillRun(s)'
    <3>1. Send(msg[w]) /\ Ack(w) /\ UNCHANGED runs
      BY <2>10 DEF Crash, sourceVars
    <3>2. inbox'[msg[w]] > 0 /\ \A m \in Messages : inbox[m] > 0 => inbox'[m] > 0
      BY <3>1, <2>m, SendPends
    <3>3. Was  BY <3>1
    <3>4. \A v \in Workers \ {w} : wpc'[v] = wpc[v] /\ msg'[v] = msg[v] /\ wrun'[v] = wrun[v]
      BY <3>1 DEF Ack, Goto, TypeOK
    <3>5. \A m \in Messages : inbox[m] > 0 /\ m.stage = s => WillRun(s)'  BY <3>2 DEF WillRun
    <3>6. Stage(w) = s => WillRun(s)'  BY <3>2, <2>m DEF WillRun, Stage
    <3> QED  BY <2>3, <3>3, <3>4, <3>5, <3>6 DEF Drives
  <2>11. ASSUME NEW w \in Workers, Redeliver(w)
        PROVE  (\E v \in Workers : Drives(v, s, i)') \/ WillRun(s)'
    <3>1. Send(msg[w]) /\ UNCHANGED <<runs, wpc, msg, wrun>>
      BY <2>11 DEF Redeliver, sourceVars, workerVars
    <3> QED  BY <2>2, <2>m, <3>1, SendPends
  <2>12. ASSUME \/ Process \/ RetrySource
                \/ \E t \in Restartable, force \in BOOLEAN : Restart(t, force)
                \/ \E j \in Jobs : CancelRead(j) \/ CancelWrite(j)
                \/ UNCHANGED vars
        PROVE  (\E v \in Workers : Drives(v, s, i)') \/ WillRun(s)'
    <3>1. UNCHANGED <<runs, wpc, msg, wrun, inbox>>
      BY <2>12 DEF Process, RetrySource, Restart, CancelRead, CancelWrite, vars, sourceVars,
                   workerVars
    <3> QED  BY <2>2, <3>1
  <2>13. ASSUME NEW m \in Messages, Dispatch(m)
        PROVE  (\E v \in Workers : Drives(v, s, i)') \/ WillRun(s)'
    <3>1. Send(m) /\ UNCHANGED <<runs, wpc, msg, wrun>>
      BY <2>13 DEF Dispatch, sourceVars, workerVars
    <3> QED  BY <2>2, <3>1, SendPends
  <2> QED  BY <2>4, <2>5, <2>6, <2>7, <2>8, <2>9, <2>10, <2>11, <2>12, <2>13, NextCases
<1> QED  BY <1>1, <1>2, TypeCorrect, LatestAttempt, NothingIsCancelled, PTL DEF Spec

-----------------------------------------------------------------------------
(* Skipping *)

(* No two deliveries of one stage are under way at a time.  Two that overlap
   share a row, which then records the fingerprint of the later one. *)
StagesApart ==
    \A v, w \in Workers :
        wpc[v] # "idle" /\ wpc[w] # "idle" /\ Stage(v) = Stage(w) => v = w

(* A row's fingerprint is of an input the stage has had; and a run about to
   succeed on the input the stage still has has left the output made from it. *)
FreshInv ==
    /\ SkipIsFresh
    /\ \A s \in Stages : \A i \in 1..Len(runs[s]) : runs[s][i].fingerprint <= input[s]
    /\ \A w \in Workers :
          wpc[w] = "succeed" /\ Stage(w) \notin Deferred
            /\ runs[Stage(w)][wrun[w]].fingerprint = input[Stage(w)]
          => output[Stage(w)] = input[Stage(w)]

LEMMA InputType == ASSUME TypeOK, NEW s \in Stages PROVE input[s] \in Nat
<1>1. input \in [Stages -> 1..MaxInput] /\ MaxInput \in Nat
  BY PipelineConstants DEF TypeOK
<1>2. input[s] \in 1..MaxInput
  BY <1>1
<1> QED  BY <1>1, <1>2

(* Inputs only move on, and an input that stays keeps an output made from it;
   the stage that publishes has one. *)
LEMMA PublishFresh ==
    ASSUME TypeOK, NEW s \in Stages, Publish(s) \/ UNCHANGED <<input, output>>
    PROVE  /\ \A t \in Stages : input[t] \in Nat /\ input'[t] \in {input[t], input[t] + 1}
           /\ \A t \in Stages : input'[t] = input[t] /\ output[t] = input[t]
                                => output'[t] = input'[t]
           /\ Publish(s) /\ input'[s] = input[s] => output'[s] = input'[s]
<1>0. input \in [Stages -> 1..MaxInput] /\ output \in [Stages -> 0..MaxInput] /\ MaxInput \in Nat
    BY PipelineConstants DEF TypeOK
<1>1. CASE Publish(s)
  <2>1. PICK changed \in SUBSET Readers(s) :
           input' = [t \in Stages |-> IF t \in changed THEN input[t] + 1 ELSE input[t]]
    BY <1>1 DEF Publish
  <2>2. output' = [output EXCEPT ![s] = input[s]]
    BY <1>1 DEF Publish
  <2> QED  BY <1>0, <2>1, <2>2
<1>2. CASE UNCHANGED <<input, output>> /\ ~Publish(s)
    BY <1>0, <1>2
<1> QED BY <1>1, <1>2

(* Closing a run changes one row's status and no fingerprint. *)
LEMMA SetRunFingerprints ==
    ASSUME TypeOK, NEW w \in Workers, wpc[w] \in Driving, NEW status \in RunStatus,
           SetRun(w, status)
    PROVE  /\ \A s \in Stages : Len(runs'[s]) = Len(runs[s]) /\ Len(runs[s]) \in Nat
           /\ \A s \in Stages : \A i \in 1..Len(runs[s]) :
                 /\ runs'[s][i].fingerprint = runs[s][i].fingerprint
                 /\ \/ runs'[s][i].status = runs[s][i].status
                    \/ s = Stage(w) /\ i = wrun[w] /\ runs'[s][i].status = status
<1> DEFINE t == Stage(w)
<1>1. t \in Stages /\ runs[t] \in Seq(Runs) /\ wrun[w] \in 1..Len(runs[t])
    BY DEF TypeOK, Stage, Messages
<1>2. \A s \in Stages : Len(runs'[s]) = Len(runs[s]) /\ Len(runs[s]) \in Nat
    BY SetRunType, LenProperties DEF TypeOK
<1>3. runs' = [runs EXCEPT ![t] = [runs[t] EXCEPT ![wrun[w]].status = status]]
    BY <1>1 DEF SetRun, TypeOK
<1>4. runs[t][wrun[w]] \in Runs
    BY <1>1, ElementOfSeq
<1>5. /\ [runs[t][wrun[w]] EXCEPT !.status = status].status = status
      /\ [runs[t][wrun[w]] EXCEPT !.status = status].fingerprint = runs[t][wrun[w]].fingerprint
    BY <1>4 DEF Runs
<1>6. runs[t] \in [1..Len(runs[t]) -> Runs]
    BY <1>1, LenProperties
<1>7. \A i \in 1..Len(runs[t]) :
         runs'[t][i] = IF i = wrun[w] THEN [runs[t][wrun[w]] EXCEPT !.status = status]
                       ELSE runs[t][i]
    BY <1>1, <1>3, <1>6 DEF TypeOK
<1>8. \A s \in Stages : s # t => runs'[s] = runs[s]
    BY <1>1, <1>3 DEF TypeOK
<1> QED BY <1>1, <1>2, <1>5, <1>7, <1>8

(* The row a delivery drives, and the latest one, are rows. *)
LEMMA RowsExist ==
    ASSUME TypeOK
    PROVE  /\ \A s \in Stages : Len(runs[s]) \in Nat /\ (runs[s] # <<>> <=> Len(runs[s]) > 0)
           /\ \A w \in Workers : Stage(w) \in Stages
           /\ \A w \in Workers : wpc[w] = "succeed" => wrun[w] \in 1..Len(runs[Stage(w)])
<1>1. \A w \in Workers : Stage(w) \in Stages
    BY DEF TypeOK, Stage, Messages
<1>2. \A s \in Stages : runs[s] \in Seq(Runs)
    BY DEF TypeOK
<1>3. \A w \in Workers : wpc[w] = "succeed" => wrun[w] \in 1..Len(runs[Stage(w)])
    BY DEF TypeOK, Driving, Stage
<1> QED BY <1>1, <1>2, <1>3, LenProperties, EmptySeq

(* A fingerprint is a number. *)
LEMMA FingerprintType ==
    ASSUME TypeOK, NEW s \in Stages, NEW i \in 1..Len(runs[s])
    PROVE  runs[s][i].fingerprint \in Nat
<1>1. runs[s] \in Seq(Runs)
    BY DEF TypeOK
<1>2. runs[s][i] \in Runs
    BY <1>1, ElementOfSeq
<1> QED BY <1>2, PipelineConstants DEF Runs

(* The row Begin makes RUNNING records the input the stage has. *)
LEMMA BeginFingerprint ==
    ASSUME TypeOK, NEW w \in Workers, Stage(w) \in Stages
    PROVE  Rows(w)[Len(Rows(w))].fingerprint = input[Stage(w)]
<1> DEFINE s == Stage(w)
           run == [status |-> "RUNNING", fingerprint |-> input[s]]
<1>1. runs[s] \in Seq(Runs) /\ run \in Runs /\ run.fingerprint = input[s]
    BY DEF TypeOK, Runs, RunStatus
<1>2. CASE Rows(w) = Append(runs[s], run)
    BY <1>1, <1>2, AppendProperties
<1>3. CASE runs[s] # <<>> /\ Rows(w) = [runs[s] EXCEPT ![Len(runs[s])] = run]
    <2>1. Len(runs[s]) \in 1..Len(runs[s])
        BY <1>1, <1>3, LenProperties, EmptySeq
    <2> QED BY <1>1, <1>3, <2>1, ExceptSeq
<1> QED BY <1>2, <1>3 DEF Rows

(* A step that moves no run on: the rows may gain statuses other than
   SUCCEEDED, and nobody comes to be about to succeed. *)
LEMMA FreshKept ==
    ASSUME TypeOK, TypeOK', FreshInv, UNCHANGED <<input, output>>,
           \A s \in Stages : /\ Len(runs'[s]) = Len(runs[s])
                             /\ \A i \in 1..Len(runs[s]) :
                                   /\ runs'[s][i].fingerprint = runs[s][i].fingerprint
                                   /\ runs'[s][i].status = "SUCCEEDED"
                                        => runs[s][i].status = "SUCCEEDED",
           \A w \in Workers : wpc'[w] = "succeed"
                => wpc[w] = "succeed" /\ msg'[w] = msg[w] /\ wrun'[w] = wrun[w]
    PROVE  FreshInv'
<1>1. SkipIsFresh'
  <2> SUFFICES ASSUME NEW s \in Stages, UpToDate(s)' PROVE output'[s] = input'[s]
    BY DEF SkipIsFresh
  <2>1. Len(runs[s]) \in 1..Len(runs[s]) /\ runs[s] # <<>>
    <3>1. runs'[s] \in Seq(Runs) /\ runs'[s] # <<>>
      BY DEF TypeOK, UpToDate
    <3>2. Len(runs'[s]) > 0 /\ Len(runs'[s]) = Len(runs[s])
      BY <3>1, EmptySeq, LenProperties
    <3> QED  BY <3>2, RowsExist
  <2>2. UpToDate(s)
    BY <2>1 DEF UpToDate, Latest
  <2> QED  BY <2>2 DEF FreshInv, SkipIsFresh
<1>2. \A s \in Stages : \A i \in 1..Len(runs'[s]) : runs'[s][i].fingerprint <= input'[s]
    BY DEF FreshInv
<1>3. ASSUME NEW w \in Workers, wpc'[w] = "succeed", Stage(w)' \notin Deferred,
             runs'[Stage(w)'][wrun'[w]].fingerprint = input'[Stage(w)']
      PROVE  output'[Stage(w)'] = input'[Stage(w)']
  <2>1. wpc[w] = "succeed" /\ Stage(w)' = Stage(w) /\ wrun'[w] = wrun[w]
    BY <1>3 DEF Stage
  <2>2. Stage(w) \in Stages /\ wrun[w] \in 1..Len(runs[Stage(w)])
    BY <2>1, RowsExist
  <2> QED  BY <1>3, <2>1, <2>2 DEF FreshInv
<1> QED  BY <1>1, <1>2, <1>3 DEF FreshInv

LEMMA FreshInvStep ==
    ASSUME TypeOK, TypeOK', StagesApart, FreshInv, [Next]_vars
    PROVE  FreshInv'
<1>1. ASSUME NEW w \in Workers, Begin(w) PROVE FreshInv'
  <2> DEFINE t == Stage(w)
  <2>1. /\ t \in Stages /\ UNCHANGED <<input, output, msg>>
        /\ wpc' = [wpc EXCEPT ![w] = "execute"] /\ wpc[w] = "run"
        /\ runs'[t] = Rows(w) /\ \A s \in Stages : s # t => runs'[s] = runs[s]
        /\ \A v \in Workers : v # w => wrun'[v] = wrun[v]
    BY <1>1, RowsExist DEF Begin, Goto, TypeOK
  <2>2. /\ Len(Rows(w)) \in {Len(runs[t]), Len(runs[t]) + 1} /\ Len(Rows(w)) > 0
        /\ Rows(w)[Len(Rows(w))].status = "RUNNING"
        /\ \A i \in 1..(Len(Rows(w)) - 1) : Rows(w)[i] = runs[t][i]
    BY RowsType
  <2>3. Rows(w)[Len(Rows(w))].fingerprint = input[t]
    BY <2>1, BeginFingerprint
  <2>4. SkipIsFresh'
    BY <2>1, <2>2 DEF SkipIsFresh, FreshInv, UpToDate, Latest
  <2>5. ASSUME NEW s \in Stages, NEW i \in 1..Len(runs'[s])
        PROVE  runs'[s][i].fingerprint <= input'[s]
    <3>1. CASE s # t  BY <2>1, <3>1 DEF FreshInv
    <3>2. CASE s = t /\ i = Len(Rows(w))
      <4>1. input[t] \in Nat  BY <2>1, InputType
      <4> QED  BY <2>1, <2>3, <3>2, <4>1
    <3>3. CASE s = t /\ i # Len(Rows(w))
      <4>1. Len(runs[t]) \in Nat  BY <2>1, RowsExist
      <4>2. i \in 1..(Len(Rows(w)) - 1) /\ i \in 1..Len(runs[t])
        BY <2>1, <2>2, <3>3, <4>1
      <4> QED  BY <2>1, <2>2, <3>3, <4>2 DEF FreshInv
    <3> QED  BY <3>1, <3>2, <3>3
  <2>6. ASSUME NEW v \in Workers, wpc'[v] = "succeed", Stage(v)' \notin Deferred,
               runs'[Stage(v)'][wrun'[v]].fingerprint = input'[Stage(v)']
        PROVE  output'[Stage(v)'] = input'[Stage(v)']
    <3>1. v # w /\ wpc[v] = "succeed"
      BY <2>1, <2>6 DEF TypeOK
    <3>2. Stage(v)' = Stage(v) /\ wrun'[v] = wrun[v] /\ Stage(v) \in Stages
      BY <2>1, <3>1, RowsExist DEF Stage
    <3>3. Stage(v) # t
      BY <2>1, <3>1 DEF StagesApart
    <3> QED  BY <2>1, <2>6, <3>1, <3>2, <3>3 DEF FreshInv
  <2> QED  BY <2>4, <2>5, <2>6 DEF FreshInv
<1>2. ASSUME NEW w \in Workers, Produce(w) PROVE FreshInv'
  <2> DEFINE t == Stage(w)
  <2>0. t \in Stages
    BY RowsExist
  <2>1. /\ t \in Stages /\ UNCHANGED <<runs, msg, wrun>>
        /\ wpc' = [wpc EXCEPT ![w] = "succeed"]
        /\ Publish(t) \/ (UNCHANGED <<input, output>> /\ t \in Deferred)
    BY <1>2, <2>0 DEF Produce, Goto
  <2>2. /\ \A s \in Stages : input[s] \in Nat /\ input'[s] \in {input[s], input[s] + 1}
        /\ \A s \in Stages : input'[s] = input[s] /\ output[s] = input[s]
                             => output'[s] = input'[s]
        /\ Publish(t) /\ input'[t] = input[t] => output'[t] = input'[t]
    BY <2>1, PublishFresh
  <2>3. \A s \in Stages : \A i \in 1..Len(runs[s]) :
            runs[s][i].fingerprint \in Nat /\ runs[s][i].fingerprint <= input[s]
    BY FingerprintType DEF FreshInv
  <2>4. SkipIsFresh'
    <3> SUFFICES ASSUME NEW s \in Stages, UpToDate(s)' PROVE output'[s] = input'[s]
      BY DEF SkipIsFresh
    <3>1. Len(runs[s]) \in 1..Len(runs[s]) /\ Latest(s).fingerprint = input'[s]
      BY <2>1, RowsExist DEF UpToDate, Latest
    <3>2. Latest(s).fingerprint \in Nat /\ Latest(s).fingerprint <= input[s]
      BY <2>3, <3>1 DEF Latest
    <3>3. input'[s] = input[s]
      BY <2>2, <3>1, <3>2
    <3>4. UpToDate(s)
      BY <2>1, <3>3 DEF UpToDate, Latest
    <3> QED  BY <2>2, <3>3, <3>4 DEF FreshInv, SkipIsFresh
  <2>5. \A s \in Stages : \A i \in 1..Len(runs'[s]) : runs'[s][i].fingerprint <= input'[s]
    BY <2>1, <2>2, <2>3
  <2>6. ASSUME NEW v \in Workers, wpc'[v] = "succeed", Stage(v)' \notin Deferred,
               runs'[Stage(v)'][wrun'[v]].fingerprint = input'[Stage(v)']
        PROVE  output'[Stage(v)'] = input'[Stage(v)']
    <3>1. Stage(v)' = Stage(v) /\ wrun'[v] = wrun[v] /\ Stage(v) \in Stages
      BY <2>1, RowsExist DEF Stage
    <3>2. wrun[v] \in 1..Len(runs[Stage(v)])
      BY <1>2, <2>1, <2>6 DEF Produce, TypeOK, Driving, Stage
    <3>3. input'[Stage(v)] = input[Stage(v)]
      BY <2>1, <2>2, <2>3, <2>6, <3>1, <3>2
    <3>4. CASE v = w
      BY <2>1, <2>2, <2>6, <3>1, <3>3, <3>4
    <3>5. CASE v # w
      <4>1. wpc[v] = "succeed"  BY <2>1, <2>6, <3>5
      <4> QED  BY <2>1, <2>2, <2>6, <3>1, <3>3, <4>1 DEF FreshInv
    <3> QED  BY <3>4, <3>5
  <2> QED  BY <2>4, <2>5, <2>6 DEF FreshInv
<1>3. ASSUME NEW w \in Workers, Succeed(w) PROVE FreshInv'
  <2> DEFINE t == Stage(w)
  <2>1. /\ t \in Stages /\ UNCHANGED <<msg, wrun>> /\ wpc[w] = "succeed"
        /\ wpc' = [wpc EXCEPT ![w] = "schedule"] /\ SetRun(w, "SUCCEEDED")
        /\ IF t \in Deferred THEN Publish(t) ELSE UNCHANGED <<input, output>>
    BY <1>3, RowsExist DEF Succeed, Goto
  <2>2. /\ \A s \in Stages : input[s] \in Nat /\ input'[s] \in {input[s], input[s] + 1}
        /\ \A s \in Stages : input'[s] = input[s] /\ output[s] = input[s]
                             => output'[s] = input'[s]
        /\ Publish(t) /\ input'[t] = input[t] => output'[t] = input'[t]
    BY <2>1, PublishFresh
  <2>3. \A s \in Stages : \A i \in 1..Len(runs[s]) :
            runs[s][i].fingerprint \in Nat /\ runs[s][i].fingerprint <= input[s]
    BY FingerprintType DEF FreshInv
  <2>4. /\ \A s \in Stages : Len(runs'[s]) = Len(runs[s]) /\ Len(runs[s]) \in Nat
        /\ \A s \in Stages : \A i \in 1..Len(runs[s]) :
              /\ runs'[s][i].fingerprint = runs[s][i].fingerprint
              /\ runs'[s][i].status = runs[s][i].status \/ (s = t /\ i = wrun[w])
    BY <2>1, SetRunFingerprints DEF Driving, RunStatus
  <2>5. SkipIsFresh'
    <3> SUFFICES ASSUME NEW s \in Stages, UpToDate(s)' PROVE output'[s] = input'[s]
      BY DEF SkipIsFresh
    <3>1. Len(runs[s]) \in 1..Len(runs[s]) /\ runs[s] # <<>>
      <4>1. runs'[s] \in Seq(Runs) /\ runs'[s] # <<>>
        BY DEF TypeOK, UpToDate
      <4>2. Len(runs'[s]) > 0 /\ Len(runs'[s]) = Len(runs[s])
        BY <2>4, <4>1, EmptySeq, LenProperties
      <4> QED  BY <4>2, RowsExist
    <3>2. Latest(s).fingerprint = input'[s]
      BY <2>4, <3>1 DEF UpToDate, Latest
    <3>3. input'[s] = input[s]
      BY <2>2, <2>3, <3>1, <3>2 DEF Latest
    <3>4. CASE UpToDate(s)
      BY <2>2, <3>3, <3>4 DEF FreshInv, SkipIsFresh
    <3>5. CASE ~UpToDate(s)
      <4>1. s = t /\ Len(runs[s]) = wrun[w]
        BY <2>4, <3>1, <3>2, <3>3, <3>5 DEF UpToDate, Latest
      <4>2. CASE t \in Deferred  BY <2>1, <2>2, <3>3, <4>1, <4>2
      <4>3. CASE t \notin Deferred
        <5>1. output[t] = input[t]
          BY <2>1, <3>2, <3>3, <4>1, <4>3 DEF FreshInv, Latest
        <5> QED  BY <2>2, <3>3, <4>1, <5>1
      <4> QED  BY <4>2, <4>3
    <3> QED  BY <3>4, <3>5
  <2>6. \A s \in Stages : \A i \in 1..Len(runs'[s]) : runs'[s][i].fingerprint <= input'[s]
    BY <2>2, <2>3, <2>4
  <2>7. ASSUME NEW v \in Workers, wpc'[v] = "succeed", Stage(v)' \notin Deferred,
               runs'[Stage(v)'][wrun'[v]].fingerprint = input'[Stage(v)']
        PROVE  output'[Stage(v)'] = input'[Stage(v)']
    <3>1. Stage(v)' = Stage(v) /\ wrun'[v] = wrun[v] /\ wpc[v] = "succeed"
      BY <2>1, <2>7 DEF Stage, TypeOK
    <3>2. Stage(v) \in Stages /\ wrun[v] \in 1..Len(runs[Stage(v)])
      BY <3>1, RowsExist
    <3>3. runs[Stage(v)][wrun[v]].fingerprint = input'[Stage(v)]
      BY <2>4, <2>7, <3>1, <3>2
    <3>4. input'[Stage(v)] = input[Stage(v)]
      BY <2>2, <2>3, <3>2, <3>3
    <3> QED  BY <2>2, <2>7, <3>1, <3>2, <3>3, <3>4 DEF FreshInv
  <2> QED  BY <2>5, <2>6, <2>7 DEF FreshInv
<1>4. ASSUME NEW w \in Workers, PersistFailure(w) PROVE FreshInv'
  <2>1. PICK status \in RunStatus \ {"SUCCEEDED"} : SetRun(w, status)
    BY <1>4 DEF PersistFailure, RunStatus
  <2>2. wpc[w] \in Driving /\ UNCHANGED <<input, output>>
    BY <1>4 DEF PersistFailure, Driving
  <2>3. \A v \in Workers : wpc'[v] = "succeed"
                => wpc[v] = "succeed" /\ msg'[v] = msg[v] /\ wrun'[v] = wrun[v]
    BY <1>4 DEF PersistFailure, Ack, Goto, TypeOK
  <2>4. \A s \in Stages : Len(runs'[s]) = Len(runs[s]) /\ \A i \in 1..Len(runs[s]) :
            /\ runs'[s][i].fingerprint = runs[s][i].fingerprint
            /\ runs'[s][i].status = "SUCCEEDED" => runs[s][i].status = "SUCCEEDED"
    BY <2>1, <2>2, SetRunFingerprints
  <2> QED  BY <2>2, <2>3, <2>4, FreshKept
<1>5. ASSUME NEW w \in Workers,
             \/ \E m \in Messages : Deliver(w, m)
             \/ Skip(w) \/ ExecutorRaises(w) \/ Retry(w) \/ Schedule(w)
             \/ Crash(w) \/ Redeliver(w)
      PROVE  FreshInv'
  <2>1. UNCHANGED sourceVars
    BY <1>5 DEF Deliver, Skip, ExecutorRaises, Retry, Schedule, Crash, Redeliver
  <2>2. \A v \in Workers : wpc'[v] = "succeed"
                => wpc[v] = "succeed" /\ msg'[v] = msg[v] /\ wrun'[v] = wrun[v]
    <3>1. ASSUME NEW m \in Messages, Deliver(w, m)
          PROVE  UNCHANGED workerVars
                 \/ (wpc' = [wpc EXCEPT ![w] = "run"] /\ msg' = [msg EXCEPT ![w] = m]
                      /\ UNCHANGED wrun)
      BY <3>1 DEF Deliver, Goto
    <3>2. CASE \E m \in Messages : Deliver(w, m)
      BY <3>1, <3>2 DEF workerVars, TypeOK
    <3>3. CASE ~\E m \in Messages : Deliver(w, m)
      BY <1>5, <3>3 DEF Skip, ExecutorRaises, Retry, Schedule, Crash, Redeliver, Ack, Goto,
                        workerVars, TypeOK
    <3> QED  BY <3>2, <3>3
  <2> QED  BY <2>1, <2>2, FreshKept DEF sourceVars
<1>6. ASSUME \/ Process \/ RetrySource
             \/ \E s \in Restartable, force \in BOOLEAN : Restart(s, force)
             \/ \E j \in Jobs : CancelRead(j) \/ CancelWrite(j)
             \/ \E m \in Messages : Dispatch(m)
             \/ UNCHANGED vars
      PROVE  FreshInv'
  <2>1. UNCHANGED <<sourceVars, workerVars>>
    BY <1>6 DEF Process, RetrySource, Restart, CancelRead, CancelWrite, Dispatch, vars
  <2> QED  BY <2>1, FreshKept DEF sourceVars, workerVars
<1> QED  BY <1>1, <1>2, <1>3, <1>4, <1>5, <1>6, NextCases

(* While no two deliveries of a stage overlap, a stage that may be skipped has
   the output made from the input it has now: across crashes, failures, retries
   and cancellations, and for any number of deliveries of different stages. *)
THEOREM SkipsAreFresh == Spec /\ []StagesApart => []SkipIsFresh
<1>1. Init => FreshInv
  BY DEF Init, FreshInv, SkipIsFresh, UpToDate
<1>2. FreshInv => SkipIsFresh
  BY DEF FreshInv
<1>3. TypeOK /\ TypeOK' /\ StagesApart /\ FreshInv /\ [Next]_vars => FreshInv'
  BY FreshInvStep
<1> QED  BY <1>1, <1>2, <1>3, TypeCorrect, PTL DEF Spec

(* With the one whole-source delivery at a time of a single worker process. *)
COROLLARY OneWorkerSkipsFresh ==
    ASSUME \A v, w \in Workers : v = w
    PROVE  Spec => []SkipIsFresh
<1>1. StagesApart
  BY DEF StagesApart
<1> QED  BY <1>1, SkipsAreFresh, PTL
=============================================================================
