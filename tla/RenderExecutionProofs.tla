------------------------ MODULE RenderExecutionProofs ------------------------
(***************************************************************************)
(* Theorems of RenderExecution for any number of inputs, jobs, deliveries  *)
(* and requests, under every fault.                                        *)
(***************************************************************************)
EXTENDS RenderExecution, TLAPS

(* A job that exists is not forgotten. *)
Grow == \A j \in Jobs : status[j] # "none" => status'[j] # "none"

LEMMA TypeInit == Init => TypeOK
<1> SUFFICES ASSUME Init PROVE TypeOK
  OBVIOUS
<1> USE RenderConstants DEF Init
<1>1. JobsOK  BY DEF JobsOK, JobStatus
<1>2. RowsOK  BY DEF RowsOK, Rows, NoRow, Lifecycle, NoArtifact, Artifacts
<1>3. BrokerOK  BY DEF BrokerOK
<1>4. WorkersOK  BY DEF WorkersOK, WorkerPC
<1>5. ClientsOK  BY DEF ClientsOK, ClientPC
<1> QED  BY <1>1, <1>2, <1>3, <1>4, <1>5 DEF TypeOK

LEMMA TypeClient ==
  ASSUME TypeOK, NEW c \in Clients, QueueRequest(c) \/ QueueEnvelopeRaced(c) \/ Client(c)
  PROVE  TypeOK'
<1> USE RenderConstants DEF TypeOK, jobVars, rowVars, upstream, workerVars, clientVars, outside
<1>1. /\ UNCHANGED <<version, stale, upstream, admission, workerVars, cancelling>>
      /\ faults' = faults \/ faults' = faults + 1
  BY DEF Client, QueueRequest, QueueEnvelope, QueueEnvelopeRaced, QueueActive, QueueClear,
         QueueCached, QueueClaim, QueueSend, QueueSendFails, QueueMark, Fault
<1>2. JobsOK' /\ RowsOK' /\ Grow /\ BrokerOK' /\ ClientsOK'
  <2>1. CASE QueueRequest(c)
    <3>1. UNCHANGED <<jobVars, rowVars, inbox, seen, cjob, tries, outside>>  BY <2>1 DEF QueueRequest
    <3>2. ClientsOK'  BY <2>1, <3>1 DEF QueueRequest, ClientsOK, RowsOK, ClientPC
    <3> QED  BY <1>1, <3>1, <3>2 DEF JobsOK, RowsOK, Grow, BrokerOK
  <2>2. CASE QueueEnvelope(c)
    <3>1. UNCHANGED <<jobVars, inbox, cinput, cjob, tries, outside>>  BY <2>2 DEF QueueEnvelope
    <3>2. cpc[c] = "envelope" /\ cinput[c] \in Inputs  BY <2>2 DEF QueueEnvelope, ClientsOK
    <3>3. RowsOK'  BY <1>1, <2>2, <3>1, <3>2 DEF QueueEnvelope, RowsOK, Rows, Lifecycle
    <3>4. rows[cinput[c]].active \in Jobs \union {NoJob}  BY <3>2 DEF RowsOK, Rows
    <3>5. ClientsOK'  BY <2>2, <3>1, <3>2, <3>4 DEF QueueEnvelope, ClientsOK, ClientPC
    <3> QED  BY <1>1, <3>1, <3>3, <3>5 DEF JobsOK, Grow, BrokerOK
  <2>3. CASE QueueEnvelopeRaced(c)
    <3>1. UNCHANGED <<jobVars, rowVars, inbox, outside>>  BY <2>3 DEF QueueEnvelopeRaced
    <3>2. cpc[c] = "envelope" /\ cinput[c] \in Inputs  BY <2>3 DEF QueueEnvelopeRaced, ClientsOK
    <3>3. rows[cinput[c]].active \in Jobs \union {NoJob}  BY <3>2 DEF RowsOK, Rows
    <3>4. ClientsOK'
      BY <2>3, <3>1, <3>2, <3>3 DEF QueueEnvelopeRaced, Return, ClientsOK, ClientPC
    <3> QED  BY <1>1, <3>1, <3>4 DEF JobsOK, RowsOK, Grow, BrokerOK
  <2>4. CASE QueueActive(c)
    <3>1. UNCHANGED <<jobVars, rowVars, inbox, outside>> /\ cpc[c] = "active"
      BY <2>4 DEF QueueActive
    <3>2. \A j \in Latest(ActiveJobs(cinput[c])) : j \in Jobs /\ status[j] # "none"
      BY DEF Latest, ActiveJobs, Active
    <3>3. ClientsOK'
      <4> USE <3>1 DEF ClientsOK, ClientPC
      <4>1. CASE Return(c)  BY <4>1 DEF Return
      <4>2. ASSUME NEW j \in Latest(ActiveJobs(cinput[c])),
                   cpc' = [cpc EXCEPT ![c] = "redispatch"], cjob' = [cjob EXCEPT ![c] = j],
                   UNCHANGED <<cinput, seen, tries>>
            PROVE  ClientsOK'
        BY <3>2, <4>2
      <4>3. CASE /\ tries[c] < 2
                 /\ cpc' = [cpc EXCEPT ![c] = IF seen[c] = NoJob THEN "claim" ELSE "clear"]
                 /\ tries' = [tries EXCEPT ![c] = @ + 1]
                 /\ UNCHANGED <<cinput, seen, cjob>>
        BY <4>3
      <4> QED  BY <2>4, <4>1, <4>2, <4>3 DEF QueueActive
    <3> QED  BY <1>1, <3>1, <3>3 DEF JobsOK, RowsOK, Grow, BrokerOK
  <2>5. CASE QueueClear(c)
    <3>1. UNCHANGED <<jobVars, current, inbox, cinput, cjob, tries, outside>>  BY <2>5 DEF QueueClear
    <3>2. cpc[c] = "clear" /\ cinput[c] \in Inputs  BY <2>5 DEF QueueClear, ClientsOK
    <3>3. RowsOK'  BY <1>1, <2>5, <3>1, <3>2 DEF QueueClear, RowsOK, Rows
    <3>4. rows'[cinput[c]].active \in Jobs \union {NoJob}  BY <3>2, <3>3 DEF RowsOK, Rows
    <3>5. ClientsOK'  BY <2>5, <3>1, <3>2, <3>4 DEF QueueClear, ClientsOK, ClientPC
    <3> QED  BY <1>1, <3>1, <3>3, <3>5 DEF JobsOK, Grow, BrokerOK
  <2>6. CASE QueueCached(c)
    <3>1. UNCHANGED <<jobVars, rowVars, inbox, outside>>  BY <2>6 DEF QueueCached
    <3>2. ClientsOK'  BY <2>6, <3>1 DEF QueueCached, Return, ClientsOK, ClientPC
    <3> QED  BY <1>1, <3>1, <3>2 DEF JobsOK, RowsOK, Grow, BrokerOK
  <2>7. CASE QueueClaim(c)
    <3>1. /\ UNCHANGED <<marked, current, inbox, cinput, tries, outside>>
          /\ cpc[c] = "claim" /\ cinput[c] \in Inputs
      BY <2>7 DEF QueueClaim, ClientsOK
    <3>2. CASE rows[cinput[c]].active = NoJob
      <4>1. PICK j \in Jobs :
              /\ status' = [status EXCEPT ![j] = "QUEUED"]
              /\ target' = [target EXCEPT ![j] = cinput[c]]
              /\ rows' = [rows EXCEPT ![cinput[c]].active = j]
              /\ cjob' = [cjob EXCEPT ![c] = j]
              /\ cpc' = [cpc EXCEPT ![c] = "dispatch"]
              /\ UNCHANGED seen
        BY <2>7, <3>2 DEF QueueClaim
      <4>2. JobsOK' /\ Grow  BY <1>1, <3>1, <4>1 DEF JobsOK, JobStatus, Grow
      <4>3. RowsOK'  BY <1>1, <3>1, <4>1 DEF RowsOK, Rows
      <4>4. BrokerOK'  BY <3>1, <4>2 DEF BrokerOK, Grow
      <4>5. status'[j] = "QUEUED"  BY <4>1 DEF JobsOK
      <4>6. ClientsOK'  BY <3>1, <4>1, <4>2, <4>5 DEF ClientsOK, ClientPC, Grow
      <4> QED  BY <4>2, <4>3, <4>4, <4>6
    <3>3. CASE rows[cinput[c]].active # NoJob
      <4>1. /\ UNCHANGED <<jobVars, rowVars, cjob>>
            /\ cpc' = [cpc EXCEPT ![c] = "active"]
            /\ seen' = [seen EXCEPT ![c] = rows[cinput[c]].active]
        BY <2>7, <3>1, <3>3, <1>1 DEF QueueClaim
      <4>2. rows[cinput[c]].active \in Jobs \union {NoJob}  BY <3>1 DEF RowsOK, Rows
      <4>3. ClientsOK'  BY <3>1, <4>1, <4>2 DEF ClientsOK, ClientPC
      <4> QED  BY <1>1, <3>1, <4>1, <4>3 DEF JobsOK, RowsOK, Grow, BrokerOK
    <3> QED  BY <3>2, <3>3
  <2>8. CASE QueueSend(c) \/ QueueSendFails(c)
    <3>1. /\ UNCHANGED <<status, version, target, rowVars>>
          /\ cjob[c] \in Jobs /\ status[cjob[c]] # "none" /\ cinput[c] \in Inputs
          /\ marked' \subseteq marked
      BY <2>8 DEF QueueSend, QueueSendFails, ClientsOK
    <3>2. JobsOK' /\ RowsOK' /\ Grow  BY <1>1, <3>1 DEF JobsOK, RowsOK, Grow
    <3>3. inbox' = inbox \/ inbox' = [inbox EXCEPT ![cjob[c]] = @ + 1]
      BY <2>8 DEF QueueSend, QueueSendFails, Send
    <3>4. BrokerOK'  BY <3>1, <3>3 DEF BrokerOK
    <3>5. ClientsOK'
      BY <2>8, <3>1 DEF QueueSend, QueueSendFails, Return, ClientsOK, ClientPC
    <3> QED  BY <3>2, <3>4, <3>5
  <2>9. CASE QueueMark(c)
    <3>1. UNCHANGED <<status, target, rowVars, inbox, outside>>  BY <2>9 DEF QueueMark
    <3>2. cjob[c] \in Jobs  BY <2>9 DEF QueueMark, ClientsOK
    <3>3. JobsOK'  BY <1>1, <2>9, <3>1, <3>2 DEF QueueMark, JobsOK
    <3>4. ClientsOK'  BY <2>9, <3>1 DEF QueueMark, Return, ClientsOK, ClientPC
    <3> QED  BY <1>1, <3>1, <3>3, <3>4 DEF RowsOK, Grow, BrokerOK
  <2> QED  BY <2>1, <2>2, <2>3, <2>4, <2>5, <2>6, <2>7, <2>8, <2>9 DEF Client
<1>3. WorkersOK'  BY <1>1, <1>2 DEF WorkersOK, Grow
<1> QED  BY <1>2, <1>3

LEMMA TypeTake ==
  ASSUME TypeOK, NEW w \in Workers, Take(w)
  PROVE  TypeOK'
<1> USE RenderConstants DEF TypeOK, jobVars, rowVars, upstream, workerVars, clientVars, outside
<1>1. PICK j \in Jobs : Deliver(w, j)
  BY DEF Take
<1>2. /\ UNCHANGED <<jobVars, current, upstream, admission, clientVars, outside>>
      /\ inbox[j] > 0 /\ inbox' = [inbox EXCEPT ![j] = @ - 1] /\ status[j] # "none"
  BY <1>1 DEF Deliver, BrokerOK
<1>3. JobsOK' /\ ClientsOK'
  BY <1>2 DEF JobsOK, ClientsOK
<1>4. BrokerOK'
  BY <1>2 DEF BrokerOK
<1>5. rows' \in [Inputs -> Rows]
  BY <1>1 DEF Deliver, RowsOK, Rows, CancelledRow, Lifecycle, NoArtifact, Artifacts
<1>6. RowsOK'
  BY <1>2, <1>5 DEF RowsOK
<1>7. WorkersOK'
  BY <1>1, <1>2 DEF Deliver, WorkersOK, WorkerPC, JobsOK, Goto
<1> QED  BY <1>3, <1>4, <1>6, <1>7

LEMMA TypeWorker ==
  ASSUME TypeOK, NEW w \in Workers, Worker(w)
  PROVE  TypeOK'
<1> USE RenderConstants DEF TypeOK, jobVars, rowVars, upstream, workerVars, clientVars, outside
<1>1. /\ UNCHANGED <<target, current, live, clientVars, outside>>
      /\ wpc[w] # "idle" /\ wjob[w] \in Jobs /\ status[wjob[w]] # "none"
      /\ target[wjob[w]] \in Inputs
  <2>1. UNCHANGED <<target, current, live, clientVars, outside>> /\ wpc[w] # "idle"
    BY DEF Worker, ClaimJob, ClaimLost, FinishCached, Build, Skip, Admit, NotAdmitted, Retry,
           BeginAttempt, Encode, SetQcRunning, LockUpstream, Rebuild, RecheckOwner, Publish,
           PublishRolledBack, Stop, MarkTerminal, Finish
  <2> QED  BY <2>1 DEF WorkersOK, JobsOK
<1>2. /\ \/ UNCHANGED status
         \/ \E s \in {"RUNNING", "SUCCEEDED", "FAILED", "QUEUED"} :
              status' = [status EXCEPT ![wjob[w]] = s]
      /\ version' = version \/ version' = [version EXCEPT ![wjob[w]] = @ + 1]
      /\ stale' \subseteq stale /\ marked' \subseteq marked
  BY DEF Worker, ClaimJob, ClaimLost, FinishCached, Build, Skip, Admit, NotAdmitted, Retry,
         BeginAttempt, Encode, SetQcRunning, LockUpstream, Rebuild, RecheckOwner, Publish,
         PublishRolledBack, Stop, MarkTerminal, Finish, FinishJob
<1>3. JobsOK' /\ Grow
  BY <1>1, <1>2 DEF JobsOK, Grow, JobStatus
<1>4. inbox' = inbox \/ inbox' = [inbox EXCEPT ![wjob[w]] = @ + 1]
  BY DEF Worker, ClaimJob, ClaimLost, FinishCached, Build, Skip, Admit, NotAdmitted, Retry,
         BeginAttempt, Encode, SetQcRunning, LockUpstream, Rebuild, RecheckOwner, Publish,
         PublishRolledBack, Stop, MarkTerminal, Finish, Send
<1>5. BrokerOK'
  BY <1>1, <1>3, <1>4 DEF BrokerOK, Grow
<1>6. lock' \in Workers \union {Nobody} /\ admission' \in Workers \union {Nobody}
  BY DEF Worker, ClaimJob, ClaimLost, FinishCached, Build, Skip, Admit, NotAdmitted, Retry,
         BeginAttempt, Encode, SetQcRunning, LockUpstream, Rebuild, RecheckOwner, Publish,
         PublishRolledBack, Stop, MarkTerminal, Finish, Ack, Rollback, RowsOK
<1>7. rows' = rows \/ \E r \in Rows : WriteRow(w, r)
  <2> DEFINE Outcome(life) == [life |-> life, active |-> NoJob, artifact |-> NoArtifact]
  <2>1. \A life \in Lifecycle : Outcome(life) \in Rows  BY DEF Rows, NoArtifact, Artifacts
  <2>2. MyArtifact(w) \in Artifacts  BY <1>1 DEF MyArtifact, Artifacts, WorkersOK
  <2>3. MyRow(w) \in Rows  BY <1>1 DEF MyRow, RowsOK
  <2>4. CASE BeginAttempt(w)
    <3>1. [MyRow(w) EXCEPT !.life = "RENDERING", !.artifact = NoArtifact] \in Rows
      BY <2>3 DEF Rows, NoArtifact, Artifacts, Lifecycle
    <3> QED  BY <2>4, <3>1 DEF BeginAttempt
  <2>5. CASE SetQcRunning(w)
    <3>1. [MyRow(w) EXCEPT !.life = "QC_RUNNING"] \in Rows  BY <2>3 DEF Rows, Lifecycle
    <3> QED  BY <2>5, <3>1 DEF SetQcRunning
  <2>6. CASE Publish(w)
    <3>1. [life |-> "COMPLETE", active |-> NoJob, artifact |-> MyArtifact(w)] \in Rows
      BY <2>2 DEF Rows, Lifecycle
    <3>2. WriteRow(w, [life |-> "COMPLETE", active |-> NoJob, artifact |-> MyArtifact(w)])
      BY <2>6 DEF Publish
    <3> QED  BY <3>1, <3>2
  <2>7. CASE Stop(w)
    <3>1. CancelledRow \in Rows  BY <2>1 DEF CancelledRow, Lifecycle
    <3> QED  BY <2>7, <3>1 DEF Stop
  <2>8. CASE MarkTerminal(w)
    <3>1. \A life \in {"BLOCKED", "FAILED"} : Outcome(life) \in Rows  BY <2>1 DEF Lifecycle
    <3> QED  BY <2>8, <3>1 DEF MarkTerminal
  <2> QED  BY <2>4, <2>5, <2>6, <2>7, <2>8
           DEF Worker, ClaimJob, ClaimLost, FinishCached, Build, Skip, Admit, NotAdmitted, Retry,
               Encode, LockUpstream, Rebuild, RecheckOwner, PublishRolledBack, Finish
<1>8. RowsOK'
  <2>1. rows' \in [Inputs -> Rows]  BY <1>1, <1>7 DEF WriteRow, RowsOK
  <2> QED  BY <1>1, <1>6, <2>1 DEF RowsOK
<1>9. /\ \E label \in WorkerPC : wpc' = [wpc EXCEPT ![w] = label]
      /\ UNCHANGED wjob \/ (wjob' = [wjob EXCEPT ![w] = NoJob] /\ wpc' = [wpc EXCEPT ![w] = "idle"])
      /\ UNCHANGED token \/ (\E n \in Nat : token' = [token EXCEPT ![w] = n])
      /\ lost' \subseteq Workers /\ hit' \subseteq hit
  <2> USE DEF WorkerPC, Claimed, Goto, WorkersOK
  <2>1. CASE ClaimJob(w)
    <3>1. token[w] + 1 \in Nat  OBVIOUS
    <3>2. /\ wpc' = [wpc EXCEPT ![w] = "claimed"] /\ token' = [token EXCEPT ![w] = token[w] + 1]
          /\ UNCHANGED <<wjob, lost, hit>>
      BY <2>1 DEF ClaimJob
    <3> QED  BY <3>1, <3>2
  <2>2. CASE ~ClaimJob(w)
    <3>1. \/ Ack(w)
          \/ UNCHANGED <<wjob, token, hit>> /\ lost' \subseteq lost \union {w}
               /\ \E label \in WorkerPC : Goto(w, label)
      BY <2>2 DEF Worker, ClaimLost, FinishCached, Build, Skip, Admit, NotAdmitted, Retry,
           BeginAttempt, Encode, SetQcRunning, LockUpstream, Rebuild, RecheckOwner, Publish,
           PublishRolledBack, Stop, MarkTerminal, Finish
    <3> QED  BY <3>1 DEF Ack
  <2> QED  BY <2>1, <2>2
<1>10. WorkersOK'
  BY <1>1, <1>3, <1>9 DEF WorkersOK, Grow
<1>11. ClientsOK'
  BY <1>1, <1>3 DEF ClientsOK, Grow
<1> QED  BY <1>3, <1>5, <1>8, <1>10, <1>11

LEMMA TypeEnvironment ==
  ASSUME TypeOK,
         \/ \E w \in Workers : Broken(w)
         \/ \E j \in Jobs : Outside(j)
         \/ EditUpstream
  PROVE  TypeOK'
<1> USE RenderConstants DEF TypeOK, jobVars, rowVars, upstream, workerVars, clientVars, outside
<1>1. /\ UNCHANGED <<version, target, rowVars, clientVars, marked>>
      /\ faults' = faults \/ faults' = faults + 1
  BY DEF Broken, Heartbeat, Crash, Redeliver, Sever, Outside, CancelRead, CancelWrite, GoStale,
         EditUpstream, Fault
<1>2. JobsOK' /\ Grow
  <2>1. /\ status' = status \/ \E j \in cancelling : status' = [status EXCEPT ![j] = "CANCELLED"]
        /\ stale' \subseteq Jobs
        /\ cancelling' \subseteq cancelling \union {j \in Jobs : status[j] # "none"}
    BY DEF Broken, Heartbeat, Crash, Redeliver, Sever, Outside, CancelRead, CancelWrite, GoStale,
           EditUpstream, JobsOK, Active
  <2> QED  BY <1>1, <2>1 DEF JobsOK, Grow, JobStatus
<1>3. RowsOK'
  <2>1. /\ lock' \in Workers \union {Nobody} /\ admission' \in Workers \union {Nobody}
        /\ live' \in Inputs
    BY DEF Broken, Heartbeat, Crash, Redeliver, Sever, Outside, CancelRead, CancelWrite, GoStale,
           EditUpstream, Ack, RowsOK
  <2> QED  BY <1>1, <2>1 DEF RowsOK
<1>4. /\ inbox' = inbox \/ \E w \in Workers : wpc[w] # "idle" /\ Send(wjob[w])
      /\ UNCHANGED <<wpc, wjob, token>> \/ \E w \in Workers : Ack(w)
      /\ lost' \subseteq Workers /\ hit' \subseteq hit
  BY DEF Broken, Heartbeat, Crash, Redeliver, Sever, Outside, CancelRead, CancelWrite, GoStale,
         EditUpstream, Ack, Goto, WorkersOK
<1>5. BrokerOK'
  BY <1>2, <1>4 DEF BrokerOK, Grow, Send, WorkersOK
<1>6. WorkersOK'
  BY <1>2, <1>4 DEF WorkersOK, WorkerPC, Grow, Ack, Goto
<1>7. ClientsOK'
  BY <1>1, <1>2 DEF ClientsOK, Grow
<1> QED  BY <1>2, <1>3, <1>5, <1>6, <1>7

LEMMA TypeStep == TypeOK /\ [Next]_vars => TypeOK'
<1> SUFFICES ASSUME TypeOK, [Next]_vars PROVE TypeOK'
  OBVIOUS
<1>1. CASE UNCHANGED vars
  BY <1>1 DEF vars, jobVars, rowVars, upstream, workerVars, clientVars, outside, TypeOK, JobsOK,
              RowsOK, BrokerOK, WorkersOK, ClientsOK
<1>2. CASE Next
  BY <1>2, TypeClient, TypeTake, TypeWorker, TypeEnvironment DEF Next
<1> QED  BY <1>1, <1>2

(* Type correctness, whatever the faults. *)
THEOREM TypeCorrect == Spec => []TypeOK
BY TypeInit, TypeStep, PTL DEF Spec

-----------------------------------------------------------------------------
(* A delivery knows a claim version the job has reached. *)
ClaimInv ==
    /\ \A w \in Workers : wpc[w] # "idle" => token[w] <= version[wjob[w]]
    /\ SingleOwner

LEMMA ClaimStep ==
  ASSUME TypeOK, ClaimInv, [Next]_vars
  PROVE  ClaimInv'
<1> DEFINE Types == /\ version \in [Jobs -> Nat]
                    /\ wpc \in [Workers -> WorkerPC]
                    /\ wjob \in [Workers -> Jobs \union {NoJob}]
                    /\ token \in [Workers -> Nat]
                    /\ \A w \in Workers : wpc[w] # "idle" => wjob[w] \in Jobs
<1>0. Types
  BY DEF TypeOK, JobsOK, WorkersOK
<1> USE <1>0, RenderConstants DEF ClaimInv, SingleOwner, Current, jobVars, rowVars, upstream,
                                  workerVars, clientVars, outside
<1>1. CASE UNCHANGED <<version, wpc, wjob, token>>
  BY <1>1
<1>2. ASSUME NEW w \in Workers, UNCHANGED version, Ack(w) PROVE ClaimInv'
  <2>1. wpc' = [wpc EXCEPT ![w] = "idle"] /\ wjob' = [wjob EXCEPT ![w] = NoJob]
        /\ token' = [token EXCEPT ![w] = 0]
    BY <1>2 DEF Ack, Goto
  <2>2. wpc'[w] = "idle"  BY <2>1
  <2>3. \A v \in Workers \ {w} : wpc'[v] = wpc[v] /\ wjob'[v] = wjob[v] /\ token'[v] = token[v]
    BY <2>1
  <2> QED  BY <1>2, <2>2, <2>3 DEF Claimed
<1>3. ASSUME NEW c \in Clients, QueueRequest(c) \/ QueueEnvelopeRaced(c) \/ Client(c)
      PROVE  UNCHANGED <<version, wpc, wjob, token>>
  BY <1>3 DEF Client, QueueRequest, QueueEnvelope, QueueEnvelopeRaced, QueueActive, QueueClear,
              QueueCached, QueueClaim, QueueSend, QueueSendFails, QueueMark
<1>4. ASSUME NEW w \in Workers, Take(w) PROVE ClaimInv'
  <2>1. PICK j \in Jobs : Deliver(w, j)  BY <1>4 DEF Take
  <2>2. CASE Claimable(j)
    <3>1. /\ wpc' = [wpc EXCEPT ![w] = "claim"] /\ wjob' = [wjob EXCEPT ![w] = j]
          /\ token' = [token EXCEPT ![w] = version[j]] /\ UNCHANGED version
      BY <2>1, <2>2 DEF Deliver, Goto
    <3> QED  BY <3>1 DEF Claimed
  <2>3. CASE ~Claimable(j)  BY <1>1, <2>1, <2>3 DEF Deliver
  <2> QED  BY <2>2, <2>3
<1>5. ASSUME NEW w \in Workers, Worker(w) PROVE ClaimInv'
  <2>1. CASE ClaimJob(w)
    <3>1. /\ wpc' = [wpc EXCEPT ![w] = "claimed"] /\ token' = [token EXCEPT ![w] = @ + 1]
          /\ version' = [version EXCEPT ![wjob[w]] = @ + 1] /\ version[wjob[w]] = token[w]
          /\ UNCHANGED wjob /\ wpc[w] # "idle"
      BY <2>1 DEF ClaimJob, Goto
    <3>2. version'[wjob[w]] = token[w] + 1 /\ token'[w] = token[w] + 1  BY <3>1
    <3>3. \A v \in Workers \ {w} : wpc'[v] = wpc[v] /\ token'[v] = token[v]  BY <3>1
    <3>4. \A j \in Jobs \ {wjob[w]} : version'[j] = version[j]  BY <3>1
    <3>5. \A v \in Workers \ {w} : wpc[v] # "idle" /\ wjob[v] = wjob[w] => token[v] < version'[wjob[w]]
      BY <3>1, <3>2
    <3> QED  BY <3>1, <3>2, <3>3, <3>4, <3>5 DEF Claimed
  <2>2. CASE ~ClaimJob(w)
    <3>1. /\ UNCHANGED version
          /\ \/ Ack(w)
             \/ /\ UNCHANGED <<wjob, token>> /\ wpc[w] \in Claimed
                /\ \E label \in WorkerPC : wpc' = [wpc EXCEPT ![w] = label]
      BY <1>5, <2>2 DEF Worker, ClaimLost, FinishCached, Build, Skip, Admit, NotAdmitted, Retry,
           BeginAttempt, Encode, SetQcRunning, LockUpstream, Rebuild, RecheckOwner, Publish,
           PublishRolledBack, Stop, MarkTerminal, Finish, Goto, WorkerPC, Claimed
    <3>2. CASE Ack(w)  BY <1>2, <3>1, <3>2
    <3>3. CASE ~Ack(w)  BY <3>1, <3>3 DEF Claimed
    <3> QED  BY <3>2, <3>3
  <2> QED  BY <2>1, <2>2
<1>6. ASSUME NEW w \in Workers, Broken(w) PROVE ClaimInv'
  BY <1>1, <1>2, <1>6 DEF Broken, Heartbeat, Crash, Redeliver, Sever
<1>7. ASSUME NEW j \in Jobs, Outside(j) PROVE ClaimInv'
  BY <1>1, <1>7 DEF Outside, CancelRead, CancelWrite, GoStale
<1>8. CASE EditUpstream
  BY <1>1, <1>8 DEF EditUpstream
<1>9. CASE UNCHANGED vars
  BY <1>1, <1>9 DEF vars
<1> QED  BY <1>1, <1>3, <1>4, <1>5, <1>6, <1>7, <1>8, <1>9 DEF Next

(* The claim of a job has one holder: no assumption on timing is needed, since
   the claim is one UPDATE that compares the version the delivery read. *)
THEOREM SingleOwnerHolds == Spec => []SingleOwner
<1>1. Init => ClaimInv
  BY RenderConstants DEF Init, ClaimInv, SingleOwner, Current, Claimed
<1>2. TypeOK /\ ClaimInv /\ [Next]_vars => ClaimInv'
  BY ClaimStep
<1>3. ClaimInv => SingleOwner
  BY DEF ClaimInv
<1> QED  BY <1>1, <1>2, <1>3, TypeCorrect, PTL DEF Spec

-----------------------------------------------------------------------------
(* The steps that write a row, and nothing else does. *)
RowStep(w) == BeginAttempt(w) \/ SetQcRunning(w) \/ Publish(w) \/ Stop(w) \/ MarkTerminal(w)

LEMMA RowWriters ==
  ASSUME [Next]_vars
  PROVE  \/ UNCHANGED rows
         \/ \E c \in Clients : QueueEnvelope(c) \/ QueueClear(c) \/ QueueClaim(c)
         \/ \E w \in Workers : RowStep(w) \/ Take(w)
<1> USE DEF vars, jobVars, rowVars, upstream, workerVars, clientVars, outside
<1>1. ASSUME NEW c \in Clients, QueueRequest(c) \/ QueueEnvelopeRaced(c) \/ Client(c)
      PROVE  UNCHANGED rows \/ QueueEnvelope(c) \/ QueueClear(c) \/ QueueClaim(c)
  BY <1>1 DEF Client, QueueRequest, QueueEnvelopeRaced, QueueActive, QueueCached, QueueSend,
              QueueSendFails, QueueMark
<1>2. ASSUME NEW w \in Workers, Worker(w) PROVE UNCHANGED rows \/ RowStep(w)
  BY <1>2 DEF Worker, RowStep, ClaimJob, ClaimLost, FinishCached, Build, Skip, Admit, NotAdmitted,
              Retry, Encode, LockUpstream, Rebuild, RecheckOwner, PublishRolledBack, Finish
<1>3. ASSUME NEW w \in Workers, Broken(w) PROVE UNCHANGED rows
  BY <1>3 DEF Broken, Heartbeat, Crash, Redeliver, Sever
<1>4. ASSUME NEW j \in Jobs, Outside(j) PROVE UNCHANGED rows
  BY <1>4 DEF Outside, CancelRead, CancelWrite, GoStale
<1>5. EditUpstream => UNCHANGED rows
  BY DEF EditUpstream
<1> QED  BY <1>1, <1>2, <1>3, <1>4, <1>5 DEF Next

(* A job that succeeded or was cancelled is not taken up again. *)
Over == {"SUCCEEDED", "CANCELLED"}

LEMMA OverStays ==
  ASSUME TypeOK, [Next]_vars
  PROVE  \A j \in Jobs : status[j] \in Over => status'[j] \in Over
<1> USE DEF TypeOK, JobsOK, vars, jobVars, rowVars, upstream, workerVars, clientVars, outside, Over
<1>1. ASSUME NEW c \in Clients, QueueRequest(c) \/ QueueEnvelopeRaced(c) \/ Client(c)
      PROVE  \A j \in Jobs : status[j] # "none" => status'[j] = status[j]
  BY <1>1 DEF Client, QueueRequest, QueueEnvelope, QueueEnvelopeRaced, QueueActive, QueueClear,
              QueueCached, QueueClaim, QueueSend, QueueSendFails, QueueMark, NextJob
<1>2. ASSUME NEW w \in Workers, Worker(w)
      PROVE  \/ UNCHANGED status
             \/ \E s \in JobStatus : /\ status[wjob[w]] \notin Over
                                     /\ status' = [status EXCEPT ![wjob[w]] = s]
  BY <1>2 DEF Worker, ClaimJob, Claimable, ClaimLost, FinishCached, Build, Skip, Admit,
              NotAdmitted, Retry, BeginAttempt, Encode, SetQcRunning, LockUpstream, Rebuild,
              RecheckOwner, Publish, PublishRolledBack, Stop, MarkTerminal, Finish, FinishJob,
              Owns, JobStatus
<1>3. ASSUME NEW w \in Workers, Take(w) \/ Broken(w) PROVE UNCHANGED status
  BY <1>3 DEF Take, Deliver, Broken, Heartbeat, Crash, Redeliver, Sever
<1>4. ASSUME NEW k \in Jobs, Outside(k)
      PROVE  UNCHANGED status \/ status' = [status EXCEPT ![k] = "CANCELLED"]
  BY <1>4 DEF Outside, CancelRead, CancelWrite, GoStale
<1>5. EditUpstream => UNCHANGED status
  BY DEF EditUpstream
<1> QED  BY <1>1, <1>2, <1>3, <1>4, <1>5 DEF Next

-----------------------------------------------------------------------------
(* What a step can do to a row: it keeps or withdraws the artifact, or publishes
   one and releases the row; and it binds a row to a new job only. *)
LEMMA RowShape ==
  ASSUME TypeOK, [Next]_vars, NEW i \in Inputs
  PROVE  /\ \/ rows'[i].artifact \in {rows[i].artifact, NoArtifact}
            \/ rows'[i].active = NoJob
         /\ \/ rows'[i].active \in {rows[i].active, NoJob}
            \/ /\ rows'[i].active \in Jobs /\ status[rows'[i].active] = "none"
               /\ \E c \in Clients : QueueClaim(c)
<1> USE RenderConstants
<1> DEFINE Types == /\ rows \in [Inputs -> Rows]
                    /\ \A c \in Clients : cpc[c] # "idle" => cinput[c] \in Inputs
                    /\ \A w \in Workers : wpc[w] # "idle" =>
                         wjob[w] \in Jobs /\ target[wjob[w]] \in Inputs
           Claims == \E c \in Clients : QueueClaim(c)
           Shape(r, s) == /\ s.artifact \in {r.artifact, NoArtifact} \/ s.active = NoJob
                          /\ \/ s.active \in {r.active, NoJob}
                             \/ s.active \in Jobs /\ status[s.active] = "none" /\ Claims
<1>0. Types  BY DEF TypeOK, RowsOK, JobsOK, ClientsOK, WorkersOK
<1>1. ASSUME NEW c \in Clients, QueueEnvelope(c) PROVE Shape(rows[i], rows'[i])
  BY <1>0, <1>1 DEF QueueEnvelope, Rows
<1>2. ASSUME NEW c \in Clients, QueueClear(c) PROVE Shape(rows[i], rows'[i])
  BY <1>0, <1>2 DEF QueueClear, Rows
<1>3. ASSUME NEW c \in Clients, QueueClaim(c) PROVE Shape(rows[i], rows'[i])
  <2>1. \/ UNCHANGED rows
        \/ \E j \in Jobs : status[j] = "none" /\ rows' = [rows EXCEPT ![cinput[c]].active = j]
    BY <1>3 DEF QueueClaim, NextJob
  <2>2. cinput[c] \in Inputs  BY <1>0, <1>3 DEF QueueClaim
  <2>3. CASE UNCHANGED rows  BY <1>0, <2>3
  <2>5. Claims  BY <1>3
  <2> HIDE DEF Claims
  <2>4. ASSUME NEW j \in Jobs, status[j] = "none", rows' = [rows EXCEPT ![cinput[c]].active = j]
        PROVE  Shape(rows[i], rows'[i])
    BY <1>0, <2>2, <2>4, <2>5 DEF Rows
  <2> QED  BY <2>1, <2>3, <2>4
<1>4. ASSUME NEW w \in Workers, Take(w) PROVE Shape(rows[i], rows'[i])
  <2>1. PICK j \in Jobs : Deliver(w, j)  BY <1>4 DEF Take
  <2>2. UNCHANGED rows \/ rows' = [rows EXCEPT ![target[j]] = CancelledRow]
    BY <2>1 DEF Deliver, rowVars
  <2> QED  BY <1>0, <2>2 DEF CancelledRow
<1>5. ASSUME NEW w \in Workers, RowStep(w) PROVE Shape(rows[i], rows'[i])
  <2>1. target[wjob[w]] \in Inputs /\ MyRow(w) = rows[target[wjob[w]]] /\ MyRow(w) \in Rows
    BY <1>0, <1>5 DEF RowStep, BeginAttempt, SetQcRunning, Publish, Stop, MarkTerminal, MyRow
  <2>2. UNCHANGED rows \/ \E s : Shape(MyRow(w), s) /\ WriteRow(w, s)
    <3>1. CASE BeginAttempt(w)
      <4>1. Shape(MyRow(w), [MyRow(w) EXCEPT !.life = "RENDERING", !.artifact = NoArtifact])
        BY <2>1 DEF Rows
      <4> QED  BY <3>1, <4>1 DEF BeginAttempt
    <3>2. CASE SetQcRunning(w)
      <4>1. Shape(MyRow(w), [MyRow(w) EXCEPT !.life = "QC_RUNNING"])  BY <2>1 DEF Rows
      <4> QED  BY <3>2, <4>1 DEF SetQcRunning
    <3>3. CASE Publish(w)
      <4>1. Shape(MyRow(w), [life |-> "COMPLETE", active |-> NoJob, artifact |-> MyArtifact(w)])
        OBVIOUS
      <4>2. WriteRow(w, [life |-> "COMPLETE", active |-> NoJob, artifact |-> MyArtifact(w)])
        BY <3>3 DEF Publish
      <4> QED  BY <4>1, <4>2
    <3>4. CASE Stop(w)
      <4>1. Shape(MyRow(w), CancelledRow)  BY DEF CancelledRow
      <4> QED  BY <3>4, <4>1 DEF Stop
    <3>5. CASE MarkTerminal(w)
      <4>1. \A l : Shape(MyRow(w), [life |-> l, active |-> NoJob, artifact |-> NoArtifact])
        OBVIOUS
      <4> QED  BY <3>5, <4>1 DEF MarkTerminal
    <3> QED  BY <1>5, <3>1, <3>2, <3>3, <3>4, <3>5 DEF RowStep
  <2> HIDE DEF Shape
  <2>3. \/ UNCHANGED rows
        \/ \E s : Shape(MyRow(w), s) /\ rows' = [rows EXCEPT ![target[wjob[w]]] = s]
    BY <2>2 DEF WriteRow
  <2>4. Shape(rows[i], rows[i])  BY DEF Shape
  <2> QED  BY <1>0, <2>1, <2>3, <2>4
<1> QED  BY <1>1, <1>2, <1>3, <1>4, <1>5, RowWriters

(* What a step can do to a delivery: to take a job, to claim it, to end, or to go
   on with the same job and token. *)
LEMMA DeliveryStep ==
  ASSUME TypeOK, [Next]_vars, NEW w \in Workers
  PROVE  \/ UNCHANGED <<wpc[w], wjob[w], token[w]>>
         \/ wpc[w] = "idle" /\ wpc'[w] = "claim"
         \/ wpc[w] = "claim" /\ wpc'[w] = "claimed"
         \/ wpc'[w] = "idle"
         \/ wpc[w] \in Claimed /\ Worker(w) /\ UNCHANGED <<wjob[w], token[w]>>
<1> USE DEF vars, jobVars, rowVars, upstream, workerVars, clientVars, outside
<1> DEFINE Types == /\ wpc \in [Workers -> WorkerPC]
                    /\ wjob \in [Workers -> Jobs \union {NoJob}]
                    /\ token \in [Workers -> Nat]
<1>0. Types  BY DEF TypeOK, WorkersOK
<1>1. ASSUME NEW c \in Clients, QueueRequest(c) \/ QueueEnvelopeRaced(c) \/ Client(c)
      PROVE  UNCHANGED <<wpc, wjob, token>>
  BY <1>1 DEF Client, QueueRequest, QueueEnvelope, QueueEnvelopeRaced, QueueActive, QueueClear,
              QueueCached, QueueClaim, QueueSend, QueueSendFails, QueueMark
<1>2. ASSUME NEW v \in Workers, Take(v)
      PROVE  UNCHANGED <<wpc[w], wjob[w], token[w]>> \/ (wpc[w] = "idle" /\ wpc'[w] = "claim")
  <2>1. PICK j \in Jobs : Deliver(v, j)  BY <1>2 DEF Take
  <2>2. CASE Claimable(j)  BY <1>0, <2>1, <2>2 DEF Deliver, Goto
  <2>3. CASE ~Claimable(j)  BY <2>1, <2>3 DEF Deliver
  <2> QED  BY <2>2, <2>3
<1>3. ASSUME NEW v \in Workers, Worker(v), v # w
      PROVE  UNCHANGED <<wpc[w], wjob[w], token[w]>>
  <2>1. \/ ClaimJob(v)
        \/ Ack(v)
        \/ UNCHANGED <<wjob, token>> /\ \E label : Goto(v, label)
    BY <1>3 DEF Worker, ClaimLost, FinishCached, Build, Skip, Admit, NotAdmitted, Retry,
         BeginAttempt, Encode, SetQcRunning, LockUpstream, Rebuild, RecheckOwner, Publish,
         PublishRolledBack, Stop, MarkTerminal, Finish
  <2> QED  BY <1>0, <1>3, <2>1 DEF ClaimJob, Ack, Goto
<1>4. ASSUME Worker(w)
      PROVE  \/ wpc[w] = "claim" /\ wpc'[w] = "claimed"
             \/ wpc'[w] = "idle"
             \/ wpc[w] \in Claimed /\ UNCHANGED <<wjob[w], token[w]>>
  <2>1. \/ ClaimJob(w)
        \/ Ack(w)
        \/ wpc[w] \in Claimed /\ UNCHANGED <<wjob, token>>
    BY <1>4 DEF Worker, ClaimLost, FinishCached, Build, Skip, Admit, NotAdmitted, Retry,
         BeginAttempt, Encode, SetQcRunning, LockUpstream, Rebuild, RecheckOwner, Publish,
         PublishRolledBack, Stop, MarkTerminal, Finish, Claimed
  <2> QED  BY <1>0, <2>1 DEF ClaimJob, Ack, Goto
<1>5. ASSUME NEW v \in Workers, Broken(v)
      PROVE  UNCHANGED <<wpc[w], wjob[w], token[w]>> \/ wpc'[w] = "idle"
  <2>1. UNCHANGED <<wpc, wjob, token>> \/ Ack(v)
    BY <1>5 DEF Broken, Heartbeat, Crash, Redeliver, Sever
  <2> QED  BY <1>0, <2>1 DEF Ack, Goto
<1>6. ASSUME NEW j \in Jobs, Outside(j) PROVE UNCHANGED <<wpc, wjob, token>>
  BY <1>6 DEF Outside, CancelRead, CancelWrite, GoStale
<1>7. EditUpstream => UNCHANGED <<wpc, wjob, token>>
  BY DEF EditUpstream
<1> QED  BY <1>1, <1>2, <1>3, <1>4, <1>5, <1>6, <1>7 DEF Next

(* Claim versions only grow, and a job keeps its row. *)
LEMMA JobsKept ==
  ASSUME TypeOK, [Next]_vars, NEW j \in Jobs
  PROVE  /\ version[j] <= version'[j]
         /\ status[j] # "none" => target'[j] = target[j]
<1> USE DEF TypeOK, JobsOK, vars, jobVars, rowVars, upstream, workerVars, clientVars, outside
<1>1. ASSUME NEW c \in Clients, QueueRequest(c) \/ QueueEnvelopeRaced(c) \/ Client(c)
      PROVE  /\ UNCHANGED version
             /\ \/ UNCHANGED target
                \/ \E k \in Jobs : status[k] = "none" /\ target' = [target EXCEPT ![k] = cinput[c]]
  BY <1>1 DEF Client, QueueRequest, QueueEnvelope, QueueEnvelopeRaced, QueueActive, QueueClear,
              QueueCached, QueueClaim, QueueSend, QueueSendFails, QueueMark, NextJob
<1>2. ASSUME NEW w \in Workers, Worker(w)
      PROVE  /\ UNCHANGED target
             /\ version' = version \/ version' = [version EXCEPT ![wjob[w]] = @ + 1]
  BY <1>2 DEF Worker, ClaimJob, ClaimLost, FinishCached, Build, Skip, Admit, NotAdmitted, Retry,
              BeginAttempt, Encode, SetQcRunning, LockUpstream, Rebuild, RecheckOwner, Publish,
              PublishRolledBack, Stop, MarkTerminal, Finish
<1>3. ASSUME NEW w \in Workers, Take(w) \/ Broken(w) PROVE UNCHANGED <<version, target>>
  BY <1>3 DEF Take, Deliver, Broken, Heartbeat, Crash, Redeliver, Sever
<1>4. ASSUME NEW k \in Jobs, Outside(k) PROVE UNCHANGED <<version, target>>
  BY <1>4 DEF Outside, CancelRead, CancelWrite, GoStale
<1>5. EditUpstream => UNCHANGED <<version, target>>
  BY DEF EditUpstream
<1> QED  BY <1>1, <1>2, <1>3, <1>4, <1>5 DEF Next

(* A delivery that is about to start QC, if the row is still its, has withdrawn
   the earlier artifact; an artifact is of a job. *)
ArtifactInv ==
    /\ ArtifactMatchesRun
    /\ \A w \in Workers :
         wpc[w] \in {"encode", "qcStart"} /\ Current(w) /\ MyRow(w).active = wjob[w]
           => MyRow(w).artifact = NoArtifact
    /\ \A i \in Inputs : rows[i].artifact # NoArtifact => rows[i].artifact.job \in Jobs

LEMMA ArtifactStep ==
  ASSUME TypeOK, ClaimInv, ArtifactInv, [Next]_vars
  PROVE  ArtifactInv'
<1> DEFINE Good(r) == /\ r.life = "COMPLETE" <=> r.artifact # NoArtifact
                      /\ r.artifact # NoArtifact =>
                           r.artifact.job \in Jobs /\ status'[r.artifact.job] \in Over
<1>1. \A i \in Inputs : Good(rows[i])
  BY OverStays DEF ArtifactInv, ArtifactMatchesRun, Over
<1>2. ASSUME NEW w \in Workers, (wpc[w] \in {"encode", "qcStart"})', Current(w)',
             (MyRow(w).active = wjob[w])'
      PROVE  (MyRow(w).artifact = NoArtifact)'
  <2>1. /\ wpc'[w] \in {"encode", "qcStart"} /\ version'[wjob'[w]] = token'[w]
        /\ rows'[target'[wjob'[w]]].active = wjob'[w]
    BY <1>2 DEF Current, MyRow
  <2>2. CASE BeginAttempt(w)
    <3>1. /\ wpc[w] = "begin" /\ wpc' = [wpc EXCEPT ![w] = "encode"]
          /\ WriteRow(w, [MyRow(w) EXCEPT !.life = "RENDERING", !.artifact = NoArtifact])
          /\ UNCHANGED <<wjob, target>>
      BY <2>1, <2>2 DEF BeginAttempt, Goto, TypeOK, WorkersOK, jobVars
    <3>2. target[wjob[w]] \in Inputs  BY <3>1 DEF TypeOK, WorkersOK, JobsOK
    <3>3. MyRow(w) \in Rows  BY <3>2 DEF MyRow, TypeOK, RowsOK
    <3>4. [MyRow(w) EXCEPT !.life = "RENDERING", !.artifact = NoArtifact].artifact = NoArtifact
      BY <3>3 DEF Rows
    <3> QED  BY <3>1, <3>2, <3>4 DEF WriteRow, MyRow, TypeOK, RowsOK
  <2>3. CASE ~BeginAttempt(w)
    <3>1. wpc[w] \in {"encode", "qcStart"} /\ UNCHANGED <<wjob[w], token[w]>>
      <4>1. CASE Worker(w) /\ wpc[w] \in Claimed /\ UNCHANGED <<wjob[w], token[w]>>
        <5>1. \/ wpc[w] = "encode"
              \/ Ack(w)
              \/ \E label \in WorkerPC \ {"encode", "qcStart"} : Goto(w, label)
          BY <2>3, <4>1 DEF Worker, ClaimJob, ClaimLost, FinishCached, Build, Skip, Admit,
             NotAdmitted, Retry, Encode, SetQcRunning, LockUpstream, Rebuild, RecheckOwner,
             Publish, PublishRolledBack, Stop, MarkTerminal, Finish, WorkerPC, Claimed
        <5> QED  BY <2>1, <4>1, <5>1 DEF Ack, Goto, TypeOK, WorkersOK
      <4> QED  BY <2>1, <4>1, DeliveryStep
    <3>2. wjob[w] \in Jobs /\ status[wjob[w]] # "none" /\ target[wjob[w]] \in Inputs
      BY <3>1 DEF TypeOK, WorkersOK, JobsOK
    <3>3. target'[wjob[w]] = target[wjob[w]] /\ version[wjob[w]] <= version'[wjob[w]]
      BY <3>2, JobsKept
    <3>4. version[wjob[w]] = token[w]
      <4>1. token[w] <= version[wjob[w]]  BY <3>1 DEF ClaimInv
      <4>2. version'[wjob[w]] = token[w]  BY <2>1, <3>1
      <4>3. token[w] \in Nat /\ version[wjob[w]] \in Nat  BY <3>2 DEF TypeOK, WorkersOK, JobsOK
      <4> QED  BY <3>3, <4>1, <4>2, <4>3
    <3> DEFINE i == target[wjob[w]]
    <3>5. rows'[i].active = wjob[w]  BY <2>1, <3>1, <3>3
    <3>6. rows[i].active = wjob[w] /\ rows'[i].artifact \in {rows[i].artifact, NoArtifact}
      BY <3>2, <3>5, RowShape, RenderConstants
    <3>7. rows[i].artifact = NoArtifact
      BY <3>1, <3>4, <3>6 DEF ArtifactInv, Current, MyRow, Claimed
    <3> QED  BY <3>1, <3>3, <3>6, <3>7 DEF MyRow
  <2> QED  BY <2>2, <2>3
<1>3. \A i \in Inputs : Good(rows'[i])
  <2> USE RenderConstants
  <2> DEFINE Types == /\ rows \in [Inputs -> Rows]
                      /\ status \in [Jobs -> JobStatus]
                      /\ \A c \in Clients : cpc[c] # "idle" => cinput[c] \in Inputs
                      /\ \A w \in Workers : wpc[w] # "idle" =>
                           wjob[w] \in Jobs /\ target[wjob[w]] \in Inputs
  <2>0. Types  BY DEF TypeOK, RowsOK, JobsOK, ClientsOK, WorkersOK
  <2>1. ASSUME NEW c \in Clients, QueueEnvelope(c) PROVE \A i \in Inputs : Good(rows'[i])
    <3>1. cinput[c] \in Inputs  BY <2>0, <2>1 DEF QueueEnvelope
    <3>2. \A i \in Inputs : rows'[i].artifact = rows[i].artifact
            /\ (rows'[i].life = "COMPLETE" <=> rows[i].life = "COMPLETE")
      BY <2>0, <2>1, <3>1 DEF QueueEnvelope, Rows
    <3> QED  BY <1>1, <3>2
  <2>2. ASSUME NEW c \in Clients, QueueClear(c) \/ QueueClaim(c)
        PROVE  \A i \in Inputs : Good(rows'[i])
    <3>1. cinput[c] \in Inputs  BY <2>0, <2>2 DEF QueueClear, QueueClaim
    <3>2. UNCHANGED rows \/ \E x : rows' = [rows EXCEPT ![cinput[c]].active = x]
      BY <2>2 DEF QueueClear, QueueClaim
    <3>3. \A i \in Inputs : rows'[i].artifact = rows[i].artifact /\ rows'[i].life = rows[i].life
      <4>1. CASE UNCHANGED rows  BY <4>1
      <4>2. ASSUME NEW x, rows' = [rows EXCEPT ![cinput[c]].active = x]
            PROVE  \A i \in Inputs : rows'[i].artifact = rows[i].artifact /\ rows'[i].life = rows[i].life
        BY <2>0, <3>1, <4>2 DEF Rows
      <4> QED  BY <3>2, <4>1, <4>2
    <3> QED  BY <1>1, <3>3
  <2>3. ASSUME NEW w \in Workers, Take(w) PROVE \A i \in Inputs : Good(rows'[i])
    <3>1. Good(CancelledRow)  BY DEF CancelledRow, NoArtifact
    <3>2. PICK j \in Jobs : Deliver(w, j)  BY <2>3 DEF Take
    <3> HIDE DEF Good
    <3>3. UNCHANGED rows \/ rows' = [rows EXCEPT ![target[j]] = CancelledRow]
      BY <3>2 DEF Deliver, rowVars
    <3> QED  BY <1>1, <2>0, <3>1, <3>3
  <2>4. ASSUME NEW w \in Workers, RowStep(w) PROVE \A i \in Inputs : Good(rows'[i])
    <3>1. /\ wjob[w] \in Jobs /\ target[wjob[w]] \in Inputs /\ MyRow(w) \in Rows
      BY <2>0, <2>4 DEF RowStep, BeginAttempt, SetQcRunning, Publish, Stop, MarkTerminal, MyRow
    <3>2. (\E r : Good(r) /\ WriteRow(w, r)) \/ UNCHANGED rows
      <4>1. CASE BeginAttempt(w)
        <5>1. Good([MyRow(w) EXCEPT !.life = "RENDERING", !.artifact = NoArtifact])
          BY <3>1 DEF Rows
        <5> QED  BY <4>1, <5>1 DEF BeginAttempt
      <4>2. CASE SetQcRunning(w)
        <5>1. MyRow(w).artifact = NoArtifact
          BY <4>2 DEF SetQcRunning, Fence, Owns, Current, Claimed, ArtifactInv
        <5>2. Good([MyRow(w) EXCEPT !.life = "QC_RUNNING"])  BY <3>1, <5>1 DEF Rows
        <5> QED  BY <4>2, <5>2 DEF SetQcRunning
      <4>3. CASE Publish(w)
        <5>1. status'[wjob[w]] = "SUCCEEDED"
          BY <2>0, <3>1, <4>3 DEF Publish, Fence, FinishJob
        <5>2. MyArtifact(w) # NoArtifact  BY <3>1 DEF MyArtifact, NoArtifact
        <5>3. Good([life |-> "COMPLETE", active |-> NoJob, artifact |-> MyArtifact(w)])
          BY <3>1, <5>1, <5>2 DEF MyArtifact, Over
        <5>4. WriteRow(w, [life |-> "COMPLETE", active |-> NoJob, artifact |-> MyArtifact(w)])
          BY <4>3 DEF Publish
        <5> QED  BY <5>3, <5>4
      <4>4. CASE Stop(w)
        <5>1. Good(CancelledRow)  BY DEF CancelledRow, NoArtifact
        <5> QED  BY <4>4, <5>1 DEF Stop
      <4>5. CASE MarkTerminal(w)
        <5>1. \A l \in {"BLOCKED", "FAILED"} :
                Good([life |-> l, active |-> NoJob, artifact |-> NoArtifact])
          OBVIOUS
        <5> QED  BY <4>5, <5>1 DEF MarkTerminal
      <4> QED  BY <2>4, <4>1, <4>2, <4>3, <4>4, <4>5 DEF RowStep
    <3> HIDE DEF Good
    <3> QED  BY <1>1, <2>0, <3>1, <3>2 DEF WriteRow
  <2> QED  BY <1>1, <2>1, <2>2, <2>3, <2>4, RowWriters
<1> QED  BY <1>2, <1>3 DEF ArtifactInv, ArtifactMatchesRun, Over

(* A row has an artifact just when it is COMPLETE: a new attempt withdraws the
   earlier one before it can publish, fail or be cancelled. *)
THEOREM ArtifactMatchesRunHolds == Spec => []ArtifactMatchesRun
<1>1. Init => ClaimInv /\ ArtifactInv
  BY RenderConstants DEF Init, ClaimInv, ArtifactInv, ArtifactMatchesRun, SingleOwner, Current,
                         NoRow, NoArtifact, Claimed
<1>2. TypeOK /\ ClaimInv /\ ArtifactInv /\ [Next]_vars => ClaimInv' /\ ArtifactInv'
  BY ClaimStep, ArtifactStep
<1>3. ArtifactInv => ArtifactMatchesRun
  BY DEF ArtifactInv
<1> QED  BY <1>1, <1>2, <1>3, TypeCorrect, PTL DEF Spec

-----------------------------------------------------------------------------
(* Only Publish puts an artifact into a row, and it makes the row COMPLETE. *)
LEMMA OnlyPublish ==
  ASSUME TypeOK, [Next]_vars, NEW i \in Inputs,
         \/ rows'[i].artifact # rows[i].artifact /\ rows'[i].artifact # NoArtifact
         \/ rows'[i].life = "COMPLETE" /\ rows[i].life # "COMPLETE"
  PROVE  \E w \in Workers : /\ Publish(w) /\ i = target[wjob[w]] /\ wjob[w] \in Jobs
                           /\ rows'[i].artifact = MyArtifact(w)
<1> USE RenderConstants
<1> DEFINE Types == /\ rows \in [Inputs -> Rows]
                    /\ \A c \in Clients : cpc[c] # "idle" => cinput[c] \in Inputs
                    /\ \A w \in Workers : wpc[w] # "idle" =>
                         wjob[w] \in Jobs /\ target[wjob[w]] \in Inputs
           Same(r, s) == /\ s.artifact \in {r.artifact, NoArtifact}
                         /\ s.life = "COMPLETE" => r.life = "COMPLETE"
<1>0. Types  BY DEF TypeOK, RowsOK, JobsOK, ClientsOK, WorkersOK
<1>1. ~Same(rows[i], rows'[i])
  OBVIOUS
<1>2. ASSUME NEW c \in Clients, QueueEnvelope(c) \/ QueueClear(c) \/ QueueClaim(c)
      PROVE  Same(rows[i], rows'[i])
  <2>1. cinput[c] \in Inputs  BY <1>0, <1>2 DEF QueueEnvelope, QueueClear, QueueClaim
  <2>2. \/ UNCHANGED rows
        \/ \E x : rows' = [rows EXCEPT ![cinput[c]].active = x]
        \/ rows' = [rows EXCEPT ![cinput[c]].life = "QUEUED"]
    BY <1>2 DEF QueueEnvelope, QueueClear, QueueClaim
  <2>3. CASE UNCHANGED rows  BY <2>3
  <2>4. ASSUME NEW x, rows' = [rows EXCEPT ![cinput[c]].active = x] PROVE Same(rows[i], rows'[i])
    BY <1>0, <2>1, <2>4 DEF Rows
  <2>5. CASE rows' = [rows EXCEPT ![cinput[c]].life = "QUEUED"]
    BY <1>0, <2>1, <2>5 DEF Rows
  <2> QED  BY <2>2, <2>3, <2>4, <2>5
<1>3. ASSUME NEW w \in Workers, Take(w) PROVE Same(rows[i], rows'[i])
  <2>1. PICK j \in Jobs : Deliver(w, j)  BY <1>3 DEF Take
  <2>2. UNCHANGED rows \/ rows' = [rows EXCEPT ![target[j]] = CancelledRow]
    BY <2>1 DEF Deliver, rowVars
  <2> QED  BY <1>0, <2>2 DEF CancelledRow
<1>4. ASSUME NEW w \in Workers, RowStep(w), ~Publish(w) PROVE Same(rows[i], rows'[i])
  <2>1. target[wjob[w]] \in Inputs /\ MyRow(w) = rows[target[wjob[w]]] /\ MyRow(w) \in Rows
    BY <1>0, <1>4 DEF RowStep, BeginAttempt, SetQcRunning, Stop, MarkTerminal, MyRow
  <2>2. UNCHANGED rows \/ \E s : Same(MyRow(w), s) /\ WriteRow(w, s)
    <3>1. CASE BeginAttempt(w)
      <4>1. Same(MyRow(w), [MyRow(w) EXCEPT !.life = "RENDERING", !.artifact = NoArtifact])
        BY <2>1 DEF Rows
      <4> QED  BY <3>1, <4>1 DEF BeginAttempt
    <3>2. CASE SetQcRunning(w)
      <4>1. Same(MyRow(w), [MyRow(w) EXCEPT !.life = "QC_RUNNING"])  BY <2>1 DEF Rows
      <4> QED  BY <3>2, <4>1 DEF SetQcRunning
    <3>3. CASE Stop(w)
      <4>1. Same(MyRow(w), CancelledRow)  BY DEF CancelledRow
      <4> QED  BY <3>3, <4>1 DEF Stop
    <3>4. CASE MarkTerminal(w)
      <4>1. \A l \in {"BLOCKED", "FAILED"} :
              Same(MyRow(w), [life |-> l, active |-> NoJob, artifact |-> NoArtifact])
        OBVIOUS
      <4> QED  BY <3>4, <4>1 DEF MarkTerminal
    <3> QED  BY <1>4, <3>1, <3>2, <3>3, <3>4 DEF RowStep
  <2> HIDE DEF Same
  <2>3. \/ UNCHANGED rows
        \/ \E s : Same(MyRow(w), s) /\ rows' = [rows EXCEPT ![target[wjob[w]]] = s]
    BY <2>2 DEF WriteRow
  <2>4. Same(rows[i], rows[i])  BY DEF Same
  <2> QED  BY <1>0, <2>1, <2>3, <2>4
<1>5. PICK w \in Workers : Publish(w)
  <2>1. Same(rows[i], rows[i])  OBVIOUS
  <2> QED  BY <1>1, <1>2, <1>3, <1>4, <2>1, RowWriters
<1>6. wjob[w] \in Jobs /\ target[wjob[w]] \in Inputs
  BY <1>0, <1>5 DEF Publish
<1>7. rows' = [rows EXCEPT ![target[wjob[w]]] =
                 [life |-> "COMPLETE", active |-> NoJob, artifact |-> MyArtifact(w)]]
  BY <1>5 DEF Publish, WriteRow
<1>8. i = target[wjob[w]]
  BY <1>0, <1>1, <1>6, <1>7
<1> QED  BY <1>0, <1>5, <1>6, <1>7, <1>8

(* An attempt is published by the owner of a RUNNING job bound to the row, in the
   step that ends the job. *)
THEOREM PublicationIsFencedHolds == Spec => PublicationIsFenced
<1> DEFINE Fenced(i) ==
      rows'[i].artifact # rows[i].artifact /\ rows'[i].artifact # NoArtifact
         => LET j == rows'[i].artifact.job IN
              /\ rows[i].active = j /\ rows'[i].artifact.claim = version[j]
              /\ status[j] = "RUNNING" /\ status'[j] = "SUCCEEDED"
<1>1. TypeOK /\ [Next]_vars => [\A i \in Inputs : Fenced(i)]_vars
  <2> SUFFICES ASSUME TypeOK, [Next]_vars, NEW i \in Inputs,
                      rows'[i].artifact # rows[i].artifact, rows'[i].artifact # NoArtifact
               PROVE  LET j == rows'[i].artifact.job IN
                        /\ rows[i].active = j /\ rows'[i].artifact.claim = version[j]
                        /\ status[j] = "RUNNING" /\ status'[j] = "SUCCEEDED"
    OBVIOUS
  <2>1. PICK w \in Workers : /\ Publish(w) /\ i = target[wjob[w]] /\ wjob[w] \in Jobs
                             /\ rows'[i].artifact = MyArtifact(w)
    BY OnlyPublish
  <2>2. /\ rows'[i].artifact.job = wjob[w] /\ rows'[i].artifact.claim = token[w]
    BY <2>1 DEF MyArtifact
  <2>3. /\ rows[i].active = wjob[w] /\ version[wjob[w]] = token[w] /\ status[wjob[w]] = "RUNNING"
        /\ status' = [status EXCEPT ![wjob[w]] = "SUCCEEDED"]
    BY <2>1 DEF Publish, Fence, Owns, Current, MyRow, FinishJob
  <2> QED  BY <2>1, <2>2, <2>3 DEF TypeOK, JobsOK
<1> QED  BY <1>1, TypeCorrect, PTL DEF Spec, PublicationIsFenced

(* A publication holds the row locks from its rebuild on, and what it compared is
   still so. *)
LockInv ==
    \A w \in Workers :
        /\ wpc[w] \in {"rebuild", "owner", "commit"} => lock = w
        /\ wpc[w] \in {"owner", "commit"} => live = target[wjob[w]]

(* What a rebuild reads is in the rows that the publication locks. *)
LockedEdits == "looseEdit" \notin Faults

LEMMA LockStep ==
  ASSUME LockedEdits, TypeOK, LockInv, [Next]_vars
  PROVE  LockInv'
<1> SUFFICES ASSUME NEW w \in Workers, wpc'[w] \in {"rebuild", "owner", "commit"}
             PROVE  /\ lock' = w
                    /\ wpc'[w] \in {"owner", "commit"} => live' = target'[wjob'[w]]
  BY DEF LockInv
<1> USE RenderConstants DEF vars, jobVars, rowVars, upstream, workerVars, clientVars, outside
<1> DEFINE Types == wpc \in [Workers -> WorkerPC]
<1>0. Types  BY DEF TypeOK, WorkersOK
<1>1. CASE UNCHANGED <<wpc[w], wjob[w], token[w]>>
  <2>1. lock = w /\ (wpc[w] \in {"owner", "commit"} => live = target[wjob[w]])
    BY <1>1 DEF LockInv
  <2>2. target'[wjob[w]] = target[wjob[w]]
    BY <1>1, JobsKept DEF TypeOK, WorkersOK
  <2>3. UNCHANGED live /\ (UNCHANGED lock \/ lock' = w)
    <3>1. ASSUME NEW c \in Clients, QueueRequest(c) \/ QueueEnvelopeRaced(c) \/ Client(c)
          PROVE  UNCHANGED upstream
      BY <3>1 DEF Client, QueueRequest, QueueEnvelope, QueueEnvelopeRaced, QueueActive, QueueClear,
                  QueueCached, QueueClaim, QueueSend, QueueSendFails, QueueMark
    <3>2. ASSUME NEW v \in Workers, Worker(v)
          PROVE  UNCHANGED live /\ (UNCHANGED lock \/ lock = v \/ lock = Nobody)
      BY <3>2 DEF Worker, ClaimJob, ClaimLost, FinishCached, Build, Skip, Admit, NotAdmitted, Retry,
         BeginAttempt, Encode, SetQcRunning, LockUpstream, Rebuild, RecheckOwner, Publish,
         PublishRolledBack, Stop, MarkTerminal, Finish, Ack, Rollback
    <3>3. ASSUME Worker(w) PROVE UNCHANGED <<live, lock>>
      <4>1. wpc[w] \in {"rebuild", "owner", "commit"} /\ wpc'[w] = wpc[w]  BY <1>1
      <4>2. ~Publish(w) /\ ~PublishRolledBack(w) /\ ~Skip(w) /\ ~Rebuild(w) /\ ~RecheckOwner(w)
        BY <1>0, <4>1 DEF Publish, PublishRolledBack, Skip, Rebuild, RecheckOwner, Ack, Goto
      <4> QED  BY <3>3, <4>1, <4>2 DEF Worker, ClaimJob, ClaimLost, FinishCached, Build, Admit,
                  NotAdmitted, Retry, BeginAttempt, Encode, SetQcRunning, LockUpstream, Stop,
                  MarkTerminal, Finish
    <3>4. ASSUME NEW v \in Workers, Take(v) \/ Broken(v)
          PROVE  UNCHANGED live /\ (UNCHANGED lock \/ (Ack(v) /\ lock = v))
      BY <3>4 DEF Take, Deliver, Broken, Heartbeat, Crash, Redeliver, Sever, Ack
    <3>5. ASSUME Ack(w) PROVE FALSE
      BY <1>0, <1>1, <3>5 DEF Ack, Goto
    <3>6. ASSUME NEW j \in Jobs, Outside(j) PROVE UNCHANGED upstream
      BY <3>6 DEF Outside, CancelRead, CancelWrite, GoStale
    <3>7. ~EditUpstream
      BY <2>1, RenderConstants DEF EditUpstream, LockedEdits
    <3> QED  BY <2>1, <3>1, <3>2, <3>3, <3>4, <3>5, <3>6, <3>7 DEF Next
  <2> QED  BY <1>1, <2>1, <2>2, <2>3
<1>2. CASE Worker(w) /\ wpc[w] \in Claimed /\ UNCHANGED <<wjob[w], token[w]>>
  <2>1. target'[wjob[w]] = target[wjob[w]]
    BY <1>2, JobsKept DEF TypeOK, WorkersOK, Claimed
  <2>2. \/ LockUpstream(w) \/ Rebuild(w) \/ RecheckOwner(w)
    <3>1. \/ LockUpstream(w) \/ Rebuild(w) \/ RecheckOwner(w)
          \/ wpc' = [wpc EXCEPT ![w] = "claimed"]
          \/ Ack(w)
          \/ \E label \in {"admit", "begin", "encode", "qcStart", "qc", "lock", "stop", "block",
                            "fail", "finish", "retry"} : Goto(w, label)
      BY <1>2 DEF Worker, ClaimJob, ClaimLost, FinishCached, Build, Skip, Admit, NotAdmitted, Retry,
         BeginAttempt, Encode, SetQcRunning, Publish, PublishRolledBack, Stop, MarkTerminal, Finish,
         Goto
    <3> QED  BY <1>0, <3>1 DEF Ack, Goto
  <2>3. CASE LockUpstream(w)  BY <1>0, <2>3 DEF LockUpstream, Goto
  <2>4. CASE Rebuild(w)
    BY <1>0, <1>2, <2>1, <2>4 DEF Rebuild, Goto, LockInv
  <2>5. CASE RecheckOwner(w)
    BY <1>0, <1>2, <2>1, <2>5 DEF RecheckOwner, Goto, LockInv
  <2> QED  BY <2>2, <2>3, <2>4, <2>5
<1> QED  BY <1>1, <1>2, DeliveryStep

(* What is published is what the upstream rows describe at that moment, if those
   are the locked ones: they are compared under the locks that their writers need. *)
THEOREM PublishedInputIsLiveHolds == ASSUME LockedEdits PROVE Spec => PublishedInputIsLive
<1>1. Init => LockInv
  BY DEF Init, LockInv
<1>2. TypeOK /\ LockInv /\ [Next]_vars => LockInv'
  BY LockStep
<1>3. TypeOK /\ LockInv /\ [Next]_vars
        => [\A i \in Inputs : rows'[i].life = "COMPLETE" /\ rows[i].life # "COMPLETE"
              => live = i /\ live' = i]_vars
  <2> SUFFICES ASSUME TypeOK, LockInv, [Next]_vars, NEW i \in Inputs,
                      rows'[i].life = "COMPLETE", rows[i].life # "COMPLETE"
               PROVE  live = i /\ live' = i
    OBVIOUS
  <2>1. PICK w \in Workers : Publish(w) /\ i = target[wjob[w]]  BY OnlyPublish
  <2> QED  BY <2>1 DEF Publish, LockInv
<1> QED  BY <1>1, <1>2, <1>3, TypeCorrect, PTL DEF Spec, PublishedInputIsLive

-----------------------------------------------------------------------------
(* How rows and jobs are bound to each other, and what a request knows of it:
   a row is bound to a job of its own that exists and has not FAILED, and a
   request clears the claim of a job it has seen to be over. *)
RowBound ==
    \A i \in Inputs :
        /\ rows[i].life = "none" => rows[i].active = NoJob
        /\ rows[i].active # NoJob =>
             target[rows[i].active] = i /\ status[rows[i].active] \notin {"none", "FAILED"}

RequestInv ==
    \A c \in Clients :
        /\ IF cpc[c] \in {"idle", "envelope"} THEN seen[c] = NoJob
                                              ELSE rows[cinput[c]].life # "none"
        /\ seen[c] # NoJob => target[seen[c]] = cinput[c] /\ status[seen[c]] # "none"
        /\ cpc[c] = "clear" =>
             /\ seen[c] # NoJob
             /\ rows[cinput[c]].active = seen[c] => status[seen[c]] \notin Active

(* A delivery that is to write FAILED into its job has released its row. *)
FinishInv ==
    \A w \in Workers : wpc[w] = "finish" => MyRow(w).active # wjob[w]

BindInv == RowBound /\ RequestInv /\ FinishInv

(* No row that exists disappears, and no job; and only Finish writes FAILED. *)
LEMMA RowsStay ==
  ASSUME TypeOK, [Next]_vars, NEW i \in Inputs, rows[i].life # "none"
  PROVE  rows'[i].life # "none"
<1> USE RenderConstants
<1> DEFINE Types == /\ rows \in [Inputs -> Rows]
                    /\ \A c \in Clients : cpc[c] # "idle" => cinput[c] \in Inputs
<1>0. Types  BY DEF TypeOK, RowsOK, ClientsOK
<1>1. ASSUME NEW c \in Clients, QueueEnvelope(c) \/ QueueClear(c) \/ QueueClaim(c)
      PROVE  rows'[i].life # "none"
  <2>1. cinput[c] \in Inputs  BY <1>0, <1>1 DEF QueueEnvelope, QueueClear, QueueClaim
  <2>2. \/ UNCHANGED rows
        \/ \E x : rows' = [rows EXCEPT ![cinput[c]].active = x]
        \/ rows' = [rows EXCEPT ![cinput[c]].life = "QUEUED"]
    BY <1>1 DEF QueueEnvelope, QueueClear, QueueClaim
  <2>3. CASE UNCHANGED rows  BY <2>3
  <2>4. ASSUME NEW x, rows' = [rows EXCEPT ![cinput[c]].active = x] PROVE rows'[i].life # "none"
    BY <1>0, <2>1, <2>4 DEF Rows
  <2>5. CASE rows' = [rows EXCEPT ![cinput[c]].life = "QUEUED"]
    BY <1>0, <2>1, <2>5 DEF Rows
  <2> QED  BY <2>2, <2>3, <2>4, <2>5
<1>2. ASSUME NEW w \in Workers, Take(w) PROVE rows'[i].life # "none"
  <2>1. PICK j \in Jobs : Deliver(w, j)  BY <1>2 DEF Take
  <2>2. UNCHANGED rows \/ rows' = [rows EXCEPT ![target[j]] = CancelledRow]
    BY <2>1 DEF Deliver, rowVars
  <2> QED  BY <1>0, <2>2 DEF CancelledRow
<1>3. ASSUME NEW w \in Workers, RowStep(w) PROVE rows'[i].life # "none"
  <2>1. \/ UNCHANGED rows
        \/ \E r : r.life # "none" /\ rows' = [rows EXCEPT ![target[wjob[w]]] = r]
    <3>1. wjob[w] \in Jobs /\ target[wjob[w]] \in Inputs
      BY <1>3 DEF RowStep, BeginAttempt, SetQcRunning, Publish, Stop, MarkTerminal, TypeOK,
                  WorkersOK, JobsOK
    <3>2. MyRow(w) \in Rows  BY <1>0, <3>1 DEF MyRow
    <3>3. [MyRow(w) EXCEPT !.life = "RENDERING", !.artifact = NoArtifact].life = "RENDERING"
      BY <3>2 DEF Rows
    <3>4. [MyRow(w) EXCEPT !.life = "QC_RUNNING"].life = "QC_RUNNING"  BY <3>2 DEF Rows
    <3>5. CASE BeginAttempt(w)  BY <3>3, <3>5 DEF BeginAttempt, WriteRow
    <3>6. CASE SetQcRunning(w)  BY <3>4, <3>6 DEF SetQcRunning, WriteRow
    <3>7. CASE Publish(w)  BY <3>7 DEF Publish, WriteRow
    <3>8. CASE Stop(w)  BY <3>8 DEF Stop, WriteRow, CancelledRow
    <3>9. CASE MarkTerminal(w)  BY <3>9 DEF MarkTerminal, WriteRow
    <3> QED  BY <1>3, <3>5, <3>6, <3>7, <3>8, <3>9 DEF RowStep
  <2> QED  BY <1>0, <2>1
<1> QED  BY <1>1, <1>2, <1>3, RowWriters

LEMMA StatusStep ==
  ASSUME TypeOK, [Next]_vars, NEW j \in Jobs
  PROVE  /\ status[j] # "none" => status'[j] # "none"
         /\ status[j] # "FAILED" /\ status'[j] = "FAILED" =>
              \E w \in Workers : wpc[w] = "finish" /\ wjob[w] = j
<1> USE DEF TypeOK, JobsOK, vars, jobVars, rowVars, upstream, workerVars, clientVars, outside
<1>1. ASSUME NEW c \in Clients, QueueRequest(c) \/ QueueEnvelopeRaced(c) \/ Client(c)
      PROVE  status' = status \/ \E k \in Jobs : status' = [status EXCEPT ![k] = "QUEUED"]
  BY <1>1 DEF Client, QueueRequest, QueueEnvelope, QueueEnvelopeRaced, QueueActive, QueueClear,
              QueueCached, QueueClaim, QueueSend, QueueSendFails, QueueMark
<1>2. ASSUME NEW w \in Workers, Worker(w)
      PROVE  \/ UNCHANGED status
             \/ \E s \in {"RUNNING", "SUCCEEDED", "QUEUED"} :
                  status' = [status EXCEPT ![wjob[w]] = s]
             \/ wpc[w] = "finish" /\ status' = [status EXCEPT ![wjob[w]] = "FAILED"]
  BY <1>2 DEF Worker, ClaimJob, ClaimLost, FinishCached, Build, Skip, Admit,
              NotAdmitted, Retry, BeginAttempt, Encode, SetQcRunning, LockUpstream, Rebuild,
              RecheckOwner, Publish, PublishRolledBack, Stop, MarkTerminal, Finish, FinishJob
<1>3. ASSUME NEW w \in Workers, Take(w) \/ Broken(w) PROVE UNCHANGED status
  BY <1>3 DEF Take, Deliver, Broken, Heartbeat, Crash, Redeliver, Sever
<1>4. ASSUME NEW k \in Jobs, Outside(k)
      PROVE  UNCHANGED status \/ status' = [status EXCEPT ![k] = "CANCELLED"]
  BY <1>4 DEF Outside, CancelRead, CancelWrite, GoStale
<1>5. EditUpstream => UNCHANGED status
  BY DEF EditUpstream
<1> QED  BY <1>1, <1>2, <1>3, <1>4, <1>5 DEF Next

LEMMA BindStep ==
  ASSUME TypeOK, BindInv, [Next]_vars
  PROVE  BindInv'
<1> USE RenderConstants DEF BindInv
<1> DEFINE Types == /\ rows \in [Inputs -> Rows]
                    /\ status \in [Jobs -> JobStatus]
                    /\ seen \in [Clients -> Jobs \union {NoJob}]
                    /\ cpc \in [Clients -> ClientPC]
                    /\ cinput \in [Clients -> Inputs \union {NoInput}]
                    /\ \A c \in Clients : cpc[c] # "idle" => cinput[c] \in Inputs
                    /\ wpc \in [Workers -> WorkerPC]
                    /\ \A w \in Workers : wpc[w] # "idle" =>
                         wjob[w] \in Jobs /\ target[wjob[w]] \in Inputs /\ status[wjob[w]] # "none"
<1>0. Types  BY DEF TypeOK, RowsOK, JobsOK, ClientsOK, WorkersOK
(* A binding that is seen after the step was there before it. *)
<1>1. ASSUME NEW i \in Inputs, NEW j \in Jobs, rows'[i].active = j, status[j] # "none"
      PROVE  /\ rows[i].active = j /\ target[j] = i /\ target'[j] = i
             /\ status'[j] \notin {"none", "FAILED"}
             /\ status[j] \notin Active => status'[j] \notin Active
  <2>1. rows[i].active = j  BY <1>1, RowShape
  <2>2. target[j] = i /\ target'[j] = i /\ status[j] # "FAILED"
    BY <1>1, <2>1, JobsKept DEF RowBound
  <2>3. ~\E w \in Workers : wpc[w] = "finish" /\ wjob[w] = j
    BY <2>1, <2>2 DEF FinishInv, MyRow
  <2>4. status'[j] \notin {"none", "FAILED"}
    BY <1>1, <2>2, <2>3, StatusStep
  <2>5. status[j] \notin Active => status'[j] \notin Active
    BY <1>0, <1>1, <2>2, OverStays DEF Over, Active, JobStatus
  <2> QED  BY <2>1, <2>2, <2>4, <2>5
<1>2. RowBound'
  <2> SUFFICES ASSUME NEW i \in Inputs
               PROVE  /\ rows'[i].life = "none" => rows'[i].active = NoJob
                      /\ rows'[i].active # NoJob =>
                           /\ target'[rows'[i].active] = i
                           /\ status'[rows'[i].active] \notin {"none", "FAILED"}
    BY DEF RowBound
  <2>1. CASE rows'[i].active \in {rows[i].active, NoJob}
    <3>1. rows'[i].life = "none" => rows'[i].active = NoJob
      BY <2>1, RowsStay DEF RowBound
    <3>2. rows[i].active \in Jobs \union {NoJob}  BY <1>0 DEF Rows
    <3> QED  BY <1>1, <2>1, <3>1, <3>2 DEF RowBound
  <2>2. CASE rows'[i].active \notin {rows[i].active, NoJob}
    <3>1. rows'[i].active \in Jobs /\ status[rows'[i].active] = "none"  BY <2>2, RowShape
    <3>2. PICK c \in Clients : QueueClaim(c)
      BY <2>2, RowShape
    <3>3. PICK j \in Jobs : /\ status' = [status EXCEPT ![j] = "QUEUED"]
                            /\ target' = [target EXCEPT ![j] = cinput[c]]
                            /\ rows' = [rows EXCEPT ![cinput[c]].active = j]
                            /\ cpc[c] = "claim"
      BY <2>2, <3>2 DEF QueueClaim
    <3>4. i = cinput[c] /\ rows'[i].active = j /\ rows'[i].life = rows[i].life
      BY <1>0, <2>2, <3>3 DEF Rows
    <3>5. rows[i].life # "none"  BY <3>3, <3>4 DEF RequestInv
    <3> QED  BY <1>0, <3>3, <3>4, <3>5 DEF TypeOK, JobsOK
  <2> QED  BY <2>1, <2>2
<1>3. RequestInv'
  <2> SUFFICES ASSUME NEW c \in Clients
               PROVE  /\ IF cpc'[c] \in {"idle", "envelope"} THEN seen'[c] = NoJob
                         ELSE rows'[cinput'[c]].life # "none"
                      /\ seen'[c] # NoJob =>
                           target'[seen'[c]] = cinput'[c] /\ status'[seen'[c]] # "none"
                      /\ cpc'[c] = "clear" =>
                           /\ seen'[c] # NoJob
                           /\ rows'[cinput'[c]].active = seen'[c] => status'[seen'[c]] \notin Active
    BY DEF RequestInv
  <2> USE DEF vars, jobVars, rowVars, upstream, workerVars, clientVars, outside
  <2>1. ASSUME cinput[c] \in Inputs
        PROVE  /\ rows[cinput[c]].life # "none" => rows'[cinput[c]].life # "none"
               /\ seen[c] # NoJob => target'[seen[c]] = cinput[c] /\ status'[seen[c]] # "none"
               /\ cpc[c] = "clear" /\ rows'[cinput[c]].active = seen[c]
                    => status'[seen[c]] \notin Active
    <3>1. seen[c] # NoJob => target'[seen[c]] = cinput[c] /\ status'[seen[c]] # "none"
      BY <1>0, JobsKept, StatusStep DEF RequestInv
    <3>2. cpc[c] = "clear" /\ rows'[cinput[c]].active = seen[c] => status'[seen[c]] \notin Active
      BY <1>0, <1>1, <2>1 DEF RequestInv
    <3> QED  BY <2>1, <3>1, <3>2, RowsStay
  <2>2. CASE UNCHANGED <<cpc[c], cinput[c], seen[c]>>
    <3>1. CASE cpc[c] # "idle"  BY <1>0, <2>1, <2>2, <3>1 DEF RequestInv
    <3>2. CASE cpc[c] = "idle"
      BY <1>0, <2>2, <3>2, JobsKept, StatusStep DEF RequestInv
    <3> QED  BY <3>1, <3>2
  <2>3. CASE QueueRequest(c) \/ QueueEnvelopeRaced(c) \/ Client(c)
    <3>1. CASE Return(c)
      BY <1>0, <3>1 DEF Return
    <3>2. CASE QueueRequest(c)
      BY <1>0, <3>2 DEF QueueRequest, RequestInv
    <3>3. CASE ~Return(c) /\ ~QueueRequest(c)
      <4>1. cinput[c] \in Inputs /\ cpc[c] # "idle" /\ UNCHANGED cinput
        BY <1>0, <2>3, <3>3 DEF Client, QueueEnvelope, QueueEnvelopeRaced, QueueActive,
                  QueueClear, QueueCached, QueueClaim, QueueSend, QueueSendFails, QueueMark
      <4>2. rows[cinput[c]].active # NoJob =>
              /\ target'[rows[cinput[c]].active] = cinput[c]
              /\ status'[rows[cinput[c]].active] # "none"
        <5>1. rows[cinput[c]].active \in Jobs \union {NoJob}  BY <1>0, <4>1 DEF Rows
        <5> QED  BY <4>1, <5>1, JobsKept, StatusStep DEF RowBound
      <4>3. rows'[cinput[c]].active # NoJob =>
              /\ target'[rows'[cinput[c]].active] = cinput[c]
              /\ status'[rows'[cinput[c]].active] # "none"
        BY <1>2, <4>1 DEF RowBound
      <4>4. CASE QueueEnvelope(c)
        <5>1. /\ cpc' = [cpc EXCEPT ![c] = "active"]
              /\ seen' = [seen EXCEPT ![c] = rows[cinput[c]].active]
              /\ rows'[cinput[c]].life # "none"
          BY <1>0, <4>1, <4>4 DEF QueueEnvelope, Rows
        <5> QED  BY <1>0, <4>1, <4>2, <5>1
      <4>5. CASE QueueEnvelopeRaced(c)
        <5>1. /\ cpc' = [cpc EXCEPT ![c] = "active"] /\ UNCHANGED rows
              /\ seen' = [seen EXCEPT ![c] = rows[cinput[c]].active]
              /\ rows[cinput[c]].life # "none"
          BY <3>3, <4>5 DEF QueueEnvelopeRaced
        <5> QED  BY <1>0, <4>1, <4>2, <5>1
      <4>6. CASE QueueActive(c)
        <5>1. cpc[c] = "active" /\ UNCHANGED <<jobVars, rowVars, seen>>
          BY <3>3, <4>6 DEF QueueActive
        <5>2. \/ cpc' = [cpc EXCEPT ![c] = "redispatch"]
              \/ /\ ActiveJobs(cinput[c]) = {}
                 /\ cpc' = [cpc EXCEPT ![c] = IF seen[c] = NoJob THEN "claim" ELSE "clear"]
          BY <3>3, <4>6 DEF QueueActive
        <5>3. ActiveJobs(cinput[c]) = {} /\ seen[c] # NoJob => status[seen[c]] \notin Active
          BY <1>0, <5>1 DEF ActiveJobs, RequestInv
        <5> QED  BY <1>0, <2>1, <4>1, <5>1, <5>2, <5>3 DEF RequestInv
      <4>7. CASE QueueClear(c)
        <5>1. /\ cpc[c] = "clear" /\ cpc' = [cpc EXCEPT ![c] = "active"]
              /\ seen' = [seen EXCEPT ![c] = rows'[cinput[c]].active]
          BY <4>7 DEF QueueClear
        <5> QED  BY <1>0, <2>1, <4>1, <4>3, <5>1 DEF RequestInv
      <4>8. CASE QueueClaim(c)
        <5>1. /\ cpc[c] = "claim"
              /\ \/ cpc' = [cpc EXCEPT ![c] = "dispatch"] /\ UNCHANGED seen
                 \/ /\ cpc' = [cpc EXCEPT ![c] = "active"]
                    /\ seen' = [seen EXCEPT ![c] = rows[cinput[c]].active]
          BY <4>8 DEF QueueClaim
        <5> QED  BY <1>0, <2>1, <4>1, <4>2, <5>1 DEF RequestInv
      <4>9. CASE QueueSend(c) \/ QueueSendFails(c) \/ QueueMark(c) \/ QueueCached(c)
        <5>1. cpc[c] = "dispatch" /\ cpc' = [cpc EXCEPT ![c] = "mark"] /\ UNCHANGED seen
          BY <3>3, <4>9 DEF QueueSend, QueueSendFails, QueueMark, QueueCached
        <5> QED  BY <1>0, <2>1, <4>1, <5>1 DEF RequestInv
      <4> QED  BY <2>3, <3>3, <4>4, <4>5, <4>6, <4>7, <4>8, <4>9 DEF Client
    <3> QED  BY <3>1, <3>2, <3>3
  <2>4. UNCHANGED <<cpc[c], cinput[c], seen[c]>> \/ QueueRequest(c) \/ QueueEnvelopeRaced(c) \/ Client(c)
    <3>1. ASSUME NEW d \in Clients \ {c}, QueueRequest(d) \/ QueueEnvelopeRaced(d) \/ Client(d)
          PROVE  UNCHANGED <<cpc[c], cinput[c], seen[c]>>
      BY <1>0, <3>1 DEF Client, QueueRequest, QueueEnvelope, QueueEnvelopeRaced, QueueActive,
                  QueueClear, QueueCached, QueueClaim, QueueSend, QueueSendFails, QueueMark, Return
    <3>2. ASSUME NEW w \in Workers, Worker(w) PROVE UNCHANGED clientVars
      BY <3>2 DEF Worker, ClaimJob, ClaimLost, FinishCached, Build, Skip, Admit, NotAdmitted, Retry,
         BeginAttempt, Encode, SetQcRunning, LockUpstream, Rebuild, RecheckOwner, Publish,
         PublishRolledBack, Stop, MarkTerminal, Finish
    <3>3. ASSUME NEW w \in Workers, Take(w) \/ Broken(w) PROVE UNCHANGED clientVars
      BY <3>3 DEF Take, Deliver, Broken, Heartbeat, Crash, Redeliver, Sever
    <3>4. ASSUME NEW k \in Jobs, Outside(k) PROVE UNCHANGED clientVars
      BY <3>4 DEF Outside, CancelRead, CancelWrite, GoStale
    <3>5. EditUpstream => UNCHANGED clientVars
      BY DEF EditUpstream
    <3> QED  BY <3>1, <3>2, <3>3, <3>4, <3>5 DEF Next
  <2> QED  BY <2>2, <2>3, <2>4
<1>4. FinishInv'
  <2> SUFFICES ASSUME NEW w \in Workers, wpc'[w] = "finish"
               PROVE  rows'[target'[wjob'[w]]].active # wjob'[w]
    BY DEF FinishInv, MyRow
  <2>1. CASE MarkTerminal(w)
    <3>1. /\ wpc[w] # "idle" /\ UNCHANGED <<wjob, target>>
          /\ \E l : WriteRow(w, [life |-> l, active |-> NoJob, artifact |-> NoArtifact])
      BY <1>0, <2>1 DEF MarkTerminal, Goto, Ack, jobVars
    <3> QED  BY <1>0, <3>1 DEF WriteRow
  <2>2. CASE ~MarkTerminal(w)
    <3>1. wpc[w] = "finish" /\ UNCHANGED wjob[w]
      <4>1. CASE Worker(w)
        <5>1. Ack(w) \/ \E label \in WorkerPC \ {"finish"} : Goto(w, label)
          BY <2>2, <4>1 DEF Worker, ClaimJob, ClaimLost, FinishCached, Build, Skip, Admit,
             NotAdmitted, Retry, BeginAttempt, Encode, SetQcRunning, LockUpstream, Rebuild,
             RecheckOwner, Publish, PublishRolledBack, Stop, Finish, WorkerPC, Claimed, Goto
        <5> QED  BY <1>0, <5>1 DEF Ack, Goto
      <4> QED  BY <4>1, DeliveryStep
    <3>2. target'[wjob[w]] = target[wjob[w]]  BY <1>0, <3>1, JobsKept
    <3>3. MyRow(w).active # wjob[w]  BY <3>1 DEF FinishInv
    <3> QED  BY <1>0, <1>1, <3>1, <3>2, <3>3 DEF MyRow
  <2> QED  BY <2>1, <2>2
<1> QED  BY <1>2, <1>3, <1>4

LEMMA BindInit == Init => BindInv
BY RenderConstants DEF Init, BindInv, RowBound, RequestInv, FinishInv, NoRow

(* While the job a row is bound to is active, only its owner writes the row. *)
THEOREM OwnerKeepsRowHolds == Spec => OwnerKeepsRow
<1> DEFINE Kept(i) ==
      rows[i].active # NoJob /\ rows'[i] # rows[i] =>
        LET j == rows[i].active IN
          \/ status[j] \notin Active
          \/ \E w \in Workers : wjob[w] = j /\ Owns(w) /\ wpc'[w] # wpc[w]
<1>1. TypeOK /\ BindInv /\ [Next]_vars => [\A i \in Inputs : Kept(i)]_vars
  <2> SUFFICES ASSUME TypeOK, BindInv, [Next]_vars, NEW i \in Inputs,
                      rows[i].active # NoJob, rows'[i] # rows[i]
               PROVE  \/ status[rows[i].active] \notin Active
                      \/ \E w \in Workers : /\ wjob[w] = rows[i].active /\ Owns(w)
                                            /\ wpc'[w] # wpc[w]
    OBVIOUS
  <2> DEFINE Types == /\ rows \in [Inputs -> Rows]
                      /\ \A c \in Clients : cpc[c] # "idle" => cinput[c] \in Inputs
                      /\ wpc \in [Workers -> WorkerPC]
                      /\ \A w \in Workers : wpc[w] # "idle" =>
                           wjob[w] \in Jobs /\ target[wjob[w]] \in Inputs
  <2>0. Types  BY DEF TypeOK, RowsOK, JobsOK, ClientsOK, WorkersOK
  <2>1. ASSUME NEW c \in Clients, QueueEnvelope(c) PROVE FALSE
    BY <2>0, <2>1 DEF QueueEnvelope, BindInv, RowBound
  <2>2. ASSUME NEW c \in Clients, QueueClear(c) PROVE status[rows[i].active] \notin Active
    BY <2>0, <2>2 DEF QueueClear, BindInv, RequestInv
  <2>3. ASSUME NEW c \in Clients, QueueClaim(c) PROVE FALSE
    <3>1. UNCHANGED rows \/ \E x : /\ rows' = [rows EXCEPT ![cinput[c]].active = x]
                                  /\ rows[cinput[c]].active = NoJob
      BY <2>3 DEF QueueClaim
    <3> QED  BY <2>0, <3>1
  <2>4. ASSUME NEW w \in Workers, Take(w) PROVE status[rows[i].active] \notin Active
    <3>1. PICK j \in Jobs : Deliver(w, j)  BY <2>4 DEF Take
    <3>2. status[j] = "CANCELLED" /\ rows[target[j]].active = j
          /\ rows' = [rows EXCEPT ![target[j]] = CancelledRow]
      BY <3>1 DEF Deliver, rowVars
    <3> QED  BY <2>0, <3>2 DEF Active
  <2>5. ASSUME NEW w \in Workers, RowStep(w)
        PROVE  \/ status[rows[i].active] \notin Active
               \/ wjob[w] = rows[i].active /\ Owns(w) /\ wpc'[w] # wpc[w]
    <3>1. target[wjob[w]] \in Inputs /\ \E r : WriteRow(w, r)
      BY <2>0, <2>5 DEF RowStep, BeginAttempt, SetQcRunning, Publish, Stop, MarkTerminal
    <3>2. i = target[wjob[w]]  BY <2>0, <3>1 DEF WriteRow
    <3>3. CASE Stop(w)
      <4>1. status[wjob[w]] = "CANCELLED" /\ rows[i].active = wjob[w]
        BY <3>2, <3>3 DEF Stop, Cancelled, MyRow
      <4> QED  BY <4>1 DEF Active
    <3>4. CASE BeginAttempt(w) \/ SetQcRunning(w) \/ Publish(w) \/ MarkTerminal(w)
      <4>1. Fence(w) /\ wpc'[w] # wpc[w]
        BY <2>0, <3>4 DEF BeginAttempt, SetQcRunning, Publish, MarkTerminal, Goto, Ack
      <4> QED  BY <3>2, <4>1 DEF Fence, MyRow
    <3> QED  BY <2>5, <3>3, <3>4 DEF RowStep
  <2> QED  BY <2>1, <2>2, <2>3, <2>4, <2>5, RowWriters
<1>2. TypeOK /\ BindInv /\ [Next]_vars => BindInv'
  BY BindStep
<1> QED  BY <1>1, <1>2, BindInit, TypeCorrect, PTL DEF Spec, OwnerKeepsRow

-----------------------------------------------------------------------------
(* The fenced job: what the steps do to the holders of a claim, to the jobs and
   to the completed rows. *)
HeldBy == [j \in Jobs |-> {w \in Workers : wjob[w] = j /\ Current(w)}]
Completed == {i \in Inputs : rows[i].life = "COMPLETE"}
Stands == UNCHANGED <<status, version, HeldBy, Completed>>

(* A delivery that stops counting on its claim. *)
Leaves(w) == Ack(w) \/ (Goto(w, "retry") /\ UNCHANGED <<wjob, token>>)

LEMMA WorkerKinds ==
  ASSUME NEW w \in Workers, Worker(w), ~ClaimJob(w)
  PROVE  /\ UNCHANGED version
         /\ \/ /\ Leaves(w)
               /\ \/ UNCHANGED status
                  \/ /\ Owns(w)
                     /\ \E as \in {"SUCCEEDED", "FAILED", "QUEUED"} :
                          status' = [status EXCEPT ![wjob[w]] = as]
            \/ /\ UNCHANGED <<status, wjob, token>> /\ wpc[w] \in Claimed
               /\ \E label \in Claimed : Goto(w, label)
<1> USE DEF jobVars
<1>1. CASE NotAdmitted(w)
  BY <1>1 DEF NotAdmitted, FinishJob, Leaves, Claimed
<1>2. CASE FinishCached(w)  BY <1>2 DEF FinishCached, FinishJob, Leaves
<1>3. CASE Publish(w)  BY <1>3 DEF Publish, FinishJob, Leaves
<1>4. CASE Finish(w)  BY <1>4 DEF Finish, FinishJob, Leaves
<1>5. CASE ClaimLost(w) \/ Skip(w) \/ Retry(w)  BY <1>5 DEF ClaimLost, Skip, Retry, Leaves
<1>6. CASE Stop(w) \/ MarkTerminal(w)  BY <1>6 DEF Stop, MarkTerminal, Leaves, Claimed
<1>7. CASE \/ Build(w) \/ Admit(w) \/ BeginAttempt(w) \/ Encode(w) \/ SetQcRunning(w)
           \/ LockUpstream(w) \/ Rebuild(w) \/ RecheckOwner(w) \/ PublishRolledBack(w)
  BY <1>7 DEF Build, Admit, BeginAttempt, Encode, SetQcRunning, LockUpstream, Rebuild,
       RecheckOwner, PublishRolledBack, Claimed
<1> QED  BY <1>1, <1>2, <1>3, <1>4, <1>5, <1>6, <1>7 DEF Worker

LEMMA LetsGo ==
  ASSUME TypeOK, NEW w \in Workers, Leaves(w), UNCHANGED version
  PROVE  HeldBy' = [j \in Jobs |-> HeldBy[j] \ {w}]
<1> USE DEF TypeOK, WorkersOK
<1>1. ~Current(w)'
  BY DEF Leaves, Ack, Goto, Current, Claimed
<1>2. \A v \in Workers \ {w}, j \in Jobs : wjob'[v] = wjob[v] /\ (Current(v)' <=> Current(v))
  BY DEF Leaves, Ack, Goto, Current
<1> QED  BY <1>1, <1>2 DEF HeldBy

LEMMA HoldsOn ==
  ASSUME TypeOK, NEW w \in Workers, wpc[w] \in Claimed, NEW label \in Claimed, Goto(w, label),
         UNCHANGED <<version, wjob, token>>
  PROVE  HeldBy' = HeldBy
<1>1. \A v \in Workers : wjob'[v] = wjob[v] /\ (Current(v)' <=> Current(v))
  BY DEF Goto, Current, TypeOK, WorkersOK
<1> QED  BY <1>1 DEF HeldBy

LEMMA SoleHolder ==
  ASSUME TypeOK, SingleOwner, NEW w \in Workers, Current(w)
  PROVE  /\ wjob[w] \in Jobs /\ HeldBy[wjob[w]] = {w}
         /\ \A j \in Jobs \ {wjob[w]} : w \notin HeldBy[j]
<1>1. wjob[w] \in Jobs
  BY DEF Current, Claimed, TypeOK, WorkersOK
<1> QED  BY <1>1 DEF SingleOwner, HeldBy

LEMMA Withdrawn ==
  ASSUME TypeOK, [Next]_vars, \A w \in Workers : ~Publish(w)
  PROVE  Completed' \subseteq Completed
BY OnlyPublish DEF Completed

LEMMA RefineClaim ==
  ASSUME TypeOK, ClaimInv, NEW w \in Workers, ClaimJob(w)
  PROVE  \E j \in Jobs : Job!Claim(w, j)
<1> USE DEF TypeOK, WorkersOK, JobsOK
<1>1. PICK i \in Jobs : i = wjob[w]
  BY DEF ClaimJob
<1>2. /\ status[i] \in {"QUEUED", "FAILED", "RUNNING"} /\ version[i] = token[w]
      /\ status' = [status EXCEPT ![i] = "RUNNING"]
      /\ version' = [version EXCEPT ![i] = @ + 1]
      /\ token' = [token EXCEPT ![w] = @ + 1]
      /\ wpc' = [wpc EXCEPT ![w] = "claimed"]
      /\ UNCHANGED <<rows, wjob>>
  BY <1>1 DEF ClaimJob, Claimable, Goto, rowVars
<1>3. ASSUME NEW v \in Workers \ {w}, wjob[v] = i PROVE ~Current(v)'
  <2>1. wpc[v] # "idle" => token[v] <= version[i]
    BY <1>3 DEF ClaimInv
  <2>2. version'[i] = version[i] + 1 /\ version[i] \in Nat /\ token[v] \in Nat
    BY <1>2
  <2>3. wpc'[v] = wpc[v] /\ token'[v] = token[v] /\ wjob'[v] = i
    BY <1>2, <1>3
  <2> QED  BY <2>1, <2>2, <2>3 DEF Current, Claimed
<1>4. Current(w)'
  BY <1>1, <1>2 DEF Current, Claimed
<1>5. \A v \in Workers \ {w} : wjob[v] # i => (Current(v)' <=> Current(v))
  BY <1>2 DEF Current, Claimed
<1>6. ASSUME NEW k \in Jobs PROVE HeldBy'[k] = IF k = i THEN {w} ELSE HeldBy[k]
  <2>1. HeldBy'[k] = {v \in Workers : wjob[v] = k /\ Current(v)'}
    BY <1>2 DEF HeldBy
  <2>2. HeldBy[k] = {v \in Workers : wjob[v] = k /\ Current(v)}
    BY DEF HeldBy
  <2> QED  BY <1>1, <1>3, <1>4, <1>5, <2>1, <2>2
<1>7. HeldBy' = [k \in Jobs |-> HeldBy'[k]] /\ HeldBy = [k \in Jobs |-> HeldBy[k]]
  BY DEF HeldBy
<1>8. HeldBy' = [HeldBy EXCEPT ![i] = {w}]
  BY <1>6, <1>7
<1>9. UNCHANGED Completed
  BY <1>2 DEF Completed
<1> QED  BY <1>2, <1>8, <1>9 DEF Job!Claim, HeldBy, Completed

LEMMA RefineWorker ==
  ASSUME TypeOK, ClaimInv, [Next]_vars, NEW w \in Workers, Worker(w), ~ClaimJob(w)
  PROVE  \/ \E j \in Jobs : Job!Conclude(w, j)
         \/ Job!Leave({}) \/ Job!Leave({w})
<1> USE DEF TypeOK, WorkersOK, JobsOK
<1>1. UNCHANGED version
  BY WorkerKinds
<1>2. CASE Leaves(w) /\ Owns(w)
  <2> DEFINE j == wjob[w]
  <2>1. j \in Jobs /\ HeldBy[j] = {w} /\ \A k \in Jobs \ {j} : w \notin HeldBy[k]
    BY <1>2, SoleHolder DEF Owns, ClaimInv
  <2>2. HeldBy' = [HeldBy EXCEPT ![j] = {}]
    <3>1. HeldBy' = [k \in Jobs |-> HeldBy[k] \ {w}]
      BY <1>1, <1>2, LetsGo
    <3>2. HeldBy = [k \in Jobs |-> HeldBy[k]]
      BY DEF HeldBy
    <3>3. \A k \in Jobs : HeldBy[k] \ {w} = IF k = j THEN {} ELSE HeldBy[k]
      BY <2>1
    <3> QED  BY <3>1, <3>2, <3>3
  <2>3. /\ w \in HeldBy[j] /\ status[j] = "RUNNING"
        /\ \/ UNCHANGED status
           \/ \E as \in Job!Outcomes : status' = [status EXCEPT ![j] = as]
    BY <1>2, <2>1, WorkerKinds DEF Owns, Job!Outcomes
  <2>4. \E r \in Inputs : Completed' \subseteq Completed \union {r}
    <3>1. target[j] \in Inputs
      BY <2>1, <2>3
    <3>2. CASE Publish(w)
      <4>1. rows' = [rows EXCEPT ![target[j]] =
                       [life |-> "COMPLETE", active |-> NoJob, artifact |-> MyArtifact(w)]]
        BY <3>2 DEF Publish, WriteRow
      <4>2. Completed' \subseteq Completed \union {target[j]}
        BY <4>1 DEF Completed, RowsOK
      <4> QED  BY <3>1, <4>2
    <3>3. CASE \A v \in Workers : ~Publish(v)
      BY <3>1, <3>3, Withdrawn
    <3>4. ASSUME NEW v \in Workers \ {w}, Publish(v) PROVE FALSE
      <4>1. wpc[w] \in Claimed /\ wpc'[w] = wpc[w]
        BY <1>2, <3>4 DEF Owns, Current, Publish, Ack, Goto
      <4>2. wpc'[w] \in {"idle", "retry"}
        BY <1>2 DEF Leaves, Ack, Goto
      <4> QED  BY <4>1, <4>2 DEF Claimed
    <3> QED  BY <3>2, <3>3, <3>4
  <2> QED  BY <1>1, <2>1, <2>2, <2>3, <2>4 DEF Job!Conclude, HeldBy, Completed
<1>3. CASE ~(Leaves(w) /\ Owns(w))
  <2>1. UNCHANGED status /\ ~Publish(w)
    BY <1>3, WorkerKinds DEF Publish, Fence, Leaves
  <2>2. Completed' \subseteq Completed
    <3>1. ASSUME NEW v \in Workers \ {w}, Publish(v) PROVE FALSE
      <4>1. v # w /\ wpc[v] = "commit" /\ wpc'[v] = "idle"
        BY <3>1 DEF Publish, Ack, Goto
      <4>2. wpc'[v] = wpc[v]
        BY <4>1, WorkerKinds DEF Leaves, Ack, Goto
      <4> QED  BY <4>1, <4>2
    <3> QED  BY <2>1, <3>1, Withdrawn
  <2>3. CASE Leaves(w)
    BY <1>1, <2>1, <2>2, <2>3, LetsGo DEF Job!Leave, Job!Withdraw, HeldBy, Completed
  <2>4. CASE ~Leaves(w)
    <3>1. HeldBy' = HeldBy
      BY <1>1, <2>4, WorkerKinds, HoldsOn
    <3>2. HeldBy' = [j \in Jobs |-> HeldBy[j] \ {}]
      BY <3>1 DEF HeldBy
    <3> QED  BY <1>1, <2>1, <2>2, <3>2 DEF Job!Leave, Job!Withdraw, HeldBy, Completed
  <2> QED  BY <2>3, <2>4
<1> QED  BY <1>2, <1>3

LEMMA RefineClient ==
  ASSUME TypeOK, [Next]_vars,
         NEW c \in Clients, QueueRequest(c) \/ QueueEnvelopeRaced(c) \/ Client(c)
  PROVE  (\E j \in Jobs : Job!Insert(j)) \/ Job!Leave({})
<1>1. UNCHANGED <<version, wpc, wjob, token>>
  BY DEF Client, QueueRequest, QueueEnvelope, QueueEnvelopeRaced, QueueActive, QueueClear,
         QueueCached, QueueClaim, QueueSend, QueueSendFails, QueueMark, jobVars, workerVars
<1>2. \/ UNCHANGED status
      \/ \E j \in Jobs : status[j] = "none" /\ status' = [status EXCEPT ![j] = "QUEUED"]
  BY DEF Client, QueueRequest, QueueEnvelope, QueueEnvelopeRaced, QueueActive, QueueClear,
         QueueCached, QueueClaim, QueueSend, QueueSendFails, QueueMark, NextJob, jobVars
<1>3. Completed' \subseteq Completed
  <2>1. ASSUME NEW w \in Workers, Publish(w) PROVE FALSE
    BY <1>1, <2>1 DEF Publish, Ack, Goto, TypeOK, WorkersOK
  <2> QED  BY <2>1, Withdrawn
<1>4. HeldBy' = HeldBy
  BY <1>1 DEF HeldBy, Current
<1>5. HeldBy' = [j \in Jobs |-> HeldBy[j] \ {}]
  BY <1>4 DEF HeldBy
<1> QED  BY <1>1, <1>2, <1>3, <1>4, <1>5 DEF Job!Insert, Job!Leave, Job!Withdraw, HeldBy, Completed

LEMMA RefineTake ==
  ASSUME TypeOK, [Next]_vars, NEW w \in Workers, Take(w)
  PROVE  Job!Leave({})
<1> USE DEF TypeOK, WorkersOK
<1>1. PICK j \in Jobs : Deliver(w, j)
  BY DEF Take
<1>2. UNCHANGED <<status, version>> /\ wpc[w] = "idle"
  BY <1>1 DEF Deliver, jobVars
<1>3. \/ UNCHANGED <<wpc, wjob, token>>
      \/ /\ wpc' = [wpc EXCEPT ![w] = "claim"] /\ wjob' = [wjob EXCEPT ![w] = j]
         /\ token' = [token EXCEPT ![w] = version[j]]
  BY <1>1 DEF Deliver, Goto, workerVars
<1>4. \A v \in Workers, i \in Jobs : (wjob[v] = i /\ Current(v))' <=> (wjob[v] = i /\ Current(v))
  BY <1>2, <1>3 DEF Current, Claimed
<1>5. HeldBy' = [i \in Jobs |-> HeldBy[i] \ {}]
  BY <1>4 DEF HeldBy
<1>6. Completed' \subseteq Completed
  <2>1. ASSUME NEW v \in Workers, Publish(v) PROVE FALSE
    BY <1>2, <1>3, <2>1 DEF Publish, Ack, Goto
  <2> QED  BY <2>1, Withdrawn
<1> QED  BY <1>2, <1>5, <1>6 DEF Job!Leave, Job!Withdraw, HeldBy, Completed

(* Rendering implements the fenced job, whatever crashes, stalls, is repeated,
   severed or cancelled: a row is completed, and a job ended, by the holder of
   the newest claim alone. *)
THEOREM ImplementsFencedJob == Spec => JobRefinement
<1>1. Init => Job!JobInit
  <2> SUFFICES ASSUME Init PROVE Job!JobInit
    OBVIOUS
  <2>1. HeldBy = [j \in Jobs |-> {}] /\ Completed = {}
    BY DEF Init, HeldBy, Completed, Current, Claimed, NoRow
  <2> QED  BY <2>1 DEF Init, Job!JobInit, HeldBy, Completed
<1>2. TypeOK /\ ClaimInv /\ [Next]_vars => [Job!JobNext]_(Job!jobVars)
  <2> SUFFICES ASSUME TypeOK, ClaimInv, [Next]_vars PROVE Job!JobNext \/ Stands
    BY DEF Job!jobVars, Stands, HeldBy, Completed
  <2>1. ASSUME NEW c \in Clients, QueueRequest(c) \/ QueueEnvelopeRaced(c) \/ Client(c)
        PROVE  Job!JobNext
    BY <2>1, RefineClient DEF Job!JobNext
  <2>2. ASSUME NEW w \in Workers, Take(w) PROVE Job!JobNext
    BY <2>2, RefineTake DEF Job!JobNext
  <2>3. ASSUME NEW w \in Workers, Worker(w) PROVE Job!JobNext
    BY <2>3, RefineClaim, RefineWorker DEF Job!JobNext
  <2>4. ASSUME NEW w \in Workers, Broken(w) PROVE Job!JobNext \/ Stands
    <3>1. CASE Heartbeat(w) \/ Redeliver(w) \/ Sever(w)
      BY <3>1 DEF Heartbeat, Redeliver, Sever, jobVars, rowVars, workerVars, Stands, HeldBy,
                  Completed, Current
    <3>2. CASE Crash(w)
      <4>1. HeldBy' = [j \in Jobs |-> HeldBy[j] \ {w}] /\ UNCHANGED <<status, version, Completed>>
        BY <3>2, LetsGo DEF Crash, Leaves, jobVars, rowVars, Completed
      <4>2. Job!Leave({w})
        BY <4>1 DEF Job!Leave, Job!Withdraw, HeldBy, Completed
      <4> QED  BY <4>2 DEF Job!JobNext
    <3> QED  BY <2>4, <3>1, <3>2 DEF Broken
  <2>5. ASSUME NEW j \in Jobs, Outside(j) PROVE Job!JobNext \/ Stands
    <3>1. CASE CancelRead(j) \/ GoStale(j)
      BY <3>1 DEF CancelRead, GoStale, jobVars, rowVars, workerVars, Stands, HeldBy, Completed,
                  Current
    <3>2. CASE CancelWrite(j)
      <4>1. UNCHANGED <<version, HeldBy, Completed>>
        BY <3>2 DEF CancelWrite, workerVars, rowVars, HeldBy, Completed, Current
      <4>2. /\ status[j] # "none"
            /\ status' = [i \in Jobs |-> IF i \in {j} THEN "CANCELLED" ELSE status[i]]
        BY <3>2 DEF CancelWrite, TypeOK, JobsOK
      <4>3. Job!Cancel({j})
        BY <4>1, <4>2 DEF Job!Cancel, Job!Withdraw, HeldBy, Completed
      <4> QED  BY <4>3 DEF Job!JobNext
    <3> QED  BY <2>5, <3>1, <3>2 DEF Outside
  <2>6. CASE EditUpstream
    BY <2>6 DEF EditUpstream, jobVars, rowVars, workerVars, Stands, HeldBy, Completed, Current
  <2>7. CASE UNCHANGED vars
    BY <2>7 DEF vars, jobVars, rowVars, workerVars, Stands, HeldBy, Completed, Current
  <2> QED  BY <2>1, <2>2, <2>3, <2>4, <2>5, <2>6, <2>7 DEF Next
<1>3. Init => ClaimInv
  BY RenderConstants DEF Init, ClaimInv, SingleOwner, Current, Claimed
<1>4. TypeOK /\ ClaimInv /\ [Next]_vars => ClaimInv'
  BY ClaimStep
<1> QED
  BY <1>1, <1>2, <1>3, <1>4, TypeCorrect, PTL DEF Spec, JobRefinement, Job!JobSpec
=============================================================================
