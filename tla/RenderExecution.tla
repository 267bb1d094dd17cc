-------------------------- MODULE RenderExecution --------------------------
(***************************************************************************)
(* Stage 5.2, backend/app/render/execution: queue.py finds or creates the  *)
(* execution row of a request's input fingerprint and binds one job to it, *)
(* executor.py claims the job, waits for the global encoder admission,     *)
(* encodes, checks and publishes, workers/tasks.py wraps it in a Celery    *)
(* task and api/app.py cancels.                                            *)
(*                                                                         *)
(* Inputs are the request fingerprints of one (candidate, purpose, profile *)
(* key): each has at most one row.  live is the fingerprint that a rebuild *)
(* from the upstream rows (contract, plans, refinement) gives now.  A step *)
(* is one transaction or one fresh read.                                   *)
(***************************************************************************)
EXTENDS Naturals, FiniteSets

CONSTANTS
    Inputs,         \* request fingerprints
    NJobs,          \* bound: jobs are numbered in order of creation
    Workers,        \* Celery deliveries that can run at the same time
    Clients,        \* requests that call queue_render_execution
    NoJob,          \* SQL NULL in active_job_id
    NoInput,        \* no row is current; the job does not exist
    Nobody,         \* a free admission or row lock
    Faults,         \* subset of FaultKinds
    MaxFaults,      \* bound: faults, cancellations and edits in one behaviour
    MaxClaims,      \* bound: a job claimed so often is not retried
    MaxMessages     \* bound: messages of one job in the broker

Jobs == 1..NJobs

(* "crash":     a worker process dies;
   "stall":     a live worker misses heartbeats for the whole stale window, or
                cannot write three in a row;
   "redeliver": the visibility timeout repeats an unacknowledged message;
   "sever":     the connection that holds the advisory lock is lost;
   "broker":    a send raises, and its message may or may not have left;
   "lostSend":  the request dies between its commit and its send;
   "cancel":    the API cancels an active job;
   "edit":      the upstream rows that a publication locks change;
   "looseEdit": an edit may also be of what a rebuild reads besides. *)
FaultKinds == {"crash", "stall", "redeliver", "sever", "broker", "lostSend", "cancel", "edit",
               "looseEdit"}

ASSUME RenderConstants ==
    /\ NJobs \in Nat /\ NoJob \notin Jobs
    /\ NoInput \notin Inputs
    /\ Nobody \notin Workers
    /\ Faults \subseteq FaultKinds
    /\ MaxFaults \in Nat /\ MaxClaims \in Nat /\ MaxMessages \in Nat

VARIABLES
    status,     \* [Jobs -> JobStatus], "none" while the row does not exist
    version,    \* [Jobs -> Nat], processing_jobs.claim_version
    stale,      \* jobs whose heartbeat_at is older than 120 s
    marked,     \* jobs whose error_code is RENDER_DISPATCH_FAILED
    target,     \* [Jobs -> Inputs \cup {NoInput}], render_execution_id
    rows,       \* [Inputs -> Rows], the table render_executions
    current,    \* the input whose row is_current, or NoInput
    live,       \* the fingerprint of the upstream rows as they are
    lock,       \* the delivery that holds the FOR UPDATE locks, or Nobody
    admission,  \* the delivery that holds the advisory lock, or Nobody
    inbox,      \* [Jobs -> Nat], messages waiting in the broker
    wpc,        \* [Workers -> WorkerPC] where each delivery stands
    wjob,       \* [Workers -> Jobs \cup {NoJob}], the job it was delivered
    token,      \* [Workers -> Nat], claim version: observed, then claimed
    lost,       \* deliveries whose ownership-lost latch is set
    hit,        \* deliveries that loaded their row COMPLETE
    cpc,        \* [Clients -> ClientPC] where each request stands
    cinput,     \* [Clients -> Inputs \cup {NoInput}], the input it computed
    seen,       \* [Clients -> Jobs \cup {NoJob}], active_job_id as it read it
    cjob,       \* [Clients -> Jobs \cup {NoJob}], the job it is to dispatch
    tries,      \* [Clients -> 0..2], turns of the queue loop
    cancelling, \* jobs whose status the API has read as active
    faults      \* faults so far

jobVars == <<status, version, stale, marked, target>>
rowVars == <<rows, current>>
upstream == <<live, lock>>
workerVars == <<wpc, wjob, token, lost, hit>>
clientVars == <<cpc, cinput, seen, cjob, tries>>
outside == <<cancelling, faults>>
vars == <<jobVars, rowVars, upstream, admission, inbox, workerVars, clientVars, outside>>

JobStatus == {"none", "QUEUED", "RUNNING", "SUCCEEDED", "FAILED", "CANCELLED"}
Active == {"QUEUED", "RUNNING"}
Lifecycle == {"QUEUED", "RENDERING", "QC_RUNNING", "COMPLETE", "BLOCKED", "FAILED", "CANCELLED"}
(* An artifact pointer names the attempt directory: job and claim version. *)
NoArtifact == [job |-> NoJob, claim |-> 0]
Artifacts == [job : Jobs \union {NoJob}, claim : Nat]
Rows == [life : Lifecycle \union {"none"}, active : Jobs \union {NoJob}, artifact : Artifacts]
NoRow == [life |-> "none", active |-> NoJob, artifact |-> NoArtifact]
Claimed == {"claimed", "admit", "begin", "encode", "qcStart", "qc", "lock", "rebuild", "owner",
            "commit", "stop", "block", "fail", "finish"}
WorkerPC == {"idle", "claim", "retry"} \union Claimed
ClientPC == {"idle", "envelope", "active", "clear", "claim", "dispatch", "redispatch", "mark"}

JobsOK ==
    /\ status \in [Jobs -> JobStatus]
    /\ version \in [Jobs -> Nat]
    /\ stale \subseteq Jobs /\ marked \subseteq Jobs /\ cancelling \subseteq Jobs
    /\ target \in [Jobs -> Inputs \union {NoInput}]
    /\ \A j \in Jobs : status[j] # "none" => target[j] \in Inputs
    /\ \A j \in cancelling : status[j] # "none"

RowsOK ==
    /\ rows \in [Inputs -> Rows]
    /\ current \in Inputs \union {NoInput}
    /\ live \in Inputs
    /\ lock \in Workers \union {Nobody} /\ admission \in Workers \union {Nobody}
    /\ faults \in Nat

BrokerOK ==
    /\ inbox \in [Jobs -> Nat]
    /\ \A j \in Jobs : inbox[j] > 0 => status[j] # "none"

WorkersOK ==
    /\ wpc \in [Workers -> WorkerPC]
    /\ wjob \in [Workers -> Jobs \union {NoJob}]
    /\ token \in [Workers -> Nat]
    /\ lost \subseteq Workers /\ hit \subseteq Workers
    /\ \A w \in Workers : wpc[w] # "idle" => wjob[w] \in Jobs /\ status[wjob[w]] # "none"

ClientsOK ==
    /\ cpc \in [Clients -> ClientPC]
    /\ cinput \in [Clients -> Inputs \union {NoInput}]
    /\ seen \in [Clients -> Jobs \union {NoJob}]
    /\ cjob \in [Clients -> Jobs \union {NoJob}]
    /\ tries \in [Clients -> 0..2]
    /\ \A c \in Clients : cpc[c] # "idle" => cinput[c] \in Inputs
    /\ \A c \in Clients : cpc[c] \in {"dispatch", "redispatch", "mark"}
           => cjob[c] \in Jobs /\ status[cjob[c]] # "none"

(* Every variable holds what the code can put there; a request or a delivery in
   progress knows its row and its job, and what it knows exists. *)
TypeOK == JobsOK /\ RowsOK /\ BrokerOK /\ WorkersOK /\ ClientsOK

Init ==
    /\ status = [j \in Jobs |-> "none"]
    /\ version = [j \in Jobs |-> 0]
    /\ stale = {} /\ marked = {} /\ cancelling = {}
    /\ target = [j \in Jobs |-> NoInput]
    /\ rows = [i \in Inputs |-> NoRow]
    /\ current = NoInput
    /\ live \in Inputs
    /\ lock = Nobody /\ admission = Nobody
    /\ inbox = [j \in Jobs |-> 0]
    /\ wpc = [w \in Workers |-> "idle"]
    /\ wjob = [w \in Workers |-> NoJob]
    /\ token = [w \in Workers |-> 0]
    /\ lost = {} /\ hit = {}
    /\ cpc = [c \in Clients |-> "idle"]
    /\ cinput = [c \in Clients |-> NoInput]
    /\ seen = [c \in Clients |-> NoJob]
    /\ cjob = [c \in Clients |-> NoJob]
    /\ tries = [c \in Clients |-> 0]
    /\ faults = 0

(* A fault that this instance admits and the bound leaves room for. *)
Fault(kind) == kind \in Faults /\ faults < MaxFaults /\ faults' = faults + 1

(* The writers of the candidate, contract, selection, selected plan, final
   refinement and visual plan block on the rows a publication has locked; those
   of the governance rows and of the files behind the contract's freshness, and of
   the materialization of a TRANSFORMED_SHORT, do not. *)
EditUpstream ==
    /\ Fault("edit")
    /\ lock = Nobody \/ "looseEdit" \in Faults
    /\ live' \in Inputs \ {live}
    /\ UNCHANGED <<jobVars, rowVars, lock, admission, inbox, workerVars, clientVars, cancelling>>

-----------------------------------------------------------------------------
(* queue_render_execution, called by API requests and by Stage 6. *)

Return(c) ==
    /\ cpc' = [cpc EXCEPT ![c] = "idle"]
    /\ cinput' = [cinput EXCEPT ![c] = NoInput]
    /\ seen' = [seen EXCEPT ![c] = NoJob]
    /\ cjob' = [cjob EXCEPT ![c] = NoJob]
    /\ tries' = [tries EXCEPT ![c] = 0]

Send(j) == inbox[j] < MaxMessages /\ inbox' = [inbox EXCEPT ![j] = @ + 1]

(* The prerequisites are validated and the request fingerprint is frozen. *)
QueueRequest(c) ==
    /\ cpc[c] = "idle"
    /\ cpc' = [cpc EXCEPT ![c] = "envelope"]
    /\ cinput' = [cinput EXCEPT ![c] = live]
    /\ UNCHANGED <<jobVars, rowVars, upstream, admission, inbox, workerVars,
                   seen, cjob, tries, outside>>

(* _get_or_create_envelope and _reactivate: the row becomes the current one of
   its scope and is committed. *)
QueueEnvelope(c) ==
    /\ cpc[c] = "envelope"
    /\ current' = cinput[c]
    /\ rows' = IF rows[cinput[c]].life = "none"
               THEN [rows EXCEPT ![cinput[c]].life = "QUEUED"] ELSE rows
    /\ cpc' = [cpc EXCEPT ![c] = "active"]
    /\ seen' = [seen EXCEPT ![c] = rows[cinput[c]].active]
    /\ UNCHANGED <<jobVars, upstream, admission, inbox, workerVars, cinput, cjob, tries, outside>>

(* It loses the race for the unique current index to any other request, one of
   Clients or not: it goes on with an existing row as it is, or fails. *)
QueueEnvelopeRaced(c) ==
    /\ cpc[c] = "envelope"
    /\ \/ /\ rows[cinput[c]].life # "none"
          /\ cpc' = [cpc EXCEPT ![c] = "active"]
          /\ seen' = [seen EXCEPT ![c] = rows[cinput[c]].active]
          /\ UNCHANGED <<cinput, cjob, tries>>
       \/ Return(c)
    /\ UNCHANGED <<jobVars, rowVars, upstream, admission, inbox, workerVars, outside>>

ActiveJobs(i) == {j \in Jobs : status[j] \in Active /\ target[j] = i}
Latest(S) == {j \in S : \A k \in S : k <= j}

(* One turn of the loop: the latest active job answers the request, after a
   redispatch when its message could not be sent; two turns without one fail. *)
QueueActive(c) ==
    /\ cpc[c] = "active"
    /\ LET found == ActiveJobs(cinput[c]) IN
       \/ \E j \in Latest(found) : (j \notin marked \/ tries[c] = 2) /\ Return(c)
       \/ \E j \in Latest(found) :
            /\ j \in marked /\ tries[c] < 2
            /\ cpc' = [cpc EXCEPT ![c] = "redispatch"]
            /\ cjob' = [cjob EXCEPT ![c] = j]
            /\ UNCHANGED <<cinput, seen, tries>>
       \/ found = {} /\ tries[c] = 2 /\ Return(c)
       \/ /\ found = {} /\ tries[c] < 2
          /\ cpc' = [cpc EXCEPT ![c] = IF seen[c] = NoJob THEN "claim" ELSE "clear"]
          /\ tries' = [tries EXCEPT ![c] = @ + 1]
          /\ UNCHANGED <<cinput, seen, cjob>>
    /\ UNCHANGED <<jobVars, rowVars, upstream, admission, inbox, workerVars, outside>>

(* _clear_stale_claim: drop the claim that was read, if it is still there. *)
QueueClear(c) ==
    /\ cpc[c] = "clear"
    /\ rows' = IF rows[cinput[c]].active = seen[c]
               THEN [rows EXCEPT ![cinput[c]].active = NoJob] ELSE rows
    /\ seen' = [seen EXCEPT ![c] = rows'[cinput[c]].active]
    /\ cpc' = [cpc EXCEPT ![c] = "active"]
    /\ UNCHANGED <<jobVars, current, upstream, admission, inbox, workerVars, cinput, cjob, tries,
                   outside>>

(* A current COMPLETE row is returned as cached, unless the request forces; a
   request also ends here when the bound on jobs is reached. *)
QueueCached(c) ==
    /\ cpc[c] = "claim"
    /\ \/ current = cinput[c] /\ rows[current].life = "COMPLETE"
       \/ \A j \in Jobs : status[j] # "none"
    /\ Return(c)
    /\ UNCHANGED <<jobVars, rowVars, upstream, admission, inbox, workerVars, outside>>

NextJob(j) == status[j] = "none" /\ \A k \in Jobs : k < j => status[k] # "none"

(* Mutant: the message is sent before the commit, which then fails. *)
QueueClaimUncommitted(c) ==
    /\ cpc[c] = "claim"
    /\ \E j \in Jobs : NextJob(j) /\ cjob' = [cjob EXCEPT ![c] = j]
    /\ cpc' = [cpc EXCEPT ![c] = "dispatch"]
    /\ UNCHANGED <<jobVars, rowVars, upstream, admission, inbox, workerVars, cinput, seen, tries,
                   outside>>

(* Insert a job and claim the row in one transaction; both are undone when the
   row is already claimed. *)
QueueClaim(c) ==
    /\ cpc[c] = "claim"
    /\ IF rows[cinput[c]].active = NoJob
       THEN \E j \in Jobs :
              /\ NextJob(j)
              /\ status' = [status EXCEPT ![j] = "QUEUED"]
              /\ target' = [target EXCEPT ![j] = cinput[c]]
              /\ rows' = [rows EXCEPT ![cinput[c]].active = j]
              /\ cjob' = [cjob EXCEPT ![c] = j]
              /\ cpc' = [cpc EXCEPT ![c] = "dispatch"]
              /\ UNCHANGED seen
       ELSE /\ cpc' = [cpc EXCEPT ![c] = "active"]
            /\ seen' = [seen EXCEPT ![c] = rows[cinput[c]].active]
            /\ UNCHANGED <<status, target, rows, cjob>>
    /\ UNCHANGED <<version, stale, marked, current, upstream, admission, inbox, workerVars,
                   cinput, tries, outside>>

(* _dispatch_or_mark and _redispatch: the message is sent and the marker
   cleared; or the send raises and the marker is written in a later commit, by
   when a message that did leave may have been taken (a redispatch has loaded
   the marker, and writes nothing); or the request dies. *)
QueueSend(c) ==
    /\ cpc[c] \in {"dispatch", "redispatch"}
    /\ Send(cjob[c])
    /\ marked' = marked \ {cjob[c]}
    /\ Return(c)
    /\ UNCHANGED <<status, version, stale, target, rowVars, upstream, admission, workerVars,
                   outside>>

QueueSendFails(c) ==
    /\ cpc[c] \in {"dispatch", "redispatch"}
    /\ \/ /\ Fault("broker")
          /\ Send(cjob[c]) \/ UNCHANGED inbox
          /\ IF cpc[c] = "redispatch" THEN Return(c)
             ELSE cpc' = [cpc EXCEPT ![c] = "mark"] /\ UNCHANGED <<cinput, seen, cjob, tries>>
       \/ Fault("lostSend") /\ Return(c) /\ UNCHANGED inbox
    /\ UNCHANGED <<jobVars, rowVars, upstream, admission, workerVars, cancelling>>

QueueMark(c) ==
    /\ cpc[c] = "mark"
    /\ marked' = marked \union {cjob[c]}
    /\ Return(c)
    /\ UNCHANGED <<status, version, stale, target, rowVars, upstream, admission, inbox,
                   workerVars, outside>>

(* cancel_job: the status is read, then CANCELLED is written over whatever it
   has become. *)
CancelRead(j) ==
    /\ Fault("cancel")
    /\ status[j] \in Active /\ j \notin cancelling
    /\ cancelling' = cancelling \union {j}
    /\ UNCHANGED <<jobVars, rowVars, upstream, admission, inbox, workerVars, clientVars>>

CancelWrite(j) ==
    /\ j \in cancelling
    /\ cancelling' = cancelling \ {j}
    /\ status' = [status EXCEPT ![j] = "CANCELLED"]
    /\ UNCHANGED <<version, stale, marked, target, rowVars, upstream, admission, inbox,
                   workerVars, clientVars, faults>>

-----------------------------------------------------------------------------
(* A Celery delivery: the task wrapper and the executor. *)

Goto(w, label) == wpc' = [wpc EXCEPT ![w] = label]

(* The task returns, raises or dies: whatever its session and its admission
   connection held is released, and its message is acknowledged. *)
Ack(w) ==
    /\ Goto(w, "idle")
    /\ wjob' = [wjob EXCEPT ![w] = NoJob]
    /\ token' = [token EXCEPT ![w] = 0]
    /\ lost' = lost \ {w} /\ hit' = hit \ {w}
    /\ lock' = IF lock = w THEN Nobody ELSE lock
    /\ admission' = IF admission = w THEN Nobody ELSE admission

MyRow(w) == rows[target[wjob[w]]]
MyArtifact(w) == [job |-> wjob[w], claim |-> token[w]]
WriteRow(w, row) == rows' = [rows EXCEPT ![target[wjob[w]]] = row]

(* _claim_is_current and _execution_fence: the claim is the newest of a RUNNING
   job, and the row is bound to that job. *)
Current(w) == wpc[w] \in Claimed /\ version[wjob[w]] = token[w]
Owns(w) == Current(w) /\ status[wjob[w]] = "RUNNING"
Fence(w) == Owns(w) /\ MyRow(w).active = wjob[w]
Cancelled(w) == status[wjob[w]] = "CANCELLED"

(* The pcs of a delivery that counts on its admission. *)
Admitted == {"begin", "encode", "qcStart", "qc", "lock", "rebuild", "owner", "commit"}
(* _ownership_ok: the fence, the admission and the sticky latch. *)
OwnershipOk(w) == Fence(w) /\ w \notin lost /\ admission = w

CancelledRow == [life |-> "CANCELLED", active |-> NoJob, artifact |-> NoArtifact]

Claimable(j) ==
    status[j] \in {"QUEUED", "FAILED"} \/ (status[j] = "RUNNING" /\ j \in stale)

(* A message is taken and the job read: a job cancelled while queued finalizes
   its own row, an unclaimable one is a duplicate, skipped and acknowledged. *)
Deliver(w, j) ==
    /\ wpc[w] = "idle" /\ inbox[j] > 0
    /\ inbox' = [inbox EXCEPT ![j] = @ - 1]
    /\ IF Claimable(j)
       THEN /\ Goto(w, "claim")
            /\ wjob' = [wjob EXCEPT ![w] = j]
            /\ token' = [token EXCEPT ![w] = version[j]]
            /\ hit' = IF rows[target[j]].life = "COMPLETE" THEN hit \union {w} ELSE hit
            /\ UNCHANGED <<lost, rows>>
       ELSE /\ rows' = IF status[j] = "CANCELLED" /\ rows[target[j]].active = j
                       THEN [rows EXCEPT ![target[j]] = CancelledRow] ELSE rows
            /\ UNCHANGED workerVars
    /\ UNCHANGED <<jobVars, current, upstream, admission, clientVars, outside>>

(* Mutant: the UPDATE does not compare claim_version with the observed one. *)
ClaimJobUnversioned(w) ==
    /\ wpc[w] = "claim"
    /\ Claimable(wjob[w])
    /\ status' = [status EXCEPT ![wjob[w]] = "RUNNING"]
    /\ version' = [version EXCEPT ![wjob[w]] = token[w] + 1]
    /\ stale' = stale \ {wjob[w]}
    /\ marked' = marked \ {wjob[w]}
    /\ token' = [token EXCEPT ![w] = @ + 1]
    /\ Goto(w, "claimed")
    /\ UNCHANGED <<target, rowVars, upstream, admission, inbox, wjob, lost, hit, clientVars,
                   outside>>

(* _claim_job: one UPDATE, fenced on the version that was read. *)
ClaimJob(w) ==
    /\ wpc[w] = "claim"
    /\ version[wjob[w]] = token[w] /\ Claimable(wjob[w])
    /\ status' = [status EXCEPT ![wjob[w]] = "RUNNING"]
    /\ version' = [version EXCEPT ![wjob[w]] = @ + 1]
    /\ stale' = stale \ {wjob[w]}
    /\ marked' = marked \ {wjob[w]}
    /\ token' = [token EXCEPT ![w] = @ + 1]
    /\ Goto(w, "claimed")
    /\ UNCHANGED <<target, rowVars, upstream, admission, inbox, wjob, lost, hit, clientVars,
                   outside>>

ClaimLost(w) ==
    /\ wpc[w] = "claim"
    /\ version[wjob[w]] # token[w] \/ ~Claimable(wjob[w])
    /\ Ack(w)
    /\ UNCHANGED <<jobVars, rowVars, live, inbox, clientVars, outside>>

(* _finish_job_locked, which also writes error_code. *)
FinishJob(w, result) ==
    IF Owns(w)
    THEN status' = [status EXCEPT ![wjob[w]] = result] /\ marked' = marked \ {wjob[w]}
    ELSE UNCHANGED <<status, marked>>

(* A row loaded COMPLETE that is the current one ends the job at once, unless
   the message forces.  The row keeps the job's claim. *)
FinishCached(w) ==
    /\ wpc[w] = "claimed" /\ w \in hit /\ current = target[wjob[w]] /\ MyRow(w).life = "COMPLETE"
    /\ FinishJob(w, "SUCCEEDED")
    /\ Ack(w)
    /\ UNCHANGED <<version, stale, target, rowVars, live, inbox, clientVars, outside>>

(* _run rebuilds the request: changed upstream blocks, an unusable one fails. *)
Build(w) ==
    /\ wpc[w] = "claimed"
    /\ \/ Cancelled(w) /\ Goto(w, "stop")
       \/ ~Cancelled(w) /\ live # target[wjob[w]] /\ Goto(w, "block")
       \/ ~Cancelled(w) /\ Goto(w, "fail")
       \/ ~Cancelled(w) /\ live = target[wjob[w]] /\ Owns(w) /\ Goto(w, "admit")
    /\ UNCHANGED <<jobVars, rowVars, upstream, admission, inbox, wjob, token, lost, hit,
                   clientVars, outside>>

(* Superseded or cancelled under a fenced write: the task returns its row and
   writes nothing. *)
Skip(w) ==
    /\ \/ wpc[w] = "claimed" /\ ~Cancelled(w) /\ ~Owns(w)
       \/ wpc[w] \in {"begin", "qcStart", "commit"} /\ ~Fence(w)
    /\ Ack(w)
    /\ UNCHANGED <<jobVars, rowVars, live, inbox, clientVars, outside>>

(* The advisory lock is tried until it is free, the job cancelled or the wait
   over; then the job is QUEUED again for a retry. *)
Admit(w) ==
    /\ wpc[w] = "admit" /\ admission = Nobody
    /\ admission' = w
    /\ Goto(w, "begin")
    /\ UNCHANGED <<jobVars, rowVars, upstream, inbox, wjob, token, lost, hit, clientVars,
                   outside>>

NotAdmitted(w) ==
    /\ wpc[w] = "admit" /\ admission # Nobody
    /\ IF Cancelled(w)
       THEN Goto(w, "stop") /\ UNCHANGED <<status, marked>>
       ELSE FinishJob(w, "QUEUED") /\ Goto(w, "retry")
    /\ UNCHANGED <<version, stale, target, rowVars, upstream, admission, inbox, wjob, token,
                   lost, hit, clientVars, outside>>

(* The task retries with a new message, until its retries are exhausted. *)
Retry(w) ==
    /\ wpc[w] = "retry"
    /\ \/ version[wjob[w]] < MaxClaims /\ Send(wjob[w])
       \/ UNCHANGED inbox
    /\ Ack(w)
    /\ UNCHANGED <<jobVars, rowVars, live, clientVars, outside>>

(* Mutant: the pointer of the earlier attempt stays published. *)
BeginAttemptKeeping(w) ==
    /\ wpc[w] = "begin"
    /\ Fence(w)
    /\ WriteRow(w, [MyRow(w) EXCEPT !.life = "RENDERING"])
    /\ Goto(w, "encode")
    /\ UNCHANGED <<jobVars, current, upstream, admission, inbox, wjob, token, lost, hit,
                   clientVars, outside>>

(* begin_attempt: RENDERING, and the earlier attempt's artifact is withdrawn,
   in one fenced UPDATE.  Compilation may fail before it. *)
BeginAttempt(w) ==
    /\ wpc[w] = "begin"
    /\ \/ /\ Fence(w)
          /\ WriteRow(w, [MyRow(w) EXCEPT !.life = "RENDERING", !.artifact = NoArtifact])
          /\ Goto(w, "encode")
       \/ Goto(w, "fail") /\ UNCHANGED rows
    /\ UNCHANGED <<jobVars, current, upstream, admission, inbox, wjob, token, lost, hit,
                   clientVars, outside>>

(* FFmpeg and QC: done, failed, or stopped by _should_stop, whose latch is
   sticky.  A stop that arrives after the last poll is not seen here. *)
Encode(w) ==
    /\ wpc[w] \in {"encode", "qc"}
    /\ \/ Goto(w, IF wpc[w] = "encode" THEN "qcStart" ELSE "lock") /\ UNCHANGED lost
       \/ Goto(w, "fail") /\ UNCHANGED lost
       \/ /\ Cancelled(w) \/ ~OwnershipOk(w)
          /\ Goto(w, "stop")
          /\ lost' = IF Cancelled(w) THEN lost ELSE lost \union {w}
    /\ UNCHANGED <<jobVars, rowVars, upstream, admission, inbox, wjob, token, hit, clientVars,
                   outside>>

SetQcRunning(w) ==
    /\ wpc[w] = "qcStart" /\ Fence(w)
    /\ WriteRow(w, [MyRow(w) EXCEPT !.life = "QC_RUNNING"])
    /\ Goto(w, "qc")
    /\ UNCHANGED <<jobVars, current, upstream, admission, inbox, wjob, token, lost, hit,
                   clientVars, outside>>

(* Mutant: publication takes no row locks. *)
LockNothing(w) ==
    /\ wpc[w] = "lock"
    /\ Goto(w, "rebuild")
    /\ UNCHANGED <<jobVars, rowVars, upstream, admission, inbox, wjob, token, lost, hit,
                   clientVars, outside>>

(* _finalize_publication locks the candidate, the contract, its selected plan and
   final refinement and the visual plan, ... *)
LockUpstream(w) ==
    /\ wpc[w] = "lock" /\ lock = Nobody
    /\ lock' = w
    /\ Goto(w, "rebuild")
    /\ UNCHANGED <<jobVars, rowVars, live, admission, inbox, wjob, token, lost, hit, clientVars,
                   outside>>

Rollback(w) == lock' = IF lock = w THEN Nobody ELSE lock

(* ... rebuilds the request, or fails on an unusable or changed source, ... *)
Rebuild(w) ==
    /\ wpc[w] = "rebuild"
    /\ \/ live = target[wjob[w]] /\ Goto(w, "owner") /\ UNCHANGED lock
       \/ live # target[wjob[w]] /\ Goto(w, "block") /\ Rollback(w)
       \/ Goto(w, "fail") /\ Rollback(w)
    /\ UNCHANGED <<jobVars, rowVars, live, admission, inbox, wjob, token, lost, hit, clientVars,
                   outside>>

(* ... rechecks ownership, ... *)
RecheckOwner(w) ==
    /\ wpc[w] = "owner"
    /\ IF OwnershipOk(w)
       THEN Goto(w, "commit") /\ UNCHANGED <<lock, lost>>
       ELSE /\ Goto(w, "stop") /\ Rollback(w)
            /\ lost' = IF Cancelled(w) THEN lost ELSE lost \union {w}
    /\ UNCHANGED <<jobVars, rowVars, live, admission, inbox, wjob, token, hit, clientVars,
                   outside>>

(* ... and publishes the artifact, finishes the job and releases its claim in
   one transaction. *)
Publish(w) ==
    /\ wpc[w] = "commit" /\ Fence(w)
    /\ WriteRow(w, [life |-> "COMPLETE", active |-> NoJob, artifact |-> MyArtifact(w)])
    /\ FinishJob(w, "SUCCEEDED")
    /\ Ack(w)
    /\ UNCHANGED <<version, stale, target, current, live, inbox, clientVars, outside>>

(* A cancellation between its two statements rolls the publication back, and so
   does a database error. *)
PublishRolledBack(w) ==
    /\ wpc[w] = "commit"
    /\ (Cancelled(w) /\ Goto(w, "stop")) \/ (Fence(w) /\ Goto(w, "fail"))
    /\ Rollback(w)
    /\ UNCHANGED <<jobVars, rowVars, live, admission, inbox, wjob, token, lost, hit, clientVars,
                   outside>>

(* Mutant: the cancelling delivery does not check that the row is still its. *)
StopUnbound(w) ==
    /\ wpc[w] = "stop"
    /\ IF Cancelled(w)
       THEN WriteRow(w, CancelledRow) /\ Ack(w)
       ELSE Goto(w, "fail") /\ UNCHANGED <<rows, wjob, token, lost, hit, lock, admission>>
    /\ UNCHANGED <<jobVars, current, live, inbox, clientVars, outside>>

(* _handle_stop: a cancellation wins over the latch.  finalize_cancellation
   accepts the CANCELLED job, if the claim and the row are still its. *)
Stop(w) ==
    /\ wpc[w] = "stop"
    /\ IF Cancelled(w)
       THEN /\ IF Current(w) /\ MyRow(w).active = wjob[w]
               THEN WriteRow(w, CancelledRow) ELSE UNCHANGED rows
            /\ Ack(w)
       ELSE Goto(w, "fail") /\ UNCHANGED <<rows, wjob, token, lost, hit, lock, admission>>
    /\ UNCHANGED <<jobVars, current, live, inbox, clientVars, outside>>

(* _block and _fail: the row, in a commit of its own, then the job. *)
MarkTerminal(w) ==
    /\ wpc[w] \in {"block", "fail"}
    /\ IF Fence(w)
       THEN /\ WriteRow(w, [life |-> IF wpc[w] = "block" THEN "BLOCKED" ELSE "FAILED",
                            active |-> NoJob, artifact |-> NoArtifact])
            /\ Goto(w, "finish") /\ UNCHANGED <<wjob, token, lost, hit, lock, admission>>
       ELSE Ack(w) /\ UNCHANGED rows
    /\ UNCHANGED <<jobVars, current, live, inbox, clientVars, outside>>

Finish(w) ==
    /\ wpc[w] = "finish"
    /\ FinishJob(w, "FAILED")
    /\ Ack(w)
    /\ UNCHANGED <<version, stale, target, rowVars, live, inbox, clientVars, outside>>

-----------------------------------------------------------------------------
(* Heartbeats, crashes and the broker. *)

(* The heartbeat thread renews the claim it owns; when the UPDATE matches no
   row, or has failed three times, it sets the latch. *)
Heartbeat(w) ==
    /\ wpc[w] \in Claimed
    /\ IF Owns(w)
       THEN \/ stale' = stale \ {wjob[w]} /\ UNCHANGED <<lost, faults>>
            \/ Fault("stall") /\ lost' = lost \union {w} /\ UNCHANGED stale
       ELSE lost' = lost \union {w} /\ UNCHANGED <<stale, faults>>
    /\ UNCHANGED <<status, version, marked, target, rowVars, upstream, admission, inbox,
                   wpc, wjob, token, hit, clientVars, cancelling>>

(* The stale window passes without a heartbeat. *)
GoStale(j) ==
    /\ status[j] = "RUNNING" /\ j \notin stale
    /\ IF \E w \in Workers : wjob[w] = j /\ Owns(w) THEN Fault("stall") ELSE UNCHANGED faults
    /\ stale' = stale \union {j}
    /\ UNCHANGED <<status, version, marked, target, rowVars, upstream, admission, inbox,
                   workerVars, clientVars, cancelling>>

(* The process dies; its unacknowledged message goes back to the broker. *)
Crash(w) ==
    /\ wpc[w] # "idle" /\ Fault("crash")
    /\ Send(wjob[w])
    /\ Ack(w)
    /\ UNCHANGED <<jobVars, rowVars, live, clientVars, cancelling>>

Redeliver(w) ==
    /\ wpc[w] # "idle" /\ Fault("redeliver")
    /\ Send(wjob[w])
    /\ UNCHANGED <<jobVars, rowVars, upstream, admission, workerVars, clientVars, cancelling>>

(* The backend of the dedicated connection is terminated. *)
Sever(w) ==
    /\ admission = w /\ Fault("sever")
    /\ admission' = Nobody
    /\ UNCHANGED <<jobVars, rowVars, upstream, inbox, workerVars, clientVars, cancelling>>

Client(c) ==
    \/ QueueEnvelope(c) \/ QueueActive(c) \/ QueueClear(c) \/ QueueCached(c) \/ QueueClaim(c)
    \/ QueueSend(c) \/ QueueSendFails(c) \/ QueueMark(c)
Worker(w) ==
    \/ ClaimJob(w) \/ ClaimLost(w) \/ FinishCached(w) \/ Build(w) \/ Skip(w) \/ Admit(w)
    \/ NotAdmitted(w) \/ Retry(w) \/ BeginAttempt(w) \/ Encode(w) \/ SetQcRunning(w)
    \/ LockUpstream(w) \/ Rebuild(w) \/ RecheckOwner(w) \/ Publish(w) \/ PublishRolledBack(w)
    \/ Stop(w) \/ MarkTerminal(w) \/ Finish(w)
Take(w) == \E j \in Jobs : Deliver(w, j)
Broken(w) == Heartbeat(w) \/ Crash(w) \/ Redeliver(w) \/ Sever(w)
Outside(j) == CancelRead(j) \/ CancelWrite(j) \/ GoStale(j)

Next ==
    \/ \E c \in Clients : QueueRequest(c) \/ QueueEnvelopeRaced(c) \/ Client(c)
    \/ \E w \in Workers : Take(w) \/ Worker(w) \/ Broken(w)
    \/ \E j \in Jobs : Outside(j)
    \/ EditUpstream

Spec == Init /\ [][Next]_vars

(* What has begun goes on, messages are delivered and abandoned heartbeats grow
   old. *)
Fairness ==
    /\ \A c \in Clients : WF_vars(Client(c))
    /\ \A w \in Workers : WF_vars(Take(w)) /\ WF_vars(Worker(w))
    /\ \A j \in Jobs : WF_vars(CancelWrite(j)) /\ WF_vars(GoStale(j))
FairSpec == Spec /\ Fairness

(* An operator repeats the request; it does not lose every race, and the broker
   is not down for ever. *)
PersistentSpec ==
    /\ FairSpec
    /\ \A c \in Clients :
         WF_vars(QueueRequest(c)) /\ SF_vars(QueueEnvelope(c)) /\ SF_vars(QueueSend(c))

-----------------------------------------------------------------------------
(* Properties. *)

(* However messages are duplicated, runs abandoned and reclaimed, no two
   deliveries hold the current claim of a job: the claim is one UPDATE fenced
   on the version it read. *)
SingleOwner ==
    \A w1, w2 \in Workers :
        Current(w1) /\ Current(w2) /\ wjob[w1] = wjob[w2] => w1 = w2

(* "A superseded worker can never ... release a newer run's result": while a row
   is bound to an active job it is written and released only by the delivery
   that holds that job's claim, or when that job has been cancelled. *)
OwnerKeepsRow ==
    [][\A i \in Inputs :
         rows[i].active # NoJob /\ rows'[i] # rows[i] =>
           LET j == rows[i].active IN
             \/ status[j] \notin Active
             \/ \E w \in Workers : wjob[w] = j /\ Owns(w) /\ wpc'[w] # wpc[w]]_vars

(* "An upstream invalidation ... committed before publication therefore blocks":
   the row that turns COMPLETE is the one the upstream rows then describe.  It
   takes that no edit is loose (LockedEdits). *)
PublishedInputIsLive ==
    [][\A i \in Inputs : rows'[i].life = "COMPLETE" /\ rows[i].life # "COMPLETE"
         => live = i /\ live' = i]_vars

(* An attempt is published, once, by the owner of a RUNNING job, in the step
   that ends the job: nothing is published after a cancellation. *)
PublicationIsFenced ==
    [][\A i \in Inputs : rows'[i].artifact # rows[i].artifact /\ rows'[i].artifact # NoArtifact
         => LET j == rows'[i].artifact.job IN
              /\ rows[i].active = j /\ rows'[i].artifact.claim = version[j]
              /\ status[j] = "RUNNING" /\ status'[j] = "SUCCEEDED"]_vars

(* "An earlier success is never mixed with a later failure": a row has an
   artifact just when it is COMPLETE, and then the job of that artifact is over. *)
ArtifactMatchesRun ==
    \A i \in Inputs :
        /\ rows[i].life = "COMPLETE" <=> rows[i].artifact # NoArtifact
        /\ rows[i].artifact # NoArtifact => status[rows[i].artifact.job] \in {"SUCCEEDED", "CANCELLED"}

(* "A broker dispatch failure is recorded and redispatched on the next request":
   a marked job gets a message while its input stays the live one. *)
FailedDispatchRecovers ==
    \A j \in Jobs :
        (status[j] = "QUEUED" /\ j \in marked)
          ~> (status[j] # "QUEUED" \/ inbox[j] > 0 \/ live # target[j])

(* "Running cancellation during rendering and during QC finalizes the owned row
   as CANCELLED ... releases active_job_id". *)
CancelledRunIsFinalized ==
    \A j \in Jobs :
        (status[j] = "CANCELLED" /\ \E i \in Inputs :
            rows[i].active = j /\ rows[i].life \in {"RENDERING", "QC_RUNNING"})
          ~> \A i \in Inputs : rows[i].active # j

-----------------------------------------------------------------------------
Job == INSTANCE FencedJob WITH
    Holders <- Workers, Results <- Inputs,
    holder <- [j \in Jobs |-> {w \in Workers : wjob[w] = j /\ Current(w)}],
    published <- {i \in Inputs : rows[i].life = "COMPLETE"}

(* Rendering implements the fenced job: a row is completed, and a job ended, by
   the holder of its newest claim. *)
JobRefinement == Job!JobSpec
=============================================================================
