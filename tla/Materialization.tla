-------------------------- MODULE Materialization --------------------------
(***************************************************************************)
(* Stage 6, backend/app/materialization: queue.py answers POST, resume and *)
(* cancel; executor.py and components.py prepare a generation (provider    *)
(* calls under a durable ledger of attempts) and hand it to the renderer;  *)
(* a callback of the render task asks for a finalizer job; finalization.py *)
(* publishes the assessment or spends the one repair.                      *)
(*                                                                         *)
(* Inputs are the input fingerprints of one (candidate, profile): each has *)
(* at most one envelope, a row of clip_materializations.  live is the      *)
(* fingerprint that the upstream rows give now.  Output 1 is what the      *)
(* accepted components compose (preparing again replays them), output 2    *)
(* its repaired revision.  A request that holds the candidate lock is one  *)
(* step, with its send; so is every other transaction.                     *)
(***************************************************************************)
EXTENDS Naturals, Sequences

CONSTANTS
    Inputs,         \* input fingerprints
    NJobs,          \* bound: jobs are numbered in order of creation
    Workers,        \* Celery deliveries that can run at the same time
    NoJob,          \* SQL NULL in active_job_id
    NoInput,        \* no envelope is current; the job does not exist
    NoRender,       \* SQL NULL in render_execution_id
    Faults,         \* subset of FaultKinds
    MaxFaults,      \* bound: faults (but stalls and decay), cancellations and edits in all
    MaxClaims,      \* bound: a job claimed so often is not retried
    MaxMessages,    \* bound: messages of one job in the broker
    Budget          \* provider calls an envelope may make

Jobs == 1..NJobs
Renders == Inputs \X {1, 2} \X {0, 1}   \* input, output, repair revision

(* "crash":    a worker process dies;
   "stall":    a live worker misses heartbeats for the whole stale window;
   "claimStall": one does between the claim it commits and the read of its token;
   "decay":    the file, request or assessment behind a completed render no
               longer verifies;
   "redeliver": the visibility timeout repeats an unacknowledged message;
   "broker":   a send raises;
   "lostSend": the process dies between a commit and its send;
   "lostCallback": a render ends and its callback never runs;
   "raise":    an exception in a delivery: a provider, the database, a file;
   "cancel":   an operator cancels a generation, or one job by its id;
   "edit":     the upstream rows change. *)
FaultKinds == {"crash", "stall", "claimStall", "decay", "redeliver", "broker", "lostSend",
               "lostCallback", "raise", "cancel", "edit"}

ASSUME MaterializationConstants ==
    /\ NJobs \in Nat /\ NoJob \notin Jobs
    /\ NoInput \notin Inputs /\ NoRender \notin Renders
    /\ Faults \subseteq FaultKinds
    /\ MaxFaults \in Nat /\ MaxClaims \in Nat /\ MaxMessages \in Nat /\ Budget \in Nat

VARIABLES
    status,     \* [Jobs -> JobStatus], "none" while the row does not exist
    version,    \* [Jobs -> Nat], processing_jobs.claim_version
    stale,      \* jobs whose heartbeat_at is too old
    marked,     \* jobs whose error_code is MATERIALIZATION_DISPATCH_FAILED
    target,     \* [Jobs -> Inputs \cup {NoInput}], materialization_id
    inbox,      \* [Jobs -> Nat], messages waiting in the broker
    envs,       \* [Inputs -> Envelopes]
    current,    \* the input whose envelope is_current, or NoInput
    live,       \* the input fingerprint of the upstream rows as they are
    renders,    \* [Renders -> RenderRows], transformed rows of render_executions
    curRender,  \* the one that is_current, or NoRender
    callbacks,  \* renders that have ended and whose callback is to run
    asking,     \* callbacks that have found their envelope ready to finalize
    work,       \* [Workers -> Deliveries]
    hand,       \* the hand-off of a request that has released the lock; one at a time
    faults      \* faults so far

jobVars == <<status, version, stale, marked, target>>
envVars == <<envs, current>>
renderVars == <<renders, curRender>>
callVars == <<callbacks, asking>>
vars == <<jobVars, inbox, envVars, live, renderVars, callVars, work, hand, faults>>

JobStatus == {"none", "QUEUED", "RUNNING", "SUCCEEDED", "FAILED", "CANCELLED"}
Active == {"QUEUED", "RUNNING"}
Lifecycle == {"QUEUED", "AWAITING_RENDER", "COMPLETE", "BLOCKED", "CANCELLED"}
AttemptStatus == {"RESERVED", "RESPONDED", "FAILED_KNOWN", "UNCERTAIN"}
(* ready: cache_eligible and reviewable.  accepted: the checkpoint of the
   components is ACCEPTED. *)
Envelopes == [life : Lifecycle \union {"none"}, active : Jobs \union {NoJob}, claim : Nat,
              out : 0..2, repair : 0..1, render : Renders \union {NoRender}, ready : BOOLEAN,
              ledger : Seq(AttemptStatus), accepted : BOOLEAN]
NoEnvelope == [life |-> "none", active |-> NoJob, claim |-> 0, out |-> 0, repair |-> 0,
               render |-> NoRender, ready |-> FALSE, ledger |-> <<>>, accepted |-> FALSE]
(* "PEAK" is FAILED with AUDIO_PEAK_REPAIR_NEEDED; BLOCKED counts as FAILED.  A
   render's job: none active, its message unsent or refused by the broker, or
   sent. *)
Finalizable == {"COMPLETE", "FAILED", "PEAK"}
RenderRows == [life : {"none", "QUEUED", "ACTIVE", "CANCELLED"} \union Finalizable,
               job : {"none", "unsent", "marked", "sent"}]
NoRow == [life |-> "none", job |-> "none"]

Owning == {"prepare", "call", "record", "decide", "commit", "assess", "publish"}
HandOff == {"handoff", "bind", "deliver"}
WorkerPC == {"idle", "claim", "claimed", "take", "own", "fail"} \union Owning \union HandOff
Deliveries == [pc : WorkerPC, job : Jobs \union {NoJob}, token : Nat,
               phase : {"prepare", "finalize"}, input : Inputs \union {NoInput}, claim : Nat,
               attempt : Nat, good : BOOLEAN, key : Renders \union {NoRender}]
Idle == [pc |-> "idle", job |-> NoJob, token |-> 0, phase |-> "prepare", input |-> NoInput,
         claim |-> 0, attempt |-> 0, good |-> FALSE, key |-> NoRender]
Hands == [at : {"idle", "bind", "deliver"}, key : Renders \union {NoRender}]
NoHand == [at |-> "idle", key |-> NoRender]

(* Every variable holds what the code can put there; a delivery in progress has
   a job that exists, one that has read its token knows the envelope, and one
   that hands over or publishes knows the render. *)
JobsOK ==
    /\ status \in [Jobs -> JobStatus] /\ version \in [Jobs -> Nat]
    /\ stale \subseteq Jobs /\ marked \subseteq Jobs
    /\ target \in [Jobs -> Inputs \union {NoInput}]
    /\ inbox \in [Jobs -> Nat]
    /\ \A j \in Jobs : status[j] # "none" => target[j] \in Inputs
    /\ \A j \in Jobs : inbox[j] > 0 => status[j] # "none"

EnvsOK == envs \in [Inputs -> Envelopes] /\ current \in Inputs \union {NoInput} /\ live \in Inputs

RendersOK ==
    /\ renders \in [Renders -> RenderRows] /\ curRender \in Renders \union {NoRender}
    /\ callbacks \subseteq Renders /\ asking \subseteq Renders
    /\ hand \in Hands
    /\ hand.at # "idle" => hand.key \in Renders

WorkOK ==
    /\ work \in [Workers -> Deliveries]
    /\ \A w \in Workers :
         /\ work[w].pc # "idle" => (work[w].job \in Jobs /\ status[work[w].job] # "none")
         /\ work[w].pc \in {"take", "own"} \union Owning \union {"handoff", "bind"}
              => work[w].input \in Inputs
         /\ work[w].pc \in {"bind", "deliver", "publish"} => work[w].key \in Renders

TypeOK == JobsOK /\ EnvsOK /\ RendersOK /\ WorkOK /\ faults \in Nat

Init ==
    /\ status = [j \in Jobs |-> "none"] /\ version = [j \in Jobs |-> 0]
    /\ stale = {} /\ marked = {}
    /\ target = [j \in Jobs |-> NoInput]
    /\ inbox = [j \in Jobs |-> 0]
    /\ envs = [i \in Inputs |-> NoEnvelope] /\ current = NoInput /\ live \in Inputs
    /\ renders = [k \in Renders |-> NoRow] /\ curRender = NoRender
    /\ callbacks = {} /\ asking = {}
    /\ work = [w \in Workers |-> Idle] /\ hand = NoHand
    /\ faults = 0

(* A fault that this instance admits and the bound leaves room for. *)
Fault(kind) == kind \in Faults /\ faults < MaxFaults /\ faults' = faults + 1

EditUpstream ==
    /\ Fault("edit")
    /\ live' \in Inputs \ {live}
    /\ UNCHANGED <<jobVars, inbox, envVars, renderVars, callVars, work, hand>>

-----------------------------------------------------------------------------
(* Jobs and their messages. *)

Send(j) == inbox[j] < MaxMessages /\ inbox' = [inbox EXCEPT ![j] = @ + 1]

(* Mutant: a send that the broker refuses is not recorded. *)
DispatchUnmarked(j) ==
    \/ Send(j) /\ marked' = marked \ {j} /\ UNCHANGED faults
    \/ Fault("broker") /\ UNCHANGED <<marked, inbox>>
    \/ Fault("lostSend") /\ UNCHANGED <<marked, inbox>>

(* _dispatch_or_mark and _deliver_finalization_job, after the commit. *)
Dispatch(j) ==
    \/ Send(j) /\ marked' = marked \ {j} /\ UNCHANGED faults
    \/ Fault("broker") /\ marked' = marked \union {j} /\ UNCHANGED inbox
    \/ Fault("lostSend") /\ UNCHANGED <<marked, inbox>>

ActiveJobs(i) == {j \in Jobs : status[j] \in Active /\ target[j] = i}
Latest(S) == {j \in S : \A k \in S : k <= j}
NextJob(j) == status[j] = "none" /\ \A k \in Jobs : k < j => status[k] # "none"

(* Mutant: the job is not bound to the envelope it works for. *)
NewJobAstray(i, e) ==
    \E j \in Jobs :
        /\ NextJob(j)
        /\ status' = [status EXCEPT ![j] = "QUEUED"]
        /\ envs' = [envs EXCEPT ![i] = [e EXCEPT !.active = j]]
        /\ Dispatch(j)
        /\ UNCHANGED <<version, stale, target>>

(* A new job for envelope i, which is bound to it and becomes e. *)
NewJob(i, e) ==
    \E j \in Jobs :
        /\ NextJob(j)
        /\ status' = [status EXCEPT ![j] = "QUEUED"]
        /\ target' = [target EXCEPT ![j] = i]
        /\ envs' = [envs EXCEPT ![i] = [e EXCEPT !.active = j]]
        /\ Dispatch(j)
        /\ UNCHANGED <<version, stale>>

-----------------------------------------------------------------------------
(* Renders. *)

(* What _validate_render_binding accepts: the row of the envelope's output and
   repair revision. *)
Revision(i) == <<i, envs[i].out, envs[i].repair>>
Bound(i) == envs[i].render # NoRender /\ envs[i].render = Revision(i)

(* queue_render_execution makes the row current: an active job answers (a
   refused message is to be sent again), a COMPLETE row is cached while it
   verifies, any other gets a new job. *)
Cached == [life |-> "COMPLETE", job |-> "none"]
Requeued(r) ==
    IF r.job = "marked" THEN [r EXCEPT !.job = "unsent"]
    ELSE IF r.job # "none" \/ r.life = "COMPLETE" THEN r
    ELSE [life |-> IF r.life = "none" THEN "QUEUED" ELSE r.life, job |-> "unsent"]

QueueRender(k) ==
    /\ curRender' = k
    /\ \/ renders' = [renders EXCEPT ![k] = Requeued(@)]
       \/ /\ "decay" \in Faults /\ renders[k] = Cached
          /\ renders' = [renders EXCEPT ![k].job = "unsent"]

(* deliver_render_job, or its failure recorded, or the process dies. *)
DeliverRender(k) ==
    LET To(job) == renders' = [renders EXCEPT ![k].job = IF @ = "unsent" THEN job ELSE @] IN
    \/ To("sent") /\ UNCHANGED faults
    \/ Fault("broker") /\ To("marked")
    \/ Fault("lostSend") /\ UNCHANGED renders

(* The render task, RenderExecution in full: a COMPLETE row was rebuilt from the
   envelope's present output. *)
RenderBegins(k) ==
    /\ renders[k].job = "sent" /\ renders[k].life # "ACTIVE"
    /\ renders' = [renders EXCEPT ![k].life = "ACTIVE"]
    /\ UNCHANGED <<jobVars, inbox, envVars, live, curRender, callVars, work, hand, faults>>

RenderEnds(k) ==
    /\ renders[k] = [life |-> "ACTIVE", job |-> "sent"]
    /\ \E life \in Finalizable :
         /\ life = "COMPLETE" => current = k[1] /\ Revision(k[1]) = k
         /\ renders' = [renders EXCEPT ![k] = [life |-> life, job |-> "none"]]
    /\ \/ callbacks' = callbacks \union {k} /\ UNCHANGED faults
       \/ Fault("lostCallback") /\ UNCHANGED callbacks
    /\ UNCHANGED <<jobVars, inbox, envVars, live, curRender, asking, work, hand>>

RenderCancelled(k) ==
    /\ Fault("cancel") /\ renders[k].job # "none"
    /\ renders' = [renders EXCEPT ![k] = [life |-> "CANCELLED", job |-> "none"]]
    /\ UNCHANGED <<jobVars, inbox, envVars, live, curRender, callVars, work, hand>>

-----------------------------------------------------------------------------
(* request_finalization_job: the checks, ... *)

Pending(k) ==
    /\ renders[k].life \in Finalizable /\ curRender = k
    /\ envs[k[1]].life = "AWAITING_RENDER"
    /\ envs[k[1]].render = k /\ Bound(k[1])

CallbackReads(k) ==
    /\ k \in callbacks
    /\ callbacks' = callbacks \ {k}
    /\ asking' = IF current = k[1] /\ Pending(k) /\ ActiveJobs(k[1]) = {}
                 THEN asking \union {k} ELSE asking
    /\ UNCHANGED <<jobVars, inbox, envVars, live, renderVars, work, hand, faults>>

(* ... and the job, bound by compare-and-swap to a current envelope. *)
CallbackBinds(k) ==
    /\ k \in asking
    /\ asking' = asking \ {k}
    /\ \/ current = k[1] /\ envs[k[1]].active = NoJob /\ NewJob(k[1], envs[k[1]])
       \/ ~(current = k[1] /\ envs[k[1]].active = NoJob) /\ UNCHANGED <<jobVars, inbox, envs, faults>>
    /\ UNCHANGED <<current, live, renderVars, callbacks, work, hand>>

-----------------------------------------------------------------------------
(* Operator requests: each holds the lock of the candidate. *)

(* _recover_active_job *)
Redispatch(i) ==
    /\ \E j \in Latest(ActiveJobs(i)) :
         IF status[j] = "QUEUED" /\ j \in marked THEN Dispatch(j)
         ELSE UNCHANGED <<marked, inbox, faults>>
    /\ UNCHANGED <<status, version, stale, target, envs, renderVars, hand>>

(* dispatch_transformed_render for envelope i, which becomes e.  The lock is
   released by the first commit; a row that is current and busy or cached is
   bound before it. *)
StartHandOff(i, e) ==
    LET k == <<i, e.out, e.repair>>
        settled == curRender = k /\ (renders[k].job \in {"unsent", "sent"} \/ renders'[k] = Cached)
        bound == settled \/ e.render = k
    IN  /\ hand = NoHand /\ e.out # 0
        /\ QueueRender(k)
        /\ envs' = [envs EXCEPT ![i] = IF bound THEN [e EXCEPT !.render = k] ELSE e]
        /\ hand' = [at |-> IF bound THEN "deliver" ELSE "bind", key |-> k]
        /\ UNCHANGED <<jobVars, inbox, faults>>

(* _recover_render_job *)
RecoverRender(r) ==
    /\ renders[r].job = "marked"
    /\ \/ renders' = [renders EXCEPT ![r].job = "sent"] /\ UNCHANGED faults
       \/ Fault("broker") /\ UNCHANGED renders
    /\ UNCHANGED <<jobVars, inbox, envs, curRender, hand>>

Nothing == UNCHANGED <<jobVars, inbox, envs, renderVars, hand, faults>>

(* _route_awaiting_render; the first case answers with the render's identity.  A
   finalizer that a dead job's binding keeps out rolls the request back. *)
Route(i) ==
    LET r == envs[i].render
        busy == r # NoRender /\ renders[r].life \in {"QUEUED", "ACTIVE"} /\ curRender = r
        cancelled == r # NoRender /\ renders[r].life = "CANCELLED"
        ended == r # NoRender /\ renders[r].life \in Finalizable /\ curRender = r
    IN  \/ busy /\ RecoverRender(r)
        \/ busy /\ renders[r].job # "marked" /\ Nothing
        \/ cancelled /\ Nothing
        \/ /\ ended /\ Pending(r) /\ envs[i].active = NoJob
           /\ NewJob(i, envs[i])
           /\ UNCHANGED <<renderVars, hand>>
        \/ ended /\ ~Pending(r) /\ Nothing
        \/ ~busy /\ ~cancelled /\ ~ended /\ StartHandOff(i, envs[i])

(* What _completed_cache_state accepts of the rows; the file, the request and
   the assessment may still have decayed. *)
Verified(i) == Bound(i) /\ renders[envs[i].render].life = "COMPLETE" /\ curRender = envs[i].render

Reopened(e) == [e EXCEPT !.life = "AWAITING_RENDER", !.ready = FALSE]
Recovered(e) == [Reopened(e) EXCEPT !.render = NoRender]

(* _recover_completed_generation of a reviewable generation: a render that does
   not verify is handed over again, a lost assessment is made again. *)
Recover(i) ==
    /\ envs[i].life = "COMPLETE" /\ envs[i].ready
    /\ \/ /\ ~Verified(i) \/ "decay" \in Faults
          /\ StartHandOff(i, Recovered(envs[i]))
       \/ /\ Verified(i) /\ "decay" \in Faults /\ envs[i].active = NoJob
          /\ NewJob(i, Reopened(envs[i]))
          /\ UNCHANGED <<renderVars, hand>>

(* get_or_create_envelope *)
Created(i) == IF envs[i].life = "none" THEN [NoEnvelope EXCEPT !.life = "QUEUED"] ELSE envs[i]

(* queue_materialization for the live input: the envelope is created, or made
   current again. *)
Post(force) ==
    LET i == live
        e == Created(i)
        free == ActiveJobs(i) = {}
    IN  /\ current' = i
        /\ \/ ~free /\ Redispatch(i)
           \/ free /\ ~force /\ Recover(i)
           \/ free /\ e.life = "AWAITING_RENDER" /\ Route(i)
           \/ free /\ e.life \in {"BLOCKED", "CANCELLED"} /\ Nothing
           \/ free /\ e.life = "COMPLETE" /\ ~force /\ (e.ready => Verified(i)) /\ Nothing
           \/ /\ free
              /\ e.life = "QUEUED" \/ (e.life = "COMPLETE" /\ force)
              /\ NewJob(i, e)
              /\ UNCHANGED <<renderVars, hand>>
        /\ UNCHANGED <<live, callVars, work>>

(* resume_materialization_by_id *)
Resume(i) ==
    LET e == envs[i]
        free == ActiveJobs(i) = {}
    IN  /\ current = i /\ live = i
        /\ \/ ~free /\ Redispatch(i)
           \/ free /\ Recover(i)
           \/ free /\ e.life = "AWAITING_RENDER" /\ Route(i)
           \/ /\ free /\ e.life \in {"QUEUED", "CANCELLED"}
              /\ NewJob(i, [e EXCEPT !.life = "QUEUED"])
              /\ UNCHANGED <<renderVars, hand>>
        /\ UNCHANGED <<current, live, callVars, work>>

(* _cancel_envelope *)
Cancel(i) ==
    LET r == envs[i].render
        busy == r # NoRender /\ renders[r].job # "none" IN
    /\ Fault("cancel")
    /\ current = i /\ envs[i].life # "CANCELLED"
    /\ status' = [j \in Jobs |-> IF j \in ActiveJobs(i) THEN "CANCELLED" ELSE status[j]]
    /\ renders' = IF busy THEN [renders EXCEPT ![r] = [life |-> "CANCELLED", job |-> "none"]]
                  ELSE renders
    /\ envs' = [envs EXCEPT ![i].life = "CANCELLED", ![i].active = NoJob, ![i].ready = FALSE]
    /\ UNCHANGED <<version, stale, marked, target, inbox, current, live, curRender, callVars,
                   work, hand>>

(* cancel_job of the HTTP API, which knows only the job. *)
CancelJob(j) ==
    /\ Fault("cancel")
    /\ status[j] \in Active
    /\ status' = [status EXCEPT ![j] = "CANCELLED"]
    /\ UNCHANGED <<version, stale, marked, target, inbox, envVars, live, renderVars, callVars,
                   work, hand>>

(* The rest of a request's hand-off: the forward binding, which no token
   guards, and the delivery; a render that needed no job is finalized. *)
RequestBinds ==
    /\ hand.at = "bind"
    /\ envs' = [envs EXCEPT ![hand.key[1]].render = hand.key]
    /\ hand' = [hand EXCEPT !.at = "deliver"]
    /\ UNCHANGED <<jobVars, inbox, current, live, renderVars, callVars, work, faults>>

RequestDelivers ==
    /\ hand.at = "deliver"
    /\ DeliverRender(hand.key)
    /\ callbacks' = IF renders[hand.key].job = "none" /\ curRender = hand.key
                       /\ renders[hand.key].life \in Finalizable
                    THEN callbacks \union {hand.key} ELSE callbacks
    /\ hand' = NoHand
    /\ UNCHANGED <<jobVars, inbox, envVars, live, curRender, asking, work>>

-----------------------------------------------------------------------------
(* The worker: a message is delivered, the phase is resolved from the envelope
   of the job, and the job is claimed. *)

Fenced(d) == status[d.job] = "RUNNING" /\ version[d.job] = d.token

(* Mutant: the row of the job answers, not the tokens. *)
OwnedByJob(d) ==
    /\ current = d.input
    /\ envs[d.input].active = d.job
    /\ status[d.job] = "RUNNING" /\ target[d.job] = d.input

(* owner_is_current: token of the envelope and of the job. *)
OwnedBy(d) ==
    /\ current = d.input
    /\ envs[d.input].active = d.job /\ envs[d.input].claim = d.claim
    /\ Fenced(d) /\ target[d.job] = d.input

Goto(w, label) == work' = [work EXCEPT ![w].pc = label]
Ack(w) == work' = [work EXCEPT ![w] = Idle]
(* What a delivery still needs, once it has failed, or released its envelope. *)
Fails(w) == work' = [work EXCEPT ![w] = [Idle EXCEPT
                !.pc = "fail", !.job = work[w].job, !.token = work[w].token, !.phase = work[w].phase]]
HandsOff(w) == work' = [work EXCEPT ![w] = [Idle EXCEPT
                !.pc = "handoff", !.job = work[w].job, !.token = work[w].token, !.input = work[w].input]]

Ended(i) == /\ envs[i].life = "AWAITING_RENDER" /\ envs[i].render # NoRender
            /\ renders[envs[i].render].life \in Finalizable

Deliver(w, j) ==
    /\ work[w].pc = "idle" /\ inbox[j] > 0
    /\ inbox' = [inbox EXCEPT ![j] = @ - 1]
    /\ IF status[j] = "CANCELLED" THEN UNCHANGED work
       ELSE work' = [work EXCEPT ![w] = [Idle EXCEPT !.pc = "claim", !.job = j,
                         !.phase = IF Ended(target[j]) THEN "finalize" ELSE "prepare"]]
    /\ UNCHANGED <<jobVars, envVars, live, renderVars, callVars, hand, faults>>

(* _claim_job commits the claim ... *)
ClaimJob(w) ==
    LET j == work[w].job
        claimable == status[j] \in {"QUEUED", "FAILED"} \/ (status[j] = "RUNNING" /\ j \in stale) IN
    /\ work[w].pc = "claim"
    /\ IF claimable
       THEN /\ status' = [status EXCEPT ![j] = "RUNNING"]
            /\ version' = [version EXCEPT ![j] = @ + 1]
            /\ stale' = stale \ {j} /\ marked' = marked \ {j}
            /\ Goto(w, "claimed")
       ELSE Ack(w) /\ UNCHANGED <<status, version, stale, marked>>
    /\ UNCHANGED <<target, inbox, envVars, live, renderVars, callVars, hand, faults>>

(* ... and reads the row's version in the next transaction; then
   assemble_inputs, in the prepare phase. *)
ReadToken(w) ==
    LET d == work[w] IN
    /\ d.pc = "claimed"
    /\ work' = [work EXCEPT ![w] = [d EXCEPT !.pc = "take", !.token = version[d.job],
                   !.input = IF d.phase = "prepare" THEN live ELSE target[d.job]]]
    /\ UNCHANGED <<jobVars, inbox, envVars, live, renderVars, callVars, hand, faults>>

(* _should_stop and _claim_envelope: a job made for other inputs is first rebound
   to the envelope of those just assembled, in a commit that no token guards. *)
Rebind(w) ==
    LET d == work[w]
        i == d.input
        e == Created(i)
        stops == status[d.job] = "CANCELLED" \/ version[d.job] # d.token IN
    /\ d.pc = "take" /\ d.phase = "prepare" /\ target[d.job] # i
    /\ IF stops THEN Ack(w) /\ UNCHANGED <<current, target, envs>>
       ELSE /\ current' = i
            /\ target' = [target EXCEPT ![d.job] = i]
            /\ envs' = [envs EXCEPT ![i] = IF e.active = NoJob THEN [e EXCEPT !.active = d.job] ELSE e]
            /\ Goto(w, "own")
    /\ UNCHANGED <<status, version, stale, marked, inbox, live, renderVars, callVars, hand, faults>>

(* claim_materialization: a refusal leaves the job RUNNING. *)
TakePrepare(w) ==
    LET d == work[w]
        i == d.input
        bound == \/ d.pc = "take" /\ d.phase = "prepare" /\ target[d.job] = i
                 \/ d.pc = "own" /\ current = i
        claimed == bound /\ Fenced(d) /\ envs[i].active = d.job IN
    /\ d.pc = "own" \/ bound
    /\ IF claimed
       THEN /\ current' = i
            /\ target' = [target EXCEPT ![d.job] = i]
            /\ envs' = [envs EXCEPT ![i].claim = @ + 1]
            /\ work' = [work EXCEPT ![w] = [@ EXCEPT !.pc = "prepare", !.claim = envs[i].claim + 1]]
       ELSE Ack(w) /\ UNCHANGED <<current, target, envs>>
    /\ UNCHANGED <<status, version, stale, marked, inbox, live, renderVars, callVars, hand, faults>>

TakeFinalize(w) ==
    LET d == work[w]
        i == d.input
        claimed == Fenced(d) /\ current = i /\ envs[i].active = d.job IN
    /\ d.pc = "take" /\ d.phase = "finalize"
    /\ IF claimed
       THEN /\ envs' = [envs EXCEPT ![i].claim = @ + 1]
            /\ work' = [work EXCEPT ![w] = [@ EXCEPT !.pc = "assess", !.claim = envs[i].claim + 1]]
       ELSE Ack(w) /\ UNCHANGED envs
    /\ UNCHANGED <<jobVars, inbox, current, live, renderVars, callVars, hand, faults>>

-----------------------------------------------------------------------------
(* prepare_materialization under DurableRequestGateway.  The steps from here to
   the commit change nothing but the envelope's ledger and the delivery. *)

Preparing(w) == UNCHANGED <<jobVars, inbox, current, live, renderVars, callVars, hand>>
Decided(w, good) ==
    work' = [work EXCEPT ![w] = [@ EXCEPT !.pc = "decide", !.good = good, !.attempt = 0]]

(* The envelope with its last attempt marked, if w is its owner. *)
Marked(w, as) ==
    LET d == work[w] IN
    IF OwnedBy(d) THEN [envs EXCEPT ![d.input].ledger[d.attempt] = as] ELSE envs

(* Mutant: an attempt whose outcome is unknown is made again. *)
PrepareAgain(w) ==
    LET d == work[w]
        e == envs[d.input] IN
    /\ d.pc = "prepare"
    /\ \/ ~OwnedBy(d) /\ Fails(w) /\ UNCHANGED envs
       \/ /\ OwnedBy(d) /\ e.accepted
          /\ \E good \in BOOLEAN : Decided(w, good)
          /\ UNCHANGED envs
       \/ /\ OwnedBy(d) /\ ~e.accepted /\ Len(e.ledger) < Budget
          /\ envs' = [envs EXCEPT ![d.input].ledger = Append(@, "RESERVED")]
          /\ work' = [work EXCEPT ![w] = [@ EXCEPT !.pc = "call", !.attempt = Len(e.ledger) + 1]]
    /\ Preparing(w) /\ UNCHANGED faults

(* The gateway refuses without a call (budget, admission, an attempt that is
   unresolved), replays what was accepted, or reserves an attempt. *)
Prepare(w) ==
    LET d == work[w]
        e == envs[d.input]
        last == Len(e.ledger)
        unresolved == last > 0 /\ e.ledger[last] \in {"RESERVED", "UNCERTAIN"} IN
    /\ d.pc = "prepare"
    /\ \/ ~OwnedBy(d) /\ Fails(w) /\ UNCHANGED envs
       \/ /\ OwnedBy(d) /\ e.accepted
          /\ \E good \in BOOLEAN : Decided(w, good)
          /\ UNCHANGED envs
       \/ /\ OwnedBy(d) /\ ~e.accepted
          /\ Decided(w, FALSE)
          /\ envs' = IF unresolved THEN [envs EXCEPT ![d.input].ledger[last] = "UNCERTAIN"] ELSE envs
       \/ /\ OwnedBy(d) /\ ~e.accepted /\ last < Budget /\ ~unresolved
          /\ envs' = [envs EXCEPT ![d.input].ledger = Append(@, "RESERVED")]
          /\ work' = [work EXCEPT ![w] = [@ EXCEPT !.pc = "call", !.attempt = last + 1]]
    /\ Preparing(w) /\ UNCHANGED faults

(* The provider: it answers, it raises, or the job has been cancelled. *)
Call(w) ==
    LET d == work[w] IN
    /\ d.pc = "call"
    /\ \/ Goto(w, "record") /\ UNCHANGED <<envs, faults>>
       \/ ~Fenced(d) /\ Decided(w, FALSE) /\ UNCHANGED <<envs, faults>>
       \/ /\ Fault("raise")
          /\ \E as \in AttemptStatus \ {"RESERVED"} : envs' = Marked(w, as)
          /\ Fails(w)
    /\ Preparing(w)

(* record_attempt_response: the attempt and the checkpoint together.  A rejected
   response may be followed by another call. *)
Record(w) ==
    LET d == work[w] IN
    /\ d.pc = "record"
    /\ \/ \E as \in {"FAILED_KNOWN", "UNCERTAIN"} : envs' = Marked(w, as) /\ Decided(w, FALSE)
       \/ /\ Fenced(d) /\ envs' = Marked(w, "RESPONDED")
          /\ (Decided(w, FALSE) \/ Goto(w, "prepare"))
       \/ /\ Fenced(d)
          /\ envs' = IF OwnedBy(d)
                     THEN [Marked(w, "RESPONDED") EXCEPT ![d.input].accepted = TRUE] ELSE envs
          /\ \E good \in BOOLEAN : Decided(w, good)
    /\ Preparing(w) /\ UNCHANGED faults

(* Upstream moved on: no output, and nothing to render. *)
Superseded(e) == [e EXCEPT !.life = "BLOCKED", !.active = NoJob, !.ready = FALSE]

(* _claim_guard, _revalidate_upstream and _finish_superseded. *)
Decide(w) ==
    LET d == work[w] IN
    /\ d.pc = "decide"
    /\ IF Fenced(d) /\ live = d.input THEN Goto(w, "commit") ELSE Ack(w)
    /\ IF live # d.input /\ OwnedBy(d)
       THEN /\ envs' = [envs EXCEPT ![d.input] = [Superseded(@) EXCEPT !.out = 0]]
            /\ status' = [status EXCEPT ![d.job] = "SUCCEEDED"]
       ELSE UNCHANGED <<envs, status>>
    /\ UNCHANGED <<version, stale, marked, target, inbox, current, live, renderVars, callVars,
                   hand, faults>>

(* Mutant: a new output starts with its repair unspent. *)
CommitFresh(w) ==
    LET d == work[w] IN
    /\ d.pc = "commit"
    /\ IF OwnedBy(d)
       THEN /\ envs' = [envs EXCEPT ![d.input] = [@ EXCEPT
                           !.life = IF d.good THEN "AWAITING_RENDER" ELSE "COMPLETE",
                           !.ready = FALSE, !.out = 1, !.repair = 0, !.active = NoJob]]
            /\ status' = [status EXCEPT ![d.job] = "SUCCEEDED"]
            /\ IF d.good THEN HandsOff(w) ELSE Ack(w)
       ELSE Ack(w) /\ UNCHANGED <<envs, status>>
    /\ UNCHANGED <<version, stale, marked, target, inbox, current, live, renderVars, callVars,
                   hand, faults>>

(* commit_prepared and finish_owner_job, one transaction. *)
Commit(w) ==
    LET d == work[w] IN
    /\ d.pc = "commit"
    /\ IF OwnedBy(d)
       THEN /\ envs' = [envs EXCEPT ![d.input] = [@ EXCEPT
                           !.life = IF d.good THEN "AWAITING_RENDER" ELSE "COMPLETE",
                           !.ready = FALSE, !.out = 1, !.active = NoJob]]
            /\ status' = [status EXCEPT ![d.job] = "SUCCEEDED"]
            /\ IF d.good THEN HandsOff(w) ELSE Ack(w)
       ELSE Ack(w) /\ UNCHANGED <<envs, status>>
    /\ UNCHANGED <<version, stale, marked, target, inbox, current, live, renderVars, callVars,
                   hand, faults>>

-----------------------------------------------------------------------------
(* dispatch_transformed_render by a worker, without the lock: from a fresh read
   of the envelope, or not at all. *)

HandOffQueues(w) ==
    LET i == work[w].input
        k == Revision(i)
        due == envs[i].life = "AWAITING_RENDER" /\ envs[i].out # 0 /\ current = i IN
    /\ work[w].pc = "handoff"
    /\ \/ /\ due
          /\ QueueRender(k)
          /\ work' = [work EXCEPT ![w] = [@ EXCEPT !.key = k,
                         !.pc = IF envs[i].render = k THEN "deliver" ELSE "bind"]]
          /\ UNCHANGED faults
       \/ ~due /\ Ack(w) /\ UNCHANGED <<renderVars, faults>>
       \/ due /\ Fault("raise") /\ Ack(w) /\ UNCHANGED renderVars
    /\ UNCHANGED <<jobVars, inbox, envVars, live, callVars, hand>>

HandOffBinds(w) ==
    /\ work[w].pc = "bind"
    /\ envs' = [envs EXCEPT ![work[w].input].render = work[w].key]
    /\ Goto(w, "deliver")
    /\ UNCHANGED <<jobVars, inbox, current, live, renderVars, callVars, hand, faults>>

HandOffDelivers(w) ==
    /\ work[w].pc = "deliver"
    /\ DeliverRender(work[w].key)
    /\ Ack(w)
    /\ UNCHANGED <<jobVars, inbox, envVars, live, curRender, callVars, hand>>

-----------------------------------------------------------------------------
(* finalize_materialization. *)

(* Mutant: the envelope is written whoever owns it. *)
DisposeUnfenced(w, e, as) ==
    LET d == work[w] IN
    /\ envs' = [envs EXCEPT ![d.input] = e]
    /\ status' = IF Fenced(d) THEN [status EXCEPT ![d.job] = as] ELSE status

(* _disposition: the envelope only under the owner's token, the job under its
   own. *)
Dispose(w, e, as) ==
    LET d == work[w] IN
    /\ envs' = IF OwnedBy(d) THEN [envs EXCEPT ![d.input] = e] ELSE envs
    /\ status' = IF Fenced(d) THEN [status EXCEPT ![d.job] = as] ELSE status

Released(e) == [e EXCEPT !.active = NoJob]
Rejected(e) == [e EXCEPT !.life = "COMPLETE", !.ready = FALSE, !.active = NoJob]
(* allocate_repair: a new output, to be rendered anew. *)
Repaired(e) == [e EXCEPT !.life = "AWAITING_RENDER", !.ready = FALSE, !.out = 2, !.repair = 1,
                         !.render = NoRender, !.active = NoJob]

Finalizing(w) ==
    UNCHANGED <<version, stale, marked, target, inbox, current, live, renderVars, callVars,
                hand, faults>>

(* The checks made without locks, down to the artifact's hash.  A render that
   failed on its peak level is repaired once, if its measurement justifies it. *)
Assess(w) ==
    LET d == work[w]
        i == d.input
        e == envs[i]
        r == e.render
        seen == IF r = NoRender THEN "none" ELSE renders[r].life
        usable == seen \in Finalizable /\ curRender = r /\ Bound(i) IN
    /\ d.pc = "assess"
    /\ \/ e.life = "CANCELLED" /\ Dispose(w, Released(e), "CANCELLED") /\ Ack(w)
       \/ /\ e.life # "CANCELLED" /\ (OwnedBy(d) => ~usable)
          /\ Dispose(w, Released(e), IF OwnedBy(d) /\ seen = "CANCELLED" THEN "CANCELLED" ELSE "SUCCEEDED")
          /\ Ack(w)
       \/ /\ e.life # "CANCELLED" /\ OwnedBy(d) /\ usable
          /\ \/ live # i /\ Dispose(w, Superseded(e), "SUCCEEDED") /\ Ack(w)
             \/ live = i /\ Dispose(w, Rejected(e), "SUCCEEDED") /\ Ack(w)
             \/ /\ live = i /\ seen = "PEAK" /\ e.repair = 0
                /\ Dispose(w, Repaired(e), "SUCCEEDED") /\ HandsOff(w)
             \/ /\ live = i /\ seen = "COMPLETE"
                /\ work' = [work EXCEPT ![w] = [@ EXCEPT !.pc = "publish", !.key = r]]
                /\ UNCHANGED <<envs, status>>
    /\ Finalizing(w)

(* Mutant: what the assessment has read is not read again under the locks. *)
PublishUnchecked(w) ==
    LET e == envs[work[w].input] IN
    /\ work[w].pc = "publish"
    /\ Dispose(w, [Rejected(e) EXCEPT !.ready = TRUE], "SUCCEEDED")
    /\ Ack(w)
    /\ Finalizing(w)

(* _publish_assessment: under the locks everything is checked again; the replay
   of an assessment leaves the envelope of a finished generation as it is. *)
Publish(w) ==
    LET d == work[w]
        i == d.input
        e == envs[i]
        bound == renders[d.key].life = "COMPLETE" /\ e.render = d.key /\ curRender = d.key IN
    /\ d.pc = "publish"
    /\ \/ ~bound /\ Dispose(w, Released(e), "SUCCEEDED")
       \/ bound /\ e.life = "CANCELLED" /\ Dispose(w, Released(e), IF OwnedBy(d) THEN "CANCELLED" ELSE "SUCCEEDED")
       \/ bound /\ e.life # "CANCELLED" /\ live # i /\ Dispose(w, Superseded(e), "SUCCEEDED")
       \/ bound /\ e.life # "CANCELLED" /\ live = i /\ ~Bound(i) /\ Dispose(w, Released(e), "SUCCEEDED")
       \/ /\ bound /\ e.life # "CANCELLED" /\ live = i /\ Bound(i)
          /\ \E f \in {Released(e), Rejected(e), [Rejected(e) EXCEPT !.ready = TRUE]} :
               Dispose(w, f, "SUCCEEDED")
       \/ bound /\ e.life = "COMPLETE" /\ live = i /\ Bound(i) /\ Dispose(w, e, "SUCCEEDED")
    /\ Ack(w)
    /\ Finalizing(w)

-----------------------------------------------------------------------------
(* Failures. *)

Raise(w) ==
    /\ Fault("raise")
    /\ work[w].pc \in {"claim", "claimed", "take", "own"} \union Owning
    /\ Fails(w)
    /\ UNCHANGED <<jobVars, inbox, envVars, live, renderVars, callVars, hand>>

(* Mutant: a failure is written over a cancellation. *)
FailCancelled(w) ==
    LET d == work[w]
        fails == IF d.token = 0 THEN status[d.job] = "QUEUED" ELSE version[d.job] = d.token IN
    /\ d.pc = "fail"
    /\ status' = IF fails THEN [status EXCEPT ![d.job] = "FAILED"] ELSE status
    /\ Ack(w)
    /\ UNCHANGED <<version, stale, marked, target, inbox, envVars, live, renderVars, callVars, hand,
                   faults>>

(* record_failure, which without a token fails a job that is QUEUED, and the retry
   of run_materialization_job. *)
Fail(w) ==
    LET d == work[w]
        fails == IF d.token = 0 THEN status[d.job] = "QUEUED" ELSE Fenced(d) IN
    /\ d.pc = "fail"
    /\ status' = IF fails THEN [status EXCEPT ![d.job] = "FAILED"] ELSE status
    /\ \/ d.phase = "prepare" /\ version[d.job] < MaxClaims /\ Send(d.job)
       \/ UNCHANGED inbox
    /\ Ack(w)
    /\ UNCHANGED <<version, stale, marked, target, envVars, live, renderVars, callVars, hand, faults>>

(* The heartbeat of a run has grown old: of an abandoned one, or of an owner that
   stalls.  Its age is only read by a claim, so it only counts while a message or
   another delivery of the job is there. *)
GoStale(j) ==
    /\ status[j] = "RUNNING" /\ j \notin stale
    /\ stale' = stale \union {j}
    /\ inbox[j] > 0 \/ \E w \in Workers : work[w].job = j /\ work[w].pc = "claim"
    /\ \/ "stall" \in Faults
       \/ \A w \in Workers : work[w].job # j \/ work[w].token # version[j]
    /\ \/ "claimStall" \in Faults
       \/ \A w \in Workers : work[w].job # j \/ work[w].pc # "claimed"
    /\ UNCHANGED <<status, version, marked, target, inbox, envVars, live, renderVars, callVars,
                   work, hand, faults>>

Crash(w) ==
    /\ Fault("crash")
    /\ work[w].pc # "idle" /\ Send(work[w].job)
    /\ Ack(w)
    /\ UNCHANGED <<jobVars, envVars, live, renderVars, callVars, hand>>

Redeliver(w) ==
    /\ Fault("redeliver")
    /\ work[w].pc # "idle" /\ Send(work[w].job)
    /\ UNCHANGED <<jobVars, envVars, live, renderVars, callVars, work, hand>>

-----------------------------------------------------------------------------
WorkerStep(w) ==
    \/ ClaimJob(w) \/ ReadToken(w) \/ Rebind(w) \/ TakePrepare(w) \/ TakeFinalize(w)
    \/ Prepare(w) \/ Call(w) \/ Record(w) \/ Decide(w) \/ Commit(w)
    \/ HandOffQueues(w) \/ HandOffBinds(w) \/ HandOffDelivers(w)
    \/ Assess(w) \/ Publish(w)
    \/ Fail(w)

RenderStep(k) == RenderBegins(k) \/ RenderEnds(k) \/ CallbackReads(k) \/ CallbackBinds(k)

Next ==
    \/ \E force \in BOOLEAN : Post(force)
    \/ \E i \in Inputs : Resume(i) \/ Cancel(i)
    \/ \E j \in Jobs : CancelJob(j) \/ GoStale(j)
    \/ RequestBinds \/ RequestDelivers
    \/ \E w \in Workers : WorkerStep(w) \/ Raise(w) \/ Crash(w) \/ Redeliver(w)
    \/ \E w \in Workers, j \in Jobs : Deliver(w, j)
    \/ \E k \in Renders : RenderStep(k) \/ RenderCancelled(k)
    \/ EditUpstream

Spec == Init /\ [][Next]_vars

(* Workers, broker and renderer go on, and an operator who is waiting asks
   again. *)
FairSpec ==
    /\ Spec
    /\ \A w \in Workers : WF_vars(WorkerStep(w))
    /\ \A j \in Jobs : WF_vars(\E w \in Workers : Deliver(w, j)) /\ WF_vars(GoStale(j))
    /\ \A k \in Renders : WF_vars(RenderStep(k))
    /\ WF_vars(RequestBinds \/ RequestDelivers)
    /\ WF_vars(Post(FALSE))

-----------------------------------------------------------------------------
Owners(i) == {w \in Workers : work[w].pc \in Owning /\ work[w].input = i /\ OwnedBy(work[w])}

(* An envelope has at most one owner: of two deliveries of one job, or of two
   jobs, only one passes the check that reservation, commit and publication
   make. *)
SingleOwner == \A i \in Inputs : \A v, w \in Owners(i) : v = w

(* No call is spent twice: the ledger stays within the budget, nothing is
   called after an attempt whose outcome is unknown, nor after one was accepted. *)
CallsAreSafe ==
    \A i \in Inputs :
        LET calls == envs[i].ledger IN
        /\ Len(calls) <= Budget
        /\ \A n \in 1..(Len(calls) - 1) : calls[n] \notin {"RESERVED", "UNCERTAIN"}
        /\ envs[i].accepted => Len(calls) > 0 /\ calls[Len(calls)] = "RESPONDED"

(* While an envelope is owned only its owner changes it, unless the owner's job
   is cancelled; what is left is the render binding, which no token guards. *)
OwnerKeepsEnvelope ==
    [][\A i \in Inputs : \A w \in Owners(i) :
         \/ work'[w] # work[w]
         \/ status'[work[w].job] # "RUNNING" \/ version'[work[w].job] # work[w].token
         \/ [envs'[i] EXCEPT !.render = NoRender] = [envs[i] EXCEPT !.render = NoRender]]_vars

(* A generation becomes reviewable on the completed, current render of its
   present revision, while it is current and its inputs are live. *)
PublishFresh ==
    [][\A i \in Inputs :
         (~envs[i].ready /\ envs'[i].ready) =>
            /\ current = i /\ live = i
            /\ Bound(i) /\ renders[envs[i].render].life = "COMPLETE" /\ curRender = envs[i].render]_vars

(* The repair is spent once, on a render that failed on its peak level, and is
   never given back. *)
RepairIsSpent ==
    [][\A i \in Inputs :
         /\ envs'[i].repair >= envs[i].repair
         /\ envs'[i].repair > envs[i].repair =>
              /\ envs[i].render = <<i, envs[i].out, 0>> /\ renders[envs[i].render].life = "PEAK"
              /\ envs'[i].out = 2]_vars

(* queue.py: "nothing silently regenerates to force output": a cancelled
   generation stays cancelled until it is resumed. *)
CancelledStays ==
    [][\A i \in Inputs :
         envs[i].life = "CANCELLED" => envs'[i].life \in {"CANCELLED", "QUEUED"}]_vars

(* queue.py: "never finalize a still active render". *)
ActiveRenderIsKept ==
    [][\A i \in Inputs :
         envs[i].life = "AWAITING_RENDER" /\ envs'[i].life = "COMPLETE"
            => envs[i].render # NoRender /\ renders[envs[i].render].job = "none"]_vars

(* A reviewable generation keeps the binding it was published with. *)
ReadyIsBound == \A i \in Inputs : envs[i].ready => Bound(i)

(* A generation that is asked for again and again, while its inputs are live,
   is settled, unless the bound leaves no job. *)
RequestIsSettled ==
    \A i \in Inputs :
        LET waits == current = i /\ live = i /\ envs[i].life \in {"QUEUED", "AWAITING_RENDER"} IN
        waits ~> (~waits \/ status[NJobs] # "none")

(* workers/tasks.py: "a lost callback is recoverable through POST/resume": the
   same of one whose render has ended. *)
PendingFinalizationRecovers ==
    \A i \in Inputs :
        LET waits == current = i /\ live = i /\ Ended(i) IN
        waits ~> (~waits \/ status[NJobs] # "none")

-----------------------------------------------------------------------------
(* The newest claim is held from its commit on. *)
Holds(w, j) ==
    /\ work[w].job = j
    /\ work[w].pc = "claimed" \/ (work[w].token # 0 /\ work[w].token = version[j])

Job == INSTANCE FencedJob WITH
    Holders <- Workers, Results <- Inputs,
    holder <- [j \in Jobs |-> {w \in Workers : Holds(w, j)}],
    published <- {i \in Inputs : envs[i].ready}

(* Materialization implements the fenced job: an assessment becomes reviewable,
   and a job ends, by the holder of its newest claim, as long as no claim stalls
   before its token is read. *)
JobRefinement == Job!JobSpec
=============================================================================
