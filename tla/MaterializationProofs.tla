----------------------- MODULE MaterializationProofs -----------------------
(***************************************************************************)
(* Theorems of Materialization for any number of inputs, jobs and          *)
(* deliveries.  Those about envelopes hold under every fault; those about  *)
(* claim tokens, unless a claim stalls before its token is read.           *)
(***************************************************************************)
EXTENDS Materialization, SequenceTheorems, TLAPS

(* What no step of a request, of a render or of the environment does to jobs:
   one that exists does not vanish, and none begins to run. *)
JobsKept ==
    \A j \in Jobs :
        /\ status[j] # "none" => status'[j] # "none"
        /\ status'[j] = "RUNNING" => status[j] = "RUNNING"

(* An envelope that does not exist has no past, no job and no callback. *)
NoneInv ==
    /\ \A i \in Inputs : envs[i].life = "none" =>
         /\ envs[i].ledger = <<>> /\ ~envs[i].accepted /\ envs[i].claim = 0
         /\ envs[i].repair = 0 /\ ~envs[i].ready /\ envs[i].active = NoJob
    /\ \A k \in asking : envs[k[1]].life # "none"

(* What such a step leaves of an envelope e, now f: its calls, its claim and its
   repair. *)
Like(e, f) ==
    /\ f.ledger = e.ledger /\ f.accepted = e.accepted /\ f.claim = e.claim
    /\ f.repair = e.repair /\ (f.ready => e.ready)
    /\ f.life = "none" => e.life = "none"

EnvsKept ==
    \A i \in Inputs :
        /\ Like(envs[i], envs'[i])
        /\ \/ envs'[i].active \in {envs[i].active, NoJob}
           \/ envs'[i].active \in Jobs /\ status[envs'[i].active] = "none" /\ envs'[i].life # "none"

(* An envelope whose job runs keeps all but its render, unless the job ends. *)
ActiveKept ==
    \A i \in Inputs : \A j \in Jobs :
        (envs[i].active = j /\ status[j] = "RUNNING" /\ target[j] = i) =>
            \/ status'[j] # "RUNNING"
            \/ [envs'[i] EXCEPT !.render = NoRender] = [envs[i] EXCEPT !.render = NoRender]

Kept == version' = version /\ JobsKept /\ EnvsKept /\ ActiveKept

LEMMA FaultCounts ==
  ASSUME faults \in Nat, NEW kind, Fault(kind)
  PROVE  faults' \in Nat
BY DEF Fault

LEMMA DispatchType ==
  ASSUME JobsOK, faults \in Nat, NEW j \in Jobs, Dispatch(j)
  PROVE  /\ marked' \subseteq Jobs /\ faults' \in Nat
         /\ inbox' = inbox \/ inbox' = [inbox EXCEPT ![j] = @ + 1]
BY DEF Dispatch, Send, Fault, JobsOK

LEMMA NewJobType ==
  ASSUME TypeOK, NEW i \in Inputs, NEW e \in Envelopes, NewJob(i, e)
  PROVE  /\ JobsOK' /\ JobsKept /\ faults' \in Nat /\ version' = version
         /\ \E j \in Jobs : status[j] = "none" /\ envs' = [envs EXCEPT ![i] = [e EXCEPT !.active = j]]
         /\ envs' \in [Inputs -> Envelopes]
<1>1. PICK j \in Jobs :
        /\ status[j] = "none"
        /\ status' = [status EXCEPT ![j] = "QUEUED"]
        /\ target' = [target EXCEPT ![j] = i]
        /\ envs' = [envs EXCEPT ![i] = [e EXCEPT !.active = j]]
        /\ Dispatch(j)
        /\ UNCHANGED <<version, stale>>
  BY DEF NewJob, NextJob
<1>2. /\ marked' \subseteq Jobs /\ faults' \in Nat
      /\ inbox' = inbox \/ inbox' = [inbox EXCEPT ![j] = @ + 1]
  BY <1>1, DispatchType DEF TypeOK
<1>3. status' \in [Jobs -> JobStatus] /\ target' \in [Jobs -> Inputs \union {NoInput}] /\ inbox' \in [Jobs -> Nat]
  BY <1>1, <1>2 DEF TypeOK, JobsOK, JobStatus
<1>4. JobsKept
  BY <1>1 DEF TypeOK, JobsOK, JobsKept
<1>5. \A k \in Jobs : status'[k] # "none" => target'[k] \in Inputs
  BY <1>1 DEF TypeOK, JobsOK
<1>6. \A k \in Jobs : inbox'[k] > 0 => status'[k] # "none"
  BY <1>1, <1>2, <1>4 DEF TypeOK, JobsOK, JobsKept
<1>7. JobsOK'
  BY <1>1, <1>2, <1>3, <1>5, <1>6 DEF TypeOK, JobsOK
<1>8. [e EXCEPT !.active = j] \in Envelopes
  BY DEF Envelopes
<1>9. envs' \in [Inputs -> Envelopes]
  BY <1>1, <1>8 DEF TypeOK, EnvsOK
<1> QED
  BY <1>1, <1>2, <1>4, <1>7, <1>9

LEMMA QueueRenderType ==
  ASSUME RendersOK, NEW k \in Renders, QueueRender(k)
  PROVE  renders' \in [Renders -> RenderRows] /\ curRender' \in Renders
<1>1. Requeued(renders[k]) \in RenderRows
  BY DEF RendersOK, Requeued, RenderRows, Finalizable
<1>2. [renders EXCEPT ![k].job = "unsent"] \in [Renders -> RenderRows]
  BY DEF RendersOK, RenderRows
<1> QED
  BY <1>1, <1>2 DEF RendersOK, QueueRender

LEMMA DeliverRenderType ==
  ASSUME RendersOK, faults \in Nat, NEW k \in Renders, DeliverRender(k)
  PROVE  renders' \in [Renders -> RenderRows] /\ faults' \in Nat
<1>1. \A job \in {"sent", "marked"} : [renders EXCEPT ![k].job = IF @ = "unsent" THEN job ELSE @]
                                      \in [Renders -> RenderRows]
  BY DEF RendersOK, RenderRows
<1> QED
  BY <1>1 DEF RendersOK, DeliverRender, Fault

LEMMA RevisionType ==
  ASSUME NEW i \in Inputs, NEW e \in Envelopes, e.out # 0
  PROVE  <<i, e.out, e.repair>> \in Renders
BY DEF Renders, Envelopes

-----------------------------------------------------------------------------
(* Requests. *)

LEMMA StartHandOffType ==
  ASSUME TypeOK, NEW i \in Inputs, NEW e \in Envelopes, StartHandOff(i, e)
  PROVE  /\ UNCHANGED callVars => RendersOK'
         /\ envs' \in [Inputs -> Envelopes]
         /\ UNCHANGED <<jobVars, inbox, faults>>
         /\ envs' = [envs EXCEPT ![i] = e] \/ \E k \in Renders : envs' = [envs EXCEPT ![i] = [e EXCEPT !.render = k]]
<1> DEFINE k == <<i, e.out, e.repair>>
<1>1. k \in Renders
  BY RevisionType DEF StartHandOff
<1>2. QueueRender(k)
  BY DEF StartHandOff
<1>3. renders' \in [Renders -> RenderRows] /\ curRender' \in Renders
  BY <1>1, <1>2, QueueRenderType DEF TypeOK
<1>4. hand' \in Hands /\ hand'.key \in Renders
  BY <1>1 DEF StartHandOff, Hands
<1>5. envs' = [envs EXCEPT ![i] = e] \/ envs' = [envs EXCEPT ![i] = [e EXCEPT !.render = k]]
  BY DEF StartHandOff
<1>6. [e EXCEPT !.render = k] \in Envelopes
  BY <1>1 DEF Envelopes
<1>7. envs' \in [Inputs -> Envelopes]
  BY <1>5, <1>6 DEF TypeOK, EnvsOK
<1>8. UNCHANGED callVars => RendersOK'
  BY <1>3, <1>4 DEF TypeOK, RendersOK, callVars
<1>9. UNCHANGED <<jobVars, inbox, faults>>
  BY DEF StartHandOff
<1> QED
  BY <1>1, <1>5, <1>7, <1>8, <1>9

LEMMA NewJobKeeps ==
  ASSUME TypeOK, NEW i \in Inputs, NEW e \in Envelopes, NewJob(i, e),
         Like(envs[i], e), e.life # "none", ActiveJobs(i) = {} \/ envs[i].active = NoJob
  PROVE  Kept
<1>1. PICK j \in Jobs : status[j] = "none" /\ envs' = [envs EXCEPT ![i] = [e EXCEPT !.active = j]]
  BY NewJobType
<1>2. version' = version /\ JobsKept
  BY NewJobType
<1>3. EnvsKept
  BY <1>1 DEF EnvsKept, Like, TypeOK, EnvsOK, Envelopes
<1>4. ActiveKept
  BY <1>1, MaterializationConstants DEF ActiveKept, ActiveJobs, Active, TypeOK, EnvsOK
<1> QED
  BY <1>2, <1>3, <1>4 DEF Kept

LEMMA StartHandOffKeeps ==
  ASSUME TypeOK, NEW i \in Inputs, NEW e \in Envelopes, StartHandOff(i, e),
         Like(envs[i], e), e.active \in {envs[i].active, NoJob}, ActiveJobs(i) = {}
  PROVE  Kept
<1>1. \/ envs' = [envs EXCEPT ![i] = e]
      \/ \E k \in Renders : envs' = [envs EXCEPT ![i] = [e EXCEPT !.render = k]]
  BY StartHandOffType
<1>2. UNCHANGED jobVars
  BY DEF StartHandOff
<1>3. version' = version /\ JobsKept
  BY <1>2 DEF jobVars, JobsKept
<1>4. EnvsKept
  <2>1. \A k \in Renders : Like(envs[i], [e EXCEPT !.render = k]) /\ [e EXCEPT !.render = k].active = e.active
    BY DEF Like, Envelopes
  <2>2. Like(envs[i], envs'[i]) /\ envs'[i].active = e.active
    BY <1>1, <2>1 DEF TypeOK, EnvsOK
  <2>3. \A h \in Inputs : h # i => envs'[h] = envs[h]
    BY <1>1 DEF TypeOK, EnvsOK
  <2> QED
    BY <2>2, <2>3 DEF EnvsKept, Like
<1>5. ActiveKept
  BY <1>1 DEF ActiveKept, ActiveJobs, Active, TypeOK, EnvsOK
<1> QED
  BY <1>3, <1>4, <1>5 DEF Kept

LEMMA RedispatchType ==
  ASSUME TypeOK, NEW i \in Inputs, Redispatch(i)
  PROVE  JobsOK' /\ faults' \in Nat /\ Kept /\ envs' = envs /\ UNCHANGED <<renderVars, hand>>
<1>1. /\ UNCHANGED <<status, version, stale, target, envs, renderVars, hand>>
      /\ marked' \subseteq Jobs /\ faults' \in Nat
      /\ inbox' = inbox \/ \E j \in Jobs : status[j] # "none" /\ inbox' = [inbox EXCEPT ![j] = @ + 1]
  <2>1. PICK j \in Latest(ActiveJobs(i)) :
          IF status[j] = "QUEUED" /\ j \in marked THEN Dispatch(j) ELSE UNCHANGED <<marked, inbox, faults>>
    BY DEF Redispatch
  <2>2. j \in Jobs /\ status[j] # "none"
    BY DEF Latest, ActiveJobs, Active
  <2> QED
    BY <2>1, <2>2, DispatchType DEF Redispatch, TypeOK, JobsOK
<1>2. JobsOK'
  BY <1>1 DEF TypeOK, JobsOK
<1>3. Kept
  BY <1>1 DEF Kept, JobsKept, EnvsKept, ActiveKept, Like
<1> QED
  BY <1>1, <1>2, <1>3

LEMMA RouteType ==
  ASSUME TypeOK, NEW i \in Inputs, Route(i), UNCHANGED callVars,
         ActiveJobs(i) = {}, envs[i].life = "AWAITING_RENDER"
  PROVE  JobsOK' /\ RendersOK' /\ envs' \in [Inputs -> Envelopes] /\ faults' \in Nat /\ Kept
<1> DEFINE r == envs[i].render
<1>1. CASE r # NoRender /\ RecoverRender(r)
  <2>1. r \in Renders
    BY <1>1 DEF TypeOK, EnvsOK, Envelopes
  <2>2. /\ UNCHANGED <<jobVars, inbox, envs, curRender, hand>>
        /\ renders' \in [Renders -> RenderRows] /\ faults' \in Nat
    BY <1>1, <2>1 DEF RecoverRender, Fault, TypeOK, RendersOK, RenderRows
  <2>3. Kept
    BY <2>2 DEF Kept, JobsKept, EnvsKept, ActiveKept, Like, jobVars
  <2> QED
    BY <2>2, <2>3 DEF TypeOK, JobsOK, EnvsOK, RendersOK, jobVars, callVars
<1>2. CASE Nothing
  <2>1. Kept
    BY <1>2 DEF Nothing, Kept, JobsKept, EnvsKept, ActiveKept, Like, jobVars
  <2> QED
    BY <1>2, <2>1 DEF Nothing, TypeOK, JobsOK, EnvsOK, RendersOK, jobVars, callVars, renderVars
<1>3. CASE NewJob(i, envs[i]) /\ UNCHANGED <<renderVars, hand>>
  <2>1. envs[i] \in Envelopes /\ Like(envs[i], envs[i]) /\ envs[i].life # "none"
    BY DEF TypeOK, EnvsOK, Like
  <2>2. Kept
    BY <1>3, <2>1, NewJobKeeps
  <2>3. JobsOK' /\ envs' \in [Inputs -> Envelopes] /\ faults' \in Nat
    BY <1>3, <2>1, NewJobType
  <2> QED
    BY <1>3, <2>2, <2>3 DEF TypeOK, RendersOK, callVars, renderVars
<1>4. CASE StartHandOff(i, envs[i])
  <2>1. envs[i] \in Envelopes /\ Like(envs[i], envs[i])
    BY DEF TypeOK, EnvsOK, Like
  <2>2. Kept
    BY <1>4, <2>1, StartHandOffKeeps
  <2>3. RendersOK' /\ envs' \in [Inputs -> Envelopes] /\ UNCHANGED <<jobVars, inbox, faults>>
    BY <1>4, <2>1, StartHandOffType
  <2> QED
    BY <2>2, <2>3 DEF TypeOK, JobsOK, jobVars
<1> QED
  BY <1>1, <1>2, <1>3, <1>4 DEF Route

LEMMA QuietKept ==
  ASSUME UNCHANGED <<version, envs>>, JobsKept
  PROVE  Kept
BY DEF Kept, EnvsKept, ActiveKept, Like

LEMMA WorkStays ==
  ASSUME WorkOK, JobsKept, work' = work
  PROVE  WorkOK'
BY DEF WorkOK, JobsKept

LEMMA CreatedType ==
  ASSUME EnvsOK, NoneInv, NEW i \in Inputs
  PROVE  /\ Created(i) \in Envelopes /\ Created(i).life # "none"
         /\ Like(envs[i], Created(i)) /\ Created(i).active = envs[i].active
         /\ envs[i].life # "none" => Created(i) = envs[i]
<1>1. <<>> \in Seq(AttemptStatus)
  OBVIOUS
<1>2. NoEnvelope \in Envelopes
  BY <1>1 DEF NoEnvelope, Envelopes
<1>3. /\ NoEnvelope.ledger = <<>> /\ NoEnvelope.accepted = FALSE /\ NoEnvelope.claim = 0
      /\ NoEnvelope.repair = 0 /\ NoEnvelope.ready = FALSE /\ NoEnvelope.active = NoJob
  BY DEF NoEnvelope
<1>4. \A e \in Envelopes :
        LET f == [e EXCEPT !.life = "QUEUED"] IN
        /\ f \in Envelopes /\ f.life = "QUEUED" /\ f.ledger = e.ledger /\ f.accepted = e.accepted
        /\ f.claim = e.claim /\ f.repair = e.repair /\ f.ready = e.ready /\ f.active = e.active
  BY DEF Envelopes, Lifecycle
<1>5. envs[i] \in Envelopes /\ envs[i].accepted \in BOOLEAN
  BY DEF EnvsOK, Envelopes
<1>6. CASE envs[i].life = "none"
  <2> DEFINE f == [NoEnvelope EXCEPT !.life = "QUEUED"]
  <2>1. Created(i) = f
    BY <1>6 DEF Created
  <2>2. /\ f \in Envelopes /\ f.life = "QUEUED" /\ f.ledger = <<>> /\ f.accepted = FALSE
        /\ f.claim = 0 /\ f.repair = 0 /\ f.ready = FALSE /\ f.active = NoJob
    BY <1>2, <1>3, <1>4
  <2> HIDE DEF f
  <2> QED
    BY <1>5, <1>6, <2>1, <2>2 DEF NoneInv, Like
<1>7. CASE envs[i].life # "none"
  BY <1>5, <1>7 DEF Created, Like
<1> QED
  BY <1>6, <1>7

LEMMA RecoverType ==
  ASSUME TypeOK, NEW i \in Inputs, Recover(i), UNCHANGED callVars, ActiveJobs(i) = {}
  PROVE  JobsOK' /\ RendersOK' /\ envs' \in [Inputs -> Envelopes] /\ faults' \in Nat /\ Kept
<1> DEFINE e == Recovered(envs[i])
           f == Reopened(envs[i])
<1>1. envs[i] \in Envelopes
  BY DEF TypeOK, EnvsOK
<1>2. /\ e \in Envelopes /\ Like(envs[i], e) /\ e.active \in {envs[i].active, NoJob}
      /\ f \in Envelopes /\ Like(envs[i], f) /\ f.life # "none"
  BY <1>1 DEF Recovered, Reopened, Envelopes, Lifecycle, Like
<1> HIDE DEF e, f
<1>3. CASE StartHandOff(i, e)
  <2>1. RendersOK' /\ envs' \in [Inputs -> Envelopes] /\ UNCHANGED <<jobVars, inbox, faults>>
    BY <1>2, <1>3, StartHandOffType
  <2>2. Kept
    BY <1>2, <1>3, StartHandOffKeeps
  <2> QED
    BY <2>1, <2>2 DEF TypeOK, JobsOK, jobVars
<1>4. CASE NewJob(i, f) /\ UNCHANGED <<renderVars, hand>>
  <2>1. Kept
    BY <1>2, <1>4, NewJobKeeps
  <2>2. JobsOK' /\ envs' \in [Inputs -> Envelopes] /\ faults' \in Nat
    BY <1>2, <1>4, NewJobType
  <2> QED
    BY <1>4, <2>1, <2>2 DEF TypeOK, RendersOK, callVars, renderVars
<1> QED
  BY <1>3, <1>4 DEF Recover, e, f

LEMMA PostType ==
  ASSUME TypeOK, NoneInv, NEW force \in BOOLEAN, Post(force)
  PROVE  TypeOK' /\ Kept /\ work' = work
<1> DEFINE i == live
           e == Created(i)
           free == ActiveJobs(i) = {}
<1>1. i \in Inputs /\ current' = i /\ UNCHANGED <<live, callVars, work>>
  BY DEF Post, TypeOK, EnvsOK
<1>2. e \in Envelopes /\ e.life # "none" /\ Like(envs[i], e)
  BY <1>1, CreatedType DEF TypeOK
<1>3. JobsOK' /\ RendersOK' /\ envs' \in [Inputs -> Envelopes] /\ faults' \in Nat /\ Kept
  <2>1. CASE ~free /\ Redispatch(i)
    <3>1. JobsOK' /\ faults' \in Nat /\ Kept /\ envs' = envs /\ UNCHANGED <<renderVars, hand>>
      BY <1>1, <2>1, RedispatchType
    <3> QED
      BY <1>1, <3>1 DEF TypeOK, EnvsOK, RendersOK, renderVars, callVars
  <2>2. CASE free /\ Recover(i)
    BY <1>1, <2>2, RecoverType
  <2>3. CASE free /\ e.life = "AWAITING_RENDER" /\ Route(i)
    <3>1. envs[i].life = "AWAITING_RENDER"
      BY <2>3 DEF Created, NoEnvelope
    <3> QED
      BY <1>1, <2>3, <3>1, RouteType
  <2>4. CASE Nothing
    <3>1. Kept
      BY <2>4, QuietKept DEF Nothing, jobVars, JobsKept
    <3> QED
      BY <1>1, <2>4, <3>1 DEF Nothing, TypeOK, JobsOK, EnvsOK, RendersOK, jobVars, callVars, renderVars
  <2>5. CASE free /\ NewJob(i, e) /\ UNCHANGED <<renderVars, hand>>
    <3>1. Kept
      BY <1>1, <1>2, <2>5, NewJobKeeps
    <3>2. JobsOK' /\ envs' \in [Inputs -> Envelopes] /\ faults' \in Nat
      BY <1>1, <1>2, <2>5, NewJobType
    <3> QED
      BY <1>1, <2>5, <3>1, <3>2 DEF TypeOK, RendersOK, callVars, renderVars
  <2> QED
    BY <2>1, <2>2, <2>3, <2>4, <2>5 DEF Post
<1>4. WorkOK'
  BY <1>1, <1>3, WorkStays DEF TypeOK, Kept
<1> QED
  BY <1>1, <1>3, <1>4 DEF TypeOK, EnvsOK

LEMMA ResumeType ==
  ASSUME TypeOK, NEW i \in Inputs, Resume(i)
  PROVE  TypeOK' /\ Kept /\ work' = work
<1> DEFINE e == envs[i]
           free == ActiveJobs(i) = {}
<1>1. UNCHANGED <<current, live, callVars, work>>
  BY DEF Resume
<1>2. e \in Envelopes
  BY DEF TypeOK, EnvsOK
<1>3. JobsOK' /\ RendersOK' /\ envs' \in [Inputs -> Envelopes] /\ faults' \in Nat /\ Kept
  <2>1. CASE ~free /\ Redispatch(i)
    <3>1. JobsOK' /\ faults' \in Nat /\ Kept /\ envs' = envs /\ UNCHANGED <<renderVars, hand>>
      BY <2>1, RedispatchType
    <3> QED
      BY <1>1, <3>1 DEF TypeOK, EnvsOK, RendersOK, renderVars, callVars
  <2>2. CASE free /\ Recover(i)
    BY <1>1, <2>2, RecoverType
  <2>3. CASE free /\ e.life = "AWAITING_RENDER" /\ Route(i)
    BY <1>1, <2>3, RouteType
  <2>4. CASE free /\ e.life \in {"QUEUED", "CANCELLED"} /\ NewJob(i, [e EXCEPT !.life = "QUEUED"])
               /\ UNCHANGED <<renderVars, hand>>
    <3>1. /\ [e EXCEPT !.life = "QUEUED"] \in Envelopes
          /\ Like(envs[i], [e EXCEPT !.life = "QUEUED"])
          /\ [e EXCEPT !.life = "QUEUED"].life # "none"
      BY <1>2, <2>4 DEF Envelopes, Lifecycle, Like
    <3>2. Kept
      BY <2>4, <3>1, NewJobKeeps
    <3>3. JobsOK' /\ envs' \in [Inputs -> Envelopes] /\ faults' \in Nat
      BY <2>4, <3>1, NewJobType
    <3> QED
      BY <1>1, <2>4, <3>2, <3>3 DEF TypeOK, RendersOK, callVars, renderVars
  <2> QED
    BY <2>1, <2>2, <2>3, <2>4 DEF Resume
<1>4. WorkOK'
  BY <1>1, <1>3, WorkStays DEF TypeOK, Kept
<1> QED
  BY <1>1, <1>3, <1>4 DEF TypeOK, EnvsOK

LEMMA CancelType ==
  ASSUME TypeOK, NEW i \in Inputs, Cancel(i)
  PROVE  TypeOK' /\ Kept /\ work' = work
<1> DEFINE r == envs[i].render
<1>1. /\ UNCHANGED <<version, stale, marked, target, inbox, current, live, curRender, callVars, work, hand>>
      /\ faults' \in Nat
      /\ status' = [j \in Jobs |-> IF j \in ActiveJobs(i) THEN "CANCELLED" ELSE status[j]]
      /\ envs' = [envs EXCEPT ![i].life = "CANCELLED", ![i].active = NoJob, ![i].ready = FALSE]
  BY FaultCounts DEF Cancel, TypeOK
<1>2. JobsKept /\ status' \in [Jobs -> JobStatus]
  BY <1>1 DEF JobsKept, TypeOK, JobsOK, JobStatus
<1>3. JobsOK'
  BY <1>1, <1>2 DEF TypeOK, JobsOK, JobsKept, ActiveJobs, Active
<1>4. envs' \in [Inputs -> Envelopes]
  <2>1. [envs[i] EXCEPT !.life = "CANCELLED", !.active = NoJob, !.ready = FALSE] \in Envelopes
    BY DEF TypeOK, EnvsOK, Envelopes, Lifecycle
  <2> QED
    BY <1>1, <2>1 DEF TypeOK, EnvsOK
<1>5. renders' \in [Renders -> RenderRows]
  <2>1. renders' = renders \/ (r \in Renders /\ renders' = [renders EXCEPT ![r] = [life |-> "CANCELLED", job |-> "none"]])
    BY DEF Cancel, TypeOK, EnvsOK, Envelopes
  <2> QED
    BY <2>1 DEF TypeOK, RendersOK, RenderRows
<1>6. Kept
  <2>1. EnvsKept
    BY <1>1 DEF EnvsKept, Like, TypeOK, EnvsOK, Envelopes
  <2>2. ActiveKept
    BY <1>1 DEF ActiveKept, ActiveJobs, Active, TypeOK, EnvsOK, JobsOK
  <2> QED
    BY <1>1, <1>2, <2>1, <2>2 DEF Kept
<1>7. WorkOK'
  BY <1>1, <1>2, WorkStays DEF TypeOK
<1> QED
  BY <1>1, <1>3, <1>4, <1>5, <1>6, <1>7 DEF TypeOK, EnvsOK, RendersOK, callVars

LEMMA RebindType ==
  ASSUME NEW e \in Envelopes, NEW k \in Renders
  PROVE  LET f == [e EXCEPT !.render = k] IN
         /\ f \in Envelopes /\ Like(e, f) /\ f.active = e.active
         /\ [f EXCEPT !.render = NoRender] = [e EXCEPT !.render = NoRender]
BY DEF Envelopes, Like

LEMMA RequestType ==
  ASSUME TypeOK, RequestBinds \/ RequestDelivers
  PROVE  TypeOK' /\ Kept /\ work' = work
<1>1. CASE RequestBinds
  <2>1. /\ UNCHANGED <<jobVars, inbox, current, live, renderVars, callVars, work, faults>>
        /\ hand.key \in Renders /\ hand.key[1] \in Inputs
        /\ envs' = [envs EXCEPT ![hand.key[1]].render = hand.key]
        /\ hand' = [hand EXCEPT !.at = "deliver"]
    BY <1>1 DEF RequestBinds, TypeOK, RendersOK, Renders
  <2>2. envs' \in [Inputs -> Envelopes]
    <3>1. \A h \in Inputs, k \in Renders : [envs[h] EXCEPT !.render = k] \in Envelopes
      BY DEF TypeOK, EnvsOK, Envelopes
    <3> QED
      BY <2>1, <3>1 DEF TypeOK, EnvsOK
  <2>3. RendersOK'
    BY <2>1 DEF TypeOK, RendersOK, Hands, renderVars, callVars
  <2>4. EnvsKept /\ ActiveKept
    <3> DEFINE i == hand.key[1]
               f == [envs[i] EXCEPT !.render = hand.key]
    <3>1. envs[i] \in Envelopes /\ envs' = [envs EXCEPT ![i] = f]
      BY <2>1 DEF TypeOK, EnvsOK
    <3>2. /\ Like(envs[i], f) /\ f.active = envs[i].active
          /\ [f EXCEPT !.render = NoRender] = [envs[i] EXCEPT !.render = NoRender]
      BY <2>1, <3>1, RebindType
    <3> HIDE DEF f
    <3>3. \A h \in Inputs : /\ Like(envs[h], envs'[h]) /\ envs'[h].active = envs[h].active
                            /\ [envs'[h] EXCEPT !.render = NoRender] = [envs[h] EXCEPT !.render = NoRender]
      <4>1. envs'[i] = f /\ \A h \in Inputs : h # i => envs'[h] = envs[h]
        BY <2>1, <3>1 DEF TypeOK, EnvsOK
      <4> QED
        BY <3>2, <4>1 DEF Like
    <3> QED
      BY <3>3 DEF EnvsKept, ActiveKept
  <2> QED
    BY <2>1, <2>2, <2>3, <2>4 DEF Kept, JobsKept, TypeOK, JobsOK, EnvsOK, WorkOK, jobVars
<1>2. CASE RequestDelivers
  <2>1. /\ UNCHANGED <<jobVars, inbox, envVars, live, curRender, asking, work>>
        /\ hand.key \in Renders /\ hand' = NoHand /\ callbacks' \subseteq Renders
    BY <1>2 DEF RequestDelivers, TypeOK, RendersOK
  <2>2. renders' \in [Renders -> RenderRows] /\ faults' \in Nat
    BY <1>2, <2>1, DeliverRenderType DEF RequestDelivers, TypeOK
  <2>3. NoHand \in Hands /\ NoHand.at = "idle"
    BY DEF NoHand, Hands
  <2>4. Kept
    BY <2>1, QuietKept DEF JobsKept, jobVars, envVars
  <2> QED
    BY <2>1, <2>2, <2>3, <2>4 DEF TypeOK, JobsOK, EnvsOK, RendersOK, WorkOK, jobVars, envVars
<1> QED
  BY <1>1, <1>2

-----------------------------------------------------------------------------
(* Renders, and what else is outside the deliveries. *)

LEMMA RenderType ==
  ASSUME TypeOK, NoneInv, NEW k \in Renders, RenderStep(k) \/ RenderCancelled(k)
  PROVE  TypeOK' /\ Kept /\ work' = work
<1>1. CASE CallbackBinds(k)
  <2>1. /\ UNCHANGED <<current, live, renderVars, callbacks, work, hand>>
        /\ asking' = asking \ {k} /\ k[1] \in Inputs /\ envs[k[1]].life # "none"
    BY <1>1 DEF CallbackBinds, Renders, NoneInv
  <2>2. CASE current = k[1] /\ envs[k[1]].active = NoJob /\ NewJob(k[1], envs[k[1]])
    <3>1. envs[k[1]] \in Envelopes
      BY <2>1 DEF TypeOK, EnvsOK
    <3>2. /\ JobsOK' /\ JobsKept /\ faults' \in Nat /\ version' = version
          /\ \E j \in Jobs : status[j] = "none" /\ envs' = [envs EXCEPT ![k[1]] = [envs[k[1]] EXCEPT !.active = j]]
          /\ envs' \in [Inputs -> Envelopes]
      BY <2>1, <2>2, <3>1, NewJobType
    <3>3. EnvsKept
      <4>1. PICK j \in Jobs : status[j] = "none" /\ envs' = [envs EXCEPT ![k[1]] = [envs[k[1]] EXCEPT !.active = j]]
        BY <3>2
      <4>2. envs'[k[1]] = [envs[k[1]] EXCEPT !.active = j] /\ \A h \in Inputs : h # k[1] => envs'[h] = envs[h]
        BY <2>1, <4>1 DEF TypeOK, EnvsOK
      <4>3. Like(envs[k[1]], envs'[k[1]]) /\ envs'[k[1]].active = j /\ envs'[k[1]].life # "none"
        BY <2>1, <3>1, <4>2 DEF Like, Envelopes
      <4> QED
        BY <4>1, <4>2, <4>3 DEF EnvsKept, Like
    <3>4. ActiveKept
      BY <2>1, <2>2, <3>2, MaterializationConstants DEF ActiveKept, TypeOK, EnvsOK
    <3>5. WorkOK'
      BY <2>1, <3>2, WorkStays DEF TypeOK
    <3> QED
      BY <2>1, <3>2, <3>3, <3>4, <3>5 DEF Kept, TypeOK, EnvsOK, RendersOK, renderVars
  <2>3. CASE UNCHANGED <<jobVars, inbox, envs, faults>>
    <3>1. Kept
      BY <2>3, QuietKept DEF JobsKept, jobVars
    <3> QED
      BY <2>1, <2>3, <3>1 DEF TypeOK, JobsOK, EnvsOK, RendersOK, WorkOK, jobVars, renderVars
  <2> QED
    BY <1>1, <2>2, <2>3 DEF CallbackBinds
<1>2. CASE RenderBegins(k) \/ RenderEnds(k) \/ CallbackReads(k) \/ RenderCancelled(k)
  <2>1. UNCHANGED <<jobVars, inbox, envVars, live, curRender, work, hand>>
    BY <1>2 DEF RenderBegins, RenderEnds, CallbackReads, RenderCancelled, callVars, renderVars
  <2>2. faults' \in Nat
    BY <1>2 DEF RenderBegins, RenderEnds, CallbackReads, RenderCancelled, Fault, TypeOK
  <2>3. callbacks' \subseteq Renders /\ asking' \subseteq Renders
    BY <1>2 DEF RenderBegins, RenderEnds, CallbackReads, RenderCancelled, TypeOK, RendersOK, callVars
  <2>4. renders' \in [Renders -> RenderRows]
    <3> USE DEF TypeOK, RendersOK, RenderRows, Finalizable
    <3>1. CASE RenderBegins(k)  BY <3>1 DEF RenderBegins
    <3>2. CASE RenderEnds(k)  BY <3>2 DEF RenderEnds
    <3>3. CASE CallbackReads(k)  BY <3>3 DEF CallbackReads, renderVars
    <3>4. CASE RenderCancelled(k)  BY <3>4 DEF RenderCancelled
    <3> QED  BY <1>2, <3>1, <3>2, <3>3, <3>4
  <2>5. Kept
    BY <2>1, QuietKept DEF JobsKept, jobVars, envVars
  <2> QED
    BY <2>1, <2>2, <2>3, <2>4, <2>5 DEF TypeOK, JobsOK, EnvsOK, RendersOK, WorkOK, jobVars, envVars
<1> QED
  BY <1>1, <1>2 DEF RenderStep

LEMMA EnvironmentType ==
  ASSUME TypeOK, EditUpstream \/ \E j \in Jobs : CancelJob(j) \/ GoStale(j)
  PROVE  TypeOK' /\ Kept /\ work' = work
<1>1. /\ UNCHANGED <<version, marked, target, inbox, envVars, renderVars, callVars, work, hand>>
      /\ faults' \in Nat
  BY DEF EditUpstream, CancelJob, GoStale, Fault, TypeOK, jobVars
<1>2. live' \in Inputs /\ stale' \subseteq Jobs
  BY DEF EditUpstream, CancelJob, GoStale, TypeOK, JobsOK, EnvsOK, jobVars
<1>3. status' = status \/ \E j \in Jobs : status[j] # "none" /\ status' = [status EXCEPT ![j] = "CANCELLED"]
  BY DEF EditUpstream, CancelJob, GoStale, Active, jobVars
<1>4. JobsKept /\ status' \in [Jobs -> JobStatus]
  BY <1>3 DEF JobsKept, TypeOK, JobsOK, JobStatus
<1>5. Kept
  BY <1>1, <1>4, QuietKept DEF envVars
<1>6. JobsOK'
  BY <1>1, <1>2, <1>3, <1>4 DEF TypeOK, JobsOK, JobsKept
<1>7. WorkOK'
  BY <1>1, <1>4, WorkStays DEF TypeOK
<1> QED
  BY <1>1, <1>2, <1>5, <1>6, <1>7 DEF TypeOK, EnvsOK, RendersOK, envVars, renderVars, callVars

(* Every step that is not a delivery's. *)
Outside ==
    \/ \E force \in BOOLEAN : Post(force)
    \/ \E i \in Inputs : Resume(i) \/ Cancel(i)
    \/ RequestBinds \/ RequestDelivers
    \/ \E k \in Renders : RenderStep(k) \/ RenderCancelled(k)
    \/ EditUpstream \/ \E j \in Jobs : CancelJob(j) \/ GoStale(j)

LEMMA OutsideKeeps ==
  ASSUME TypeOK, NoneInv, Outside
  PROVE  TypeOK' /\ Kept /\ work' = work
BY PostType, ResumeType, CancelType, RequestType, RenderType, EnvironmentType DEF Outside

-----------------------------------------------------------------------------
(* Deliveries: how they go on, and what they write. *)

(* It has read the token of its claim, or has failed before. *)
Past(d) == d.pc \notin {"idle", "claim", "claimed"}

(* Delivery w goes on or ends, with the claims it has. *)
Steps(w) ==
    /\ \A v \in Workers \ {w} : work'[v] = work[v]
    /\ work'[w] # work[w]
    /\ Past(work'[w]) => work'[w].job = work[w].job /\ work'[w].token = work[w].token
    /\ work'[w].pc \in Owning => /\ work[w].pc \in Owning
                                 /\ work'[w].input = work[w].input /\ work'[w].claim = work[w].claim

(* A delivery that is about to call, or has, was so before. *)
Calls(w) ==
    work'[w].pc \in {"call", "record"} =>
        work[w].pc \in {"call", "record"} /\ work'[w].attempt = work[w].attempt

(* An envelope is written by its owner only. *)
Edits(w) ==
    \/ envs' = envs
    \/ /\ work[w].pc \in Owning /\ OwnedBy(work[w])
       /\ \E f \in Envelopes :
            /\ envs' = [envs EXCEPT ![work[w].input] = f]
            /\ f.claim = envs[work[w].input].claim
            /\ f.life = "none" => envs[work[w].input].life = "none"

AllLike == \A i \in Inputs : Like(envs[i], envs'[i])

JobsStay == \A j \in Jobs : status[j] # "none" => status'[j] # "none"

LEMMA IdleType == Idle \in Deliveries /\ Idle.pc = "idle"
BY DEF Idle, Deliveries, WorkerPC

LEMMA MovesType ==
  ASSUME WorkOK, JobsStay, NEW w \in Workers, NEW d \in Deliveries, work' = [work EXCEPT ![w] = d],
         d.pc # "idle" => d.job \in Jobs /\ status'[d.job] # "none",
         d.pc \in {"take", "own"} \union Owning \union {"handoff", "bind"} => d.input \in Inputs,
         d.pc \in {"bind", "deliver", "publish"} => d.key \in Renders
  PROVE  WorkOK' /\ work'[w] = d /\ \A v \in Workers \ {w} : work'[v] = work[v]
<1>1. work' \in [Workers -> Deliveries] /\ work'[w] = d /\ \A v \in Workers \ {w} : work'[v] = work[v]
  BY DEF WorkOK
<1> QED
  BY <1>1 DEF WorkOK, JobsStay

LEMMA AckType ==
  ASSUME WorkOK, JobsStay, NEW w \in Workers, work[w].pc # "idle", Ack(w)
  PROVE  WorkOK' /\ Steps(w) /\ Calls(w)
<1>1. WorkOK' /\ work'[w] = Idle /\ \A v \in Workers \ {w} : work'[v] = work[v]
  BY IdleType, MovesType DEF Ack, Owning
<1> QED
  BY <1>1, IdleType DEF Steps, Calls, Past, Owning

LEMMA FailsType ==
  ASSUME WorkOK, JobsStay, NEW w \in Workers, Fails(w),
         work[w].pc \in {"claim", "claimed", "take", "own"} \union Owning
  PROVE  WorkOK' /\ Steps(w) /\ Calls(w)
<1> DEFINE d == [Idle EXCEPT !.pc = "fail", !.job = work[w].job, !.token = work[w].token, !.phase = work[w].phase]
<1>1. /\ work[w].job \in Jobs /\ work[w].token \in Nat /\ work[w].phase \in {"prepare", "finalize"}
      /\ status[work[w].job] # "none" /\ work[w].pc # "fail"
  BY DEF WorkOK, Deliveries, Owning
<1>2. d \in Deliveries /\ d.pc = "fail" /\ d.job = work[w].job /\ d.token = work[w].token
  BY <1>1, IdleType DEF Deliveries, WorkerPC
<1> HIDE DEF d
<1>3. work' = [work EXCEPT ![w] = d]
  BY DEF Fails, d
<1>4. WorkOK' /\ work'[w] = d /\ \A v \in Workers \ {w} : work'[v] = work[v]
  BY <1>1, <1>2, <1>3, MovesType DEF Owning, JobsStay
<1> QED
  BY <1>1, <1>2, <1>4 DEF Steps, Calls, Past, Owning

LEMMA HandsOffType ==
  ASSUME WorkOK, JobsStay, NEW w \in Workers, work[w].pc \in Owning, HandsOff(w)
  PROVE  WorkOK' /\ Steps(w) /\ Calls(w)
<1> DEFINE d == [Idle EXCEPT !.pc = "handoff", !.job = work[w].job, !.token = work[w].token, !.input = work[w].input]
<1>1. /\ work[w].job \in Jobs /\ work[w].token \in Nat /\ work[w].input \in Inputs
      /\ status[work[w].job] # "none" /\ Past(work[w]) /\ work[w].pc # "handoff"
  BY DEF WorkOK, Deliveries, Past, Owning
<1>2. /\ d \in Deliveries /\ d.pc = "handoff" /\ d.job = work[w].job /\ d.token = work[w].token
      /\ d.input = work[w].input
  BY <1>1, IdleType DEF Deliveries, WorkerPC, HandOff
<1> HIDE DEF d
<1>3. work' = [work EXCEPT ![w] = d]
  BY DEF HandsOff, d
<1>4. WorkOK' /\ work'[w] = d /\ \A v \in Workers \ {w} : work'[v] = work[v]
  BY <1>1, <1>2, <1>3, MovesType DEF Owning, JobsStay
<1> QED
  BY <1>1, <1>2, <1>4 DEF Steps, Calls, Past, Owning

LEMMA GotoType ==
  ASSUME WorkOK, JobsStay, NEW w \in Workers, work[w].pc \in Owning, NEW label \in Owning \ {"publish"},
         label # work[w].pc, label \in {"call", "record"} => work[w].pc \in {"call", "record"}, Goto(w, label)
  PROVE  WorkOK' /\ Steps(w) /\ Calls(w)
<1> DEFINE d == [work[w] EXCEPT !.pc = label]
<1>1. work[w].job \in Jobs /\ work[w].input \in Inputs /\ status[work[w].job] # "none" /\ Past(work[w])
  BY DEF WorkOK, Past, Owning
<1>2. /\ d \in Deliveries /\ d.pc = label /\ d.job = work[w].job /\ d.token = work[w].token
      /\ d.input = work[w].input /\ d.claim = work[w].claim /\ d.attempt = work[w].attempt
  BY DEF WorkOK, Deliveries, WorkerPC
<1> HIDE DEF d
<1>3. work' = [work EXCEPT ![w] = d]
  BY DEF Goto, d
<1>4. WorkOK' /\ work'[w] = d /\ \A v \in Workers \ {w} : work'[v] = work[v]
  BY <1>1, <1>2, <1>3, MovesType DEF Owning, JobsStay
<1> QED
  BY <1>1, <1>2, <1>4 DEF Steps, Calls, Past, Owning

LEMMA DecidedType ==
  ASSUME WorkOK, JobsStay, NEW w \in Workers, work[w].pc \in {"prepare", "call", "record"},
         NEW good \in BOOLEAN, Decided(w, good)
  PROVE  WorkOK' /\ Steps(w) /\ Calls(w)
<1> DEFINE d == [work[w] EXCEPT !.pc = "decide", !.good = good, !.attempt = 0]
<1>1. /\ work[w].job \in Jobs /\ work[w].input \in Inputs /\ status[work[w].job] # "none"
      /\ Past(work[w]) /\ work[w].pc \in Owning
  BY DEF WorkOK, Past, Owning
<1>2. /\ d \in Deliveries /\ d.pc = "decide" /\ d.job = work[w].job /\ d.token = work[w].token
      /\ d.input = work[w].input /\ d.claim = work[w].claim
  BY DEF WorkOK, Deliveries, WorkerPC, Owning
<1> HIDE DEF d
<1>3. work' = [work EXCEPT ![w] = d]
  BY DEF Decided, d
<1>4. WorkOK' /\ work'[w] = d /\ \A v \in Workers \ {w} : work'[v] = work[v]
  BY <1>1, <1>2, <1>3, MovesType DEF Owning, JobsStay
<1> QED
  BY <1>1, <1>2, <1>4 DEF Steps, Calls, Past, Owning

(* The repair and the publication are left alone. *)
Calm == \A i \in Inputs : envs'[i].repair = envs[i].repair /\ (envs'[i].ready => envs[i].ready)

LEMMA LedgerMarked ==
  ASSUME NEW s \in Seq(AttemptStatus), NEW n \in Nat, NEW as \in AttemptStatus
  PROVE  /\ [s EXCEPT ![n] = as] \in Seq(AttemptStatus)
         /\ Len([s EXCEPT ![n] = as]) = Len(s)
         /\ \A m \in 1..Len(s) : [s EXCEPT ![n] = as][m] = IF m = n THEN as ELSE s[m]
<1>1. CASE n \in 1..Len(s)
  <2>1. [s EXCEPT ![n] = as] \in Seq(AttemptStatus)
    BY <1>1, ExceptSeq
  <2>2. Len([s EXCEPT ![n] = as]) = Len(s)
    BY <1>1
  <2>3. s \in [1..Len(s) -> AttemptStatus]
    OBVIOUS
  <2>4. \A m \in 1..Len(s) : [s EXCEPT ![n] = as][m] = IF m = n THEN as ELSE s[m]
    BY <1>1, <2>3
  <2> QED
    BY <2>1, <2>2, <2>4
<1>2. CASE n \notin 1..Len(s)
  <2>1. s \in [1..Len(s) -> AttemptStatus]
    OBVIOUS
  <2>2. [s EXCEPT ![n] = as] = s
    BY <1>2, <2>1
  <2> QED
    BY <1>2, <2>2
<1> QED
  BY <1>1, <1>2

LEMMA MarkedType ==
  ASSUME TypeOK, NEW w \in Workers, work[w].pc \in {"call", "record"}, NEW as \in AttemptStatus
  PROVE  LET i == work[w].input
             n == work[w].attempt
             s == envs[i].ledger IN
         \/ Marked(w, as) = envs
         \/ /\ OwnedBy(work[w]) /\ i \in Inputs
            /\ \E f \in Envelopes :
                 /\ Marked(w, as) = [envs EXCEPT ![i] = f]
                 /\ f.claim = envs[i].claim /\ f.life = envs[i].life /\ f.repair = envs[i].repair
                 /\ f.ready = envs[i].ready /\ f.accepted = envs[i].accepted
                 /\ Len(f.ledger) = Len(s)
                 /\ \A m \in 1..Len(s) : f.ledger[m] = IF m = n THEN as ELSE s[m]
<1> DEFINE i == work[w].input
           n == work[w].attempt
           s == envs[i].ledger
           t == [s EXCEPT ![n] = as]
           f == [envs[i] EXCEPT !.ledger = t]
<1>1. CASE ~OwnedBy(work[w])
  BY <1>1 DEF Marked
<1>2. CASE OwnedBy(work[w])
  <2>1. i \in Inputs /\ n \in Nat /\ envs[i] \in Envelopes /\ s \in Seq(AttemptStatus)
    BY DEF TypeOK, WorkOK, EnvsOK, Deliveries, Envelopes, Owning
  <2>2. /\ t \in Seq(AttemptStatus) /\ Len(t) = Len(s)
        /\ \A m \in 1..Len(s) : t[m] = IF m = n THEN as ELSE s[m]
    <3> HIDE DEF s, n
    <3>1. t \in Seq(AttemptStatus)
      BY <2>1, LedgerMarked
    <3>2. Len(t) = Len(s)
      BY <2>1, LedgerMarked
    <3>3. \A m \in 1..Len(s) : t[m] = IF m = n THEN as ELSE s[m]
      BY <2>1, LedgerMarked
    <3> QED
      BY <3>1, <3>2, <3>3
  <2>3. Marked(w, as) = [envs EXCEPT ![i] = f]
    BY <1>2, <2>1 DEF Marked
  <2> HIDE DEF t
  <2>4. /\ f \in Envelopes /\ f.ledger = t
        /\ f.claim = envs[i].claim /\ f.life = envs[i].life /\ f.repair = envs[i].repair
        /\ f.ready = envs[i].ready /\ f.accepted = envs[i].accepted
    BY <2>1, <2>2 DEF Envelopes
  <2> HIDE DEF f
  <2> QED
    BY <1>2, <2>1, <2>2, <2>3, <2>4
<1> QED
  BY <1>1, <1>2

(* What preparing does to an envelope e of the owner, now f: attempt n, the
   last one, is marked, or one more is reserved. *)
Marks(e, f, n, as) ==
    /\ Len(f.ledger) = Len(e.ledger)
    /\ \A m \in 1..Len(e.ledger) : f.ledger[m] = IF m = n THEN as ELSE e.ledger[m]
    /\ f.accepted = e.accepted \/ (f.accepted /\ as = "RESPONDED")
Reserves(e, f) ==
    /\ ~e.accepted /\ f.accepted = e.accepted /\ Len(e.ledger) < Budget
    /\ Len(e.ledger) > 0 => e.ledger[Len(e.ledger)] \notin {"RESERVED", "UNCERTAIN"}
    /\ f.ledger = Append(e.ledger, "RESERVED")

Spends(w) ==
    LET d == work[w]
        e == envs[d.input]
        last == Len(e.ledger) IN
    \/ envs' = envs /\ Calls(w)
    \/ /\ d.pc \in {"prepare", "call", "record"} /\ OwnedBy(d)
       /\ \E f \in Envelopes :
            /\ envs' = [envs EXCEPT ![d.input] = f]
            /\ f.claim = e.claim /\ f.life = e.life /\ f.repair = e.repair /\ f.ready = e.ready
            /\ \/ /\ d.pc = "prepare" /\ Reserves(e, f)
                  /\ work'[w].pc = "call" /\ work'[w].attempt = last + 1
               \/ /\ d.pc = "prepare" /\ ~e.accepted /\ f.accepted = e.accepted
                  /\ last > 0 /\ Marks(e, f, last, "UNCERTAIN") /\ work'[w].pc \notin {"call", "record"}
               \/ d.pc \in {"call", "record"} /\ \E as \in AttemptStatus :
                    Marks(e, f, d.attempt, as) /\ work'[w].pc \notin {"call", "record"}

LEMMA PreparingType ==
  ASSUME TypeOK, NEW w \in Workers, Preparing(w), WorkOK', envs' \in [Inputs -> Envelopes], faults' \in Nat
  PROVE  TypeOK' /\ version' = version /\ JobsKept
BY DEF Preparing, TypeOK, JobsOK, EnvsOK, RendersOK, JobsKept, jobVars, renderVars, callVars

LEMMA PrepareType ==
  ASSUME TypeOK, NEW w \in Workers, Prepare(w)
  PROVE  TypeOK' /\ version' = version /\ JobsKept /\ Steps(w) /\ Spends(w)
<1> DEFINE d == work[w]
           i == d.input
           e == envs[i]
           s == e.ledger
           last == Len(s)
           unresolved == last > 0 /\ s[last] \in {"RESERVED", "UNCERTAIN"}
<1>1. /\ d.pc = "prepare" /\ Preparing(w) /\ faults' \in Nat /\ WorkOK /\ JobsStay
      /\ i \in Inputs /\ e \in Envelopes /\ s \in Seq(AttemptStatus) /\ last \in Nat /\ d \in Deliveries
  BY DEF Prepare, Preparing, TypeOK, WorkOK, EnvsOK, Owning, Envelopes, JobsStay, jobVars
<1>2. WorkOK' /\ envs' \in [Inputs -> Envelopes] /\ Steps(w) /\ Spends(w)
  <2>1. CASE Fails(w) /\ UNCHANGED envs
    BY <1>1, <2>1, FailsType DEF Owning, Spends, TypeOK, EnvsOK
  <2>2. CASE (\E good \in BOOLEAN : Decided(w, good)) /\ UNCHANGED envs
    BY <1>1, <2>2, DecidedType DEF Owning, Spends, TypeOK, EnvsOK
  <2>3. CASE OwnedBy(d) /\ ~e.accepted /\ Decided(w, FALSE) /\ unresolved
             /\ envs' = [envs EXCEPT ![i].ledger[last] = "UNCERTAIN"]
    <3> DEFINE t == [s EXCEPT ![last] = "UNCERTAIN"]
               f == [e EXCEPT !.ledger = t]
    <3>1. /\ t \in Seq(AttemptStatus) /\ Len(t) = Len(s)
          /\ \A m \in 1..Len(s) : t[m] = IF m = last THEN "UNCERTAIN" ELSE s[m]
      <4> HIDE DEF s, last
      <4>0. "UNCERTAIN" \in AttemptStatus
        BY DEF AttemptStatus
      <4>1. t \in Seq(AttemptStatus)
        BY <1>1, <4>0, LedgerMarked
      <4>2. Len(t) = Len(s)
        BY <1>1, <4>0, LedgerMarked
      <4>3. \A m \in 1..Len(s) : t[m] = IF m = last THEN "UNCERTAIN" ELSE s[m]
        BY <1>1, <4>0, LedgerMarked
      <4> QED
        BY <4>1, <4>2, <4>3
    <3>2. envs' = [envs EXCEPT ![i] = f]
      BY <1>1, <2>3
    <3> HIDE DEF t
    <3>3. /\ f \in Envelopes /\ f.ledger = t /\ f.claim = e.claim /\ f.life = e.life
          /\ f.repair = e.repair /\ f.ready = e.ready /\ f.accepted = e.accepted
      BY <1>1, <3>1 DEF Envelopes
    <3> HIDE DEF f
    <3>4. Marks(e, f, last, "UNCERTAIN")
      BY <3>1, <3>3 DEF Marks
    <3>5. Spends(w)
      <4>1. work'[w].pc = "decide"
        BY <1>1, <2>3 DEF Decided, WorkOK, Deliveries
      <4> QED
        BY <1>1, <2>3, <3>2, <3>3, <3>4, <4>1 DEF Spends
    <3>6. WorkOK' /\ Steps(w)
      BY <1>1, <2>3, DecidedType
    <3>7. envs' \in [Inputs -> Envelopes]
      BY <3>2, <3>3 DEF TypeOK, EnvsOK
    <3> QED
      BY <3>5, <3>6, <3>7
  <2>4. CASE /\ OwnedBy(d) /\ ~e.accepted /\ last < Budget /\ ~unresolved
             /\ envs' = [envs EXCEPT ![i].ledger = Append(@, "RESERVED")]
             /\ work' = [work EXCEPT ![w] = [@ EXCEPT !.pc = "call", !.attempt = last + 1]]
    <3> DEFINE t == Append(s, "RESERVED")
               f == [e EXCEPT !.ledger = t]
               g == [d EXCEPT !.pc = "call", !.attempt = last + 1]
    <3>1. t \in Seq(AttemptStatus)
      <4>1. "RESERVED" \in AttemptStatus
        BY DEF AttemptStatus
      <4> QED
        BY <1>1, <4>1, AppendProperties
    <3>2. envs' = [envs EXCEPT ![i] = f]
      BY <1>1, <2>4
    <3>3. /\ f \in Envelopes /\ f.ledger = Append(s, "RESERVED") /\ f.claim = e.claim /\ f.life = e.life
          /\ f.repair = e.repair /\ f.ready = e.ready /\ f.accepted = e.accepted
      BY <1>1, <3>1 DEF Envelopes
    <3>4. /\ g \in Deliveries /\ g.pc = "call" /\ g.attempt = last + 1 /\ g.job = d.job /\ g.token = d.token
          /\ g.input = i /\ g.claim = d.claim
      <4> HIDE DEF d, last
      <4>1. last + 1 \in Nat
        BY <1>1
      <4> QED
        BY <1>1, <4>1 DEF Deliveries, WorkerPC, Owning
    <3>5. work' = [work EXCEPT ![w] = g]
      BY <2>4
    <3> HIDE DEF f, g
    <3>6. WorkOK' /\ work'[w] = g /\ \A v \in Workers \ {w} : work'[v] = work[v]
      BY <1>1, <3>4, <3>5, MovesType DEF WorkOK, Owning, JobsStay
    <3>7. Steps(w)
      BY <1>1, <3>4, <3>6 DEF Steps, Past, Owning
    <3>8. Reserves(e, f)
      BY <2>4, <3>3 DEF Reserves
    <3>9. Spends(w)
      BY <1>1, <2>4, <3>2, <3>3, <3>4, <3>6, <3>8 DEF Spends
    <3>10. envs' \in [Inputs -> Envelopes]
      BY <3>2, <3>3 DEF TypeOK, EnvsOK
    <3> QED
      BY <3>6, <3>7, <3>9, <3>10
  <2>5. CASE Decided(w, FALSE) /\ UNCHANGED envs
    BY <1>1, <2>5, DecidedType DEF Owning, Spends, TypeOK, EnvsOK
  <2> QED
    BY <2>1, <2>2, <2>3, <2>4, <2>5 DEF Prepare
<1> QED
  BY <1>1, <1>2, PreparingType

LEMMA MarkSpends ==
  ASSUME TypeOK, NEW w \in Workers, work[w].pc \in {"call", "record"}, NEW as \in AttemptStatus,
         envs' = Marked(w, as), work'[w].pc \notin {"call", "record"}
  PROVE  Spends(w) /\ envs' \in [Inputs -> Envelopes]
<1> DEFINE i == work[w].input
           n == work[w].attempt
           s == envs[i].ledger
<1>1. CASE Marked(w, as) = envs
  BY <1>1 DEF Spends, Calls, TypeOK, EnvsOK
<1>2. CASE Marked(w, as) # envs
  <2>1. PICK f \in Envelopes :
          /\ Marked(w, as) = [envs EXCEPT ![i] = f]
          /\ f.claim = envs[i].claim /\ f.life = envs[i].life /\ f.repair = envs[i].repair
          /\ f.ready = envs[i].ready /\ f.accepted = envs[i].accepted
          /\ Len(f.ledger) = Len(s)
          /\ \A m \in 1..Len(s) : f.ledger[m] = IF m = n THEN as ELSE s[m]
    BY <1>2, MarkedType
  <2>2. OwnedBy(work[w]) /\ i \in Inputs
    BY <1>2, MarkedType
  <2>3. Marks(envs[i], f, n, as)
    BY <2>1 DEF Marks
  <2> QED
    BY <2>1, <2>2, <2>3 DEF Spends, TypeOK, EnvsOK
<1> QED
  BY <1>1, <1>2

LEMMA CallType ==
  ASSUME TypeOK, NEW w \in Workers, Call(w)
  PROVE  TypeOK' /\ version' = version /\ JobsKept /\ Steps(w) /\ Calls(w) /\ Spends(w)
<1>1. work[w].pc = "call" /\ Preparing(w) /\ WorkOK /\ JobsStay /\ faults' \in Nat
  <2>1. work[w].pc = "call" /\ Preparing(w) /\ WorkOK
    BY DEF Call, TypeOK
  <2>2. JobsStay
    BY <2>1 DEF Preparing, JobsStay, jobVars
  <2>3. faults' = faults \/ Fault("raise")
    BY DEF Call
  <2> QED
    BY <2>1, <2>2, <2>3, FaultCounts DEF TypeOK
<1>2. WorkOK' /\ envs' \in [Inputs -> Envelopes] /\ Steps(w) /\ Calls(w) /\ Spends(w)
  <2>1. CASE Goto(w, "record") /\ UNCHANGED envs
    BY <1>1, <2>1, GotoType DEF Owning, Spends, TypeOK, EnvsOK
  <2>2. CASE Decided(w, FALSE) /\ UNCHANGED envs
    BY <1>1, <2>2, DecidedType DEF Spends, TypeOK, EnvsOK
  <2>3. CASE Fails(w) /\ \E as \in AttemptStatus \ {"RESERVED"} : envs' = Marked(w, as)
    <3>1. WorkOK' /\ Steps(w) /\ Calls(w)
      BY <1>1, <2>3, FailsType DEF Owning
    <3>2. work'[w].pc = "fail"
      BY <2>3 DEF Fails, Idle, TypeOK, WorkOK
    <3> QED
      BY <1>1, <2>3, <3>1, <3>2, MarkSpends
  <2> QED
    BY <2>1, <2>2, <2>3 DEF Call
<1> QED
  BY <1>1, <1>2, PreparingType

LEMMA RecordType ==
  ASSUME TypeOK, NEW w \in Workers, Record(w)
  PROVE  TypeOK' /\ version' = version /\ JobsKept /\ Steps(w) /\ Calls(w) /\ Spends(w)
<1> DEFINE i == work[w].input
           n == work[w].attempt
           s == envs[i].ledger
<1>1. work[w].pc = "record" /\ Preparing(w) /\ WorkOK /\ JobsStay /\ faults' \in Nat
  BY DEF Record, Preparing, TypeOK, JobsStay, jobVars
<1>2. "RESPONDED" \in AttemptStatus /\ {"FAILED_KNOWN", "UNCERTAIN"} \subseteq AttemptStatus
  BY DEF AttemptStatus
<1>3. WorkOK' /\ envs' \in [Inputs -> Envelopes] /\ Steps(w) /\ Calls(w) /\ Spends(w)
  <2>1. CASE \E as \in AttemptStatus : envs' = Marked(w, as) /\ (Decided(w, FALSE) \/ Goto(w, "prepare"))
    <3>1. WorkOK' /\ Steps(w) /\ Calls(w)
      BY <1>1, <2>1, DecidedType, GotoType DEF Owning
    <3>2. work'[w].pc \notin {"call", "record"}
      <4>1. CASE Decided(w, FALSE)
        BY <4>1 DEF Decided, TypeOK, WorkOK, Deliveries
      <4>2. CASE Goto(w, "prepare")
        BY <4>2 DEF Goto, TypeOK, WorkOK, Deliveries
      <4> QED
        BY <2>1, <4>1, <4>2
    <3> QED
      BY <1>1, <2>1, <3>1, <3>2, MarkSpends
  <2>2. CASE /\ \E good \in BOOLEAN : Decided(w, good)
             /\ envs' = IF OwnedBy(work[w])
                        THEN [Marked(w, "RESPONDED") EXCEPT ![i].accepted = TRUE] ELSE envs
    <3>1. WorkOK' /\ Steps(w) /\ Calls(w)
      BY <1>1, <2>2, DecidedType
    <3>2. work'[w].pc \notin {"call", "record"}
      BY <2>2 DEF Decided, TypeOK, WorkOK, Deliveries
    <3>3. CASE ~OwnedBy(work[w])
      BY <2>2, <3>1, <3>3 DEF Spends, TypeOK, EnvsOK
    <3>4. CASE OwnedBy(work[w])
      <4> DEFINE t == [s EXCEPT ![n] = "RESPONDED"]
                 f == [envs[i] EXCEPT !.ledger = t, !.accepted = TRUE]
      <4>1. i \in Inputs /\ n \in Nat /\ envs[i] \in Envelopes /\ s \in Seq(AttemptStatus)
        BY <1>1 DEF TypeOK, WorkOK, EnvsOK, Deliveries, Envelopes, Owning
      <4>2. /\ t \in Seq(AttemptStatus) /\ Len(t) = Len(s)
            /\ \A m \in 1..Len(s) : t[m] = IF m = n THEN "RESPONDED" ELSE s[m]
        <5> HIDE DEF s, n
        <5>1. t \in Seq(AttemptStatus)
          BY <1>2, <4>1, LedgerMarked
        <5>2. Len(t) = Len(s)
          BY <1>2, <4>1, LedgerMarked
        <5>3. \A m \in 1..Len(s) : t[m] = IF m = n THEN "RESPONDED" ELSE s[m]
          BY <1>2, <4>1, LedgerMarked
        <5> QED
          BY <5>1, <5>2, <5>3
      <4>3. envs' = [envs EXCEPT ![i] = f]
        <5>1. Marked(w, "RESPONDED") = [envs EXCEPT ![i].ledger[n] = "RESPONDED"]
          BY <3>4 DEF Marked
        <5>2. envs \in [Inputs -> Envelopes]
          BY DEF TypeOK, EnvsOK
        <5> QED
          BY <2>2, <3>4, <4>1, <5>1, <5>2
      <4> HIDE DEF t
      <4>4. /\ f \in Envelopes /\ f.ledger = t /\ f.accepted
            /\ f.claim = envs[i].claim /\ f.life = envs[i].life /\ f.repair = envs[i].repair
            /\ f.ready = envs[i].ready
        BY <4>1, <4>2 DEF Envelopes
      <4> HIDE DEF f
      <4>5. Marks(envs[i], f, n, "RESPONDED")
        BY <4>2, <4>4 DEF Marks
      <4> QED
        BY <1>1, <1>2, <3>1, <3>2, <3>4, <4>1, <4>3, <4>4, <4>5 DEF Spends, TypeOK, EnvsOK
    <3> QED
      BY <3>3, <3>4
  <2> QED
    BY <1>2, <2>1, <2>2 DEF Record
<1> QED
  BY <1>1, <1>3, PreparingType

LEMMA SettleType ==
  ASSUME TypeOK, NEW w \in Workers, Finalizing(w), faults' = faults, WorkOK',
         status' = status \/ \E as \in JobStatus \ {"none", "RUNNING"} :
                                Fenced(work[w]) /\ status' = [status EXCEPT ![work[w].job] = as],
         envs' \in [Inputs -> Envelopes]
  PROVE  TypeOK' /\ version' = version /\ JobsKept
<1>1. JobsKept /\ status' \in [Jobs -> JobStatus]
  BY DEF TypeOK, JobsOK, JobStatus, JobsKept
<1>2. JobsOK'
  <2>1. \A j \in Jobs : status'[j] # "none" => status[j] # "none"
    BY DEF TypeOK, JobsOK, Fenced
  <2> QED
    BY <1>1, <2>1 DEF TypeOK, JobsOK, JobsKept, Finalizing
<1> QED
  BY <1>1, <1>2 DEF TypeOK, EnvsOK, RendersOK, Finalizing, renderVars, callVars

LEMMA DisposeType ==
  ASSUME TypeOK, NEW w \in Workers, work[w].pc \in Owning, NEW f \in Envelopes, NEW as \in JobStatus \ {"none", "RUNNING"},
         Dispose(w, f, as),
         f.claim = envs[work[w].input].claim, f.life = "none" => envs[work[w].input].life = "none"
  PROVE  /\ status' = status \/ \E to \in JobStatus \ {"none", "RUNNING"} :
                                Fenced(work[w]) /\ status' = [status EXCEPT ![work[w].job] = to]
         /\ JobsStay /\ envs' \in [Inputs -> Envelopes] /\ Edits(w)
         /\ \/ envs' = envs
            \/ OwnedBy(work[w]) /\ envs' = [envs EXCEPT ![work[w].input] = f]
         /\ Like(envs[work[w].input], f) => AllLike
<1>1. status' = status \/ (Fenced(work[w]) /\ status' = [status EXCEPT ![work[w].job] = as])
  BY DEF Dispose
<1>2. JobsStay
  BY <1>1 DEF JobsStay, TypeOK, JobsOK
<1>3. envs' = envs \/ (OwnedBy(work[w]) /\ envs' = [envs EXCEPT ![work[w].input] = f])
  BY DEF Dispose
<1>4. envs' \in [Inputs -> Envelopes]
  BY <1>3 DEF TypeOK, EnvsOK
<1>5. Edits(w)
  BY <1>3 DEF Edits
<1>6. Like(envs[work[w].input], f) => AllLike
  BY <1>3 DEF AllLike, Like, TypeOK, EnvsOK
<1> QED
  BY <1>1, <1>2, <1>3, <1>4, <1>5, <1>6

(* What a finalizer may make of its envelope e. *)
Endings(e) == {e, Released(e), Rejected(e), [Rejected(e) EXCEPT !.ready = TRUE], Superseded(e), Repaired(e)}

LEMMA EndingType ==
  ASSUME NEW e \in Envelopes
  PROVE  /\ \A f \in Endings(e) \union {[Superseded(e) EXCEPT !.out = 0]} :
              f \in Envelopes /\ f.claim = e.claim /\ f.ledger = e.ledger /\ f.accepted = e.accepted
              /\ (f.life = "none" => e.life = "none")
         /\ \A f \in {e, Released(e), Rejected(e), Superseded(e), [Superseded(e) EXCEPT !.out = 0]} : Like(e, f)
         /\ [Rejected(e) EXCEPT !.ready = TRUE].repair = e.repair
         /\ ~Repaired(e).ready /\ Repaired(e).repair = 1 /\ Repaired(e).out = 2
<1>1. Released(e) \in Envelopes /\ Rejected(e) \in Envelopes /\ Superseded(e) \in Envelopes
  BY DEF Released, Rejected, Superseded, Envelopes, Lifecycle
<1>2. Repaired(e) \in Envelopes
  <2>1. 2 \in 0..2 /\ 1 \in 0..1
    OBVIOUS
  <2>2. \A two \in 0..2, one \in 0..1 :
          [e EXCEPT !.life = "AWAITING_RENDER", !.ready = FALSE, !.out = two, !.repair = one,
                    !.render = NoRender, !.active = NoJob] \in Envelopes
    BY DEF Envelopes, Lifecycle
  <2> QED
    BY <2>1, <2>2 DEF Repaired
<1>3. [Rejected(e) EXCEPT !.ready = TRUE] \in Envelopes
  <2>1. \A g \in Envelopes : [g EXCEPT !.ready = TRUE] \in Envelopes
    BY DEF Envelopes
  <2> QED
    BY <1>1, <2>1
<1>4. [Superseded(e) EXCEPT !.out = 0] \in Envelopes
  <2>1. \A g \in Envelopes, zero \in 0..2 : [g EXCEPT !.out = zero] \in Envelopes
    BY DEF Envelopes
  <2>2. 0 \in 0..2
    OBVIOUS
  <2> QED
    BY <1>1, <2>1, <2>2
<1>5. /\ Like(e, e) /\ Like(e, Released(e)) /\ Like(e, Rejected(e)) /\ Like(e, Superseded(e))
      /\ Like(e, [Superseded(e) EXCEPT !.out = 0])
  BY DEF Released, Rejected, Superseded, Envelopes, Like
<1>6. LET g == [Rejected(e) EXCEPT !.ready = TRUE] IN
      g.repair = e.repair /\ g.claim = e.claim /\ g.ledger = e.ledger /\ g.accepted = e.accepted /\ g.life = "COMPLETE"
  BY DEF Rejected, Envelopes
<1>7. LET g == Repaired(e) IN
      /\ ~g.ready /\ g.repair = 1 /\ g.out = 2
      /\ g.claim = e.claim /\ g.ledger = e.ledger /\ g.accepted = e.accepted /\ g.life = "AWAITING_RENDER"
  BY DEF Repaired, Envelopes
<1> QED
  BY <1>1, <1>2, <1>3, <1>4, <1>5, <1>6, <1>7 DEF Like, Endings

LEMMA DecideType ==
  ASSUME TypeOK, NEW w \in Workers, Decide(w)
  PROVE  TypeOK' /\ version' = version /\ JobsKept /\ Steps(w) /\ Calls(w) /\ Edits(w) /\ AllLike
<1> DEFINE d == work[w]
           f == [Superseded(envs[d.input]) EXCEPT !.out = 0]
<1>1. d.pc = "decide" /\ d.pc \in Owning /\ d.input \in Inputs /\ Finalizing(w) /\ faults' = faults /\ WorkOK
  BY DEF Decide, Finalizing, Owning, TypeOK, WorkOK
<1>2. f \in Envelopes /\ f.claim = envs[d.input].claim /\ (f.life = "none" => envs[d.input].life = "none")
      /\ Like(envs[d.input], f)
  BY <1>1, EndingType DEF TypeOK, EnvsOK
<1>3. \/ envs' = envs /\ status' = status
      \/ OwnedBy(d) /\ envs' = [envs EXCEPT ![d.input] = f] /\ status' = [status EXCEPT ![d.job] = "SUCCEEDED"]
  BY <1>1 DEF Decide, TypeOK, EnvsOK
<1> HIDE DEF f
<1>4. /\ status' = status \/ \E as \in JobStatus \ {"none", "RUNNING"} :
                                Fenced(d) /\ status' = [status EXCEPT ![d.job] = as]
      /\ JobsStay /\ envs' \in [Inputs -> Envelopes]
  BY <1>2, <1>3 DEF OwnedBy, JobStatus, JobsStay, TypeOK, JobsOK, EnvsOK
<1>5. Edits(w) /\ AllLike
  BY <1>1, <1>2, <1>3 DEF Edits, AllLike, Like, TypeOK, EnvsOK
<1>6. WorkOK' /\ Steps(w) /\ Calls(w)
  BY <1>1, <1>4, AckType, GotoType DEF Decide, Owning
<1> QED
  BY <1>1, <1>4, <1>5, <1>6, SettleType

LEMMA CommitType ==
  ASSUME TypeOK, NEW w \in Workers, Commit(w)
  PROVE  TypeOK' /\ version' = version /\ JobsKept /\ Steps(w) /\ Calls(w) /\ Edits(w) /\ AllLike
<1> DEFINE d == work[w]
           e == envs[d.input]
           f == [e EXCEPT !.life = IF d.good THEN "AWAITING_RENDER" ELSE "COMPLETE",
                          !.ready = FALSE, !.out = 1, !.active = NoJob]
<1>1. d.pc = "commit" /\ d.pc \in Owning /\ d.input \in Inputs /\ Finalizing(w) /\ faults' = faults /\ WorkOK
  BY DEF Commit, Finalizing, Owning, TypeOK, WorkOK
<1>2. f \in Envelopes /\ f.claim = e.claim /\ f.life # "none" /\ Like(e, f)
  <2>1. e \in Envelopes
    BY <1>1 DEF TypeOK, EnvsOK
  <2>2. f \in Envelopes
    <3>1. 1 \in 0..2 /\ {"AWAITING_RENDER", "COMPLETE"} \subseteq Lifecycle
      BY DEF Lifecycle
    <3>2. \A life \in Lifecycle, one \in 0..2 :
            [e EXCEPT !.life = life, !.ready = FALSE, !.out = one, !.active = NoJob] \in Envelopes
      BY <2>1 DEF Envelopes
    <3> QED
      BY <3>1, <3>2
  <2>3. f.claim = e.claim /\ f.life # "none" /\ Like(e, f)
    BY <2>1 DEF Envelopes, Like
  <2> QED
    BY <2>2, <2>3
<1>3. \/ envs' = envs /\ status' = status
      \/ OwnedBy(d) /\ envs' = [envs EXCEPT ![d.input] = f] /\ status' = [status EXCEPT ![d.job] = "SUCCEEDED"]
  BY <1>1 DEF Commit, TypeOK, EnvsOK
<1> HIDE DEF f
<1>4. /\ status' = status \/ \E as \in JobStatus \ {"none", "RUNNING"} :
                                Fenced(d) /\ status' = [status EXCEPT ![d.job] = as]
      /\ JobsStay /\ envs' \in [Inputs -> Envelopes]
  BY <1>2, <1>3 DEF OwnedBy, JobStatus, JobsStay, TypeOK, JobsOK, EnvsOK
<1>5. Edits(w) /\ AllLike
  BY <1>1, <1>2, <1>3 DEF Edits, AllLike, Like, TypeOK, EnvsOK
<1>6. WorkOK' /\ Steps(w) /\ Calls(w)
  BY <1>1, <1>4, AckType, HandsOffType DEF Commit, Owning
<1> QED
  BY <1>1, <1>4, <1>5, <1>6, SettleType

SameCalls == \A i \in Inputs : envs'[i].ledger = envs[i].ledger /\ envs'[i].accepted = envs[i].accepted

(* The envelope's repair is spent, or its assessment published. *)
Repairs(w) ==
    LET i == work[w].input IN
    /\ OwnedBy(work[w]) /\ envs[i].repair = 0 /\ envs[i].render # NoRender /\ Bound(i)
    /\ renders[envs[i].render].life = "PEAK"
    /\ envs' = [envs EXCEPT ![i] = Repaired(envs[i])]
Publishes(w) ==
    LET i == work[w].input IN
    /\ OwnedBy(work[w]) /\ live = i /\ Bound(i)
    /\ renders[envs[i].render].life = "COMPLETE" /\ curRender = envs[i].render
    /\ envs' = [envs EXCEPT ![i] = [Rejected(envs[i]) EXCEPT !.ready = TRUE]]

LEMMA DisposedType ==
  ASSUME TypeOK, NEW w \in Workers, work[w].pc \in Owning, Finalizing(w), faults' = faults,
         NEW f, NEW as \in {"SUCCEEDED", "CANCELLED"}, Dispose(w, f, as), Ack(w) \/ HandsOff(w),
         f \in Endings(envs[work[w].input])
  PROVE  /\ TypeOK' /\ version' = version /\ JobsKept /\ Steps(w) /\ Calls(w) /\ Edits(w) /\ SameCalls
         /\ \/ envs' = envs
            \/ OwnedBy(work[w]) /\ envs' = [envs EXCEPT ![work[w].input] = f]
         /\ LET e == envs[work[w].input] IN
            f \in {e, Released(e), Rejected(e), Superseded(e)} => AllLike
<1> DEFINE i == work[w].input
           e == envs[i]
<1>1. i \in Inputs /\ WorkOK /\ EnvsOK
  BY DEF TypeOK, WorkOK, Owning
<1>2. /\ f \in Envelopes /\ f.claim = e.claim /\ (f.life = "none" => e.life = "none")
      /\ f.ledger = e.ledger /\ f.accepted = e.accepted
      /\ f \in {e, Released(e), Rejected(e), Superseded(e)} => Like(e, f)
  <2>1. e \in Envelopes
    BY <1>1 DEF EnvsOK
  <2>2. \A g \in Endings(e) :
          /\ g \in Envelopes /\ g.claim = e.claim /\ (g.life = "none" => e.life = "none")
          /\ g.ledger = e.ledger /\ g.accepted = e.accepted
    <3> HIDE DEF e
    <3> QED
      BY <2>1, EndingType
  <2>3. \A g \in {e, Released(e), Rejected(e), Superseded(e)} : Like(e, g)
    <3> HIDE DEF e
    <3> QED
      BY <2>1, EndingType
  <2> QED
    BY <2>2, <2>3
<1>3. as \in JobStatus \ {"none", "RUNNING"}
  BY DEF JobStatus
<1>4. /\ status' = status \/ \E to \in JobStatus \ {"none", "RUNNING"} :
                                Fenced(work[w]) /\ status' = [status EXCEPT ![work[w].job] = to]
      /\ JobsStay /\ envs' \in [Inputs -> Envelopes] /\ Edits(w)
      /\ envs' = envs \/ (OwnedBy(work[w]) /\ envs' = [envs EXCEPT ![i] = f])
      /\ Like(e, f) => AllLike
  BY <1>2, <1>3, DisposeType
<1>5. SameCalls
  BY <1>1, <1>2, <1>4 DEF SameCalls, EnvsOK
<1>6. WorkOK' /\ Steps(w) /\ Calls(w)
  BY <1>1, <1>4, AckType, HandsOffType DEF Owning
<1>7. TypeOK' /\ version' = version /\ JobsKept
  BY <1>4, <1>6, SettleType
<1> QED
  BY <1>2, <1>4, <1>5, <1>6, <1>7

LEMMA AssessType ==
  ASSUME TypeOK, NEW w \in Workers, Assess(w)
  PROVE  /\ TypeOK' /\ version' = version /\ JobsKept /\ Steps(w) /\ Calls(w) /\ Edits(w) /\ SameCalls
         /\ AllLike \/ Repairs(w)
<1> DEFINE d == work[w]
           i == d.input
           e == envs[i]
           r == e.render
           seen == IF r = NoRender THEN "none" ELSE renders[r].life
           usable == seen \in Finalizable /\ curRender = r /\ Bound(i)
<1>1. d.pc = "assess" /\ d.pc \in Owning /\ i \in Inputs /\ Finalizing(w) /\ faults' = faults /\ WorkOK
  BY DEF Assess, Finalizing, Owning, TypeOK, WorkOK
<1>2. ASSUME NEW f \in {Released(e), Rejected(e), Superseded(e)}, NEW as \in {"SUCCEEDED", "CANCELLED"},
             Dispose(w, f, as), Ack(w)
      PROVE  /\ TypeOK' /\ version' = version /\ JobsKept /\ Steps(w) /\ Calls(w) /\ Edits(w)
             /\ SameCalls /\ AllLike
  BY <1>1, <1>2, DisposedType DEF Endings
<1>3. CASE e.life = "CANCELLED" /\ Dispose(w, Released(e), "CANCELLED") /\ Ack(w)
  BY <1>2, <1>3
<1>4. CASE /\ e.life # "CANCELLED"
           /\ Dispose(w, Released(e), IF OwnedBy(d) /\ seen = "CANCELLED" THEN "CANCELLED" ELSE "SUCCEEDED")
           /\ Ack(w)
  BY <1>2, <1>4
<1>5. CASE Dispose(w, Superseded(e), "SUCCEEDED") /\ Ack(w)
  BY <1>2, <1>5
<1>6. CASE Dispose(w, Rejected(e), "SUCCEEDED") /\ Ack(w)
  BY <1>2, <1>6
<1>7. CASE OwnedBy(d) /\ usable /\ seen = "PEAK" /\ e.repair = 0 /\ Dispose(w, Repaired(e), "SUCCEEDED") /\ HandsOff(w)
  <2>1. /\ TypeOK' /\ version' = version /\ JobsKept /\ Steps(w) /\ Calls(w) /\ Edits(w) /\ SameCalls
        /\ envs' = envs \/ envs' = [envs EXCEPT ![i] = Repaired(e)]
    BY <1>1, <1>7, DisposedType DEF Endings
  <2>2. envs' = envs => AllLike
    BY DEF AllLike, Like
  <2> QED
    BY <1>7, <2>1, <2>2 DEF Repairs
<1>8. CASE /\ OwnedBy(d) /\ usable /\ seen = "COMPLETE"
           /\ work' = [work EXCEPT ![w] = [@ EXCEPT !.pc = "publish", !.key = r]]
           /\ UNCHANGED <<envs, status>>
  <2> DEFINE g == [d EXCEPT !.pc = "publish", !.key = r]
  <2>1. r \in Renders
    BY <1>1, <1>8 DEF TypeOK, EnvsOK, Envelopes
  <2>2. /\ g \in Deliveries /\ g.pc = "publish" /\ g.job = d.job /\ g.token = d.token
        /\ g.input = i /\ g.claim = d.claim /\ g.key = r
    <3>1. d \in Deliveries
      BY <1>1 DEF WorkOK
    <3> HIDE DEF d, r
    <3> QED
      BY <2>1, <3>1 DEF Deliveries, WorkerPC, Owning
  <2>3. work' = [work EXCEPT ![w] = g]
    BY <1>8
  <2> HIDE DEF g
  <2>4. JobsStay /\ d.job \in Jobs /\ status'[d.job] # "none"
    BY <1>1, <1>8 DEF JobsStay, WorkOK
  <2>5. WorkOK' /\ work'[w] = g /\ \A v \in Workers \ {w} : work'[v] = work[v]
    BY <1>1, <2>1, <2>2, <2>3, <2>4, MovesType
  <2>6. Steps(w) /\ Calls(w)
    BY <1>1, <2>2, <2>5 DEF Steps, Calls, Past, Owning
  <2>7. TypeOK' /\ version' = version /\ JobsKept
    BY <1>1, <1>8, <2>5, SettleType DEF TypeOK, EnvsOK
  <2> QED
    BY <1>8, <2>6, <2>7 DEF Edits, SameCalls, AllLike, Like
<1> QED
  BY <1>3, <1>4, <1>5, <1>6, <1>7, <1>8 DEF Assess

LEMMA PublishType ==
  ASSUME TypeOK, NEW w \in Workers, Publish(w)
  PROVE  /\ TypeOK' /\ version' = version /\ JobsKept /\ Steps(w) /\ Calls(w) /\ Edits(w) /\ SameCalls
         /\ AllLike \/ Publishes(w)
<1> DEFINE d == work[w]
           i == d.input
           e == envs[i]
           bound == renders[d.key].life = "COMPLETE" /\ e.render = d.key /\ curRender = d.key
<1>1. d.pc = "publish" /\ d.pc \in Owning /\ i \in Inputs /\ Finalizing(w) /\ faults' = faults /\ Ack(w)
  BY DEF Publish, Finalizing, Owning, TypeOK, WorkOK
<1>2. ASSUME NEW f \in {e, Released(e), Rejected(e), Superseded(e)}, NEW as \in {"SUCCEEDED", "CANCELLED"},
             Dispose(w, f, as)
      PROVE  /\ TypeOK' /\ version' = version /\ JobsKept /\ Steps(w) /\ Calls(w) /\ Edits(w)
             /\ SameCalls /\ AllLike
  BY <1>1, <1>2, DisposedType DEF Endings
<1>3. CASE Dispose(w, Released(e), "SUCCEEDED")
  BY <1>2, <1>3
<1>4. CASE Dispose(w, Released(e), IF OwnedBy(d) THEN "CANCELLED" ELSE "SUCCEEDED")
  BY <1>2, <1>4
<1>5. CASE Dispose(w, Superseded(e), "SUCCEEDED")
  BY <1>2, <1>5
<1>6. CASE bound /\ live = i /\ Bound(i)
           /\ \E f \in {Released(e), Rejected(e), [Rejected(e) EXCEPT !.ready = TRUE]} : Dispose(w, f, "SUCCEEDED")
  <2>1. CASE \E f \in {Released(e), Rejected(e)} : Dispose(w, f, "SUCCEEDED")
    BY <1>2, <2>1
  <2>2. CASE Dispose(w, [Rejected(e) EXCEPT !.ready = TRUE], "SUCCEEDED")
    <3>1. /\ TypeOK' /\ version' = version /\ JobsKept /\ Steps(w) /\ Calls(w) /\ Edits(w) /\ SameCalls
          /\ envs' = envs \/ (OwnedBy(d) /\ envs' = [envs EXCEPT ![i] = [Rejected(e) EXCEPT !.ready = TRUE]])
      BY <1>1, <2>2, DisposedType DEF Endings
    <3>2. envs' = envs => AllLike
      BY DEF AllLike, Like
    <3> QED
      BY <1>6, <3>1, <3>2 DEF Publishes
  <2> QED
    BY <1>6, <2>1, <2>2
<1>7. CASE Dispose(w, e, "SUCCEEDED")
  BY <1>2, <1>7
<1> QED
  BY <1>3, <1>4, <1>5, <1>6, <1>7 DEF Publish

(* An envelope that has a job keeps all but its render. *)
Binds ==
    \A i \in Inputs :
        \/ /\ envs'[i].active = envs[i].active
           /\ [envs'[i] EXCEPT !.render = NoRender] = [envs[i] EXCEPT !.render = NoRender]
        \/ envs[i].active = NoJob /\ envs'[i].life # "none"

LEMMA SameEnvelopes ==
  ASSUME envs' = envs
  PROVE  Binds /\ AllLike
BY DEF Binds, AllLike, Like

LEMMA HandOffType ==
  ASSUME TypeOK, NEW w \in Workers, HandOffQueues(w) \/ HandOffBinds(w) \/ HandOffDelivers(w)
  PROVE  TypeOK' /\ version' = version /\ JobsKept /\ Steps(w) /\ Calls(w) /\ Binds /\ AllLike
<1> DEFINE d == work[w]
           i == d.input
<1>1. /\ UNCHANGED <<jobVars, inbox, current, live, callVars, hand>> /\ JobsStay /\ JobsKept /\ WorkOK
      /\ d \in Deliveries /\ d.job \in Jobs /\ status[d.job] # "none" /\ d.pc \in HandOff
  BY DEF HandOffQueues, HandOffBinds, HandOffDelivers, JobsStay, JobsKept, TypeOK, WorkOK, HandOff, jobVars, envVars,
         renderVars
<1>2. CASE HandOffQueues(w)
  <2> DEFINE k == Revision(i)
             due == envs[i].life = "AWAITING_RENDER" /\ envs[i].out # 0 /\ current = i
             g == [d EXCEPT !.key = k, !.pc = IF envs[i].render = k THEN "deliver" ELSE "bind"]
  <2>1. d.pc = "handoff" /\ i \in Inputs /\ envs' = envs
    BY <1>2 DEF HandOffQueues, TypeOK, WorkOK, envVars
  <2>2. CASE due /\ QueueRender(k) /\ work' = [work EXCEPT ![w] = g] /\ UNCHANGED faults
    <3>1. k \in Renders
      BY <2>1, <2>2, RevisionType DEF Revision, TypeOK, EnvsOK
    <3>2. renders' \in [Renders -> RenderRows] /\ curRender' \in Renders
      BY <2>2, <3>1, QueueRenderType DEF TypeOK
    <3>3. /\ g \in Deliveries /\ g.pc \in {"deliver", "bind"} /\ g.job = d.job /\ g.token = d.token
          /\ g.input = i /\ g.key = k
      <4> HIDE DEF d, k
      <4> QED
        BY <1>1, <3>1 DEF Deliveries, WorkerPC, HandOff
    <3>4. work' = [work EXCEPT ![w] = g]
      BY <2>2
    <3> HIDE DEF g, k
    <3>5. WorkOK' /\ work'[w] = g /\ \A v \in Workers \ {w} : work'[v] = work[v]
      BY <1>1, <2>1, <3>1, <3>3, <3>4, MovesType DEF JobsStay
    <3>6. Steps(w) /\ Calls(w)
      BY <2>1, <3>3, <3>5 DEF Steps, Calls, Past, Owning
    <3> QED
      BY <1>1, <2>1, <2>2, <3>2, <3>5, <3>6, SameEnvelopes
      DEF TypeOK, JobsOK, EnvsOK, RendersOK, jobVars, callVars
  <2>3. CASE Ack(w) /\ UNCHANGED renderVars /\ (faults' = faults \/ Fault("raise"))
    <3>1. WorkOK' /\ Steps(w) /\ Calls(w)
      BY <1>1, <2>1, <2>3, AckType
    <3>2. faults' \in Nat
      BY <2>3, FaultCounts DEF TypeOK
    <3> QED
      BY <1>1, <2>1, <2>3, <3>1, <3>2, SameEnvelopes
      DEF TypeOK, JobsOK, EnvsOK, RendersOK, jobVars, callVars, renderVars
  <2> QED
    BY <1>2, <2>2, <2>3 DEF HandOffQueues
<1>3. CASE HandOffBinds(w)
  <2> DEFINE g == [d EXCEPT !.pc = "deliver"]
             f == [envs[i] EXCEPT !.render = d.key]
  <2>1. /\ d.pc = "bind" /\ i \in Inputs /\ d.key \in Renders /\ UNCHANGED <<renderVars, faults>>
        /\ work' = [work EXCEPT ![w] = g] /\ envs' = [envs EXCEPT ![i] = f]
    BY <1>3 DEF HandOffBinds, Goto, TypeOK, WorkOK
  <2>2. /\ g \in Deliveries /\ g.pc = "deliver" /\ g.job = d.job /\ g.token = d.token
        /\ g.input = i /\ g.key = d.key
    <3> HIDE DEF d
    <3> QED
      BY <1>1 DEF Deliveries, WorkerPC, HandOff
  <2>3. /\ f \in Envelopes /\ Like(envs[i], f) /\ f.active = envs[i].active
        /\ [f EXCEPT !.render = NoRender] = [envs[i] EXCEPT !.render = NoRender]
    <3>1. envs[i] \in Envelopes
      BY <2>1 DEF TypeOK, EnvsOK
    <3> QED
      BY <2>1, <3>1, RebindType
  <2> HIDE DEF g, f
  <2>4. WorkOK' /\ work'[w] = g /\ \A v \in Workers \ {w} : work'[v] = work[v]
    BY <1>1, <2>1, <2>2, MovesType DEF Owning, JobsStay
  <2>5. Steps(w) /\ Calls(w)
    BY <2>1, <2>2, <2>4 DEF Steps, Calls, Past, Owning
  <2>6. envs' \in [Inputs -> Envelopes] /\ Binds /\ AllLike
    BY <2>1, <2>3 DEF Binds, AllLike, Like, TypeOK, EnvsOK
  <2> QED
    BY <1>1, <2>1, <2>4, <2>5, <2>6 DEF TypeOK, JobsOK, EnvsOK, RendersOK, jobVars, callVars, renderVars
<1>4. CASE HandOffDelivers(w)
  <2>1. d.pc = "deliver" /\ d.key \in Renders /\ envs' = envs /\ curRender' = curRender /\ Ack(w) /\ DeliverRender(d.key)
    BY <1>4 DEF HandOffDelivers, TypeOK, WorkOK, envVars
  <2>2. renders' \in [Renders -> RenderRows] /\ faults' \in Nat
    BY <2>1, DeliverRenderType DEF TypeOK
  <2>3. WorkOK' /\ Steps(w) /\ Calls(w)
    BY <1>1, <2>1, AckType
  <2> QED
    BY <1>1, <2>1, <2>2, <2>3, SameEnvelopes DEF TypeOK, JobsOK, EnvsOK, RendersOK, jobVars, callVars
<1> QED
  BY <1>2, <1>3, <1>4

LEMMA FailureType ==
  ASSUME TypeOK, NEW w \in Workers, Raise(w) \/ Fail(w) \/ Crash(w)
  PROVE  TypeOK' /\ version' = version /\ JobsKept /\ Steps(w) /\ Calls(w) /\ Binds /\ AllLike
<1> DEFINE d == work[w]
<1>1. /\ UNCHANGED <<version, stale, marked, target, envVars, live, renderVars, callVars, hand>>
      /\ d.pc # "idle" /\ d.job \in Jobs /\ status[d.job] # "none"
  BY DEF Raise, Fail, Crash, TypeOK, WorkOK, Owning, jobVars, renderVars
<1>2. status' = status \/ status' = [status EXCEPT ![d.job] = "FAILED"]
  BY DEF Raise, Fail, Crash, jobVars
<1>3. JobsStay /\ JobsKept /\ status' \in [Jobs -> JobStatus] /\ \A j \in Jobs : status'[j] # "none" => status[j] # "none"
  BY <1>1, <1>2 DEF JobsStay, JobsKept, TypeOK, JobsOK, JobStatus
<1>4. inbox' = inbox \/ inbox' = [inbox EXCEPT ![d.job] = @ + 1]
  BY DEF Raise, Fail, Crash, Send
<1>5. JobsOK'
  <2>1. inbox' \in [Jobs -> Nat] /\ \A j \in Jobs : inbox'[j] > 0 => status'[j] # "none"
    BY <1>1, <1>3, <1>4 DEF TypeOK, JobsOK, JobsStay
  <2> QED
    BY <1>1, <1>3, <2>1 DEF TypeOK, JobsOK
<1>6. faults' \in Nat
  <2>1. faults' = faults \/ Fault("raise") \/ Fault("crash")
    BY DEF Raise, Fail, Crash
  <2> QED
    BY <2>1, FaultCounts DEF TypeOK
<1>7. WorkOK' /\ Steps(w) /\ Calls(w)
  <2>1. CASE Raise(w)
    BY <1>3, <2>1, FailsType DEF Raise, TypeOK
  <2>2. CASE Fail(w) \/ Crash(w)
    BY <1>1, <1>3, <2>2, AckType DEF Fail, Crash, TypeOK
  <2> QED
    BY <2>1, <2>2
<1> QED
  BY <1>1, <1>3, <1>5, <1>6, <1>7, SameEnvelopes DEF TypeOK, EnvsOK, RendersOK, envVars, renderVars, callVars

LEMMA RedeliverType ==
  ASSUME TypeOK, NEW w \in Workers, Redeliver(w)
  PROVE  TypeOK' /\ Kept /\ work' = work
<1>1. /\ UNCHANGED <<jobVars, envVars, live, renderVars, callVars, work, hand>> /\ Fault("redeliver")
      /\ work[w].job \in Jobs /\ status[work[w].job] # "none" /\ inbox' = [inbox EXCEPT ![work[w].job] = @ + 1]
  BY DEF Redeliver, Send, TypeOK, WorkOK
<1>2. JobsOK'
  BY <1>1 DEF TypeOK, JobsOK, jobVars
<1>3. Kept
  BY <1>1, QuietKept DEF JobsKept, jobVars, envVars
<1> QED
  BY <1>1, <1>2, <1>3, FaultCounts DEF TypeOK, EnvsOK, RendersOK, WorkOK, envVars, renderVars, callVars, jobVars

LEMMA DeliverType ==
  ASSUME TypeOK, NEW w \in Workers, NEW j \in Jobs, Deliver(w, j)
  PROVE  /\ TypeOK' /\ version' = version /\ JobsKept /\ envs' = envs
         /\ work' = work \/ (Steps(w) /\ Calls(w))
<1>1. /\ work[w].pc = "idle" /\ status[j] # "none" /\ inbox' = [inbox EXCEPT ![j] = @ - 1] /\ inbox[j] > 0
      /\ UNCHANGED <<jobVars, envVars, live, renderVars, callVars, hand, faults>> /\ JobsStay /\ JobsKept
  BY DEF Deliver, TypeOK, JobsOK, JobsStay, JobsKept, jobVars
<1>2. inbox' \in [Jobs -> Nat] /\ \A k \in Jobs : inbox'[k] > 0 => inbox[k] > 0
  BY <1>1 DEF TypeOK, JobsOK
<1>3. JobsOK'
  BY <1>1, <1>2 DEF TypeOK, JobsOK, jobVars
<1>4. WorkOK' /\ (work' = work \/ (Steps(w) /\ Calls(w)))
  <2>1. CASE UNCHANGED work
    BY <1>1, <2>1 DEF TypeOK, WorkOK, jobVars
  <2>2. CASE \E phase \in {"prepare", "finalize"} :
               work' = [work EXCEPT ![w] = [Idle EXCEPT !.pc = "claim", !.job = j, !.phase = phase]]
    <3>1. PICK phase \in {"prepare", "finalize"} :
            work' = [work EXCEPT ![w] = [Idle EXCEPT !.pc = "claim", !.job = j, !.phase = phase]]
      BY <2>2
    <3> DEFINE d == [Idle EXCEPT !.pc = "claim", !.job = j, !.phase = phase]
    <3>2. d \in Deliveries /\ d.pc = "claim" /\ d.job = j
      BY <3>1, IdleType DEF Deliveries, WorkerPC
    <3>3. work' = [work EXCEPT ![w] = d]
      BY <3>1
    <3> HIDE DEF d
    <3>4. WorkOK' /\ work'[w] = d /\ \A v \in Workers \ {w} : work'[v] = work[v]
      BY <1>1, <3>2, <3>3, MovesType DEF TypeOK, Owning, JobsStay
    <3> QED
      BY <1>1, <3>2, <3>4 DEF Steps, Calls, Past, Owning
  <2> QED
    BY <2>1, <2>2 DEF Deliver
<1> QED
  BY <1>1, <1>3, <1>4 DEF TypeOK, EnvsOK, RendersOK, jobVars, envVars, renderVars, callVars

(* Delivery w claims its job. *)
Claims(w) ==
    LET j == work[w].job IN
    /\ \A v \in Workers \ {w} : work'[v] = work[v]
    /\ work[w].pc = "claim" /\ work'[w].pc = "claimed"
    /\ j \in Jobs /\ work'[w].job = j /\ work'[w].token = work[w].token
    /\ version'[j] = version[j] + 1 /\ status'[j] = "RUNNING"
    /\ \A k \in Jobs \ {j} : version'[k] = version[k] /\ status'[k] = status[k]

LEMMA ClaimJobType ==
  ASSUME TypeOK, NEW w \in Workers, ClaimJob(w)
  PROVE  /\ TypeOK' /\ envs' = envs
         /\ \/ version' = version /\ JobsKept /\ Steps(w) /\ Calls(w)
            \/ Claims(w)
<1> DEFINE d == work[w]
           j == d.job
<1>1. /\ d.pc = "claim" /\ j \in Jobs /\ status[j] # "none" /\ target[j] \in Inputs /\ WorkOK
      /\ UNCHANGED <<target, inbox, envVars, live, renderVars, callVars, hand, faults>>
  BY DEF ClaimJob, TypeOK, WorkOK, JobsOK
<1>2. CASE /\ status' = [status EXCEPT ![j] = "RUNNING"]
           /\ version' = [version EXCEPT ![j] = @ + 1]
           /\ stale' = stale \ {j} /\ marked' = marked \ {j}
           /\ Goto(w, "claimed")
  <2> DEFINE g == [d EXCEPT !.pc = "claimed"]
  <2>1. g \in Deliveries /\ g.pc = "claimed" /\ g.job = j /\ g.token = d.token
    <3>1. d \in Deliveries
      BY <1>1 DEF WorkOK
    <3> HIDE DEF d
    <3> QED
      BY <3>1 DEF Deliveries, WorkerPC, j
  <2>2. work' = [work EXCEPT ![w] = g]
    BY <1>2 DEF Goto
  <2>3. /\ version' \in [Jobs -> Nat] /\ status' \in [Jobs -> JobStatus]
        /\ status'[j] = "RUNNING" /\ version'[j] = version[j] + 1
        /\ \A k \in Jobs \ {j} : version'[k] = version[k] /\ status'[k] = status[k]
    BY <1>1, <1>2 DEF TypeOK, JobsOK, JobStatus
  <2> HIDE DEF g
  <2>4. JobsStay
    BY <1>1, <2>3 DEF JobsStay
  <2>5. WorkOK' /\ work'[w] = g /\ \A v \in Workers \ {w} : work'[v] = work[v]
    BY <1>1, <2>1, <2>2, <2>3, <2>4, MovesType DEF Owning
  <2>6. JobsOK'
    BY <1>1, <1>2, <2>3 DEF TypeOK, JobsOK
  <2>7. Claims(w)
    BY <1>1, <2>1, <2>3, <2>5 DEF Claims
  <2> QED
    BY <1>1, <2>5, <2>6, <2>7 DEF TypeOK, EnvsOK, RendersOK, envVars, renderVars, callVars
<1>3. CASE Ack(w) /\ UNCHANGED <<status, version, stale, marked>>
  <2>1. JobsStay /\ JobsKept
    BY <1>3 DEF JobsStay, JobsKept
  <2>2. WorkOK' /\ Steps(w) /\ Calls(w)
    BY <1>1, <1>3, <2>1, AckType
  <2> QED
    BY <1>1, <1>3, <2>1, <2>2 DEF TypeOK, JobsOK, EnvsOK, RendersOK, envVars, renderVars, callVars
<1> QED
  BY <1>2, <1>3 DEF ClaimJob

(* Delivery w reads the token of its claim. *)
Reads(w) ==
    /\ \A v \in Workers \ {w} : work'[v] = work[v]
    /\ work[w].pc = "claimed" /\ work'[w].pc = "take"
    /\ work'[w].job = work[w].job /\ work'[w].token = version[work[w].job]

LEMMA ReadTokenType ==
  ASSUME TypeOK, NEW w \in Workers, ReadToken(w)
  PROVE  TypeOK' /\ UNCHANGED <<jobVars, envs>> /\ JobsKept /\ Reads(w)
<1> DEFINE d == work[w]
           i == IF d.phase = "prepare" THEN live ELSE target[d.job]
           n == version[d.job]
           g == [d EXCEPT !.pc = "take", !.token = n, !.input = i]
<1>1. /\ d.pc = "claimed" /\ d \in Deliveries /\ d.job \in Jobs /\ status[d.job] # "none" /\ WorkOK
      /\ UNCHANGED <<jobVars, inbox, envVars, live, renderVars, callVars, hand, faults>>
  BY DEF ReadToken, TypeOK, WorkOK
<1>2. i \in Inputs /\ n \in Nat
  BY <1>1 DEF TypeOK, JobsOK, EnvsOK
<1>3. g \in Deliveries /\ g.pc = "take" /\ g.job = d.job /\ g.token = n /\ g.input = i
  <2> HIDE DEF d, i, n
  <2> QED
    BY <1>1, <1>2 DEF Deliveries, WorkerPC
<1>4. work' = [work EXCEPT ![w] = g]
  BY DEF ReadToken
<1>5. JobsStay /\ JobsKept
  BY <1>1 DEF JobsStay, JobsKept, jobVars
<1> HIDE DEF g, i
<1>6. WorkOK' /\ work'[w] = g /\ \A v \in Workers \ {w} : work'[v] = work[v]
  BY <1>1, <1>2, <1>3, <1>4, <1>5, MovesType DEF Owning, JobsStay
<1> QED
  BY <1>1, <1>3, <1>5, <1>6
  DEF Reads, TypeOK, JobsOK, EnvsOK, RendersOK, jobVars, envVars, renderVars, callVars

(* A job is rebound to an envelope, which it may give a job, never take one. *)
LEMMA MovedType ==
  ASSUME TypeOK, NoneInv, NEW w \in Workers, Rebind(w)
  PROVE  TypeOK' /\ version' = version /\ JobsKept /\ Steps(w) /\ Calls(w) /\ Binds /\ AllLike
<1> DEFINE d == work[w]
           i == d.input
           e == Created(i)
           f == IF e.active = NoJob THEN [e EXCEPT !.active = d.job] ELSE e
<1>1. /\ d.pc = "take" /\ d \in Deliveries /\ i \in Inputs /\ d.job \in Jobs /\ status[d.job] # "none"
      /\ UNCHANGED <<status, version, stale, marked, inbox, live, renderVars, callVars, hand, faults>>
      /\ WorkOK /\ JobsStay /\ JobsKept
  BY DEF Rebind, TypeOK, WorkOK, JobsStay, JobsKept
<1>2. CASE Ack(w) /\ UNCHANGED <<current, target, envs>>
  <2>1. WorkOK' /\ Steps(w) /\ Calls(w)
    BY <1>1, <1>2, AckType
  <2> QED
    BY <1>1, <1>2, <2>1, SameEnvelopes DEF TypeOK, JobsOK, EnvsOK, RendersOK, renderVars, callVars
<1>3. CASE /\ current' = i /\ target' = [target EXCEPT ![d.job] = i]
           /\ envs' = [envs EXCEPT ![i] = f] /\ Goto(w, "own")
  <2> DEFINE g == [d EXCEPT !.pc = "own"]
  <2>1. /\ g \in Deliveries /\ g.pc = "own" /\ g.job = d.job /\ g.token = d.token /\ g.input = i
    <3> HIDE DEF d
    <3> QED
      BY <1>1 DEF Deliveries, WorkerPC
  <2>2. work' = [work EXCEPT ![w] = g]
    BY <1>3 DEF Goto
  <2>3. /\ e \in Envelopes /\ e.life # "none" /\ Like(envs[i], e) /\ e.active = envs[i].active
        /\ envs[i].life # "none" => e = envs[i]
    BY <1>1, CreatedType DEF TypeOK
  <2> HIDE DEF g, e
  <2>4. f \in Envelopes /\ f.life # "none" /\ Like(envs[i], f) /\ (e.active # NoJob => f = envs[i])
    <3>1. CASE e.active = NoJob
      BY <1>1, <2>3, <3>1 DEF Envelopes, Like
    <3>2. CASE e.active # NoJob
      BY <1>1, <2>3, <3>2 DEF NoneInv
    <3> QED
      BY <3>1, <3>2
  <2> HIDE DEF f
  <2>5. WorkOK' /\ work'[w] = g /\ \A v \in Workers \ {w} : work'[v] = work[v]
    BY <1>1, <2>1, <2>2, MovesType DEF Owning, JobsStay
  <2>6. Steps(w) /\ Calls(w)
    BY <1>1, <2>1, <2>5 DEF Steps, Calls, Past, Owning
  <2>7. envs' \in [Inputs -> Envelopes] /\ Binds /\ AllLike
    <3>1. envs'[i] = f /\ \A h \in Inputs : h # i => envs'[h] = envs[h]
      BY <1>1, <1>3 DEF TypeOK, EnvsOK
    <3>2. envs' \in [Inputs -> Envelopes]
      BY <1>3, <2>4 DEF TypeOK, EnvsOK
    <3>3. AllLike
      BY <2>4, <3>1 DEF AllLike, Like
    <3>4. Binds
      BY <2>3, <2>4, <3>1 DEF Binds
    <3> QED
      BY <3>2, <3>3, <3>4
  <2> QED
    BY <1>1, <1>3, <2>5, <2>6, <2>7 DEF TypeOK, JobsOK, EnvsOK, RendersOK, renderVars, callVars
<1> QED
  BY <1>2, <1>3 DEF Rebind

(* Delivery w takes its envelope, which becomes g. *)
Takes(w) ==
    LET d == work[w]
        i == d.input IN
    /\ d.pc \in {"take", "own"} /\ Fenced(d) /\ i \in Inputs
    /\ \A v \in Workers \ {w} : work'[v] = work[v]
    /\ work'[w].pc \in {"prepare", "assess"} /\ work'[w].job = d.job /\ work'[w].token = d.token
    /\ work'[w].input = i /\ work'[w].claim = envs[i].claim + 1
    /\ envs[i].active = d.job
    /\ \E g \in Envelopes :
         /\ envs' = [envs EXCEPT ![i] = g]
         /\ g.active = d.job /\ g.claim = envs[i].claim + 1 /\ g.life # "none"
         /\ g.ledger = envs[i].ledger /\ g.accepted = envs[i].accepted
         /\ g.repair = envs[i].repair /\ (g.ready => envs[i].ready)

LEMMA TakesType ==
  ASSUME TypeOK, NEW w \in Workers, work[w].pc \in {"take", "own"}, NEW label \in {"prepare", "assess"}, NEW n \in Nat,
         JobsStay, work' = [work EXCEPT ![w] = [@ EXCEPT !.pc = label, !.claim = n]]
  PROVE  /\ WorkOK' /\ \A v \in Workers \ {w} : work'[v] = work[v]
         /\ work'[w].pc = label /\ work'[w].claim = n
         /\ work'[w].job = work[w].job /\ work'[w].token = work[w].token /\ work'[w].input = work[w].input
<1> DEFINE d == work[w]
           g == [d EXCEPT !.pc = label, !.claim = n]
<1>1. d \in Deliveries /\ d.job \in Jobs /\ status[d.job] # "none" /\ d.input \in Inputs /\ WorkOK
  BY DEF TypeOK, WorkOK
<1>2. /\ g \in Deliveries /\ g.pc = label /\ g.claim = n
      /\ g.job = d.job /\ g.token = d.token /\ g.input = d.input
  <2> HIDE DEF d
  <2> QED
    BY <1>1 DEF Deliveries, WorkerPC, Owning
<1>3. work' = [work EXCEPT ![w] = g]
  OBVIOUS
<1> HIDE DEF g
<1>4. WorkOK' /\ work'[w] = g /\ \A v \in Workers \ {w} : work'[v] = work[v]
  <2>1. g.job \in Jobs /\ status'[g.job] # "none" /\ g.input \in Inputs /\ g.pc \notin {"bind", "deliver", "publish"}
    BY <1>1, <1>2 DEF JobsStay
  <2> QED
    BY <1>1, <1>2, <1>3, <2>1, MovesType
<1> QED
  BY <1>2, <1>4

(* The envelope gets one more claim, or the delivery stops. *)
LEMMA TakeType ==
  ASSUME TypeOK, NoneInv, NEW w \in Workers, TakePrepare(w) \/ TakeFinalize(w)
  PROVE  /\ TypeOK' /\ version' = version /\ JobsKept
         /\ Takes(w) \/ (Steps(w) /\ Calls(w) /\ envs' = envs)
<1> DEFINE d == work[w]
           i == d.input
           n == envs[i].claim + 1
           g == [envs[i] EXCEPT !.claim = n]
<1>1. /\ d.pc \in {"take", "own"} /\ i \in Inputs /\ envs[i] \in Envelopes /\ WorkOK /\ n \in Nat
      /\ d.job \in Jobs /\ d.job # NoJob
      /\ UNCHANGED <<status, version, stale, marked, inbox, live, renderVars, callVars, hand, faults>>
      /\ JobsStay /\ JobsKept
  BY MaterializationConstants
  DEF TakePrepare, TakeFinalize, TypeOK, WorkOK, EnvsOK, Envelopes, JobsStay, JobsKept, jobVars
<1>2. target' \in [Jobs -> Inputs \union {NoInput}] /\ (\A j \in Jobs : status'[j] # "none" => target'[j] \in Inputs)
      /\ current' \in Inputs \union {NoInput}
  <2>1. \/ current' = current /\ target' = target
        \/ current' = i /\ target' = [target EXCEPT ![d.job] = i]
    BY DEF TakePrepare, TakeFinalize, jobVars
  <2> QED
    BY <1>1, <2>1 DEF TypeOK, JobsOK, EnvsOK
<1>3. CASE /\ Fenced(d) /\ envs[i].active = d.job /\ envs' = [envs EXCEPT ![i] = g]
           /\ \E label \in {"prepare", "assess"} :
                 work' = [work EXCEPT ![w] = [@ EXCEPT !.pc = label, !.claim = n]]
  <2>1. PICK label \in {"prepare", "assess"} : work' = [work EXCEPT ![w] = [@ EXCEPT !.pc = label, !.claim = n]]
    BY <1>3
  <2>2. /\ WorkOK' /\ \A v \in Workers \ {w} : work'[v] = work[v]
        /\ work'[w].pc = label /\ work'[w].claim = n
        /\ work'[w].job = d.job /\ work'[w].token = d.token /\ work'[w].input = i
    <3> HIDE DEF n
    <3> QED
      BY <1>1, <2>1, TakesType
  <2>3. /\ g \in Envelopes /\ g.claim = n /\ g.active = d.job /\ g.life = envs[i].life /\ g.ledger = envs[i].ledger
        /\ g.accepted = envs[i].accepted /\ g.repair = envs[i].repair /\ g.ready = envs[i].ready
    <3>1. \A e \in Envelopes, c \in Nat :
            LET h == [e EXCEPT !.claim = c] IN
            /\ h \in Envelopes /\ h.claim = c /\ h.active = e.active /\ h.life = e.life /\ h.ledger = e.ledger
            /\ h.accepted = e.accepted /\ h.repair = e.repair /\ h.ready = e.ready
      BY DEF Envelopes
    <3> QED
      BY <1>1, <1>3, <3>1
  <2> HIDE DEF g
  <2>4. Takes(w)
    <3>1. envs[i].life # "none"
      BY <1>1, <1>3 DEF NoneInv
    <3> QED
      BY <1>1, <1>3, <2>2, <2>3, <3>1 DEF Takes
  <2>5. envs' \in [Inputs -> Envelopes]
    BY <1>3, <2>3 DEF TypeOK, EnvsOK
  <2> QED
    BY <1>1, <1>2, <2>2, <2>4, <2>5 DEF TypeOK, JobsOK, EnvsOK, RendersOK, renderVars, callVars
<1>4. CASE Ack(w) /\ UNCHANGED envs
  <2>1. WorkOK' /\ Steps(w) /\ Calls(w)
    BY <1>1, <1>4, AckType
  <2> QED
    BY <1>1, <1>2, <1>4, <2>1 DEF TypeOK, JobsOK, EnvsOK, RendersOK, renderVars, callVars
<1> QED
  BY <1>3, <1>4 DEF TakePrepare, TakeFinalize

-----------------------------------------------------------------------------
(* Every step is of one of seven kinds: nothing happens to a delivery, or one
   delivery goes on, prepares, ends, takes its envelope, claims its job or reads
   the token of its claim. *)

Rests == Kept /\ work' = work
Goes(w) == version' = version /\ JobsKept /\ Steps(w) /\ Calls(w) /\ Binds /\ AllLike
Prepares(w) == version' = version /\ JobsKept /\ Steps(w) /\ Spends(w)
Ends(w) ==
    /\ version' = version /\ JobsKept /\ Steps(w) /\ Calls(w) /\ Edits(w) /\ SameCalls
    /\ AllLike \/ Repairs(w) \/ Publishes(w)
Taking(w) == version' = version /\ JobsKept /\ Takes(w)
Claiming(w) == envs' = envs /\ Claims(w)
Reading(w) == UNCHANGED <<jobVars, envs>> /\ JobsKept /\ Reads(w)

AStep ==
    \/ Rests
    \/ \E w \in Workers : Goes(w) \/ Prepares(w) \/ Ends(w) \/ Taking(w) \/ Claiming(w) \/ Reading(w)

(* A callback that asks has found a generation to finalize. *)
AskGrows == \A k \in asking' \ asking : envs[k[1]].life = "AWAITING_RENDER"

LEMMA AsksType ==
  ASSUME [Next]_vars
  PROVE  AskGrows
<1>1. CASE \E k \in Renders : CallbackReads(k) \/ CallbackBinds(k)
  BY <1>1 DEF CallbackReads, CallbackBinds, Pending, AskGrows
<1>2. CASE asking' = asking
  BY <1>2 DEF AskGrows
<1>3. CASE UNCHANGED vars
  BY <1>3 DEF AskGrows, vars, callVars
<1>4. ASSUME Outside, ~\E k \in Renders : CallbackReads(k) \/ CallbackBinds(k)
      PROVE  asking' = asking
  BY <1>4 DEF Outside, Post, Resume, Cancel, RequestBinds, RequestDelivers, RenderStep, RenderBegins, RenderEnds,
              RenderCancelled, EditUpstream, CancelJob, GoStale, callVars
<1>5. ASSUME NEW w \in Workers, WorkerStep(w) \/ Raise(w) \/ Crash(w) \/ Redeliver(w) \/ \E j \in Jobs : Deliver(w, j)
      PROVE  asking' = asking
  BY <1>5 DEF WorkerStep, Raise, Crash, Redeliver, Deliver, ClaimJob, ReadToken, Rebind, TakePrepare, TakeFinalize, Prepare, Call, Record,
              Preparing, Decide, Commit, HandOffQueues, HandOffBinds, HandOffDelivers, Assess, Publish, Finalizing, Fail,
              callVars
<1> QED
  BY <1>1, <1>2, <1>3, <1>4, <1>5 DEF Next, Outside

LEMMA DeliveryKinds ==
  ASSUME TypeOK, NoneInv, NEW w \in Workers, WorkerStep(w) \/ Raise(w) \/ Crash(w)
  PROVE  TypeOK' /\ (Goes(w) \/ Prepares(w) \/ Ends(w) \/ Taking(w) \/ Claiming(w) \/ Reading(w))
<1>1. CASE ClaimJob(w)
  BY <1>1, ClaimJobType, SameEnvelopes DEF Goes, Claiming
<1>2. CASE TakePrepare(w) \/ TakeFinalize(w)
  BY <1>2, TakeType, SameEnvelopes DEF Goes, Taking
<1>3. CASE Prepare(w)
  BY <1>3, PrepareType DEF Prepares
<1>4. CASE Call(w) \/ Record(w)
  BY <1>4, CallType, RecordType DEF Prepares
<1>5. CASE Decide(w) \/ Commit(w)
  <2>1. TypeOK' /\ version' = version /\ JobsKept /\ Steps(w) /\ Calls(w) /\ Edits(w) /\ AllLike
    BY <1>5, DecideType, CommitType
  <2> QED
    BY <2>1 DEF Ends, SameCalls, AllLike, Like
<1>6. CASE HandOffQueues(w) \/ HandOffBinds(w) \/ HandOffDelivers(w)
  BY <1>6, HandOffType DEF Goes
<1>7. CASE Assess(w) \/ Publish(w)
  BY <1>7, AssessType, PublishType DEF Ends
<1>8. CASE Raise(w) \/ Fail(w) \/ Crash(w)
  BY <1>8, FailureType DEF Goes
<1>9. CASE ReadToken(w)
  BY <1>9, ReadTokenType DEF Reading
<1>10. CASE Rebind(w)
  BY <1>10, MovedType DEF Goes
<1> QED
  BY <1>1, <1>2, <1>3, <1>4, <1>5, <1>6, <1>7, <1>8, <1>9, <1>10 DEF WorkerStep

LEMMA StepKinds ==
  ASSUME TypeOK, NoneInv, [Next]_vars
  PROVE  /\ TypeOK'
         /\ AStep
<1>1. CASE Outside
  BY <1>1, OutsideKeeps DEF Rests, AStep
<1>2. CASE \E w \in Workers : Redeliver(w)
  BY <1>2, RedeliverType DEF Rests, AStep
<1>3. CASE UNCHANGED vars
  <2>1. TypeOK'
    BY <1>3 DEF TypeOK, JobsOK, EnvsOK, RendersOK, WorkOK, vars, jobVars, envVars, renderVars, callVars
  <2>2. Rests
    BY <1>3, QuietKept DEF Rests, JobsKept, vars, jobVars, envVars
  <2> QED
    BY <2>1, <2>2 DEF AStep
<1>4. CASE \E w \in Workers, j \in Jobs : Deliver(w, j)
  <2>1. PICK w \in Workers, j \in Jobs : Deliver(w, j)
    BY <1>4
  <2>2. TypeOK' /\ version' = version /\ JobsKept /\ envs' = envs /\ (work' = work \/ (Steps(w) /\ Calls(w)))
    BY <2>1, DeliverType
  <2> QED
    BY <2>2, QuietKept, SameEnvelopes DEF Rests, Goes, AStep
<1>5. CASE \E w \in Workers : WorkerStep(w) \/ Raise(w) \/ Crash(w)
  BY <1>5, DeliveryKinds DEF AStep
<1> QED
  BY <1>1, <1>2, <1>3, <1>4, <1>5 DEF Next, Outside, AStep

-----------------------------------------------------------------------------
(* The inductive invariant. *)

(* Claims of one envelope are given once. *)
ClaimInv ==
    /\ \A w \in Workers : work[w].pc \in Owning =>
            work[w].claim > 0 /\ work[w].claim <= envs[work[w].input].claim
    /\ \A v, w \in Workers :
         (/\ work[v].pc \in Owning /\ work[w].pc \in Owning
          /\ work[v].input = work[w].input /\ work[v].claim = work[w].claim)
            => v = w

(* The delivery that holds the envelope's last claim and calls the provider has
   reserved the last attempt. *)
LedgerInv ==
    \A w \in Workers :
        LET e == envs[work[w].input]
            n == work[w].attempt IN
        (work[w].pc \in {"call", "record"} /\ e.claim = work[w].claim) =>
            /\ ~e.accepted /\ n = Len(e.ledger) /\ n > 0 /\ e.ledger[n] = "RESERVED"

(* CallsAreSafe of one envelope. *)
CallsSafe(e) ==
    /\ Len(e.ledger) <= Budget
    /\ \A n \in 1..(Len(e.ledger) - 1) : e.ledger[n] \notin {"RESERVED", "UNCERTAIN"}
    /\ e.accepted => Len(e.ledger) > 0 /\ e.ledger[Len(e.ledger)] = "RESPONDED"

IInv == TypeOK /\ NoneInv /\ ClaimInv /\ LedgerInv /\ CallsAreSafe

LEMMA InitIInv == Init => IInv
<1> SUFFICES ASSUME Init PROVE IInv
  OBVIOUS
<1>1. /\ NoEnvelope \in Envelopes /\ NoEnvelope.life = "none" /\ NoEnvelope.ledger = <<>> /\ NoEnvelope.accepted = FALSE
      /\ NoEnvelope.claim = 0 /\ NoEnvelope.repair = 0 /\ NoEnvelope.ready = FALSE /\ NoEnvelope.active = NoJob
  <2>1. <<>> \in Seq(AttemptStatus)
    OBVIOUS
  <2> QED
    BY <2>1 DEF NoEnvelope, Envelopes
<1>2. TypeOK
  <2>1. JobsOK
    BY DEF Init, JobsOK, JobStatus
  <2>2. EnvsOK
    BY <1>1 DEF Init, EnvsOK
  <2>3. RendersOK
    BY DEF Init, RendersOK, RenderRows, NoRow, Hands, NoHand
  <2>4. WorkOK
    BY IdleType DEF Init, WorkOK, Owning
  <2> QED
    BY <2>1, <2>2, <2>3, <2>4 DEF Init, TypeOK
<1>3. NoneInv
  BY <1>1 DEF Init, NoneInv
<1>4. ClaimInv /\ LedgerInv
  BY IdleType DEF Init, ClaimInv, LedgerInv, Owning
<1>5. CallsAreSafe
  <2>1. Len(<<>>) = 0 /\ Budget \in Nat
    BY MaterializationConstants
  <2>2. \A i \in Inputs : envs[i].ledger = <<>> /\ ~envs[i].accepted
    BY <1>1 DEF Init
  <2>3. 0 <= Budget /\ 1..(0 - 1) = {}
    BY <2>1
  <2>4. ASSUME NEW i \in Inputs PROVE CallsSafe(envs[i])
    BY <2>1, <2>2, <2>3 DEF CallsSafe
  <2> QED
    BY <2>4 DEF CallsAreSafe, CallsSafe
<1> QED
  BY <1>2, <1>3, <1>4, <1>5 DEF IInv

(* What a step does to the envelopes: all are alike, or a delivery writes one. *)
LEMMA WritesOne ==
  ASSUME IInv, NEW w \in Workers, Prepares(w) \/ Ends(w) \/ Taking(w)
  PROVE  LET i == work[w].input IN
         \/ envs' = envs
         \/ /\ i \in Inputs
            /\ \E f \in Envelopes :
                 envs' = [envs EXCEPT ![i] = f] /\ f.claim >= envs[i].claim /\ f.life # "none"
<1>1. CASE (Prepares(w) \/ Ends(w)) /\ envs' # envs
  <2>1. work[w].pc \in Owning /\ OwnedBy(work[w])
    BY <1>1 DEF Prepares, Spends, Ends, Edits, Owning
  <2>2. work[w].input \in Inputs /\ envs[work[w].input] \in Envelopes /\ work[w].job \in Jobs
    BY <2>1 DEF IInv, TypeOK, WorkOK, EnvsOK, Owning
  <2>3. envs[work[w].input].life # "none"
    BY <2>1, <2>2, MaterializationConstants DEF IInv, NoneInv, OwnedBy
  <2>4. \E f \in Envelopes : /\ envs' = [envs EXCEPT ![work[w].input] = f] /\ f.claim = envs[work[w].input].claim
                             /\ f.life = "none" => envs[work[w].input].life = "none"
    BY <1>1 DEF Prepares, Spends, Ends, Edits
  <2>5. \A n \in Nat : n >= n
    OBVIOUS
  <2>6. envs[work[w].input].claim \in Nat
    BY <2>2 DEF Envelopes
  <2> QED
    BY <2>2, <2>3, <2>4, <2>5, <2>6
<1>2. CASE Taking(w)
  <2>1. work[w].input \in Inputs /\ envs[work[w].input].claim \in Nat
    BY <1>2 DEF Taking, Takes, IInv, TypeOK, EnvsOK, Envelopes
  <2>2. \A n \in Nat : n + 1 >= n
    OBVIOUS
  <2>3. \E f \in Envelopes : /\ envs' = [envs EXCEPT ![work[w].input] = f]
                             /\ f.claim = envs[work[w].input].claim + 1 /\ f.life # "none"
    BY <1>2 DEF Taking, Takes
  <2> QED
    BY <2>1, <2>2, <2>3
<1> QED
  BY <1>1, <1>2

LEMMA EnvelopeStep ==
  ASSUME IInv, AStep
  PROVE  \/ AllLike
         \/ \E i \in Inputs, f \in Envelopes :
              envs' = [envs EXCEPT ![i] = f] /\ f.claim >= envs[i].claim /\ f.life # "none"
<1>1. CASE Rests \/ \E w \in Workers : Goes(w) \/ Claiming(w) \/ Reading(w)
  BY <1>1, SameEnvelopes DEF Rests, Goes, Claiming, Reading, Kept, EnvsKept, AllLike
<1>2. CASE \E w \in Workers : Prepares(w) \/ Ends(w) \/ Taking(w)
  BY <1>2, WritesOne, SameEnvelopes
<1> QED
  BY <1>1, <1>2 DEF AStep

LEMMA NoneStep ==
  ASSUME IInv, TypeOK', AStep, AskGrows
  PROVE  NoneInv'
<1>1. \A i \in Inputs : envs'[i].life = "none" => envs[i].life = "none"
  BY EnvelopeStep DEF AllLike, Like, IInv, TypeOK, EnvsOK
<1>2. \A k \in asking' : k \in Renders /\ k[1] \in Inputs
  BY DEF TypeOK, RendersOK, Renders
<1>3. \A k \in asking' : envs'[k[1]].life # "none"
  BY <1>1, <1>2 DEF AskGrows, IInv, NoneInv
<1>4. ASSUME NEW i \in Inputs, envs'[i].life = "none"
      PROVE  /\ envs'[i].ledger = <<>> /\ ~envs'[i].accepted /\ envs'[i].claim = 0
             /\ envs'[i].repair = 0 /\ ~envs'[i].ready /\ envs'[i].active = NoJob
  <2>1. /\ envs[i].ledger = <<>> /\ ~envs[i].accepted /\ envs[i].claim = 0
        /\ envs[i].repair = 0 /\ ~envs[i].ready /\ envs[i].active = NoJob
    BY <1>1, <1>4 DEF IInv, NoneInv
  <2>2. CASE Rests
    BY <1>4, <2>1, <2>2 DEF Rests, Kept, EnvsKept, Like
  <2>3. CASE \E w \in Workers : Goes(w) \/ Claiming(w) \/ Reading(w)
    BY <1>4, <2>1, <2>3 DEF Goes, Binds, AllLike, Like, Claiming, Reading
  <2>4. CASE \E w \in Workers : Prepares(w) \/ Ends(w) \/ Taking(w)
    <3>1. envs'[i] = envs[i] \/ envs'[i].life # "none"
      <4>1. envs' = envs \/ \E h \in Inputs, f \in Envelopes : envs' = [envs EXCEPT ![h] = f] /\ f.life # "none"
        BY <2>4, WritesOne
      <4> QED
        BY <4>1 DEF IInv, TypeOK, EnvsOK
    <3> QED
      BY <1>4, <2>1, <3>1
  <2> QED
    BY <2>2, <2>3, <2>4 DEF AStep
<1> QED
  BY <1>3, <1>4 DEF NoneInv

LEMMA ClaimsGrow ==
  ASSUME IInv, AStep
  PROVE  \A i \in Inputs : envs[i].claim \in Nat /\ envs'[i].claim \in Nat /\ envs'[i].claim >= envs[i].claim
<1>1. \A i \in Inputs : envs[i].claim \in Nat
  BY DEF IInv, TypeOK, EnvsOK, Envelopes
<1>2. CASE AllLike
  BY <1>1, <1>2 DEF AllLike, Like
<1>3. CASE \E i \in Inputs, f \in Envelopes : envs' = [envs EXCEPT ![i] = f] /\ f.claim >= envs[i].claim
  <2>1. \A f \in Envelopes : f.claim \in Nat
    BY DEF Envelopes
  <2> QED
    BY <1>1, <1>3, <2>1 DEF IInv, TypeOK, EnvsOK
<1> QED
  BY <1>2, <1>3, EnvelopeStep

LEMMA ClaimStep ==
  ASSUME IInv, AStep
  PROVE  ClaimInv'
<1>1. \A v \in Workers : work[v].pc \in Owning => /\ work[v].input \in Inputs /\ work[v].claim \in Nat
                                                /\ work[v].claim > 0 /\ work[v].claim <= envs[work[v].input].claim
  BY DEF IInv, TypeOK, WorkOK, Deliveries, ClaimInv
<1>2. CASE Rests \/ \E w \in Workers : Goes(w) \/ Prepares(w) \/ Ends(w) \/ Claiming(w) \/ Reading(w)
  <2>1. \A v \in Workers : work'[v].pc \in Owning =>
            work[v].pc \in Owning /\ work'[v].input = work[v].input /\ work'[v].claim = work[v].claim
    <3>1. CASE Rests
      BY <3>1 DEF Rests
    <3>2. CASE \E w \in Workers : Goes(w) \/ Prepares(w) \/ Ends(w)
      BY <3>2 DEF Goes, Prepares, Ends, Steps
    <3>3. CASE \E w \in Workers : Claiming(w) \/ Reading(w)
      BY <3>3 DEF Claiming, Claims, Reading, Reads, Owning
    <3> QED
      BY <1>2, <3>1, <3>2, <3>3
  <2>2. \A v \in Workers : work'[v].pc \in Owning => work'[v].claim > 0 /\ work'[v].claim <= envs'[work'[v].input].claim
    BY <1>1, <2>1, ClaimsGrow
  <2> QED
    BY <2>1, <2>2 DEF IInv, ClaimInv
<1>3. CASE \E w \in Workers : Taking(w)
  <2>1. PICK w \in Workers : Takes(w)
    BY <1>3 DEF Taking
  <2> DEFINE i == work[w].input
  <2>2. /\ i \in Inputs /\ work'[w].input = i /\ work'[w].claim = envs[i].claim + 1
        /\ envs'[i].claim = envs[i].claim + 1 /\ envs[i].claim \in Nat
        /\ \A v \in Workers \ {w} : work'[v] = work[v]
    BY <2>1, ClaimsGrow DEF Takes, IInv, TypeOK, EnvsOK
  <2>3. \A v \in Workers : work'[v].pc \in Owning => work'[v].claim > 0 /\ work'[v].claim <= envs'[work'[v].input].claim
    BY <1>1, <2>2, ClaimsGrow
  <2>4. ASSUME NEW u \in Workers, NEW v \in Workers, work'[u].pc \in Owning, work'[v].pc \in Owning,
               work'[u].input = work'[v].input, work'[u].claim = work'[v].claim
        PROVE  u = v
    <3>1. \A x \in Workers \ {w} : work'[x].pc \in Owning /\ work'[x].input = i => work'[x].claim # envs[i].claim + 1
      BY <1>1, <2>2
    <3>2. CASE u = w \/ v = w
      BY <2>2, <2>4, <3>1, <3>2
    <3>3. CASE u # w /\ v # w
      BY <2>2, <2>4, <3>3 DEF IInv, ClaimInv
    <3> QED
      BY <3>2, <3>3
  <2> QED
    BY <2>3, <2>4 DEF ClaimInv
<1> QED
  BY <1>2, <1>3 DEF AStep

(* An envelope whose calls, and a delivery whose attempt, are what they were. *)
SameClaims == \A i \in Inputs : envs'[i].claim = envs[i].claim

SameAttempt(v) ==
    work'[v].pc \in {"call", "record"} =>
        /\ work[v].pc \in {"call", "record"} /\ work'[v].attempt = work[v].attempt
        /\ work'[v].input = work[v].input /\ work'[v].claim = work[v].claim

LEMMA QuietStep ==
  ASSUME IInv, AStep, SameCalls, SameClaims, \A v \in Workers : SameAttempt(v)
  PROVE  LedgerInv'
<1>1. \A v \in Workers : work[v].pc \in {"call", "record"} => work[v].input \in Inputs
  BY DEF IInv, TypeOK, WorkOK, Owning
<1> QED
  BY <1>1 DEF IInv, LedgerInv, SameCalls, SameClaims, SameAttempt

LEMMA StepsAttempt ==
  ASSUME NEW w \in Workers, Steps(w), Calls(w)
  PROVE  \A v \in Workers : SameAttempt(v)
BY DEF Steps, Calls, SameAttempt, Owning

LEMMA LedgerStep ==
  ASSUME IInv, AStep
  PROVE  LedgerInv'
<1>1. CASE Rests
  BY <1>1, QuietStep DEF Rests, Kept, EnvsKept, Like, SameCalls, SameClaims, SameAttempt
<1>2. CASE \E w \in Workers : Goes(w)
  BY <1>2, QuietStep, StepsAttempt DEF Goes, AllLike, Like, SameCalls, SameClaims
<1>3. CASE \E w \in Workers : Ends(w)
  <2>1. SameClaims
    BY <1>3 DEF Ends, Edits, SameClaims, IInv, TypeOK, EnvsOK
  <2> QED
    BY <1>3, <2>1, QuietStep, StepsAttempt DEF Ends
<1>4. CASE \E w \in Workers : Claiming(w) \/ Reading(w)
  BY <1>4, QuietStep DEF Claiming, Claims, Reading, Reads, SameCalls, SameClaims, SameAttempt
<1>5. CASE \E w \in Workers : Taking(w)
  <2>1. PICK w \in Workers : Takes(w)
    BY <1>5 DEF Taking
  <2> DEFINE i == work[w].input
  <2>2. /\ i \in Inputs /\ envs'[i].claim = envs[i].claim + 1 /\ envs[i].claim \in Nat
        /\ \A h \in Inputs \ {i} : envs'[h] = envs[h]
        /\ \A v \in Workers : work'[v].pc \in {"call", "record"} => work'[v] = work[v]
    BY <2>1 DEF Takes, IInv, TypeOK, EnvsOK, Envelopes
  <2>3. \A v \in Workers : work[v].pc \in {"call", "record"} =>
            /\ work[v].input \in Inputs /\ work[v].claim \in Nat /\ work[v].claim <= envs[work[v].input].claim
    BY DEF IInv, TypeOK, WorkOK, Deliveries, ClaimInv, Owning
  <2>4. \A v \in Workers :
            (work'[v].pc \in {"call", "record"} /\ envs'[work'[v].input].claim = work'[v].claim) =>
                work'[v].input \in Inputs \ {i}
    BY <2>2, <2>3
  <2> QED
    BY <2>2, <2>4 DEF IInv, LedgerInv
<1>6. CASE \E w \in Workers : Prepares(w)
  <2>1. PICK w \in Workers : Prepares(w)
    BY <1>6
  <2> DEFINE i == work[w].input
             e == envs[i]
  <2>2. CASE envs' = envs /\ Calls(w)
    BY <2>1, <2>2, QuietStep, StepsAttempt DEF Prepares, SameCalls, SameClaims
  <2>3. CASE ~(envs' = envs /\ Calls(w))
    <3>1. PICK f \in Envelopes :
            /\ OwnedBy(work[w]) /\ work[w].pc \in {"prepare", "call", "record"}
            /\ envs' = [envs EXCEPT ![i] = f] /\ f.claim = e.claim
            /\ work'[w].pc \in {"call", "record"} =>
                  Reserves(e, f) /\ work'[w].attempt = Len(e.ledger) + 1
      BY <2>1, <2>3 DEF Prepares, Spends
    <3>2. /\ i \in Inputs /\ e.ledger \in Seq(AttemptStatus) /\ envs'[i] = f /\ e.claim = work[w].claim
          /\ \A h \in Inputs \ {i} : envs'[h] = envs[h]
      BY <3>1 DEF IInv, TypeOK, WorkOK, EnvsOK, Envelopes, Owning, OwnedBy
    <3>3. \A v \in Workers \ {w} : work'[v] = work[v]
      BY <2>1 DEF Prepares, Steps
    <3>4. ASSUME NEW v \in Workers \ {w}, work'[v].pc \in {"call", "record"},
                 envs'[work'[v].input].claim = work'[v].claim
          PROVE  work'[v].input \in Inputs \ {i}
      <4>1. work[v].input \in Inputs /\ work[v].pc \in Owning /\ work[w].pc \in Owning
        BY <3>1, <3>3, <3>4 DEF IInv, TypeOK, WorkOK, Owning
      <4> QED
        BY <3>1, <3>2, <3>3, <3>4, <4>1 DEF IInv, ClaimInv
    <3>5. ASSUME work'[w].pc \in {"call", "record"}
          PROVE  /\ work'[w].input = i /\ ~envs'[i].accepted /\ work'[w].attempt = Len(envs'[i].ledger)
                 /\ work'[w].attempt > 0 /\ envs'[i].ledger[work'[w].attempt] = "RESERVED"
      <4>1. work'[w].input = i
        BY <2>1, <3>5 DEF Prepares, Steps, Owning
      <4>2. f.ledger = Append(e.ledger, "RESERVED") /\ ~f.accepted /\ work'[w].attempt = Len(e.ledger) + 1
        BY <3>1, <3>5 DEF Reserves
      <4>3. /\ Len(Append(e.ledger, "RESERVED")) = Len(e.ledger) + 1 /\ Len(e.ledger) \in Nat
            /\ Append(e.ledger, "RESERVED")[Len(e.ledger) + 1] = "RESERVED"
        <5> HIDE DEF e
        <5> QED
          BY <3>2
      <4> QED
        BY <3>2, <4>1, <4>2, <4>3
    <3> QED
      BY <3>2, <3>3, <3>4, <3>5 DEF IInv, LedgerInv
  <2> QED
    BY <2>2, <2>3
<1> QED
  BY <1>1, <1>2, <1>3, <1>4, <1>5, <1>6 DEF AStep

LEMMA CallsStep ==
  ASSUME IInv, AStep
  PROVE  CallsAreSafe'
<1>1. \A i \in Inputs : CallsSafe(envs[i]) /\ envs[i].ledger \in Seq(AttemptStatus)
  BY DEF IInv, CallsAreSafe, CallsSafe, TypeOK, EnvsOK, Envelopes
<1>2. SUFFICES ASSUME NEW i \in Inputs PROVE CallsSafe(envs'[i])
  BY DEF CallsAreSafe, CallsSafe
<1>3. CASE envs'[i].ledger = envs[i].ledger /\ envs'[i].accepted = envs[i].accepted
  BY <1>1, <1>3 DEF CallsSafe
<1>4. ASSUME NEW w \in Workers, Prepares(w), envs' # envs, i = work[w].input
      PROVE  CallsSafe(envs'[i])
  <2> DEFINE e == envs[i]
             d == work[w]
             last == Len(e.ledger)
  <2>1. PICK f \in Envelopes :
          /\ d.pc \in {"prepare", "call", "record"} /\ OwnedBy(d) /\ envs' = [envs EXCEPT ![i] = f]
          /\ \/ Reserves(e, f)
             \/ ~e.accepted /\ f.accepted = e.accepted /\ last > 0 /\ Marks(e, f, last, "UNCERTAIN")
             \/ d.pc \in {"call", "record"} /\ \E as \in AttemptStatus : Marks(e, f, d.attempt, as)
    BY <1>4 DEF Prepares, Spends
  <2>2. envs'[i] = f /\ e.ledger \in Seq(AttemptStatus) /\ last \in Nat /\ e.accepted \in BOOLEAN
    BY <1>1, <2>1 DEF IInv, TypeOK, EnvsOK, Envelopes
  <2>3. d.pc \in {"call", "record"} => ~e.accepted /\ d.attempt = last /\ last > 0
    BY <1>4, <2>1 DEF IInv, LedgerInv, OwnedBy
  <2>4. CallsSafe(e)
    BY <1>1
  <2> HIDE DEF e, d
  <2>5. CASE Reserves(e, f)
    <3>1. /\ Len(f.ledger) = last + 1 /\ \A n \in 1..last : f.ledger[n] = e.ledger[n]
          /\ last < Budget /\ ~f.accepted /\ (last > 0 => e.ledger[last] \notin {"RESERVED", "UNCERTAIN"})
      BY <2>2, <2>5 DEF Reserves
    <3>2. \A n \in 1..last : e.ledger[n] \notin {"RESERVED", "UNCERTAIN"}
      BY <2>2, <2>4, <3>1 DEF CallsSafe
    <3>3. Len(f.ledger) - 1 = last /\ Len(f.ledger) <= Budget
      BY <2>2, <3>1, MaterializationConstants
    <3> QED
      BY <2>2, <3>1, <3>2, <3>3 DEF CallsSafe
  <2>6. CASE \E as \in AttemptStatus : ~e.accepted /\ last > 0 /\ Marks(e, f, last, as)
    <3>1. PICK as \in AttemptStatus : ~e.accepted /\ last > 0 /\ Marks(e, f, last, as)
      BY <2>6
    <3>2. /\ Len(f.ledger) = last /\ f.ledger[last] = as /\ (f.accepted => as = "RESPONDED")
          /\ \A n \in 1..(last - 1) : f.ledger[n] = e.ledger[n]
      <4>1. /\ Len(f.ledger) = last /\ \A m \in 1..last : f.ledger[m] = IF m = last THEN as ELSE e.ledger[m]
            /\ f.accepted = e.accepted \/ (f.accepted /\ as = "RESPONDED")
        BY <3>1 DEF Marks
      <4>2. f.accepted => as = "RESPONDED"
        BY <3>1, <4>1
      <4>3. last \in 1..last /\ \A n \in 1..(last - 1) : n \in 1..last /\ n # last
        BY <2>2, <3>1
      <4> QED
        BY <4>1, <4>2, <4>3
    <3> QED
      BY <2>2, <2>4, <3>1, <3>2 DEF CallsSafe
  <2> QED
    BY <2>1, <2>3, <2>5, <2>6 DEF AttemptStatus
<1>5. CASE Rests \/ \E w \in Workers : Goes(w) \/ Ends(w) \/ Claiming(w) \/ Reading(w)
  BY <1>3, <1>5 DEF Rests, Kept, EnvsKept, Goes, AllLike, Like, Ends, SameCalls, Claiming, Reading
<1>6. CASE \E w \in Workers : Taking(w)
  BY <1>3, <1>6 DEF Taking, Takes, IInv, TypeOK, EnvsOK
<1>7. CASE \E w \in Workers : Prepares(w)
  <2>1. PICK w \in Workers : Prepares(w)
    BY <1>7
  <2>2. CASE envs' = envs \/ i # work[w].input
    BY <1>3, <2>1, <2>2 DEF Prepares, Spends, IInv, TypeOK, EnvsOK
  <2> QED
    BY <1>4, <2>1, <2>2
<1> QED
  BY <1>5, <1>6, <1>7 DEF AStep

LEMMA NextIInv == IInv /\ [Next]_vars => IInv'
<1> SUFFICES ASSUME IInv, [Next]_vars PROVE IInv'
  OBVIOUS
<1>1. TypeOK' /\ AStep /\ AskGrows
  BY StepKinds, AsksType DEF IInv
<1> QED
  BY <1>1, NoneStep, ClaimStep, LedgerStep, CallsStep DEF IInv

LEMMA Invariance == Spec => []IInv
BY InitIInv, NextIInv, PTL DEF Spec

-----------------------------------------------------------------------------
(* Theorems. *)

(* Type correctness: whatever the numbers of inputs, jobs and deliveries and
   whatever the faults, every variable keeps to what the code can put there; a
   delivery in progress has a job that exists and, once it has claimed it, an
   envelope. *)
THEOREM TypeCorrect == Spec => []TypeOK
<1>1. IInv => TypeOK
  BY DEF IInv
<1> QED
  BY <1>1, Invariance, PTL

(* An envelope has at most one owner among all deliveries, because a claim token
   of an envelope is given once (claim_materialization) and the check of the
   owner compares it. *)
THEOREM OneOwner == Spec => []SingleOwner
<1>1. IInv => SingleOwner
  BY DEF IInv, ClaimInv, SingleOwner, Owners, OwnedBy
<1> QED
  BY <1>1, Invariance, PTL

(* The ledger of provider calls stays within its budget, and no call follows one
   whose outcome is unknown or one that was accepted: the owner that calls has
   reserved the last attempt, and it alone can mark it. *)
THEOREM NoCallTwice == Spec => []CallsAreSafe
<1>1. IInv => CallsAreSafe
  BY DEF IInv
<1> QED
  BY <1>1, Invariance, PTL

(* A generation becomes reviewable only by its owner's publication, and then on
   the completed, current render of its present revision and on live inputs. *)
THEOREM ReviewableIsFresh == Spec => PublishFresh
<1>1. ASSUME IInv, [Next]_vars, NEW i \in Inputs, ~envs[i].ready, envs'[i].ready
      PROVE  /\ current = i /\ live = i
             /\ Bound(i) /\ renders[envs[i].render].life = "COMPLETE" /\ curRender = envs[i].render
  <2>1. AStep
    BY <1>1, StepKinds DEF IInv
  <2>2. ~AllLike /\ ~Rests
    BY <1>1 DEF AllLike, Like, Rests, Kept, EnvsKept
  <2>3. CASE \E w \in Workers : Goes(w) \/ Claiming(w) \/ Reading(w)
    BY <2>2, <2>3, SameEnvelopes DEF Goes, Claiming, Reading
  <2>4. CASE \E w \in Workers : Taking(w)
    BY <1>1, <2>4 DEF Taking, Takes, IInv, TypeOK, EnvsOK
  <2>5. CASE \E w \in Workers : Prepares(w)
    BY <1>1, <2>5 DEF Prepares, Spends, IInv, TypeOK, EnvsOK
  <2>6. CASE \E w \in Workers : Ends(w)
    <3>1. PICK w \in Workers : Repairs(w) \/ Publishes(w)
      BY <2>2, <2>6 DEF Ends
    <3>2. CASE Repairs(w)
      <4>1. envs[i] \in Envelopes /\ (envs'[i] = envs[i] \/ envs'[i] = Repaired(envs[i]))
        BY <1>1, <3>2 DEF Repairs, IInv, TypeOK, EnvsOK
      <4>2. ~Repaired(envs[i]).ready
        BY <4>1, EndingType
      <4> QED
        BY <1>1, <4>1, <4>2
    <3>3. CASE Publishes(w)
      BY <1>1, <3>3 DEF Publishes, OwnedBy, IInv, TypeOK, EnvsOK
    <3> QED
      BY <3>1, <3>2, <3>3
  <2> QED
    BY <2>1, <2>2, <2>3, <2>4, <2>5, <2>6 DEF AStep
<1>2. ASSUME IInv, [Next]_vars
      PROVE  [\A i \in Inputs :
                (~envs[i].ready /\ envs'[i].ready) =>
                   /\ current = i /\ live = i
                   /\ Bound(i) /\ renders[envs[i].render].life = "COMPLETE" /\ curRender = envs[i].render]_vars
  BY <1>1, <1>2
<1> QED
  BY <1>2, Invariance, PTL DEF Spec, PublishFresh

(* The one repair of a generation is never given back, not even by a new
   preparation, and is spent on the render of the output it replaces. *)
THEOREM RepairOnce == Spec => RepairIsSpent
<1>1. ASSUME IInv, [Next]_vars, NEW i \in Inputs
      PROVE  /\ envs'[i].repair >= envs[i].repair
             /\ envs'[i].repair > envs[i].repair =>
                  /\ envs[i].render = <<i, envs[i].out, 0>> /\ renders[envs[i].render].life = "PEAK"
                  /\ envs'[i].out = 2
  <2>1. AStep
    BY <1>1, StepKinds DEF IInv
  <2>2. envs[i].repair \in 0..1
    BY <1>1 DEF IInv, TypeOK, EnvsOK, Envelopes
  <2>6. /\ [Rejected(envs[i]) EXCEPT !.ready = TRUE].repair = envs[i].repair
        /\ Repaired(envs[i]).repair = 1 /\ Repaired(envs[i]).out = 2
    <3>1. envs[i] \in Envelopes
      BY <1>1 DEF IInv, TypeOK, EnvsOK
    <3> QED
      BY <3>1, EndingType
  <2>3. CASE envs'[i].repair = envs[i].repair
    BY <2>2, <2>3
  <2>4. ASSUME envs'[i].repair # envs[i].repair
        PROVE  \E w \in Workers : Repairs(w) /\ work[w].input = i
    <3>1. ~AllLike /\ ~Rests
      BY <2>4 DEF AllLike, Like, Rests, Kept, EnvsKept
    <3>2. ~\E w \in Workers : Goes(w) \/ Claiming(w) \/ Reading(w)
      BY <3>1, SameEnvelopes DEF Goes, Claiming, Reading
    <3>3. ~\E w \in Workers : Taking(w) \/ Prepares(w)
      BY <1>1, <2>4 DEF Taking, Takes, Prepares, Spends, IInv, TypeOK, EnvsOK
    <3>4. PICK w \in Workers : Repairs(w) \/ Publishes(w)
      BY <2>1, <3>1, <3>2, <3>3 DEF AStep, Ends
    <3>5. ~Publishes(w)
      BY <1>1, <2>4, <2>6 DEF Publishes, IInv, TypeOK, EnvsOK
    <3> QED
      BY <1>1, <2>4, <3>4, <3>5 DEF Repairs, IInv, TypeOK, EnvsOK
  <2>5. CASE \E w \in Workers : Repairs(w) /\ work[w].input = i
    <3>1. /\ envs[i].repair = 0 /\ Bound(i) /\ renders[envs[i].render].life = "PEAK"
          /\ envs'[i] = Repaired(envs[i])
      BY <1>1, <2>5 DEF Repairs, IInv, TypeOK, EnvsOK
    <3>2. envs'[i].repair = 1 /\ envs'[i].out = 2
      BY <2>6, <3>1
    <3> QED
      BY <3>1, <3>2 DEF Bound, Revision
  <2> QED
    BY <2>3, <2>4, <2>5
<1>2. ASSUME IInv, [Next]_vars
      PROVE  [\A i \in Inputs :
                /\ envs'[i].repair >= envs[i].repair
                /\ envs'[i].repair > envs[i].repair =>
                     /\ envs[i].render = <<i, envs[i].out, 0>> /\ renders[envs[i].render].life = "PEAK"
                     /\ envs'[i].out = 2]_vars
  BY <1>1, <1>2
<1> QED
  BY <1>2, Invariance, PTL DEF Spec, RepairIsSpent

-----------------------------------------------------------------------------
(* The claims of a job. *)

(* No claim stalls between its commit and the read of its token. *)
TokensAreRead == "claimStall" \notin Faults

(* A delivery has a token from the read on, and until it ends; one that has
   failed has it if it had read it. *)
CountInv ==
    \A w \in Workers :
        /\ ~Past(work[w]) => work[w].token = 0
        /\ Past(work[w]) /\ work[w].pc # "fail" => work[w].token # 0
        /\ work[w].pc = "claimed" => version[work[w].job] > 0

(* A token is given once.  Until it is read, the claim is the job's newest, and no
   other can be made. *)
TokenInv ==
    /\ \A w \in Workers : work[w].token # 0 => work[w].token <= version[work[w].job]
    /\ \A v, w \in Workers :
         (work[v].token # 0 /\ work[v].job = work[w].job /\ work[v].token = work[w].token) => v = w
    /\ \A w \in Workers : work[w].pc = "claimed" =>
         /\ status[work[w].job] \in {"RUNNING", "CANCELLED"} /\ work[w].job \notin stale
         /\ \A v \in Workers \ {w} : work[v].job = work[w].job =>
              work[v].pc # "claimed" /\ work[v].token # version[work[w].job]

LEMMA Labels ==
  ASSUME WorkOK, NEW w \in Workers
  PROVE  /\ \A label : Goto(w, label) => work'[w].pc = label
         /\ \A good : Decided(w, good) => work'[w].pc = "decide"
         /\ Fails(w) => work'[w].pc = "fail"
         /\ HandsOff(w) => work'[w].pc = "handoff"
<1>1. work \in [Workers -> Deliveries] /\ work[w] \in Deliveries
  BY DEF WorkOK
<1>2. \A d : work' = [work EXCEPT ![w] = d] => work'[w] = d
  BY <1>1
<1>3. ASSUME NEW label, Goto(w, label) PROVE work'[w].pc = label
  <2> DEFINE d == [work[w] EXCEPT !.pc = label]
  <2>1. d.pc = label
    BY <1>1 DEF Deliveries
  <2>2. work' = [work EXCEPT ![w] = d]
    BY <1>3 DEF Goto
  <2> HIDE DEF d
  <2> QED
    BY <1>2, <2>1, <2>2
<1>4. ASSUME NEW good, Decided(w, good) PROVE work'[w].pc = "decide"
  <2> DEFINE d == [work[w] EXCEPT !.pc = "decide", !.good = good, !.attempt = 0]
  <2>1. d.pc = "decide"
    BY <1>1 DEF Deliveries
  <2>2. work' = [work EXCEPT ![w] = d]
    BY <1>4 DEF Decided
  <2> HIDE DEF d
  <2> QED
    BY <1>2, <2>1, <2>2
<1>5. ASSUME Fails(w) PROVE work'[w].pc = "fail"
  <2> DEFINE d == [Idle EXCEPT !.pc = "fail", !.job = work[w].job, !.token = work[w].token, !.phase = work[w].phase]
  <2>1. d.pc = "fail"
    BY DEF Idle
  <2>2. work' = [work EXCEPT ![w] = d]
    BY <1>5 DEF Fails
  <2> HIDE DEF d
  <2> QED
    BY <1>2, <2>1, <2>2
<1>6. ASSUME HandsOff(w) PROVE work'[w].pc = "handoff"
  <2> DEFINE d == [Idle EXCEPT !.pc = "handoff", !.job = work[w].job, !.token = work[w].token, !.input = work[w].input]
  <2>1. d.pc = "handoff"
    BY DEF Idle
  <2>2. work' = [work EXCEPT ![w] = d]
    BY <1>6 DEF HandsOff
  <2> HIDE DEF d
  <2> QED
    BY <1>2, <2>1, <2>2
<1> QED
  BY <1>3, <1>4, <1>5, <1>6

(* A delivery that neither claims its job nor reads its token ends, or keeps its
   claim, or fails before it has a token. *)
LEMMA DeliveryMoves ==
  ASSUME TypeOK, NoneInv, NEW w \in Workers, WorkerStep(w) \/ Raise(w) \/ Crash(w), ~Claims(w), ~Reads(w)
  PROVE  /\ \A v \in Workers \ {w} : work'[v] = work[v]
         /\ Ack(w) \/ (/\ work[w].pc # "fail" /\ Past(work'[w])
                       /\ Past(work[w]) \/ work'[w].pc = "fail"
                       /\ work'[w].job = work[w].job /\ work'[w].token = work[w].token)
<1> USE DEF TypeOK
<1>1. Goes(w) \/ Prepares(w) \/ Ends(w) \/ Taking(w)
  BY DeliveryKinds DEF Claiming, Reading
<1>2. /\ \A v \in Workers \ {w} : work'[v] = work[v]
      /\ Past(work'[w]) => work'[w].job = work[w].job /\ work'[w].token = work[w].token
  BY <1>1 DEF Goes, Prepares, Ends, Taking, Takes, Steps, Past
<1>3. work \in [Workers -> Deliveries]
  BY DEF WorkOK
<1>5. Ack(w) \/ (work[w].pc # "fail" /\ Past(work'[w]) /\ (Past(work[w]) \/ work'[w].pc = "fail"))
  <2>1. CASE ClaimJob(w)
    <3>1. version'[work[w].job] = version[work[w].job]
      BY <1>1, <2>1 DEF Goes, Prepares, Ends, Taking
    <3>2. (work[w].job \in Jobs /\ version'[work[w].job] = version[work[w].job] + 1) \/ Ack(w)
      BY <2>1 DEF ClaimJob, JobsOK, WorkOK
    <3> QED
      BY <3>1, <3>2 DEF JobsOK
  <2>2. CASE TakePrepare(w) \/ TakeFinalize(w)
    <3>1. CASE TakePrepare(w)
      <4> DEFINE d == [work[w] EXCEPT !.pc = "prepare", !.claim = envs[work[w].input].claim + 1]
      <4>1. d.pc \in {"prepare"}
        BY <1>3 DEF Deliveries
      <4>2. Ack(w) \/ work' = [work EXCEPT ![w] = d]
        BY <3>1 DEF TakePrepare
      <4>3. work[w].pc \in {"take", "own"}
        BY <3>1 DEF TakePrepare
      <4> HIDE DEF d
      <4> QED
        BY <1>3, <4>1, <4>2, <4>3, Labels DEF Past
    <3>2. CASE TakeFinalize(w)
      <4> DEFINE d == [work[w] EXCEPT !.pc = "assess", !.claim = envs[work[w].input].claim + 1]
      <4>1. d.pc \in {"assess"}
        BY <1>3 DEF Deliveries
      <4>2. Ack(w) \/ work' = [work EXCEPT ![w] = d]
        BY <3>2 DEF TakeFinalize
      <4>3. work[w].pc = "take"
        BY <3>2 DEF TakeFinalize
      <4> HIDE DEF d
      <4> QED
        BY <1>3, <4>1, <4>2, <4>3, Labels DEF Past
    <3> QED
      BY <2>2, <3>1, <3>2
  <2>3. CASE Prepare(w)
    <3> DEFINE d == [work[w] EXCEPT !.pc = "call", !.attempt = Len(envs[work[w].input].ledger) + 1]
    <3>1. d.pc \in {"call"}
      BY <1>3 DEF Deliveries
    <3>2. Fails(w) \/ (\E good : Decided(w, good)) \/ work' = [work EXCEPT ![w] = d]
      BY <2>3 DEF Prepare
    <3>3. work[w].pc = "prepare"
      BY <2>3 DEF Prepare
    <3> HIDE DEF d
    <3> QED
      BY <1>3, <3>1, <3>2, <3>3, Labels DEF Past
  <2>4. CASE Call(w)
    BY <2>4, Labels DEF Call, Past
  <2>5. CASE Record(w)
    BY <2>5, Labels DEF Record, Past
  <2>6. CASE Decide(w) \/ Commit(w)
    BY <2>6, Labels DEF Decide, Commit, Past
  <2>7. CASE HandOffQueues(w) \/ HandOffBinds(w) \/ HandOffDelivers(w)
    <3>1. CASE HandOffQueues(w)
      <4> DEFINE d == [work[w] EXCEPT !.key = Revision(work[w].input),
                         !.pc = IF envs[work[w].input].render = Revision(work[w].input) THEN "deliver" ELSE "bind"]
      <4>1. d.pc \in {"deliver", "bind"}
        BY <1>3 DEF Deliveries
      <4>2. Ack(w) \/ work' = [work EXCEPT ![w] = d]
        BY <3>1 DEF HandOffQueues
      <4>3. work[w].pc = "handoff"
        BY <3>1 DEF HandOffQueues
      <4> HIDE DEF d
      <4> QED
        BY <1>3, <4>1, <4>2, <4>3, Labels DEF Past
    <3>2. CASE HandOffBinds(w)
      BY <3>2, Labels DEF HandOffBinds, Past
    <3>3. CASE HandOffDelivers(w)
      BY <3>3, Labels DEF HandOffDelivers, Past
    <3> QED
      BY <2>7, <3>1, <3>2, <3>3
  <2>8. CASE Assess(w) \/ Publish(w)
    <3>1. CASE Assess(w)
      <4> DEFINE d == [work[w] EXCEPT !.pc = "publish", !.key = envs[work[w].input].render]
      <4>1. d.pc \in {"publish"}
        BY <1>3 DEF Deliveries
      <4>2. Ack(w) \/ HandsOff(w) \/ work' = [work EXCEPT ![w] = d]
        BY <3>1 DEF Assess
      <4>3. work[w].pc = "assess"
        BY <3>1 DEF Assess
      <4> HIDE DEF d
      <4> QED
        BY <1>3, <4>1, <4>2, <4>3, Labels DEF Past
    <3>2. CASE Publish(w)
      BY <3>2, Labels DEF Publish, Past
    <3> QED
      BY <2>8, <3>1, <3>2
  <2>9. CASE Fail(w) \/ Crash(w)
    BY <2>9 DEF Fail, Crash
  <2>10. CASE Raise(w)
    BY <2>10, Labels DEF Raise, Owning, Past
  <2>11. CASE ReadToken(w)
    BY <2>11, ReadTokenType
  <2>12. CASE Rebind(w)
    BY <2>12, Labels DEF Rebind, Past
  <2> QED
    BY <2>1, <2>2, <2>3, <2>4, <2>5, <2>6, <2>7, <2>8, <2>9, <2>10, <2>11, <2>12 DEF WorkerStep
<1> QED
  BY <1>2, <1>5

(* Such a delivery writes the status of its own job only: under its token, or of
   a job that is QUEUED, when it fails without one. *)
LEMMA DeliveryWrites ==
  ASSUME TypeOK, NoneInv, CountInv, NEW w \in Workers, WorkerStep(w) \/ Raise(w) \/ Crash(w), ~Claims(w)
  PROVE  /\ UNCHANGED version /\ stale' = stale
         /\ \/ UNCHANGED status
            \/ /\ Fenced(work[w]) /\ work[w].token # 0
               /\ \E as \in {"SUCCEEDED", "FAILED", "CANCELLED"} :
                    status' = [status EXCEPT ![work[w].job] = as]
            \/ /\ work[w].pc = "fail" /\ work[w].token = 0 /\ status[work[w].job] = "QUEUED"
               /\ status' = [status EXCEPT ![work[w].job] = "FAILED"]
               /\ Ack(w) /\ UNCHANGED envs
<1>1. UNCHANGED version
  BY DeliveryKinds DEF Claiming, Reading, Goes, Prepares, Ends, Taking, jobVars
<1>2. CASE ClaimJob(w)
  <2>1. version'[work[w].job] # version[work[w].job] \/ UNCHANGED <<status, stale>>
    BY <1>2 DEF ClaimJob, TypeOK, JobsOK, WorkOK
  <2> QED
    BY <1>1, <2>1
<1>3. CASE ReadToken(w) \/ Rebind(w) \/ TakePrepare(w) \/ TakeFinalize(w)
  BY <1>1, <1>3 DEF ReadToken, Rebind, TakePrepare, TakeFinalize, jobVars
<1>4. CASE Prepare(w) \/ Call(w) \/ Record(w)
  BY <1>1, <1>4 DEF Prepare, Call, Record, Preparing, jobVars
<1>5. CASE Decide(w) \/ Commit(w)
  BY <1>1, <1>5 DEF Decide, Commit, OwnedBy, CountInv, Past
<1>6. CASE HandOffQueues(w) \/ HandOffBinds(w) \/ HandOffDelivers(w)
  BY <1>1, <1>6 DEF HandOffQueues, HandOffBinds, HandOffDelivers, jobVars
<1>7. CASE Assess(w) \/ Publish(w)
  BY <1>1, <1>7 DEF Assess, Publish, Dispose, Finalizing, CountInv, Past
<1>8. CASE Fail(w)
  BY <1>1, <1>8 DEF Fail, envVars
<1>9. CASE Raise(w) \/ Crash(w)
  BY <1>1, <1>9 DEF Raise, Crash, jobVars
<1> QED
  BY <1>2, <1>3, <1>4, <1>5, <1>6, <1>7, <1>8, <1>9 DEF WorkerStep

LEMMA DeliverWork ==
  ASSUME WorkOK, NEW w \in Workers, NEW j \in Jobs, Deliver(w, j)
  PROVE  \/ work' = work
         \/ /\ work'[w].pc = "claim" /\ work'[w].token = 0
            /\ \A v \in Workers \ {w} : work'[v] = work[v]
<1> DEFINE d == [Idle EXCEPT !.pc = "claim", !.job = j,
                     !.phase = IF Ended(target[j]) THEN "finalize" ELSE "prepare"]
<1>1. d.pc = "claim" /\ d.token = 0
  BY DEF Idle
<1>2. work' = work \/ work' = [work EXCEPT ![w] = d]
  BY DEF Deliver
<1> HIDE DEF d
<1> QED
  BY <1>1, <1>2 DEF WorkOK

LEMMA OnlyClaims ==
  ASSUME NEW w \in Workers, WorkerStep(w) \/ Raise(w) \/ Crash(w), version' # version
  PROVE  ClaimJob(w)
BY DEF WorkerStep, Raise, Crash, ReadToken, Rebind, TakePrepare, TakeFinalize, Prepare, Call, Record, Preparing, Decide,
       Commit, HandOffQueues, HandOffBinds, HandOffDelivers, Assess, Publish, Finalizing, Fail, jobVars

(* A request, a callback or the renderer inserts one job, cancels, or leaves the
   jobs alone. *)
LEMMA OutsideWrites ==
  ASSUME TypeOK, Outside
  PROVE  \/ UNCHANGED status
         \/ \E j \in Jobs : status[j] = "none" /\ status' = [status EXCEPT ![j] = "QUEUED"]
         \/ \E S \in SUBSET Jobs :
              /\ \A j \in S : status[j] # "none"
              /\ status' = [j \in Jobs |-> IF j \in S THEN "CANCELLED" ELSE status[j]]
<1> DEFINE Inserts == \E j \in Jobs : status[j] = "none" /\ status' = [status EXCEPT ![j] = "QUEUED"]
<1>1. ASSUME NEW i, NEW e, NewJob(i, e) PROVE Inserts
  BY <1>1 DEF NewJob, NextJob
<1>2. ASSUME NEW i, Redispatch(i) \/ Nothing \/ \E e : StartHandOff(i, e) PROVE UNCHANGED status
  BY <1>2 DEF Redispatch, Nothing, StartHandOff, jobVars
<1>3. ASSUME NEW i, Route(i) PROVE Inserts \/ UNCHANGED status
  <2>1. ASSUME NEW r, RecoverRender(r) PROVE UNCHANGED status
    BY <2>1 DEF RecoverRender, jobVars
  <2> QED
    BY <1>1, <1>2, <1>3, <2>1 DEF Route
<1>4. ASSUME NEW force \in BOOLEAN, Post(force) PROVE Inserts \/ UNCHANGED status
  <2>1. ASSUME NEW i, Recover(i) PROVE Inserts \/ UNCHANGED status
    BY <1>1, <1>2, <2>1 DEF Recover
  <2> QED
    BY <1>1, <1>2, <1>3, <1>4, <2>1 DEF Post
<1>5. ASSUME NEW i \in Inputs, Resume(i) PROVE Inserts \/ UNCHANGED status
  <2>1. Recover(i) => Inserts \/ UNCHANGED status
    BY <1>1, <1>2 DEF Recover
  <2> QED
    BY <1>1, <1>2, <1>3, <1>5, <2>1 DEF Resume
<1>6. ASSUME NEW i \in Inputs, Cancel(i)
      PROVE  /\ ActiveJobs(i) \subseteq Jobs /\ \A j \in ActiveJobs(i) : status[j] # "none"
             /\ status' = [j \in Jobs |-> IF j \in ActiveJobs(i) THEN "CANCELLED" ELSE status[j]]
  BY <1>6 DEF Cancel, ActiveJobs, Active
<1>7. ASSUME NEW j \in Jobs, CancelJob(j)
      PROVE  /\ {j} \subseteq Jobs /\ \A k \in {j} : status[k] # "none"
             /\ status' = [k \in Jobs |-> IF k \in {j} THEN "CANCELLED" ELSE status[k]]
  BY <1>7 DEF CancelJob, Active, TypeOK, JobsOK
<1>8. ASSUME NEW k \in Renders, RenderStep(k) \/ RenderCancelled(k) PROVE Inserts \/ UNCHANGED status
  BY <1>1, <1>8 DEF RenderStep, RenderBegins, RenderEnds, CallbackReads, CallbackBinds, RenderCancelled, jobVars
<1>9. ASSUME RequestBinds \/ RequestDelivers \/ EditUpstream \/ \E j \in Jobs : GoStale(j)
      PROVE  UNCHANGED status
  BY <1>9 DEF RequestBinds, RequestDelivers, EditUpstream, GoStale, jobVars
<1> QED
  BY <1>4, <1>5, <1>6, <1>7, <1>8, <1>9 DEF Outside

(* The heartbeat of a claim that has not been read does not grow old. *)
LEMMA OutsideAges ==
  ASSUME TokensAreRead, Outside, NEW w \in Workers, work[w].pc = "claimed", work[w].job \notin stale
  PROVE  work[w].job \notin stale'
<1>1. ASSUME NEW i, NEW e, NewJob(i, e) PROVE UNCHANGED stale
  BY <1>1 DEF NewJob
<1>2. ASSUME NEW i, Redispatch(i) \/ Nothing \/ \E e : StartHandOff(i, e) PROVE UNCHANGED stale
  BY <1>2 DEF Redispatch, Nothing, StartHandOff, jobVars
<1>3. ASSUME NEW i, Route(i) \/ Recover(i) PROVE UNCHANGED stale
  <2>1. ASSUME NEW r, RecoverRender(r) PROVE UNCHANGED stale
    BY <2>1 DEF RecoverRender, jobVars
  <2> QED
    BY <1>1, <1>2, <1>3, <2>1 DEF Route, Recover
<1>4. CASE \E force \in BOOLEAN : Post(force)
  BY <1>1, <1>2, <1>3, <1>4 DEF Post
<1>5. CASE \E i \in Inputs : Resume(i)
  BY <1>1, <1>2, <1>3, <1>5 DEF Resume
<1>6. CASE \E k \in Renders : RenderStep(k) \/ RenderCancelled(k)
  BY <1>1, <1>6 DEF RenderStep, RenderBegins, RenderEnds, CallbackReads, CallbackBinds, RenderCancelled, jobVars
<1>7. CASE \E j \in Jobs : GoStale(j)
  BY <1>7 DEF GoStale, TokensAreRead
<1>8. CASE (\E i \in Inputs : Cancel(i)) \/ RequestBinds \/ RequestDelivers \/ EditUpstream \/ \E j \in Jobs : CancelJob(j)
  BY <1>8 DEF Cancel, RequestBinds, RequestDelivers, EditUpstream, CancelJob, jobVars
<1> QED
  BY <1>4, <1>5, <1>6, <1>7, <1>8 DEF Outside

LEMMA ReadsOnly ==
  ASSUME TypeOK, NEW w \in Workers, WorkerStep(w) \/ Raise(w) \/ Crash(w), Reads(w)
  PROVE  UNCHANGED <<jobVars, envs>>
<1>1. work[w].pc = "claimed" /\ work'[w].pc = "take"
  BY DEF Reads
<1>2. CASE ReadToken(w)
  BY <1>2 DEF ReadToken, envVars
<1>3. CASE ~ReadToken(w)
  <2>1. Raise(w) \/ Crash(w)
    BY <1>1, <1>3 DEF WorkerStep, ClaimJob, Rebind, TakePrepare, TakeFinalize, Prepare, Call, Record, Decide,
                      Commit, HandOffQueues, HandOffBinds, HandOffDelivers, Assess, Publish, Fail
  <2> QED
    BY <2>1 DEF Raise, Crash, envVars
<1> QED
  BY <1>2, <1>3

LEMMA CountStep ==
  ASSUME IInv, CountInv, [Next]_vars
  PROVE  CountInv'
<1>1. CASE Outside \/ (\E w \in Workers : Redeliver(w)) \/ UNCHANGED vars
  <2>1. UNCHANGED <<work, version>>
    BY <1>1, OutsideKeeps DEF IInv, Redeliver, vars, jobVars, Kept
  <2> QED
    BY <2>1 DEF CountInv
<1>2. ASSUME NEW w \in Workers, NEW j \in Jobs, Deliver(w, j) PROVE CountInv'
  <2>1. work' = work \/ (/\ work'[w].pc = "claim" /\ work'[w].token = 0
                         /\ \A v \in Workers \ {w} : work'[v] = work[v])
    BY <1>2, DeliverWork DEF IInv, TypeOK
  <2>2. UNCHANGED version
    BY <1>2 DEF Deliver, jobVars
  <2> QED
    BY <2>1, <2>2 DEF CountInv, Past
<1>3. ASSUME NEW w \in Workers, WorkerStep(w) \/ Raise(w) \/ Crash(w) PROVE CountInv'
  <2>1. CASE Claims(w)
    <3>1. \A j \in Jobs : version[j] \in Nat /\ version'[j] \in Nat /\ version'[j] >= version[j]
      BY <2>1 DEF Claims, IInv, TypeOK, JobsOK
    <3>2. version'[work[w].job] > 0 /\ work[w].token = 0
      BY <2>1 DEF Claims, IInv, TypeOK, JobsOK, CountInv, Past
    <3>3. \A v \in Workers : work[v].pc = "claimed" => work[v].job \in Jobs
      BY DEF IInv, TypeOK, WorkOK
    <3>4. \A v \in Workers \ {w} : work[v].pc = "claimed" => version'[work[v].job] > 0
      BY <3>1, <3>3 DEF CountInv
    <3> QED
      BY <2>1, <3>2, <3>4 DEF Claims, CountInv, Past
  <2>2. CASE Reads(w)
    <3>1. UNCHANGED version
      BY <1>3, <2>2, ReadsOnly DEF IInv, jobVars
    <3>2. work'[w].token # 0 /\ work'[w].pc = "take" /\ \A v \in Workers \ {w} : work'[v] = work[v]
      BY <2>2 DEF Reads, CountInv, IInv, TypeOK, WorkOK, JobsOK
    <3> QED
      BY <3>1, <3>2 DEF CountInv, Past
  <2>3. CASE ~Claims(w) /\ ~Reads(w)
    <3>1. Ack(w) => work'[w] = Idle
      BY DEF Ack, IInv, TypeOK, WorkOK
    <3>2. Idle.token = 0 /\ Idle.pc = "idle"
      BY DEF Idle
    <3>3. UNCHANGED version /\ \A v \in Workers \ {w} : work'[v] = work[v]
      BY <1>3, <2>3, DeliveryWrites, DeliveryMoves DEF IInv
    <3>4. \/ work'[w] = Idle
          \/ /\ work[w].pc # "fail" /\ Past(work'[w]) /\ (Past(work[w]) \/ work'[w].pc = "fail")
             /\ work'[w].token = work[w].token
      BY <1>3, <2>3, <3>1, DeliveryMoves DEF IInv
    <3> QED
      BY <3>2, <3>3, <3>4 DEF CountInv, Past
  <2> QED
    BY <2>1, <2>2, <2>3
<1> QED
  BY <1>1, <1>2, <1>3 DEF Next, Outside

LEMMA TokenClaims ==
  ASSUME IInv, CountInv, TokenInv, NEW w \in Workers, ClaimJob(w), Claims(w)
  PROVE  TokenInv'
<1> DEFINE j == work[w].job
<1>1. /\ j \in Jobs /\ work[w].pc = "claim" /\ work'[w].pc = "claimed" /\ work'[w].job = j
      /\ work'[w].token = 0 /\ work[w].token = 0
      /\ status'[j] = "RUNNING" /\ stale' = stale \ {j}
      /\ \A v \in Workers \ {w} : work'[v] = work[v]
      /\ \A k \in Jobs \ {j} : version'[k] = version[k] /\ status'[k] = status[k]
  <2>1. version'[j] # version[j]
    BY DEF Claims, IInv, TypeOK, JobsOK
  <2> QED
    BY <2>1 DEF Claims, ClaimJob, CountInv, Past
<1>2. version[j] \in Nat /\ version'[j] = version[j] + 1
  BY <1>1 DEF Claims, IInv, TypeOK, JobsOK
<1>3. \A v \in Workers : /\ work[v].token \in Nat
                         /\ (work[v].token # 0 \/ work[v].pc = "claimed") => work[v].job \in Jobs
  BY DEF IInv, TypeOK, WorkOK, Deliveries, CountInv, Past
<1>4. \A v \in Workers : work[v].pc = "claimed" => work[v].job # j
  <2>1. status[j] \in {"QUEUED", "FAILED"} \/ (status[j] = "RUNNING" /\ j \in stale)
    BY <1>1, <1>2 DEF ClaimJob
  <2> QED
    BY <2>1 DEF TokenInv
<1>5. ASSUME NEW v \in Workers, work'[v].token # 0 PROVE work'[v].token <= version'[work'[v].job]
  <2>1. v # w /\ work'[v] = work[v] /\ work[v].job \in Jobs /\ work[v].token <= version[work[v].job]
    BY <1>1, <1>3, <1>5 DEF TokenInv
  <2> QED
    BY <1>1, <1>2, <1>3, <2>1
<1>6. \A u, v \in Workers : (work'[u].token # 0 /\ work'[u].job = work'[v].job /\ work'[u].token = work'[v].token) => u = v
  BY <1>1 DEF TokenInv
<1>7. ASSUME NEW v \in Workers \ {w}, work[v].job = j PROVE work[v].pc # "claimed" /\ work[v].token # version'[j]
  <2>1. work[v].token # 0 => work[v].token <= version[j]
    BY <1>7 DEF TokenInv
  <2> QED
    BY <1>2, <1>3, <1>4, <1>7, <2>1
<1>8. ASSUME NEW u \in Workers, work'[u].pc = "claimed"
      PROVE  /\ status'[work'[u].job] \in {"RUNNING", "CANCELLED"} /\ work'[u].job \notin stale'
             /\ \A v \in Workers \ {u} : work'[v].job = work'[u].job =>
                  work'[v].pc # "claimed" /\ work'[v].token # version'[work'[u].job]
  <2>1. CASE u = w
    BY <1>1, <1>7, <2>1
  <2>2. CASE u # w
    BY <1>1, <1>3, <1>4, <1>8, <2>2 DEF TokenInv
  <2> QED
    BY <2>1, <2>2
<1> QED
  BY <1>5, <1>6, <1>8 DEF TokenInv

LEMMA TokenReads ==
  ASSUME IInv, CountInv, TokenInv, NEW w \in Workers, Reads(w), UNCHANGED jobVars
  PROVE  TokenInv'
<1> DEFINE j == work[w].job
<1>1. /\ work[w].pc = "claimed" /\ work'[w].pc = "take" /\ work'[w].job = j /\ work'[w].token = version[j]
      /\ \A v \in Workers \ {w} : work'[v] = work[v]
      /\ UNCHANGED <<status, version, stale>> /\ version[j] \in Nat
  BY DEF Reads, jobVars, IInv, TypeOK, JobsOK, WorkOK
<1>2. \A v \in Workers \ {w} : work[v].job = j => work[v].pc # "claimed" /\ work[v].token # version[j]
  BY <1>1 DEF TokenInv
<1>3. \A v \in Workers : work'[v].token # 0 => work'[v].token <= version'[work'[v].job]
  BY <1>1 DEF TokenInv
<1>4. \A u, v \in Workers : (work'[u].token # 0 /\ work'[u].job = work'[v].job /\ work'[u].token = work'[v].token) => u = v
  BY <1>1, <1>2 DEF TokenInv
<1>5. \A u \in Workers : work'[u].pc = "claimed" =>
         /\ status'[work'[u].job] \in {"RUNNING", "CANCELLED"} /\ work'[u].job \notin stale'
         /\ \A v \in Workers \ {u} : work'[v].job = work'[u].job =>
              work'[v].pc # "claimed" /\ work'[v].token # version'[work'[u].job]
  BY <1>1, <1>2 DEF TokenInv
<1> QED
  BY <1>3, <1>4, <1>5 DEF TokenInv

(* Any other step leaves a claim that is not read as it is, and gives no token. *)
LEMMA TokenStands ==
  ASSUME CountInv, TokenInv, UNCHANGED version,
         \A w \in Workers : \/ work'[w].token = 0
                            \/ work'[w].job = work[w].job /\ work'[w].token = work[w].token,
         \A w \in Workers : work'[w].pc = "claimed" =>
             /\ work[w].pc = "claimed" /\ work'[w].job = work[w].job
             /\ status'[work[w].job] \in {"RUNNING", "CANCELLED"} /\ work[w].job \notin stale'
  PROVE  TokenInv'
<1>1. \A w \in Workers : work'[w].token # 0 => work'[w].token <= version'[work'[w].job]
  BY DEF TokenInv
<1>2. \A u, v \in Workers : (work'[u].token # 0 /\ work'[u].job = work'[v].job /\ work'[u].token = work'[v].token) => u = v
  BY DEF TokenInv
<1>3. ASSUME NEW u \in Workers, work'[u].pc = "claimed", NEW v \in Workers \ {u}, work'[v].job = work'[u].job
      PROVE  work'[v].pc # "claimed" /\ work'[v].token # version'[work'[u].job]
  <2>1. work[u].pc = "claimed" /\ work'[u].job = work[u].job /\ version[work[u].job] > 0
    BY <1>3 DEF CountInv
  <2>2. work'[v].pc # "claimed"
    BY <1>3, <2>1 DEF TokenInv
  <2>3. work'[v].token # version'[work'[u].job]
    BY <1>3, <2>1 DEF TokenInv
  <2> QED
    BY <2>2, <2>3
<1> QED
  BY <1>1, <1>2, <1>3 DEF TokenInv

LEMMA TokenStep ==
  ASSUME TokensAreRead, IInv, CountInv, TokenInv, [Next]_vars
  PROVE  TokenInv'
<1>1. \A w \in Workers : work[w].pc = "claimed" => work[w].job \in Jobs /\ status[work[w].job] # "none"
  BY DEF IInv, TypeOK, WorkOK
<1>2. CASE Outside
  <2>1. UNCHANGED <<version, work>>
    BY <1>2, OutsideKeeps DEF IInv, Kept
  <2>2. \A w \in Workers : work[w].pc = "claimed" =>
          status'[work[w].job] \in {"RUNNING", "CANCELLED"} /\ work[w].job \notin stale'
    BY <1>1, <1>2, OutsideWrites, OutsideAges DEF IInv, TypeOK, JobsOK, TokenInv
  <2> QED
    BY <2>1, <2>2, TokenStands
<1>3. CASE (\E w \in Workers : Redeliver(w)) \/ UNCHANGED vars
  <2>1. UNCHANGED <<work, status, version, stale>>
    BY <1>3 DEF Redeliver, vars, jobVars
  <2> QED
    BY <2>1 DEF TokenInv
<1>4. ASSUME NEW w \in Workers, NEW j \in Jobs, Deliver(w, j) PROVE TokenInv'
  <2>1. /\ work' = work \/ (/\ work'[w].pc = "claim" /\ work'[w].token = 0
                            /\ \A v \in Workers \ {w} : work'[v] = work[v])
        /\ UNCHANGED <<status, version, stale>>
    BY <1>4, DeliverWork DEF Deliver, jobVars, IInv, TypeOK
  <2>2. \A v \in Workers : work'[v].token = 0 \/ (work'[v].job = work[v].job /\ work'[v].token = work[v].token)
    BY <2>1
  <2>3. \A v \in Workers : work'[v].pc = "claimed" =>
          /\ work[v].pc = "claimed" /\ work'[v].job = work[v].job
          /\ status'[work[v].job] \in {"RUNNING", "CANCELLED"} /\ work[v].job \notin stale'
    BY <2>1 DEF TokenInv
  <2> QED
    BY <2>1, <2>2, <2>3, TokenStands
<1>5. ASSUME NEW w \in Workers, WorkerStep(w) \/ Raise(w) \/ Crash(w) PROVE TokenInv'
  <2>1. CASE Claims(w)
    <3>1. version'[work[w].job] # version[work[w].job]
      BY <2>1 DEF Claims, IInv, TypeOK, JobsOK
    <3> QED
      BY <1>5, <2>1, <3>1, OnlyClaims, TokenClaims
  <2>2. CASE Reads(w)
    <3>1. UNCHANGED jobVars
      BY <1>5, <2>2, ReadsOnly DEF IInv
    <3> QED
      BY <2>2, <3>1, TokenReads
  <2>3. CASE ~Claims(w) /\ ~Reads(w)
    <3>1. Ack(w) => work'[w].token = 0 /\ work'[w].pc = "idle"
      BY DEF Ack, Idle, IInv, TypeOK, WorkOK
    <3>2. UNCHANGED <<version, stale>> /\ \A v \in Workers \ {w} : work'[v] = work[v]
      BY <1>5, <2>3, DeliveryWrites, DeliveryMoves DEF IInv
    <3>3. /\ work'[w].pc # "claimed"
          /\ work'[w].token = 0 \/ (work'[w].job = work[w].job /\ work'[w].token = work[w].token)
      BY <1>5, <2>3, <3>1, DeliveryMoves DEF IInv, Past
    <3>4. ASSUME NEW u \in Workers \ {w}, work[u].pc = "claimed"
          PROVE  status'[work[u].job] \in {"RUNNING", "CANCELLED"} /\ work[u].job \notin stale'
      <4>1. /\ status[work[u].job] \in {"RUNNING", "CANCELLED"} /\ work[u].job \notin stale
            /\ work[w].job = work[u].job => work[w].token # version[work[u].job]
        BY <3>4 DEF TokenInv
      <4>2. CASE UNCHANGED status
        BY <3>2, <4>1, <4>2
      <4>3. CASE ~UNCHANGED status
        <5>1. \/ Fenced(work[w])
              \/ status[work[w].job] = "QUEUED"
          BY <1>5, <2>3, <4>3, DeliveryWrites DEF IInv
        <5>2. work[w].job # work[u].job
          BY <4>1, <5>1 DEF Fenced
        <5>3. \E as : status' = [status EXCEPT ![work[w].job] = as]
          BY <1>5, <2>3, <4>3, DeliveryWrites DEF IInv
        <5>4. status'[work[u].job] = status[work[u].job]
          BY <1>1, <3>4, <5>2, <5>3 DEF IInv, TypeOK, JobsOK
        <5> QED
          BY <3>2, <4>1, <5>4
      <4> QED
        BY <4>2, <4>3
    <3>5. \A v \in Workers : work'[v].token = 0 \/ (work'[v].job = work[v].job /\ work'[v].token = work[v].token)
      BY <3>2, <3>3
    <3>6. \A v \in Workers : work'[v].pc = "claimed" =>
            /\ work[v].pc = "claimed" /\ work'[v].job = work[v].job
            /\ status'[work[v].job] \in {"RUNNING", "CANCELLED"} /\ work[v].job \notin stale'
      BY <3>2, <3>3, <3>4
    <3> QED
      BY <3>2, <3>5, <3>6, TokenStands
  <2> QED
    BY <2>1, <2>2, <2>3
<1> QED
  BY <1>2, <1>3, <1>4, <1>5 DEF Next, Outside

LEMMA TokensInOrder == ASSUME TokensAreRead PROVE Spec => [](IInv /\ CountInv /\ TokenInv)
<1>1. Init => CountInv /\ TokenInv
  BY DEF Init, CountInv, TokenInv, Past, Idle
<1>2. IInv /\ CountInv /\ [Next]_vars => CountInv'
  BY CountStep
<1>3. IInv /\ CountInv /\ TokenInv /\ [Next]_vars => TokenInv'
  BY TokenStep
<1> QED
  BY <1>1, <1>2, <1>3, Invariance, PTL DEF Spec

(* While an envelope is owned, no request, callback or other delivery changes
   more of it than its render binding, unless the same step ends the owner's job
   or has it claimed anew: what _cancel_envelope does, and nothing else.  With a
   claim that stalls before its token is read it fails: two deliveries of one job
   then have one token, and the second takes the envelope. *)
THEOREM OwnerIsAlone == ASSUME TokensAreRead PROVE Spec => OwnerKeepsEnvelope
<1>1. ASSUME IInv, CountInv, TokenInv, [Next]_vars, NEW i \in Inputs, NEW w \in Owners(i)
      PROVE  \/ work'[w] # work[w]
             \/ status'[work[w].job] # "RUNNING" \/ version'[work[w].job] # work[w].token
             \/ [envs'[i] EXCEPT !.render = NoRender] = [envs[i] EXCEPT !.render = NoRender]
  <2>1. /\ w \in Workers /\ work[w].pc \in Owning /\ work[w].input = i /\ OwnedBy(work[w])
        /\ work[w].job \in Jobs /\ work[w].token # 0
    BY <1>1 DEF Owners, IInv, TypeOK, WorkOK, CountInv, Past, Owning
  <2>2. AStep
    BY <1>1, StepKinds DEF IInv
  <2>3. CASE Rests
    BY <2>1, <2>3 DEF Rests, Kept, ActiveKept, OwnedBy, Fenced
  <2>4. CASE \E v \in Workers : Goes(v)
    <3>1. envs[i].active # NoJob
      BY <2>1, MaterializationConstants DEF OwnedBy
    <3> QED
      BY <2>4, <3>1 DEF Goes, Binds
  <2>5. ASSUME NEW v \in Workers, Prepares(v) \/ Ends(v), work'[w] = work[w]
        PROVE  envs'[i] = envs[i]
    <3>1. v # w
      BY <2>5 DEF Prepares, Ends, Steps
    <3>2. envs' = envs \/ (/\ work[v].pc \in Owning /\ OwnedBy(work[v])
                           /\ \E f \in Envelopes : envs' = [envs EXCEPT ![work[v].input] = f])
      BY <2>5 DEF Prepares, Spends, Ends, Edits, Owning
    <3>3. (work[v].pc \in Owning /\ OwnedBy(work[v])) => work[v].input # i
      BY <1>1, <2>1, <3>1 DEF IInv, ClaimInv, OwnedBy
    <3> QED
      BY <1>1, <3>2, <3>3 DEF IInv, TypeOK, EnvsOK
  <2>6. ASSUME NEW v \in Workers, Taking(v), work'[w] = work[w]
        PROVE  envs'[i] = envs[i]
    <3>1. v # w
      BY <2>1, <2>6 DEF Taking, Takes, Owning
    <3>2. /\ Fenced(work[v]) /\ envs[work[v].input].active = work[v].job
          /\ \E f \in Envelopes : envs' = [envs EXCEPT ![work[v].input] = f]
      BY <2>6 DEF Taking, Takes
    <3>3. work[v].input # i
      <4>1. ~(work[v].job = work[w].job /\ work[v].token = work[w].token)
        BY <1>1, <2>1, <3>1 DEF TokenInv
      <4> QED
        BY <2>1, <3>2, <4>1 DEF OwnedBy, Fenced
    <3> QED
      BY <1>1, <3>2, <3>3 DEF IInv, TypeOK, EnvsOK
  <2>7. CASE \E v \in Workers : Claiming(v) \/ Reading(v)
    BY <2>7 DEF Claiming, Reading
  <2> QED
    BY <2>2, <2>3, <2>4, <2>5, <2>6, <2>7 DEF AStep
<1>2. ASSUME IInv, CountInv, TokenInv, [Next]_vars
      PROVE  [\A i \in Inputs : \A w \in Owners(i) :
                \/ work'[w] # work[w]
                \/ status'[work[w].job] # "RUNNING" \/ version'[work[w].job] # work[w].token
                \/ [envs'[i] EXCEPT !.render = NoRender] = [envs[i] EXCEPT !.render = NoRender]]_vars
  BY <1>1, <1>2
<1> QED
  BY <1>2, TokensInOrder, PTL DEF Spec, OwnerKeepsEnvelope

-----------------------------------------------------------------------------
(* The fenced job: what the steps do to the holders of a claim, to the jobs and
   to the reviewable generations. *)
HeldBy == [j \in Jobs |-> {w \in Workers : Holds(w, j)}]
Ready == {i \in Inputs : envs[i].ready}
Stands == UNCHANGED <<status, version, HeldBy, Ready>>

(* A generation becomes reviewable under the token of its job. *)
LEMMA DeliveryReady ==
  ASSUME IInv, CountInv, NEW w \in Workers, WorkerStep(w) \/ Raise(w) \/ Crash(w)
  PROVE  \/ Ready' \subseteq Ready
         \/ /\ Fenced(work[w]) /\ work[w].token # 0 /\ work[w].input \in Inputs
            /\ Ready' \subseteq Ready \union {work[w].input}
<1>1. envs \in [Inputs -> Envelopes]
  BY DEF IInv, TypeOK, EnvsOK
<1>2. Goes(w) \/ Prepares(w) \/ Ends(w) \/ Taking(w) \/ Claiming(w) \/ Reading(w)
  BY DeliveryKinds DEF IInv
<1>3. CASE AllLike
  BY <1>3 DEF AllLike, Like, Ready
<1>4. CASE Taking(w) \/ Prepares(w)
  BY <1>1, <1>4 DEF Taking, Takes, Prepares, Spends, Ready
<1>5. CASE Ends(w) /\ Repairs(w)
  <2>1. \A e \in Envelopes : ~Repaired(e).ready
    BY EndingType
  <2> QED
    BY <1>1, <1>5, <2>1 DEF Repairs, Ready
<1>6. CASE Ends(w) /\ Publishes(w)
  <2>1. CASE envs' = envs
    BY <2>1 DEF Ready
  <2>2. CASE envs' # envs
    <3>1. work[w].pc \in Owning /\ OwnedBy(work[w]) /\ work[w].input \in Inputs
      BY <1>6, <2>2 DEF Ends, Edits, IInv, TypeOK, WorkOK
    <3>2. Ready' \subseteq Ready \union {work[w].input}
      BY <1>1, <1>6 DEF Publishes, Ready
    <3> QED
      BY <3>1, <3>2 DEF OwnedBy, CountInv, Past, Owning
  <2> QED
    BY <2>1, <2>2
<1> QED
  BY <1>2, <1>3, <1>4, <1>5, <1>6, SameEnvelopes DEF Goes, Ends, Claiming, Reading

(* What a delivery that neither claims nor reads does to the holders. *)
LEMMA LetsGo ==
  ASSUME IInv, CountInv, NEW w \in Workers, WorkerStep(w) \/ Raise(w) \/ Crash(w), ~Claims(w), ~Reads(w)
  PROVE  HeldBy' = HeldBy \/ HeldBy' = [j \in Jobs |-> HeldBy[j] \ {w}]
<1>1. UNCHANGED version /\ \A v \in Workers \ {w} : work'[v] = work[v]
  BY DeliveryWrites, DeliveryMoves DEF IInv
<1>2. Ack(w) => work'[w].token = 0 /\ work'[w].pc = "idle"
  BY DEF Ack, Idle, IInv, TypeOK, WorkOK
<1>3. CASE work'[w].token = 0 /\ work'[w].pc # "claimed"
  <2>1. \A j \in Jobs : ~Holds(w, j)'
    BY <1>3 DEF Holds
  <2>2. \A j \in Jobs, v \in Workers \ {w} : Holds(v, j)' <=> Holds(v, j)
    BY <1>1 DEF Holds
  <2>3. \A j \in Jobs : {v \in Workers : Holds(v, j)'} = {v \in Workers : Holds(v, j)} \ {w}
    BY <2>1, <2>2
  <2> QED
    BY <2>3 DEF HeldBy
<1>4. CASE Past(work[w]) /\ Past(work'[w]) /\ work'[w].job = work[w].job /\ work'[w].token = work[w].token
  <2>1. \A j \in Jobs, v \in Workers : Holds(v, j)' <=> Holds(v, j)
    BY <1>1, <1>4 DEF Holds, Past
  <2> QED
    BY <2>1 DEF HeldBy
<1>5. \/ Ack(w)
      \/ /\ Past(work'[w]) /\ (Past(work[w]) \/ work'[w].pc = "fail")
         /\ work'[w].job = work[w].job /\ work'[w].token = work[w].token
  BY DeliveryMoves DEF IInv
<1>6. ~Past(work[w]) => work[w].token = 0
  BY DEF CountInv
<1> QED
  BY <1>2, <1>3, <1>4, <1>5, <1>6 DEF Past

LEMMA SoleHolder ==
  ASSUME IInv, CountInv, TokenInv, NEW w \in Workers, work[w].token # 0, Fenced(work[w])
  PROVE  /\ work[w].job \in Jobs /\ HeldBy[work[w].job] = {w}
         /\ \A j \in Jobs \ {work[w].job} : w \notin HeldBy[j]
<1>1. work[w].job \in Jobs /\ work[w].pc # "claimed"
  BY DEF IInv, TypeOK, WorkOK, CountInv, Past
<1>2. \A v \in Workers : Holds(v, work[w].job) => v = w
  BY <1>1 DEF TokenInv, Fenced, Holds
<1>3. Holds(w, work[w].job) /\ \A j \in Jobs \ {work[w].job} : ~Holds(w, j)
  BY DEF Holds, Fenced
<1> QED
  BY <1>1, <1>2, <1>3 DEF HeldBy

LEMMA RefineClaim ==
  ASSUME IInv, CountInv, TokenInv, NEW w \in Workers, ClaimJob(w), Claims(w), TokenInv'
  PROVE  \E j \in Jobs : Job!Claim(w, j)
<1>1. PICK i \in Jobs : i = work[w].job
  BY DEF Claims
<1>2. version[i] \in Nat /\ version'[i] = version[i] + 1
  BY <1>1 DEF Claims, IInv, TypeOK, JobsOK
<1>3. /\ status[i] \in {"QUEUED", "FAILED", "RUNNING"}
      /\ status' = [status EXCEPT ![i] = "RUNNING"]
      /\ version' = [version EXCEPT ![i] = @ + 1]
      /\ UNCHANGED envs
  BY <1>1, <1>2 DEF ClaimJob, envVars
<1>4. /\ work'[w].job = i /\ work'[w].pc = "claimed" /\ work[w].job = i /\ work[w].pc = "claim" /\ work[w].token = 0
      /\ work'[w].token = 0
      /\ \A v \in Workers \ {w} : work'[v] = work[v]
      /\ \A k \in Jobs \ {i} : version'[k] = version[k]
  BY <1>1 DEF Claims, CountInv, Past
<1>5. ASSUME NEW v \in Workers \ {w} PROVE ~Holds(v, i)'
  BY <1>4 DEF TokenInv, Holds
<1>6. ASSUME NEW k \in Jobs, NEW v \in Workers PROVE Holds(v, k)' <=> IF k = i THEN v = w ELSE Holds(v, k)
  <2>1. CASE k = i
    BY <1>4, <1>5, <2>1 DEF Holds
  <2>2. CASE k # i
    BY <1>4, <2>2 DEF Holds
  <2> QED
    BY <2>1, <2>2
<1>7. \A k \in Jobs : {v \in Workers : Holds(v, k)'} = IF k = i THEN {w} ELSE {v \in Workers : Holds(v, k)}
  BY <1>6
<1>8. HeldBy' = [HeldBy EXCEPT ![i] = {w}]
  BY <1>7 DEF HeldBy
<1>9. UNCHANGED Ready
  BY <1>3 DEF Ready
<1> QED
  BY <1>3, <1>8, <1>9 DEF Job!Claim, HeldBy, Ready

LEMMA RefineRead ==
  ASSUME IInv, CountInv, NEW w \in Workers, Reads(w), UNCHANGED <<jobVars, envs>>
  PROVE  Stands
<1>1. /\ work[w].pc = "claimed" /\ work'[w].pc = "take" /\ work'[w].job = work[w].job
      /\ work'[w].token = version[work[w].job] /\ version[work[w].job] # 0
      /\ \A v \in Workers \ {w} : work'[v] = work[v]
      /\ UNCHANGED <<status, version, envs>>
  BY DEF Reads, jobVars, CountInv, IInv, TypeOK, WorkOK, JobsOK
<1>2. \A v \in Workers, j \in Jobs : Holds(v, j)' <=> Holds(v, j)
  BY <1>1 DEF Holds
<1> QED
  BY <1>1, <1>2 DEF Stands, HeldBy, Ready

LEMMA RefineDelivery ==
  ASSUME IInv, CountInv, TokenInv, NEW w \in Workers, WorkerStep(w) \/ Raise(w) \/ Crash(w), ~Claims(w), ~Reads(w)
  PROVE  \/ \E j \in Jobs : Job!Conclude(w, j) \/ Job!Refuse(j)
         \/ Job!Leave({}) \/ Job!Leave({w})
<1> DEFINE i == work[w].job
<1>1. TypeOK /\ UNCHANGED version
  BY DeliveryWrites DEF IInv
<1>2. HeldBy' = HeldBy \/ HeldBy' = [j \in Jobs |-> HeldBy[j] \ {w}]
  BY LetsGo
<1>3. HeldBy = [j \in Jobs |-> HeldBy[j]] /\ HeldBy = [j \in Jobs |-> HeldBy[j] \ {}]
  BY DEF HeldBy
<1>4. CASE Fenced(work[w]) /\ work[w].token # 0
  <2>1. i \in Jobs /\ HeldBy[i] = {w} /\ \A k \in Jobs \ {i} : w \notin HeldBy[k]
    BY <1>4, SoleHolder
  <2>2. HeldBy' \in {HeldBy, [HeldBy EXCEPT ![i] = {}]}
    <3>1. \A k \in Jobs : HeldBy[k] \ {w} = IF k = i THEN {} ELSE HeldBy[k]
      BY <2>1
    <3>2. [j \in Jobs |-> HeldBy[j] \ {w}] = [j \in Jobs |-> IF j = i THEN {} ELSE HeldBy[j]]
      BY <3>1
    <3>3. [HeldBy EXCEPT ![i] = {}] = [j \in Jobs |-> IF j = i THEN {} ELSE HeldBy[j]]
      BY <1>3
    <3> QED
      BY <1>2, <3>2, <3>3
  <2>3. /\ w \in HeldBy[i] /\ status[i] = "RUNNING"
        /\ \/ UNCHANGED status
           \/ \E as \in Job!Outcomes : status' = [status EXCEPT ![i] = as]
    BY <1>1, <1>4, <2>1, DeliveryWrites DEF IInv, Fenced, Job!Outcomes
  <2>4. \E r \in Inputs : Ready' \subseteq Ready \union {r}
    BY <1>1, DeliveryReady DEF TypeOK, EnvsOK
  <2> QED
    BY <1>1, <2>1, <2>2, <2>3, <2>4 DEF Job!Conclude, HeldBy, Ready
<1>5. CASE ~(Fenced(work[w]) /\ work[w].token # 0) /\ UNCHANGED status
  <2>1. Ready' \subseteq Ready
    BY <1>5, DeliveryReady
  <2> QED
    BY <1>1, <1>2, <1>3, <1>5, <2>1 DEF Job!Leave, Job!Withdraw, HeldBy, Ready
<1>6. CASE ~(Fenced(work[w]) /\ work[w].token # 0) /\ ~UNCHANGED status
  <2>1. /\ work[w].pc = "fail" /\ work[w].token = 0 /\ status[i] = "QUEUED"
        /\ status' = [status EXCEPT ![i] = "FAILED"] /\ UNCHANGED envs
    BY <1>6, DeliveryWrites DEF IInv
  <2>2. i \in Jobs
    BY <1>1, <2>1 DEF TypeOK, WorkOK
  <2>3. HeldBy' = HeldBy
    <3>1. \A j \in Jobs : w \notin HeldBy[j]
      BY <2>1 DEF HeldBy, Holds
    <3>2. \A j \in Jobs : HeldBy[j] \ {w} = HeldBy[j]
      BY <3>1
    <3> QED
      BY <1>2, <1>3, <3>2
  <2>4. Ready' = Ready
    BY <2>1 DEF Ready
  <2> QED
    BY <1>1, <2>1, <2>2, <2>3, <2>4 DEF Job!Refuse, Job!Withdraw, HeldBy, Ready
<1> QED
  BY <1>4, <1>5, <1>6

LEMMA RefineOutside ==
  ASSUME TypeOK, NoneInv, Outside
  PROVE  \/ \E j \in Jobs : Job!Insert(j)
         \/ \E S \in SUBSET Jobs : Job!Cancel(S)
         \/ Job!Leave({})
<1>1. Kept /\ work' = work
  BY OutsideKeeps
<1>2. UNCHANGED <<version, HeldBy>> /\ HeldBy' = [j \in Jobs |-> HeldBy[j] \ {}]
  BY <1>1 DEF Kept, HeldBy, Holds
<1>3. Ready' \subseteq Ready
  BY <1>1 DEF Kept, EnvsKept, Like, Ready
<1> QED
  BY <1>2, <1>3, OutsideWrites DEF Job!Insert, Job!Cancel, Job!Leave, Job!Withdraw, HeldBy, Ready

(* Stage 6 implements the fenced job, whatever crashes, is lost, repeated or
   cancelled: a generation becomes reviewable, and a job ends, by the holder of
   the job's newest claim alone, if no claim stalls before its token is read. *)
THEOREM ImplementsFencedJob == ASSUME TokensAreRead PROVE Spec => JobRefinement
<1>1. Init => Job!JobInit
  <2> SUFFICES ASSUME Init PROVE Job!JobInit
    OBVIOUS
  <2>1. HeldBy = [j \in Jobs |-> {}] /\ Ready = {}
    BY DEF Init, HeldBy, Holds, Ready, Idle, NoEnvelope
  <2> QED
    BY <2>1 DEF Init, Job!JobInit, HeldBy, Ready
<1>2. IInv /\ CountInv /\ TokenInv /\ [Next]_vars => [Job!JobNext]_(Job!jobVars)
  <2> SUFFICES ASSUME IInv, CountInv, TokenInv, [Next]_vars PROVE Job!JobNext \/ Stands
    BY DEF Job!jobVars, Stands, HeldBy, Ready
  <2>1. CASE Outside
    BY <2>1, RefineOutside DEF IInv, Job!JobNext
  <2>2. CASE (\E w \in Workers : Redeliver(w)) \/ UNCHANGED vars
    BY <2>2 DEF Redeliver, vars, jobVars, envVars, Stands, HeldBy, Holds, Ready
  <2>3. ASSUME NEW w \in Workers, NEW j \in Jobs, Deliver(w, j) PROVE Stands
    <3>1. UNCHANGED <<status, version, envs>> /\ work[w].pc = "idle" /\ work[w].token = 0
      BY <2>3 DEF Deliver, jobVars, envVars, CountInv, Past
    <3>2. work' = work \/ (/\ work'[w].pc = "claim" /\ work'[w].token = 0
                           /\ \A v \in Workers \ {w} : work'[v] = work[v])
      BY <2>3, DeliverWork DEF IInv, TypeOK
    <3>3. \A v \in Workers, k \in Jobs : Holds(v, k)' <=> Holds(v, k)
      BY <3>1, <3>2 DEF Holds
    <3> QED
      BY <3>1, <3>3 DEF Stands, HeldBy, Ready
  <2>4. ASSUME NEW w \in Workers, WorkerStep(w) \/ Raise(w) \/ Crash(w) PROVE Job!JobNext \/ Stands
    <3>1. CASE Claims(w)
      <4>1. version'[work[w].job] # version[work[w].job]
        BY <3>1 DEF Claims, IInv, TypeOK, JobsOK
      <4> QED
        BY <2>4, <3>1, <4>1, OnlyClaims, TokenStep, RefineClaim DEF Job!JobNext
    <3>2. CASE Reads(w)
      BY <2>4, <3>2, ReadsOnly, RefineRead DEF IInv
    <3>3. CASE ~Claims(w) /\ ~Reads(w)
      BY <2>4, <3>3, RefineDelivery DEF Job!JobNext
    <3> QED
      BY <3>1, <3>2, <3>3
  <2> QED
    BY <2>1, <2>2, <2>3, <2>4 DEF Next, Outside
<1> QED
  BY <1>1, <1>2, TokensInOrder, PTL DEF Spec, JobRefinement, Job!JobSpec
=============================================================================
