-------------------------- MODULE FencedJobProofs --------------------------
(***************************************************************************)
(* What every stage that implements FencedJob promises.                    *)
(***************************************************************************)
EXTENDS FencedJob, TLAPS

LEMMA JobTypeStep == JobTypeOK /\ [JobNext]_jobVars => JobTypeOK'
<1> SUFFICES ASSUME JobTypeOK, [JobNext]_jobVars PROVE JobTypeOK'
  OBVIOUS
<1> USE DEF JobTypeOK, Status, Outcomes
<1>1. ASSUME NEW j \in Jobs, Insert(j) \/ Refuse(j) PROVE JobTypeOK'
  BY <1>1 DEF Insert, Refuse, Withdraw
<1>2. ASSUME NEW j \in Jobs, NEW h \in Holders, Claim(h, j) PROVE JobTypeOK'
  BY <1>2 DEF Claim
<1>3. ASSUME NEW j \in Jobs, NEW h \in Holders, Conclude(h, j) PROVE JobTypeOK'
  BY <1>3 DEF Conclude
<1>4. ASSUME NEW gone \in SUBSET Holders, Leave(gone) PROVE JobTypeOK'
  BY <1>4 DEF Leave, Withdraw
<1>5. ASSUME NEW S \in SUBSET Jobs, Cancel(S) PROVE JobTypeOK'
  BY <1>5 DEF Cancel, Withdraw
<1>6. CASE UNCHANGED jobVars
  BY <1>6 DEF jobVars
<1> QED
  BY <1>1, <1>2, <1>3, <1>4, <1>5, <1>6 DEF JobNext

LEMMA OneHolderStep == JobTypeOK /\ OneHolder /\ [JobNext]_jobVars => OneHolder'
<1> SUFFICES ASSUME JobTypeOK, OneHolder, [JobNext]_jobVars PROVE OneHolder'
  OBVIOUS
<1> USE DEF JobTypeOK
(* Nobody becomes a holder, and no claim is forgotten. *)
<1>1. CASE /\ \A j \in Jobs : holder'[j] \subseteq holder[j]
           /\ version' = version
  BY <1>1 DEF OneHolder
<1>2. ASSUME NEW j \in Jobs, Insert(j) \/ Refuse(j) PROVE OneHolder'
  BY <1>1, <1>2 DEF Insert, Refuse
<1>3. ASSUME NEW j \in Jobs, NEW h \in Holders, Claim(h, j) PROVE OneHolder'
  <2>1. holder'[j] = {h} /\ version'[j] # 0
    BY <1>3 DEF Claim
  <2>2. \A k \in Jobs \ {j} : holder'[k] = holder[k] /\ version'[k] = version[k]
    BY <1>3 DEF Claim
  <2> QED
    BY <2>1, <2>2 DEF OneHolder
<1>4. ASSUME NEW j \in Jobs, NEW h \in Holders, Conclude(h, j) PROVE OneHolder'
  BY <1>1, <1>4 DEF Conclude
<1>5. ASSUME NEW gone \in SUBSET Holders, Leave(gone) PROVE OneHolder'
  BY <1>1, <1>5 DEF Leave
<1>6. ASSUME NEW S \in SUBSET Jobs, Cancel(S) PROVE OneHolder'
  BY <1>1, <1>6 DEF Cancel
<1>7. CASE UNCHANGED jobVars
  BY <1>1, <1>7 DEF jobVars
<1> QED
  BY <1>2, <1>3, <1>4, <1>5, <1>6, <1>7 DEF JobNext

LEMMA JobTypeCorrect == JobSpec => []JobTypeOK
<1>1. JobInit => JobTypeOK
  BY DEF JobInit, JobTypeOK, Status
<1> QED
  BY <1>1, JobTypeStep, PTL DEF JobSpec

(* A job never has two holders, and none before it was claimed: a claim takes
   the job from whoever had it, and nothing gives it back. *)
THEOREM HoldersAreOne == JobSpec => []OneHolder
<1>1. JobInit => OneHolder
  BY DEF JobInit, OneHolder
<1> QED
  BY <1>1, JobTypeCorrect, OneHolderStep, PTL DEF JobSpec

(* A job that was cancelled stays cancelled, and one that has succeeded can only
   be cancelled after the fact: no claim and no late delivery revives either. *)
THEOREM EndedForGood == JobSpec => EndsForGood
<1>1. ASSUME JobTypeOK, [JobNext]_jobVars, NEW j \in Jobs
      PROVE  /\ status[j] = "CANCELLED" => status'[j] = "CANCELLED"
             /\ status[j] = "SUCCEEDED" => status'[j] \in {"SUCCEEDED", "CANCELLED"}
  <2> USE <1>1 DEF JobTypeOK
  <2>1. CASE \E k \in Jobs : Insert(k) \/ Refuse(k)
    BY <2>1 DEF Insert, Refuse
  <2>2. CASE \E k \in Jobs, h \in Holders : Claim(h, k) \/ Conclude(h, k)
    BY <2>2 DEF Claim, Conclude
  <2>3. CASE \E gone \in SUBSET Holders : Leave(gone)
    BY <2>3 DEF Leave
  <2>4. CASE \E S \in SUBSET Jobs : Cancel(S)
    BY <2>4 DEF Cancel
  <2>5. CASE UNCHANGED jobVars
    BY <2>5 DEF jobVars
  <2> QED
    BY <2>1, <2>2, <2>3, <2>4, <2>5 DEF JobNext
<1>2. ASSUME JobTypeOK, [JobNext]_jobVars
      PROVE  [\A j \in Jobs :
                /\ status[j] = "CANCELLED" => status'[j] = "CANCELLED"
                /\ status[j] = "SUCCEEDED" => status'[j] \in {"SUCCEEDED", "CANCELLED"}]_jobVars
  BY <1>1, <1>2
<1> QED
  BY <1>2, JobTypeCorrect, PTL DEF JobSpec, EndsForGood

(* A result that did not stand stands only by a step of the one delivery that
   holds the newest claim of a RUNNING job. *)
THEOREM HolderPublishes == JobSpec => PublishedByHolder
<1>1. ASSUME [JobNext]_jobVars, ~(published' \subseteq published)
      PROVE  \E j \in Jobs, h \in Holders : h \in holder[j] /\ status[j] = "RUNNING"
  BY <1>1 DEF JobNext, Insert, Refuse, Claim, Conclude, Leave, Cancel, Withdraw, jobVars
<1>2. ASSUME [JobNext]_jobVars
      PROVE  [~(published' \subseteq published)
                => \E j \in Jobs, h \in Holders : h \in holder[j] /\ status[j] = "RUNNING"]_jobVars
  BY <1>1, <1>2
<1> QED
  BY <1>2, PTL DEF JobSpec, PublishedByHolder
=============================================================================
