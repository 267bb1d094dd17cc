----------------------------- MODULE FencedJob -----------------------------
(***************************************************************************)
(* What the job protocol of Stages 4.1, 4.2, 5.1, 5.2 and 6 promises,       *)
(* whatever is crashed, repeated, delayed or cancelled: a row of            *)
(* processing_jobs is claimed again and again, each claim has one holder,   *)
(* and only the holder of the newest claim of a RUNNING job ends the job or *)
(* publishes a result.                                                      *)
(***************************************************************************)
EXTENDS Naturals

CONSTANTS
    Jobs,       \* job identifiers
    Holders,    \* deliveries that can claim a job
    Results     \* rows in which a result is published

VARIABLES
    status,     \* [Jobs -> Status]
    version,    \* [Jobs -> Nat], claims so far
    holder,     \* [Jobs -> SUBSET Holders], who holds the newest claim
    published   \* results that stand

jobVars == <<status, version, holder, published>>

(* QUEUED: put back for want of a lease; CANCELLED: its render was. *)
Outcomes == {"SUCCEEDED", "FAILED", "QUEUED", "CANCELLED"}
Status == Outcomes \union {"none", "RUNNING"}

JobTypeOK ==
    /\ status \in [Jobs -> Status]
    /\ version \in [Jobs -> Nat]
    /\ holder \in [Jobs -> SUBSET Holders]
    /\ published \subseteq Results

JobInit ==
    /\ status = [j \in Jobs |-> "none"]
    /\ version = [j \in Jobs |-> 0]
    /\ holder = [j \in Jobs |-> {}]
    /\ published = {}

(* Anyone may withdraw a result. *)
Withdraw == published' \subseteq published

Insert(j) ==
    /\ status[j] = "none"
    /\ status' = [status EXCEPT ![j] = "QUEUED"]
    /\ Withdraw
    /\ UNCHANGED <<version, holder>>

(* A job that could not even be claimed. *)
Refuse(j) ==
    /\ status[j] = "QUEUED"
    /\ status' = [status EXCEPT ![j] = "FAILED"]
    /\ Withdraw
    /\ UNCHANGED <<version, holder>>

(* A claim supersedes every earlier one. *)
Claim(h, j) ==
    /\ status[j] \in {"QUEUED", "FAILED", "RUNNING"}
    /\ status' = [status EXCEPT ![j] = "RUNNING"]
    /\ version' = [version EXCEPT ![j] = @ + 1]
    /\ holder' = [holder EXCEPT ![j] = {h}]
    /\ UNCHANGED published

(* The holder's privilege, in one step or in several: to end the job, to
   publish, to let the claim go. *)
Conclude(h, j) ==
    /\ h \in holder[j] /\ status[j] = "RUNNING"
    /\ \/ UNCHANGED status
       \/ \E outcome \in Outcomes : status' = [status EXCEPT ![j] = outcome]
    /\ \E r \in Results : published' \subseteq published \union {r}
    /\ holder' \in {holder, [holder EXCEPT ![j] = {}]}
    /\ UNCHANGED version

(* Deliveries end or die. *)
Leave(gone) ==
    /\ holder' = [j \in Jobs |-> holder[j] \ gone]
    /\ Withdraw
    /\ UNCHANGED <<status, version>>

(* The API cancels, over whatever the jobs have become. *)
Cancel(S) ==
    /\ \A j \in S : status[j] # "none"
    /\ status' = [j \in Jobs |-> IF j \in S THEN "CANCELLED" ELSE status[j]]
    /\ Withdraw
    /\ UNCHANGED <<version, holder>>

JobNext ==
    \/ \E j \in Jobs : Insert(j) \/ Refuse(j)
    \/ \E j \in Jobs, h \in Holders : Claim(h, j) \/ Conclude(h, j)
    \/ \E gone \in SUBSET Holders : Leave(gone)
    \/ \E S \in SUBSET Jobs : Cancel(S)

JobSpec == JobInit /\ [][JobNext]_jobVars

(* A job has one holder at most, and none before its first claim. *)
OneHolder ==
    \A j \in Jobs : /\ \A g, h \in holder[j] : g = h
                    /\ version[j] = 0 => holder[j] = {}

(* A job that has succeeded, or was cancelled, is not run again. *)
EndsForGood ==
    [][\A j \in Jobs :
         /\ status[j] = "CANCELLED" => status'[j] = "CANCELLED"
         /\ status[j] = "SUCCEEDED" => status'[j] \in {"SUCCEEDED", "CANCELLED"}]_jobVars

(* A result appears by the holder of a job that is RUNNING. *)
PublishedByHolder ==
    [][~(published' \subseteq published)
         => \E j \in Jobs, h \in Holders : h \in holder[j] /\ status[j] = "RUNNING"]_jobVars
=============================================================================
