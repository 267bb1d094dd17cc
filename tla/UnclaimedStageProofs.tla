------------------------ MODULE UnclaimedStageProofs ------------------------
(***************************************************************************)
(* Theorems of UnclaimedStage for any number of jobs, deliveries and       *)
(* requests.                                                               *)
(***************************************************************************)
EXTENDS UnclaimedStage, TLAPS

LEMMA FlushType ==
    ASSUME row \in Rows, NEW old \in Rows, NEW new \in Rows
    PROVE  Flush(old, new) \in Rows
<1>1. /\ Column(old.active, new.active, row.active) \in Jobs \union {NoJob}
      /\ Column(old.life, new.life, row.life) \in Lives
      /\ Column(old.input, new.input, row.input) \in 0..LastInput
      /\ Column(old.text, new.text, row.text) \in Texts
      /\ Column(old.manual, new.manual, row.manual) \in BOOLEAN
      /\ Column(old.eligible, new.eligible, row.eligible) \in BOOLEAN
  <2>1. /\ new.active \in Jobs \union {NoJob} /\ row.active \in Jobs \union {NoJob}
        /\ new.life \in Lives /\ row.life \in Lives
        /\ new.input \in 0..LastInput /\ row.input \in 0..LastInput
        /\ new.text \in Texts /\ row.text \in Texts
        /\ new.manual \in BOOLEAN /\ row.manual \in BOOLEAN
        /\ new.eligible \in BOOLEAN /\ row.eligible \in BOOLEAN
    BY DEF Rows
  <2> QED
    BY <2>1, Zenon DEF Column
<1> QED
  BY <1>1 DEF Flush, Rows

LEMMA NewRowType == NewRow \in Rows
BY UnclaimedConstants DEF NewRow, Rows, Lives, Texts

(* The requests' part of the state, with what bounds their turns, and the
   deliveries' part. *)
ClientsOK ==
    /\ cpc \in [Clients -> ClientPC] /\ ccopy \in [Clients -> Rows]
    /\ cjob \in [Clients -> Jobs \union {NoJob}]
    /\ \A c \in Clients : cpc[c] = "dispatch" => cjob[c] \in Jobs
    /\ cforce \in [Clients -> BOOLEAN] /\ tries \in [Clients -> 0..2]
    /\ \A c \in Clients : cpc[c] \in {"clear", "insert"} => tries[c] # 2
WorkersOK ==
    /\ wpc \in [Workers -> WorkerPC] /\ wjob \in [Workers -> Jobs \union {NoJob}]
    /\ \A w \in Workers : wpc[w] # "idle" => wjob[w] \in Jobs
    /\ copy \in [Workers -> Rows] /\ basis \in [Workers -> 0..LastInput]
SharedOK ==
    /\ setting \in Settings /\ upstream \in 1..LastInput /\ mishaps \in 0..MaxMishaps
    /\ status \in [Jobs -> JobStatus] /\ row \in Rows
    /\ inbox \in [Jobs -> Nat] /\ forced \subseteq Jobs /\ cancelling \subseteq Jobs

PartsOK == ClientsOK /\ WorkersOK /\ SharedOK

LEMMA PartsType == PartsOK => TypeOK
BY DEF PartsOK, TypeOK, ClientsOK, WorkersOK, SharedOK

LEMMA ClientsSame == ClientsOK /\ UNCHANGED clientVars => ClientsOK'
BY DEF ClientsOK, clientVars

LEMMA WorkersSame == WorkersOK /\ UNCHANGED workerVars => WorkersOK'
BY DEF WorkersOK, workerVars

LEMMA ReturnType == ASSUME ClientsOK, NEW c \in Clients, Return(c) PROVE ClientsOK'
BY NewRowType DEF ClientsOK, Return, ClientPC

LEMMA LeaveType == ASSUME WorkersOK, NEW w \in Workers, Leave(w) PROVE WorkersOK'
BY NewRowType, UnclaimedConstants DEF WorkersOK, Leave, Goto, WorkerPC

LEMMA SendType ==
    ASSUME inbox \in [Jobs -> Nat], NEW j \in Jobs, Send(j) PROVE inbox' \in [Jobs -> Nat]
BY DEF Send

LEMMA AgainType ==
    ASSUME ClientsOK, row' \in Rows, NEW c \in Clients, cpc[c] \in {"clear", "insert"}, Again(c)
    PROVE  ClientsOK'
<1>1. tries[c] + 1 \in 0..2
  BY DEF ClientsOK
<1>2. cpc' \in [Clients -> ClientPC] /\ ccopy' \in [Clients -> Rows] /\ tries' \in [Clients -> 0..2]
  BY <1>1 DEF ClientsOK, Again, ClientPC
<1> QED
  BY <1>2 DEF ClientsOK, Again

(* A step of a request. *)
LEMMA ClientType ==
    ASSUME PartsOK, NEW c \in Clients, QueueRequest(c) \/ ManualRequest(c) \/ Client(c)
    PROVE  PartsOK'
<1>0. ClientsOK /\ WorkersOK /\ SharedOK
  BY DEF PartsOK
<1>1. WorkersOK'
  <2>1. UNCHANGED workerVars
    BY DEF Client, QueueRequest, ManualRequest, QueueLook, QueueClear, QueueInsert,
           QueueDispatch, ManualSubmit
  <2> QED
    BY <1>0, <2>1, WorkersSame
<1>2. CASE QueueRequest(c) \/ ManualRequest(c)
  <2>1. ClientsOK'
    <3>1. row \in Rows
      BY <1>0 DEF SharedOK
    <3>2. /\ cpc' \in [Clients -> ClientPC] /\ ccopy' \in [Clients -> Rows]
          /\ cforce' \in [Clients -> BOOLEAN] /\ cjob' = cjob /\ tries' = tries
      BY <1>0, <1>2, <3>1 DEF ClientsOK, QueueRequest, ManualRequest, ClientPC
    <3>3. \E pc \in {"look", "submit"} : cpc' = [cpc EXCEPT ![c] = pc]
      BY <1>2 DEF QueueRequest, ManualRequest
    <3> QED
      BY <1>0, <3>2, <3>3 DEF ClientsOK
  <2>2. SharedOK'
    BY <1>0, <1>2 DEF SharedOK, QueueRequest, ManualRequest, worldVars
  <2> QED
    BY <1>1, <2>1, <2>2 DEF PartsOK
<1>3. CASE QueueLook(c)
  <2>1. ClientsOK'
    <3>1. CASE Return(c)
      BY <1>0, <3>1, ReturnType
    <3>2. CASE /\ tries[c] # 2
               /\ \E pc \in {"clear", "insert"} :
                   cpc' = [cpc EXCEPT ![c] = pc] /\ UNCHANGED <<ccopy, cjob, cforce, tries>>
      BY <1>0, <3>2 DEF ClientsOK, ClientPC
    <3> QED
      BY <1>3, <3>1, <3>2 DEF QueueLook
  <2>2. SharedOK'
    BY <1>0, <1>3 DEF SharedOK, QueueLook, worldVars
  <2> QED
    BY <1>1, <2>1, <2>2 DEF PartsOK
<1>4. CASE QueueClear(c)
  <2>1. row' \in Rows
    BY <1>0, <1>4 DEF SharedOK, QueueClear, Rows
  <2>2. ClientsOK'
    BY <1>0, <1>4, <2>1, AgainType DEF QueueClear
  <2>3. SharedOK'
    BY <1>0, <1>4, <2>1 DEF SharedOK, QueueClear, worldVars
  <2> QED
    BY <1>1, <2>2, <2>3 DEF PartsOK
<1>5. CASE QueueInsert(c)
  <2> DEFINE Inserted(j) ==
        /\ status' = [status EXCEPT ![j] = "QUEUED"]
        /\ row' = IF Analysis THEN [row EXCEPT !.active = j]
                  ELSE Flush(ccopy[c], [ccopy[c] EXCEPT !.active = j])
        /\ forced' = IF cforce[c] THEN forced \union {j} ELSE forced
        /\ cjob' = [cjob EXCEPT ![c] = j]
        /\ cpc' = [cpc EXCEPT ![c] = "dispatch"]
        /\ UNCHANGED <<ccopy, cforce, tries>>
  <2>0. \/ \E j \in Jobs : Inserted(j)
        \/ row' = row /\ Again(c) /\ UNCHANGED <<status, forced>>
    BY <1>5, Zenon DEF QueueInsert
  <2>1. ASSUME NEW j \in Jobs, Inserted(j) PROVE PartsOK'
    <3>1. Inserted(j)
      BY <2>1
    <3>2. row \in Rows /\ ccopy[c] \in Rows /\ [ccopy[c] EXCEPT !.active = j] \in Rows
          /\ [row EXCEPT !.active = j] \in Rows
      BY <1>0 DEF ClientsOK, SharedOK, Rows
    <3>3. row' \in Rows
      BY <3>1, <3>2, FlushType
    <3>4. SharedOK'
      <4>1. status' \in [Jobs -> JobStatus]
        BY <1>0, <3>1 DEF SharedOK, JobStatus
      <4>2. forced' \subseteq Jobs
        BY <1>0, <3>1, Zenon DEF SharedOK
      <4> QED
        BY <1>0, <1>5, <3>3, <4>1, <4>2 DEF SharedOK, QueueInsert, worldVars
    <3>5. ClientsOK'
      BY <1>0, <3>1 DEF ClientsOK, ClientPC
    <3> QED
      BY <1>1, <3>4, <3>5 DEF PartsOK
  <2>2. CASE row' = row /\ Again(c) /\ UNCHANGED <<status, forced>>
    <3>1. ClientsOK'
      BY <1>0, <1>5, <2>2, AgainType DEF SharedOK, QueueInsert
    <3>2. SharedOK'
      BY <1>0, <1>5, <2>2 DEF SharedOK, QueueInsert, worldVars
    <3> QED
      BY <1>1, <3>1, <3>2 DEF PartsOK
  <2> QED
    BY <2>0, <2>1, <2>2
<1>6. CASE QueueDispatch(c)
  <2>1. cjob[c] \in Jobs
    BY <1>0, <1>6 DEF ClientsOK, QueueDispatch
  <2>2. inbox' \in [Jobs -> Nat]
    BY <1>0, <1>6, <2>1, SendType DEF SharedOK, QueueDispatch
  <2>3. SharedOK'
    BY <1>0, <1>6, <2>2 DEF SharedOK, QueueDispatch, worldVars
  <2>4. ClientsOK'
    BY <1>0, <1>6, ReturnType DEF QueueDispatch
  <2> QED
    BY <1>1, <2>3, <2>4 DEF PartsOK
<1>7. CASE ManualSubmit(c)
  <2>1. row' \in Rows
    <3>1. PICK life \in {"READY", "REVIEW"} :
             row' = Flush(ccopy[c], [ccopy[c] EXCEPT !.manual = TRUE, !.text = "manual",
                                                 !.life = life, !.eligible = (life = "READY")])
      BY <1>7 DEF ManualSubmit
    <3>2. ASSUME NEW r \in Rows
          PROVE  [r EXCEPT !.manual = TRUE, !.text = "manual",
                           !.life = life, !.eligible = (life = "READY")] \in Rows
      BY DEF Rows, Lives, Texts
    <3>3. ccopy[c] \in Rows /\ row \in Rows
      BY <1>0 DEF ClientsOK, SharedOK
    <3> QED
      BY <3>1, <3>2, <3>3, FlushType
  <2>2. SharedOK'
    BY <1>0, <1>7, <2>1 DEF SharedOK, ManualSubmit, worldVars
  <2>3. ClientsOK'
    BY <1>0, <1>7, ReturnType DEF ManualSubmit
  <2> QED
    BY <1>1, <2>2, <2>3 DEF PartsOK
<1> QED
  BY <1>2, <1>3, <1>4, <1>5, <1>6, <1>7 DEF Client

(* What the row becomes at the hands of a delivery. *)
LEMMA WorkerRowType ==
    ASSUME PartsOK, NEW w \in Workers, Worker(w)
    PROVE  row' \in Rows
<1>1. row \in Rows /\ copy[w] \in Rows
  BY DEF PartsOK, SharedOK, WorkersOK
<1>2. ASSUME NEW life \in {"CANCELLED", "FAILED"}, GiveUp(w, life) PROVE row' \in Rows
  <2>1. [copy[w] EXCEPT !.life = life, !.active = NoJob] \in Rows
    BY <1>1 DEF Rows, Lives
  <2> QED
    BY <1>1, <1>2, <2>1, FlushType DEF GiveUp
<1>3. CASE NoticeCancel(w) \/ Fail(w)
  BY <1>2, <1>3, Zenon DEF NoticeCancel, Fail
<1>4. CASE Claim(w)
  <2>1. wjob[w] \in Jobs
    BY <1>4 DEF PartsOK, WorkersOK, Claim
  <2>2. [copy[w] EXCEPT !.active = wjob[w], !.life = "WORKING"] \in Rows
    BY <1>1, <2>1 DEF Rows, Lives
  <2>3. row' = Flush(copy[w], [copy[w] EXCEPT !.active = wjob[w], !.life = "WORKING"])
    BY <1>4, Zenon DEF Claim
  <2> QED
    BY <1>1, <2>2, <2>3, FlushType
<1>5. CASE Persist(w)
  <2>1. PICK life \in {"READY", "REVIEW"} :
           row' = Flush(copy[w],
                        [copy[w] EXCEPT !.life = life, !.eligible = (life = "READY"),
                                        !.input = basis[w], !.active = NoJob,
                                        !.text = IF copy[w].manual THEN "manual" ELSE "automatic"])
    BY <1>5, Zenon DEF Persist
  <2>2. basis[w] \in 0..LastInput
    BY DEF PartsOK, WorkersOK
  <2>3. ASSUME NEW r \in Rows
        PROVE  [r EXCEPT !.life = life, !.eligible = (life = "READY"),
                         !.input = basis[w], !.active = NoJob,
                         !.text = IF r.manual THEN "manual" ELSE "automatic"] \in Rows
    BY <2>2 DEF Rows, Lives, Texts
  <2> QED
    BY <1>1, <2>1, <2>3, FlushType
<1>6. CASE \/ MarkRunning(w) \/ Load(w) \/ Check(w) \/ Work(w)
           \/ Finish(w) \/ FinishFailed(w) \/ Retry(w)
  BY <1>1, <1>6 DEF MarkRunning, Load, Check, Work, Finish, FinishFailed, Retry
<1> QED
  BY <1>3, <1>4, <1>5, <1>6 DEF Worker

(* A step of a delivery. *)
LEMMA WorkerType ==
    ASSUME PartsOK, NEW w \in Workers, Take(w) \/ Worker(w) \/ Crash(w) \/ Redeliver(w)
    PROVE  PartsOK'
<1>0. ClientsOK /\ WorkersOK /\ SharedOK
  BY DEF PartsOK
<1>1. ClientsOK'
  <2>1. UNCHANGED clientVars
    BY DEF Take, Deliver, Worker, MarkRunning, Load, NoticeCancel, Check, Claim, Work, Persist,
           Fail, Finish, FinishFailed, Retry, Crash, Redeliver
  <2> QED
    BY <1>0, <2>1, ClientsSame
<1>2. CASE Take(w)
  <2>1. PICK j \in Jobs : Deliver(w, j)
    BY <1>2 DEF Take
  <2>2. inbox' \in [Jobs -> Nat]
    BY <1>0, <2>1 DEF SharedOK, Deliver
  <2>3. SharedOK'
    BY <1>0, <2>1, <2>2 DEF SharedOK, Deliver, worldVars
  <2>4. WorkersOK'
    <3>1. CASE UNCHANGED <<wpc, wjob>>
      BY <1>0, <2>1, <3>1 DEF WorkersOK, Deliver
    <3>2. CASE /\ \E pc \in {"touch", "mark"} : wpc' = [wpc EXCEPT ![w] = pc]
               /\ wjob' = [wjob EXCEPT ![w] = j]
      BY <1>0, <2>1, <3>2 DEF WorkersOK, Deliver, WorkerPC
    <3> QED
      BY <2>1, <3>1, <3>2 DEF Deliver, Goto
  <2> QED
    BY <1>1, <2>3, <2>4 DEF PartsOK
<1>3. CASE Worker(w)
  <2>0. row' \in Rows
    BY <1>3, WorkerRowType
  <2>1. wpc[w] # "idle" /\ wjob[w] \in Jobs
    <3>1. wpc[w] # "idle"
      BY <1>3 DEF Worker, MarkRunning, Load, NoticeCancel, Check, Claim, Work, Persist, Fail,
                  Finish, FinishFailed, Retry
    <3> QED
      BY <1>0, <3>1 DEF WorkersOK
  <2>2. SharedOK'
    <3>1. status' \in [Jobs -> JobStatus]
      <4>1. \/ status' = status
            \/ \E s \in {"RUNNING", "SUCCEEDED", "CANCELLED", "FAILED"} :
                  status' = [status EXCEPT ![wjob[w]] = s]
        BY <1>3, Zenon DEF Worker, MarkRunning, Load, NoticeCancel, Check, Claim, Work, Persist, Fail,
                    Finish, FinishFailed, Retry, End
      <4> QED
        BY <1>0, <2>1, <4>1 DEF SharedOK, JobStatus
    <3>2. inbox' \in [Jobs -> Nat]
      <4>1. inbox' = inbox \/ Send(wjob[w])
        BY <1>3 DEF Worker, MarkRunning, Load, NoticeCancel, Check, Claim, Work, Persist, Fail,
                    Finish, FinishFailed, Retry
      <4> QED
        BY <1>0, <2>1, <4>1, SendType DEF SharedOK
    <3>3. /\ UNCHANGED <<setting, upstream, cancelling, forced>>
          /\ mishaps' = mishaps \/ (mishaps < MaxMishaps /\ mishaps' = mishaps + 1)
      BY <1>3 DEF Worker, MarkRunning, Load, NoticeCancel, Check, Claim, Work, Persist, Fail,
                  Finish, FinishFailed, Retry, CanMishap, worldVars
    <3>4. mishaps' \in 0..MaxMishaps
      BY <1>0, <3>3, UnclaimedConstants DEF SharedOK
    <3> QED
      BY <1>0, <2>0, <3>1, <3>2, <3>3, <3>4 DEF SharedOK
  <2>3. WorkersOK'
    <3>1. CASE Leave(w)
      BY <1>0, <3>1, LeaveType
    <3>2. CASE /\ \E pc \in WorkerPC : wpc' = [wpc EXCEPT ![w] = pc]
               /\ wjob' = wjob
               /\ copy' \in [Workers -> Rows] /\ basis' \in [Workers -> 0..LastInput]
      BY <1>0, <2>1, <3>2 DEF WorkersOK
    <3>3. CASE Load(w)
      <4>1. copy' \in [Workers -> Rows]
        BY <1>0, <3>3 DEF WorkersOK, SharedOK, Load
      <4> QED
        BY <1>0, <3>2, <3>3, <4>1 DEF WorkersOK, Load, Goto, WorkerPC
    <3>4. CASE Check(w)
      <4>1. basis' \in [Workers -> 0..LastInput]
        BY <1>0, <3>4, UnclaimedConstants DEF WorkersOK, SharedOK, Check
      <4>2. \E pc \in WorkerPC : wpc' = [wpc EXCEPT ![w] = pc]
        BY <3>4 DEF Check, Goto, WorkerPC
      <4> QED
        BY <1>0, <3>2, <3>4, <4>1, <4>2 DEF WorkersOK, Check
    <3>5. CASE Claim(w)
      <4>1. copy[w] \in Rows
        BY <1>0 DEF WorkersOK
      <4>2. [copy[w] EXCEPT !.active = wjob[w], !.life = "WORKING"] \in Rows
        BY <2>1, <4>1 DEF Rows, Lives
      <4>3. copy' = [copy EXCEPT ![w] = [copy[w] EXCEPT !.active = wjob[w], !.life = "WORKING"]]
        BY <3>5, Zenon DEF Claim
      <4>4. copy' \in [Workers -> Rows]
        BY <1>0, <4>2, <4>3 DEF WorkersOK
      <4> QED
        BY <1>0, <3>2, <3>5, <4>4 DEF WorkersOK, Claim, Goto, WorkerPC
    <3>6. CASE MarkRunning(w) \/ NoticeCancel(w) \/ Work(w) \/ Persist(w) \/ Fail(w)
      <4>1. /\ \E pc \in WorkerPC : wpc' = [wpc EXCEPT ![w] = pc]
            /\ UNCHANGED <<wjob, copy, basis>>
        BY <3>6 DEF MarkRunning, NoticeCancel, Work, Persist, Fail, Goto, WorkerPC
      <4> QED
        BY <1>0, <3>2, <4>1 DEF WorkersOK
    <3>7. CASE Finish(w) \/ FinishFailed(w) \/ Retry(w)
      <4>1. \/ Leave(w)
            \/ /\ \E pc \in WorkerPC : wpc' = [wpc EXCEPT ![w] = pc]
               /\ UNCHANGED <<wjob, copy, basis>>
        BY <3>7 DEF Finish, FinishFailed, Retry, Goto, WorkerPC
      <4> QED
        BY <1>0, <3>1, <3>2, <4>1 DEF WorkersOK
    <3> QED
      BY <1>3, <3>3, <3>4, <3>5, <3>6, <3>7 DEF Worker
  <2> QED
    BY <1>1, <2>2, <2>3 DEF PartsOK
<1>4. CASE Crash(w) \/ Redeliver(w)
  <2>1. wjob[w] \in Jobs /\ Send(wjob[w]) /\ UNCHANGED <<status, row, forced, setting, upstream, cancelling>>
    BY <1>0, <1>4 DEF WorkersOK, Crash, Redeliver
  <2>2. inbox' \in [Jobs -> Nat]
    BY <1>0, <2>1, SendType DEF SharedOK
  <2>3. mishaps' \in 0..MaxMishaps
    BY <1>0, <1>4, UnclaimedConstants DEF SharedOK, Crash, Redeliver, CanMishap
  <2>4. SharedOK'
    BY <1>0, <2>1, <2>2, <2>3 DEF SharedOK
  <2>5. WorkersOK'
    BY <1>0, <1>4, LeaveType, WorkersSame DEF Crash, Redeliver
  <2> QED
    BY <1>1, <2>4, <2>5 DEF PartsOK
<1> QED
  BY <1>2, <1>3, <1>4

(* What neither does. *)
LEMMA OutsideType ==
    ASSUME PartsOK, Edit \/ \E j \in Jobs : CancelRead(j) \/ CancelWrite(j)
    PROVE  PartsOK'
<1>0. ClientsOK /\ WorkersOK /\ SharedOK
  BY DEF PartsOK
<1>1. UNCHANGED <<row, inbox, forced, workerVars, clientVars, setting>>
  BY DEF Edit, CancelRead, CancelWrite
<1>2. status' \in [Jobs -> JobStatus] /\ cancelling' \subseteq Jobs
  BY <1>0 DEF SharedOK, Edit, CancelRead, CancelWrite, JobStatus
<1>3. upstream' \in 1..LastInput /\ mishaps' \in 0..MaxMishaps
  BY <1>0, UnclaimedConstants DEF SharedOK, Edit, CancelRead, CancelWrite, CanMishap
<1>4. SharedOK'
  BY <1>0, <1>1, <1>2, <1>3 DEF SharedOK
<1> QED
  BY <1>0, <1>1, <1>4, ClientsSame, WorkersSame DEF PartsOK

LEMMA PartsInit == Init => PartsOK
<1> SUFFICES ASSUME Init PROVE PartsOK
  OBVIOUS
<1>1. ClientsOK
  BY NewRowType DEF Init, ClientsOK, ClientPC
<1>2. WorkersOK
  BY NewRowType, UnclaimedConstants DEF Init, WorkersOK, WorkerPC
<1>3. SharedOK
  BY NewRowType, UnclaimedConstants DEF Init, SharedOK, JobStatus
<1> QED
  BY <1>1, <1>2, <1>3 DEF PartsOK

LEMMA PartsNext == PartsOK /\ [Next]_vars => PartsOK'
<1> SUFFICES ASSUME PartsOK, [Next]_vars PROVE PartsOK'
  OBVIOUS
<1>1. CASE UNCHANGED vars
  <2>1. UNCHANGED <<status, row, inbox, forced, workerVars, clientVars, setting, upstream, mishaps, cancelling>>
    BY <1>1 DEF vars, worldVars
  <2>2. SharedOK'
    BY <2>1 DEF PartsOK, SharedOK
  <2> QED
    BY <2>1, <2>2, ClientsSame, WorkersSame DEF PartsOK
<1> QED
  BY <1>1, ClientType, WorkerType, OutsideType DEF Next

(* Every variable keeps its type, under every fault. *)
THEOREM TypeCorrect == Spec => []TypeOK
<1>1. Spec => []PartsOK
  BY PartsInit, PartsNext, PTL DEF Spec
<1> QED
  BY <1>1, PartsType, PTL

-----------------------------------------------------------------------------
(***************************************************************************)
(* One delivery at a time works on an analysis, while jobs only come and   *)
(* go.  Each job is in one place: in the hands of the request that sends   *)
(* it, in the broker, or with one delivery.  A job on its way to the end   *)
(* of its work holds the row, so there is one such job at most, and the    *)
(* claim that a request takes off the row is of a job that is over.        *)
(***************************************************************************)
Quiet == Analysis /\ setting.faults \subseteq {"edit"}

LivePC == {"mark", "load", "check", "claim", "work", "persist"}
Sent(j) == \A c \in Clients : ~(cpc[c] = "dispatch" /\ cjob[c] = j)
Untaken(j) == \A w \in Workers : wpc[w] = "idle" \/ wjob[w] # j
Live(j) == status[j] = "QUEUED" \/ \E w \in Workers : wjob[w] = j /\ wpc[w] \in LivePC

(* Where a job is, and in which status. *)
OnePlace ==
    /\ cancelling = {}
    /\ \A j \in Jobs :
         /\ status[j] \in {"none", "QUEUED", "RUNNING", "SUCCEEDED"}
         /\ status[j] \in {"none", "SUCCEEDED"} => Untaken(j)
         /\ inbox[j] # 0 => inbox[j] = 1 /\ status[j] = "QUEUED" /\ Sent(j) /\ Untaken(j)
    /\ \A c \in Clients :
         /\ cpc[c] # "submit"
         /\ cpc[c] = "dispatch" =>
              /\ status[cjob[c]] = "QUEUED" /\ inbox[cjob[c]] = 0 /\ Untaken(cjob[c])
              /\ \A d \in Clients : cpc[d] = "dispatch" /\ cjob[d] = cjob[c] => d = c
    /\ \A w \in Workers : wpc[w] # "idle" =>
         /\ wpc[w] \in LivePC \union {"finish"}
         /\ status[wjob[w]] = IF wpc[w] = "mark" THEN "QUEUED" ELSE "RUNNING"
         /\ \A v \in Workers : wpc[v] # "idle" /\ wjob[v] = wjob[w] => v = w

(* Who holds the row, and what a request has read of it. *)
RowHeld ==
    /\ \A j \in Jobs : Live(j) => row.active = j
    /\ row.active \in Jobs => status[row.active] # "none"
    /\ \A c \in Clients : ccopy[c].active \in Jobs =>
         /\ status[ccopy[c].active] # "none"
         /\ cpc[c] = "clear" => status[ccopy[c].active] = "SUCCEEDED"

QuietInv == PartsOK /\ (Quiet => OnePlace /\ RowHeld)

(* The row of a live job is that job's; so is a second one's. *)
LEMMA OneLive == ASSUME RowHeld, NEW j \in Jobs, NEW k \in Jobs, Live(j), Live(k) PROVE j = k
BY DEF RowHeld

(* A step that moves one request, and no job, between places where it holds none. *)
LEMMA ClientMoves ==
    ASSUME PartsOK, OnePlace, RowHeld, NEW c \in Clients, NEW pc, pc \notin {"dispatch", "submit"},
           cpc[c] # "dispatch", cpc' = [cpc EXCEPT ![c] = pc],
           \A d \in Clients : d # c => ccopy'[d] = ccopy[d],
           ccopy'[c].active \in Jobs =>
                /\ status[ccopy'[c].active] # "none"
                /\ pc = "clear" => status[ccopy'[c].active] = "SUCCEEDED",
           row'.active \in {row.active, NoJob},
           row'.active = NoJob => row.active = NoJob \/ \A j \in Jobs : ~Live(j),
           UNCHANGED <<status, inbox, cjob, cancelling, wpc, wjob>>
    PROVE  OnePlace' /\ RowHeld'
<1>1. cpc \in [Clients -> ClientPC]
  BY DEF PartsOK, ClientsOK
<1>2. cpc'[c] = pc /\ \A d \in Clients : d # c => cpc'[d] = cpc[d]
  BY <1>1
<1>3. \A j \in Jobs : (Sent(j) => Sent(j)') /\ (Untaken(j) => Untaken(j)') /\ (Live(j)' => Live(j))
  BY <1>2 DEF Sent, Untaken, Live
<1>4. OnePlace'
  <2>1. \A d \in Clients : cpc'[d] = "dispatch" => cpc[d] = "dispatch" /\ cjob[d] \in Jobs
    BY <1>2 DEF PartsOK, ClientsOK
  <2>2. \A d \in Clients : cpc'[d] # "submit"
    BY <1>2 DEF OnePlace
  <2> QED
    BY <1>3, <2>1, <2>2 DEF OnePlace
<1>5. RowHeld'
  <2>1. \A j \in Jobs : Live(j)' => row'.active = j
    BY <1>3, UnclaimedConstants DEF RowHeld
  <2>2. row'.active \in Jobs => status'[row'.active] # "none"
    BY UnclaimedConstants DEF RowHeld
  <2> QED
    BY <1>2, <2>1, <2>2 DEF RowHeld
<1> QED
  BY <1>4, <1>5

(* The claim a request takes off is of a job that is over: no live job loses its
   row.  The one it puts on an empty row is its own. *)
LEMMA ClientQuiet ==
    ASSUME PartsOK, Quiet, OnePlace, RowHeld, NEW c \in Clients,
           QueueRequest(c) \/ ManualRequest(c) \/ Client(c)
    PROVE  OnePlace' /\ RowHeld'
<1>0. /\ cpc \in [Clients -> ClientPC] /\ ccopy \in [Clients -> Rows] /\ row \in Rows
      /\ cjob \in [Clients -> Jobs \union {NoJob}] /\ NoJob \notin Jobs
      /\ status \in [Jobs -> JobStatus] /\ inbox \in [Jobs -> Nat]
  BY UnclaimedConstants DEF PartsOK, ClientsOK, SharedOK
<1>1. CASE QueueRequest(c)
  <2>1. /\ cpc[c] = "idle" /\ cpc' = [cpc EXCEPT ![c] = "look"]
        /\ ccopy' = [ccopy EXCEPT ![c] = row] /\ row' = row
        /\ UNCHANGED <<status, inbox, cjob, cancelling, wpc, wjob>>
    BY <1>1 DEF QueueRequest, workerVars, worldVars
  <2>2. ccopy'[c] = row /\ \A d \in Clients : d # c => ccopy'[d] = ccopy[d]
    BY <1>0, <2>1
  <2>3. row.active \in Jobs => status[row.active] # "none"
    BY DEF RowHeld
  <2> QED
    BY <2>1, <2>2, <2>3, ClientMoves
<1>2. CASE ManualRequest(c)
  BY <1>2 DEF ManualRequest, Refinement, Quiet, Analysis
<1>3. CASE QueueLook(c)
  <2>1. /\ cpc[c] = "look" /\ row' = row
        /\ UNCHANGED <<status, inbox, cancelling, wpc, wjob>>
    BY <1>3 DEF QueueLook, workerVars, worldVars
  <2>2. CASE Return(c)
    <3>1. /\ cpc' = [cpc EXCEPT ![c] = "idle"]
          /\ ccopy'[c].active = NoJob /\ \A d \in Clients : d # c => ccopy'[d] = ccopy[d]
      BY <1>0, <2>2 DEF Return, NewRow
    <3>2. cjob' = [cjob EXCEPT ![c] = NoJob]
      BY <2>2 DEF Return
    <3>3. \A d \in Clients : (cpc'[d] = "dispatch" => d # c /\ cpc[d] = "dispatch" /\ cjob'[d] = cjob[d])
      BY <1>0, <2>1, <3>1, <3>2
    <3>4. \A j \in Jobs : (Sent(j) => Sent(j)') /\ (Untaken(j) => Untaken(j)') /\ (Live(j)' => Live(j))
      BY <2>1, <3>3 DEF Sent, Untaken, Live
    <3>5. OnePlace'
      <4>1. \A d \in Clients : cpc'[d] # "submit"
        BY <1>0, <3>1 DEF OnePlace
      <4>2. \A d \in Clients : cpc'[d] = "dispatch" => cjob[d] \in Jobs
        BY <3>3 DEF PartsOK, ClientsOK
      <4> QED
        BY <2>1, <3>3, <3>4, <4>1, <4>2 DEF OnePlace
    <3>6. RowHeld'
      BY <1>0, <2>1, <3>1, <3>4 DEF RowHeld
    <3> QED
      BY <3>5, <3>6
  <2>3. CASE ActiveJobs = {} /\ ccopy[c].active # NoJob /\ cpc' = [cpc EXCEPT ![c] = "clear"]
             /\ UNCHANGED <<ccopy, cjob, cforce, tries>>
    <3>1. ccopy[c].active \in Jobs
      BY <1>0, <2>3 DEF Rows
    <3>2. status[ccopy[c].active] = "SUCCEEDED"
      BY <2>3, <3>1 DEF RowHeld, OnePlace, ActiveJobs, Active
    <3> QED
      BY <2>1, <2>3, <3>2, ClientMoves
  <2>4. CASE cpc' = [cpc EXCEPT ![c] = "insert"] /\ UNCHANGED <<ccopy, cjob, cforce, tries>>
    <3>1. ccopy[c].active \in Jobs => status[ccopy[c].active] # "none"
      BY DEF RowHeld
    <3> QED
      BY <2>1, <2>4, <3>1, ClientMoves
  <2> QED
    BY <1>3, <2>2, <2>3, <2>4 DEF QueueLook
<1>4. ASSUME Again(c), cpc[c] \in {"clear", "insert"}, row'.active \in {row.active, NoJob},
             row'.active = NoJob => row.active = NoJob \/ \A j \in Jobs : ~Live(j),
             UNCHANGED <<status, inbox, cancelling, wpc, wjob>>
      PROVE  OnePlace' /\ RowHeld'
  <2>1. /\ cpc' = [cpc EXCEPT ![c] = "look"] /\ ccopy' = [ccopy EXCEPT ![c] = row'] /\ cjob' = cjob
    BY <1>4 DEF Again
  <2>2. ccopy'[c].active = row'.active /\ \A d \in Clients : d # c => ccopy'[d] = ccopy[d]
    BY <1>0, <2>1
  <2>3. row'.active \in Jobs => status[row'.active] # "none"
    BY <1>0, <1>4 DEF RowHeld
  <2> QED
    BY <1>4, <2>1, <2>2, <2>3, ClientMoves
<1>5. CASE QueueClear(c)
  <2>1. /\ cpc[c] = "clear" /\ Again(c) /\ UNCHANGED <<status, inbox, cancelling, wpc, wjob>>
        /\ row' = IF row.active = ccopy[c].active THEN [row EXCEPT !.active = NoJob] ELSE row
    BY <1>5 DEF QueueClear, workerVars, worldVars
  <2>2. row'.active \in {row.active, NoJob}
    BY <1>0, <2>1 DEF Rows
  <2>3. ASSUME row'.active = NoJob, row.active # NoJob, NEW j \in Jobs, Live(j) PROVE FALSE
    <3>1. row.active = ccopy[c].active
      BY <2>1, <2>3
    <3>2. status[j] = "SUCCEEDED"
      BY <1>0, <2>1, <2>3, <3>1 DEF RowHeld, Rows
    <3> QED
      BY <2>3, <3>2 DEF Live, OnePlace, Untaken, LivePC
  <2> QED
    BY <1>4, <2>1, <2>2, <2>3
<1>6. CASE QueueInsert(c)
  <2>0. /\ cpc[c] = "insert" /\ UNCHANGED <<inbox, cancelling, wpc, wjob>>
        /\ \/ \E j \in Jobs : /\ status[j] = "none" /\ row.active = NoJob
                              /\ status' = [status EXCEPT ![j] = "QUEUED"]
                              /\ row' = [row EXCEPT !.active = j]
                              /\ cjob' = [cjob EXCEPT ![c] = j]
                              /\ cpc' = [cpc EXCEPT ![c] = "dispatch"] /\ ccopy' = ccopy
           \/ row' = row /\ Again(c) /\ status' = status
    BY <1>6 DEF QueueInsert, workerVars, worldVars, Quiet
  <2>1. ASSUME NEW j \in Jobs, status[j] = "none", row.active = NoJob,
               status' = [status EXCEPT ![j] = "QUEUED"], row' = [row EXCEPT !.active = j],
               cjob' = [cjob EXCEPT ![c] = j], cpc' = [cpc EXCEPT ![c] = "dispatch"],
               ccopy' = ccopy
        PROVE  OnePlace' /\ RowHeld'
    <3>1. /\ status'[j] = "QUEUED" /\ \A k \in Jobs : k # j => status'[k] = status[k]
          /\ cpc'[c] = "dispatch" /\ cjob'[c] = j /\ row'.active = j
          /\ \A d \in Clients : d # c => cpc'[d] = cpc[d] /\ cjob'[d] = cjob[d]
      BY <1>0, <2>1 DEF Rows
    <3>2. inbox[j] = 0 /\ Untaken(j) /\ Sent(j) /\ \A k \in Jobs : ~Live(k)
      BY <1>0, <2>1 DEF OnePlace, RowHeld, Sent
    <3>3. \A k \in Jobs : Untaken(k)' = Untaken(k) /\ (k # j => Sent(k)' = Sent(k) /\ ~Live(k)')
      BY <2>0, <2>1, <3>1, <3>2 DEF Untaken, Sent, Live
    <3>4. OnePlace'
      <4>1. \A k \in Jobs :
               /\ status'[k] \in {"none", "QUEUED", "RUNNING", "SUCCEEDED"}
               /\ status'[k] \in {"none", "SUCCEEDED"} => Untaken(k)'
               /\ inbox'[k] # 0 => inbox'[k] = 1 /\ status'[k] = "QUEUED" /\ Sent(k)' /\ Untaken(k)'
        BY <2>0, <3>1, <3>2, <3>3 DEF OnePlace
      <4>2. \A d \in Clients :
               /\ cpc'[d] # "submit"
               /\ cpc'[d] = "dispatch" =>
                    /\ status'[cjob'[d]] = "QUEUED" /\ inbox'[cjob'[d]] = 0 /\ Untaken(cjob[d])'
                    /\ \A e \in Clients : cpc'[e] = "dispatch" /\ cjob'[e] = cjob'[d] => e = d
        <5>1. \A d \in Clients : cpc[d] = "dispatch" => cjob[d] \in Jobs /\ cjob[d] # j
          BY <3>2 DEF PartsOK, ClientsOK, Sent
        <5>2. status'[j] = "QUEUED" /\ inbox'[j] = 0 /\ Untaken(j)'
          BY <2>0, <3>1, <3>2, <3>3
        <5>3. ASSUME NEW d \in Clients, d # c, cpc'[d] = "dispatch"
              PROVE  /\ cjob'[d] # j
                     /\ status'[cjob'[d]] = "QUEUED" /\ inbox'[cjob'[d]] = 0 /\ Untaken(cjob[d])'
                     /\ \A e \in Clients : e # c /\ cpc'[e] = "dispatch" /\ cjob'[e] = cjob'[d] => e = d
          <6>1. cpc[d] = "dispatch" /\ cjob'[d] = cjob[d] /\ cjob[d] \in Jobs /\ cjob[d] # j
            BY <3>1, <5>1, <5>3
          <6>2. /\ status[cjob[d]] = "QUEUED" /\ inbox[cjob[d]] = 0 /\ Untaken(cjob[d])
                /\ \A e \in Clients : cpc[e] = "dispatch" /\ cjob[e] = cjob[d] => e = d
            BY <6>1 DEF OnePlace
          <6> QED
            BY <2>0, <3>1, <3>3, <6>1, <6>2
        <5>4. \A d \in Clients : cpc'[d] # "submit"
          BY <3>1 DEF OnePlace
        <5> QED
          BY <3>1, <5>2, <5>3, <5>4
      <4>3. \A w \in Workers : wpc'[w] # "idle" =>
               /\ wpc'[w] \in LivePC \union {"finish"}
               /\ status'[wjob'[w]] = IF wpc'[w] = "mark" THEN "QUEUED" ELSE "RUNNING"
               /\ \A v \in Workers : wpc'[v] # "idle" /\ wjob'[v] = wjob'[w] => v = w
        <5>1. \A w \in Workers : wpc[w] # "idle" => wjob[w] \in Jobs /\ wjob[w] # j
          BY <3>2 DEF PartsOK, WorkersOK, Untaken
        <5> QED
          BY <2>0, <3>1, <5>1 DEF OnePlace
      <4>4. cancelling' = {}
        BY <2>0 DEF OnePlace
      <4> QED
        BY <4>1, <4>2, <4>3, <4>4, Zenon DEF OnePlace
    <3>5. RowHeld'
      BY <1>0, <2>0, <2>1, <3>1, <3>3 DEF RowHeld
    <3> QED
      BY <3>4, <3>5
  <2>2. CASE row' = row /\ Again(c) /\ status' = status
    BY <1>4, <2>0, <2>2
  <2> QED
    BY <2>0, <2>1, <2>2
<1>7. CASE QueueDispatch(c)
  <2>0. /\ cpc[c] = "dispatch" /\ Send(cjob[c]) /\ Return(c) /\ row' = row
        /\ UNCHANGED <<status, cancelling, wpc, wjob>>
    BY <1>7 DEF QueueDispatch, workerVars, worldVars
  <2>j. PICK j : j = cjob[c]
    OBVIOUS
  <2>1. /\ j \in Jobs /\ status[j] = "QUEUED" /\ inbox[j] = 0 /\ Untaken(j)
        /\ \A d \in Clients : cpc[d] = "dispatch" /\ cjob[d] = j => d = c
    BY <2>0, <2>j DEF OnePlace, PartsOK, ClientsOK
  <2>2. inbox'[j] = 1 /\ \A k \in Jobs : k # j => inbox'[k] = inbox[k]
    BY <1>0, <2>0, <2>1, <2>j DEF Send
  <2>3. /\ cpc'[c] = "idle" /\ ccopy'[c].active = NoJob
        /\ \A d \in Clients : d # c => cpc'[d] = cpc[d] /\ cjob'[d] = cjob[d] /\ ccopy'[d] = ccopy[d]
    BY <1>0, <2>0 DEF Return, NewRow
  <2>4. /\ \A k \in Jobs : Untaken(k)' = Untaken(k) /\ Live(k)' = Live(k) /\ (Sent(k) => Sent(k)')
        /\ Sent(j)'
    <3>1. \A k \in Jobs : Untaken(k)' = Untaken(k) /\ Live(k)' = Live(k)
      BY <2>0 DEF Untaken, Live
    <3>2. \A d \in Clients : cpc'[d] = "dispatch" => d # c /\ cpc[d] = "dispatch" /\ cjob'[d] = cjob[d]
      BY <2>3
    <3>3. \A k \in Jobs : Sent(k) => Sent(k)'
      BY <3>2 DEF Sent
    <3>4. Sent(j)'
      BY <2>1, <3>2 DEF Sent
    <3> QED
      BY <3>1, <3>3, <3>4
  <2>5. OnePlace'
    <3>1. \A d \in Clients : cpc'[d] = "dispatch" =>
             d # c /\ cpc[d] = "dispatch" /\ cjob'[d] = cjob[d] /\ cjob[d] \in Jobs /\ cjob[d] # j
      BY <2>1, <2>3 DEF PartsOK, ClientsOK
    <3>2. \A d \in Clients : cpc'[d] # "submit"
      BY <2>3 DEF OnePlace
    <3>3. \A k \in Jobs :
             /\ status'[k] \in {"none", "QUEUED", "RUNNING", "SUCCEEDED"}
             /\ status'[k] \in {"none", "SUCCEEDED"} => Untaken(k)'
             /\ inbox'[k] # 0 => inbox'[k] = 1 /\ status'[k] = "QUEUED" /\ Sent(k)' /\ Untaken(k)'
      BY <2>0, <2>1, <2>2, <2>4 DEF OnePlace
    <3>4. \A d \in Clients : cpc'[d] = "dispatch" =>
             /\ status'[cjob'[d]] = "QUEUED" /\ inbox'[cjob'[d]] = 0 /\ Untaken(cjob[d])'
             /\ \A e \in Clients : cpc'[e] = "dispatch" /\ cjob'[e] = cjob'[d] => e = d
      <4>1. SUFFICES ASSUME NEW d \in Clients, cpc'[d] = "dispatch"
                     PROVE  /\ status'[cjob'[d]] = "QUEUED" /\ inbox'[cjob'[d]] = 0 /\ Untaken(cjob[d])'
                            /\ \A e \in Clients : cpc'[e] = "dispatch" /\ cjob'[e] = cjob'[d] => e = d
        OBVIOUS
      <4>2. /\ status[cjob[d]] = "QUEUED" /\ inbox[cjob[d]] = 0 /\ Untaken(cjob[d])
            /\ \A e \in Clients : cpc[e] = "dispatch" /\ cjob[e] = cjob[d] => e = d
        BY <3>1, <4>1 DEF OnePlace
      <4> QED
        BY <2>0, <2>2, <2>4, <3>1, <4>1, <4>2
    <3>5. cancelling' = {} /\ \A w \in Workers : wpc'[w] # "idle" =>
             /\ wpc'[w] \in LivePC \union {"finish"}
             /\ status'[wjob'[w]] = IF wpc'[w] = "mark" THEN "QUEUED" ELSE "RUNNING"
             /\ \A v \in Workers : wpc'[v] # "idle" /\ wjob'[v] = wjob'[w] => v = w
      BY <2>0 DEF OnePlace
    <3> QED
      BY <3>2, <3>3, <3>4, <3>5, Zenon DEF OnePlace
  <2>6. RowHeld'
    BY <1>0, <2>0, <2>3, <2>4 DEF RowHeld
  <2> QED
    BY <2>5, <2>6
<1>8. CASE ManualSubmit(c)
  BY <1>8 DEF ManualSubmit, OnePlace
<1> QED
  BY <1>1, <1>2, <1>3, <1>5, <1>6, <1>7, <1>8 DEF Client

(* A step of a delivery through its task.  Only the end of its work may give the
   row back, and then no job is live. *)
LEMMA WorkerMoves ==
    ASSUME PartsOK, OnePlace, RowHeld, NEW w \in Workers, NEW j \in Jobs, NEW pc,
           wpc[w] # "idle", wjob[w] = j, pc \in (LivePC \union {"finish"}) \ {"mark"},
           pc \in LivePC => wpc[w] \in LivePC,
           wpc' = [wpc EXCEPT ![w] = pc],
           status'[j] = "RUNNING", \A k \in Jobs : k # j => status'[k] = status[k],
           row'.active = row.active \/ (row'.active = NoJob /\ pc = "finish" /\ wpc[w] \in LivePC),
           UNCHANGED <<inbox, cpc, cjob, ccopy, cancelling, wjob>>
    PROVE  OnePlace' /\ RowHeld'
<1>0. wpc'[w] = pc /\ \A v \in Workers : v # w => wpc'[v] = wpc[v]
  BY DEF PartsOK, WorkersOK
<1>1. /\ inbox[j] = 0 /\ status[j] \in {"QUEUED", "RUNNING"} /\ ~Untaken(j)
      /\ \A v \in Workers : wpc[v] # "idle" /\ wjob[v] = j => v = w
      /\ \A c \in Clients : cpc[c] = "dispatch" => cjob[c] # j
  BY DEF OnePlace, Untaken
<1>2. \A k \in Jobs : Sent(k)' = Sent(k) /\ (Untaken(k) => Untaken(k)')
  BY <1>0, <1>1 DEF Sent, Untaken
<1>3. \A k \in Jobs : Live(k)' => Live(k)
  BY <1>0, <1>1 DEF Live
<1>4. OnePlace'
  <2>1. cancelling' = {} /\ \A k \in Jobs :
           /\ status'[k] \in {"none", "QUEUED", "RUNNING", "SUCCEEDED"}
           /\ status'[k] \in {"none", "SUCCEEDED"} => Untaken(k)'
           /\ inbox'[k] # 0 => inbox'[k] = 1 /\ status'[k] = "QUEUED" /\ Sent(k)' /\ Untaken(k)'
    BY <1>1, <1>2 DEF OnePlace
  <2>2. ASSUME NEW c \in Clients
        PROVE  /\ cpc'[c] # "submit"
               /\ cpc'[c] = "dispatch" =>
                    /\ status'[cjob'[c]] = "QUEUED" /\ inbox'[cjob'[c]] = 0 /\ Untaken(cjob[c])'
                    /\ \A d \in Clients : cpc'[d] = "dispatch" /\ cjob'[d] = cjob'[c] => d = c
    <3>1. cpc[c] = "dispatch" => cjob[c] \in Jobs /\ cjob[c] # j
      BY <1>1 DEF PartsOK, ClientsOK
    <3> QED
      BY <1>2, <3>1 DEF OnePlace
  <2>3. ASSUME NEW v \in Workers, wpc'[v] # "idle"
        PROVE  /\ wpc'[v] \in LivePC \union {"finish"}
               /\ status'[wjob'[v]] = IF wpc'[v] = "mark" THEN "QUEUED" ELSE "RUNNING"
               /\ \A u \in Workers : wpc'[u] # "idle" /\ wjob'[u] = wjob'[v] => u = v
    <3>1. CASE v = w
      BY <1>0, <1>1, <3>1
    <3>2. CASE v # w
      <4>1. wpc[v] # "idle" /\ wjob[v] \in Jobs /\ wjob[v] # j
        BY <1>0, <1>1, <2>3, <3>2 DEF PartsOK, WorkersOK
      <4> QED
        BY <1>0, <3>2, <4>1 DEF OnePlace
    <3> QED
      BY <3>1, <3>2
  <2> QED
    BY <2>1, <2>2, <2>3, Zenon DEF OnePlace
<1>5. RowHeld'
  <2>1. ASSUME NEW k \in Jobs, Live(k)' PROVE row'.active = k
    <3>1. Live(k) /\ row.active = k
      BY <1>3, <2>1 DEF RowHeld
    <3>2. CASE pc = "finish" /\ wpc[w] \in LivePC
      <4>1. Live(j) /\ row.active = j
        BY <3>2 DEF Live, RowHeld
      <4> QED
        BY <1>0, <1>1, <2>1, <3>1, <3>2, <4>1 DEF Live, LivePC
    <3> QED
      BY <3>1, <3>2
  <2>2. \A k \in Jobs : status[k] # "none" => status'[k] # "none"
    OBVIOUS
  <2>3. \A k \in Jobs : status[k] = "SUCCEEDED" => status'[k] = "SUCCEEDED"
    BY <1>1
  <2> QED
    BY <2>1, <2>2, <2>3, UnclaimedConstants DEF RowHeld
<1> QED
  BY <1>4, <1>5

(* A delivery takes a message, works, and leaves. *)
LEMMA WorkerQuiet ==
    ASSUME PartsOK, Quiet, OnePlace, RowHeld, NEW w \in Workers,
           Take(w) \/ Worker(w) \/ Crash(w) \/ Redeliver(w)
    PROVE  OnePlace' /\ RowHeld'
<1>0. /\ wpc \in [Workers -> WorkerPC] /\ wjob \in [Workers -> Jobs \union {NoJob}]
      /\ NoJob \notin Jobs /\ status \in [Jobs -> JobStatus] /\ inbox \in [Jobs -> Nat]
  BY UnclaimedConstants DEF PartsOK, WorkersOK, SharedOK
<1>1. wpc[w] # "idle" =>
        /\ wjob[w] \in Jobs /\ wpc[w] \in LivePC \union {"finish"}
        /\ status[wjob[w]] = IF wpc[w] = "mark" THEN "QUEUED" ELSE "RUNNING"
        /\ wpc[w] \in LivePC => row.active = wjob[w]
  BY DEF PartsOK, WorkersOK, OnePlace, RowHeld, Live
<1>2. CASE Take(w)
  <2>1. PICK j \in Jobs : Deliver(w, j)
    BY <1>2 DEF Take
  <2>2. /\ wpc[w] = "idle" /\ inbox[j] = 1 /\ status[j] = "QUEUED" /\ Sent(j) /\ Untaken(j)
    BY <1>0, <2>1 DEF Deliver, OnePlace
  <2>3. /\ wpc'[w] = "mark" /\ wjob'[w] = j /\ inbox'[j] = 0
        /\ \A v \in Workers : v # w => wpc'[v] = wpc[v] /\ wjob'[v] = wjob[v]
        /\ \A k \in Jobs : k # j => inbox'[k] = inbox[k]
        /\ UNCHANGED <<status, row, cpc, cjob, ccopy, cancelling>>
    BY <1>0, <2>1, <2>2 DEF Deliver, Goto, clientVars, worldVars
  <2>4. \A k \in Jobs : Sent(k)' = Sent(k) /\ (k # j => Untaken(k)' = Untaken(k)) /\ (Live(k)' => Live(k))
    BY <2>2, <2>3 DEF Sent, Untaken, Live
  <2>5. OnePlace'
    <3>1. cancelling' = {} /\ \A k \in Jobs :
             /\ status'[k] \in {"none", "QUEUED", "RUNNING", "SUCCEEDED"}
             /\ status'[k] \in {"none", "SUCCEEDED"} => Untaken(k)'
             /\ inbox'[k] # 0 => inbox'[k] = 1 /\ status'[k] = "QUEUED" /\ Sent(k)' /\ Untaken(k)'
      BY <2>2, <2>3, <2>4 DEF OnePlace
    <3>2. ASSUME NEW c \in Clients
          PROVE  /\ cpc'[c] # "submit"
                 /\ cpc'[c] = "dispatch" =>
                      /\ status'[cjob'[c]] = "QUEUED" /\ inbox'[cjob'[c]] = 0 /\ Untaken(cjob[c])'
                      /\ \A d \in Clients : cpc'[d] = "dispatch" /\ cjob'[d] = cjob'[c] => d = c
      <4>1. cpc[c] = "dispatch" => cjob[c] \in Jobs /\ cjob[c] # j
        BY <2>2 DEF PartsOK, ClientsOK, Sent
      <4> QED
        BY <2>3, <2>4, <4>1 DEF OnePlace
    <3>3. ASSUME NEW v \in Workers, wpc'[v] # "idle"
          PROVE  /\ wpc'[v] \in LivePC \union {"finish"}
                 /\ status'[wjob'[v]] = IF wpc'[v] = "mark" THEN "QUEUED" ELSE "RUNNING"
                 /\ \A u \in Workers : wpc'[u] # "idle" /\ wjob'[u] = wjob'[v] => u = v
      <4>1. \A u \in Workers : u # w /\ wpc[u] # "idle" => wjob[u] # j
        BY <2>2 DEF Untaken
      <4>2. CASE v = w
        BY <2>2, <2>3, <4>1, <4>2 DEF LivePC
      <4>3. CASE v # w
        BY <2>2, <2>3, <3>3, <4>1, <4>3 DEF OnePlace
      <4> QED
        BY <4>2, <4>3
    <3> QED
      BY <3>1, <3>2, <3>3, Zenon DEF OnePlace
  <2>6. RowHeld'
    BY <2>3, <2>4 DEF RowHeld
  <2> QED
    BY <2>5, <2>6
<1>3. CASE MarkRunning(w) \/ Load(w) \/ Check(w) \/ Claim(w) \/ Work(w) \/ Persist(w)
  <2>1. wpc[w] \in LivePC /\ wjob[w] \in Jobs /\ row.active = wjob[w]
    <3>1. wpc[w] \in LivePC \union {"touch"}
      BY <1>3 DEF MarkRunning, Load, Check, Claim, Work, Persist, LivePC
    <3> QED
      BY <1>1, <3>1 DEF LivePC
  <2>2. /\ UNCHANGED <<inbox, cpc, cjob, ccopy, cancelling, wjob>>
        /\ \E pc \in (LivePC \union {"finish"}) \ {"mark"} : wpc' = [wpc EXCEPT ![w] = pc]
    BY <1>3 DEF MarkRunning, Load, Check, Claim, Work, Persist, Goto, LivePC, clientVars, worldVars
  <2>3. status'[wjob[w]] = "RUNNING" /\ \A k \in Jobs : k # wjob[w] => status'[k] = status[k]
    BY <1>0, <1>1, <1>3, <2>1 DEF MarkRunning, Load, Check, Claim, Work, Persist, LivePC
  <2>4. row'.active = row.active \/ (row'.active = NoJob /\ wpc'[w] = "finish")
    <3>1. CASE MarkRunning(w) \/ Load(w) \/ Check(w) \/ Work(w)
      BY <3>1 DEF MarkRunning, Load, Check, Work
    <3>2. CASE Claim(w)
      <4>1. copy[w] \in Rows
        BY DEF PartsOK, WorkersOK
      <4>2. row' = Flush(copy[w], [copy[w] EXCEPT !.active = wjob[w], !.life = "WORKING"])
        BY <3>2, Zenon DEF Claim
      <4>3. [copy[w] EXCEPT !.active = wjob[w], !.life = "WORKING"].active = wjob[w]
        BY <4>1 DEF Rows
      <4>4. row'.active = Column(copy[w].active, wjob[w], row.active)
        BY <4>2, <4>3 DEF Flush
      <4> QED
        BY <2>1, <4>4 DEF Column
    <3>3. CASE Persist(w)
      <4>1. PICK new : row' = Flush(copy[w], new) /\ new.active = NoJob
        <5>1. PICK life \in {"READY", "REVIEW"} :
                 row' = Flush(copy[w],
                              [copy[w] EXCEPT !.life = life, !.eligible = (life = "READY"),
                                              !.input = basis[w], !.active = NoJob,
                                              !.text = IF copy[w].manual THEN "manual" ELSE "automatic"])
          BY <3>3, Zenon DEF Persist
        <5>2. ASSUME NEW r \in Rows
              PROVE  [r EXCEPT !.life = life, !.eligible = (life = "READY"), !.input = basis[w],
                               !.active = NoJob,
                               !.text = IF r.manual THEN "manual" ELSE "automatic"].active = NoJob
          BY DEF Rows
        <5>3. copy[w] \in Rows
          BY DEF PartsOK, WorkersOK
        <5> QED
          BY <5>1, <5>2, <5>3
      <4>2. row'.active = Column(copy[w].active, NoJob, row.active)
        BY <4>1 DEF Flush
      <4>3. wpc'[w] = "finish"
        BY <1>0, <3>3 DEF Persist, Goto
      <4> QED
        BY <4>2, <4>3 DEF Column
    <3> QED
      BY <1>3, <3>1, <3>2, <3>3
  <2>5. PICK pc \in (LivePC \union {"finish"}) \ {"mark"} : wpc' = [wpc EXCEPT ![w] = pc]
    BY <2>2
  <2>6. wpc'[w] = pc
    BY <1>0, <2>5
  <2>7. wpc[w] # "idle"
    BY <2>1 DEF LivePC
  <2> QED
    BY <2>1, <2>2, <2>3, <2>4, <2>5, <2>6, <2>7, WorkerMoves
<1>4. CASE Finish(w)
  <2>1. wpc[w] = "finish" /\ wjob[w] \in Jobs /\ status' = [status EXCEPT ![wjob[w]] = "SUCCEEDED"]
    BY <1>1, <1>4 DEF Finish, End, LivePC
  <2>2. PICK j \in Jobs : j = wjob[w]
    BY <2>1
  <2>3. /\ status'[j] = "SUCCEEDED" /\ \A k \in Jobs : k # j => status'[k] = status[k]
        /\ wpc'[w] = "idle" /\ \A v \in Workers : v # w => wpc'[v] = wpc[v] /\ wjob'[v] = wjob[v]
        /\ UNCHANGED <<row, inbox, cpc, cjob, ccopy, cancelling>>
    BY <1>0, <1>4, <2>1, <2>2 DEF Finish, Leave, Goto, clientVars, worldVars
  <2>4. /\ status[j] = "RUNNING" /\ inbox[j] = 0
        /\ \A v \in Workers : wpc[v] # "idle" /\ wjob[v] = j => v = w
        /\ \A c \in Clients : cpc[c] = "dispatch" => cjob[c] # j
    BY <2>1, <2>2 DEF OnePlace, Untaken
  <2>5. /\ \A k \in Jobs : Sent(k)' = Sent(k) /\ (Untaken(k) => Untaken(k)') /\ (Live(k)' => Live(k))
        /\ Untaken(j)'
    <3>1. \A k \in Jobs : Sent(k)' = Sent(k)
      BY <2>3 DEF Sent
    <3>2. \A v \in Workers : wpc'[v] # "idle" => v # w /\ wpc[v] = wpc'[v] /\ wjob[v] = wjob'[v]
      BY <2>3
    <3>3. \A k \in Jobs : Untaken(k) => Untaken(k)'
      BY <3>2 DEF Untaken
    <3>4. Untaken(j)'
      BY <2>4, <3>2 DEF Untaken
    <3>5. \A k \in Jobs : Live(k)' => Live(k)
      BY <2>3, <3>2 DEF Live, LivePC
    <3> QED
      BY <3>1, <3>3, <3>4, <3>5
  <2>6. OnePlace'
    <3>1. cancelling' = {} /\ \A k \in Jobs :
             /\ status'[k] \in {"none", "QUEUED", "RUNNING", "SUCCEEDED"}
             /\ status'[k] \in {"none", "SUCCEEDED"} => Untaken(k)'
             /\ inbox'[k] # 0 => inbox'[k] = 1 /\ status'[k] = "QUEUED" /\ Sent(k)' /\ Untaken(k)'
      BY <2>3, <2>4, <2>5 DEF OnePlace
    <3>2. ASSUME NEW c \in Clients
          PROVE  /\ cpc'[c] # "submit"
                 /\ cpc'[c] = "dispatch" =>
                      /\ status'[cjob'[c]] = "QUEUED" /\ inbox'[cjob'[c]] = 0 /\ Untaken(cjob[c])'
                      /\ \A d \in Clients : cpc'[d] = "dispatch" /\ cjob'[d] = cjob'[c] => d = c
      <4>1. cpc[c] = "dispatch" => cjob[c] \in Jobs /\ cjob[c] # j
        BY <2>4 DEF PartsOK, ClientsOK
      <4> QED
        BY <2>3, <2>5, <4>1 DEF OnePlace
    <3>3. ASSUME NEW v \in Workers, wpc'[v] # "idle"
          PROVE  /\ wpc'[v] \in LivePC \union {"finish"}
                 /\ status'[wjob'[v]] = IF wpc'[v] = "mark" THEN "QUEUED" ELSE "RUNNING"
                 /\ \A u \in Workers : wpc'[u] # "idle" /\ wjob'[u] = wjob'[v] => u = v
      <4>1. v # w /\ wpc[v] # "idle" /\ wjob[v] \in Jobs /\ wjob[v] # j
        BY <2>3, <2>4, <3>3 DEF PartsOK, WorkersOK
      <4> QED
        BY <2>3, <4>1 DEF OnePlace
    <3> QED
      BY <3>1, <3>2, <3>3, Zenon DEF OnePlace
  <2>7. RowHeld'
    BY <2>3, <2>4, <2>5 DEF RowHeld
  <2> QED
    BY <2>6, <2>7
<1>5. CASE NoticeCancel(w) \/ Fail(w) \/ FinishFailed(w) \/ Retry(w) \/ Crash(w) \/ Redeliver(w)
  BY <1>1, <1>5 DEF NoticeCancel, Stopped, Fail, FinishFailed, Retry, Crash, Redeliver, LivePC, May, Quiet
<1> QED
  BY <1>2, <1>3, <1>4, <1>5 DEF Worker

(* Nothing else happens to a quiet analysis than edits of what it reads. *)
LEMMA OutsideQuiet ==
    ASSUME Quiet, OnePlace, RowHeld,
           Edit \/ \E j \in Jobs : CancelRead(j) \/ CancelWrite(j)
    PROVE  OnePlace' /\ RowHeld'
<1>1. UNCHANGED <<status, row, inbox, cpc, ccopy, cjob, wpc, wjob, cancelling>>
  BY DEF Edit, CancelRead, CancelWrite, OnePlace, May, Quiet, workerVars, clientVars
<1> QED
  BY <1>1 DEF OnePlace, RowHeld, Sent, Untaken, Live

LEMMA QuietInvariant == Spec => []QuietInv
<1>1. Init => QuietInv
  <2> SUFFICES ASSUME Init PROVE QuietInv
    OBVIOUS
  <2>1. OnePlace
    BY DEF Init, OnePlace, Untaken
  <2>2. RowHeld
    BY UnclaimedConstants DEF Init, RowHeld, Live, LivePC, NewRow
  <2> QED
    BY <2>1, <2>2, PartsInit DEF QuietInv
<1>2. QuietInv /\ [Next]_vars => QuietInv'
  <2> SUFFICES ASSUME QuietInv, [Next]_vars PROVE QuietInv'
    OBVIOUS
  <2>1. PartsOK'
    BY PartsNext DEF QuietInv
  <2>2. setting' = setting
    BY DEF Next, Client, Worker, Take, QueueRequest, ManualRequest, QueueLook, QueueClear, QueueInsert,
           QueueDispatch, ManualSubmit, Deliver, MarkRunning, Load, NoticeCancel, Check, Claim, Work,
           Persist, Fail, Finish, FinishFailed, Retry, Crash, Redeliver, CancelRead, CancelWrite,
           Edit, vars, worldVars
  <2>3. ASSUME Quiet PROVE OnePlace' /\ RowHeld'
    <3>1. CASE UNCHANGED vars
      <4>1. UNCHANGED <<status, row, inbox, cpc, ccopy, cjob, wpc, wjob, cancelling>>
        BY <3>1 DEF vars, workerVars, clientVars, worldVars
      <4> QED
        BY <2>3, <4>1 DEF QuietInv, OnePlace, RowHeld, Sent, Untaken, Live
    <3> QED
      BY <2>3, <3>1, ClientQuiet, WorkerQuiet, OutsideQuiet DEF QuietInv, Next
  <2> QED
    BY <2>1, <2>2, <2>3 DEF QuietInv, Quiet, Analysis
<1> QED
  BY <1>1, <1>2, PTL DEF Spec

(* Of an analysis, no two deliveries ever work at once, whatever requests,
   forced ones too, come in between, and however its input changes. *)
THEOREM OneRowWorkerHolds == Spec => []OneRowWorker
<1>1. QuietInv => OneRowWorker
  <2> SUFFICES ASSUME QuietInv, Quiet, NEW w1 \in Workers, NEW w2 \in Workers, Working(w1), Working(w2)
               PROVE  w1 = w2
    BY DEF OneRowWorker, Quiet
  <2>1. wjob[w1] \in Jobs /\ wjob[w2] \in Jobs /\ Live(wjob[w1]) /\ Live(wjob[w2])
    BY DEF QuietInv, PartsOK, WorkersOK, Working, Live, LivePC
  <2>2. wjob[w1] = wjob[w2]
    BY <2>1, OneLive DEF QuietInv
  <2> QED
    BY <2>2 DEF QuietInv, OnePlace, Working
<1> QED
  BY <1>1, QuietInvariant, PTL
=============================================================================
