------------------------ MODULE GeminiAdmissionProofs ------------------------
(***************************************************************************)
(* That the admission gate keeps its budget and its reserves, for any      *)
(* policy, any number of callers and windows of any length.  The counter   *)
(* of the present window counts exactly what was admitted in it: its key   *)
(* cannot expire before the window ends, as each admission extends it by a *)
(* whole window, and no request is early for a window to come.             *)
(***************************************************************************)
EXTENDS GeminiAdmission, TLAPS

(* The counter is the sum of what each priority was given. *)
Counted == used[window] = AllTaken

(* A counter that is needed outlives its window. *)
Kept == used[window] > 0 => ttl[window] >= Window - age

(* Windows to come are untouched: requests are for the present or the past. *)
Ahead ==
    /\ \A v \in Windows : v > window => used[v] = 0
    /\ \A c \in Callers : gwin[c] <= window

GateInv == GateTypeOK /\ Counted /\ Kept /\ Ahead /\ BudgetIsKept

(* The gate starts with nothing counted. *)
LEMMA GateInitInv == GateInit => GateInv
<1> SUFFICES ASSUME GateInit PROVE GateInv
  OBVIOUS
<1>1. GateTypeOK
  BY PolicyAssumption DEF GateInit, GateTypeOK, Priorities, Reasons, NoCalls
<1>2. /\ taken["CRITICAL"] = 0 /\ taken["HIGH"] = 0 /\ taken["MEDIUM"] = 0
      /\ taken["LOW"] = 0 /\ taken["AVOID"] = 0
  BY DEF GateInit, NoCalls, Priorities
<1>3. Counted /\ Kept /\ Ahead
  BY <1>2, PolicyAssumption DEF GateInit, Counted, Kept, Ahead, AllTaken, BelowCritical, BelowHigh
<1>4. BudgetIsKept
  BY <1>2, PolicyAssumption DEF BudgetIsKept, AllTaken, BelowCritical, BelowHigh
<1> QED
  BY <1>1, <1>3, <1>4 DEF GateInv

(* Time: within a window the counter stays, at its end a fresh one begins. *)
LEMMA TickInv == GateInv /\ Tick => GateInv'
<1> SUFFICES ASSUME GateInv, Tick PROVE GateInv'
  OBVIOUS
<1> USE PolicyAssumption
<1>1. GateTypeOK'
  <2>1. used' \in [Windows -> Nat] /\ ttl' \in [Windows -> Nat] /\ cool' \in Nat
    BY DEF GateInv, GateTypeOK, Tick
  <2>2. window' \in Windows /\ age' \in 0..(Window - 1) /\ taken' \in [Priorities -> Nat]
    BY DEF GateInv, GateTypeOK, Tick, NoCalls
  <2> QED
    BY <2>1, <2>2 DEF GateInv, GateTypeOK, Tick, callerVars
<1>2. CASE age + 1 < Window
  <2>1. window' = window /\ age' = age + 1 /\ taken' = taken
    BY <1>2 DEF Tick
  <2>2. used'[window] = used[window] /\ (used[window] > 0 => ttl'[window] >= Window - age')
    BY <1>2, <2>1 DEF GateInv, GateTypeOK, Kept, Tick
  <2>3. Counted' /\ Kept'
    BY <2>1, <2>2 DEF GateInv, Counted, Kept, AllTaken, BelowCritical, BelowHigh
  <2>4. Ahead'
    BY <2>1 DEF GateInv, GateTypeOK, Ahead, Tick, callerVars
  <2>5. BudgetIsKept'
    BY <2>1 DEF GateInv, BudgetIsKept, AllTaken, BelowCritical, BelowHigh
  <2> QED
    BY <1>1, <2>3, <2>4, <2>5 DEF GateInv
<1>3. CASE ~(age + 1 < Window)
  <2>1. window' = window + 1 /\ window' \in Windows /\ age' = 0 /\ taken' = NoCalls
    BY <1>3 DEF Tick
  <2>2. /\ taken'["CRITICAL"] = 0 /\ taken'["HIGH"] = 0 /\ taken'["MEDIUM"] = 0
        /\ taken'["LOW"] = 0 /\ taken'["AVOID"] = 0
    BY <2>1 DEF NoCalls, Priorities
  <2>3. Ahead' /\ used'[window'] = 0
    <3>1. window \in Nat /\ Windows \subseteq Nat
      BY DEF GateInv, GateTypeOK
    <3>2. \A v \in Windows : v > window => used'[v] = 0
      BY DEF GateInv, Ahead, Tick
    <3>3. \A c \in Callers : gwin'[c] \in Nat /\ gwin'[c] <= window
      BY <3>1 DEF GateInv, GateTypeOK, Ahead, Tick, callerVars
    <3> QED
      BY <2>1, <3>1, <3>2, <3>3 DEF Ahead
  <2>4. Counted' /\ Kept'
    BY <2>2, <2>3 DEF Counted, Kept, AllTaken, BelowCritical, BelowHigh
  <2>5. BudgetIsKept'
    BY <2>2 DEF BudgetIsKept, AllTaken, BelowCritical, BelowHigh
  <2> QED
    BY <1>1, <2>3, <2>4, <2>5 DEF GateInv
<1> QED
  BY <1>2, <1>3

(* An admission: a late one touches only a window that is over. *)
LEMMA AdmitInv == ASSUME NEW c \in Callers, GateInv, Admit(c) PROVE GateInv'
<1> USE PolicyAssumption
<1> DEFINE p == gprio[c]
<1>0. p \in Priorities /\ gwin[c] \in Windows /\ gwin[c] <= window /\ window \in Windows
  BY DEF GateInv, GateTypeOK, Ahead
<1>1. GateTypeOK'
  <2>1. used' \in [Windows -> Nat] /\ ttl' \in [Windows -> Nat]
    <3>1. /\ used \in [Windows -> Nat] /\ used' = [used EXCEPT ![gwin[c]] = @ + 1]
          /\ ttl \in [Windows -> Nat] /\ ttl' = [ttl EXCEPT ![gwin[c]] = Window]
      BY DEF GateInv, GateTypeOK, Admit
    <3>2. used[gwin[c]] \in Nat
      BY <1>0 DEF GateInv, GateTypeOK
    <3> DEFINE n == used[gwin[c]] + 1
    <3>3. n \in Nat /\ Window \in Nat
      BY <3>2
    <3> HIDE DEF n
    <3>4. used' = [used EXCEPT ![gwin[c]] = n]
      BY <3>1 DEF n
    <3> QED
      BY <3>1, <3>3, <3>4
  <2>2. taken' \in [Priorities -> Nat]
    BY <1>0 DEF GateInv, GateTypeOK, Admit
  <2>3. gpc' \in [Callers -> {"idle", "asked", "limited"} \union Reasons]
    BY SMT DEF GateInv, GateTypeOK, Admit, Decide, Reasons
  <2> QED
    BY <2>1, <2>2, <2>3 DEF GateInv, GateTypeOK, Admit, Decide, clockVars
<1>2. window' = window /\ age' = age /\ gwin' = gwin
  BY DEF Admit, Decide, clockVars
<1>3. CASE gwin[c] # window
  <2>1. used'[window] = used[window] /\ ttl'[window] = ttl[window] /\ taken' = taken
    BY <1>0, <1>3 DEF GateInv, GateTypeOK, Admit
  <2>2. Counted' /\ Kept' /\ BudgetIsKept'
    BY <1>2, <2>1 DEF GateInv, Counted, Kept, BudgetIsKept, AllTaken, BelowCritical, BelowHigh
  <2>3. Ahead'
    BY <1>0, <1>2 DEF GateInv, GateTypeOK, Ahead, Admit
  <2> QED
    BY <1>1, <2>2, <2>3 DEF GateInv
<1>4. CASE gwin[c] = window
  <2>1. /\ used[window] < Ceiling(p) /\ used'[window] = used[window] + 1
        /\ ttl'[window] = Window /\ taken' = [taken EXCEPT ![p] = @ + 1]
    BY <1>0, <1>4 DEF GateInv, GateTypeOK, Admit
  <2>2. Kept'
    BY <1>2, <2>1 DEF GateInv, GateTypeOK, Kept
  <2>3. Ahead'
    BY <1>0, <1>2, <1>4 DEF GateInv, GateTypeOK, Ahead, Admit
  <2>4. /\ taken["CRITICAL"] \in Nat /\ taken["HIGH"] \in Nat /\ taken["MEDIUM"] \in Nat
        /\ taken["LOW"] \in Nat /\ used[window] \in Nat
    BY <1>0 DEF GateInv, GateTypeOK, Priorities
  <2>5. Counted' /\ BudgetIsKept'
    <3>1. CASE p = "CRITICAL"
      <4>1. /\ taken'["CRITICAL"] = taken["CRITICAL"] + 1 /\ taken'["HIGH"] = taken["HIGH"]
            /\ taken'["MEDIUM"] = taken["MEDIUM"] /\ taken'["LOW"] = taken["LOW"]
            /\ taken'["AVOID"] = taken["AVOID"] /\ used[window] < TotalCalls
        BY <2>1, <3>1 DEF GateInv, GateTypeOK, Ceiling, Barred, Priorities
      <4> QED
        BY <1>2, <2>1, <2>4, <4>1 DEF GateInv, Counted, BudgetIsKept, AllTaken, BelowCritical, BelowHigh
    <3>2. CASE p = "HIGH"
      <4>1. /\ taken'["HIGH"] = taken["HIGH"] + 1 /\ taken'["CRITICAL"] = taken["CRITICAL"]
            /\ taken'["MEDIUM"] = taken["MEDIUM"] /\ taken'["LOW"] = taken["LOW"]
            /\ taken'["AVOID"] = taken["AVOID"] /\ used[window] < TotalCalls - CriticalReserve
        BY <2>1, <3>2 DEF GateInv, GateTypeOK, Ceiling, Barred, Priorities
      <4> QED
        BY <1>2, <2>1, <2>4, <4>1 DEF GateInv, Counted, BudgetIsKept, AllTaken, BelowCritical, BelowHigh
    <3>3. CASE p = "MEDIUM"
      <4>1. /\ taken'["MEDIUM"] = taken["MEDIUM"] + 1 /\ taken'["CRITICAL"] = taken["CRITICAL"]
            /\ taken'["HIGH"] = taken["HIGH"] /\ taken'["LOW"] = taken["LOW"]
            /\ taken'["AVOID"] = taken["AVOID"]
            /\ used[window] < TotalCalls - CriticalReserve - HighReserve
        BY <2>1, <3>3 DEF GateInv, GateTypeOK, Ceiling, Barred, Priorities
      <4> QED
        BY <1>2, <2>1, <2>4, <4>1 DEF GateInv, Counted, BudgetIsKept, AllTaken, BelowCritical, BelowHigh
    <3>4. CASE p = "LOW" /\ LowEnabled
      <4>1. /\ taken'["LOW"] = taken["LOW"] + 1 /\ taken'["CRITICAL"] = taken["CRITICAL"]
            /\ taken'["HIGH"] = taken["HIGH"] /\ taken'["MEDIUM"] = taken["MEDIUM"]
            /\ taken'["AVOID"] = taken["AVOID"]
            /\ used[window] < TotalCalls - CriticalReserve - HighReserve
        BY <2>1, <3>4 DEF GateInv, GateTypeOK, Ceiling, Barred, Priorities
      <4> QED
        BY <1>2, <2>1, <2>4, <3>4, <4>1
           DEF GateInv, Counted, BudgetIsKept, AllTaken, BelowCritical, BelowHigh
    <3>5. CASE p = "AVOID" \/ (p = "LOW" /\ ~LowEnabled)
      <4>1. Ceiling(p) = 0
        BY <3>5 DEF Ceiling, Barred
      <4> QED
        BY <2>1, <2>4, <4>1
    <3> QED
      BY <1>0, <3>1, <3>2, <3>3, <3>4, <3>5 DEF Priorities
  <2> QED
    BY <1>1, <2>2, <2>3, <2>5 DEF GateInv
<1> QED
  BY <1>3, <1>4

(* Everything else leaves the counters alone. *)
LEMMA OtherInv ==
    ASSUME GateInv, UNCHANGED <<clockVars, used, ttl, taken>>, GateTypeOK',
           \A c \in Callers : gwin'[c] <= window
    PROVE  GateInv'
<1>1. window' = window /\ age' = age /\ used' = used /\ ttl' = ttl /\ taken' = taken
  BY DEF clockVars
<1> QED
  BY <1>1 DEF GateInv, Counted, Kept, Ahead, BudgetIsKept, AllTaken, BelowCritical, BelowHigh

(* Every step keeps the invariant. *)
LEMMA GateNextInv == GateInv /\ [GateNext]_gateVars => GateInv'
<1> SUFFICES ASSUME GateInv, [GateNext]_gateVars PROVE GateInv'
  OBVIOUS
<1> USE PolicyAssumption
<1>1. CASE Tick
  BY <1>1, TickInv
<1>2. ASSUME NEW c \in Callers, GateTurn(c) \/ Vanish(c) \/ \E p \in Priorities : Ask(c, p)
      PROVE  GateInv'
  <2>0. window \in Windows /\ window \in Nat /\ \A d \in Callers : gwin[d] <= window
    BY DEF GateInv, GateTypeOK, Ahead
  <2>1. CASE Admit(c)
    BY <2>1, AdmitInv
  <2>2. CASE Refuse(c) \/ Unavailable(c) \/ RateLimited(c)
    <3>1. UNCHANGED <<clockVars, used, ttl, cool, taken, gprio, gwin>>
      BY <2>2 DEF Refuse, Unavailable, RateLimited, Decide, clockVars, redisVars
    <3>2. GateTypeOK'
      BY <2>2, <3>1 DEF GateInv, GateTypeOK, Refuse, Unavailable, RateLimited, Decide, Reasons, clockVars
    <3> QED
      BY <2>0, <3>1, <3>2, OtherInv
  <2>3. CASE Done(c) \/ RecordRateLimit(c) \/ Vanish(c)
    <3>1. UNCHANGED <<clockVars, used, ttl, taken>> /\ cool' \in {cool, Cooldown} /\ Forget(c)
      BY <2>3 DEF Done, RecordRateLimit, Vanish, clockVars, redisVars
    <3>2. GateTypeOK'
      BY <3>1 DEF GateInv, GateTypeOK, Forget, Priorities, clockVars
    <3>3. \A d \in Callers : gwin'[d] <= window
      BY <2>0, <3>1 DEF GateInv, GateTypeOK, Forget
    <3> QED
      BY <3>1, <3>2, <3>3, OtherInv
  <2>4. ASSUME NEW p \in Priorities, Ask(c, p) PROVE GateInv'
    <3>1. UNCHANGED <<clockVars, used, ttl, taken, cool>>
      BY <2>4 DEF Ask, redisVars, clockVars
    <3>2. GateTypeOK'
      BY <2>0, <2>4, <3>1 DEF GateInv, GateTypeOK, Ask, clockVars
    <3>3. \A d \in Callers : gwin'[d] <= window
      BY <2>0, <2>4 DEF GateInv, GateTypeOK, Ask
    <3> QED
      BY <3>1, <3>2, <3>3, OtherInv
  <2> QED
    BY <1>2, <2>1, <2>2, <2>3, <2>4 DEF GateTurn
<1>3. CASE UNCHANGED gateVars
  <2>1. UNCHANGED <<clockVars, used, ttl, taken, cool, gpc, gprio, gwin>>
    BY <1>3 DEF gateVars, redisVars, callerVars
  <2>2. GateTypeOK'
    BY <2>1 DEF GateInv, GateTypeOK, clockVars
  <2>3. \A d \in Callers : gwin'[d] <= window
    BY <2>1 DEF GateInv, Ahead
  <2> QED
    BY <2>1, <2>2, <2>3, OtherInv
<1> QED
  BY <1>1, <1>2, <1>3 DEF GateNext

(* The counter of the present window is right in every reachable state. *)
THEOREM GateCounts == GateSpec => []GateInv
<1>1. GateInit => GateInv
  BY GateInitInv
<1>2. GateInv /\ [GateNext]_gateVars => GateInv'
  BY GateNextInv
<1> QED
  BY <1>1, <1>2, PTL DEF GateSpec

(* Every variable keeps its type. *)
THEOREM GateTypeCorrect == GateSpec => []GateTypeOK
<1>1. GateInv => GateTypeOK
  BY DEF GateInv
<1> QED
  BY <1>1, GateCounts, PTL

(* However requests interleave with one another and with the clock, neither the
   calls of a window nor those of its lower priorities exceed their ceilings
   (the script of refinement/admission.py). *)
THEOREM BudgetKept == GateSpec => []BudgetIsKept
<1>1. GateInv => BudgetIsKept
  BY DEF GateInv
<1> QED
  BY <1>1, GateCounts, PTL

(* A refusal in the present window is for what the caller's own priority, or one
   above it, has used. *)
THEOREM ReservesHonoured == GateSpec => ReservesAreHonoured
<1> DEFINE Fair == \A c \in Callers :
        gpc[c] = "asked" /\ gpc'[c] = "PRIORITY" /\ gwin[c] = window =>
          /\ gprio[c] = "CRITICAL" => taken["CRITICAL"] >= CriticalReserve
          /\ gprio[c] = "HIGH" => taken["CRITICAL"] + taken["HIGH"] >= HighReserve
<1>1. GateInv /\ [GateNext]_gateVars => [Fair]_gateVars
  <2> SUFFICES ASSUME GateInv, GateNext, NEW c \in Callers,
                      gpc[c] = "asked", gpc'[c] = "PRIORITY", gwin[c] = window
               PROVE  /\ gprio[c] = "CRITICAL" => taken["CRITICAL"] >= CriticalReserve
                      /\ gprio[c] = "HIGH" => taken["CRITICAL"] + taken["HIGH"] >= HighReserve
    OBVIOUS
  <2>1. used[window] >= Ceiling(gprio[c])
    <3>1. gpc \in [Callers -> {"idle", "asked", "limited"} \union Reasons]
      BY DEF GateInv, GateTypeOK
    <3>2. ~Tick
      BY DEF Tick, callerVars
    <3>3. PICK d \in Callers : GateTurn(d) \/ Vanish(d) \/ \E p \in Priorities : Ask(d, p)
      BY <3>2 DEF GateNext
    <3>4. d = c
      BY <3>1, <3>3 DEF GateTurn, Admit, Refuse, Unavailable, Done, RateLimited,
                        RecordRateLimit, Vanish, Ask, Decide, Forget
    <3>5. Refuse(c)
      BY <3>1, <3>3, <3>4 DEF GateTurn, Admit, Unavailable, Done, RateLimited,
                              RecordRateLimit, Vanish, Ask, Decide, Forget
    <3> QED
      BY <3>1, <3>5 DEF Refuse, Decide
  <2>2. /\ taken["CRITICAL"] \in Nat /\ taken["HIGH"] \in Nat /\ taken["MEDIUM"] \in Nat
        /\ taken["LOW"] \in Nat /\ used[window] = AllTaken /\ BudgetIsKept
    BY DEF GateInv, GateTypeOK, Counted, Priorities
  <2> QED
    BY <2>1, <2>2, PolicyAssumption
       DEF Ceiling, Barred, BudgetIsKept, AllTaken, BelowCritical, BelowHigh
<1> QED
  BY <1>1, GateCounts, PTL DEF GateSpec, ReservesAreHonoured
=============================================================================
