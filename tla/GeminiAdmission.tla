--------------------------- MODULE GeminiAdmission ---------------------------
(***************************************************************************)
(* The shared admission gate of all hosted Gemini work                     *)
(* (refinement/admission.py): a counter per fixed window, kept in Redis    *)
(* under a key that expires, reserves for the two upper priorities, and a  *)
(* cooldown key that a rate-limited caller sets.  A caller computes its    *)
(* window from its clock, then runs one Lua script: the window may end in  *)
(* between.                                                                *)
(*                                                                         *)
(* Time is counted in ticks, Window of them to a window; callers and Redis *)
(* share one clock.  A key with a time to live is a counter down to 0.     *)
(***************************************************************************)
EXTENDS Naturals

CONSTANTS
    Callers,            \* processes that ask the gate
    Windows,            \* window indexes (bound: time stops at the last one)
    Window,             \* policy.window_seconds, in ticks
    TotalCalls,         \* policy.total_calls
    CriticalReserve,    \* policy.critical_reserve
    HighReserve,        \* policy.high_reserve
    LowEnabled,         \* policy.low_enabled
    Cooldown            \* min(provider_cooldown_seconds, max_retry_after_seconds), in ticks

ASSUME PolicyAssumption ==
    /\ Windows \subseteq Nat /\ 0 \in Windows
    /\ Window \in Nat \ {0}
    /\ TotalCalls \in Nat \ {0}
    /\ CriticalReserve \in Nat /\ HighReserve \in Nat
    /\ CriticalReserve + HighReserve <= TotalCalls
    /\ LowEnabled \in BOOLEAN
    /\ Cooldown \in Nat

VARIABLES
    window,     \* the present window
    age,        \* ticks since it began
    used,       \* [Windows -> Nat], the counter of each window's key, 0 without key
    ttl,        \* [Windows -> Nat], ticks until that key expires
    cool,       \* ticks until the cooldown key expires
    gpc,        \* [Callers -> ...], "asked", the decision's reason, "limited"
    gprio,      \* [Callers -> Priorities], the priority of the last request
    gwin,       \* [Callers -> Windows], the window it was computed for
    taken       \* [Priorities -> Nat], calls admitted in the present window for it

clockVars == <<window, age>>
redisVars == <<used, ttl, cool>>
callerVars == <<gpc, gprio, gwin>>
gateVars == <<clockVars, redisVars, callerVars, taken>>

Priorities == {"CRITICAL", "HIGH", "MEDIUM", "LOW", "AVOID"}
Reasons == {"ADMITTED", "PRIORITY", "COOLDOWN", "POLICY", "UNAVAILABLE"}

(* Every variable holds what the code can put there. *)
GateTypeOK ==
    /\ window \in Windows /\ age \in 0..(Window - 1)
    /\ used \in [Windows -> Nat] /\ ttl \in [Windows -> Nat]
    /\ cool \in Nat
    /\ gpc \in [Callers -> {"idle", "asked", "limited"} \union Reasons]
    /\ gprio \in [Callers -> Priorities]
    /\ gwin \in [Callers -> Windows]
    /\ taken \in [Priorities -> Nat]

NoCalls == [p \in Priorities |-> 0]

GateInit ==
    /\ window = 0 /\ age = 0
    /\ used = [v \in Windows |-> 0] /\ ttl = [v \in Windows |-> 0]
    /\ cool = 0
    /\ gpc = [c \in Callers |-> "idle"]
    /\ gprio = [c \in Callers |-> "AVOID"]
    /\ gwin = [c \in Callers |-> 0]
    /\ taken = NoCalls

(* Requests the policy answers, whatever the counter says. *)
Barred(p) == p = "AVOID" \/ (p = "LOW" /\ ~LowEnabled)

(* Mutant: HIGH may use the whole window. *)
CeilingFlat(p) ==
    IF Barred(p) THEN 0
    ELSE IF p \in {"CRITICAL", "HIGH"} THEN TotalCalls
    ELSE TotalCalls - CriticalReserve - HighReserve

(* The counter below which a priority is admitted. *)
Ceiling(p) ==
    IF Barred(p) THEN 0
    ELSE TotalCalls - (IF p = "CRITICAL" THEN 0 ELSE CriticalReserve)
                    - (IF p \in {"CRITICAL", "HIGH"} THEN 0 ELSE HighReserve)

-----------------------------------------------------------------------------
(* Time passes for the clock and for every key of Redis. *)
Tick ==
    /\ IF age + 1 < Window
         THEN age' = age + 1 /\ UNCHANGED <<window, taken>>
         ELSE window + 1 \in Windows /\ age' = 0 /\ window' = window + 1 /\ taken' = NoCalls
    /\ ttl' = [v \in Windows |-> IF ttl[v] > 0 THEN ttl[v] - 1 ELSE 0]
    /\ used' = [v \in Windows |-> IF ttl[v] > 1 THEN used[v] ELSE 0]
    /\ cool' = IF cool > 0 THEN cool - 1 ELSE 0
    /\ UNCHANGED callerVars

(* acquire: the window index of now; the script runs in a later step. *)
Ask(c, p) ==
    /\ gpc[c] = "idle"
    /\ gpc' = [gpc EXCEPT ![c] = "asked"]
    /\ gprio' = [gprio EXCEPT ![c] = p]
    /\ gwin' = [gwin EXCEPT ![c] = window]
    /\ UNCHANGED <<clockVars, redisVars, taken>>

Decide(c, reason) ==
    /\ gpc[c] = "asked"
    /\ gpc' = [gpc EXCEPT ![c] = reason]
    /\ UNCHANGED <<clockVars, cool, gprio, gwin>>

(* Mutant: the key lives as long as it did, so it may expire within its window. *)
AdmitWithoutExpiry(c) ==
    /\ cool = 0 /\ used[gwin[c]] < Ceiling(gprio[c])
    /\ Decide(c, "ADMITTED")
    /\ used' = [used EXCEPT ![gwin[c]] = @ + 1]
    /\ ttl' = [ttl EXCEPT ![gwin[c]] = IF @ = 0 THEN 1 ELSE @]
    /\ taken' = IF gwin[c] = window THEN [taken EXCEPT ![gprio[c]] = @ + 1] ELSE taken

(* The script: under the ceiling the counter is raised and its key kept alive
   for a whole window. *)
Admit(c) ==
    /\ cool = 0 /\ used[gwin[c]] < Ceiling(gprio[c])
    /\ Decide(c, "ADMITTED")
    /\ used' = [used EXCEPT ![gwin[c]] = @ + 1]
    /\ ttl' = [ttl EXCEPT ![gwin[c]] = Window]
    /\ taken' = IF gwin[c] = window THEN [taken EXCEPT ![gprio[c]] = @ + 1] ELSE taken

(* ... or refuses; a cooldown comes before the policy, and that before the counter. *)
Refuse(c) ==
    /\ \/ cool > 0 /\ Decide(c, "COOLDOWN")
       \/ cool = 0 /\ Barred(gprio[c]) /\ Decide(c, "POLICY")
       \/ /\ cool = 0 /\ ~Barred(gprio[c]) /\ used[gwin[c]] >= Ceiling(gprio[c])
          /\ Decide(c, "PRIORITY")
    /\ UNCHANGED <<used, ttl, taken>>

(* Redis does not answer: the request fails closed. *)
Unavailable(c) == Decide(c, "UNAVAILABLE") /\ UNCHANGED <<used, ttl, taken>>

Forget(c) ==
    /\ gpc' = [gpc EXCEPT ![c] = "idle"]
    /\ gprio' = [gprio EXCEPT ![c] = "AVOID"]
    /\ gwin' = [gwin EXCEPT ![c] = 0]

(* The caller goes on: with its hosted call, or without. *)
Done(c) ==
    /\ gpc[c] \in Reasons
    /\ Forget(c)
    /\ UNCHANGED <<clockVars, redisVars, taken>>

(* The provider answers an admitted call with 429. *)
RateLimited(c) ==
    /\ gpc[c] = "ADMITTED"
    /\ gpc' = [gpc EXCEPT ![c] = "limited"]
    /\ UNCHANGED <<clockVars, redisVars, gprio, gwin, taken>>

(* record_rate_limit: no caller hands a Retry-After over, so the key is set anew
   to the same length (a length of 0 deletes it); with Redis away nothing is
   recorded. *)
RecordRateLimit(c) ==
    /\ gpc[c] = "limited"
    /\ Forget(c)
    /\ cool' \in {Cooldown, cool}
    /\ UNCHANGED <<clockVars, used, ttl, taken>>

(* The caller's process dies: what the gate counted stays counted. *)
Vanish(c) ==
    /\ gpc[c] # "idle"
    /\ Forget(c)
    /\ UNCHANGED <<clockVars, redisVars, taken>>

GateTurn(c) ==
    \/ Admit(c) \/ Refuse(c) \/ Unavailable(c) \/ Done(c) \/ RateLimited(c) \/ RecordRateLimit(c)

GateNext == Tick \/ \E c \in Callers : GateTurn(c) \/ Vanish(c) \/ \E p \in Priorities : Ask(c, p)

GateSpec == GateInit /\ [][GateNext]_gateVars

-----------------------------------------------------------------------------
(* Calls admitted in the present window: of all priorities, of those below
   CRITICAL, and of those below HIGH. *)
BelowHigh == taken["MEDIUM"] + taken["LOW"]
BelowCritical == BelowHigh + taken["HIGH"]
AllTaken == BelowCritical + taken["CRITICAL"]

(* "HIGH cannot consume the CRITICAL reserve; MEDIUM cannot consume either
   reserve": however requests interleave and keys expire, what is admitted
   within a window stays under the ceiling of each group of priorities.  (A
   request that reaches Redis after its window has ended is counted apart: its
   key may have expired.) *)
BudgetIsKept ==
    /\ AllTaken <= TotalCalls
    /\ BelowCritical <= TotalCalls - CriticalReserve
    /\ BelowHigh <= TotalCalls - CriticalReserve - HighReserve
    /\ taken["AVOID"] = 0 /\ (LowEnabled \/ taken["LOW"] = 0)

(* What a reserve is worth: in its own window a CRITICAL request is refused for
   the budget only when CRITICAL calls have used up their reserve, a HIGH one
   only when the two upper priorities have used up the HIGH reserve. *)
ReservesAreHonoured ==
    [][\A c \in Callers :
         gpc[c] = "asked" /\ gpc'[c] = "PRIORITY" /\ gwin[c] = window =>
           /\ gprio[c] = "CRITICAL" => taken["CRITICAL"] >= CriticalReserve
           /\ gprio[c] = "HIGH"
                => taken["CRITICAL"] + taken["HIGH"] >= HighReserve]_gateVars
=============================================================================
