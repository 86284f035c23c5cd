----------------------------- MODULE LlmGateway -----------------------------
(***************************************************************************)
(* LLMGateway.invoke (llm_gateway/__init__.py): admission control, one     *)
(* circuit breaker per provider, the daily budget, and the fallback chain  *)
(* over the 9router client.                                                *)
(*                                                                         *)
(* Calls run on one event loop: a step is the code from one answer of the  *)
(* client to the next request, or to the return.  The client reports every *)
(* failure as a text, which invoke searches for "Timeout", "5" and "429",  *)
(* then for "401" and "403": a text may hold both, or neither.             *)
(***************************************************************************)
EXTENDS Naturals, Sequences, FiniteSets

CONSTANTS
  Calls,
  Models, Providers,
  Provider,        \* the provider of a model
  Alternates,      \* per model: its fallback_order
  Degraded,        \* per model: the models of the next tier down, the default first
  Production,      \* the models in production
  MaxConcurrent, RateLimit, Threshold, MaxHops,
  DailyBudget, Cost,
  MaxMinutes       \* bound on the environment's clock ticks

VARIABLES
  pc,          \* per call: "idle", "posted" or "returned"
  original,    \* per call: the model it asked for
  model,       \* per call: the model it is trying
  hops,        \* per call: fallbacks so far
  current,     \* AdmissionControl.current_concurrent
  recent,      \* the requests admitted in the last minute
  circuit,     \* per provider: its breaker
  spent,       \* BudgetTracker.daily_spent of today
  usage,       \* usage rows: the model charged and the model that answered
  minutes

vars == <<pc, original, model, hops, current, recent, circuit, spent, usage, minutes>>

BoundsOK ==
  /\ Provider \in [Models -> Providers] /\ Production \subseteq Models
  /\ Alternates \in [Models -> Seq(Models)] /\ Degraded \in [Models -> Seq(Models)]
  /\ {MaxConcurrent, RateLimit, Threshold, MaxHops, DailyBudget, Cost, MaxMinutes} \subseteq Nat

Absent == "absent"

(* A breaker is created on the first failure; "ripe" is an open one whose  *)
(* recovery timeout has passed, half-open once a call has seen that.       *)
States   == {"closed", "open", "ripe", "half-open"}
Breakers == [state: States, failures: Nat]

Init ==
  /\ pc = [c \in Calls |-> "idle"]
  /\ original \in [Calls -> Models \union {Absent}]
  /\ model = original
  /\ hops = [c \in Calls |-> 0]
  /\ current = 0 /\ recent = 0
  /\ circuit = [p \in Providers |-> [state |-> "closed", failures |-> 0]]
  /\ spent = 0
  /\ usage = {}
  /\ minutes = MaxMinutes

Lower(n) == IF n = 0 THEN 0 ELSE n - 1

InFlight == {c \in Calls : pc[c] = "posted"}

-----------------------------------------------------------------------------
(* Entering                                                                *)

(* As if the limit were reached one call later.                            *)
AdmitsOneMore == recent < RateLimit /\ current <= MaxConcurrent

Admits == recent < RateLimit /\ current < MaxConcurrent

(* A call that is not admitted gives back a permit it never took.          *)
Rejected(c) ==
  /\ pc[c] = "idle" /\ ~Admits
  /\ current' = Lower(current)
  /\ pc' = [pc EXCEPT ![c] = "returned"]
  /\ UNCHANGED <<original, model, hops, recent, circuit, spent, usage, minutes>>

Known(c) == original[c] # Absent

CircuitOpen(c) == Known(c) /\ circuit[Provider[original[c]]].state = "open"

OverBudget == spent >= DailyBudget

(* An admitted call that is turned away releases its permit twice: where   *)
(* it returns, and in the finally clause.                                  *)
TurnedAway(c) ==
  /\ pc[c] = "idle" /\ Admits
  /\ ~Known(c) \/ CircuitOpen(c) \/ OverBudget
  /\ current' = Lower(Lower(current + 1))
  /\ recent' = recent + 1
  /\ circuit' = IF Known(c) /\ circuit[Provider[original[c]]].state = "ripe"
                  THEN [circuit EXCEPT ![Provider[original[c]]].state = "half-open"]
                  ELSE circuit
  /\ pc' = [pc EXCEPT ![c] = "returned"]
  /\ UNCHANGED <<original, model, hops, spent, usage, minutes>>

Posts(c) ==
  /\ pc[c] = "idle" /\ Admits
  /\ Known(c) /\ ~CircuitOpen(c) /\ ~OverBudget
  /\ current' = current + 1
  /\ recent' = recent + 1
  /\ circuit' = IF circuit[Provider[original[c]]].state = "ripe"
                  THEN [circuit EXCEPT ![Provider[original[c]]].state = "half-open"]
                  ELSE circuit
  /\ pc' = [pc EXCEPT ![c] = "posted"]
  /\ UNCHANGED <<original, model, hops, spent, usage, minutes>>

-----------------------------------------------------------------------------
(* Answers                                                                 *)

(* resolve_fallback: the first alternate in production, then the next      *)
(* tier's model; the set is empty when there is none.                      *)
Fallback(m) ==
  LET chain == Alternates[m] \o Degraded[m]
      taken == {i \in DOMAIN chain : /\ chain[i] \in Production
                                     /\ \A j \in 1 .. i - 1 : chain[j] \notin Production}
  IN  {chain[i] : i \in taken}

(* As if only the early returns released.                                  *)
ReturnsOnly(c) ==
  /\ pc' = [pc EXCEPT ![c] = "returned"]
  /\ UNCHANGED current

(* The finally clause.                                                     *)
Returns(c) ==
  /\ pc' = [pc EXCEPT ![c] = "returned"]
  /\ current' = Lower(current)

(* Spending and the usage row go to the model that was asked for, whatever *)
(* model answered.                                                         *)
Succeeds(c) ==
  /\ pc[c] = "posted"
  /\ spent' = spent + Cost
  /\ usage' = usage \union {[call |-> c, charged |-> original[c], answered |-> model[c]]}
  /\ Returns(c)
  /\ UNCHANGED <<original, model, hops, recent, circuit, minutes>>

(* A text that looks transient moves the call to the next model, however   *)
(* many hops the chain has, up to MaxHops; no breaker is asked on the way. *)
FallsBack(c) ==
  /\ pc[c] = "posted"
  /\ hops[c] < MaxHops
  /\ \E m \in Fallback(model[c]) : model' = [model EXCEPT ![c] = m]
  /\ hops' = [hops EXCEPT ![c] = @ + 1]
  /\ UNCHANGED <<pc, original, current, recent, circuit, spent, usage, minutes>>

Opened(b) == [state |-> "open", failures |-> b.failures + 1]

(* _track_failure, for the provider the call began with.                   *)
Tracked(b) ==
  IF b.failures + 1 >= Threshold THEN Opened([b EXCEPT !.failures = @ + 1])
                                 ELSE [b EXCEPT !.failures = @ + 1]

(* A call fails for good: its text is not transient, or no model is left,  *)
(* or its hops are used up, in which case a refused key goes unnoticed.    *)
Fails(c, transient, auth) ==
  LET opens == auth /\ (~transient \/ (hops[c] < MaxHops /\ Fallback(model[c]) = {}))
      refused == [p \in Providers |->
                    IF opens /\ p = Provider[model[c]] THEN Opened(circuit[p]) ELSE circuit[p]]
  IN
  /\ pc[c] = "posted"
  /\ transient => hops[c] >= MaxHops \/ Fallback(model[c]) = {}
  /\ circuit' = [refused EXCEPT ![Provider[original[c]]] = Tracked(@)]
  /\ Returns(c)
  /\ UNCHANGED <<original, model, hops, recent, spent, usage, minutes>>

(* An answer that is not JSON raises through invoke: only finally runs.    *)
Breaks(c) ==
  /\ pc[c] = "posted"
  /\ Returns(c)
  /\ UNCHANGED <<original, model, hops, recent, circuit, spent, usage, minutes>>

-----------------------------------------------------------------------------
(* Time: the minute of the rate limit, and the recovery of a breaker.      *)

MinutePasses(rest, ripe) ==
  /\ minutes > 0 /\ minutes' = minutes - 1
  /\ recent' = rest
  /\ circuit' = [p \in Providers |->
       [circuit[p] EXCEPT !.state = IF @ = "open" /\ p \in ripe THEN "ripe" ELSE @]]
  /\ UNCHANGED <<pc, original, model, hops, current, spent, usage>>

Next ==
  \/ \E c \in Calls :
       \/ Rejected(c) \/ TurnedAway(c) \/ Posts(c) \/ Succeeds(c) \/ FallsBack(c)
       \/ Breaks(c)
       \/ \E transient, auth \in BOOLEAN : Fails(c, transient, auth)
  \/ \E rest \in 0 .. recent, ripe \in SUBSET Providers : MinutePasses(rest, ripe)

Spec == Init /\ [][Next]_vars

-----------------------------------------------------------------------------

TypeOK ==
  /\ pc \in [Calls -> {"idle", "posted", "returned"}]
  /\ original \in [Calls -> Models \union {Absent}]
  /\ model \in [Calls -> Models \union {Absent}]
  /\ \A c \in Calls : pc[c] = "posted" => model[c] \in Models
  /\ hops \in [Calls -> 0 .. MaxHops]
  /\ current \in 0 .. MaxConcurrent /\ recent \in 0 .. RateLimit
  /\ circuit \in [Providers -> Breakers]
  /\ spent \in Nat
  /\ \A u \in usage : u.charged \in Models /\ u.answered \in Models
  /\ minutes \in 0 .. MaxMinutes

(* No permit outlives its call: the permits held never outnumber the calls *)
(* in flight, so an idle gateway has all of them free again.  A leak would *)
(* close the gateway for good, after MaxConcurrent failures spread over    *)
(* days.  (The refused call releases what it never took, and three early   *)
(* returns release twice, so the count may well fall below those calls.)   *)
PermitsAreReturned == current <= Cardinality(InFlight)

=============================================================================
