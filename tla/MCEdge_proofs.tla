--------------------------- MODULE MCEdge_proofs ---------------------------
(***************************************************************************)
(* Safety of the servers at the edge, stated of the instances the run of   *)
(* MCEdge checks and proved for every value of their constants.            *)
(*                                                                         *)
(* Agent runs: the counters count the reservations and the turns a handler *)
(* waits for, and a request holds its reservation until its task begins.   *)
(*                                                                         *)
(* Stored responses: the ranks of the rows have no gap, so what is evicted *)
(* is what exceeds the capacity and takes its conversations along; until   *)
(* the sentinel is taken the deltas lie, in order, in what is written, in  *)
(* the batch and in the queue.                                             *)
(*                                                                         *)
(* Sessions: a living row holds the newest lock of its life, a request     *)
(* that looked it up has seen that lock or a younger one, and a fork       *)
(* looked its target up before the session under that id came to be.       *)
(*                                                                         *)
(* Processes: the newest turn keeps the entry of the conversation until it *)
(* prunes it, so no other reaper with an epoch is current while it runs.   *)
(*                                                                         *)
(* Idempotency: as long as no two answers were captured at once, the list  *)
(* that captures belongs to one request, so what is stored is one answer.  *)
(*                                                                         *)
(* Shared results: a turn that runs is registered, and a result that was   *)
(* not marked lost is in the store, so a request finds either.             *)
(*                                                                         *)
(* Streams: a buffer holds the newest ids of its channel without a gap,    *)
(* and a replay that nobody disturbs has sent all that lies behind it; the *)
(* events a stream is owed are those it relayed and those in its queue.    *)
(***************************************************************************)
EXTENDS MCEdge, TLAPS, FiniteSets, FiniteSetTheorems, SequenceTheorems

(* The components take Cardinality from FiniteSets, as this module does.   *)
LEMMA SameSizes ==
  ASSUME NEW S
  PROVE  /\ Sse!Cardinality(S) = Cardinality(S) /\ Shared!Cardinality(S) = Cardinality(S)
         /\ Agents!Cardinality(S) = Cardinality(S)
         /\ Sse!IsFiniteSet(S) <=> IsFiniteSet(S)
         /\ Agents!IsFiniteSet(S) <=> IsFiniteSet(S)
BY Zenon DEF Cardinality, Sse!Cardinality, Shared!Cardinality, Agents!Cardinality, IsFiniteSet,
   Sse!IsFiniteSet, Shared!IsFiniteSet, Agents!IsFiniteSet

-----------------------------------------------------------------------------
(* Agent runs                                                              *)

(* Turns of completions that a handler waits for.                          *)
LiveChats == {r \in Agents!Requests : r \in Chats /\ task[r] = "awaiting"}

(* A request holds its reservation from its admission to the beginning of  *)
(* its task.                                                               *)
PhaseOK(r) ==
  CASE handler[r] = "idle"   -> task[r] = "none" /\ r \notin reserved
    [] handler[r] = "body"   -> task[r] = "none" /\ r \in reserved
    [] handler[r] = "stream" -> r \in Chats /\ (r \in reserved <=> task[r] = "queued")
    [] handler[r] = "closed" -> r \notin reserved /\ (r \in Chats => task[r] \notin Agents!Live)

(* The counts count, and together they stay within the cap.                *)
CapInv ==
  /\ pending = Cardinality(reserved) /\ inflight = Cardinality(LiveChats)
  /\ \A r \in Agents!Requests : PhaseOK(r)
  /\ Agents!ActiveWork <= limit

AgentInv == Agents!TypeOK /\ CapInv /\ Agents!GrantsAreAnswered

LEMMA FiniteRequests ==
  ASSUME Agents!BoundsOK, Agents!TypeOK
  PROVE  /\ IsFiniteSet(Agents!Requests) /\ IsFiniteSet(reserved) /\ IsFiniteSet(LiveChats)
         /\ IsFiniteSet(Agents!LiveRuns)
<1>1. IsFiniteSet(Agents!Requests)
  BY FS_Union, SameSizes DEF Agents!BoundsOK, Agents!Requests
<1>2. reserved \subseteq Agents!Requests /\ LiveChats \subseteq Agents!Requests
        /\ Agents!LiveRuns \subseteq Agents!Requests
  BY DEF Agents!TypeOK, LiveChats, Agents!LiveRuns
<1> QED
  BY <1>1, <1>2, FS_Subset

(* Counting with and without one element.                                  *)
LEMMA OneMore ==
  ASSUME NEW S, NEW x, IsFiniteSet(S)
  PROVE  /\ x \notin S => Cardinality(S \cup {x}) = Cardinality(S) + 1
         /\ x \in S => Cardinality(S \ {x}) = Cardinality(S) - 1 /\ Cardinality(S) > 0
         /\ x \notin S => S \ {x} = S
         /\ Cardinality(S) \in Nat
<1>1. Cardinality(S) \in Nat
  BY FS_CardinalityType
<1>2. x \in S => Cardinality(S) > 0
  BY <1>1, FS_EmptySet
<1>3. /\ x \notin S => Cardinality(S \cup {x}) = Cardinality(S) + 1
      /\ x \in S => Cardinality(S \ {x}) = Cardinality(S) - 1
  BY FS_AddElement, FS_RemoveElement
<1> QED
  BY <1>1, <1>2, <1>3

(* Request r moves and no other.                                           *)
Alone(r) ==
  /\ limit' = limit
  /\ \A q \in Agents!Requests \ {r} :
       /\ handler'[q] = handler[q] /\ task'[q] = task[q]
       /\ q \in reserved' <=> q \in reserved

(* The counts after a step of one request.                                 *)
LEMMA Recount ==
  ASSUME Agents!BoundsOK, AgentInv, Agents!TypeOK', NEW r \in Agents!Requests,
         Alone(r)
  PROVE  /\ reserved' \in {reserved, reserved \cup {r}, reserved \ {r}}
         /\ r \in reserved /\ r \notin reserved' =>
              Cardinality(reserved') = Cardinality(reserved) - 1
         /\ r \notin reserved /\ r \in reserved' =>
              Cardinality(reserved') = Cardinality(reserved) + 1
         /\ (r \in reserved <=> r \in reserved') => reserved' = reserved
         /\ r \in LiveChats /\ r \notin LiveChats' =>
              Cardinality(LiveChats') = Cardinality(LiveChats) - 1
         /\ r \notin LiveChats /\ r \in LiveChats' =>
              Cardinality(LiveChats') = Cardinality(LiveChats) + 1
         /\ (r \in LiveChats <=> r \in LiveChats') => LiveChats' = LiveChats
         /\ r \in Agents!LiveRuns /\ r \notin Agents!LiveRuns' =>
              Cardinality(Agents!LiveRuns') = Cardinality(Agents!LiveRuns) - 1
         /\ r \notin Agents!LiveRuns /\ r \in Agents!LiveRuns' =>
              Cardinality(Agents!LiveRuns') = Cardinality(Agents!LiveRuns) + 1
         /\ (r \in Agents!LiveRuns <=> r \in Agents!LiveRuns') => Agents!LiveRuns' = Agents!LiveRuns
         /\ Cardinality(reserved) \in Nat /\ Cardinality(LiveChats) \in Nat
         /\ Cardinality(Agents!LiveRuns) \in Nat
<1> DEFINE Counts(S, T) ==
      /\ r \in S /\ r \notin T => Cardinality(T) = Cardinality(S) - 1
      /\ r \notin S /\ r \in T => Cardinality(T) = Cardinality(S) + 1
      /\ (r \in S <=> r \in T) => T = S
      /\ Cardinality(S) \in Nat
<1>1. ASSUME NEW S, NEW T, IsFiniteSet(S), \A q : q # r => (q \in S <=> q \in T)
      PROVE  Counts(S, T)
  <2>1. /\ r \in S /\ r \notin T => T = S \ {r}
        /\ r \notin S /\ r \in T => T = S \cup {r}
        /\ (r \in S <=> r \in T) => T = S
    BY <1>1
  <2> QED
    BY <1>1, <2>1, OneMore
<1>2. /\ \A q : q # r => (q \in reserved <=> q \in reserved')
      /\ \A q : q # r => (q \in LiveChats <=> q \in LiveChats')
      /\ \A q : q # r => (q \in Agents!LiveRuns <=> q \in Agents!LiveRuns')
  BY DEF AgentInv, Agents!TypeOK, LiveChats, Agents!LiveRuns, Alone
<1>3. IsFiniteSet(reserved) /\ IsFiniteSet(LiveChats) /\ IsFiniteSet(Agents!LiveRuns)
  BY FiniteRequests DEF AgentInv
<1>4. Counts(reserved, reserved') /\ Counts(LiveChats, LiveChats')
        /\ Counts(Agents!LiveRuns, Agents!LiveRuns')
  BY <1>1, <1>2, <1>3
<1>5. reserved' \in {reserved, reserved \cup {r}, reserved \ {r}}
  BY <1>2
<1> QED
  BY <1>4, <1>5

(* The counts follow the request: nothing is added, it is admitted under   *)
(* the cap, it hands its reservation over or back, its turn begins or      *)
(* ends.                                                                   *)
Nothing(r) ==
  /\ pending' = pending /\ inflight' = inflight
  /\ r \in reserved' <=> r \in reserved
  /\ r \in LiveChats' <=> r \in LiveChats
  /\ r \in Agents!LiveRuns' => r \in Agents!LiveRuns

Admitted(r) ==
  /\ Agents!ActiveWork < limit /\ pending' = pending + 1 /\ inflight' = inflight
  /\ r \notin reserved /\ r \in reserved'
  /\ r \in LiveChats' <=> r \in LiveChats
  /\ r \in Agents!LiveRuns' <=> r \in Agents!LiveRuns

HandedOver(r) ==
  /\ pending' = pending - 1 /\ inflight' = inflight
  /\ r \in reserved /\ r \notin reserved'
  /\ r \in LiveChats' <=> r \in LiveChats
  /\ r \notin Agents!LiveRuns

Begun(r) ==
  /\ pending' = pending - 1 /\ inflight' = inflight + 1
  /\ r \in reserved /\ r \notin reserved'
  /\ r \notin LiveChats /\ r \in LiveChats'
  /\ r \in Agents!LiveRuns' <=> r \in Agents!LiveRuns

Done(r) ==
  /\ pending' = pending /\ inflight' = inflight - 1
  /\ r \in reserved' <=> r \in reserved
  /\ r \in LiveChats /\ r \notin LiveChats'
  /\ r \in Agents!LiveRuns' <=> r \in Agents!LiveRuns

LEMMA CapMoves ==
  ASSUME Agents!BoundsOK, AgentInv, Agents!TypeOK', NEW r \in Agents!Requests, Alone(r),
         PhaseOK(r)',
         Nothing(r) \/ Admitted(r) \/ HandedOver(r) \/ Begun(r) \/ Done(r)
  PROVE  CapInv'
<1>1. /\ pending = Cardinality(reserved) /\ inflight = Cardinality(LiveChats)
      /\ pending + inflight + Cardinality(Agents!LiveRuns) <= limit
  BY SameSizes DEF AgentInv, CapInv, Agents!ActiveWork
<1>2. \A q \in Agents!Requests : PhaseOK(q)'
  <2>1. ASSUME NEW q \in Agents!Requests, q # r
        PROVE  PhaseOK(q)'
    <3>1. /\ PhaseOK(q) /\ handler'[q] = handler[q] /\ task'[q] = task[q]
          /\ q \in reserved' <=> q \in reserved
      BY <2>1 DEF AgentInv, CapInv, Alone
    <3> QED
      BY <3>1 DEF PhaseOK
  <2> QED
    BY <2>1
<1>3. limit \in Nat /\ limit' = limit
  BY DEF AgentInv, Agents!TypeOK, Agents!BoundsOK, Alone
<1>4. /\ pending' = Cardinality(reserved') /\ inflight' = Cardinality(LiveChats')
      /\ pending' + inflight' + Cardinality(Agents!LiveRuns') <= limit'
  <2> DEFINE Change(S, T) ==
        /\ r \in S /\ r \notin T => Cardinality(T) = Cardinality(S) - 1
        /\ r \notin S /\ r \in T => Cardinality(T) = Cardinality(S) + 1
        /\ (r \in S <=> r \in T) => T = S
        /\ Cardinality(S) \in Nat
  <2>1. /\ Change(reserved, reserved') /\ Change(LiveChats, LiveChats')
        /\ Change(Agents!LiveRuns, Agents!LiveRuns')
    BY Recount
  <2>2. CASE Nothing(r)
    BY <1>1, <1>3, <2>1, <2>2 DEF Nothing
  <2>3. CASE Admitted(r)
    BY <1>1, <1>3, <2>1, <2>3, SameSizes DEF Admitted, Agents!ActiveWork
  <2>4. CASE HandedOver(r)
    BY <1>1, <1>3, <2>1, <2>4 DEF HandedOver
  <2>5. CASE Begun(r)
    BY <1>1, <1>3, <2>1, <2>5 DEF Begun
  <2>6. CASE Done(r)
    BY <1>1, <1>3, <2>1, <2>6 DEF Done
  <2> QED
    BY <2>2, <2>3, <2>4, <2>5, <2>6
<1> QED
  BY <1>2, <1>4, SameSizes DEF CapInv, Agents!ActiveWork

(* Nothing that the cap is about moves.                                    *)
LEMMA CapStays ==
  ASSUME AgentInv, UNCHANGED <<handler, reserved, pending, inflight, task, limit>>
  PROVE  CapInv'
BY DEF AgentInv, CapInv, LiveChats, Agents!LiveRuns, Agents!ActiveWork, PhaseOK

(* What the phase of a request says of its reservation and of the counts.  *)
LEMMA PhaseSays ==
  ASSUME Agents!BoundsOK, AgentInv, NEW r \in Agents!Requests
  PROVE  /\ handler \in [Agents!Requests -> {"idle", "body", "stream", "closed"}]
         /\ task \in [Agents!Requests -> {"none", "done", "cancelled"} \cup Agents!Live]
         /\ reserved \subseteq Agents!Requests /\ PhaseOK(r) /\ pending \in Nat /\ inflight \in Nat
         /\ r \in reserved => pending > 0
         /\ r \in Chats /\ task[r] = "awaiting" => inflight > 0
         /\ r \in Runs <=> r \notin Chats
         /\ "none" \notin Agents!Live /\ "done" \notin Agents!Live /\ "cancelled" \notin Agents!Live
         /\ "queued" \in Agents!Live /\ "awaiting" \in Agents!Live
<1>1. IsFiniteSet(reserved) /\ IsFiniteSet(LiveChats)
  BY FiniteRequests DEF AgentInv
<1>2. /\ r \in reserved => Cardinality(reserved) > 0
      /\ r \in LiveChats => Cardinality(LiveChats) > 0
  BY <1>1, OneMore
<1>3. r \in Runs <=> r \notin Chats
  BY DEF Agents!BoundsOK, Agents!Requests
<1> QED
  BY <1>2, <1>3 DEF AgentInv, Agents!TypeOK, CapInv, LiveChats, Agents!Live

LEMMA AdmissionsCount ==
  ASSUME Agents!BoundsOK, AgentInv, Agents!TypeOK', NEW r \in Agents!Requests,
         Agents!Admit(r) \/ Agents!BadBody(r) \/ Agents!StartRun(r) \/ Agents!StartChat(r)
  PROVE  CapInv'
<1>1. CASE Agents!Admit(r)
  <2>1. /\ handler[r] = "idle" /\ task[r] = "none" /\ r \notin reserved
        /\ task' = [task EXCEPT ![r] = "none"] /\ limit' = limit
    BY <1>1, PhaseSays DEF Agents!Admit, Agents!history, PhaseOK
  <2>2. CASE handler' = [handler EXCEPT ![r] = "closed"] /\ UNCHANGED Agents!counts
    <3>1. /\ PhaseOK(r)' /\ reserved' = reserved \ {r}
          /\ pending' = pending /\ inflight' = inflight
      BY <2>1, <2>2, PhaseSays DEF Agents!counts, PhaseOK
    <3>2. Alone(r) /\ Nothing(r)
      BY <2>1, <2>2, <3>1, PhaseSays DEF Alone, Nothing, LiveChats, Agents!LiveRuns
    <3> QED
      BY <3>1, <3>2, CapMoves
  <2>3. CASE /\ Agents!ActiveWork < limit /\ handler' = [handler EXCEPT ![r] = "body"]
             /\ reserved' = reserved \cup {r} /\ pending' = pending + 1 /\ inflight' = inflight
    <3>1. PhaseOK(r)'
      BY <2>1, <2>3, PhaseSays DEF PhaseOK
    <3>2. Alone(r) /\ Admitted(r)
      BY <2>1, <2>3, PhaseSays DEF Alone, Admitted, LiveChats, Agents!LiveRuns
    <3> QED
      BY <3>1, <3>2, CapMoves
  <2> QED
    BY <1>1, <2>2, <2>3 DEF Agents!Admit
<1>2. CASE Agents!BadBody(r)
  <2>1. /\ handler[r] = "body" /\ task[r] = "none" /\ r \in reserved
        /\ task' = [task EXCEPT ![r] = "none"] /\ limit' = limit
        /\ handler' = [handler EXCEPT ![r] = "closed"]
        /\ reserved' = reserved \ {r} /\ pending' = pending - 1 /\ inflight' = inflight
    BY <1>2, PhaseSays DEF Agents!BadBody, Agents!Released, Agents!history, PhaseOK
  <2>2. PhaseOK(r)'
    BY <2>1, PhaseSays DEF PhaseOK
  <2>3. Alone(r) /\ HandedOver(r)
    BY <2>1, PhaseSays DEF Alone, HandedOver, LiveChats, Agents!LiveRuns
  <2> QED
    BY <2>2, <2>3, CapMoves
<1>3. CASE Agents!StartRun(r)
  <2>1. /\ handler[r] = "body" /\ task[r] = "none" /\ r \in reserved /\ r \in Runs
        /\ task' = [task EXCEPT ![r] = "queued"] /\ limit' = limit
        /\ handler' = [handler EXCEPT ![r] = "closed"]
        /\ reserved' = reserved \ {r} /\ pending' = pending - 1 /\ inflight' = inflight
    BY <1>3, PhaseSays DEF Agents!StartRun, Agents!Released, Agents!history, PhaseOK
  <2>2. PhaseOK(r)'
    BY <2>1, PhaseSays DEF PhaseOK
  <2>3. Alone(r) /\ HandedOver(r)
    BY <2>1, PhaseSays DEF Alone, HandedOver, LiveChats, Agents!LiveRuns
  <2> QED
    BY <2>2, <2>3, CapMoves
<1>4. CASE Agents!StartChat(r)
  <2>1. /\ handler[r] = "body" /\ task[r] = "none" /\ r \in reserved /\ r \in Chats
        /\ task' = [task EXCEPT ![r] = "queued"] /\ limit' = limit
        /\ handler' = [handler EXCEPT ![r] = "stream"]
        /\ reserved' = reserved \cup {r} /\ pending' = pending /\ inflight' = inflight
    BY <1>4, PhaseSays DEF Agents!StartChat, Agents!counts, Agents!history, PhaseOK
  <2>2. PhaseOK(r)'
    BY <2>1, PhaseSays DEF PhaseOK
  <2>3. Alone(r) /\ Nothing(r)
    BY <2>1, PhaseSays DEF Alone, Nothing, LiveChats, Agents!LiveRuns
  <2> QED
    BY <2>2, <2>3, CapMoves
<1> QED
  BY <1>1, <1>2, <1>3, <1>4

LEMMA TasksCount ==
  ASSUME Agents!BoundsOK, AgentInv, Agents!TypeOK', NEW r \in Agents!Requests,
         Agents!TaskStarts(r) \/ Agents!RunReturns(r) \/ Agents!ChatTaskStarts(r)
           \/ Agents!ChatReturns(r)
           \/ Agents!ChatCloses(r) \/ Agents!ClientVanishes(r)
  PROVE  CapInv'
<1>1. CASE Agents!TaskStarts(r) \/ Agents!RunReturns(r)
  <2>1. /\ handler[r] = "closed" /\ task[r] \in Agents!Live /\ r \notin reserved /\ r \in Runs
        /\ handler' = [handler EXCEPT ![r] = "closed"] /\ limit' = limit
        /\ reserved' = reserved \ {r} /\ pending' = pending /\ inflight' = inflight
    <3>1. task[r] \in Agents!Live /\ r \in Runs
            /\ UNCHANGED <<handler, limit, reserved, pending, inflight>>
      BY <1>1 DEF Agents!TaskStarts, Agents!RunReturns, Agents!counts, Agents!history, Agents!Live
    <3> QED
      BY <3>1, PhaseSays DEF PhaseOK
  <2>2. PICK work \in {"done", "awaiting"} : task' = [task EXCEPT ![r] = work]
    BY <1>1 DEF Agents!TaskStarts, Agents!RunReturns, Agents!Settle
  <2>3. PhaseOK(r)'
    BY <2>1, PhaseSays DEF PhaseOK
  <2>4. Alone(r) /\ Nothing(r)
    BY <2>1, <2>2, PhaseSays DEF Alone, Nothing, LiveChats, Agents!LiveRuns
  <2> QED
    BY <2>3, <2>4, CapMoves
<1>2. CASE Agents!ChatTaskStarts(r)
  <2>1. /\ handler[r] = "stream" /\ task[r] = "queued" /\ r \in reserved /\ r \in Chats
        /\ handler' = [handler EXCEPT ![r] = "stream"] /\ limit' = limit
        /\ task' = [task EXCEPT ![r] = "awaiting"]
        /\ reserved' = reserved \ {r} /\ pending' = pending - 1 /\ inflight' = inflight + 1
    BY <1>2, PhaseSays DEF Agents!ChatTaskStarts, Agents!Released, Agents!history, PhaseOK
  <2>2. PhaseOK(r)'
    BY <2>1, PhaseSays DEF PhaseOK
  <2>3. Alone(r) /\ Begun(r)
    BY <2>1, PhaseSays DEF Alone, Begun, LiveChats, Agents!LiveRuns
  <2> QED
    BY <2>2, <2>3, CapMoves
<1>3. CASE Agents!ChatReturns(r)
  <2>1. /\ handler[r] = "stream" /\ task[r] = "awaiting" /\ r \notin reserved /\ r \in Chats
        /\ handler' = [handler EXCEPT ![r] = "stream"] /\ limit' = limit
        /\ task' = [task EXCEPT ![r] = "done"]
        /\ reserved' = reserved \ {r} /\ pending' = pending /\ inflight' = inflight - 1
    BY <1>3, PhaseSays DEF Agents!ChatReturns, Agents!history, PhaseOK
  <2>2. PhaseOK(r)'
    BY <2>1, PhaseSays DEF PhaseOK
  <2>3. Alone(r) /\ Done(r)
    BY <2>1, PhaseSays DEF Alone, Done, LiveChats, Agents!LiveRuns
  <2> QED
    BY <2>2, <2>3, CapMoves
<1>4. CASE Agents!ChatCloses(r)
  <2>1. /\ handler[r] = "stream" /\ task[r] = "done" /\ r \notin reserved
        /\ handler' = [handler EXCEPT ![r] = "closed"] /\ limit' = limit
        /\ task' = [task EXCEPT ![r] = "done"]
        /\ reserved' = reserved \ {r} /\ pending' = pending /\ inflight' = inflight
    BY <1>4, PhaseSays DEF Agents!ChatCloses, Agents!Released, Agents!history, PhaseOK
  <2>2. PhaseOK(r)'
    BY <2>1, PhaseSays DEF PhaseOK
  <2>3. Alone(r) /\ Nothing(r)
    BY <2>1, PhaseSays DEF Alone, Nothing, LiveChats, Agents!LiveRuns
  <2> QED
    BY <2>2, <2>3, CapMoves
<1>5. CASE Agents!ClientVanishes(r)
  <2>1. /\ handler[r] = "stream" /\ r \in Chats
        /\ handler' = [handler EXCEPT ![r] = "closed"] /\ limit' = limit
        /\ task' = [task EXCEPT ![r] = "cancelled"]
        /\ reserved' = reserved \ {r}
    BY <1>5, PhaseSays DEF Agents!ClientVanishes, Agents!Released, Agents!history, PhaseOK
  <2>2. PhaseOK(r)'
    BY <2>1, PhaseSays DEF PhaseOK
  <2>3. CASE task[r] = "queued"
    <3>1. r \in reserved /\ pending' = pending - 1 /\ inflight' = inflight
      BY <1>5, <2>1, <2>3, PhaseSays DEF Agents!ClientVanishes, Agents!Released, PhaseOK
    <3>2. Alone(r) /\ HandedOver(r)
      BY <2>1, <2>3, <3>1, PhaseSays DEF Alone, HandedOver, LiveChats, Agents!LiveRuns
    <3> QED
      BY <2>2, <3>2, CapMoves
  <2>4. CASE task[r] = "awaiting"
    <3>1. r \notin reserved /\ pending' = pending /\ inflight' = inflight - 1
      BY <1>5, <2>1, <2>4, PhaseSays DEF Agents!ClientVanishes, Agents!Released, PhaseOK
    <3>2. Alone(r) /\ Done(r)
      BY <2>1, <2>4, <3>1, PhaseSays DEF Alone, Done, LiveChats, Agents!LiveRuns
    <3> QED
      BY <2>2, <3>2, CapMoves
  <2> QED
    BY <1>5, <2>3, <2>4 DEF Agents!ClientVanishes, Agents!Live
<1> QED
  BY <1>1, <1>2, <1>3, <1>4, <1>5

LEMMA AgentsBegin ==
  ASSUME Agents!BoundsOK, Agents!Init
  PROVE  AgentInv
<1>1. Agents!TypeOK
  BY DEF Agents!BoundsOK, Agents!Init, Agents!TypeOK, Agents!Statuses, Agents!Live, Agents!Ended
<1>2. reserved = {} /\ LiveChats = {} /\ Agents!LiveRuns = {}
  BY DEF Agents!Init, LiveChats, Agents!LiveRuns, Agents!Live
<1>3. Cardinality({}) = 0
  BY FS_EmptySet
<1>4. limit \in Nat
  BY DEF Agents!BoundsOK, Agents!Init
<1>5. Agents!ActiveWork <= limit
  BY <1>2, <1>3, <1>4, SameSizes DEF Agents!ActiveWork, Agents!Init
<1>6. \A r \in Agents!Requests : PhaseOK(r)
  BY DEF Agents!Init, PhaseOK
<1>7. Agents!GrantsAreAnswered
  BY DEF Agents!Init, Agents!GrantsAreAnswered
<1> QED
  BY <1>1, <1>2, <1>3, <1>5, <1>6, <1>7 DEF AgentInv, CapInv, Agents!Init

(* The counts never fall below zero.                                       *)
LEMMA ReleaseTypes ==
  ASSUME AgentInv, NEW r \in Agents!Requests, Agents!Released(r)
  PROVE  reserved' \subseteq Agents!Requests /\ pending' \in Nat
BY DEF AgentInv, Agents!TypeOK, Agents!Released

LEMMA SpendTypes ==
  ASSUME AgentInv, NEW what \in {"events", "asks", "views", "sweeps"}, Agents!Spend(what)
  PROVE  budget' \in [events : Nat, asks : Nat, views : Nat, sweeps : Nat]
<1>1. /\ budget \in [events : Nat, asks : Nat, views : Nat, sweeps : Nat]
      /\ budget[what] > 0 /\ budget' = [budget EXCEPT ![what] = budget[what] - 1]
      /\ budget[what] \in Nat
  BY DEF AgentInv, Agents!TypeOK, Agents!Spend
<1>2. budget[what] - 1 \in Nat
  BY <1>1
<1> QED
  BY <1>1, <1>2

(* What a queue and the posted callbacks may become.                       *)
LEMMA QueueTypes ==
  ASSUME AgentInv, NEW r \in Agents!Requests
  PROVE  /\ Append(posted[r], "event") \in Seq({"event", "returned"})
         /\ Append(posted[r], "returned") \in Seq({"event", "returned"})
         /\ posted[r] # <<>> => Tail(posted[r]) \in Seq({"event", "returned"})
         /\ Append(queue[r], "event") \in Seq({"event", "final", "end"})
         /\ queue[r] # <<>> => Tail(queue[r]) \in Seq({"event", "final", "end"})
         /\ queue[r] \o <<"final", "end">> \in Seq({"event", "final", "end"})
         /\ <<>> \in Seq({"event", "final", "end"}) /\ queue[r] \in Seq({"event", "final", "end"})
<1>1. /\ posted[r] \in Seq({"event", "returned"}) /\ queue[r] \in Seq({"event", "final", "end"})
  BY DEF AgentInv, Agents!TypeOK
<1> QED
  BY <1>1

LEMMA SettleTypes ==
  ASSUME AgentInv, NEW r \in Agents!Requests, Agents!Settle(r)
  PROVE  /\ task' \in [Agents!Requests -> {"none", "done", "cancelled"} \cup Agents!Live]
         /\ agents' \subseteq Agents!Requests /\ sessions' \subseteq Agents!Requests
         /\ stopping' \subseteq Agents!Requests /\ notify' \subseteq Agents!Requests
         /\ queue' \in [Agents!Requests -> Seq({"event", "final", "end"})]
<1>1. queue' \in [Agents!Requests -> Seq({"event", "final", "end"})]
  <2>1. queue \in [Agents!Requests -> Seq({"event", "final", "end"})]
    BY DEF AgentInv, Agents!TypeOK
  <2>2. PICK rest \in Seq({"event", "final", "end"}) : rest = queue[r] \o <<"final", "end">>
    BY QueueTypes
  <2>3. queue' = queue \/ queue' = [queue EXCEPT ![r] = rest]
    BY <2>2 DEF Agents!Settle, Agents!Closing
  <2> QED
    BY <2>1, <2>3
<1> QED
  BY <1>1 DEF AgentInv, Agents!TypeOK, Agents!Settle

LEMMA AdmissionTypes ==
  ASSUME AgentInv, NEW r \in Agents!Requests,
         Agents!Admit(r) \/ Agents!BadBody(r) \/ Agents!StartRun(r) \/ Agents!StartChat(r)
           \/ Agents!ChatTaskStarts(r)
           \/ Agents!ChatCloses(r)
  PROVE  Agents!TypeOK'
<1>1. /\ Agents!TypeOK /\ "queued" \in Agents!Live /\ "awaiting" \in Agents!Live
      /\ "queued" \in Agents!Statuses
      /\ pending \in Nat /\ inflight \in Nat /\ pending + 1 \in Nat /\ inflight + 1 \in Nat
  BY DEF AgentInv, Agents!TypeOK, Agents!Live, Agents!Statuses
<1>2. CASE Agents!Admit(r)
  BY <1>1, <1>2
     DEF Agents!Admit, Agents!counts, Agents!control, Agents!stream, Agents!history, Agents!TypeOK
<1>3. CASE Agents!BadBody(r)
  BY <1>1, <1>3, ReleaseTypes
     DEF Agents!BadBody, Agents!control, Agents!stream, Agents!history, Agents!TypeOK
<1>4. CASE Agents!StartRun(r)
  BY <1>1, <1>4, ReleaseTypes
     DEF Agents!StartRun, Agents!control, Agents!stream, Agents!history, Agents!TypeOK
<1>5. CASE Agents!StartChat(r)
  BY <1>1, <1>5 DEF Agents!StartChat, Agents!counts, Agents!control, Agents!stream,
     Agents!history, Agents!TypeOK
<1>6. CASE Agents!ChatTaskStarts(r)
  BY <1>1, <1>6, ReleaseTypes
     DEF Agents!ChatTaskStarts, Agents!control, Agents!stream, Agents!history, Agents!TypeOK
<1>7. CASE Agents!ChatCloses(r)
  BY <1>1, <1>7, ReleaseTypes
     DEF Agents!ChatCloses, Agents!control, Agents!stream, Agents!history, Agents!TypeOK
<1> QED
  BY <1>2, <1>3, <1>4, <1>5, <1>6, <1>7

LEMMA TaskTypes ==
  ASSUME Agents!BoundsOK, AgentInv, NEW r \in Agents!Requests,
         Agents!TaskStarts(r) \/ Agents!RunReturns(r) \/ Agents!Deliver(r)
           \/ Agents!ChatReturns(r) \/ Agents!ClientVanishes(r)
  PROVE  Agents!TypeOK'
<1>1. /\ Agents!TypeOK /\ "awaiting" \in Agents!Live /\ Agents!Terminal \subseteq Agents!Statuses
      /\ "running" \in Agents!Statuses
      /\ {"cancelled", "failed", "completed"} \subseteq Agents!Terminal
  BY DEF AgentInv, Agents!Live, Agents!Statuses, Agents!Terminal
<1>2. r \in Chats /\ task[r] = "awaiting" => inflight - 1 \in Nat
  BY PhaseSays
<1>3. posted[r] # <<>> /\ posted' = [posted EXCEPT ![r] = Tail(@)]
        => posted' \in [Agents!Requests -> Seq({"event", "returned"})]
  <2>1. SUFFICES ASSUME posted[r] # <<>>, posted' = [posted EXCEPT ![r] = Tail(@)]
                 PROVE  posted' \in [Agents!Requests -> Seq({"event", "returned"})]
    OBVIOUS
  <2>2. PICK rest \in Seq({"event", "returned"}) : rest = Tail(posted[r])
    BY <2>1, QueueTypes
  <2> QED
    BY <1>1, <2>1, <2>2 DEF Agents!TypeOK
<1>4. CASE Agents!TaskStarts(r)
  <2>1. CASE Agents!Settle(r) /\ UNCHANGED thread
               /\ \E s \in Agents!Terminal : status' = [status EXCEPT ![r] = s]
    BY <1>1, <1>4, <2>1, SettleTypes
       DEF Agents!TaskStarts, Agents!counts, Agents!history, Agents!TypeOK
  <2>2. CASE /\ status' = [status EXCEPT ![r] = "running"]
             /\ agents' = agents \cup {r}
             /\ task' = [task EXCEPT ![r] = "awaiting"]
             /\ thread' = [thread EXCEPT ![r] = "turn"]
             /\ notify' = notify \cup {r}
             /\ UNCHANGED <<sessions, stopping, queue>>
    BY <1>1, <1>4, <2>2 DEF Agents!TaskStarts, Agents!counts, Agents!history, Agents!TypeOK
  <2> QED
    BY <1>1, <1>4, <2>1, <2>2 DEF Agents!TaskStarts
<1>5. CASE Agents!RunReturns(r)
  <2>1. Agents!Verdict(r) \in Agents!Statuses
    BY <1>1, <1>5 DEF Agents!RunReturns, Agents!Verdict, Agents!Ended
  <2> QED
    BY <1>1, <1>3, <1>5, <2>1, SettleTypes
       DEF Agents!RunReturns, Agents!counts, Agents!history, Agents!TypeOK
<1>6. CASE Agents!Deliver(r)
  <2>1. PICK rest \in Seq({"event", "final", "end"}) : rest = Append(queue[r], "event")
    BY QueueTypes
  <2>2. queue' = queue \/ queue' = [queue EXCEPT ![r] = rest]
    BY <1>6, <2>1 DEF Agents!Deliver
  <2>3. queue' \in [Agents!Requests -> Seq({"event", "final", "end"})]
    <3>1. queue \in [Agents!Requests -> Seq({"event", "final", "end"})]
      BY <1>1 DEF Agents!TypeOK
    <3> QED
      BY <2>2, <3>1
  <2> QED
    BY <1>1, <1>3, <1>6, <2>3
       DEF Agents!Deliver, Agents!counts, Agents!control, Agents!history, Agents!TypeOK
<1>7. CASE Agents!ChatReturns(r)
  BY <1>1, <1>2, <1>3, <1>7
     DEF Agents!ChatReturns, Agents!control, Agents!stream, Agents!history, Agents!TypeOK
<1>8. CASE Agents!ClientVanishes(r)
  BY <1>1, <1>2, <1>8, ReleaseTypes, PhaseSays DEF Agents!ClientVanishes, Agents!control,
     Agents!stream, Agents!history, Agents!TypeOK, PhaseOK
<1> QED
  BY <1>4, <1>5, <1>6, <1>7, <1>8

LEMMA ThreadTypes ==
  ASSUME AgentInv, NEW r \in Agents!Requests,
         Agents!PushReads(r) \/ Agents!PushWrites(r) \/ Agents!Ask(r)
           \/ Agents!ApprovalTimesOut(r) \/ Agents!TurnEnds(r)
  PROVE  Agents!TypeOK'
<1>1. /\ Agents!TypeOK /\ "waiting_for_approval" \in Agents!Statuses /\ "none" \in Agents!Statuses
      /\ status[r] \in Agents!Statuses /\ noted[r] \in Agents!Statuses
  BY DEF AgentInv, Agents!Statuses, Agents!TypeOK
<1>2. ASSUME NEW item \in {"event", "returned"},
             posted' = [posted EXCEPT ![r] = Append(@, item)] \/ posted' = posted
      PROVE  posted' \in [Agents!Requests -> Seq({"event", "returned"})]
  <2>1. PICK rest \in Seq({"event", "returned"}) : rest = Append(posted[r], item)
    BY QueueTypes
  <2> QED
    BY <1>1, <1>2, <2>1 DEF Agents!TypeOK
<1>3. CASE Agents!PushReads(r)
  BY <1>1, <1>3, SpendTypes
     DEF Agents!PushReads, Agents!counts, Agents!control, Agents!stream, Agents!TypeOK
<1>4. CASE Agents!PushWrites(r)
  <2>1. posted' \in [Agents!Requests -> Seq({"event", "returned"})]
    BY <1>2, <1>4 DEF Agents!PushWrites
  <2> QED
    BY <1>1, <1>4, <2>1 DEF Agents!PushWrites, Agents!counts, Agents!control, Agents!stream,
       Agents!history, Agents!TypeOK
<1>5. CASE Agents!Ask(r)
  <2>1. posted' \in [Agents!Requests -> Seq({"event", "returned"})]
    BY <1>2, <1>5 DEF Agents!Ask
  <2> QED
    BY <1>1, <1>5, <2>1, SpendTypes
       DEF Agents!Ask, Agents!counts, Agents!control, Agents!stream, Agents!TypeOK
<1>6. CASE Agents!ApprovalTimesOut(r)
  BY <1>1, <1>6 DEF Agents!ApprovalTimesOut, Agents!counts, Agents!control, Agents!stream,
     Agents!history, Agents!TypeOK
<1>7. CASE Agents!TurnEnds(r)
  <2>1. posted' \in [Agents!Requests -> Seq({"event", "returned"})]
    BY <1>2, <1>7 DEF Agents!TurnEnds
  <2>2. thread' \in [Agents!Requests -> {"none", "turn", "approval", "over"} \cup Agents!Ended]
    BY <1>1, <1>7 DEF Agents!TurnEnds, Agents!TypeOK, Agents!Ended
  <2> QED
    BY <1>1, <1>7, <2>1, <2>2
       DEF Agents!TurnEnds, Agents!counts, Agents!stream, Agents!history, Agents!TypeOK
<1> QED
  BY <1>3, <1>4, <1>5, <1>6, <1>7

LEMMA ControlTypes ==
  ASSUME AgentInv, NEW r \in Agents!Requests,
         Agents!Approve(r) \/ Agents!StopRun(r) \/ Agents!ViewerJoins(r) \/ Agents!ViewerReads(r)
           \/ Agents!ViewerVanishes(r)
           \/ Agents!SweepStream(r) \/ Agents!SweepStatus(r)
  PROVE  Agents!TypeOK'
<1>1. /\ Agents!TypeOK /\ "running" \in Agents!Statuses /\ "stopping" \in Agents!Statuses
      /\ "none" \in Agents!Statuses
      /\ viewers \in [Agents!Requests -> Nat]
      /\ queue \in [Agents!Requests -> Seq({"event", "final", "end"})]
  BY DEF AgentInv, Agents!Statuses, Agents!TypeOK
<1>2. ASSUME NEW rest \in Seq({"event", "final", "end"}),
             queue' = [queue EXCEPT ![r] = rest] \/ queue' = queue
      PROVE  queue' \in [Agents!Requests -> Seq({"event", "final", "end"})]
  BY <1>1, <1>2
<1>3. CASE Agents!Approve(r)
  <2>1. PICK rest \in Seq({"event", "final", "end"}) : rest = Append(queue[r], "event")
    BY QueueTypes
  <2>2. queue' \in [Agents!Requests -> Seq({"event", "final", "end"})]
    BY <1>2, <1>3, <2>1 DEF Agents!Approve
  <2>3. PICK waiter \in Agents!Requests :
          /\ thread' = [thread EXCEPT ![waiter] = "turn"]
          /\ granted' = [granted EXCEPT ![waiter] = @ + 1]
    BY <1>3 DEF Agents!Approve, Agents!Waiting
  <2> QED
    <3>1. /\ thread \in [Agents!Requests -> {"none", "turn", "approval", "over"} \cup Agents!Ended]
          /\ granted \in [Agents!Requests -> Nat] /\ answered \in [Agents!Requests -> Nat]
          /\ status \in [Agents!Requests -> Agents!Statuses]
      BY <1>1 DEF Agents!TypeOK
    <3>2. /\ thread' \in [Agents!Requests -> {"none", "turn", "approval", "over"} \cup Agents!Ended]
          /\ granted' \in [Agents!Requests -> Nat]
      BY <2>3, <3>1
    <3>3. answered' \in [Agents!Requests -> Nat] /\ status' \in [Agents!Requests -> Agents!Statuses]
      BY <1>1, <1>3, <3>1 DEF Agents!Approve
    <3>4. UNCHANGED <<handler, Agents!counts, task, Agents!control, streams, subscribers, viewers,
                      noted, posted, limit, budget>>
      BY <1>3 DEF Agents!Approve
    <3> QED
      BY <1>1, <2>2, <3>2, <3>3, <3>4 DEF Agents!counts, Agents!control, Agents!TypeOK
<1>4. CASE Agents!StopRun(r)
  BY <1>1, <1>4 DEF Agents!StopRun, Agents!Stopped, Agents!counts, Agents!stream,
     Agents!history, Agents!TypeOK
<1>5. CASE Agents!ViewerJoins(r)
  <2>1. viewers' \in [Agents!Requests -> Nat]
    BY <1>1, <1>5 DEF Agents!ViewerJoins
  <2> QED
    BY <1>1, <1>5, <2>1, SpendTypes
       DEF Agents!ViewerJoins, Agents!counts, Agents!control, Agents!TypeOK
<1>6. ASSUME NEW rest \in Seq({"event", "final", "end"}), Agents!Leave(r, rest), viewers[r] > 0
      PROVE  /\ viewers' \in [Agents!Requests -> Nat] /\ subscribers' \subseteq Agents!Requests
             /\ streams' \subseteq Agents!Requests
             /\ queue' \in [Agents!Requests -> Seq({"event", "final", "end"})]
  <2>1. viewers[r] - 1 \in Nat
    BY <1>1, <1>6
  <2>2. PICK kept \in Seq({"event", "final", "end"}) : kept = IF viewers[r] = 1 THEN <<>> ELSE rest
    BY QueueTypes
  <2> QED
    BY <1>1, <1>2, <1>6, <2>1, <2>2 DEF Agents!Leave, Agents!TypeOK
<1>7. CASE Agents!ViewerReads(r)
  <2>1. PICK rest \in Seq({"event", "final", "end"}) : rest = Tail(queue[r])
    BY <1>7, QueueTypes DEF Agents!ViewerReads
  <2>2. \/ Agents!Leave(r, rest)
        \/ queue' = [queue EXCEPT ![r] = rest] /\ UNCHANGED <<viewers, subscribers, streams>>
    BY <1>7, <2>1 DEF Agents!ViewerReads
  <2>3. /\ viewers' \in [Agents!Requests -> Nat] /\ subscribers' \subseteq Agents!Requests
        /\ streams' \subseteq Agents!Requests
        /\ queue' \in [Agents!Requests -> Seq({"event", "final", "end"})]
    BY <1>1, <1>2, <1>6, <1>7, <2>2 DEF Agents!ViewerReads, Agents!TypeOK
  <2> QED
    BY <1>1, <1>7, <2>3
       DEF Agents!ViewerReads, Agents!counts, Agents!control, Agents!history, Agents!TypeOK
<1>8. CASE Agents!ViewerVanishes(r)
  <2>1. /\ viewers' \in [Agents!Requests -> Nat] /\ subscribers' \subseteq Agents!Requests
        /\ streams' \subseteq Agents!Requests
        /\ queue' \in [Agents!Requests -> Seq({"event", "final", "end"})]
    BY <1>6, <1>8, QueueTypes DEF Agents!ViewerVanishes
  <2> QED
    BY <1>1, <1>8, <2>1
       DEF Agents!ViewerVanishes, Agents!counts, Agents!control, Agents!history, Agents!TypeOK
<1>9. CASE Agents!SweepStream(r)
  <2>1. queue' \in [Agents!Requests -> Seq({"event", "final", "end"})]
    BY <1>2, <1>9, QueueTypes DEF Agents!SweepStream
  <2>2. /\ agents' \subseteq Agents!Requests /\ sessions' \subseteq Agents!Requests
        /\ stopping' \subseteq Agents!Requests /\ notify' \subseteq Agents!Requests
    BY <1>1, <1>9 DEF Agents!SweepStream, Agents!control, Agents!TypeOK
  <2> QED
    BY <1>1, <1>9, <2>1, <2>2, SpendTypes DEF Agents!SweepStream, Agents!counts, Agents!TypeOK
<1>10. CASE Agents!SweepStatus(r)
  BY <1>1, <1>10, SpendTypes
     DEF Agents!SweepStatus, Agents!counts, Agents!control, Agents!stream, Agents!TypeOK
<1> QED
  BY <1>3, <1>4, <1>5, <1>7, <1>8, <1>9, <1>10

LEMMA GrantsStep ==
  ASSUME AgentInv, NEW r \in Agents!Requests, Agents!Approve(r)
  PROVE  Agents!GrantsAreAnswered'
<1>1. PICK waiter \in Agents!Requests : waiter = r /\ granted' = [granted EXCEPT ![waiter] = @ + 1]
  BY DEF Agents!Approve, Agents!Waiting, Agents!ApprovalKey
<1>2. answered' = [answered EXCEPT ![r] = @ + 1] /\ granted' = [granted EXCEPT ![r] = @ + 1]
  BY <1>1 DEF Agents!Approve
<1>3. /\ answered \in [Agents!Requests -> Nat] /\ granted \in [Agents!Requests -> Nat]
      /\ \A q \in Agents!Requests : granted[q] <= answered[q]
  BY DEF AgentInv, Agents!TypeOK, Agents!GrantsAreAnswered
<1> QED
  BY <1>2, <1>3 DEF Agents!GrantsAreAnswered

LEMMA AgentStepKeeps ==
  ASSUME Agents!BoundsOK, AgentInv, [Agents!Next]_(Agents!vars)
  PROVE  AgentInv'
<1>1. ASSUME NEW r \in Agents!Requests,
             Agents!Admit(r) \/ Agents!BadBody(r) \/ Agents!StartRun(r) \/ Agents!StartChat(r)
      PROVE  AgentInv'
  <2>1. Agents!TypeOK'
    BY <1>1, AdmissionTypes
  <2>2. CapInv'
    BY <1>1, <2>1, AdmissionsCount
  <2>3. UNCHANGED <<answered, granted>>
    BY <1>1 DEF Agents!Admit, Agents!BadBody, Agents!StartRun, Agents!StartChat, Agents!history
  <2> QED
    BY <2>1, <2>2, <2>3 DEF AgentInv, Agents!GrantsAreAnswered
<1>2. ASSUME NEW r \in Agents!Requests,
             Agents!TaskStarts(r) \/ Agents!RunReturns(r) \/ Agents!ChatTaskStarts(r)
               \/ Agents!ChatReturns(r)
               \/ Agents!ChatCloses(r) \/ Agents!ClientVanishes(r)
      PROVE  AgentInv'
  <2>1. Agents!TypeOK'
    BY <1>2, AdmissionTypes, TaskTypes
  <2>2. CapInv'
    BY <1>2, <2>1, TasksCount
  <2>3. UNCHANGED <<answered, granted>>
    BY <1>2 DEF Agents!TaskStarts, Agents!RunReturns, Agents!ChatTaskStarts, Agents!ChatReturns,
       Agents!ChatCloses, Agents!ClientVanishes, Agents!history
  <2> QED
    BY <2>1, <2>2, <2>3 DEF AgentInv, Agents!GrantsAreAnswered
<1>3. ASSUME NEW r \in Agents!Requests,
             \/ Agents!Deliver(r) \/ Agents!PushReads(r) \/ Agents!PushWrites(r) \/ Agents!Ask(r)
             \/ Agents!ApprovalTimesOut(r)
             \/ Agents!TurnEnds(r) \/ Agents!StopRun(r) \/ Agents!ViewerJoins(r)
             \/ Agents!ViewerReads(r)
             \/ Agents!ViewerVanishes(r) \/ Agents!SweepStream(r) \/ Agents!SweepStatus(r)
      PROVE  AgentInv'
  <2>1. Agents!TypeOK'
    BY <1>3, TaskTypes, ThreadTypes, ControlTypes
  <2>2. UNCHANGED <<handler, reserved, pending, inflight, task, answered, granted, limit>>
    BY <1>3 DEF Agents!Deliver, Agents!PushReads, Agents!PushWrites, Agents!Ask,
       Agents!ApprovalTimesOut, Agents!TurnEnds, Agents!StopRun, Agents!Stopped,
       Agents!ViewerJoins, Agents!ViewerReads, Agents!ViewerVanishes, Agents!SweepStream,
       Agents!SweepStatus, Agents!counts, Agents!history
  <2>3. CapInv'
    BY <2>2, CapStays
  <2> QED
    BY <2>1, <2>2, <2>3 DEF AgentInv, Agents!GrantsAreAnswered
<1>4. ASSUME NEW r \in Agents!Requests, Agents!Approve(r)
      PROVE  AgentInv'
  <2>1. UNCHANGED <<handler, reserved, pending, inflight, task, limit>>
    BY <1>4 DEF Agents!Approve, Agents!counts
  <2> QED
    BY <1>4, <2>1, ControlTypes, CapStays, GrantsStep DEF AgentInv
<1>5. CASE UNCHANGED Agents!vars
  <2>1. Agents!TypeOK'
    BY <1>5 DEF AgentInv, Agents!TypeOK, Agents!vars, Agents!counts, Agents!control,
       Agents!stream, Agents!history
  <2>2. UNCHANGED <<handler, reserved, pending, inflight, task, answered, granted, limit>>
    BY <1>5 DEF Agents!vars, Agents!counts, Agents!history
  <2>3. CapInv'
    BY <2>2, CapStays
  <2> QED
    BY <2>1, <2>2, <2>3 DEF AgentInv, Agents!GrantsAreAnswered
<1> QED
  BY <1>1, <1>2, <1>3, <1>4, <1>5 DEF Agents!Next, Agents!LoopServes, Agents!ThreadGoesOn

(* Who is under way holds a reservation or is a live turn.                 *)
LEMMA AgentsImply ==
  ASSUME Agents!BoundsOK, AgentInv
  PROVE  Agents!UnderWayWithinCap
<1>1. /\ IsFiniteSet(reserved) /\ IsFiniteSet(LiveChats) /\ IsFiniteSet(Agents!LiveRuns)
      /\ Cardinality(reserved) \in Nat /\ Cardinality(LiveChats) \in Nat
      /\ Cardinality(Agents!LiveRuns) \in Nat
  BY FiniteRequests, FS_CardinalityType DEF AgentInv
<1>2. \A r \in Agents!Requests : PhaseOK(r)
  BY DEF AgentInv, CapInv
<1>3. Agents!UnderWay = reserved \cup LiveChats \cup Agents!LiveRuns
  <2>1. ASSUME NEW r \in Agents!UnderWay
        PROVE  r \in reserved \cup LiveChats \cup Agents!LiveRuns
    <3>1. r \in Agents!Requests /\ (handler[r] = "body" \/ task[r] \in Agents!Live)
      BY DEF Agents!UnderWay
    <3> QED
      BY <1>2, <3>1, PhaseSays DEF PhaseOK, LiveChats, Agents!LiveRuns, Agents!Live
  <2>2. ASSUME NEW r \in reserved \cup LiveChats \cup Agents!LiveRuns
        PROVE  r \in Agents!UnderWay
    <3>1. r \in Agents!Requests
      BY DEF AgentInv, Agents!TypeOK, LiveChats, Agents!LiveRuns
    <3> QED
      BY <1>2, <3>1, PhaseSays DEF PhaseOK, LiveChats, Agents!LiveRuns, Agents!UnderWay
  <2> QED
    BY <2>1, <2>2
<1>4. /\ IsFiniteSet(reserved \cup LiveChats)
      /\ Cardinality(reserved \cup LiveChats) \in Nat
      /\ Cardinality(reserved \cup LiveChats) <= Cardinality(reserved) + Cardinality(LiveChats)
  <2>1. /\ IsFiniteSet(reserved \cup LiveChats)
        /\ Cardinality(reserved \cup LiveChats)
             = Cardinality(reserved) + Cardinality(LiveChats)
                 - Cardinality(reserved \cap LiveChats)
        /\ Cardinality(reserved \cap LiveChats) \in Nat
        /\ Cardinality(reserved \cup LiveChats) \in Nat
    BY <1>1, FS_Union, FS_Intersection, FS_CardinalityType
  <2> QED
    BY <1>1, <2>1
<1>5. /\ Cardinality(Agents!UnderWay) \in Nat
      /\ Cardinality(Agents!UnderWay)
           <= Cardinality(reserved \cup LiveChats) + Cardinality(Agents!LiveRuns)
  <2> DEFINE before == reserved \cup LiveChats
  <2>1. /\ Agents!UnderWay = before \cup Agents!LiveRuns /\ IsFiniteSet(before)
    BY <1>3, <1>4
  <2> HIDE DEF before
  <2>2. /\ Cardinality(Agents!UnderWay)
             = Cardinality(before) + Cardinality(Agents!LiveRuns)
               - Cardinality(before \cap Agents!LiveRuns)
        /\ Cardinality(before \cap Agents!LiveRuns) \in Nat /\ Cardinality(Agents!UnderWay) \in Nat
        /\ Cardinality(before) \in Nat
    BY <1>1, <2>1, FS_Union, FS_Intersection, FS_CardinalityType
  <2>3. Cardinality(Agents!UnderWay) <= Cardinality(before) + Cardinality(Agents!LiveRuns)
    BY <1>1, <2>2
  <2> QED
    BY <2>2, <2>3 DEF before
<1>6. Cardinality(reserved) + Cardinality(LiveChats) + Cardinality(Agents!LiveRuns) <= limit
  BY SameSizes DEF AgentInv, CapInv, Agents!ActiveWork
<1>7. limit \in Nat
  BY DEF AgentInv, Agents!TypeOK, Agents!BoundsOK
<1> QED
  BY <1>1, <1>4, <1>5, <1>6, <1>7, SameSizes DEF Agents!UnderWayWithinCap

-----------------------------------------------------------------------------
(* Stored responses                                                        *)

StoredRows == [status : {"in_progress", "incomplete", "failed", "completed"},
               text : Seq(Nat), rank : Nat]

(* A table of responses in which no two rows have the same rank, and no    *)
(* rank below that of a row is missing.                                    *)
Table(t) ==
  /\ t = [q \in DOMAIN t |-> t[q]]
  /\ DOMAIN t \subseteq Responses!Requests
  /\ \A q \in DOMAIN t : t[q] \in StoredRows
  /\ \A p, q \in DOMAIN t : t[p].rank = t[q].rank => p = q
  /\ \A q \in DOMAIN t : \A k \in 0..t[q].rank : \E p \in DOMAIN t : t[p].rank = k

StoreOK == Table(store) /\ \A q \in Responses!Ids : store[q].rank < MaxStored

(* Rows keep what they say of the response; only their ranks change.       *)
SameRows(t) == \A q \in DOMAIN t : q \in Responses!Ids /\ t[q].status = store[q].status
                                             /\ t[q].text = store[q].text

LEMMA BehindType ==
  ASSUME StoreOK, NEW id \in Responses!Requests, NEW q \in Responses!Ids
  PROVE  /\ Responses!Behind(q, id) \in Nat /\ store[q].rank \in Nat
         /\ id \in Responses!Ids => store[id].rank \in Nat
<1>1. store[q].rank \in Nat /\ (id \in Responses!Ids => store[id].rank \in Nat)
  BY DEF StoreOK, Table, StoredRows, Responses!Ids
<1> QED
  BY <1>1 DEF Responses!Behind

(* A row with the new rank of another.                                     *)
LEMMA Reranked ==
  ASSUME NEW row \in StoredRows, NEW k \in Nat
  PROVE  /\ [row EXCEPT !.rank = k] \in StoredRows
         /\ [row EXCEPT !.rank = k].rank = k
         /\ [row EXCEPT !.rank = k].status = row.status
         /\ [row EXCEPT !.rank = k].text = row.text
BY DEF StoredRows

(* Of the ranks behind the most recent row none is taken twice, and none   *)
(* is left out.                                                            *)
LEMMA BehindRanks ==
  ASSUME Responses!BoundsOK, StoreOK, NEW id \in Responses!Requests
  PROVE  /\ \A q \in Responses!Ids \ {id} : Responses!Behind(q, id) \in Nat \ {0}
         /\ \A p, q \in Responses!Ids \ {id} : Responses!Behind(p, id) = Responses!Behind(q, id)
              => p = q
         /\ \A q \in Responses!Ids \ {id} : \A k \in 1..Responses!Behind(q, id) :
              \E p \in Responses!Ids \ {id} : Responses!Behind(p, id) = k
         /\ \A q \in Responses!Ids \ {id} : Responses!Behind(q, id) <= MaxStored
<1>1. /\ \A q \in Responses!Ids : store[q].rank \in Nat
      /\ \A p, q \in Responses!Ids : store[p].rank = store[q].rank => p = q
      /\ \A q \in Responses!Ids : \A k \in 0..store[q].rank : \E p \in Responses!Ids :
           store[p].rank = k
      /\ \A q \in Responses!Ids : store[q].rank < MaxStored
  BY DEF StoreOK, Table, StoredRows, Responses!Ids
<1>2. \A q \in Responses!Ids \ {id} : Responses!Behind(q, id) \in Nat \ {0}
  BY <1>1 DEF Responses!Behind
<1>3. ASSUME NEW p \in Responses!Ids \ {id}, NEW q \in Responses!Ids \ {id},
             Responses!Behind(p, id) = Responses!Behind(q, id)
      PROVE  p = q
  BY <1>1, <1>3 DEF Responses!Behind
<1>4. ASSUME NEW q \in Responses!Ids \ {id}, NEW k \in 1..Responses!Behind(q, id)
      PROVE  \E p \in Responses!Ids \ {id} : Responses!Behind(p, id) = k
  <2>1. CASE id \in Responses!Ids /\ k > store[id].rank
    <3>1. k \in 0..store[q].rank
      BY <1>1, <2>1 DEF Responses!Behind
    <3>2. PICK p \in Responses!Ids : store[p].rank = k
      BY <1>1, <3>1
    <3> QED
      BY <1>1, <2>1, <3>2 DEF Responses!Behind
  <2>2. CASE ~(id \in Responses!Ids /\ k > store[id].rank)
    <3>1. k - 1 \in 0..store[q].rank
      BY <1>1 DEF Responses!Behind
    <3>2. PICK p \in Responses!Ids : store[p].rank = k - 1
      BY <1>1, <3>1
    <3>3. p # id /\ Responses!Behind(p, id) = k
      <4>1. CASE id \in Responses!Ids
        BY <1>1, <2>2, <3>2, <4>1 DEF Responses!Behind
      <4>2. CASE id \notin Responses!Ids
        BY <1>1, <3>2, <4>2 DEF Responses!Behind
      <4> QED
        BY <4>1, <4>2
    <3> QED
      BY <3>3
  <2> QED
    BY <2>1, <2>2
<1>5. \A q \in Responses!Ids \ {id} : Responses!Behind(q, id) <= MaxStored
  BY <1>1 DEF Responses!Behind, Responses!BoundsOK
<1> QED
  BY <1>2, <1>3, <1>4, <1>5

LEMMA InsertedTable ==
  ASSUME Responses!BoundsOK, StoreOK, NEW id \in Responses!Requests, NEW row \in StoredRows,
         row.rank = 0
  PROVE  /\ Table(Responses!Inserted(id, row))
         /\ DOMAIN Responses!Inserted(id, row) = Responses!Ids \cup {id}
         /\ Responses!Inserted(id, row)[id] = row
         /\ \A q \in Responses!Ids \ {id} :
              /\ Responses!Inserted(id, row)[q].status = store[q].status
              /\ Responses!Inserted(id, row)[q].text = store[q].text
         /\ \A q \in Responses!Ids \cup {id} : Responses!Inserted(id, row)[q].rank <= MaxStored
<1>1. PICK t : t = Responses!Inserted(id, row)
  OBVIOUS
<1>2. /\ DOMAIN t = Responses!Ids \cup {id} /\ t = [q \in DOMAIN t |-> t[q]] /\ t[id] = row
      /\ \A q \in Responses!Ids \ {id} : t[q] = [store[q] EXCEPT !.rank = Responses!Behind(q, id)]
  BY <1>1 DEF Responses!Inserted
<1>3. \A q \in Responses!Ids : store[q] \in StoredRows /\ Responses!Behind(q, id) \in Nat
  BY BehindType DEF StoreOK, Table, Responses!Ids
<1>4. \A q \in Responses!Ids \ {id} : /\ t[q] \in StoredRows /\ t[q].rank = Responses!Behind(q, id)
                                      /\ t[q].status = store[q].status /\ t[q].text = store[q].text
  <2> TAKE q \in Responses!Ids \ {id}
  <2>1. PICK old \in StoredRows : old = store[q]
    BY <1>3
  <2>2. PICK k \in Nat : k = Responses!Behind(q, id)
    BY <1>3
  <2>3. t[q] = [old EXCEPT !.rank = k]
    BY <1>2, <2>1, <2>2
  <2>4. /\ [old EXCEPT !.rank = k] \in StoredRows /\ [old EXCEPT !.rank = k].rank = k
        /\ [old EXCEPT !.rank = k].status = old.status
        /\ [old EXCEPT !.rank = k].text = old.text
    BY Reranked
  <2> QED
    BY <2>1, <2>2, <2>3, <2>4
<1>5. \A p, q \in DOMAIN t : t[p].rank = t[q].rank => p = q
  BY <1>2, <1>4, BehindRanks
<1>6. ASSUME NEW q \in DOMAIN t, NEW k \in 0..t[q].rank
      PROVE  \E p \in DOMAIN t : t[p].rank = k
  <2>1. CASE k = 0
    BY <1>2, <2>1
  <2>2. CASE k # 0
    <3>1. q \in Responses!Ids \ {id} /\ k \in 1..Responses!Behind(q, id)
      BY <1>2, <1>3, <1>4, <2>2
    <3>2. PICK p \in Responses!Ids \ {id} : Responses!Behind(p, id) = k
      BY <3>1, BehindRanks
    <3> QED
      BY <1>2, <1>4, <3>2
  <2> QED
    BY <2>1, <2>2
<1>7. Table(t)
  BY <1>2, <1>4, <1>5, <1>6 DEF Table, StoreOK, Responses!Ids
<1>8. \A q \in Responses!Ids \cup {id} : t[q].rank <= MaxStored
  <2>1. MaxStored >= 0
    BY DEF Responses!BoundsOK
  <2> QED
    BY <1>2, <1>4, <2>1, BehindRanks
<1> QED
  BY <1>1, <1>2, <1>4, <1>7, <1>8

LEMMA TouchedTable ==
  ASSUME Responses!BoundsOK, StoreOK, NEW id \in Responses!Ids
  PROVE  /\ Table(Responses!Touched(id)) /\ DOMAIN Responses!Touched(id) = Responses!Ids
         /\ SameRows(Responses!Touched(id))
         /\ \A q \in Responses!Ids : Responses!Touched(id)[q].rank < MaxStored
<1>1. PICK t : t = Responses!Touched(id)
  OBVIOUS
<1>2. /\ DOMAIN t = Responses!Ids /\ t = [q \in DOMAIN t |-> t[q]]
      /\ \A q \in Responses!Ids :
           t[q] = [store[q] EXCEPT !.rank = IF q = id THEN 0 ELSE Responses!Behind(q, id)]
  BY <1>1 DEF Responses!Touched
<1>3. id \in Responses!Requests
  BY DEF StoreOK, Table, Responses!Ids
<1>4. \A q \in Responses!Ids : store[q] \in StoredRows /\ Responses!Behind(q, id) \in Nat
  BY <1>3, BehindType DEF StoreOK, Table, Responses!Ids
<1>5. \A q \in Responses!Ids : /\ t[q] \in StoredRows
                               /\ t[q].rank = IF q = id THEN 0 ELSE Responses!Behind(q, id)
                               /\ t[q].status = store[q].status /\ t[q].text = store[q].text
  <2> TAKE q \in Responses!Ids
  <2>1. PICK old \in StoredRows : old = store[q]
    BY <1>4
  <2>2. PICK k \in Nat : k = IF q = id THEN 0 ELSE Responses!Behind(q, id)
    BY <1>4
  <2>3. t[q] = [old EXCEPT !.rank = k]
    BY <1>2, <2>1, <2>2
  <2>4. /\ [old EXCEPT !.rank = k] \in StoredRows /\ [old EXCEPT !.rank = k].rank = k
        /\ [old EXCEPT !.rank = k].status = old.status
        /\ [old EXCEPT !.rank = k].text = old.text
    BY Reranked
  <2> QED
    BY <2>1, <2>2, <2>3, <2>4
<1>6. \A p, q \in DOMAIN t : t[p].rank = t[q].rank => p = q
  BY <1>2, <1>3, <1>5, BehindRanks
<1>7. ASSUME NEW q \in DOMAIN t, NEW k \in 0..t[q].rank
      PROVE  \E p \in DOMAIN t : t[p].rank = k
  <2>1. CASE k = 0
    BY <1>2, <1>5, <2>1
  <2>2. CASE k # 0
    <3>1. q \in Responses!Ids \ {id} /\ k \in 1..Responses!Behind(q, id)
      BY <1>2, <1>4, <1>5, <2>2
    <3>2. PICK p \in Responses!Ids \ {id} : Responses!Behind(p, id) = k
      BY <1>3, <3>1, BehindRanks
    <3> QED
      BY <1>2, <1>5, <3>2
  <2> QED
    BY <2>1, <2>2
<1>8. Table(t)
  BY <1>2, <1>5, <1>6, <1>7 DEF Table, StoreOK, Responses!Ids
<1>9. \A q \in Responses!Ids : t[q].rank < MaxStored
  <2>1. /\ \A q \in Responses!Ids : store[q].rank \in Nat /\ store[q].rank < MaxStored
        /\ \A q \in Responses!Ids : store[q].rank = store[id].rank => q = id
        /\ MaxStored \in Nat
    BY DEF StoreOK, Table, StoredRows, Responses!Ids, Responses!BoundsOK
  <2>2. \A q \in Responses!Ids \ {id} : Responses!Behind(q, id) < MaxStored
    BY <2>1 DEF Responses!Behind
  <2> QED
    BY <1>5, <2>1, <2>2
<1> QED
  BY <1>1, <1>2, <1>5, <1>8, <1>9 DEF SameRows

LEMMA DeletedTable ==
  ASSUME StoreOK, NEW id \in Responses!Ids
  PROVE  /\ Table(Responses!Deleted(id)) /\ DOMAIN Responses!Deleted(id) = Responses!Ids \ {id}
         /\ SameRows(Responses!Deleted(id))
         /\ \A q \in Responses!Ids \ {id} : Responses!Deleted(id)[q].rank < MaxStored
<1> DEFINE New(q) == IF store[q].rank > store[id].rank THEN store[q].rank - 1
                                                       ELSE store[q].rank
<1>1. PICK t : t = Responses!Deleted(id)
  OBVIOUS
<1>2. /\ DOMAIN t = Responses!Ids \ {id} /\ t = [q \in DOMAIN t |-> t[q]]
      /\ \A q \in Responses!Ids \ {id} : t[q] = [store[q] EXCEPT !.rank = New(q)]
  BY <1>1 DEF Responses!Deleted
<1>3. /\ \A q \in Responses!Ids : store[q] \in StoredRows /\ store[q].rank \in Nat
      /\ \A q \in Responses!Ids : store[q].rank < MaxStored
      /\ \A p, q \in Responses!Ids : store[p].rank = store[q].rank => p = q
      /\ \A q \in Responses!Ids : \A k \in 0..store[q].rank : \E p \in Responses!Ids :
           store[p].rank = k
  BY DEF StoreOK, Table, StoredRows, Responses!Ids
<1>4. \A q \in Responses!Ids : New(q) \in Nat /\ New(q) <= store[q].rank
  BY <1>3
<1>5. \A q \in Responses!Ids \ {id} : /\ t[q] \in StoredRows /\ t[q].rank = New(q)
                                      /\ t[q].status = store[q].status /\ t[q].text = store[q].text
  <2> TAKE q \in Responses!Ids \ {id}
  <2>1. PICK old \in StoredRows : old = store[q]
    BY <1>3
  <2>2. PICK k \in Nat : k = New(q)
    BY <1>4
  <2>3. t[q] = [old EXCEPT !.rank = k]
    BY <1>2, <2>1, <2>2
  <2>4. /\ [old EXCEPT !.rank = k] \in StoredRows /\ [old EXCEPT !.rank = k].rank = k
        /\ [old EXCEPT !.rank = k].status = old.status
        /\ [old EXCEPT !.rank = k].text = old.text
    BY Reranked
  <2> QED
    BY <2>1, <2>2, <2>3, <2>4
<1>6. ASSUME NEW p \in Responses!Ids \ {id}, NEW q \in Responses!Ids \ {id}, New(p) = New(q)
      PROVE  p = q
  BY <1>3, <1>6
<1>7. ASSUME NEW q \in Responses!Ids \ {id}, NEW k \in 0..New(q)
      PROVE  \E p \in Responses!Ids \ {id} : New(p) = k
  <2>1. CASE k < store[id].rank
    <3>1. k \in 0..store[q].rank
      BY <1>3, <1>4
    <3>2. PICK p \in Responses!Ids : store[p].rank = k
      BY <1>3, <3>1
    <3> QED
      BY <1>3, <2>1, <3>2
  <2>2. CASE k >= store[id].rank
    <3>1. k + 1 \in 0..store[q].rank
      BY <1>3, <2>2
    <3>2. PICK p \in Responses!Ids : store[p].rank = k + 1
      BY <1>3, <3>1
    <3>3. p # id /\ New(p) = k
      BY <1>3, <2>2, <3>2
    <3> QED
      BY <3>3
  <2> QED
    BY <1>3, <1>4, <2>1, <2>2
<1> HIDE DEF New
<1>8. Table(t)
  <2>1. \A q \in DOMAIN t : t[q] \in StoredRows
    BY <1>2, <1>5
  <2>2. \A p, q \in DOMAIN t : t[p].rank = t[q].rank => p = q
    BY <1>2, <1>5, <1>6
  <2>3. \A q \in DOMAIN t : \A k \in 0..t[q].rank : \E p \in DOMAIN t : t[p].rank = k
    BY <1>2, <1>5, <1>7
  <2>4. DOMAIN t \subseteq Responses!Requests
    BY <1>2 DEF StoreOK, Table, Responses!Ids
  <2> QED
    BY <1>2, <2>1, <2>2, <2>3, <2>4 DEF Table
<1>9. \A q \in Responses!Ids \ {id} : t[q].rank < MaxStored
  BY <1>3, <1>4, <1>5
<1> QED
  BY <1>1, <1>2, <1>5, <1>8, <1>9 DEF SameRows

(* What a put leaves in the table.                                         *)
LEMMA PutTable ==
  ASSUME Responses!BoundsOK, StoreOK, NEW id \in Responses!Requests, NEW row \in StoredRows,
         row.rank = 0,
         NEW t,
         t = Responses!Without(Responses!Inserted(id, row),
                               Responses!Evicted(Responses!Inserted(id, row)))
  PROVE  /\ Table(t) /\ \A q \in DOMAIN t : t[q].rank < MaxStored
         /\ id \in DOMAIN t /\ t[id] = row
         /\ \A q \in DOMAIN t \ {id} : q \in Responses!Ids /\ t[q].status = store[q].status
                                                 /\ t[q].text = store[q].text
         /\ Responses!Ids \subseteq DOMAIN t \cup Responses!Evicted(Responses!Inserted(id, row))
         /\ DOMAIN t \cap Responses!Evicted(Responses!Inserted(id, row)) = {}
<1>1. PICK all : all = Responses!Inserted(id, row)
  OBVIOUS
<1>2. /\ Table(all) /\ DOMAIN all = Responses!Ids \cup {id} /\ all[id] = row
      /\ \A q \in Responses!Ids \ {id} : all[q].status = store[q].status
           /\ all[q].text = store[q].text
  BY <1>1, InsertedTable
<1>3. \A q \in DOMAIN all : all[q].rank \in Nat
  BY <1>2 DEF Table, StoredRows
<1>4. MaxStored \in Nat /\ MaxStored > 0
  BY DEF Responses!BoundsOK
<1>5. PICK out : out = Responses!Evicted(all)
  OBVIOUS
<1>6. /\ \A q \in DOMAIN all : q \in out <=> all[q].rank >= MaxStored
      /\ out \subseteq DOMAIN all
  BY <1>5 DEF Responses!Evicted
<1>7. /\ DOMAIN t = DOMAIN all \ out /\ t = [q \in DOMAIN t |-> t[q]]
      /\ \A q \in DOMAIN t : t[q] = all[q]
  BY <1>1, <1>5 DEF Responses!Without
<1>8. \A q \in DOMAIN t : t[q].rank < MaxStored
  BY <1>3, <1>4, <1>6, <1>7
<1>9. id \in DOMAIN t /\ t[id] = row
  BY <1>2, <1>4, <1>6, <1>7
<1>10. ASSUME NEW q \in DOMAIN t, NEW k \in 0..t[q].rank
       PROVE  \E p \in DOMAIN t : t[p].rank = k
  <2>1. PICK p \in DOMAIN all : all[p].rank = k
    BY <1>2, <1>7 DEF Table
  <2>2. k < MaxStored
    BY <1>3, <1>4, <1>7, <1>8
  <2> QED
    BY <1>3, <1>4, <1>6, <1>7, <2>1, <2>2
<1>11. Table(t)
  BY <1>2, <1>7, <1>10 DEF Table
<1> QED
  BY <1>1, <1>2, <1>5, <1>6, <1>7, <1>8, <1>9, <1>11

Items   == [item : {"delta", "tool", "end"}, n : Nat]
Batches == [buf : Seq(Nat), armed : BOOLEAN, writing : Seq(Nat)]

TableTypes ==
  /\ StoreOK
  /\ mapping \in [Conversations -> Responses!Requests \cup {"none"}]
  /\ place \in [Responses!Requests -> Conversations \cup {"none", "unstored"}]

Stages == Responses!Over \cup {"created", "call", "drain", "result", "close", "snapshot", "final"}

WorkTypes ==
  /\ writer \in [Responses!Requests -> Stages]
  /\ turn \in [Responses!Requests -> {"none", "running", "ok", "error", "raised", "cancelled"}]
  /\ said \in [Responses!Requests -> Nat]
  /\ feed \in [Responses!Requests -> Seq(Items)]
  /\ batch \in [Responses!Requests -> Batches]
  /\ opened \in [Responses!Requests -> BOOLEAN] /\ raced \in [Responses!Requests -> BOOLEAN]
  /\ parts \in [Responses!Requests -> Seq(Nat)] /\ text \in [Responses!Requests -> Seq(Nat)]

Early == {"created", "drain"}

(* A request of which there is no text yet.                                *)
Fresh(q) ==
  /\ said[q] = 0 /\ feed[q] = <<>> /\ parts[q] = <<>>
  /\ batch[q].buf = <<>> /\ batch[q].writing = <<>>

(* How far the writer is tells how far the turn is, and the sentinel is    *)
(* the last item of a turn that has ended.                                 *)
StageOK(q) ==
  /\ q \notin Streamed => writer[q] \in {"idle", "call", "over", "dead"}
  /\ q \in Streamed => writer[q] # "call"
  /\ writer[q] = "idle" => turn[q] = "none" /\ Fresh(q)
  /\ q \in Streamed /\ turn[q] = "running" => writer[q] \in {"created", "drain"}
  /\ \A i \in 1..Len(feed[q]) :
       feed[q][i].item = "end" => turn[q] \in {"ok", "error", "raised"} /\ i = Len(feed[q])

(* The numbers that follow k.                                              *)
Follows(s, k) == \A i \in 1..Len(s) : s[i] = k + i

Taken(q) == Len(parts[q]) + Len(batch[q].writing) + Len(batch[q].buf)

(* Until the sentinel is taken the deltas lie, in their order, in what has *)
(* been written, what a timer is about to write, the batch and the queue.  *)
Gathered(q) ==
  /\ Follows(parts[q], 0)
  /\ Follows(batch[q].writing, Len(parts[q]))
  /\ Follows(batch[q].buf, Len(parts[q]) + Len(batch[q].writing))

Waiting(q) ==
  /\ \A i \in 1..Len(feed[q]) :
       feed[q][i].item = "delta" => feed[q][i].n > Taken(q) /\ feed[q][i].n <= said[q]
  /\ \A i, j \in 1..Len(feed[q]) :
       i < j /\ feed[q][i].item = "delta" /\ feed[q][j].item = "delta" =>
         feed[q][i].n < feed[q][j].n
  /\ \A k \in (Taken(q) + 1) .. said[q] :
       \E i \in 1..Len(feed[q]) : feed[q][i].item = "delta" /\ feed[q][i].n = k
  /\ Taken(q) <= said[q]

(* Then a writer no timer got in the way of has all of it.                 *)
Settled(q) ==
  /\ batch[q].buf = <<>> /\ batch[q].writing = <<>>
  /\ writer[q] = "result" => Follows(parts[q], 0) /\ Len(parts[q]) = said[q]
  /\ writer[q] = "close" /\ turn[q] = "ok" => parts[q] = Responses!Reply(q)
  /\ writer[q] = "snapshot" /\ turn[q] = "ok" => text[q] = Responses!Reply(q)

TextOK(q) ==
  q \in Streamed =>
    /\ writer[q] \in Early => Gathered(q) /\ Waiting(q)
    /\ writer[q] \in {"result", "close", "snapshot"} /\ ~raced[q] => Settled(q)

(* What is stored of a request, given what has become of it.               *)
RowOK(q) ==
  q \in Responses!Ids =>
    /\ place[q] # "unstored" /\ writer[q] \notin {"idle", "created", "call"}
    /\ q \in Streamed /\ store[q].status = "completed" => writer[q] \in {"final", "over", "dead"}
    /\ q \in Streamed /\ writer[q] \in {"final", "over"} => store[q].status = Responses!Verdict(q)
    /\ writer[q] = "broken" => store[q].status = "incomplete"
    /\ q \in Streamed /\ store[q].status = "completed" /\ turn[q] = "ok" /\ ~raced[q] =>
         store[q].text = Responses!Reply(q)

ResponseInv ==
  /\ TableTypes /\ WorkTypes /\ Responses!ConversationResolves
  /\ \A q \in Responses!Requests : StageOK(q) /\ TextOK(q) /\ RowOK(q)

LEMMA ResponsesBegin ==
  ASSUME Responses!BoundsOK, Responses!Init
  PROVE  ResponseInv
<1>1. Responses!Ids = {} /\ StoreOK
  BY DEF Responses!Init, StoreOK, Table, Responses!Ids
<1>2. TableTypes
  BY <1>1 DEF Responses!Init, TableTypes
<1>3. Responses!Idle \in Batches
  BY DEF Responses!Idle, Batches
<1>4. WorkTypes
  BY <1>3 DEF Responses!Init, WorkTypes, Stages, Responses!Over
<1>5. Responses!ConversationResolves
  BY DEF Responses!Init, Responses!ConversationResolves
<1>6. ASSUME NEW q \in Responses!Requests
      PROVE  StageOK(q) /\ TextOK(q) /\ RowOK(q)
  <2>1. /\ writer[q] = "idle" /\ turn[q] = "none" /\ feed[q] = <<>> /\ said[q] = 0
        /\ batch[q].buf = <<>> /\ batch[q].writing = <<>> /\ parts[q] = <<>>
    BY DEF Responses!Init, Responses!Idle
  <2> QED
    BY <1>1, <2>1 DEF StageOK, Fresh, TextOK, Early, RowOK
<1> QED
  BY <1>2, <1>4, <1>5, <1>6 DEF ResponseInv

LEMMA ResponsesImply ==
  ASSUME Responses!BoundsOK, ResponseInv
  PROVE  Responses!ConversationResolves /\ Responses!OutcomeStored /\ Responses!TextIsWhole
<1>1. Responses!Ids \subseteq Responses!Requests
  BY DEF ResponseInv, TableTypes, StoreOK, Table, Responses!Ids
<1> QED
  BY <1>1 DEF ResponseInv, RowOK, Responses!OutcomeStored, Responses!TextIsWhole

LEMMA ResponseTypes ==
  ASSUME Responses!BoundsOK, ResponseInv
  PROVE  Responses!TypeOK
<1>1. /\ Responses!Ids \subseteq Responses!Requests
      /\ \A q \in Responses!Ids :
           /\ store[q].status \in {"in_progress", "incomplete", "failed", "completed"}
           /\ store[q].rank \in Nat /\ store[q].rank < MaxStored
  BY DEF ResponseInv, TableTypes, StoreOK, Table, Responses!Ids, StoredRows
<1>2. \A q \in Responses!Ids : store[q].rank \in 0..(MaxStored - 1)
  BY <1>1 DEF Responses!BoundsOK
<1>3. \A q \in Responses!Ids :
        /\ \A p \in Responses!Ids : store[p].rank = store[q].rank => p = q
        /\ \A k \in 0..store[q].rank : \E p \in Responses!Ids : store[p].rank = k
  BY DEF ResponseInv, TableTypes, StoreOK, Table, Responses!Ids
<1> QED
  BY <1>1, <1>2, <1>3 DEF Responses!TypeOK, ResponseInv, TableTypes, WorkTypes, Stages

(* Only what is stored of the requests in S changes, and it is in order.   *)
RowsStay(S) ==
  /\ TableTypes' /\ Responses!ConversationResolves'
  /\ \A p \in Responses!Ids' \ S : p \in Responses!Ids /\ store'[p].status = store[p].status
                                    /\ store'[p].text = store[p].text

LEMMA PersistKeeps ==
  ASSUME Responses!BoundsOK, ResponseInv, NEW q \in Responses!Requests, place' = place,
         NEW outcome \in {"in_progress", "incomplete", "failed", "completed"},
         NEW words \in Seq(Nat), Responses!Persist(q, outcome, words)
  PROVE  /\ RowsStay({q})
         /\ q \in Responses!Ids' => place[q] # "unstored" /\ store'[q].status = outcome
                                                /\ store'[q].text = words
<1>1. StoreOK /\ TableTypes /\ Responses!ConversationResolves /\ RowOK(q)
  BY DEF ResponseInv, TableTypes
<1>2. CASE place[q] = "unstored"
  <2>1. store' = store /\ mapping' = mapping
    BY <1>2 DEF Responses!Persist
  <2>2. Responses!Ids' = Responses!Ids /\ StoreOK' /\ q \notin Responses!Ids
    BY <1>1, <1>2, <2>1 DEF Responses!Ids, StoreOK, Table, RowOK
  <2> QED
    BY <1>1, <2>1, <2>2 DEF RowsStay, TableTypes, Responses!ConversationResolves
<1>3. CASE place[q] # "unstored"
  <2>1. PICK row : row = [status |-> outcome, text |-> words, rank |-> 0]
    OBVIOUS
  <2>2. row \in StoredRows /\ row.status = outcome /\ row.text = words /\ row.rank = 0
    BY <2>1 DEF StoredRows
  <2>3. Responses!Put(q, row)
    BY <1>3, <2>1 DEF Responses!Persist
  <2>4. PICK out : out = Responses!Evicted(Responses!Inserted(q, row))
    OBVIOUS
  <2>5. /\ store' = Responses!Without(Responses!Inserted(q, row),
                                      Responses!Evicted(Responses!Inserted(q, row)))
        /\ mapping' = IF place[q] \in Conversations
                        THEN [Responses!Unmapped(out) EXCEPT ![place[q]] = q]
                          ELSE Responses!Unmapped(out)
    BY <2>3, <2>4 DEF Responses!Put
  <2>6. /\ Table(store') /\ \A p \in DOMAIN store' : store'[p].rank < MaxStored
        /\ q \in DOMAIN store' /\ store'[q] = row
        /\ \A p \in DOMAIN store' \ {q} : p \in Responses!Ids /\ store'[p].status = store[p].status
                                                    /\ store'[p].text = store[p].text
        /\ Responses!Ids \subseteq DOMAIN store' \cup out
    BY <1>1, <2>2, <2>4, <2>5, PutTable
  <2>7. StoreOK' /\ Responses!Ids' = DOMAIN store'
    BY <2>6 DEF StoreOK, Table, Responses!Ids
  <2>8. /\ Responses!Unmapped(out) \in [Conversations -> Responses!Requests \cup {"none"}]
        /\ \A c \in Conversations : Responses!Unmapped(out)[c] \in DOMAIN store' \cup {"none"}
    BY <1>1, <2>6 DEF Responses!Unmapped, TableTypes, Responses!ConversationResolves
  <2>9. /\ mapping' \in [Conversations -> Responses!Requests \cup {"none"}]
        /\ \A c \in Conversations : mapping'[c] \in DOMAIN store' \cup {"none"}
    BY <2>5, <2>6, <2>8
  <2> QED
    BY <1>1, <1>3, <2>2, <2>6, <2>7, <2>9 DEF RowsStay, TableTypes, Responses!ConversationResolves
<1> QED
  BY <1>2, <1>3

(* What request p is up to stays.                                          *)
Rests(p) ==
  /\ place'[p] = place[p] /\ writer'[p] = writer[p] /\ turn'[p] = turn[p]
  /\ said'[p] = said[p] /\ feed'[p] = feed[p] /\ batch'[p] = batch[p]
  /\ parts'[p] = parts[p] /\ text'[p] = text[p] /\ raced'[p] = raced[p]

LEMMA RestKeeps ==
  ASSUME ResponseInv, NEW p \in Responses!Requests, Rests(p)
  PROVE  StageOK(p)' /\ TextOK(p)'
<1>1. StageOK(p) /\ TextOK(p)
  BY DEF ResponseInv
<1>2. StageOK(p)'
  BY <1>1 DEF Rests, StageOK, Fresh
<1>3. Taken(p)' = Taken(p) /\ Responses!Reply(p)' = Responses!Reply(p)
  BY DEF Rests, Taken, Responses!Reply
<1>4. (Gathered(p) => Gathered(p)') /\ (Waiting(p) => Waiting(p)')
  <2>1. /\ parts'[p] = parts[p] /\ batch'[p] = batch[p] /\ feed'[p] = feed[p]
        /\ said'[p] = said[p]
    BY DEF Rests
  <2>2. Gathered(p) => Gathered(p)'
    BY <2>1 DEF Gathered, Follows
  <2>3. Waiting(p) => Waiting(p)'
    BY <1>3, <2>1 DEF Waiting
  <2> QED
    BY <2>2, <2>3
<1>5. Settled(p) => Settled(p)'
  BY <1>3 DEF Rests, Settled, Follows
<1> QED
  BY <1>1, <1>2, <1>4, <1>5 DEF TextOK, Rests

(* Request q moves and no other.                                           *)
OthersRest(q) == \A p \in Responses!Requests \ {q} : Rests(p)

LEMMA OthersKeep ==
  ASSUME ResponseInv, NEW q \in Responses!Requests, OthersRest(q), RowsStay({q}),
         NEW p \in Responses!Requests \ {q}
  PROVE  StageOK(p)' /\ TextOK(p)' /\ RowOK(p)'
<1>1. Rests(p) /\ RowOK(p)
  BY DEF ResponseInv, OthersRest
<1>2. StageOK(p)' /\ TextOK(p)'
  BY <1>1, RestKeeps
<1>3. RowOK(p)'
  BY <1>1 DEF Rests, RowsStay, RowOK, Responses!Verdict, Responses!Reply
<1> QED
  BY <1>2, <1>3

(* A step of q that keeps the types, leaves the rest alone and keeps what  *)
(* holds of q.                                                             *)
LEMMA OneMoves ==
  ASSUME ResponseInv, NEW q \in Responses!Requests, OthersRest(q), RowsStay({q}), WorkTypes',
         StageOK(q)', TextOK(q)', RowOK(q)'
  PROVE  ResponseInv'
<1>1. \A p \in Responses!Requests \ {q} : StageOK(p)' /\ TextOK(p)' /\ RowOK(p)'
  BY OthersKeep
<1> QED
  BY <1>1 DEF ResponseInv, RowsStay

(* Nothing stored changes.                                                 *)
LEMMA RowsUntouched ==
  ASSUME ResponseInv, store' = store, mapping' = mapping, place' = place
  PROVE  RowsStay({}) /\ Responses!Ids' = Responses!Ids
BY DEF ResponseInv, RowsStay, TableTypes, StoreOK, Table, Responses!Ids,
   Responses!ConversationResolves

LEMMA StayMore ==
  ASSUME RowsStay({}), NEW q
  PROVE  RowsStay({q})
BY DEF RowsStay

LEMMA GetKeeps ==
  ASSUME Responses!BoundsOK, ResponseInv, NEW id, Responses!Get(id)
  PROVE  ResponseInv'
<1>1. /\ id \in Responses!Ids /\ store' = Responses!Touched(id) /\ mapping' = mapping
      /\ place' = place
      /\ writer' = writer /\ turn' = turn /\ said' = said /\ feed' = feed /\ batch' = batch
      /\ opened' = opened /\ parts' = parts /\ text' = text /\ raced' = raced
  BY DEF Responses!Get, Responses!reply
<1>2. StoreOK' /\ Responses!Ids' = Responses!Ids /\ SameRows(store')
  BY <1>1, TouchedTable DEF ResponseInv, TableTypes, StoreOK, Responses!Ids
<1>3. RowsStay({})
  BY <1>1, <1>2 DEF RowsStay, SameRows, ResponseInv, TableTypes, Responses!ConversationResolves,
     Responses!Ids
<1>4. id \in Responses!Requests /\ OthersRest(id)
  BY <1>1 DEF ResponseInv, TableTypes, StoreOK, Table, Responses!Ids, OthersRest, Rests
<1>5. WorkTypes'
  BY <1>1 DEF ResponseInv, WorkTypes
<1>6. StageOK(id)' /\ TextOK(id)'
  BY <1>1, <1>4, RestKeeps DEF Rests
<1>7. RowOK(id)'
  BY <1>1, <1>3, <1>4 DEF ResponseInv, RowsStay, RowOK, Responses!Verdict, Responses!Reply
<1> QED
  BY <1>3, <1>4, <1>5, <1>6, <1>7, OneMoves, StayMore

LEMMA DeleteKeeps ==
  ASSUME Responses!BoundsOK, ResponseInv, NEW id, Responses!Delete(id)
  PROVE  ResponseInv'
<1>1. /\ id \in Responses!Ids /\ store' = Responses!Deleted(id)
      /\ mapping' = Responses!Unmapped({id}) /\ place' = place
      /\ writer' = writer /\ turn' = turn /\ said' = said /\ feed' = feed /\ batch' = batch
      /\ opened' = opened /\ parts' = parts /\ text' = text /\ raced' = raced
  BY DEF Responses!Delete, Responses!reply
<1>2. StoreOK' /\ Responses!Ids' = Responses!Ids \ {id} /\ SameRows(store')
  BY <1>1, DeletedTable DEF ResponseInv, TableTypes, StoreOK, Responses!Ids
<1>3. /\ mapping' \in [Conversations -> Responses!Requests \cup {"none"}]
      /\ \A c \in Conversations : mapping'[c] \in Responses!Ids' \cup {"none"}
  BY <1>1, <1>2 DEF Responses!Unmapped, ResponseInv, TableTypes, Responses!ConversationResolves
<1>4. RowsStay({})
  BY <1>1, <1>2, <1>3 DEF RowsStay, SameRows, ResponseInv, TableTypes,
     Responses!ConversationResolves, Responses!Ids
<1>5. id \in Responses!Requests /\ OthersRest(id)
  BY <1>1 DEF ResponseInv, TableTypes, StoreOK, Table, Responses!Ids, OthersRest, Rests
<1>6. WorkTypes'
  BY <1>1 DEF ResponseInv, WorkTypes
<1>7. StageOK(id)' /\ TextOK(id)'
  BY <1>1, <1>5, RestKeeps DEF Rests
<1>8. RowOK(id)'
  BY <1>2 DEF RowOK
<1> QED
  BY <1>4, <1>5, <1>6, <1>7, <1>8, OneMoves, StayMore

LEMMA AcceptKeeps ==
  ASSUME Responses!BoundsOK, ResponseInv, NEW q \in Responses!Requests, Responses!Accept(q)
  PROVE  ResponseInv'
<1>1. PICK name \in Conversations \cup {"none", "unstored"} :
       \E prior \in IF name \in Conversations THEN {mapping[name]}
                    ELSE Responses!Ids \cup {"none"} :
         /\ place' = [place EXCEPT ![q] = name]
         /\ IF prior \in Responses!Ids \cup {"none"}
              THEN /\ store' = IF prior = "none" THEN store ELSE Responses!Touched(prior)
                   /\ writer' = [writer EXCEPT ![q] = IF q \in Streamed THEN "created" ELSE "call"]
                   /\ turn' = [turn EXCEPT ![q] = "running"]
              ELSE /\ writer' = [writer EXCEPT ![q] = "over"]
                   /\ UNCHANGED <<store, turn>>
  BY DEF Responses!Accept
<1>2. PICK prior :
       /\ place' = [place EXCEPT ![q] = name]
       /\ IF prior \in Responses!Ids \cup {"none"}
            THEN /\ store' = IF prior = "none" THEN store ELSE Responses!Touched(prior)
                 /\ writer' = [writer EXCEPT ![q] = IF q \in Streamed THEN "created" ELSE "call"]
                 /\ turn' = [turn EXCEPT ![q] = "running"]
            ELSE /\ writer' = [writer EXCEPT ![q] = "over"]
                 /\ UNCHANGED <<store, turn>>
  BY <1>1
<1>3. /\ writer[q] = "idle" /\ mapping' = mapping /\ said' = said /\ feed' = feed
      /\ batch' = batch /\ opened' = opened /\ parts' = parts /\ text' = text /\ raced' = raced
  BY DEF Responses!Accept, Responses!reply
<1>4. StoreOK' /\ Responses!Ids' = Responses!Ids /\ SameRows(store')
  <2>1. CASE store' = store
    BY <2>1 DEF ResponseInv, TableTypes, StoreOK, Table, Responses!Ids, SameRows
  <2>2. CASE prior \in Responses!Ids /\ store' = Responses!Touched(prior)
    BY <2>2, TouchedTable DEF ResponseInv, TableTypes, StoreOK, Responses!Ids
  <2> QED
    BY <1>2, <2>1, <2>2
<1>5. place' \in [Responses!Requests -> Conversations \cup {"none", "unstored"}]
  BY <1>1, <1>2 DEF ResponseInv, TableTypes
<1>6. RowsStay({})
  BY <1>3, <1>4, <1>5 DEF RowsStay, SameRows, ResponseInv, TableTypes,
     Responses!ConversationResolves, Responses!Ids
<1>7. /\ writer'[q] \in {"created", "call", "over"} /\ turn'[q] \in {"running", turn[q]}
      /\ writer'[q] = "created" => q \in Streamed
      /\ writer'[q] = "call" => q \notin Streamed
      /\ writer'[q] = "over" => turn'[q] = turn[q]
      /\ \A p \in Responses!Requests \ {q} : writer'[p] = writer[p] /\ turn'[p] = turn[p]
      /\ writer' \in [Responses!Requests -> Stages]
      /\ turn' \in [Responses!Requests -> {"none", "running", "ok", "error", "raised", "cancelled"}]
  <2>1. /\ writer \in [Responses!Requests -> Stages] /\ {"created", "call", "over"} \subseteq Stages
        /\ turn \in [Responses!Requests ->
                        {"none", "running", "ok", "error", "raised", "cancelled"}]
    BY DEF ResponseInv, WorkTypes, Stages, Responses!Over
  <2> QED
    BY <1>2, <2>1
<1>8. OthersRest(q)
  BY <1>2, <1>3, <1>7 DEF OthersRest, Rests, ResponseInv, TableTypes
<1>9. WorkTypes'
  BY <1>3, <1>7 DEF ResponseInv, WorkTypes
<1>10. StageOK(q) /\ TextOK(q) /\ RowOK(q)
  BY DEF ResponseInv
<1>11. turn[q] = "none" /\ q \notin Responses!Ids
  BY <1>3, <1>10 DEF StageOK, RowOK
<1>12. StageOK(q)'
  BY <1>3, <1>7, <1>10, <1>11 DEF StageOK
<1>13. TextOK(q)'
  <2>1. /\ said'[q] = 0 /\ feed'[q] = <<>> /\ parts'[q] = <<>>
        /\ batch'[q].buf = <<>> /\ batch'[q].writing = <<>>
    BY <1>3, <1>10 DEF StageOK, Fresh
  <2>2. Taken(q)' = 0
    BY <2>1 DEF Taken
  <2> QED
    BY <1>7, <2>1, <2>2 DEF TextOK, Early, Gathered, Waiting, Follows
<1>14. RowOK(q)'
  BY <1>4, <1>11 DEF RowOK
<1> QED
  BY <1>6, <1>8, <1>9, <1>12, <1>13, <1>14, OneMoves, StayMore

LEMMA CallReturnsKeeps ==
  ASSUME Responses!BoundsOK, ResponseInv, NEW q \in Responses!Requests, Responses!CallReturns(q)
  PROVE  ResponseInv'
<1>1. /\ writer[q] = "call" /\ place' = place /\ said' = said /\ feed' = feed
      /\ batch' = batch /\ opened' = opened /\ parts' = parts /\ text' = text /\ raced' = raced
      /\ writer' = [writer EXCEPT ![q] = "over"]
      /\ \E how \in {"ok", "raised"} : turn' = [turn EXCEPT ![q] = how]
      /\ Responses!Persist(q, "completed", <<>>) \/ (store' = store /\ mapping' = mapping)
  BY DEF Responses!CallReturns, Responses!reply
<1>2. StageOK(q) /\ RowOK(q)
  BY DEF ResponseInv
<1>3. q \notin Streamed
  BY <1>1, <1>2 DEF StageOK
<1>4. /\ writer'[q] = "over" /\ turn'[q] \in {"ok", "raised"}
      /\ \A p \in Responses!Requests \ {q} : writer'[p] = writer[p] /\ turn'[p] = turn[p]
      /\ writer' \in [Responses!Requests -> Stages]
      /\ turn' \in [Responses!Requests -> {"none", "running", "ok", "error", "raised", "cancelled"}]
  BY <1>1 DEF ResponseInv, WorkTypes, Stages, Responses!Over
<1>5. RowsStay({q}) /\ (q \in Responses!Ids' => place[q] # "unstored")
  <2>1. CASE Responses!Persist(q, "completed", <<>>)
    <3>1. <<>> \in Seq(Nat)
      OBVIOUS
    <3> QED
      BY <1>1, <2>1, <3>1, PersistKeeps
  <2>2. CASE store' = store /\ mapping' = mapping
    BY <1>1, <1>2, <2>2, RowsUntouched, StayMore DEF RowOK
  <2> QED
    BY <1>1, <2>1, <2>2
<1>6. OthersRest(q)
  BY <1>1, <1>4 DEF OthersRest, Rests
<1>7. WorkTypes'
  BY <1>1, <1>4 DEF ResponseInv, WorkTypes
<1>8. StageOK(q)' /\ TextOK(q)' /\ RowOK(q)'
  <2>1. StageOK(q)'
    BY <1>1, <1>2, <1>3, <1>4 DEF StageOK
  <2> QED
    BY <1>1, <1>3, <1>4, <1>5, <2>1 DEF TextOK, RowOK
<1> QED
  BY <1>5, <1>6, <1>7, <1>8, OneMoves

(* What an item at the end of the queue leaves in place.                   *)
LEMMA EnqueueFacts ==
  ASSUME WorkTypes, NEW q \in Responses!Requests, NEW item \in {"delta", "tool", "end"},
         NEW n \in Nat,
         Responses!Enqueue(q, item, n)
  PROVE  /\ feed' \in [Responses!Requests -> Seq(Items)]
         /\ \A p \in Responses!Requests \ {q} : feed'[p] = feed[p]
         /\ Len(feed[q]) \in Nat /\ Len(feed'[q]) = Len(feed[q]) + 1
         /\ \A i \in 1..Len(feed[q]) : feed'[q][i] = feed[q][i]
         /\ feed'[q][Len(feed[q]) + 1].item = item /\ feed'[q][Len(feed[q]) + 1].n = n
<1>1. PICK e : e = [item |-> item, n |-> n]
  OBVIOUS
<1>2. e \in Items /\ e.item = item /\ e.n = n
  BY <1>1 DEF Items
<1>3. feed' = [feed EXCEPT ![q] = Append(feed[q], e)]
  BY <1>1 DEF Responses!Enqueue
<1>4. PICK s \in Seq(Items) : s = feed[q]
  BY DEF WorkTypes
<1>5. /\ Append(s, e) \in Seq(Items) /\ Len(Append(s, e)) = Len(s) + 1 /\ Len(s) \in Nat
      /\ \A i \in 1..Len(s) : Append(s, e)[i] = s[i]
      /\ Append(s, e)[Len(s) + 1] = e
  BY <1>2
<1>6. feed'[q] = Append(s, e) /\ \A p \in Responses!Requests \ {q} : feed'[p] = feed[p]
  BY <1>3, <1>4 DEF WorkTypes
<1>7. feed' \in [Responses!Requests -> Seq(Items)]
  BY <1>3, <1>4, <1>5 DEF WorkTypes
<1> QED
  BY <1>2, <1>4, <1>5, <1>6, <1>7

LEMMA TakenType ==
  ASSUME WorkTypes, NEW q \in Responses!Requests
  PROVE  /\ Len(parts[q]) \in Nat /\ Len(batch[q].writing) \in Nat /\ Len(batch[q].buf) \in Nat
         /\ Taken(q) \in Nat /\ said[q] \in Nat
         /\ parts[q] \in Seq(Nat) /\ batch[q] \in Batches
         /\ batch[q].writing \in Seq(Nat) /\ batch[q].buf \in Seq(Nat)
<1>1. parts[q] \in Seq(Nat) /\ batch[q] \in Batches /\ said[q] \in Nat
  BY DEF WorkTypes
<1>2. batch[q].writing \in Seq(Nat) /\ batch[q].buf \in Seq(Nat)
  BY <1>1 DEF Batches
<1>3. /\ Len(parts[q]) \in Nat /\ Len(batch[q].writing) \in Nat /\ Len(batch[q].buf) \in Nat
  BY <1>1, <1>2
<1>4. Taken(q) \in Nat
  <2>1. PICK i \in Nat, j \in Nat, k \in Nat : Taken(q) = i + j + k
    BY <1>3 DEF Taken
  <2> QED
    BY <2>1
<1> QED
  BY <1>1, <1>2, <1>3, <1>4

LEMMA FeedType ==
  ASSUME WorkTypes, NEW q \in Responses!Requests
  PROVE  /\ Len(feed[q]) \in Nat /\ feed[q] \in Seq(Items)
         /\ \A i \in 1..Len(feed[q]) : feed[q][i].n \in Nat
<1>1. PICK s \in Seq(Items) : s = feed[q]
  BY DEF WorkTypes
<1>2. Len(s) \in Nat /\ \A i \in 1..Len(s) : s[i] \in Items
  BY ElementOfSeq
<1>3. \A i \in 1..Len(s) : s[i].n \in Nat
  BY <1>2 DEF Items
<1> QED
  BY <1>1, <1>2, <1>3

(* A row in which nothing has come to an end.                              *)
LEMMA RowWaits ==
  ASSUME ResponseInv, NEW q \in Streamed, store' = store, place' = place,
         writer[q] \in {"created", "drain", "result", "close", "snapshot"},
         writer'[q] \in {writer[q], "drain", "result", "close", "snapshot"}
  PROVE  RowOK(q)'
<1>1. RowOK(q) /\ Responses!Ids' = Responses!Ids
  BY DEF ResponseInv, Responses!Requests, Responses!Ids
<1> QED
  BY <1>1 DEF RowOK

LEMMA RowRests ==
  ASSUME ResponseInv, NEW q \in Responses!Requests, store' = store, place'[q] = place[q],
         writer'[q] = writer[q], turn'[q] = turn[q], said'[q] = said[q], raced'[q] = raced[q]
  PROVE  RowOK(q)'
<1>1. RowOK(q) /\ Responses!Ids' = Responses!Ids
  BY DEF ResponseInv, Responses!Ids
<1> QED
  BY <1>1 DEF RowOK, Responses!Verdict, Responses!Reply

(* An item that is no delta keeps the deltas in their order.               *)
LEMMA QuietItem ==
  ASSUME WorkTypes, NEW q \in Responses!Requests, NEW item \in {"tool", "end"},
         Responses!Enqueue(q, item, 0),
         said'[q] = said[q], Taken(q)' = Taken(q), Waiting(q)
  PROVE  Waiting(q)'
<1>1. /\ Len(feed[q]) \in Nat /\ Len(feed'[q]) = Len(feed[q]) + 1
      /\ \A i \in 1..Len(feed[q]) : feed'[q][i] = feed[q][i]
      /\ feed'[q][Len(feed[q]) + 1].item = item
  BY EnqueueFacts
<1>2. \A i \in 1..Len(feed'[q]) : feed'[q][i].item = "delta" => i \in 1..Len(feed[q])
  BY <1>1
<1>3. \A i \in 1..Len(feed[q]) : i \in 1..Len(feed'[q])
  BY <1>1
<1>4. \A k \in (Taken(q) + 1) .. said[q] :
        \E i \in 1..Len(feed'[q]) : feed'[q][i].item = "delta" /\ feed'[q][i].n = k
  BY <1>1, <1>3 DEF Waiting
<1>5. \A i \in 1..Len(feed'[q]) :
        feed'[q][i].item = "delta" => feed'[q][i].n > Taken(q) /\ feed'[q][i].n <= said[q]
  BY <1>1, <1>2 DEF Waiting
<1>6. \A i, j \in 1..Len(feed'[q]) :
        i < j /\ feed'[q][i].item = "delta" /\ feed'[q][j].item = "delta" =>
          feed'[q][i].n < feed'[q][j].n
  BY <1>1, <1>2 DEF Waiting
<1> QED
  BY <1>4, <1>5, <1>6 DEF Waiting

LEMMA SayKeeps ==
  ASSUME Responses!BoundsOK, ResponseInv, NEW q \in Responses!Requests, Responses!Say(q)
  PROVE  ResponseInv'
<1>1. /\ q \in Streamed /\ turn[q] = "running" /\ store' = store /\ mapping' = mapping
      /\ place' = place /\ writer' = writer /\ turn' = turn /\ batch' = batch
      /\ opened' = opened /\ parts' = parts /\ text' = text /\ raced' = raced
      /\ said' = [said EXCEPT ![q] = said[q] + 1] /\ Responses!Enqueue(q, "delta", said[q] + 1)
  BY DEF Responses!Say, Responses!Running
<1>2. WorkTypes /\ StageOK(q) /\ TextOK(q)
  BY DEF ResponseInv
<1>3. writer[q] \in {"created", "drain"}
  BY <1>1, <1>2 DEF StageOK
<1>4. /\ said[q] \in Nat /\ said'[q] = said[q] + 1 /\ said' \in [Responses!Requests -> Nat]
      /\ \A p \in Responses!Requests \ {q} : said'[p] = said[p]
  BY <1>1, <1>2 DEF WorkTypes
<1>5. /\ feed' \in [Responses!Requests -> Seq(Items)]
      /\ \A p \in Responses!Requests \ {q} : feed'[p] = feed[p]
      /\ Len(feed[q]) \in Nat /\ Len(feed'[q]) = Len(feed[q]) + 1
      /\ \A i \in 1..Len(feed[q]) : feed'[q][i] = feed[q][i]
      /\ feed'[q][Len(feed[q]) + 1].item = "delta"
      /\ feed'[q][Len(feed[q]) + 1].n = said[q] + 1
  <2>1. said[q] + 1 \in Nat
    BY <1>4
  <2> QED
    BY <1>1, <1>2, <2>1, EnqueueFacts
<1>6. WorkTypes'
  BY <1>1, <1>2, <1>4, <1>5 DEF WorkTypes
<1>7. OthersRest(q)
  BY <1>1, <1>4, <1>5 DEF OthersRest, Rests
<1>8. StageOK(q)'
  <2>1. \A i \in 1..Len(feed'[q]) : feed'[q][i].item # "end"
    BY <1>1, <1>2, <1>5 DEF StageOK
  <2> QED
    BY <1>1, <1>2, <2>1 DEF StageOK
<1>9. Gathered(q) /\ Waiting(q)
  BY <1>1, <1>2, <1>3 DEF TextOK, Early
<1>10. Taken(q)' = Taken(q) /\ Taken(q) \in Nat /\ Taken(q) <= said[q]
  BY <1>1, <1>2, <1>9, TakenType DEF Taken, Waiting
<1>11. Gathered(q)'
  BY <1>1, <1>9 DEF Gathered, Follows
<1>12. Waiting(q)'
  <2> DEFINE last == Len(feed[q]) + 1
  <2>1. \A i \in 1..Len(feed[q]) : feed[q][i].n \in Nat
    BY <1>2, FeedType
  <2>2. \A i \in 1..last : i = last \/ i \in 1..Len(feed[q])
    BY <1>5
  <2>3. ASSUME NEW i \in 1..last, feed'[q][i].item = "delta"
        PROVE  feed'[q][i].n > Taken(q) /\ feed'[q][i].n <= said[q] + 1
    <3>1. CASE i = last
      BY <1>4, <1>5, <1>10, <3>1
    <3>2. CASE i \in 1..Len(feed[q])
      <4>1. feed[q][i].n > Taken(q) /\ feed[q][i].n <= said[q] /\ feed'[q][i] = feed[q][i]
        BY <1>5, <1>9, <2>3, <3>2 DEF Waiting
      <4>2. feed[q][i].n \in Nat
        BY <2>1, <3>2
      <4> QED
        BY <1>4, <4>1, <4>2
    <3> QED
      BY <2>2, <3>1, <3>2
  <2>4. ASSUME NEW i \in 1..last, NEW j \in 1..last, i < j, feed'[q][i].item = "delta",
               feed'[q][j].item = "delta"
        PROVE  feed'[q][i].n < feed'[q][j].n
    <3>1. i \in 1..Len(feed[q])
      BY <1>5, <2>4
    <3>2. CASE j = last
      <4>1. feed[q][i].n <= said[q] /\ feed'[q][i] = feed[q][i]
        BY <1>5, <1>9, <2>4, <3>1 DEF Waiting
      <4>2. feed[q][i].n \in Nat /\ feed'[q][j].n = said[q] + 1
        BY <1>5, <2>1, <3>1, <3>2
      <4> QED
        BY <1>4, <4>1, <4>2
    <3>3. CASE j \in 1..Len(feed[q])
      BY <1>5, <1>9, <2>4, <3>1, <3>3 DEF Waiting
    <3> QED
      BY <2>2, <3>2, <3>3
  <2>5. ASSUME NEW k \in (Taken(q) + 1) .. (said[q] + 1)
        PROVE  \E i \in 1..last : feed'[q][i].item = "delta" /\ feed'[q][i].n = k
    <3>1. CASE k = said[q] + 1
      BY <1>5, <3>1
    <3>2. CASE k # said[q] + 1
      <4>1. k \in (Taken(q) + 1) .. said[q]
        BY <1>4, <1>10, <3>2
      <4>2. PICK i \in 1..Len(feed[q]) : feed[q][i].item = "delta" /\ feed[q][i].n = k
        BY <1>9, <4>1 DEF Waiting
      <4>3. i \in 1..last /\ feed'[q][i] = feed[q][i]
        BY <1>5, <4>2
      <4> QED
        BY <4>2, <4>3
    <3> QED
      BY <3>1, <3>2
  <2> QED
    BY <1>4, <1>5, <1>10, <2>3, <2>4, <2>5 DEF Waiting
<1>13. TextOK(q)'
  BY <1>1, <1>3, <1>11, <1>12 DEF TextOK
<1>14. RowOK(q)' /\ RowsStay({q})
  BY <1>1, <1>3, RowWaits, RowsUntouched, StayMore
<1> QED
  BY <1>6, <1>7, <1>8, <1>13, <1>14, OneMoves

LEMMA UseToolKeeps ==
  ASSUME Responses!BoundsOK, ResponseInv, NEW q \in Responses!Requests, Responses!UseTool(q)
  PROVE  ResponseInv'
<1>1. /\ q \in Streamed /\ turn[q] = "running" /\ store' = store /\ mapping' = mapping
      /\ place' = place /\ writer' = writer /\ turn' = turn /\ batch' = batch /\ said' = said
      /\ opened' = opened /\ parts' = parts /\ text' = text /\ raced' = raced
      /\ Responses!Enqueue(q, "tool", 0)
  BY DEF Responses!UseTool, Responses!Running
<1>2. WorkTypes /\ StageOK(q) /\ TextOK(q)
  BY DEF ResponseInv
<1>3. writer[q] \in {"created", "drain"}
  BY <1>1, <1>2 DEF StageOK
<1>4. /\ feed' \in [Responses!Requests -> Seq(Items)]
      /\ \A p \in Responses!Requests \ {q} : feed'[p] = feed[p]
      /\ Len(feed[q]) \in Nat /\ Len(feed'[q]) = Len(feed[q]) + 1
      /\ \A i \in 1..Len(feed[q]) : feed'[q][i] = feed[q][i]
      /\ feed'[q][Len(feed[q]) + 1].item = "tool"
  BY <1>1, <1>2, EnqueueFacts
<1>5. WorkTypes'
  BY <1>1, <1>2, <1>4 DEF WorkTypes
<1>6. OthersRest(q)
  BY <1>1, <1>4 DEF OthersRest, Rests
<1>7. StageOK(q)'
  <2>1. \A i \in 1..Len(feed'[q]) : feed'[q][i].item # "end"
    BY <1>1, <1>2, <1>4 DEF StageOK
  <2> QED
    BY <1>1, <1>2, <2>1 DEF StageOK
<1>8. Gathered(q) /\ Waiting(q)
  BY <1>1, <1>2, <1>3 DEF TextOK, Early
<1>9. Gathered(q)' /\ Taken(q)' = Taken(q)
  BY <1>1, <1>8 DEF Gathered, Follows, Taken
<1>10. Waiting(q)'
  BY <1>1, <1>2, <1>8, <1>9, QuietItem
<1>11. TextOK(q)'
  BY <1>1, <1>3, <1>9, <1>10 DEF TextOK
<1>12. RowOK(q)' /\ RowsStay({q})
  BY <1>1, <1>3, RowWaits, RowsUntouched, StayMore
<1> QED
  BY <1>5, <1>6, <1>7, <1>11, <1>12, OneMoves

LEMMA StreamTurnEndsKeeps ==
  ASSUME Responses!BoundsOK, ResponseInv, NEW q \in Responses!Requests, Responses!TurnEnds(q)
  PROVE  ResponseInv'
<1>1. PICK how \in {"ok", "error", "raised"} : turn' = [turn EXCEPT ![q] = how]
  BY DEF Responses!TurnEnds
<1>2. /\ q \in Streamed /\ turn[q] = "running" /\ store' = store /\ mapping' = mapping
      /\ place' = place /\ writer' = writer /\ batch' = batch /\ said' = said
      /\ opened' = opened /\ parts' = parts /\ text' = text /\ raced' = raced
      /\ Responses!Enqueue(q, "end", 0)
  BY DEF Responses!TurnEnds, Responses!Running
<1>3. WorkTypes /\ StageOK(q) /\ TextOK(q)
  BY DEF ResponseInv
<1>4. writer[q] \in {"created", "drain"}
  BY <1>2, <1>3 DEF StageOK
<1>5. /\ feed' \in [Responses!Requests -> Seq(Items)]
      /\ \A p \in Responses!Requests \ {q} : feed'[p] = feed[p]
      /\ Len(feed[q]) \in Nat /\ Len(feed'[q]) = Len(feed[q]) + 1
      /\ \A i \in 1..Len(feed[q]) : feed'[q][i] = feed[q][i]
      /\ feed'[q][Len(feed[q]) + 1].item = "end"
  BY <1>2, <1>3, EnqueueFacts
<1>6. /\ turn'[q] = how /\ \A p \in Responses!Requests \ {q} : turn'[p] = turn[p]
      /\ turn' \in [Responses!Requests -> {"none", "running", "ok", "error", "raised", "cancelled"}]
  BY <1>1, <1>3 DEF WorkTypes
<1>7. WorkTypes'
  BY <1>2, <1>3, <1>5, <1>6 DEF WorkTypes
<1>8. OthersRest(q)
  BY <1>2, <1>5, <1>6 DEF OthersRest, Rests
<1>9. StageOK(q)'
  <2>1. \A i \in 1..Len(feed[q]) : feed[q][i].item # "end"
    BY <1>2, <1>3 DEF StageOK
  <2>2. \A i \in 1..Len(feed'[q]) : feed'[q][i].item = "end" => i = Len(feed'[q])
    BY <1>5, <2>1
  <2> QED
    BY <1>2, <1>3, <1>4, <1>6, <2>2 DEF StageOK
<1>10. Gathered(q) /\ Waiting(q)
  BY <1>2, <1>3, <1>4 DEF TextOK, Early
<1>11. Gathered(q)' /\ Taken(q)' = Taken(q)
  BY <1>2, <1>10 DEF Gathered, Follows, Taken
<1>12. Waiting(q)'
  BY <1>2, <1>3, <1>10, <1>11, QuietItem
<1>13. TextOK(q)'
  BY <1>2, <1>4, <1>11, <1>12 DEF TextOK
<1>14. RowOK(q)' /\ RowsStay({q})
  BY <1>2, <1>4, RowWaits, RowsUntouched, StayMore
<1> QED
  BY <1>7, <1>8, <1>9, <1>13, <1>14, OneMoves

LEMMA FollowsConcat ==
  ASSUME NEW s \in Seq(Nat), NEW t \in Seq(Nat), NEW k \in Nat,
         Follows(s, k), Follows(t, k + Len(s))
  PROVE  Follows(s \o t, k)
<1>1. /\ Len(s \o t) = Len(s) + Len(t) /\ Len(s) \in Nat /\ Len(t) \in Nat
      /\ \A i \in 1..(Len(s) + Len(t)) :
           (s \o t)[i] = IF i <= Len(s) THEN s[i] ELSE t[i - Len(s)]
  OBVIOUS
<1>2. ASSUME NEW i \in 1..Len(s \o t) PROVE (s \o t)[i] = k + i
  <2>1. CASE i <= Len(s)
    BY <1>1, <2>1 DEF Follows
  <2>2. CASE i > Len(s)
    <3>1. i - Len(s) \in 1..Len(t)
      BY <1>1, <2>2
    <3>2. t[i - Len(s)] = (k + Len(s)) + (i - Len(s))
      BY <3>1 DEF Follows
    <3> QED
      BY <1>1, <2>2, <3>2
  <2> QED
    BY <1>1, <2>1, <2>2
<1> QED
  BY <1>2 DEF Follows

LEMMA FollowsAppend ==
  ASSUME NEW s \in Seq(Nat), NEW k \in Nat, NEW n \in Nat, Follows(s, k), n = k + Len(s) + 1
  PROVE  /\ Append(s, n) \in Seq(Nat) /\ Len(Append(s, n)) = Len(s) + 1
         /\ Follows(Append(s, n), k)
<1>1. /\ Append(s, n) \in Seq(Nat) /\ Len(Append(s, n)) = Len(s) + 1 /\ Len(s) \in Nat
      /\ \A i \in 1..Len(s) : Append(s, n)[i] = s[i]
      /\ Append(s, n)[Len(s) + 1] = n
  OBVIOUS
<1>2. ASSUME NEW i \in 1..(Len(s) + 1) PROVE Append(s, n)[i] = k + i
  BY <1>1 DEF Follows
<1> QED
  BY <1>1, <1>2 DEF Follows

(* The head of a queue is taken.                                           *)
LEMMA HeadTaken ==
  ASSUME WorkTypes, NEW q \in Responses!Requests, feed[q] # <<>>,
         feed' = [feed EXCEPT ![q] = Tail(@)]
  PROVE  /\ feed' \in [Responses!Requests -> Seq(Items)]
         /\ \A p \in Responses!Requests \ {q} : feed'[p] = feed[p]
         /\ Len(feed[q]) \in Nat \ {0} /\ Len(feed'[q]) = Len(feed[q]) - 1
         /\ \A i \in 1..(Len(feed[q]) - 1) : feed'[q][i] = feed[q][i + 1]
         /\ Head(feed[q]) = feed[q][1]
<1>1. PICK s \in Seq(Items) : s = feed[q]
  BY DEF WorkTypes
<1>2. /\ Tail(s) \in Seq(Items) /\ Len(s) \in Nat \ {0} /\ Len(Tail(s)) = Len(s) - 1
      /\ \A i \in 1..(Len(s) - 1) : Tail(s)[i] = s[i + 1]
      /\ Head(s) = s[1]
  BY <1>1
<1>3. feed'[q] = Tail(s) /\ \A p \in Responses!Requests \ {q} : feed'[p] = feed[p]
  BY <1>1 DEF WorkTypes
<1>4. feed' \in [Responses!Requests -> Seq(Items)]
  BY <1>1, <1>2 DEF WorkTypes
<1> QED
  BY <1>1, <1>2, <1>3, <1>4

LEMMA BatchFields ==
  ASSUME NEW held \in Batches, NEW s \in Seq(Nat)
  PROVE  /\ [held EXCEPT !.buf = s] \in Batches /\ [held EXCEPT !.buf = s].buf = s
         /\ [held EXCEPT !.buf = s].writing = held.writing
         /\ [held EXCEPT !.writing = s] \in Batches /\ [held EXCEPT !.writing = s].buf = held.buf
         /\ [held EXCEPT !.writing = s].writing = s
         /\ [held EXCEPT !.armed = TRUE] \in Batches /\ [held EXCEPT !.armed = TRUE].buf = held.buf
         /\ [held EXCEPT !.armed = TRUE].writing = held.writing
<1> DEFINE V == Seq(Nat)
<1>1. s \in V /\ held \in [buf : V, armed : BOOLEAN, writing : V]
  BY DEF Batches
<1> HIDE DEF V
<1>2. /\ [held EXCEPT !.buf = s] \in [buf : V, armed : BOOLEAN, writing : V]
      /\ [held EXCEPT !.writing = s] \in [buf : V, armed : BOOLEAN, writing : V]
      /\ [held EXCEPT !.armed = TRUE] \in [buf : V, armed : BOOLEAN, writing : V]
  BY <1>1
<1>3. /\ [held EXCEPT !.buf = s].buf = s /\ [held EXCEPT !.buf = s].writing = held.writing
      /\ [held EXCEPT !.writing = s].buf = held.buf /\ [held EXCEPT !.writing = s].writing = s
      /\ [held EXCEPT !.armed = TRUE].buf = held.buf
      /\ [held EXCEPT !.armed = TRUE].writing = held.writing
  BY <1>1
<1> QED
  BY <1>2, <1>3 DEF V, Batches

LEMMA NoText ==
  <<>> \in Seq(Nat) /\ Len(<<>>) = 0
OBVIOUS

(* What a flush of the writer leaves in the batch.                         *)
LEMMA FlushFacts ==
  ASSUME WorkTypes, NEW q \in Responses!Requests, Responses!FlushBatch(q)
  PROVE  /\ parts' \in [Responses!Requests -> Seq(Nat)]
         /\ batch' \in [Responses!Requests -> Batches]
         /\ opened' \in [Responses!Requests -> BOOLEAN]
         /\ \A p \in Responses!Requests \ {q} : parts'[p] = parts[p] /\ batch'[p] = batch[p]
         /\ batch'[q].buf = <<>> /\ batch'[q].writing = batch[q].writing
         /\ Len(parts'[q]) = Len(parts[q]) + Len(batch[q].buf)
         /\ Taken(q)' = Taken(q)
         /\ Gathered(q) => Gathered(q)'
<1>1. /\ Len(parts[q]) \in Nat /\ Len(batch[q].writing) \in Nat /\ Len(batch[q].buf) \in Nat
      /\ parts[q] \in Seq(Nat) /\ batch[q] \in Batches
      /\ batch[q].writing \in Seq(Nat) /\ batch[q].buf \in Seq(Nat)
  BY TakenType
<1>2. PICK held : held = [batch[q] EXCEPT !.buf = <<>>]
  OBVIOUS
<1>3. held \in Batches /\ held.buf = <<>> /\ held.writing = batch[q].writing
  BY <1>1, <1>2, NoText, BatchFields
<1>4. batch' = [batch EXCEPT ![q] = held]
  BY <1>2 DEF Responses!FlushBatch
<1>5. /\ batch' \in [Responses!Requests -> Batches] /\ batch'[q] = held
      /\ \A p \in Responses!Requests \ {q} : batch'[p] = batch[p]
  BY <1>3, <1>4 DEF WorkTypes
<1>6. PICK w : w = parts[q] \o batch[q].buf
  OBVIOUS
<1>7. w \in Seq(Nat) /\ Len(w) = Len(parts[q]) + Len(batch[q].buf)
  BY <1>1, <1>6
<1>8. parts' = [parts EXCEPT ![q] = w]
  BY <1>6 DEF Responses!FlushBatch
<1>9. /\ parts' \in [Responses!Requests -> Seq(Nat)] /\ parts'[q] = w
      /\ \A p \in Responses!Requests \ {q} : parts'[p] = parts[p]
  BY <1>7, <1>8 DEF WorkTypes
<1>10. opened' \in [Responses!Requests -> BOOLEAN]
  <2>1. PICK o \in BOOLEAN : opened' = [opened EXCEPT ![q] = o]
    BY DEF Responses!FlushBatch, WorkTypes
  <2> QED
    BY <2>1 DEF WorkTypes
<1>11. Taken(q)' = Taken(q)
  <2>1. Len(held.buf) = 0
    BY <1>3
  <2>2. Taken(q)' = Len(w) + Len(held.writing) + Len(held.buf)
    BY <1>5, <1>9 DEF Taken
  <2>3. PICK i \in Nat, j \in Nat, k \in Nat :
          i = Len(parts[q]) /\ j = Len(batch[q].writing) /\ k = Len(batch[q].buf)
    BY <1>1
  <2>4. Taken(q) = i + j + k
    BY <2>3 DEF Taken
  <2>5. Taken(q)' = (i + k) + j + 0
    BY <1>3, <1>7, <2>1, <2>2, <2>3
  <2> QED
    BY <2>4, <2>5
<1>12. ASSUME Gathered(q) PROVE Gathered(q)'
  <2>1. Follows(w, 0)
    <3>1. CASE batch[q].buf = <<>>
      <4>1. w = parts[q]
        BY <1>1, <1>6, <3>1
      <4> QED
        BY <1>12, <4>1 DEF Gathered
    <3>2. CASE batch[q].writing = <<>>
      <4>1. Follows(parts[q], 0) /\ Follows(batch[q].buf, 0 + Len(parts[q]))
        <5>1. Len(batch[q].writing) = 0
          BY <3>2
        <5>2. Len(parts[q]) + Len(batch[q].writing) = 0 + Len(parts[q])
          BY <1>1, <5>1
        <5> QED
          BY <1>12, <5>2 DEF Gathered
      <4> QED
        BY <1>1, <1>6, <4>1, FollowsConcat
    <3> QED
      BY <3>1, <3>2 DEF Responses!FlushBatch
  <2>2. Follows(held.writing, Len(w))
    <3>1. CASE batch[q].buf = <<>>
      <4>1. Len(w) = Len(parts[q])
        BY <1>1, <1>7, <3>1
      <4> QED
        BY <1>3, <1>12, <4>1 DEF Gathered
    <3>2. CASE batch[q].writing = <<>>
      BY <1>3, <3>2 DEF Follows
    <3> QED
      BY <3>1, <3>2 DEF Responses!FlushBatch
  <2>3. Follows(held.buf, Len(w) + Len(held.writing))
    BY <1>3 DEF Follows
  <2> QED
    BY <1>5, <1>9, <2>1, <2>2, <2>3 DEF Gathered, Follows
<1> QED
  BY <1>3, <1>5, <1>7, <1>9, <1>10, <1>11, <1>12

LEMMA CreatedKeeps ==
  ASSUME Responses!BoundsOK, ResponseInv, NEW q \in Responses!Requests, Responses!Created(q)
  PROVE  ResponseInv'
<1>1. /\ writer[q] = "created" /\ place' = place /\ turn' = turn /\ said' = said
      /\ feed' = feed /\ batch' = batch /\ opened' = opened /\ parts' = parts /\ text' = text
      /\ raced' = raced /\ writer' = [writer EXCEPT ![q] = "drain"]
      /\ Responses!Persist(q, "in_progress", <<>>)
  BY DEF Responses!Created, Responses!reply
<1>2. WorkTypes /\ StageOK(q) /\ TextOK(q)
  BY DEF ResponseInv
<1>3. /\ writer'[q] = "drain" /\ \A p \in Responses!Requests \ {q} : writer'[p] = writer[p]
      /\ writer' \in [Responses!Requests -> Stages]
  BY <1>1, <1>2 DEF WorkTypes, Stages, Responses!Over
<1>4. /\ RowsStay({q})
      /\ q \in Responses!Ids' => place[q] # "unstored" /\ store'[q].status = "in_progress"
  BY <1>1, NoText, PersistKeeps
<1>5. WorkTypes'
  BY <1>1, <1>2, <1>3 DEF WorkTypes
<1>6. OthersRest(q)
  BY <1>1, <1>3 DEF OthersRest, Rests
<1>7. StageOK(q)'
  BY <1>1, <1>2, <1>3 DEF StageOK
<1>8. TextOK(q)'
  BY <1>1, <1>2, <1>3 DEF TextOK, Early, Gathered, Waiting, Taken, Follows
<1>9. RowOK(q)'
  BY <1>1, <1>3, <1>4 DEF RowOK
<1> QED
  BY <1>4, <1>5, <1>6, <1>7, <1>8, <1>9, OneMoves

(* The deltas among the first m items of a queue are t + 1 to s in order.  *)
Ordered(g, m, t, s) ==
  /\ \A i \in 1..m : g[i].item = "delta" => g[i].n > t /\ g[i].n <= s
  /\ \A i, j \in 1..m :
       i < j /\ g[i].item = "delta" /\ g[j].item = "delta" => g[i].n < g[j].n
  /\ \A k \in (t + 1) .. s : \E i \in 1..m : g[i].item = "delta" /\ g[i].n = k
  /\ t <= s

LEMMA WaitingOrdered ==
  ASSUME NEW q
  PROVE  /\ Waiting(q) <=> Ordered(feed[q], Len(feed[q]), Taken(q), said[q])
         /\ Waiting(q)' <=> Ordered(feed'[q], Len(feed'[q]), Taken(q)', said'[q])
BY DEF Waiting, Ordered

LEMMA OrderedRest ==
  ASSUME NEW g, NEW h, NEW m \in Nat \ {0}, NEW t \in Nat, NEW s \in Nat,
         \A i \in 1..m : g[i].n \in Nat, \A i \in 1..(m - 1) : h[i] = g[i + 1],
         Ordered(g, m, t, s)
  PROVE  /\ g[1].item = "delta" => g[1].n = t + 1 /\ Ordered(h, m - 1, t + 1, s)
         /\ g[1].item # "delta" => Ordered(h, m - 1, t, s)
<1>1. 1 \in 1..m /\ \A i \in 1..(m - 1) : i + 1 \in 1..m /\ 1 < i + 1 /\ h[i] = g[i + 1]
  OBVIOUS
<1>2. /\ \A i \in 1..m : g[i].item = "delta" => g[i].n > t /\ g[i].n <= s
      /\ \A i, j \in 1..m :
           i < j /\ g[i].item = "delta" /\ g[j].item = "delta" => g[i].n < g[j].n
      /\ \A k \in (t + 1) .. s : \E i \in 1..m : g[i].item = "delta" /\ g[i].n = k
      /\ t <= s
  BY DEF Ordered
<1>3. ASSUME NEW i \in 1..(m - 1), NEW j \in 1..(m - 1), i < j,
             h[i].item = "delta", h[j].item = "delta"
      PROVE  h[i].n < h[j].n
  <2>1. i + 1 < j + 1 /\ i + 1 \in 1..m /\ j + 1 \in 1..m
    BY <1>3
  <2> QED
    BY <1>1, <1>2, <1>3, <2>1
<1>4. ASSUME g[1].item = "delta" PROVE g[1].n = t + 1
  <2>1. g[1].n > t /\ g[1].n <= s /\ g[1].n \in Nat
    BY <1>1, <1>2, <1>4
  <2>2. t + 1 \in (t + 1) .. s
    BY <2>1
  <2>3. PICK i \in 1..m : g[i].item = "delta" /\ g[i].n = t + 1
    BY <1>2, <2>2
  <2>4. i = 1 \/ 1 < i
    OBVIOUS
  <2>5. i = 1 \/ g[1].n < g[i].n
    BY <1>1, <1>2, <1>4, <2>3, <2>4
  <2> QED
    BY <2>1, <2>3, <2>5
<1>5. ASSUME NEW k, NEW i \in 1..m, i # 1, g[i].item = "delta", g[i].n = k
      PROVE  \E j \in 1..(m - 1) : h[j].item = "delta" /\ h[j].n = k
  <2>1. i - 1 \in 1..(m - 1) /\ (i - 1) + 1 = i
    BY <1>5
  <2>2. h[i - 1] = g[i]
    BY <1>1, <2>1
  <2> QED
    BY <1>5, <2>1, <2>2
<1>6. ASSUME g[1].item = "delta" PROVE Ordered(h, m - 1, t + 1, s)
  <2>1. ASSUME NEW i \in 1..(m - 1), h[i].item = "delta"
        PROVE  h[i].n > t + 1 /\ h[i].n <= s
    <3>1. g[1].n < g[i + 1].n /\ g[i + 1].n <= s /\ g[i + 1].n \in Nat
      BY <1>1, <1>2, <1>6, <2>1
    <3> QED
      BY <1>1, <1>4, <1>6, <3>1
  <2>2. ASSUME NEW k \in ((t + 1) + 1) .. s
        PROVE  \E i \in 1..(m - 1) : h[i].item = "delta" /\ h[i].n = k
    <3>1. k \in (t + 1) .. s /\ k # t + 1
      OBVIOUS
    <3>2. PICK i \in 1..m : g[i].item = "delta" /\ g[i].n = k
      BY <1>2, <3>1
    <3>3. i # 1
      BY <1>4, <1>6, <3>1, <3>2
    <3> QED
      BY <1>5, <3>2, <3>3
  <2>3. t + 1 <= s
    BY <1>1, <1>2, <1>4, <1>6
  <2> QED
    BY <1>3, <2>1, <2>2, <2>3 DEF Ordered
<1>7. ASSUME g[1].item # "delta" PROVE Ordered(h, m - 1, t, s)
  <2>1. \A i \in 1..(m - 1) : h[i].item = "delta" => h[i].n > t /\ h[i].n <= s
    BY <1>1, <1>2
  <2>2. ASSUME NEW k \in (t + 1) .. s
        PROVE  \E i \in 1..(m - 1) : h[i].item = "delta" /\ h[i].n = k
    <3>1. PICK i \in 1..m : g[i].item = "delta" /\ g[i].n = k
      BY <1>2
    <3>2. i # 1
      BY <1>7, <3>1
    <3> QED
      BY <1>5, <3>1, <3>2
  <2> QED
    BY <1>2, <1>3, <2>1, <2>2 DEF Ordered
<1> QED
  BY <1>4, <1>6, <1>7

(* The first item goes, and if it is a delta it is the next one.           *)
LEMMA NextInOrder ==
  ASSUME WorkTypes, NEW q \in Responses!Requests, Waiting(q), said'[q] = said[q],
         Len(feed[q]) \in Nat \ {0}, Len(feed'[q]) = Len(feed[q]) - 1,
         \A i \in 1..(Len(feed[q]) - 1) : feed'[q][i] = feed[q][i + 1]
  PROVE  /\ feed[q][1].item = "delta" =>
              feed[q][1].n = Taken(q) + 1 /\ (Taken(q)' = Taken(q) + 1 => Waiting(q)')
         /\ feed[q][1].item # "delta" => (Taken(q)' = Taken(q) => Waiting(q)')
<1>1. PICK m \in Nat \ {0} : m = Len(feed[q])
  OBVIOUS
<1>2. PICK g : g = feed[q]
  OBVIOUS
<1>3. PICK h : h = feed'[q]
  OBVIOUS
<1>4. PICK t \in Nat, s \in Nat : t = Taken(q) /\ s = said[q]
  BY TakenType
<1>5. \A i \in 1..m : g[i].n \in Nat
  BY <1>1, <1>2, FeedType
<1>6. \A i \in 1..(m - 1) : h[i] = g[i + 1]
  BY <1>1, <1>2, <1>3
<1>7. Ordered(g, m, t, s)
  BY <1>1, <1>2, <1>4, WaitingOrdered
<1>8. /\ g[1].item = "delta" => g[1].n = t + 1 /\ Ordered(h, m - 1, t + 1, s)
      /\ g[1].item # "delta" => Ordered(h, m - 1, t, s)
  BY <1>5, <1>6, <1>7, OrderedRest
<1> QED
  BY <1>1, <1>2, <1>3, <1>4, <1>8, WaitingOrdered

LEMMA NextDelta ==
  ASSUME WorkTypes, NEW q \in Responses!Requests, Waiting(q), feed[q] # <<>>,
         feed' = [feed EXCEPT ![q] = Tail(@)], said'[q] = said[q]
  PROVE  /\ feed[q][1].item = "delta" =>
              feed[q][1].n = Taken(q) + 1 /\ (Taken(q)' = Taken(q) + 1 => Waiting(q)')
         /\ feed[q][1].item # "delta" => (Taken(q)' = Taken(q) => Waiting(q)')
<1>1. /\ Len(feed[q]) \in Nat \ {0} /\ Len(feed'[q]) = Len(feed[q]) - 1
      /\ \A i \in 1..(Len(feed[q]) - 1) : feed'[q][i] = feed[q][i + 1]
  BY HeadTaken
<1> QED
  BY ONLY WorkTypes, q \in Responses!Requests, Waiting(q), said'[q] = said[q], <1>1, NextInOrder

(* The sentinel stays the last item.                                       *)
LEMMA TailEnds ==
  ASSUME WorkTypes, NEW q \in Responses!Requests, feed[q] # <<>>, StageOK(q),
         feed' = [feed EXCEPT ![q] = Tail(@)]
  PROVE  \A i \in 1..Len(feed'[q]) : feed'[q][i].item = "end" =>
           turn[q] \in {"ok", "error", "raised"} /\ i = Len(feed'[q])
<1>1. /\ Len(feed[q]) \in Nat \ {0} /\ Len(feed'[q]) = Len(feed[q]) - 1
      /\ \A i \in 1..(Len(feed[q]) - 1) : feed'[q][i] = feed[q][i + 1]
  BY HeadTaken
<1>2. \A i \in 1..Len(feed[q]) : feed[q][i].item = "end" =>
        turn[q] \in {"ok", "error", "raised"} /\ i = Len(feed[q])
  BY DEF StageOK
<1> TAKE i \in 1..Len(feed'[q])
<1>3. i + 1 \in 1..Len(feed[q]) /\ feed'[q][i] = feed[q][i + 1]
  BY <1>1
<1> QED
  BY <1>1, <1>2, <1>3

LEMMA TakeDeltaKeeps ==
  ASSUME Responses!BoundsOK, ResponseInv, NEW q \in Responses!Requests, Responses!TakeDelta(q)
  PROVE  ResponseInv'
<1>1. /\ writer[q] = "drain" /\ feed[q] # <<>> /\ Head(feed[q]).item = "delta"
      /\ feed' = [feed EXCEPT ![q] = Tail(@)]
      /\ store' = store /\ mapping' = mapping /\ place' = place /\ writer' = writer
      /\ turn' = turn /\ said' = said /\ opened' = opened /\ parts' = parts /\ text' = text
      /\ raced' = raced
  BY DEF Responses!TakeDelta, Responses!Arrives
<1>2. WorkTypes /\ StageOK(q) /\ TextOK(q)
  BY DEF ResponseInv
<1>3. q \in Streamed /\ Gathered(q) /\ Waiting(q)
  BY <1>1, <1>2 DEF StageOK, TextOK, Early
<1>4. /\ feed' \in [Responses!Requests -> Seq(Items)]
      /\ \A p \in Responses!Requests \ {q} : feed'[p] = feed[p]
      /\ Len(feed[q]) \in Nat \ {0} /\ Head(feed[q]) = feed[q][1]
  BY <1>1, <1>2, HeadTaken
<1>5. PICK n \in Nat : n = Head(feed[q]).n /\ n = Taken(q) + 1
  <2>1. feed[q][1].item = "delta" /\ 1 \in 1..Len(feed[q])
    BY <1>1, <1>4
  <2>2. feed[q][1].n = Taken(q) + 1
    BY <1>1, <1>2, <1>3, <2>1, NextDelta
  <2>3. feed[q][1].n \in Nat
    BY <1>2, <2>1, FeedType
  <2> QED
    BY <1>4, <2>2, <2>3
<1>6. /\ Len(parts[q]) \in Nat /\ Len(batch[q].writing) \in Nat /\ Len(batch[q].buf) \in Nat
      /\ batch[q] \in Batches /\ batch[q].buf \in Seq(Nat) /\ Taken(q) \in Nat
  BY <1>2, TakenType
<1>7. PICK i \in Nat, j \in Nat, k \in Nat :
        i = Len(parts[q]) /\ j = Len(batch[q].writing) /\ k = Len(batch[q].buf)
  BY <1>6
<1>8. Taken(q) = i + j + k
  BY <1>7 DEF Taken
<1>9. PICK s : s = Append(batch[q].buf, n)
  OBVIOUS
<1>10. s \in Seq(Nat) /\ Len(s) = k + 1 /\ Follows(s, i + j)
  <2>1. Follows(batch[q].buf, i + j) /\ n = (i + j) + Len(batch[q].buf) + 1
    BY <1>3, <1>5, <1>7, <1>8 DEF Gathered
  <2>2. i + j \in Nat
    OBVIOUS
  <2>3. PICK old \in Seq(Nat) : old = batch[q].buf
    BY <1>6
  <2>4. Follows(old, i + j) /\ n = (i + j) + Len(old) + 1
    BY <2>1, <2>3
  <2>5. /\ Append(old, n) \in Seq(Nat) /\ Len(Append(old, n)) = Len(old) + 1
        /\ Follows(Append(old, n), i + j)
    BY <2>2, <2>4, FollowsAppend
  <2> QED
    BY <1>7, <1>9, <2>3, <2>5
<1>11. PICK held : held = [[batch[q] EXCEPT !.buf = s] EXCEPT !.armed = TRUE]
  OBVIOUS
<1>12. held \in Batches /\ held.buf = s /\ held.writing = batch[q].writing
  <2>1. PICK c \in Batches : /\ c = [batch[q] EXCEPT !.buf = s] /\ c.buf = s
                             /\ c.writing = batch[q].writing
    <3>1. PICK old \in Batches : old = batch[q]
      BY <1>6
    <3>2. /\ [old EXCEPT !.buf = s] \in Batches /\ [old EXCEPT !.buf = s].buf = s
          /\ [old EXCEPT !.buf = s].writing = old.writing
      BY <1>10, BatchFields
    <3> QED
      BY <3>1, <3>2
  <2>2. held = [c EXCEPT !.armed = TRUE]
    BY <1>11, <2>1
  <2> QED
    BY <2>1, <2>2, NoText, BatchFields
<1>13. batch' = [batch EXCEPT ![q] = held]
  <2>1. batch' = [batch EXCEPT ![q].buf = Append(@, n), ![q].armed = TRUE]
    BY <1>5 DEF Responses!TakeDelta
  <2> QED
    BY <1>2, <1>9, <1>11, <2>1 DEF WorkTypes
<1>14. /\ batch' \in [Responses!Requests -> Batches] /\ batch'[q] = held
       /\ \A p \in Responses!Requests \ {q} : batch'[p] = batch[p]
  BY <1>2, <1>12, <1>13 DEF WorkTypes
<1>15. WorkTypes'
  BY <1>1, <1>2, <1>4, <1>14 DEF WorkTypes
<1>16. OthersRest(q)
  BY <1>1, <1>4, <1>14 DEF OthersRest, Rests
<1>17. StageOK(q)'
  BY <1>1, <1>2, TailEnds DEF StageOK
<1>18. Taken(q)' = Taken(q) + 1
  <2>1. Taken(q)' = i + j + (k + 1)
    BY <1>1, <1>7, <1>10, <1>12, <1>14 DEF Taken
  <2> QED
    BY <1>8, <2>1
<1>19. Gathered(q)'
  BY <1>1, <1>3, <1>7, <1>10, <1>12, <1>14 DEF Gathered, Follows
<1>20. Waiting(q)'
  BY <1>1, <1>2, <1>3, <1>4, <1>18, NextDelta
<1>21. TextOK(q)'
  BY <1>1, <1>19, <1>20 DEF TextOK
<1>22. RowOK(q)' /\ RowsStay({q})
  BY <1>1, <1>3, RowWaits, RowsUntouched, StayMore
<1> QED
  BY <1>15, <1>16, <1>17, <1>21, <1>22, OneMoves

LEMMA TakeToolKeeps ==
  ASSUME Responses!BoundsOK, ResponseInv, NEW q \in Responses!Requests, Responses!TakeTool(q)
  PROVE  ResponseInv'
<1>1. /\ writer[q] = "drain" /\ feed[q] # <<>> /\ Head(feed[q]).item = "tool"
      /\ feed' = [feed EXCEPT ![q] = Tail(@)] /\ Responses!FlushBatch(q)
      /\ store' = store /\ mapping' = mapping /\ place' = place /\ writer' = writer
      /\ turn' = turn /\ said' = said /\ text' = text /\ raced' = raced
  BY DEF Responses!TakeTool, Responses!Arrives
<1>2. WorkTypes /\ StageOK(q) /\ TextOK(q)
  BY DEF ResponseInv
<1>3. q \in Streamed /\ Gathered(q) /\ Waiting(q)
  BY <1>1, <1>2 DEF StageOK, TextOK, Early
<1>4. /\ feed' \in [Responses!Requests -> Seq(Items)]
      /\ \A p \in Responses!Requests \ {q} : feed'[p] = feed[p]
      /\ Head(feed[q]) = feed[q][1]
  BY <1>1, <1>2, HeadTaken
<1>5. /\ parts' \in [Responses!Requests -> Seq(Nat)] /\ batch' \in [Responses!Requests -> Batches]
      /\ opened' \in [Responses!Requests -> BOOLEAN]
      /\ \A p \in Responses!Requests \ {q} : parts'[p] = parts[p] /\ batch'[p] = batch[p]
      /\ Taken(q)' = Taken(q) /\ Gathered(q)'
  BY <1>1, <1>2, <1>3, FlushFacts
<1>6. WorkTypes'
  BY <1>1, <1>2, <1>4, <1>5 DEF WorkTypes
<1>7. OthersRest(q)
  BY <1>1, <1>4, <1>5 DEF OthersRest, Rests
<1>8. StageOK(q)'
  BY <1>1, <1>2, TailEnds DEF StageOK
<1>9. Waiting(q)'
  BY <1>1, <1>2, <1>3, <1>4, <1>5, NextDelta
<1>10. TextOK(q)'
  BY <1>1, <1>5, <1>9 DEF TextOK
<1>11. RowOK(q)' /\ RowsStay({q})
  BY <1>1, <1>3, RowWaits, RowsUntouched, StayMore
<1> QED
  BY <1>6, <1>7, <1>8, <1>10, <1>11, OneMoves

LEMMA TakeEndKeeps ==
  ASSUME Responses!BoundsOK, ResponseInv, NEW q \in Responses!Requests, Responses!TakeEnd(q)
  PROVE  ResponseInv'
<1>1. /\ writer[q] = "drain" /\ feed[q] # <<>> /\ Head(feed[q]).item = "end"
      /\ feed' = [feed EXCEPT ![q] = Tail(@)] /\ Responses!FlushBatch(q)
      /\ writer' = [writer EXCEPT ![q] = "result"]
      /\ raced' = [raced EXCEPT ![q] = batch[q].writing # <<>>]
      /\ store' = store /\ mapping' = mapping /\ place' = place
      /\ turn' = turn /\ said' = said /\ text' = text
  BY DEF Responses!TakeEnd, Responses!Arrives
<1>2. WorkTypes /\ StageOK(q) /\ TextOK(q)
  BY DEF ResponseInv
<1>3. q \in Streamed /\ Gathered(q) /\ Waiting(q)
  BY <1>1, <1>2 DEF StageOK, TextOK, Early
<1>4. /\ feed' \in [Responses!Requests -> Seq(Items)]
      /\ \A p \in Responses!Requests \ {q} : feed'[p] = feed[p]
      /\ Len(feed[q]) \in Nat \ {0} /\ Len(feed'[q]) = Len(feed[q]) - 1
      /\ Head(feed[q]) = feed[q][1]
  BY <1>1, <1>2, HeadTaken
<1>5. /\ parts' \in [Responses!Requests -> Seq(Nat)] /\ batch' \in [Responses!Requests -> Batches]
      /\ opened' \in [Responses!Requests -> BOOLEAN]
      /\ \A p \in Responses!Requests \ {q} : parts'[p] = parts[p] /\ batch'[p] = batch[p]
      /\ batch'[q].buf = <<>> /\ batch'[q].writing = batch[q].writing
      /\ Taken(q)' = Taken(q) /\ Gathered(q)'
  BY <1>1, <1>2, <1>3, FlushFacts
<1>6. /\ writer'[q] = "result" /\ \A p \in Responses!Requests \ {q} : writer'[p] = writer[p]
      /\ writer' \in [Responses!Requests -> Stages]
      /\ raced'[q] = (batch[q].writing # <<>>) /\ raced' \in [Responses!Requests -> BOOLEAN]
      /\ \A p \in Responses!Requests \ {q} : raced'[p] = raced[p]
  BY <1>1, <1>2 DEF WorkTypes, Stages, Responses!Over
<1>7. WorkTypes'
  BY <1>1, <1>2, <1>4, <1>5, <1>6 DEF WorkTypes
<1>8. OthersRest(q)
  BY <1>1, <1>4, <1>5, <1>6 DEF OthersRest, Rests
<1>9. /\ turn[q] \in {"ok", "error", "raised"} /\ Len(feed[q]) = 1
      /\ 1 \in 1..Len(feed[q]) /\ feed[q][1].item = "end"
  <2>1. 1 \in 1..Len(feed[q]) /\ feed[q][1].item = "end"
    BY <1>1, <1>4
  <2> QED
    BY <1>2, <2>1 DEF StageOK
<1>10. StageOK(q)'
  BY <1>1, <1>2, <1>3, <1>4, <1>6, <1>9 DEF StageOK
<1>11. Taken(q) = said[q]
  <2>1. Taken(q) \in Nat /\ said[q] \in Nat /\ Taken(q) <= said[q]
    BY <1>2, <1>3, TakenType DEF Waiting
  <2>2. Taken(q) < said[q] => Taken(q) + 1 \in (Taken(q) + 1) .. said[q]
    BY <2>1
  <2>3. \A i \in 1..Len(feed[q]) : feed[q][i].item # "delta"
    BY <1>9
  <2>4. ~(Taken(q) < said[q])
    BY <1>3, <2>2, <2>3 DEF Waiting
  <2> QED
    BY <2>1, <2>4
<1>12. ASSUME batch[q].writing = <<>> PROVE Settled(q)'
  <2>1. Len(batch'[q].buf) = 0 /\ Len(batch'[q].writing) = 0
    BY <1>5, <1>12
  <2>2. PICK n \in Nat : n = Len(parts'[q])
    BY <1>5
  <2>3. Taken(q)' = n + 0 + 0
    BY <2>1, <2>2 DEF Taken
  <2>4. Len(parts'[q]) = said'[q]
    BY <1>1, <1>5, <1>11, <2>2, <2>3
  <2>5. Follows(parts'[q], 0)
    BY <1>5 DEF Gathered, Follows
  <2> QED
    BY <1>5, <1>6, <1>12, <2>4, <2>5 DEF Settled, Follows
<1>13. TextOK(q)'
  BY <1>6, <1>12 DEF TextOK, Early
<1>14. RowOK(q)' /\ RowsStay({q})
  BY <1>1, <1>3, <1>6, RowWaits, RowsUntouched, StayMore
<1> QED
  BY <1>7, <1>8, <1>10, <1>13, <1>14, OneMoves

(* A text that holds all that was said is the reply.                       *)
LEMMA AllSaid ==
  ASSUME WorkTypes, NEW q \in Responses!Requests, Follows(parts[q], 0), Len(parts[q]) = said[q]
  PROVE  /\ Responses!Reply(q) \in Seq(Nat)
         /\ parts[q] = <<>> <=> said[q] = 0
         /\ said[q] # 0 => parts[q] = Responses!Reply(q)
<1>1. PICK s \in Seq(Nat) : s = parts[q]
  BY DEF WorkTypes
<1>2. said[q] \in Nat /\ Len(s) = said[q] /\ \A i \in 1..Len(s) : s[i] = 0 + i
  BY <1>1 DEF WorkTypes, Follows
<1>3. s = [i \in 1..Len(s) |-> s[i]]
  OBVIOUS
<1>4. s = <<>> <=> Len(s) = 0
  OBVIOUS
<1>5. s = [i \in 1..said[q] |-> i]
  <2>1. s = [i \in 1..said[q] |-> s[i]]
    BY <1>2, <1>3
  <2>2. \A i \in 1..said[q] : s[i] = i
    BY <1>2
  <2> QED
    BY <2>1, <2>2, Zenon
<1>6. <<0>> \in Seq(Nat)
  OBVIOUS
<1> QED
  BY <1>1, <1>2, <1>4, <1>5, <1>6 DEF Responses!Reply

LEMMA ReplyType ==
  ASSUME WorkTypes, NEW q \in Responses!Requests
  PROVE  Responses!Reply(q) \in Seq(Nat)
<1>1. said[q] \in Nat
  BY DEF WorkTypes
<1>2. [i \in 1..said[q] |-> i] \in Seq(Nat)
  BY <1>1
<1>3. <<0>> \in Seq(Nat)
  OBVIOUS
<1> QED
  BY <1>2, <1>3 DEF Responses!Reply

LEMMA ResultKeeps ==
  ASSUME Responses!BoundsOK, ResponseInv, NEW q \in Responses!Requests, Responses!Result(q)
  PROVE  ResponseInv'
<1>1. /\ writer[q] = "result" /\ writer' = [writer EXCEPT ![q] = "close"]
      /\ store' = store /\ mapping' = mapping /\ place' = place /\ turn' = turn /\ said' = said
      /\ feed' = feed /\ batch' = batch /\ opened' = opened /\ text' = text /\ raced' = raced
  BY DEF Responses!Result
<1>2. WorkTypes /\ StageOK(q) /\ TextOK(q)
  BY DEF ResponseInv
<1>3. q \in Streamed
  BY <1>1, <1>2 DEF StageOK
<1>4. PICK w \in Seq(Nat) : /\ parts' = [parts EXCEPT ![q] = w]
                            /\ w = IF parts[q] = <<>> /\ turn[q] = "ok" THEN Responses!Reply(q)
                                                                        ELSE parts[q]
  <2>1. Responses!Reply(q) \in Seq(Nat) /\ parts[q] \in Seq(Nat)
    BY <1>2, ReplyType, TakenType
  <2> QED
    BY <2>1 DEF Responses!Result
<1>5. /\ parts' \in [Responses!Requests -> Seq(Nat)] /\ parts'[q] = w
      /\ \A p \in Responses!Requests \ {q} : parts'[p] = parts[p]
  BY <1>2, <1>4 DEF WorkTypes
<1>6. /\ writer'[q] = "close" /\ \A p \in Responses!Requests \ {q} : writer'[p] = writer[p]
      /\ writer' \in [Responses!Requests -> Stages]
  BY <1>1, <1>2 DEF WorkTypes, Stages, Responses!Over
<1>7. WorkTypes'
  BY <1>1, <1>2, <1>5, <1>6 DEF WorkTypes
<1>8. OthersRest(q)
  BY <1>1, <1>5, <1>6 DEF OthersRest, Rests
<1>9. StageOK(q)'
  BY <1>1, <1>2, <1>3, <1>6 DEF StageOK
<1>10. ASSUME ~raced[q] PROVE Settled(q)'
  <2>1. Settled(q)
    BY <1>1, <1>2, <1>3, <1>10 DEF TextOK
  <2>2. Follows(parts[q], 0) /\ Len(parts[q]) = said[q]
    BY <1>1, <2>1 DEF Settled
  <2>3. turn[q] = "ok" => w = Responses!Reply(q)
    BY <1>2, <1>4, <2>2, AllSaid
  <2>4. Responses!Reply(q)' = Responses!Reply(q)
    BY <1>1 DEF Responses!Reply
  <2> QED
    BY <1>1, <1>5, <1>6, <2>1, <2>3, <2>4 DEF Settled, Follows
<1>11. TextOK(q)'
  BY <1>1, <1>6, <1>10 DEF TextOK, Early
<1>12. RowOK(q)' /\ RowsStay({q})
  BY <1>1, <1>3, <1>6, RowWaits, RowsUntouched, StayMore
<1> QED
  BY <1>7, <1>8, <1>9, <1>11, <1>12, OneMoves

LEMMA ConcludeKeeps ==
  ASSUME Responses!BoundsOK, ResponseInv, NEW q \in Responses!Requests, Responses!Conclude(q)
  PROVE  ResponseInv'
<1>1. /\ writer[q] = "close" /\ writer' = [writer EXCEPT ![q] = "snapshot"]
      /\ text' = [text EXCEPT ![q] = parts[q]]
      /\ store' = store /\ mapping' = mapping /\ place' = place /\ turn' = turn /\ said' = said
      /\ feed' = feed /\ batch' = batch /\ opened' = opened /\ parts' = parts /\ raced' = raced
  BY DEF Responses!Conclude
<1>2. WorkTypes /\ StageOK(q) /\ TextOK(q)
  BY DEF ResponseInv
<1>3. q \in Streamed
  BY <1>1, <1>2 DEF StageOK
<1>4. /\ text' \in [Responses!Requests -> Seq(Nat)] /\ text'[q] = parts[q]
      /\ \A p \in Responses!Requests \ {q} : text'[p] = text[p]
  BY <1>1, <1>2 DEF WorkTypes
<1>5. /\ writer'[q] = "snapshot" /\ \A p \in Responses!Requests \ {q} : writer'[p] = writer[p]
      /\ writer' \in [Responses!Requests -> Stages]
  BY <1>1, <1>2 DEF WorkTypes, Stages, Responses!Over
<1>6. WorkTypes'
  BY <1>1, <1>2, <1>4, <1>5 DEF WorkTypes
<1>7. OthersRest(q)
  BY <1>1, <1>4, <1>5 DEF OthersRest, Rests
<1>8. StageOK(q)'
  BY <1>1, <1>2, <1>3, <1>5 DEF StageOK
<1>9. ASSUME ~raced[q] PROVE Settled(q)'
  <2>1. Settled(q)
    BY <1>1, <1>2, <1>3, <1>9 DEF TextOK
  <2>2. Responses!Reply(q)' = Responses!Reply(q)
    BY <1>1 DEF Responses!Reply
  <2> QED
    BY <1>1, <1>4, <1>5, <2>1, <2>2 DEF Settled, Follows
<1>10. TextOK(q)'
  BY <1>1, <1>5, <1>9 DEF TextOK, Early
<1>11. RowOK(q)' /\ RowsStay({q})
  BY <1>1, <1>3, <1>5, RowWaits, RowsUntouched, StayMore
<1> QED
  BY <1>6, <1>7, <1>8, <1>10, <1>11, OneMoves

LEMMA SnapshotKeeps ==
  ASSUME Responses!BoundsOK, ResponseInv, NEW q \in Responses!Requests, Responses!Snapshot(q)
  PROVE  ResponseInv'
<1>1. /\ writer[q] = "snapshot" /\ writer' = [writer EXCEPT ![q] = "final"]
      /\ place' = place /\ turn' = turn /\ said' = said /\ feed' = feed /\ batch' = batch
      /\ opened' = opened /\ parts' = parts /\ text' = text /\ raced' = raced
      /\ Responses!Persist(q, Responses!Verdict(q), text[q])
  BY DEF Responses!Snapshot, Responses!reply
<1>2. WorkTypes /\ StageOK(q) /\ TextOK(q)
  BY DEF ResponseInv
<1>3. q \in Streamed /\ text[q] \in Seq(Nat)
  BY <1>1, <1>2 DEF StageOK, WorkTypes
<1>4. /\ writer'[q] = "final" /\ \A p \in Responses!Requests \ {q} : writer'[p] = writer[p]
      /\ writer' \in [Responses!Requests -> Stages]
  BY <1>1, <1>2 DEF WorkTypes, Stages, Responses!Over
<1>5. Responses!Verdict(q) \in {"in_progress", "incomplete", "failed", "completed"}
  BY DEF Responses!Verdict
<1>6. /\ RowsStay({q})
      /\ q \in Responses!Ids' => place[q] # "unstored" /\ store'[q].status = Responses!Verdict(q)
                                             /\ store'[q].text = text[q]
  BY <1>1, <1>3, <1>5, PersistKeeps
<1>7. WorkTypes'
  BY <1>1, <1>2, <1>4 DEF WorkTypes
<1>8. OthersRest(q)
  BY <1>1, <1>4 DEF OthersRest, Rests
<1>9. StageOK(q)'
  BY <1>1, <1>2, <1>3, <1>4 DEF StageOK
<1>10. TextOK(q)'
  BY <1>4 DEF TextOK, Early
<1>11. RowOK(q)'
  <2>1. ~raced[q] /\ turn[q] = "ok" => text[q] = Responses!Reply(q)
    BY <1>1, <1>2, <1>3 DEF TextOK, Settled
  <2>2. Responses!Reply(q)' = Responses!Reply(q) /\ Responses!Verdict(q)' = Responses!Verdict(q)
    BY <1>1 DEF Responses!Reply, Responses!Verdict
  <2> QED
    BY <1>1, <1>4, <1>6, <2>1, <2>2 DEF RowOK
<1> QED
  BY <1>6, <1>7, <1>8, <1>9, <1>10, <1>11, OneMoves

LEMMA FinishWriterKeeps ==
  ASSUME Responses!BoundsOK, ResponseInv, NEW q \in Responses!Requests, Responses!Finish(q)
  PROVE  ResponseInv'
<1>1. /\ writer[q] = "final" /\ writer' = [writer EXCEPT ![q] = "over"]
      /\ store' = store /\ mapping' = mapping
      /\ place' = place /\ turn' = turn /\ said' = said /\ feed' = feed /\ batch' = batch
      /\ opened' = opened /\ parts' = parts /\ text' = text /\ raced' = raced
  BY DEF Responses!Finish, Responses!reply
<1>2. WorkTypes /\ StageOK(q) /\ RowOK(q)
  BY DEF ResponseInv
<1>3. q \in Streamed
  BY <1>1, <1>2 DEF StageOK
<1>4. /\ writer'[q] = "over" /\ \A p \in Responses!Requests \ {q} : writer'[p] = writer[p]
      /\ writer' \in [Responses!Requests -> Stages]
  BY <1>1, <1>2 DEF WorkTypes, Stages, Responses!Over
<1>5. WorkTypes'
  BY <1>1, <1>2, <1>4 DEF WorkTypes
<1>6. OthersRest(q)
  BY <1>1, <1>4 DEF OthersRest, Rests
<1>7. StageOK(q)'
  BY <1>1, <1>2, <1>3, <1>4 DEF StageOK
<1>8. TextOK(q)'
  BY <1>4 DEF TextOK, Early
<1>9. RowsStay({}) /\ Responses!Ids' = Responses!Ids
  BY <1>1, RowsUntouched
<1>10. RowOK(q)'
  BY <1>1, <1>2, <1>4, <1>9 DEF RowOK, Responses!Verdict, Responses!Reply
<1> QED
  BY <1>5, <1>6, <1>7, <1>8, <1>9, <1>10, OneMoves, StayMore

LEMMA TimerFiresKeeps ==
  ASSUME Responses!BoundsOK, ResponseInv, NEW q \in Responses!Requests, Responses!TimerFires(q)
  PROVE  ResponseInv'
<1>1. /\ writer[q] \notin Responses!Over /\ batch[q].writing = <<>>
      /\ store' = store /\ mapping' = mapping /\ place' = place /\ writer' = writer
      /\ turn' = turn /\ said' = said /\ feed' = feed /\ text' = text /\ raced' = raced
  BY DEF Responses!TimerFires
<1>2. WorkTypes /\ StageOK(q) /\ TextOK(q)
  BY DEF ResponseInv
<1>3. /\ Len(parts[q]) \in Nat /\ parts[q] \in Seq(Nat)
      /\ batch[q].buf \in Seq(Nat) /\ Len(batch[q].buf) \in Nat
  BY <1>2, TakenType
<1>4. PICK w \in Seq(Nat), held \in Batches :
        /\ parts' = [parts EXCEPT ![q] = w] /\ batch' = [batch EXCEPT ![q] = held]
        /\ held.buf = <<>>
        /\ \/ held.writing = <<>> /\ w = parts[q] \o batch[q].buf
           \/ held.writing = batch[q].buf /\ w = parts[q] /\ batch[q].buf # <<>>
        /\ \E o \in BOOLEAN : opened' = [opened EXCEPT ![q] = o]
  <2>1. Responses!Idle \in Batches /\ Responses!Idle.buf = <<>> /\ Responses!Idle.writing = <<>>
    BY DEF Responses!Idle, Batches
  <2>2. CASE opened[q] \/ batch[q].buf = <<>>
    <3>1. parts[q] \o batch[q].buf \in Seq(Nat)
      BY <1>3
    <3>2. /\ parts' = [parts EXCEPT ![q] = parts[q] \o batch[q].buf]
          /\ batch' = [batch EXCEPT ![q] = Responses!Idle] /\ opened' = opened
      BY <2>2 DEF Responses!TimerFires
    <3>3. \E o \in BOOLEAN : opened' = [opened EXCEPT ![q] = o]
      BY <1>2, <3>2 DEF WorkTypes
    <3> QED
      BY <2>1, <3>1, <3>2, <3>3
  <2>3. CASE ~(opened[q] \/ batch[q].buf = <<>>)
    <3>1. PICK c : c = [Responses!Idle EXCEPT !.writing = batch[q].buf]
      OBVIOUS
    <3>2. c \in Batches /\ c.buf = <<>> /\ c.writing = batch[q].buf
      BY <1>3, <2>1, <3>1, BatchFields
    <3>3. /\ parts' = parts /\ batch' = [batch EXCEPT ![q] = c]
          /\ opened' = [opened EXCEPT ![q] = TRUE]
      BY <2>3, <3>1 DEF Responses!TimerFires
    <3>4. parts' = [parts EXCEPT ![q] = parts[q]]
      BY <1>2, <3>3 DEF WorkTypes
    <3> QED
      BY <1>3, <2>3, <3>2, <3>3, <3>4
  <2> QED
    BY <2>2, <2>3
<1>5. /\ parts' \in [Responses!Requests -> Seq(Nat)] /\ parts'[q] = w
      /\ batch' \in [Responses!Requests -> Batches] /\ batch'[q] = held
      /\ opened' \in [Responses!Requests -> BOOLEAN]
      /\ \A p \in Responses!Requests \ {q} : parts'[p] = parts[p] /\ batch'[p] = batch[p]
  BY <1>2, <1>4 DEF WorkTypes
<1>6. WorkTypes'
  BY <1>1, <1>2, <1>5 DEF WorkTypes
<1>7. OthersRest(q)
  BY <1>1, <1>5 DEF OthersRest, Rests
<1>8. StageOK(q)'
  BY <1>1, <1>2 DEF StageOK, Responses!Over
<1>9. Len(batch[q].writing) = 0 /\ Len(held.buf) = 0
  BY <1>1, <1>4
<1>10. ASSUME Gathered(q), Waiting(q) PROVE Gathered(q)' /\ Waiting(q)'
  <2>1. Follows(parts[q], 0) /\ Follows(batch[q].buf, Len(parts[q]))
    <3>1. Len(parts[q]) + Len(batch[q].writing) = Len(parts[q])
      BY <1>3, <1>9
    <3> QED
      BY <1>10, <3>1 DEF Gathered
  <2>2. PICK i \in Nat, k \in Nat : i = Len(parts[q]) /\ k = Len(batch[q].buf)
    BY <1>3
  <2>3. Taken(q) = i + 0 + k
    BY <1>9, <2>2 DEF Taken
  <2>4. Follows(w, 0) /\ Follows(held.writing, Len(w)) /\ Len(w) + Len(held.writing) = i + k
    <3>1. CASE held.writing = <<>> /\ w = parts[q] \o batch[q].buf
      <4>1. Follows(batch[q].buf, 0 + Len(parts[q]))
        BY <2>1, <2>2
      <4>2. Follows(w, 0)
        BY <1>3, <2>1, <3>1, <4>1, FollowsConcat
      <4>3. Len(w) = i + k /\ Len(held.writing) = 0
        BY <1>3, <2>2, <3>1
      <4>4. Follows(held.writing, Len(w))
        BY <4>3 DEF Follows
      <4>5. Len(w) + Len(held.writing) = i + k
        BY <4>3
      <4> QED
        BY <4>2, <4>4, <4>5
    <3>2. CASE held.writing = batch[q].buf /\ w = parts[q]
      BY <2>1, <2>2, <3>2
    <3> QED
      BY <1>4, <3>1, <3>2
  <2>5. Follows(held.buf, Len(w) + Len(held.writing))
    BY <1>4 DEF Follows
  <2>6. Gathered(q)'
    BY <1>5, <2>4, <2>5 DEF Gathered, Follows
  <2>7. Taken(q)' = (i + k) + 0
    BY <1>5, <1>9, <2>4 DEF Taken
  <2>8. Taken(q)' = Taken(q)
    BY <2>3, <2>7
  <2> QED
    BY <1>1, <1>10, <2>6, <2>8 DEF Waiting
<1>11. ASSUME Settled(q) PROVE Settled(q)'
  <2>1. batch[q].buf = <<>> /\ Responses!Reply(q)' = Responses!Reply(q)
    BY <1>1, <1>11 DEF Settled, Responses!Reply
  <2>2. w = parts[q] /\ held.writing = <<>>
    BY <1>3, <1>4, <2>1
  <2> QED
    BY <1>1, <1>4, <1>5, <1>11, <2>1, <2>2 DEF Settled, Follows
<1>12. TextOK(q)'
  BY <1>1, <1>2, <1>10, <1>11 DEF TextOK
<1>13. RowOK(q)' /\ RowsStay({q})
  BY <1>1, RowRests, RowsUntouched, StayMore
<1> QED
  BY <1>6, <1>7, <1>8, <1>12, <1>13, OneMoves

LEMMA TimerAppendsKeeps ==
  ASSUME Responses!BoundsOK, ResponseInv, NEW q \in Responses!Requests, Responses!TimerAppends(q)
  PROVE  ResponseInv'
<1>1. /\ batch[q].writing # <<>>
      /\ parts' = [parts EXCEPT ![q] = parts[q] \o batch[q].writing]
      /\ store' = store /\ mapping' = mapping /\ place' = place /\ writer' = writer
      /\ turn' = turn /\ said' = said /\ feed' = feed /\ text' = text /\ raced' = raced
      /\ opened' = opened
      /\ writer[q] \notin Responses!Over
  BY DEF Responses!TimerAppends
<1>2. WorkTypes /\ StageOK(q) /\ TextOK(q)
  BY DEF ResponseInv
<1>3. /\ Len(parts[q]) \in Nat /\ parts[q] \in Seq(Nat) /\ batch[q] \in Batches
      /\ batch[q].writing \in Seq(Nat) /\ Len(batch[q].writing) \in Nat
      /\ batch[q].buf \in Seq(Nat) /\ Len(batch[q].buf) \in Nat
  BY <1>2, TakenType
<1>4. PICK held \in Batches : /\ batch' = [batch EXCEPT ![q] = held] /\ held.writing = <<>>
                              /\ held.buf = batch[q].buf
  <2>1. PICK c : c = [batch[q] EXCEPT !.writing = <<>>]
    OBVIOUS
  <2>2. c \in Batches /\ c.writing = <<>> /\ c.buf = batch[q].buf
    BY <1>3, <2>1, NoText, BatchFields
  <2>3. batch' = [batch EXCEPT ![q] = c]
    BY <2>1 DEF Responses!TimerAppends
  <2> QED
    BY <2>2, <2>3
<1>5. PICK w \in Seq(Nat) : /\ w = parts[q] \o batch[q].writing
                            /\ Len(w) = Len(parts[q]) + Len(batch[q].writing)
  <2>1. PICK u \in Seq(Nat), v \in Seq(Nat) : u = parts[q] /\ v = batch[q].writing
    BY <1>3
  <2>2. u \o v \in Seq(Nat) /\ Len(u \o v) = Len(u) + Len(v)
    OBVIOUS
  <2> QED
    BY <2>1, <2>2
<1>6. /\ parts' \in [Responses!Requests -> Seq(Nat)] /\ parts'[q] = w
      /\ batch' \in [Responses!Requests -> Batches] /\ batch'[q] = held
      /\ \A p \in Responses!Requests \ {q} : parts'[p] = parts[p] /\ batch'[p] = batch[p]
  BY <1>1, <1>2, <1>4, <1>5 DEF WorkTypes
<1>7. WorkTypes'
  BY <1>1, <1>2, <1>6 DEF WorkTypes
<1>8. OthersRest(q)
  BY <1>1, <1>6 DEF OthersRest, Rests
<1>9. StageOK(q)'
  BY <1>1, <1>2 DEF StageOK, Responses!Over
<1>10. ASSUME Gathered(q), Waiting(q) PROVE Gathered(q)' /\ Waiting(q)'
  <2>1. PICK i \in Nat, j \in Nat, k \in Nat :
          i = Len(parts[q]) /\ j = Len(batch[q].writing) /\ k = Len(batch[q].buf)
    BY <1>3
  <2>2. Follows(w, 0)
    <3>1. Follows(parts[q], 0) /\ Follows(batch[q].writing, 0 + Len(parts[q]))
      BY <1>10, <2>1 DEF Gathered
    <3> QED
      BY <1>3, <1>5, <3>1, FollowsConcat
  <2>3. Len(w) = i + j /\ Len(held.writing) = 0 /\ Len(held.buf) = k
    BY <1>4, <1>5, <2>1
  <2>4. Follows(held.buf, Len(w) + Len(held.writing))
    <3>1. Len(w) + Len(held.writing) = Len(parts[q]) + Len(batch[q].writing)
      BY <2>1, <2>3
    <3> QED
      BY <1>4, <1>10, <3>1 DEF Gathered
  <2>5. Follows(held.writing, Len(w))
    BY <1>4 DEF Follows
  <2>6. Gathered(q)'
    BY <1>6, <2>2, <2>4, <2>5 DEF Gathered, Follows
  <2>7. Taken(q) = i + j + k
    BY <2>1 DEF Taken
  <2>8. Taken(q)' = (i + j) + 0 + k
    BY <1>6, <2>3 DEF Taken
  <2>9. Taken(q)' = Taken(q)
    BY <2>7, <2>8
  <2> QED
    BY <1>1, <1>10, <2>6, <2>9 DEF Waiting
<1>11. ~Settled(q)
  BY <1>1 DEF Settled
<1>12. TextOK(q)'
  BY <1>1, <1>2, <1>10, <1>11 DEF TextOK
<1>13. RowOK(q)' /\ RowsStay({q})
  BY <1>1, RowRests, RowsUntouched, StayMore
<1> QED
  BY <1>7, <1>8, <1>9, <1>12, <1>13, OneMoves

LEMMA BreakKeeps ==
  ASSUME Responses!BoundsOK, ResponseInv, NEW q \in Responses!Requests, Responses!Break(q)
  PROVE  ResponseInv'
<1>1. /\ q \in Streamed /\ writer[q] \notin Responses!Over
      /\ writer' = [writer EXCEPT ![q] = IF @ = "final" THEN "over" ELSE "broken"]
      /\ turn' = [turn EXCEPT ![q] = IF @ = "running" THEN "cancelled" ELSE @]
      /\ feed' = [feed EXCEPT ![q] = <<>>]
      /\ place' = place /\ said' = said /\ batch' = batch /\ opened' = opened
      /\ parts' = parts /\ text' = text /\ raced' = raced
  BY DEF Responses!Break, Responses!Broken
<1>2. WorkTypes /\ StageOK(q) /\ RowOK(q) /\ parts[q] \in Seq(Nat)
  BY DEF ResponseInv, WorkTypes
<1>3. /\ writer'[q] = IF writer[q] = "final" THEN "over" ELSE "broken"
      /\ turn'[q] = IF turn[q] = "running" THEN "cancelled" ELSE turn[q]
      /\ \A p \in Responses!Requests \ {q} : writer'[p] = writer[p] /\ turn'[p] = turn[p]
      /\ writer' \in [Responses!Requests -> Stages]
      /\ turn' \in [Responses!Requests -> {"none", "running", "ok", "error", "raised", "cancelled"}]
  BY <1>1, <1>2 DEF WorkTypes, Stages, Responses!Over
<1>4. /\ feed' \in [Responses!Requests -> Seq(Items)] /\ feed'[q] = <<>>
      /\ \A p \in Responses!Requests \ {q} : feed'[p] = feed[p]
  <2>1. <<>> \in Seq(Items)
    OBVIOUS
  <2> QED
    BY <1>1, <1>2, <2>1 DEF WorkTypes
<1>5. WorkTypes'
  BY <1>1, <1>2, <1>3, <1>4 DEF WorkTypes
<1>6. OthersRest(q)
  BY <1>1, <1>3, <1>4 DEF OthersRest, Rests
<1>7. StageOK(q)'
  BY <1>1, <1>2, <1>3, <1>4 DEF StageOK
<1>8. TextOK(q)'
  BY <1>3 DEF TextOK, Early
<1>9. CASE writer[q] = "final"
  <2>1. store' = store /\ mapping' = mapping /\ turn[q] # "running"
    BY <1>1, <1>2, <1>9 DEF Responses!Break, StageOK
  <2>2. RowsStay({}) /\ Responses!Ids' = Responses!Ids
    BY <1>1, <2>1, RowsUntouched
  <2>3. turn'[q] = turn[q] /\ writer'[q] = "over"
    BY <1>3, <1>9, <2>1
  <2>4. Responses!Verdict(q)' = Responses!Verdict(q) /\ Responses!Reply(q)' = Responses!Reply(q)
    BY <1>1, <2>3 DEF Responses!Verdict, Responses!Reply
  <2>5. RowOK(q)'
    BY <1>1, <1>2, <1>9, <2>1, <2>2, <2>3, <2>4 DEF RowOK
  <2> QED
    BY <1>5, <1>6, <1>7, <1>8, <2>2, <2>5, OneMoves, StayMore
<1>10. CASE writer[q] # "final"
  <2>1. Responses!Persist(q, "incomplete", parts[q])
    BY <1>10 DEF Responses!Break
  <2>2. /\ RowsStay({q})
        /\ q \in Responses!Ids' => place[q] # "unstored" /\ store'[q].status = "incomplete"
    BY <1>1, <1>2, <2>1, PersistKeeps
  <2>3. writer'[q] = "broken"
    BY <1>3, <1>10
  <2>4. RowOK(q)'
    BY <1>1, <2>2, <2>3 DEF RowOK
  <2> QED
    BY <1>5, <1>6, <1>7, <1>8, <2>2, <2>4, OneMoves
<1> QED
  BY <1>9, <1>10

LEMMA CrashKeeps ==
  ASSUME Responses!BoundsOK, ResponseInv, Responses!Crash
  PROVE  ResponseInv'
<1>1. /\ writer' = [q \in Responses!Requests |->
                        IF writer[q] \in Responses!Over THEN writer[q] ELSE "dead"]
      /\ turn' = [q \in Responses!Requests |-> IF turn[q] = "running" THEN "cancelled" ELSE turn[q]]
      /\ feed' = [q \in Responses!Requests |-> <<>>]
      /\ batch' = [q \in Responses!Requests |-> Responses!Idle]
      /\ store' = store /\ mapping' = mapping /\ place' = place /\ said' = said
      /\ opened' = opened /\ parts' = parts /\ text' = text /\ raced' = raced
  BY DEF Responses!Crash
<1>2. WorkTypes
  BY DEF ResponseInv
<1>3. Responses!Idle \in Batches
  BY DEF Responses!Idle, Batches
<1>4. <<>> \in Seq(Items)
  OBVIOUS
<1>5. WorkTypes'
  <2>1. writer' \in [Responses!Requests -> Stages]
    BY <1>1, <1>2 DEF WorkTypes, Stages, Responses!Over
  <2>2. turn' \in [Responses!Requests -> {"none", "running", "ok", "error", "raised", "cancelled"}]
    BY <1>1, <1>2 DEF WorkTypes
  <2>3. feed' \in [Responses!Requests -> Seq(Items)] /\ batch' \in [Responses!Requests -> Batches]
    BY <1>1, <1>3, <1>4
  <2> QED
    BY <1>1, <1>2, <2>1, <2>2, <2>3 DEF WorkTypes
<1>6. RowsStay({}) /\ Responses!Ids' = Responses!Ids
  BY <1>1, RowsUntouched
<1>7. ASSUME NEW q \in Responses!Requests
      PROVE  StageOK(q)' /\ TextOK(q)' /\ RowOK(q)'
  <2>1. StageOK(q) /\ TextOK(q) /\ RowOK(q)
    BY DEF ResponseInv
  <2>2. /\ writer'[q] = IF writer[q] \in Responses!Over THEN writer[q] ELSE "dead"
        /\ turn'[q] = IF turn[q] = "running" THEN "cancelled" ELSE turn[q]
        /\ feed'[q] = <<>> /\ batch'[q] = Responses!Idle
    BY <1>1
  <2>3. StageOK(q)'
    BY <1>1, <2>1, <2>2 DEF StageOK, Fresh, Responses!Over, Responses!Idle
  <2>4. TextOK(q)'
    <3>1. writer'[q] \notin {"created", "drain", "result", "close", "snapshot"}
      BY <2>2 DEF Responses!Over
    <3> QED
      BY <3>1 DEF TextOK, Early
  <2>5. RowOK(q)'
    <3>1. q \in Streamed /\ writer'[q] \in {"final", "over"} => turn[q] # "running"
      BY <2>1, <2>2 DEF StageOK, Responses!Over
    <3> QED
      BY <1>1, <1>6, <2>1, <2>2, <3>1 DEF RowOK, Responses!Verdict, Responses!Reply, Responses!Over
  <2> QED
    BY <2>3, <2>4, <2>5
<1> QED
  BY <1>5, <1>6, <1>7 DEF ResponseInv, RowsStay

LEMMA ResponsesKeep ==
  ASSUME Responses!BoundsOK, ResponseInv, [Responses!Next]_(Responses!vars)
  PROVE  ResponseInv'
<1>1. CASE UNCHANGED Responses!vars
  <2>1. /\ store' = store /\ mapping' = mapping /\ place' = place /\ writer' = writer
        /\ turn' = turn /\ said' = said /\ feed' = feed /\ batch' = batch /\ opened' = opened
        /\ parts' = parts /\ text' = text /\ raced' = raced
    BY <1>1 DEF Responses!vars, Responses!reply
  <2>2. RowsStay({}) /\ WorkTypes'
    BY <2>1, RowsUntouched DEF ResponseInv, WorkTypes
  <2>3. ASSUME NEW q \in Responses!Requests PROVE StageOK(q)' /\ TextOK(q)' /\ RowOK(q)'
    BY <2>1, RestKeeps, RowRests DEF Rests
  <2> QED
    BY <2>2, <2>3 DEF ResponseInv, RowsStay
<1>2. ASSUME NEW q \in Responses!Requests,
             Responses!Accept(q) \/ Responses!CallReturns(q) \/ Responses!Say(q)
               \/ Responses!UseTool(q) \/ Responses!TurnEnds(q)
      PROVE  ResponseInv'
  BY <1>2, AcceptKeeps, CallReturnsKeeps, SayKeeps, UseToolKeeps, StreamTurnEndsKeeps
<1>3. ASSUME NEW q \in Responses!Requests, Responses!Writes(q) PROVE ResponseInv'
  BY <1>3, CreatedKeeps, TakeDeltaKeeps, TakeToolKeeps, TakeEndKeeps, ResultKeeps,
     ConcludeKeeps, SnapshotKeeps, FinishWriterKeeps DEF Responses!Writes
<1>4. ASSUME NEW q \in Responses!Requests,
             Responses!TimerFires(q) \/ Responses!TimerAppends(q) \/ Responses!Break(q)
               \/ Responses!Get(q) \/ Responses!Delete(q)
      PROVE  ResponseInv'
  BY <1>4, TimerFiresKeeps, TimerAppendsKeeps, BreakKeeps, GetKeeps, DeleteKeeps
<1> QED
  BY <1>1, <1>2, <1>3, <1>4, CrashKeeps DEF Responses!Next

-----------------------------------------------------------------------------
(* Sessions of the gateway                                                 *)

RowRecords == [life : Nat, model : Talks!Named \cup {Talks!None}, lock : Nat,
               ended : BOOLEAN, turns : SUBSET Talkers]

LockRecords == [session : Sessions, life : Nat, name : Talks!Named]

ChatRecords ==
  [pc : {"idle", "lookup", "body", "history", "turn", "abandoned", "answered", "closed"},
   session : Sessions \cup {Talks!None}, since : Nat, life : Nat,
   model : Talks!Named \cup {Talks!None}, lock : Nat, own : Talks!Named \cup {Talks!None},
   held : Talks!Named \cup {Talks!None},
   ran : Talks!Ran \cup {Talks!None}]

ForkRecords ==
  [pc : {"idle", "check", "end", "create", "read", "replace", "closed"},
   source : Sessions \cup {Talks!None}, target : Sessions \cup {Talks!None},
   model : Talks!Named \cup {Talks!None}, before : Nat, turns : SUBSET Talkers]

(* Lock k was acknowledged for this life of the session.                   *)
IsLock(k, s, life) == locks[k].session = s /\ locks[k].life = life

(* The row of a living session holds the newest lock of that life.         *)
LockInv ==
  /\ \A k \in 1..Len(locks) : 0 < locks[k].life /\ locks[k].life <= births
  /\ \A s \in Sessions : rows[s].life > 0 =>
       /\ rows[s].life <= births
       /\ rows[s].lock \in 0..Len(locks)
       /\ rows[s].lock > 0 => IsLock(rows[s].lock, s, rows[s].life)
       /\ \A k \in 1..Len(locks) : IsLock(k, s, rows[s].life) => k <= rows[s].lock

(* A request that has looked its session up has seen the lock it came      *)
(* after, or a younger one.                                                *)
SeesLock(t) ==
  /\ t.lock \in 0..Len(locks)
  /\ t.since > 0 /\ locks[t.since].life = t.life =>
       t.since <= t.lock /\ IsLock(t.lock, t.session, t.life)

(* A turn without a model of its own runs under the lock it saw, and is    *)
(* answered only if it ended on the model that lock promises.              *)
HoldsLock(t) ==
  /\ t.pc # "idle" => t.session \in Sessions
  /\ t.since \in 0..Len(locks)
  /\ t.since > 0 => locks[t.since].session = t.session
  /\ t.pc \in {"body", "history", "turn", "abandoned", "answered"} => SeesLock(t)
  /\ t.pc \in {"history", "turn", "abandoned", "answered"} /\ t.own = Talks!None
       => t.held = Talks!LockedName(t)
  /\ t.pc = "answered" /\ t.held # Talks!None => t.ran = Talks!Promised(t.held)

(* A fork looked its target up before the session under that id came to be.*)
ForkedLater(t) ==
  /\ t.pc # "idle" => t.source \in Sessions
  /\ t.pc \notin {"idle", "check"} => t.target \in Sessions
  /\ t.before <= births
  /\ t.pc \in {"end", "create", "read", "replace"} =>
       rows[t.target].life = 0 \/ t.before < rows[t.target].life

TalkInv ==
  /\ Talks!TypeOK
  /\ LockInv
  /\ \A c \in Talkers : HoldsLock(chat[c])
  /\ \A f \in Forks : ForkedLater(fork[f])

(* Locks are only ever acknowledged.                                       *)
LocksKept ==
  /\ Len(locks) <= Len(locks')
  /\ \A k \in 1..Len(locks) : locks'[k] = locks[k]

LEMMA LockAdded ==
  ASSUME NEW lock \in LockRecords, locks \in Seq(LockRecords), locks' = Append(locks, lock)
  PROVE  /\ locks' \in Seq(LockRecords) /\ Len(locks') = Len(locks) + 1
         /\ locks'[Len(locks) + 1] = lock /\ LocksKept
BY DEF LocksKept

(* A new lock goes to the row.                                             *)
LEMMA LockTaken ==
  ASSUME Talks!TypeOK, LockInv, NEW s \in Sessions, NEW name \in Talks!Named, Talks!Locked(s, name),
         births' = births
  PROVE  /\ LockInv' /\ LocksKept
         /\ rows' \in [Sessions -> RowRecords] /\ locks' \in Seq(LockRecords)
         /\ \A r \in Sessions : rows'[r].life = rows[r].life /\ rows'[r].turns = rows[r].turns
<1>0. /\ rows \in [Sessions -> RowRecords] /\ locks \in Seq(LockRecords) /\ births \in Nat
      /\ Len(locks) \in Nat
  BY DEF Talks!TypeOK, RowRecords, LockRecords
<1>1. CASE ~Talks!Exists(s)
  <2>1. rows' = rows /\ locks' = locks
    BY <1>1 DEF Talks!Locked
  <2>2. LockInv'
    BY <2>1 DEF LockInv, IsLock
  <2>3. LocksKept
    BY <1>0, <2>1 DEF LocksKept
  <2> QED
    BY <1>0, <2>1, <2>2, <2>3
<1>2. CASE Talks!Exists(s)
  <2> DEFINE lock == [session |-> s, life |-> rows[s].life, name |-> name]
  <2>1. /\ locks' = Append(locks, lock)
        /\ rows' = [rows EXCEPT ![s].lock = Len(locks')]
        /\ lock \in LockRecords
    BY <1>0, <1>2 DEF Talks!Locked, RowRecords, LockRecords
  <2>2. /\ locks' \in Seq(LockRecords) /\ Len(locks') = Len(locks) + 1
        /\ locks'[Len(locks) + 1] = lock /\ LocksKept
    BY <1>0, <2>1, LockAdded
  <2>3. /\ rows' \in [Sessions -> RowRecords]
        /\ rows'[s].lock = Len(locks) + 1
        /\ \A r \in Sessions : /\ rows'[r].life = rows[r].life /\ rows'[r].turns = rows[r].turns
                               /\ r # s => rows'[r] = rows[r]
    <3>1. PICK n \in Nat : n = Len(locks')
      BY <1>0, <2>2
    <3>2. rows' = [rows EXCEPT ![s].lock = n] /\ n = Len(locks) + 1
      BY <2>1, <2>2, <3>1
    <3> QED
      BY <1>0, <3>2 DEF RowRecords
  <2>4. \A k \in 1..Len(locks') : 0 < locks'[k].life /\ locks'[k].life <= births'
    BY <1>0, <2>2, <1>2 DEF LockInv, LocksKept, Talks!Exists
  <2>5. ASSUME NEW r \in Sessions, rows'[r].life > 0
        PROVE  /\ rows'[r].life <= births'
               /\ rows'[r].lock \in 0..Len(locks')
               /\ rows'[r].lock > 0 => IsLock(rows[r].lock, r, rows[r].life)'
               /\ \A k \in 1..Len(locks') :
                    IsLock(k, r, rows[r].life)' => k <= rows'[r].lock
    <3>1. rows[r].life > 0 /\ rows[r].life <= births
      BY <2>3, <2>5 DEF LockInv
    <3>2. CASE r = s
      BY <1>0, <2>2, <2>3, <3>1, <3>2 DEF IsLock
    <3>3. CASE r # s
      <4>1. /\ rows'[r] = rows[r] /\ lock.session # r
            /\ rows[r].lock \in 0..Len(locks)
            /\ rows[r].lock > 0 => IsLock(rows[r].lock, r, rows[r].life)
            /\ \A k \in 1..Len(locks) : IsLock(k, r, rows[r].life) => k <= rows[r].lock
        BY <2>3, <3>1, <3>3 DEF LockInv
      <4> HIDE DEF lock
      <4> QED
        BY <1>0, <2>2, <3>1, <4>1 DEF IsLock, LocksKept
    <3> QED
      BY <3>2, <3>3
  <2> QED
    BY <2>2, <2>3, <2>4, <2>5 DEF LockInv
<1> QED
  BY <1>1, <1>2

(* What a request has seen of the locks stays what it is.                  *)
LEMMA StillHolds ==
  ASSUME LocksKept, locks \in Seq(LockRecords), locks' \in Seq(LockRecords),
         NEW t, t.since \in Nat, t.lock \in Nat, HoldsLock(t)
  PROVE  HoldsLock(t)'
BY DEF LocksKept, HoldsLock, SeesLock, IsLock, Talks!LockedName, Talks!Promised, Talks!Route

(* A session that goes on keeps its row's lock; a new one has none.        *)
RowsGoOn ==
  /\ births' \in Nat /\ births <= births'
  /\ \A s \in Sessions :
       \/ rows'[s].life = 0
       \/ rows'[s].life = rows[s].life /\ rows'[s].lock = rows[s].lock
       \/ rows'[s].life = births + 1 /\ births' = births + 1 /\ rows'[s].lock = 0

LEMMA RowsMove ==
  ASSUME Talks!TypeOK, LockInv, RowsGoOn, rows' \in [Sessions -> RowRecords], UNCHANGED locks
  PROVE  LockInv'
<1>1. /\ rows \in [Sessions -> RowRecords] /\ births \in Nat /\ locks' = locks
      /\ \A k \in 1..Len(locks) : locks[k].life \in Nat
  <2>1. /\ rows \in [Sessions -> RowRecords] /\ births \in Nat
        /\ locks \in Seq(LockRecords)
    BY DEF Talks!TypeOK, RowRecords, LockRecords
  <2>2. \A k \in 1..Len(locks) : locks[k] \in LockRecords
    BY <2>1, ElementOfSeq
  <2> QED
    BY <2>1, <2>2 DEF LockRecords
<1>2. \A k \in 1..Len(locks') : 0 < locks'[k].life /\ locks'[k].life <= births'
  BY <1>1 DEF LockInv, RowsGoOn
<1>3. ASSUME NEW s \in Sessions, rows'[s].life > 0
      PROVE  /\ rows'[s].life <= births'
             /\ rows'[s].lock \in 0..Len(locks')
             /\ rows'[s].lock > 0 => IsLock(rows[s].lock, s, rows[s].life)'
             /\ \A k \in 1..Len(locks') :
                  IsLock(k, s, rows[s].life)' => k <= rows'[s].lock
  <2>1. CASE rows'[s].life = rows[s].life /\ rows'[s].lock = rows[s].lock
    <3>1. /\ rows[s].life <= births /\ rows[s].life \in Nat
          /\ rows[s].lock \in 0..Len(locks)
          /\ rows[s].lock > 0 => IsLock(rows[s].lock, s, rows[s].life)
          /\ \A k \in 1..Len(locks) : IsLock(k, s, rows[s].life) => k <= rows[s].lock
      BY <1>1, <1>3, <2>1 DEF LockInv, RowRecords
    <3> QED
      BY <1>1, <2>1, <3>1 DEF IsLock, RowsGoOn
  <2>2. CASE rows'[s].life = births + 1 /\ births' = births + 1 /\ rows'[s].lock = 0
    <3>1. \A k \in 1..Len(locks') : locks'[k].life # rows'[s].life
      BY <1>1, <2>2 DEF LockInv
    <3> QED
      BY <1>1, <2>2, <3>1 DEF IsLock
  <2>3. rows'[s].life # 0
    BY <1>3
  <2> QED
    BY <2>1, <2>2, <2>3 DEF RowsGoOn
<1> QED
  BY <1>2, <1>3 DEF LockInv

(* Sessions begin, end and go on under a fork that has looked them up.     *)
LivesGoOn ==
  /\ births' \in Nat /\ births <= births'
  /\ \A s \in Sessions : rows'[s].life \in {0, rows[s].life} \/ rows'[s].life = births + 1

LEMMA ForkWaits ==
  ASSUME Talks!TypeOK, LivesGoOn, rows' \in [Sessions -> RowRecords],
         NEW t \in ForkRecords, ForkedLater(t)
  PROVE  ForkedLater(t)'
<1>1. /\ births \in Nat /\ births' \in Nat /\ births <= births' /\ t.before \in Nat
      /\ t.before <= births
  BY DEF ForkedLater, LivesGoOn, Talks!TypeOK, ForkRecords
<1>2. ASSUME t.pc \in {"end", "create", "read", "replace"}
      PROVE  rows'[t.target].life = 0 \/ t.before < rows'[t.target].life
  <2>1. t.target \in Sessions /\ (rows[t.target].life = 0 \/ t.before < rows[t.target].life)
    BY <1>2 DEF ForkedLater
  <2>2. \/ rows'[t.target].life \in {0, rows[t.target].life}
        \/ rows'[t.target].life = births + 1
    BY <2>1 DEF LivesGoOn
  <2> QED
    BY <1>1, <2>1, <2>2
<1> QED
  BY <1>1, <1>2 DEF ForkedLater

(* The other parts of a step, for whoever moves.                           *)
LEMMA OthersHold ==
  ASSUME TalkInv, UNCHANGED chat, LocksKept, locks' \in Seq(LockRecords)
  PROVE  chat' \in [Talkers -> ChatRecords] /\ \A c \in Talkers : HoldsLock(chat[c])'
<1>1. ASSUME NEW c \in Talkers
      PROVE  HoldsLock(chat[c])'
  <2>1. PICK t : t = chat[c] /\ t = chat'[c]
    OBVIOUS
  <2>2. t.since \in Nat /\ t.lock \in Nat /\ HoldsLock(t) /\ locks \in Seq(LockRecords)
    BY <2>1 DEF TalkInv, Talks!TypeOK, LockRecords
  <2>3. HoldsLock(t)'
    BY <2>2, StillHolds
  <2> QED
    BY <2>1, <2>3 DEF HoldsLock, SeesLock, Talks!LockedName, IsLock
<1> QED
  BY <1>1 DEF TalkInv, Talks!TypeOK, ChatRecords

LEMMA ChatMoves ==
  ASSUME TalkInv, NEW c \in Talkers, LocksKept, locks' \in Seq(LockRecords),
         NEW t \in ChatRecords, HoldsLock(t)', chat' = [chat EXCEPT ![c] = t]
  PROVE  chat' \in [Talkers -> ChatRecords] /\ \A d \in Talkers : HoldsLock(chat[d])'
<1>1. ASSUME NEW d \in Talkers
      PROVE  HoldsLock(chat[d])'
  <2>1. PICK x : x = chat'[d]
    OBVIOUS
  <2>2. CASE d = c
    <3>1. x = t
      BY <2>1, <2>2 DEF TalkInv, Talks!TypeOK
    <3> QED
      BY <2>1, <3>1 DEF HoldsLock, SeesLock, Talks!LockedName, IsLock
  <2>3. CASE d # c
    <3>1. x = chat[d]
      BY <2>1, <2>3 DEF TalkInv, Talks!TypeOK
    <3>2. x.since \in Nat /\ x.lock \in Nat /\ HoldsLock(x) /\ locks \in Seq(LockRecords)
      BY <3>1 DEF TalkInv, Talks!TypeOK, LockRecords
    <3>3. HoldsLock(x)'
      BY <3>2, StillHolds
    <3> QED
      BY <2>1, <3>3 DEF HoldsLock, SeesLock, Talks!LockedName, IsLock
  <2> QED
    BY <2>2, <2>3
<1> QED
  BY <1>1 DEF TalkInv, Talks!TypeOK, ChatRecords

LEMMA ForksWait ==
  ASSUME TalkInv, UNCHANGED fork, LivesGoOn, rows' \in [Sessions -> RowRecords]
  PROVE  fork' \in [Forks -> ForkRecords] /\ \A f \in Forks : ForkedLater(fork[f])'
<1>1. ASSUME NEW f \in Forks
      PROVE  ForkedLater(fork[f])'
  <2>1. PICK t \in ForkRecords : t = fork[f] /\ t = fork'[f]
    BY DEF TalkInv, Talks!TypeOK, ForkRecords
  <2>2. ForkedLater(t)'
    BY <2>1, ForkWaits DEF TalkInv
  <2> QED
    BY <2>1, <2>2 DEF ForkedLater
<1> QED
  BY <1>1 DEF TalkInv, Talks!TypeOK, ForkRecords

LEMMA ForkMoves ==
  ASSUME TalkInv, NEW f \in Forks, LivesGoOn, rows' \in [Sessions -> RowRecords],
         NEW t \in ForkRecords, ForkedLater(t)', fork' = [fork EXCEPT ![f] = t]
  PROVE  fork' \in [Forks -> ForkRecords] /\ \A g \in Forks : ForkedLater(fork[g])'
<1>1. ASSUME NEW g \in Forks
      PROVE  ForkedLater(fork[g])'
  <2>1. PICK x : x = fork'[g]
    OBVIOUS
  <2>2. CASE g = f
    <3>1. x = t
      BY <2>1, <2>2 DEF TalkInv, Talks!TypeOK
    <3> QED
      BY <2>1, <3>1 DEF ForkedLater
  <2>3. CASE g # f
    <3>1. x = fork[g] /\ x \in ForkRecords /\ ForkedLater(x)
      BY <2>1, <2>3 DEF TalkInv, Talks!TypeOK, ForkRecords
    <3>2. ForkedLater(x)'
      BY <3>1, ForkWaits DEF TalkInv
    <3> QED
      BY <2>1, <3>2 DEF ForkedLater
  <2> QED
    BY <2>2, <2>3
<1> QED
  BY <1>1 DEF TalkInv, Talks!TypeOK, ForkRecords

LEMMA TalksBegin ==
  ASSUME Talks!BoundsOK, Talks!Init
  PROVE  TalkInv
<1>1. /\ \A s \in Sessions : rows[s] = Talks!Absent
      /\ births = 0 /\ locks = <<>> /\ Len(locks) = 0 /\ locks \in Seq(LockRecords)
  BY DEF Talks!Init
<1>2. \A c \in Talkers : /\ chat[c].pc = "idle" /\ chat[c].since = 0
                         /\ HoldsLock(chat[c])
  BY <1>1 DEF Talks!Init, HoldsLock, Talks!None
<1>3. \A f \in Forks : ForkedLater(fork[f])
  BY <1>1 DEF Talks!Init, ForkedLater
<1>4. LockInv
  BY <1>1 DEF LockInv, Talks!Absent
<1>5. bounds \in [creates : Nat, deletes : Nat, changes : Nat, locks : Nat]
  BY DEF Talks!BoundsOK, Talks!Init
<1>6. Talks!TypeOK
  BY <1>1, <1>5 DEF Talks!Init, Talks!TypeOK, Talks!Absent, Talks!None, Talks!Ran, LockRecords
<1> QED
  BY <1>2, <1>3, <1>4, <1>6 DEF TalkInv

(* What every step shows of the invariant, put together.                   *)
LEMMA TalksGoOn ==
  ASSUME rows' \in [Sessions -> RowRecords], births' \in Nat, locks' \in Seq(LockRecords),
         override' \in [Sessions -> {Talks!None, "switched"}],
         recent' \in Talks!Ran \cup {Talks!None},
         bounds' \in [creates : Nat, deletes : Nat, changes : Nat, locks : Nat],
         LockInv',
         chat' \in [Talkers -> ChatRecords], \A c \in Talkers : HoldsLock(chat[c])',
         fork' \in [Forks -> ForkRecords], \A f \in Forks : ForkedLater(fork[f])'
  PROVE  TalkInv'
BY DEF TalkInv, Talks!TypeOK, RowRecords, LockRecords, ChatRecords, ForkRecords

LEMMA Spent ==
  ASSUME Talks!TypeOK, NEW what \in {"creates", "deletes", "changes"}, Talks!Spend(what)
  PROVE  bounds' \in [creates : Nat, deletes : Nat, changes : Nat, locks : Nat]
<1>1. /\ bounds \in [creates : Nat, deletes : Nat, changes : Nat, locks : Nat]
      /\ bounds[what] \in Nat /\ bounds[what] > 0
      /\ bounds' = [bounds EXCEPT ![what] = bounds[what] - 1]
  BY DEF Talks!TypeOK, Talks!Spend
<1>2. bounds[what] - 1 \in Nat
  BY <1>1
<1> QED
  BY <1>1, <1>2

(* The types of an invariant state, by their names.                        *)
LEMMA TalkTypes ==
  ASSUME TalkInv
  PROVE  /\ Talks!TypeOK /\ LockInv
         /\ rows \in [Sessions -> RowRecords] /\ births \in Nat /\ locks \in Seq(LockRecords)
         /\ override \in [Sessions -> {Talks!None, "switched"}]
         /\ recent \in Talks!Ran \cup {Talks!None}
         /\ bounds \in [creates : Nat, deletes : Nat, changes : Nat, locks : Nat]
         /\ chat \in [Talkers -> ChatRecords] /\ fork \in [Forks -> ForkRecords]
BY DEF TalkInv, Talks!TypeOK, RowRecords, LockRecords, ChatRecords, ForkRecords

(* Rows change, the handlers do not.                                       *)
LEMMA RowsStep ==
  ASSUME TalkInv, rows' \in [Sessions -> RowRecords], RowsGoOn,
         UNCHANGED <<locks, override, recent, chat, fork>>,
         bounds' \in [creates : Nat, deletes : Nat, changes : Nat, locks : Nat]
  PROVE  TalkInv'
<1>1. LivesGoOn
  BY TalkTypes DEF RowsGoOn, LivesGoOn
<1>2. LocksKept
  BY TalkTypes DEF LocksKept
<1> QED
  BY <1>1, <1>2, TalkTypes, RowsMove, OthersHold, ForksWait, TalksGoOn DEF RowsGoOn

LEMMA CreateKeeps ==
  ASSUME TalkInv, NEW s \in Sessions, Talks!Create(s)
  PROVE  TalkInv'
<1>1. /\ ~Talks!Exists(s) /\ births' = births + 1
      /\ bounds' \in [creates : Nat, deletes : Nat, changes : Nat, locks : Nat]
      /\ UNCHANGED <<override, recent, chat, fork>>
  BY TalkTypes, Spent DEF Talks!Create
<1>2. PICK name \in Talks!Named, confirmed \in BOOLEAN :
        /\ confirmed => Talks!Routable(name) /\ Len(locks) < bounds.locks
        /\ rows' = [rows EXCEPT ![s] =
                      [Talks!Absent EXCEPT !.life = births', !.model = name,
                                     !.lock = IF confirmed THEN Len(locks) + 1 ELSE 0]]
        /\ locks' = IF confirmed
                      THEN Append(locks, [session |-> s, life |-> births', name |-> name])
                      ELSE locks
  BY DEF Talks!Create
<1>3. PICK n \in Nat : n = Len(locks)
  BY TalkTypes
<1>4. PICK life \in Nat : life = births + 1
  BY TalkTypes
<1>5. PICK row : row = [Talks!Absent EXCEPT !.life = life, !.model = name,
                                     !.lock = IF confirmed THEN n + 1 ELSE 0]
  OBVIOUS
<1>6. /\ row \in RowRecords /\ row.life = life
      /\ row.lock = IF confirmed THEN n + 1 ELSE 0
  <2>1. Talks!Absent \in RowRecords
    BY DEF Talks!Absent, RowRecords
  <2>2. (IF confirmed THEN n + 1 ELSE 0) \in Nat
    BY <1>3
  <2> QED
    BY <1>5, <2>1, <2>2 DEF RowRecords
<1>7. rows' = [rows EXCEPT ![s] = row]
  <2>1. births' = life /\ Len(locks) = n
    BY <1>1, <1>3, <1>4
  <2> QED
    BY <1>2, <1>5, <2>1
<1>8. /\ rows' \in [Sessions -> RowRecords]
      /\ \A r \in Sessions : rows'[r] = IF r = s THEN row ELSE rows[r]
  BY <1>6, <1>7, TalkTypes
<1>9. LivesGoOn
  BY <1>1, <1>4, <1>8, <1>6, TalkTypes DEF LivesGoOn
<1>10. CASE ~confirmed
  <2>1. RowsGoOn
    BY <1>1, <1>4, <1>8, <1>10, <1>6, TalkTypes DEF RowsGoOn
  <2> QED
    BY <1>1, <1>2, <1>8, <1>10, <2>1, RowsStep
<1>11. CASE confirmed
  <2> DEFINE lock == [session |-> s, life |-> life, name |-> name]
  <2>1. lock \in LockRecords /\ locks' = Append(locks, lock)
    BY <1>1, <1>2, <1>4, <1>11 DEF LockRecords
  <2>2. /\ locks' \in Seq(LockRecords) /\ Len(locks') = n + 1
        /\ locks'[n + 1] = lock /\ LocksKept
    BY <1>3, <2>1, TalkTypes, LockAdded
  <2>3. \A k \in 1..n : /\ locks[k] \in LockRecords /\ 0 < locks[k].life /\ locks[k].life <= births
                        /\ locks'[k] = locks[k]
    BY <1>3, <2>2, TalkTypes, ElementOfSeq DEF LockInv, LocksKept
  <2>4. \A k \in 1..Len(locks') : 0 < locks'[k].life /\ locks'[k].life <= births'
    <3>1. \A k \in 1..n : locks[k].life \in Nat
      BY <2>3 DEF LockRecords
    <3>2. births \in Nat /\ births' = births + 1 /\ lock.life = births'
      BY <1>1, <1>4, TalkTypes
    <3> HIDE DEF lock
    <3>3. ASSUME NEW k \in 1..n + 1
          PROVE  0 < locks'[k].life /\ locks'[k].life <= births'
      <4>1. CASE k = n + 1
        BY <2>2, <3>2, <4>1
      <4>2. CASE k \in 1..n
        BY <2>3, <3>1, <3>2, <4>2
      <4> QED
        BY <1>3, <4>1, <4>2
    <3> QED
      BY <2>2, <3>3
  <2>5. ASSUME NEW r \in Sessions, rows'[r].life > 0
        PROVE  /\ rows'[r].life <= births'
               /\ rows'[r].lock \in 0..Len(locks')
               /\ rows'[r].lock > 0 => IsLock(rows[r].lock, r, rows[r].life)'
               /\ \A k \in 1..Len(locks') :
                    IsLock(k, r, rows[r].life)' => k <= rows'[r].lock
    <3>1. CASE r = s
      <4>1. rows'[r].life = life /\ rows'[r].lock = n + 1
        BY <1>8, <1>11, <1>6, <3>1
      <4> QED
        BY <1>1, <1>4, <2>2, <3>1, <4>1 DEF IsLock
    <3>2. CASE r # s
      <4>1. /\ rows'[r] = rows[r] /\ rows[r].life > 0 /\ rows[r].life <= births
            /\ rows[r].lock \in 0..n
            /\ rows[r].lock > 0 => IsLock(rows[r].lock, r, rows[r].life)
            /\ \A k \in 1..n : IsLock(k, r, rows[r].life) => k <= rows[r].lock
        BY <1>3, <1>8, <2>5, <3>2, TalkTypes DEF LockInv
      <4>2. lock.session # r
        BY <3>2
      <4>3. rows[r].life \in Nat
        BY TalkTypes DEF RowRecords
      <4> HIDE DEF lock
      <4> QED
        <5>1. ASSUME NEW k \in 1..n + 1, IsLock(k, r, rows[r].life)'
              PROVE  k <= rows'[r].lock
          <6>1. k # n + 1
            BY <2>2, <4>2, <5>1 DEF IsLock
          <6>2. k \in 1..n
            BY <1>3, <6>1
          <6> QED
            BY <2>3, <4>1, <5>1, <6>2 DEF IsLock
        <5>2. births \in Nat /\ births' = births + 1
          BY <1>1, TalkTypes
        <5> QED
          BY <2>2, <2>3, <4>1, <4>3, <5>1, <5>2 DEF IsLock
    <3> QED
      BY <3>1, <3>2
  <2>6. LockInv'
    BY <2>4, <2>5 DEF LockInv
  <2> QED
    BY <1>1, <1>4, <1>8, <1>9, <2>2, <2>6, TalkTypes, OthersHold, ForksWait, TalksGoOn
<1> QED
  BY <1>10, <1>11

(* The handlers of chats: the rows keep their lives and locks or get a     *)
(* lock, the forks wait.                                                   *)
LEMMA ChatStepKeeps ==
  ASSUME TalkInv, NEW c \in Talkers, NEW t \in ChatRecords,
         chat' = [chat EXCEPT ![c] = t], HoldsLock(t)',
         LockInv', LocksKept, locks' \in Seq(LockRecords),
         rows' \in [Sessions -> RowRecords],
         \A s \in Sessions : rows'[s].life = rows[s].life,
         recent' \in Talks!Ran \cup {Talks!None}, UNCHANGED <<births, override, fork>>,
         bounds' \in [creates : Nat, deletes : Nat, changes : Nat, locks : Nat]
  PROVE  TalkInv'
<1>1. LivesGoOn
  BY TalkTypes DEF LivesGoOn
<1> QED
  BY <1>1, TalkTypes, ChatMoves, ForksWait, TalksGoOn

(* Nothing but the chat itself changes.                                    *)
LEMMA ChatOnly ==
  ASSUME TalkInv, NEW c \in Talkers, NEW t \in ChatRecords,
         chat' = [chat EXCEPT ![c] = t], HoldsLock(t),
         UNCHANGED <<rows, births, locks, override, fork>>, recent' \in Talks!Ran \cup {Talks!None},
         bounds' \in [creates : Nat, deletes : Nat, changes : Nat, locks : Nat]
  PROVE  TalkInv'
<1>1. LocksKept
  BY TalkTypes DEF LocksKept
<1>2. RowsGoOn
  BY TalkTypes DEF RowsGoOn
<1>3. LockInv'
  BY <1>2, TalkTypes, RowsMove
<1>4. HoldsLock(t)'
  BY <1>1, TalkTypes, StillHolds DEF ChatRecords
<1> QED
  BY <1>1, <1>3, <1>4, TalkTypes, ChatStepKeeps

LEMMA NewestIsMine ==
  ASSUME TalkInv, NEW s \in Sessions
  PROVE  /\ Talks!NewestLock(s) \in 0..Len(locks)
         /\ Talks!NewestLock(s) > 0 => locks[Talks!NewestLock(s)].session = s
<1> DEFINE mine == {k \in 1..Len(locks) : locks[k].session = s /\ locks[k].life = rows[s].life}
<1>1. CASE mine = {}
  <2>1. Talks!NewestLock(s) = 0
    BY <1>1 DEF Talks!NewestLock
  <2> QED
    BY <2>1, TalkTypes
<1>2. CASE mine # {}
  <2>1. PICK k \in mine : TRUE
    BY <1>2
  <2>2. rows[s].life > 0
    BY <2>1, TalkTypes DEF LockInv
  <2>3. rows[s].lock \in mine /\ \A j \in mine : j <= rows[s].lock
    <3>1. /\ rows[s].lock \in 0..Len(locks)
          /\ rows[s].lock > 0 => IsLock(rows[s].lock, s, rows[s].life)
          /\ \A j \in 1..Len(locks) : IsLock(j, s, rows[s].life) => j <= rows[s].lock
      BY <2>2, TalkTypes DEF LockInv
    <3>2. \A j \in mine : IsLock(j, s, rows[s].life) /\ j \in 1..Len(locks)
      BY DEF IsLock
    <3>3. rows[s].lock > 0
      BY <2>1, <3>1, <3>2, TalkTypes
    <3>4. rows[s].lock \in 1..Len(locks) /\ IsLock(rows[s].lock, s, rows[s].life)
      BY <3>1, <3>3
    <3> QED
      BY <3>1, <3>2, <3>4 DEF IsLock
  <2>4. Talks!NewestLock(s) \in mine
    BY <1>2, <2>3 DEF Talks!NewestLock
  <2> QED
    BY <2>4, TalkTypes
<1> QED
  BY <1>1, <1>2

LEMMA ArrivalKeeps ==
  ASSUME TalkInv, NEW c \in Talkers, NEW s \in Sessions, Talks!ChatArrives(c, s)
  PROVE  TalkInv'
<1>1. PICK newest : newest = Talks!NewestLock(s)
  OBVIOUS
<1>2. PICK t : t = [chat[c] EXCEPT !.pc = "lookup", !.session = s, !.since = newest]
  OBVIOUS
<1>3. chat' = [chat EXCEPT ![c] = t]
  BY <1>1, <1>2 DEF Talks!ChatArrives
<1>4. /\ newest \in Nat /\ newest \in 0..Len(locks)
      /\ newest > 0 => locks[newest].session = s
  BY <1>1, NewestIsMine, TalkTypes
<1>5. t \in ChatRecords /\ t.pc = "lookup" /\ t.session = s /\ t.since = newest
  <2>1. PICK old \in ChatRecords : old = chat[c]
    BY TalkTypes
  <2>2. t = [old EXCEPT !.pc = "lookup", !.session = s, !.since = newest]
    BY <1>2, <2>1
  <2> QED
    BY <1>4, <2>2 DEF ChatRecords
<1>6. HoldsLock(t)
  BY <1>4, <1>5 DEF HoldsLock
<1> QED
  BY <1>3, <1>5, <1>6, ChatOnly, TalkTypes DEF Talks!ChatArrives

LEMMA LookUpKeeps ==
  ASSUME TalkInv, NEW c \in Talkers, Talks!ChatLooksUp(c)
  PROVE  TalkInv'
<1>1. PICK old \in ChatRecords : old = chat[c] /\ old.pc = "lookup" /\ HoldsLock(old)
  BY TalkTypes DEF TalkInv, Talks!ChatLooksUp
<1>2. PICK row \in RowRecords : row = rows[old.session] /\ old.session \in Sessions
  BY <1>1, TalkTypes DEF HoldsLock
<1>3. CASE row.life = 0
  <2>1. PICK t : t = [old EXCEPT !.pc = "closed"]
    OBVIOUS
  <2>2. t \in ChatRecords /\ t.pc = "closed" /\ t.session = old.session /\ t.since = old.since
    BY <2>1 DEF ChatRecords
  <2>3. HoldsLock(t)
    BY <1>1, <1>2, <2>2 DEF HoldsLock
  <2>4. chat' = [chat EXCEPT ![c] = t]
    BY <1>1, <1>2, <1>3, <2>1 DEF Talks!ChatLooksUp, Talks!Moved
  <2> QED
    BY <2>2, <2>3, <2>4, ChatOnly, TalkTypes DEF Talks!ChatLooksUp
<1>4. CASE row.life # 0
  <2>1. PICK t : t = [old EXCEPT !.pc = "body", !.life = row.life, !.model = row.model,
                                 !.lock = row.lock]
    OBVIOUS
  <2>2. /\ t \in ChatRecords /\ t.pc = "body" /\ t.session = old.session /\ t.since = old.since
        /\ t.life = row.life /\ t.lock = row.lock
    BY <2>1 DEF ChatRecords, RowRecords
  <2>3. /\ row.life > 0 /\ row.lock \in 0..Len(locks)
        /\ row.lock > 0 => IsLock(row.lock, old.session, row.life)
        /\ \A k \in 1..Len(locks) : IsLock(k, old.session, row.life) => k <= row.lock
    BY <1>2, <1>4, TalkTypes DEF LockInv, RowRecords
  <2>4. SeesLock(t)
    <3>1. ASSUME t.since > 0, locks[t.since].life = t.life
          PROVE  t.since <= t.lock /\ IsLock(t.lock, t.session, t.life)
      <4>1. t.since \in 1..Len(locks) /\ locks[t.since].session = t.session
        BY <1>1, <2>2, <3>1, TalkTypes DEF HoldsLock, ChatRecords
      <4>2. t.since <= t.lock
        BY <2>2, <2>3, <3>1, <4>1 DEF IsLock
      <4> QED
        BY <2>2, <2>3, <4>1, <4>2, TalkTypes
    <3> QED
      BY <2>2, <2>3, <3>1 DEF SeesLock
  <2>5. HoldsLock(t)
    BY <1>1, <1>2, <2>2, <2>4 DEF HoldsLock
  <2>6. chat' = [chat EXCEPT ![c] = t]
    BY <1>1, <1>2, <1>4, <2>1 DEF Talks!ChatLooksUp, Talks!Moved
  <2> QED
    BY <2>2, <2>5, <2>6, ChatOnly, TalkTypes DEF Talks!ChatLooksUp
<1> QED
  BY <1>3, <1>4

LEMMA SelectKeeps ==
  ASSUME TalkInv, NEW c \in Talkers, Talks!ChatSelects(c)
  PROVE  TalkInv'
<1>1. PICK old \in ChatRecords : old = chat[c] /\ old.pc = "body" /\ HoldsLock(old)
  BY TalkTypes DEF TalkInv, Talks!ChatSelects
<1>2. ASSUME Talks!Moved(c, "closed"), UNCHANGED <<rows, locks>>
      PROVE  TalkInv'
  <2>1. PICK t : t = [old EXCEPT !.pc = "closed"]
    OBVIOUS
  <2>2. t \in ChatRecords /\ t.pc = "closed" /\ t.session = old.session /\ t.since = old.since
    BY <2>1 DEF ChatRecords
  <2>3. HoldsLock(t)
    BY <1>1, <2>2 DEF HoldsLock
  <2>4. chat' = [chat EXCEPT ![c] = t]
    BY <1>1, <1>2, <2>1 DEF Talks!Moved
  <2> QED
    BY <1>2, <2>2, <2>3, <2>4, ChatOnly, TalkTypes DEF Talks!ChatSelects
<1>3. ASSUME NEW own \in Talks!Named \cup {Talks!None}, NEW require \in BOOLEAN,
             require => Talks!Routable(own), Talks!Persist(c, own, require),
             chat' = [chat EXCEPT
               ![c].pc = "history", ![c].own = own,
               ![c].held = Talks!HeldLock(chat[c], own, require)]
      PROVE  TalkInv'
  <2>1. PICK held : held = Talks!HeldLock(old, own, require)
    OBVIOUS
  <2>2. PICK t : t = [old EXCEPT !.pc = "history", !.own = own, !.held = held]
    OBVIOUS
  <2>3. chat' = [chat EXCEPT ![c] = t]
    BY <1>1, <1>3, <2>1, <2>2
  <2>4. held \in Talks!Named \cup {Talks!None}
    <3>1. Talks!LockedName(old) \in Talks!Named \cup {Talks!None}
      <4>1. old.lock \in 0..Len(locks) /\ locks \in Seq(LockRecords)
        BY <1>1, TalkTypes DEF HoldsLock, SeesLock
      <4>2. ASSUME old.lock > 0
            PROVE  locks[old.lock] \in LockRecords
        BY <4>1, <4>2, ElementOfSeq
      <4> QED
        BY <4>2 DEF Talks!LockedName, LockRecords
    <3> QED
      BY <1>3, <2>1, <3>1 DEF Talks!HeldLock
  <2>5. /\ t \in ChatRecords /\ t.pc = "history" /\ t.own = own /\ t.held = held
        /\ t.session = old.session /\ t.since = old.since /\ t.life = old.life
        /\ t.lock = old.lock
    BY <1>3, <2>2, <2>4 DEF ChatRecords
  <2>6. ASSUME own = Talks!None
        PROVE  held = Talks!LockedName(t)
    BY <2>1, <2>5, <2>6 DEF Talks!HeldLock, Talks!LockedName
  <2>7. HoldsLock(t)
    BY <1>1, <2>5, <2>6 DEF HoldsLock, SeesLock
  <2>8. CASE require
    <3>1. own \in Talks!Named /\ old.session \in Sessions /\ Talks!Locked(old.session, own)
      BY <1>1, <1>3, <2>8 DEF Talks!Routable, Talks!Persist, HoldsLock
    <3>2. /\ LockInv' /\ LocksKept
          /\ rows' \in [Sessions -> RowRecords] /\ locks' \in Seq(LockRecords)
          /\ \A s \in Sessions : rows'[s].life = rows[s].life
      BY <3>1, LockTaken, TalkTypes DEF Talks!ChatSelects
    <3>3. HoldsLock(t)'
      BY <2>5, <2>7, <3>2, StillHolds, TalkTypes DEF ChatRecords
    <3> QED
      BY <2>3, <2>5, <3>2, <3>3, ChatStepKeeps, TalkTypes DEF Talks!ChatSelects
  <2>9. CASE ~require
    <3>1. UNCHANGED <<rows, locks>>
      BY <1>3, <2>9 DEF Talks!Persist
    <3> QED
      BY <2>3, <2>5, <2>7, <3>1, ChatOnly, TalkTypes DEF Talks!ChatSelects
  <2> QED
    BY <2>8, <2>9
<1> QED
  BY <1>2, <1>3 DEF Talks!ChatSelects

(* What a turn may begin on is a model it may have run on.                 *)
LEMMA SelectedRuns ==
  ASSUME TalkInv, NEW c \in Talkers, chat[c].pc # "idle", NEW configured \in {"global", Talks!None}
  PROVE  Talks!Recovered(Talks!Selected(c, configured)) \in Talks!Ran \cup {Talks!None}
<1>1. /\ chat[c].session \in Sessions /\ chat[c] \in ChatRecords
      /\ override[chat[c].session] \in {Talks!None, "switched"}
  BY TalkTypes DEF TalkInv, HoldsLock
<1>2. ASSUME NEW name \in Talks!Named
      PROVE  Talks!Promised(name) \in Talks!Ran
  BY <1>2 DEF Talks!Named, Talks!Promised, Talks!Route, Talks!None, Talks!Ran
<1>3. Talks!Unlocked(c, configured) \in Talks!Ran \cup {Talks!None}
  BY <1>1, <1>2 DEF Talks!Unlocked, ChatRecords, Talks!Ran, Talks!None
<1>4. Talks!Selected(c, configured) \in Talks!Ran \cup {Talks!None}
  BY <1>1, <1>2, <1>3 DEF Talks!Selected, ChatRecords
<1> QED
  BY <1>4, TalkTypes DEF Talks!Recovered

LEMMA TurnBeginsKeeps ==
  ASSUME TalkInv, NEW c \in Talkers, Talks!TurnBegins(c)
  PROVE  TalkInv'
<1>1. PICK old \in ChatRecords : old = chat[c] /\ old.pc = "history" /\ HoldsLock(old)
  BY TalkTypes DEF TalkInv, Talks!TurnBegins
<1>2. ASSUME Talks!Moved(c, "closed"), UNCHANGED <<recent, bounds>>
      PROVE  TalkInv'
  <2>1. PICK t : t = [old EXCEPT !.pc = "closed"]
    OBVIOUS
  <2>2. t \in ChatRecords /\ t.pc = "closed" /\ t.session = old.session /\ t.since = old.since
    BY <2>1 DEF ChatRecords
  <2>3. HoldsLock(t)
    BY <1>1, <2>2 DEF HoldsLock
  <2>4. chat' = [chat EXCEPT ![c] = t]
    BY <1>1, <1>2, <2>1 DEF Talks!Moved
  <2> QED
    BY <1>2, <2>2, <2>3, <2>4, ChatOnly, TalkTypes DEF Talks!TurnBegins
<1>3. ASSUME NEW configured \in {"global", Talks!None},
             IF configured = Talks!None THEN Talks!Spend("changes") ELSE UNCHANGED bounds,
             NEW ran, ran = Talks!Recovered(Talks!Selected(c, configured)), recent' = ran,
             chat' = [chat EXCEPT ![c].pc = "turn", ![c].ran = ran]
      PROVE  TalkInv'
  <2>1. ran \in Talks!Ran \cup {Talks!None}
    BY <1>1, <1>3, SelectedRuns
  <2>2. PICK t : t = [old EXCEPT !.pc = "turn", !.ran = ran]
    OBVIOUS
  <2>3. /\ t \in ChatRecords /\ t.pc = "turn" /\ t.own = old.own /\ t.held = old.held
        /\ t.session = old.session /\ t.since = old.since /\ t.life = old.life
        /\ t.lock = old.lock
    BY <2>1, <2>2 DEF ChatRecords
  <2>4. HoldsLock(t)
    BY <1>1, <2>3 DEF HoldsLock, SeesLock, Talks!LockedName
  <2>5. chat' = [chat EXCEPT ![c] = t]
    BY <1>1, <1>3, <2>2
  <2>6. bounds' \in [creates : Nat, deletes : Nat, changes : Nat, locks : Nat]
    BY <1>3, Spent, TalkTypes
  <2> QED
    BY <1>3, <2>1, <2>3, <2>4, <2>5, <2>6, ChatOnly, TalkTypes DEF Talks!TurnBegins
<1> QED
  BY <1>2, <1>3 DEF Talks!TurnBegins

LEMMA TurnEndsKeeps ==
  ASSUME TalkInv, NEW c \in Talkers, Talks!TurnEnds(c)
  PROVE  TalkInv'
<1>1. PICK old \in ChatRecords :
        /\ old = chat[c] /\ old.pc \in {"turn", "abandoned"} /\ HoldsLock(old)
        /\ old.session \in Sessions
  BY TalkTypes DEF TalkInv, Talks!TurnEnds, HoldsLock
<1>2. PICK ran \in {old.ran, "fallback"} :
        chat' = [chat EXCEPT
                  ![c].ran = ran,
                  ![c].pc = IF chat[c].pc = "turn" /\ Talks!LockMatches(c, ran)
                              THEN "answered" ELSE "closed"]
  BY <1>1 DEF Talks!TurnEnds
<1>3. PICK next \in {"answered", "closed"} :
        next = IF chat[c].pc = "turn" /\ Talks!LockMatches(c, ran) THEN "answered" ELSE "closed"
  OBVIOUS
<1>4. PICK t : t = [old EXCEPT !.ran = ran, !.pc = next]
  OBVIOUS
<1>5. /\ t \in ChatRecords /\ t.pc = next /\ t.own = old.own /\ t.held = old.held
      /\ t.session = old.session /\ t.since = old.since /\ t.life = old.life
      /\ t.lock = old.lock /\ t.ran = ran
  BY <1>2, <1>4 DEF ChatRecords, Talks!Ran
<1>6. chat' = [chat EXCEPT ![c] = t]
  BY <1>1, <1>2, <1>3, <1>4
<1>7. ASSUME next = "answered", t.held # Talks!None
      PROVE  t.ran = Talks!Promised(t.held)
  BY <1>1, <1>3, <1>5, <1>7 DEF Talks!LockMatches
<1>8. HoldsLock(t)
  BY <1>1, <1>5, <1>7 DEF HoldsLock, SeesLock, Talks!LockedName
<1>9. /\ rows' \in [Sessions -> RowRecords]
      /\ \A s \in Sessions : rows'[s].life = rows[s].life /\ rows'[s].lock = rows[s].lock
  <2>1. CASE Talks!Exists(old.session)
    <3>1. PICK base \in RowRecords : base = rows[old.session]
      BY <1>1, TalkTypes
    <3>2. PICK row : row = [base EXCEPT !.turns = @ \cup {c}]
      OBVIOUS
    <3>3. rows' = [rows EXCEPT ![old.session] = row]
      BY <1>1, <2>1, <3>1, <3>2 DEF Talks!TurnEnds
    <3>4. row \in RowRecords /\ row.life = base.life /\ row.lock = base.lock
      BY <3>2 DEF RowRecords
    <3> QED
      BY <1>1, <3>1, <3>3, <3>4, TalkTypes
  <2>2. CASE ~Talks!Exists(old.session)
    BY <1>1, <2>2, TalkTypes DEF Talks!TurnEnds
  <2> QED
    BY <2>1, <2>2
<1>10. /\ RowsGoOn /\ LocksKept
  BY <1>9, TalkTypes DEF RowsGoOn, LocksKept, Talks!TurnEnds
<1>11. LockInv'
  BY <1>9, <1>10, RowsMove, TalkTypes DEF Talks!TurnEnds
<1>12. HoldsLock(t)'
  BY <1>5, <1>8, <1>10, StillHolds, TalkTypes DEF ChatRecords, Talks!TurnEnds
<1> QED
  BY <1>5, <1>6, <1>9, <1>10, <1>11, <1>12, ChatStepKeeps, TalkTypes DEF Talks!TurnEnds

LEMMA VanishKeeps ==
  ASSUME TalkInv, NEW c \in Talkers, Talks!ChatVanishes(c)
  PROVE  TalkInv'
<1>1. PICK old \in ChatRecords :
        old = chat[c] /\ old.pc \in {"history", "turn"} /\ HoldsLock(old)
  BY TalkTypes DEF TalkInv, Talks!ChatVanishes
<1>2. PICK next \in {"abandoned", "closed"} :
        next = IF chat[c].pc = "turn" THEN "abandoned" ELSE "closed"
  OBVIOUS
<1>3. PICK t : t = [old EXCEPT !.pc = next]
  OBVIOUS
<1>4. /\ t \in ChatRecords /\ t.pc = next /\ t.own = old.own /\ t.held = old.held
      /\ t.session = old.session /\ t.since = old.since /\ t.life = old.life
      /\ t.lock = old.lock
  BY <1>3 DEF ChatRecords
<1>5. HoldsLock(t)
  BY <1>1, <1>2, <1>4 DEF HoldsLock, SeesLock, Talks!LockedName
<1>6. chat' = [chat EXCEPT ![c] = t]
  BY <1>1, <1>2, <1>3 DEF Talks!ChatVanishes, Talks!Moved
<1> QED
  BY <1>4, <1>5, <1>6, ChatOnly, TalkTypes DEF Talks!ChatVanishes

(* The rows keep their locks, and the fork goes on.                        *)
LEMMA ForkStepKeeps ==
  ASSUME TalkInv, NEW f \in Forks, NEW t \in ForkRecords,
         fork' = [fork EXCEPT ![f] = t], ForkedLater(t)',
         rows' \in [Sessions -> RowRecords], RowsGoOn,
         UNCHANGED <<locks, override, recent, chat, bounds>>
  PROVE  TalkInv'
<1>1. LivesGoOn
  BY TalkTypes DEF RowsGoOn, LivesGoOn
<1>2. LocksKept
  BY TalkTypes DEF LocksKept
<1> QED
  BY <1>1, <1>2, TalkTypes, RowsMove, OthersHold, ForkMoves, TalksGoOn DEF RowsGoOn

LEMMA ForkLooksKeeps ==
  ASSUME TalkInv, NEW f \in Forks, NEW s \in Sessions,
         Talks!ForkLooksUp(f, s) \/ Talks!ForkChecks(f, s)
  PROVE  TalkInv'
<1>1. PICK old \in ForkRecords : old = fork[f] /\ ForkedLater(old)
  BY TalkTypes DEF TalkInv
<1>2. RowsGoOn /\ rows' = rows /\ births' = births /\ rows' \in [Sessions -> RowRecords]
      /\ UNCHANGED <<locks, override, recent, chat, bounds>>
  BY TalkTypes DEF Talks!ForkLooksUp, Talks!ForkChecks, RowsGoOn
<1>3. CASE Talks!ForkLooksUp(f, s)
  <2>1. PICK name : name = rows[s].model
    OBVIOUS
  <2>2. PICK t : t = [old EXCEPT !.pc = "check", !.source = s, !.model = name]
    OBVIOUS
  <2>3. name \in Talks!Named \cup {Talks!None}
    BY <2>1, TalkTypes DEF RowRecords
  <2>4. t \in ForkRecords /\ t.pc = "check" /\ t.source = s /\ t.before = old.before
    BY <2>2, <2>3 DEF ForkRecords
  <2>5. ForkedLater(t)'
    BY <1>1, <1>2, <2>4 DEF ForkedLater
  <2>6. fork' = [fork EXCEPT ![f] = t]
    BY <1>1, <1>3, <2>1, <2>2 DEF Talks!ForkLooksUp
  <2> QED
    BY <1>2, <2>4, <2>5, <2>6, ForkStepKeeps
<1>4. CASE Talks!ForkChecks(f, s)
  <2>1. PICK t : t = [old EXCEPT !.pc = "end", !.target = s, !.before = births]
    OBVIOUS
  <2>2. /\ t \in ForkRecords /\ t.pc = "end" /\ t.source = old.source /\ t.target = s
        /\ t.before = births
    BY <2>1, TalkTypes DEF ForkRecords
  <2>3. rows[s].life = 0
    BY <1>4, TalkTypes DEF Talks!ForkChecks, Talks!Exists, RowRecords
  <2>4. ForkedLater(t)'
    BY <1>1, <1>2, <1>4, <2>2, <2>3, TalkTypes DEF ForkedLater, Talks!ForkChecks
  <2>5. fork' = [fork EXCEPT ![f] = t]
    BY <1>1, <1>4, <2>1 DEF Talks!ForkChecks
  <2> QED
    BY <1>2, <2>2, <2>4, <2>5, ForkStepKeeps
<1> QED
  BY <1>3, <1>4

(* A fork that goes on with what it has looked up.                         *)
LEMMA ForkAdvances ==
  ASSUME TalkInv, NEW f \in Forks, NEW step \in {"create", "read", "replace", "closed"},
         NEW turns \in SUBSET Talkers,
         fork[f].pc \in {"end", "create", "read", "replace"},
         fork' = [fork EXCEPT ![f] = [@ EXCEPT !.pc = step, !.turns = turns]],
         rows' \in [Sessions -> RowRecords], RowsGoOn,
         UNCHANGED <<locks, override, recent, chat, bounds>>
  PROVE  TalkInv'
<1>1. PICK old \in ForkRecords : old = fork[f] /\ ForkedLater(old)
  BY TalkTypes DEF TalkInv
<1>2. PICK t : t = [old EXCEPT !.pc = step, !.turns = turns]
  OBVIOUS
<1>3. /\ t \in ForkRecords /\ t.pc = step /\ t.source = old.source /\ t.target = old.target
      /\ t.before = old.before
  BY <1>2 DEF ForkRecords
<1>4. ForkedLater(t)
  BY <1>1, <1>3 DEF ForkedLater
<1>5. LivesGoOn
  BY TalkTypes DEF RowsGoOn, LivesGoOn
<1>6. ForkedLater(t)'
  BY <1>3, <1>4, <1>5, ForkWaits, TalkTypes
<1>7. fork' = [fork EXCEPT ![f] = t]
  BY <1>1, <1>2
<1> QED
  BY <1>3, <1>6, <1>7, ForkStepKeeps

LEMMA ForkWritesKeeps ==
  ASSUME TalkInv, NEW f \in Forks,
         Talks!ForkEnds(f) \/ Talks!ForkCreates(f) \/ Talks!ForkReads(f) \/ Talks!ForkReplaces(f)
  PROVE  TalkInv'
<1>1. PICK old \in ForkRecords :
        /\ old = fork[f] /\ old.source \in Sessions /\ old.target \in Sessions
        /\ old.turns \in SUBSET Talkers
  <2>1. PICK t \in ForkRecords : t = fork[f]
    BY TalkTypes
  <2>2. fork[f].pc \in {"end", "create", "read", "replace"}
    BY DEF Talks!ForkEnds, Talks!ForkCreates, Talks!ForkReads, Talks!ForkReplaces
  <2>3. ForkedLater(t)
    BY <2>1 DEF TalkInv
  <2>4. t.source \in Sessions /\ t.target \in Sessions
    BY <2>1, <2>2, <2>3 DEF ForkedLater
  <2>5. t.turns \in SUBSET Talkers
    BY DEF ForkRecords
  <2> QED
    BY <2>1, <2>4, <2>5
<1>2. CASE Talks!ForkEnds(f)
  <2>1. /\ rows' \in [Sessions -> RowRecords]
        /\ \A s \in Sessions : rows'[s].life = rows[s].life /\ rows'[s].lock = rows[s].lock
    <3>1. CASE Talks!Exists(old.source)
      <4>1. PICK row : row = [rows[old.source] EXCEPT !.ended = TRUE]
        OBVIOUS
      <4>2. rows' = [rows EXCEPT ![old.source] = row]
        BY <1>1, <1>2, <3>1, <4>1 DEF Talks!ForkEnds
      <4>3. /\ row \in RowRecords /\ row.life = rows[old.source].life
            /\ row.lock = rows[old.source].lock
        <5>1. rows[old.source] \in RowRecords
          BY <1>1, TalkTypes
        <5> QED
          BY <1>1, <4>1, <5>1 DEF RowRecords
      <4> QED
        BY <1>1, <4>2, <4>3, TalkTypes
    <3>2. CASE ~Talks!Exists(old.source)
      BY <1>1, <1>2, <3>2, TalkTypes DEF Talks!ForkEnds
    <3> QED
      BY <3>1, <3>2
  <2>2. RowsGoOn
    BY <1>2, <2>1, TalkTypes DEF RowsGoOn, Talks!ForkEnds
  <2>3. fork' = [fork EXCEPT ![f] = [@ EXCEPT !.pc = "create", !.turns = old.turns]]
    BY <1>1, <1>2, TalkTypes DEF Talks!ForkEnds, ForkRecords
  <2> QED
    BY <1>1, <1>2, <2>1, <2>2, <2>3, ForkAdvances DEF Talks!ForkEnds
<1>3. CASE Talks!ForkCreates(f)
  <2>1. /\ rows' \in [Sessions -> RowRecords] /\ RowsGoOn
    <3>1. CASE Talks!Exists(old.target)
      BY <1>1, <1>3, <3>1, TalkTypes DEF Talks!ForkCreates, RowsGoOn
    <3>2. CASE ~Talks!Exists(old.target)
      <4>1. PICK life \in Nat : life = births + 1
        BY TalkTypes
      <4>2. PICK row : row = [Talks!Absent EXCEPT !.life = life, !.model = old.model]
        OBVIOUS
      <4>3. row \in RowRecords /\ row.life = life /\ row.lock = 0
        <5>1. Talks!Absent \in RowRecords /\ Talks!Absent.lock = 0
          BY DEF Talks!Absent, RowRecords
        <5> QED
          BY <4>2, <5>1 DEF RowRecords, ForkRecords
      <4>4. births' = life
        BY <1>1, <1>3, <3>2, <4>1 DEF Talks!ForkCreates
      <4>5. rows' = [rows EXCEPT ![old.target] = row]
        BY <1>1, <1>3, <3>2, <4>2, <4>4 DEF Talks!ForkCreates
      <4> QED
        BY <1>1, <4>1, <4>3, <4>4, <4>5, TalkTypes DEF RowsGoOn
    <3> QED
      BY <3>1, <3>2
  <2>2. fork' = [fork EXCEPT ![f] = [@ EXCEPT !.pc = "read", !.turns = old.turns]]
    BY <1>1, <1>3, TalkTypes DEF Talks!ForkCreates, ForkRecords
  <2> QED
    BY <1>1, <1>3, <2>1, <2>2, ForkAdvances DEF Talks!ForkCreates
<1>4. CASE Talks!ForkReads(f)
  <2>1. rows[old.source].turns \in SUBSET Talkers
    BY <1>1, TalkTypes DEF RowRecords
  <2>2. RowsGoOn /\ rows' \in [Sessions -> RowRecords]
    BY <1>4, TalkTypes DEF RowsGoOn, Talks!ForkReads
  <2>3. fork' = [fork EXCEPT ![f] = [@ EXCEPT !.pc = "replace", !.turns = rows[old.source].turns]]
    BY <1>1, <1>4, TalkTypes DEF Talks!ForkReads, ForkRecords
  <2> QED
    BY <1>4, <2>1, <2>2, <2>3, ForkAdvances DEF Talks!ForkReads
<1>5. CASE Talks!ForkReplaces(f)
  <2>1. /\ rows' \in [Sessions -> RowRecords]
        /\ \A s \in Sessions : rows'[s].life = rows[s].life /\ rows'[s].lock = rows[s].lock
    <3>1. CASE Talks!Exists(old.target)
      <4>1. PICK row : row = [rows[old.target] EXCEPT !.turns = old.turns]
        OBVIOUS
      <4>2. rows' = [rows EXCEPT ![old.target] = row]
        BY <1>1, <1>5, <3>1, <4>1 DEF Talks!ForkReplaces
      <4>3. /\ row \in RowRecords /\ row.life = rows[old.target].life
            /\ row.lock = rows[old.target].lock
        <5>1. rows[old.target] \in RowRecords
          BY <1>1, TalkTypes
        <5> QED
          BY <1>1, <4>1, <5>1 DEF RowRecords
      <4> QED
        BY <1>1, <4>2, <4>3, TalkTypes
    <3>2. CASE ~Talks!Exists(old.target)
      BY <1>1, <1>5, <3>2, TalkTypes DEF Talks!ForkReplaces
    <3> QED
      BY <3>1, <3>2
  <2>2. RowsGoOn
    BY <1>5, <2>1, TalkTypes DEF RowsGoOn, Talks!ForkReplaces
  <2>3. fork' = [fork EXCEPT ![f] = [@ EXCEPT !.pc = "closed", !.turns = old.turns]]
    BY <1>1, <1>5, TalkTypes DEF Talks!ForkReplaces, ForkRecords
  <2> QED
    BY <1>1, <1>5, <2>1, <2>2, <2>3, ForkAdvances DEF Talks!ForkReplaces
<1> QED
  BY <1>2, <1>3, <1>4, <1>5

LEMMA OtherRowsKeep ==
  ASSUME TalkInv, NEW s \in Sessions,
         Talks!Patch(s) \/ Talks!Delete(s) \/ Talks!Switch(s) \/ Talks!ConfirmLock(s)
  PROVE  TalkInv'
<1>1. CASE Talks!Patch(s)
  <2>1. PICK row : row = [rows[s] EXCEPT !.ended = TRUE]
    OBVIOUS
  <2>2. rows' = [rows EXCEPT ![s] = row]
    BY <1>1, <2>1 DEF Talks!Patch
  <2>3. row \in RowRecords /\ row.life = rows[s].life /\ row.lock = rows[s].lock
    BY <2>1, TalkTypes DEF RowRecords
  <2>4. rows' \in [Sessions -> RowRecords] /\ RowsGoOn
    <3>1. \A r \in Sessions : rows'[r].life = rows[r].life /\ rows'[r].lock = rows[r].lock
      BY <2>2, <2>3, TalkTypes
    <3>2. rows' \in [Sessions -> RowRecords]
      BY <2>2, <2>3, TalkTypes
    <3> QED
      BY <1>1, <3>1, <3>2, TalkTypes DEF RowsGoOn, Talks!Patch
  <2> QED
    BY <1>1, <2>4, RowsStep, Spent, TalkTypes DEF Talks!Patch
<1>2. CASE Talks!Delete(s)
  <2>1. Talks!Absent \in RowRecords /\ Talks!Absent.life = 0
    BY DEF Talks!Absent, RowRecords
  <2>2. rows' \in [Sessions -> RowRecords] /\ RowsGoOn
    BY <1>2, <2>1, TalkTypes DEF RowsGoOn, Talks!Delete
  <2> QED
    BY <1>2, <2>2, RowsStep, Spent, TalkTypes DEF Talks!Delete
<1>3. CASE Talks!Switch(s)
  <2>1. RowsGoOn /\ LivesGoOn /\ LocksKept
    BY <1>3, TalkTypes DEF RowsGoOn, LivesGoOn, LocksKept, Talks!Switch
  <2>2. override' \in [Sessions -> {Talks!None, "switched"}]
    BY <1>3, TalkTypes DEF Talks!Switch
  <2>3. rows' \in [Sessions -> RowRecords] /\ LockInv'
    BY <1>3, <2>1, RowsMove, TalkTypes DEF Talks!Switch
  <2> QED
    BY <1>3, <2>1, <2>2, <2>3, OthersHold, ForksWait, TalksGoOn, Spent, TalkTypes DEF Talks!Switch
<1>4. CASE Talks!ConfirmLock(s)
  <2>1. PICK name \in Talks!Named : Talks!Locked(s, name)
    BY <1>4 DEF Talks!ConfirmLock
  <2>2. /\ LockInv' /\ LocksKept
        /\ rows' \in [Sessions -> RowRecords] /\ locks' \in Seq(LockRecords)
        /\ \A r \in Sessions : rows'[r].life = rows[r].life
    BY <1>4, <2>1, LockTaken, TalkTypes DEF Talks!ConfirmLock
  <2>3. LivesGoOn
    BY <1>4, <2>2, TalkTypes DEF LivesGoOn, Talks!ConfirmLock
  <2> QED
    BY <1>4, <2>2, <2>3, OthersHold, ForksWait, TalksGoOn, TalkTypes DEF Talks!ConfirmLock
<1> QED
  BY <1>1, <1>2, <1>3, <1>4

LEMMA TalkStep ==
  ASSUME TalkInv, [Talks!Next]_(Talks!vars)
  PROVE  TalkInv'
<1>1. ASSUME NEW s \in Sessions,
             Talks!Create(s) \/ Talks!Patch(s) \/ Talks!Delete(s) \/ Talks!Switch(s)
               \/ Talks!ConfirmLock(s)
      PROVE  TalkInv'
  BY <1>1, CreateKeeps, OtherRowsKeep
<1>2. ASSUME NEW c \in Talkers, Talks!ChatStep(c)
      PROVE  TalkInv'
  BY <1>2, ArrivalKeeps, LookUpKeeps, SelectKeeps, TurnBeginsKeeps, TurnEndsKeeps, VanishKeeps
     DEF Talks!ChatStep
<1>3. ASSUME NEW f \in Forks, Talks!ForkStep(f)
      PROVE  TalkInv'
  BY <1>3, ForkLooksKeeps, ForkWritesKeeps DEF Talks!ForkStep
<1>4. CASE UNCHANGED Talks!vars
  BY <1>4 DEF Talks!vars, TalkInv, Talks!TypeOK, LockInv, IsLock, HoldsLock, SeesLock,
     Talks!LockedName, ForkedLater
<1> QED
  BY <1>1, <1>2, <1>3, <1>4 DEF Talks!Next

LEMMA TalksImply ==
  ASSUME TalkInv
  PROVE  Talks!LockedTurnsHold
<1>1. SUFFICES ASSUME NEW c \in Talkers, chat[c].pc = "answered", chat[c].own = Talks!None,
                      chat[c].since > 0, locks[chat[c].since].life = chat[c].life
               PROVE  \E k \in chat[c].since..Len(locks) :
                        /\ locks[k].session = chat[c].session
                        /\ locks[k].life = chat[c].life
                        /\ chat[c].ran = Talks!Promised(locks[k].name)
  BY DEF Talks!LockedTurnsHold
<1>2. PICK t \in ChatRecords : t = chat[c] /\ HoldsLock(t)
  BY TalkTypes DEF TalkInv
<1>3. /\ t.lock \in t.since..Len(locks) /\ t.lock > 0
      /\ IsLock(t.lock, t.session, t.life)
      /\ t.held = locks[t.lock].name
  BY <1>1, <1>2, TalkTypes DEF HoldsLock, SeesLock, Talks!LockedName, ChatRecords
<1>4. locks[t.lock].name \in Talks!Named
  <2>1. t.lock \in 1..Len(locks)
    BY <1>2, <1>3, TalkTypes DEF ChatRecords
  <2>2. locks[t.lock] \in LockRecords
    BY <2>1, TalkTypes, ElementOfSeq
  <2> QED
    BY <2>2 DEF LockRecords
<1>5. t.ran = Talks!Promised(locks[t.lock].name)
  BY <1>1, <1>2, <1>3, <1>4 DEF HoldsLock, Talks!Named, Talks!None
<1> QED
  BY <1>2, <1>3, <1>5 DEF IsLock

(* A transcript loses turns by the last write of a fork only.              *)
LEMMA ForksSpare ==
  ASSUME TalkInv, [Talks!Next]_(Talks!vars)
  PROVE  Talks!KeepsTurns
<1>1. SUFFICES ASSUME NEW s \in Sessions, rows[s].life > 0, rows'[s].life = rows[s].life,
                      ~(rows[s].turns \subseteq rows'[s].turns)
               PROVE  \E f \in Forks : /\ fork[f].pc = "replace" /\ fork[f].target = s
                                       /\ fork[f].before < rows[s].life
  BY DEF Talks!KeepsTurns
<1>2. rows \in [Sessions -> RowRecords] /\ births \in Nat /\ rows[s] \in RowRecords
  BY TalkTypes
<1>3. ASSUME NEW r \in Sessions,
             Talks!Create(r) \/ Talks!Patch(r) \/ Talks!Delete(r) \/ Talks!Switch(r)
               \/ Talks!ConfirmLock(r)
      PROVE  FALSE
  <2>1. CASE Talks!Create(r)
    <3>1. \E row : rows' = [rows EXCEPT ![r] = row]
      BY <2>1 DEF Talks!Create
    <3>2. r # s
      BY <1>1, <2>1 DEF Talks!Create, Talks!Exists
    <3> QED
      BY <1>1, <1>2, <3>1, <3>2
  <2>2. CASE Talks!Patch(r)
    <3>1. rows' = [rows EXCEPT ![r].ended = TRUE]
      BY <2>2 DEF Talks!Patch
    <3>2. rows'[s].turns = rows[s].turns
      BY <1>2, <3>1 DEF RowRecords
    <3> QED
      BY <1>1, <3>2
  <2>3. CASE Talks!Delete(r)
    BY <1>1, <1>2, <2>3 DEF Talks!Delete, Talks!Absent
  <2>4. CASE Talks!Switch(r)
    BY <1>1, <2>4 DEF Talks!Switch
  <2>5. CASE Talks!ConfirmLock(r)
    <3>1. PICK name \in Talks!Named : Talks!Locked(r, name)
      BY <2>5 DEF Talks!ConfirmLock
    <3> QED
      BY <1>1, <2>5, <3>1, LockTaken, TalkTypes DEF Talks!ConfirmLock
  <2> QED
    BY <1>3, <2>1, <2>2, <2>3, <2>4, <2>5
<1>4. ASSUME NEW c \in Talkers, Talks!ChatStep(c)
      PROVE  FALSE
  <2>1. CASE Talks!ChatSelects(c)
    <3>1. chat[c].pc = "body" /\ rows' # rows
      BY <1>1, <2>1 DEF Talks!ChatSelects
    <3>2. PICK own \in Talks!Named \cup {Talks!None}, require \in BOOLEAN :
            (require => Talks!Routable(own)) /\ Talks!Persist(c, own, require)
      BY <2>1, <3>1 DEF Talks!ChatSelects
    <3>3. own \in Talks!Named /\ chat[c].session \in Sessions /\ Talks!Locked(chat[c].session, own)
      BY <3>1, <3>2 DEF Talks!Persist, Talks!Routable, TalkInv, HoldsLock
    <3> QED
      BY <1>1, <2>1, <3>3, LockTaken, TalkTypes DEF Talks!ChatSelects
  <2>2. CASE Talks!TurnEnds(c)
    <3>1. rows' = [rows EXCEPT ![chat[c].session].turns = @ \cup {c}] \/ rows' = rows
      BY <2>2 DEF Talks!TurnEnds
    <3>2. rows[s].turns \subseteq rows'[s].turns
      BY <1>2, <3>1 DEF RowRecords
    <3> QED
      BY <1>1, <3>2
  <2>3. CASE rows' = rows
    BY <1>1, <2>3
  <2> QED
    BY <1>4, <2>1, <2>2, <2>3 DEF Talks!ChatStep, Talks!ChatArrives, Talks!ChatLooksUp,
       Talks!TurnBegins, Talks!ChatVanishes
<1>5. ASSUME NEW f \in Forks, Talks!ForkStep(f)
      PROVE  fork[f].pc = "replace" /\ fork[f].target = s /\ fork[f].before < rows[s].life
  <2>1. PICK old \in ForkRecords : old = fork[f] /\ ForkedLater(old)
    BY TalkTypes DEF TalkInv
  <2>2. CASE Talks!ForkEnds(f)
    <3>1. rows' = [rows EXCEPT ![fork[f].source].ended = TRUE] \/ rows' = rows
      BY <2>2 DEF Talks!ForkEnds
    <3>2. rows'[s].turns = rows[s].turns
      BY <1>2, <3>1 DEF RowRecords
    <3> QED
      BY <1>1, <3>2
  <2>3. CASE Talks!ForkCreates(f)
    <3>1. \/ rows' = rows
          \/ ~Talks!Exists(old.target) /\ \E row : rows' = [rows EXCEPT ![old.target] = row]
      BY <2>1, <2>3 DEF Talks!ForkCreates
    <3> QED
      BY <1>1, <1>2, <3>1 DEF Talks!Exists
  <2>4. CASE Talks!ForkReplaces(f)
    <3>1. /\ old.pc = "replace"
          /\ rows' = [rows EXCEPT ![old.target].turns = old.turns] \/ rows' = rows
      BY <2>1, <2>4 DEF Talks!ForkReplaces
    <3>2. old.target = s
      BY <1>1, <1>2, <3>1 DEF RowRecords
    <3> QED
      BY <1>1, <2>1, <3>1, <3>2 DEF ForkedLater
  <2>5. CASE rows' = rows
    BY <1>1, <2>5
  <2> QED
    BY <1>5, <2>2, <2>3, <2>4, <2>5
       DEF Talks!ForkStep, Talks!ForkLooksUp, Talks!ForkChecks, Talks!ForkReads
<1>6. CASE UNCHANGED Talks!vars
  BY <1>1, <1>6 DEF Talks!vars
<1> QED
  BY <1>3, <1>4, <1>5, <1>6 DEF Talks!Next

-----------------------------------------------------------------------------
(* Background processes of turns                                           *)

(* The newest turn keeps the entry until it prunes it.                     *)
NewestHasEntry ==
  counter > 0 /\ phase[counter] \in {"claimed", "named", "recorded", "turn"} => current = counter

(* Who reads the marks, or reaps, does it for a turn; a turn that had a    *)
(* baseline still has one, and a reaper without an epoch read it torn.     *)
ReapsForTurn(r) ==
  /\ r.pc \in {"named", "kept", "reaps"} => r.turn \in Processes!Turns
  /\ r.pc = "kept" => Processes!HasBaseline(r.turn)
  /\ r.pc = "reaps" => r.gated \/ r.torn

ReadersOwn == \A s \in Stops : ReapsForTurn(reaper[s])

Reapers == [pc : {"none", "named", "kept", "reaps", "over"}, turn : {0} \cup Processes!Turns,
            kept : SUBSET Jobs, gated : BOOLEAN, torn : BOOLEAN]

TurnInv ==
  /\ Processes!TypeOK /\ counter <= MaxTurns
  /\ NewestHasEntry /\ ReadersOwn /\ Processes!ReapSparesNewest

LEMMA TurnInit ==
  ASSUME Processes!BoundsOK, Processes!Init
  PROVE  TurnInv
BY DEF Processes!BoundsOK, Processes!Init, TurnInv, Processes!TypeOK, Processes!Phases,
   NewestHasEntry, ReadersOwn, ReapsForTurn, Processes!ReapSparesNewest, Processes!Turns

(* The loop reads a mark: no thread moves, and nothing is killed.          *)
LEMMA ReadKeeps ==
  ASSUME TurnInv, NEW s \in Stops, NEW r \in Reapers, Processes!Reads(s, r), ReapsForTurn(r)
  PROVE  TurnInv'
<1>1. /\ reaper' = [reaper EXCEPT ![s] = r]
      /\ UNCHANGED <<phase, counter, current, baseline, owner, running, killed>>
  BY DEF Processes!Reads
<1>2. reaper \in [Stops -> Reapers]
  BY DEF TurnInv, Processes!TypeOK, Reapers
<1>3. reaper' \in [Stops -> Reapers] /\ ReadersOwn'
  BY <1>1, <1>2 DEF TurnInv, ReadersOwn, ReapsForTurn, Processes!HasBaseline
<1>4. Processes!TypeOK'
  BY <1>1, <1>3 DEF TurnInv, Processes!TypeOK, Reapers
<1> QED
  BY <1>1, <1>3, <1>4 DEF TurnInv, NewestHasEntry, Processes!ReapSparesNewest

LEMMA LoopKeeps ==
  ASSUME TurnInv, NEW s \in Stops,
         \/ \E t \in Processes!Turns : Processes!Abandon(s, t)
         \/ Processes!ReadBaseline(s) \/ Processes!ReadEpoch(s)
  PROVE  TurnInv'
<1>1. reaper[s] \in Reapers
  BY DEF TurnInv, Processes!TypeOK, Reapers
<1>2. ASSUME NEW t \in Processes!Turns, Processes!Abandon(s, t)
      PROVE  TurnInv'
  <2> DEFINE r == [reaper[s] EXCEPT !.pc = "named", !.turn = t]
  <2>1. r \in Reapers /\ ReapsForTurn(r)
    BY <1>1 DEF Reapers, ReapsForTurn
  <2>2. Processes!Reads(s, r)
    BY <1>2 DEF Processes!Abandon
  <2> QED
    BY <2>1, <2>2, ReadKeeps
<1>3. CASE Processes!ReadBaseline(s)
  <2> DEFINE t == reaper[s].turn
             kept == [reaper[s] EXCEPT !.pc = "kept", !.kept = baseline[t]]
             over == [reaper[s] EXCEPT !.pc = "over"]
  <2>1. t \in Processes!Turns
    BY <1>3 DEF Processes!ReadBaseline, TurnInv, ReadersOwn, ReapsForTurn
  <2>2. baseline[t] \subseteq Jobs
    BY <2>1 DEF TurnInv, Processes!TypeOK
  <2>3. over \in Reapers /\ ReapsForTurn(over)
    BY <1>1 DEF Reapers, ReapsForTurn
  <2>4. kept \in Reapers /\ kept.pc = "kept" /\ kept.turn = t
    BY <1>1, <2>2 DEF Reapers
  <2>5. (Processes!Reads(s, kept) /\ Processes!HasBaseline(t)) \/ Processes!Reads(s, over)
    BY <1>3 DEF Processes!ReadBaseline
  <2> HIDE DEF kept, over, t
  <2>6. Processes!HasBaseline(t) => ReapsForTurn(kept)
    BY <2>1, <2>4 DEF ReapsForTurn
  <2> QED
    BY <2>3, <2>4, <2>5, <2>6, ReadKeeps
<1>4. CASE Processes!ReadEpoch(s)
  <2> DEFINE t == reaper[s].turn
             gated == Processes!HasEpoch(t)
             torn == Processes!Torn(t)
             r == [reaper[s] EXCEPT !.pc = "reaps", !.gated = gated, !.torn = torn]
  <2>1. t \in Processes!Turns /\ phase[t] \in Processes!Phases /\ Processes!HasBaseline(t)
    BY <1>4 DEF Processes!ReadEpoch, TurnInv, ReadersOwn, ReapsForTurn, Processes!TypeOK
  <2>2. gated \in BOOLEAN /\ torn \in BOOLEAN /\ Processes!Reads(s, r)
    BY <1>4 DEF Processes!ReadEpoch, Processes!HasEpoch, Processes!Torn
  <2>3. gated \/ torn
    BY <2>1 DEF Processes!HasEpoch, Processes!Torn, Processes!HasBaseline, Processes!Phases
  <2> HIDE DEF gated, torn
  <2>4. /\ r \in Reapers /\ r.turn = t /\ r.pc = "reaps"
        /\ r.gated = gated /\ r.torn = torn
    BY <1>1, <2>2 DEF Reapers
  <2> HIDE DEF r, t
  <2>5. ReapsForTurn(r)
    BY <2>1, <2>3, <2>4 DEF ReapsForTurn
  <2> QED
    BY <2>2, <2>4, <2>5, ReadKeeps
<1> QED
  BY <1>2, <1>3, <1>4

(* A victim of the newest turn while it runs is the reaper's own, if there *)
(* is an epoch: the entry is that turn's, so no other reaper is current.   *)
LEMMA ReapKeeps ==
  ASSUME TurnInv, NEW s \in Stops, Processes!Reap(s)
  PROVE  TurnInv'
<1> DEFINE r == reaper[s]
           doomed == Processes!Doomed(r)
           Fallen(p) == [by |-> r.turn, owner |-> owner[p], torn |-> r.torn,
                         newest |-> Processes!NewestLive(owner[p])]
           fallen == {Fallen(p) : p \in doomed}
<1>1. /\ r.pc = "reaps" /\ reaper' = [reaper EXCEPT ![s].pc = "over"]
      /\ running' = running \ doomed /\ killed' = killed \cup fallen
      /\ UNCHANGED <<phase, counter, current, baseline, owner>>
  BY Zenon DEF Processes!Reap
<1>2. r \in Reapers /\ r.turn \in Processes!Turns /\ (r.gated \/ r.torn)
  BY <1>1 DEF TurnInv, Processes!TypeOK, Reapers, ReadersOwn, ReapsForTurn
<1>3. doomed \subseteq running /\ \A p \in doomed : owner[p] \in Processes!Turns
  BY DEF TurnInv, Processes!TypeOK, Processes!Doomed
<1>4. ASSUME NEW p \in doomed, Processes!NewestLive(owner[p]), ~r.torn
      PROVE  owner[p] = r.turn
  <2>1. owner[p] = counter /\ phase[counter] = "turn" /\ counter \in Processes!Turns
    BY <1>3, <1>4 DEF Processes!NewestLive
  <2>2. current = counter /\ counter # 0
    BY <2>1 DEF TurnInv, NewestHasEntry, Processes!Turns
  <2>3. current \in {0, r.turn}
    BY <1>2, <1>4 DEF Processes!Doomed, Processes!StillCurrent
  <2> QED
    BY <2>1, <2>2, <2>3
<1>5. ASSUME NEW p \in doomed
      PROVE  /\ Fallen(p) \in [by : Processes!Turns, owner : Processes!Turns,
                               torn : BOOLEAN, newest : BOOLEAN]
             /\ Fallen(p).by = Fallen(p).owner \/ ~Fallen(p).newest \/ Fallen(p).torn
  <2>1. Processes!NewestLive(owner[p]) \in BOOLEAN /\ r.torn \in BOOLEAN
    BY <1>2 DEF Processes!NewestLive, Reapers
  <2> QED
    BY <1>2, <1>3, <1>4, <2>1
<1> HIDE DEF doomed, Fallen
<1>6. /\ reaper' \in [Stops -> Reapers]
      /\ \A q \in Stops : reaper'[q] = reaper[q] \/ reaper'[q].pc = "over"
  BY <1>1 DEF TurnInv, Processes!TypeOK, Reapers
<1>7. Processes!TypeOK'
  BY <1>1, <1>5, <1>6 DEF TurnInv, Processes!TypeOK, Reapers
<1>8. ReadersOwn'
  BY <1>1, <1>6 DEF TurnInv, ReadersOwn, ReapsForTurn, Processes!HasBaseline
<1>9. Processes!ReapSparesNewest'
  BY <1>1, <1>5 DEF TurnInv, Processes!ReapSparesNewest
<1> QED
  BY <1>1, <1>7, <1>8, <1>9 DEF TurnInv, NewestHasEntry

(* The thread of a turn goes on, and nothing is killed.                    *)
LEMMA ThreadKeeps ==
  ASSUME Processes!BoundsOK, TurnInv,
         \/ Processes!Claim
         \/ \E t \in Processes!Turns : \/ Processes!Mark(t) \/ Processes!Snapshot(t)
                                       \/ Processes!Prune(t) \/ Processes!EmptyBaseline(t)
  PROVE  TurnInv'
<1> USE DEF TurnInv, NewestHasEntry
<1>1. UNCHANGED <<owner, running, reaper, killed>>
  BY DEF Processes!Claim, Processes!Mark, Processes!Snapshot, Processes!Prune,
     Processes!EmptyBaseline
<1>2. ASSUME \A t \in Processes!Turns : Processes!HasBaseline(t) => Processes!HasBaseline(t)'
      PROVE  ReadersOwn' /\ Processes!ReapSparesNewest'
  BY <1>1, <1>2 DEF ReadersOwn, ReapsForTurn, Processes!ReapSparesNewest
<1>3. ASSUME phase' \in [Processes!Turns -> Processes!Phases], counter' \in Nat, current' \in Nat,
             baseline' \in [Processes!Turns -> SUBSET Jobs]
      PROVE  Processes!TypeOK'
  BY <1>1, <1>3 DEF Processes!TypeOK
<1>4. CASE Processes!Claim
  <2>1. counter < MaxTurns /\ counter' = counter + 1 /\ current' = counter' /\ baseline' = baseline
    BY <1>4 DEF Processes!Claim
  <2>2. counter' \in Nat /\ counter' <= MaxTurns
    BY <2>1 DEF Processes!BoundsOK, Processes!TypeOK
  <2>3. phase' \in [Processes!Turns -> Processes!Phases]
    BY <1>4 DEF Processes!Claim, Processes!GoesOn, Processes!TypeOK, Processes!Phases
  <2>4. Processes!TypeOK'
    BY <1>3, <2>1, <2>2, <2>3 DEF Processes!TypeOK
  <2>5. \A t \in Processes!Turns : Processes!HasBaseline(t) => Processes!HasBaseline(t)'
    BY <1>4 DEF Processes!Claim, Processes!GoesOn, Processes!HasBaseline, Processes!TypeOK
  <2> QED
    BY <1>2, <2>1, <2>2, <2>4, <2>5
<1>5. ASSUME NEW t \in Processes!Turns,
             \/ Processes!Mark(t) \/ Processes!Snapshot(t)
             \/ Processes!Prune(t) \/ Processes!EmptyBaseline(t)
      PROVE  TurnInv'
  <2>1. PICK to \in Processes!Phases \ {"idle", "claimed"} :
          /\ phase' = [phase EXCEPT ![t] = to]
          /\ to \in {"named", "recorded", "turn"}
               => phase[t] \in {"claimed", "named", "recorded"}
          /\ to = "named" => phase[t] = "claimed"
    BY <1>5 DEF Processes!Mark, Processes!Snapshot, Processes!Prune, Processes!EmptyBaseline,
       Processes!GoesOn, Processes!Phases
  <2>2. /\ counter' = counter
        /\ current' = current \/ (to = "pruned" /\ current' = Processes!Pruned(t))
        /\ baseline' = baseline \/ baseline' = [baseline EXCEPT ![t] = running]
                                \/ baseline' = [baseline EXCEPT ![t] = {}]
    BY <1>5, <2>1 DEF Processes!Mark, Processes!Snapshot, Processes!Prune,
       Processes!EmptyBaseline, Processes!GoesOn, Processes!Phases, Processes!TypeOK
  <2>3. Processes!TypeOK'
    BY <1>3, <2>1, <2>2 DEF Processes!TypeOK, Processes!Pruned
  <2>4. NewestHasEntry'
    BY <2>1, <2>2 DEF Processes!TypeOK, Processes!Pruned
  <2>5. \A u \in Processes!Turns : Processes!HasBaseline(u) => Processes!HasBaseline(u)'
    BY <2>1, <2>2 DEF Processes!HasBaseline, Processes!Phases, Processes!TypeOK
  <2> QED
    BY <1>2, <2>2, <2>3, <2>4, <2>5
<1> QED
  BY <1>4, <1>5

LEMMA TurnKeeps ==
  ASSUME Processes!BoundsOK, TurnInv, [Processes!Next]_(Processes!vars)
  PROVE  TurnInv'
<1>1. ASSUME NEW t \in Processes!Turns, NEW p \in Jobs, Processes!Start(t, p)
      PROVE  TurnInv'
  BY <1>1 DEF Processes!Start, TurnInv, Processes!TypeOK, NewestHasEntry, ReadersOwn,
     ReapsForTurn, Processes!HasBaseline, Processes!ReapSparesNewest
<1>2. CASE UNCHANGED Processes!vars
  BY <1>2 DEF Processes!vars, TurnInv, Processes!TypeOK, NewestHasEntry, ReadersOwn,
     ReapsForTurn, Processes!HasBaseline, Processes!ReapSparesNewest
<1> QED
  BY <1>1, <1>2, ThreadKeeps, LoopKeeps, ReapKeeps DEF Processes!Next

-----------------------------------------------------------------------------
(* The idempotency middleware                                              *)

Records == [body : Bodies \cup {"none"}, content : Seq(Posts), fresh : BOOLEAN]

(* q was accepted by the application and given its own answer.             *)
Accepted(q) == pc[q] = "done" /\ answer[q] = <<q>>

(* The list that captures belongs to one request at a time, and what is    *)
(* stored is the whole answer of an accepted one.                          *)
CaptureInv ==
  /\ \A q, r \in Idem!Capturing : q = r
  /\ \A r \in Posts :
       /\ pc[r] = "captures" => captured = <<>>
       /\ pc[r] = "captured" => captured = <<r>> /\ answer[r] = <<r>>
       /\ pc[r] = "done" => answer[r] = <<r>>
  /\ record.fresh =>
       \E q \in Posts : record.content = <<q>> /\ body[q] = record.body /\ Accepted(q)
  /\ \A r \in Posts : pc[r] = "replayed" =>
       \E q \in Posts : answer[r] = <<q>> /\ body[q] = body[r] /\ Accepted(q)

IdemInv == Idem!TypeOK /\ (~overlap => CaptureInv)

LEMMA IdemInit ==
  ASSUME Idem!BoundsOK, Idem!Init
  PROVE  IdemInv
<1>1. Idem!NoRecord \in Records /\ Idem!NoRecord.fresh = FALSE
  BY DEF Idem!NoRecord, Records
<1>2. /\ \A r \in Posts : pc[r] = "idle"
      /\ <<>> \in Seq(Posts)
  BY DEF Idem!Init
<1>3. Idem!TypeOK
  BY <1>1, <1>2 DEF Idem!Init, Idem!TypeOK, Records
<1> QED
  BY <1>1, <1>2, <1>3 DEF Idem!Init, IdemInv, CaptureInv, Idem!Capturing

LEMMA IdemTypes ==
  ASSUME Idem!BoundsOK, Idem!TypeOK, [Idem!Next]_(Idem!vars)
  PROVE  Idem!TypeOK'
<1> USE DEF Idem!TypeOK, Idem!Goes, Records
<1>1. Idem!Fault => faults' \in Nat
  BY DEF Idem!Fault
<1>2. Idem!NoRecord \in Records
  BY DEF Idem!NoRecord
<1>3. ASSUME NEW r \in Posts, Idem!Misses(r)
      PROVE  Idem!TypeOK'
  <2>1. /\ record' \in Records
        /\ faults' \in Nat
    BY <1>1, <1>2, <1>3 DEF Idem!Misses
  <2> QED
    BY <1>3, <2>1 DEF Idem!Misses
<1>4. ASSUME NEW r \in Posts, Idem!Replays(r)
      PROVE  Idem!TypeOK'
  BY <1>4 DEF Idem!Replays
<1>5. ASSUME NEW r \in Posts, Idem!Conflicts(r)
      PROVE  Idem!TypeOK'
  BY <1>5 DEF Idem!Conflicts
<1>6. ASSUME NEW r \in Posts, Idem!LookupFails(r)
      PROVE  Idem!TypeOK'
  BY <1>1, <1>6 DEF Idem!LookupFails
<1>7. ASSUME NEW r \in Posts, Idem!BareReturns(r)
      PROVE  Idem!TypeOK'
  BY <1>7 DEF Idem!BareReturns
<1>8. ASSUME NEW r \in Posts, Idem!Forwards(r)
      PROVE  Idem!TypeOK'
  BY <1>8 DEF Idem!Forwards
<1>9. ASSUME NEW r \in Posts, Idem!AppAnswers(r)
      PROVE  Idem!TypeOK'
  <2>1. captured' \in Seq(Posts) /\ <<r>> \in Seq(Posts)
    BY <1>9 DEF Idem!AppAnswers
  <2> QED
    BY <1>9, <2>1 DEF Idem!AppAnswers
<1>10. ASSUME NEW r \in Posts, Idem!Stores(r)
       PROVE  Idem!TypeOK'
  <2>1. [body |-> body[r], content |-> captured, fresh |-> TRUE]
          \in Records
    OBVIOUS
  <2>2. /\ record' \in Records
        /\ faults' \in Nat
    BY <1>1, <1>10, <2>1 DEF Idem!Stores
  <2> QED
    BY <1>10, <2>2 DEF Idem!Stores
<1>11. CASE Idem!Expires
  <2>1. record' \in Records
    BY <1>2, <1>11 DEF Idem!Expires
  <2> QED
    BY <1>1, <1>11, <2>1 DEF Idem!Expires
<1>12. CASE UNCHANGED Idem!vars
  BY <1>12 DEF Idem!vars
<1> QED
  BY <1>3, <1>4, <1>5, <1>6, <1>7, <1>8, <1>9, <1>10, <1>11, <1>12 DEF Idem!Next

(* A step that touches neither the list nor the record and lets r go on    *)
(* outside the capture disturbs nothing.                                   *)
LEMMA GoesOnElsewhere ==
  ASSUME Idem!TypeOK, CaptureInv, NEW r \in Posts, NEW to, Idem!Goes(r, to),
         to \notin {"captures", "captured"},
         to = "done" => answer'[r] = <<r>>,
         to = "replayed" =>
           \E q \in Posts : answer'[r] = <<q>> /\ body[q] = body[r] /\ Accepted(q),
         pc[r] \notin {"done", "replayed"},
         \A q \in Posts \ {r} : answer'[q] = answer[q],
         UNCHANGED <<body, captured>>,
         record'.fresh => record' = record
  PROVE  CaptureInv'
<1>1. pc'[r] = to /\ \A q \in Posts \ {r} : pc'[q] = pc[q]
  BY DEF Idem!Goes, Idem!TypeOK
<1>2. \A q \in Posts : Accepted(q) => Accepted(q)' /\ q # r
  BY <1>1 DEF Accepted
<1>3. Idem!Capturing' \subseteq Idem!Capturing
  BY <1>1 DEF Idem!Capturing
<1> QED
  BY <1>1, <1>2, <1>3 DEF CaptureInv

LEMMA CaptureStep ==
  ASSUME Idem!BoundsOK, IdemInv, [Idem!Next]_(Idem!vars), ~overlap'
  PROVE  CaptureInv'
<1>1. overlap = FALSE
  BY DEF IdemInv, Idem!TypeOK, Idem!Next, Idem!vars, Idem!Misses, Idem!Replays, Idem!Conflicts,
     Idem!LookupFails, Idem!BareReturns, Idem!Forwards, Idem!AppAnswers, Idem!Stores, Idem!Expires
<1>2. Idem!TypeOK /\ CaptureInv
  BY <1>1 DEF IdemInv
<1>3. ASSUME NEW r \in Posts, Idem!Misses(r) \/ Idem!Conflicts(r) \/ Idem!LookupFails(r)
      PROVE  CaptureInv'
  <2>1. Idem!NoRecord.fresh = FALSE
    BY DEF Idem!NoRecord
  <2>2. \E to \in {"forward", "conflict", "bare"} : Idem!Goes(r, to)
    BY <1>3 DEF Idem!Misses, Idem!Conflicts, Idem!LookupFails
  <2>3. /\ pc[r] = "idle" /\ UNCHANGED <<answer, body, captured>>
        /\ record'.fresh => record' = record
    BY <1>3, <2>1 DEF Idem!Misses, Idem!Conflicts, Idem!LookupFails
  <2> QED
    BY <1>2, <2>2, <2>3, GoesOnElsewhere
<1>4. ASSUME NEW r \in Posts, Idem!Replays(r)
      PROVE  CaptureInv'
  <2>1. PICK q \in Posts : record.content = <<q>> /\ body[q] = record.body /\ Accepted(q)
    BY <1>2, <1>4 DEF Idem!Replays, CaptureInv
  <2>2. /\ pc[r] = "idle" /\ Idem!Goes(r, "replayed") /\ UNCHANGED <<body, captured, record>>
        /\ answer'[r] = <<q>> /\ body[q] = body[r]
        /\ \A s \in Posts \ {r} : answer'[s] = answer[s]
    BY <1>2, <1>4, <2>1 DEF Idem!Replays, Idem!TypeOK
  <2> QED
    BY <1>2, <2>1, <2>2, GoesOnElsewhere
<1>5. ASSUME NEW r \in Posts, Idem!BareReturns(r)
      PROVE  CaptureInv'
  <2>1. /\ pc[r] = "bare" /\ Idem!Goes(r, "done") /\ UNCHANGED <<body, captured, record>>
        /\ answer'[r] = <<r>>
        /\ \A s \in Posts \ {r} : answer'[s] = answer[s]
    BY <1>2, <1>5 DEF Idem!BareReturns, Idem!TypeOK
  <2> QED
    BY <1>2, <2>1, GoesOnElsewhere
<1>6. ASSUME NEW r \in Posts, Idem!Forwards(r)
      PROVE  CaptureInv'
  <2>1. Idem!Capturing = {}
    BY <1>6 DEF Idem!Forwards
  <2>2. /\ pc[r] = "forward" /\ pc'[r] = "captures"
        /\ \A q \in Posts \ {r} : pc'[q] = pc[q]
        /\ captured' = <<>> /\ UNCHANGED <<body, answer, record>>
    BY <1>2, <1>6 DEF Idem!Forwards, Idem!Goes, Idem!TypeOK
  <2>3. \A q \in Posts : Accepted(q) => Accepted(q)'
    BY <2>2 DEF Accepted
  <2>4. Idem!Capturing' = {r}
    BY <2>1, <2>2 DEF Idem!Capturing
  <2> QED
    BY <1>2, <2>2, <2>3, <2>4 DEF CaptureInv, Idem!Capturing
<1>7. ASSUME NEW r \in Posts, Idem!AppAnswers(r)
      PROVE  CaptureInv'
  <2>1. /\ pc[r] = "captures" /\ pc'[r] \in {"captured", "failed"}
        /\ \A q \in Posts \ {r} : pc'[q] = pc[q]
        /\ answer'[r] = <<r>> /\ \A q \in Posts \ {r} : answer'[q] = answer[q]
        /\ captured' = Append(captured, r) /\ UNCHANGED <<body, record>>
    BY <1>2, <1>7 DEF Idem!AppAnswers, Idem!Goes, Idem!TypeOK
  <2>2. captured' = <<r>>
    <3>1. captured = <<>>
      BY <1>2, <2>1 DEF CaptureInv
    <3> QED
      BY <2>1, <3>1
  <2>3. Idem!Capturing = {r} /\ Idem!Capturing' \subseteq {r}
    BY <1>2, <2>1 DEF CaptureInv, Idem!Capturing
  <2>4. \A q \in Posts : Accepted(q) => Accepted(q)' /\ q # r
    BY <2>1 DEF Accepted
  <2> QED
    BY <1>2, <2>1, <2>2, <2>3, <2>4 DEF CaptureInv, Idem!Capturing
<1>8. ASSUME NEW r \in Posts, Idem!Stores(r)
      PROVE  CaptureInv'
  <2>1. /\ pc[r] = "captured" /\ pc'[r] = "done"
        /\ \A q \in Posts \ {r} : pc'[q] = pc[q]
        /\ UNCHANGED <<body, answer, captured>>
        /\ record' = [body |-> body[r], content |-> captured, fresh |-> TRUE] \/ record' = record
    BY <1>2, <1>8 DEF Idem!Stores, Idem!Goes, Idem!TypeOK
  <2>2. captured = <<r>> /\ answer[r] = <<r>>
    BY <1>2, <2>1 DEF CaptureInv
  <2>3. Idem!Capturing' \subseteq Idem!Capturing
    BY <2>1 DEF Idem!Capturing
  <2>4. \A q \in Posts : Accepted(q) => Accepted(q)'
    BY <2>1 DEF Accepted
  <2>5. Accepted(r)'
    BY <2>1, <2>2 DEF Accepted
  <2>6. record'.fresh =>
          \E q \in Posts : record'.content = <<q>> /\ body[q] = record'.body /\ Accepted(q)'
    BY <1>2, <2>1, <2>2, <2>4, <2>5 DEF CaptureInv
  <2> QED
    BY <1>2, <2>1, <2>2, <2>3, <2>4, <2>6 DEF CaptureInv
<1>9. CASE Idem!Expires
  <2>1. record'.fresh = FALSE /\ UNCHANGED <<body, pc, answer, captured>>
    BY <1>2, <1>9 DEF Idem!Expires, Idem!NoRecord, Idem!TypeOK
  <2> QED
    BY <1>2, <2>1 DEF CaptureInv, Idem!Capturing, Accepted
<1>10. CASE UNCHANGED Idem!vars
  BY <1>2, <1>10 DEF Idem!vars, CaptureInv, Idem!Capturing, Accepted
<1> QED
  BY <1>3, <1>4, <1>5, <1>6, <1>7, <1>8, <1>9, <1>10 DEF Idem!Next

-----------------------------------------------------------------------------
(* Shared results                                                          *)

Requesting ==
  [pc : {"idle", "waiting", "answered", "failed", "gone"}, key : Keys, print : Prints, turn : Nat]

LEMMA TurnOfRequest ==
  ASSUME request \in [Posts -> Requesting], NEW r \in Posts, NEW n \in Nat,
         NEW to \in {"answered", "waiting"}, Shared!Shares(r, n, to)
  PROVE  /\ request' \in [Posts -> Requesting]
         /\ request'[r].turn = n /\ request'[r].key = request[r].key
         /\ request'[r].print = request[r].print
         /\ \A s \in Posts \ {r} : request'[s] = request[s]
<1>1. /\ request[r] \in Requesting /\ DOMAIN request = Posts
      /\ request[r] = [pc |-> request[r].pc, key |-> request[r].key, print |-> request[r].print,
                   turn |-> request[r].turn]
  BY DEF Requesting
<1>2. request' = [request EXCEPT ![r] = [request[r] EXCEPT !.pc = to, !.turn = n]]
  BY <1>1 DEF Shared!Shares
<1>3. /\ request'[r] = [request[r] EXCEPT !.pc = to, !.turn = n]
      /\ \A s \in Posts \ {r} : request'[s] = request[s]
      /\ DOMAIN request' = Posts
  BY <1>2
<1>4. request'[r] = [pc |-> to, key |-> request[r].key, print |-> request[r].print, turn |-> n]
  BY <1>1, <1>3
<1>5. request'[r] \in Requesting
  BY <1>1, <1>4 DEF Requesting
<1>6. request' \in [Posts -> Requesting]
  BY <1>2, <1>5
<1> QED
  BY <1>3, <1>4, <1>6

TurnRecords ==
  [key : Keys, print : Prints, state : {"running", "stored", "failed"}, lost : BOOLEAN]

IsOver(t) == t.state = "failed" \/ t.lost

(* Later the list has the same turns for the same bodies, and what was     *)
(* over is over.                                                           *)
GoesOn(old, new) ==
  /\ Len(old) <= Len(new)
  /\ \A n \in 1..Len(old) :
       /\ new[n].key = old[n].key /\ new[n].print = old[n].print
       /\ IsOver(old[n]) => IsOver(new[n])

(* A running turn is registered, an entry is of a turn for its key and     *)
(* print, and a result that was not lost is in the store.                  *)
CacheInv ==
  /\ \A n \in 1..Len(computed) : computed[n].state = "running" => n \in computing
  /\ \A e \in results :
       /\ e.turn \in 1..Len(computed)
       /\ computed[e.turn].key = e.key /\ computed[e.turn].print = e.print
  /\ \A n \in 1..Len(computed) :
       computed[n].state = "stored" /\ ~computed[n].lost => n \in Shared!Held(results)

(* Who waits, or was answered, has a turn for its own key and print.       *)
HasTurn(r) ==
  request[r].pc \in {"waiting", "answered"} =>
    /\ request[r].turn \in 1..Len(computed)
    /\ computed[request[r].turn].key = request[r].key
    /\ computed[request[r].turn].print = request[r].print

OneAtATime ==
  \A j \in 1..Len(computed) : \A i \in 1..(j - 1) :
    computed[i].key = computed[j].key /\ computed[i].print = computed[j].print
      => IsOver(computed[i])

SharedInv == Shared!TypeOK /\ CacheInv /\ (\A r \in Posts : HasTurn(r)) /\ OneAtATime

LEMMA SharedInit ==
  ASSUME Shared!BoundsOK, Shared!Init
  PROVE  SharedInv
<1>1. /\ computed = <<>> /\ Len(computed) = 0 /\ 1..Len(computed) = {}
      /\ results = {} /\ computing = {}
      /\ stale = {}
  BY DEF Shared!Init
<1>2. \A r \in Posts : request[r].pc = "idle"
  BY DEF Shared!Init
<1>3. Shared!TypeOK
  <2>1. request \in [Posts -> Requesting]
    BY DEF Shared!Init, Requesting
  <2>2. left \in Nat
    BY DEF Shared!Init, Shared!BoundsOK
  <2> QED
    BY <1>1, <2>1, <2>2 DEF Shared!TypeOK, Requesting
<1> QED
  BY <1>1, <1>2, <1>3 DEF SharedInv, CacheInv, HasTurn, OneAtATime

LEMMA PurgedSubset ==
  ASSUME NEW entries
  PROVE  Shared!Purged(entries) \subseteq entries
BY DEF Shared!Purged

(* Marking only says of stored results that they are lost.                 *)
LEMMA MarkedTurns ==
  ASSUME NEW all \in Seq(TurnRecords), NEW entries
  PROVE  /\ Shared!Marked(all, entries) \in Seq(TurnRecords)
         /\ Len(Shared!Marked(all, entries)) = Len(all)
         /\ GoesOn(all, Shared!Marked(all, entries))
         /\ \A n \in 1..Len(all) :
              /\ Shared!Marked(all, entries)[n].state = all[n].state
              /\ all[n].state = "stored" /\ ~Shared!Marked(all, entries)[n].lost
                   => n \in Shared!Held(entries)
<1> DEFINE m == Shared!Marked(all, entries)
<1>1. m = [n \in 1..Len(all) |->
             IF all[n].state = "stored" /\ n \notin Shared!Held(entries)
               THEN [all[n] EXCEPT !.lost = TRUE] ELSE all[n]]
  BY Zenon DEF Shared!Marked
<1>2. \A n \in 1..Len(all) : all[n] \in TurnRecords
  OBVIOUS
<1>3. ASSUME NEW n \in 1..Len(all)
      PROVE  /\ m[n] \in TurnRecords /\ m[n].state = all[n].state
             /\ m[n].key = all[n].key /\ m[n].print = all[n].print
             /\ IsOver(all[n]) => IsOver(m[n])
             /\ all[n].state = "stored" /\ ~m[n].lost => n \in Shared!Held(entries)
  <2>1. CASE all[n].state = "stored" /\ n \notin Shared!Held(entries)
    <3>1. m[n] = [all[n] EXCEPT !.lost = TRUE]
      BY <1>1, <2>1
    <3> QED
      BY <1>2, <3>1, <2>1 DEF TurnRecords, IsOver
  <2>2. CASE ~(all[n].state = "stored" /\ n \notin Shared!Held(entries))
    <3>1. m[n] = all[n]
      BY <1>1, <2>2
    <3> QED
      BY <1>2, <3>1, <2>2 DEF TurnRecords
  <2> QED
    BY <2>1, <2>2
<1>4. m \in Seq(TurnRecords) /\ Len(m) = Len(all)
  <2>1. Len(all) \in Nat /\ DOMAIN m = 1..Len(all)
    BY <1>1
  <2>2. \A n \in 1..Len(all) : m[n] \in TurnRecords
    BY <1>3
  <2>3. m \in [1..Len(all) -> TurnRecords]
    BY <1>1, <2>1, <2>2
  <2> HIDE DEF m
  <2> QED
    BY <2>1, <2>3
<1> HIDE DEF m
<1>5. GoesOn(all, m)
  BY <1>3, <1>4 DEF GoesOn
<1> QED
  BY <1>3, <1>4, <1>5 DEF m

LEMMA ArriveKeeps ==
  ASSUME Shared!BoundsOK, SharedInv, NEW r \in Posts, Shared!Arrive(r)
  PROVE  SharedInv'
<1> DEFINE known == Shared!Marked(computed, results')
<1>1. computed \in Seq(TurnRecords) /\ Len(computed) \in Nat /\ results' \subseteq results
  BY PurgedSubset DEF SharedInv, Shared!TypeOK, TurnRecords, Shared!Arrive
<1>2. /\ known \in Seq(TurnRecords) /\ Len(known) = Len(computed) /\ GoesOn(computed, known)
      /\ \A n \in 1..Len(computed) :
           /\ known[n].state = computed[n].state
           /\ computed[n].state = "stored" /\ ~known[n].lost => n \in Shared!Held(results')
  BY <1>1, MarkedTurns
<1> HIDE DEF known
<1>3. /\ request[r].pc = "idle" /\ UNCHANGED <<stale, left>>
      /\ \/ \E e \in Shared!Hits(r, results') :
              /\ Shared!Shares(r, e.turn, "answered")
              /\ computed' = known /\ UNCHANGED computing
         \/ \E n \in Shared!Computing(r) :
              /\ Shared!Shares(r, n, "waiting")
              /\ computed' = known /\ UNCHANGED computing
         \/ /\ Shared!Hits(r, results') = {} /\ Shared!Computing(r) = {}
            /\ computed' = Append(known, [key |-> request[r].key, print |-> request[r].print,
                                       state |-> "running", lost |-> FALSE])
            /\ computing' = computing \cup {Len(computed')}
            /\ Shared!Shares(r, Len(computed'), "waiting")
  BY DEF Shared!Arrive, known
<1>4. /\ computing \subseteq 1..Len(computed) /\ stale \subseteq Nat /\ left \in Nat
      /\ results \subseteq [key : Keys, print : Prints, turn : Nat, at : Nat]
      /\ request[r].key \in Keys /\ request[r].print \in Prints
      /\ request \in [Posts -> Requesting]
  BY DEF SharedInv, Shared!TypeOK, Requesting
<1>5. \A e \in results' :
        /\ e.turn \in 1..Len(computed)
        /\ computed[e.turn].key = e.key /\ computed[e.turn].print = e.print
  BY <1>1 DEF SharedInv, CacheInv
<1>6. ASSUME computed' = known, UNCHANGED computing
      PROVE  /\ CacheInv' /\ OneAtATime'
             /\ \A s \in Posts : request'[s] = request[s] => HasTurn(s)'
  <2>1. CacheInv'
    BY <1>1, <1>2, <1>5, <1>6 DEF SharedInv, CacheInv, GoesOn
  <2>2. OneAtATime'
    BY <1>1, <1>2, <1>6 DEF SharedInv, OneAtATime, GoesOn
  <2>3. \A s \in Posts : request'[s] = request[s] => HasTurn(s)'
    BY <1>1, <1>2, <1>6 DEF SharedInv, HasTurn, GoesOn
  <2> QED
    BY <2>1, <2>2, <2>3
<1>7. ASSUME NEW n \in 1..Len(computed), NEW to \in {"answered", "waiting"},
             computed[n].key = request[r].key, computed[n].print = request[r].print,
             Shared!Shares(r, n, to),
             computed' = known, UNCHANGED computing
      PROVE  SharedInv'
  <2>1. /\ request' \in [Posts -> Requesting]
        /\ request'[r].turn = n /\ request'[r].key = request[r].key
        /\ request'[r].print = request[r].print
        /\ \A s \in Posts \ {r} : request'[s] = request[s]
    <3>1. n \in Nat
      BY <1>1
    <3> QED
      BY <1>4, <1>7, <3>1, TurnOfRequest
  <2>2. HasTurn(r)'
    BY <1>2, <1>7, <2>1 DEF HasTurn, GoesOn
  <2>3. Shared!TypeOK'
    BY <1>1, <1>2, <1>3, <1>4, <1>7, <2>1 DEF Shared!TypeOK, TurnRecords, Requesting
  <2> QED
    BY <1>6, <1>7, <2>1, <2>2, <2>3 DEF SharedInv
<1>8. CASE \E e \in Shared!Hits(r, results') :
             /\ Shared!Shares(r, e.turn, "answered")
             /\ computed' = known /\ UNCHANGED computing
  BY <1>5, <1>7, <1>8 DEF Shared!Hits
<1>9. CASE \E n \in Shared!Computing(r) :
             /\ Shared!Shares(r, n, "waiting")
             /\ computed' = known /\ UNCHANGED computing
  BY <1>4, <1>7, <1>9 DEF Shared!Computing
<1>10. ASSUME Shared!Hits(r, results') = {}, Shared!Computing(r) = {},
              computed' = Append(known, [key |-> request[r].key, print |-> request[r].print,
                                      state |-> "running", lost |-> FALSE]),
              computing' = computing \cup {Len(computed')},
              Shared!Shares(r, Len(computed'), "waiting")
       PROVE  SharedInv'
  <2> DEFINE t == [key |-> request[r].key, print |-> request[r].print,
                   state |-> "running", lost |-> FALSE]
             new == Len(computed) + 1
  <2>1. t \in TurnRecords /\ ~IsOver(t) /\ t.key = request[r].key /\ t.print = request[r].print
        /\ t.state = "running"
    BY <1>4 DEF TurnRecords, IsOver
  <2>2. computed' = Append(known, t)
    BY <1>10
  <2> HIDE DEF t
  <2>3. /\ computed' \in Seq(TurnRecords) /\ Len(computed') = new /\ computed'[new] = t
        /\ \A n \in 1..Len(computed) : computed'[n] = known[n]
        /\ new \in Nat /\ 1..new = 1..Len(computed) \cup {new}
    BY <1>1, <1>2, <2>1, <2>2
  <2>4. /\ request' \in [Posts -> Requesting]
        /\ request'[r].turn = new /\ request'[r].key = request[r].key
        /\ request'[r].print = request[r].print
        /\ \A s \in Posts \ {r} : request'[s] = request[s]
    BY <1>4, <1>10, <2>3, TurnOfRequest
  <2>5. computing' = computing \cup {new} /\ computing' \subseteq 1..new
    BY <1>4, <1>10, <2>3
  <2>6. Shared!TypeOK'
    BY <1>1, <1>3, <1>4, <2>3, <2>4, <2>5 DEF Shared!TypeOK, TurnRecords, Requesting
  <2>7. CacheInv'
    <3>1. \A n \in 1..Len(computed') : computed'[n].state = "running" => n \in computing'
      BY <1>1, <1>2, <2>3, <2>5 DEF SharedInv, CacheInv
    <3>2. \A e \in results' :
            /\ e.turn \in 1..Len(computed')
            /\ computed'[e.turn].key = e.key /\ computed'[e.turn].print = e.print
      BY <1>1, <1>2, <1>5, <2>3 DEF GoesOn
    <3>3. \A n \in 1..Len(computed') :
            computed'[n].state = "stored" /\ ~computed'[n].lost => n \in Shared!Held(results')
      BY <1>1, <1>2, <2>1, <2>3
    <3> QED
      BY <3>1, <3>2, <3>3 DEF CacheInv, Shared!Held
  <2>8. \A s \in Posts : HasTurn(s)'
    <3>1. HasTurn(r)'
      BY <2>1, <2>3, <2>4 DEF HasTurn
    <3>2. \A s \in Posts \ {r} : HasTurn(s)'
      <4>1. \A n \in 1..Len(computed) :
              /\ n \in 1..Len(computed')
              /\ computed'[n].key = computed[n].key /\ computed'[n].print = computed[n].print
        BY <1>1, <1>2, <2>3 DEF GoesOn
      <4> QED
        BY <2>4, <4>1 DEF SharedInv, HasTurn
    <3> QED
      BY <3>1, <3>2
  <2>9. ASSUME NEW i \in 1..Len(computed), computed[i].key = t.key, computed[i].print = t.print
        PROVE  IsOver(known[i])
    <3>1. computed[i].state # "running"
      BY <1>10, <2>1, <2>9 DEF SharedInv, CacheInv, Shared!Computing
    <3>2. computed[i].state \in {"running", "stored", "failed"}
      <4>1. computed[i] \in TurnRecords
        BY <1>1, <2>9
      <4> QED
        BY <4>1 DEF TurnRecords
    <3>3. CASE computed[i].state = "stored"
      <4>1. i \notin Shared!Held(results')
        BY <1>5, <1>10, <2>1, <2>9 DEF Shared!Hits, Shared!Held
      <4> QED
        BY <1>2, <3>3, <4>1 DEF IsOver
    <3> QED
      BY <1>2, <3>1, <3>2, <3>3 DEF IsOver
  <2>10. OneAtATime'
    <3> SUFFICES ASSUME NEW j \in 1..Len(computed'), NEW i \in 1..(j - 1),
                        computed'[i].key = computed'[j].key, computed'[i].print = computed'[j].print
                 PROVE  IsOver(computed'[i])
      BY DEF OneAtATime, IsOver
    <3>1. i \in 1..Len(computed) /\ computed'[i] = known[i]
      BY <1>1, <2>3
    <3>2. CASE j = new
      BY <1>2, <2>3, <2>9, <3>1, <3>2 DEF GoesOn
    <3>3. CASE j \in 1..Len(computed)
      <4>1. /\ computed'[j] = known[j]
            /\ computed[i].key = computed[j].key /\ computed[i].print = computed[j].print
        BY <1>2, <2>3, <3>1, <3>3 DEF GoesOn
      <4> QED
        BY <1>2, <3>1, <3>3, <4>1 DEF SharedInv, OneAtATime, GoesOn
    <3> QED
      BY <2>3, <3>2, <3>3
  <2> QED
    BY <2>6, <2>7, <2>8, <2>10 DEF SharedInv
<1> QED
  BY <1>3, <1>8, <1>9, <1>10

(* As the turns go on, nobody's turn changes and no pair comes to be.      *)
LEMMA TurnsGoOn ==
  ASSUME SharedInv, computed' \in Seq(TurnRecords), Len(computed') = Len(computed),
         GoesOn(computed, computed')
  PROVE  /\ OneAtATime'
         /\ \A r \in Posts : request'[r] = request[r] => HasTurn(r)'
<1>1. Len(computed) \in Nat
  BY DEF SharedInv, Shared!TypeOK
<1>2. \A n \in 1..Len(computed) :
          /\ computed'[n].key = computed[n].key /\ computed'[n].print = computed[n].print
          /\ IsOver(computed[n]) => IsOver(computed'[n])
  BY DEF GoesOn
<1>3. OneAtATime'
  <2> SUFFICES ASSUME NEW j \in 1..Len(computed'), NEW i \in 1..(j - 1),
                      computed'[i].key = computed'[j].key, computed'[i].print = computed'[j].print
               PROVE  IsOver(computed'[i])
    BY DEF OneAtATime, IsOver
  <2>1. i \in 1..Len(computed) /\ j \in 1..Len(computed)
    BY <1>1
  <2> QED
    BY <1>2, <2>1 DEF SharedInv, OneAtATime
<1>4. \A r \in Posts : request'[r] = request[r] => HasTurn(r)'
  <2> SUFFICES ASSUME NEW r \in Posts, request'[r] = request[r],
                      request[r].pc \in {"waiting", "answered"}
               PROVE  /\ request[r].turn \in 1..Len(computed')
                      /\ computed'[request[r].turn].key = request[r].key
                      /\ computed'[request[r].turn].print = request[r].print
    BY Zenon DEF HasTurn
  <2>1. /\ request[r].turn \in 1..Len(computed)
        /\ computed[request[r].turn].key = request[r].key
        /\ computed[request[r].turn].print = request[r].print
    BY Zenon DEF SharedInv, HasTurn
  <2> QED
    BY <1>2, <2>1
<1> QED
  BY <1>3, <1>4

LEMMA PlaceType ==
  ASSUME Shared!TypeOK, NEW k
  PROVE  Shared!Place(k) \in Nat
<1>1. IsFiniteSet({n \in 1..Len(computed) : computed[n].state # "running"})
  BY FS_Interval, FS_Subset, 0 \in Int DEF Shared!TypeOK
<1>2. Shared!Ended \in Nat
  BY <1>1, FS_CardinalityType, SameSizes DEF Shared!Ended
<1>3. \A e \in results : e.at \in Nat
  BY DEF Shared!TypeOK
<1> QED
  BY <1>2, <1>3 DEF Shared!Place

LEMMA FinishKeeps ==
  ASSUME Shared!BoundsOK, SharedInv, NEW n \in 1..Len(computed), Shared!Finish(n)
  PROVE  SharedInv'
<1>1. /\ computed \in Seq(TurnRecords) /\ Len(computed) \in Nat /\ computed[n] \in TurnRecords
      /\ computed[n].state = "running" /\ UNCHANGED <<stale, computing, request, left>>
  <2>1. computed \in Seq(TurnRecords)
    BY DEF SharedInv, Shared!TypeOK, TurnRecords
  <2> QED
    BY <2>1 DEF Shared!Finish
<1>2. ASSUME NEW to \in {"stored", "failed"}
      PROVE  /\ [computed EXCEPT ![n].state = to] \in Seq(TurnRecords)
             /\ Len([computed EXCEPT ![n].state = to]) = Len(computed)
             /\ GoesOn(computed, [computed EXCEPT ![n].state = to])
             /\ [computed EXCEPT ![n].state = to][n].state = to
             /\ \A m \in 1..Len(computed) \ {n} : [computed EXCEPT ![n].state = to][m] = computed[m]
  <2> DEFINE up == [computed EXCEPT ![n].state = to]
  <2>1. up = [computed EXCEPT ![n] = [computed[n] EXCEPT !.state = to]]
    OBVIOUS
  <2>2. /\ up[n] = [computed[n] EXCEPT !.state = to] /\ Len(up) = Len(computed)
        /\ \A m \in 1..Len(computed) \ {n} : up[m] = computed[m]
    BY <1>1, <2>1
  <2>3. up[n] \in TurnRecords /\ up[n].state = to /\ up[n].key = computed[n].key
        /\ up[n].print = computed[n].print /\ (IsOver(computed[n]) => IsOver(up[n]))
    BY <1>1, <2>2 DEF TurnRecords, IsOver
  <2>4. up \in Seq(TurnRecords)
    BY <1>1, <2>1, <2>2, <2>3
  <2> HIDE DEF up
  <2>5. GoesOn(computed, up)
    <3>1. \A m \in 1..Len(computed) :
              /\ up[m].key = computed[m].key /\ up[m].print = computed[m].print
              /\ IsOver(computed[m]) => IsOver(up[m])
      BY <2>2, <2>3
    <3>2. Len(computed) <= Len(up)
      BY <1>1, <2>2
    <3> QED
      BY <3>1, <3>2 DEF GoesOn
  <2> QED
    BY <2>2, <2>3, <2>4, <2>5 DEF up
<1>3. CASE computed' = [computed EXCEPT ![n].state = "failed"] /\ UNCHANGED results
  <2>1. /\ computed' \in Seq(TurnRecords) /\ Len(computed') = Len(computed)
        /\ GoesOn(computed, computed')
        /\ computed'[n].state = "failed"
        /\ \A m \in 1..Len(computed) \ {n} : computed'[m] = computed[m]
    BY <1>2, <1>3
  <2>2. CacheInv'
    BY <1>1, <1>3, <2>1 DEF SharedInv, CacheInv, GoesOn, Shared!Held
  <2>3. Shared!TypeOK'
    BY <1>1, <1>3, <2>1 DEF SharedInv, Shared!TypeOK, TurnRecords
  <2> QED
    BY <1>1, <2>1, <2>2, <2>3, TurnsGoOn DEF SharedInv
<1>4. CASE /\ results' = Shared!Purged(Shared!Put(
                [key |-> computed[n].key, print |-> computed[n].print,
                 turn |-> n, at |-> Shared!Place(computed[n].key)]))
           /\ computed' = Shared!Marked([computed EXCEPT ![n].state = "stored"], results')
  <2> DEFINE e == [key |-> computed[n].key, print |-> computed[n].print,
                   turn |-> n, at |-> Shared!Place(computed[n].key)]
             up == [computed EXCEPT ![n].state = "stored"]
  <2>1. e \in [key : Keys, print : Prints, turn : Nat, at : Nat]
        /\ e.turn = n /\ e.key = computed[n].key /\ e.print = computed[n].print
    <3>1. /\ Shared!Place(computed[n].key) \in Nat
          /\ computed[n].key \in Keys /\ computed[n].print \in Prints
      BY <1>1, PlaceType DEF SharedInv, TurnRecords
    <3> QED
      BY <1>1, <3>1
  <2>2. up \in Seq(TurnRecords) /\ Len(up) = Len(computed) /\ GoesOn(computed, up)
        /\ \A m \in 1..Len(computed) \ {n} : up[m] = computed[m]
        /\ up[n].state = "stored"
    BY <1>2
  <2>3. results' = Shared!Purged(Shared!Put(e)) /\ computed' = Shared!Marked(up, results')
    BY <1>4
  <2> HIDE DEF e, up
  <2>4. results' \subseteq results \cup {e}
    BY <2>3, PurgedSubset DEF Shared!Put
  <2>5. /\ computed' \in Seq(TurnRecords) /\ Len(computed') = Len(computed) /\ GoesOn(up, computed')
        /\ \A m \in 1..Len(computed) :
             /\ computed'[m].state = up[m].state
             /\ up[m].state = "stored" /\ ~computed'[m].lost => m \in Shared!Held(results')
    BY <2>2, <2>3, MarkedTurns
  <2>6. GoesOn(computed, computed')
    BY <1>1, <2>2, <2>5 DEF GoesOn
  <2>7. CacheInv'
    <3>1. \A m \in 1..Len(computed') : computed'[m].state = "running" => m \in computing'
      BY <1>1, <2>2, <2>5 DEF SharedInv, CacheInv
    <3>2. \A f \in results' :
            /\ f.turn \in 1..Len(computed')
            /\ computed'[f.turn].key = f.key /\ computed'[f.turn].print = f.print
      <4>1. \A m \in 1..Len(computed) :
                /\ m \in 1..Len(computed') /\ computed'[m].key = computed[m].key
                /\ computed'[m].print = computed[m].print
        BY <2>5, <2>6 DEF GoesOn
      <4> QED
        BY <2>1, <2>4, <4>1 DEF SharedInv, CacheInv
    <3>3. \A m \in 1..Len(computed') :
            computed'[m].state = "stored" /\ ~computed'[m].lost => m \in Shared!Held(results')
      BY <2>5
    <3> QED
      BY <3>1, <3>2, <3>3 DEF CacheInv, Shared!Held
  <2>8. Shared!TypeOK'
    BY <1>1, <2>1, <2>4, <2>5 DEF SharedInv, Shared!TypeOK, TurnRecords
  <2> QED
    BY <1>1, <2>5, <2>6, <2>7, <2>8, TurnsGoOn DEF SharedInv
<1> QED
  BY <1>3, <1>4 DEF Shared!Finish

LEMMA SharedKeeps ==
  ASSUME Shared!BoundsOK, SharedInv, [Shared!Next]_(Shared!vars)
  PROVE  SharedInv'
<1>1. ASSUME NEW r \in Posts, Shared!Answer(r) \/ Shared!Vanish(r)
      PROVE  SharedInv'
  <2>1. /\ request[r].pc = "waiting" /\ UNCHANGED <<results, stale, computing, computed, left>>
        /\ \E to \in {"answered", "failed", "gone"} : request' = [request EXCEPT ![r].pc = to]
    BY <1>1 DEF Shared!Answer, Shared!Vanish
  <2>2. request \in [Posts -> Requesting] /\ request[r] \in Requesting
    BY DEF SharedInv, Shared!TypeOK, Requesting
  <2>3. /\ request' \in [Posts -> Requesting]
        /\ request'[r].turn = request[r].turn /\ request'[r].key = request[r].key
        /\ request'[r].print = request[r].print
        /\ \A s \in Posts \ {r} : request'[s] = request[s]
    BY <2>1, <2>2 DEF Requesting
  <2>4. \A s \in Posts : HasTurn(s)'
    BY <2>1, <2>3 DEF SharedInv, HasTurn
  <2>5. Shared!TypeOK'
    BY <2>1, <2>3 DEF SharedInv, Shared!TypeOK, Requesting
  <2> QED
    BY <2>1, <2>4, <2>5 DEF SharedInv, CacheInv, OneAtATime, Shared!Held
<1>2. ASSUME NEW n \in 1..Len(computed), Shared!ClearInflight(n) \/ Shared!Expire(n)
      PROVE  SharedInv'
  <2>1. /\ UNCHANGED <<results, computed, request>> /\ computing' \subseteq computing
        /\ stale' \subseteq Nat /\ left' \in Nat
        /\ \A m \in computing \ computing' : computed[m].state # "running"
    <3>1. n \in Nat /\ left \in Nat /\ stale \subseteq Nat
      BY DEF SharedInv, Shared!TypeOK
    <3>2. CASE Shared!ClearInflight(n)
      BY <3>1, <3>2 DEF Shared!ClearInflight
    <3>3. CASE Shared!Expire(n)
      BY <3>1, <3>3 DEF Shared!Expire
    <3> QED
      BY <1>2, <3>2, <3>3
  <2>2. Shared!TypeOK'
    BY <2>1 DEF SharedInv, Shared!TypeOK
  <2>3. CacheInv'
    BY <2>1 DEF SharedInv, CacheInv, Shared!Held
  <2> QED
    BY <2>1, <2>2, <2>3 DEF SharedInv, HasTurn, OneAtATime
<1>3. CASE UNCHANGED Shared!vars
  BY <1>3 DEF Shared!vars, SharedInv, Shared!TypeOK, CacheInv, HasTurn, OneAtATime, Shared!Held
<1> QED
  BY <1>1, <1>2, <1>3, ArriveKeeps, FinishKeeps DEF Shared!Next

LEMMA SharedImplies ==
  ASSUME SharedInv
  PROVE  Shared!ComputedOnce
BY DEF SharedInv, Shared!ComputedOnce, OneAtATime, IsOver, HasTurn

-----------------------------------------------------------------------------
(* Event streams                                                           *)

Pcs == {"idle", "opened", "resumed", "replay", "live", "over"}

Conns ==
  [pc : Pcs, channel : Sse!AllChannels, last : Nat, gap : BOOLEAN, from : Nat,
   cutoff : Nat, at : Nat, joined : Nat, slipped : BOOLEAN]

Messages == [channel : Sse!AllChannels, event : Nat]

Shapes ==
  /\ frames \in [Sse!AllChannels -> Seq(Nat)] /\ nextIds \in [Sse!AllChannels -> Nat]
  /\ expired \in [Sse!AllChannels -> Nat]
  /\ conn \in [Streams -> Conns] /\ inbox \in [Streams -> Seq(Messages)]
  /\ sent \in [Streams -> SUBSET Nat] /\ published \in Nat
  /\ owed \in [Streams -> SUBSET Nat] /\ relayed \in [Streams -> Seq(Nat)]
  /\ overflowed \in [Streams -> BOOLEAN] /\ sseBudget \in [ticks : Nat, age : Nat]

(* The streams that hold a slot.                                           *)
Holding == {s \in Streams : conn[s].pc \notin {"idle", "over"}}

SlotInv == active \in 0..KeyLimit /\ active = Cardinality(Holding)

(* A buffer holds the newest ids of its channel, and one as soon as there  *)
(* is any.                                                                 *)
Suffix(ids, newest) ==
  /\ Len(ids) <= BufferMax /\ Len(ids) <= newest
  /\ newest > 0 => Len(ids) > 0
  /\ \A i \in 1..Len(ids) : ids[i] = newest - Len(ids) + i

BufferInv == \A c \in Sse!AllChannels : Suffix(frames[c], nextIds[c]) /\ expired[c] <= nextIds[c]

(* Nothing excuses the stream from sending all it was asked for.           *)
Whole(c) == c.last > 0 /\ ~c.gap /\ ~c.slipped /\ c.cutoff <= c.last

(* A replay has sent what lies behind it, and, as long as nobody disturbs  *)
(* it, the buffer holds what lies before it.                               *)
ReplayOK(c, ids, newest, out) ==
  /\ c.pc \in {"opened", "resumed", "replay"} => newest > 0
  /\ c.pc = "resumed" => c.last > 0
  /\ c.pc = "replay" =>
       /\ c.last <= c.at /\ c.from <= newest
       /\ Whole(c) => /\ (c.last + 1) .. c.at \subseteq out
                      /\ c.from = newest => newest - Len(ids) <= c.last
  /\ c.pc = "live" /\ Whole(c) => (c.last + 1) .. c.joined \subseteq out

ReplayInv ==
  \A s \in Streams :
    ReplayOK(conn[s], frames[conn[s].channel], nextIds[conn[s].channel], sent[s])

LEMMA TailFacts ==
  ASSUME NEW S, NEW q \in Seq(S), q # <<>>
  PROVE  /\ Len(q) \in Nat \ {0} /\ Tail(q) \in Seq(S) /\ Len(Tail(q)) = Len(q) - 1
         /\ Head(q) = q[1] /\ q[1] \in S
         /\ \A i \in 1..(Len(q) - 1) : Tail(q)[i] = q[i + 1]
BY HeadTailProperties

LEMMA NoConnType == Sse!NoConn \in Conns
BY DEF Sse!NoConn, Conns, Pcs, Sse!AllChannels

LEMMA SseInit ==
  ASSUME Sse!BoundsOK, Sse!Init
  PROVE  Shapes /\ SlotInv /\ BufferInv /\ ReplayInv
<1>1. Shapes
  BY NoConnType DEF Sse!Init, Shapes, Sse!BoundsOK
<1>2. SlotInv
  <2>1. Holding = {}
    BY DEF Sse!Init, Holding, Sse!NoConn
  <2> QED
    BY <2>1, FS_EmptySet DEF Sse!Init, SlotInv, Sse!BoundsOK
<1>3. BufferInv
  BY DEF Sse!Init, BufferInv, Suffix, Sse!BoundsOK
<1>4. ReplayInv
  <2>1. Sse!NoConn.pc = "idle"
    BY DEF Sse!NoConn
  <2> QED
    BY <2>1 DEF Sse!Init, ReplayInv, ReplayOK
<1> QED
  BY <1>1, <1>2, <1>3, <1>4

(* A frame gets the next id and its place at the end of the buffer.        *)
LEMMA PushedSuffix ==
  ASSUME NEW ids \in Seq(Nat), NEW newest \in Nat, Suffix(ids, newest), Sse!BoundsOK
  PROVE  LET kept == IF Len(ids) = BufferMax THEN Tail(ids) ELSE ids IN
         /\ Append(kept, newest + 1) \in Seq(Nat)
         /\ Suffix(Append(kept, newest + 1), newest + 1)
<1> DEFINE kept == IF Len(ids) = BufferMax THEN Tail(ids) ELSE ids
           new  == Append(kept, newest + 1)
<1>1. BufferMax \in Nat \ {0} /\ Len(ids) \in Nat /\ Len(ids) <= BufferMax /\ Len(ids) <= newest
  BY DEF Sse!BoundsOK, Suffix
<1>2. /\ kept \in Seq(Nat) /\ Len(kept) < BufferMax /\ Len(kept) <= newest
      /\ \A i \in 1..Len(kept) : kept[i] = newest - Len(kept) + i
  <2>1. CASE Len(ids) = BufferMax
    <3>1. ids # <<>> /\ kept = Tail(ids)
      BY <1>1, <2>1
    <3>2. PICK rest : rest = Tail(ids)
      OBVIOUS
    <3>3. /\ rest \in Seq(Nat) /\ Len(rest) = Len(ids) - 1 /\ kept = rest
          /\ \A i \in 1..(Len(ids) - 1) : rest[i] = ids[i + 1]
      BY Zenon, <3>1, <3>2, TailFacts
    <3> HIDE DEF kept
    <3>4. \A i \in 1..Len(kept) : kept[i] = newest - Len(kept) + i
      <4> SUFFICES ASSUME NEW i \in 1..Len(kept)
                   PROVE  kept[i] = newest - Len(kept) + i
        OBVIOUS
      <4>1. i \in 1..(Len(ids) - 1) /\ i + 1 \in 1..Len(ids) /\ kept[i] = ids[i + 1]
        BY <1>1, <3>3
      <4>2. ids[i + 1] = newest - Len(ids) + (i + 1)
        BY <4>1 DEF Suffix
      <4>3. i \in Int /\ newest - Len(ids) + (i + 1) = newest - (Len(ids) - 1) + i
        BY <1>1, <4>1
      <4>4. Len(kept) = Len(ids) - 1
        BY <3>3
      <4> QED
        BY <4>1, <4>2, <4>3, <4>4
    <3> QED
      BY <1>1, <2>1, <3>3, <3>4
  <2>2. CASE Len(ids) # BufferMax
    <3>1. kept = ids
      BY <2>2
    <3> HIDE DEF kept
    <3> QED
      BY <1>1, <2>2, <3>1 DEF Suffix
  <2> QED
    BY <2>1, <2>2
<1> HIDE DEF kept
<1>3. /\ new \in Seq(Nat) /\ Len(new) = Len(kept) + 1 /\ Len(kept) \in Nat
      /\ new[Len(kept) + 1] = newest + 1 /\ \A i \in 1..Len(kept) : new[i] = kept[i]
  BY <1>2
<1> HIDE DEF new
<1>4. \A i \in 1..Len(new) : new[i] = (newest + 1) - Len(new) + i
  <2> TAKE i \in 1..Len(new)
  <2>1. CASE i = Len(kept) + 1
    BY <1>3, <2>1
  <2>2. CASE i \in 1..Len(kept)
    <3>1. new[i] = newest - Len(kept) + i
      BY <1>2, <1>3, <2>2
    <3> QED
      BY <1>3, <3>1
  <2> QED
    BY <1>3, <2>1, <2>2
<1>5. Suffix(new, newest + 1)
  BY <1>1, <1>2, <1>3, <1>4 DEF Suffix
<1> QED
  BY <1>3, <1>5 DEF new, kept

LEMMA EmitFacts ==
  ASSUME Sse!BoundsOK, Shapes, BufferInv, NEW s \in Streams, NEW channel \in Sse!AllChannels,
         Sse!Emit(s, channel)
  PROVE  /\ frames' \in [Sse!AllChannels -> Seq(Nat)] /\ nextIds' \in [Sse!AllChannels -> Nat]
         /\ sent' \in [Streams -> SUBSET Nat]
         /\ nextIds'[channel] = nextIds[channel] + 1
         /\ \A c \in Sse!AllChannels \ {channel} :
              frames'[c] = frames[c] /\ nextIds'[c] = nextIds[c]
         /\ \A c \in Sse!AllChannels : Suffix(frames'[c], nextIds'[c])
         /\ \A x \in Streams : sent[x] \subseteq sent'[x]
<1> DEFINE kept == IF Len(frames[channel]) = BufferMax THEN Tail(frames[channel])
                                                       ELSE frames[channel]
           new == Append(kept, nextIds[channel] + 1)
<1>1. /\ nextIds' = [nextIds EXCEPT ![channel] = nextIds[channel] + 1]
      /\ frames' = [frames EXCEPT ![channel] = new]
      /\ sent' = [sent EXCEPT ![s] = @ \cup {nextIds[channel] + 1}]
  BY Zenon DEF Sse!Emit
<1>2. new \in Seq(Nat) /\ Suffix(new, nextIds[channel] + 1)
  <2>1. frames[channel] \in Seq(Nat) /\ nextIds[channel] \in Nat
        /\ Suffix(frames[channel], nextIds[channel])
    BY DEF Shapes, BufferInv
  <2> HIDE DEF kept, new
  <2> QED
    BY Zenon, <2>1, PushedSuffix DEF kept, new
<1> HIDE DEF kept, new
<1>3. nextIds[channel] + 1 \in Nat
  BY DEF Shapes
<1>4. sent' \in [Streams -> SUBSET Nat] /\ \A x \in Streams : sent[x] \subseteq sent'[x]
  BY <1>1, <1>3 DEF Shapes
<1>5. /\ frames' \in [Sse!AllChannels -> Seq(Nat)] /\ nextIds' \in [Sse!AllChannels -> Nat]
      /\ nextIds'[channel] = nextIds[channel] + 1 /\ frames'[channel] = new
      /\ \A c \in Sse!AllChannels \ {channel} : frames'[c] = frames[c] /\ nextIds'[c] = nextIds[c]
  BY <1>1, <1>2, <1>3 DEF Shapes
<1>6. \A c \in Sse!AllChannels : Suffix(frames'[c], nextIds'[c])
  BY <1>2, <1>5 DEF BufferInv
<1> QED
  BY <1>4, <1>5, <1>6

(* The places in the queue q that hold an event of the channel.            *)
Own(q, channel) == {i \in DOMAIN q : q[i].channel = channel}

(* A stream of the channel that owes its client the events due has relayed *)
(* those of rel and holds the others in q, all in order and up to the      *)
(* newest.                                                                 *)
Told(due, rel, q, channel, newest) ==
  /\ due = {rel[i] : i \in DOMAIN rel} \cup {q[i].event : i \in Own(q, channel)}
  /\ \A e \in due : e <= newest
  /\ \A i, j \in DOMAIN rel : i < j => rel[i] < rel[j]
  /\ \A i \in DOMAIN rel, j \in Own(q, channel) : rel[i] < q[j].event
  /\ \A i, j \in Own(q, channel) : i < j => q[i].event < q[j].event

EventInv ==
  /\ \A s \in Streams : Len(inbox[s]) <= QueueMax
  /\ \A s \in Streams \ Sse!Subscribed : inbox[s] = <<>> /\ owed[s] = {} /\ relayed[s] = <<>>
  /\ \A s \in Sse!Subscribed :
       ~overflowed[s] => Told(owed[s], relayed[s], inbox[s], conn[s].channel, published)

LEMMA ToldNothing ==
  ASSUME NEW channel, NEW newest
  PROVE  Told({}, <<>>, <<>>, channel, newest)
BY DEF Told, Own

LEMMA ToldLater ==
  ASSUME NEW due \in SUBSET Nat, NEW rel, NEW q, NEW channel, NEW newest \in Nat,
         NEW now \in Nat, Told(due, rel, q, channel, newest), newest <= now
  PROVE  Told(due, rel, q, channel, now)
BY DEF Told

(* An event enters the queue.                                              *)
LEMMA ToldEnqueue ==
  ASSUME NEW due \in SUBSET Nat, NEW rel \in Seq(Nat), NEW q \in Seq(Messages),
         NEW channel \in Sse!AllChannels, NEW newest \in Nat,
         Told(due, rel, q, channel, newest), NEW m \in Messages,
         m.channel = channel => m.event = newest + 1
  PROVE  /\ m.channel = channel =>
              Told(due \cup {m.event}, rel, Append(q, m), channel, newest + 1)
         /\ m.channel # channel => Told(due, rel, Append(q, m), channel, newest)
<1> DEFINE new == Append(q, m)
<1>1. /\ DOMAIN q = 1..Len(q) /\ Len(q) \in Nat /\ DOMAIN new = 1..(Len(q) + 1)
      /\ new[Len(q) + 1] = m /\ \A i \in 1..Len(q) : new[i] = q[i]
  OBVIOUS
<1> HIDE DEF new
<1>4. ASSUME m.channel # channel
      PROVE  Told(due, rel, new, channel, newest)
  <2>1. Own(new, channel) = Own(q, channel)
    BY <1>1, <1>4 DEF Own
  <2>2. \A i \in Own(q, channel) : new[i] = q[i]
    BY <1>1 DEF Own
  <2> QED
    BY <2>1, <2>2 DEF Told
<1>5. ASSUME m.channel = channel
      PROVE  Told(due \cup {m.event}, rel, new, channel, newest + 1)
  <2>1. Own(new, channel) = Own(q, channel) \cup {Len(q) + 1}
    BY <1>1, <1>5 DEF Own
  <2>2. \A i \in Own(q, channel) : new[i] = q[i] /\ i \in 1..Len(q) /\ q[i].event \in due
    BY <1>1 DEF Own, Told
  <2>3. \A i \in DOMAIN rel : rel[i] \in due
    BY DEF Told
  <2>4. m.event = newest + 1 /\ new[Len(q) + 1].event = newest + 1
    BY <1>1, <1>5
  <2>5. \A e \in due : e <= newest /\ e \in Nat
    BY DEF Told
  <2>6. due \cup {m.event} = {rel[i] : i \in DOMAIN rel}
                               \cup {new[i].event : i \in Own(new, channel)}
    BY <2>1, <2>2, <2>4 DEF Told
  <2>7. \A e \in due \cup {m.event} : e <= newest + 1
    BY <2>4, <2>5
  <2>8. \A i \in DOMAIN rel, j \in Own(new, channel) : rel[i] < new[j].event
    BY <2>1, <2>2, <2>3, <2>4, <2>5 DEF Told
  <2>9. \A i, j \in Own(new, channel) : i < j => new[i].event < new[j].event
    <3> SUFFICES ASSUME NEW i \in Own(new, channel), NEW j \in Own(new, channel), i < j
                 PROVE  new[i].event < new[j].event
      OBVIOUS
    <3>1. i \in Own(q, channel)
      BY <1>1, <2>1, <2>2
    <3>2. CASE j \in Own(q, channel)
      BY <2>2, <3>1, <3>2 DEF Told
    <3>3. CASE j = Len(q) + 1
      <4>1. new[i].event <= newest /\ new[i].event \in Nat
        BY <2>2, <2>5, <3>1
      <4> QED
        BY <2>4, <3>3, <4>1
    <3> QED
      BY <2>1, <3>2, <3>3
  <2> QED
    BY <2>6, <2>7, <2>8, <2>9 DEF Told
<1> QED
  BY <1>4, <1>5 DEF new

(* The stream takes an event from its queue and relays it, or skips it.    *)
LEMMA ToldTake ==
  ASSUME NEW due \in SUBSET Nat, NEW rel \in Seq(Nat), NEW q \in Seq(Messages), q # <<>>,
         NEW channel \in Sse!AllChannels, NEW newest \in Nat, Told(due, rel, q, channel, newest)
  PROVE  /\ Head(q).channel = channel =>
              Told(due, Append(rel, Head(q).event), Tail(q), channel, newest)
         /\ Head(q).channel # channel => Told(due, rel, Tail(q), channel, newest)
<1>1. PICK rest : rest = Tail(q)
  OBVIOUS
<1>2. /\ Len(q) \in Nat \ {0} /\ rest \in Seq(Messages) /\ Len(rest) = Len(q) - 1
      /\ Head(q) = q[1] /\ q[1] \in Messages
      /\ \A i \in 1..(Len(q) - 1) : rest[i] = q[i + 1]
  BY Zenon, <1>1, TailFacts
<1>3. /\ DOMAIN q = 1..Len(q) /\ DOMAIN rest = 1..(Len(q) - 1)
      /\ \A i \in 1..(Len(q) - 1) : i + 1 \in 1..Len(q)
      /\ \A i \in 1..Len(q) : i = 1 \/ i - 1 \in 1..(Len(q) - 1)
      /\ \A i \in 1..Len(q) : i # 1 => rest[i - 1] = q[i]
  BY <1>2
<1>4. \A i \in 1..(Len(q) - 1) : i \in Own(rest, channel) <=> i + 1 \in Own(q, channel)
  BY <1>2, <1>3 DEF Own
<1>5. /\ \A i \in Own(rest, channel) :
           i \in 1..(Len(q) - 1) /\ i + 1 \in Own(q, channel) /\ rest[i] = q[i + 1]
      /\ \A i \in Own(q, channel) : i \in 1..Len(q) /\ q[i].event \in due
      /\ \A i \in Own(q, channel) : i # 1 => i - 1 \in Own(rest, channel) /\ rest[i - 1] = q[i]
  <2>1. \A i \in Own(rest, channel) :
           i \in 1..(Len(q) - 1) /\ i + 1 \in Own(q, channel) /\ rest[i] = q[i + 1]
    BY <1>2, <1>3, <1>4 DEF Own
  <2>2. \A i \in Own(q, channel) : i \in 1..Len(q) /\ q[i].event \in due
    BY <1>3 DEF Own, Told
  <2>3. ASSUME NEW i \in Own(q, channel), i # 1
        PROVE  i - 1 \in Own(rest, channel) /\ rest[i - 1] = q[i]
    <3>1. i \in 1..Len(q) /\ i - 1 \in 1..(Len(q) - 1) /\ (i - 1) + 1 = i
      BY <1>2, <2>2, <2>3
    <3> QED
      BY <1>3, <1>4, <2>3, <3>1
  <2> QED
    BY <2>1, <2>2, <2>3
<1>6. \A i, j \in Own(rest, channel) : i < j => rest[i].event < rest[j].event
  <2> SUFFICES ASSUME NEW i \in Own(rest, channel), NEW j \in Own(rest, channel), i < j
               PROVE  rest[i].event < rest[j].event
    OBVIOUS
  <2>1. i + 1 < j + 1
    BY <1>2, <1>5
  <2> QED
    BY <1>5, <2>1 DEF Told
<1>7. ASSUME Head(q).channel # channel
      PROVE  Told(due, rel, rest, channel, newest)
  <2>1. 1 \notin Own(q, channel)
    BY <1>2, <1>7 DEF Own
  <2>2. {rest[i].event : i \in Own(rest, channel)} = {q[i].event : i \in Own(q, channel)}
    BY <1>5, <2>1
  <2>3. \A i \in DOMAIN rel, j \in Own(rest, channel) : rel[i] < rest[j].event
    BY <1>5 DEF Told
  <2> QED
    BY <1>6, <2>2, <2>3 DEF Told
<1>8. ASSUME Head(q).channel = channel
      PROVE  Told(due, Append(rel, Head(q).event), rest, channel, newest)
  <2>1. PICK new : new = Append(rel, Head(q).event)
    OBVIOUS
  <2>2. /\ 1 \in Own(q, channel) /\ q[1].event \in Nat
    BY <1>2, <1>3, <1>8 DEF Own, Messages
  <2>3. /\ DOMAIN rel = 1..Len(rel) /\ Len(rel) \in Nat /\ DOMAIN new = 1..(Len(rel) + 1)
        /\ new[Len(rel) + 1] = q[1].event /\ \A i \in 1..Len(rel) : new[i] = rel[i]
    BY <1>2, <2>1, <2>2
  <2>4. {new[i] : i \in DOMAIN new} = {rel[i] : i \in DOMAIN rel} \cup {q[1].event}
    <3>1. DOMAIN new = DOMAIN rel \cup {Len(rel) + 1}
      BY <2>3
    <3>2. \A i \in DOMAIN rel : new[i] = rel[i]
      BY <2>3
    <3>3. new[Len(rel) + 1] = q[1].event
      BY <2>3
    <3>4. ASSUME NEW x \in {new[i] : i \in DOMAIN new}
          PROVE  x \in {rel[i] : i \in DOMAIN rel} \cup {q[1].event}
      <4>1. PICK i \in DOMAIN new : x = new[i]
        BY <3>4
      <4> QED
        BY <3>1, <3>2, <3>3, <4>1
    <3>5. ASSUME NEW x \in {rel[i] : i \in DOMAIN rel} \cup {q[1].event}
          PROVE  x \in {new[i] : i \in DOMAIN new}
      BY <3>1, <3>2, <3>3, <3>5
    <3> QED
      BY <3>4, <3>5
  <2>5. {q[i].event : i \in Own(q, channel)}
          = {q[1].event} \cup {rest[i].event : i \in Own(rest, channel)}
    <3>1. \A i \in Own(q, channel) : q[i].event = q[1].event
                                    \/ \E k \in Own(rest, channel) : q[i].event = rest[k].event
      BY <1>5
    <3>2. \A k \in Own(rest, channel) : \E i \in Own(q, channel) : q[i].event = rest[k].event
      BY <1>5
    <3> QED
      BY <2>2, <3>1, <3>2
  <2>6. due = {new[i] : i \in DOMAIN new} \cup {rest[i].event : i \in Own(rest, channel)}
    BY <2>4, <2>5 DEF Told
  <2>7. \A i \in DOMAIN rel : rel[i] < q[1].event
    BY <2>2 DEF Told
  <2>8. \A j \in Own(rest, channel) : q[1].event < rest[j].event
    <3> TAKE j \in Own(rest, channel)
    <3>1. j + 1 \in Own(q, channel) /\ rest[j] = q[j + 1] /\ 1 < j + 1
      BY <1>2, <1>5
    <3>2. \A k \in Own(q, channel) : 1 < k => q[1].event < q[k].event
      BY <2>2 DEF Told
    <3> QED
      BY <3>1, <3>2
  <2>9. \A i, j \in DOMAIN new : i < j => new[i] < new[j]
    BY <2>3, <2>7 DEF Told
  <2>10. \A i \in DOMAIN new, j \in Own(rest, channel) : new[i] < rest[j].event
    <3>1. \A i \in DOMAIN rel, j \in Own(rest, channel) : rel[i] < rest[j].event
      BY <1>5 DEF Told
    <3> QED
      BY <2>3, <2>8, <3>1
  <2>11. Told(due, new, rest, channel, newest)
    BY <1>6, <2>6, <2>9, <2>10 DEF Told
  <2> QED
    BY <2>1, <2>11
<1> QED
  BY <1>1, <1>7, <1>8

(* A request that waits has no connection yet.                             *)
FreshInv == \A s \in Streams : conn[s].pc = "idle" => conn[s] = Sse!NoConn

SseInv == Shapes /\ SlotInv /\ BufferInv /\ ReplayInv /\ EventInv /\ FreshInv

(* A buffer stays as it is unless its channel goes on.                     *)
Advances ==
  \A c \in Sse!AllChannels :
    (frames'[c] = frames[c] /\ nextIds'[c] = nextIds[c]) \/ nextIds'[c] > nextIds[c]

LEMMA ReplayGoesOn ==
  ASSUME NEW c \in Conns, NEW ids, NEW newest \in Nat, NEW out, ReplayOK(c, ids, newest, out),
         NEW ids2, NEW newest2 \in Nat, NEW out2, out \subseteq out2,
         (ids2 = ids /\ newest2 = newest) \/ newest2 > newest
  PROVE  ReplayOK(c, ids2, newest2, out2)
<1>1. c.from \in Nat
  BY DEF Conns
<1> QED
  BY <1>1 DEF ReplayOK

LEMMA OtherReplays ==
  ASSUME Shapes, ReplayInv, Advances, nextIds' \in [Sse!AllChannels -> Nat], NEW x \in Streams,
         conn'[x] = conn[x], sent[x] \subseteq sent'[x]
  PROVE  ReplayOK(conn[x], frames[conn[x].channel], nextIds[conn[x].channel], sent[x])'
<1> DEFINE c == conn[x]
<1>1. c \in Conns /\ c.channel \in Sse!AllChannels
  BY DEF Shapes, Conns
<1>2. ReplayOK(c, frames[c.channel], nextIds[c.channel], sent[x])
  BY DEF ReplayInv
<1>3. nextIds[c.channel] \in Nat /\ nextIds'[c.channel] \in Nat
  BY <1>1 DEF Shapes
<1>4. \/ frames'[c.channel] = frames[c.channel] /\ nextIds'[c.channel] = nextIds[c.channel]
      \/ nextIds'[c.channel] > nextIds[c.channel]
  BY <1>1 DEF Advances
<1>5. ReplayOK(c, frames'[c.channel], nextIds'[c.channel], sent'[x])
  BY <1>1, <1>2, <1>3, <1>4, ReplayGoesOn
<1> QED
  BY <1>5

LEMMA ConnChange ==
  ASSUME Shapes, NEW s \in Streams, NEW f \in Conns, conn' = [conn EXCEPT ![s] = f]
  PROVE  /\ conn' \in [Streams -> Conns] /\ conn'[s] = f
         /\ \A x \in Streams \ {s} : conn'[x] = conn[x]
BY DEF Shapes

(* What a notification leaves in the queues, the events owed and the flags *)
(* of full queues.                                                         *)
LEMMA NotifyKeeps ==
  ASSUME Sse!BoundsOK, Shapes, EventInv, NEW channel \in Sse!AllChannels, NEW event \in Nat,
         Sse!Notify(channel, event), published' \in Nat,
         \/ channel \in Channels /\ event = published + 1 /\ published' = published + 1
         \/ channel = Market /\ published' = published
  PROVE  /\ inbox' \in [Streams -> Seq(Messages)] /\ owed' \in [Streams -> SUBSET Nat]
         /\ overflowed' \in [Streams -> BOOLEAN]
         /\ \A x \in Streams : Len(inbox'[x]) <= QueueMax
         /\ \A x \in Streams \ Sse!Subscribed : inbox'[x] = inbox[x] /\ owed'[x] = owed[x]
         /\ \A x \in Sse!Subscribed : ~overflowed'[x] =>
              Told(owed'[x], relayed[x], inbox'[x], conn[x].channel, published')
<1> DEFINE m == [channel |-> channel, event |-> event]
<1>1. m \in Messages /\ m.channel = channel /\ m.event = event
  BY DEF Messages
<1>2. /\ inbox' = [x \in Streams |-> IF x \in Sse!Subscribed /\ Len(inbox[x]) < QueueMax
                                       THEN Append(inbox[x], m) ELSE inbox[x]]
      /\ overflowed' = [x \in Streams |->
           overflowed[x] \/ (x \in Sse!Subscribed /\ Len(inbox[x]) = QueueMax)]
      /\ owed' = [x \in Streams |-> IF x \in Sse!Subscribed /\ conn[x].channel = channel
                                      THEN owed[x] \cup {event} ELSE owed[x]]
  BY Zenon DEF Sse!Notify
<1> HIDE DEF m
<1>3. ASSUME NEW x \in Streams
      PROVE  /\ inbox[x] \in Seq(Messages) /\ inbox'[x] \in Seq(Messages)
             /\ Len(inbox'[x]) <= QueueMax
             /\ owed[x] \in SUBSET Nat /\ owed'[x] \in SUBSET Nat
             /\ relayed[x] \in Seq(Nat) /\ published \in Nat
             /\ conn[x].channel \in Sse!AllChannels
             /\ overflowed[x] \in BOOLEAN /\ overflowed'[x] \in BOOLEAN
  <2>1. /\ inbox[x] \in Seq(Messages) /\ Len(inbox[x]) <= QueueMax /\ QueueMax \in Nat
        /\ owed[x] \in SUBSET Nat /\ relayed[x] \in Seq(Nat) /\ published \in Nat
        /\ conn[x] \in Conns /\ overflowed[x] \in BOOLEAN
    BY DEF Shapes, EventInv, Sse!BoundsOK
  <2>2. inbox'[x] \in Seq(Messages) /\ Len(inbox'[x]) <= QueueMax
    <3>1. CASE x \in Sse!Subscribed /\ Len(inbox[x]) < QueueMax
      <4>1. inbox'[x] = Append(inbox[x], m)
        BY <1>2, <3>1
      <4> QED
        BY <1>1, <2>1, <3>1, <4>1
    <3>2. CASE ~(x \in Sse!Subscribed /\ Len(inbox[x]) < QueueMax)
      BY <1>2, <2>1, <3>2
    <3> QED
      BY <3>1, <3>2
  <2>3. owed'[x] \in SUBSET Nat /\ overflowed'[x] \in BOOLEAN
    BY <1>2, <2>1
  <2> QED
    BY <2>1, <2>2, <2>3 DEF Conns
<1>4. ASSUME NEW x \in Sse!Subscribed, ~overflowed'[x]
      PROVE  Told(owed'[x], relayed[x], inbox'[x], conn[x].channel, published')
  <2>1. x \in Streams /\ conn[x].channel \in Channels /\ Market \notin Channels
    BY DEF Sse!Subscribed, Sse!BoundsOK
  <2>2. ~overflowed[x] /\ Len(inbox[x]) < QueueMax
    <3>1. ~overflowed[x] /\ Len(inbox[x]) # QueueMax
      BY <1>2, <1>4, <2>1
    <3> QED
      BY <2>1, <3>1 DEF EventInv, Sse!BoundsOK, Shapes
  <2>3. Told(owed[x], relayed[x], inbox[x], conn[x].channel, published)
    BY <2>2 DEF EventInv
  <2>4. inbox'[x] = Append(inbox[x], m)
    BY <1>2, <2>1, <2>2
  <2>5. CASE conn[x].channel = channel
    <3>1. event = published + 1 /\ published' = published + 1
      BY <2>1, <2>5
    <3>2. owed'[x] = owed[x] \cup {m.event}
      BY <1>1, <1>2, <2>1, <2>5
    <3> QED
      <4>1. m.channel = conn[x].channel /\ m.event = published + 1
        BY <1>1, <2>5, <3>1
      <4>2. Told(owed[x] \cup {m.event}, relayed[x], Append(inbox[x], m), conn[x].channel,
                 published + 1)
        BY <1>1, <1>3, <2>1, <2>3, <4>1, ToldEnqueue
      <4> QED
        BY <2>4, <3>1, <3>2, <4>2
  <2>6. CASE conn[x].channel # channel
    <3>1. owed'[x] = owed[x]
      BY <1>2, <2>1, <2>6
    <3>2. m.channel # conn[x].channel
      BY <1>1, <2>6
    <3>3. Told(owed[x], relayed[x], inbox'[x], conn[x].channel, published)
      <4>1. Told(owed[x], relayed[x], Append(inbox[x], m), conn[x].channel, published)
        BY <1>1, <1>3, <2>1, <2>3, <3>2, ToldEnqueue
      <4> QED
        BY <2>4, <4>1
    <3>4. published <= published'
      BY <1>3, <2>1
    <3> QED
      BY <1>3, <2>1, <3>1, <3>3, <3>4, ToldLater
  <2> QED
    BY <2>5, <2>6
<1>5. /\ inbox' \in [Streams -> Seq(Messages)] /\ owed' \in [Streams -> SUBSET Nat]
      /\ overflowed' \in [Streams -> BOOLEAN]
  <2>1. DOMAIN inbox' = Streams /\ DOMAIN owed' = Streams /\ DOMAIN overflowed' = Streams
    BY <1>2
  <2>2. inbox' \in [Streams -> Seq(Messages)]
    BY <1>2, <1>3
  <2>3. owed' \in [Streams -> SUBSET Nat]
    BY <1>2, <1>3
  <2>4. overflowed' \in [Streams -> BOOLEAN]
    BY <1>2, <1>3
  <2> QED
    BY <2>2, <2>3, <2>4
<1>6. \A x \in Streams \ Sse!Subscribed : inbox'[x] = inbox[x] /\ owed'[x] = owed[x]
  BY <1>2
<1> QED
  BY <1>3, <1>4, <1>5, <1>6

LEMMA FiniteHolding ==
  ASSUME Sse!BoundsOK
  PROVE  IsFiniteSet(Holding)
BY FS_Subset, SameSizes DEF Holding, Sse!BoundsOK

(* A stream that keeps its place outside or inside the slots.              *)
LEMMA SlotsStay ==
  ASSUME SlotInv, UNCHANGED active,
         \A x \in Streams : conn[x].pc \in {"idle", "over"} <=> conn'[x].pc \in {"idle", "over"}
  PROVE  SlotInv'
<1>1. Holding' = Holding
  BY DEF Holding
<1> QED
  BY <1>1 DEF SlotInv

LEMMA SlotTaken ==
  ASSUME Sse!BoundsOK, SlotInv, NEW s \in Streams, conn[s].pc = "idle", Sse!SlotIsFree,
         active' = active + 1, conn'[s].pc \in {"opened", "live"},
         \A x \in Streams \ {s} : conn'[x] = conn[x]
  PROVE  SlotInv'
<1>1. Holding' = Holding \cup {s} /\ s \notin Holding
  BY DEF Holding
<1>2. Cardinality(Holding') = Cardinality(Holding) + 1
  BY <1>1, FiniteHolding, FS_AddElement
<1> QED
  BY <1>2 DEF SlotInv, Sse!SlotIsFree, Sse!BoundsOK

LEMMA SlotFreed ==
  ASSUME Sse!BoundsOK, SlotInv, NEW s \in Streams, s \in Holding,
         active' = IF active > 0 THEN active - 1 ELSE 0, conn'[s].pc = "over",
         \A x \in Streams \ {s} : conn'[x] = conn[x]
  PROVE  SlotInv'
<1>1. Holding' = Holding \ {s}
  BY DEF Holding
<1>2. Cardinality(Holding') = Cardinality(Holding) - 1 /\ Cardinality(Holding) # 0
  BY <1>1, FiniteHolding, FS_RemoveElement, FS_EmptySet
<1> QED
  BY <1>2 DEF SlotInv, Sse!BoundsOK

(* The events of a stream are its own, if its place and channel stay.      *)
LEMMA EventsStay ==
  ASSUME Shapes, EventInv, UNCHANGED <<inbox, owed, relayed, overflowed, published>>,
         Sse!Subscribed' = Sse!Subscribed,
         \A x \in Sse!Subscribed : conn'[x].channel = conn[x].channel
  PROVE  EventInv'
BY DEF EventInv

LEMMA PublishKeeps ==
  ASSUME Sse!BoundsOK, SseInv, NEW channel \in Channels, Sse!Publish(channel)
  PROVE  SseInv'
<1>1. /\ published' = published + 1 /\ published + 1 \in Nat /\ Sse!Notify(channel, published + 1)
      /\ UNCHANGED <<active, frames, nextIds, expired, conn, sent, relayed, sseBudget>>
      /\ channel \in Sse!AllChannels
  BY DEF Sse!Publish, SseInv, Shapes, Sse!AllChannels
<1>2. /\ inbox' \in [Streams -> Seq(Messages)] /\ owed' \in [Streams -> SUBSET Nat]
      /\ overflowed' \in [Streams -> BOOLEAN]
      /\ \A x \in Streams : Len(inbox'[x]) <= QueueMax
      /\ \A x \in Streams \ Sse!Subscribed : inbox'[x] = inbox[x] /\ owed'[x] = owed[x]
      /\ \A x \in Sse!Subscribed : ~overflowed'[x] =>
           Told(owed'[x], relayed[x], inbox'[x], conn[x].channel, published')
  BY <1>1, NotifyKeeps DEF SseInv
<1>3. Shapes'
  BY <1>1, <1>2 DEF SseInv, Shapes
<1>4. SlotInv' /\ BufferInv' /\ ReplayInv' /\ FreshInv'
  BY <1>1 DEF SseInv, SlotInv, Holding, BufferInv, ReplayInv, FreshInv
<1>5. Sse!Subscribed' = Sse!Subscribed
  BY <1>1 DEF Sse!Subscribed
<1>6. EventInv'
  BY <1>1, <1>2, <1>5 DEF SseInv, EventInv
<1> QED
  BY <1>3, <1>4, <1>6 DEF SseInv

LEMMA AgeKeeps ==
  ASSUME Sse!BoundsOK, SseInv, NEW channel \in Channels, Sse!Age(channel)
  PROVE  SseInv'
<1>1. /\ sseBudget.age > 0 /\ expired[channel] < nextIds[channel]
      /\ sseBudget' = [sseBudget EXCEPT !.age = @ - 1]
      /\ expired' = [expired EXCEPT ![channel] = @ + 1]
      /\ UNCHANGED <<active, frames, nextIds, conn, inbox, sent, published, owed, relayed,
                     overflowed>>
      /\ channel \in Sse!AllChannels
  BY DEF Sse!Age, Sse!AllChannels
<1>2. sseBudget' \in [ticks : Nat, age : Nat]
  <2>1. sseBudget \in [ticks : Nat, age : Nat] /\ sseBudget.age \in Nat /\ sseBudget.age - 1 \in Nat
    BY <1>1 DEF SseInv, Shapes
  <2> QED
    BY <1>1, <2>1
<1>3. /\ expired' \in [Sse!AllChannels -> Nat] /\ expired'[channel] = expired[channel] + 1
      /\ \A c \in Sse!AllChannels \ {channel} : expired'[c] = expired[c]
      /\ nextIds[channel] \in Nat /\ expired[channel] \in Nat
  BY <1>1 DEF SseInv, Shapes
<1>4. Shapes'
  BY <1>1, <1>2, <1>3 DEF SseInv, Shapes
<1>5. BufferInv'
  <2>1. \A c \in Sse!AllChannels : expired'[c] <= nextIds[c]
    BY <1>1, <1>3 DEF SseInv, BufferInv
  <2> QED
    BY <1>1, <2>1 DEF SseInv, BufferInv
<1>6. SlotInv' /\ ReplayInv' /\ Sse!Subscribed' = Sse!Subscribed /\ FreshInv'
  BY <1>1 DEF SseInv, SlotInv, Holding, ReplayInv, Sse!Subscribed, FreshInv
<1>7. EventInv'
  BY <1>1, <1>6, EventsStay DEF SseInv
<1> QED
  BY <1>4, <1>5, <1>6, <1>7 DEF SseInv

LEMMA RefuseKeeps ==
  ASSUME Sse!BoundsOK, SseInv, NEW s \in Streams, Sse!Refuse(s)
  PROVE  SseInv'
<1>1. /\ conn[s].pc = "idle" /\ conn' = [conn EXCEPT ![s] = [conn[s] EXCEPT !.pc = "over"]]
      /\ UNCHANGED <<active, frames, nextIds, expired, inbox, sent, published, owed, relayed,
                     overflowed, sseBudget>>
  BY DEF Sse!Refuse
<1>2. /\ [conn[s] EXCEPT !.pc = "over"] \in Conns
      /\ [conn[s] EXCEPT !.pc = "over"].pc = "over"
  <2>1. PICK c \in Conns : c = conn[s]
    BY DEF SseInv, Shapes
  <2>2. [c EXCEPT !.pc = "over"] \in Conns /\ [c EXCEPT !.pc = "over"].pc = "over"
    BY DEF Conns, Pcs
  <2> QED
    BY <2>1, <2>2
<1>3. /\ conn' \in [Streams -> Conns] /\ conn'[s].pc = "over"
      /\ \A x \in Streams \ {s} : conn'[x] = conn[x]
  BY <1>1, <1>2, ConnChange DEF SseInv
<1>4. Shapes'
  BY <1>1, <1>3 DEF SseInv, Shapes
<1>5. SlotInv'
  BY <1>1, <1>3, SlotsStay DEF SseInv
<1>6. Advances /\ nextIds' \in [Sse!AllChannels -> Nat]
  BY <1>1 DEF Advances, SseInv, Shapes
<1>7. ReplayInv'
  <2>1. \A x \in Streams \ {s} :
          ReplayOK(conn[x], frames[conn[x].channel], nextIds[conn[x].channel], sent[x])'
    BY <1>1, <1>3, <1>6, OtherReplays DEF SseInv
  <2>2. ReplayOK(conn[s], frames[conn[s].channel], nextIds[conn[s].channel], sent[s])'
    BY <1>3 DEF ReplayOK
  <2> QED
    BY <2>1, <2>2 DEF ReplayInv
<1>8. Sse!Subscribed' = Sse!Subscribed /\ \A x \in Sse!Subscribed : conn'[x] = conn[x]
  BY <1>1, <1>3 DEF Sse!Subscribed
<1>9. EventInv'
  BY <1>1, <1>8, EventsStay DEF SseInv
<1>10. FreshInv'
  BY <1>3 DEF SseInv, FreshInv
<1> QED
  BY <1>1, <1>4, <1>5, <1>7, <1>9, <1>10 DEF SseInv, BufferInv

(* The buffers after a frame of the channel.                               *)
LEMMA EmitKeeps ==
  ASSUME Sse!BoundsOK, SseInv, NEW s \in Streams, NEW channel \in Sse!AllChannels,
         Sse!Emit(s, channel),
         UNCHANGED expired
  PROVE  /\ Advances /\ BufferInv' /\ nextIds'[channel] > 0
         /\ frames' \in [Sse!AllChannels -> Seq(Nat)] /\ nextIds' \in [Sse!AllChannels -> Nat]
         /\ sent' \in [Streams -> SUBSET Nat]
         /\ \A x \in Streams : sent[x] \subseteq sent'[x]
<1>1. /\ frames' \in [Sse!AllChannels -> Seq(Nat)] /\ nextIds' \in [Sse!AllChannels -> Nat]
      /\ sent' \in [Streams -> SUBSET Nat]
      /\ nextIds'[channel] = nextIds[channel] + 1
      /\ \A c \in Sse!AllChannels \ {channel} : frames'[c] = frames[c] /\ nextIds'[c] = nextIds[c]
      /\ \A c \in Sse!AllChannels : Suffix(frames'[c], nextIds'[c])
      /\ \A x \in Streams : sent[x] \subseteq sent'[x]
  BY Zenon, EmitFacts DEF SseInv
<1>2. nextIds \in [Sse!AllChannels -> Nat] /\ expired \in [Sse!AllChannels -> Nat]
  BY DEF SseInv, Shapes
<1>3. Advances /\ nextIds'[channel] > 0
  BY <1>1, <1>2 DEF Advances
<1>4. \A c \in Sse!AllChannels : expired[c] <= nextIds'[c]
  <2>1. \A c \in Sse!AllChannels : expired[c] <= nextIds[c]
    BY DEF SseInv, BufferInv
  <2> TAKE c \in Sse!AllChannels
  <2>2. expired[c] \in Nat /\ nextIds[c] \in Nat /\ expired[c] <= nextIds[c]
    BY <1>2, <2>1
  <2>3. nextIds'[c] = nextIds[c] \/ nextIds'[c] = nextIds[c] + 1
    BY <1>1
  <2> QED
    BY <2>2, <2>3
<1>5. BufferInv'
  BY <1>1, <1>4 DEF BufferInv
<1> QED
  BY <1>1, <1>3, <1>5

LEMMA OpenKeeps ==
  ASSUME Sse!BoundsOK, SseInv, NEW s \in Streams, Sse!Open(s)
  PROVE  SseInv'
<1>1. PICK channel \in Channels : \E last \in 0..nextIds[channel] :
        /\ conn' = [conn EXCEPT ![s] = [Sse!NoConn EXCEPT !.pc = "opened", !.channel = channel,
                                                      !.last = last]]
        /\ Sse!Emit(s, channel)
  BY DEF Sse!Open
<1>2. PICK last \in 0..nextIds[channel] :
        /\ conn' = [conn EXCEPT ![s] = [Sse!NoConn EXCEPT !.pc = "opened", !.channel = channel,
                                                      !.last = last]]
        /\ Sse!Emit(s, channel)
  BY <1>1
<1>3. /\ conn[s].pc = "idle" /\ Sse!SlotIsFree /\ active' = active + 1
      /\ channel \in Sse!AllChannels
      /\ UNCHANGED <<expired, inbox, published, owed, relayed, overflowed, sseBudget>>
  BY DEF Sse!Open, Sse!AllChannels
<1>4. last \in Nat
  BY <1>3 DEF SseInv, Shapes
<1> DEFINE f == [Sse!NoConn EXCEPT !.pc = "opened", !.channel = channel, !.last = last]
<1>5. f \in Conns /\ f.pc = "opened" /\ f.channel = channel
  BY <1>3, <1>4 DEF Sse!NoConn, Conns, Pcs
<1>6. conn' = [conn EXCEPT ![s] = f]
  BY <1>2
<1> HIDE DEF f
<1>7. /\ conn' \in [Streams -> Conns] /\ conn'[s] = f
      /\ \A x \in Streams \ {s} : conn'[x] = conn[x]
  BY <1>5, <1>6, ConnChange DEF SseInv
<1>8. /\ Advances /\ BufferInv' /\ nextIds'[channel] > 0
      /\ frames' \in [Sse!AllChannels -> Seq(Nat)] /\ nextIds' \in [Sse!AllChannels -> Nat]
      /\ sent' \in [Streams -> SUBSET Nat]
      /\ \A x \in Streams : sent[x] \subseteq sent'[x]
  BY <1>2, <1>3, EmitKeeps
<1>9. Shapes'
  BY <1>3, <1>7, <1>8 DEF SseInv, Shapes
<1>10. SlotInv'
  BY <1>3, <1>5, <1>7, SlotTaken DEF SseInv
<1>11. ReplayInv'
  <2>1. \A x \in Streams \ {s} :
          ReplayOK(conn[x], frames[conn[x].channel], nextIds[conn[x].channel], sent[x])'
    BY <1>7, <1>8, OtherReplays DEF SseInv
  <2>2. ReplayOK(conn[s], frames[conn[s].channel], nextIds[conn[s].channel], sent[s])'
    BY <1>5, <1>7, <1>8 DEF ReplayOK
  <2> QED
    BY <2>1, <2>2 DEF ReplayInv
<1>12. Sse!Subscribed' = Sse!Subscribed /\ \A x \in Sse!Subscribed : conn'[x] = conn[x]
  BY <1>3, <1>5, <1>7 DEF Sse!Subscribed
<1>13. EventInv'
  BY <1>3, <1>12, EventsStay DEF SseInv
<1>14. FreshInv'
  BY <1>5, <1>7 DEF SseInv, FreshInv
<1> QED
  BY <1>8, <1>9, <1>10, <1>11, <1>13, <1>14 DEF SseInv

LEMMA OpenMarketKeeps ==
  ASSUME Sse!BoundsOK, SseInv, NEW s \in Streams, Sse!OpenMarket(s)
  PROVE  SseInv'
<1>1. /\ conn[s].pc = "idle" /\ Sse!SlotIsFree /\ active' = active + 1 /\ Market \in Sse!AllChannels
      /\ conn' = [conn EXCEPT ![s] = [conn[s] EXCEPT !.pc = "live"]]
      /\ Sse!Notify(Market, 0) /\ Sse!Emit(s, Market)
      /\ UNCHANGED <<expired, published, relayed, sseBudget>>
  BY DEF Sse!OpenMarket, Sse!AllChannels
<1> DEFINE f == [conn[s] EXCEPT !.pc = "live"]
<1>2. f \in Conns /\ f.pc = "live" /\ f.channel = conn[s].channel /\ f.last = conn[s].last
  <2>1. PICK c \in Conns : c = conn[s]
    BY DEF SseInv, Shapes
  <2>2. /\ [c EXCEPT !.pc = "live"] \in Conns /\ [c EXCEPT !.pc = "live"].pc = "live"
        /\ [c EXCEPT !.pc = "live"].channel = c.channel /\ [c EXCEPT !.pc = "live"].last = c.last
    BY DEF Conns, Pcs
  <2> QED
    BY <2>1, <2>2
<1>3. conn' = [conn EXCEPT ![s] = f]
  BY <1>1
<1> HIDE DEF f
<1>4. /\ conn' \in [Streams -> Conns] /\ conn'[s] = f
      /\ \A x \in Streams \ {s} : conn'[x] = conn[x]
  BY <1>2, <1>3, ConnChange DEF SseInv
<1>5. conn[s] = Sse!NoConn
  BY <1>1 DEF SseInv, FreshInv
<1>6. /\ Advances /\ BufferInv' /\ nextIds'[Market] > 0
      /\ frames' \in [Sse!AllChannels -> Seq(Nat)] /\ nextIds' \in [Sse!AllChannels -> Nat]
      /\ sent' \in [Streams -> SUBSET Nat]
      /\ \A x \in Streams : sent[x] \subseteq sent'[x]
  BY <1>1, EmitKeeps
<1>7. /\ inbox' \in [Streams -> Seq(Messages)] /\ owed' \in [Streams -> SUBSET Nat]
      /\ overflowed' \in [Streams -> BOOLEAN]
      /\ \A x \in Streams : Len(inbox'[x]) <= QueueMax
      /\ \A x \in Streams \ Sse!Subscribed : inbox'[x] = inbox[x] /\ owed'[x] = owed[x]
      /\ \A x \in Sse!Subscribed : ~overflowed'[x] =>
           Told(owed'[x], relayed[x], inbox'[x], conn[x].channel, published')
  <2>1. published' \in Nat /\ published' = published
    BY <1>1 DEF SseInv, Shapes
  <2> QED
    BY <1>1, <2>1, NotifyKeeps DEF SseInv
<1>8. Shapes'
  BY <1>1, <1>4, <1>6, <1>7 DEF SseInv, Shapes
<1>9. SlotInv'
  BY <1>1, <1>2, <1>4, SlotTaken DEF SseInv
<1>10. conn'[s].last = 0 /\ conn'[s].channel = Market /\ conn'[s].pc = "live"
  BY <1>2, <1>4, <1>5 DEF Sse!NoConn
<1>11. ReplayInv'
  <2>1. \A x \in Streams \ {s} :
          ReplayOK(conn[x], frames[conn[x].channel], nextIds[conn[x].channel], sent[x])'
    BY <1>4, <1>6, OtherReplays DEF SseInv
  <2>2. ReplayOK(conn[s], frames[conn[s].channel], nextIds[conn[s].channel], sent[s])'
    BY <1>10 DEF ReplayOK, Whole
  <2> QED
    BY <2>1, <2>2 DEF ReplayInv
<1>12. Sse!Subscribed' = Sse!Subscribed /\ \A x \in Sse!Subscribed : conn'[x] = conn[x]
  BY <1>1, <1>4, <1>10 DEF Sse!Subscribed, Sse!BoundsOK
<1>13. EventInv'
  <2>1. \A x \in Streams \ Sse!Subscribed' : inbox'[x] = <<>> /\ owed'[x] = {} /\ relayed'[x] = <<>>
    BY <1>1, <1>7, <1>12 DEF SseInv, EventInv
  <2>2. \A x \in Sse!Subscribed' : ~overflowed'[x] =>
          Told(owed'[x], relayed'[x], inbox'[x], conn'[x].channel, published')
    BY <1>1, <1>7, <1>12
  <2> QED
    BY <1>7, <2>1, <2>2 DEF EventInv
<1>14. FreshInv'
  BY <1>4, <1>10 DEF SseInv, FreshInv
<1> QED
  BY <1>6, <1>8, <1>9, <1>11, <1>13, <1>14 DEF SseInv

LEMMA TickKeeps ==
  ASSUME Sse!BoundsOK, SseInv, NEW s \in Streams, Sse!Tick(s)
  PROVE  SseInv'
<1>1. /\ sseBudget.ticks > 0 /\ sseBudget' = [sseBudget EXCEPT !.ticks = @ - 1]
      /\ Market \in Sse!AllChannels
      /\ Sse!Emit(s, Market)
      /\ UNCHANGED <<active, expired, conn, inbox, published, owed, relayed, overflowed>>
  BY DEF Sse!Tick, Sse!AllChannels
<1>2. sseBudget' \in [ticks : Nat, age : Nat]
  <2>1. /\ sseBudget \in [ticks : Nat, age : Nat]
        /\ sseBudget.ticks \in Nat /\ sseBudget.ticks - 1 \in Nat
    BY <1>1 DEF SseInv, Shapes
  <2> QED
    BY <1>1, <2>1
<1>3. /\ Advances /\ BufferInv'
      /\ frames' \in [Sse!AllChannels -> Seq(Nat)] /\ nextIds' \in [Sse!AllChannels -> Nat]
      /\ sent' \in [Streams -> SUBSET Nat]
      /\ \A x \in Streams : sent[x] \subseteq sent'[x]
  BY <1>1, EmitKeeps
<1>4. Shapes'
  BY <1>1, <1>2, <1>3 DEF SseInv, Shapes
<1>5. ReplayInv'
  <2>1. \A x \in Streams :
          ReplayOK(conn[x], frames[conn[x].channel], nextIds[conn[x].channel], sent[x])'
    BY <1>1, <1>3, OtherReplays DEF SseInv
  <2> QED
    BY <2>1 DEF ReplayInv
<1>6. SlotInv' /\ Sse!Subscribed' = Sse!Subscribed /\ FreshInv'
  BY <1>1 DEF SseInv, SlotInv, Holding, Sse!Subscribed, FreshInv
<1>7. EventInv'
  BY <1>1, <1>6, EventsStay DEF SseInv
<1> QED
  BY <1>3, <1>4, <1>5, <1>6, <1>7 DEF SseInv

(* The event loop takes one connection on; buffers stay.                   *)
LEMMA ConnGoesOn ==
  ASSUME Sse!BoundsOK, SseInv, NEW s \in Streams, conn'[s] \in Conns,
         conn' \in [Streams -> Conns], \A x \in Streams \ {s} : conn'[x] = conn[x],
         conn[s].pc \notin {"idle", "over"}, conn'[s].pc \notin {"idle", "over"},
         UNCHANGED <<active, frames, nextIds, expired, inbox, published, owed, relayed,
                     overflowed, sseBudget>>,
         sent' \in [Streams -> SUBSET Nat], \A x \in Streams : sent[x] \subseteq sent'[x],
         s \notin Sse!Subscribed, conn'[s].channel = conn[s].channel,
         ReplayOK(conn'[s], frames[conn'[s].channel], nextIds[conn'[s].channel], sent'[s])
  PROVE  SseInv'
<1>1. Shapes'
  BY DEF SseInv, Shapes
<1>2. SlotInv'
  BY SlotsStay DEF SseInv
<1>3. Advances /\ nextIds' \in [Sse!AllChannels -> Nat]
  BY DEF Advances, SseInv, Shapes
<1>4. ReplayInv'
  <2>1. \A x \in Streams \ {s} :
          ReplayOK(conn[x], frames[conn[x].channel], nextIds[conn[x].channel], sent[x])'
    BY <1>3, OtherReplays DEF SseInv
  <2>2. ReplayOK(conn[s], frames[conn[s].channel], nextIds[conn[s].channel], sent[s])'
    OBVIOUS
  <2> QED
    BY <2>1, <2>2 DEF ReplayInv
<1>5. EventInv'
  <2>1. /\ inbox[s] = <<>> /\ owed[s] = {} /\ relayed[s] = <<>>
        /\ \A x \in Sse!Subscribed : x \in Sse!Subscribed' /\ x # s /\ conn'[x] = conn[x]
        /\ \A x \in Sse!Subscribed' : x \in Sse!Subscribed \/ x = s
    BY DEF SseInv, EventInv, Sse!Subscribed
  <2>2. \A x \in Streams \ Sse!Subscribed' : inbox'[x] = <<>> /\ owed'[x] = {} /\ relayed'[x] = <<>>
    BY <2>1 DEF SseInv, EventInv
  <2>3. \A x \in Sse!Subscribed' : ~overflowed'[x] =>
          Told(owed'[x], relayed'[x], inbox'[x], conn'[x].channel, published')
    <3> SUFFICES ASSUME NEW x \in Sse!Subscribed', ~overflowed[x]
                 PROVE  Told(owed[x], relayed[x], inbox[x], conn'[x].channel, published)
      OBVIOUS
    <3>1. CASE x \in Sse!Subscribed
      BY <2>1, <3>1 DEF SseInv, EventInv
    <3>2. CASE x = s
      <4>1. Told({}, <<>>, <<>>, conn'[s].channel, published)
        BY ToldNothing
      <4> QED
        BY <2>1, <3>2, <4>1
    <3> QED
      BY <2>1, <3>1, <3>2
  <2> QED
    BY <2>2, <2>3 DEF SseInv, EventInv
<1>6. FreshInv' /\ BufferInv'
  BY DEF SseInv, FreshInv, BufferInv
<1> QED
  BY <1>1, <1>2, <1>4, <1>5, <1>6 DEF SseInv

(* The oldest frame of a buffer that has any.                              *)
LEMMA ReachIs ==
  ASSUME SseInv, NEW s \in Streams, nextIds[conn[s].channel] > 0
  PROVE  Sse!Reach(s) = nextIds[conn[s].channel] - Len(frames[conn[s].channel]) + 1
<1> DEFINE ids == frames[conn[s].channel]
           newest == nextIds[conn[s].channel]
<1>1. conn[s].channel \in Sse!AllChannels
  BY DEF SseInv, Shapes, Conns
<1>2. ids \in Seq(Nat) /\ newest \in Nat /\ Suffix(ids, newest)
  BY <1>1 DEF SseInv, Shapes, BufferInv
<1>3. newest > 0 /\ Sse!Reach(s) = Head(ids)
  BY DEF Sse!Reach
<1> HIDE DEF ids, newest
<1>4. Len(ids) \in Nat /\ Len(ids) > 0 /\ ids # <<>> /\ 1 \in 1..Len(ids)
  BY <1>2, <1>3 DEF Suffix
<1>5. Head(ids) = ids[1]
  BY <1>2, <1>4
<1>6. ids[1] = newest - Len(ids) + 1
  BY <1>2, <1>4 DEF Suffix
<1> QED
  BY <1>3, <1>5, <1>6 DEF ids, newest

LEMMA ResumeKeeps ==
  ASSUME Sse!BoundsOK, SseInv, NEW s \in Streams, Sse!Resume(s)
  PROVE  SseInv'
<1>1. /\ conn[s].pc = "opened"
      /\ UNCHANGED <<active, frames, nextIds, expired, inbox, sent, published, owed, relayed,
                     overflowed, sseBudget>>
      /\ conn[s] \in Conns /\ conn \in [Streams -> Conns] /\ conn[s].channel \in Sse!AllChannels
      /\ sent \in [Streams -> SUBSET Nat] /\ s \notin Sse!Subscribed
      /\ nextIds[conn[s].channel] \in Nat
  BY DEF Sse!Resume, SseInv, Shapes, Conns, Sse!Subscribed
<1>2. ReplayOK(conn[s], frames[conn[s].channel], nextIds[conn[s].channel], sent[s])
  BY DEF SseInv, ReplayInv
<1>3. CASE conn[s].last = 0
  <2> DEFINE f == [conn[s] EXCEPT !.pc = "live", !.joined = nextIds[conn[s].channel]]
  <2>1. conn' = [conn EXCEPT ![s].pc = "live", ![s].joined = nextIds[conn[s].channel]]
    BY <1>3 DEF Sse!Resume, Sse!Live
  <2>2. conn' = [conn EXCEPT ![s] = f]
    BY <1>1, <2>1
  <2>3. f \in Conns /\ f.pc = "live" /\ f.channel = conn[s].channel /\ f.last = 0
    BY <1>1, <1>3 DEF Conns, Pcs
  <2> HIDE DEF f
  <2>4. /\ conn' \in [Streams -> Conns] /\ conn'[s] = f
        /\ \A x \in Streams \ {s} : conn'[x] = conn[x]
    BY <2>2, <2>3, ConnChange DEF SseInv
  <2>5. ReplayOK(f, frames[f.channel], nextIds[f.channel], sent[s])
    BY <2>3 DEF ReplayOK, Whole
  <2> QED
    BY <1>1, <2>3, <2>4, <2>5, ConnGoesOn
<1>4. CASE conn[s].last # 0
  <2> DEFINE gap == Sse!Reach(s) > conn[s].last + 1
             f == [conn[s] EXCEPT !.pc = "resumed", !.gap = gap]
  <2>1. conn' = [conn EXCEPT ![s].pc = "resumed", ![s].gap = gap]
    BY <1>4 DEF Sse!Resume
  <2>2. conn' = [conn EXCEPT ![s] = f]
    BY <1>1, <2>1
  <2>3. gap \in BOOLEAN
    OBVIOUS
  <2> HIDE DEF gap
  <2>4. /\ f \in Conns /\ f.pc = "resumed" /\ f.channel = conn[s].channel
        /\ f.last = conn[s].last /\ f.last > 0
    <3>1. conn[s].last \in Nat /\ conn[s].last > 0
      BY <1>1, <1>4 DEF Conns
    <3>2. f.pc = "resumed" /\ f.channel = conn[s].channel /\ f.last = conn[s].last
      BY <1>1 DEF Conns
    <3>3. f \in Conns
      BY <1>1, <2>3 DEF Conns, Pcs
    <3> QED
      BY <3>1, <3>2, <3>3
  <2> HIDE DEF f
  <2>5. /\ conn' \in [Streams -> Conns] /\ conn'[s] = f
        /\ \A x \in Streams \ {s} : conn'[x] = conn[x]
    BY <2>2, <2>4, ConnChange DEF SseInv
  <2>6. ReplayOK(f, frames[f.channel], nextIds[f.channel], sent[s])
    BY <1>1, <1>2, <2>4 DEF ReplayOK
  <2> QED
    BY <1>1, <2>4, <2>5, <2>6, ConnGoesOn
<1> QED
  BY <1>3, <1>4

LEMMA BeginReplayKeeps ==
  ASSUME Sse!BoundsOK, SseInv, NEW s \in Streams, Sse!BeginReplay(s)
  PROVE  SseInv'
<1> DEFINE newest == nextIds[conn[s].channel]
           slipped == ~conn[s].gap /\ Sse!Reach(s) > conn[s].last + 1
           f == [conn[s] EXCEPT !.pc = "replay", !.at = conn[s].last, !.from = newest,
                                !.cutoff = expired[conn[s].channel], !.slipped = slipped]
<1>1. /\ conn[s].pc = "resumed"
      /\ UNCHANGED <<active, frames, nextIds, expired, inbox, sent, published, owed, relayed,
                     overflowed, sseBudget>>
      /\ conn[s] \in Conns /\ conn \in [Streams -> Conns] /\ conn[s].channel \in Sse!AllChannels
      /\ sent \in [Streams -> SUBSET Nat] /\ s \notin Sse!Subscribed
      /\ newest \in Nat /\ expired[conn[s].channel] \in Nat /\ conn[s].last \in Nat
      /\ conn[s].gap \in BOOLEAN
  BY DEF Sse!BeginReplay, SseInv, Shapes, Conns, Sse!Subscribed
<1>2. conn' = [conn EXCEPT ![s].pc = "replay", ![s].at = conn[s].last,
                ![s].from = newest, ![s].cutoff = expired[conn[s].channel],
                ![s].slipped = slipped]
  BY DEF Sse!BeginReplay
<1>3. conn' = [conn EXCEPT ![s] = f]
  BY <1>1, <1>2
<1>4. newest > 0 /\ conn[s].last > 0
  BY <1>1 DEF SseInv, ReplayInv, ReplayOK
<1>5. Sse!Reach(s) = newest - Len(frames[conn[s].channel]) + 1
  BY <1>4, ReachIs
<1>6. slipped \in BOOLEAN
  OBVIOUS
<1>7. ~conn[s].gap /\ ~slipped => newest - Len(frames[conn[s].channel]) <= conn[s].last
  <2>1. frames[conn[s].channel] \in Seq(Nat)
    BY <1>1 DEF SseInv, Shapes
  <2>2. PICK n \in Nat : n = Len(frames[conn[s].channel])
    BY <2>1
  <2>3. PICK r : r = Sse!Reach(s)
    OBVIOUS
  <2>4. r = newest - n + 1
    BY <1>5, <2>2, <2>3
  <2>5. SUFFICES ASSUME ~conn[s].gap, ~slipped
                 PROVE  newest - n <= conn[s].last
    BY <2>2
  <2>6. ~(r > conn[s].last + 1)
    BY <2>3, <2>5
  <2> HIDE DEF newest, slipped
  <2> QED
    BY <1>1, <2>4, <2>6
<1> HIDE DEF slipped, newest
<1>8. /\ f \in Conns /\ f.pc = "replay" /\ f.channel = conn[s].channel
      /\ f.last = conn[s].last /\ f.at = f.last /\ f.from = newest
      /\ f.gap = conn[s].gap /\ f.slipped = slipped
  BY <1>1, <1>6 DEF Conns, Pcs
<1> HIDE DEF f
<1>9. /\ conn' \in [Streams -> Conns] /\ conn'[s] = f
      /\ \A x \in Streams \ {s} : conn'[x] = conn[x]
  BY <1>3, <1>8, ConnChange DEF SseInv
<1>10. ReplayOK(f, frames[f.channel], newest, sent[s])
  <2>1. (f.last + 1) .. f.at = {}
    BY <1>1, <1>8
  <2> QED
    BY <1>1, <1>4, <1>7, <1>8, <2>1 DEF ReplayOK, Whole
<1>11. ReplayOK(conn'[s], frames[conn'[s].channel], nextIds[conn'[s].channel], sent'[s])
  BY <1>1, <1>8, <1>9, <1>10 DEF newest
<1> QED
  BY <1>1, <1>8, <1>9, <1>11, ConnGoesOn

LEMMA SseBegins ==
  ASSUME Sse!BoundsOK, Sse!Init
  PROVE  SseInv
<1>1. \A s \in Streams :
        conn[s] = Sse!NoConn /\ inbox[s] = <<>> /\ owed[s] = {} /\ relayed[s] = <<>>
  BY DEF Sse!Init
<1>2. Sse!Subscribed = {}
  BY <1>1 DEF Sse!Subscribed, Sse!NoConn
<1>3. EventInv
  BY <1>1, <1>2 DEF EventInv, Sse!BoundsOK
<1>4. FreshInv
  BY <1>1 DEF FreshInv
<1> QED
  BY <1>3, <1>4, SseInit DEF SseInv

(* An undisturbed replay that nothing excuses finds every frame it has not *)
(* come to.                                                                *)
LEMMA BacklogHas ==
  ASSUME SseInv, NEW s \in Streams, conn[s].pc = "replay", Sse!Undisturbed(s), Whole(conn[s]),
         NEW x \in Nat, conn[s].at < x, x <= conn[s].from
  PROVE  x \in Sse!Backlog(s)
<1> DEFINE c == conn[s]
<1>1. /\ c \in Conns /\ c.channel \in Sse!AllChannels /\ c.last \in Nat /\ c.at \in Nat
      /\ c.from \in Nat /\ c.cutoff \in Nat
  BY DEF SseInv, Shapes, Conns
<1>2. PICK ids \in Seq(Nat) : ids = frames[c.channel]
  BY <1>1 DEF SseInv, Shapes
<1>3. PICK newest \in Nat : newest = nextIds[c.channel]
  BY <1>1 DEF SseInv, Shapes
<1>4. c.from = newest /\ c.cutoff <= c.last /\ c.last <= c.at
  BY <1>3 DEF Sse!Undisturbed, Whole, SseInv, ReplayInv, ReplayOK
<1>5. newest - Len(ids) <= c.last
  BY <1>2, <1>3, <1>4 DEF SseInv, ReplayInv, ReplayOK
<1>6. Suffix(ids, newest)
  BY <1>1, <1>2, <1>3 DEF SseInv, BufferInv
<1> DEFINE i == x - newest + Len(ids)
<1>7. i \in 1..Len(ids) /\ newest - Len(ids) + i = x
  BY <1>1, <1>4, <1>5
<1> HIDE DEF i
<1>8. ids[i] = x
  BY <1>6, <1>7 DEF Suffix
<1>9. x \in {frames[c.channel][k] : k \in DOMAIN frames[c.channel]}
  BY <1>2, <1>7, <1>8
<1>10. x > c.at /\ x > c.cutoff /\ x <= c.from
  BY <1>1, <1>4
<1> QED
  BY <1>9, <1>10 DEF Sse!Backlog

LEMMA ReplayStepKeeps ==
  ASSUME Sse!BoundsOK, SseInv, NEW s \in Streams, Sse!Replay(s)
  PROVE  SseInv'
<1> DEFINE c == conn[s]
<1>1. /\ c.pc = "replay" /\ Sse!Undisturbed(s)
      /\ UNCHANGED <<active, frames, nextIds, expired, inbox, published, owed, relayed,
                     overflowed, sseBudget>>
      /\ c \in Conns /\ conn \in [Streams -> Conns] /\ c.channel \in Sse!AllChannels
      /\ sent \in [Streams -> SUBSET Nat] /\ s \notin Sse!Subscribed
      /\ c.last \in Nat /\ c.at \in Nat /\ c.from \in Nat /\ nextIds[c.channel] = c.from
  BY DEF Sse!Replay, SseInv, Shapes, Conns, Sse!Subscribed, Sse!Undisturbed
<1>2. /\ c.last <= c.at /\ c.from <= nextIds[c.channel] /\ nextIds[c.channel] > 0
      /\ Whole(c) => /\ (c.last + 1) .. c.at \subseteq sent[s]
                     /\ c.from = nextIds[c.channel] =>
                          nextIds[c.channel] - Len(frames[c.channel]) <= c.last
  BY <1>1 DEF SseInv, ReplayInv, ReplayOK
<1>3. CASE Sse!Backlog(s) = {}
  <2> DEFINE f == [c EXCEPT !.pc = "live", !.joined = nextIds[c.channel]]
  <2>1. /\ conn' = [conn EXCEPT ![s].pc = "live", ![s].joined = nextIds[c.channel]]
        /\ sent' = sent
    BY <1>3 DEF Sse!Replay, Sse!Live
  <2>2. conn' = [conn EXCEPT ![s] = f]
    BY <1>1, <2>1
  <2>3. /\ f \in Conns /\ f.pc = "live" /\ f.channel = c.channel /\ f.joined = c.from
        /\ f.last = c.last /\ f.gap = c.gap /\ f.slipped = c.slipped /\ f.cutoff = c.cutoff
    BY <1>1 DEF Conns, Pcs
  <2> HIDE DEF f
  <2>4. /\ conn' \in [Streams -> Conns] /\ conn'[s] = f
        /\ \A x \in Streams \ {s} : conn'[x] = conn[x]
    BY <2>2, <2>3, ConnChange DEF SseInv
  <2>5. ASSUME Whole(f), NEW x \in (f.last + 1) .. f.joined
        PROVE  x \in sent[s]
    <3>1. Whole(c) /\ x \in Nat /\ c.last < x /\ x <= c.from
      BY <1>1, <2>3, <2>5 DEF Whole
    <3>2. x <= c.at
      BY <1>1, <1>3, <3>1, BacklogHas
    <3>3. x \in (c.last + 1) .. c.at
      BY <1>1, <3>1, <3>2
    <3> QED
      BY <1>2, <3>1, <3>3
  <2>6. ReplayOK(f, frames[f.channel], nextIds[f.channel], sent[s])
    BY <2>3, <2>5 DEF ReplayOK
  <2>7. ReplayOK(conn'[s], frames[conn'[s].channel], nextIds[conn'[s].channel], sent'[s])
    BY <2>1, <2>4, <2>6
  <2> QED
    BY <1>1, <2>1, <2>3, <2>4, <2>7, ConnGoesOn
<1>4. CASE Sse!Backlog(s) # {}
  <2>1. PICK id \in Sse!Backlog(s) :
          /\ \A other \in Sse!Backlog(s) : id <= other
          /\ conn' = [conn EXCEPT ![s].at = id]
          /\ sent' = [sent EXCEPT ![s] = @ \cup {id}]
    BY <1>4 DEF Sse!Replay
  <2>2. id \in Nat /\ id > c.at
    <3>1. frames[c.channel] \in Seq(Nat)
      BY <1>1 DEF SseInv, Shapes
    <3> QED
      BY <3>1 DEF Sse!Backlog
  <2> DEFINE f == [c EXCEPT !.at = id]
  <2>3. conn' = [conn EXCEPT ![s] = f]
    BY <1>1, <2>1
  <2>4. /\ f \in Conns /\ f.pc = "replay" /\ f.channel = c.channel /\ f.at = id
        /\ f.from = c.from
        /\ f.last = c.last /\ f.gap = c.gap /\ f.slipped = c.slipped /\ f.cutoff = c.cutoff
    BY <1>1, <2>2 DEF Conns, Pcs
  <2> HIDE DEF f
  <2>5. /\ conn' \in [Streams -> Conns] /\ conn'[s] = f
        /\ \A x \in Streams \ {s} : conn'[x] = conn[x]
    BY <2>3, <2>4, ConnChange DEF SseInv
  <2>6. /\ sent' \in [Streams -> SUBSET Nat] /\ sent'[s] = sent[s] \cup {id}
        /\ \A x \in Streams : sent[x] \subseteq sent'[x]
    BY <1>1, <2>1, <2>2
  <2>7. ASSUME Whole(f), NEW x \in (f.last + 1) .. f.at
        PROVE  x \in sent'[s]
    <3>1. Whole(c) /\ x \in Nat /\ c.last < x /\ x <= id
      BY <1>1, <2>2, <2>4, <2>7 DEF Whole
    <3>2. CASE x <= c.at
      <4>1. x \in (c.last + 1) .. c.at
        BY <1>1, <3>1, <3>2
      <4> QED
        BY <1>2, <2>6, <3>1, <4>1
    <3>3. CASE x > c.at
      <4>1. id <= c.from
        BY DEF Sse!Backlog
      <4>2. x \in Sse!Backlog(s)
        BY <1>1, <2>2, <3>1, <3>3, <4>1, BacklogHas
      <4>3. x = id
        BY <2>1, <2>2, <3>1, <4>2
      <4> QED
        BY <2>6, <4>3
    <3> QED
      BY <1>1, <3>1, <3>2, <3>3
  <2>8. /\ f.last <= f.at /\ f.from <= nextIds[f.channel]
        /\ Whole(f) => (f.from = nextIds[f.channel] =>
                          nextIds[f.channel] - Len(frames[f.channel]) <= f.last)
    BY <1>1, <1>2, <2>2, <2>4 DEF Whole
  <2>9. ReplayOK(f, frames[f.channel], nextIds[f.channel], sent'[s])
    BY <1>2, <2>4, <2>7, <2>8 DEF ReplayOK
  <2>10. ReplayOK(conn'[s], frames[conn'[s].channel], nextIds[conn'[s].channel], sent'[s])
    BY <2>5, <2>9
  <2> QED
    BY <1>1, <2>4, <2>5, <2>6, <2>10, ConnGoesOn
<1> QED
  BY <1>3, <1>4

(* A stream that took an event from its queue.                             *)
LEMMA TookEvent ==
  ASSUME Sse!BoundsOK, SseInv, NEW s \in Sse!Subscribed, inbox[s] # <<>>,
         inbox' = [inbox EXCEPT ![s] = Tail(inbox[s])],
         relayed' \in [Streams -> Seq(Nat)],
         \A x \in Streams \ {s} : relayed'[x] = relayed[x],
         IF Head(inbox[s]).channel = conn[s].channel
           THEN relayed'[s] = Append(relayed[s], Head(inbox[s]).event)
           ELSE relayed'[s] = relayed[s],
         UNCHANGED <<conn, published, owed, overflowed>>
  PROVE  inbox' \in [Streams -> Seq(Messages)] /\ EventInv'
<1>1. /\ s \in Streams /\ conn[s].channel \in Sse!AllChannels /\ inbox[s] \in Seq(Messages)
      /\ owed[s] \in SUBSET Nat /\ relayed[s] \in Seq(Nat) /\ published \in Nat
      /\ inbox \in [Streams -> Seq(Messages)]
  BY DEF SseInv, Shapes, Sse!Subscribed, Sse!AllChannels
<1>2. PICK rest : rest = Tail(inbox[s])
  OBVIOUS
<1>3. rest \in Seq(Messages) /\ Len(rest) = Len(inbox[s]) - 1 /\ Len(inbox[s]) \in Nat
  BY Zenon, <1>1, <1>2, TailFacts DEF Messages
<1>4. /\ inbox' \in [Streams -> Seq(Messages)] /\ inbox'[s] = rest
      /\ \A x \in Streams \ {s} : inbox'[x] = inbox[x]
  BY <1>1, <1>2, <1>3
<1>5. Sse!Subscribed' = Sse!Subscribed
  BY DEF Sse!Subscribed
<1>6. \A x \in Streams : Len(inbox'[x]) <= QueueMax
  <2> TAKE x \in Streams
  <2>1. Len(inbox[x]) <= QueueMax /\ QueueMax \in Nat
    BY DEF SseInv, EventInv, Sse!BoundsOK
  <2> QED
    BY <1>3, <1>4, <2>1
<1>7. \A x \in Streams \ Sse!Subscribed : inbox'[x] = <<>> /\ owed'[x] = {} /\ relayed'[x] = <<>>
  BY <1>4 DEF SseInv, EventInv
<1>8. ASSUME NEW x \in Sse!Subscribed, ~overflowed[x]
      PROVE  Told(owed[x], relayed'[x], inbox'[x], conn[x].channel, published)
  <2>1. Told(owed[x], relayed[x], inbox[x], conn[x].channel, published) /\ x \in Streams
    BY <1>8 DEF SseInv, EventInv, Sse!Subscribed
  <2>2. CASE x # s
    BY <1>4, <2>1, <2>2
  <2>3. CASE x = s
    <3>1. Told(owed[s], relayed[s], inbox[s], conn[s].channel, published)
      BY <2>1, <2>3
    <3>2. /\ Head(inbox[s]).channel = conn[s].channel =>
               Told(owed[s], Append(relayed[s], Head(inbox[s]).event), rest,
                    conn[s].channel, published)
          /\ Head(inbox[s]).channel # conn[s].channel =>
               Told(owed[s], relayed[s], rest, conn[s].channel, published)
      BY Zenon, <1>1, <1>2, <3>1, ToldTake
    <3> QED
      BY <1>4, <2>3, <3>2
  <2> QED
    BY <2>2, <2>3
<1>9. EventInv'
  BY <1>5, <1>6, <1>7, <1>8 DEF EventInv
<1> QED
  BY <1>4, <1>9

LEMMA RelayKeeps ==
  ASSUME Sse!BoundsOK, SseInv, NEW s \in Streams, Sse!Relay(s)
  PROVE  SseInv'
<1>1. /\ s \in Sse!Subscribed /\ inbox[s] # <<>> /\ inbox' = [inbox EXCEPT ![s] = Tail(inbox[s])]
      /\ UNCHANGED <<active, expired, conn, published, owed, overflowed, sseBudget>>
      /\ conn[s].channel \in Sse!AllChannels /\ inbox[s] \in Seq(Messages)
      /\ relayed \in [Streams -> Seq(Nat)]
  BY DEF Sse!Relay, SseInv, Shapes, Conns
<1>2. SlotInv' /\ FreshInv'
  BY <1>1 DEF SseInv, SlotInv, Holding, FreshInv
<1>3. CASE Head(inbox[s]).channel = conn[s].channel
  <2>1. /\ Sse!Emit(s, conn[s].channel)
        /\ relayed' = [relayed EXCEPT ![s] = Append(relayed[s], Head(inbox[s]).event)]
    BY <1>3 DEF Sse!Relay
  <2>2. Head(inbox[s]).event \in Nat
    <3>1. Head(inbox[s]) \in Messages
      BY <1>1, TailFacts
    <3> QED
      BY <3>1 DEF Messages
  <2>3. /\ relayed' \in [Streams -> Seq(Nat)]
        /\ relayed'[s] = Append(relayed[s], Head(inbox[s]).event)
        /\ \A x \in Streams \ {s} : relayed'[x] = relayed[x]
    <3>1. Append(relayed[s], Head(inbox[s]).event) \in Seq(Nat)
      BY <1>1, <2>2
    <3> QED
      BY <1>1, <2>1, <3>1
  <2>4. /\ Advances /\ BufferInv'
        /\ frames' \in [Sse!AllChannels -> Seq(Nat)] /\ nextIds' \in [Sse!AllChannels -> Nat]
        /\ sent' \in [Streams -> SUBSET Nat]
        /\ \A x \in Streams : sent[x] \subseteq sent'[x]
    BY <1>1, <2>1, EmitKeeps
  <2>5. inbox' \in [Streams -> Seq(Messages)] /\ EventInv'
    BY <1>1, <1>3, <2>3, TookEvent
  <2>6. Shapes'
    BY <1>1, <2>3, <2>4, <2>5 DEF SseInv, Shapes
  <2>7. ReplayInv'
    <3>1. \A x \in Streams :
            ReplayOK(conn[x], frames[conn[x].channel], nextIds[conn[x].channel], sent[x])'
      BY <1>1, <2>4, OtherReplays DEF SseInv
    <3> QED
      BY <3>1 DEF ReplayInv
  <2> QED
    BY <1>2, <2>4, <2>5, <2>6, <2>7 DEF SseInv
<1>4. CASE Head(inbox[s]).channel # conn[s].channel
  <2>1. UNCHANGED <<frames, nextIds, sent, relayed>>
    BY <1>4 DEF Sse!Relay
  <2>2. inbox' \in [Streams -> Seq(Messages)] /\ EventInv'
    BY <1>1, <1>4, <2>1, TookEvent
  <2>3. Shapes'
    BY <1>1, <2>1, <2>2 DEF SseInv, Shapes
  <2>4. BufferInv' /\ ReplayInv'
    BY <1>1, <2>1 DEF SseInv, BufferInv, ReplayInv
  <2> QED
    BY <1>2, <2>2, <2>3, <2>4 DEF SseInv
<1> QED
  BY <1>3, <1>4

LEMMA LeaveKeeps ==
  ASSUME Sse!BoundsOK, SseInv, NEW s \in Streams, Sse!Leave(s)
  PROVE  SseInv'
<1> DEFINE f == [Sse!NoConn EXCEPT !.pc = "over"]
<1>1. /\ conn[s].pc \in {"opened", "resumed", "replay", "live"}
      /\ conn' = [conn EXCEPT ![s] = f]
      /\ inbox' = [inbox EXCEPT ![s] = <<>>] /\ sent' = [sent EXCEPT ![s] = {}]
      /\ owed' = [owed EXCEPT ![s] = {}] /\ relayed' = [relayed EXCEPT ![s] = <<>>]
      /\ active' = IF active > 0 THEN active - 1 ELSE 0
      /\ UNCHANGED <<frames, nextIds, expired, published, overflowed, sseBudget>>
  BY DEF Sse!Leave
<1>2. f \in Conns /\ f.pc = "over"
  BY DEF Sse!NoConn, Conns, Pcs, Sse!AllChannels
<1> HIDE DEF f
<1>3. /\ conn' \in [Streams -> Conns] /\ conn'[s] = f
      /\ \A x \in Streams \ {s} : conn'[x] = conn[x]
  BY <1>1, <1>2, ConnChange DEF SseInv
<1>4. /\ inbox' \in [Streams -> Seq(Messages)] /\ sent' \in [Streams -> SUBSET Nat]
      /\ owed' \in [Streams -> SUBSET Nat] /\ relayed' \in [Streams -> Seq(Nat)]
      /\ inbox'[s] = <<>> /\ owed'[s] = {} /\ relayed'[s] = <<>>
      /\ \A x \in Streams \ {s} : /\ inbox'[x] = inbox[x] /\ owed'[x] = owed[x]
                                  /\ relayed'[x] = relayed[x] /\ sent'[x] = sent[x]
  BY <1>1 DEF SseInv, Shapes
<1>5. Shapes'
  BY <1>1, <1>3, <1>4 DEF SseInv, Shapes
<1>6. SlotInv'
  <2>1. s \in Holding
    BY <1>1 DEF Holding
  <2> QED
    BY <1>1, <1>2, <1>3, <2>1, SlotFreed DEF SseInv
<1>7. Advances /\ nextIds' \in [Sse!AllChannels -> Nat]
  BY <1>1 DEF Advances, SseInv, Shapes
<1>8. ReplayInv'
  <2>1. \A x \in Streams \ {s} :
          ReplayOK(conn[x], frames[conn[x].channel], nextIds[conn[x].channel], sent[x])'
    BY <1>3, <1>4, <1>7, OtherReplays DEF SseInv
  <2>2. ReplayOK(conn[s], frames[conn[s].channel], nextIds[conn[s].channel], sent[s])'
    BY <1>2, <1>3 DEF ReplayOK
  <2> QED
    BY <2>1, <2>2 DEF ReplayInv
<1>9. EventInv'
  <2>1. Sse!Subscribed' = Sse!Subscribed \ {s}
    BY <1>2, <1>3 DEF Sse!Subscribed
  <2>2. \A x \in Streams : Len(inbox'[x]) <= QueueMax
    <3>1. Len(<<>>) <= QueueMax
      BY DEF Sse!BoundsOK
    <3> QED
      BY <1>4, <3>1 DEF SseInv, EventInv
  <2>3. \A x \in Streams \ Sse!Subscribed' : inbox'[x] = <<>> /\ owed'[x] = {} /\ relayed'[x] = <<>>
    BY <1>4, <2>1 DEF SseInv, EventInv
  <2>4. \A x \in Sse!Subscribed' : ~overflowed'[x] =>
          Told(owed'[x], relayed'[x], inbox'[x], conn'[x].channel, published')
    <3> TAKE x \in Sse!Subscribed'
    <3>1. x \in Sse!Subscribed /\ x \in Streams \ {s}
      BY <2>1 DEF Sse!Subscribed
    <3> QED
      BY <1>1, <1>3, <1>4, <3>1 DEF SseInv, EventInv
  <2> QED
    BY <2>2, <2>3, <2>4 DEF EventInv
<1>10. FreshInv' /\ BufferInv'
  BY <1>1, <1>2, <1>3 DEF SseInv, FreshInv, BufferInv
<1> QED
  BY <1>5, <1>6, <1>8, <1>9, <1>10 DEF SseInv

LEMMA SseKeeps ==
  ASSUME Sse!BoundsOK, SseInv, [Sse!Next]_(Sse!vars)
  PROVE  SseInv'
<1>1. CASE UNCHANGED Sse!vars
  BY <1>1 DEF Sse!vars, SseInv, Shapes, SlotInv, Holding, BufferInv, ReplayInv, EventInv,
     FreshInv, Sse!Subscribed
<1> QED
  BY <1>1, PublishKeeps, AgeKeeps, RefuseKeeps, OpenKeeps, OpenMarketKeeps, TickKeeps,
     ResumeKeeps, BeginReplayKeeps, ReplayStepKeeps, RelayKeeps, LeaveKeeps DEF Sse!Next

LEMMA SseImplies ==
  ASSUME SseInv
  PROVE  Sse!TypeOK /\ Sse!StreamIsComplete
<1>1. Sse!TypeOK
  <2>1. active = Sse!Cardinality(Holding)
    BY SameSizes DEF SseInv, SlotInv
  <2> QED
    BY <2>1 DEF SseInv, Sse!TypeOK, SlotInv, Holding, BufferInv, Suffix, EventInv
<1>2. ASSUME NEW s \in Sse!Subscribed, Whole(conn[s])
      PROVE  (conn[s].last + 1) .. conn[s].joined \subseteq sent[s]
  BY <1>2 DEF SseInv, ReplayInv, ReplayOK, Sse!Subscribed
<1>3. ASSUME NEW s \in Sse!Subscribed, ~overflowed[s]
      PROVE  /\ owed[s] = {relayed[s][i] : i \in DOMAIN relayed[s]}
                            \cup {inbox[s][i].event : i \in Sse!Waiting(s)}
             /\ Sse!InOrder(s)
  BY <1>3 DEF SseInv, EventInv, Told, Own, Sse!Waiting, Sse!InOrder
<1> QED
  BY <1>1, <1>2, <1>3 DEF Sse!StreamIsComplete, Whole

-----------------------------------------------------------------------------
(* The theorems                                                            *)

(* The invariants of the components hold throughout.                       *)
LEMMA AgentsAlways ==
  Agents!Init /\ [][Agents!Next]_(Agents!vars) => []AgentInv
<1>1. Agents!Init => AgentInv
  BY Bounds, AgentsBegin
<1>2. AgentInv /\ [Agents!Next]_(Agents!vars) => AgentInv'
  BY Bounds, AgentStepKeeps
<1> QED
  BY <1>1, <1>2, PTL

LEMMA ResponsesAlways == Responses!Spec => []ResponseInv
<1>1. Responses!Init => ResponseInv
  BY Bounds, ResponsesBegin
<1>2. ResponseInv /\ [Responses!Next]_(Responses!vars) => ResponseInv'
  BY Bounds, ResponsesKeep
<1> QED
  BY <1>1, <1>2, PTL DEF Responses!Spec

LEMMA TalksAlways == Talks!Spec => []TalkInv
<1>1. Talks!Init => TalkInv
  BY Bounds, TalksBegin
<1>2. TalkInv /\ [Talks!Next]_(Talks!vars) => TalkInv'
  BY TalkStep
<1> QED
  BY <1>1, <1>2, PTL DEF Talks!Spec

(* The requests that wait for their body or for their turn stay within     *)
(* max_concurrent_runs, however admissions, refusals and disconnects       *)
(* interleave.                                                             *)
THEOREM WorkStaysWithinCap ==
  Agents!Init /\ [][Agents!Next]_(Agents!vars) => []UnderWayWithinCap
<1>1. AgentInv => UnderWayWithinCap
  BY Bounds, AgentsImply DEF UnderWayWithinCap
<1> QED
  BY <1>1, AgentsAlways, PTL

(* A command of a run goes on only by an approval posted for that run or   *)
(* by a timeout, whichever runs share a conversation.                      *)
THEOREM ApprovalsAreOwn ==
  Agents!Init /\ [][Agents!Next]_(Agents!vars) => []GrantsAreAnswered
<1>1. AgentInv => GrantsAreAnswered
  BY DEF AgentInv, GrantsAreAnswered
<1> QED
  BY <1>1, AgentsAlways, PTL

(* Whatever is evicted, deleted or written back meanwhile, a conversation  *)
(* points at a stored response or at none.                                 *)
THEOREM ConversationsResolve == Responses!Spec => []ConversationResolves
<1>1. ResponseInv => ConversationResolves
  BY Bounds, ResponsesImply DEF ConversationResolves
<1> QED
  BY <1>1, ResponsesAlways, PTL

(* The row of a stream that has ended says how it ended, even if the       *)
(* client is lost right after the terminal snapshot.                       *)
THEOREM OutcomesAreStored == Responses!Spec => []OutcomeStored
<1>1. ResponseInv => OutcomeStored
  BY Bounds, ResponsesImply DEF OutcomeStored
<1> QED
  BY <1>1, ResponsesAlways, PTL

(* A completed response has the text its turn said, once and in order,     *)
(* although writer and timer both append to it, unless a timer was still   *)
(* writing the first batch when the writer took the result.                *)
THEOREM TextsAreWhole == Responses!Spec => []TextIsWhole
<1>1. ResponseInv => TextIsWhole
  BY Bounds, ResponsesImply DEF TextIsWhole
<1> QED
  BY <1>1, ResponsesAlways, PTL

(* A turn that arrives after a model lock was acknowledged and names no    *)
(* model ran on the model of that lock or of a younger one.                *)
THEOREM LocksAreContracts == Talks!Spec => []LockedTurnsHold
<1>1. TalkInv => LockedTurnsHold
  BY TalksImply DEF LockedTurnsHold
<1> QED
  BY <1>1, TalksAlways, PTL

(* A fork never writes over the transcript of a session it could have      *)
(* seen, and nothing else removes a turn from one.                         *)
THEOREM ForksSpareTurns == Talks!Spec => TurnsKept
<1>1. TalkInv /\ [Talks!Next]_(Talks!vars) => [Talks!KeepsTurns]_(Talks!vars)
  BY ForksSpare
<1> QED
  BY <1>1, TalksAlways, PTL DEF TurnsKept, Talks!TurnsKept, Talks!Spec

(* However late the reaper of an abandoned turn runs, it spares what the   *)
(* newest turn of the conversation started, as long as that turn runs.     *)
THEOREM ReapersSpare == Processes!Spec => []ReapSparesNewest
<1>1. Processes!Init => TurnInv
  BY Bounds, TurnInit
<1>2. TurnInv /\ [Processes!Next]_(Processes!vars) => TurnInv'
  BY Bounds, TurnKeeps
<1>3. TurnInv => ReapSparesNewest
  BY DEF TurnInv, ReapSparesNewest
<1> QED
  BY <1>1, <1>2, <1>3, PTL DEF Processes!Spec

(* A replayed answer is the whole answer of one accepted request with the  *)
(* same body, whatever expires or fails, unless two were captured at once. *)
THEOREM ReplaysAreOriginal == Idem!Spec => []OriginalReplayed
<1>1. Idem!Init => IdemInv
  BY Bounds, IdemInit
<1>2. IdemInv /\ [Idem!Next]_(Idem!vars) => IdemInv'
  <2>1. ASSUME IdemInv, [Idem!Next]_(Idem!vars)
        PROVE  Idem!TypeOK'
    BY <2>1, Bounds, IdemTypes DEF IdemInv
  <2>2. ASSUME IdemInv, [Idem!Next]_(Idem!vars), ~overlap'
        PROVE  CaptureInv'
    BY <2>2, Bounds, CaptureStep
  <2> QED
    BY <2>1, <2>2 DEF IdemInv
<1>3. IdemInv => OriginalReplayed
  BY DEF IdemInv, CaptureInv, Accepted, OriginalReplayed, Idem!OriginalReplayed
<1> QED
  BY <1>1, <1>2, <1>3, PTL DEF Idem!Spec

(* A key and body are computed again only after the attempt before raised  *)
(* or its result left the store, and an answer is of its own key and body. *)
THEOREM ResultsAreShared == Shared!Spec => []ComputedOnce
<1>1. Shared!Init => SharedInv
  BY Bounds, SharedInit
<1>2. SharedInv /\ [Shared!Next]_(Shared!vars) => SharedInv'
  BY Bounds, SharedKeeps
<1>3. SharedInv => ComputedOnce
  BY SharedImplies DEF ComputedOnce
<1> QED
  BY <1>1, <1>2, <1>3, PTL DEF Shared!Spec

(* A live stream was sent every frame between the id it named and its      *)
(* subscription, and has relayed or holds every event published since, in  *)
(* order, unless it was told of a gap, frames expired or slipped out, or   *)
(* its queue was full.                                                     *)
THEOREM StreamsAreComplete == Sse!Spec => []StreamIsComplete
<1>1. Sse!Init => SseInv
  BY Bounds, SseBegins
<1>2. SseInv /\ [Sse!Next]_(Sse!vars) => SseInv'
  BY Bounds, SseKeeps
<1>3. SseInv => StreamIsComplete
  BY SseImplies DEF StreamIsComplete
<1> QED
  BY <1>1, <1>2, <1>3, PTL DEF Sse!Spec

(* A behaviour of the run is one of each component (of the agent runs      *)
(* without the fairness, which the run gives to the runs only).            *)
THEOREM RunsAreBehaviours ==
  MCSpec => /\ Agents!Init /\ [][Agents!Next]_(Agents!vars)
            /\ Responses!Spec /\ Talks!Spec /\ Processes!Spec
            /\ Idem!Spec /\ Shared!Spec /\ Sse!Spec
<1>1. MCInit => /\ Agents!Init /\ Responses!Init /\ Talks!Init /\ Processes!Init
                /\ Idem!Init /\ Shared!Init /\ Sse!Init
  BY DEF MCInit
<1> DEFINE Moves == \/ AgentStep \/ ResponseStep \/ SseStep \/ IdemStep
                    \/ SessionStep \/ ProcessStep \/ SharedStep
<1>2. [Moves]_allVars => /\ [Agents!Next]_(Agents!vars) /\ [Responses!Next]_(Responses!vars)
                         /\ [Talks!Next]_(Talks!vars) /\ [Processes!Next]_(Processes!vars)
  BY DEF AgentStep, ResponseStep, SseStep, IdemStep, SessionStep, ProcessStep, SharedStep,
     allVars, earlyVars, lateVars, agentVars, responseVars, sessionVars, processVars,
     Agents!vars, Agents!counts, Agents!control, Agents!stream, Agents!history, Responses!vars,
     Responses!reply, Talks!vars, Processes!vars
<1>3. [Moves]_allVars => /\ [Idem!Next]_(Idem!vars) /\ [Shared!Next]_(Shared!vars)
                         /\ [Sse!Next]_(Sse!vars)
  BY DEF AgentStep, ResponseStep, SseStep, IdemStep, SessionStep, ProcessStep, SharedStep,
     allVars, earlyVars, lateVars, sseVars, idemVars, sharedVars, Idem!vars, Shared!vars, Sse!vars
<1> QED
  BY <1>1, <1>2, <1>3, PTL
     DEF MCSpec, Responses!Spec, Talks!Spec, Processes!Spec, Idem!Spec, Shared!Spec, Sse!Spec

(* The components keep their types.                                        *)
THEOREM TypesHold == MCSpec => []TypesOK
<1>1. Processes!Spec => []Processes!TypeOK
  <2>1. Processes!Init => TurnInv
    BY Bounds, TurnInit
  <2>2. TurnInv /\ [Processes!Next]_(Processes!vars) => TurnInv'
    BY Bounds, TurnKeeps
  <2>3. TurnInv => Processes!TypeOK
    BY DEF TurnInv
  <2> QED
    BY <2>1, <2>2, <2>3, PTL DEF Processes!Spec
<1>2. Idem!Spec => []Idem!TypeOK
  <2>1. Idem!Init => Idem!TypeOK
    BY Bounds, IdemInit DEF IdemInv
  <2>2. Idem!TypeOK /\ [Idem!Next]_(Idem!vars) => Idem!TypeOK'
    BY Bounds, IdemTypes
  <2> QED
    BY <2>1, <2>2, PTL DEF Idem!Spec
<1>3. Shared!Spec => []Shared!TypeOK
  <2>1. Shared!Init => SharedInv
    BY Bounds, SharedInit
  <2>2. SharedInv /\ [Shared!Next]_(Shared!vars) => SharedInv'
    BY Bounds, SharedKeeps
  <2>3. SharedInv => Shared!TypeOK
    BY DEF SharedInv
  <2> QED
    BY <2>1, <2>2, <2>3, PTL DEF Shared!Spec
<1>4. Sse!Spec => []Sse!TypeOK
  <2>1. Sse!Init => SseInv
    BY Bounds, SseBegins
  <2>2. SseInv /\ [Sse!Next]_(Sse!vars) => SseInv'
    BY Bounds, SseKeeps
  <2>3. SseInv => Sse!TypeOK
    BY SseImplies
  <2> QED
    BY <2>1, <2>2, <2>3, PTL DEF Sse!Spec
<1>5. AgentInv => Agents!TypeOK
  BY DEF AgentInv
<1>6. ResponseInv => Responses!TypeOK
  BY Bounds, ResponseTypes
<1>7. TalkInv => Talks!TypeOK
  BY DEF TalkInv
<1> QED
  BY <1>1, <1>2, <1>3, <1>4, <1>5, <1>6, <1>7, RunsAreBehaviours, AgentsAlways, ResponsesAlways,
     TalksAlways, PTL DEF TypesOK

(* Every safety property of the run holds of all behaviours of MCSpec.     *)
THEOREM EdgeIsSafe ==
  MCSpec => /\ [](UnderWayWithinCap /\ GrantsAreAnswered)
            /\ [](ConversationResolves /\ OutcomeStored /\ TextIsWhole)
            /\ [](LockedTurnsHold /\ ReapSparesNewest /\ ComputedOnce)
            /\ [](OriginalReplayed /\ StreamIsComplete)
            /\ TurnsKept
BY RunsAreBehaviours, WorkStaysWithinCap, ApprovalsAreOwn, ConversationsResolve,
   OutcomesAreStored, TextsAreWhole, LocksAreContracts, ForksSpareTurns, ReapersSpare,
   ReplaysAreOriginal, ResultsAreShared, StreamsAreComplete, PTL
=============================================================================
