--------------------------- MODULE MCCycle_proofs ---------------------------
(***************************************************************************)
(* Safety of the LLM gateway and of the anchors, stated of the instances   *)
(* the run of MCCycle checks and proved for every value of their constants.*)
(*                                                                         *)
(* The gateway: a call that is under way holds a permit or has lost it to  *)
(* one that never took any, so the count never exceeds the calls in flight;*)
(* that the limit is respected is another matter, and not proved.  The     *)
(* anchors: the transaction that holds the lock continues the numbers and  *)
(* names the last committed row, because nobody else commits before it     *)
(* ends.                                                                   *)
(***************************************************************************)
EXTENDS MCCycle, DecisionCycle_proofs, FiniteSetTheorems

-----------------------------------------------------------------------------
(* The gateway                                                             *)

(* The instance counts with the Cardinality of FiniteSets.                 *)
LEMMA CountsAlike ==
  ASSUME NEW S
  PROVE  Gateway!Cardinality(S) = Cardinality(S)
BY Zenon DEF Gateway!Cardinality, Cardinality

(* A call that has not been sent still tries the model it asked for, and   *)
(* one that was sent asked for a model there is.                           *)
Asked == \A c \in Calls : /\ call[c] = "idle" => model[c] = original[c]
                          /\ call[c] = "posted" => original[c] \in Models

GatewayInv == Gateway!TypeOK /\ Asked /\ IsFiniteSet(Gateway!InFlight) /\ Gateway!PermitsAreReturned

LEMMA FallbackType ==
  ASSUME Gateway!BoundsOK, NEW m \in Models
  PROVE  Gateway!Fallback(m) \subseteq Models
<1>1. Alternates[m] \in Seq(Models) /\ Degraded[m] \in Seq(Models)
  BY DEF Gateway!BoundsOK
<1>2. Alternates[m] \o Degraded[m] \in Seq(Models)
  BY <1>1
<1> DEFINE chain == Alternates[m] \o Degraded[m]
<1>3. ASSUME NEW s \in Seq(Models)
      PROVE  \A i \in DOMAIN s : s[i] \in Models
  BY <1>3
<1>4. \A n \in Gateway!Fallback(m) : \E i \in DOMAIN chain : n = chain[i]
  BY DEF Gateway!Fallback
<1> QED
  BY <1>2, <1>3, <1>4

LEMMA TrackedType ==
  ASSUME NEW b \in Gateway!Breakers
  PROVE  Gateway!Opened(b) \in Gateway!Breakers /\ Gateway!Tracked(b) \in Gateway!Breakers
<1>1. b.state \in Gateway!States /\ b.failures \in Nat
  BY DEF Gateway!Breakers
<1>2. b.failures + 1 \in Nat
  BY <1>1
<1>3. [b EXCEPT !.failures = @ + 1] \in Gateway!Breakers
  BY <1>2 DEF Gateway!Breakers
<1>4. \A n \in Nat : [state |-> "open", failures |-> n + 1] \in Gateway!Breakers
  BY DEF Gateway!Breakers, Gateway!States
<1>5. \A x \in Gateway!Breakers : Gateway!Opened(x) \in Gateway!Breakers
  BY <1>4 DEF Gateway!Opened, Gateway!Breakers
<1> QED
  BY <1>3, <1>5 DEF Gateway!Tracked

(* A call leaves and gives back its permit.                                *)
LEMMA PermitReturned ==
  ASSUME Gateway!BoundsOK, GatewayInv, NEW c \in Calls, call[c] = "posted", Gateway!Returns(c)
  PROVE  /\ call' \in [Calls -> {"idle", "posted", "returned"}]
         /\ current' \in 0 .. MaxConcurrent
         /\ \A d \in Calls : call'[d] # "returned" => call'[d] = call[d]
         /\ IsFiniteSet(Gateway!InFlight') /\ Gateway!PermitsAreReturned'
<1>1. call \in [Calls -> {"idle", "posted", "returned"}] /\ current \in 0 .. MaxConcurrent
  BY DEF GatewayInv, Gateway!TypeOK
<1>2. call' = [call EXCEPT ![c] = "returned"] /\ current' = Gateway!Lower(current)
  BY DEF Gateway!Returns
<1>3. Gateway!InFlight' = Gateway!InFlight \ {c} /\ c \in Gateway!InFlight
  BY <1>1, <1>2 DEF Gateway!InFlight
<1>4. IsFiniteSet(Gateway!InFlight')
  BY <1>3, FS_RemoveElement DEF GatewayInv
<1>5. /\ Cardinality(Gateway!InFlight') = Cardinality(Gateway!InFlight) - 1
      /\ Cardinality(Gateway!InFlight) \in Nat
  BY <1>3, FS_RemoveElement, FS_CardinalityType DEF GatewayInv
<1>6. current <= Cardinality(Gateway!InFlight) /\ Cardinality(Gateway!InFlight) > 0
  <2>1. Cardinality(Gateway!InFlight) # 0
    BY <1>3, FS_EmptySet DEF GatewayInv
  <2> QED
    BY <1>5, <2>1, CountsAlike DEF GatewayInv, Gateway!PermitsAreReturned
<1>7. current' <= Cardinality(Gateway!InFlight') /\ current' \in 0 .. MaxConcurrent
  BY <1>1, <1>2, <1>5, <1>6 DEF Gateway!Lower, Gateway!BoundsOK
<1> QED
  BY <1>1, <1>2, <1>4, <1>7, CountsAlike DEF Gateway!PermitsAreReturned

(* A call that never left gives back at most what it took.                 *)
LEMMA PermitNeverTaken ==
  ASSUME Gateway!BoundsOK, GatewayInv, NEW c \in Calls, call[c] = "idle",
         call' = [call EXCEPT ![c] = "returned"],
         current' = Gateway!Lower(current) \/ current' = Gateway!Lower(Gateway!Lower(current + 1))
  PROVE  /\ call' \in [Calls -> {"idle", "posted", "returned"}]
         /\ current' \in 0 .. MaxConcurrent
         /\ \A d \in Calls : call'[d] # "returned" => call'[d] = call[d]
         /\ IsFiniteSet(Gateway!InFlight') /\ Gateway!PermitsAreReturned'
<1>1. call \in [Calls -> {"idle", "posted", "returned"}] /\ current \in 0 .. MaxConcurrent
  BY DEF GatewayInv, Gateway!TypeOK
<1>2. Gateway!InFlight' = Gateway!InFlight
  BY <1>1 DEF Gateway!InFlight
<1>3. current' \in 0 .. MaxConcurrent /\ current' <= current
  BY <1>1 DEF Gateway!Lower, Gateway!BoundsOK
<1>4. current <= Cardinality(Gateway!InFlight) /\ Cardinality(Gateway!InFlight) \in Nat
  BY FS_CardinalityType, CountsAlike DEF GatewayInv, Gateway!PermitsAreReturned
<1>5. current' <= Cardinality(Gateway!InFlight')
  BY <1>1, <1>2, <1>3, <1>4
<1>6. IsFiniteSet(Gateway!InFlight')
  BY <1>2 DEF GatewayInv
<1> QED
  BY <1>1, <1>3, <1>5, <1>6, CountsAlike DEF Gateway!PermitsAreReturned

LEMMA HalfOpened ==
  ASSUME Gateway!BoundsOK, Gateway!TypeOK, NEW p \in Providers, circuit[p].state = "ripe"
  PROVE  [circuit EXCEPT ![p].state = "half-open"] \in [Providers -> Gateway!Breakers]
<1>1. circuit \in [Providers -> Gateway!Breakers] /\ circuit[p] \in Gateway!Breakers
  BY DEF Gateway!TypeOK
<1>2. [circuit[p] EXCEPT !.state = "half-open"] \in Gateway!Breakers
  BY <1>1 DEF Gateway!Breakers, Gateway!States
<1> HIDE DEF Gateway!Breakers
<1> QED
  BY <1>1, <1>2

LEMMA GatewayKeeps ==
  ASSUME Gateway!BoundsOK, GatewayInv, [Gateway!Next]_(Gateway!vars)
  PROVE  GatewayInv'
<1>1. Gateway!TypeOK /\ Asked /\ IsFiniteSet(Gateway!InFlight) /\ Gateway!PermitsAreReturned
  BY DEF GatewayInv
<1>2. /\ call \in [Calls -> {"idle", "posted", "returned"}]
      /\ original \in [Calls -> Models \union {Gateway!Absent}]
      /\ circuit \in [Providers -> Gateway!Breakers] /\ current \in 0 .. MaxConcurrent
      /\ recent \in 0 .. RateLimit /\ RateLimit \in Nat /\ MaxConcurrent \in Nat
      /\ Provider \in [Models -> Providers]
  BY <1>1 DEF Gateway!TypeOK, Gateway!BoundsOK
<1>3. CASE UNCHANGED Gateway!vars
  BY <1>1, <1>3, CountsAlike DEF Gateway!vars, GatewayInv, Gateway!TypeOK, Asked,
     Gateway!InFlight, Gateway!PermitsAreReturned
<1>4. ASSUME NEW c \in Calls, Gateway!Rejected(c)
      PROVE  GatewayInv'
  <2>1. /\ call' \in [Calls -> {"idle", "posted", "returned"}] /\ current' \in 0 .. MaxConcurrent
        /\ \A d \in Calls : call'[d] # "returned" => call'[d] = call[d]
        /\ IsFiniteSet(Gateway!InFlight') /\ Gateway!PermitsAreReturned'
    BY <1>4, PermitNeverTaken DEF Gateway!Rejected
  <2> QED
    BY <1>1, <1>4, <2>1 DEF Gateway!Rejected, GatewayInv, Gateway!TypeOK, Asked
<1>5. ASSUME NEW c \in Calls, Gateway!TurnedAway(c)
      PROVE  GatewayInv'
  <2>1. /\ call' \in [Calls -> {"idle", "posted", "returned"}] /\ current' \in 0 .. MaxConcurrent
        /\ \A d \in Calls : call'[d] # "returned" => call'[d] = call[d]
        /\ IsFiniteSet(Gateway!InFlight') /\ Gateway!PermitsAreReturned'
    BY <1>5, PermitNeverTaken DEF Gateway!TurnedAway
  <2>2. recent' \in 0 .. RateLimit
    BY <1>2, <1>5 DEF Gateway!TurnedAway, Gateway!Admits
  <2>3. circuit' \in [Providers -> Gateway!Breakers]
    <3>1. CASE Gateway!Known(c) /\ circuit[Provider[original[c]]].state = "ripe"
      <4>1. Provider[original[c]] \in Providers
        BY <1>2, <3>1 DEF Gateway!Known
      <4> QED
        BY <1>1, <1>5, <3>1, <4>1, HalfOpened DEF Gateway!TurnedAway
    <3>2. CASE ~(Gateway!Known(c) /\ circuit[Provider[original[c]]].state = "ripe")
      BY <1>2, <1>5, <3>2 DEF Gateway!TurnedAway
    <3> QED
      BY <3>1, <3>2
  <2> QED
    BY <1>1, <1>5, <2>1, <2>2, <2>3 DEF Gateway!TurnedAway, GatewayInv, Gateway!TypeOK, Asked
<1>6. ASSUME NEW c \in Calls, Gateway!Posts(c)
      PROVE  GatewayInv'
  <2>1. /\ call[c] = "idle" /\ call' = [call EXCEPT ![c] = "posted"] /\ current' = current + 1
        /\ original[c] \in Models /\ model[c] = original[c]
    BY <1>1, <1>2, <1>6 DEF Gateway!Posts, Gateway!Known, Asked
  <2>2. Gateway!InFlight' = Gateway!InFlight \union {c} /\ c \notin Gateway!InFlight
    BY <1>2, <2>1 DEF Gateway!InFlight
  <2>3. /\ IsFiniteSet(Gateway!InFlight')
        /\ Cardinality(Gateway!InFlight') = Cardinality(Gateway!InFlight) + 1
        /\ Cardinality(Gateway!InFlight) \in Nat
    BY <1>1, <2>2, FS_AddElement, FS_CardinalityType
  <2>4. Gateway!PermitsAreReturned'
    <3>1. current <= Cardinality(Gateway!InFlight)
      BY <1>1, CountsAlike DEF Gateway!PermitsAreReturned
    <3>2. current' <= Cardinality(Gateway!InFlight')
      BY <1>2, <2>1, <2>3, <3>1
    <3> QED
      BY <3>2, CountsAlike DEF Gateway!PermitsAreReturned
  <2>5. current' \in 0 .. MaxConcurrent /\ recent' \in 0 .. RateLimit
    BY <1>2, <1>6 DEF Gateway!Posts, Gateway!Admits
  <2>6. circuit' \in [Providers -> Gateway!Breakers]
    <3>1. Provider[original[c]] \in Providers
      BY <1>2, <2>1
    <3> QED
      BY <1>1, <1>2, <1>6, <3>1, HalfOpened DEF Gateway!Posts
  <2>7. call' \in [Calls -> {"idle", "posted", "returned"}]
    BY <1>2, <2>1
  <2>8. \A d \in Calls : call'[d] = "posted" => model'[d] \in Models /\ original'[d] \in Models
    BY <1>1, <1>2, <1>6, <2>1 DEF Gateway!Posts, Gateway!TypeOK, Asked
  <2>9. \A d \in Calls : call'[d] = "idle" => model'[d] = original'[d]
    BY <1>1, <1>2, <1>6, <2>1 DEF Gateway!Posts, Asked
  <2> QED
    BY <1>1, <1>6, <2>3, <2>4, <2>5, <2>6, <2>7, <2>8, <2>9 DEF Gateway!Posts, GatewayInv,
       Gateway!TypeOK, Asked
<1>7. ASSUME NEW c \in Calls, Gateway!Succeeds(c)
      PROVE  GatewayInv'
  <2>1. call[c] = "posted" /\ Gateway!Returns(c)
    BY <1>7 DEF Gateway!Succeeds
  <2>2. /\ call' \in [Calls -> {"idle", "posted", "returned"}] /\ current' \in 0 .. MaxConcurrent
        /\ \A d \in Calls : call'[d] # "returned" => call'[d] = call[d]
        /\ IsFiniteSet(Gateway!InFlight') /\ Gateway!PermitsAreReturned'
    BY <2>1, PermitReturned
  <2>3. original[c] \in Models /\ model[c] \in Models
    BY <1>1, <2>1 DEF Gateway!TypeOK, Asked
  <2>4. spent' \in Nat
    BY <1>1, <1>7 DEF Gateway!Succeeds, Gateway!TypeOK, Gateway!BoundsOK
  <2>5. \A u \in usage' : u.charged \in Models /\ u.answered \in Models
    BY <1>1, <1>7, <2>3 DEF Gateway!Succeeds, Gateway!TypeOK
  <2> QED
    BY <1>1, <1>7, <2>2, <2>4, <2>5 DEF Gateway!Succeeds, GatewayInv, Gateway!TypeOK, Asked
<1>8. ASSUME NEW c \in Calls, Gateway!FallsBack(c)
      PROVE  GatewayInv'
  <2>1. PICK m \in Gateway!Fallback(model[c]) : model' = [model EXCEPT ![c] = m]
    BY <1>8 DEF Gateway!FallsBack
  <2>2. call[c] = "posted" /\ model[c] \in Models
    BY <1>1, <1>8 DEF Gateway!FallsBack, Gateway!TypeOK
  <2>3. m \in Models
    BY <2>1, <2>2, FallbackType
  <2>4. model' \in [Calls -> Models \union {Gateway!Absent}]
        /\ \A d \in Calls : call[d] = "posted" => model'[d] \in Models
    BY <1>1, <2>1, <2>3 DEF Gateway!TypeOK
  <2>5. hops' \in [Calls -> 0 .. MaxHops]
    <3>1. hops \in [Calls -> 0 .. MaxHops] /\ hops[c] < MaxHops /\ MaxHops \in Nat
      BY <1>1, <1>8 DEF Gateway!FallsBack, Gateway!TypeOK, Gateway!BoundsOK
    <3>2. hops[c] + 1 \in 0 .. MaxHops
      BY <3>1
    <3> QED
      BY <1>8, <3>1, <3>2 DEF Gateway!FallsBack
  <2>6. Asked'
    BY <1>1, <1>8, <2>1, <2>2 DEF Gateway!FallsBack, Asked, Gateway!TypeOK
  <2>7. IsFiniteSet(Gateway!InFlight') /\ Gateway!PermitsAreReturned'
    BY <1>1, <1>8, CountsAlike DEF Gateway!FallsBack, Gateway!InFlight, Gateway!PermitsAreReturned
  <2> QED
    BY <1>1, <1>8, <2>4, <2>5, <2>6, <2>7 DEF Gateway!FallsBack, GatewayInv, Gateway!TypeOK
<1>9. ASSUME NEW c \in Calls, NEW transient \in BOOLEAN, NEW auth \in BOOLEAN,
             Gateway!Fails(c, transient, auth)
      PROVE  GatewayInv'
  <2>1. call[c] = "posted" /\ Gateway!Returns(c)
    BY <1>9 DEF Gateway!Fails
  <2>2. /\ call' \in [Calls -> {"idle", "posted", "returned"}] /\ current' \in 0 .. MaxConcurrent
        /\ \A d \in Calls : call'[d] # "returned" => call'[d] = call[d]
        /\ IsFiniteSet(Gateway!InFlight') /\ Gateway!PermitsAreReturned'
    BY <2>1, PermitReturned
  <2>3. circuit' \in [Providers -> Gateway!Breakers]
    <3> DEFINE opens == /\ auth
                        /\ ~transient \/ (hops[c] < MaxHops /\ Gateway!Fallback(model[c]) = {})
               refused == [p \in Providers |->
                             IF opens /\ p = Provider[model[c]] THEN Gateway!Opened(circuit[p])
                                                                ELSE circuit[p]]
    <3>1. refused \in [Providers -> Gateway!Breakers]
      BY <1>2, TrackedType
    <3>2. circuit' = [refused EXCEPT ![Provider[original[c]]] = Gateway!Tracked(@)]
      BY <1>9 DEF Gateway!Fails
    <3> HIDE DEF refused
    <3>3. Provider[original[c]] \in Providers
      BY <1>1, <1>2, <2>1 DEF Asked
    <3>4. Gateway!Tracked(refused[Provider[original[c]]]) \in Gateway!Breakers
      BY <3>1, <3>3, TrackedType
    <3> QED
      BY <3>1, <3>2, <3>4
  <2> QED
    BY <1>1, <1>9, <2>2, <2>3 DEF Gateway!Fails, GatewayInv, Gateway!TypeOK, Asked
<1>10. ASSUME NEW c \in Calls, Gateway!Breaks(c)
       PROVE  GatewayInv'
  <2>1. call[c] = "posted" /\ Gateway!Returns(c)
    BY <1>10 DEF Gateway!Breaks
  <2>2. /\ call' \in [Calls -> {"idle", "posted", "returned"}] /\ current' \in 0 .. MaxConcurrent
        /\ \A d \in Calls : call'[d] # "returned" => call'[d] = call[d]
        /\ IsFiniteSet(Gateway!InFlight') /\ Gateway!PermitsAreReturned'
    BY <2>1, PermitReturned
  <2> QED
    BY <1>1, <1>10, <2>2 DEF Gateway!Breaks, GatewayInv, Gateway!TypeOK, Asked
<1>11. ASSUME NEW rest \in 0 .. recent, NEW ripe \in SUBSET Providers,
              Gateway!MinutePasses(rest, ripe)
       PROVE  GatewayInv'
  <2>1. recent' \in 0 .. RateLimit
    BY <1>2, <1>11 DEF Gateway!MinutePasses
  <2>2. minutes' \in 0 .. MaxMinutes
    BY <1>1, <1>11 DEF Gateway!MinutePasses, Gateway!TypeOK, Gateway!BoundsOK
  <2>3. circuit' \in [Providers -> Gateway!Breakers]
    <3>1. \A p \in Providers :
            [circuit[p] EXCEPT !.state = IF @ = "open" /\ p \in ripe THEN "ripe" ELSE @]
              \in Gateway!Breakers
      BY <1>2 DEF Gateway!Breakers, Gateway!States
    <3> QED
      BY <1>11, <3>1 DEF Gateway!MinutePasses
  <2>4. IsFiniteSet(Gateway!InFlight') /\ Gateway!PermitsAreReturned' /\ Asked'
    BY <1>1, <1>11, CountsAlike DEF Gateway!MinutePasses, Gateway!InFlight,
       Gateway!PermitsAreReturned, Asked
  <2> QED
    BY <1>1, <1>11, <2>1, <2>2, <2>3, <2>4 DEF Gateway!MinutePasses, GatewayInv, Gateway!TypeOK
<1> QED
  BY <1>3, <1>4, <1>5, <1>6, <1>7, <1>8, <1>9, <1>10, <1>11 DEF Gateway!Next

LEMMA GatewayInit ==
  ASSUME Gateway!BoundsOK, Gateway!Init
  PROVE  GatewayInv
<1>1. Gateway!TypeOK
  BY DEF Gateway!Init, Gateway!TypeOK, Gateway!BoundsOK, Gateway!Breakers, Gateway!States
<1>2. Gateway!InFlight = {}
  BY DEF Gateway!Init, Gateway!InFlight
<1>3. IsFiniteSet(Gateway!InFlight) /\ Cardinality(Gateway!InFlight) = 0
  BY <1>2, FS_EmptySet
<1>4. Gateway!PermitsAreReturned
  BY <1>3, CountsAlike DEF Gateway!Init, Gateway!PermitsAreReturned
<1> QED
  BY <1>1, <1>3, <1>4 DEF GatewayInv, Asked, Gateway!Init

LEMMA GatewayInvariant ==
  ASSUME Gateway!BoundsOK
  PROVE  Gateway!Spec => []GatewayInv
<1>1. Gateway!Init => GatewayInv
  BY GatewayInit
<1>2. GatewayInv /\ [Gateway!Next]_(Gateway!vars) => GatewayInv'
  BY GatewayKeeps
<1> QED
  BY <1>1, <1>2, PTL DEF Gateway!Spec

-----------------------------------------------------------------------------
(* The anchors                                                             *)

(* The row an anchor would name: the last one of the table.                *)
Last(r) == r \in rows /\ \A q \in rows : q <= r

(* The transaction under way holds a row of its session; an anchor it has  *)
(* decided on continues the numbers and names the last row; what it adds   *)
(* is in the sink, if the sink keeps anything.                             *)
Building == txn.pc \in {"fired", "stored"} \/ txn.adds

Holds ==
  /\ txn.pc = "free" <=> txn = Anchors!NoTxn
  /\ txn.pc # "free" => txn.writer \in Writers /\ stamped[txn.writer] # 0
  /\ txn.adds => txn.pc = "written"
  /\ Building => txn.seq = state.seq + 1 /\ Last(txn.head)
  /\ local /\ (txn.pc = "stored" \/ txn.adds) => Anchors!Pending \in worm

HasLast == rows = {} \/ \E r \in rows : Last(r)

AnchorsInv == Anchors!TypeOK /\ HasLast /\ Holds /\ Anchors!AnchorsHold

LEMMA TxnMoves ==
  ASSUME NEW t \in Anchors!Txns,
         NEW at \in {"free", "appended", "fired", "stored", "written", "doomed"}
  PROVE  /\ [t EXCEPT !.pc = at] \in Anchors!Txns
         /\ LET new == [t EXCEPT !.pc = at, !.adds = TRUE] IN
            /\ new \in Anchors!Txns /\ new.pc = at /\ new.adds /\ new.seq = t.seq
            /\ new.head = t.head /\ new.writer = t.writer
BY DEF Anchors!Txns

LEMMA FreshTxn ==
  ASSUME Anchors!BoundsOK
  PROVE  /\ Anchors!NoTxn \in Anchors!Txns /\ Anchors!NoTxn.pc = "free" /\ ~Anchors!NoTxn.adds
         /\ \A w \in Writers :
              LET new == [Anchors!NoTxn EXCEPT !.pc = "appended", !.writer = w] IN
              /\ new \in Anchors!Txns /\ new.pc = "appended" /\ new.writer = w /\ ~new.adds
BY DEF Anchors!NoTxn, Anchors!Txns, Anchors!Never, Anchors!BoundsOK

(* The table has a last row before and after a row is added.               *)
LEMMA HeadIsLast ==
  ASSUME Anchors!BoundsOK, Anchors!TypeOK, HasLast, Anchors!ChainHead # 0
  PROVE  Last(Anchors!ChainHead)
<1>1. rows # {}
  BY DEF Anchors!ChainHead
<1>2. \E r \in rows : \A q \in rows : q <= r
  BY <1>1 DEF HasLast, Last
<1> QED
  BY <1>1, <1>2 DEF Anchors!ChainHead, Last

LEMMA LastStays ==
  ASSUME Anchors!BoundsOK, Anchors!TypeOK, HasLast, NEW new \in Places, rows' = rows \cup {new}
  PROVE  HasLast'
<1>1. new \in Nat /\ rows \subseteq Nat
  BY DEF Anchors!BoundsOK, Anchors!TypeOK
<1>2. CASE rows = {}
  BY <1>1, <1>2 DEF HasLast, Last
<1>3. ASSUME NEW r \in rows, Last(r)
      PROVE  HasLast'
  <2>1. CASE new <= r
    BY <1>1, <1>3, <2>1 DEF HasLast, Last
  <2>2. CASE ~(new <= r)
    <3>1. \A q \in rows : q <= new
      BY <1>1, <1>3, <2>2 DEF Last
    <3> QED
      BY <1>1, <3>1 DEF HasLast, Last
  <2> QED
    BY <2>1, <2>2
<1> QED
  BY <1>2, <1>3 DEF HasLast

(* An anchor of the next number that names the last row continues the      *)
(* anchors.                                                                *)
LEMMA NextAnchor ==
  ASSUME Anchors!BoundsOK, Anchors!TypeOK, Anchors!AnchorsHold, Last(txn.head),
         txn.seq = state.seq + 1,
         local => Anchors!Pending \in worm,
         anchors' = anchors \cup {Anchors!Pending}, state'.seq = txn.seq,
         rows \subseteq rows', UNCHANGED <<worm, local>>
  PROVE  Anchors!AnchorsHold'
<1>1. /\ state.seq \in Nat /\ rows \subseteq Nat
      /\ \A a \in anchors : a.seq \in Nat /\ a.row \in rows /\ a.seq \in 1..state.seq
  BY DEF Anchors!TypeOK, Anchors!BoundsOK, Anchors!AnchorsHold, Anchors!AnchorsNameRows,
     Anchors!AnchorsInOrder
<1>2. Anchors!Pending.seq = state.seq + 1 /\ Anchors!Pending.row = txn.head
  BY DEF Anchors!Pending
<1>3. {a.seq : a \in anchors'} = 1..state'.seq
  <2>1. {a.seq : a \in anchors} = 1..state.seq
    BY DEF Anchors!AnchorsHold, Anchors!AnchorsInOrder
  <2>2. 1..state'.seq = 1..state.seq \cup {state.seq + 1}
    BY <1>1
  <2>3. {a.seq : a \in anchors'} = {a.seq : a \in anchors} \cup {Anchors!Pending.seq}
    OBVIOUS
  <2> QED
    BY <1>2, <2>1, <2>2, <2>3
<1>4. ASSUME NEW a \in anchors', NEW b \in anchors'
      PROVE  /\ a.seq = b.seq => a = b
             /\ a.seq < b.seq => a.row <= b.row
  <2>1. CASE a \in anchors /\ b \in anchors
    BY <2>1 DEF Anchors!AnchorsHold, Anchors!AnchorsInOrder
  <2>2. CASE a = Anchors!Pending /\ b = Anchors!Pending
    <3>1. txn.head \in Nat /\ txn.head <= txn.head
      BY <1>1 DEF Last
    <3> QED
      BY <1>1, <1>2, <2>2, <3>1
  <2>3. CASE a \in anchors /\ b = Anchors!Pending
    <3>1. a.seq \in Nat /\ a.seq <= state.seq
      BY <1>1, <2>3
    <3>2. a.row <= txn.head
      BY <1>1, <2>3 DEF Last
    <3> QED
      BY <1>1, <1>2, <2>3, <3>1, <3>2
  <2>4. CASE a = Anchors!Pending /\ b \in anchors
    <3>1. b.seq \in Nat /\ b.seq <= state.seq
      BY <1>1, <2>4
    <3>2. a.seq = state.seq + 1
      BY <1>2, <2>4
    <3> QED
      BY <1>1, <3>1, <3>2
  <2> QED
    BY <2>1, <2>2, <2>3, <2>4
<1>5. Anchors!AnchorsInOrder'
  BY <1>3, <1>4 DEF Anchors!AnchorsInOrder
<1>6. Anchors!AnchorsNameRows'
  BY <1>2 DEF Anchors!AnchorsHold, Anchors!AnchorsNameRows, Last
<1>7. Anchors!CopiesAgree'
  BY DEF Anchors!AnchorsHold, Anchors!CopiesAgree
<1> QED
  BY <1>5, <1>6, <1>7 DEF Anchors!AnchorsHold

LEMMA AnchorsStay ==
  ASSUME Anchors!AnchorsHold, rows \subseteq rows', anchors' = anchors, state'.seq = state.seq,
         local' = local, worm \subseteq worm',
         \A o \in worm' \ worm : o.row \in rows \cup {Anchors!Torn}
  PROVE  Anchors!AnchorsHold'
<1>1. Anchors!AnchorsInOrder'
  BY DEF Anchors!AnchorsHold, Anchors!AnchorsInOrder
<1>2. Anchors!AnchorsNameRows'
  BY DEF Anchors!AnchorsHold, Anchors!AnchorsNameRows
<1> QED
  BY <1>1, <1>2 DEF Anchors!AnchorsHold, Anchors!CopiesAgree

LEMMA AnchorsKeep ==
  ASSUME Anchors!BoundsOK, AnchorsInv, [Anchors!Next]_(Anchors!vars)
  PROVE  AnchorsInv'
<1>1. Anchors!TypeOK /\ HasLast /\ Holds /\ Anchors!AnchorsHold
  BY DEF AnchorsInv
<1>2. /\ txn \in Anchors!Txns /\ Anchors!NoTxn \in Anchors!Txns
      /\ stamped \in [Writers -> Places \cup {0}]
      /\ Anchors!NoTxn.pc = "free" /\ ~Anchors!NoTxn.adds
      /\ 0 \notin Places /\ Places \subseteq Nat /\ Anchors!Nobody \notin Writers
      /\ local \in BOOLEAN
  BY <1>1, FreshTxn DEF Anchors!TypeOK, Anchors!BoundsOK
<1>3. CASE UNCHANGED Anchors!vars
  BY <1>1, <1>3 DEF Anchors!vars, AnchorsInv, Anchors!TypeOK, HasLast, Last, Holds, Building,
     Anchors!Pending, Anchors!AnchorsHold,
     Anchors!AnchorsInOrder, Anchors!AnchorsNameRows, Anchors!CopiesAgree
<1>4. CASE Anchors!Tick
  <2>1. Anchors!TypeOK'
    BY <1>1, <1>4 DEF Anchors!Tick, Anchors!TypeOK
  <2> QED
    BY <1>1, <1>4, <2>1 DEF Anchors!Tick, AnchorsInv, HasLast, Last, Holds, Building,
       Anchors!Pending, Anchors!AnchorsHold,
       Anchors!AnchorsInOrder, Anchors!AnchorsNameRows, Anchors!CopiesAgree
<1>5. ASSUME NEW w \in Writers, NEW r \in Places, Anchors!Stamp(w, r)
      PROVE  AnchorsInv'
  <2>1. Anchors!TypeOK'
    BY <1>1, <1>5 DEF Anchors!Stamp, Anchors!TypeOK
  <2>2. txn.pc # "free" => stamped'[txn.writer] # 0
    BY <1>1, <1>2, <1>5 DEF Anchors!Stamp, Holds
  <2>3. Holds'
    BY <1>1, <1>5, <2>2 DEF Anchors!Stamp, Holds, Building, Last, Anchors!Pending
  <2> QED
    BY <1>1, <1>5, <2>1, <2>3, AnchorsStay DEF Anchors!Stamp, AnchorsInv, HasLast, Last
<1>6. ASSUME NEW w \in Writers, Anchors!Lock(w)
      PROVE  AnchorsInv'
  <2>1. txn' \in Anchors!Txns /\ txn'.pc = "appended" /\ txn'.writer = w /\ ~txn'.adds
    BY <1>6, FreshTxn DEF Anchors!Lock
  <2>2. Anchors!TypeOK'
    BY <1>1, <1>6, <2>1 DEF Anchors!Lock, Anchors!TypeOK
  <2>3. Holds'
    <3>1. txn' # Anchors!NoTxn
      BY <1>2, <2>1
    <3> QED
      BY <1>6, <2>1, <3>1 DEF Anchors!Lock, Holds, Building
  <2> QED
    BY <1>1, <1>6, <2>2, <2>3, AnchorsStay DEF Anchors!Lock, AnchorsInv, HasLast, Last
<1>7. ASSUME NEW at \in {"stored", "written", "doomed"}, txn' = [txn EXCEPT !.pc = at],
             txn.pc # "free", txn.pc # "written",
             at = "stored" => txn.pc = "fired" /\ (local => Anchors!Pending \in worm'),
             UNCHANGED <<rows, stamped, anchors, state, local>>,
             Anchors!TypeOK',
             worm \subseteq worm', \A o \in worm' \ worm : o.row \in rows \cup {Anchors!Torn}
      PROVE  AnchorsInv'
  <2>1. /\ txn'.pc = at /\ txn'.writer = txn.writer /\ txn'.seq = txn.seq
        /\ txn'.head = txn.head /\ txn'.adds = txn.adds
    BY <1>2, <1>7 DEF Anchors!Txns
  <2>2. ~txn.adds /\ txn' # Anchors!NoTxn
    BY <1>1, <1>2, <1>7, <2>1 DEF Holds
  <2>3. Anchors!Pending' = Anchors!Pending
    BY <2>1 DEF Anchors!Pending
  <2>4. Building' => Building
    BY <1>7, <2>1, <2>2 DEF Building
  <2>5. Holds'
    BY <1>1, <1>7, <2>1, <2>2, <2>3, <2>4 DEF Holds, Last
  <2> QED
    BY <1>1, <1>7, <2>5, AnchorsStay DEF AnchorsInv, HasLast, Last
<1>8. CASE Anchors!NotDue
  <2>1. Anchors!TypeOK'
    BY <1>1, <1>8, TxnMoves DEF Anchors!NotDue, Anchors!TypeOK
  <2> QED
    BY <1>7, <1>8, <2>1 DEF Anchors!NotDue
<1>9. CASE Anchors!StatementFails
  <2>0. trouble' \in Nat
    BY <1>1, <1>9 DEF Anchors!StatementFails, Anchors!TypeOK
  <2>1. Anchors!TypeOK'
    BY <1>1, <1>9, <2>0, TxnMoves DEF Anchors!StatementFails, Anchors!TypeOK
  <2> QED
    BY <1>7, <1>9, <2>1 DEF Anchors!StatementFails
<1>10. CASE Anchors!ReadHead
  <2>1. /\ Last(Anchors!ChainHead) /\ Anchors!ChainHead \in Places
        /\ passed \in Nat /\ state.seq + 1 \in Nat
    BY <1>1, <1>10, HeadIsLast DEF Anchors!ReadHead, Anchors!TypeOK, Last
  <2>2. /\ txn' \in Anchors!Txns /\ txn'.pc = "fired" /\ txn'.seq = state.seq + 1
        /\ txn'.head = Anchors!ChainHead /\ txn'.adds = txn.adds /\ txn'.writer = txn.writer
    <3> DEFINE seq  == state.seq + 1
               head == Anchors!ChainHead
               at   == passed
               new  == txn'
    <3>1. /\ seq \in Nat /\ head \in Places /\ at \in Nat
          /\ new = [txn EXCEPT !.pc = "fired", !.seq = seq, !.head = head, !.at = at]
      BY <1>10, <2>1 DEF Anchors!ReadHead
    <3> HIDE DEF seq, head, at, new
    <3>2. /\ new \in Anchors!Txns /\ new.pc = "fired" /\ new.seq = seq
          /\ new.head = head /\ new.adds = txn.adds /\ new.writer = txn.writer
      BY <1>2, <3>1 DEF Anchors!Txns
    <3> QED
      BY <3>2 DEF seq, head, new
  <2>3. Anchors!TypeOK'
    BY <1>1, <1>10, <2>2 DEF Anchors!ReadHead, Anchors!TypeOK
  <2>4. Holds'
    <3>1. txn.pc = "appended" /\ ~txn.adds /\ txn' # Anchors!NoTxn
      BY <1>1, <1>2, <1>10, <2>2 DEF Anchors!ReadHead, Holds
    <3> QED
      BY <1>1, <1>10, <2>1, <2>2, <3>1 DEF Anchors!ReadHead, Holds, Building, Last
  <2> QED
    BY <1>1, <1>10, <2>3, <2>4, AnchorsStay DEF Anchors!ReadHead, AnchorsInv, HasLast, Last
<1>11. CASE Anchors!Store
  <2>1. txn.pc = "fired" /\ Building
    BY <1>11 DEF Anchors!Store, Building
  <2>2. txn.seq = state.seq + 1 /\ Last(txn.head)
    BY <1>1, <2>1 DEF Holds
  <2>3. Anchors!Pending \in [seq : Nat \ {0}, row : Places] /\ Anchors!Pending.row \in rows
    BY <1>1, <2>2 DEF Anchors!Pending, Last, Anchors!TypeOK
  <2>4. worm' = IF local THEN worm \cup {Anchors!Pending} ELSE worm
    BY <1>11 DEF Anchors!Store
  <2>5. Anchors!TypeOK'
    <3>1. txn' \in Anchors!Txns
      BY <1>2, <1>11, TxnMoves DEF Anchors!Store
    <3>2. worm' \subseteq [seq : Nat \ {0}, row : Places \cup {Anchors!Torn}]
      <4>1. Anchors!Pending \in [seq : Nat \ {0}, row : Places \cup {Anchors!Torn}]
        BY <2>3
      <4> QED
        BY <1>1, <2>4, <4>1 DEF Anchors!TypeOK
    <3> QED
      BY <1>1, <1>11, <3>1, <3>2 DEF Anchors!Store, Anchors!TypeOK
  <2>6. /\ worm \subseteq worm' /\ (local => Anchors!Pending \in worm')
        /\ \A o \in worm' \ worm : o.row \in rows \cup {Anchors!Torn}
    BY <2>3, <2>4
  <2> QED
    BY <1>7, <1>11, <2>5, <2>6 DEF Anchors!Store
<1>12. CASE Anchors!Collides
  <2>1. Anchors!TypeOK'
    BY <1>1, <1>12, TxnMoves DEF Anchors!Collides, Anchors!TypeOK
  <2> QED
    BY <1>7, <1>12, <2>1 DEF Anchors!Collides
<1>13. CASE Anchors!StoreFails
  <2>1. txn.seq \in Nat \ {0}
    BY <1>1, <1>13 DEF Anchors!StoreFails, Holds, Building, Anchors!TypeOK
  <2>2. /\ worm' \subseteq worm \cup {[seq |-> txn.seq, row |-> Anchors!Torn]}
        /\ worm \subseteq worm'
        /\ [seq |-> txn.seq, row |-> Anchors!Torn].row = Anchors!Torn
    BY <1>13 DEF Anchors!StoreFails
  <2>3. Anchors!TypeOK'
    <3>1. trouble' \in Nat
      BY <1>1, <1>13 DEF Anchors!StoreFails, Anchors!TypeOK
    <3>2. [seq |-> txn.seq, row |-> Anchors!Torn]
            \in [seq : Nat \ {0}, row : Places \cup {Anchors!Torn}]
      BY <2>1
    <3>3. worm' \subseteq [seq : Nat \ {0}, row : Places \cup {Anchors!Torn}]
      BY <1>1, <2>2, <3>2 DEF Anchors!TypeOK
    <3>4. txn' \in Anchors!Txns
      BY <1>2, <1>13, TxnMoves DEF Anchors!StoreFails
    <3> QED
      BY <1>1, <1>13, <3>1, <3>3, <3>4 DEF Anchors!StoreFails, Anchors!TypeOK
  <2>4. \A o \in worm' \ worm : o.row \in rows \cup {Anchors!Torn}
    BY <2>2
  <2> QED
    BY <1>7, <1>13, <2>2, <2>3, <2>4 DEF Anchors!StoreFails
<1>14. CASE Anchors!WriteAnchor
  <2>1. /\ txn' \in Anchors!Txns /\ txn'.pc = "written" /\ txn'.adds /\ txn'.seq = txn.seq
        /\ txn'.head = txn.head /\ txn'.writer = txn.writer
    <3>1. txn' = [txn EXCEPT !.pc = "written", !.adds = TRUE]
      BY <1>14 DEF Anchors!WriteAnchor
    <3> QED
      BY <1>2, <3>1, TxnMoves
  <2>2. Anchors!TypeOK'
    BY <1>1, <1>14, <2>1 DEF Anchors!WriteAnchor, Anchors!TypeOK
  <2>3. Holds'
    <3>1. txn.pc = "stored" /\ txn' # Anchors!NoTxn /\ Anchors!Pending' = Anchors!Pending
      BY <1>2, <1>14, <2>1 DEF Anchors!WriteAnchor, Anchors!Pending
    <3> QED
      BY <1>1, <1>14, <2>1, <3>1 DEF Anchors!WriteAnchor, Holds, Building, Last
  <2> QED
    BY <1>1, <1>14, <2>2, <2>3, AnchorsStay DEF Anchors!WriteAnchor, AnchorsInv, HasLast, Last
<1>15. CASE Anchors!Commit
  <2>1. /\ txn.pc = "written" /\ txn.writer \in Writers /\ stamped[txn.writer] \in Places
        /\ rows' = rows \cup {stamped[txn.writer]}
    BY <1>1, <1>2, <1>15 DEF Anchors!Commit, Holds
  <2>2. HasLast'
    BY <1>1, <2>1, LastStays
  <2>3. txn' = Anchors!NoTxn /\ stamped' \in [Writers -> Places \cup {0}]
    BY <1>2, <1>15 DEF Anchors!Commit, Anchors!Unlock
  <2>4. Holds'
    BY <1>2, <2>3 DEF Holds, Building
  <2>5. CASE txn.adds
    <3>1. txn.seq = state.seq + 1 /\ Last(txn.head) /\ (local => Anchors!Pending \in worm)
      BY <1>1, <2>5 DEF Holds, Building
    <3>2. anchors' = anchors \cup {Anchors!Pending}
          /\ state' = [seq |-> txn.seq, count |-> Anchors!RowCount, at |-> txn.at]
      BY <1>15, <2>5 DEF Anchors!Commit
    <3>3. Anchors!AnchorsHold'
      BY <1>1, <1>15, <2>1, <3>1, <3>2, NextAnchor DEF Anchors!Commit
    <3>4. Anchors!Pending \in [seq : Nat \ {0}, row : Places]
      BY <1>1, <3>1 DEF Anchors!Pending, Last, Anchors!TypeOK
    <3>5. state' \in [seq : Nat, count : Nat, at : Nat \cup {Anchors!Never}]
      BY <1>2, <3>2 DEF Anchors!Txns, Anchors!RowCount
    <3>6. Anchors!TypeOK'
      BY <1>1, <1>2, <1>15, <2>1, <2>3, <3>2, <3>4, <3>5 DEF Anchors!Commit, Anchors!TypeOK
    <3> QED
      BY <2>2, <2>4, <3>3, <3>6 DEF AnchorsInv
  <2>6. CASE ~txn.adds
    <3>1. Anchors!TypeOK'
      BY <1>1, <1>2, <1>15, <2>1, <2>3, <2>6 DEF Anchors!Commit, Anchors!TypeOK
    <3>2. Anchors!AnchorsHold'
      BY <1>1, <1>15, <2>1, <2>6, AnchorsStay DEF Anchors!Commit
    <3> QED
      BY <2>2, <2>4, <3>1, <3>2 DEF AnchorsInv
  <2> QED
    BY <2>5, <2>6
<1>16. CASE Anchors!Rollback
  <2>1. txn' = Anchors!NoTxn /\ stamped' \in [Writers -> Places \cup {0}]
    BY <1>2, <1>16 DEF Anchors!Rollback, Anchors!Unlock
  <2>2. trouble' \in Nat
    BY <1>1, <1>16 DEF Anchors!Rollback, Anchors!TypeOK
  <2>3. Anchors!TypeOK'
    BY <1>1, <1>2, <1>16, <2>1, <2>2 DEF Anchors!Rollback, Anchors!TypeOK
  <2>4. Holds'
    BY <1>2, <2>1 DEF Holds, Building
  <2> QED
    BY <1>1, <1>16, <2>3, <2>4, AnchorsStay DEF Anchors!Rollback, AnchorsInv, HasLast, Last
<1> QED
  BY <1>3, <1>4, <1>5, <1>6, <1>8, <1>9, <1>10, <1>11, <1>12, <1>13, <1>14, <1>15, <1>16
     DEF Anchors!Next

LEMMA AnchorsInit ==
  ASSUME Anchors!BoundsOK, Anchors!Init
  PROVE  AnchorsInv
<1>1. Anchors!TypeOK
  BY FreshTxn DEF Anchors!Init, Anchors!TypeOK, Anchors!BoundsOK
<1>2. Holds /\ HasLast
  BY FreshTxn DEF Anchors!Init, Holds, Building, HasLast
<1>3. Anchors!AnchorsHold
  <2>1. 1..0 = {}
    OBVIOUS
  <2> QED
    BY <2>1 DEF Anchors!Init, Anchors!AnchorsHold, Anchors!AnchorsInOrder,
       Anchors!AnchorsNameRows, Anchors!CopiesAgree
<1> QED
  BY <1>1, <1>2, <1>3 DEF AnchorsInv

LEMMA AnchorsInvariant ==
  ASSUME Anchors!BoundsOK
  PROVE  Anchors!Spec => []AnchorsInv
<1>1. Anchors!Init => AnchorsInv
  BY AnchorsInit
<1>2. AnchorsInv /\ [Anchors!Next]_(Anchors!vars) => AnchorsInv'
  BY AnchorsKeep
<1> QED
  BY <1>1, <1>2, PTL DEF Anchors!Spec

-----------------------------------------------------------------------------
(* Theorems                                                                *)

(* The permits of the admission control come back: current_concurrent is   *)
(* never more than the calls in flight, whatever is rejected, falls back   *)
(* or fails, and whichever breakers open.                                  *)
THEOREM PermitsComeBack == Gateway!Spec => []PermitsAreReturned
<1>1. Gateway!Spec => []GatewayInv
  BY OtherBounds, GatewayInvariant
<1>2. GatewayInv => PermitsAreReturned
  BY DEF GatewayInv, PermitsAreReturned
<1> QED
  BY <1>1, <1>2, PTL

(* What an auditor reads from the anchors: numbers without a gap, rows in  *)
(* order, every anchor and every whole object a committed row, and both    *)
(* copies alike, whatever is rolled back, torn or left over.               *)
THEOREM AnchorsAreSound == Anchors!Spec => []AnchorsHold
<1>1. Anchors!Spec => []AnchorsInv
  BY OtherBounds, AnchorsInvariant
<1>2. AnchorsInv => AnchorsHold
  BY DEF AnchorsInv, AnchorsHold
<1> QED
  BY <1>1, <1>2, PTL

(* The three components keep the types of their state.                     *)
THEOREM ComponentTypes == Spec /\ Gateway!Spec /\ Anchors!Spec => []TypesOK
<1>1. Gateway!Spec => []GatewayInv
  BY OtherBounds, GatewayInvariant
<1>2. Anchors!Spec => []AnchorsInv
  BY OtherBounds, AnchorsInvariant
<1>3. TypeOK /\ GatewayInv /\ AnchorsInv => TypesOK
  BY DEF GatewayInv, AnchorsInv, TypesOK
<1> QED
  BY CycleTypes, <1>1, <1>2, <1>3, PTL

(* A behaviour of the run is one of each component.                        *)
THEOREM RunsAreBehaviours == MCSpec => Spec /\ Gateway!Spec /\ Anchors!Spec
<1>1. MCInit => Init /\ Gateway!Init /\ Anchors!Init
  BY DEF MCInit
<1>2. [CycleStep \/ GatewayStep \/ AnchorsStep]_allVars
        => [Next]_vars /\ [Gateway!Next]_(Gateway!vars) /\ [Anchors!Next]_(Anchors!vars)
  BY DEF CycleStep, GatewayStep, AnchorsStep, allVars, gatewayVars, anchorVars, vars,
     Gateway!vars, Anchors!vars
<1> QED
  BY <1>1, <1>2, PTL DEF MCSpec, Spec, Gateway!Spec, Anchors!Spec

(* Every safety property of the run holds of all behaviours of MCSpec.     *)
THEOREM CyclesAreSafe ==
  MCSpec => /\ [](TypesOK /\ EvidenceIsWhole /\ OrderWithinRisk)
            /\ [](PermitsAreReturned /\ AnchorsHold)
BY RunsAreBehaviours, ComponentTypes, OrdersHaveEvidence, OrdersAreWithinRisk, PermitsComeBack,
   AnchorsAreSound, PTL
=============================================================================
