--------------------------- MODULE SharedCompute ---------------------------
(***************************************************************************)
(* The Idempotency-Key of /v1/chat/completions and /v1/responses of the    *)
(* Hermes API server: one process-wide cache of results, and the turns     *)
(* that still compute one, shared by the requests that wait for it.        *)
(*                                                                         *)
(* A print stands for the fingerprint of a body.  External: asyncio (a     *)
(* task's done callback runs an iteration after it ends; shield keeps a    *)
(* task alive when the request that awaits it is cancelled).               *)
(***************************************************************************)
EXTENDS Naturals, Sequences, FiniteSets

CONSTANTS
  Requests,
  Keys,
  Prints,
  MaxItems,   \* _max
  MaxExpired  \* bound: entries that outlive their TTL

BoundsOK == IsFiniteSet(Requests) /\ MaxItems \in Nat \ {0} /\ MaxExpired \in Nat

VARIABLES
  store,     \* _store, an OrderedDict: entries [key, print, turn, at], at its place in it
  stale,     \* turns whose entry is past its TTL
  inflight,  \* _inflight: turns whose task is registered
  turns,     \* the turns computed so far: [key, print, state, lost]
  request,   \* [pc, key, print, turn] of each request
  left       \* bound: entries that may still expire

vars == <<store, stale, inflight, turns, request, left>>

Init ==
  /\ store = {} /\ stale = {} /\ inflight = {} /\ turns = <<>>
  /\ request \in [Requests ->
       {[pc |-> "idle", key |-> k, print |-> f, turn |-> 0] : k \in Keys, f \in Prints}]
  /\ left \in 0..MaxExpired

(* _purge: what has expired, then the oldest beyond the maximum.           *)
Purged(entries) ==
  LET fresh == {e \in entries : e.turn \notin stale}
  IN {e \in fresh : Cardinality({f \in fresh : f.at > e.at}) < MaxItems}

Held(entries) == {e.turn : e \in entries}

(* Assignment to an OrderedDict: a known key keeps its place, another goes *)
(* behind all results that came before.                                    *)
Ended == Cardinality({n \in 1..Len(turns) : turns[n].state # "running"})

Place(k) == IF \E e \in store : e.key = k THEN (CHOOSE e \in store : e.key = k).at ELSE Ended

Put(e) == {f \in store : f.key # e.key} \cup {e}

(* history: a result that has left the store.                              *)
Marked(all, entries) ==
  [n \in 1..Len(all) |->
     IF all[n].state = "stored" /\ n \notin Held(entries)
       THEN [all[n] EXCEPT !.lost = TRUE] ELSE all[n]]

Hits(r, entries) ==
  {e \in entries : e.key = request[r].key /\ e.print = request[r].print}

(* A bug the mutants use: only the store is asked.                         *)
NobodyComputes(r) == {}

(* The registered task for the key and the fingerprint.                    *)
Computing(r) ==
  {n \in inflight : turns[n].key = request[r].key /\ turns[n].print = request[r].print}

(* The request is answered by turn n, or awaits it.                        *)
Shares(r, n, pc) == request' = [request EXCEPT ![r].pc = pc, ![r].turn = n]

(* get_or_set up to its await: a stored result, a task to share, or a task *)
(* of its own.                                                             *)
Arrive(r) ==
  /\ request[r].pc = "idle"
  /\ store' = Purged(store)
  /\ LET known == Marked(turns, store') IN
     \/ \E e \in Hits(r, store') :
          /\ Shares(r, e.turn, "answered")
          /\ turns' = known /\ UNCHANGED inflight
     \/ \E n \in Computing(r) :
          /\ Hits(r, store') = {}
          /\ Shares(r, n, "waiting")
          /\ turns' = known /\ UNCHANGED inflight
     \/ /\ Hits(r, store') = {} /\ Computing(r) = {}
        /\ turns' = Append(known, [key |-> request[r].key, print |-> request[r].print,
                                   state |-> "running", lost |-> FALSE])
        /\ inflight' = inflight \cup {Len(turns')}
        /\ Shares(r, Len(turns'), "waiting")
  /\ UNCHANGED <<stale, left>>

(* _compute_and_store ends: with a result (an answer that reports a failed *)
(* turn is one too), which is stored, or with an exception, which is not.  *)
Finish(n) ==
  /\ turns[n].state = "running"
  /\ \/ /\ store' = Purged(Put([key |-> turns[n].key, print |-> turns[n].print,
                                turn |-> n, at |-> Place(turns[n].key)]))
        /\ turns' = Marked([turns EXCEPT ![n].state = "stored"], store')
     \/ /\ turns' = [turns EXCEPT ![n].state = "failed"]
        /\ UNCHANGED store
  /\ UNCHANGED <<stale, inflight, request, left>>

(* The done callback.                                                      *)
ClearInflight(n) ==
  /\ n \in inflight /\ turns[n].state # "running"
  /\ inflight' = inflight \ {n}
  /\ UNCHANGED <<store, stale, turns, request, left>>

(* The shielded await returns or raises.                                   *)
Answer(r) ==
  /\ request[r].pc = "waiting" /\ turns[request[r].turn].state # "running"
  /\ request' = [request EXCEPT
       ![r].pc = IF turns[request[r].turn].state = "stored" THEN "answered" ELSE "failed"]
  /\ UNCHANGED <<store, stale, inflight, turns, left>>

(* The request is cancelled; its turn goes on.                             *)
Vanish(r) ==
  /\ request[r].pc = "waiting"
  /\ request' = [request EXCEPT ![r].pc = "gone"]
  /\ UNCHANGED <<store, stale, inflight, turns, left>>

(* An entry outlives its TTL; the next purge drops it.                     *)
Expire(n) ==
  /\ n \in Held(store) \ stale /\ left > 0
  /\ left' = left - 1
  /\ stale' = stale \cup {n}
  /\ UNCHANGED <<store, inflight, turns, request>>

Next ==
  \/ \E r \in Requests : Arrive(r) \/ Answer(r) \/ Vanish(r)
  \/ \E n \in 1..Len(turns) : Finish(n) \/ ClearInflight(n) \/ Expire(n)

Spec == Init /\ [][Next]_vars

-----------------------------------------------------------------------------
(* Properties *)

(* The components have their types.                                        *)
TypeOK ==
  /\ store \subseteq [key : Keys, print : Prints, turn : Nat, at : Nat]
  /\ stale \subseteq Nat /\ inflight \subseteq 1..Len(turns)
  /\ turns \in Seq([key : Keys, print : Prints, state : {"running", "stored", "failed"},
                    lost : BOOLEAN])
  /\ request \in [Requests -> [pc : {"idle", "waiting", "answered", "failed", "gone"},
                               key : Keys, print : Prints, turn : Nat]]
  /\ left \in Nat

(* A key and body are computed a second time only after the first attempt  *)
(* raised or its result left the cache (expired, pushed out, or replaced   *)
(* by another body under the key), however many retries arrive while it    *)
(* runs, ends, or has lost the client that started it; and the answer a    *)
(* retry is given was computed for its own key and body.                   *)
ComputedOnce ==
  /\ \A j \in 1..Len(turns) : \A i \in 1..(j - 1) :
       turns[i].key = turns[j].key /\ turns[i].print = turns[j].print
         => turns[i].state = "failed" \/ turns[i].lost
  /\ \A r \in Requests :
       request[r].pc = "answered" =>
         LET t == turns[request[r].turn] IN
         t.key = request[r].key /\ t.print = request[r].print
=============================================================================
