----------------------------- MODULE AuditChain -----------------------------
(***************************************************************************)
(* One hash-chained audit table (security/hashchain.py) with its           *)
(* concurrent writers and its verifier (security/verifier.py).  The three  *)
(* tables lineage_records, workflow_journal and reasoning_traces have      *)
(* separate chains and separate advisory locks, so one instance describes  *)
(* any of them; Backfilled tells the two whose lineage_id the orchestrator *)
(* fills in afterwards from lineage_records, whose rows are never updated. *)
(*                                                                         *)
(* Replay order is (write clock, primary key).  Keys are random UUIDs:     *)
(* here distinct numbers handed out in any order.  SHA-256 is ideal: a     *)
(* digest is the tuple of what was hashed.                                 *)
(***************************************************************************)
EXTENDS Naturals, Sequences, FiniteSets

CONSTANTS
  Writers,     \* sessions that append: parallel analysts, other cycles
  Ids,         \* primary keys in their sort order; bounds the appends
  Lineages,    \* lineage ids a row can be linked to
  MaxTime,     \* bound: ticks of the write clock
  Backfilled   \* TRUE for workflow_journal and reasoning_traces

ASSUME IdsAreNaturals   == Ids \subseteq Nat \ {0}
ASSUME MaxTimeIsNatural == MaxTime \in Nat
ASSUME BackfilledIsBool == Backfilled \in BOOLEAN
ASSUME NobodyIsNoWriter == "nobody" \notin Writers

VARIABLES
  table,    \* committed rows in the order of their commits
  writer,   \* per session: where its append stands, and its row
  lock,     \* the session that holds the advisory lock of the table
  clock,    \* datetime.now(UTC)
  usedIds,  \* keys drawn so far
  edited    \* history: a committed row was updated

vars == <<table, writer, lock, clock, usedIds, edited>>

NoLineage == "null"
Links     == Lineages \cup {NoLineage}
Nobody    == "nobody"

(* SHA-256(prev_hash || canonical_json(row)): every column counts, the     *)
(* lineage_id included.  The previous hash is stood for by the key of its  *)
(* row: a row is hashed once, so no two digests share a key.               *)
Digest(row, prev) == [id |-> row.id, ts |-> row.ts, link |-> row.link,
                      prev |-> prev.id]
Genesis == [id |-> 0, ts |-> 0, link |-> NoLineage, prev |-> 0]

(* Replay order: write clock column, primary key breaks the tie.           *)
Before(r, s) == r.ts < s.ts \/ (r.ts = s.ts /\ r.id < s.id)

(* Bug variant of IsHeadOf: ORDER BY ... ASC LIMIT 1.                      *)
IsOldestOf(h, n) ==
  /\ h \in 1..n
  /\ \A i \in 1..n : i # h => Before(table[h], table[i])

(* ORDER BY order_col DESC, pk DESC LIMIT 1 over the first n commits.      *)
IsHeadOf(h, n) ==
  /\ h \in 1..n
  /\ \A i \in 1..n : i # h => Before(table[i], table[h])

(* The stored self_hash of that row; the genesis hash on an empty table.   *)
LastHashOf(digest, n) ==
  \/ n = 0 /\ digest = Genesis
  \/ \E h \in 1..n : IsHeadOf(h, n) /\ digest = table[h].self

Blank == [id |-> 0, ts |-> 0, link |-> NoLineage, prev |-> Genesis, self |-> Genesis]
Idle  == [pc |-> "idle", row |-> Blank]

Init ==
  /\ table   = <<>>
  /\ writer  = [w \in Writers |-> Idle]
  /\ lock    = Nobody
  /\ clock   = 1
  /\ usedIds = {}
  /\ edited  = FALSE

Tick ==
  /\ clock < MaxTime
  /\ clock' = clock + 1
  /\ UNCHANGED <<table, writer, lock, usedIds, edited>>

(* write_lineage, log_step, write_trace: the row with its key and its      *)
(* timestamp is built before the lock is asked for.                        *)
Stamp(w) ==
  /\ writer[w].pc = "idle"
  /\ \E i \in Ids \ usedIds, l \in Links :
       /\ l # NoLineage => Backfilled
       /\ writer' = [writer EXCEPT ![w] =
                       [pc |-> "stamped",
                        row |-> [Blank EXCEPT !.id = i, !.ts = clock, !.link = l]]]
       /\ usedIds' = usedIds \cup {i}
  /\ UNCHANGED <<table, lock, clock, edited>>

(* with_chain_lock: pg_advisory_xact_lock.                                 *)
Acquire(w) ==
  /\ writer[w].pc = "stamped"
  /\ lock = Nobody
  /\ lock' = w
  /\ writer' = [writer EXCEPT ![w].pc = "locked"]
  /\ UNCHANGED <<table, clock, usedIds, edited>>

(* append_chained: read the head, compute the pair, put it on the row.     *)
AppendChained(w) ==
  /\ writer[w].pc = "locked"
  /\ \E d \in {Genesis} \cup {table[i].self : i \in DOMAIN table} :
       /\ LastHashOf(d, Len(table))
       /\ writer' = [writer EXCEPT ![w].pc = "appended",
                                   ![w].row.prev = d,
                                   ![w].row.self = Digest(writer[w].row, d)]
  /\ UNCHANGED <<table, lock, clock, usedIds, edited>>

(* INSERT and COMMIT; the transaction's end frees the lock.                *)
Commit(w) ==
  /\ writer[w].pc = "appended"
  /\ table' = Append(table, writer[w].row)
  /\ writer' = [writer EXCEPT ![w] = Idle]
  /\ lock' = Nobody
  /\ UNCHANGED <<clock, usedIds, edited>>

(* Bug variant of Rollback: the session goes on with the row it had.       *)
RollbackKeepingRow(w) ==
  /\ writer[w].pc # "idle"
  /\ writer' = [writer EXCEPT ![w].pc = "idle"]
  /\ lock' = IF lock = w THEN Nobody ELSE lock
  /\ UNCHANGED <<table, clock, usedIds, edited>>

(* Flush or commit failed, the append raised, or the process died: the     *)
(* row is lost and its key is never drawn again.                           *)
Rollback(w) ==
  /\ writer[w].pc # "idle"
  /\ writer' = [writer EXCEPT ![w] = Idle]
  /\ lock' = IF lock = w THEN Nobody ELSE lock
  /\ UNCHANGED <<table, clock, usedIds, edited>>

(* DecisionOrchestrator._write_lineage: UPDATE ... SET lineage_id on rows  *)
(* that were committed, and hashed, before the decision had its record.    *)
Backfill ==
  /\ Backfilled
  /\ \E l \in Lineages, rows \in (SUBSET DOMAIN table) \ {{}} :
       table' = [i \in DOMAIN table |->
                   IF i \in rows THEN [table[i] EXCEPT !.link = l] ELSE table[i]]
  /\ edited' = TRUE
  /\ UNCHANGED <<writer, lock, clock, usedIds>>

WriterStep(w) == Acquire(w) \/ AppendChained(w) \/ Commit(w)

Next ==
  \/ Tick
  \/ Backfill
  \/ \E w \in Writers : Stamp(w) \/ WriterStep(w) \/ Rollback(w)

Spec == Init /\ [][Next]_vars

-----------------------------------------------------------------------------
(* verify_rows *)

(* r is the row verified just before row i, which is the first if none is. *)
IsPrevious(r, i) ==
  /\ Before(table[r], table[i])
  /\ \A j \in DOMAIN table : Before(table[j], table[i]) => j = r \/ Before(table[j], table[r])

IsFirst(i) == \A j \in DOMAIN table : ~ Before(table[j], table[i])

PrevHashMatches(i) ==
  /\ IsFirst(i) => table[i].prev = Genesis
  /\ \A r \in DOMAIN table : IsPrevious(r, i) => table[i].prev = table[r].self

SelfHashMatches(i) == table[i].self = Digest(table[i], table[i].prev)

VerifierAccepts ==
  \A i \in DOMAIN table : PrevHashMatches(i) /\ SelfHashMatches(i)

-----------------------------------------------------------------------------
(* Properties *)

Digests == [id : Nat, ts : Nat, link : Links, prev : Nat]
Rows    == [id : Ids, ts : Nat, link : Links, prev : Digests, self : Digests]

TypeOK ==
  /\ table \in Seq(Rows)
  /\ writer \in [Writers -> [pc : {"stamped", "locked", "appended"}, row : Rows] \cup {Idle}]
  /\ lock \in Writers \cup {Nobody}
  /\ clock \in Nat
  /\ usedIds \in SUBSET Ids
  /\ edited \in BOOLEAN

(* Every committed row carries the self_hash of the row that was the head  *)
(* of the chain when it was committed: nobody slips a row in between the   *)
(* head read and the commit, and no row hangs on one rolled back.          *)
LinkedToHead ==
  \A i \in DOMAIN table : LastHashOf(table[i].prev, i - 1)

(* Commits happened in replay order.                                       *)
CommitsInOrder ==
  \A i, j \in DOMAIN table : i < j => Before(table[i], table[j])

(* The verifier accepts whatever the writers produce, provided the commit  *)
(* order agrees with the timestamps drawn before the lock and no committed *)
(* row was updated; the runs audit_fork and audit_backfill show that neither  *)
(* proviso can be dropped.                                                 *)
OrderedChainVerifies == CommitsInOrder /\ ~edited => VerifierAccepts

(* The chain has one beginning: at most one row hangs on the genesis hash, *)
(* however many sessions race for an empty table.                          *)
SingleGenesis ==
  \A i, j \in DOMAIN table :
    table[i].prev = Genesis /\ table[j].prev = Genesis => i = j

(* A fork is always an inversion: of two rows with one parent, the earlier *)
(* was committed with a timestamp below a row already in the table.        *)
ForkNeedsInversion ==
  \A i, j \in DOMAIN table :
    i < j /\ table[i].prev = table[j].prev =>
      \E h \in 1..(i - 1) : Before(table[i], table[h])

(* What the comment of with_chain_lock claims for the lock.                *)
ChainNeverForks ==
  \A i, j \in DOMAIN table : table[i].prev = table[j].prev => i = j
=============================================================================
