-------------------------- MODULE AuditChain_proofs --------------------------
(***************************************************************************)
(* Safety of the hash-chained audit tables, for every set of writers, keys *)
(* and lineages and any clock bound.                                       *)
(*                                                                         *)
(* IInv adds to the type invariant what makes the advisory lock work:      *)
(* between the head read and the commit a writer holds the lock            *)
(* (LockInv), so the head it has read is still the head when it commits    *)
(* (HeadInv); keys are never drawn twice (KeysInv); and a digest names the *)
(* row it was computed from (DigestInv).                                   *)
(***************************************************************************)
EXTENDS AuditChain, TLAPS, SequenceTheorems

(* A writer that is past with_chain_lock holds the lock.                   *)
LockInv ==
  \A w \in Writers : writer[w].pc \in {"locked", "appended"} => lock = w

(* The head that an appending writer has read is the present head.         *)
HeadInv ==
  \A w \in Writers :
    writer[w].pc = "appended" => LastHashOf(writer[w].row.prev, Len(table))

(* Primary keys are drawn once.                                            *)
KeysInv ==
  /\ \A i \in DOMAIN table : table[i].id \in usedIds
  /\ \A i, j \in DOMAIN table : table[i].id = table[j].id => i = j
  /\ \A w \in Writers : writer[w].pc # "idle" =>
       /\ writer[w].row.id \in usedIds
       /\ \A i \in DOMAIN table : table[i].id # writer[w].row.id
       /\ \A v \in Writers \ {w} :
            writer[v].pc # "idle" => writer[v].row.id # writer[w].row.id

(* A stored hash was computed from the row's key; as long as no row was    *)
(* updated, from all of the row.                                           *)
DigestInv ==
  /\ \A i \in DOMAIN table :
       /\ table[i].self.id = table[i].id
       /\ ~edited => table[i].self = Digest(table[i], table[i].prev)
  /\ \A w \in Writers : writer[w].pc = "appended" =>
       writer[w].row.self = Digest(writer[w].row, writer[w].row.prev)

IInv ==
  /\ TypeOK
  /\ LockInv
  /\ HeadInv
  /\ KeysInv
  /\ DigestInv
  /\ LinkedToHead

-----------------------------------------------------------------------------
(* Type correctness *)

LEMMA GenesisType == Genesis \in Digests
  BY DEF Genesis, Digests, Links

LEMMA DigestType ==
  ASSUME NEW r \in Rows, NEW d \in Digests
  PROVE  Digest(r, d) \in Digests
  BY IdsAreNaturals DEF Rows, Digests, Digest, Links

LEMMA TableRow ==
  ASSUME TypeOK, NEW i \in DOMAIN table
  PROVE  /\ table[i] \in Rows
         /\ table[i].id \in Nat \ {0}
         /\ table[i].ts \in Nat
         /\ table[i].prev \in Digests
         /\ table[i].self \in Digests
<1>1. table[i] \in Rows
  BY DEF TypeOK
<1> QED
  BY <1>1, IdsAreNaturals DEF Rows

LEMMA ChainedRow ==
  ASSUME NEW r \in Rows, NEW d \in Digests, NEW e \in Digests
  PROVE  [r EXCEPT !.prev = d, !.self = e] \in Rows
  BY DEF Rows

LEMMA ActiveWriter ==
  ASSUME TypeOK, NEW w \in Writers, writer[w].pc # "idle"
  PROVE  /\ writer[w] \in [pc : {"stamped", "locked", "appended"}, row : Rows]
         /\ writer[w].row \in Rows
         /\ writer[w] = [pc |-> writer[w].pc, row |-> writer[w].row]
<1>1. writer[w] \in [pc : {"stamped", "locked", "appended"}, row : Rows] \cup {Idle}
  BY DEF TypeOK
<1>2. writer[w] # Idle
  BY DEF Idle
<1> QED
  BY <1>1, <1>2

LEMMA TypeInit == ASSUME Init PROVE TypeOK
<1>1. table \in Seq(Rows)
  BY EmptySeq DEF Init
<1> QED
  BY <1>1 DEF Init, TypeOK

LEMMA TypeStep ==
  ASSUME TypeOK, [Next]_vars
  PROVE  TypeOK'
<1> USE DEF TypeOK
<1>1. CASE Tick
  BY <1>1, MaxTimeIsNatural DEF Tick
<1>2. CASE Backfill
  <2>1. PICK l \in Lineages, rows \in SUBSET DOMAIN table :
          table' = [i \in DOMAIN table |->
                      IF i \in rows THEN [table[i] EXCEPT !.link = l] ELSE table[i]]
    BY <1>2 DEF Backfill
  <2>2. DOMAIN table = 1..Len(table) /\ Len(table) \in Nat
    OBVIOUS
  <2>3. \A i \in DOMAIN table :
          (IF i \in rows THEN [table[i] EXCEPT !.link = l] ELSE table[i]) \in Rows
    <3> SUFFICES ASSUME NEW i \in DOMAIN table
                 PROVE  /\ table[i] \in Rows
                        /\ [table[i] EXCEPT !.link = l] \in Rows
      OBVIOUS
    <3>1. table[i] \in Rows
      BY <2>2
    <3>2. [table[i] EXCEPT !.link = l] \in Rows
      BY <3>1 DEF Rows, Links
    <3> QED
      BY <3>1, <3>2
  <2>4. table' \in Seq(Rows)
    BY <2>1, <2>2, <2>3, IsASeq
  <2> QED
    BY <1>2, <2>4 DEF Backfill
<1>3. CASE \E w \in Writers : Stamp(w)
  <2>1. PICK w \in Writers : Stamp(w)
    BY <1>3
  <2>2. PICK i \in Ids \ usedIds, l \in Links :
          /\ writer' = [writer EXCEPT ![w] =
                          [pc |-> "stamped",
                           row |-> [Blank EXCEPT !.id = i, !.ts = clock, !.link = l]]]
          /\ usedIds' = usedIds \cup {i}
    BY <2>1 DEF Stamp
  <2>3. [Blank EXCEPT !.id = i, !.ts = clock, !.link = l] \in Rows
    BY GenesisType DEF Blank, Rows
  <2> QED
    BY <2>1, <2>2, <2>3 DEF Stamp
<1>4. CASE \E w \in Writers : Acquire(w)
  <2>1. PICK w \in Writers : Acquire(w)
    BY <1>4
  <2>2. writer[w] \in [pc : {"stamped", "locked", "appended"}, row : Rows]
    BY <2>1, ActiveWriter DEF Acquire
  <2>3. [writer[w] EXCEPT !.pc = "locked"]
          \in [pc : {"stamped", "locked", "appended"}, row : Rows]
    BY <2>2
  <2> QED
    BY <2>1, <2>3 DEF Acquire
<1>5. CASE \E w \in Writers : AppendChained(w)
  <2>1. PICK w \in Writers : AppendChained(w)
    BY <1>5
  <2>2. PICK d \in {Genesis} \cup {table[i].self : i \in DOMAIN table} :
          writer' = [writer EXCEPT ![w].pc = "appended",
                                   ![w].row.prev = d,
                                   ![w].row.self = Digest(writer[w].row, d)]
    BY <2>1 DEF AppendChained
  <2>3. d \in Digests
    BY <2>2, GenesisType, TableRow
  <2>4. writer[w].row \in Rows
    BY <2>1, ActiveWriter DEF AppendChained
  <2>5. Digest(writer[w].row, d) \in Digests
    BY <2>3, <2>4, DigestType
  <2>6. writer'[w] = [pc |-> "appended",
                      row |-> [writer[w].row EXCEPT !.prev = d,
                                 !.self = Digest(writer[w].row, d)]]
    <3>1. writer[w] = [pc |-> "locked", row |-> writer[w].row]
      BY <2>1, ActiveWriter DEF AppendChained
    <3> QED
      BY <2>2, <3>1
  <2>7. writer'[w].row \in Rows
    <3>1. [writer[w].row EXCEPT !.prev = d, !.self = Digest(writer[w].row, d)] \in Rows
      BY <2>3, <2>4, <2>5, ChainedRow
    <3> QED
      BY <2>6, <3>1
  <2> QED
    <3>1. writer'[w] \in [pc : {"stamped", "locked", "appended"}, row : Rows]
      BY <2>6, <2>7
    <3>2. writer' = [writer EXCEPT ![w] = writer'[w]]
      BY <2>2
    <3>3. writer' \in [Writers -> [pc : {"stamped", "locked", "appended"}, row : Rows]
                                    \cup {Idle}]
      BY <3>1, <3>2
    <3> QED
      BY <2>1, <3>3 DEF AppendChained
<1>6. CASE \E w \in Writers : Commit(w)
  <2>1. PICK w \in Writers : Commit(w)
    BY <1>6
  <2>2. writer[w].row \in Rows
    BY <2>1, ActiveWriter DEF Commit
  <2>3. table' \in Seq(Rows)
    BY <2>1, <2>2, AppendProperties DEF Commit
  <2> QED
    BY <2>1, <2>3 DEF Commit
<1>7. CASE \E w \in Writers : Rollback(w)
  BY <1>7 DEF Rollback
<1>8. CASE UNCHANGED vars
  BY <1>8 DEF vars
<1> QED
  BY <1>1, <1>2, <1>3, <1>4, <1>5, <1>6, <1>7, <1>8 DEF Next, WriterStep

(* Every variable keeps its type: rows stay rows, the lock has at most one *)
(* holder, and an idle session keeps nothing of its last append.           *)
THEOREM TypeCorrect == Spec => []TypeOK
<1>1. Init => TypeOK
  BY TypeInit
<1>2. TypeOK /\ [Next]_vars => TypeOK'
  BY TypeStep
<1> QED
  BY <1>1, <1>2, PTL DEF Spec

-----------------------------------------------------------------------------
(* The inductive invariant *)

(* The head of a prefix depends on keys, clocks and stored hashes only, so *)
(* neither a commit nor a back-filled lineage_id moves it.                 *)
LEMMA HeadFrame ==
  ASSUME NEW n \in Nat, NEW d,
         \A i \in 1..n : /\ table'[i].id = table[i].id
                         /\ table'[i].ts = table[i].ts
                         /\ table'[i].self = table[i].self
  PROVE  LastHashOf(d, n)' <=> LastHashOf(d, n)
  BY DEF LastHashOf, IsHeadOf, Before

(* What the steps other than Backfill do to the table.                     *)
LEMMA CommitEffect ==
  ASSUME TypeOK, NEW w \in Writers, Commit(w)
  PROVE  /\ Len(table') = Len(table) + 1
         /\ DOMAIN table = 1..Len(table)
         /\ DOMAIN table' = 1..(Len(table) + 1)
         /\ \A i \in 1..Len(table) : table'[i] = table[i]
         /\ table'[Len(table) + 1] = writer[w].row
<1>1. writer[w].row \in Rows
  BY ActiveWriter DEF Commit
<1> QED
  BY <1>1, AppendProperties DEF Commit, TypeOK

(* What Backfill does to the table.                                        *)
LEMMA BackfillEffect ==
  ASSUME TypeOK, Backfill
  PROVE  /\ Len(table') = Len(table)
         /\ DOMAIN table' = DOMAIN table
         /\ DOMAIN table = 1..Len(table)
         /\ \A i \in DOMAIN table : /\ table'[i].id = table[i].id
                                    /\ table'[i].ts = table[i].ts
                                    /\ table'[i].prev = table[i].prev
                                    /\ table'[i].self = table[i].self
<1>1. PICK l \in Lineages, rows \in SUBSET DOMAIN table :
        table' = [i \in DOMAIN table |->
                    IF i \in rows THEN [table[i] EXCEPT !.link = l] ELSE table[i]]
  BY DEF Backfill
<1>2. DOMAIN table' = DOMAIN table /\ DOMAIN table = 1..Len(table) /\ Len(table) \in Nat
  BY <1>1 DEF TypeOK
<1>3. Len(table') = Len(table)
  BY <1>1, <1>2
<1>4. ASSUME NEW i \in DOMAIN table
      PROVE  /\ table'[i].id = table[i].id
             /\ table'[i].ts = table[i].ts
             /\ table'[i].prev = table[i].prev
             /\ table'[i].self = table[i].self
  <2>1. table[i] \in Rows
    BY TableRow
  <2>2. table'[i] = IF i \in rows THEN [table[i] EXCEPT !.link = l] ELSE table[i]
    BY <1>1
  <2> QED
    BY <2>1, <2>2 DEF Rows
<1> QED
  BY <1>2, <1>3, <1>4

(* The lock: nobody enters while it is held, and who leaves frees it.      *)
LEMMA LockStep ==
  ASSUME IInv, [Next]_vars
  PROVE  LockInv'
<1> USE DEF IInv, LockInv
<1>1. CASE UNCHANGED <<writer, lock>>
  BY <1>1
<1>2. ASSUME NEW v \in Writers, Stamp(v) PROVE LockInv'
  BY <1>2 DEF Stamp, TypeOK
<1>3. ASSUME NEW v \in Writers, Acquire(v) PROVE LockInv'
  BY <1>3, NobodyIsNoWriter DEF Acquire, TypeOK, Nobody
<1>4. ASSUME NEW v \in Writers, AppendChained(v) PROVE LockInv'
  BY <1>4 DEF AppendChained, TypeOK
<1>5. ASSUME NEW v \in Writers, Commit(v) PROVE LockInv'
  BY <1>5 DEF Commit, TypeOK, Idle
<1>6. ASSUME NEW v \in Writers, Rollback(v) PROVE LockInv'
  BY <1>6 DEF Rollback, TypeOK, Idle
<1> QED
  BY <1>1, <1>2, <1>3, <1>4, <1>5, <1>6
     DEF Next, WriterStep, Tick, Backfill, vars

(* The head read: only the lock holder changes the table, and it is past   *)
(* its own read when it does.                                              *)
LEMMA HeadStep ==
  ASSUME IInv, [Next]_vars
  PROVE  HeadInv'
<1> USE DEF IInv, HeadInv
<1>0. Len(table) \in Nat /\ DOMAIN table = 1..Len(table)
  BY DEF TypeOK
<1>1. ASSUME UNCHANGED table,
             \A w \in Writers : writer'[w].pc = "appended" =>
               writer[w].pc = "appended" /\ writer'[w].row = writer[w].row
      PROVE  HeadInv'
  BY <1>0, <1>1, HeadFrame
<1>2. CASE Backfill
  <2> SUFFICES ASSUME NEW w \in Writers, writer[w].pc = "appended"
               PROVE  LastHashOf(writer[w].row.prev, Len(table))'
    BY <1>2 DEF Backfill
  <2>1. LastHashOf(writer[w].row.prev, Len(table))
    OBVIOUS
  <2> DEFINE d == writer[w].row.prev
             n == Len(table)
  <2>2. d' = d /\ n' = n /\ n \in Nat
    BY <1>0, <1>2, BackfillEffect DEF Backfill
  <2>3. \A i \in 1..n : /\ table'[i].id = table[i].id
                        /\ table'[i].ts = table[i].ts
                        /\ table'[i].self = table[i].self
    BY <1>0, <1>2, BackfillEffect
  <2> QED
    BY <2>1, <2>2, <2>3 DEF LastHashOf, IsHeadOf, Before
<1>3. ASSUME NEW v \in Writers, AppendChained(v) PROVE HeadInv'
  <2>1. PICK d \in {Genesis} \cup {table[i].self : i \in DOMAIN table} :
          /\ LastHashOf(d, Len(table))
          /\ writer' = [writer EXCEPT ![v].pc = "appended",
                                     ![v].row.prev = d,
                                     ![v].row.self = Digest(writer[v].row, d)]
    BY <1>3 DEF AppendChained
  <2>2. LastHashOf(d, Len(table))'
    BY <1>0, <1>3, <2>1, HeadFrame DEF AppendChained
  <2>3. writer[v] = [pc |-> "locked", row |-> writer[v].row] /\ writer[v].row \in Rows
    BY <1>3, ActiveWriter DEF AppendChained
  <2>4. writer'[v].row.prev = d
    BY <2>1, <2>3 DEF TypeOK, Rows
  <2>5. ASSUME NEW w \in Writers \ {v}, writer'[w].pc = "appended"
        PROVE  LastHashOf(writer[w].row.prev, Len(table))' /\ writer'[w] = writer[w]
    <3>1. writer'[w] = writer[w]
      BY <2>1 DEF TypeOK
    <3>2. LastHashOf(writer[w].row.prev, Len(table))
      BY <2>5, <3>1
    <3> DEFINE e == writer[w].row.prev
    <3>3. e' = e /\ table' = table
      BY <3>1, <1>3 DEF AppendChained
    <3> QED
      BY <3>1, <3>2, <3>3 DEF LastHashOf, IsHeadOf, Before
  <2> QED
    BY <2>2, <2>4, <2>5
<1>4. ASSUME NEW v \in Writers, Commit(v) PROVE HeadInv'
  <2>1. \A w \in Writers : writer'[w].pc # "appended"
    BY <1>4 DEF Commit, TypeOK, Idle, LockInv
  <2> QED
    BY <2>1
<1>5. CASE Tick \/ UNCHANGED vars
  BY <1>5, <1>1 DEF Tick, vars
<1>6. ASSUME NEW v \in Writers, Stamp(v) \/ Acquire(v) \/ Rollback(v) PROVE HeadInv'
  <2>1. writer'[v].pc # "appended"
    <3>1. CASE Stamp(v)
      BY <3>1 DEF Stamp, TypeOK
    <3>2. CASE Acquire(v)
      BY <3>2, ActiveWriter DEF Acquire, TypeOK
    <3>3. CASE Rollback(v)
      BY <3>3 DEF Rollback, TypeOK, Idle
    <3> QED
      BY <1>6, <3>1, <3>2, <3>3
  <2>2. \A w \in Writers \ {v} : writer'[w] = writer[w]
    BY <1>6 DEF Stamp, Acquire, Rollback, TypeOK
  <2>3. UNCHANGED table
    BY <1>6 DEF Stamp, Acquire, Rollback
  <2> QED
    BY <1>1, <2>1, <2>2, <2>3
<1> QED
  BY <1>2, <1>3, <1>4, <1>5, <1>6 DEF Next, WriterStep

(* Keys: Stamp draws a fresh one, and a committed row leaves its writer.   *)
LEMMA KeysStep ==
  ASSUME IInv, [Next]_vars
  PROVE  KeysInv'
<1> USE DEF IInv, KeysInv
<1>1. ASSUME UNCHANGED <<table, usedIds>>,
             \A w \in Writers : writer'[w].pc # "idle" =>
               writer[w].pc # "idle" /\ writer'[w].row.id = writer[w].row.id
      PROVE  KeysInv'
  BY <1>1
<1>2. CASE Backfill
  BY <1>2, BackfillEffect DEF Backfill
<1>3. ASSUME NEW v \in Writers, Stamp(v) PROVE KeysInv'
  <2>1. PICK i \in Ids \ usedIds, l \in Links :
          /\ writer' = [writer EXCEPT ![v] =
                          [pc |-> "stamped",
                           row |-> [Blank EXCEPT !.id = i, !.ts = clock, !.link = l]]]
          /\ usedIds' = usedIds \cup {i}
    BY <1>3 DEF Stamp
  <2>2. writer'[v].row.id = i
    BY <2>1 DEF TypeOK, Blank
  <2>3. \A w \in Writers \ {v} : writer'[w] = writer[w]
    BY <2>1 DEF TypeOK
  <2>4. table' = table
    BY <1>3 DEF Stamp
  <2> QED
    BY <2>1, <2>2, <2>3, <2>4
<1>4. ASSUME NEW v \in Writers, AppendChained(v) PROVE KeysInv'
  <2>1. PICK d \in {Genesis} \cup {table[i].self : i \in DOMAIN table} :
          writer' = [writer EXCEPT ![v].pc = "appended",
                                   ![v].row.prev = d,
                                   ![v].row.self = Digest(writer[v].row, d)]
    BY <1>4 DEF AppendChained
  <2>2. writer[v] = [pc |-> "locked", row |-> writer[v].row] /\ writer[v].row \in Rows
    BY <1>4, ActiveWriter DEF AppendChained
  <2>3. writer'[v].row.id = writer[v].row.id
    BY <2>1, <2>2 DEF TypeOK, Rows
  <2>4. \A w \in Writers \ {v} : writer'[w] = writer[w]
    BY <2>1 DEF TypeOK
  <2> QED
    BY <1>1, <1>4, <2>3, <2>4 DEF AppendChained
<1>5. ASSUME NEW v \in Writers, Commit(v) PROVE KeysInv'
  <2>1. \A w \in Writers \ {v} : writer'[w] = writer[w]
    BY <1>5 DEF Commit, TypeOK
  <2>2. writer'[v].pc = "idle"
    BY <1>5 DEF Commit, TypeOK, Idle
  <2>3. usedIds' = usedIds /\ writer[v].pc # "idle"
    BY <1>5 DEF Commit
  <2> DEFINE n == Len(table)
  <2>4. /\ n \in Nat
        /\ DOMAIN table = 1..n
        /\ DOMAIN table' = 1..(n + 1)
        /\ \A i \in 1..n : table'[i] = table[i]
        /\ table'[n + 1] = writer[v].row
    BY <1>5, CommitEffect DEF TypeOK
  <2>5. \A i \in DOMAIN table' : i \in 1..n \/ i = n + 1
    BY <2>4
  <2>6. \A i \in DOMAIN table' : table'[i].id \in usedIds
    BY <2>3, <2>4, <2>5
  <2>7. \A i, j \in DOMAIN table' : table'[i].id = table'[j].id => i = j
    BY <2>3, <2>4, <2>5
  <2>8. \A w \in Writers \ {v} : writer[w].pc # "idle" =>
          \A i \in DOMAIN table' : table'[i].id # writer[w].row.id
    BY <2>3, <2>4, <2>5
  <2> QED
    BY <2>1, <2>2, <2>3, <2>6, <2>7, <2>8
<1>6. CASE Tick \/ UNCHANGED vars
  BY <1>6, <1>1 DEF Tick, vars
<1>7. ASSUME NEW v \in Writers, Acquire(v) \/ Rollback(v) PROVE KeysInv'
  BY <1>7, <1>1 DEF Acquire, Rollback, TypeOK, Idle
<1> QED
  BY <1>2, <1>3, <1>4, <1>5, <1>6, <1>7 DEF Next, WriterStep

(* Digests: a row is hashed after its last change by its writer, and only  *)
(* Backfill changes it later, which sets edited.                           *)
LEMMA DigestStep ==
  ASSUME IInv, [Next]_vars
  PROVE  DigestInv'
<1> USE DEF IInv, DigestInv
<1>1. ASSUME UNCHANGED <<table, edited>>,
             \A w \in Writers : writer'[w].pc = "appended" =>
               writer[w].pc = "appended" /\ writer'[w].row = writer[w].row
      PROVE  DigestInv'
  BY <1>1 DEF Digest
<1>2. CASE Backfill
  <2>1. edited' = TRUE /\ UNCHANGED writer
    BY <1>2 DEF Backfill
  <2> QED
    BY <1>2, <2>1, BackfillEffect DEF Digest
<1>3. ASSUME NEW v \in Writers, AppendChained(v) PROVE DigestInv'
  <2>1. PICK d \in {Genesis} \cup {table[i].self : i \in DOMAIN table} :
          writer' = [writer EXCEPT ![v].pc = "appended",
                                   ![v].row.prev = d,
                                   ![v].row.self = Digest(writer[v].row, d)]
    BY <1>3 DEF AppendChained
  <2>2. writer[v] = [pc |-> "locked", row |-> writer[v].row] /\ writer[v].row \in Rows
    BY <1>3, ActiveWriter DEF AppendChained
  <2>3. writer'[v].row = [writer[v].row EXCEPT !.prev = d,
                                               !.self = Digest(writer[v].row, d)]
    BY <2>1, <2>2 DEF TypeOK
  <2>4. writer'[v].row.self = Digest(writer'[v].row, writer'[v].row.prev)
    BY <2>2, <2>3 DEF Rows, Digest
  <2>5. \A w \in Writers \ {v} : writer'[w] = writer[w]
    BY <2>1 DEF TypeOK
  <2>6. UNCHANGED <<table, edited>>
    BY <1>3 DEF AppendChained
  <2> QED
    BY <2>4, <2>5, <2>6 DEF Digest
<1>4. ASSUME NEW v \in Writers, Commit(v) PROVE DigestInv'
  <2> DEFINE n == Len(table)
  <2>1. /\ n \in Nat
        /\ DOMAIN table = 1..n
        /\ DOMAIN table' = 1..(n + 1)
        /\ \A i \in 1..n : table'[i] = table[i]
        /\ table'[n + 1] = writer[v].row
    BY <1>4, CommitEffect DEF TypeOK
  <2>2. writer[v].row.self = Digest(writer[v].row, writer[v].row.prev)
    BY <1>4 DEF Commit
  <2>3. \A w \in Writers : writer'[w].pc = "appended" => writer'[w] = writer[w]
    BY <1>4 DEF Commit, TypeOK, Idle
  <2>4. edited' = edited
    BY <1>4 DEF Commit
  <2>5. ASSUME NEW i \in DOMAIN table'
        PROVE  /\ table'[i].self.id = table'[i].id
               /\ ~edited' => table'[i].self = Digest(table'[i], table'[i].prev)
    <3>1. CASE i \in 1..n
      BY <2>1, <2>4, <3>1 DEF Digest
    <3>2. CASE i = n + 1
      BY <2>1, <2>2, <3>2 DEF Digest
    <3> QED
      BY <2>1, <3>1, <3>2
  <2> QED
    BY <2>3, <2>5 DEF Digest
<1>5. CASE Tick \/ UNCHANGED vars
  BY <1>5, <1>1 DEF Tick, vars
<1>6. ASSUME NEW v \in Writers, Stamp(v) \/ Acquire(v) \/ Rollback(v) PROVE DigestInv'
  <2>1. writer'[v].pc # "appended"
    <3>1. CASE Stamp(v)
      BY <3>1 DEF Stamp, TypeOK
    <3>2. CASE Acquire(v)
      BY <3>2, ActiveWriter DEF Acquire, TypeOK
    <3>3. CASE Rollback(v)
      BY <3>3 DEF Rollback, TypeOK, Idle
    <3> QED
      BY <1>6, <3>1, <3>2, <3>3
  <2>2. \A w \in Writers \ {v} : writer'[w] = writer[w]
    BY <1>6 DEF Stamp, Acquire, Rollback, TypeOK
  <2>3. UNCHANGED <<table, edited>>
    BY <1>6 DEF Stamp, Acquire, Rollback
  <2> QED
    BY <1>1, <2>1, <2>2, <2>3
<1> QED
  BY <1>2, <1>3, <1>4, <1>5, <1>6 DEF Next, WriterStep

(* The chain: the committed row hangs on the head its writer has read.     *)
LEMMA ChainStep ==
  ASSUME IInv, [Next]_vars
  PROVE  LinkedToHead'
<1> USE DEF IInv, LinkedToHead
<1>0. Len(table) \in Nat /\ DOMAIN table = 1..Len(table)
  BY DEF TypeOK
<1>1. CASE UNCHANGED table
  BY <1>0, <1>1, HeadFrame
<1>2. CASE Backfill
  <2>1. /\ DOMAIN table' = DOMAIN table
        /\ \A i \in DOMAIN table : /\ table'[i].id = table[i].id
                                   /\ table'[i].ts = table[i].ts
                                   /\ table'[i].prev = table[i].prev
                                   /\ table'[i].self = table[i].self
    BY <1>2, BackfillEffect
  <2> SUFFICES ASSUME NEW i \in DOMAIN table
               PROVE  LastHashOf(table[i].prev, i - 1)'
    BY <2>1
  <2>2. LastHashOf(table[i].prev, i - 1)
    OBVIOUS
  <2>3. i - 1 \in Nat /\ \A j \in 1..(i - 1) : j \in DOMAIN table
    BY <1>0
  <2> QED
    BY <2>1, <2>2, <2>3 DEF LastHashOf, IsHeadOf, Before
<1>3. ASSUME NEW v \in Writers, Commit(v) PROVE LinkedToHead'
  <2> DEFINE n == Len(table)
  <2>1. /\ DOMAIN table' = 1..(n + 1)
        /\ \A i \in 1..n : table'[i] = table[i]
        /\ table'[n + 1] = writer[v].row
    BY <1>3, CommitEffect
  <2>2. LastHashOf(writer[v].row.prev, n)
    BY <1>3 DEF Commit, HeadInv
  <2> SUFFICES ASSUME NEW i \in 1..(n + 1)
               PROVE  LastHashOf(table[i].prev, i - 1)'
    BY <2>1
  <2>3. i - 1 \in Nat /\ \A j \in 1..(i - 1) : j \in 1..n
    BY <1>0
  <2>4. CASE i = n + 1
    <3>1. table'[i].prev = writer[v].row.prev /\ i - 1 = n
      BY <1>0, <2>1, <2>4
    <3>2. LastHashOf(writer[v].row.prev, i - 1)
      BY <2>2, <3>1
    <3> QED
      BY <2>1, <2>3, <3>1, <3>2 DEF LastHashOf, IsHeadOf, Before
  <2>5. CASE i \in 1..n
    <3>1. table'[i].prev = table[i].prev /\ LastHashOf(table[i].prev, i - 1)
      BY <1>0, <2>1, <2>5
    <3> QED
      BY <2>1, <2>3, <3>1 DEF LastHashOf, IsHeadOf, Before
  <2> QED
    BY <1>0, <2>4, <2>5
<1> QED
  BY <1>1, <1>2, <1>3
     DEF Next, WriterStep, Tick, Stamp, Acquire, AppendChained, Rollback, vars

LEMMA Inductive == Spec => []IInv
<1>1. Init => IInv
  <2> SUFFICES ASSUME Init PROVE IInv
    OBVIOUS
  <2>1. TypeOK
    BY TypeInit
  <2>2. DOMAIN table = {}
    BY DEF Init
  <2>3. LockInv /\ HeadInv
    BY DEF Init, Idle, LockInv, HeadInv
  <2>4. KeysInv /\ DigestInv /\ LinkedToHead
    BY <2>2 DEF Init, Idle, KeysInv, DigestInv, LinkedToHead
  <2> QED
    BY <2>1, <2>3, <2>4 DEF IInv
<1>2. IInv /\ [Next]_vars => IInv'
  BY TypeStep, LockStep, HeadStep, KeysStep, DigestStep, ChainStep DEF IInv
<1> QED
  BY <1>1, <1>2, PTL DEF Spec

-----------------------------------------------------------------------------
(* What the invariant says of the chain *)

(* Every committed row carries the hash of the row that was the head of    *)
(* the chain at its commit, whatever the number of concurrent sessions.    *)
THEOREM ChainIsLinked == Spec => []LinkedToHead
<1>1. IInv => LinkedToHead
  BY DEF IInv
<1> QED
  BY <1>1, Inductive, PTL

LEMMA OneGenesis == ASSUME IInv PROVE SingleGenesis
<1> SUFFICES ASSUME NEW i \in DOMAIN table, table[i].prev = Genesis
             PROVE  i = 1
  BY DEF SingleGenesis
<1>1. i \in Nat /\ DOMAIN table = 1..Len(table) /\ Len(table) \in Nat
  BY DEF IInv, TypeOK
<1>2. LastHashOf(Genesis, i - 1)
  BY DEF IInv, LinkedToHead
<1>3. ASSUME NEW h \in 1..(i - 1) PROVE table[h].self # Genesis
  <2>1. h \in DOMAIN table
    BY <1>1
  <2>2. table[h].self.id = table[h].id /\ table[h].id # 0
    BY <2>1, TableRow DEF IInv, DigestInv
  <2> QED
    BY <2>2 DEF Genesis
<1> QED
  BY <1>1, <1>2, <1>3 DEF LastHashOf

(* At most one committed row hangs on the genesis hash.                    *)
THEOREM GenesisIsUnique == Spec => []SingleGenesis
  BY Inductive, OneGenesis, PTL

LEMMA ForkIsInversion == ASSUME IInv PROVE ForkNeedsInversion
<1> SUFFICES ASSUME NEW i \in DOMAIN table, NEW j \in DOMAIN table,
                    i < j, table[i].prev = table[j].prev
             PROVE  \E h \in 1..(i - 1) : Before(table[i], table[h])
  BY DEF ForkNeedsInversion
<1>1. /\ i \in Nat \ {0} /\ j \in Nat \ {0}
      /\ DOMAIN table = 1..Len(table) /\ Len(table) \in Nat
  BY DEF IInv, TypeOK
<1>2. table[j].prev # Genesis
  <2>1. SingleGenesis
    BY OneGenesis
  <2> QED
    BY <1>1, <2>1 DEF SingleGenesis
<1>3. LastHashOf(table[i].prev, i - 1) /\ LastHashOf(table[j].prev, j - 1)
  BY DEF IInv, LinkedToHead
<1>4. PICK h \in 1..(i - 1) : IsHeadOf(h, i - 1) /\ table[i].prev = table[h].self
  BY <1>2, <1>3 DEF LastHashOf
<1>5. PICK k \in 1..(j - 1) : IsHeadOf(k, j - 1) /\ table[j].prev = table[k].self
  BY <1>2, <1>3 DEF LastHashOf
<1>6. h \in DOMAIN table /\ k \in DOMAIN table
  BY <1>1
<1>7. h = k
  <2>1. table[h].self = table[k].self
    BY <1>4, <1>5
  <2>2. table[h].self.id = table[h].id /\ table[k].self.id = table[k].id
    BY <1>6 DEF IInv, DigestInv
  <2>3. table[h].id = table[k].id
    BY <2>1, <2>2
  <2> QED
    BY <1>6, <2>3 DEF IInv, KeysInv
<1>8. i \in 1..(j - 1) /\ i # k
  BY <1>1, <1>7
<1>9. Before(table[i], table[k])
  BY <1>5, <1>8 DEF IsHeadOf
<1> QED
  BY <1>7, <1>9

(* Two rows fork only when a timestamp drawn before the lock is overtaken  *)
(* by the commit of another writer.                                        *)
THEOREM ForksAreInversions == Spec => []ForkNeedsInversion
  BY Inductive, ForkIsInversion, PTL

LEMMA BeforeIsAnOrder ==
  ASSUME TypeOK, NEW i \in DOMAIN table, NEW j \in DOMAIN table,
         Before(table[i], table[j])
  PROVE  i # j /\ ~ Before(table[j], table[i])
  BY TableRow DEF Before

LEMMA OrderedVerifies == ASSUME IInv PROVE OrderedChainVerifies
<1> SUFFICES ASSUME CommitsInOrder, ~edited, NEW i \in DOMAIN table
             PROVE  PrevHashMatches(i) /\ SelfHashMatches(i)
  BY DEF OrderedChainVerifies, VerifierAccepts
<1>1. /\ i \in Nat \ {0}
      /\ DOMAIN table = 1..Len(table) /\ Len(table) \in Nat
  BY DEF IInv, TypeOK
<1>2. SelfHashMatches(i)
  BY DEF SelfHashMatches, IInv, DigestInv
<1>3. LastHashOf(table[i].prev, i - 1)
  BY DEF IInv, LinkedToHead
<1>4. ASSUME IsFirst(i) PROVE table[i].prev = Genesis
  <2>1. i = 1
    <3> SUFFICES ASSUME i # 1 PROVE FALSE
      OBVIOUS
    <3>1. 1 \in DOMAIN table /\ 1 < i
      BY <1>1
    <3> QED
      BY <1>4, <3>1 DEF IsFirst, CommitsInOrder
  <2> QED
    BY <1>3, <2>1 DEF LastHashOf
<1>5. ASSUME NEW r \in DOMAIN table, IsPrevious(r, i)
      PROVE  table[i].prev = table[r].self
  <2>1. r < i
    <3>1. r # i /\ ~ Before(table[i], table[r])
      BY <1>5, BeforeIsAnOrder DEF IsPrevious, IInv
    <3>2. ~ (i < r)
      BY <3>1 DEF CommitsInOrder
    <3> QED
      BY <1>1, <3>1, <3>2
  <2> DEFINE p == i - 1
  <2>2. p \in DOMAIN table /\ p < i /\ r <= p
    BY <1>1, <2>1
  <2>3. p = r
    <3> SUFFICES ASSUME p # r PROVE FALSE
      OBVIOUS
    <3>1. Before(table[p], table[r])
      BY <2>2, <1>5 DEF IsPrevious, CommitsInOrder
    <3>2. r < p
      BY <1>1, <2>2
    <3>3. Before(table[r], table[p])
      BY <2>2, <3>2 DEF CommitsInOrder
    <3> QED
      BY <2>2, <3>1, <3>3, BeforeIsAnOrder DEF IInv
  <2>4. PICK h \in 1..p : IsHeadOf(h, p) /\ table[i].prev = table[h].self
    BY <1>1, <1>3, <2>2 DEF LastHashOf
  <2>5. h = p
    <3> SUFFICES ASSUME h # p PROVE FALSE
      OBVIOUS
    <3>1. h \in DOMAIN table /\ h < p /\ p \in 1..p
      BY <1>1, <2>2
    <3>2. Before(table[p], table[h])
      BY <2>4, <3>1 DEF IsHeadOf
    <3>3. Before(table[h], table[p])
      BY <2>2, <3>1 DEF CommitsInOrder
    <3> QED
      BY <2>2, <3>1, <3>2, <3>3, BeforeIsAnOrder DEF IInv
  <2> QED
    BY <2>3, <2>4, <2>5
<1> QED
  BY <1>2, <1>4, <1>5 DEF PrevHashMatches

(* The verifier accepts every table whose commits happened in timestamp    *)
(* order and whose rows were not updated.                                  *)
THEOREM OrderedTablesVerify == Spec => []OrderedChainVerifies
  BY Inductive, OrderedVerifies, PTL
=============================================================================
