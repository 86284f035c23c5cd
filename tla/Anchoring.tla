----------------------------- MODULE Anchoring -----------------------------
(***************************************************************************)
(* Anchors of the audit chain: maybe_anchor (security/anchoring.py) as     *)
(* write_lineage calls it, the sinks of worm_local.py and worm_stub.py,    *)
(* and the tables audit_anchors and anchor_state.                          *)
(*                                                                         *)
(* An anchor is written twice: as a row, which is there when the caller's  *)
(* transaction commits, and as a write-once object, which is there at once *)
(* and stays when the transaction is rolled back.  A row of the chain is   *)
(* its place in the replay order, drawn before the lock; the hashes are    *)
(* those of AuditChain.                                                    *)
(***************************************************************************)
EXTENDS Integers, FiniteSets

CONSTANTS
  Writers,     \* sessions that append to lineage_records
  Places,      \* places in the replay order: numbers from 1
  EveryRows,   \* ANCHOR_EVERY_N_ROWS
  EveryTicks,  \* ANCHOR_EVERY_M_MINUTES
  MaxTicks,    \* bound: minutes that pass
  MaxFaults    \* bound: calls that raise

VARIABLES
  local,     \* the sink the application was given: LocalWorm, or NullWorm
  rows,      \* committed rows of the chain
  stamped,   \* per session: the row it has built, 0 for none
  txn,       \* the transaction that holds the lock of the chain
  anchors,   \* audit_anchors
  state,     \* anchor_state
  worm,      \* objects of the sink
  minutes,
  faults

vars == <<local, rows, stamped, txn, anchors, state, worm, minutes, faults>>

Torn  == 0
Never == -1

Nobody  == "nobody"

BoundsOK ==
  /\ Nobody \notin Writers /\ Places \subseteq Nat \ {0}
  /\ EveryRows \in Nat /\ EveryTicks \in Nat
  /\ MaxTicks \in Nat /\ MaxFaults \in Nat

NoTxn   == [pc |-> "free", writer |-> Nobody, seq |-> 0, head |-> 0,
            at |-> Never, adds |-> FALSE]
Pending == [seq |-> txn.seq, row |-> txn.head]

(* read_chain_head: the last row of the table.  The statement is plain     *)
(* text, before which the session flushes nothing: the row just appended   *)
(* is not in the table yet.                                                *)
ChainHead == IF rows = {} THEN 0 ELSE CHOOSE r \in rows : \A q \in rows : q <= r

Init ==
  /\ local \in BOOLEAN
  /\ rows    = {}
  /\ stamped = [w \in Writers |-> 0]
  /\ txn     = NoTxn
  /\ anchors = {}
  /\ state   = [seq |-> 0, count |-> 0, at |-> Never]
  /\ worm    = {}
  /\ minutes = 0
  /\ faults  = MaxFaults

Tick ==
  /\ minutes < MaxTicks
  /\ minutes' = minutes + 1
  /\ UNCHANGED <<local, rows, stamped, txn, anchors, state, worm, faults>>

(* write_lineage builds its record, then waits for the lock.               *)
Stamp(w, r) ==
  /\ stamped[w] = 0
  /\ r \notin rows
  /\ \A v \in Writers : stamped[v] # r
  /\ stamped' = [stamped EXCEPT ![w] = r]
  /\ UNCHANGED <<local, rows, txn, anchors, state, worm, minutes, faults>>

(* with_chain_lock, append_chained and session.add.                        *)
Lock(w) ==
  /\ stamped[w] # 0
  /\ txn = NoTxn
  /\ txn' = [NoTxn EXCEPT !.pc = "appended", !.writer = w]
  /\ UNCHANGED <<local, rows, stamped, anchors, state, worm, minutes, faults>>

(* The cadence.  write_lineage always says row_count = 1, so the rows      *)
(* count only before the first anchor, when minutes alone would do.        *)
RowCount == 1
Due ==
  \/ RowCount - state.count >= EveryRows
  \/ state.at = Never
  \/ minutes - state.at >= EveryTicks

NotDue ==
  /\ txn.pc = "appended"
  /\ ~Due \/ ChainHead = 0
  /\ txn' = [txn EXCEPT !.pc = "written"]
  /\ UNCHANGED <<local, rows, stamped, anchors, state, worm, minutes, faults>>

ReadHead ==
  /\ txn.pc = "appended"
  /\ Due
  /\ ChainHead # 0
  /\ txn' = [txn EXCEPT !.pc = "fired", !.seq = state.seq + 1, !.head = ChainHead,
                          !.at = minutes]
  /\ UNCHANGED <<local, rows, stamped, anchors, state, worm, minutes, faults>>

(* A statement raises, swallowed (the head is unreadable) or not (the      *)
(* state, AnchorError): either way PostgreSQL refuses what follows in this *)
(* transaction, the event included.                                        *)
StatementFails ==
  /\ txn.pc \in {"appended", "stored"}
  /\ faults > 0
  /\ faults' = faults - 1
  /\ txn' = [txn EXCEPT !.pc = "doomed"]
  /\ UNCHANGED <<local, rows, stamped, anchors, state, worm, minutes>>

-----------------------------------------------------------------------------
(* The sink *)

Taken == \E o \in worm : o.seq = txn.seq

(* NullWorm.store raises NotImplementedError, which counts as stored;      *)
(* LocalWorm.store creates the file exclusively.                           *)
Store ==
  /\ txn.pc = "fired"
  /\ ~(local /\ Taken)
  /\ worm' = IF local THEN worm \cup {Pending} ELSE worm
  /\ txn' = [txn EXCEPT !.pc = "stored"]
  /\ UNCHANGED <<local, rows, stamped, anchors, state, minutes, faults>>

(* Bug variant of Collides: the anchor is written although the object of   *)
(* its number is another one.                                              *)
CollidesAndGoesOn ==
  /\ txn.pc = "fired"
  /\ local /\ Taken
  /\ txn' = [txn EXCEPT !.pc = "stored"]
  /\ UNCHANGED <<local, rows, stamped, anchors, state, worm, minutes, faults>>

(* The object exists: chain_anchor_break, no anchor, and the append goes   *)
(* on.                                                                     *)
Collides ==
  /\ txn.pc = "fired"
  /\ local /\ Taken
  /\ txn' = [txn EXCEPT !.pc = "written"]
  /\ UNCHANGED <<local, rows, stamped, anchors, state, worm, minutes, faults>>

(* The file system raises, before the file exists or with a torn one.      *)
StoreFails ==
  /\ txn.pc = "fired"
  /\ local /\ ~Taken
  /\ faults > 0
  /\ faults' = faults - 1
  /\ worm' \in {worm, worm \cup {[seq |-> txn.seq, row |-> Torn]}}
  /\ txn' = [txn EXCEPT !.pc = "written"]
  /\ UNCHANGED <<local, rows, stamped, anchors, state, minutes>>

-----------------------------------------------------------------------------
(* The database *)

(* _write_state and the AuditAnchor, both part of the transaction.         *)
WriteAnchor ==
  /\ txn.pc = "stored"
  /\ txn' = [txn EXCEPT !.pc = "written", !.adds = TRUE]
  /\ UNCHANGED <<local, rows, stamped, anchors, state, worm, minutes, faults>>

Unlock ==
  /\ stamped' = [stamped EXCEPT ![txn.writer] = 0]
  /\ txn' = NoTxn

(* The row, its anchor and the state appear together.                      *)
Commit ==
  /\ txn.pc = "written"
  /\ rows' = rows \cup {stamped[txn.writer]}
  /\ anchors' = IF txn.adds THEN anchors \cup {Pending} ELSE anchors
  /\ state' = IF txn.adds THEN [seq |-> txn.seq, count |-> RowCount, at |-> txn.at]
                          ELSE state
  /\ Unlock
  /\ UNCHANGED <<local, worm, minutes, faults>>

(* The commit, or a later statement of the caller, fails; or the process   *)
(* dies.                                                                   *)
Rollback ==
  /\ txn # NoTxn
  /\ txn.pc = "doomed" \/ faults > 0
  /\ faults' = IF txn.pc = "doomed" THEN faults ELSE faults - 1
  /\ Unlock
  /\ UNCHANGED <<local, rows, anchors, state, worm, minutes>>

Next ==
  \/ Tick
  \/ \E w \in Writers : Lock(w) \/ \E r \in Places : Stamp(w, r)
  \/ NotDue \/ ReadHead \/ StatementFails
  \/ Store \/ Collides \/ StoreFails
  \/ WriteAnchor \/ Commit \/ Rollback

Spec == Init /\ [][Next]_vars

-----------------------------------------------------------------------------
(* Properties *)

Txns == [pc : {"free", "appended", "fired", "stored", "written", "doomed"},
         writer : Writers \cup {Nobody}, seq : Nat, head : Places \cup {0},
         at : Nat \cup {Never}, adds : BOOLEAN]

(* The components have their types.                                        *)
TypeOK ==
  /\ local \in BOOLEAN
  /\ rows \subseteq Places
  /\ stamped \in [Writers -> Places \cup {0}]
  /\ txn \in Txns
  /\ anchors \subseteq [seq : Nat \ {0}, row : Places]
  /\ state \in [seq : Nat, count : Nat, at : Nat \cup {Never}]
  /\ worm \subseteq [seq : Nat \ {0}, row : Places \cup {Torn}]
  /\ minutes \in Nat
  /\ faults \in Nat

(* The numbers of the anchors have no gap and no duplicate, and a later    *)
(* anchor never names an earlier row of the chain.                         *)
AnchorsInOrder ==
  /\ {a.seq : a \in anchors} = 1..state.seq
  /\ \A a, b \in anchors :
       /\ a.seq = b.seq => a = b
       /\ a.seq < b.seq => a.row <= b.row

(* Every anchor names a committed row, and so does every object that was   *)
(* written whole, the orphans of rolled back transactions included.        *)
AnchorsNameRows ==
  /\ \A a \in anchors : a.row \in rows
  /\ \A o \in worm : o.row \in rows \cup {Torn}

(* The two copies of an anchor agree: a mismatch is a sign of tampering    *)
(* (data/models.py, AuditAnchor), never of a rollback or a failed write.   *)
CopiesAgree == local => anchors \subseteq worm

(* What an auditor reads from the anchors, whatever is rolled back, torn   *)
(* or left over.                                                           *)
AnchorsHold == AnchorsInOrder /\ AnchorsNameRows /\ CopiesAgree
=============================================================================
