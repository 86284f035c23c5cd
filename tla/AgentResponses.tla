--------------------------- MODULE AgentResponses ---------------------------
(***************************************************************************)
(* POST /v1/responses of the Hermes API server and the ResponseStore under *)
(* it: what a response leaves in the store while it streams, when it ends, *)
(* when its client vanishes and when the server dies, which conversation   *)
(* points at it, and how the text of the turn gets from the executor       *)
(* thread through the 50 ms batches of the stream writer into the row.     *)
(*                                                                         *)
(* A response is named by its request; the history it carries along is     *)
(* abstracted to the row it was read from, which the read makes the most   *)
(* recent one.  Text is the sequence of the numbers of its deltas.         *)
(* External: AIAgent, aiohttp, SQLite (a commit is one step; the clock     *)
(* that orders accesses does not go back).                                 *)
(***************************************************************************)
EXTENDS Naturals, Sequences, FiniteSets

CONSTANTS
  Streams,        \* requests with stream = true
  Calls,          \* requests answered in one piece
  Conversations,  \* names in the field "conversation"
  MaxStored,      \* MAX_STORED_RESPONSES
  MaxDeltas,      \* bound: deltas of all turns
  MaxTools,       \* bound: tool calls of all turns
  MaxReads,       \* bound: GET and DELETE requests
  MaxCrashes      \* bound: deaths of the server

BoundsOK ==
  /\ IsFiniteSet(Streams \cup Calls \cup Conversations)
  /\ Streams \cap Calls = {} /\ Conversations \cap {"none", "unstored"} = {}
  /\ MaxStored \in Nat \ {0}
  /\ MaxDeltas \in Nat /\ MaxTools \in Nat /\ MaxReads \in Nat /\ MaxCrashes \in Nat

Requests == Streams \cup Calls

VARIABLES
  store,    \* rows of table responses by id: status, text and rank, the number of
            \* rows accessed since (accessed_at)
  mapping,  \* table conversations: the latest response of a name
  place,    \* the conversation of a request, "none", or "unstored" (store = false)
  writer,   \* the coroutine that serves the request
  turn,     \* the agent task and its result
  said,     \* deltas the turn has produced
  feed,     \* stream_q
  batch,    \* _batch_buf, whether _batch_timer is armed, and what a timer is
            \* about to append once the message item has been announced
  opened,   \* message_opened
  parts,    \* final_text_parts
  text,     \* final_response_text
  raced,    \* history: the result was taken while a timer was writing
  budget

reply == <<feed, batch, opened, parts, text, raced>>
vars  == <<store, mapping, place, writer, turn, said, reply, budget>>

Idle  == [buf |-> <<>>, armed |-> FALSE, writing |-> <<>>]
Over  == {"idle", "over", "broken", "dead"}

Init ==
  /\ store = <<>>
  /\ mapping = [c \in Conversations |-> "none"]
  /\ place  = [q \in Requests |-> "none"]
  /\ writer = [q \in Requests |-> "idle"]
  /\ turn   = [q \in Requests |-> "none"]
  /\ said   = [q \in Requests |-> 0]
  /\ feed   = [q \in Requests |-> <<>>]
  /\ batch  = [q \in Requests |-> Idle]
  /\ opened = [q \in Requests |-> FALSE]
  /\ parts  = [q \in Requests |-> <<>>]
  /\ text   = [q \in Requests |-> <<>>]
  /\ raced  = [q \in Requests |-> FALSE]
  /\ budget \in [deltas : 0..MaxDeltas, tools : 0..MaxTools, reads : 0..MaxReads,
                 crashes : 0..MaxCrashes]

Spend(what) ==
  /\ budget[what] > 0
  /\ budget' = [budget EXCEPT ![what] = @ - 1]

-----------------------------------------------------------------------------
(* ResponseStore *)

Ids == DOMAIN store

(* The rank of another row once id is the most recent one.                 *)
Behind(q, id) ==
  IF id \in Ids /\ store[q].rank > store[id].rank THEN store[q].rank ELSE store[q].rank + 1

(* get: the row becomes the most recent one.                               *)
Touched(id) ==
  [q \in Ids |-> [store[q] EXCEPT !.rank = IF q = id THEN 0 ELSE Behind(q, id)]]

(* INSERT OR REPLACE.                                                      *)
Inserted(id, row) ==
  [q \in Ids \cup {id} |-> IF q = id THEN row ELSE [store[q] EXCEPT !.rank = Behind(q, id)]]

(* The oldest rows, those beyond the capacity.                             *)
Evicted(rows) == {q \in DOMAIN rows : rows[q].rank >= MaxStored}

Without(rows, ids) == [q \in DOMAIN rows \ ids |-> rows[q]]

Deleted(id) ==
  [q \in Ids \ {id} |->
     [store[q] EXCEPT !.rank = IF @ > store[id].rank THEN @ - 1 ELSE @]]

Unmapped(ids) == [c \in Conversations |-> IF mapping[c] \in ids THEN "none" ELSE mapping[c]]

(* put that evicts rows and forgets the conversations they hang on.  A bug *)
(* the mutants use.                                                        *)
PutRowsOnly(id, row) ==
  LET rows == Inserted(id, row)
      out  == Evicted(rows)
      name == place[id]
  IN  /\ store' = Without(rows, out)
      /\ mapping' = IF name \in Conversations THEN [mapping EXCEPT ![name] = id] ELSE mapping

(* put and, for a request with a conversation, set_conversation.           *)
Put(id, row) ==
  LET rows == Inserted(id, row)
      out  == Evicted(rows)
      name == place[id]
  IN  /\ store' = Without(rows, out)
      /\ mapping' = IF name \in Conversations THEN [Unmapped(out) EXCEPT ![name] = id]
                                              ELSE Unmapped(out)

(* _persist_response_snapshot: nothing for a request with store = false.   *)
Persist(q, status, words) ==
  IF place[q] = "unstored" THEN UNCHANGED <<store, mapping>>
  ELSE Put(q, [status |-> status, text |-> words, rank |-> 0])

(* GET and DELETE /v1/responses/{response_id} of a stored response.        *)
Get(id) ==
  /\ id \in Ids /\ Spend("reads")
  /\ store' = Touched(id)
  /\ UNCHANGED <<mapping, place, writer, turn, said, reply>>

Delete(id) ==
  /\ id \in Ids /\ Spend("reads")
  /\ store' = Deleted(id)
  /\ mapping' = Unmapped({id})
  /\ UNCHANGED <<place, writer, turn, said, reply>>

-----------------------------------------------------------------------------
(* _handle_responses *)

(* The request is checked, what it continues is read, and its turn begins. *)
(* Its predecessor is named by itself, by its conversation, or absent; a   *)
(* predecessor that is not stored is a 404.                                *)
Accept(q) ==
  /\ writer[q] = "idle"
  /\ \E name \in Conversations \cup {"none", "unstored"} :
     \E prior \in IF name \in Conversations THEN {mapping[name]} ELSE Ids \cup {"none"} :
       /\ place' = [place EXCEPT ![q] = name]
       /\ IF prior \in Ids \cup {"none"}
            THEN /\ store' = IF prior = "none" THEN store ELSE Touched(prior)
                 /\ writer' = [writer EXCEPT ![q] = IF q \in Streams THEN "created" ELSE "call"]
                 /\ turn' = [turn EXCEPT ![q] = "running"]
            ELSE /\ writer' = [writer EXCEPT ![q] = "over"]
                 /\ UNCHANGED <<store, turn>>
  /\ UNCHANGED <<mapping, said, reply, budget>>

(* The turn of a call ends: what it answers, an error as well, is stored   *)
(* as completed; an exception is a 500 that stores nothing.                *)
CallReturns(q) ==
  /\ writer[q] = "call"
  /\ writer' = [writer EXCEPT ![q] = "over"]
  /\ \/ /\ turn' = [turn EXCEPT ![q] = "ok"]
        /\ Persist(q, "completed", <<>>)
     \/ /\ turn' = [turn EXCEPT ![q] = "raised"]
        /\ UNCHANGED <<store, mapping>>
  /\ UNCHANGED <<place, said, reply, budget>>

-----------------------------------------------------------------------------
(* The turn of a stream, in the executor thread *)

Running(q) == q \in Streams /\ turn[q] = "running"

Enqueue(q, item, n) == feed' = [feed EXCEPT ![q] = Append(@, [item |-> item, n |-> n])]

Say(q) ==
  /\ Running(q) /\ Spend("deltas")
  /\ said' = [said EXCEPT ![q] = @ + 1]
  /\ Enqueue(q, "delta", said[q] + 1)
  /\ UNCHANGED <<store, mapping, place, writer, turn, batch, opened, parts, text, raced>>

(* _on_tool_start and _on_tool_complete.                                   *)
UseTool(q) ==
  /\ Running(q) /\ Spend("tools")
  /\ Enqueue(q, "tool", 0)
  /\ UNCHANGED <<store, mapping, place, writer, turn, said, batch, opened, parts, text, raced>>

(* The task is done and its callback queues the sentinel: with a           *)
(* final_response, with an error instead of one, or with an exception.     *)
TurnEnds(q) ==
  /\ Running(q)
  /\ \E how \in {"ok", "error", "raised"} : turn' = [turn EXCEPT ![q] = how]
  /\ Enqueue(q, "end", 0)
  /\ UNCHANGED <<store, mapping, place, writer, said, batch, opened, parts, text, raced, budget>>

(* final_response: the deltas, or 0 for a text that was never streamed.    *)
Reply(q) == IF said[q] = 0 THEN <<0>> ELSE [i \in 1 .. said[q] |-> i]

-----------------------------------------------------------------------------
(* _write_sse_responses *)

(* response.created, and the first snapshot.                               *)
Created(q) ==
  /\ writer[q] = "created"
  /\ writer' = [writer EXCEPT ![q] = "drain"]
  /\ Persist(q, "in_progress", <<>>)
  /\ UNCHANGED <<place, turn, said, reply, budget>>

Arrives(q, item) == writer[q] = "drain" /\ feed[q] # <<>> /\ Head(feed[q]).item = item

(* A delta goes into the batch, and arms the timer if none is armed.       *)
TakeDelta(q) ==
  /\ Arrives(q, "delta")
  /\ feed' = [feed EXCEPT ![q] = Tail(@)]
  /\ batch' = [batch EXCEPT ![q].buf = Append(@, Head(feed[q]).n), ![q].armed = TRUE]
  /\ UNCHANGED <<store, mapping, place, writer, turn, said, opened, parts, text, raced, budget>>

(* The writer breaks off without the text that waits for the timer.  A bug *)
(* the mutants use.                                                        *)
ForgetBatch(q) ==
  /\ batch' = [batch EXCEPT ![q].buf = <<>>]
  /\ UNCHANGED <<parts, opened>>

(* _flush_batch from the writer: nothing if no text waits, otherwise it    *)
(* needs the lock that a timer holds while it writes.                      *)
FlushBatch(q) ==
  /\ batch[q].buf = <<>> \/ batch[q].writing = <<>>
  /\ batch' = [batch EXCEPT ![q].buf = <<>>]
  /\ parts' = [parts EXCEPT ![q] = @ \o batch[q].buf]
  /\ opened' = [opened EXCEPT ![q] = @ \/ batch[q].buf # <<>>]

(* Tool events: the text before them goes out first.                       *)
TakeTool(q) ==
  /\ Arrives(q, "tool")
  /\ feed' = [feed EXCEPT ![q] = Tail(@)]
  /\ FlushBatch(q)
  /\ UNCHANGED <<store, mapping, place, writer, turn, said, text, raced, budget>>

(* The sentinel, the batch that is left, and the result of the task: if no *)
(* text has gone out, the final response goes out in one delta.            *)
TakeEnd(q) ==
  /\ Arrives(q, "end")
  /\ feed' = [feed EXCEPT ![q] = Tail(@)]
  /\ FlushBatch(q)
  /\ writer' = [writer EXCEPT ![q] = "result"]
  /\ raced' = [raced EXCEPT ![q] = batch[q].writing # <<>>]
  /\ UNCHANGED <<store, mapping, place, turn, said, text, budget>>

Result(q) ==
  /\ writer[q] = "result"
  /\ writer' = [writer EXCEPT ![q] = "close"]
  /\ parts' = [parts EXCEPT ![q] = IF @ = <<>> /\ turn[q] = "ok" THEN Reply(q) ELSE @]
  /\ UNCHANGED <<store, mapping, place, turn, said, feed, batch, opened, text, raced, budget>>

(* The text of the response is settled; its item is closed.                *)
Conclude(q) ==
  /\ writer[q] = "close"
  /\ writer' = [writer EXCEPT ![q] = "snapshot"]
  /\ text' = [text EXCEPT ![q] = parts[q]]
  /\ UNCHANGED <<store, mapping, place, turn, said, feed, batch, opened, parts, raced, budget>>

Verdict(q) == IF turn[q] \in {"error", "raised"} THEN "failed" ELSE "completed"

(* The terminal snapshot, before the terminal event.                       *)
Snapshot(q) ==
  /\ writer[q] = "snapshot"
  /\ writer' = [writer EXCEPT ![q] = "final"]
  /\ Persist(q, Verdict(q), text[q])
  /\ UNCHANGED <<place, turn, said, reply, budget>>

Finish(q) ==
  /\ writer[q] = "final"
  /\ writer' = [writer EXCEPT ![q] = "over"]
  /\ UNCHANGED <<store, mapping, place, turn, said, reply, budget>>

(* _batch_flush_after: the first text of a response is appended only after *)
(* its item has been announced, a write that may wait for a slow client.   *)
(* (What a timer appends once the writer is through nobody reads.)         *)
TimerFires(q) ==
  /\ writer[q] \notin Over
  /\ batch[q].armed /\ batch[q].writing = <<>>
  /\ IF opened[q] \/ batch[q].buf = <<>>
       THEN /\ parts' = [parts EXCEPT ![q] = @ \o batch[q].buf]
            /\ batch' = [batch EXCEPT ![q] = Idle]
            /\ UNCHANGED opened
       ELSE /\ batch' = [batch EXCEPT ![q] = [Idle EXCEPT !.writing = batch[q].buf]]
            /\ opened' = [opened EXCEPT ![q] = TRUE]
            /\ UNCHANGED parts
  /\ UNCHANGED <<store, mapping, place, writer, turn, said, feed, text, raced, budget>>

TimerAppends(q) ==
  /\ writer[q] \notin Over /\ batch[q].writing # <<>>
  /\ parts' = [parts EXCEPT ![q] = @ \o batch[q].writing]
  /\ batch' = [batch EXCEPT ![q].writing = <<>>]
  /\ UNCHANGED <<store, mapping, place, writer, turn, said, feed, opened, text, raced, budget>>

(* The stream breaks: the client is gone, the server shuts down, or a      *)
(* write raises.  The task is cancelled, which loses its events.           *)
Broken(q) ==
  /\ q \in Streams /\ writer[q] \notin Over
  /\ writer' = [writer EXCEPT ![q] = IF @ = "final" THEN "over" ELSE "broken"]
  /\ turn' = [turn EXCEPT ![q] = IF @ = "running" THEN "cancelled" ELSE @]
  /\ feed' = [feed EXCEPT ![q] = <<>>]
  /\ UNCHANGED <<place, said, batch, opened, parts, text, raced, budget>>

(* Every break stores what there is.  A bug the mutants use.               *)
BreakStoresAlways(q) == Broken(q) /\ Persist(q, "incomplete", parts[q])

(* _persist_incomplete_if_needed: not once a terminal snapshot is stored.  *)
Break(q) ==
  /\ Broken(q)
  /\ IF writer[q] = "final" THEN UNCHANGED <<store, mapping>>
                            ELSE Persist(q, "incomplete", parts[q])

(* The server dies and comes back with what SQLite holds.                  *)
Crash ==
  /\ Spend("crashes")
  /\ writer' = [q \in Requests |-> IF writer[q] \in Over THEN writer[q] ELSE "dead"]
  /\ turn' = [q \in Requests |-> IF turn[q] = "running" THEN "cancelled" ELSE turn[q]]
  /\ feed' = [q \in Requests |-> <<>>]
  /\ batch' = [q \in Requests |-> Idle]
  /\ UNCHANGED <<store, mapping, place, said, opened, parts, text, raced>>

-----------------------------------------------------------------------------

Writes(q) ==
  \/ Created(q) \/ TakeDelta(q) \/ TakeTool(q) \/ TakeEnd(q)
  \/ Result(q) \/ Conclude(q) \/ Snapshot(q) \/ Finish(q)

Next ==
  \/ \E q \in Requests :
       \/ Accept(q) \/ CallReturns(q)
       \/ Say(q) \/ UseTool(q) \/ TurnEnds(q)
       \/ Writes(q) \/ TimerFires(q) \/ TimerAppends(q) \/ Break(q)
       \/ Get(q) \/ Delete(q)
  \/ Crash

Spec == Init /\ [][Next]_vars

-----------------------------------------------------------------------------
(* Properties *)

TypeOK ==
  /\ Ids \subseteq Requests
  /\ \A q \in Ids :
       /\ store[q].status \in {"in_progress", "incomplete", "failed", "completed"}
       /\ store[q].rank \in 0..(MaxStored - 1)
       /\ \A p \in Ids : store[p].rank = store[q].rank => p = q
       /\ \A k \in 0..store[q].rank : \E p \in Ids : store[p].rank = k
  /\ mapping \in [Conversations -> Requests \cup {"none"}]
  /\ place \in [Requests -> Conversations \cup {"none", "unstored"}]
  /\ writer \in [Requests -> Over \cup {"created", "call", "drain", "result", "close",
                                         "snapshot", "final"}]
  /\ turn \in [Requests -> {"none", "running", "ok", "error", "raised", "cancelled"}]

(* A conversation never points at a response the store does not hold,      *)
(* whatever is evicted, deleted or written back meanwhile: the next        *)
(* request of the conversation would be a 404, and so would every later.   *)
ConversationResolves == \A c \in Conversations : mapping[c] \in Ids \cup {"none"}

(* The row of a stream that has ended says how: completed or failed once   *)
(* the writer has come to its terminal snapshot, even if the client is     *)
(* lost right after, and incomplete if it has not; in_progress is left     *)
(* behind by a dead server only.                                           *)
OutcomeStored ==
  \A q \in Ids :
    /\ q \in Streams /\ writer[q] \in {"final", "over"} => store[q].status = Verdict(q)
    /\ writer[q] = "broken" => store[q].status = "incomplete"

(* The text of a completed response is what its turn said, once and in     *)
(* order, although two tasks append to it, unless a timer was still        *)
(* writing the first batch when the writer took the result.                *)
TextIsWhole ==
  \A q \in Ids :
    q \in Streams /\ store[q].status = "completed" /\ turn[q] = "ok" /\ ~raced[q] =>
      store[q].text = Reply(q)
=============================================================================
