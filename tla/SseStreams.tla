----------------------------- MODULE SseStreams -----------------------------
(***************************************************************************)
(* The server-sent events of the API: SSEPublisher with the queues of its  *)
(* subscribers, and the generators of routers/streams.py, which number     *)
(* every frame per channel, keep it for replay and honour Last-Event-ID.   *)
(* The event loop runs a generator from one yield to the next.             *)
(*                                                                         *)
(* One API key and host stands for all of them.  Heartbeat comments carry  *)
(* no id and are left out.                                                 *)
(***************************************************************************)
EXTENDS Naturals, Sequences, FiniteSets

CONSTANTS
  Channels,       \* channels fed by the publisher
  Market,         \* the channel of a market-data stream
  Streams,        \* requests for a stream
  KeyLimit,       \* _MAX_KEY_CONNECTIONS
  QueueMax,       \* maxsize of a subscriber's queue
  BufferMax,      \* _BUFFER_MAX_EVENTS
  MaxPublished,   \* bound: events of the workers
  MaxTicks,       \* bound: ticks of market-data streams
  MaxAge          \* bound: frames that outlive the retention window

BoundsOK ==
  /\ IsFiniteSet(Streams) /\ Market \notin Channels
  /\ KeyLimit \in Nat \ {0} /\ QueueMax \in Nat \ {0} /\ BufferMax \in Nat \ {0}
  /\ MaxPublished \in Nat /\ MaxTicks \in Nat /\ MaxAge \in Nat

VARIABLES
  active,      \* _active of the key
  frames,      \* _buffers: the frame ids a channel still holds, oldest first
  nextIds,     \* _next_ids
  expired,     \* frame ids up to this one are older than the retention window
  conn,        \* the generator of a stream
  queue,       \* its subscription
  sent,        \* ids of the frames the client has been sent
  published,   \* events published so far
  owed,        \* history: events of its channel since a stream subscribed
  relayed,     \* history: the events a stream has relayed
  overflowed,  \* history: the queue of a stream was full
  budget

vars == <<active, frames, nextIds, expired, conn, queue, sent, published, owed, relayed,
          overflowed, budget>>

AllChannels == Channels \cup {Market}

(* pc; channel; last: Last-Event-ID; gap: gap_detected; from, cutoff: what *)
(* the replay saw of _next_ids and of the clock when it began; at: the id  *)
(* it has come to; joined: _next_ids when the stream subscribed; slipped   *)
(* (history): frames left the full buffer after gap_detected was computed. *)
NoConn == [pc |-> "idle", channel |-> Market, last |-> 0, gap |-> FALSE, from |-> 0,
           cutoff |-> 0, at |-> 0, joined |-> 0, slipped |-> FALSE]

Init ==
  /\ active = 0
  /\ frames  = [c \in AllChannels |-> <<>>]
  /\ nextIds = [c \in AllChannels |-> 0]
  /\ expired = [c \in AllChannels |-> 0]
  /\ conn  = [s \in Streams |-> NoConn]
  /\ queue = [s \in Streams |-> <<>>]
  /\ sent  = [s \in Streams |-> {}]
  /\ published = 0
  /\ owed = [s \in Streams |-> {}]
  /\ relayed = [s \in Streams |-> <<>>]
  /\ overflowed = [s \in Streams |-> FALSE]
  /\ budget = [ticks |-> MaxTicks, age |-> MaxAge]

-----------------------------------------------------------------------------
(* _emit: the next id of the channel, a place in its ring buffer, and the  *)
(* frame to the client of s.                                               *)
Emit(s, channel) ==
  LET id   == nextIds[channel] + 1
      kept == IF Len(frames[channel]) = BufferMax THEN Tail(frames[channel]) ELSE frames[channel]
  IN  /\ nextIds' = [nextIds EXCEPT ![channel] = id]
      /\ frames' = [frames EXCEPT ![channel] = Append(kept, id)]
      /\ sent' = [sent EXCEPT ![s] = @ \cup {id}]

Subscribed == {s \in Streams : conn[s].pc = "live" /\ conn[s].channel \in Channels}

(* publish: into the queue of every subscriber, whatever its channel; a    *)
(* full queue drops the event.                                             *)
Notify(channel, event) ==
  /\ queue' = [s \in Streams |->
       IF s \in Subscribed /\ Len(queue[s]) < QueueMax
         THEN Append(queue[s], [channel |-> channel, event |-> event]) ELSE queue[s]]
  /\ overflowed' = [s \in Streams |->
       overflowed[s] \/ (s \in Subscribed /\ Len(queue[s]) = QueueMax)]
  /\ owed' = [s \in Streams |->
       IF s \in Subscribed /\ conn[s].channel = channel THEN owed[s] \cup {event} ELSE owed[s]]

Publish(channel) ==
  /\ published < MaxPublished
  /\ published' = published + 1
  /\ Notify(channel, published + 1)
  /\ UNCHANGED <<active, frames, nextIds, expired, conn, sent, relayed, budget>>

(* A slot is taken as long as fewer than the limit and one more are.  A    *)
(* bug the mutants use.                                                    *)
SlotIsFreeAtLimit == active <= KeyLimit

(* _acquire_slot.                                                          *)
SlotIsFree == active < KeyLimit

Refuse(s) ==
  /\ conn[s].pc = "idle" /\ ~SlotIsFree
  /\ conn' = [conn EXCEPT ![s].pc = "over"]
  /\ UNCHANGED <<active, frames, nextIds, expired, queue, sent, published, owed, relayed,
                 overflowed, budget>>

(* _event_stream up to its first yield; the client may name any id it has  *)
(* ever been sent, by this stream or another.                              *)
Open(s) ==
  /\ conn[s].pc = "idle" /\ SlotIsFree
  /\ active' = active + 1
  /\ \E channel \in Channels :
     \E last \in 0 .. nextIds[channel] :
       /\ conn' = [conn EXCEPT ![s] = [NoConn EXCEPT !.pc = "opened", !.channel = channel,
                                                     !.last = last]]
       /\ Emit(s, channel)
  /\ UNCHANGED <<expired, queue, published, owed, relayed, overflowed, budget>>

(* stream_market_data up to its first yield: it tells the publisher too,   *)
(* and neither resumes nor subscribes.                                     *)
OpenMarket(s) ==
  /\ conn[s].pc = "idle" /\ SlotIsFree
  /\ active' = active + 1
  /\ conn' = [conn EXCEPT ![s].pc = "live"]
  /\ Notify(Market, 0)
  /\ Emit(s, Market)
  /\ UNCHANGED <<expired, published, relayed, budget>>

Tick(s) ==
  /\ conn[s].pc = "live" /\ conn[s].channel = Market
  /\ budget.ticks > 0
  /\ budget' = [budget EXCEPT !.ticks = @ - 1]
  /\ Emit(s, Market)
  /\ UNCHANGED <<active, expired, conn, queue, published, owed, relayed, overflowed>>

(* Subscribing takes no turn of the loop: it follows what came before it.  *)
Live(s) == conn' = [conn EXCEPT ![s].pc = "live", ![s].joined = nextIds[conn[s].channel]]

(* The oldest frame the buffer holds.                                      *)
Reach(s) == Head(frames[conn[s].channel])

(* The client of a first connection goes live; a returning one is told     *)
(* whether the buffer still reaches back to its id.                        *)
Resume(s) ==
  /\ conn[s].pc = "opened"
  /\ IF conn[s].last = 0 THEN Live(s)
     ELSE conn' = [conn EXCEPT ![s].pc = "resumed",
                     ![s].gap = Reach(s) > conn[s].last + 1]
  /\ UNCHANGED <<active, frames, nextIds, expired, queue, sent, published, owed, relayed,
                 overflowed, budget>>

(* The replay begins: the cutoff and the iterator over the deque.          *)
BeginReplay(s) ==
  /\ conn[s].pc = "resumed"
  /\ conn' = [conn EXCEPT ![s].pc = "replay", ![s].at = conn[s].last,
                ![s].from = nextIds[conn[s].channel], ![s].cutoff = expired[conn[s].channel],
                ![s].slipped = ~conn[s].gap /\ Reach(s) > conn[s].last + 1]
  /\ UNCHANGED <<active, frames, nextIds, expired, queue, sent, published, owed, relayed,
                 overflowed, budget>>

(* The frames the replay has still to send.                                *)
Backlog(s) ==
  LET c == conn[s] IN
  {id \in {frames[c.channel][i] : i \in DOMAIN frames[c.channel]} :
     id > c.at /\ id > c.cutoff /\ id <= c.from}

(* A replay over a copy of the buffer does not notice what came meanwhile. *)
(* A bug the mutants use.                                                  *)
CopyUndisturbed(s) == TRUE

(* No other stream has put a frame into the deque since: if one has, the   *)
(* iterator raises.                                                        *)
Undisturbed(s) == nextIds[conn[s].channel] = conn[s].from

Replay(s) ==
  /\ conn[s].pc = "replay" /\ Undisturbed(s)
  /\ IF Backlog(s) = {}
       THEN Live(s) /\ UNCHANGED sent
       ELSE \E id \in Backlog(s) :
              /\ \A other \in Backlog(s) : id <= other
              /\ conn' = [conn EXCEPT ![s].at = id]
              /\ sent' = [sent EXCEPT ![s] = @ \cup {id}]
  /\ UNCHANGED <<active, frames, nextIds, expired, queue, published, owed, relayed,
                 overflowed, budget>>

(* A live stream takes an event and relays it if it is of its channel.     *)
Relay(s) ==
  /\ s \in Subscribed /\ queue[s] # <<>>
  /\ queue' = [queue EXCEPT ![s] = Tail(@)]
  /\ IF Head(queue[s]).channel = conn[s].channel
       THEN /\ Emit(s, conn[s].channel)
            /\ relayed' = [relayed EXCEPT ![s] = Append(@, Head(queue[s]).event)]
       ELSE UNCHANGED <<frames, nextIds, sent, relayed>>
  /\ UNCHANGED <<active, expired, conn, published, owed, overflowed, budget>>

(* The client is gone, or the replay has raised: unsubscribe and           *)
(* _release_slot.                                                          *)
Leave(s) ==
  /\ conn[s].pc \in {"opened", "resumed", "replay", "live"}
  /\ conn' = [conn EXCEPT ![s] = [NoConn EXCEPT !.pc = "over"]]
  /\ queue' = [queue EXCEPT ![s] = <<>>]
  /\ sent' = [sent EXCEPT ![s] = {}]
  /\ owed' = [owed EXCEPT ![s] = {}]
  /\ relayed' = [relayed EXCEPT ![s] = <<>>]
  /\ active' = IF active > 0 THEN active - 1 ELSE 0
  /\ UNCHANGED <<frames, nextIds, expired, published, overflowed, budget>>

(* Five minutes pass for the oldest frame.                                 *)
Age(channel) ==
  /\ budget.age > 0 /\ expired[channel] < nextIds[channel]
  /\ budget' = [budget EXCEPT !.age = @ - 1]
  /\ expired' = [expired EXCEPT ![channel] = @ + 1]
  /\ UNCHANGED <<active, frames, nextIds, conn, queue, sent, published, owed, relayed,
                 overflowed>>

Next ==
  \/ \E c \in Channels : Publish(c) \/ Age(c)
  \/ \E s \in Streams :
       \/ Refuse(s) \/ Open(s) \/ OpenMarket(s) \/ Tick(s)
       \/ Resume(s) \/ BeginReplay(s) \/ Replay(s) \/ Relay(s) \/ Leave(s)

Spec == Init /\ [][Next]_vars

-----------------------------------------------------------------------------
(* Properties *)

TypeOK ==
  /\ active \in 0 .. KeyLimit
  /\ active = Cardinality({s \in Streams : conn[s].pc \notin {"idle", "over"}})
  /\ \A c \in AllChannels : Len(frames[c]) <= BufferMax /\ expired[c] <= nextIds[c]
  /\ \A s \in Streams : Len(queue[s]) <= QueueMax

(* The events of its channel that wait in the queue of s.                  *)
Waiting(s) == {i \in DOMAIN queue[s] : queue[s][i].channel = conn[s].channel}

(* Events bear the number of their publication.                            *)
InOrder(s) ==
  /\ \A i, j \in DOMAIN relayed[s] : i < j => relayed[s][i] < relayed[s][j]
  /\ \A i \in DOMAIN relayed[s], j \in Waiting(s) : relayed[s][i] < queue[s][j].event
  /\ \A i, j \in Waiting(s) : i < j => queue[s][i].event < queue[s][j].event

(* A live stream has been sent every frame of its channel from the id its  *)
(* client named up to the moment it subscribed, unless it said that there  *)
(* is a gap, frames slipped out of a full buffer right after it said that  *)
(* there is none, or one was past its retention; and it has relayed, or    *)
(* holds in its queue, every event published since, in order and no other, *)
(* unless the queue was full.  Nothing falls between replay and            *)
(* subscription, however other streams feed the same buffer.               *)
StreamIsComplete ==
  \A s \in Subscribed :
    LET c == conn[s] IN
    /\ c.last > 0 /\ ~c.gap /\ ~c.slipped /\ c.cutoff <= c.last =>
         (c.last + 1) .. c.joined \subseteq sent[s]
    /\ ~overflowed[s] =>
         /\ owed[s] = {relayed[s][i] : i \in DOMAIN relayed[s]}
                        \cup {queue[s][i].event : i \in Waiting(s)}
         /\ InOrder(s)
=============================================================================
