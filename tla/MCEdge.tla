------------------------------- MODULE MCEdge -------------------------------
(***************************************************************************)
(* The servers at the edge on small instances: the agent runs, stored      *)
(* responses, sessions, background processes and shared results of Hermes, *)
(* the event streams and the idempotency middleware of the API.  They      *)
(* share no state, so each behaviour moves one of them, and the state      *)
(* spaces add up.                                                          *)
(***************************************************************************)
EXTENDS Naturals, Sequences

CONSTANTS
  r1, r2, r3, a, b,
  Posts,                                                 \* POST requests with a key
  Runs, Chats, Limits,                                   \* of AgentRuns
  MaxEvents, MaxAsks, MaxViews, MaxSweeps,
  Streamed, Calls, Conversations, MaxStored,             \* of AgentResponses
  MaxDeltas, MaxTools, MaxReads, MaxCrashes,
  Sessions, Talkers, Forks,                              \* of GatewaySessions
  MaxCreates, MaxDeletes, MaxLocks, MaxChanges,
  Bodies, MaxIdemFaults,                                 \* of Idempotency
  MaxTurns, Jobs, Stops,                                 \* of TurnProcesses
  Keys, Prints, MaxItems, MaxExpired,                    \* of SharedCompute
  Channels, Market, Streams, KeyLimit, QueueMax,         \* of SseStreams
  BufferMax, MaxPublished, MaxTicks, MaxAge

VARIABLES
  moving,  \* the component this behaviour moves
  handler, reserved, pending, inflight, task, thread, agents, sessions, stopping, notify,
  streams, subscribers, status, noted, posted, queue, viewers, answered, granted, limit, budget,
  store, mapping, place, writer, turn, said, feed, batch, opened, parts, text, raced, reads,
  active, frames, nextIds, expired, conn, inbox, sent, published, owed, relayed, overflowed,
  sseBudget,
  body, pc, answer, captured, record, overlap, faults,
  rows, births, locks, override, recent, chat, fork, bounds,
  phase, counter, current, baseline, owner, running, reaper, killed,
  results, stale, computing, computed, request, left

Agents == INSTANCE AgentRuns

Responses == INSTANCE AgentResponses WITH Streams <- Streamed, budget <- reads

Sse == INSTANCE SseStreams WITH queue <- inbox, budget <- sseBudget

Idem == INSTANCE Idempotency WITH Requests <- Posts, MaxFaults <- MaxIdemFaults

Talks == INSTANCE GatewaySessions WITH Chats <- Talkers

Processes == INSTANCE TurnProcesses WITH Processes <- Jobs

Shared == INSTANCE SharedCompute
            WITH Requests <- Posts, store <- results, inflight <- computing, turns <- computed

ASSUME Bounds ==
  /\ Agents!BoundsOK /\ Responses!BoundsOK /\ Sse!BoundsOK /\ Idem!BoundsOK
  /\ Talks!BoundsOK /\ Processes!BoundsOK /\ Shared!BoundsOK

agentVars == <<handler, reserved, pending, inflight, task, thread, agents, sessions,
               stopping, notify, streams, subscribers, status, noted, posted, queue,
               viewers, answered, granted, limit, budget>>
responseVars == <<store, mapping, place, writer, turn, said, feed, batch, opened, parts,
                  text, raced, reads>>
sseVars == <<active, frames, nextIds, expired, conn, inbox, sent, published, owed, relayed,
             overflowed, sseBudget>>
idemVars == <<body, pc, answer, captured, record, overlap, faults>>
sessionVars == <<rows, births, locks, override, recent, chat, fork, bounds>>
processVars == <<phase, counter, current, baseline, owner, running, reaper, killed>>
sharedVars == <<results, stale, computing, computed, request, left>>
earlyVars == <<agentVars, responseVars, sseVars, idemVars>>
lateVars == <<sessionVars, processVars, sharedVars>>
allVars == <<moving, earlyVars, lateVars>>

MCInit ==
  /\ moving \in {"two", "mixed", "responses", "recalled", "sse", "idempotency", "anew",
                 "again", "pair", "fork", "processes", "stopped", "evicted",
                 "replaced"}
  /\ limit = IF moving = "two" THEN 2 ELSE 1
  /\ budget = IF moving = "two" THEN [events |-> 0, asks |-> 1, views |-> 1, sweeps |-> 0]
                                ELSE [events |-> 1, asks |-> 1, views |-> 2, sweeps |-> 2]
  /\ Agents!Init
  /\ reads = IF moving = "recalled" THEN [deltas |-> 1, tools |-> 0, reads |-> 1, crashes |-> 1]
                                    ELSE [deltas |-> 2, tools |-> 1, reads |-> 0, crashes |-> 1]
  /\ Responses!Init
  /\ Sse!Init
  /\ Idem!Init
  /\ moving = "idempotency" \/ body = [r \in Posts |-> a]
  /\ bounds = CASE moving = "pair"  -> [creates |-> 1, deletes |-> 0, changes |-> 0, locks |-> 1]
                [] moving = "fork"  -> [creates |-> 2, deletes |-> 0, changes |-> 0, locks |-> 0]
                [] moving = "again" -> [creates |-> 1, deletes |-> 0, changes |-> 0, locks |-> 2]
                [] OTHER            -> [creates |-> 2, deletes |-> 1, changes |-> 1, locks |-> 1]
  /\ Talks!Init
  /\ Processes!Init
  /\ Shared!Init
  /\ request[r1].key = a /\ request[r1].print = a
  /\ moving = "evicted"  \/ \A r \in Posts : request[r].key = a
  /\ moving = "replaced" \/ \A r \in Posts : request[r].print = a
  /\ left = IF moving = "replaced" THEN MaxExpired ELSE 0

(* Requests that start alike are interchangeable: let r1 be the first that *)
(* leaves those still waiting to begin, and r2 the second.                 *)
InTurn(waiting) == (r1 \in waiting => r2 \in waiting) /\ (r2 \in waiting => r3 \in waiting)

(* Two runs under a cap of two, or a run and a completion under a cap of   *)
(* one with every other bound larger.                                      *)
AgentStep ==
  /\ moving \in {"two", "mixed"} /\ Agents!Next
  /\ handler'[IF moving = "two" THEN r3 ELSE r2] = "idle"
  /\ UNCHANGED <<moving, responseVars, sseVars, idemVars, lateVars>>

(* Text in two pieces and a tool, or a store that clients read.            *)
ResponseStep ==
  /\ moving \in {"responses", "recalled"} /\ Responses!Next
  /\ UNCHANGED <<moving, agentVars, sseVars, idemVars, lateVars>>

SseStep ==
  /\ moving = "sse" /\ Sse!Next
  /\ InTurn({r \in {r1, r2, r3} : conn[r].pc = "idle"})'
  /\ UNCHANGED <<moving, agentVars, responseVars, idemVars, lateVars>>

IdemStep ==
  /\ moving = "idempotency" /\ Idem!Next
  /\ InTurn({r \in {r1, r2, r3} : pc[r] = "idle"})'
  /\ UNCHANGED <<moving, agentVars, responseVars, sseVars, lateVars>>

Untouched(s) ==
  /\ rows[s] = Talks!Absent /\ override[s] = Talks!None
  /\ \A c \in Talkers : chat[c].session # s

(* A session deleted and made anew, a lock and its successor, two turns of *)
(* one session, or a fork beside a turn.                                   *)
SessionStep ==
  /\ moving \in {"anew", "again", "pair", "fork"} /\ Talks!Next
  /\ moving # "fork" => (fork[r3].pc = "idle" /\ Untouched(b))'
  /\ IF moving = "pair" THEN InTurn({r \in {r1, r2} : chat[r].pc = "idle"} \cup {r3})'
                        ELSE (chat[r2].pc = "idle")'
  /\ UNCHANGED <<moving, earlyVars, processVars, sharedVars>>

(* Three turns, one process and one reaper, or two turns and a second      *)
(* process or a second reaper.                                             *)
ProcessStep ==
  /\ moving \in {"processes", "stopped"} /\ Processes!Next
  /\ LET alone == owner[b] = 0   once == reaper[r2].pc = "none" IN
       IF moving = "processes" THEN (alone /\ once)' ELSE counter' < 3 /\ (alone \/ once)'
  /\ (owner[a] = 0 => owner[b] = 0)'
  /\ InTurn({s \in {r1, r2} : reaper[s].pc = "none"} \cup {r3})'
  /\ UNCHANGED <<moving, earlyVars, sessionVars, sharedVars>>

SharedStep ==
  /\ moving \in {"evicted", "replaced"} /\ Shared!Next
  /\ InTurn({r \in {r1, r2, r3} : request[r].pc = "idle"})'
  /\ UNCHANGED <<moving, earlyVars, sessionVars, processVars>>

MCSpec ==
  /\ MCInit
  /\ [][\/ AgentStep \/ ResponseStep \/ SseStep \/ IdemStep
        \/ SessionStep \/ ProcessStep \/ SharedStep]_allVars
  /\ \A r \in Runs :
       WF_agentVars(Agents!LoopServes(r)) /\ WF_agentVars(Agents!ThreadGoesOn(r))

(* A component that does not move stays in its initial state.              *)
TypesOK ==
  /\ Agents!TypeOK /\ Responses!TypeOK /\ Sse!TypeOK /\ Idem!TypeOK
  /\ Talks!TypeOK /\ Processes!TypeOK /\ Shared!TypeOK

UnderWayWithinCap    == Agents!UnderWayWithinCap
GrantsAreAnswered    == Agents!GrantsAreAnswered
RunSettles           == Agents!RunSettles
ConversationResolves == Responses!ConversationResolves
OutcomeStored        == Responses!OutcomeStored
TextIsWhole          == Responses!TextIsWhole
StreamIsComplete     == Sse!StreamIsComplete
OriginalReplayed     == Idem!OriginalReplayed
LockedTurnsHold      == Talks!LockedTurnsHold
TurnsKept            == Talks!TurnsKept
ReapSparesNewest     == Processes!ReapSparesNewest
ComputedOnce         == Shared!ComputedOnce
=============================================================================
