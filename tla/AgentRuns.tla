----------------------------- MODULE AgentRuns -----------------------------
(***************************************************************************)
(* Agent turns of the Hermes API server, the patched api_server.py that    *)
(* infrastructure/hermes deploys: admission under the cap, POST /v1/runs   *)
(* with its event stream, approvals, stop and sweep, and the streaming     *)
(* chat completion.  The event loop runs one handler between two awaits;   *)
(* every agent turn runs in an executor thread beside it, and reports by   *)
(* call_soon_threadsafe, which the loop serves in order.                   *)
(*                                                                         *)
(* External: AIAgent (how a turn ends), tools.approval (an approval is     *)
(* pending under a session key until it is resolved, times out or is       *)
(* unregistered) and aiohttp (a client may vanish at any time).            *)
(***************************************************************************)
EXTENDS Naturals, Sequences, FiniteSets

CONSTANTS
  Runs,        \* requests to POST /v1/runs; each names its run
  Chats,       \* requests for a streaming chat completion
  Limits,      \* values _max_concurrent_runs may have
  MaxEvents,   \* bound: tool events the turns report
  MaxAsks,     \* bound: approvals the turns ask for
  MaxViews,    \* bound: clients that ask for an event stream
  MaxSweeps    \* bound: streams and statuses that outlive their TTL

(* What the theorems assume of the constants; the MC module has TLC check  *)
(* it.  A limit of 0 switches the cap off, which is not modelled.          *)
BoundsOK ==
  /\ IsFiniteSet(Runs) /\ IsFiniteSet(Chats) /\ Runs \cap Chats = {}
  /\ Limits \subseteq Nat \ {0}
  /\ MaxEvents \in Nat /\ MaxAsks \in Nat /\ MaxViews \in Nat /\ MaxSweeps \in Nat

Requests == Runs \cup Chats

VARIABLES
  handler,      \* the coroutine that serves the POST
  reserved,     \* requests whose reservation["active"] holds
  pending,      \* _pending_agent_requests
  inflight,     \* _inflight_agent_runs
  task,         \* the asyncio task around the turn
  thread,       \* the executor thread of the turn
  agents,       \* _active_run_agents
  sessions,     \* _run_approval_sessions
  stopping,     \* _stopping_run_ids
  notify,       \* approval keys with a registered notifier (external)
  streams,      \* _run_streams
  subscribers,  \* _run_stream_subscribers
  status,       \* _run_statuses
  noted,        \* the status _push has read and not yet written back
  posted,       \* callbacks handed to the loop by call_soon_threadsafe
  queue,        \* the asyncio.Queue of a run's events
  viewers,      \* handlers of GET /v1/runs/{run_id}/events that hold it
  \* history and bounds
  answered,     \* approvals the API resolved for the run it was asked about
  granted,      \* waits of the run's thread that an approval ended
  limit,        \* _max_concurrent_runs, set when the server starts
  budget

counts  == <<reserved, pending, inflight>>
control == <<agents, sessions, stopping, notify>>
stream  == <<streams, subscribers, queue, viewers>>
history == <<answered, granted, limit, budget>>
vars == <<handler, counts, task, thread, control, stream, status, noted,
          posted, history>>

Terminal == {"completed", "failed", "cancelled"}
Statuses == {"none", "queued", "running", "waiting_for_approval", "stopping"} \cup Terminal
Live     == {"queued", "awaiting"}      \* a task that is not done
Ended    == {"ok", "failed", "raised"}  \* how run_conversation ends

Init ==
  /\ handler = [r \in Requests |-> "idle"]
  /\ reserved = {} /\ pending = 0 /\ inflight = 0
  /\ task   = [r \in Requests |-> "none"]
  /\ thread = [r \in Requests |-> "none"]
  /\ agents = {} /\ sessions = {} /\ stopping = {} /\ notify = {}
  /\ streams = {} /\ subscribers = {}
  /\ status = [r \in Requests |-> "none"]
  /\ noted  = [r \in Requests |-> "none"]
  /\ posted = [r \in Requests |-> <<>>]
  /\ queue  = [r \in Requests |-> <<>>]
  /\ viewers = [r \in Requests |-> 0]
  /\ answered = [r \in Requests |-> 0]
  /\ granted  = [r \in Requests |-> 0]
  /\ limit \in Limits
  /\ budget \in [events : 0..MaxEvents, asks : 0..MaxAsks, views : 0..MaxViews,
                 sweeps : 0..MaxSweeps]

Spend(what) ==
  /\ budget[what] > 0
  /\ budget' = [budget EXCEPT ![what] = @ - 1]

-----------------------------------------------------------------------------
(* Admission *)

LiveRuns == {r \in Requests : r \in Runs /\ task[r] \in Live}

(* A cap that looks at turns only; a bug the mutants use.                  *)
TurnsOnly == inflight + Cardinality(LiveRuns)

(* active_agent_work_count.                                                *)
ActiveWork == pending + inflight + Cardinality(LiveRuns)

(* Drops the reservation of r, once; nothing if it was dropped before.     *)
Released(r) ==
  /\ reserved' = reserved \ {r}
  /\ pending' = IF r \in reserved /\ pending > 0 THEN pending - 1 ELSE pending

(* _admit_api_agent_request and the handler up to its first await: 503     *)
(* while the gateway drains, which may be at any time, 429 at the cap (its *)
(* own reservation not counted).                                           *)
Admit(r) ==
  /\ handler[r] = "idle"
  /\ \/ handler' = [handler EXCEPT ![r] = "closed"] /\ UNCHANGED counts
     \/ /\ ActiveWork < limit
        /\ handler' = [handler EXCEPT ![r] = "body"]
        /\ reserved' = reserved \cup {r}
        /\ pending' = pending + 1
        /\ UNCHANGED inflight
  /\ UNCHANGED <<task, thread, control, stream, status, noted, posted, history>>

(* The body is no JSON, or fails a check: 400, and the reservation ends.   *)
BadBody(r) ==
  /\ handler[r] = "body"
  /\ handler' = [handler EXCEPT ![r] = "closed"]
  /\ Released(r)
  /\ UNCHANGED <<inflight, task, thread, control, stream, status, noted, posted, history>>

(* The rest of _handle_runs: the run is registered, its task created, and  *)
(* the reservation handed over to the task, in one step of the loop.       *)
StartRun(r) ==
  /\ r \in Runs /\ handler[r] = "body"
  /\ handler' = [handler EXCEPT ![r] = "closed"]
  /\ Released(r)
  /\ task' = [task EXCEPT ![r] = "queued"]
  /\ streams' = streams \cup {r}
  /\ sessions' = sessions \cup {r}
  /\ status' = [status EXCEPT ![r] = "queued"]
  /\ UNCHANGED <<inflight, thread, agents, stopping, notify, subscribers, queue, viewers,
                 noted, posted, history>>

(* A streaming completion: the turn becomes a task, the handler goes on as *)
(* the SSE writer and keeps its reservation until the task has begun.      *)
StartChat(r) ==
  /\ r \in Chats /\ handler[r] = "body"
  /\ handler' = [handler EXCEPT ![r] = "stream"]
  /\ task' = [task EXCEPT ![r] = "queued"]
  /\ UNCHANGED <<counts, thread, control, stream, status, noted, posted, history>>

-----------------------------------------------------------------------------
(* The task of a run: _run_and_close *)

(* The terminal event and the sentinel, while the run owns its queue.      *)
Closing(r) ==
  queue' = IF r \in streams THEN [queue EXCEPT ![r] = @ \o <<"final", "end">>] ELSE queue

(* The finally block.                                                      *)
Settle(r) ==
  /\ task' = [task EXCEPT ![r] = "done"]
  /\ agents' = agents \ {r}
  /\ sessions' = sessions \ {r}
  /\ stopping' = stopping \ {r}
  /\ notify' = notify \ {r}
  /\ Closing(r)

(* The first step of the task: a run stopped while it was queued is        *)
(* cancelled, an agent that cannot be built fails the run, and otherwise   *)
(* the turn goes to the executor, whose thread first registers the         *)
(* notifier of approvals (one step: nothing the thread reads can change in *)
(* between).                                                               *)
TaskStarts(r) ==
  /\ r \in Runs /\ task[r] = "queued"
  /\ \/ /\ r \in stopping
        /\ status' = [status EXCEPT ![r] = "cancelled"]
        /\ Settle(r)
        /\ UNCHANGED thread
     \/ /\ r \notin stopping
        /\ status' = [status EXCEPT ![r] = "failed"]
        /\ Settle(r)
        /\ UNCHANGED thread
     \/ /\ r \notin stopping
        /\ status' = [status EXCEPT ![r] = "running"]
        /\ agents' = agents \cup {r}
        /\ task' = [task EXCEPT ![r] = "awaiting"]
        /\ thread' = [thread EXCEPT ![r] = "turn"]
        /\ notify' = notify \cup {r}
        /\ UNCHANGED <<sessions, stopping, queue>>
  /\ UNCHANGED <<handler, counts, streams, subscribers, viewers, noted, posted, history>>

(* What a finished turn leaves the run as: a stop that came before the     *)
(* task looked wins over every result but an exception.                    *)
Verdict(r) ==
  CASE thread[r] = "raised" -> "failed"
    [] thread[r] # "raised" /\ r \in stopping -> "cancelled"
    [] thread[r] = "failed" /\ r \notin stopping -> "failed"
    [] thread[r] = "ok" /\ r \notin stopping -> "completed"

(* The executor's future is served: the task goes on after its await.      *)
RunReturns(r) ==
  /\ r \in Runs /\ task[r] = "awaiting" /\ thread[r] \in Ended
  /\ posted[r] # <<>> /\ Head(posted[r]) = "returned"
  /\ posted' = [posted EXCEPT ![r] = Tail(@)]
  /\ status' = [status EXCEPT ![r] = Verdict(r)]
  /\ thread' = [thread EXCEPT ![r] = "over"]
  /\ Settle(r)
  /\ UNCHANGED <<handler, counts, streams, subscribers, viewers, noted, history>>

(* An event the thread posted reaches the queue; nobody asks here whether  *)
(* the queue still belongs to the run.                                     *)
Deliver(r) ==
  /\ posted[r] # <<>> /\ Head(posted[r]) = "event"
  /\ posted' = [posted EXCEPT ![r] = Tail(@)]
  /\ queue' = IF r \in streams \/ viewers[r] > 0
                THEN [queue EXCEPT ![r] = Append(@, "event")] ELSE queue
  /\ UNCHANGED <<handler, counts, task, thread, control, streams, subscribers, viewers,
                 status, noted, history>>

-----------------------------------------------------------------------------
(* The executor thread *)

(* _push reads the status and writes it back with the event's name; the    *)
(* loop may change it in between.                                          *)
PushReads(r) ==
  /\ r \in Runs /\ thread[r] = "turn" /\ noted[r] = "none"
  /\ Spend("events")
  /\ noted' = [noted EXCEPT ![r] = status[r]]
  /\ UNCHANGED <<handler, counts, task, thread, control, stream, status, posted,
                 answered, granted, limit>>

PushWrites(r) ==
  /\ noted[r] # "none"
  /\ status' = [status EXCEPT ![r] = noted[r]]
  /\ noted' = [noted EXCEPT ![r] = "none"]
  /\ posted' = IF r \in streams THEN [posted EXCEPT ![r] = Append(@, "event")] ELSE posted
  /\ UNCHANGED <<handler, counts, task, thread, control, stream, history>>

(* _approval_notify: the turn blocks on a host-side command.               *)
Ask(r) ==
  /\ thread[r] = "turn" /\ noted[r] = "none" /\ r \in notify
  /\ Spend("asks")
  /\ thread' = [thread EXCEPT ![r] = "approval"]
  /\ status' = [status EXCEPT ![r] = "waiting_for_approval"]
  /\ posted' = [posted EXCEPT ![r] = Append(@, "event")]
  /\ UNCHANGED <<handler, counts, task, control, stream, noted, answered,
                 granted, limit>>

ApprovalTimesOut(r) ==
  /\ thread[r] = "approval"
  /\ thread' = [thread EXCEPT ![r] = "turn"]
  /\ UNCHANGED <<handler, counts, task, control, stream, status, noted, posted, history>>

(* The turn ends; its thread unregisters the notifier first.               *)
TurnEnds(r) ==
  /\ thread[r] = "turn" /\ noted[r] = "none"
  /\ \E how \in IF r \in Runs THEN Ended ELSE {"ok"} :
       thread' = [thread EXCEPT ![r] = how]
  /\ notify' = notify \ {r}
  /\ posted' = [posted EXCEPT ![r] = Append(@, "returned")]
  /\ UNCHANGED <<handler, counts, task, agents, sessions, stopping, stream, status,
                 noted, history>>

-----------------------------------------------------------------------------
(* Approval and stop *)

(* The approval queue of a conversation.  A bug the mutants use.           *)
ConversationKey(r) == "conversation"

(* approval_session_key: one namespace per run.                            *)
ApprovalKey(r) == r

Waiting(key) == {r \in Requests : thread[r] = "approval" /\ ApprovalKey(r) = key}

(* POST /v1/runs/{run_id}/approval that finds a pending approval (without  *)
(* one the answer is 404 or 409 and nothing changes).  The turn it wakes   *)
(* may ask again before the handler writes "running"; the two are one step *)
(* here, since no property tells "running" from "waiting_for_approval".    *)
Approve(r) ==
  /\ r \in sessions
  /\ \E waiter \in Waiting(ApprovalKey(r)) :
       /\ thread' = [thread EXCEPT ![waiter] = "turn"]
       /\ granted' = [granted EXCEPT ![waiter] = @ + 1]
  /\ answered' = [answered EXCEPT ![r] = @ + 1]
  /\ status' = [status EXCEPT ![r] = "running"]
  /\ queue' = IF r \in streams THEN [queue EXCEPT ![r] = Append(@, "event")] ELSE queue
  /\ UNCHANGED <<handler, counts, task, control, streams, subscribers, viewers, noted,
                 posted, limit, budget>>

Stopped(r) ==
  /\ status' = [status EXCEPT ![r] = "stopping"]
  /\ stopping' = stopping \cup {r}
  /\ UNCHANGED <<handler, counts, task, thread, agents, sessions, notify, stream, noted,
                 posted, history>>

(* Stop for whatever run has a status.  A bug the mutants use.             *)
StopKnownRun(r) == status[r] \notin {"none", "stopping"} /\ Stopped(r)

(* POST /v1/runs/{run_id}/stop: only while the run has an agent or a task. *)
(* The interrupt is a request; the turn ends when it notices.  (A second   *)
(* stop changes nothing.)                                                  *)
StopRun(r) ==
  /\ r \in agents \/ (r \in Runs /\ task[r] \in Live)
  /\ r \notin stopping \/ status[r] # "stopping"
  /\ Stopped(r)

-----------------------------------------------------------------------------
(* The event stream of a run, and the sweep *)

(* GET /v1/runs/{run_id}/events finds the stream and registers itself;     *)
(* response.prepare, outside the try block, may fail and leave the         *)
(* subscriber behind.                                                      *)
ViewerJoins(r) ==
  /\ r \in streams /\ Spend("views")
  /\ subscribers' = subscribers \cup {r}
  /\ viewers' \in {viewers, [viewers EXCEPT ![r] = @ + 1]}
  /\ UNCHANGED <<handler, counts, task, thread, control, streams, queue, status, noted,
                 posted, answered, granted, limit>>

(* The finally block of the handler: the stream goes with the first viewer *)
(* that leaves.  A queue nobody holds any more is garbage.                 *)
Leave(r, rest) ==
  /\ viewers' = [viewers EXCEPT ![r] = @ - 1]
  /\ subscribers' = subscribers \ {r}
  /\ streams' = streams \ {r}
  /\ queue' = [queue EXCEPT ![r] = IF viewers[r] = 1 THEN <<>> ELSE rest]

ViewerReads(r) ==
  /\ viewers[r] > 0 /\ queue[r] # <<>>
  /\ IF Head(queue[r]) = "end"
       THEN Leave(r, Tail(queue[r]))
       ELSE queue' = [queue EXCEPT ![r] = Tail(@)] /\ UNCHANGED <<viewers, subscribers, streams>>
  /\ UNCHANGED <<handler, counts, task, thread, control, status, noted, posted, history>>

ViewerVanishes(r) ==
  /\ viewers[r] > 0
  /\ Leave(r, queue[r])
  /\ UNCHANGED <<handler, counts, task, thread, control, status, noted, posted, history>>

(* _sweep_orphaned_runs_once for a stream past its TTL that has no         *)
(* subscriber: a turn may outlive the TTL, so its control state stays.     *)
SweepStream(r) ==
  /\ r \in streams \ subscribers
  /\ Spend("sweeps")
  /\ streams' = streams \ {r}
  /\ queue' = IF viewers[r] = 0 THEN [queue EXCEPT ![r] = <<>>] ELSE queue
  /\ IF task[r] \in Live
       THEN UNCHANGED control
       ELSE /\ agents' = agents \ {r} /\ sessions' = sessions \ {r}
            /\ stopping' = stopping \ {r} /\ notify' = notify \ {r}
  /\ UNCHANGED <<handler, counts, task, thread, subscribers, viewers, status, noted,
                 posted, answered, granted, limit>>

(* A terminal status older than its TTL is forgotten.                      *)
SweepStatus(r) ==
  /\ status[r] \in Terminal
  /\ Spend("sweeps")
  /\ status' = [status EXCEPT ![r] = "none"]
  /\ UNCHANGED <<handler, counts, task, thread, control, stream, noted, posted, answered,
                 granted, limit>>

-----------------------------------------------------------------------------
(* The streaming completion: _run_agent and _write_sse_chat_completion *)

(* _run_agent up to its await: the reservation becomes an inflight turn.   *)
ChatTaskStarts(r) ==
  /\ r \in Chats /\ task[r] = "queued"
  /\ Released(r)
  /\ inflight' = inflight + 1
  /\ task' = [task EXCEPT ![r] = "awaiting"]
  /\ thread' = [thread EXCEPT ![r] = "turn"]
  /\ UNCHANGED <<handler, control, stream, status, noted, posted, history>>

(* The turn is over: its task ends, and the sentinel of the done callback  *)
(* lets the writer finish the response.                                    *)
ChatReturns(r) ==
  /\ r \in Chats /\ task[r] = "awaiting"
  /\ posted[r] # <<>> /\ Head(posted[r]) = "returned"
  /\ posted' = [posted EXCEPT ![r] = Tail(@)]
  /\ task' = [task EXCEPT ![r] = "done"]
  /\ thread' = [thread EXCEPT ![r] = "over"]
  /\ inflight' = inflight - 1
  /\ UNCHANGED <<handler, reserved, pending, control, stream, status, noted, history>>

ChatCloses(r) ==
  /\ handler[r] = "stream" /\ task[r] = "done"
  /\ handler' = [handler EXCEPT ![r] = "closed"]
  /\ Released(r)
  /\ UNCHANGED <<inflight, task, thread, control, stream, status, noted, posted, history>>

(* The client goes away: the agent is asked to stop and the task cancelled *)
(* at once.  Its count ends; the executor thread does not.                 *)
ClientVanishes(r) ==
  /\ handler[r] = "stream" /\ task[r] \in Live
  /\ handler' = [handler EXCEPT ![r] = "closed"]
  /\ Released(r)
  /\ task' = [task EXCEPT ![r] = "cancelled"]
  /\ inflight' = IF task[r] = "awaiting" THEN inflight - 1 ELSE inflight
  /\ UNCHANGED <<thread, control, stream, status, noted, posted, history>>

-----------------------------------------------------------------------------

(* What the loop owes to a request it has begun.                           *)
LoopServes(r) ==
  TaskStarts(r) \/ ChatTaskStarts(r) \/ Deliver(r) \/ RunReturns(r) \/ ChatReturns(r)

(* What the thread of a turn does by itself.                               *)
ThreadGoesOn(r) == PushWrites(r) \/ ApprovalTimesOut(r) \/ TurnEnds(r)

Next ==
  \E r \in Requests :
       \/ Admit(r) \/ BadBody(r) \/ StartRun(r) \/ StartChat(r)
       \/ LoopServes(r) \/ ThreadGoesOn(r)
       \/ PushReads(r) \/ Ask(r)
       \/ Approve(r) \/ StopRun(r)
       \/ ViewerJoins(r) \/ ViewerReads(r) \/ ViewerVanishes(r)
       \/ SweepStream(r) \/ SweepStatus(r)
       \/ ChatCloses(r) \/ ClientVanishes(r)

(* The loop runs every ready callback, a turn ends by itself or at its     *)
(* interrupt, and an approval nobody answers times out.                    *)
Fairness == \A r \in Requests : WF_vars(LoopServes(r)) /\ WF_vars(ThreadGoesOn(r))

Spec == Init /\ [][Next]_vars /\ Fairness

-----------------------------------------------------------------------------
(* Properties *)

(* The components have their types.                                        *)
TypeOK ==
  /\ handler \in [Requests -> {"idle", "body", "stream", "closed"}]
  /\ reserved \subseteq Requests /\ pending \in Nat /\ inflight \in Nat
  /\ task \in [Requests -> {"none", "done", "cancelled"} \cup Live]
  /\ thread \in [Requests -> {"none", "turn", "approval", "over"} \cup Ended]
  /\ agents \subseteq Requests /\ sessions \subseteq Requests
  /\ stopping \subseteq Requests /\ notify \subseteq Requests
  /\ streams \subseteq Requests /\ subscribers \subseteq Requests
  /\ status \in [Requests -> Statuses] /\ noted \in [Requests -> Statuses]
  /\ posted \in [Requests -> Seq({"event", "returned"})]
  /\ queue \in [Requests -> Seq({"event", "final", "end"})]
  /\ viewers \in [Requests -> Nat]
  /\ answered \in [Requests -> Nat] /\ granted \in [Requests -> Nat]
  /\ limit \in Limits
  /\ budget \in [events : Nat, asks : Nat, views : Nat, sweeps : Nat]

(* Requests past admission whose turn the server still waits for.          *)
UnderWay == {r \in Requests : handler[r] = "body" \/ task[r] \in Live}

(* However admissions, hand-overs to a task, refusals and disconnects      *)
(* interleave, the requests that wait for their body or for their turn     *)
(* stay within max_concurrent_runs: the reservation is neither lost before *)
(* the turn is counted nor given back twice.  (The thread of a turn whose  *)
(* client vanished is no longer among them.)                               *)
UnderWayWithinCap == Cardinality(UnderWay) <= limit

(* A host-side command goes on only by an approval that was posted for its *)
(* own run, whichever runs share a conversation, or by a timeout.          *)
GrantsAreAnswered == \A r \in Requests : granted[r] <= answered[r]

(* A run the API has accepted comes to a terminal status, whatever stops,  *)
(* approvals, sweeps and lost viewers come in between, and neither a late  *)
(* stop nor a late write of its thread ever takes it back; by then nothing *)
(* of its control state is left.                                           *)
RunSettles ==
  \A r \in Runs :
    status[r] = "queued" ~>
      [](status[r] \in Terminal \cup {"none"} /\ r \notin agents \cup sessions \cup stopping)
=============================================================================
