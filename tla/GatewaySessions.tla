-------------------------- MODULE GatewaySessions --------------------------
(***************************************************************************)
(* Sessions of the Hermes API server: create, patch, delete, fork, the     *)
(* model lock, and session chat with the choice of the model a turn runs   *)
(* on.  Every call of SessionDB is one transaction in a worker thread, so  *)
(* other handlers run between any two of them; the lock is written by the  *)
(* event loop itself.                                                      *)
(*                                                                         *)
(* A model stands for a provider and a model.  "fast" is an alias of       *)
(* model_routes, "hermes-agent" the name the server itself advertises.     *)
(* External: SessionDB (upserts, replaces, appends), AIAgent (appends its  *)
(* turn to the transcript, may end on another model than it began with;    *)
(* that it may also compact a transcript in place or move it to another    *)
(* session id, as the server is told after the turn, is left out), the     *)
(* runner of the gateway (a session's /model override).                    *)
(***************************************************************************)
EXTENDS Naturals, Sequences, FiniteSets

CONSTANTS
  Sessions,     \* session ids
  Chats,        \* requests for one turn of a session
  Forks,        \* requests to fork a session
  MaxCreates,   \* bound: sessions created by POST /api/sessions
  MaxDeletes,   \* bound: sessions deleted
  MaxLocks,     \* bound: locks confirmed
  MaxChanges    \* bound: patches, /model overrides, config reads that come back empty

BoundsOK ==
  /\ IsFiniteSet(Sessions) /\ Chats \cap Forks = {}
  /\ MaxCreates \in Nat /\ MaxDeletes \in Nat /\ MaxLocks \in Nat /\ MaxChanges \in Nat

VARIABLES
  rows,      \* the session rows and their transcripts
  births,    \* rows inserted so far; a row keeps its number as its life
  locks,     \* the locks confirmed so far, in order (a row holds an index)
  override,  \* _session_model_overrides of the gateway's runner
  recent,    \* _last_resolved_model["*"]
  chat,      \* the handler of each chat request, and its turn
  fork,      \* the handler of each fork request
  bounds     \* what may still be created, deleted and changed, and locks at all

vars == <<rows, births, locks, override, recent, chat, fork, bounds>>

Named  == {"raw", "fast", "hermes-agent"}            \* what a body may ask for
Ran    == {"raw", "quick", "hermes-agent", "global", "switched", "fallback"}
None   == "none"
Absent == [life |-> 0, model |-> None, lock |-> 0, ended |-> FALSE, turns |-> {}]

Init ==
  /\ rows = [s \in Sessions |-> Absent] /\ births = 0 /\ locks = <<>>
  /\ override = [s \in Sessions |-> None] /\ recent = None
  /\ chat = [c \in Chats |->
               [pc |-> "idle", session |-> None, since |-> 0, life |-> 0, model |-> None,
                lock |-> 0, own |-> None, held |-> None, ran |-> None]]
  /\ fork = [f \in Forks |->
               [pc |-> "idle", source |-> None, target |-> None, model |-> None,
                before |-> 0, turns |-> {}]]
  /\ bounds \in [creates : 0..MaxCreates, deletes : 0..MaxDeletes, changes : 0..MaxChanges,
                 locks : 0..MaxLocks]

Spend(what) ==
  /\ bounds[what] > 0
  /\ bounds' = [bounds EXCEPT ![what] = @ - 1]

-----------------------------------------------------------------------------
(* Selection of a model *)

(* _resolve_route: the model behind an alias.                              *)
Route(name) == IF name = "fast" THEN "quick" ELSE None

(* A name that _session_runtime_request_from_body can route: not the one   *)
(* the server itself goes by.                                              *)
Routable(name) == name \in Named \ {"hermes-agent"}

(* The model a lock on this name promises.                                 *)
Promised(name) == IF Route(name) # None THEN Route(name) ELSE name

LockedName(seen) == IF seen.lock > 0 THEN locks[seen.lock].name ELSE None

(* The lock a turn runs under, _effective_session_runtime_request: a body  *)
(* that names a model stands for itself, as a lock only if it says so,     *)
(* else the confirmed lock of the row holds.                               *)
HeldLock(seen, own, require) ==
  IF own = None THEN LockedName(seen) ELSE IF require THEN own ELSE None

(* The model under no lock: the /model override of the session, the model  *)
(* of its row, the request's, the configured one.                          *)
Unlocked(c, configured) ==
  LET stored == chat[c].model
      wanted == IF chat[c].own = "hermes-agent" THEN None ELSE chat[c].own
  IN CASE override[chat[c].session] # None -> override[chat[c].session]
       [] override[chat[c].session] = None /\ stored # None -> Promised(stored)
       [] override[chat[c].session] = None /\ stored = None /\ wanted # None -> Promised(wanted)
       [] OTHER -> configured

(* _create_agent.  A lock bypasses the override and the row.               *)
Selected(c, configured) ==
  IF chat[c].held # None THEN Promised(chat[c].held) ELSE Unlocked(c, configured)

(* Its safety net: nothing was resolved, so the model the process resolved *)
(* last, for whatever session, serves.                                     *)
Recovered(model) == IF model = None THEN recent ELSE model

-----------------------------------------------------------------------------
(* Rows *)

Exists(s) == rows[s].life > 0

(* POST /api/sessions: check, insert and title in one transaction; a taken *)
(* id (409) and a taken title (400) leave nothing behind.                  *)
Create(s) ==
  /\ ~Exists(s) /\ Spend("creates")
  /\ births' = births + 1
  /\ \E name \in Named, confirmed \in BOOLEAN :
       /\ confirmed => Routable(name) /\ Len(locks) < bounds.locks
       /\ rows' = [rows EXCEPT ![s] =
                     [Absent EXCEPT !.life = births', !.model = name,
                                    !.lock = IF confirmed THEN Len(locks) + 1 ELSE 0]]
       /\ locks' = IF confirmed
                     THEN Append(locks, [session |-> s, life |-> births', name |-> name])
                     ELSE locks
  /\ UNCHANGED <<override, recent, chat, fork>>

(* PATCH with an end_reason; title and flags are not modelled.             *)
Patch(s) ==
  /\ Exists(s) /\ Spend("changes")
  /\ rows' = [rows EXCEPT ![s].ended = TRUE]
  /\ UNCHANGED <<births, locks, override, recent, chat, fork>>

(* DELETE finds the session and, after an await, deletes whatever row has  *)
(* its id by then.                                                         *)
Delete(s) ==
  /\ Exists(s) /\ Spend("deletes")
  /\ rows' = [rows EXCEPT ![s] = Absent]
  /\ UNCHANGED <<births, locks, override, recent, chat, fork>>

(* The runner takes a /model switch for the session, or drops it.          *)
Switch(s) ==
  /\ Spend("changes")
  /\ override' = [override EXCEPT ![s] = IF @ = None THEN "switched" ELSE None]
  /\ UNCHANGED <<rows, births, locks, recent, chat, fork>>

(* update_session_runtime_lock on the row, if there is one.                *)
Locked(s, name) ==
  IF Exists(s)
    THEN /\ Len(locks) < bounds.locks
         /\ locks' = Append(locks, [session |-> s, life |-> rows[s].life, name |-> name])
         /\ rows' = [rows EXCEPT ![s].lock = Len(locks')]
    ELSE UNCHANGED <<rows, locks>>

(* POST /api/sessions/{id}/model: persisted and acknowledged in one step.  *)
(* (For a session deleted since its lookup the write meets no row.)        *)
ConfirmLock(s) ==
  /\ Exists(s)
  /\ \E name \in Named : Routable(name) /\ Locked(s, name)
  /\ UNCHANGED <<births, override, recent, chat, fork, bounds>>

-----------------------------------------------------------------------------
(* Session chat, synchronous or as a stream *)

Moved(c, pc) == chat' = [chat EXCEPT ![c].pc = pc]

(* The newest lock acknowledged for the session as it stands.              *)
NewestLock(s) ==
  LET mine == {k \in 1..Len(locks) : locks[k].session = s /\ locks[k].life = rows[s].life}
  IN IF mine = {} THEN 0 ELSE CHOOSE k \in mine : \A j \in mine : j <= k

ChatArrives(c, s) ==
  /\ chat[c].pc = "idle"
  /\ chat' = [chat EXCEPT ![c].pc = "lookup", ![c].session = s, ![c].since = NewestLock(s)]
  /\ UNCHANGED <<rows, births, locks, override, recent, fork, bounds>>

(* _get_existing_session_or_404; then the body is awaited.                 *)
ChatLooksUp(c) ==
  /\ chat[c].pc = "lookup"
  /\ LET row == rows[chat[c].session] IN
       IF row.life = 0 THEN Moved(c, "closed")
       ELSE chat' = [chat EXCEPT ![c].pc = "body", ![c].life = row.life,
                                 ![c].model = row.model, ![c].lock = row.lock]
  /\ UNCHANGED <<rows, births, locks, override, recent, fork, bounds>>

(* A bug the mutants use: every request that names a model is written to   *)
(* the row, confirmed or not.                                              *)
PersistEveryRequest(c, own, require) ==
  IF own # None /\ ~require
    THEN rows' = [rows EXCEPT ![chat[c].session].lock = 0] /\ UNCHANGED locks
    ELSE IF own # None THEN Locked(chat[c].session, own) ELSE UNCHANGED <<rows, locks>>

(* _persist_session_runtime_lock: only a lock this request brings.         *)
Persist(c, own, require) ==
  IF require THEN Locked(chat[c].session, own) ELSE UNCHANGED <<rows, locks>>

(* The body is there: selection, lock errors, persistence, in one step.    *)
(* Every refusal (a bad body, a lock without or with the wrong model, a    *)
(* provider that contradicts the route, a write that fails) writes nothing.*)
ChatSelects(c) ==
  /\ chat[c].pc = "body"
  /\ \/ Moved(c, "closed") /\ UNCHANGED <<rows, locks>>
     \/ \E own \in Named \cup {None}, require \in BOOLEAN :
          /\ require => Routable(own)
          /\ Persist(c, own, require)
          /\ chat' = [chat EXCEPT
               ![c].pc = "history", ![c].own = own,
               ![c].held = HeldLock(chat[c], own, require)]
  /\ UNCHANGED <<births, override, recent, fork, bounds>>

(* _run_agent: the history is loaded (or, if that fails, empty), and the   *)
(* executor builds the agent.  A provider that cannot be resolved answers  *)
(* with the failure and runs nothing.                                      *)
TurnBegins(c) ==
  /\ chat[c].pc = "history"
  /\ \/ Moved(c, "closed") /\ UNCHANGED <<recent, bounds>>
     \/ \E configured \in {"global", None} :
          /\ IF configured = None THEN Spend("changes") ELSE UNCHANGED bounds
          /\ LET model == Selected(c, configured) IN
               /\ recent' = Recovered(model)
               /\ chat' = [chat EXCEPT ![c].pc = "turn", ![c].ran = Recovered(model)]
  /\ UNCHANGED <<rows, births, locks, override, fork>>

(* The check of a confirmed lock, after the turn has run.                  *)
LockMatches(c, ran) == chat[c].held # None => ran = Promised(chat[c].held)

(* run_conversation returns: its messages are in the transcript of the     *)
(* session, if that still exists, whether or not the lock then holds.      *)
TurnEnds(c) ==
  /\ chat[c].pc \in {"turn", "abandoned"}
  /\ rows' = IF Exists(chat[c].session)
               THEN [rows EXCEPT ![chat[c].session].turns = @ \cup {c}] ELSE rows
  /\ \E ran \in {chat[c].ran, "fallback"} :
       chat' = [chat EXCEPT
                  ![c].ran = ran,
                  ![c].pc = IF chat[c].pc = "turn" /\ LockMatches(c, ran)
                              THEN "answered" ELSE "closed"]
  /\ UNCHANGED <<births, locks, override, recent, fork, bounds>>

(* The client of a stream goes away: its task is cancelled, the thread of  *)
(* a turn goes on.                                                         *)
ChatVanishes(c) ==
  /\ chat[c].pc \in {"history", "turn"}
  /\ Moved(c, IF chat[c].pc = "turn" THEN "abandoned" ELSE "closed")
  /\ UNCHANGED <<rows, births, locks, override, recent, fork, bounds>>

-----------------------------------------------------------------------------
(* POST /api/sessions/{id}/fork *)

ForkLooksUp(f, s) ==
  /\ fork[f].pc = "idle" /\ Exists(s)
  /\ fork' = [fork EXCEPT ![f].pc = "check", ![f].source = s, ![f].model = rows[s].model]
  /\ UNCHANGED <<rows, births, locks, override, recent, chat, bounds>>

(* A bug the mutants use: the target id is not looked up.                  *)
TakesAnyId(f, s) ==
  /\ fork[f].pc = "check"
  /\ fork' = [fork EXCEPT ![f].pc = "end", ![f].target = s, ![f].before = births]
  /\ UNCHANGED <<rows, births, locks, override, recent, chat, bounds>>

(* get_session on the new id: only an unknown one goes on.                 *)
ForkChecks(f, s) ==
  /\ fork[f].pc = "check" /\ ~Exists(s)
  /\ fork' = [fork EXCEPT ![f].pc = "end", ![f].target = s, ![f].before = births]
  /\ UNCHANGED <<rows, births, locks, override, recent, chat, bounds>>

(* end_session(source, "branched"), whatever has become of the source.     *)
ForkEnds(f) ==
  /\ fork[f].pc = "end"
  /\ fork' = [fork EXCEPT ![f].pc = "create"]
  /\ rows' = IF Exists(fork[f].source)
               THEN [rows EXCEPT ![fork[f].source].ended = TRUE] ELSE rows
  /\ UNCHANGED <<births, locks, override, recent, chat, bounds>>

(* create_session is an upsert: a session created under the id since the   *)
(* check is taken over.  The child has the model of its source as it was   *)
(* looked up, and no lock.                                                 *)
ForkCreates(f) ==
  /\ fork[f].pc = "create"
  /\ fork' = [fork EXCEPT ![f].pc = "read"]
  /\ IF Exists(fork[f].target)
       THEN UNCHANGED <<rows, births>>
       ELSE /\ births' = births + 1
            /\ rows' = [rows EXCEPT ![fork[f].target] =
                          [Absent EXCEPT !.life = births', !.model = fork[f].model]]
  /\ UNCHANGED <<locks, override, recent, chat, bounds>>

ForkReads(f) ==
  /\ fork[f].pc = "read"
  /\ fork' = [fork EXCEPT ![f].pc = "replace", ![f].turns = rows[fork[f].source].turns]
  /\ UNCHANGED <<rows, births, locks, override, recent, chat, bounds>>

(* replace_messages; the title that follows may be refused (400) and then  *)
(* leaves the fork as it is.                                               *)
ForkReplaces(f) ==
  /\ fork[f].pc = "replace"
  /\ fork' = [fork EXCEPT ![f].pc = "closed"]
  /\ rows' = IF Exists(fork[f].target)
               THEN [rows EXCEPT ![fork[f].target].turns = fork[f].turns] ELSE rows
  /\ UNCHANGED <<births, locks, override, recent, chat, bounds>>

-----------------------------------------------------------------------------

ChatStep(c) ==
  \/ \E s \in Sessions : ChatArrives(c, s)
  \/ ChatLooksUp(c) \/ ChatSelects(c) \/ TurnBegins(c) \/ TurnEnds(c) \/ ChatVanishes(c)

ForkStep(f) ==
  \/ \E s \in Sessions : ForkLooksUp(f, s) \/ ForkChecks(f, s)
  \/ ForkEnds(f) \/ ForkCreates(f) \/ ForkReads(f) \/ ForkReplaces(f)

Next ==
  \/ \E s \in Sessions : Create(s) \/ Patch(s) \/ Delete(s) \/ Switch(s) \/ ConfirmLock(s)
  \/ \E c \in Chats : ChatStep(c)
  \/ \E f \in Forks : ForkStep(f)

Spec == Init /\ [][Next]_vars

-----------------------------------------------------------------------------
(* Properties *)

(* The components have their types.                                        *)
TypeOK ==
  /\ rows \in [Sessions -> [life : Nat, model : Named \cup {None}, lock : Nat,
                            ended : BOOLEAN, turns : SUBSET Chats]]
  /\ births \in Nat
  /\ locks \in Seq([session : Sessions, life : Nat, name : Named])
  /\ override \in [Sessions -> {None, "switched"}] /\ recent \in Ran \cup {None}
  /\ chat \in [Chats ->
       [pc : {"idle", "lookup", "body", "history", "turn", "abandoned", "answered", "closed"},
        session : Sessions \cup {None}, since : Nat, life : Nat,
        model : Named \cup {None}, lock : Nat, own : Named \cup {None}, held : Named \cup {None},
        ran : Ran \cup {None}]]
  /\ fork \in [Forks ->
       [pc : {"idle", "check", "end", "create", "read", "replace", "closed"},
        source : Sessions \cup {None}, target : Sessions \cup {None},
        model : Named \cup {None}, before : Nat, turns : SUBSET Chats]]
  /\ bounds \in [creates : Nat, deletes : Nat, changes : Nat, locks : Nat]

(* A model lock is a contract: a turn that arrives after a lock of its     *)
(* session was acknowledged, names no model itself and is answered, ran on *)
(* the model of that lock or of a younger one, whatever other requests,    *)
(* /model switches, row models and fallbacks came in between (unless the   *)
(* session was deleted and made anew before the turn looked it up).        *)
LockedTurnsHold ==
  \A c \in Chats :
    LET t == chat[c] IN
    t.pc = "answered" /\ t.own = None /\ t.since > 0 /\ locks[t.since].life = t.life
      => \E k \in t.since..Len(locks) :
           locks[k].session = t.session /\ locks[k].life = t.life
           /\ t.ran = Promised(locks[k].name)

KeepsTurns ==
  \A s \in Sessions :
    rows[s].life > 0 /\ rows'[s].life = rows[s].life
      /\ ~(rows[s].turns \subseteq rows'[s].turns)
      => \E f \in Forks : /\ fork[f].pc = "replace" /\ fork[f].target = s
                          /\ fork[f].before < rows[s].life

(* A turn leaves the transcript of a living session only by a fork that    *)
(* looked the id up before that session came to be: a fork never writes    *)
(* over a session it could have seen.  (An agent that compacts a           *)
(* transcript in place is not modelled: turns are only appended.)          *)
TurnsKept == [][KeepsTurns]_vars
=============================================================================
