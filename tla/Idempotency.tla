---------------------------- MODULE Idempotency ----------------------------
(***************************************************************************)
(* The idempotency middleware of the API: POST requests of one client to   *)
(* one path with one X-Idempotency-Key.  A request looks the key up in     *)
(* Redis, replays or refuses, or goes on to the application and stores     *)
(* what it answered.  The list that captures an answer is an attribute of  *)
(* the middleware, one for all requests.                                   *)
(*                                                                         *)
(* An answer is the sequence of the requests whose chunks it consists of;  *)
(* a body is a model value.                                                *)
(***************************************************************************)
EXTENDS Naturals, Sequences, FiniteSets

CONSTANTS
  Requests,    \* POST requests with the key
  Bodies,      \* request bodies, as their hashes tell them apart
  MaxFaults    \* bound: Redis errors and expired records

BoundsOK == IsFiniteSet(Requests) /\ "none" \notin Bodies /\ MaxFaults \in Nat

VARIABLES
  body,      \* the body of a request
  pc,        \* how far the middleware has come with a request
  answer,    \* what the client was sent
  captured,  \* self._captured
  record,    \* the value of the key in Redis
  overlap,   \* history: two answers were captured at the same time
  faults

vars == <<body, pc, answer, captured, record, overlap, faults>>

NoRecord == [body |-> "none", content |-> <<>>, fresh |-> FALSE]

Init ==
  /\ body \in [Requests -> Bodies]
  /\ pc = [r \in Requests |-> "idle"]
  /\ answer = [r \in Requests |-> <<>>]
  /\ captured = <<>>
  /\ record = NoRecord
  /\ overlap = FALSE
  /\ faults = 0

Fault == faults < MaxFaults /\ faults' = faults + 1

Goes(r, to) == pc' = [pc EXCEPT ![r] = to]

(* No record, or a stale one, which is deleted; the DELETE may fail.       *)
Misses(r) ==
  /\ pc[r] = "idle" /\ ~record.fresh
  /\ Goes(r, "forward")
  /\ \/ record' = NoRecord /\ UNCHANGED faults
     \/ Fault /\ UNCHANGED record
  /\ UNCHANGED <<body, answer, captured, overlap>>

(* A fresh record of the same body is the answer, of another a conflict.   *)
Replays(r) ==
  /\ pc[r] = "idle" /\ record.fresh /\ record.body = body[r]
  /\ Goes(r, "replayed")
  /\ answer' = [answer EXCEPT ![r] = record.content]
  /\ UNCHANGED <<body, captured, record, overlap, faults>>

Conflicts(r) ==
  /\ pc[r] = "idle" /\ record.fresh /\ record.body # body[r]
  /\ Goes(r, "conflict")
  /\ UNCHANGED <<body, answer, captured, record, overlap, faults>>

(* Redis does not answer: the request goes on unprotected.                 *)
LookupFails(r) ==
  /\ pc[r] = "idle" /\ Fault
  /\ Goes(r, "bare")
  /\ UNCHANGED <<body, answer, captured, record, overlap>>

BareReturns(r) ==
  /\ pc[r] = "bare"
  /\ Goes(r, "done")
  /\ answer' = [answer EXCEPT ![r] = <<r>>]
  /\ UNCHANGED <<body, captured, record, overlap, faults>>

Capturing == {r \in Requests : pc[r] \in {"captures", "captured"}}

(* The list keeps the chunks of the request before.  A bug the mutants     *)
(* use.                                                                    *)
ForwardsOntoRest(r) ==
  /\ pc[r] = "forward"
  /\ Goes(r, "captures")
  /\ overlap' = (overlap \/ Capturing # {})
  /\ UNCHANGED <<body, answer, captured, record, faults>>

(* _forward_and_capture: a new list, then the application.                 *)
Forwards(r) ==
  /\ pc[r] = "forward"
  /\ Goes(r, "captures")
  /\ captured' = <<>>
  /\ overlap' = (overlap \/ Capturing # {})
  /\ UNCHANGED <<body, answer, record, faults>>

(* The chunk of the answer goes into whatever list is there now, and to    *)
(* the client; what is no 2xx is not stored.                               *)
AppAnswers(r) ==
  /\ pc[r] = "captures"
  /\ \/ Goes(r, "captured")
     \/ Goes(r, "failed")
  /\ captured' = Append(captured, r)
  /\ answer' = [answer EXCEPT ![r] = <<r>>]
  /\ UNCHANGED <<body, record, overlap, faults>>

(* The SET; that it fails nobody hears of.                                 *)
Stores(r) ==
  /\ pc[r] = "captured"
  /\ Goes(r, "done")
  /\ \/ /\ record' = [body |-> body[r], content |-> captured, fresh |-> TRUE]
        /\ UNCHANGED faults
     \/ Fault /\ UNCHANGED record
  /\ UNCHANGED <<body, answer, captured, overlap>>

(* The hour is over: Redis has dropped the key, or its record is stale.    *)
Expires ==
  /\ record.fresh /\ Fault
  /\ record' \in {NoRecord, [record EXCEPT !.fresh = FALSE]}
  /\ UNCHANGED <<body, pc, answer, captured, overlap>>

Next ==
  \/ \E r \in Requests :
       \/ Misses(r) \/ Replays(r) \/ Conflicts(r) \/ LookupFails(r) \/ BareReturns(r)
       \/ Forwards(r) \/ AppAnswers(r) \/ Stores(r)
  \/ Expires

Spec == Init /\ [][Next]_vars

-----------------------------------------------------------------------------
(* Properties *)

TypeOK ==
  /\ body \in [Requests -> Bodies]
  /\ pc \in [Requests -> {"idle", "forward", "bare", "captures", "captured", "failed",
                          "replayed", "conflict", "done"}]
  /\ answer \in [Requests -> Seq(Requests)] /\ captured \in Seq(Requests)
  /\ record \in [body : Bodies \cup {"none"}, content : Seq(Requests), fresh : BOOLEAN]
  /\ overlap \in BOOLEAN /\ faults \in Nat

(* A replay is the answer, whole and alone, of one request with the same   *)
(* body that the application has accepted, whatever expired or failed in   *)
(* between, unless two answers were captured at the same time.             *)
OriginalReplayed ==
  ~overlap =>
    \A r \in Requests : pc[r] = "replayed" =>
      \E q \in Requests :
        answer[r] = <<q>> /\ answer[q] = <<q>> /\ body[q] = body[r] /\ pc[q] = "done"
=============================================================================
