----------------------------- MODULE KadInbound -----------------------------
(***************************************************************************)
(* The inbound exchanges of the Kademlia handler: InboundSubstreamState,   *)
(* its futures::Stream implementation, try_answer_with and close, and the  *)
(* admission of a new inbound substream with eviction at the limit         *)
(* (handler.rs).  An exchange is keyed by its UniqueConnecId.  The request *)
(* the remote sends is abstracted to its kind; each request needing an     *)
(* answer carries a history number n so that the answer the substream     *)
(* writes can be traced to the request it was meant for.                   *)
(***************************************************************************)
EXTENDS Naturals, FiniteSets, Functions

CONSTANTS
  MAX_NUM_SUBSTREAMS,
  MaxInboundStreams,  \* bound: UniqueConnecIds handed out
  MaxRemoteMessages   \* bound: messages the remote sends on inbound streams

ASSUME MAX_NUM_SUBSTREAMS \in Nat \ {0}
ASSUME MaxInboundStreams \in Nat /\ MaxRemoteMessages \in Nat

VARIABLES
  inbound_substreams,     \* UniqueConnecId -> state of the exchange
  next_connec_unique_id,
  behaviour_inbox,        \* requests delivered to the behaviour, unanswered
  remote_messages,        \* history: messages the remote has sent
  requests_delivered      \* history: requests delivered to the behaviour

inbound_vars ==
  <<inbound_substreams, next_connec_unique_id, behaviour_inbox, remote_messages,
    requests_delivered>>

ConnecIds == 0 .. MaxInboundStreams - 1
RequestNums == 1 .. MaxRemoteMessages

InboundStates ==
  {"WaitingMessage", "WaitingBehaviour", "PendingSend", "PendingFlush",
   "Closing", "Cancelled"}

(* An exchange: its state; first (meaningful in WaitingMessage); the      *)
(* request it serves and the request its pending answer was given for     *)
(* (history fields, 0 when there is none); stranded: no waker will fire  *)
(* for it, so the SelectAll (a FuturesUnordered) never polls it again.    *)
Exchange(st, first, req, resp) ==
  [st |-> st, first |-> first, req |-> req, resp |-> resp, stranded |-> FALSE]

Idle(first) == Exchange("WaitingMessage", first, 0, 0)

InboundInit ==
  /\ inbound_substreams = [c \in {} |-> Idle(TRUE)]
  /\ next_connec_unique_id = 0
  /\ behaviour_inbox = {}
  /\ remote_messages = 0
  /\ requests_delivered = {}

SetInbound(c, e) ==
  inbound_substreams' = [inbound_substreams EXCEPT ![c] = e]

RemoveInbound(c) ==
  inbound_substreams' = Restrict(inbound_substreams,
                                 DOMAIN inbound_substreams \ {c})

(***************************************************************************)
(* Poll of one inbound exchange.                                           *)
(***************************************************************************)

\* WaitingMessage: the remote sends FindNode, GetProviders, GetValue or
\* PutValue (a request the behaviour answers), AddProvider (the stream is
\* kept for reuse), Ping (unsupported: close), or ends the stream / errs.
InboundWaitingMessage(c) ==
  LET e == inbound_substreams[c]
      n == remote_messages + 1
  IN
  /\ e.st = "WaitingMessage"
  /\ \/ /\ remote_messages < MaxRemoteMessages
        /\ remote_messages' = n
        /\ \/ /\ SetInbound(c, Exchange("WaitingBehaviour", FALSE, n, 0))
              /\ behaviour_inbox' = behaviour_inbox \cup {[id |-> c, n |-> n]}
              /\ requests_delivered' = requests_delivered \cup {n}
           \/ /\ SetInbound(c, Idle(FALSE))
              /\ UNCHANGED <<behaviour_inbox, requests_delivered>>
           \/ /\ SetInbound(c, Exchange("Closing", FALSE, 0, 0))
              /\ UNCHANGED <<behaviour_inbox, requests_delivered>>
     \/ /\ RemoveInbound(c)
        /\ UNCHANGED <<behaviour_inbox, remote_messages, requests_delivered>>
  /\ UNCHANGED next_connec_unique_id

\* PendingSend: poll_ready and start_send of the answer; an error drops
\* the exchange.
InboundPendingSend(c) ==
  /\ inbound_substreams[c].st = "PendingSend"
  /\ \/ SetInbound(c, [inbound_substreams[c] EXCEPT !.st = "PendingFlush"])
     \/ RemoveInbound(c)
  /\ UNCHANGED <<next_connec_unique_id, behaviour_inbox, remote_messages,
                 requests_delivered>>

\* PendingFlush: once flushed the substream waits for the next request.
InboundPendingFlush(c) ==
  /\ inbound_substreams[c].st = "PendingFlush"
  /\ \/ SetInbound(c, Idle(FALSE))
     \/ RemoveInbound(c)
  /\ UNCHANGED <<next_connec_unique_id, behaviour_inbox, remote_messages,
                 requests_delivered>>

\* Closing (poll_close done, either way) and Cancelled yield None.
InboundFinished(c) ==
  /\ inbound_substreams[c].st \in {"Closing", "Cancelled"}
  /\ RemoveInbound(c)
  /\ UNCHANGED <<next_connec_unique_id, behaviour_inbox, remote_messages,
                 requests_delivered>>

InboundPoll(c) ==
  \/ InboundWaitingMessage(c)
  \/ InboundPendingSend(c)
  \/ InboundPendingFlush(c)
  \/ InboundFinished(c)

(***************************************************************************)
(* Operations the handler applies to the pool.                             *)
(***************************************************************************)

\* Mutant: the answer is stored but the parked waker is not woken.
AnswerPendingRequestNoWake(id, n) ==
  IF id \in DOMAIN inbound_substreams
     /\ inbound_substreams[id].st = "WaitingBehaviour"
  THEN SetInbound(id, [inbound_substreams[id] EXCEPT !.st = "PendingSend",
                                                     !.resp = n,
                                                     !.stranded = TRUE])
  ELSE UNCHANGED inbound_substreams

\* Mutant: the first exchange waiting for the behaviour takes the answer,
\* whatever its UniqueConnecId.
AnswerPendingRequestAnyId(id, n) ==
  IF \E c \in DOMAIN inbound_substreams :
       inbound_substreams[c].st = "WaitingBehaviour"
  THEN \E c \in DOMAIN inbound_substreams :
         /\ inbound_substreams[c].st = "WaitingBehaviour"
         /\ SetInbound(c, [inbound_substreams[c] EXCEPT !.st = "PendingSend",
                                                       !.resp = n])
  ELSE UNCHANGED inbound_substreams

\* answer_pending_request: offer the answer (for request n) to every
\* exchange; the one WaitingBehaviour under the RequestId's UniqueConnecId
\* takes it and wakes the waker it parked (try_answer_with); if none does,
\* the answer is dropped.
AnswerPendingRequest(id, n) ==
  IF id \in DOMAIN inbound_substreams
     /\ inbound_substreams[id].st = "WaitingBehaviour"
  THEN SetInbound(id, [inbound_substreams[id] EXCEPT !.st = "PendingSend",
                                                     !.resp = n])
  ELSE UNCHANGED inbound_substreams

\* HandlerIn::Reset: close() the exchange WaitingBehaviour under that id;
\* close() drops the parked waker without waking it.
ResetRequest(id) ==
  IF id \in DOMAIN inbound_substreams
     /\ inbound_substreams[id].st = "WaitingBehaviour"
  THEN SetInbound(id, [Exchange("Closing", FALSE, 0, 0)
                         EXCEPT !.stranded = TRUE])
  ELSE UNCHANGED inbound_substreams

\* A substream waiting to be reused may be sacrificed for a new one.
Evictable(c) ==
  inbound_substreams[c].st = "WaitingMessage" /\ ~inbound_substreams[c].first

(* An evicted exchange becomes Cancelled without being woken; whether the *)
(* muxer wakes the task when its substream is dropped is outside the      *)
(* handler, so either may happen.                                         *)
Cancelled(victim_stranded) ==
  [Exchange("Cancelled", FALSE, 0, 0) EXCEPT !.stranded = victim_stranded]

\* Mutant: next_connec_unique_id is not advanced.
PushNewInboundSameId(evicted, victim_stranded) ==
  /\ inbound_substreams' =
       [x \in DOMAIN inbound_substreams \cup {next_connec_unique_id} |->
          IF x = next_connec_unique_id THEN Idle(TRUE)
          ELSE IF x \in evicted THEN Cancelled(victim_stranded)
          ELSE inbound_substreams[x]]
  /\ UNCHANGED next_connec_unique_id

\* Mutant: the id is taken after next_connec_unique_id is advanced.
PushNewInboundAfterIncrement(evicted, victim_stranded) ==
  /\ inbound_substreams' =
       [x \in DOMAIN inbound_substreams \cup {next_connec_unique_id + 1} |->
          IF x = next_connec_unique_id + 1 THEN Idle(TRUE)
          ELSE IF x \in evicted THEN Cancelled(victim_stranded)
          ELSE inbound_substreams[x]]
  /\ next_connec_unique_id' = next_connec_unique_id + 1

\* Push the new exchange, stamped with next_connec_unique_id, after
\* cancelling the exchanges in evicted.
PushNewInbound(evicted, victim_stranded) ==
  /\ inbound_substreams' =
       [x \in DOMAIN inbound_substreams \cup {next_connec_unique_id} |->
          IF x = next_connec_unique_id THEN Idle(TRUE)
          ELSE IF x \in evicted THEN Cancelled(victim_stranded)
          ELSE inbound_substreams[x]]
  /\ next_connec_unique_id' = next_connec_unique_id + 1

\* The admission part of on_fully_negotiated_inbound: at the limit, cancel
\* the first exchange waiting to be reused (SelectAll's iteration order is
\* unspecified, so any) and admit; with none, drop the new substream.
AdmitInbound ==
  IF Cardinality(DOMAIN inbound_substreams) = MAX_NUM_SUBSTREAMS
  THEN IF \E c \in DOMAIN inbound_substreams : Evictable(c)
       THEN \E c \in DOMAIN inbound_substreams :
              /\ Evictable(c)
              /\ \E victim_stranded \in BOOLEAN :
                   PushNewInbound({c}, victim_stranded)
       ELSE UNCHANGED <<inbound_substreams, next_connec_unique_id>>
  ELSE PushNewInbound({}, FALSE)

InboundTypeOK ==
  /\ DOMAIN inbound_substreams \subseteq ConnecIds
  \* every exchange carries an id already handed out
  /\ \A c \in DOMAIN inbound_substreams : c < next_connec_unique_id
  /\ \A c \in DOMAIN inbound_substreams :
       inbound_substreams[c] \in
         [st : InboundStates, first : BOOLEAN,
          req : {0} \cup RequestNums, resp : {0} \cup RequestNums,
          stranded : BOOLEAN]
  /\ next_connec_unique_id \in 0 .. MaxInboundStreams
  /\ behaviour_inbox \subseteq [id : ConnecIds, n : RequestNums]
  /\ remote_messages \in 0 .. MaxRemoteMessages
  /\ requests_delivered \subseteq 1 .. remote_messages

=============================================================================
