----------------------------- MODULE KadHandler -----------------------------
(***************************************************************************)
(* The Kademlia ConnectionHandler for one connection (handler.rs): the     *)
(* composition of the protocol status, the outbound and the inbound        *)
(* exchanges with the handler's own state: the mode, the queue of pending  *)
(* outbound messages, the count of requested outbound substreams and the   *)
(* keep-alive.  Three actors drive it: the behaviour (on_behaviour_event), *)
(* the connection (on_connection_event, negotiating substreams the handler *)
(* asked for or the remote opened) and the poll of the handler, whose      *)
(* steps run in the order poll gives them.                                 *)
(***************************************************************************)
EXTENDS KadProtocolStatus, KadOutbound, KadInbound, Sequences

CONSTANTS
  DuplicateAnswers, \* the behaviour may answer a RequestId more than once
  IdleTimeout,      \* Handler::idle_timeout, in clock ticks
  MaxTime           \* bound: the last tick of the clock

ASSUME DuplicateAnswers \in BOOLEAN
ASSUME IdleTimeout \in Nat \ {0} /\ MaxTime \in Nat

VARIABLES
  mode,                            \* "Client" | "Server"
  pending_messages,                \* Seq of tags (QueryId or AddProvider)
  num_requested_outbound_streams,
  keep_alive,                      \* KeepAlive::Yes or KeepAlive::Until(t)
  negotiating_inbound,             \* inbound substreams negotiating our protocol
  issued,                          \* history: tags the behaviour has sent
  now,                             \* Instant::now(), in ticks
  idle_since                       \* history: when both pools last became empty

handler_vars ==
  <<mode, pending_messages, num_requested_outbound_streams, keep_alive,
    negotiating_inbound, issued>>

time_vars == <<now, idle_since>>

vars == <<status_vars, outbound_vars, inbound_vars, handler_vars, time_vars>>

Modes == {"Client", "Server"}

Yes == [kind |-> "Yes", at |-> 0]
Until(t) == [kind |-> "Until", at |-> t]

\* No exchange is live in either SelectAll.
NoStreams ==
  DOMAIN outbound_substreams = {} /\ DOMAIN inbound_substreams = {}

\* Handler::new
Init ==
  /\ StatusInit
  /\ OutboundInit
  /\ InboundInit
  /\ mode \in Modes
  /\ pending_messages = <<>>
  /\ num_requested_outbound_streams = 0
  /\ now = 0
  /\ keep_alive = Until(now + IdleTimeout)
  /\ negotiating_inbound = 0
  /\ issued = {}
  /\ idle_since = 0

(***************************************************************************)
(* on_behaviour_event                                                      *)
(***************************************************************************)

\* FindNodeReq, GetProvidersReq, GetRecord, PutRecord (a request of that
\* kind, with a QueryId) and AddProvider (without): queue the message.
SendRequest(t) ==
  /\ t \notin issued
  /\ pending_messages' = Append(pending_messages, t)
  /\ issued' = issued \cup {t}
  /\ IF HasQuery(t)
     THEN \E k \in QueryKinds : query_kind' = [query_kind EXCEPT ![t] = k]
     ELSE UNCHANGED query_kind
  /\ UNCHANGED <<time_vars, status_vars, outbound_substreams, query_events,
                 inbound_vars, mode,
                 num_requested_outbound_streams, keep_alive,
                 negotiating_inbound>>

\* FindNodeRes, GetProvidersRes, GetRecordRes, PutRecordRes for a request
\* the behaviour received; a behaviour that may answer twice keeps it.
AnswerRequest(r) ==
  /\ AnswerPendingRequest(r.id, r.n)
  /\ behaviour_inbox' = IF DuplicateAnswers THEN behaviour_inbox
                        ELSE behaviour_inbox \ {r}
  /\ UNCHANGED <<time_vars, status_vars, outbound_vars, next_connec_unique_id,
                 remote_messages, requests_delivered, handler_vars>>

\* HandlerIn::Reset of a request the behaviour received.
Reset(r) ==
  /\ ResetRequest(r.id)
  /\ behaviour_inbox' = behaviour_inbox \ {r}
  /\ UNCHANGED <<time_vars, status_vars, outbound_vars, next_connec_unique_id,
                 remote_messages, requests_delivered, handler_vars>>

\* HandlerIn::ReconfigureMode
ReconfigureMode(new_mode) ==
  /\ mode' = new_mode
  /\ UNCHANGED <<time_vars, status_vars, outbound_vars, inbound_vars, pending_messages,
                 num_requested_outbound_streams, keep_alive,
                 negotiating_inbound, issued>>

(***************************************************************************)
(* on_connection_event                                                     *)
(***************************************************************************)

\* The remote opens a substream; listen_protocol offers our protocol only
\* in Server mode (a DeniedUpgrade fails and ListenUpgradeError is ignored).
RemoteOpensInbound ==
  /\ mode = "Server"
  /\ next_connec_unique_id + negotiating_inbound < MaxInboundStreams
  /\ negotiating_inbound' = negotiating_inbound + 1
  /\ UNCHANGED <<time_vars, status_vars, outbound_vars, inbound_vars, mode,
                 pending_messages, num_requested_outbound_streams,
                 keep_alive, issued>>

\* on_fully_negotiated_outbound: the front pending message goes out on the
\* new substream.
FullyNegotiatedOutbound ==
  /\ num_requested_outbound_streams > 0
  /\ IF pending_messages /= <<>>
     THEN /\ PushOutbound(Head(pending_messages), "PendingSend")
          /\ pending_messages' = Tail(pending_messages)
     ELSE UNCHANGED <<outbound_substreams, pending_messages>>
  /\ num_requested_outbound_streams' = num_requested_outbound_streams - 1
  /\ protocol_status' = ConfirmedOnNegotiation
  /\ UNCHANGED <<time_vars, remote_supported_protocols, last_reported,
                 query_events, query_kind, inbound_vars, mode, keep_alive,
                 negotiating_inbound, issued>>

\* on_fully_negotiated_inbound: confirm the protocol, then admit.
FullyNegotiatedInbound ==
  /\ negotiating_inbound > 0
  /\ negotiating_inbound' = negotiating_inbound - 1
  /\ protocol_status' = ConfirmedOnNegotiation
  /\ AdmitInbound
  /\ UNCHANGED <<time_vars, remote_supported_protocols, last_reported, outbound_vars,
                 behaviour_inbox, remote_messages, requests_delivered,
                 mode, pending_messages,
                 num_requested_outbound_streams, keep_alive, issued>>

\* Mutant: the lost message's QueryId is never reported.
DialUpgradeErrorSilent ==
  /\ num_requested_outbound_streams > 0
  /\ pending_messages' = IF pending_messages /= <<>>
                         THEN Tail(pending_messages) ELSE pending_messages
  /\ num_requested_outbound_streams' = num_requested_outbound_streams - 1
  /\ UNCHANGED <<time_vars, status_vars, outbound_vars, inbound_vars, mode, keep_alive,
                 negotiating_inbound, issued>>

\* on_dial_upgrade_error: the front pending message is lost; if it had a
\* QueryId the error is reported through a ReportError exchange.
DialUpgradeError ==
  /\ num_requested_outbound_streams > 0
  /\ IF pending_messages /= <<>>
     THEN /\ pending_messages' = Tail(pending_messages)
          /\ IF HasQuery(Head(pending_messages))
             THEN PushOutbound(Head(pending_messages), "ReportError")
             ELSE UNCHANGED outbound_substreams
     ELSE UNCHANGED <<outbound_substreams, pending_messages>>
  /\ num_requested_outbound_streams' = num_requested_outbound_streams - 1
  /\ UNCHANGED <<time_vars, status_vars, query_events, query_kind, inbound_vars,
                 mode, keep_alive, negotiating_inbound, issued>>

\* ConnectionEvent::RemoteProtocolsChange
ProtocolsChange ==
  /\ RemoteProtocolsChange
  /\ UNCHANGED <<time_vars, outbound_vars, inbound_vars, handler_vars>>

(***************************************************************************)
(* poll, in its order: the status report first; then the outbound and the  *)
(* inbound exchanges; then a new outbound substream; then the keep-alive.  *)
(***************************************************************************)

PollReportStatus ==
  /\ ReportProtocolStatus
  /\ UNCHANGED <<time_vars, outbound_vars, inbound_vars, handler_vars>>

\* History: the step that removes the last live exchange starts a
\* quiescent period.
RecordIdleStart ==
  idle_since' = IF /\ DOMAIN outbound_substreams' = {}
                   /\ DOMAIN inbound_substreams' = {}
                   /\ ~NoStreams
                THEN now ELSE idle_since

PollOutbound(t) ==
  /\ t \in DOMAIN outbound_substreams
  /\ ~StatusUnreported
  /\ OutboundPoll(t)
  /\ UNCHANGED <<now, status_vars, inbound_vars, handler_vars>>
  /\ RecordIdleStart

PollInbound(c) ==
  /\ c \in DOMAIN inbound_substreams
  /\ ~inbound_substreams[c].stranded
  /\ ~StatusUnreported
  /\ InboundPoll(c)
  /\ UNCHANGED <<now, status_vars, outbound_vars, handler_vars>>
  /\ RecordIdleStart

\* Mutants: off-by-one in either test.
CanRequestOutboundAtLimit ==
  /\ Cardinality(DOMAIN outbound_substreams) + num_requested_outbound_streams
       <= MAX_NUM_SUBSTREAMS
  /\ num_requested_outbound_streams < Len(pending_messages)

CanRequestOutboundBeyondQueue ==
  /\ Cardinality(DOMAIN outbound_substreams) + num_requested_outbound_streams
       < MAX_NUM_SUBSTREAMS
  /\ num_requested_outbound_streams <= Len(pending_messages)

\* Requesting a new substream is bounded by MAX_NUM_SUBSTREAMS together
\* with the live outbound exchanges, and by the messages waiting for one.
CanRequestOutbound ==
  /\ Cardinality(DOMAIN outbound_substreams) + num_requested_outbound_streams
       < MAX_NUM_SUBSTREAMS
  /\ num_requested_outbound_streams < Len(pending_messages)

PollRequestOutbound ==
  /\ ~StatusUnreported
  /\ ~OutboundReady
  /\ CanRequestOutbound
  /\ num_requested_outbound_streams' = num_requested_outbound_streams + 1
  /\ UNCHANGED <<time_vars, status_vars, outbound_vars, inbound_vars, mode,
                 pending_messages, keep_alive, negotiating_inbound, issued>>

\* Nothing else to do: keep alive while an exchange is live; with none,
\* preserve an existing Until deadline (whether or not it has passed) or
\* start the idle timeout.
NewKeepAlive ==
  CASE NoStreams /\ keep_alive.kind = "Until" -> keep_alive
    [] NoStreams                            -> Until(now + IdleTimeout)
    [] OTHER                                -> Yes

PollKeepAlive ==
  /\ ~StatusUnreported
  /\ ~OutboundReady
  /\ ~CanRequestOutbound
  /\ keep_alive' = NewKeepAlive
  /\ keep_alive' /= keep_alive
  /\ UNCHANGED <<time_vars, status_vars, outbound_vars, inbound_vars, mode,
                 pending_messages, num_requested_outbound_streams,
                 negotiating_inbound, issued>>

(***************************************************************************)
(* The specification                                                       *)
(***************************************************************************)

\* Time passes (Instant::now() advances), up to the bound.
Tick ==
  /\ now < MaxTime
  /\ now' = now + 1
  /\ UNCHANGED <<idle_since, status_vars, outbound_vars, inbound_vars,
                 handler_vars>>

BehaviourNext ==
  \/ \E t \in Tags : SendRequest(t)
  \/ \E r \in behaviour_inbox : AnswerRequest(r) \/ Reset(r)
  \/ \E m \in Modes : ReconfigureMode(m)

ConnectionNext ==
  \/ RemoteOpensInbound
  \/ FullyNegotiatedOutbound
  \/ FullyNegotiatedInbound
  \/ DialUpgradeError
  \/ ProtocolsChange

PollNext ==
  \/ PollReportStatus
  \/ \E t \in DOMAIN outbound_substreams : PollOutbound(t)
  \/ \E c \in DOMAIN inbound_substreams : PollInbound(c)
  \/ PollRequestOutbound
  \/ PollKeepAlive

Next == BehaviourNext \/ ConnectionNext \/ PollNext \/ Tick

(* The swarm polls the handler again after every Ready and whenever a     *)
(* waker fires, so a poll step enabled again and again is eventually taken *)
(* even if a status report or a connection event pre-empts it each time    *)
(* (strong fairness).  The swarm completes every substream it was asked    *)
(* for (its upgrade timeout gives DialUpgradeError at worst).  Local I/O   *)
(* (send, flush, close) completes or fails.                                *)
LocalFairness ==
  /\ WF_vars(PollReportStatus)
  /\ SF_vars(PollRequestOutbound)
  /\ WF_vars(FullyNegotiatedOutbound \/ DialUpgradeError)
  /\ \A t \in Tags :
       SF_vars(PollOutbound(t) /\ outbound_substreams[t] /= "WaitingAnswer")
  /\ \A c \in ConnecIds :
       SF_vars(PollInbound(c) /\ inbound_substreams[c].st /= "WaitingMessage")

(* The remote answers or closes every outbound substream.  This is an      *)
(* assumption on the remote: the handler has no timeout of its own on      *)
(* WaitingAnswer (handler.rs:118).                                         *)
RemoteResponds ==
  \A t \in Tags :
    SF_vars(PollOutbound(t) /\ outbound_substreams[t] = "WaitingAnswer")

(* The behaviour eventually answers or resets each request it holds.      *)
(* This is an assumption on the behaviour, which the handler cannot force. *)
BehaviourResponds ==
  WF_vars(\E r \in behaviour_inbox : AnswerRequest(r) \/ Reset(r))

Fairness == LocalFairness /\ RemoteResponds /\ BehaviourResponds

Spec == Init /\ [][Next]_vars /\ Fairness

TypeOK ==
  /\ StatusTypeOK
  /\ OutboundTypeOK
  /\ InboundTypeOK
  /\ mode \in Modes
  /\ pending_messages \in Seq(Tags)
  /\ num_requested_outbound_streams \in Nat
  /\ keep_alive \in {Yes} \cup {Until(t) : t \in 0 .. MaxTime + IdleTimeout}
  /\ negotiating_inbound \in Nat
  /\ issued \subseteq Tags
  /\ now \in 0 .. MaxTime
  /\ idle_since \in 0 .. now


(***************************************************************************)
(* Properties                                                              *)
(***************************************************************************)

(* The live outbound exchanges (Done ones until their next poll included)  *)
(* and the substreams being negotiated never exceed MAX_NUM_SUBSTREAMS     *)
(* (the test in poll, handler.rs:762-766, against the pushes of            *)
(* on_fully_negotiated_outbound and on_dial_upgrade_error).                *)
OutboundBound ==
  Cardinality(DOMAIN outbound_substreams) + num_requested_outbound_streams
    <= MAX_NUM_SUBSTREAMS

(* Every substream the handler asked for has a pending message waiting for *)
(* it, so on_fully_negotiated_outbound never finds the queue empty (its    *)
(* debug_assert) and a negotiation error never takes another's message.    *)
RequestedHasMessage ==
  num_requested_outbound_streams <= Len(pending_messages)

(* Each request the behaviour holds is answerable: the inbound exchange    *)
(* under its RequestId is waiting for the behaviour on that very request,  *)
(* whatever eviction, resets and the remote did meanwhile.                 *)
InboxConsistent ==
  \A r \in behaviour_inbox :
    /\ r.id \in DOMAIN inbound_substreams
    /\ inbound_substreams[r.id].st = "WaitingBehaviour"
    /\ inbound_substreams[r.id].req = r.n

(* The answer an inbound substream sends is the answer to the request it   *)
(* received on that substream (RequestId correlation of                    *)
(* answer_pending_request and try_answer_with).                            *)
AnswerMatchesRequest ==
  \A c \in DOMAIN inbound_substreams :
    inbound_substreams[c].st \in {"PendingSend", "PendingFlush"}
      => inbound_substreams[c].resp = inbound_substreams[c].req

(* At most MAX_NUM_SUBSTREAMS inbound exchanges are live (not Cancelled):  *)
(* the limit of on_fully_negotiated_inbound.                               *)
InboundBound ==
  Cardinality({c \in DOMAIN inbound_substreams :
                 inbound_substreams[c].st /= "Cancelled"})
    <= MAX_NUM_SUBSTREAMS

(* In Client mode no inbound exchange is admitted: spec 4.1 holds the     *)
(* FullyNegotiatedInbound path unreachable in Client mode, the code        *)
(* comment at handler.rs:542 relies on the DeniedUpgrade of listen_protocol *)
(* and S5 expects no request event ever.                                   *)
ClientAdmitsNoInbound ==
  [][mode = "Client" => DOMAIN inbound_substreams' \subseteq
                          DOMAIN inbound_substreams]_vars

(* With no live exchange, the idle deadline is at least a full idle        *)
(* timeout after the moment the last exchange ended (spec section 8,       *)
(* invariant 5: it equals t_idle_start + idle_timeout).                    *)
KeepAliveDeadlineFresh ==
  NoStreams /\ keep_alive.kind = "Until"
    => keep_alive.at >= idle_since + IdleTimeout

\* The result event the HandlerEvent documentation gives each request kind.
ResultOf ==
  [FindNode |-> "FindNodeRes", GetProviders |-> "GetProvidersRes",
   GetValue |-> "GetRecordRes", PutValue |-> "PutRecordRes"]

(* Every event emitted for a QueryId is a QueryError or the result of the  *)
(* request sent with it (FindNodeRes is the "Response to an                *)
(* HandlerIn::FindNodeReq", and so on), whatever the remote answers: the   *)
(* TODO of process_kad_response (handler.rs:1168) says the response must   *)
(* be checked against the request.                                         *)
ResultMatchesRequest ==
  \A q \in QueryIds : \A i \in DOMAIN query_events[q] :
    query_events[q][i] \in {"QueryError", ResultOf[query_kind[q]]}

(* The handler implements the outbound query contract: each QueryId sent  *)
(* gets exactly one terminal event, eventually, through the pending queue, *)
(* the negotiation, the exchange's I/O and its errors.                     *)
QueryContract ==
  INSTANCE KadQueryContract WITH
    requested <- issued \cap QueryIds,
    delivered <- [q \in QueryIds |-> Len(query_events[q])]

QueryContractSpec == QueryContract!Spec

\* Where a delivered request is in its life, read off the exchange serving it.
RequestStatus(n) ==
  LET serving(states, field) ==
        \E c \in DOMAIN inbound_substreams :
          inbound_substreams[c].st \in states /\ inbound_substreams[c][field] = n
  IN CASE n \notin requests_delivered                             -> "none"
       [] serving({"WaitingBehaviour"}, "req")                    -> "pending"
       [] serving({"PendingSend", "PendingFlush"}, "resp")        -> "answering"
       [] OTHER                                                  -> "done"

(* The handler implements the inbound request contract: a request is      *)
(* answered at most once, and each request the behaviour answers or resets *)
(* is concluded eventually: the answer is written and flushed (the waker   *)
(* parked in WaitingBehaviour is woken by try_answer_with) or the          *)
(* substream fails.                                                        *)
RequestContract ==
  INSTANCE KadRequestContract WITH
    Requests <- RequestNums,
    request_state <- [n \in RequestNums |-> RequestStatus(n)]

RequestContractSpec == RequestContract!Spec

(* An exchange the behaviour Reset (close() into Closing) is eventually    *)
(* driven to the end of its close and leaves the pool, freeing its slot    *)
(* and the keep-alive (spec S4: the inbound exchange closes).              *)
ResetExchangeEventuallyRemoved ==
  \A c \in ConnecIds :
    (c \in DOMAIN inbound_substreams /\ inbound_substreams[c].st = "Closing")
      ~> c \notin DOMAIN inbound_substreams


=============================================================================
