----------------------------- MODULE KadOutbound -----------------------------
(***************************************************************************)
(* The outbound exchanges of the Kademlia handler: OutboundSubstreamState  *)
(* and its futures::Stream implementation (handler.rs).  Each live         *)
(* exchange is keyed by the pending message it carries: a QueryId for a    *)
(* request expecting an answer, an AddProvider tag for a fire-and-forget   *)
(* message (Option<QueryId> = None).  One action is one poll_next of one   *)
(* exchange with one outcome of its I/O; a Pending outcome changes nothing *)
(* and is a stuttering step.                                               *)
(***************************************************************************)
EXTENDS Naturals, Sequences, Functions

CONSTANTS
  QueryIds,      \* QueryIds the behaviour may use for outbound requests
  AddProviders,  \* fire-and-forget AddProvider messages (no QueryId)
  QueryKinds,    \* the KadRequestMsg kinds the behaviour sends with a QueryId
  RemoteAnswers  \* request kind -> the KadResponseMsg kinds the remote may send

ASSUME QueryIds \cap AddProviders = {}

VARIABLES
  outbound_substreams,  \* live exchange -> its state
  query_kind,           \* QueryId -> the kind of the request sent with it
  query_events          \* history: QueryId -> the HandlerEvents emitted for it

outbound_vars == <<outbound_substreams, query_kind, query_events>>

Tags == QueryIds \cup AddProviders

\* KadRequestMsg variants a query is sent as (on_behaviour_event), and the
\* KadResponseMsg variants.
RequestKinds == {"FindNode", "GetProviders", "GetValue", "PutValue"}
ResponseKinds == RequestKinds \cup {"Pong"}

ASSUME QueryKinds \subseteq RequestKinds
ASSUME RemoteAnswers \in [RequestKinds -> SUBSET ResponseKinds]

\* The HandlerEvent process_kad_response makes of each response.
process_kad_response ==
  [Pong |-> "QueryError", FindNode |-> "FindNodeRes",
   GetProviders |-> "GetProvidersRes", GetValue |-> "GetRecordRes",
   PutValue |-> "PutRecordRes"]

EventKinds == Range(process_kad_response) \cup {"QueryError"}

\* Option<QueryId> is Some(_)
HasQuery(t) == t \in QueryIds

OutboundStates ==
  {"PendingSend", "PendingFlush", "WaitingAnswer", "ReportError",
   "Closing", "Done"}

OutboundInit ==
  /\ outbound_substreams = [t \in {} |-> "Done"]
  /\ query_kind = [q \in QueryIds |-> "None"]
  /\ query_events = [q \in QueryIds |-> <<>>]

\* Push a new exchange in the given state into the SelectAll.
PushOutbound(t, st) ==
  outbound_substreams' = [x \in DOMAIN outbound_substreams \cup {t} |->
                            IF x = t THEN st ELSE outbound_substreams[x]]

SetOutbound(t, st) ==
  outbound_substreams' = [outbound_substreams EXCEPT ![t] = st]

\* The stream yielded None: SelectAll drops it.
RemoveOutbound(t) ==
  outbound_substreams' = Restrict(outbound_substreams,
                                  DOMAIN outbound_substreams \ {t})

\* The stream yields the event ev for t's QueryId, if it has one
\* (query_id.map(...) in the error paths).
EmitQueryEvent(t, ev) ==
  /\ query_events' = IF HasQuery(t)
                     THEN [query_events EXCEPT ![t] = Append(@, ev)]
                     ELSE query_events
  /\ UNCHANGED query_kind

EmitQueryError(t) == EmitQueryEvent(t, "QueryError")

\* PendingSend: poll_ready then start_send; either may fail.
OutboundPendingSend(t) ==
  /\ outbound_substreams[t] = "PendingSend"
  /\ \/ /\ SetOutbound(t, "PendingFlush")
        /\ UNCHANGED <<query_kind, query_events>>
     \/ /\ SetOutbound(t, "Done")
        /\ EmitQueryError(t)

\* Mutant: the flush ignores whether a QueryId is expected.
OutboundPendingFlushAlwaysWaits(t) ==
  /\ outbound_substreams[t] = "PendingFlush"
  /\ \/ /\ SetOutbound(t, "WaitingAnswer")
        /\ UNCHANGED <<query_kind, query_events>>
     \/ /\ SetOutbound(t, "Done")
        /\ EmitQueryError(t)

\* PendingFlush: a request expecting an answer waits for it; a
\* fire-and-forget message closes the substream.
OutboundPendingFlush(t) ==
  /\ outbound_substreams[t] = "PendingFlush"
  /\ \/ /\ SetOutbound(t, IF HasQuery(t) THEN "WaitingAnswer" ELSE "Closing")
        /\ UNCHANGED <<query_kind, query_events>>
     \/ /\ SetOutbound(t, "Done")
        /\ EmitQueryError(t)

\* WaitingAnswer: whatever response the remote sends, process_kad_response
\* turns it into the query's event and the substream closes; an error or
\* the end of the stream ends the exchange with a QueryError.
OutboundWaitingAnswer(t) ==
  /\ outbound_substreams[t] = "WaitingAnswer"
  /\ \/ \E resp \in RemoteAnswers[query_kind[t]] :
          /\ SetOutbound(t, "Closing")
          /\ EmitQueryEvent(t, process_kad_response[resp])
     \/ /\ SetOutbound(t, "Done")
        /\ EmitQueryError(t)

\* ReportError: the negotiation error becomes one QueryError.
OutboundReportError(t) ==
  /\ outbound_substreams[t] = "ReportError"
  /\ SetOutbound(t, "Done")
  /\ EmitQueryError(t)

\* Closing (poll_close succeeded or failed) and Done yield None.
OutboundFinished(t) ==
  /\ outbound_substreams[t] \in {"Closing", "Done"}
  /\ RemoveOutbound(t)
  /\ UNCHANGED <<query_kind, query_events>>

OutboundPoll(t) ==
  \/ OutboundPendingSend(t)
  \/ OutboundPendingFlush(t)
  \/ OutboundWaitingAnswer(t)
  \/ OutboundReportError(t)
  \/ OutboundFinished(t)

\* The next poll of the pool yields at once, whatever the I/O does.
OutboundReady ==
  \E t \in DOMAIN outbound_substreams :
    outbound_substreams[t] \in {"ReportError", "Done"}

OutboundTypeOK ==
  /\ DOMAIN outbound_substreams \subseteq Tags
  /\ \A t \in DOMAIN outbound_substreams :
       /\ outbound_substreams[t] \in OutboundStates
       \* WaitingAnswer and ReportError hold a QueryId, not an Option.
       /\ outbound_substreams[t] \in {"WaitingAnswer", "ReportError"}
            => HasQuery(t)
  /\ query_kind \in [QueryIds -> QueryKinds \cup {"None"}]
  /\ query_events \in [QueryIds -> Seq(EventKinds)]

=============================================================================
