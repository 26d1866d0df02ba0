--------------------------- MODULE KadQueryContract ---------------------------
(***************************************************************************)
(* What the Kademlia handler promises the behaviour about outbound queries *)
(* (HandlerIn::FindNodeReq, GetProvidersReq, GetRecord, PutRecord): a      *)
(* query sent with a QueryId gets exactly one terminal event carrying that *)
(* QueryId, a result or a QueryError, and gets it eventually.              *)
(***************************************************************************)
EXTENDS Naturals

CONSTANT QueryIds

VARIABLES
  requested,  \* QueryIds the behaviour has sent
  delivered   \* QueryId -> number of terminal events delivered for it

Init ==
  /\ requested = {}
  /\ delivered = [q \in QueryIds |-> 0]

Request(q) ==
  /\ q \notin requested
  /\ requested' = requested \cup {q}
  /\ UNCHANGED delivered

Deliver(q) ==
  /\ q \in requested
  /\ delivered[q] = 0
  /\ delivered' = [delivered EXCEPT ![q] = 1]
  /\ UNCHANGED requested

Next == \E q \in QueryIds : Request(q) \/ Deliver(q)

Spec == Init /\ [][Next]_<<requested, delivered>>
             /\ \A q \in QueryIds : WF_<<requested, delivered>>(Deliver(q))

=============================================================================
