-------------------------- MODULE KadRequestContract --------------------------
(***************************************************************************)
(* What the handler promises the behaviour about inbound requests (spec    *)
(* section 8, invariant 3): a request is delivered once; while the         *)
(* behaviour holds it, it waits; an answer is sent for it at most once; it *)
(* is concluded by the transmission of that answer, by a Reset, or by the  *)
(* transport failing.  An answer being sent is eventually concluded, and   *)
(* a behaviour that eventually answers or resets every request it holds    *)
(* sees every request concluded.                                           *)
(***************************************************************************)

CONSTANT Requests

VARIABLE request_state  \* request -> "none" | "pending" | "answering" | "done"

Init == request_state = [n \in Requests |-> "none"]

Move(n, from, to) ==
  /\ request_state[n] = from
  /\ request_state' = [request_state EXCEPT ![n] = to]

Deliver(n)  == Move(n, "none", "pending")
Answer(n)   == Move(n, "pending", "answering")
Reset(n)    == Move(n, "pending", "done")
Conclude(n) == Move(n, "answering", "done")

Next == \E n \in Requests : Deliver(n) \/ Answer(n) \/ Reset(n) \/ Conclude(n)

Spec ==
  /\ Init
  /\ [][Next]_request_state
  /\ \A n \in Requests :
       /\ WF_request_state(Conclude(n))
       /\ WF_request_state(Answer(n) \/ Reset(n))

=============================================================================
