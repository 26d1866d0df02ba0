----------------------------- MODULE SwarmStream -----------------------------
(***************************************************************************)
(* The keep-alive counter of swarm streams (swarm/src/stream.rs).  A       *)
(* connection holds an Arc<()>; every Stream it hands out is created with  *)
(* a clone of it (Stream::new), so the strong count is one more than the   *)
(* streams keeping the connection alive.  no_keep_alive replaces the       *)
(* stream's Arc by a Weak, dropping one strong reference; dropping a       *)
(* stream drops whichever it holds.  The connection, which is not part of  *)
(* this file, closes once the strong count is back to one and its handler  *)
(* no longer keeps it alive; the streams then fail.                        *)
(***************************************************************************)
EXTENDS Naturals, FiniteSets

CONSTANT Streams  \* the streams the connection may hand out

VARIABLES
  counter,  \* stream -> "unopened" | "Arc" | "Weak" | "dropped"
  strong,   \* Arc::strong_count of the connection's stream counter
  closed    \* the connection has closed

vars == <<counter, strong, closed>>

Live == {s \in Streams : counter[s] \in {"Arc", "Weak"}}

Init ==
  /\ counter = [s \in Streams |-> "unopened"]
  /\ strong = 1
  /\ closed = FALSE

\* Stream::new(stream, counter.clone())
New(s) ==
  /\ ~closed
  /\ counter[s] = "unopened"
  /\ counter' = [counter EXCEPT ![s] = "Arc"]
  /\ strong' = strong + 1
  /\ UNCHANGED closed

\* Mutant: no_keep_alive releases a strong reference on every call.
no_keep_alive_unguarded(s) ==
  /\ counter[s] \in {"Arc", "Weak"}
  /\ counter' = [counter EXCEPT ![s] = "Weak"]
  /\ strong' = strong - 1
  /\ UNCHANGED closed

(* if let StreamCounter::Arc(..) = &self.counter { self.counter =          *)
(* StreamCounter::Weak(Arc::downgrade(..)) }: the old Arc is dropped.      *)
(* A second call finds a Weak and does nothing.                            *)
no_keep_alive(s) ==
  /\ counter[s] \in {"Arc", "Weak"}
  /\ IF counter[s] = "Arc"
     THEN /\ counter' = [counter EXCEPT ![s] = "Weak"]
          /\ strong' = strong - 1
     ELSE UNCHANGED <<counter, strong>>
  /\ UNCHANGED closed

\* Dropping a Stream drops its StreamCounter.
Drop(s) ==
  /\ counter[s] \in {"Arc", "Weak"}
  /\ counter' = [counter EXCEPT ![s] = "dropped"]
  /\ strong' = IF counter[s] = "Arc" THEN strong - 1 ELSE strong
  /\ UNCHANGED closed

\* The connection sees no active streams and closes.
CloseIdle ==
  /\ ~closed
  /\ strong = 1
  /\ closed' = TRUE
  /\ UNCHANGED <<counter, strong>>

Next ==
  \/ \E s \in Streams : New(s) \/ no_keep_alive(s) \/ Drop(s)
  \/ CloseIdle

Spec == Init /\ [][Next]_vars

(* Every stream's counter is one of the StreamCounter variants (or not   *)
(* yet created, or dropped), and the strong count never drops below the    *)
(* connection's own reference, however often no_keep_alive is called.      *)
TypeOK ==
  /\ counter \in [Streams -> {"unopened", "Arc", "Weak", "dropped"}]
  /\ strong \in 1 .. 1 + Cardinality(Streams)
  /\ closed \in BOOLEAN

=============================================================================
