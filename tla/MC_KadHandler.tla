---------------------------- MODULE MC_KadHandler ----------------------------
(* Instantiations of KadHandler for TLC.                                   *)
EXTENDS KadHandler, TLC

CONSTANTS q1, q2, ap1, kad, other

MC_QueryIds == {q1, q2}
MC_OneQuery == {q1}
MC_AddProviders == {ap1}
MC_Nothing == {}
MC_KadOnly == {kad}
MC_Protocols == {kad, other}
MC_OurProtocols == {kad}

\* The behaviour's queries are FindNode requests, or of every kind.
MC_FindNodeOnly == {"FindNode"}
MC_AllKinds == RequestKinds

\* A remote answering with the response of the request's kind, or with
\* any response the codec decodes.
MC_HonestRemote == [k \in RequestKinds |-> {k}]
MC_AnyAnswer == [k \in RequestKinds |-> ResponseKinds]

=============================================================================
