-------------------------- MODULE KadProtocolStatus --------------------------
(***************************************************************************)
(* Protocol confirmation of the Kademlia connection handler                *)
(* (src/protocols/kad/src/handler.rs): whether the remote supports one of  *)
(* our Kademlia protocols, and whether that was reported to the behaviour. *)
(* The status is set by the first negotiated substream and re-derived by   *)
(* compute_new_protocol_status whenever the remote's protocol set changes; *)
(* the handler's poll reports an unreported status before anything else.   *)
(***************************************************************************)
EXTENDS Naturals

CONSTANTS
  Protocols,     \* protocol names the remote may advertise
  OurProtocols,  \* protocol_config.protocol_names()
  None           \* Option::None

ASSUME OurProtocols \subseteq Protocols /\ None \notin BOOLEAN

VARIABLES
  protocol_status,             \* Option<ProtocolStatus>
  remote_supported_protocols,  \* SupportedProtocols of the remote
  last_reported                \* history: what the last status event said

status_vars == <<protocol_status, remote_supported_protocols, last_reported>>

ProtocolStatus == [supported : BOOLEAN, reported : BOOLEAN]

\* compute_new_protocol_status: a fresh status is unreported; an unchanged
\* support bit is marked as reported; a flip is to be reported.
compute_new_protocol_status(now_supported, current_status) ==
  IF current_status = None
  THEN [supported |-> now_supported, reported |-> FALSE]
  ELSE [supported |-> now_supported,
        reported  |-> now_supported = current_status.supported]

\* The status set upon a successfully negotiated substream, in or out.
ConfirmedOnNegotiation ==
  IF protocol_status = None
  THEN [supported |-> TRUE, reported |-> FALSE]
  ELSE protocol_status

\* A status is waiting to be reported: poll returns it before anything else.
StatusUnreported ==
  protocol_status /= None /\ ~protocol_status.reported

StatusInit ==
  /\ protocol_status = None
  /\ remote_supported_protocols = {}
  /\ last_reported = None

\* Poll step 1: report the status, ProtocolConfirmed or ProtocolNotSupported.
ReportProtocolStatus ==
  /\ StatusUnreported
  /\ protocol_status' = [protocol_status EXCEPT !.reported = TRUE]
  /\ last_reported' = protocol_status.supported
  /\ UNCHANGED remote_supported_protocols

\* ConnectionEvent::RemoteProtocolsChange: the remote added or removed
\* protocols; only a change of the set (dirty) re-derives the status.
RemoteProtocolsChange ==
  \E added \in BOOLEAN, change \in SUBSET Protocols \ {{}} :
    LET new == IF added THEN remote_supported_protocols \cup change
                        ELSE remote_supported_protocols \ change
    IN /\ new /= remote_supported_protocols
       /\ remote_supported_protocols' = new
       /\ protocol_status' =
            compute_new_protocol_status(new \cap OurProtocols /= {},
                                        protocol_status)
       /\ UNCHANGED last_reported

StatusTypeOK ==
  /\ protocol_status \in {None} \cup ProtocolStatus
  /\ remote_supported_protocols \subseteq Protocols
  /\ last_reported \in {None} \cup BOOLEAN

(***************************************************************************)
(* Once the status is marked reported, the behaviour's last status event   *)
(* says what the status says: the handler never marks as reported a        *)
(* support bit it did not report (compute_new_protocol_status on an        *)
(* unreported status, handler.rs:849).                                     *)
(***************************************************************************)
StatusReportedTruthfully ==
  (protocol_status /= None /\ protocol_status.reported)
    => last_reported = protocol_status.supported

=============================================================================
