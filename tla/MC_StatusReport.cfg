\* Protocol status set by a negotiation and re-derived by protocol changes before it is reported.
CONSTANTS
  q1 = q1
  q2 = q2
  ap1 = ap1
  kad = kad
  other = other
  None = None
  QueryIds <- MC_QueryIds
  AddProviders <- MC_Nothing
  QueryKinds <- MC_FindNodeOnly
  RemoteAnswers <- MC_HonestRemote
  Protocols <- MC_Protocols
  OurProtocols <- MC_OurProtocols
  MAX_NUM_SUBSTREAMS = 2
  MaxInboundStreams = 1
  MaxRemoteMessages = 0
  DuplicateAnswers = FALSE
  IdleTimeout = 1
  MaxTime = 0

SPECIFICATION Spec

INVARIANT StatusReportedTruthfully
\* With its bounded inputs used up, the handler is an idle connection
\* waiting for its keep-alive deadline: nothing more happens.
CHECK_DEADLOCK FALSE
