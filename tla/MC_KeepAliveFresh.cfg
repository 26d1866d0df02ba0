\* Keep-alive freshness: an exchange that starts and ends between two
\* keep-alive updates leaves the old idle deadline in place.
CONSTANTS
  q1 = q1
  q2 = q2
  ap1 = ap1
  kad = kad
  other = other
  None = None
  QueryIds <- MC_Nothing
  AddProviders <- MC_AddProviders
  QueryKinds <- MC_FindNodeOnly
  RemoteAnswers <- MC_HonestRemote
  Protocols <- MC_KadOnly
  OurProtocols <- MC_OurProtocols
  MAX_NUM_SUBSTREAMS = 1
  MaxInboundStreams = 1
  MaxRemoteMessages = 1
  DuplicateAnswers = FALSE
  IdleTimeout = 2
  MaxTime = 3

SPECIFICATION Spec

INVARIANT KeepAliveDeadlineFresh


\* With its bounded inputs used up, the handler is an idle connection
\* waiting for its keep-alive deadline: nothing more happens.
CHECK_DEADLOCK FALSE
