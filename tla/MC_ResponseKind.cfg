\* Response kinds: one query of any kind, answered by a remote that may
\* send any response the codec decodes.
CONSTANTS
  q1 = q1
  q2 = q2
  ap1 = ap1
  kad = kad
  other = other
  None = None
  QueryIds <- MC_OneQuery
  AddProviders <- MC_Nothing
  QueryKinds <- MC_AllKinds
  RemoteAnswers <- MC_AnyAnswer
  Protocols <- MC_KadOnly
  OurProtocols <- MC_OurProtocols
  MAX_NUM_SUBSTREAMS = 1
  MaxInboundStreams = 0
  MaxRemoteMessages = 0
  DuplicateAnswers = FALSE
  IdleTimeout = 1
  MaxTime = 0

SPECIFICATION Spec

INVARIANT ResultMatchesRequest

\* With its bounded inputs used up, the handler is an idle connection
\* waiting for its keep-alive deadline: nothing more happens.
CHECK_DEADLOCK FALSE
