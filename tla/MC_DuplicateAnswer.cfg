\* A behaviour answering a RequestId twice: the second answer is taken by the next request on the reused substream.
CONSTANTS
  q1 = q1
  q2 = q2
  ap1 = ap1
  kad = kad
  other = other
  None = None
  QueryIds <- MC_Nothing
  AddProviders <- MC_Nothing
  QueryKinds <- MC_FindNodeOnly
  RemoteAnswers <- MC_HonestRemote
  Protocols <- MC_KadOnly
  OurProtocols <- MC_OurProtocols
  MAX_NUM_SUBSTREAMS = 2
  MaxInboundStreams = 3
  MaxRemoteMessages = 3
  DuplicateAnswers = TRUE
  IdleTimeout = 1
  MaxTime = 0

SPECIFICATION Spec

INVARIANT AnswerMatchesRequest
\* With its bounded inputs used up, the handler is an idle connection
\* waiting for its keep-alive deadline: nothing more happens.
CHECK_DEADLOCK FALSE
