\* Mode switch: one inbound substream negotiating while the behaviour
\* switches the handler to Client mode.
CONSTANTS
  q1 = q1
  q2 = q2
  ap1 = ap1
  kad = kad
  other = other
  None = None
  QueryIds <- MC_Nothing
  AddProviders <- MC_Nothing
  QueryKinds <- MC_FindNodeOnly
  RemoteAnswers <- MC_HonestRemote
  Protocols <- MC_KadOnly
  OurProtocols <- MC_OurProtocols
  MAX_NUM_SUBSTREAMS = 1
  MaxInboundStreams = 1
  MaxRemoteMessages = 1
  DuplicateAnswers = FALSE
  IdleTimeout = 1
  MaxTime = 0

SPECIFICATION Spec

PROPERTY ClientAdmitsNoInbound

\* With its bounded inputs used up, the handler is an idle connection
\* waiting for its keep-alive deadline: nothing more happens.
CHECK_DEADLOCK FALSE
