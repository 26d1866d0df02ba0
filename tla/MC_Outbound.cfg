\* Outbound queries: two queries and one AddProvider through a limit of two
\* substreams, with negotiation errors, I/O errors and protocol changes, and
\* a clock that ticks once past the idle timeout.
CONSTANTS
  q1 = q1
  q2 = q2
  ap1 = ap1
  kad = kad
  other = other
  None = None
  QueryIds <- MC_QueryIds
  AddProviders <- MC_AddProviders
  QueryKinds <- MC_FindNodeOnly
  RemoteAnswers <- MC_HonestRemote
  Protocols <- MC_KadOnly
  OurProtocols <- MC_OurProtocols
  MAX_NUM_SUBSTREAMS = 2
  MaxInboundStreams = 0
  MaxRemoteMessages = 0
  DuplicateAnswers = FALSE
  IdleTimeout = 1
  MaxTime = 1

SPECIFICATION Spec

INVARIANT TypeOK
INVARIANT OutboundBound
INVARIANT RequestedHasMessage

PROPERTY QueryContractSpec

\* With its bounded inputs used up, the handler is an idle connection
\* waiting for its keep-alive deadline: nothing more happens.
CHECK_DEADLOCK FALSE
