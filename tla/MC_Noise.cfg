\* WebRTC Noise upgrade, with or without an attacker terminating both DTLS
\* connections (forwarding or injecting up to two messages), and with a data
\* channel that may fail.
SPECIFICATION Spec
CONSTANTS
  C = C
  S = S
  A = A
  Attack = {FALSE, TRUE}
  Faults = TRUE
  MaxInjected = 2
INVARIANT ChannelBinding
PROPERTY HonestHandshakeSucceeds
\* The upgrade ends: both sides have returned, or wait on a silent attacker.
CHECK_DEADLOCK FALSE
