\* One request-response exchange with payloads on both sides of the CBOR
\* one-byte header boundary (23 and 24 letters).  The request maximum is
\* met exactly by 23 letters (24 bytes); the response maximum is met
\* exactly by 24 letters (26 bytes) and exceeded by one byte by 25 letters
\* (27 bytes), so both "exactly at" and "one over" the limit occur.
SPECIFICATION Spec
CONSTANTS
  RequestLens = {22, 23, 24}
  ResponseLens = {1, 24, 25}
  request_size_maximum = 24
  response_size_maximum = 26
  Window = 8
INVARIANT TypeOK
INVARIANT SizeLimitExact
CHECK_DEADLOCK FALSE
