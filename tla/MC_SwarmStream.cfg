\* Four streams of one connection, each opened, released and dropped in
\* any order.
SPECIFICATION Spec
CONSTANTS
  Streams = {s1, s2, s3, s4}
INVARIANT TypeOK
CHECK_DEADLOCK FALSE
