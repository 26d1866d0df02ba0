------------------------------ MODULE CborCodec ------------------------------
(***************************************************************************)
(* The CBOR codec of request-response (request-response/src/cbor.rs) in    *)
(* one exchange over one stream: the client writes a request               *)
(* (write_request: to_vec then write_all) and reads the response; the      *)
(* server reads the request (read_request: take(request_size_maximum),     *)
(* read_to_end, from_slice) and writes the response.  Req and Resp are     *)
(* instantiated with String, whose CBOR form is a text header (the length  *)
(* in the initial byte below 24, else in a following byte) and the UTF-8  *)
(* bytes; a payload is a string of n letters 'a', so a message is its      *)
(* length n.  write_all and read_to_end proceed in chunks of any size; the *)
(* stream holds at most Window bytes in flight.  A transport failure       *)
(* resets the stream: later reads and writes on it fail.                   *)
(***************************************************************************)
EXTENDS Naturals, Sequences

CONSTANTS
  RequestLens,            \* payload lengths of the requests the client sends
  ResponseLens,           \* payload lengths of the responses the server sends
  request_size_maximum,   \* Codec::request_size_maximum
  response_size_maximum,  \* Codec::response_size_maximum
  Window                  \* bytes a stream buffers before poll_write waits

ASSUME \A n \in RequestLens \cup ResponseLens : n \in 0 .. 255
ASSUME Window \in Nat \ {0}

VARIABLES
  request, response,  \* the messages the two sides write
  stream,             \* direction -> bytes written and read, closed, reset
  client,             \* "write_request" | "read_response" | "done"
  server,             \* "read_request" | "write_response" | "done"
  result              \* direction -> what the reading side returned

vars == <<request, response, stream, client, server, result>>

Dirs == {"req", "resp"}

(***************************************************************************)
(* Encoding and decoding (cbor4ii::serde::to_vec and from_slice of a       *)
(* String), and decode_into_io_error.                                      *)
(***************************************************************************)

TextHeader(n) == IF n < 24 THEN <<96 + n>> ELSE <<120, n>>

to_vec(n) == TextHeader(n) \o [i \in 1 .. n |-> 97]

\* io::ErrorKind of each cbor4ii decode error.
decode_into_io_error ==
  [Read |-> "Other", Unsupported |-> "Unsupported", Eof |-> "UnexpectedEof",
   Mismatch |-> "InvalidData", Custom |-> "Other"]

Ok(v) == [ok |-> TRUE, value |-> v, kind |-> "None"]
Err(kind) == [ok |-> FALSE, value |-> <<>>, kind |-> kind]
DecodeErr(e) == Err(decode_into_io_error[e])
NoResult == Err("Pending")

TextBody(b, k, n) ==
  IF Len(b) < k + n THEN DecodeErr("Eof")
  ELSE Ok(Len(SubSeq(b, k + 1, k + n)))

from_slice(b) ==
  CASE b = <<>>            -> DecodeErr("Eof")
    [] b[1] \in 96 .. 119  -> TextBody(b, 1, b[1] - 96)
    [] b[1] = 120          -> IF Len(b) < 2 THEN DecodeErr("Eof")
                                            ELSE TextBody(b, 2, b[2])
    [] OTHER               -> DecodeErr("Mismatch")

\* The bytes write_all puts on a direction.
Encoded(d) == to_vec(IF d = "req" THEN request ELSE response)

Writing(d) ==
  IF d = "req" THEN client = "write_request" ELSE server = "write_response"

Reading(d) ==
  IF d = "req" THEN server = "read_request" ELSE client = "read_response"

Init ==
  /\ request \in RequestLens
  /\ response \in ResponseLens
  /\ stream = [d \in Dirs |-> [written |-> 0, read |-> 0,
                               closed |-> FALSE, reset |-> FALSE]]
  /\ client = "write_request"
  /\ server = "read_request"
  /\ result = [d \in Dirs |-> NoResult]

(***************************************************************************)
(* write_request / write_response                                          *)
(***************************************************************************)

\* poll_write accepts some of the remaining bytes, as many as fit.
WriteSome(d) ==
  /\ Writing(d)
  /\ ~stream[d].reset
  /\ \E k \in 1 .. Len(Encoded(d)) - stream[d].written :
       /\ stream[d].written + k - stream[d].read <= Window
       /\ stream' = [stream EXCEPT ![d].written = @ + k]
  /\ UNCHANGED <<request, response, client, server, result>>

\* write_all returns Ok; the caller then closes its side of the stream.
WriteDone(d) ==
  /\ Writing(d)
  /\ ~stream[d].reset
  /\ stream[d].written = Len(Encoded(d))
  /\ stream' = [stream EXCEPT ![d].closed = TRUE]
  /\ IF d = "req" THEN /\ client' = "read_response"
                       /\ UNCHANGED server
                  ELSE /\ server' = "done"
                       /\ UNCHANGED client
  /\ UNCHANGED <<request, response, result>>

(* to_vec fails to allocate: encode_into_io_error and the `?` return      *)
(* io::ErrorKind::Other before anything is written; the caller drops the   *)
(* stream.                                                                 *)
EncodeFails(d) ==
  /\ Writing(d)
  /\ stream[d].written = 0
  /\ stream' = [e \in Dirs |-> [stream[e] EXCEPT !.reset = TRUE]]
  /\ IF d = "req" THEN client' = "done" /\ UNCHANGED server
                  ELSE server' = "done" /\ UNCHANGED client
  /\ UNCHANGED <<request, response, result>>

WriteRequest == EncodeFails("req") \/ WriteSome("req") \/ WriteDone("req")

WriteResponse == EncodeFails("resp") \/ WriteSome("resp") \/ WriteDone("resp")

(***************************************************************************)
(* read_request / read_response: io.take(max).read_to_end(&mut vec), then  *)
(* from_slice(vec).                                                        *)
(***************************************************************************)

\* read_to_end reads what has arrived, never past the take limit.
ReadSome(d, max) ==
  /\ Reading(d)
  /\ ~stream[d].reset
  /\ \E k \in 1 .. stream[d].written - stream[d].read :
       /\ stream[d].read + k <= max
       /\ stream' = [stream EXCEPT ![d].read = @ + k]
  /\ UNCHANGED <<request, response, client, server, result>>

(* read_to_end returns at the take limit or at the end of the stream, and *)
(* the bytes read are decoded.  The server answers a request it decoded;   *)
(* on an error the request-response handler drops the stream.             *)
ReadEnd(d, max) ==
  /\ Reading(d)
  /\ ~stream[d].reset
  /\ \/ stream[d].read = max
     \/ stream[d].read = stream[d].written /\ stream[d].closed
  /\ result' = [result EXCEPT ![d] =
                  from_slice(SubSeq(Encoded(d), 1, stream[d].read))]
  /\ IF d = "req"
     THEN /\ server' = IF result'[d].ok THEN "write_response" ELSE "done"
          /\ stream' = IF result'[d].ok THEN stream
                       ELSE [e \in Dirs |-> [stream[e] EXCEPT !.reset = TRUE]]
          /\ UNCHANGED client
     ELSE /\ client' = "done"
          /\ UNCHANGED <<server, stream>>
  /\ UNCHANGED <<request, response>>

\* Mutant: read_request bounded by the response maximum.
ReadRequestResponseLimit == ReadSome("req", response_size_maximum) \/
                            ReadEnd("req", response_size_maximum)

ReadRequest == ReadSome("req", request_size_maximum) \/
               ReadEnd("req", request_size_maximum)

ReadResponse == ReadSome("resp", response_size_maximum) \/
                ReadEnd("resp", response_size_maximum)

(***************************************************************************)
(* Failures                                                                *)
(***************************************************************************)

\* A read or a write on a reset stream returns the io::Error (the `?`).
IoFailure ==
  \E d \in Dirs :
    /\ stream[d].reset
    /\ \/ /\ Reading(d)
          /\ result' = [result EXCEPT ![d] = Err("ConnectionReset")]
       \/ /\ Writing(d)
          /\ UNCHANGED result
    /\ IF IF d = "req" THEN Reading(d) ELSE Writing(d)
       THEN server' = "done" /\ UNCHANGED client
       ELSE client' = "done" /\ UNCHANGED server
    /\ UNCHANGED <<request, response, stream>>

\* The transport fails: the stream is reset in both directions.
Reset ==
  /\ client /= "done" \/ server /= "done"
  /\ \E d \in Dirs : ~stream[d].reset
  /\ stream' = [d \in Dirs |-> [stream[d] EXCEPT !.reset = TRUE]]
  /\ UNCHANGED <<request, response, client, server, result>>

Next ==
  \/ WriteRequest
  \/ ReadRequest
  \/ WriteResponse
  \/ ReadResponse
  \/ IoFailure
  \/ Reset

Spec == Init /\ [][Next]_vars

Limit(d) == IF d = "req" THEN request_size_maximum ELSE response_size_maximum

TypeOK ==
  /\ request \in RequestLens /\ response \in ResponseLens
  /\ \A d \in Dirs :
       /\ stream[d].read <= stream[d].written
       /\ stream[d].written <= Len(Encoded(d))
       /\ stream[d].read <= Limit(d)
  /\ client \in {"write_request", "read_response", "done"}
  /\ server \in {"read_request", "write_response", "done"}

(***************************************************************************)
(* Properties                                                              *)
(***************************************************************************)

(* The size limit is exact: whatever the chunking of writes and reads, a   *)
(* message the reader decodes is accepted exactly when its encoding fits   *)
(* the maximum (take(max) then from_slice): one of exactly the maximum is  *)
(* accepted, and a longer one is rejected, never taken for a shorter one.  *)
SizeLimitExact ==
  \A d \in Dirs :
    result[d].kind \notin {"Pending", "ConnectionReset"} =>
      (result[d] = Ok(IF d = "req" THEN request ELSE response)
         <=> Len(Encoded(d)) <= Limit(d))

=============================================================================
