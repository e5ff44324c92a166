------------------------------ MODULE SseEvents ------------------------------
(***************************************************************************)
(* What a line of an event stream means (src/wire/sse.rs, and decode_event *)
(* of src/client/stream.rs): which lines carry a payload, and whether that *)
(* payload is the end, an error or a chunk.  Module SseStream has what the *)
(* stream then does with it.                                               *)
(***************************************************************************)
EXTENDS WireTypes

\* A line is blank, a comment, a "data:" line or another field; a data line
\* has the spaces before its payload.  The payload is a JSON document, or
\* [is |-> "done"] for "[DONE]", or [is |-> "garbled"] for what is no JSON, an
\* empty text among it.
NoPayload == [is |-> "none"]

\* data_payload: one leading space is stripped, not all of them.
data_payload(line) ==
  IF line.field # "data" THEN NoPayload
  ELSE [is |-> "payload", spaces |-> IF line.spaces > 0 THEN line.spaces - 1 ELSE 0,
        of |-> line.payload]

\* A text that is not empty.
Said(object, f, default) ==
  LET node == Get(object, f)
  IN IF node = None \/ node.is # "text" \/ node.value = "" THEN default ELSE node.value

\* Slip: an error needs its code.
chunk_error_strict(chunk) ==
  LET node == IF chunk.is = "object" THEN Get(chunk.fields, "error") ELSE None
  IN IF node = None \/ node.is # "object" \/ Said(node.fields, "code", "") = "" THEN None
     ELSE [code |-> node.fields.code.value, message |-> Said(node.fields, "message", "stream error")]

\* chunk_error: an error is an object, whatever its halves are; a bare text is none.
chunk_error(chunk) ==
  LET node == IF chunk.is = "object" THEN Get(chunk.fields, "error") ELSE None
  IN IF node = None \/ node.is # "object" THEN None
     ELSE [code |-> Said(node.fields, "code", "error"),
           message |-> Said(node.fields, "message", "stream error")]

\* decode_event.  Only the sentinel itself ends the stream: with a space more it
\* is no JSON, while a document may have spaces before it.
decode_event(payload, type) ==
  LET error == chunk_error(payload.of)
      chunk == Deserialize(payload.of, type)
  IN IF payload.of.is = "done" /\ payload.spaces = 0 THEN Ok([event |-> "done"])
     ELSE IF payload.of.is \in {"garbled", "done"} THEN Err("decode")
     ELSE IF error # None
     THEN Ok([event |-> "capacity", code |-> error.code, message |-> error.message])
     ELSE IF chunk.ok THEN Ok([event |-> "chunk", value |-> chunk.value]) ELSE chunk

\* What sse_stream's loop makes of a line.
LineEvent(line, type) ==
  LET payload == data_payload(line)
  IN IF payload = NoPayload THEN Ok([event |-> "skipped"]) ELSE decode_event(payload, type)
=============================================================================
