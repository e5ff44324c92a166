------------------------------ MODULE Metadata ------------------------------
(***************************************************************************)
(* What a response says about itself: its metering (src/http/metadata.rs)  *)
(* and, when it is an error, its envelope and the Error it becomes         *)
(* (src/wire/mod.rs, src/error.rs).  headers are an object; so is a body,  *)
(* which is None when it does not decode as its content type says.         *)
(***************************************************************************)
EXTENDS Fields

\* Not having a code is none of the two codes that are compared with.
ASSUME NoneIsNoCode == None \notin {"provisioning", "PROVISIONING"}

---------------------------------------------------------------------------
\* A header's text, for the numbers: its digits' value, and whether they are
\* canonical (all digits, no leading zero, within u64).
meter_header(headers, name) ==
  LET raw == Get(headers, name)
  IN IF raw = None THEN None ELSE IF raw.canonical THEN raw.value ELSE None

\* valid_request_id, valid_execution_identity, a revision that is not empty.
valid_text(headers, name) ==
  LET raw == Get(headers, name)
  IN IF raw = None THEN None ELSE IF raw.valid THEN raw.value ELSE None

Units == {"input_tokens", "pairs", "images", "pages", "output_tokens", "audio_ms"}

NoCharge == [credits |-> None, version |-> None]

\* Slip: half a charge is better than none.
settled_charge_partial(usage) ==
  IF usage = None THEN NoCharge
  ELSE [credits |-> Get(usage, "credits_charged"), version |-> Get(usage, "rate_book_version")]

\* settled_charge_from_usage: both halves or none.
settled_charge(usage) ==
  IF \/ usage = None
     \/ Get(usage, "credits_charged") = None
     \/ Get(usage, "rate_book_version") \in {None, ""}
  THEN NoCharge
  ELSE [credits |-> usage.credits_charged, version |-> usage.rate_book_version]

\* parse: nothing at all is None, not an empty record.
parse(headers, usage, retries) ==
  LET charge == settled_charge(usage)
      units == Given([u \in Units |-> meter_header(headers, u)])
      used == Over(units, Given([credits_charged |-> charge.credits,
                                 rate_book_version |-> charge.version]))
      known == Given([id |-> valid_text(headers, "request_id"),
                      usage |-> IF used = Empty THEN None ELSE used,
                      credits_debited |-> IF charge = NoCharge
                                          THEN meter_header(headers, "credits_debited")
                                          ELSE charge.credits,
                      rate_book_version |-> charge.version,
                      execution_identity |-> valid_text(headers, "execution_identity"),
                      model_revision |-> valid_text(headers, "model_revision")])
  IN IF known = Empty /\ retries = 0 THEN None ELSE Over([retries |-> retries], known)

---------------------------------------------------------------------------
\* The legacy path's spelling.
normalize_error_code(code) == IF code = "provisioning" THEN "PROVISIONING" ELSE code

NoEnvelope == [code |-> None, message |-> None, detail |-> None]

\* envelope_from_value: error first, then detail; an object with a code and a
\* message, a bare string, or anything else, which is its own message.  A field
\* that is there with the value null is such an other.
envelope_from_value(body) ==
  LET named == {f \in {"error", "detail"} : f \in DOMAIN body}
      node == body[IF "error" \in named THEN "error" ELSE "detail"]
  IN IF named = {} THEN NoEnvelope
     ELSE IF node.is = "object"
     THEN [code |-> node.code, message |-> node.message, detail |-> node]
     ELSE [NoEnvelope EXCEPT !.message = node.is]

\* Slip: the body's code wins over the header's.
Code_bodyFirst(header, code) == IF code = None THEN header ELSE code

\* The header is authoritative, when it is not empty; it is not normalised.
Code(header, code) ==
  IF header \in {None, ""} THEN normalize_error_code(code) ELSE header

\* parse_envelope; without a document, the message is the text, if any.
parse_envelope(response) ==
  LET envelope == IF response.body # None THEN envelope_from_value(response.body)
                  ELSE [NoEnvelope EXCEPT !.message = response.text]
  IN [envelope EXCEPT !.code = Code(Get(response.headers, "error_code"), @)]

\* handle_error
handle_error(response) ==
  LET envelope == parse_envelope(response)
      request == parse(response.headers, None, response.retries)
      status == response.status
  IN IF status = 503 /\ envelope.code = "PROVISIONING"
     THEN [kind |-> "provisioning", code |-> envelope.code, status |-> status, request |-> None]
     ELSE [kind |-> IF status = 400 /\ envelope.code = "INPUT_TOO_LONG" THEN "input_too_long"
                    ELSE IF status >= 500 THEN "server" ELSE "request",
           code |-> envelope.code, status |-> status, request |-> request]

\* check_model_load_failed, for a 502 with that code; what the envelope does
\* not say is the caller's model, permanent, one attempt.
model_load_failed(response, model) ==
  LET envelope == parse_envelope(response)
      detail == IF envelope.detail = None THEN Empty ELSE envelope.detail.fields
      attempts == Get(detail, "attempts")
  IN [kind |-> "model_load_failed", code |-> envelope.code, status |-> 502,
      model |-> Or(Get(detail, "model"), model),
      error_class |-> IF Get(detail, "error_class") \in
                           {"GATED", "OOM", "DEPENDENCY", "NOT_FOUND", "NETWORK"}
                      THEN detail.error_class ELSE "UNKNOWN",
      permanent |-> Or(Get(detail, "permanent"), TRUE),
      attempts |-> IF attempts = None \/ attempts = 0 THEN 1 ELSE attempts,
      request |-> parse(response.headers, None, response.retries)]

\* check_estimate_unroutable: a 503 that says of an identity that nothing serves it.
Unroutable(response, policy) ==
  /\ policy = "ESTIMATE" /\ response.status = 503
  /\ parse_envelope(response).code \in {"QUEUE_UNAVAILABLE", "PROVISIONING"}

\* The Error of an answer of 400 or more that no retry took.
ErrorOf(response, model, policy) ==
  IF response.status = 502 /\ parse_envelope(response).code = "MODEL_LOAD_FAILED"
  THEN model_load_failed(response, model)
  ELSE IF Unroutable(response, policy)
  THEN [kind |-> "estimate_unroutable", code |-> parse_envelope(response).code, status |-> 503,
        request |-> parse(response.headers, None, response.retries)]
  ELSE handle_error(response)

---------------------------------------------------------------------------
\* is_server_error, is_request_error, is_capacity_error
Family(error) ==
  CASE error.kind \in {"server", "model_load_failed", "resource_exhausted", "estimate_unroutable"}
         -> "server"
    [] error.kind \in {"request", "input_too_long"} -> "request"
    [] OTHER -> "other"

is_capacity_error(error) ==
  error.kind \in {"provisioning", "model_loading", "lora_loading", "resource_exhausted"}

\* request_metadata: a provisioning error has none.
request_metadata(error) == IF "request" \in DOMAIN error THEN error.request ELSE None
=============================================================================
