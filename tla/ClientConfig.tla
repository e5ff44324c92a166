----------------------------- MODULE ClientConfig -----------------------------
(***************************************************************************)
(* What a client is built from and what every request of it carries        *)
(* (src/client/mod.rs, src/http/headers.rs, mod.rs, version.rs,            *)
(* src/client/watch.rs, src/redaction.rs).  A URL is a scheme, a host, a   *)
(* port or None for its scheme's, and whether it embeds user information;  *)
(* None when the text is no URL.  A header is its name and value, each     *)
(* with what its validation looks at.                                      *)
(***************************************************************************)
EXTENDS Fields, SequencesExt

Ports == [http |-> 80, https |-> 443]

\* Origin::parse
Origin(url) ==
  IF url = None \/ url.scheme \notin DOMAIN Ports \/ url.userinfo THEN None
  ELSE [scheme |-> url.scheme, host |-> url.host, port |-> Or(url.port, Ports[url.scheme])]

\* matches_websocket
WebSocketOf == [https |-> "wss", http |-> "ws"]

HttpOf(url) ==
  LET schemes == {s \in DOMAIN WebSocketOf : WebSocketOf[s] = url.scheme}
  IN IF schemes = {} THEN None ELSE [url EXCEPT !.scheme = CHOOSE s \in schemes : TRUE]

Reserved ==
  {"accept", "authorization", "connection", "content-length", "content-type", "cookie", "host",
   "idempotency-key", "keep-alive", "proxy-authenticate", "proxy-authorization",
   "proxy-connection", "set-cookie", "te", "trailer", "transfer-encoding", "upgrade",
   "x-sie-sdk-version"}

\* validate_base_url_headers: names are compared in lower case.
validate_base_url_headers(headers) ==
  \A i \in DOMAIN headers :
    /\ headers[i].token
    /\ headers[i].lower \notin Reserved /\ ~headers[i].websocket
    /\ ~headers[i].control
    /\ \A j \in DOMAIN headers : headers[i].lower = headers[j].lower => i = j

\* ClientBuilder::build.  A value that no header can hold is refused too.
build(config) ==
  LET origin == Origin(config.base_url)
      edge == config.base_url_headers
  IN IF \/ config.base_url = None
        \/ ~validate_base_url_headers(edge)
        \/ edge # <<>> /\ (origin = None \/ origin.scheme # "https")
        \/ \E i \in DOMAIN edge : ~edge[i].encodable
        \/ config.control_plane_url # Empty /\ config.control_plane_url.url = None
        \/ config.api_key # None /\ ~config.api_key.encodable
     THEN Err("invalid")
     ELSE Ok([base_url |-> config.base_url, base_origin |-> origin, edge_headers |-> edge,
              control_plane |-> Get(config.control_plane_url, "url"), org |-> config.org,
              authorization |-> config.api_key, gpu |-> config.gpu])

---------------------------------------------------------------------------
\* Slip: to the host of the base, whatever its scheme and its port.
edge_headers_apply_to_host(client, url) ==
  client.edge_headers # <<>> /\ client.base_origin # None /\ url.host = client.base_origin.host

\* edge_headers_apply_to: to the exact origin of the base.
edge_headers_apply_to(client, url) ==
  client.edge_headers # <<>> /\ client.base_origin # None /\ Origin(url) = client.base_origin

\* websocket_matches_base_origin
websocket_matches_base_origin(client, url) ==
  /\ client.edge_headers # <<>> /\ client.base_origin # None
  /\ HttpOf(url) # None /\ Origin(HttpOf(url)) = client.base_origin

\* What a request carries of the two credentials: the client's own requests
\* (build_attempt), a payload reference (fetch_payload_ref, its own bare
\* client) and the handshake of watch.
Credentials(client, kind, url) ==
  [authorization |-> kind # "payload" /\ client.authorization # None,
   edge |-> IF kind = "handshake" THEN websocket_matches_base_origin(client, url)
            ELSE edge_headers_apply_to(client, url)]

---------------------------------------------------------------------------
\* routing and parse_gpu_param: the call's gpu, or the client's; a gpu is its
\* pool, None without a slash, and its profile, which may be empty.
routing(client, gpu) ==
  LET resolved == Or(gpu, client.gpu)
  IN IF resolved = None THEN [pool |-> None, profile |-> None]
     ELSE [pool |-> resolved.pool,
           profile |-> IF resolved.profile.empty THEN None ELSE resolved.profile]

\* PreparedRequest::header: a value no header can hold is dropped.
maybe_header(name, value) ==
  IF value = None \/ ~value.encodable THEN Empty ELSE name :> value

---------------------------------------------------------------------------
\* major_minor, skew_warning: None where there is nothing to say.
skew_warning(sdk, server) ==
  IF sdk = None \/ server = None THEN FALSE
  ELSE \/ sdk.major # server.major
       \/ sdk.minor > server.minor + 1 \/ server.minor > sdk.minor + 1

\* warn_once
warn_once(warned, sdk, server) == warned \/ skew_warning(sdk, server)

---------------------------------------------------------------------------
\* watch with Auto: a worker that says so; anything else is a gateway.
WatchMode(mode, health) ==
  IF mode # "auto" THEN mode
  ELSE IF health.ok /\ health.value.type = "worker" THEN "worker" ELSE "cluster"

\* websocket_url
websocket_url(client) ==
  IF client.base_url.scheme \notin DOMAIN WebSocketOf THEN Err("invalid")
  ELSE Ok([client.base_url EXCEPT !.scheme = WebSocketOf[@]])

\* The frames of a status stream: what each of them does to the stream.
Frame(frame) ==
  CASE frame = "error" -> "fail" [] frame = "close" -> "end"
    [] frame \in {"text", "binary"} -> "status" [] OTHER -> "skip"

---------------------------------------------------------------------------
\* mask_token: how many characters are masked, and the ones that are shown.
mask_token(token) ==
  IF Len(token) <= 4 THEN [masked |-> 4, shown |-> <<>>]
  ELSE [masked |-> Len(token) - 4, shown |-> SubSeq(token, Len(token) - 3, Len(token))]

\* endpoint_origin_for_log: no path, query or user information.
endpoint_origin_for_log(url) ==
  IF url = None \/ url.scheme \notin DOMAIN Ports THEN None
  ELSE [scheme |-> url.scheme, host |-> url.host, port |-> url.port]
=============================================================================
