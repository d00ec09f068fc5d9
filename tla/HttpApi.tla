------------------------------- MODULE HttpApi ------------------------------
(***************************************************************************)
(* A call of the HTTP API as both ends see it: authorization and routing   *)
(* by the server (httpServer.ts, auth.ts), its errors (runtime/errors.ts), *)
(* and what the SDK makes of a response (http.ts, errors.ts).              *)
(***************************************************************************)
EXTENDS Naturals

CONSTANTS
  NoKey,
  apiKey     \* INFINICON_API_KEY of the server, or NoKey

\* The operations with a POST route; another path is answered not_found.
Routes == {"ingest", "query", "hydrate", "assemble-context", "consolidate", "tombstone",
           "subscribe", "get-job"}

\* The header must be the very token; a server without a key lets everyone in.
authorizeRequest(key) == apiKey = NoKey \/ key = apiKey

-----------------------------------------------------------------------------
\* A response: JSON with a status and, if the status says so, a code; or text of a proxy.
json(payload) == [ok |-> TRUE, payload |-> payload]
failure(status, code) ==
  [ok |-> FALSE, status |-> status, body |-> [code |-> code, retryable |-> FALSE]]
gatewayText == [ok |-> FALSE, status |-> 502, body |-> [message |-> "text"]]

unauthorized == failure(401, "unauthorized")

\* The codes of RuntimeError, and anything else thrown.
Codes == {"invalid_scope", "unsupported_consistency", "dedupe_conflict", "not_found",
          "invalid_request", "internal_error"}

toHttpError(code) ==
  failure(CASE code = "not_found" -> 404 [] code = "internal_error" -> 500 [] OTHER -> 400,
          code)

\* What the server answers a request whose operation returns payload.
respond(op, key, answer) ==
  CASE ~authorizeRequest(key) -> unauthorized
    [] authorizeRequest(key) /\ op \in Routes -> answer
    [] OTHER -> failure(404, "not_found")

-----------------------------------------------------------------------------
\* parseJson gives text a message, and parseMemoryApiError a code.  The body of a runtime
\* error has no field error: its retryable is left among the details.
parseMemoryApiError(response) ==
  [code |-> IF "code" \in DOMAIN response.body THEN response.body.code ELSE "http_error",
   status |-> response.status,
   retryable |-> "undefined"]
=============================================================================
