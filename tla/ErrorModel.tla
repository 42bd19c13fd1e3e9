----------------------------- MODULE ErrorModel -----------------------------
(***************************************************************************)
(* The error codes of the services, the HTTP statuses the gateway turns    *)
(* them into (libs/app/errors.py), and what a route makes of the answer to *)
(* its RPC (apps/gateway/rest/auth/auth_routes.py).                        *)
(***************************************************************************)
EXTENDS Integers

\* ERROR_CODE_TO_HTTP_STATUS under get_http_status: the code of an error
\* without an entry, and a string that is no ErrorCode, give 500.
HttpStatus(code) ==
  CASE code = "validation.failed"      -> 400
    [] code \in {"auth.invalid_credentials", "auth.token_expired", "auth.invalid_token",
                 "auth.refresh_invalid", "auth.refresh_expired"} -> 401
    [] code = "auth.forbidden"         -> 403
    [] code = "auth.user_exists"       -> 409
    [] code = "common.not_implemented" -> 501
    [] code = "rpc.bad_response"       -> 502
    [] code = "rpc.timeout"            -> 504
    [] OTHER                           -> 500

\* The statuses a route can answer with.
Statuses == {200, 400, 401, 403, 409, 500, 501, 502, 504}

\* A route that was answered by "ok", by an error code, or by nothing.
RouteStatus(answer) ==
  IF answer = "ok" THEN 200
  ELSE HttpStatus(IF answer = "none" THEN "rpc.timeout" ELSE answer)

=============================================================================
