----------------------------- MODULE ApiClient -----------------------------
(***************************************************************************)
(* The web wallet's HTTP client (wallet-app/src/api/client.ts): what one   *)
(* call of request() has done so far, as a value, and what becomes of it   *)
(* at each event.  The pages that make the calls keep these values.        *)
(*                                                                         *)
(* A fetch ends in an answer, an exception of the network, or the abort of *)
(* the timeout's controller, which may also come while the body is read.   *)
(***************************************************************************)
EXTENDS Naturals, Sequences

CONSTANTS apiRetryCount   \* VITE_API_RETRY_COUNT

\* parseNumberEnv lets a fraction through as well, after which request() runs out
\* of attempts and throws UNKNOWN at its very end; such a setting is left out.
ASSUME ClientAssumption == apiRetryCount \in Nat

walletSemanticErrorCodes ==
    {"INVALID_ARGUMENT", "INSUFFICIENT_FUNDS", "OUT_OF_GAS", "INVALID_SEQUENCE", "UNAUTHORIZED",
     "CHAIN_UNAVAILABLE", "NOT_FOUND", "METHOD_NOT_ALLOWED", "TX_REJECTED", "INTERNAL_ERROR"}
TransportErrorCodes == {"TIMEOUT", "NETWORK", "HTTP_ERROR", "PARSE_ERROR"}

\* An answer: its status, whether the body is read and parsed to the end, and
\* of an error body the code and the retryable field, "absent" when missing.
Answer(status, body, code, retryable) ==
    [status |-> status, body |-> body, code |-> code, retryable |-> retryable]

\* A call.  sent counts the fetches; stages is what onLifecycle was told.
Call == [at : {"fetching", "sleeping", "returned", "thrown"},
         attempt : Nat, maxRetries : Nat, sent : Nat,
         stages : Seq({"start", "retry", "success", "failure"}),
         code : walletSemanticErrorCodes \cup TransportErrorCodes \cup {"none"},
         status : Nat]

Fetching(call) == [call EXCEPT !.at = "fetching", !.sent = @ + 1]
Stage(call, at, stage) == [call EXCEPT !.at = at, !.stages = Append(@, stage)]

\* Faulty variant: a POST is retried like a GET.
defaultRetryCountAny(method) == apiRetryCount
defaultRetryCount(method) == IF method = "GET" THEN apiRetryCount ELSE 0

\* request(): everything up to the first fetch.
request(method) ==
    Fetching([at |-> "fetching", attempt |-> 0, maxRetries |-> defaultRetryCount(method),
              sent |-> 0, stages |-> <<"start">>, code |-> "none", status |-> 0])

\* An attempt failed: another one after a pause, or the error is thrown.
EndOfAttempt(call, code, status, retryable) ==
    IF retryable /\ call.attempt < call.maxRetries
    THEN [Stage(call, "sleeping", "retry") EXCEPT !.attempt = @ + 1]
    ELSE [Stage(call, "thrown", "failure") EXCEPT !.code = code, !.status = status]

isRetryableStatus(status) == status = 429 \/ status >= 500

\* resolveStructuredErrorPayload: a body that cannot be read has no fields.
ErrorCode(answer) ==
    IF answer.body /\ answer.code \in walletSemanticErrorCodes THEN answer.code ELSE "HTTP_ERROR"
Retryable(answer) ==
    IF answer.body /\ answer.retryable # "absent" THEN answer.retryable = "yes"
    ELSE isRetryableStatus(answer.status)

Succeeded(answer) == answer.status \in 200 .. 299 /\ answer.body

\* The fetch is answered.  A body that breaks off, even at the timeout, is a
\* PARSE_ERROR and not retried.
Answered(call, answer) ==
    IF answer.status \notin 200 .. 299
    THEN EndOfAttempt(call, ErrorCode(answer), answer.status, Retryable(answer))
    ELSE IF answer.body
         THEN Stage(call, "returned", "success")
         ELSE EndOfAttempt(call, "PARSE_ERROR", 0, FALSE)

\* The fetch throws.  abort('timeout') rejects it with that string where the
\* runtime honours the reason, so that only an older one reports a TIMEOUT.
Aborts == {"TIMEOUT", "NETWORK"}
Threw(call, code) == EndOfAttempt(call, code, 0, TRUE)

Over(call) == call.at \in {"returned", "thrown"}

isSessionInvalidError(call) ==
    /\ call.at = "thrown"
    /\ \/ call.code = "UNAUTHORIZED"
       \/ call.code = "HTTP_ERROR" /\ call.status \in {401, 403}

\* What onLifecycle was told of a call fits what the call did: one start, a
\* retry before each further fetch, one last stage when it is over, and never
\* more fetches than the retries allow.
LifecycleFits(call) ==
    /\ call.stages = <<"start">> \o [i \in 1 .. call.attempt |-> "retry"]
                       \o (CASE call.at = "returned" -> <<"success">>
                             [] call.at = "thrown" -> <<"failure">>
                             [] OTHER -> <<>>)
    /\ call.sent = IF call.at = "sleeping" THEN call.attempt ELSE call.attempt + 1
    /\ call.attempt <= call.maxRetries
=============================================================================
