------------------------------- MODULE Adapter -------------------------------
(***************************************************************************)
(* The adapter (runtime.OpenAICompatibleAdapter.execute): what an HTTP     *)
(* exchange makes of a call.  An exchange has the status that came back (0 *)
(* when none did) and how it ended: a failure below HTTP, or a body.  A    *)
(* result is a response, an ExecutionError (category and retryable), or an *)
(* exception of another type.                                              *)
(***************************************************************************)
EXTENDS Integers

Failures == {"timeout", "network", "protocol"}
Bodies == {"not_json", "no_choices", "malformed", "answer"}
Exchanges == [status : 0 .. 599, end : Failures \cup Bodies]

ExecutionError(category, retryable) == [category |-> category, retryable |-> retryable]

ClassifyStatus(code) ==
    CASE code \in {401, 403} -> "auth"
      [] code = 429 -> "rate_limit"
      [] code = 408 -> "timeout"
      [] code = 413 -> "context_length"
      [] code \in 500 .. 599 -> "server"
      [] code \in 400 .. 499 \ {401, 403, 408, 413, 429} -> "validation"
      [] OTHER -> "unknown"

\* An error of the provider is retryable by its category alone.
HttpError(code) ==
    ExecutionError(ClassifyStatus(code),
                   ClassifyStatus(code) \in {"rate_limit", "timeout", "network", "server"})

\* Failures below HTTP: the first two are worth another try.
PostError(failure) ==
    CASE failure = "timeout" -> ExecutionError("timeout", TRUE)
      [] failure = "network" -> ExecutionError("network", TRUE)
      [] failure = "protocol" -> ExecutionError("unknown", FALSE)

\* A body that is not JSON or has no choices is a server error that is not
\* retried; one of an unexpected shape raises AttributeError or ValidationError.
ParsedBody(body) ==
    CASE body \in {"not_json", "no_choices"} -> ExecutionError("server", FALSE)
      [] body = "malformed" -> "escapes"
      [] body = "answer" -> "response"

\* A status of 400 and more ends in an error whatever the body; below, the body decides.
Result(exchange) ==
    CASE exchange.end \in Failures -> PostError(exchange.end)
      [] exchange.end \in Bodies /\ exchange.status >= 400 -> HttpError(exchange.status)
      [] exchange.end \in Bodies /\ exchange.status < 400 -> ParsedBody(exchange.end)
=============================================================================
