--------------------------- MODULE ProviderRequests ---------------------------
(***************************************************************************)
(* One request to a provider of the answer path, with its retries:         *)
(* transcribe_wav of deepgram.rs ("stt") and                               *)
(* request_card_raw_text_with_temperature of openai_compatible.rs ("llm"). *)
(* Both give the request a budget of time, its attempts and the pauses     *)
(* between them included; they differ in when they look at it.  Only the   *)
(* language model has a second model to fall back to.                      *)
(*                                                                         *)
(* Time is counted in units of 500 ms, and passes only in a pause and      *)
(* while an answer is awaited.                                             *)
(***************************************************************************)
EXTENDS Integers, Sequences

CONSTANTS
    Budget,     \* of a request to each provider
    Timeout,    \* of an attempt
    BasePause,  \* before the first retry
    MaxPause,   \* before any
    Durations   \* bound: how long an answer takes, if not the whole timeout

MaxRetries == 2
Providers == {"stt", "llm"}

ASSUME PolicyAssumption ==
    /\ Budget \in [Providers -> Nat \ {0}]
    /\ Timeout \in Nat \ {0} /\ BasePause \in Nat /\ MaxPause \in Nat
    /\ Durations \subseteq Nat

VARIABLE request

Least(a, b) == IF a <= b THEN a ELSE b

\* It doubles from retry to retry.
Pause(n) == Least(BasePause * (IF n = 1 THEN 1 ELSE 2), MaxPause)

Stages == {"next", "sent", "answered", "failed"}

NewRequest(p) ==
    [to |-> p, at |-> "next", attempt |-> 0, elapsed |-> 0, retries |-> 0,
     model |-> "selected", fellback |-> FALSE, models |-> <<>>]

Left == Budget[request.to] - request.elapsed

Goes(stage) == request' = [request EXCEPT !.at = stage]

\* --- Before an attempt --------------------------------------------------

Sends(after) ==
    request' = [after EXCEPT !.at = "sent", !.models = Append(@, after.model)]

FirstAttempt ==
    /\ request.at = "next" /\ request.attempt = 0
    /\ Sends(request)

Paused ==
    [request EXCEPT !.elapsed = @ + Pause(request.attempt), !.retries = @ + 1]

\* A bug of RetryStt: the pause may take what is left, and more.
RetrySttLate ==
    /\ request.at = "next" /\ request.attempt > 0 /\ request.to = "stt"
    /\ Sends(Paused)

\* The pause has to leave some of the budget.
RetryStt ==
    /\ request.at = "next" /\ request.attempt > 0 /\ request.to = "stt"
    /\ IF Pause(request.attempt) < Left THEN Sends(Paused) ELSE Goes("failed")

\* The pause is made first, and counted, whatever is left.
RetryLlm ==
    /\ request.at = "next" /\ request.attempt > 0 /\ request.to = "llm"
    /\ IF Paused.elapsed < Budget["llm"] THEN Sends(Paused)
       ELSE request' = [Paused EXCEPT !.at = "failed"]

\* --- After an attempt ---------------------------------------------------

Limit == Least(Left, Timeout)
Takes(d) == request.at = "sent" /\ d \in (Durations \cup {Limit}) /\ d <= Limit
After(d) == [request EXCEPT !.elapsed = @ + d]

\* A server error, no connection, or no answer in time: once more.  The second
\* model takes over if there is one.
Retryable(second) ==
    \E d \in Durations \cup {Limit} :
        /\ Takes(d) /\ request.attempt < MaxRetries
        /\ request' = [After(d) EXCEPT
                !.at = "next", !.attempt = @ + 1,
                !.model = IF second THEN "fallback" ELSE @,
                !.fellback = @ \/ second]

\* An answer, read to its end.
Response ==
    \E d \in Durations \cup {Limit} :
        /\ Takes(d)
        /\ request' = [After(d) EXCEPT !.at = "answered"]

\* Any other error, an error status, a body that does not parse or is empty; and
\* the retryable ones in the last attempt.
RequestError ==
    \E d \in Durations \cup {Limit} :
        /\ Takes(d)
        /\ request' = [After(d) EXCEPT !.at = "failed"]

RequestStep(second) ==
    \/ FirstAttempt \/ RetryStt \/ RetryLlm
    \/ Retryable(second /\ request.to = "llm") \/ Response \/ RequestError
-----------------------------------------------------------------------------
\* A request keeps its budget, whatever its attempts and pauses take.  The
\* language model's may exceed it by the one pause that was made without a look
\* at what is left, and then fails (retry_backoff_ms, and the loop of
\* request_card_raw_text_with_temperature).
RequestsKeepBudget ==
    /\ request.elapsed > Budget[request.to] =>
         /\ request.to = "llm" /\ request.at = "failed"
         /\ request.attempt > 0
         /\ request.elapsed <= Budget["llm"] + Pause(request.attempt)
    /\ request.at = "sent" => request.elapsed < Budget[request.to]
===============================================================================
