--------------------------------- MODULE Provider ---------------------------------
(***************************************************************************)
(* The clients of the model servers (providers/base.py, gemini.py,         *)
(* openai_compat.py, mock.py): what a request may come to, what is tried   *)
(* again, and what the caller of generate() gets in the end.               *)
(* "other" is a server with an OpenAI-compatible interface.                *)
(***************************************************************************)
EXTENDS Naturals

CONSTANT Attempts   \* of with_retries()

ASSUME AttemptsAssumption == Attempts \in Nat \ {0}

Failures == {"timeout", "connection", "429", "5xx", "4xx", "not JSON"}

\* An answer has a text, tool calls, or no choice (candidate) at all.
Outcomes(provider) ==
  {"text", "calls"} \cup (IF provider = "mock" THEN {} ELSE {"nothing"} \cup Failures)

\* Each client maps its errors to ProviderError(retryable).  Gemini's tells a lost
\* connection from a timeout by its text.
Retryable(provider, outcome) ==
  outcome \in {"timeout", "429", "5xx"} \/ (outcome = "connection" /\ provider = "other")

TriedAgain(provider, outcome, tries) == Retryable(provider, outcome) /\ tries < Attempts

\* _parse(): without choices an error, without candidates an empty text.
Heard(provider, outcome) ==
  CASE outcome = "text"     -> "final"
    [] outcome = "calls"    -> "tools"
    [] outcome = "nothing"  -> IF provider = "gemini" THEN "final" ELSE "error"
    [] outcome \in Failures -> "error"

===================================================================================
