----------------------------- MODULE LlmAdapter -----------------------------
(***************************************************************************)
(* OpenAICompatibleLLMAdapter (openai_llm_adapter.py): generate, which     *)
(* posts again after an answer of 500 and above only, and stream, which    *)
(* hands on the lines of one answer as they come.                          *)
(***************************************************************************)
EXTENDS Naturals, Sequences

CONSTANTS MaxRetries, MaxLines

VARIABLES
  mode,     \* "generate" or "stream"
  stage,    \* "post", "lines", "ended", or the error it ended with
  attempt,
  failures, \* what the posts of generate ended with, the last one included
  lines,    \* the lines of the stream: "text" or "broken"
  yielded   \* the numbers of the lines whose text was handed on

vars == <<mode, stage, attempt, failures, lines, yielded>>

\* what can happen to a post: an answer of 5xx or below, no answer in time, no
\* connection, or an answer that is not what was asked for
PostErrors == {"server", "client", "timeout", "connection", "unreadable"}

\* HTTPStatusError of 500 and above, unless it was the last attempt
Retries(error) == error = "server" /\ attempt < MaxRetries

\* every exception of generate becomes a ProviderSDKError
Wrapped(error) == "ProviderSDKError"

\* stream wraps the status and the timeout; nothing else is caught
WrappedInStream(error) ==
  IF error \in {"server", "client", "timeout"} THEN "ProviderSDKError" ELSE error

PostFails ==
  /\ mode = "generate" /\ stage = "post"
  /\ \E error \in PostErrors :
       /\ failures' = Append(failures, error)
       /\ IF Retries(error) THEN attempt' = attempt + 1 /\ UNCHANGED stage
                            ELSE stage' = Wrapped(error) /\ UNCHANGED attempt
  /\ UNCHANGED <<mode, lines, yielded>>

Generate ==
  /\ mode = "generate" /\ stage = "post"
  /\ stage' = "ended"
  /\ UNCHANGED <<mode, attempt, failures, lines, yielded>>

Stream ==
  /\ mode = "stream" /\ stage = "post"
  /\ \/ stage' = "lines"
     \/ \E error \in PostErrors \ {"unreadable"} : stage' = WrappedInStream(error)
  /\ UNCHANGED <<mode, attempt, failures, lines, yielded>>

\* a line with a text is handed on, one that is no JSON is passed over
Line ==
  /\ stage = "lines" /\ Len(lines) < MaxLines
  /\ \E line \in {"text", "broken"} :
       /\ lines' = Append(lines, line)
       /\ yielded' = IF line = "text" THEN Append(yielded, Len(lines')) ELSE yielded
  /\ UNCHANGED <<mode, stage, attempt, failures>>

\* [DONE], and a connection that closes before it, end the stream alike; a line with
\* an empty list of choices fails, and nothing catches that
StreamEnds ==
  /\ stage = "lines"
  /\ \/ stage' = "ended"
     \/ \E error \in {"timeout", "connection", "unreadable"} : stage' = WrappedInStream(error)
  /\ UNCHANGED <<mode, attempt, failures, lines, yielded>>

Init ==
  /\ mode \in {"generate", "stream"}
  /\ stage = "post"
  /\ attempt = 0
  /\ failures = <<>>
  /\ lines = <<>>
  /\ yielded = <<>>

Next == PostFails \/ Generate \/ Stream \/ Line \/ StreamEnds

Spec == Init /\ [][Next]_vars

-----------------------------------------------------------------------------
\* generate gives up at the first failure that is not of the server, within its
\* attempts, and in the one way its callers catch (answer_orchestration.py:538).
GenerateGivesUp ==
  mode = "generate" =>
    /\ Len(failures) <= MaxRetries + 1
    /\ \A i \in 1..(Len(failures) - 1) : failures[i] = "server"
    /\ stage \in {"post", "ended", "ProviderSDKError"}

\* stream hands on every readable line once and in its order, and never goes back
\* to the provider for more.
StreamInOrder ==
  /\ \A i, j \in DOMAIN yielded : i < j => yielded[i] < yielded[j]
  /\ {yielded[i] : i \in DOMAIN yielded} = {i \in DOMAIN lines : lines[i] = "text"}
  /\ mode = "stream" => attempt = 0

=============================================================================
