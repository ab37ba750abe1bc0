---------------------------- MODULE LlmProviders ----------------------------
(* The three language model providers (plugins/llm_openai.py, llm_anthropic   *)
(* .py, llm_ollama.py). A call runs in the thread of whoever makes it, the    *)
(* provider may be disabled by another one at any moment, and the promise of  *)
(* the base class is that a call raises errors of its own hierarchy only:     *)
(* callers tell a rate limit or a timeout from the rest by the class.         *)
EXTENDS Integers

CONSTANTS
  Completion,        \* identifiers of calls
  MaxSwitches     \* how often a provider may be enabled
ASSUME LlmAssumption == MaxSwitches \in Nat

VARIABLES
  client,     \* the client or session object of each provider: none or open
  completion, \* each call: provider, kind of call, how far, and how it ended
  switches    \* how often a provider was enabled

clientVars == <<client, completion, switches>>

LlmProvider == {"openai", "anthropic", "ollama"}
NoCompletion == [of |-> "openai", stream |-> FALSE, at |-> "new", end |-> ""]

\* The error classes of engine/llm_base.py; an answer of an unexpected form, and
\* everything else that may be raised.
ProviderError == {"AuthError", "RateLimitError", "TimeoutError", "Error"}
Outcome == ProviderError \union {"result", "malformed", "foreign"}

LlmInit ==
  /\ client = [p \in LlmProvider |-> "none"]
  /\ completion = [r \in Completion |-> NoCompletion] /\ switches = 0

\* Clients and completions keep their types.
LlmTypeOK ==
  /\ client \in [LlmProvider -> {"none", "open"}]
  /\ completion \in [Completion -> [of : LlmProvider, stream : BOOLEAN,
                              at : {"new", "checked", "sent", "over"},
                              end : Outcome \union {""}]]
  /\ switches \in 0..MaxSwitches
-----------------------------------------------------------------------------
\* Variant: the clause for everything else is missing.
OpenAIRaisesAsIs(what) ==
  CASE what = "authentication" -> "AuthError"
    [] what = "rate limit"     -> "RateLimitError"
    [] what = "timeout"        -> "TimeoutError"
    [] what = "api"            -> "Error"
    [] OTHER                   -> "foreign"

\* What the library raises, and the class each except clause turns it into, in
\* the order of the clauses.
OpenAIRaises(what) ==
  CASE what = "authentication" -> "AuthError"
    [] what = "rate limit"     -> "RateLimitError"
    [] what = "timeout"        -> "TimeoutError"
    [] OTHER                   -> "Error"       \* an API error, anything else

\* A status error with the code 429 is a rate limit as well.
AnthropicRaises(what) ==
  CASE what = "authentication"            -> "AuthError"
    [] what \in {"rate limit", "status 429"} -> "RateLimitError"
    [] what = "timeout"                   -> "TimeoutError"
    [] OTHER                              -> "Error"

\* A timeout while connecting is a ConnectionError of requests too, and that
\* clause comes first.
OllamaRaises(what) ==
  CASE what = "timeout" -> "TimeoutError"
    [] OTHER            -> "Error"   \* connection, connect timeout, request, JSON

Raised(p, what) ==
  CASE p = "openai" -> OpenAIRaises(what)
    [] p = "anthropic" -> AnthropicRaises(what)
    [] p = "ollama" -> OllamaRaises(what)

Failure == [openai    |-> {"authentication", "rate limit", "timeout", "api"},
            anthropic |-> {"authentication", "rate limit", "status 429", "timeout", "api"},
            ollama    |-> {"connection", "connect timeout", "timeout", "request", "json"}]
-----------------------------------------------------------------------------
(* on_enable raises when the library or the key is missing, which leaves the  *)
(* provider as it was; Ollama's looks whether the server answers and goes on  *)
(* either way.                                                                *)
Enabled(p) ==
  /\ switches < MaxSwitches /\ switches' = switches + 1
  /\ client' = [client EXCEPT ![p] = "open"] /\ UNCHANGED completion
OnEnableOpenAI == Enabled("openai")
OnEnableAnthropic == Enabled("anthropic")
OnEnableOllama == Enabled("ollama")

OnDisable(p) ==
  /\ client[p] = "open" /\ client' = [client EXCEPT ![p] = "none"]
  /\ UNCHANGED <<completion, switches>>

Ends(r, outcome) == [completion EXCEPT ![r].at = "over", ![r].end = outcome]

\* The first line of complete and complete_stream: is there a client?
Begins(r, p, stream) ==
  /\ completion[r].at = "new"
  /\ completion' = [completion EXCEPT ![r] =
       [of |-> p, stream |-> stream, at |-> IF client[p] = "open" THEN "checked" ELSE "over",
        end |-> IF client[p] = "open" THEN "" ELSE "Error"]]
  /\ UNCHANGED <<client, switches>>

\* The client is read a second time to make the request; when the provider was
\* disabled since, there is nothing to call.
Sends(r) ==
  /\ completion[r].at = "checked"
  /\ completion' = IF client[completion[r].of] = "open"
                  THEN [completion EXCEPT ![r].at = "sent"]
                  ELSE Ends(r, Raised(completion[r].of, "no attribute"))
  /\ UNCHANGED <<client, switches>>

\* The library raised, before or in the middle of an answer.
Fails(r, p, stream) ==
  /\ completion[r].at = "sent" /\ completion[r].of = p /\ completion[r].stream = stream
  /\ \E what \in Failure[p] : completion' = Ends(r, Raised(p, what))
  /\ UNCHANGED <<client, switches>>

\* The answer is there, and the fields of the result are read from it outside
\* the try: an answer of another form makes that raise as it is.
AnswerArrives(r, p, stream, malformed) ==
  /\ completion[r].at = "sent" /\ completion[r].of = p /\ completion[r].stream = stream
  /\ completion' = Ends(r, IF malformed THEN "malformed" ELSE "result")
  /\ UNCHANGED <<client, switches>>

\* complete: the choices of OpenAI's answer may be empty, Ollama's may not be
\* an object. The parts of Anthropic's answer are those of its own library.
CompleteOpenAI(r) ==
  \/ Begins(r, "openai", FALSE) \/ Fails(r, "openai", FALSE)
  \/ \E malformed \in BOOLEAN : AnswerArrives(r, "openai", FALSE, malformed)
CompleteAnthropic(r) ==
  \/ Begins(r, "anthropic", FALSE) \/ Fails(r, "anthropic", FALSE)
  \/ AnswerArrives(r, "anthropic", FALSE, FALSE)
CompleteOllama(r) ==
  \/ Begins(r, "ollama", FALSE) \/ Fails(r, "ollama", FALSE)
  \/ \E malformed \in BOOLEAN : AnswerArrives(r, "ollama", FALSE, malformed)

\* complete_stream: every part is read and handed on inside the try. A stream
\* that ends without its last part gives a result like any other.
StreamOpenAI(r) ==
  Begins(r, "openai", TRUE) \/ Fails(r, "openai", TRUE) \/ AnswerArrives(r, "openai", TRUE, FALSE)
StreamAnthropic(r) ==
  Begins(r, "anthropic", TRUE) \/ Fails(r, "anthropic", TRUE) \/ AnswerArrives(r, "anthropic", TRUE, FALSE)
StreamOllama(r) ==
  Begins(r, "ollama", TRUE) \/ Fails(r, "ollama", TRUE) \/ AnswerArrives(r, "ollama", TRUE, FALSE)

LlmNext ==
  \/ OnEnableOpenAI \/ OnEnableAnthropic \/ OnEnableOllama
  \/ \E p \in LlmProvider : OnDisable(p)
  \/ \E r \in Completion : \/ Sends(r)
                        \/ CompleteOpenAI(r) \/ CompleteAnthropic(r) \/ CompleteOllama(r)
                        \/ StreamOpenAI(r) \/ StreamAnthropic(r) \/ StreamOllama(r)
-----------------------------------------------------------------------------
(* "Raised: LLMProviderError": whatever the library raises, and also when the *)
(* provider is disabled between the check for a client and the request, the   *)
(* caller gets a result or an error of the hierarchy. The one exception is a  *)
(* whole answer of a form that complete does not expect ("malformed").        *)
OnlyProviderErrors == \A r \in Completion : completion[r].end # "foreign"
=============================================================================
