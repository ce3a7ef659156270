-------------------------- MODULE InferenceTransport --------------------------
(***************************************************************************)
(* A request to the provider: the options it is made from, the executor    *)
(* that sends it, the reading of what comes back, and what is told of it   *)
(* (InferenceTransportClient, ProviderHttpTransport, the executors and     *)
(* parse_openai_response_body).                                            *)
(*                                                                         *)
(* What the network does is an outcome: the WinHTTP call that fails, if    *)
(* any, the status of the reply, NoStatus when it cannot be read, and its  *)
(* body.  Of a body: what its token counts are, and the items of its       *)
(* output.  The text of an item is a model value; ResponseParser reads it. *)
(* Left out: the messages of the prompt, the schema sent with it, the      *)
(* previews, summaries and codes of an error, and the usage counted.       *)
(***************************************************************************)
EXTENDS Integers, Sequences, SequencesExt

CONSTANTS
  OpenAi,           \* what canonical_provider_name makes of OpenAI's names
  DefaultEndpoint,
  BadEndpoints,     \* WinHttpCrackUrl cannot read them
  TestKeys,         \* keys the stand-in executor answers
  BlankTexts,       \* texts of a reply without a mode, a command or a message
  CannedText        \* what the stand-in executor answers

\* A text is a sequence of words and separators.
NoText == <<>>
NoKey == 0
NoStatus == 0
NoStage == "none"
NoBody == [usage |-> "absent", output |-> <<>>]

Stages == {"open_session", "connect", "open_request", "send_request", "receive_response", "read_body"}

IsOpenAiLikeProviderName(provider) == provider = OpenAi
DefaultFor(provider) == IF IsOpenAiLikeProviderName(provider) THEN DefaultEndpoint ELSE NoText

\* InferenceTransportClient::BuildOptions.
BuildOptions(provider, record, key) ==
  [provider |-> provider, model |-> record.model, key |-> key,
   endpoint |-> IF record.endpoint = NoText THEN DefaultFor(provider) ELSE record.endpoint]
-----------------------------------------------------------------------------
(* The executors *)

\* Mutant of AssignFailure: a request is marked as sent when it is handed to the
\* system.
AssignFailureMarksEarly(stage, status) ==
  [success |-> FALSE, network |-> stage = "send_request", stage |-> stage, status |-> status, body |-> NoBody]

\* assign_failure takes back that the request was sent.
AssignFailure(stage, status) ==
  [success |-> FALSE, network |-> FALSE, stage |-> stage, status |-> status, body |-> NoBody]

\* WinHttpExecutor::Execute.
Execute(endpoint, outcome) ==
  IF endpoint \in BadEndpoints THEN AssignFailure("open_request", NoStatus)
  ELSE IF outcome.fails \in Stages
  THEN AssignFailure(outcome.fails, IF outcome.fails = "read_body" THEN outcome.status ELSE NoStatus)
  ELSE [success |-> outcome.status # NoStatus, network |-> TRUE,
        stage |-> IF outcome.status # NoStatus THEN NoStage ELSE "receive_response",
        status |-> outcome.status, body |-> outcome.body]

\* UnsupportedPlatformExecutor::Execute.
StandIn(key) ==
  IF key \in TestKeys
  THEN [success |-> TRUE, network |-> TRUE, stage |-> NoStage, status |-> 200,
        body |-> [usage |-> "numbers",
                  output |-> <<[isMessage |-> TRUE, isText |-> TRUE, text |-> CannedText]>>]]
  ELSE AssignFailure("open_session", NoStatus)
-----------------------------------------------------------------------------
(* Reading the reply *)

\* parse_openai_usage throws on a count that is no number.
UsageThrows(body) == body.usage = "words"

\* The items a text is looked for in: the output_text of the assistant's messages.
MessageTexts(body) == SelectSeq(body.output, LAMBDA item : item.isMessage /\ item.isText)

\* extract_openai_output_text_payload: the first of them.
OutputText(body) ==
  IF MessageTexts(body) = <<>> THEN NoText ELSE Head(MessageTexts(body)).text

StatusClass(status) ==
  CASE status = 400 -> "bad_request"
    [] status \in {401, 403} -> "authentication_failure"
    [] status = 429 -> "rate_limited"
    [] status >= 500 -> "server_error"
    [] OTHER -> "http_failure"

\* attempted: the error says that the request was sent.
Failed(class, retryable, attempted, stage) ==
  [ok |-> FALSE, class |-> class, retryable |-> retryable, attempted |-> attempted,
   stage |-> stage, text |-> NoText]
Succeeded(text) ==
  [ok |-> TRUE, class |-> "none", retryable |-> FALSE, attempted |-> FALSE,
   stage |-> NoStage, text |-> text]
\* An exception nobody catches: the process ends.
Uncaught ==
  [ok |-> FALSE, class |-> "uncaught", retryable |-> FALSE, attempted |-> FALSE,
   stage |-> NoStage, text |-> NoText]

\* parse_openai_response_body; the counts come before the status.
ParseResponseBody(body, status) ==
  IF UsageThrows(body) THEN Uncaught
  ELSE IF status \notin 200..299
  THEN Failed(StatusClass(status), status = 429 \/ status >= 500, TRUE, "receive_response")
  ELSE IF OutputText(body) \in BlankTexts \union {NoText}
  THEN Failed("schema_parse_failure", FALSE, TRUE, "read_body")
  ELSE Succeeded(OutputText(body))
-----------------------------------------------------------------------------
(* ProviderHttpTransport *)

\* Run, given what the executor answers; the class of a failure to send or to
\* receive is named as its stage.
Interpreted(options, response) ==
  IF ~IsOpenAiLikeProviderName(options.provider)
  THEN Failed("unsupported_provider", FALSE, FALSE, NoStage)
  ELSE IF options.key = NoKey THEN Failed("missing_secret", FALSE, FALSE, NoStage)
  ELSE IF ~response.success
  THEN Failed(response.stage, response.stage \notin {"open_session", "open_request"},
              response.network, response.stage)
  ELSE ParseResponseBody(response.body, response.status)

Run(options, onWindows, outcome) ==
  Interpreted(options, IF onWindows THEN Execute(options.endpoint, outcome) ELSE StandIn(options.key))

\* HealthCheck: what a test of the provider says of the attempt.
TellsAttempted(options, result) ==
  IF result.ok THEN options.key # NoKey /\ options.model # NoText
  ELSE result.attempted

\* The request got as far as the executor's network, whatever is told of it.
IsSent(options, onWindows, outcome) ==
  /\ IsOpenAiLikeProviderName(options.provider) /\ options.key # NoKey
  /\ IF onWindows
     THEN /\ options.endpoint \notin BadEndpoints
          /\ outcome.fails \notin {"open_session", "connect", "open_request", "send_request"}
     ELSE options.key \in TestKeys
=============================================================================
