------------------------ MODULE MCProviderConfiguration ------------------------
(* One process besides the console and the window; OpenAI and a provider     *)
(* without a transport; command lines with a key typed, a variable, a source *)
(* no one knows, and endpoints and sources with and without the separators   *)
(* (a file is named in the window); outcomes that fail at each stage, of     *)
(* each class, and of each kind of body.                                     *)
EXTENDS ProviderConfiguration

MCEndpoint == <<"https://api">>
MCBadEndpoints == {<<"not a url">>}
MCBlankTexts == {<<"{}">>}
MCCannedText == <<"canned">>
MCSetVariables == {<<"KEY">>}

Line(p, source) ==
  [provider |-> p, display |-> NoText, model |-> <<"small">>, endpoint |-> NoText,
   source |-> source, env |-> IF source = Env THEN <<"KEY">> ELSE NoText,
   ref |-> NoText, enabled |-> TRUE]

MCRequests ==
  {Line("openai", Direct), Line("local", <<"vault">>),
   [Line("openai", Direct) EXCEPT !.model = <<"large", ",", "x">>, !.enabled = FALSE,
                                    !.display = <<"My", ";">>,
                                    !.source = <<"direct", ",", "x">>,
                                    !.endpoint = <<"not a url">>],
   [Line("openai", Env) EXCEPT !.endpoint = <<"https://a", ";", "b">>],
   [Line("openai", Direct) EXCEPT !.endpoint = <<"a", ";", "b", ";", "c">>],
   Line("openai", <<"direct", ";">>)}

MCTyped ==
  [provider |-> {"local"}, display |-> {<<"Mine">>}, model |-> {<<"large", ";", "x">>},
   source |-> Sources, env |-> {<<"KEY", ",", "x">>}, ref |-> {SecretPath("openai")}, enabled |-> {FALSE}]

Item(isMessage, isText, text) == [isMessage |-> isMessage, isText |-> isText, text |-> text]
Body(usage, output) == [usage |-> usage, output |-> output]
Outcome(fails, status, body) == [fails |-> fails, status |-> status, body |-> body]

MCOutcomes ==
  LET answer == Item(TRUE, TRUE, <<"answer">>)
      good == Body("numbers", <<Item(FALSE, TRUE, <<"thought">>), answer>>) IN
  {Outcome(stage, IF stage = "read_body" THEN 200 ELSE NoStatus, NoBody) : stage \in Stages} \union
  {Outcome("none", status, NoBody) : status \in {NoStatus, 401, 500}} \union
  {Outcome("none", 200, good), Outcome("none", 200, Body("words", <<answer>>)),
   Outcome("none", 200, NoBody),
   Outcome("none", 200, Body("absent", <<Item(TRUE, TRUE, <<"{}">>)>>))}
=============================================================================
