---------------------------- MODULE ResponseParser ----------------------------
(***************************************************************************)
(* The parser of the provider's replies, as the router sees it: what a     *)
(* payload, the JSON object in the text of a reply, is delivered as        *)
(* (parse_openai_structured_output_to_key_value).                          *)
(*                                                                         *)
(* Of a payload: its mode, "empty" when it has none and "synonym" for the  *)
(* words normalize_mode reads as a failure; its command; its arguments and *)
(* whether they are an array of strings or one text; its confidence in     *)
(* tenths, or NoNumber when it is absent or null; its confirmation, or     *)
(* "absent"; and whether it says anything to the user.  The characters of  *)
(* the JSON, and texts that contain lines of their own, are left out.      *)
(***************************************************************************)
EXTENDS IntentRouting

CONSTANT ParserNames  \* the names the parser corrects, before the router corrects its own

ASSUME ParserAssumption == \A n \in DOMAIN ParserNames : ParserNames[n] \in Commands

NoNumber == -2000

NormalizeCommandAlias(name) == IF name \in DOMAIN ParserNames THEN ParserNames[name] ELSE name

NormalizeMode(mode) == IF mode \in {"synonym", "empty"} THEN "failure" ELSE mode

\* Only the first string of an array can be the command's name.
NormalizeArgs(p) ==
  IF p.isArray /\ p.args # <<>> /\ p.command # NoCommand
  THEN <<NormalizeCommandAlias(Head(p.args))>> \o Tail(p.args)
  ELSE p.args

NormalizeConfidence(number) ==
  CASE number = NoNumber -> 0 [] number = Garbled.number -> number [] OTHER -> Clamped(number)

NormalizeBoolLike(word) == IF word = "absent" THEN "false" ELSE word

\* Nothing to deliver: the reply does not fit the schema.
IsBlank(p) == p.mode = "empty" /\ p.command = NoCommand /\ ~p.says

\* What run_provider_request answers when the request failed: a line whose key
\* the router does not know.
NotReady == [structured |-> TRUE, mode |-> "failure", command |-> NoCommand, args |-> <<>>,
             confidence |-> 0, confirm |-> "false"]

Delivered(p) ==
  IF IsBlank(p) THEN NotReady
  ELSE [structured |-> TRUE, mode |-> NormalizeMode(p.mode),
        command |-> NormalizeCommandAlias(p.command), args |-> NormalizeArgs(p),
        confidence |-> NormalizeConfidence(p.confidence),
        confirm |-> NormalizeBoolLike(p.confirm)]
=============================================================================
