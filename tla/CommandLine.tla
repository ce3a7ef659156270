----------------------------- MODULE CommandLine -----------------------------
(***************************************************************************)
(* How a line of words becomes a command and its parameters: words given   *)
(* to the program, a line typed at the operator console, a text asked of   *)
(* it through the windows, or an action form.  A line typed is first       *)
(* judged (tokens_match_explicit_command): one that is not a command goes  *)
(* to the intent router, modelled elsewhere.  Then resolve_bootstrap_config*)
(* reads it from left to right, an action for each way of a step.          *)
(*                                                                         *)
(* A word is dashed, with a name and perhaps a value after '=', or a plain *)
(* text.  What a command does is not modelled, only how it ends; a form    *)
(* whose command ended well is followed by an artifact query for each of   *)
(* its targets.  Words with an empty name or an empty value are left out.  *)
(***************************************************************************)
EXTENDS CommandTables, Naturals, FiniteSets, SequencesExt

CONSTANTS
  Vocabulary,  \* the words lines are made of
  MaxWords,    \* bound: words of a line
  Texts        \* what is filled into the fields of forms: words

NoValue == "no value"
Plain(text) == [dashed |-> FALSE, name |-> text, value |-> NoValue]
Flag(name) == [dashed |-> TRUE, name |-> name, value |-> NoValue]
With(name, text) == [dashed |-> TRUE, name |-> name, value |-> text]

ASSUME CommandLineAssumption ==
  /\ MaxWords \in Nat
  /\ Vocabulary \union Texts \subseteq [dashed : BOOLEAN, name : STRING, value : STRING]

VARIABLES
  stage,       \* "idle", "reading", "over"
  origin,      \* who asked: the kind of line, the form and what it was filled with
  line, at,    \* the words, and the next to be read
  command, given, parameters, root, \* locals of resolve_bootstrap_config
  ending,      \* how it ended
  targets      \* artifacts still to be shown again

lineVars == <<stage, origin, line, at, command, given, parameters, root, ending, targets>>

Here == "here"            \* the data root of the caller
Elsewhere == "elsewhere"  \* what a dashed word is as a value
One == "1"
TextOf(w) == IF w.dashed THEN Elsewhere ELSE w.name

NoForm == Form("none", <<>>, <<>>)
NoOrigin == [kind |-> "none", form |-> NoForm, filled |-> <<>>]
From(kind) == [NoOrigin EXCEPT !.kind = kind]

LineInit ==
  /\ stage = "idle" /\ origin = NoOrigin /\ line = <<>> /\ at = 1
  /\ command = "status" /\ given = FALSE /\ parameters = <<>> /\ root = Here
  /\ ending = "none" /\ targets = <<>>

\* is_command_name, resolve_alias.
IsAlias(text) == \E c \in CommandNames : text \in AliasesOf(c)
Names(w) == ~w.dashed /\ (w.name \in CommandNames \/ IsAlias(w.name))
Resolved(text) ==
  IF IsAlias(text) THEN CHOOSE c \in CommandNames : text \in AliasesOf(c) ELSE text

Switches == {"no-seed-data", "quiet-startup"}
Settings == {"data-root", "timezone", "command"}
IsSwitch(w) == w.dashed /\ w.name \in Switches /\ w.value = NoValue
IsSetting(w) == w.dashed /\ w.name \in Settings
IsOption(w) == w.dashed /\ ~IsSwitch(w) /\ ~IsSetting(w)

\* tokens_match_explicit_command: every word after the first is a global
\* option, an option of the command, or the value of the option before it.
IsExact(words) ==
  /\ Names(words[1])
  /\ \A i \in 2..Len(words) :
       IF words[i].dashed
       THEN IsOption(words[i]) => words[i].name \in OptionsOf(Resolved(words[1].name))
       ELSE i > 2 /\ IsOption(words[i - 1]) /\ words[i - 1].value = NoValue
-----------------------------------------------------------------------------
(* Where lines come from *)

Begin(from, words) ==
  /\ stage' = "reading" /\ origin' = from /\ line' = words /\ at' = 1
  /\ command' = "status" /\ given' = FALSE /\ parameters' = <<>> /\ root' = Here
  /\ ending' = "none"

Quiet == Flag("quiet-startup")

GiveArguments ==
  /\ stage = "idle"
  /\ \E words \in SeqOf(Vocabulary, MaxWords) : Begin(From("arguments"), words)
  /\ targets' = <<>>

\* resolve_operator_input, up to the router.
TypeExact ==
  /\ stage = "idle"
  /\ \E words \in SeqOf(Vocabulary, MaxWords) \ {<<>>} :
       /\ IsExact(words)
       /\ Begin(From("typed"), <<Plain(Resolved(words[1].name))>> \o Tail(words)
                                 \o <<With("data-root", Here), Quiet>>)
  /\ UNCHANGED targets

\* The windows ask operator-query; a text is one word of the line.
AskText ==
  /\ stage = "idle"
  /\ \E text \in Texts : Begin(From("asked"),
       <<Plain("operator-query"), With("data-root", Here), Quiet, Flag("input"), text>>)
  /\ UNCHANGED targets

Unfilled == Plain("")
Ids(form) == {f.id : f \in ToSet(form.fields)}

\* The provider to configure and its source are chosen from lists; their
\* values, not their labels, are submitted.
Entries(form, id) ==
  CASE id = "secret_source" -> {Plain(s) : s \in SecretSources}
    [] form.command = "integration-set-provider" /\ id = "provider_name" ->
         {Plain("openai"), Plain("stub")}
    [] OTHER -> Texts \union {Unfilled}

\* build_action_form_submission_args: fields that are shown and filled in.
IsSubmitted(form, filled, f) ==
  /\ "secret_source" \in Ids(form) => filled["secret_source"].name \in f.shownFor
  /\ filled[f.id] # Unfilled

\* The words up to each of the fields.
WordsOf(form, filled) ==
  LET words[n \in 0..Len(form.fields)] ==
        IF n = 0 THEN <<Plain(form.command)>>
        ELSE LET f == form.fields[n] IN
             words[n - 1] \o IF IsSubmitted(form, filled, f)
                             THEN <<Flag(f.option), filled[f.id]>> ELSE <<>>
  IN  words

ArgumentsOf(form, filled) == WordsOf(form, filled)[Len(form.fields)]

\* Any two fields are filled in with anything or left empty.
SubmitForm ==
  /\ stage = "idle"
  /\ \E form \in Forms : \E i, j \in Ids(form) :
     \E a \in Entries(form, i), b \in Entries(form, j) :
       LET usual(id) == Plain(CASE id = "secret_source" -> "direct"
                                [] id = "provider_name" -> "openai" [] OTHER -> "x")
           filled == [id \in Ids(form) |-> IF id = i THEN a ELSE IF id = j THEN b ELSE usual(id)]
       IN  /\ Begin([kind |-> "form", form |-> form, filled |-> filled],
                    ArgumentsOf(form, filled) \o <<Quiet>>)
           /\ targets' = form.targets

\* execute_action_form_command: after the command, the artifact queries.
Refresh ==
  /\ stage = "over" /\ targets # <<>>
  /\ Begin(From("refresh"), <<Plain("artifact.query"), Flag("artifact-type"), Plain(Head(targets)),
                              Flag("limit"), Plain("5")>>)
  /\ targets' = Tail(targets)
-----------------------------------------------------------------------------
(* resolve_bootstrap_config, word by word *)

Word == line[at]
IsLast == at = Len(line)
Reading == stage = "reading" /\ at <= Len(line)

Refuse ==
  /\ stage' = "over" /\ ending' = "refused"
  /\ targets' = IF origin.kind = "form" THEN <<>> ELSE targets
  /\ UNCHANGED <<origin, line, at, command, given, parameters, root>>

Advance(words) ==
  /\ at' = at + words
  /\ UNCHANGED <<stage, origin, line, ending, targets>>

ReadName ==
  /\ Reading /\ Names(Word)
  /\ command' = Resolved(Word.name) /\ given' = TRUE
  /\ Advance(1) /\ UNCHANGED <<parameters, root>>

ReadSwitch ==
  /\ Reading /\ IsSwitch(Word)
  /\ Advance(1) /\ UNCHANGED <<command, given, parameters, root>>

\* A setting without a value takes the next word, whatever it is.
Set(text) ==
  /\ command' = IF Word.name = "command" THEN text ELSE command
  /\ given' = (given \/ Word.name = "command")
  /\ root' = IF Word.name = "data-root" THEN text ELSE root
  /\ UNCHANGED parameters

ReadSetting ==
  /\ Reading /\ IsSetting(Word)
  /\ IF Word.value # NoValue THEN Set(Word.value) /\ Advance(1)
     ELSE IF IsLast THEN Refuse
     ELSE Set(TextOf(line[at + 1])) /\ Advance(2)

\* Mutant of TakesNext: a command name is a value like any other.
TakesAnyNext == Word.value = NoValue /\ ~IsLast /\ ~line[at + 1].dashed

\* An option takes the next word, unless it is dashed or a command name (an
\* alias is taken).
TakesNext ==
  /\ Word.value = NoValue /\ ~IsLast
  /\ ~line[at + 1].dashed /\ line[at + 1].name \notin CommandNames

OptionValue ==
  IF Word.value # NoValue THEN Word.value ELSE IF TakesNext THEN line[at + 1].name ELSE One

\* The map assignment parameters[key] = text.
ParametersWith(key, text) ==
  [k \in DOMAIN parameters \union {key} |-> IF k = key THEN text ELSE parameters[k]]

ReadOption ==
  /\ Reading /\ IsOption(Word)
  /\ IF given /\ Word.name \in OptionsOf(command)
     THEN /\ parameters' = ParametersWith(KeyOf(Word.name), OptionValue)
          /\ Advance(IF TakesNext THEN 2 ELSE 1) /\ UNCHANGED <<command, given, root>>
     ELSE Refuse

ReadText ==
  /\ Reading /\ ~Word.dashed /\ ~Names(Word)
  /\ IF given THEN Refuse
     ELSE command' = Word.name /\ given' = TRUE /\ Advance(1) /\ UNCHANGED <<parameters, root>>

\* The end of the line, and run_application up to how the command ended; with
\* the parameter help the command only tells what it accepts.
Outcomes == IF "help" \in DOMAIN parameters /\ parameters["help"] = One
              THEN {"helped", "failed"} ELSE {"ok", "failed"}

Run ==
  /\ stage = "reading" /\ at > Len(line)
  /\ LET c == Resolved(command) IN
     IF c \notin CommandNames THEN Refuse
     ELSE \E e \in Outcomes :
       /\ stage' = "over" /\ command' = c /\ ending' = e
       /\ targets' = IF origin.kind = "form" /\ e = "failed" THEN <<>> ELSE targets
       /\ UNCHANGED <<origin, line, at, given, parameters, root>>

LineNext ==
  \/ GiveArguments \/ TypeExact \/ AskText \/ SubmitForm \/ Refresh
  \/ ReadName \/ ReadSwitch \/ ReadSetting \/ ReadOption \/ ReadText \/ Run

LineSpec == LineInit /\ [][LineNext]_lineVars
-----------------------------------------------------------------------------
(* Properties *)

IsOver == stage = "over"
Ran == IsOver /\ ending # "refused"

\* Plain texts that are no command name mean what their place says.
IsOrdinary(w) == ~w.dashed /\ w.name \notin CommandNames

\* The fields submitted, as the parameters they are for.
Submitted == {f \in ToSet(origin.form.fields) : IsSubmitted(origin.form, origin.filled, f)}
Arrived(f) == f.id \in DOMAIN parameters /\ parameters[f.id] = origin.filled[f.id].name

\* A form filled in with ordinary texts runs its own command, with each field
\* that was shown and filled in under its id and nothing else, however the
\* tables of forms, options and parameters are kept.  The attributes are the
\* one field that arrives under another name ("attributes-json"): the commands
\* look for attributes_json, and never find it.
FormIsObeyed ==
  IsOver /\ origin.kind = "form" /\ (\A f \in Submitted : IsOrdinary(origin.filled[f.id])) =>
    /\ ending # "refused" /\ command = origin.form.command
    /\ Cardinality(DOMAIN parameters) = Cardinality(Submitted)
    /\ \A f \in Submitted \ {Attributes} : Arrived(f)

\* A line typed at the console is judged by one reading and run by another:
\* if it runs, it runs the command it was judged as, on the console's data
\* root, unless a later word is a command's name, the setting --command, or a
\* setting without its value (which takes the next word from an option).
TypedIsObeyed ==
  Ran /\ origin.kind = "typed" =>
    \/ command = line[1].name /\ root = Here
    \/ \E w \in ToSet(Tail(line)) :
         IF w.dashed THEN IsSetting(w) /\ (w.name = "command" \/ w.value = NoValue)
         ELSE w.name \in CommandNames

\* A text asked through the windows is what operator-query is given, unless it
\* begins with dashes; a command's own name runs that command.
AskedIsObeyed ==
  Ran /\ origin.kind = "asked" /\ ~Last(line).dashed =>
    /\ root = Here
    /\ IF Last(line).name \in CommandNames THEN command = Last(line).name
       ELSE command = "operator-query" /\ parameters["input"] = Last(line).name

\* The queries that follow a form are never refused, and ask for artifacts
\* the query knows.
RefreshIsObeyed ==
  IsOver /\ origin.kind = "refresh" =>
    /\ ending # "refused" /\ command = "artifact.query"
    /\ DOMAIN parameters = {"artifact_type", "limit"} /\ parameters["artifact_type"] \in ArtifactTypes

\* The last command name of a line is the one that runs, wherever it stands,
\* unless the line names aliases or has settings.
LastNameRuns ==
  Ran /\ (\A w \in ToSet(line) : ~IsSetting(w) /\ (w.dashed \/ ~IsAlias(w.name))) =>
    \A i \in DOMAIN line :
      /\ ~line[i].dashed /\ line[i].name \in CommandNames
      /\ \A j \in i + 1..Len(line) : line[j].dashed \/ line[j].name \notin CommandNames
      => command = line[i].name

\* Whoever asks for a line, what runs is what was asked for.
LinesAreObeyed ==
  FormIsObeyed /\ TypedIsObeyed /\ AskedIsObeyed /\ RefreshIsObeyed /\ LastNameRuns
=============================================================================
