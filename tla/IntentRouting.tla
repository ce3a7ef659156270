----------------------------- MODULE IntentRouting -----------------------------
(***************************************************************************)
(* The intent router: what a language model's answer is read as            *)
(* (route_with_provider), what it is corrected or rejected to              *)
(* (normalize_intent_routing_result), and what the operator query then     *)
(* does with it.                                                           *)
(*                                                                         *)
(* An answer says whether it had any key=value line at all (structured),   *)
(* its mode, command and arguments, its confidence in tenths, and whether  *)
(* it asks for confirmation ("true" or "false"); the last two may be       *)
(* Garbled, words that are no number and no truth value.  Modes stand for  *)
(* classes of words: "proposed"; "failure" and the words read as it, the   *)
(* empty one included; "odd", any other.  A transport failure is an answer *)
(* that is structured and has no known key.  The texts meant for the user  *)
(* and the class of a failure are left out: they never decide what         *)
(* happens.                                                                *)
(***************************************************************************)
EXTENDS Integers, Sequences, SequencesExt

CONSTANTS
  Tokens,        \* the words of command lines
  Commands,      \* the command names
  HighRisk,      \* commands that always ask for confirmation
  SelfContained, \* commands that need no arguments of their own
  Required,      \* the flags a command requires
  Renamed,       \* what the names a model makes up are corrected to
  NoCommand

ASSUME RoutingAssumption ==
  /\ Commands \subseteq Tokens /\ HighRisk \subseteq Commands /\ SelfContained \subseteq Commands
  /\ DOMAIN Required = Commands
  /\ \A c \in Commands : Required[c] \subseteq Tokens \ Commands
  /\ NoCommand \notin Commands
  /\ \A n \in DOMAIN Renamed : n \notin Commands /\ Renamed[n] \in Commands

Garbled == [number |-> -1000, truth |-> "garbled"]
IsGarbled(a) == a.confidence = Garbled.number \/ a.confirm = Garbled.truth

IsAnswer(a) ==
  /\ a.structured \in BOOLEAN /\ a.mode \in {"proposed", "failure", "odd"}
  /\ a.args \in Seq(Tokens) /\ a.confidence \in Int
  /\ a.confirm \in {"true", "false", Garbled.truth}

Failure == [mode |-> "failure", command |-> NoCommand, args |-> <<>>,
            confidence |-> 0, confirm |-> FALSE]

Clamped(n) == IF n < 0 THEN 0 ELSE IF n > 10 THEN 10 ELSE n

\* route_with_provider.  A garbled confidence or confirmation clears the
\* command and ends the reading.
Read(a) ==
  IF ~a.structured THEN Failure
  ELSE IF IsGarbled(a)
  THEN [Failure EXCEPT !.mode = a.mode, !.args = a.args]
  ELSE [mode |-> a.mode, command |-> a.command, args |-> a.args,
        confidence |-> Clamped(a.confidence),
        confirm |-> a.confirm = "true" \/ a.command \in HighRisk]

Canonical(name) == IF name \in DOMAIN Renamed THEN Renamed[name] ELSE name

\* The arguments begin with the command's name.
WithCommandFirst(c, args) ==
  IF args = <<>> THEN (IF c \in SelfContained THEN <<c>> ELSE <<>>)
  ELSE IF Head(args) = c THEN args ELSE <<c>> \o args

HasRequiredFlags(c, args) == Required[c] \subseteq ToSet(args)

\* Mutant of Normalize: the confirmation of risky commands rests on Read, which
\* saw the name before it was corrected.
NormalizeTrustsRead(r) ==
  LET c == Canonical(r.command)
      args == WithCommandFirst(c, r.args) IN
  IF /\ r.mode = "proposed" /\ c \in Commands /\ args # <<>>
     /\ HasRequiredFlags(c, args) \/ r.confirm
  THEN [r EXCEPT !.command = c, !.args = args]
  ELSE Failure

\* normalize_intent_routing_result.  Commands to be confirmed may lack flags.
Normalize(r) ==
  LET c == Canonical(r.command)
      args == WithCommandFirst(c, r.args)
      confirm == r.confirm \/ c \in HighRisk IN
  IF /\ r.mode = "proposed" /\ c \in Commands /\ args # <<>>
     /\ HasRequiredFlags(c, args) \/ confirm
  THEN [r EXCEPT !.command = c, !.args = args, !.confirm = confirm]
  ELSE Failure

Route(a) == Normalize(Read(a))

\* resolve_operator_input: a route is rejected, deferred or executed.
Rejected(r) == r.mode # "proposed"
Deferred(r) == r.mode = "proposed" /\ (r.confirm \/ r.confidence < 9)
Executed(r) == r.mode = "proposed" /\ ~Deferred(r)

\* resolve_bootstrap_config: the last command name among the arguments is the
\* one that runs.  (Tokens leave out aliases and the flags whose value is taken
\* whatever it is: --command, --data-root and --timezone.)
Runs(c, args) ==
  \E i \in DOMAIN args :
    args[i] = c /\ \A j \in DOMAIN args : args[j] \in Commands => j <= i

-----------------------------------------------------------------------------
\* What an answer must be for its command to run without being confirmed.
IsGuarded(a) ==
  LET c == Canonical(a.command) IN
  /\ a.confidence >= 9 /\ a.confirm = "false"
  /\ c \in Commands \ HighRisk /\ HasRequiredFlags(c, a.args)
  /\ \A other \in Commands \ {c} : Runs(other, Route(a).args) => other \in ToSet(a.args)
=============================================================================
