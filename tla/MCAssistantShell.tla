-------------------------- MODULE MCAssistantShell --------------------------
(* A behavior is one of the shell (part = "shell") or one command line being *)
(* read (part = "line").  Two windows; one command of each sort; answers as  *)
(* the parser delivers them, from payloads that are right in all respects    *)
(* and from payloads wrong in one or two, and the answer of a request that   *)
(* failed.                                                                   *)
EXTENDS AssistantShell, ResponseParser, MCCommandLine, TLC

CONSTANTS w1, w2

MCWindows == {w1, w2}
MCSymmetry == Permutations(MCWindows)

MCCommands == {"list", "add", "remove"}
MCTokens == MCCommands \union {"--title", "magic", "wipe"}
MCRequired == [c \in MCCommands |-> IF c = "add" THEN {"--title"} ELSE {}]
MCRenamed == [n \in {"list_all", "drop"} |-> IF n = "drop" THEN "remove" ELSE "list"]
MCParserNames == [n \in {"list_all", "wipe"} |-> IF n = "wipe" THEN "remove" ELSE "list"]

Good(c, args) == [mode |-> "proposed", command |-> c, args |-> args, isArray |-> FALSE,
                  confidence |-> 9, confirm |-> "false", says |-> TRUE]

MCPayloads ==
  LET Whole == {Good("list", <<>>), Good("add", <<"--title">>), Good("remove", <<"remove">>),
                Good("drop", <<"remove">>), Good("list_all", <<>>)}
      Wanting == {Good("add", <<"add">>), Good("remove", <<>>), Good("magic", <<"magic">>),
                  Good(NoCommand, <<>>), Good("list", <<"list", "remove">>)}
      Arrays == {[Good(c, <<"wipe">>) EXCEPT !.isArray = b] : c \in {"wipe", "drop"}, b \in BOOLEAN}
      add == Good("add", <<"add", "--title">>)
      list == Good("list", <<>>) IN
  Whole \union Wanting \union Arrays \union
  {[add EXCEPT !.confidence = n] : n \in {-1, 8, 11, NoNumber, Garbled.number}} \union
  {[list EXCEPT !.confirm = b] : b \in {"absent", Garbled.truth}} \union
  {[add EXCEPT !.mode = m] : m \in {"failure", "synonym", "empty", "odd"}} \union
  {[Good(NoCommand, <<>>) EXCEPT !.mode = "empty", !.says = b] : b \in BOOLEAN} \union
  {[Good("add", <<"add">>) EXCEPT !.confirm = "true"]}

MCAnswers == {Delivered(p) : p \in MCPayloads}

VARIABLE part

MCInit == Init /\ LineInit /\ part \in {"shell", "line"}
MCNext ==
  /\ \/ part = "shell" /\ Next /\ UNCHANGED lineVars
     \/ part = "line" /\ LineNext /\ UNCHANGED vars
  /\ UNCHANGED part

MCSpec == MCInit /\ [][MCNext]_<<vars, lineVars, part>>
=============================================================================
