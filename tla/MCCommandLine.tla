---------------------------- MODULE MCCommandLine ----------------------------
(* Lines of up to four words: two commands, an alias, a text, options that   *)
(* one, both or none of them allow, with and without a value, and each sort  *)
(* of global option; texts of each sort in the fields of the forms.          *)
EXTENDS CommandLine

MCVocabulary ==
  {Plain(t) : t \in {"status", "procedural-run-audit", "run-audit", "x"}} \union
  {Flag(n) : n \in {"audit-run-id", "now", "help", "title", "quiet-startup", "data-root", "command"}} \union
  {With("now", "x"), With("timezone", "x"), With("command", "aliases")}

MCTexts == {Plain("x"), Plain("status"), Plain("backlog"), Flag("help"), With("title", "x")}
=============================================================================
