-------------------------- MODULE CommandLine_proofs --------------------------
(***************************************************************************)
(* Proofs about CommandLine: whoever asks for a line, what runs is what    *)
(* was asked for, for any vocabulary, any texts and lines of any length.   *)
(***************************************************************************)
EXTENDS CommandLine, FiniteSetTheorems, WellFoundedInduction, TLAPS

-----------------------------------------------------------------------------
(* The tables *)

\* What is an alias at all, and the one alias that is a command's name too.
AllAliases ==
  {"activities", "activity", "add-activity", "create", "create-activity", "backlog", "candidate",
   "generate-candidates", "candidates", "generate-proposals", "proposal", "interventions",
   "proposals", "record", "record-behavioral-state", "record-state", "state", "run-audit",
   "schedule-proposals", "status"}

LEMMA AliasesAreKnown ==
  ASSUME NEW c, NEW a \in AliasesOf(c)
  PROVE  a \in AllAliases /\ (a = "status" => c = "status")
BY DEF AliasesOf, AllAliases

LEMMA OneNameIsAnAlias ==
  ASSUME NEW a \in AllAliases, a \in CommandNames
  PROVE  a = "status"
BY DEF AllAliases, CommandNames

LEMMA NamesResolve ==
  ASSUME NEW c \in CommandNames
  PROVE  Resolved(c) = c
<1>1. CASE IsAlias(c)
  <2>1. \A d \in CommandNames : c \in AliasesOf(d) => d = c
    BY AliasesAreKnown, OneNameIsAnAlias
  <2>2. PICK d \in CommandNames : c \in AliasesOf(d)
    BY <1>1 DEF IsAlias
  <2>3. Resolved(c) = CHOOSE e \in CommandNames : c \in AliasesOf(e)
    BY <1>1 DEF Resolved
  <2> QED
    BY <2>1, <2>2, <2>3
<1>2. CASE ~IsAlias(c)
  BY <1>2 DEF Resolved
<1> QED
  BY <1>1, <1>2

LEMMA ResolvedIsName ==
  ASSUME NEW text, text \in CommandNames \/ IsAlias(text)
  PROVE  Resolved(text) \in CommandNames
BY NamesResolve DEF Resolved, IsAlias

\* The options of a form's fields are options of its command, none is a global
\* option, and each is stored under a key of its own: the field's id, save for
\* the attributes.
IsKept(form) ==
  /\ form.command \in CommandNames
  /\ \A i \in 1..Len(form.fields) :
       LET f == form.fields[i] IN
       /\ f.option \in OptionsOf(form.command)
       /\ f.option \notin Switches \union Settings
       /\ f # Attributes => KeyOf(f.option) = f.id
  /\ \A i, j \in 1..Len(form.fields) :
       KeyOf(form.fields[i].option) = KeyOf(form.fields[j].option) => i = j
  /\ Len(form.fields) \in Nat /\ DOMAIN form.fields = 1..Len(form.fields)

LEMMA FormsAreKept == \A form \in Forms : IsKept(form)
<1> SUFFICES ASSUME NEW form \in Forms PROVE IsKept(form)
  OBVIOUS
<1> DEFINE s == form.fields
<1> USE DEF Form, Field, SecretField, Now, Attributes, ProviderName
<1>1. CASE form.command = "procedural-upsert-activity"
  <2>1. /\ Len(s) = 10 /\ DOMAIN s = 1..10
        /\ s[1].id = "activity_inventory_item_id" /\ s[1].option = "activity-id"
        /\ s[2].id = "title" /\ s[2].option = "title"
        /\ s[3].id = "domain_source" /\ s[3].option = "domain-source"
        /\ s[4].id = "frequency" /\ s[4].option = "frequency"
        /\ s[5].id = "duration_minutes" /\ s[5].option = "duration-minutes"
        /\ s[6].id = "effort_estimate" /\ s[6].option = "effort-estimate"
        /\ s[7].id = "outcome_value" /\ s[7].option = "outcome-value"
        /\ s[8].id = "repeatable" /\ s[8].option = "repeatable"
        /\ s[9] = Attributes
        /\ s[10].id = "now" /\ s[10].option = "now"
    BY <1>1 DEF Forms
  <2>2. /\ KeyOf("activity-id") = "activity_inventory_item_id"
        /\ KeyOf("title") = "title"
        /\ KeyOf("domain-source") = "domain_source"
        /\ KeyOf("frequency") = "frequency"
        /\ KeyOf("duration-minutes") = "duration_minutes"
        /\ KeyOf("effort-estimate") = "effort_estimate"
        /\ KeyOf("outcome-value") = "outcome_value"
        /\ KeyOf("repeatable") = "repeatable"
        /\ KeyOf("attributes-json") = "attributes-json"
        /\ KeyOf("now") = "now"
    BY DEF KeyOf
  <2>3. \A i \in 1..Len(s) : /\ s[i].option \in OptionsOf(form.command)
                             /\ s[i].option \notin Switches \union Settings
    BY <1>1, <2>1 DEF OptionsOf, Switches, Settings
  <2>4. \A i \in 1..Len(s) : s[i] # Attributes => KeyOf(s[i].option) = s[i].id
    BY <2>1, <2>2
  <2>5. \A i, j \in 1..Len(s) : KeyOf(s[i].option) = KeyOf(s[j].option) => i = j
    BY <2>1, <2>2
  <2> QED
    BY <1>1, <2>1, <2>3, <2>4, <2>5 DEF IsKept, CommandNames
<1>2. CASE form.command = "behavioral-record-state"
  <2>1. /\ Len(s) = 10 /\ DOMAIN s = 1..10
        /\ s[1].id = "available_capacity" /\ s[1].option = "available-capacity"
        /\ s[2].id = "stress_level" /\ s[2].option = "stress-level"
        /\ s[3].id = "cognitive_load" /\ s[3].option = "cognitive-load"
        /\ s[4].id = "motivation" /\ s[4].option = "motivation-level"
        /\ s[5].id = "recovery_status" /\ s[5].option = "recovery-status"
        /\ s[6].id = "sleep_quality" /\ s[6].option = "sleep-quality"
        /\ s[7].id = "time_pressure" /\ s[7].option = "time-pressure"
        /\ s[8].id = "notes" /\ s[8].option = "notes"
        /\ s[9] = Attributes
        /\ s[10].id = "now" /\ s[10].option = "now"
    BY <1>2 DEF Forms
  <2>2. /\ KeyOf("available-capacity") = "available_capacity"
        /\ KeyOf("stress-level") = "stress_level"
        /\ KeyOf("cognitive-load") = "cognitive_load"
        /\ KeyOf("motivation-level") = "motivation"
        /\ KeyOf("recovery-status") = "recovery_status"
        /\ KeyOf("sleep-quality") = "sleep_quality"
        /\ KeyOf("time-pressure") = "time_pressure"
        /\ KeyOf("notes") = "notes"
        /\ KeyOf("attributes-json") = "attributes-json"
        /\ KeyOf("now") = "now"
    BY DEF KeyOf
  <2>3. \A i \in 1..Len(s) : /\ s[i].option \in OptionsOf(form.command)
                             /\ s[i].option \notin Switches \union Settings
    BY <1>2, <2>1 DEF OptionsOf, Switches, Settings
  <2>4. \A i \in 1..Len(s) : s[i] # Attributes => KeyOf(s[i].option) = s[i].id
    BY <2>1, <2>2
  <2>5. \A i, j \in 1..Len(s) : KeyOf(s[i].option) = KeyOf(s[j].option) => i = j
    BY <2>1, <2>2
  <2> QED
    BY <1>2, <2>1, <2>3, <2>4, <2>5 DEF IsKept, CommandNames
<1>3. CASE form.command = "procedural-run-audit"
  <2>1. /\ Len(s) = 2 /\ DOMAIN s = 1..2
        /\ s[1].id = "procedural_audit_run_id" /\ s[1].option = "audit-run-id"
        /\ s[2].id = "now" /\ s[2].option = "now"
    BY <1>3 DEF Forms
  <2>2. /\ KeyOf("audit-run-id") = "procedural_audit_run_id"
        /\ KeyOf("now") = "now"
    BY DEF KeyOf
  <2>3. \A i \in 1..Len(s) : /\ s[i].option \in OptionsOf(form.command)
                             /\ s[i].option \notin Switches \union Settings
    BY <1>3, <2>1 DEF OptionsOf, Switches, Settings
  <2>4. \A i \in 1..Len(s) : s[i] # Attributes => KeyOf(s[i].option) = s[i].id
    BY <2>1, <2>2
  <2>5. \A i, j \in 1..Len(s) : KeyOf(s[i].option) = KeyOf(s[j].option) => i = j
    BY <2>1, <2>2
  <2> QED
    BY <1>3, <2>1, <2>3, <2>4, <2>5 DEF IsKept, CommandNames
<1>4. CASE form.command = "integration-set-provider"
  <2>1. /\ Len(s) = 6 /\ DOMAIN s = 1..6
        /\ s[1].id = "provider_name" /\ s[1].option = "provider-name"
        /\ s[2].id = "model_name" /\ s[2].option = "model-name"
        /\ s[3].id = "secret_source" /\ s[3].option = "secret-source"
        /\ s[4].id = "api_key" /\ s[4].option = "api-key"
        /\ s[5].id = "env_var_name" /\ s[5].option = "env-var"
        /\ s[6].id = "existing_secret_reference" /\ s[6].option = "secret-ref"
    BY <1>4 DEF Forms
  <2>2. /\ KeyOf("provider-name") = "provider_name"
        /\ KeyOf("model-name") = "model_name"
        /\ KeyOf("secret-source") = "secret_source"
        /\ KeyOf("api-key") = "api_key"
        /\ KeyOf("env-var") = "env_var_name"
        /\ KeyOf("secret-ref") = "existing_secret_reference"
    BY DEF KeyOf
  <2>3. \A i \in 1..Len(s) : /\ s[i].option \in OptionsOf(form.command)
                             /\ s[i].option \notin Switches \union Settings
    BY <1>4, <2>1 DEF OptionsOf, Switches, Settings
  <2>4. \A i \in 1..Len(s) : s[i] # Attributes => KeyOf(s[i].option) = s[i].id
    BY <2>1, <2>2
  <2>5. \A i, j \in 1..Len(s) : KeyOf(s[i].option) = KeyOf(s[j].option) => i = j
    BY <2>1, <2>2
  <2> QED
    BY <1>4, <2>1, <2>3, <2>4, <2>5 DEF IsKept, CommandNames
<1>5. CASE form.command = "integration-test-provider"
  <2>1. /\ Len(s) = 1 /\ DOMAIN s = 1..1
        /\ s[1].id = "provider_name" /\ s[1].option = "provider-name"
    BY <1>5 DEF Forms
  <2>2. /\ KeyOf("provider-name") = "provider_name"
    BY DEF KeyOf
  <2>3. \A i \in 1..Len(s) : /\ s[i].option \in OptionsOf(form.command)
                             /\ s[i].option \notin Switches \union Settings
    BY <1>5, <2>1 DEF OptionsOf, Switches, Settings
  <2>4. \A i \in 1..Len(s) : s[i] # Attributes => KeyOf(s[i].option) = s[i].id
    BY <2>1, <2>2
  <2>5. \A i, j \in 1..Len(s) : KeyOf(s[i].option) = KeyOf(s[j].option) => i = j
    BY <2>1, <2>2
  <2> QED
    BY <1>5, <2>1, <2>3, <2>4, <2>5 DEF IsKept, CommandNames
<1>6. CASE form.command \in {"behavioral-reevaluate-backlog", "scheduling-generate-candidates",
                           "scheduling-generate-proposals"}
  <2>1. Len(s) = 1 /\ DOMAIN s = 1..1 /\ s[1].id = "now" /\ s[1].option = "now"
    BY <1>6 DEF Forms
  <2> QED
    BY <1>6, <2>1 DEF IsKept, CommandNames, OptionsOf, KeyOf, Switches, Settings
<1> QED
  BY <1>1, <1>2, <1>3, <1>4, <1>5, <1>6 DEF Forms
\* End of forms

LEMMA TargetsAreKnown == \A form \in Forms : form.targets \in Seq(ArtifactTypes)
<1> SUFFICES ASSUME NEW form \in Forms PROVE form.targets \in Seq(ArtifactTypes)
  OBVIOUS
<1> DEFINE A == ArtifactTypes
<1>1. form.targets \in
        {<<"activity_inventory">>, <<"behavioral_backlog", "behavioral_interventions">>,
         <<"procedural_proposals">>, <<"scheduling_candidates">>, <<"schedule_proposals">>,
         <<"behavioral_reevaluations", "behavioral_backlog", "behavioral_interventions">>,
         <<"provider_config_summary">>}
  BY DEF Forms, Form
<1>2. {"activity_inventory", "behavioral_backlog", "behavioral_interventions", "procedural_proposals",
       "scheduling_candidates", "schedule_proposals", "behavioral_reevaluations",
       "provider_config_summary"} \subseteq A
  BY DEF ArtifactTypes
<1> HIDE DEF A
<1>3. \A a, b, c \in A : <<a>> \in Seq(A) /\ <<a, b>> \in Seq(A) /\ <<a, b, c>> \in Seq(A)
  OBVIOUS
<1>4. /\ "activity_inventory" \in A /\ "behavioral_backlog" \in A /\ "behavioral_interventions" \in A
      /\ "procedural_proposals" \in A /\ "scheduling_candidates" \in A /\ "schedule_proposals" \in A
      /\ "behavioral_reevaluations" \in A /\ "provider_config_summary" \in A
  BY <1>2
<1>5. form.targets \in Seq(A)
  BY <1>1, <1>3, <1>4
<1> QED
  BY <1>5 DEF A

LEMMA ArtifactsAreNoCommands == ASSUME NEW t \in ArtifactTypes PROVE t \notin CommandNames
BY DEF ArtifactTypes, CommandNames

-----------------------------------------------------------------------------
(* The words of a form *)

LEMMA Induction ==
  ASSUME NEW T, 0 \in T, \A n \in Nat : n \in T => n + 1 \in T
  PROVE  \A n \in Nat : n \in T
<1>1. SUFFICES ASSUME NEW m \in Nat, m \notin T
               PROVE  FALSE
  OBVIOUS
<1> DEFINE U == {n \in Nat : n \notin T}
<1>2. U \in SUBSET Nat /\ U # {}
  BY <1>1
<1>3. PICK n \in U : \A i \in U : ~(<<i, n>> \in OpToRel(<, Nat))
  BY <1>2, NatLessThanWellFounded, WFMin
<1>4. n \in Nat /\ n \notin T /\ n # 0
  BY <1>3
<1>5. n - 1 \in Nat /\ n - 1 < n /\ n = (n - 1) + 1
  BY <1>4
<1>6. n - 1 \in T
  BY <1>3, <1>4, <1>5 DEF OpToRel
<1> QED
  BY <1>4, <1>5, <1>6

\* What a field adds to the words, and the words after the first n fields.
Piece(form, filled, n) ==
  LET f == form.fields[n] IN
  IF IsSubmitted(form, filled, f) THEN <<Flag(f.option), filled[f.id]>> ELSE <<>>

AreWords(words, form, filled, n) ==
  words = [k \in 0..n |-> IF k = 0 THEN <<Plain(form.command)>>
                          ELSE words[k - 1] \o Piece(form, filled, k)]

LEMMA MoreWords ==
  ASSUME NEW form, NEW filled, NEW n \in Nat, NEW f, AreWords(f, form, filled, n)
  PROVE  \E g : AreWords(g, form, filled, n + 1)
<1> DEFINE Z == <<Plain(form.command)>>
           P(k) == Piece(form, filled, k)
           g == [k \in 0..(n + 1) |-> IF k = n + 1 THEN f[n] \o P(n + 1) ELSE f[k]]
<1>1. f = [k \in 0..n |-> IF k = 0 THEN Z ELSE f[k - 1] \o P(k)]
  BY DEF AreWords
<1> HIDE DEF Z, P
<1>2. \A k \in 0..(n + 1) : g[k] = IF k = 0 THEN Z ELSE g[k - 1] \o P(k)
  <2> SUFFICES ASSUME NEW k \in 0..(n + 1)
               PROVE  g[k] = IF k = 0 THEN Z ELSE g[k - 1] \o P(k)
    OBVIOUS
  <2>1. CASE k = n + 1
    <3>1. k - 1 = n /\ k - 1 \in 0..(n + 1) /\ k - 1 # n + 1 /\ k # 0
      BY <2>1
    <3> QED
      BY <2>1, <3>1
  <2>2. CASE k # n + 1
    <3>1. k \in 0..n /\ (k # 0 => k - 1 \in 0..(n + 1) /\ k - 1 # n + 1)
      BY <2>2
    <3>2. f[k] = IF k = 0 THEN Z ELSE f[k - 1] \o P(k)
      BY <1>1, <3>1
    <3> QED
      BY <2>2, <3>1, <3>2
  <2> QED
    BY <2>1, <2>2
<1>3. g = [k \in 0..(n + 1) |-> IF k = 0 THEN Z ELSE g[k - 1] \o P(k)]
  BY <1>2
<1> QED
  BY <1>3 DEF AreWords, Z, P

LEMMA WordsAre ==
  ASSUME NEW form, NEW filled, Len(form.fields) \in Nat
  PROVE  AreWords(WordsOf(form, filled), form, filled, Len(form.fields))
<1> DEFINE T == {n \in Nat : \E f : AreWords(f, form, filled, n)}
<1>1. 0 \in T
  <2> DEFINE Z == <<Plain(form.command)>>
             f == [k \in 0..0 |-> Z]
  <2> HIDE DEF Z
  <2>1. f = [k \in 0..0 |-> IF k = 0 THEN Z ELSE f[k - 1] \o Piece(form, filled, k)]
    OBVIOUS
  <2>2. AreWords(f, form, filled, 0)
    BY <2>1 DEF AreWords, Z
  <2> QED
    BY <2>2
<1>2. \A n \in Nat : n \in T => n + 1 \in T
  BY MoreWords
<1> HIDE DEF T
<1>3. Len(form.fields) \in T
  BY <1>1, <1>2, Induction
<1>4. \E f : AreWords(f, form, filled, Len(form.fields))
  BY <1>3 DEF T
<1> QED
  BY <1>4 DEF WordsOf, AreWords, Piece

LEMMA WordsStep ==
  ASSUME NEW form, NEW filled, Len(form.fields) \in Nat
  PROVE  LET W == WordsOf(form, filled) IN
         /\ W[0] = <<Plain(form.command)>>
         /\ \A n \in 1..Len(form.fields) : W[n] = W[n - 1] \o Piece(form, filled, n)
<1> DEFINE W == WordsOf(form, filled)
           N == Len(form.fields)
           P(n) == Piece(form, filled, n)
           Z == <<Plain(form.command)>>
<1>1. W = [k \in 0..N |-> IF k = 0 THEN Z ELSE W[k - 1] \o P(k)]
  BY WordsAre DEF AreWords
<1> HIDE DEF W, P, Z
<1>2. W[0] = Z /\ \A n \in 1..N : W[n] = W[n - 1] \o P(n)
  BY <1>1
<1> QED
  BY <1>2 DEF W, P, Z

\* Sequences of which each continues the one before.
Grows(W, N, Words) ==
  /\ \A n \in 0..N : W[n] \in Seq(Words)
  /\ \A n \in 1..N : \E piece \in Seq(Words) : W[n] = W[n - 1] \o piece

\* Whatever comes after the first n fields leaves their words alone.
LEMMA WordsStay ==
  ASSUME NEW N \in Nat, NEW Words, NEW W, Grows(W, N, Words), NEW n \in 0..N
  PROVE  \A k \in n..N : /\ Len(W[n]) <= Len(W[k])
                         /\ \A p \in 1..Len(W[n]) : W[k][p] = W[n][p]
<1> DEFINE Stays(k) == /\ Len(W[n]) <= Len(W[k])
                       /\ \A p \in 1..Len(W[n]) : W[k][p] = W[n][p]
           T == {k \in Nat : k \in n..N => Stays(k)}
<1>1. Stays(n)
  OBVIOUS
<1>2. ASSUME NEW k \in n..N, k + 1 \in n..N, Stays(k) PROVE Stays(k + 1)
  <2>1. k + 1 \in 1..N /\ (k + 1) - 1 = k /\ W[k] \in Seq(Words) /\ W[n] \in Seq(Words)
    <3>1. k + 1 \in 1..N /\ (k + 1) - 1 = k /\ k \in 0..N
      BY <1>2
    <3> QED
      BY <3>1 DEF Grows
  <2>2. PICK piece \in Seq(Words) : W[k + 1] = W[k] \o piece
    BY <2>1 DEF Grows
  <2>3. /\ Len(W[k + 1]) = Len(W[k]) + Len(piece)
        /\ \A p \in 1..Len(W[k]) : W[k + 1][p] = W[k][p]
    BY <2>1, <2>2
  <2>4. Len(W[n]) \in Nat /\ Len(W[k]) \in Nat /\ Len(piece) \in Nat
    BY <2>1, <2>2
  <2>5. \A p \in 1..Len(W[n]) : p \in 1..Len(W[k])
    BY <1>2, <2>4
  <2> QED
    BY <1>2, <2>3, <2>4, <2>5
<1>3. 0 \in T
  BY <1>1
<1>4. ASSUME NEW k \in Nat, k \in T PROVE k + 1 \in T
  <2> SUFFICES ASSUME k + 1 \in n..N PROVE Stays(k + 1)
    OBVIOUS
  <2>1. k + 1 = n \/ k \in n..N
    OBVIOUS
  <2>2. k \in n..N => Stays(k)
    BY <1>4
  <2> HIDE DEF T, Stays
  <2> QED
    BY <1>1, <1>2, <2>1, <2>2
<1> HIDE DEF T, Stays
<1>5. \A k \in Nat : k \in T
  BY <1>3, <1>4, Induction
<1>6. \A k \in n..N : Stays(k)
  BY <1>5 DEF T
<1> QED
  BY <1>6 DEF Stays

\* After the words of the first n fields come those of the next one that is
\* submitted, if there is one.
LEMMA NextOne ==
  ASSUME NEW N \in Nat, NEW W, NEW sub, \A n \in 1..N : n \notin sub => W[n] = W[n - 1],
         NEW n \in 0..N
  PROVE  \/ W[N] = W[n] /\ \A i \in n+1..N : i \notin sub
         \/ \E m \in n+1..N : m \in sub /\ W[m - 1] = W[n] /\ \A i \in n+1..m-1 : i \notin sub
<1> DEFINE Found(k) == \E m \in n+1..k : m \in sub /\ W[m - 1] = W[n] /\ \A i \in n+1..m-1 : i \notin sub
           None(k) == W[k] = W[n] /\ \A i \in n+1..k : i \notin sub
           T == {k \in Nat : k \in n..N => None(k) \/ Found(k)}
<1>1. None(n)
  OBVIOUS
<1>2. ASSUME NEW k \in n..N, k + 1 \in n..N, None(k) \/ Found(k) PROVE None(k + 1) \/ Found(k + 1)
  <2>1. CASE Found(k)
    BY <2>1
  <2>2. CASE None(k) /\ k + 1 \in sub
    <3>1. k + 1 \in n+1..k+1 /\ (k + 1) - 1 = k
      OBVIOUS
    <3> QED
      BY <2>2, <3>1
  <2>3. CASE None(k) /\ k + 1 \notin sub
    <3>1. k + 1 \in 1..N /\ (k + 1) - 1 = k /\ n+1..k+1 = (n+1..k) \union {k + 1}
      BY <1>2
    <3> QED
      BY <2>3, <3>1
  <2> QED
    BY <1>2, <2>1, <2>2, <2>3
<1>3. 0 \in T
  BY <1>1
<1>4. ASSUME NEW k \in Nat, k \in T PROVE k + 1 \in T
  BY <1>1, <1>2, <1>4
<1> HIDE DEF T, Found, None
<1>5. N \in T
  BY <1>3, <1>4, Induction
<1>6. None(N) \/ Found(N)
  BY <1>5 DEF T
<1> QED
  BY <1>6 DEF Found, None

\* The fields submitted, by their place.
Sub(form, filled, n) == {i \in 1..n : IsSubmitted(form, filled, form.fields[i])}

\* What a form's line can be made of.
Sayable(form, filled) ==
  {Plain(form.command)} \union {Flag(form.fields[i].option) : i \in 1..Len(form.fields)}
    \union {filled[form.fields[i].id] : i \in 1..Len(form.fields)}

LEMMA WordsTyped ==
  ASSUME NEW form, NEW filled, Len(form.fields) \in Nat
  PROVE  LET W == WordsOf(form, filled)
             S == Sayable(form, filled) IN
         /\ \A n \in 0..Len(form.fields) : W[n] \in Seq(S) /\ Len(W[n]) >= 1
         /\ \A n \in 1..Len(form.fields) : Piece(form, filled, n) \in Seq(S)
<1> DEFINE W == WordsOf(form, filled)
           S == Sayable(form, filled)
           N == Len(form.fields)
           P(n) == Piece(form, filled, n)
           Z == <<Plain(form.command)>>
           Right(n) == W[n] \in Seq(S) /\ Len(W[n]) >= 1
           T == {n \in Nat : n \in 0..N => Right(n)}
<1>1. N \in Nat /\ W[0] = Z /\ \A n \in 1..N : W[n] = W[n - 1] \o P(n)
  BY WordsStep
<1>2. Z \in Seq(S) /\ Len(Z) = 1
  BY DEF Sayable
<1>3. \A n \in 1..N : P(n) \in Seq(S)
  <2> SUFFICES ASSUME NEW n \in 1..N PROVE P(n) \in Seq(S)
    OBVIOUS
  <2> DEFINE a == Flag(form.fields[n].option)
             b == filled[form.fields[n].id]
  <2>1. a \in S /\ b \in S
    BY DEF Sayable
  <2>2. P(n) = <<a, b>> \/ P(n) = <<>>
    BY DEF Piece
  <2> HIDE DEF S, P, a, b
  <2>3. <<a, b>> \in Seq(S) /\ <<>> \in Seq(S)
    BY <2>1
  <2> QED
    BY <2>2, <2>3
<1> HIDE DEF W, S, N, P, Z
<1>4. 0 \in T
  <2>1. Right(0)
    BY <1>1, <1>2
  <2> HIDE DEF Right
  <2> QED
    BY <2>1
<1>5. ASSUME NEW n \in Nat, n \in T PROVE n + 1 \in T
  <2> SUFFICES ASSUME n + 1 \in 0..N PROVE Right(n + 1)
    OBVIOUS
  <2>1. n \in 0..N /\ n + 1 \in 1..N /\ (n + 1) - 1 = n
    BY <1>1
  <2>2. W[n] \in Seq(S) /\ Len(W[n]) >= 1 /\ P(n + 1) \in Seq(S)
    BY <1>3, <1>5, <2>1
  <2>3. W[n + 1] = W[n] \o P(n + 1)
    BY <1>1, <2>1
  <2> DEFINE a == W[n]
             b == P(n + 1)
  <2>4. a \in Seq(S) /\ Len(a) >= 1 /\ b \in Seq(S) /\ W[n + 1] = a \o b
    BY <2>2, <2>3
  <2> HIDE DEF a, b
  <2>5. a \o b \in Seq(S) /\ Len(a \o b) >= 1
    BY <2>4
  <2> QED
    BY <2>4, <2>5
<1> HIDE DEF T
<1>6. \A n \in Nat : n \in T
  BY <1>4, <1>5, Induction
<1>7. \A n \in 0..N : Right(n)
  BY <1>1, <1>6 DEF T
<1> QED
  BY <1>3, <1>7 DEF W, S, N, P

LEMMA FieldsCounted ==
  ASSUME NEW form \in Forms
  PROVE  Len(form.fields) \in Nat /\ DOMAIN form.fields = 1..Len(form.fields)
BY FormsAreKept DEF IsKept

\* A form's line begins with its command ...
LEMMA FormLineStart ==
  ASSUME NEW form \in Forms, NEW filled
  PROVE  LET L == ArgumentsOf(form, filled) \o <<Quiet>> IN
         /\ L \in Seq(Sayable(form, filled) \union {Quiet}) /\ Len(L) >= 2
         /\ L[1] = Plain(form.command)
         /\ Len(WordsOf(form, filled)[0]) = 1
<1> DEFINE W == WordsOf(form, filled)
           N == Len(form.fields)
           S == Sayable(form, filled)
           q == Quiet
           c == Plain(form.command)
           A == W[N]
<1>1. N \in Nat /\ 0 \in 0..N /\ N \in 0..N
  BY FieldsCounted
<1>2. \A n \in 0..N : W[n] \in Seq(S) /\ Len(W[n]) >= 1
  BY <1>1, WordsTyped
<1>3. W[0] = <<c>> /\ Len(W[0]) = 1
  <2>1. W[0] = <<c>>
    BY <1>1, WordsStep
  <2> HIDE DEF W
  <2> QED
    BY <2>1
<1>4. \A n \in 1..N : \E piece \in Seq(S) : W[n] = W[n - 1] \o piece
  BY <1>1, WordsTyped, WordsStep
<1>5. ArgumentsOf(form, filled) = A
  BY DEF ArgumentsOf
<1> HIDE DEF W, N, S, q, c
<1>6. A[1] = c
  <2>1. Grows(W, N, S)
    BY <1>2, <1>4 DEF Grows
  <2>2. \A k \in 0..N : \A p \in 1..Len(W[0]) : W[k][p] = W[0][p]
    BY <1>1, <2>1, WordsStay
  <2>3. 1 \in 1..Len(W[0]) /\ W[0][1] = c
    BY <1>3
  <2> QED
    BY <1>1, <2>2, <2>3
<1>7. A \in Seq(S) /\ Len(A) >= 1
  BY <1>1, <1>2
<1> HIDE DEF A
<1>8. A \in Seq(S \union {q}) /\ <<q>> \in Seq(S \union {q}) /\ Len(A) \in Nat
  BY <1>7
<1>9. /\ A \o <<q>> \in Seq(S \union {q}) /\ Len(A \o <<q>>) >= 2
      /\ (A \o <<q>>)[1] = A[1]
  BY <1>7, <1>8
<1> QED
  BY <1>3, <1>5, <1>6, <1>9 DEF W, S, q, c

\* ... and after the words of the first fields it has those of the next one
\* submitted, or the last word.
NextWords(form, filled, words, n, next) ==
  \/ /\ next = Len(words) /\ words[next] = Quiet
     /\ Sub(form, filled, Len(form.fields)) = Sub(form, filled, n)
  \/ \E m \in 1..Len(form.fields) :
       /\ IsSubmitted(form, filled, form.fields[m])
       /\ Sub(form, filled, m) = Sub(form, filled, n) \union {m}
       /\ Len(WordsOf(form, filled)[m]) = next + 1 /\ next + 1 < Len(words)
       /\ words[next] = Flag(form.fields[m].option)
       /\ words[next + 1] = filled[form.fields[m].id]

LEMMA FormLine ==
  ASSUME NEW form \in Forms, NEW filled, NEW n \in 0..Len(form.fields)
  PROVE  LET next == Len(WordsOf(form, filled)[n]) + 1 IN
         next \in Nat /\ NextWords(form, filled, ArgumentsOf(form, filled) \o <<Quiet>>, n, next)
<1> DEFINE W == WordsOf(form, filled)
           N == Len(form.fields)
           S == Sayable(form, filled)
           P(k) == Piece(form, filled, k)
           sub(k) == Sub(form, filled, k)
           submitted(k) == IsSubmitted(form, filled, form.fields[k])
           q == Quiet
           A == W[N]
           L == A \o <<q>>
           next == Len(W[n]) + 1
           flag(m) == Flag(form.fields[m].option)
           value(m) == filled[form.fields[m].id]
<1>1. N \in Nat /\ N \in 0..N
  BY FieldsCounted
<1>2. \A k \in 0..N : W[k] \in Seq(S) /\ Len(W[k]) >= 1
  BY <1>1, WordsTyped
<1>3. \A k \in 1..N : W[k] = W[k - 1] \o P(k) /\ P(k) \in Seq(S)
  BY <1>1, WordsStep, WordsTyped
<1>4. \A k \in 1..N : P(k) = IF submitted(k) THEN <<flag(k), value(k)>> ELSE <<>>
  BY DEF Piece
<1>5. ArgumentsOf(form, filled) = A
  BY DEF ArgumentsOf
<1>6. \A k \in 0..N : sub(k) = {i \in 1..k : submitted(i)}
  BY DEF Sub
<1> HIDE DEF W, N, S, P, sub, submitted, q, flag, value
<1>7. \A k \in 1..N : k - 1 \in 0..N
  BY <1>1
<1>8. \A k \in 1..N : k \notin sub(N) => W[k] = W[k - 1]
  <2> SUFFICES ASSUME NEW k \in 1..N, k \notin sub(N) PROVE W[k] = W[k - 1]
    OBVIOUS
  <2>1. ~submitted(k)
    BY <1>1, <1>6
  <2>2. W[k] = W[k - 1] \o <<>>
    BY <2>1, <1>3, <1>4
  <2>3. W[k - 1] \in Seq(S)
    BY <1>2, <1>7
  <2> QED
    BY <2>2, <2>3
<1>9. \/ W[N] = W[n] /\ \A i \in n+1..N : i \notin sub(N)
      \/ \E m \in n+1..N : m \in sub(N) /\ W[m - 1] = W[n] /\ \A i \in n+1..m-1 : i \notin sub(N)
  <2>1. n \in 0..N
    BY DEF N
  <2> HIDE DEF A, L, next
  <2> DEFINE all == sub(N)
  <2>2. \A k \in 1..N : k \notin all => W[k] = W[k - 1]
    BY <1>8
  <2> HIDE DEF all
  <2>3. \/ W[N] = W[n] /\ \A i \in n+1..N : i \notin all
        \/ \E m \in n+1..N : m \in all /\ W[m - 1] = W[n] /\ \A i \in n+1..m-1 : i \notin all
    BY <1>1, <2>1, <2>2, NextOne
  <2> QED
    BY <2>3 DEF all
<1>10. n \in 0..N
  BY DEF N
<1>11. /\ A \in Seq(S) /\ Len(A) \in Nat /\ Len(L) = Len(A) + 1 /\ L[Len(A) + 1] = q
       /\ \A p \in 1..Len(A) : L[p] = A[p]
  <2>1. A \in Seq(S)
    BY <1>1, <1>2
  <2> HIDE DEF A
  <2> QED
    BY <2>1
<1>12. next \in Nat
  BY <1>2, <1>10
<1>13. CASE W[N] = W[n] /\ \A i \in n+1..N : i \notin sub(N)
  <2>1. next = Len(L) /\ L[next] = q
    BY <1>11, <1>13
  <2>2. sub(N) = sub(n)
    <3>1. sub(N) = {i \in 1..N : submitted(i)} /\ sub(n) = {i \in 1..n : submitted(i)}
      BY <1>1, <1>6, <1>10
    <3>2. \A i \in 1..N : i \in 1..n \/ i \in n+1..N
      BY <1>1, <1>10
    <3>3. 1..n \subseteq 1..N
      BY <1>1, <1>10
    <3> QED
      BY <1>13, <3>1, <3>2, <3>3
  <2> QED
    BY <1>5, <1>12, <2>1, <2>2 DEF NextWords, W, N, sub, q
<1>14. ASSUME NEW m \in n+1..N, m \in sub(N), W[m - 1] = W[n], \A i \in n+1..m-1 : i \notin sub(N)
       PROVE  /\ submitted(m) /\ sub(m) = sub(n) \union {m}
              /\ Len(W[m]) = next + 1 /\ next + 1 < Len(L)
              /\ L[next] = flag(m) /\ L[next + 1] = value(m)
  <2>1. submitted(m) /\ m \in 1..N /\ m \in 0..N
    BY <1>1, <1>6, <1>10, <1>14
  <2>2. sub(m) = sub(n) \union {m}
    BY <1>1, <1>6, <1>10, <1>14, <2>1
  <2> DEFINE B == W[n]
             a == flag(m)
             b == value(m)
  <2>3. W[m] = B \o <<a, b>>
    BY <1>3, <1>4, <1>14, <2>1
  <2>4. B \in Seq(S) /\ <<a, b>> \in Seq(S)
    BY <1>2, <1>3, <1>4, <1>10, <2>1
  <2>5. next = Len(B) + 1
    OBVIOUS
  <2> HIDE DEF B, a, b, next
  <2>6. /\ Len(W[m]) = Len(B) + 2 /\ Len(B) \in Nat
        /\ W[m][Len(B) + 1] = a /\ W[m][Len(B) + 2] = b
    BY <2>3, <2>4
  <2>7. Len(W[m]) <= Len(A) /\ \A p \in 1..Len(W[m]) : A[p] = W[m][p]
    <3>1. Grows(W, N, S)
      BY <1>2, <1>3 DEF Grows
    <3> HIDE DEF A
    <3>2. \A k \in m..N : /\ Len(W[m]) <= Len(W[k])
                          /\ \A p \in 1..Len(W[m]) : W[k][p] = W[m][p]
      BY <1>1, <2>1, <3>1, WordsStay
    <3>3. N \in m..N
      BY <1>1, <2>1
    <3> QED
      BY <3>2, <3>3 DEF A
  <2>8. /\ next + 1 < Len(L) /\ Len(W[m]) = next + 1
        /\ next \in 1..Len(W[m]) /\ next + 1 \in 1..Len(W[m])
        /\ next \in 1..Len(A) /\ next + 1 \in 1..Len(A)
    BY <1>11, <2>5, <2>6, <2>7
  <2>9. L[next] = a /\ L[next + 1] = b
    BY <1>11, <2>5, <2>6, <2>7, <2>8
  <2> QED
    BY <2>1, <2>2, <2>8, <2>9 DEF a, b
<1>15. CASE \E m \in n+1..N : m \in sub(N) /\ W[m - 1] = W[n] /\ \A i \in n+1..m-1 : i \notin sub(N)
  <2>1. PICK m \in n+1..N : m \in sub(N) /\ W[m - 1] = W[n] /\ \A i \in n+1..m-1 : i \notin sub(N)
    BY <1>15
  <2>2. /\ submitted(m) /\ sub(m) = sub(n) \union {m}
        /\ Len(W[m]) = next + 1 /\ next + 1 < Len(L)
        /\ L[next] = flag(m) /\ L[next + 1] = value(m)
    BY <1>14, <2>1
  <2>3. m \in 1..N
    BY <1>1, <1>10, <2>1
  <2> QED
    BY <1>5, <1>12, <2>2, <2>3 DEF NextWords, W, N, sub, q, submitted, flag, value
<1> QED
  BY <1>9, <1>13, <1>15

-----------------------------------------------------------------------------
(* Words and steps *)

LEMMA PlainFacts ==
  ASSUME NEW t
  PROVE  /\ ~Plain(t).dashed /\ Plain(t).name = t
         /\ ~IsSwitch(Plain(t)) /\ ~IsSetting(Plain(t)) /\ ~IsOption(Plain(t))
<1>1. ~Plain(t).dashed /\ Plain(t).name = t
  BY Zenon DEF Plain
<1> QED
  BY <1>1 DEF IsSwitch, IsSetting, IsOption

LEMMA FlagFacts ==
  ASSUME NEW n
  PROVE  Flag(n).dashed /\ Flag(n).name = n /\ Flag(n).value = NoValue
BY Zenon DEF Flag

LEMMA WithFacts ==
  ASSUME NEW n, NEW v
  PROVE  With(n, v).dashed /\ With(n, v).name = n /\ With(n, v).value = v
BY Zenon DEF With

LEMMA QuietIsSwitch == IsSwitch(Quiet) /\ Quiet.dashed /\ Quiet.name = "quiet-startup"
BY FlagFacts DEF Quiet, IsSwitch, Switches

LEMMA SwitchesAreNoSettings ==
  ASSUME NEW w, IsSwitch(w)
  PROVE  w.dashed /\ ~IsSetting(w) /\ ~IsOption(w)
BY DEF IsSwitch, IsSetting, IsOption, Switches, Settings

ReadStep == ReadName \/ ReadSwitch \/ ReadSetting \/ ReadOption \/ ReadText \/ Run
Kept == UNCHANGED <<origin, line>>
ReadsOn == stage' = "reading" /\ Kept
Refused == stage' = "over" /\ ending' = "refused" /\ Kept

\* What the step is, by the word it is at.
LEMMA NameStep ==
  ASSUME ReadStep, at <= Len(line), at \in Nat, Len(line) \in Nat, Names(Word)
  PROVE  /\ ReadsOn /\ at' = at + 1 /\ command' = Resolved(Word.name) /\ given'
         /\ UNCHANGED <<parameters, root>>
BY DEF ReadStep, ReadName, ReadSwitch, ReadSetting, ReadOption, ReadText, Run, Names, IsSwitch,
       IsSetting, IsOption, Reading, Advance, ReadsOn, Kept

LEMMA SwitchStep ==
  ASSUME ReadStep, at <= Len(line), at \in Nat, Len(line) \in Nat, IsSwitch(Word)
  PROVE  ReadsOn /\ at' = at + 1 /\ UNCHANGED <<command, given, parameters, root>>
BY SwitchesAreNoSettings DEF ReadStep, ReadName, ReadSwitch, ReadSetting, ReadOption, ReadText,
       Run, Names, Reading, Advance, ReadsOn, Kept

LEMMA SettingStep ==
  ASSUME ReadStep, at <= Len(line), at \in Nat, Len(line) \in Nat, IsSetting(Word)
  PROVE  \/ Refused /\ Word.value = NoValue
         \/ /\ ReadsOn /\ UNCHANGED parameters
            /\ Word.name # "command" => UNCHANGED command
            /\ given => given'
            /\ \/ /\ Word.value # NoValue /\ at' = at + 1
                  /\ root' = IF Word.name = "data-root" THEN Word.value ELSE root
               \/ Word.value = NoValue /\ at' = at + 2
<1>1. ReadSetting
  BY SwitchesAreNoSettings DEF ReadStep, ReadName, ReadSwitch, ReadOption, ReadText, Run, Names,
         Reading, IsOption, IsSetting
<1> DEFINE w == Word
           next == TextOf(line[at + 1])
<1>2. \/ w.value # NoValue /\ Set(w.value) /\ Advance(1)
      \/ w.value = NoValue /\ Refuse
      \/ w.value = NoValue /\ Set(next) /\ Advance(2)
  BY <1>1, Zenon DEF ReadSetting
<1>3. \A words : Advance(words) => ReadsOn /\ at' = at + words
  BY <1>1 DEF ReadSetting, Reading, Advance, ReadsOn, Kept
<1>4. ASSUME NEW text, Set(text)
      PROVE  /\ UNCHANGED parameters /\ root' = IF w.name = "data-root" THEN text ELSE root
             /\ given => given'
             /\ w.name # "command" => UNCHANGED command
  <2>1. UNCHANGED parameters /\ root' = IF w.name = "data-root" THEN text ELSE root
    BY <1>4, Zenon DEF Set
  <2>2. given => given'
    BY <1>4, Zenon DEF Set
  <2>3. w.name # "command" => UNCHANGED command
    BY <1>4, Zenon DEF Set
  <2> QED
    BY <2>1, <2>2, <2>3
<1>5. Refuse => Refused
  BY DEF Refuse, Refused, Kept
<1> HIDE DEF w, next
<1> QED
  BY <1>2, <1>3, <1>4, <1>5 DEF w

LEMMA OptionStep ==
  ASSUME ReadStep, at <= Len(line), at \in Nat, Len(line) \in Nat, IsOption(Word)
  PROVE  \/ Refused /\ ~(given /\ Word.name \in OptionsOf(command))
         \/ /\ given /\ Word.name \in OptionsOf(command)
            /\ ReadsOn /\ UNCHANGED <<command, given, root>>
            /\ at' = at + (IF TakesNext THEN 2 ELSE 1)
            /\ parameters' = ParametersWith(KeyOf(Word.name), OptionValue)
BY SwitchesAreNoSettings DEF ReadStep, ReadName, ReadSwitch, ReadSetting, ReadOption, ReadText,
       Run, Names, Reading, Advance, Refuse, IsOption, ReadsOn, Kept, Refused

LEMMA TextStep ==
  ASSUME ReadStep, at <= Len(line), at \in Nat, Len(line) \in Nat, ~Word.dashed, ~Names(Word)
  PROVE  \/ Refused /\ given
         \/ /\ ~given /\ ReadsOn /\ at' = at + 1 /\ command' = Word.name /\ given'
            /\ UNCHANGED <<parameters, root>>
BY DEF ReadStep, ReadName, ReadSwitch, ReadSetting, ReadOption, ReadText, Run, IsSwitch,
       IsSetting, IsOption, Reading, Advance, Refuse, ReadsOn, Kept, Refused

LEMMA EndStep ==
  ASSUME ReadStep, at > Len(line), at \in Nat, Len(line) \in Nat
  PROVE  \/ Refused /\ Resolved(command) \notin CommandNames
         \/ /\ stage' = "over" /\ ending' # "refused" /\ Kept
            /\ command' = Resolved(command) /\ Resolved(command) \in CommandNames
            /\ UNCHANGED <<parameters, root>>
BY DEF ReadStep, ReadName, ReadSwitch, ReadSetting, ReadOption, ReadText, Run, Reading, Refuse,
       Outcomes, Kept, Refused

LEMMA EveryWord ==
  ASSUME NEW w
  PROVE  Names(w) \/ IsSwitch(w) \/ IsSetting(w) \/ IsOption(w) \/ (~w.dashed /\ ~Names(w))
BY DEF Names, IsOption

-----------------------------------------------------------------------------
(* Texts asked through the windows *)

AskedLine(text) ==
  <<Plain("operator-query"), With("data-root", Here), Quiet, Flag("input"), text>>

\* What the text is to become.
AskedEnd(text) ==
  IF text.name \in CommandNames THEN command = text.name
  ELSE command = "operator-query" /\ parameters["input"] = text.name

\* How far the line has been read: the text is a command's name or a value.
AskedRead(text) ==
  /\ at \in 1..6
  /\ at \in 2..5 => command = "operator-query"
  /\ at >= 3 => root = Here
  /\ at = 5 => text.name \in CommandNames
  /\ at = 6 => AskedEnd(text)

LEMMA AskedKept ==
  ASSUME ReadStep, NEW text, ~text.dashed, line = AskedLine(text), AskedRead(text)
  PROVE  \/ Refused
         \/ ReadsOn /\ AskedRead(text)'
         \/ stage' = "over" /\ Kept /\ root' = Here /\ AskedEnd(text)'
<1>1. /\ Len(line) = 5 /\ line[1] = Plain("operator-query") /\ line[2] = With("data-root", Here)
      /\ line[3] = Quiet /\ line[4] = Flag("input") /\ line[5] = text
  BY DEF AskedLine
<1>2. "operator-query" \in CommandNames
  BY DEF CommandNames
<1>3. at \in 1..6 /\ at \in Nat /\ Len(line) \in Nat
  BY <1>1 DEF AskedRead
<1>4. CASE at = 1
  <2>1. Names(Word) /\ Word.name = "operator-query"
    BY <1>1, <1>2, <1>4, PlainFacts DEF Word, Names
  <2>2. ReadsOn /\ at' = 2 /\ command' = "operator-query"
    BY <1>1, <1>2, <1>3, <1>4, <2>1, NameStep, NamesResolve
  <2> QED
    BY <2>2 DEF AskedRead
<1>5. CASE at = 2
  <2>1. IsSetting(Word) /\ Word.name = "data-root" /\ Word.value = Here /\ Word.value # NoValue
    <3>1. Word.dashed /\ Word.name = "data-root" /\ Word.value = Here
      BY <1>1, <1>5, WithFacts DEF Word
    <3> QED
      BY <3>1 DEF IsSetting, Settings, Here, NoValue
  <2>2. ReadsOn /\ at' = 3 /\ command' = command /\ root' = Here
    BY <1>1, <1>3, <1>5, <2>1, SettingStep
  <2> QED
    BY <1>5, <2>2 DEF AskedRead
<1>6. CASE at = 3
  <2>1. ReadsOn /\ at' = 4 /\ UNCHANGED <<command, root>>
    BY <1>1, <1>3, <1>6, SwitchStep, QuietIsSwitch DEF Word
  <2> QED
    BY <1>6, <2>1 DEF AskedRead
<1>7. CASE at = 4
  <2>1. Word.dashed /\ Word.name = "input" /\ Word.value = NoValue
    BY <1>1, <1>7, FlagFacts DEF Word
  <2>2. IsOption(Word)
    BY <2>1 DEF IsOption, IsSwitch, IsSetting, Switches, Settings
  <2>3. TakesNext <=> text.name \notin CommandNames
    BY <1>1, <1>7, <2>1 DEF TakesNext, IsLast
  <2>4. command = "operator-query" /\ root = Here
    BY <1>7 DEF AskedRead
  <2>5. \/ Refused
        \/ /\ ReadsOn /\ UNCHANGED <<command, root>>
           /\ at' = at + (IF TakesNext THEN 2 ELSE 1)
           /\ parameters' = ParametersWith(KeyOf(Word.name), OptionValue)
    BY <1>1, <1>3, <1>7, <2>2, OptionStep
  <2>6. CASE text.name \in CommandNames /\ ReadsOn /\ UNCHANGED <<command, root>> /\ at' = 5
    BY <2>4, <2>6 DEF AskedRead
  <2>7. CASE /\ text.name \notin CommandNames /\ ReadsOn /\ UNCHANGED <<command, root>> /\ at' = 6
             /\ parameters' = ParametersWith(KeyOf(Word.name), OptionValue)
    <3>1. OptionValue = text.name
      BY <1>1, <1>7, <2>1, <2>3, <2>7 DEF OptionValue
    <3>2. KeyOf(Word.name) = "input"
      BY <2>1 DEF KeyOf
    <3>3. parameters'["input"] = text.name
      BY <2>7, <3>1, <3>2 DEF ParametersWith
    <3> QED
      BY <2>4, <2>7, <3>3 DEF AskedRead, AskedEnd
  <2> QED
    BY <1>7, <2>3, <2>5, <2>6, <2>7
<1>8. CASE at = 5
  <2>1. text.name \in CommandNames /\ root = Here
    BY <1>8 DEF AskedRead
  <2>2. Names(Word) /\ Word.name = text.name
    BY <1>1, <1>8, <2>1 DEF Word, Names
  <2>3. ReadsOn /\ at' = 6 /\ command' = text.name /\ root' = root
    BY <1>1, <1>3, <1>8, <2>1, <2>2, NameStep, NamesResolve
  <2> QED
    BY <2>1, <2>3 DEF AskedRead, AskedEnd
<1>9. CASE at = 6
  <2>1. root = Here /\ AskedEnd(text)
    BY <1>9 DEF AskedRead
  <2>2. \/ Refused
        \/ /\ stage' = "over" /\ Kept /\ command' = Resolved(command)
           /\ UNCHANGED <<parameters, root>>
    BY <1>1, <1>3, <1>9, EndStep
  <2>3. Resolved(command) = command
    BY <1>2, <2>1, NamesResolve DEF AskedEnd
  <2> QED
    BY <2>1, <2>2, <2>3 DEF AskedEnd
<1> QED
  BY <1>3, <1>4, <1>5, <1>6, <1>7, <1>8, <1>9

-----------------------------------------------------------------------------
(* The queries that follow a form *)

RefreshLine(type) ==
  <<Plain("artifact.query"), Flag("artifact-type"), Plain(type), Flag("limit"), Plain("5")>>

RefreshEnd == /\ command = "artifact.query"
              /\ DOMAIN parameters = {"artifact_type", "limit"}
              /\ parameters["artifact_type"] \in ArtifactTypes

RefreshRead ==
  /\ at \in {1, 2, 4, 6}
  /\ at = 1 => parameters = <<>>
  /\ at = 2 => parameters = <<>> /\ given /\ command = "artifact.query"
  /\ at = 4 => /\ given /\ command = "artifact.query"
               /\ DOMAIN parameters = {"artifact_type"}
               /\ parameters["artifact_type"] \in ArtifactTypes
  /\ at = 6 => RefreshEnd

LEMMA RefreshKept ==
  ASSUME ReadStep, NEW type \in ArtifactTypes, line = RefreshLine(type), RefreshRead
  PROVE  \/ ReadsOn /\ RefreshRead'
         \/ stage' = "over" /\ ending' # "refused" /\ Kept /\ RefreshEnd'
<1>1. /\ Len(line) = 5 /\ line[1] = Plain("artifact.query") /\ line[2] = Flag("artifact-type")
      /\ line[3] = Plain(type) /\ line[4] = Flag("limit") /\ line[5] = Plain("5")
  BY DEF RefreshLine
<1>2. "artifact.query" \in CommandNames /\ "5" \notin CommandNames /\ type \notin CommandNames
  BY ArtifactsAreNoCommands DEF CommandNames
<1>3. at \in {1, 2, 4, 6} /\ at \in Nat /\ Len(line) \in Nat
  BY <1>1 DEF RefreshRead
<1>4. "artifact-type" \in OptionsOf("artifact.query") /\ "limit" \in OptionsOf("artifact.query")
  BY DEF OptionsOf
<1>5. KeyOf("artifact-type") = "artifact_type" /\ KeyOf("limit") = "limit"
  BY DEF KeyOf
<1>6. CASE at = 1
  <2>1. Names(Word) /\ Word.name = "artifact.query"
    BY <1>1, <1>2, <1>6, PlainFacts DEF Word, Names
  <2>2. /\ ReadsOn /\ at' = 2 /\ command' = "artifact.query" /\ given'
        /\ parameters' = parameters
    BY <1>1, <1>2, <1>3, <1>6, <2>1, NameStep, NamesResolve
  <2> QED
    BY <1>6, <2>2 DEF RefreshRead
\* An option with its value.
<1>7. ASSUME NEW option \in {"artifact-type", "limit"}, NEW text, at \in {2, 4},
             line[at] = Flag(option), line[at + 1] = Plain(text), text \notin CommandNames
      PROVE  /\ ReadsOn /\ UNCHANGED <<command, given>> /\ at' = at + 2
             /\ parameters' = ParametersWith(KeyOf(option), text)
  <2>1. Word.dashed /\ Word.name = option /\ Word.value = NoValue
    BY <1>7, FlagFacts DEF Word
  <2>2. IsOption(Word)
    BY <1>7, <2>1 DEF IsOption, IsSwitch, IsSetting, Switches, Settings
  <2>3. TakesNext
    BY <1>1, <1>7, <2>1, PlainFacts DEF TakesNext, IsLast
  <2>4. OptionValue = text
    BY <1>7, <2>1, <2>3, PlainFacts DEF OptionValue
  <2>5. given /\ Word.name \in OptionsOf(command)
    BY <1>4, <1>7, <2>1 DEF RefreshRead
  <2>6. /\ ReadsOn /\ UNCHANGED <<command, given, root>>
        /\ at' = at + (IF TakesNext THEN 2 ELSE 1)
        /\ parameters' = ParametersWith(KeyOf(Word.name), OptionValue)
    <3>1. at <= Len(line) /\ at \in Nat /\ Len(line) \in Nat
      BY <1>1, <1>7
    <3> QED
      BY <2>2, <2>5, <3>1, OptionStep
  <2> QED
    BY <2>1, <2>3, <2>4, <2>6
<1>8. CASE at = 2
  <2>1. /\ ReadsOn /\ UNCHANGED <<command, given>> /\ at' = 4
        /\ parameters' = ParametersWith("artifact_type", type)
    BY <1>1, <1>2, <1>5, <1>7, <1>8
  <2>2. parameters = <<>> /\ given /\ command = "artifact.query"
    BY <1>8 DEF RefreshRead
  <2>3. DOMAIN parameters' = {"artifact_type"} /\ parameters'["artifact_type"] = type
    BY <2>1, <2>2 DEF ParametersWith
  <2> QED
    BY <2>1, <2>2, <2>3 DEF RefreshRead
<1>9. CASE at = 4
  <2>1. /\ ReadsOn /\ UNCHANGED <<command, given>> /\ at' = 6
        /\ parameters' = ParametersWith("limit", "5")
    BY <1>1, <1>2, <1>5, <1>7, <1>9
  <2>2. /\ command = "artifact.query" /\ DOMAIN parameters = {"artifact_type"}
        /\ parameters["artifact_type"] \in ArtifactTypes
    BY <1>9 DEF RefreshRead
  <2>3. /\ DOMAIN parameters' = {"artifact_type", "limit"}
        /\ parameters'["artifact_type"] = parameters["artifact_type"]
    BY <2>1, <2>2 DEF ParametersWith
  <2> QED
    BY <2>1, <2>2, <2>3 DEF RefreshRead, RefreshEnd
<1>10. CASE at = 6
  <2>1. RefreshEnd
    BY <1>10 DEF RefreshRead
  <2>2. Resolved(command) = command /\ command \in CommandNames
    BY <1>2, <2>1, NamesResolve DEF RefreshEnd
  <2>3. /\ stage' = "over" /\ ending' # "refused" /\ Kept
        /\ command' = command /\ parameters' = parameters
    BY <1>1, <1>3, <1>10, <2>2, EndStep
  <2> QED
    BY <2>1, <2>3 DEF RefreshEnd
<1> QED
  BY <1>3, <1>6, <1>8, <1>9, <1>10

-----------------------------------------------------------------------------
(* Forms *)

\* The parameters are those of the first n fields, as far as submitted.
ParamsFit(form, filled, n) ==
  /\ DOMAIN parameters = {KeyOf(form.fields[i].option) : i \in Sub(form, filled, n)}
  /\ \A i \in Sub(form, filled, n) :
       parameters[KeyOf(form.fields[i].option)] = filled[form.fields[i].id].name

FormEnd(form, filled) ==
  command = form.command /\ ParamsFit(form, filled, Len(form.fields))

\* How far the line has been read: nothing of it, the words of the first
\* fields, or all.
FormRead(form, filled) ==
  \/ at = 1 /\ parameters = <<>>
  \/ /\ given /\ command = form.command
     /\ \E n \in 0..Len(form.fields) :
          at = Len(WordsOf(form, filled)[n]) + 1 /\ ParamsFit(form, filled, n)
  \/ at = Len(line) + 1 /\ FormEnd(form, filled)

AllOrdinary(form, filled) ==
  \A i \in 1..Len(form.fields) :
    IsSubmitted(form, filled, form.fields[i]) => IsOrdinary(filled[form.fields[i].id])

LEMMA FormKept ==
  ASSUME ReadStep, NEW form \in Forms, NEW filled, AllOrdinary(form, filled),
         line = ArgumentsOf(form, filled) \o <<Quiet>>, FormRead(form, filled)
  PROVE  \/ ReadsOn /\ FormRead(form, filled)'
         \/ stage' = "over" /\ ending' # "refused" /\ Kept /\ FormEnd(form, filled)'
<1> DEFINE W == WordsOf(form, filled)
           N == Len(form.fields)
           key(i) == KeyOf(form.fields[i].option)
           value(i) == filled[form.fields[i].id]
           sub(n) == Sub(form, filled, n)
<1>1. /\ form.command \in CommandNames /\ N \in Nat
      /\ \A i \in 1..N : /\ form.fields[i].option \in OptionsOf(form.command)
                         /\ form.fields[i].option \notin Switches \union Settings
      /\ \A i, j \in 1..N : key(i) = key(j) => i = j
  BY FormsAreKept DEF IsKept
<1>2. Len(line) \in Nat /\ Len(line) >= 2 /\ line[1] = Plain(form.command) /\ Len(W[0]) = 1
  <2> DEFINE q == Sayable(form, filled) \union {Quiet}
  <2>1. line \in Seq(q) /\ Len(line) >= 2 /\ line[1] = Plain(form.command) /\ Len(W[0]) = 1
    BY FormLineStart
  <2> HIDE DEF q, W
  <2> QED
    BY <2>1
<1>3. CASE at = 1 /\ parameters = <<>>
  <2>1. Names(Word) /\ Word.name = form.command
    BY <1>1, <1>2, <1>3, PlainFacts DEF Word, Names
  <2>2. ReadsOn /\ at' = 2 /\ command' = form.command /\ given' /\ parameters' = parameters
    <3>1. at <= Len(line) /\ at \in Nat
      BY <1>2, <1>3
    <3> QED
      BY <1>1, <1>2, <1>3, <2>1, <3>1, NameStep, NamesResolve
  <2>3. sub(0) = {}
    BY DEF Sub
  <2>4. ParamsFit(form, filled, 0)'
    BY <1>3, <2>2, <2>3 DEF ParamsFit
  <2>5. 0 \in 0..N /\ at' = Len(W[0]) + 1
    BY <1>1, <1>2, <2>2
  <2> QED
    BY <2>2, <2>4, <2>5 DEF FormRead
<1>4. ASSUME given, command = form.command,
             NEW n \in 0..N, at = Len(W[n]) + 1, ParamsFit(form, filled, n)
      PROVE  ReadsOn /\ FormRead(form, filled)'
  <2>1. /\ at \in Nat
        /\ \/ at = Len(line) /\ line[at] = Quiet /\ sub(N) = sub(n)
           \/ \E m \in 1..N :
                /\ IsSubmitted(form, filled, form.fields[m])
                /\ sub(m) = sub(n) \union {m}
                /\ Len(W[m]) = at + 1 /\ at + 1 < Len(line)
                /\ line[at] = Flag(form.fields[m].option)
                /\ line[at + 1] = value(m)
    <3>1. at \in Nat /\ NextWords(form, filled, line, n, at)
      BY <1>4, FormLine
    <3> QED
      BY <3>1 DEF NextWords
  <2>2. CASE at = Len(line) /\ line[at] = Quiet /\ sub(N) = sub(n)
    <3>1. IsSwitch(Word)
      BY <2>2, QuietIsSwitch DEF Word
    <3>2. at <= Len(line)
      BY <1>2, <2>2
    <3>3. ReadsOn /\ at' = at + 1 /\ UNCHANGED <<command, given, parameters>>
      BY <1>2, <2>1, <3>1, <3>2, SwitchStep
    <3>4. line' = line
      BY <3>3 DEF ReadsOn, Kept
    <3>5. ParamsFit(form, filled, N)'
      BY <1>4, <2>2, <3>3 DEF ParamsFit
    <3>6. at' = Len(line') + 1 /\ command' = form.command
      BY <1>4, <2>2, <3>3, <3>4
    <3> QED
      BY <3>3, <3>5, <3>6 DEF FormRead, FormEnd
  <2>3. ASSUME NEW m \in 1..N, IsSubmitted(form, filled, form.fields[m]),
               sub(m) = sub(n) \union {m}, Len(W[m]) = at + 1, at + 1 < Len(line),
               line[at] = Flag(form.fields[m].option), line[at + 1] = value(m)
        PROVE  ReadsOn /\ FormRead(form, filled)'
    <3> DEFINE option == form.fields[m].option
    <3>1. Word.dashed /\ Word.name = option /\ Word.value = NoValue
      BY <2>3, FlagFacts DEF Word
    <3>2. /\ option \in OptionsOf(form.command) /\ option \notin Switches \union Settings
          /\ form.fields[m].option = option
      BY <1>1
    <3> HIDE DEF option
    <3>3. IsOption(Word)
      BY <3>1, <3>2 DEF IsOption, IsSwitch, IsSetting
    <3>4. ~value(m).dashed /\ value(m).name \notin CommandNames
      BY <2>3 DEF AllOrdinary, IsOrdinary
    <3>5. at <= Len(line) /\ at # Len(line)
      BY <1>2, <2>1, <2>3
    <3>6. TakesNext
      BY <2>3, <3>1, <3>4, <3>5 DEF TakesNext, IsLast
    <3>7. OptionValue = value(m).name
      BY <2>3, <3>1, <3>6 DEF OptionValue
    <3>8. given /\ Word.name \in OptionsOf(command)
      BY <1>4, <3>1, <3>2
    <3>9. /\ ReadsOn /\ UNCHANGED <<command, given>> /\ at' = at + 2
          /\ parameters' = ParametersWith(KeyOf(Word.name), OptionValue)
      BY <1>2, <2>1, <3>3, <3>5, <3>6, <3>8, OptionStep
    <3>10. parameters' = ParametersWith(key(m), value(m).name)
      BY <3>1, <3>2, <3>7, <3>9
    <3>11. ParamsFit(form, filled, m)'
      <4>1. /\ DOMAIN parameters = {key(i) : i \in sub(n)}
            /\ \A i \in sub(n) : parameters[key(i)] = value(i).name
        BY <1>4 DEF ParamsFit
      <4>2. sub(m) \subseteq 1..N
        BY <1>1 DEF Sub
      <4>3. sub(n) \subseteq 1..N /\ \A i \in sub(n) : key(i) = key(m) => i = m
        BY <1>1, <2>3, <4>2
      <4> HIDE DEF key, value, sub
      <4> DEFINE k == key(m)
                 v == value(m).name
      <4>4. parameters' = [x \in DOMAIN parameters \union {k} |-> IF x = k THEN v ELSE parameters[x]]
        BY <3>10 DEF ParametersWith
      <4>5. DOMAIN parameters' = {key(i) : i \in sub(m)}
        BY <2>3, <4>1, <4>4
      <4>6. \A i \in sub(m) : parameters'[key(i)] = value(i).name
        BY <2>3, <4>1, <4>3, <4>4
      <4> QED
        BY <4>5, <4>6 DEF ParamsFit, key, value, sub
    <3>12. at' = Len(W[m]) + 1 /\ m \in 0..N
      BY <1>1, <2>1, <2>3, <3>9
    <3>13. given' /\ command' = form.command
      BY <1>4, <3>9
    <3> QED
      BY <3>9, <3>11, <3>12, <3>13 DEF FormRead
  <2> QED
    BY <2>1, <2>2, <2>3
<1>5. CASE at = Len(line) + 1 /\ FormEnd(form, filled)
  <2>1. at \in Nat /\ at > Len(line)
    BY <1>2, <1>5
  <2>2. Resolved(command) = command /\ command \in CommandNames /\ command = form.command
    BY <1>1, <1>5, NamesResolve DEF FormEnd
  <2>3. stage' = "over" /\ ending' # "refused" /\ Kept /\ command' = command /\ parameters' = parameters
    BY <1>2, <2>1, <2>2, EndStep
  <2> QED
    BY <1>5, <2>2, <2>3 DEF FormEnd, ParamsFit
<1> QED
  BY <1>3, <1>4, <1>5 DEF FormRead

\* What a form's line ends with is what the form was filled in with.
LEMMA FormEnded ==
  ASSUME origin.form \in Forms, FormEnd(origin.form, origin.filled)
  PROVE  /\ command = origin.form.command
         /\ Cardinality(DOMAIN parameters) = Cardinality(Submitted)
         /\ \A f \in Submitted \ {Attributes} : Arrived(f)
<1> DEFINE form == origin.form
           filled == origin.filled
           fields == form.fields
           N == Len(fields)
           all == Sub(form, filled, N)
           key(f) == KeyOf(f.option)
<1>1. /\ DOMAIN fields = 1..N
      /\ \A i \in 1..N : fields[i] # Attributes => key(fields[i]) = fields[i].id
      /\ \A i, j \in 1..N : key(fields[i]) = key(fields[j]) => i = j
  BY FormsAreKept DEF IsKept
<1>2. /\ command = form.command
      /\ DOMAIN parameters = {key(fields[i]) : i \in all}
      /\ \A i \in all : parameters[key(fields[i])] = filled[fields[i].id].name
  BY DEF FormEnd, ParamsFit
<1>3. Submitted = {fields[i] : i \in all} /\ all \subseteq 1..N
  BY <1>1 DEF Submitted, ToSet, Sub
<1> HIDE DEF form, filled, fields, N, all, key
<1>4. \A f \in Submitted \ {Attributes} : Arrived(f)
  <2> SUFFICES ASSUME NEW f \in Submitted, f # Attributes PROVE Arrived(f)
    OBVIOUS
  <2>1. PICK i \in all : f = fields[i]
    BY <1>3
  <2>2. key(f) = f.id /\ key(f) \in DOMAIN parameters /\ parameters[key(f)] = filled[f.id].name
    BY <1>1, <1>2, <1>3, <2>1
  <2> QED
    BY <2>2 DEF Arrived, filled
<1>5. Cardinality(DOMAIN parameters) = Cardinality(Submitted)
  <2> DEFINE D == DOMAIN parameters
             g == [f \in Submitted |-> key(f)]
  <2>1. \A f \in Submitted : key(f) \in D
    BY <1>2, <1>3
  <2>2. \A f, h \in Submitted : key(f) = key(h) => f = h
    BY <1>1, <1>3
  <2>3. \A k \in D : \E f \in Submitted : key(f) = k
    BY <1>2, <1>3
  <2> HIDE DEF D
  <2>4. g \in Bijection(Submitted, D)
    BY <2>1, <2>2, <2>3 DEF Bijection, Injection, Surjection, IsInjective
  <2>5. IsFiniteSet(Submitted)
    <3>1. IsFiniteSet(1..N)
      BY FS_Interval, FieldsCounted DEF N, fields, form
    <3>2. IsFiniteSet(all)
      BY <1>3, <3>1, FS_Subset
    <3> DEFINE h == [i \in all |-> fields[i]]
    <3>3. h \in Surjection(all, Submitted)
      BY <1>3 DEF Surjection
    <3> QED
      BY <3>2, <3>3, FS_Surjection
  <2>6. ExistsBijection(Submitted, D)
    BY <2>4 DEF ExistsBijection
  <2>7. Cardinality(D) = Cardinality(Submitted)
    BY <2>5, <2>6, FS_Bijection
  <2> QED
    BY <2>7 DEF D
<1> QED
  BY <1>2, <1>4, <1>5 DEF form

-----------------------------------------------------------------------------
(* Lines typed at the console *)

\* A line judged to be the command c, with the data root and the quiet start
\* put after it.
IsTyped(words, c) ==
  /\ c \in CommandNames
  /\ Len(words) \in Nat /\ Len(words) >= 3
  /\ words[1] = Plain(c)
  /\ words[Len(words) - 1] = With("data-root", Here) /\ words[Len(words)] = Quiet
  /\ \A i \in 2..Len(words) - 2 :
       IF words[i].dashed THEN IsOption(words[i]) => words[i].name \in OptionsOf(c)
       ELSE i > 2 /\ IsOption(words[i - 1]) /\ words[i - 1].value = NoValue

\* No later word is a command's name, --command or a setting without a value.
IsPlainlyTyped(words) ==
  \A i \in 2..Len(words) :
    IF words[i].dashed THEN IsSetting(words[i]) => words[i].name # "command" /\ words[i].value # NoValue
    ELSE words[i].name \notin CommandNames

\* How far the line has been read: never up to a plain word but the first.
TypedRead(c) ==
  /\ at \in Nat /\ at >= 1
  /\ at > 1 => /\ command = c /\ given
               /\ at <= Len(line) => line[at].dashed
               /\ at >= Len(line) => root = Here

LEMMA TypedKept ==
  ASSUME ReadStep, NEW c, IsTyped(line, c), IsPlainlyTyped(line), TypedRead(c)
  PROVE  \/ Refused
         \/ ReadsOn /\ TypedRead(c)'
         \/ stage' = "over" /\ Kept /\ root' = Here /\ command' = c
<1>1. /\ c \in CommandNames /\ Len(line) \in Nat /\ Len(line) >= 3
      /\ line[1] = Plain(c) /\ line[Len(line) - 1] = With("data-root", Here)
      /\ line[Len(line)] = Quiet
  BY DEF IsTyped
<1>2. line[Len(line) - 1].dashed /\ line[Len(line)].dashed /\ IsSwitch(line[Len(line)])
  BY <1>1, WithFacts, QuietIsSwitch
<1>3. at \in Nat /\ at >= 1
  BY DEF TypedRead
\* A plain word comes after an option that has no value.
<1>4. \A i \in 2..Len(line) :
        ~line[i].dashed => i > 2 /\ IsOption(line[i - 1]) /\ line[i - 1].value = NoValue
  <2> SUFFICES ASSUME NEW i \in 2..Len(line), ~line[i].dashed
               PROVE  i > 2 /\ IsOption(line[i - 1]) /\ line[i - 1].value = NoValue
    OBVIOUS
  <2>1. i \in 2..Len(line) - 2
    BY <1>1, <1>2
  <2> QED
    BY <2>1 DEF IsTyped
\* The word after one that is no option without a value is dashed.
<1>5. ASSUME NEW i \in Nat, i >= 1, ~(IsOption(line[i]) /\ line[i].value = NoValue), i + 1 <= Len(line)
      PROVE  line[i + 1].dashed
  <2>1. i + 1 \in 2..Len(line) /\ (i + 1) - 1 = i
    BY <1>1, <1>5
  <2> QED
    BY <1>4, <1>5, <2>1
<1>6. CASE at = 1
  <2>1. Names(Word) /\ Word.name = c /\ ~IsOption(Word)
    BY <1>1, <1>6, PlainFacts DEF Word, Names
  <2>2. ReadsOn /\ at' = 2 /\ command' = c /\ given'
    <3>1. at <= Len(line)
      BY <1>1, <1>6
    <3> QED
      BY <1>1, <1>3, <1>6, <2>1, <3>1, NameStep, NamesResolve
  <2>3. line[2].dashed /\ line' = line /\ Len(line) > 2
    BY <1>1, <1>5, <1>6, <2>1, <2>2 DEF Word, ReadsOn, Kept
  <2> QED
    BY <1>1, <2>2, <2>3 DEF TypedRead
<1>7. CASE at > 1 /\ at <= Len(line)
  <2>1. command = c /\ given /\ Word.dashed /\ (at >= Len(line) => root = Here)
    BY <1>7 DEF TypedRead, Word
  \* To go on to a dashed word, not past the data root unless it was read, is enough.
  <2>2. ASSUME ReadsOn, command' = c, given', NEW n \in Nat, n >= 1, at' = at + n,
               at + n <= Len(line) => line[at + n].dashed,
               at + n >= Len(line) => root' = Here
        PROVE  ReadsOn /\ TypedRead(c)'
    <3>1. line' = line
      BY <2>2 DEF ReadsOn, Kept
    <3> QED
      BY <1>3, <2>2, <3>1 DEF TypedRead
  <2>3. CASE IsSwitch(Word)
    <3>1. ReadsOn /\ at' = at + 1 /\ UNCHANGED <<command, given, root>>
      BY <1>1, <1>3, <1>7, <2>3, SwitchStep
    <3>2. at + 1 <= Len(line) => line[at + 1].dashed
      BY <1>3, <1>5, <2>3, SwitchesAreNoSettings DEF Word
    <3>3. at # Len(line) - 1
      <4>1. ~IsSwitch(line[Len(line) - 1])
        BY <1>1, WithFacts DEF IsSwitch, Switches
      <4> QED
        BY <2>3, <4>1 DEF Word
    <3>4. at + 1 >= Len(line) => root' = Here
      BY <1>1, <1>3, <1>7, <2>1, <3>1, <3>3
    <3> QED
      BY <2>1, <2>2, <3>1, <3>2, <3>4
  <2>4. CASE IsSetting(Word)
    <3>1. Word.name # "command" /\ Word.value # NoValue
      BY <1>1, <1>3, <1>7, <2>1, <2>4 DEF IsPlainlyTyped, Word
    <3>2. /\ ReadsOn /\ UNCHANGED command /\ (given => given') /\ at' = at + 1
          /\ root' = IF Word.name = "data-root" THEN Word.value ELSE root
      BY <1>1, <1>3, <1>7, <2>4, <3>1, SettingStep
    <3>3. at + 1 <= Len(line) => line[at + 1].dashed
      BY <1>3, <1>5, <3>1 DEF Word
    <3>4. at # Len(line)
      BY <1>2, <2>4, SwitchesAreNoSettings DEF Word
    <3>5. at = Len(line) - 1 => root' = Here
      BY <1>1, <3>2, WithFacts DEF Word
    <3>6. at + 1 >= Len(line) => root' = Here
      BY <1>1, <1>3, <1>7, <3>4, <3>5
    <3> QED
      BY <2>1, <2>2, <3>2, <3>3, <3>6
  <2>5. CASE IsOption(Word)
    <3>1. at < Len(line) - 1
      <4>1. ~IsOption(line[Len(line) - 1])
        BY <1>1, WithFacts DEF IsOption, IsSetting, Settings
      <4>2. ~IsOption(line[Len(line)])
        BY <1>2, SwitchesAreNoSettings
      <4> QED
        BY <1>1, <1>3, <1>7, <2>5, <4>1, <4>2 DEF Word
    <3>2. Word.name \in OptionsOf(c)
      <4>1. at \in 2..Len(line) - 2
        BY <1>1, <1>3, <1>7, <3>1
      <4> QED
        BY <2>1, <2>5, <4>1 DEF IsTyped, Word
    <3>3. /\ ReadsOn /\ UNCHANGED <<command, given, root>>
          /\ at' = at + (IF TakesNext THEN 2 ELSE 1)
      BY <1>1, <1>3, <1>7, <2>1, <2>5, <3>2, OptionStep
    <3>4. CASE TakesNext
      <4>1. ~line[at + 1].dashed
        BY <3>4 DEF TakesNext
      <4>2. at + 1 # Len(line) - 1
        BY <1>2, <4>1
      <4>3. ~IsOption(line[at + 1]) /\ at + 1 \in Nat /\ at + 1 >= 1
        BY <1>3, <4>1 DEF IsOption
      <4>4. at + 2 <= Len(line) => line[at + 2].dashed
        <5>1. (at + 1) + 1 = at + 2
          BY <1>3
        <5> QED
          BY <1>5, <4>3, <5>1
      <4>5. ~(at + 2 >= Len(line))
        BY <1>1, <1>3, <3>1, <4>2
      <4> QED
        BY <2>1, <2>2, <3>3, <3>4, <4>4, <4>5
    <3>5. CASE ~TakesNext
      <4>1. at + 1 <= Len(line) => line[at + 1].dashed
        <5> SUFFICES ASSUME at + 1 <= Len(line), ~line[at + 1].dashed PROVE FALSE
          OBVIOUS
        <5>1. at + 1 \in 2..Len(line) /\ (at + 1) - 1 = at
          BY <1>1, <1>3, <1>7
        <5>2. Word.value = NoValue
          BY <1>4, <5>1 DEF Word
        <5>3. line[at + 1].name \notin CommandNames
          BY <5>1 DEF IsPlainlyTyped
        <5>4. ~IsLast
          BY <1>3, <3>1, <1>1 DEF IsLast
        <5> QED
          BY <3>5, <5>2, <5>3, <5>4 DEF TakesNext
      <4>2. ~(at + 1 >= Len(line))
        BY <1>1, <1>3, <3>1
      <4> QED
        BY <2>1, <2>2, <3>3, <3>5, <4>1, <4>2
    <3> QED
      BY <3>4, <3>5
  <2> QED
    BY <2>1, <2>3, <2>4, <2>5 DEF IsOption
<1>8. CASE at > Len(line)
  <2>1. command = c /\ root = Here
    BY <1>1, <1>3, <1>8 DEF TypedRead
  <2>2. Resolved(command) = c
    BY <1>1, <2>1, NamesResolve
  <2> QED
    BY <1>1, <1>3, <1>8, <2>1, <2>2, EndStep
<1> QED
  BY <1>1, <1>3, <1>6, <1>7, <1>8

-----------------------------------------------------------------------------
(* The last command name *)

IsName(w) == ~w.dashed /\ w.name \in CommandNames

\* No aliases, no settings.
IsNamesOnly(words) ==
  \A i \in 1..Len(words) : ~IsSetting(words[i]) /\ (words[i].dashed \/ ~IsAlias(words[i].name))

\* i is the last command name before k.
IsLastName(i, k) ==
  /\ i \in 1..Len(line) /\ i < k /\ IsName(line[i])
  /\ \A j \in 1..Len(line) : i < j /\ j < k => ~IsName(line[j])

NamesRead ==
  /\ at \in Nat /\ at >= 1
  /\ \A i \in 1..Len(line) : i < at /\ IsName(line[i]) => given
  /\ \A i \in 1..Len(line) : IsLastName(i, at) => command = line[i].name

NamesEnd == \A i \in 1..Len(line) : IsLastName(i, Len(line) + 1) => command = line[i].name

LEMMA NamesKept ==
  ASSUME ReadStep, Len(line) \in Nat, IsNamesOnly(line), NamesRead
  PROVE  \/ Refused
         \/ ReadsOn /\ NamesRead'
         \/ stage' = "over" /\ Kept /\ NamesEnd'
<1>1. at \in Nat /\ at >= 1
  BY DEF NamesRead
\* Words that are no names change nothing.
<1>2. ASSUME ReadsOn, NEW n \in Nat, n >= 1, at' = at + n,
             \A i \in 1..Len(line) : at <= i /\ i < at + n => ~IsName(line[i]),
             given => given',
             ~given \/ UNCHANGED command
      PROVE  ReadsOn /\ NamesRead'
  <2>1. line' = line
    BY <1>2 DEF ReadsOn, Kept
  <2>2. at' \in Nat /\ at' >= 1
    BY <1>1, <1>2
  <2>3. ASSUME NEW i \in 1..Len(line), i < at', IsName(line[i]) PROVE i < at /\ given
    <3>1. i < at
      BY <1>1, <1>2, <2>3
    <3> QED
      BY <2>3, <3>1 DEF NamesRead
  <2>4. ASSUME NEW i \in 1..Len(line), i < at', IsName(line[i]),
               \A j \in 1..Len(line) : i < j /\ j < at' => ~IsName(line[j])
        PROVE  command' = line[i].name
    <3>1. i < at /\ given
      BY <2>3, <2>4
    <3>2. IsLastName(i, at)
      <4>1. \A j \in 1..Len(line) : j < at => j < at'
        BY <1>1, <1>2
      <4> QED
        BY <2>4, <3>1, <4>1 DEF IsLastName
    <3>3. command = line[i].name
      BY <3>2 DEF NamesRead
    <3> QED
      BY <1>2, <3>1, <3>3
  <2>5. \A i \in 1..Len(line) : i < at' /\ IsName(line[i]) => given'
    BY <1>2, <2>3
  <2>6. \A i \in 1..Len(line) :
          i < at' /\ IsName(line[i]) /\ (\A j \in 1..Len(line) : i < j /\ j < at' => ~IsName(line[j]))
          => command' = line[i].name
    BY <2>4
  <2> QED
    BY <1>2, <2>1, <2>2, <2>5, <2>6 DEF NamesRead, IsLastName
<1>3. CASE at > Len(line)
  <2>1. \/ Refused
        \/ stage' = "over" /\ Kept /\ command' = Resolved(command)
    BY <1>1, <1>3, EndStep
  <2>2. ASSUME line' = line, command' = Resolved(command) PROVE NamesEnd'
    <3> SUFFICES ASSUME NEW i \in 1..Len(line), IsName(line[i]),
                        \A j \in 1..Len(line) : i < j /\ j < Len(line) + 1 => ~IsName(line[j])
                 PROVE  command' = line[i].name
      BY <2>2 DEF NamesEnd, IsLastName
    <3>1. i < at /\ \A j \in 1..Len(line) : j < Len(line) + 1
      BY <1>1, <1>3
    <3>2. IsLastName(i, at)
      BY <3>1 DEF IsLastName
    <3>3. command = line[i].name /\ line[i].name \in CommandNames
      BY <3>2 DEF NamesRead, IsName
    <3> QED
      BY <2>2, <3>3, NamesResolve
  <2> QED
    BY <2>1, <2>2 DEF Kept
<1>4. CASE at <= Len(line)
  <2>1. at \in 1..Len(line) /\ Word = line[at]
    BY <1>1, <1>4 DEF Word
  <2>2. ~IsSetting(Word) /\ (Word.dashed \/ ~IsAlias(Word.name))
    BY <2>1 DEF IsNamesOnly
  <2>3. CASE Names(Word)
    <3>1. ~Word.dashed /\ Word.name \in CommandNames
      BY <2>2, <2>3 DEF Names
    <3>2. ReadsOn /\ at' = at + 1 /\ command' = line[at].name /\ given'
      BY <1>1, <1>4, <2>1, <2>3, <3>1, NameStep, NamesResolve
    <3>3. line' = line
      BY <3>2 DEF ReadsOn, Kept
    <3>4. ASSUME NEW i \in 1..Len(line), i < at + 1,
                 \A j \in 1..Len(line) : i < j /\ j < at + 1 => ~IsName(line[j])
          PROVE  command' = line[i].name
      <4>1. IsName(line[at]) /\ at < at + 1
        BY <1>1, <2>1, <3>1 DEF IsName
      <4>2. ~(i < at)
        BY <2>1, <3>4, <4>1
      <4>3. i = at
        BY <1>1, <3>4, <4>2
      <4> QED
        BY <3>2, <4>3
    <3>5. at' \in Nat /\ at' >= 1
      BY <1>1, <3>2
    <3> QED
      BY <3>2, <3>3, <3>4, <3>5 DEF NamesRead, IsLastName
  <2>4. CASE IsSwitch(Word)
    <3>1. ReadsOn /\ at' = at + 1 /\ UNCHANGED <<command, given>>
      BY <1>1, <1>4, <2>4, SwitchStep
    <3>2. \A i \in 1..Len(line) : at <= i /\ i < at + 1 => ~IsName(line[i])
      <4>1. \A i \in 1..Len(line) : at <= i /\ i < at + 1 => i = at
        BY <1>1
      <4> QED
        BY <2>1, <2>4, <4>1, SwitchesAreNoSettings DEF IsName
    <3> QED
      BY <1>2, <3>1, <3>2
  <2>5. CASE IsOption(Word)
    <3>1. \/ Refused
          \/ /\ ReadsOn /\ UNCHANGED <<command, given>>
             /\ at' = at + (IF TakesNext THEN 2 ELSE 1)
      BY <1>1, <1>4, <2>5, OptionStep
    <3>2. ~IsName(line[at])
      BY <2>1, <2>5 DEF IsOption, IsName
    <3>3. ASSUME TakesNext, NEW i \in 1..Len(line), at <= i, i < at + 2 PROVE ~IsName(line[i])
      <4>1. i = at \/ i = at + 1
        BY <1>1, <3>3
      <4> QED
        BY <3>2, <3>3, <4>1 DEF TakesNext, IsName
    <3>4. ASSUME NEW i \in 1..Len(line), at <= i, i < at + 1 PROVE ~IsName(line[i])
      <4>1. i = at
        BY <1>1, <3>4
      <4> QED
        BY <3>2, <4>1
    <3>5. CASE TakesNext /\ ReadsOn /\ UNCHANGED <<command, given>> /\ at' = at + 2
      BY <1>2, <3>3, <3>5
    <3>6. CASE ~TakesNext /\ ReadsOn /\ UNCHANGED <<command, given>> /\ at' = at + 1
      BY <1>2, <3>4, <3>6
    <3> QED
      BY <3>1, <3>5, <3>6
  <2>6. CASE ~Word.dashed /\ ~Names(Word)
    <3>1. Refused \/ (~given /\ ReadsOn /\ at' = at + 1 /\ given')
      BY <1>1, <1>4, <2>6, TextStep
    <3>2. ~IsName(line[at])
      BY <2>1, <2>6 DEF IsName, Names
    <3>3. \A i \in 1..Len(line) : at <= i /\ i < at + 1 => ~IsName(line[i])
      <4>1. \A i \in 1..Len(line) : at <= i /\ i < at + 1 => i = at
        BY <1>1
      <4> QED
        BY <3>2, <4>1
    <3> QED
      BY <1>2, <3>1, <3>3
  <2> QED
    BY <2>2, <2>3, <2>4, <2>5, <2>6, EveryWord
<1> QED
  BY <1>1, <1>3, <1>4

-----------------------------------------------------------------------------
(* The invariant *)

\* The line is what its origin makes of it; targets are artifacts.
LineShaped ==
  /\ \E S : line \in Seq(S)
  /\ targets \in Seq(ArtifactTypes)
  /\ origin.kind = "form" =>
       /\ origin.form \in Forms
       /\ line = ArgumentsOf(origin.form, origin.filled) \o <<Quiet>>
  /\ origin.kind = "typed" => IsTyped(line, line[1].name)
  /\ origin.kind = "asked" => \E text : line = AskedLine(text)
  /\ origin.kind = "refresh" => \E type \in ArtifactTypes : line = RefreshLine(type)

FormInv ==
  \A form, filled :
    /\ origin.kind = "form" /\ origin.form = form /\ origin.filled = filled
    /\ AllOrdinary(form, filled)
    => /\ stage = "reading" => FormRead(form, filled)
       /\ stage = "over" => ending # "refused" /\ FormEnd(form, filled)

TypedInv ==
  origin.kind = "typed" /\ IsPlainlyTyped(line) =>
    /\ stage = "reading" => TypedRead(line[1].name)
    /\ stage = "over" /\ ending # "refused" => command = line[1].name /\ root = Here

AskedInv ==
  origin.kind = "asked" /\ ~line[5].dashed =>
    /\ stage = "reading" => AskedRead(line[5])
    /\ stage = "over" /\ ending # "refused" => root = Here /\ AskedEnd(line[5])

RefreshInv ==
  origin.kind = "refresh" =>
    /\ stage = "reading" => RefreshRead
    /\ stage = "over" => ending # "refused" /\ RefreshEnd

NamesInv ==
  IsNamesOnly(line) =>
    /\ stage = "reading" => NamesRead
    /\ stage = "over" /\ ending # "refused" => NamesEnd

LineInv == LineShaped /\ FormInv /\ TypedInv /\ AskedInv /\ RefreshInv /\ NamesInv

LEMMA LineStarts == LineInit => LineInv
<1> SUFFICES ASSUME LineInit PROVE LineInv
  OBVIOUS
<1>1. /\ stage = "idle" /\ origin.kind = "none" /\ line \in Seq({}) /\ targets \in Seq(ArtifactTypes)
  BY DEF LineInit, NoOrigin
<1> QED
  BY <1>1 DEF LineInv, LineShaped, FormInv, TypedInv, AskedInv, RefreshInv, NamesInv

\* A line that is begun has not been read.
LEMMA LineBegins ==
  ASSUME NEW from, NEW words, Begin(from, words)
  PROVE  /\ origin' = from /\ line' = words
         /\ FormInv' /\ TypedInv' /\ AskedInv' /\ RefreshInv' /\ NamesInv'
<1>1. stage' = "reading" /\ origin' = from /\ line' = words /\ at' = 1 /\ parameters' = <<>>
  BY DEF Begin
<1>2. FormInv'
  BY <1>1 DEF FormInv, FormRead
<1>3. TypedInv'
  BY <1>1 DEF TypedInv, TypedRead
<1>4. AskedInv'
  BY <1>1 DEF AskedInv, AskedRead
<1>5. RefreshInv'
  BY <1>1 DEF RefreshInv, RefreshRead
<1>6. NamesInv'
  <2>1. \A i \in 1..Len(line') : ~(i < 1)
    OBVIOUS
  <2>2. NamesRead'
    BY <1>1, <2>1 DEF NamesRead, IsLastName
  <2> QED
    BY <1>1, <2>2 DEF NamesInv
<1> QED
  BY <1>1, <1>2, <1>3, <1>4, <1>5, <1>6

LEMMA FromKind == ASSUME NEW k PROVE From(k).kind = k
BY DEF From, NoOrigin

LEMMA WordsCounted ==
  ASSUME NEW words \in SeqOf(Vocabulary, MaxWords)
  PROVE  words \in Seq(Vocabulary) /\ (words # <<>> => Len(words) >= 1)
<1>1. PICK m \in 0..MaxWords : words \in [1..m -> Vocabulary]
  BY DEF SeqOf
<1>2. m \in Nat /\ words \in Seq(Vocabulary)
  BY <1>1, CommandLineAssumption
<1> QED
  BY <1>2

LEMMA GiveArgumentsKeeps == ASSUME LineInv, GiveArguments PROVE LineInv'
<1>1. PICK words \in SeqOf(Vocabulary, MaxWords) : Begin(From("arguments"), words)
  BY DEF GiveArguments
<1>2. targets' = <<>>
  BY DEF GiveArguments
<1>3. origin'.kind = "arguments" /\ line' \in Seq(Vocabulary)
  BY <1>1, LineBegins, FromKind, WordsCounted
<1>4. LineShaped'
  BY <1>2, <1>3 DEF LineShaped
<1> QED
  BY <1>1, <1>4, LineBegins DEF LineInv

LEMMA Joined ==
  ASSUME NEW S, NEW a \in Seq(S), NEW b \in Seq(S)
  PROVE  /\ a \o b \in Seq(S) /\ Len(a \o b) = Len(a) + Len(b)
         /\ \A i \in 1..Len(a) : (a \o b)[i] = a[i]
         /\ \A i \in 1..Len(b) : (a \o b)[Len(a) + i] = b[i]
OBVIOUS

\* Words with the first one replaced and two put after them.
Wrapped(M, S, words, p, r, q) ==
  /\ M \in Seq(S) /\ Len(M) = Len(words) + 2 /\ Len(words) \in Nat
  /\ M[1] = p /\ M[Len(words) + 1] = r /\ M[Len(words) + 2] = q
  /\ \A i \in 2..Len(words) : M[i] = words[i]

LEMMA TypedWords ==
  ASSUME NEW S, NEW words \in Seq(S), NEW p \in S, NEW r \in S, NEW q \in S, Len(words) >= 1,
         NEW M, M = <<p>> \o Tail(words) \o <<r, q>>
  PROVE  Wrapped(M, S, words, p, r, q)
<1>1. PICK t \in Seq(S) : t = Tail(words)
  <2>1. Tail(words) \in Seq(S)
    OBVIOUS
  <2> QED
    BY <2>1, Zenon
<1>2. PICK n \in Nat : n = Len(words)
  OBVIOUS
<1>3. Len(t) = n - 1 /\ (\A i \in 1..n-1 : t[i] = words[i + 1]) /\ n >= 1
  BY <1>1, <1>2
<1>4. PICK h \in Seq(S) : h = <<p>> \o t
  <2>1. <<p>> \o t \in Seq(S)
    OBVIOUS
  <2> QED
    BY <2>1, Zenon
<1>5. <<p>> \in Seq(S) /\ Len(<<p>>) = 1 /\ <<p>>[1] = p
  OBVIOUS
<1>6. /\ Len(h) = n /\ h[1] = p
      /\ \A i \in 1..n-1 : h[1 + i] = t[i]
  BY <1>3, <1>4, <1>5, Joined
<1>7. PICK e \in Seq(S) : e = <<r, q>>
  <2>1. <<r, q>> \in Seq(S)
    OBVIOUS
  <2> QED
    BY <2>1, Zenon
<1>8. Len(e) = 2 /\ e[1] = r /\ e[2] = q
  BY <1>7
<1>9. PICK L \in Seq(S) : L = h \o e
  <2>1. h \o e \in Seq(S)
    OBVIOUS
  <2> QED
    BY <2>1, Zenon
<1>10. /\ Len(L) = Len(h) + Len(e)
       /\ \A i \in 1..Len(h) : L[i] = h[i]
       /\ \A i \in 1..Len(e) : L[Len(h) + i] = e[i]
  BY <1>9, Joined
<1>11. /\ Len(L) = n + 2
       /\ \A i \in 1..n : L[i] = h[i]
       /\ \A i \in 1..2 : L[n + i] = e[i]
  BY <1>6, <1>8, <1>10
<1>12. L[1] = p /\ L[n + 1] = r /\ L[n + 2] = q
  BY <1>3, <1>6, <1>8, <1>11
<1>13. ASSUME NEW i \in 2..n PROVE L[i] = words[i]
  <2>1. i \in 1..n /\ i - 1 \in 1..n-1 /\ 1 + (i - 1) = i /\ (i - 1) + 1 = i
    OBVIOUS
  <2> QED
    BY <1>3, <1>6, <1>11, <2>1
<1>14. L = M
  BY <1>1, <1>4, <1>7, <1>9
<1>15. L \in Seq(S)
  OBVIOUS
<1> QED
  BY <1>2, <1>11, <1>12, <1>13, <1>14, <1>15 DEF Wrapped

LEMMA ExactIsTyped ==
  ASSUME NEW words \in Seq(Vocabulary), Len(words) >= 1, IsExact(words)
  PROVE  LET c == Resolved(words[1].name)
             L == <<Plain(c)>> \o Tail(words) \o <<With("data-root", Here), Quiet>>
         IN  IsTyped(L, L[1].name) /\ \E S : L \in Seq(S)
<1> DEFINE c == Resolved(words[1].name)
           p == Plain(c)
           r == With("data-root", Here)
           q == Quiet
           S == Vocabulary \union {p, r, q}
           n == Len(words)
           L == <<p>> \o Tail(words) \o <<r, q>>
<1>1. c \in CommandNames
  BY ResolvedIsName DEF IsExact, Names
<1>2. p.name = c
  BY PlainFacts
<1>3. \A i \in 2..n :
        IF words[i].dashed THEN IsOption(words[i]) => words[i].name \in OptionsOf(c)
        ELSE i > 2 /\ IsOption(words[i - 1]) /\ words[i - 1].value = NoValue
  BY DEF IsExact
<1>4. words \in Seq(S) /\ p \in S /\ r \in S /\ q \in S /\ n >= 1
  OBVIOUS
<1> HIDE DEF c, p, r, q, S
<1>5. /\ L \in Seq(S) /\ Len(L) = n + 2 /\ n \in Nat
      /\ L[1] = p /\ L[n + 1] = r /\ L[n + 2] = q
      /\ \A i \in 2..n : L[i] = words[i]
  <2>1. L = <<p>> \o Tail(words) \o <<r, q>>
    OBVIOUS
  <2>2. words \in Seq(S) /\ p \in S /\ r \in S /\ q \in S /\ Len(words) >= 1
    BY <1>4
  <2> HIDE DEF L, n
  <2>3. Wrapped(L, S, words, p, r, q)
    BY <2>1, <2>2, TypedWords, Zenon
  <2> QED
    BY <2>3 DEF Wrapped, n
<1> HIDE DEF L
<1>6. \A i \in 2..Len(L) - 2 :
        IF L[i].dashed THEN IsOption(L[i]) => L[i].name \in OptionsOf(c)
        ELSE i > 2 /\ IsOption(L[i - 1]) /\ L[i - 1].value = NoValue
  <2> SUFFICES ASSUME NEW i \in 2..n
               PROVE  IF L[i].dashed THEN IsOption(L[i]) => L[i].name \in OptionsOf(c)
                      ELSE i > 2 /\ IsOption(L[i - 1]) /\ L[i - 1].value = NoValue
    BY <1>5
  <2>1. L[i] = words[i] /\ (i > 2 => L[i - 1] = words[i - 1])
    BY <1>5
  <2> QED
    BY <1>3, <2>1
<1>7. Len(L) \in Nat /\ Len(L) >= 3 /\ Len(L) - 1 = n + 1
  BY <1>4, <1>5
<1>8. IsTyped(L, c)
  BY <1>1, <1>5, <1>6, <1>7 DEF IsTyped, p, r, q
<1> QED
  BY <1>2, <1>5, <1>8 DEF L, c, p, r, q

LEMMA TypeExactKeeps == ASSUME LineInv, TypeExact PROVE LineInv'
<1>1. PICK words \in SeqOf(Vocabulary, MaxWords) \ {<<>>} :
        /\ IsExact(words)
        /\ Begin(From("typed"), <<Plain(Resolved(words[1].name))>> \o Tail(words)
                                  \o <<With("data-root", Here), Quiet>>)
  BY DEF TypeExact
<1>2. targets' = targets
  BY DEF TypeExact
<1> DEFINE L == <<Plain(Resolved(words[1].name))>> \o Tail(words) \o <<With("data-root", Here), Quiet>>
<1>3. words \in Seq(Vocabulary) /\ Len(words) >= 1
  BY <1>1, WordsCounted
<1>4. IsTyped(L, L[1].name) /\ \E S : L \in Seq(S)
  BY <1>1, <1>3, ExactIsTyped
<1>5. Begin(From("typed"), L)
  BY <1>1
<1> HIDE DEF L
<1>6. origin'.kind = "typed" /\ line' = L
  BY <1>5, LineBegins, FromKind
<1>7. targets' \in Seq(ArtifactTypes)
  BY <1>2 DEF LineInv, LineShaped
<1>8. LineShaped'
  BY <1>4, <1>6, <1>7 DEF LineShaped
<1> QED
  BY <1>5, <1>8, LineBegins DEF LineInv

LEMMA FiveWords ==
  ASSUME NEW a, NEW b, NEW c, NEW d, NEW e
  PROVE  <<a, b, c, d, e>> \in Seq({a, b, c, d, e})
OBVIOUS

LEMMA AskTextKeeps == ASSUME LineInv, AskText PROVE LineInv'
<1>1. PICK text \in Texts : Begin(From("asked"), AskedLine(text))
  BY DEF AskText, AskedLine
<1>2. targets' = targets
  BY DEF AskText
<1>3. origin'.kind = "asked" /\ line' = AskedLine(text)
  BY <1>1, LineBegins, FromKind
<1>4. \E S : AskedLine(text) \in Seq(S)
  <2> DEFINE a == Plain("operator-query")
             b == With("data-root", Here)
             c == Quiet
             d == Flag("input")
  <2>1. AskedLine(text) = <<a, b, c, d, text>>
    BY DEF AskedLine
  <2> HIDE DEF a, b, c, d
  <2>2. <<a, b, c, d, text>> \in Seq({a, b, c, d, text})
    BY FiveWords
  <2> QED
    BY <2>1, <2>2
<1>5. targets' \in Seq(ArtifactTypes)
  BY <1>2 DEF LineInv, LineShaped
<1>6. LineShaped'
  BY <1>3, <1>4, <1>5 DEF LineShaped
<1> QED
  BY <1>1, <1>6, LineBegins DEF LineInv

LEMMA SubmitFormKeeps == ASSUME LineInv, SubmitForm PROVE LineInv'
<1>1. PICK form \in Forms : \E filled :
        /\ Begin([kind |-> "form", form |-> form, filled |-> filled], ArgumentsOf(form, filled) \o <<Quiet>>)
        /\ targets' = form.targets
  BY Zenon DEF SubmitForm
<1>2. PICK filled :
        /\ Begin([kind |-> "form", form |-> form, filled |-> filled], ArgumentsOf(form, filled) \o <<Quiet>>)
        /\ targets' = form.targets
  BY <1>1
<1> DEFINE L == ArgumentsOf(form, filled) \o <<Quiet>>
           from == [kind |-> "form", form |-> form, filled |-> filled]
<1>3. from.kind = "form" /\ from.form = form /\ from.filled = filled
  OBVIOUS
<1>4. \E S : L \in Seq(S)
  BY FormLineStart
<1>5. Begin(from, L) /\ targets' = form.targets
  BY <1>2
<1> HIDE DEF L, from
<1>6. /\ origin'.kind = "form" /\ origin'.form = form /\ origin'.filled = filled
      /\ line' = L /\ targets' \in Seq(ArtifactTypes)
  BY <1>3, <1>5, LineBegins, TargetsAreKnown
<1>7. LineShaped'
  <2>1. line' = ArgumentsOf(origin'.form, origin'.filled) \o <<Quiet>>
    BY <1>6 DEF L
  <2> QED
    BY <1>4, <1>6, <2>1 DEF LineShaped
<1> QED
  BY <1>5, <1>7, LineBegins DEF LineInv

LEMMA RefreshKeeps == ASSUME LineInv, Refresh PROVE LineInv'
<1>1. targets # <<>> /\ targets \in Seq(ArtifactTypes)
  BY DEF LineInv, LineShaped, Refresh
<1>2. Head(targets) \in ArtifactTypes /\ Tail(targets) \in Seq(ArtifactTypes)
  BY <1>1
<1>3. Begin(From("refresh"), RefreshLine(Head(targets))) /\ targets' = Tail(targets)
  BY DEF Refresh, RefreshLine
<1> DEFINE type == Head(targets)
<1>4. origin'.kind = "refresh" /\ line' = RefreshLine(type)
  BY <1>3, LineBegins, FromKind
<1>5. \E S : RefreshLine(type) \in Seq(S)
  <2> DEFINE a == Plain("artifact.query")
             b == Flag("artifact-type")
             c == Plain(type)
             d == Flag("limit")
             e == Plain("5")
  <2>1. RefreshLine(type) = <<a, b, c, d, e>>
    BY DEF RefreshLine
  <2> HIDE DEF a, b, c, d, e
  <2>2. <<a, b, c, d, e>> \in Seq({a, b, c, d, e})
    BY FiveWords
  <2> QED
    BY <2>1, <2>2
<1>6. LineShaped'
  BY <1>2, <1>3, <1>4, <1>5 DEF LineShaped
<1> QED
  BY <1>3, <1>6, LineBegins DEF LineInv

LEMMA ReadKeeps == ASSUME LineInv, ReadStep PROVE LineInv'
<1>1. stage = "reading" /\ Kept /\ (targets' = targets \/ targets' = <<>>)
  BY DEF ReadStep, ReadName, ReadSwitch, ReadSetting, ReadOption, ReadText, Run, Reading, Set,
         Advance, Refuse, Kept
<1>2. line' = line /\ origin' = origin
  BY <1>1 DEF Kept
<1>3. LineShaped'
  <2>1. LineShaped
    BY DEF LineInv
  <2>2. targets' \in Seq(ArtifactTypes)
    <3>1. targets \in Seq(ArtifactTypes)
      BY <2>1 DEF LineShaped
    <3>2. <<>> \in Seq(ArtifactTypes)
      OBVIOUS
    <3> QED
      BY <1>1, <3>1, <3>2
  <2> QED
    BY <1>2, <2>1, <2>2 DEF LineShaped
<1>4. Len(line) \in Nat
  <2>1. PICK S : line \in Seq(S)
    BY DEF LineInv, LineShaped
  <2> QED
    BY <2>1
<1>5. ReadsOn => stage' = "reading"
  BY DEF ReadsOn
<1>6. Refused => stage' = "over" /\ ending' = "refused"
  BY DEF Refused
<1>7. FormInv'
  <2> SUFFICES ASSUME NEW form, NEW filled, origin.kind = "form", origin.form = form,
                      origin.filled = filled, AllOrdinary(form, filled)
               PROVE  /\ stage' = "reading" => FormRead(form, filled)'
                      /\ stage' = "over" => ending' # "refused" /\ FormEnd(form, filled)'
    BY <1>2 DEF FormInv
  <2>1. /\ form \in Forms /\ line = ArgumentsOf(form, filled) \o <<Quiet>>
        /\ FormRead(form, filled)
    BY <1>1 DEF LineInv, LineShaped, FormInv
  <2>2. \/ ReadsOn /\ FormRead(form, filled)'
        \/ stage' = "over" /\ ending' # "refused" /\ Kept /\ FormEnd(form, filled)'
    BY <2>1, FormKept
  <2> QED
    BY <1>5, <2>2
<1>8. TypedInv'
  <2> SUFFICES ASSUME origin.kind = "typed", IsPlainlyTyped(line)
               PROVE  /\ stage' = "reading" => TypedRead(line[1].name)'
                      /\ stage' = "over" /\ ending' # "refused" =>
                           command' = line[1].name /\ root' = Here
    BY <1>2 DEF TypedInv, IsPlainlyTyped
  <2> PICK c : c = line[1].name
    OBVIOUS
  <2>1. IsTyped(line, c) /\ TypedRead(c)
    BY <1>1 DEF LineInv, LineShaped, TypedInv
  <2>2. \/ Refused
        \/ ReadsOn /\ TypedRead(c)'
        \/ stage' = "over" /\ Kept /\ root' = Here /\ command' = c
    BY <2>1, TypedKept
  <2>3. c = line'[1].name
    BY <1>2
  <2> QED
    BY <1>5, <1>6, <2>2, <2>3 DEF TypedRead
<1>9. AskedInv'
  <2> SUFFICES ASSUME origin.kind = "asked", ~line[5].dashed
               PROVE  /\ stage' = "reading" => AskedRead(line[5])'
                      /\ stage' = "over" /\ ending' # "refused" => root' = Here /\ AskedEnd(line[5])'
    BY <1>2 DEF AskedInv
  <2>1. PICK text : line = AskedLine(text)
    BY DEF LineInv, LineShaped
  <2>2. line[5] = text
    BY <2>1 DEF AskedLine
  <2>3. AskedRead(text) /\ ~text.dashed
    BY <1>1, <2>2 DEF LineInv, AskedInv
  <2>4. \/ Refused
        \/ ReadsOn /\ AskedRead(text)'
        \/ stage' = "over" /\ Kept /\ root' = Here /\ AskedEnd(text)'
    BY <2>1, <2>3, AskedKept
  <2>5. line'[5] = text
    BY <1>2, <2>2
  <2> QED
    BY <1>5, <1>6, <2>4, <2>5 DEF AskedRead, AskedEnd
<1>10. RefreshInv'
  <2> SUFFICES ASSUME origin.kind = "refresh"
               PROVE  /\ stage' = "reading" => RefreshRead'
                      /\ stage' = "over" => ending' # "refused" /\ RefreshEnd'
    BY <1>2 DEF RefreshInv
  <2>1. PICK type \in ArtifactTypes : line = RefreshLine(type)
    BY DEF LineInv, LineShaped
  <2>2. RefreshRead
    BY <1>1 DEF LineInv, RefreshInv
  <2>3. \/ ReadsOn /\ RefreshRead'
        \/ stage' = "over" /\ ending' # "refused" /\ Kept /\ RefreshEnd'
    BY <2>1, <2>2, RefreshKept
  <2> QED
    BY <1>5, <2>3
<1>11. NamesInv'
  <2> SUFFICES ASSUME IsNamesOnly(line)
               PROVE  /\ stage' = "reading" => NamesRead'
                      /\ stage' = "over" /\ ending' # "refused" => NamesEnd'
    BY <1>2 DEF NamesInv, IsNamesOnly
  <2>1. NamesRead
    BY <1>1 DEF LineInv, NamesInv
  <2>2. \/ Refused
        \/ ReadsOn /\ NamesRead'
        \/ stage' = "over" /\ Kept /\ NamesEnd'
    BY <1>4, <2>1, NamesKept
  <2> QED
    BY <1>5, <1>6, <2>2
<1> QED
  BY <1>3, <1>7, <1>8, <1>9, <1>10, <1>11 DEF LineInv

LEMMA LineStutters == ASSUME LineInv, UNCHANGED lineVars PROVE LineInv'
<1>1. /\ stage' = stage /\ origin' = origin /\ line' = line /\ at' = at /\ command' = command
      /\ given' = given /\ parameters' = parameters /\ root' = root /\ ending' = ending
      /\ targets' = targets
  BY DEF lineVars
<1>2. LineShaped'
  BY <1>1 DEF LineInv, LineShaped
<1>3. FormInv'
  <2> SUFFICES ASSUME NEW form, NEW filled, origin.kind = "form", origin.form = form,
                      origin.filled = filled, AllOrdinary(form, filled)
               PROVE  /\ stage' = "reading" => FormRead(form, filled)'
                      /\ stage' = "over" => ending' # "refused" /\ FormEnd(form, filled)'
    BY <1>1 DEF FormInv
  <2>1. /\ stage = "reading" => FormRead(form, filled)
        /\ stage = "over" => ending # "refused" /\ FormEnd(form, filled)
    BY DEF LineInv, FormInv
  <2>2. /\ FormRead(form, filled) => FormRead(form, filled)'
        /\ FormEnd(form, filled) => FormEnd(form, filled)'
    BY <1>1 DEF FormRead, FormEnd, ParamsFit
  <2> QED
    BY <1>1, <2>1, <2>2
<1>4. TypedInv'
  BY <1>1 DEF LineInv, TypedInv, TypedRead
<1>5. AskedInv'
  BY <1>1 DEF LineInv, AskedInv, AskedRead, AskedEnd
<1>6. RefreshInv'
  BY <1>1 DEF LineInv, RefreshInv, RefreshRead, RefreshEnd
<1>7. NamesInv'
  BY <1>1 DEF LineInv, NamesInv, NamesRead, NamesEnd, IsLastName
<1> QED
  BY <1>2, <1>3, <1>4, <1>5, <1>6, <1>7 DEF LineInv

-----------------------------------------------------------------------------
(* What the invariant says of a line that is over *)

LEMMA FormsObeyed == ASSUME LineInv PROVE FormIsObeyed
<1> SUFFICES ASSUME IsOver, origin.kind = "form",
                    \A f \in Submitted : IsOrdinary(origin.filled[f.id])
             PROVE  /\ ending # "refused" /\ command = origin.form.command
                    /\ Cardinality(DOMAIN parameters) = Cardinality(Submitted)
                    /\ \A f \in Submitted \ {Attributes} : Arrived(f)
  BY DEF FormIsObeyed
<1>1. origin.form \in Forms
  BY DEF LineInv, LineShaped
<1>2. DOMAIN origin.form.fields = 1..Len(origin.form.fields)
  BY <1>1, FieldsCounted
<1>3. AllOrdinary(origin.form, origin.filled)
  BY <1>2 DEF AllOrdinary, Submitted, ToSet
<1>4. ending # "refused" /\ FormEnd(origin.form, origin.filled)
  BY <1>3 DEF LineInv, FormInv, IsOver
<1> QED
  BY <1>1, <1>4, FormEnded

LEMMA TypedObeyed == ASSUME LineInv PROVE TypedIsObeyed
<1> SUFFICES ASSUME Ran, origin.kind = "typed", ~(command = line[1].name /\ root = Here)
             PROVE  \E w \in ToSet(Tail(line)) :
                      IF w.dashed THEN IsSetting(w) /\ (w.name = "command" \/ w.value = NoValue)
                      ELSE w.name \in CommandNames
  BY DEF TypedIsObeyed
<1>1. ~IsPlainlyTyped(line)
  BY DEF LineInv, TypedInv, Ran, IsOver
<1>2. PICK i \in 2..Len(line) :
        IF line[i].dashed THEN IsSetting(line[i]) /\ (line[i].name = "command" \/ line[i].value = NoValue)
        ELSE line[i].name \in CommandNames
  BY <1>1 DEF IsPlainlyTyped
<1>3. PICK S : line \in Seq(S)
  BY DEF LineInv, LineShaped
<1>4. line # <<>> /\ i - 1 \in DOMAIN Tail(line) /\ Tail(line)[i - 1] = line[i]
  <2>1. Len(line) \in Nat /\ Len(line) >= 2
    BY <1>3
  <2>2. Len(Tail(line)) = Len(line) - 1 /\ DOMAIN Tail(line) = 1..Len(line) - 1
    BY <1>3, <2>1
  <2>3. i - 1 \in 1..Len(line) - 1 /\ (i - 1) + 1 = i
    BY <2>1
  <2> QED
    BY <1>3, <2>1, <2>2, <2>3
<1>5. line[i] \in ToSet(Tail(line))
  BY <1>4 DEF ToSet
<1> QED
  BY <1>2, <1>5

LEMMA AskedObeyed == ASSUME LineInv PROVE AskedIsObeyed
<1> SUFFICES ASSUME Ran, origin.kind = "asked", ~Last(line).dashed
             PROVE  /\ root = Here
                    /\ IF Last(line).name \in CommandNames THEN command = Last(line).name
                       ELSE command = "operator-query" /\ parameters["input"] = Last(line).name
  BY DEF AskedIsObeyed
<1>1. Last(line) = line[5]
  <2>1. PICK text : line = AskedLine(text)
    BY DEF LineInv, LineShaped
  <2>2. Len(line) = 5
    BY <2>1 DEF AskedLine
  <2> QED
    BY <2>2 DEF Last
<1>2. root = Here /\ AskedEnd(line[5])
  BY <1>1 DEF LineInv, AskedInv, Ran, IsOver
<1> QED
  BY <1>1, <1>2 DEF AskedEnd

LEMMA RefreshObeyed == ASSUME LineInv PROVE RefreshIsObeyed
BY DEF LineInv, RefreshInv, RefreshEnd, RefreshIsObeyed, IsOver

LEMMA LastNameObeyed == ASSUME LineInv PROVE LastNameRuns
<1> SUFFICES ASSUME Ran, \A w \in ToSet(line) : ~IsSetting(w) /\ (w.dashed \/ ~IsAlias(w.name)),
                    NEW i \in DOMAIN line, ~line[i].dashed, line[i].name \in CommandNames,
                    \A j \in i + 1..Len(line) : line[j].dashed \/ line[j].name \notin CommandNames
             PROVE  command = line[i].name
  BY DEF LastNameRuns
<1>1. DOMAIN line = 1..Len(line) /\ Len(line) \in Nat
  <2>1. PICK S : line \in Seq(S)
    BY DEF LineInv, LineShaped
  <2> QED
    BY <2>1
<1>2. IsNamesOnly(line)
  BY <1>1 DEF IsNamesOnly, ToSet
<1>3. NamesEnd
  BY <1>2 DEF LineInv, NamesInv, Ran, IsOver
<1>4. \A j \in 1..Len(line) : i < j => j \in i + 1..Len(line)
  BY <1>1
<1>5. IsLastName(i, Len(line) + 1)
  BY <1>1, <1>4 DEF IsLastName, IsName
<1> QED
  BY <1>1, <1>3, <1>5 DEF NamesEnd

\* Whoever asks for a line, what runs is what was asked for: a form runs its
\* own command with the fields filled in, a line typed the command it was
\* judged to be, a text asked through the windows is the input of the query,
\* the queries after a form are never refused, and of several command names
\* the last one runs.
THEOREM LinesTheorem == LineSpec => []LinesAreObeyed
<1>1. LineInit => LineInv
  BY LineStarts
<1>2. LineInv /\ [LineNext]_lineVars => LineInv'
  <2> SUFFICES ASSUME LineInv, [LineNext]_lineVars PROVE LineInv'
    OBVIOUS
  <2>1. CASE GiveArguments
    BY <2>1, GiveArgumentsKeeps
  <2>2. CASE TypeExact
    BY <2>2, TypeExactKeeps
  <2>3. CASE AskText
    BY <2>3, AskTextKeeps
  <2>4. CASE SubmitForm
    BY <2>4, SubmitFormKeeps
  <2>5. CASE Refresh
    BY <2>5, RefreshKeeps
  <2>6. CASE ReadStep
    BY <2>6, ReadKeeps
  <2>7. CASE UNCHANGED lineVars
    BY <2>7, LineStutters
  <2> QED
    BY <2>1, <2>2, <2>3, <2>4, <2>5, <2>6, <2>7 DEF LineNext, ReadStep
<1>3. LineInv => LinesAreObeyed
  BY FormsObeyed, TypedObeyed, AskedObeyed, RefreshObeyed, LastNameObeyed DEF LinesAreObeyed
<1> QED
  BY <1>1, <1>2, <1>3, PTL DEF LineSpec
=============================================================================
