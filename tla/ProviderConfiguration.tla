------------------------- MODULE ProviderConfiguration -------------------------
(***************************************************************************)
(* The provider's configuration on one data root: the file of integration  *)
(* records, the secret files and the environment its records refer to, and *)
(* the processes that write and use it.  integration-set-provider runs as  *)
(* a process of its own, inside the operator console or inside the setup   *)
(* window; each run loads the file, writes the key, appends the record and *)
(* rewrites the manifest, with no lock, and may die between any two.  The  *)
(* console answers queries from the records it loaded at its start; the    *)
(* setup window edits the records it last listed.                          *)
(*                                                                         *)
(* A record in the file is modelled as a later load reads it.  The         *)
(* repository escapes nothing: a ',' ends a setting, a ';' ends all of     *)
(* them, and a second ';' makes a line that no load accepts.  (Texts have  *)
(* no '=' and no line ends, and no two differ in case only.)               *)
(*                                                                         *)
(* Left out: the version and the times of a record, which nothing but the  *)
(* listings reads; lines cut by a full disk (MemoryStore has the like);    *)
(* calls refused for a missing argument, which change nothing; the         *)
(* memory of the program, which no call here writes.                       *)
(***************************************************************************)
EXTENDS InferenceTransport, FiniteSets

CONSTANTS
  Providers,     \* canonical provider names
  Callers,       \* processes: the console, the setup window, any other
  Console, Window,
  Requests,      \* what integration-set-provider is given on a command line
  SetVariables,  \* environment variables that hold a key
  Typed,         \* what is typed into each field of the setup window
  Outcomes,      \* what the network does
  MaxCalls,      \* bound: calls of integration-set-provider in one behavior
  MaxEdits       \* bound: fields edited between two refreshes of the window

NoProvider == "no provider"
NoRecord == [display |-> NoText]
Unset == <<"unset">>
\* The sources of a key that the program knows.  A command line may name any
\* other; then the key is written as for a direct one, and the name is stored.
Direct == <<"direct">>
Env == <<"env">>
Existing == <<"existing">>
Sources == {Direct, Env, Existing}
EditFields == {"provider", "display", "model", "source", "env", "ref", "enabled", "key"}

SecretPath(p) == <<p, ".secret">>
EnvironmentKey == MaxCalls + 1
Keys == 0..EnvironmentKey

IsText(text) == text \in Seq(ToSet(text))
TextFields == {"display", "model", "endpoint", "source", "env", "ref"}
WritesKey(request) == request.source \notin {Env, Existing}

IsRequest(r) ==
  /\ r.provider \in Providers
  /\ \A field \in TextFields : IsText(r[field])
  /\ r.enabled \in BOOLEAN /\ r.model # NoText
  /\ r.source = Env => r.env # NoText
  /\ r.source = Existing => r.ref # NoText

ASSUME ProviderAssumption ==
  /\ MaxCalls \in Nat /\ MaxEdits \in Nat
  /\ Console \in Callers /\ Window \in Callers /\ Console # Window
  /\ NoProvider \notin Providers /\ ";" \notin Providers
  /\ IsText(DefaultEndpoint) /\ ";" \notin ToSet(DefaultEndpoint)
  /\ \A r \in Requests : IsRequest(r)
  /\ DOMAIN Typed = EditFields \ {"key"}
  /\ Typed.provider \subseteq Providers /\ Typed.source = Sources
  /\ TestKeys \subseteq Keys \ {NoKey}
-----------------------------------------------------------------------------
(* The record of a request, and what the file makes of it *)

\* Mutant of Sanitized: nothing is replaced.
SanitizedNot(text) == text

\* sanitize_for_storage.  It does not touch ',', and is applied neither to an
\* endpoint nor to the source.
Sanitized(text) == [i \in DOMAIN text |-> IF text[i] = ";" THEN "_" ELSE text[i]]

Before(text, separator) ==
  IF separator \in ToSet(text)
  THEN SubSeq(text, 1, SelectInSeq(text, LAMBDA w : w = separator) - 1) ELSE text
IsPlain(text) == ";" \notin ToSet(text)
IsSetting(text) == IsPlain(text) /\ "," \notin ToSet(text)

\* The secret a record refers to: a variable of the environment or a file.
Variable(name) == [in |-> "env", name |-> name]
File(path) == [in |-> "file", name |-> path]

\* What a request asks the key to be read from.
Named(request) ==
  CASE request.source = Env -> Variable(Sanitized(request.env))
    [] request.source = Existing -> File(Sanitized(request.ref))
    [] OTHER -> File(SecretPath(request.provider))

Given(text, default) == IF text = NoText THEN default ELSE text

\* The record integration-set-provider makes.  The fields by, the number of the
\* call when it wrote a key, and named are history.
Record(request, number) ==
  [display |-> Sanitized(Given(request.display, <<request.provider>>)),
   enabled |-> request.enabled,
   model |-> Sanitized(request.model),
   endpoint |-> Given(request.endpoint, DefaultFor(request.provider)),
   source |-> request.source,
   inline |-> request.source = Env,
   reference |-> Named(request).name,
   env |-> IF request.source = Env THEN Sanitized(request.env) ELSE NoText,
   ref |-> IF request.source = Existing THEN Sanitized(request.ref) ELSE NoText,
   by |-> IF WritesKey(request) THEN number ELSE NoKey,
   named |-> Named(request)]

\* load: the settings are on one line behind the endpoint, in the order of their
\* names; the source comes last.
ReadBack(record) ==
  IF IsPlain(record.endpoint)
  THEN [record EXCEPT !.endpoint = Before(@, ","), !.env = Before(@, ","),
                      !.ref = Before(@, ","), !.model = Before(@, ","),
                      !.source = Before(Before(@, ";"), ",")]
  ELSE [record EXCEPT !.endpoint = Before(Before(@, ";"), ","), !.env = NoText,
                      !.ref = NoText, !.model = NoText, !.source = NoText]

\* Behind a ';' in the source nothing is a setting or a field.
IsMalformed(record) ==
  \/ ~IsPlain(record.source)
  \/ \E i, j \in DOMAIN record.endpoint : i # j /\ record.endpoint[i] = ";" /\ record.endpoint[j] = ";"

\* find_provider_record: at most one record of a table has a canonical name, so
\* its preferences among several never matter.
FindProviderRecord(table, p) == table[p]

\* provider_secret_source.
SecretSource(record) ==
  IF record.source = NoText THEN (IF record.inline THEN Env ELSE Direct) ELSE record.source

\* Mutant of Reference: the variable is only looked for among the settings.
ReferenceInSettings(record) ==
  IF record.inline THEN Variable(record.env) ELSE File(Given(record.reference, record.ref))

\* provider_secret_status: what the key is read from; a variable's name is among
\* the settings, unless they are lost.
Reference(record) ==
  IF record.inline THEN Variable(IF record.source = NoText THEN record.reference ELSE record.env)
  ELSE File(Given(record.reference, record.ref))

\* What integration-list-providers shows of a record.
Listed(record) ==
  [display |-> Given(record.display, Unset), model |-> Given(record.model, Unset),
   source |-> SecretSource(record), enabled |-> record.enabled,
   env |-> IF SecretSource(record) = Env THEN Given(record.env, Unset) ELSE Unset,
   ref |-> IF SecretSource(record) = Existing THEN Given(record.ref, Unset) ELSE Unset]
-----------------------------------------------------------------------------
VARIABLES
  onWindows,  \* the build: the setup window and WinHTTP, or neither
  file,       \* records.ndjson: the record of each provider as a load reads it
  ruined,     \* it has a line no load accepts
  secrets,    \* the key in each provider's secret file
  calls,      \* integration-set-provider in progress, by process
  console,    \* the operator console and the records it loaded
  window,     \* the setup window: what it listed, the line selected, its form, the fields edited since
  \* history and bound
  count,      \* calls begun
  troubled,   \* a call on the provider's key did not end, or met another
  overtaken   \* a record was appended since the window's list was refreshed

vars == <<onWindows, file, ruined, secrets, calls, console, window, count, troubled, overtaken>>
disk == <<file, ruined, secrets>>
history == <<count, troubled, overtaken>>

Idle == [stage |-> "idle"]
NoTable == [p \in Providers |-> NoRecord]
BlankForm == [provider |-> NoProvider, display |-> NoText, model |-> NoText, source |-> Direct,
              env |-> NoText, ref |-> NoText, enabled |-> TRUE, key |-> FALSE]
ClosedWindow ==
  [open |-> FALSE, shown |-> NoTable, selected |-> NoProvider, form |-> BlankForm, edited |-> {}]
ClosedConsole == [open |-> FALSE, loaded |-> NoTable]

ProviderInit ==
  /\ onWindows \in BOOLEAN
  /\ file = NoTable /\ ruined = FALSE /\ secrets = [p \in Providers |-> NoKey]
  /\ calls = [c \in Callers |-> Idle]
  /\ console = ClosedConsole /\ window = ClosedWindow
  /\ count = 0 /\ troubled = [p \in Providers |-> FALSE] /\ overtaken = {}

IsUp(c) ==
  CASE c = Console -> console.open [] c = Window -> window.open [] OTHER -> TRUE
IsFree(c) == IsUp(c) /\ calls[c] = Idle

\* A call has touched the key and not yet written its record.
IsMidway(c, p) ==
  calls[c].stage = "record" /\ calls[c].request.provider = p /\ WritesKey(calls[c].request)

KeyAt(reference) ==
  IF reference.in = "env" THEN (IF reference.name \in SetVariables THEN EnvironmentKey ELSE NoKey)
  ELSE LET owners == {p \in Providers : SecretPath(p) = reference.name}
       IN  IF owners = {} THEN NoKey ELSE secrets[CHOOSE p \in owners : TRUE]
-----------------------------------------------------------------------------
(* integration-set-provider *)

\* Mutant of FirstStep: only a provider that has no record gets its key written.
FirstStepOnce(request) ==
  IF WritesKey(request) /\ file[request.provider] = NoRecord THEN "secret" ELSE "record"

FirstStep(request) == IF WritesKey(request) THEN "secret" ELSE "record"

\* A run that cannot load the file does nothing.
BeginSet(c, request) ==
  /\ IsFree(c) /\ ~ruined /\ count < MaxCalls
  /\ calls' = [calls EXCEPT ![c] = [stage |-> FirstStep(request), request |-> request,
                                    number |-> count + 1, clean |-> TRUE]]
  /\ count' = count + 1
  /\ UNCHANGED <<onWindows, disk, console, window, troubled, overtaken>>

\* write_secret_file truncates the file and does not look at the stream: the key
\* may be written, or the file left empty, or left as it was.  A death or a
\* reader between the two finds it empty, as after an empty write.
WriteSecret(c) ==
  LET p == calls[c].request.provider
      others == {d \in Callers \ {c} : IsMidway(d, p)}
  IN
  /\ calls[c].stage = "secret"
  /\ \E key \in {calls[c].number, NoKey, secrets[p]} :
       /\ secrets' = [secrets EXCEPT ![p] = key]
       /\ calls' = [d \in Callers |->
            IF d = c THEN [calls[c] EXCEPT !.stage = "record",
                                           !.clean = others = {} /\ key = calls[c].number]
            ELSE IF d \in others THEN [calls[d] EXCEPT !.clean = FALSE] ELSE calls[d]]
  /\ UNCHANGED <<onWindows, file, ruined, console, window, history>>

\* upsert: the line is appended.
AppendRecord(c) ==
  LET request == calls[c].request
      record == Record(request, calls[c].number)
      p == request.provider
  IN
  /\ calls[c].stage = "record"
  /\ file' = [file EXCEPT ![p] = ReadBack(record)]
  /\ ruined' = (ruined \/ IsMalformed(record))
  /\ calls' = [calls EXCEPT ![c].stage = "manifest"]
  /\ troubled' = IF WritesKey(request) THEN [troubled EXCEPT ![p] = ~calls[c].clean] ELSE troubled
  /\ overtaken' = overtaken \union {p}
  /\ UNCHANGED <<onWindows, secrets, console, window, count>>

TroubledBy(c) ==
  [p \in Providers |-> troubled[p] \/ IsMidway(c, p)]

\* upsert cannot open the file or write the line: the call fails.
AppendRefused(c) ==
  /\ calls[c].stage = "record"
  /\ calls' = [calls EXCEPT ![c] = Idle]
  /\ troubled' = TroubledBy(c)
  /\ UNCHANGED <<onWindows, disk, console, window, count, overtaken>>
-----------------------------------------------------------------------------
(* ProviderSetupWindow *)

\* ListProviders; when the run fails, no provider is listed.
Listing == [p \in Providers |-> IF ruined \/ file[p] = NoRecord THEN NoRecord ELSE Listed(file[p])]

\* The combo box has three entries, and shows the first for a source it has not.
Chosen(source) == IF source \in Sources THEN source ELSE Direct

\* Mutant of Populated: the checkbox is left as it was when it was created.
PopulatedEnabled(shown, p) ==
  [provider |-> p, display |-> shown[p].display, model |-> shown[p].model,
   source |-> Chosen(shown[p].source), enabled |-> TRUE, key |-> FALSE,
   env |-> IF shown[p].env = Unset THEN NoText ELSE shown[p].env,
   ref |-> IF shown[p].ref = Unset THEN NoText ELSE shown[p].ref]

\* PopulateFromSelection.
Populated(shown, p) ==
  [provider |-> p, display |-> shown[p].display, model |-> shown[p].model,
   source |-> Chosen(shown[p].source), enabled |-> shown[p].enabled, key |-> FALSE,
   env |-> IF shown[p].env = Unset THEN NoText ELSE shown[p].env,
   ref |-> IF shown[p].ref = Unset THEN NoText ELSE shown[p].ref]

\* RefreshProviders: the selection is kept, or a listed provider is selected, or
\* the form is blank.
Refreshed(w) ==
  \E p \in Providers \union {NoProvider} :
    /\ IF \E q \in Providers : Listing[q] # NoRecord
       THEN p \in Providers /\ Listing[p] # NoRecord ELSE p = NoProvider
    /\ window.selected \in Providers => (Listing[window.selected] # NoRecord => p = window.selected)
    /\ w = [open |-> TRUE, shown |-> Listing, selected |-> p, edited |-> {},
            form |-> IF p = NoProvider THEN BlankForm ELSE Populated(Listing, p)]

\* WM_CREATE, Show or the Refresh button.
Refresh ==
  /\ onWindows /\ calls[Window] = Idle
  /\ Refreshed(window') /\ overtaken' = {}
  /\ UNCHANGED <<onWindows, disk, calls, console, count, troubled>>

Select(p) ==
  /\ IsFree(Window) /\ window.shown[p] # NoRecord
  /\ window' = [window EXCEPT !.selected = p, !.form = Populated(window.shown, p), !.edited = {}]
  /\ UNCHANGED <<onWindows, disk, calls, console, history>>

\* The user types into an enabled field (UpdateSecretSourceUi).
Edit(field, value) ==
  /\ IsFree(Window) /\ Cardinality(window.edited \union {field}) <= MaxEdits
  /\ field = "key" => window.form.source = Direct
  /\ field = "env" => window.form.source = Env
  /\ field = "ref" => window.form.source = Existing
  /\ window.form[field] # value
  /\ window' = [window EXCEPT !.form[field] = value, !.edited = @ \union {field}]
  /\ UNCHANGED <<onWindows, disk, calls, console, history>>

\* SaveProvider: every field is given, and the endpoint is always the default.
FormRequest(form) ==
  [provider |-> form.provider, display |-> form.display, model |-> form.model,
   endpoint |-> DefaultFor(form.provider), source |-> form.source, env |-> form.env,
   ref |-> form.ref, enabled |-> form.enabled]

Save ==
  /\ window.open /\ IsRequest(FormRequest(window.form))
  /\ window.form.source = Direct => window.form.key
  /\ BeginSet(Window, FormRequest(window.form))

\* persist_manifest, and the answer; the window refreshes after a success.
WriteManifest(c) ==
  /\ calls[c].stage = "manifest"
  /\ calls' = [calls EXCEPT ![c] = Idle]
  /\ IF c = Window
     THEN \/ Refreshed(window') /\ overtaken' = {}
          \/ UNCHANGED <<window, overtaken>>
     ELSE UNCHANGED <<window, overtaken>>
  /\ UNCHANGED <<onWindows, disk, console, count, troubled>>
-----------------------------------------------------------------------------
(* The console, requests to the provider, and the end of a process *)

\* initialize_runtime and the console's loop.
OpenConsole ==
  /\ ~console.open /\ ~ruined
  /\ console' = [open |-> TRUE, loaded |-> file]
  /\ UNCHANGED <<onWindows, disk, calls, window, history>>

\* A process ends, at any point; one that is in a call leaves it there.
Ended(c) ==
  /\ calls' = [calls EXCEPT ![c] = Idle]
  /\ console' = IF c = Console THEN ClosedConsole ELSE console
  /\ window' = IF c = Window THEN ClosedWindow ELSE window
  /\ troubled' = TroubledBy(c)

Die(c) ==
  /\ IF c \in {Console, Window} THEN IsUp(c) ELSE calls[c] # Idle
  /\ Ended(c)
  /\ UNCHANGED <<onWindows, disk, count, overtaken>>

\* A request changes nothing, unless its reply ends the process.
Asked(c, options, outcome) ==
  IF Run(options, onWindows, outcome).class = "uncaught"
  THEN Ended(c) /\ UNCHANGED <<onWindows, disk, count, overtaken>>
  ELSE UNCHANGED vars

Options(p, record) == BuildOptions(p, record, KeyAt(Reference(record)))

\* integration-test-provider, in a run that loads the file.
TestProvider(c, p, outcome) ==
  /\ IsFree(c) /\ ~ruined /\ FindProviderRecord(file, p) # NoRecord
  /\ Asked(c, Options(p, FindProviderRecord(file, p)), outcome)

\* TestCurrentProvider: the provider named in the form, by the record on disk.
TestCurrent(outcome) ==
  /\ window.form.provider \in Providers
  /\ TestProvider(Window, window.form.provider, outcome)

\* resolve_operator_input: a line of the console that is no command is put to
\* OpenAI, by the record the console loaded and the key there is now.
ConsoleQuery(outcome) ==
  /\ IsFree(Console) /\ FindProviderRecord(console.loaded, OpenAi) # NoRecord
  /\ Asked(Console, Options(OpenAi, FindProviderRecord(console.loaded, OpenAi)), outcome)

CallStep(c) ==
  \/ \E request \in Requests : c # Window /\ BeginSet(c, request)
  \/ WriteSecret(c) \/ AppendRecord(c) \/ AppendRefused(c) \/ WriteManifest(c) \/ Die(c)
  \/ \E p \in Providers, outcome \in Outcomes : c # Window /\ TestProvider(c, p, outcome)

WindowStep ==
  \/ \E outcome \in Outcomes : TestCurrent(outcome)
  \/ Refresh \/ Save \/ \E p \in Providers : Select(p)
  \/ \E field \in DOMAIN Typed : \E value \in Typed[field] : Edit(field, value)
  \/ Edit("key", TRUE)

ProviderNext ==
  \/ \E c \in Callers : CallStep(c)
  \/ WindowStep \/ OpenConsole \/ \E outcome \in Outcomes : ConsoleQuery(outcome)

ProviderSpec == ProviderInit /\ [][ProviderNext]_vars
-----------------------------------------------------------------------------
(* What must hold *)

\* Nothing a load reads still has a separator that would have ended it.
IsStored(p, r) ==
  /\ IsPlain(r.display) /\ IsPlain(r.reference) /\ r.display # NoText
  /\ IsSetting(r.model) /\ IsSetting(r.endpoint) /\ IsSetting(r.env) /\ IsSetting(r.ref)
  /\ r.enabled \in BOOLEAN /\ IsSetting(r.source)
  /\ r.inline \in BOOLEAN /\ r.by \in 0..count
  /\ r.by # NoKey => r.reference = SecretPath(p)

IsTable(table) ==
  /\ DOMAIN table = Providers
  /\ \A p \in Providers : table[p] = NoRecord \/ IsStored(p, table[p])

IsCall(call) ==
  \/ call = Idle
  \/ /\ call.stage \in {"secret", "record", "manifest"} /\ IsRequest(call.request)
     /\ call.number \in 1..count /\ call.clean \in BOOLEAN

\* The types of the variables; the records, in the file and in the console, have
\* what IsStored says.
ProviderTypeOK ==
  /\ onWindows \in BOOLEAN /\ ruined \in BOOLEAN /\ count \in 0..MaxCalls
  /\ IsTable(file) /\ IsTable(console.loaded)
  /\ secrets \in [Providers -> Keys]
  /\ DOMAIN calls = Callers /\ \A c \in Callers : IsCall(calls[c])
  /\ console.open \in BOOLEAN /\ window.open \in BOOLEAN
  /\ window.open => onWindows
  /\ troubled \in [Providers -> BOOLEAN] /\ overtaken \subseteq Providers

\* The record in force and the key on disk belong together: a record that a call
\* wrote a key for finds that call's key in the provider's file, once no call is
\* between its two writes, unless a call died or was refused there, could not
\* write the key, or was there with another; and the next call that is not
\* disturbed sets it right (execute_command, IntegrationSetProvider).
KeyFitsRecord ==
  \A p \in Providers :
    /\ file[p] # NoRecord /\ file[p].by # NoKey
    /\ ~troubled[p] /\ \A c \in Callers : ~IsMidway(c, p)
    => secrets[p] = file[p].by

Survives(record) ==
  \/ Reference(record) = record.named
  \/ record.inline /\ "," \in ToSet(record.named.name)

\* What the file loses of a record never changes where its key is read from: the
\* file and the console's records still refer to what the call named, unless that
\* is a variable whose name has a ',' (load, provider_secret_status).
ReferencesSurvive ==
  \A p \in Providers :
    /\ file[p] # NoRecord => Survives(file[p])
    /\ console.loaded[p] # NoRecord => Survives(console.loaded[p])

\* Of one request and its result: an answer, or a test that tells of an attempt,
\* was really sent; and a request that was sent is told of, unless the reply was
\* lost, or ended the process, or the record has no model.
IsHonest(options, outcome) ==
  LET result == Run(options, onWindows, outcome)
      sent == IsSent(options, onWindows, outcome)
      told == TellsAttempted(options, result) IN
  /\ result.ok \/ told => sent
  /\ sent /\ ~told =>
       \/ result.class \in {"receive_response", "read_body", "uncaught"}
       \/ result.ok /\ options.model = NoText

\* What is said of a request is what was done, for whatever record is in the file
\* or in the console, whatever key it finds and whatever the network does
\* (WinHttpExecutor::Execute, ProviderHttpTransport::HealthCheck).
AttemptsAreTold ==
  \A p \in Providers, outcome \in Outcomes :
    /\ file[p] # NoRecord => IsHonest(Options(p, file[p]), outcome)
    /\ console.loaded[p] # NoRecord => IsHonest(Options(p, console.loaded[p]), outcome)

\* The window's saves change only what was edited: when no record of the provider
\* was appended since the list was refreshed, the record that a save appends is
\* listed as the one before it was, except for the fields edited since, and the
\* secret's name when its source was (SaveCurrentProvider, PopulateFromSelection).
\* Two things do not survive a save that nobody edited: a source that the window
\* does not know becomes a direct one, and the endpoint, which is not listed,
\* becomes the default.
SaveKeepsTheRest ==
  [][\A p \in Providers :
       /\ calls[Window].stage = "record" /\ calls'[Window].stage = "manifest"
       /\ calls[Window].request.provider = p
       /\ file[p] # NoRecord /\ p \notin overtaken /\ "provider" \notin window.edited
       => \A field \in {"display", "model", "source", "enabled", "env", "ref"} \ window.edited :
            \/ Listed(file'[p])[field] = Listed(file[p])[field]
            \/ field = "source" /\ Listed(file[p]).source \notin Sources
            \/ field \in {"env", "ref"} /\ "source" \in window.edited]_vars
=============================================================================
