# LifeOrchestrator in TLA+

LifeOrchestrator is a headless C++ application: a control plane dispatches
requests to modules, the modules keep their records in a file-backed memory
store, and a command line, an operator console and a Windows shell sit on top.
This directory models the parts whose behaviour is hard to test, checks the
models with TLC on small instances, and proves the most important properties
for every instance with TLAPS. All paths below are relative to the repository.

## Inventory

| Component | State it keeps | Operations | What is hard |
|---|---|---|---|
| Behavioral triage (`src/coordination/behavioral_triage_*`, `src/core/behavioral.*`) | six tables in the store: proposals, decisions, backlog items, interventions, state snapshots, re-evaluations | `record_state`, `triage_proposals`, `reevaluate_backlog`, listings | several appends per proposal, a crash between any two, retries against deduplicating appends, a cap that rests on a self-reported number |
| Scheduling engine (`src/coordination/scheduling_engine.*`) | none | `generate_proposals`, `detect_conflicts`, `proposal_still_valid` | the walk over padded commitments, midnight, gaps, window edges |
| Scheduling coordination (`src/coordination/scheduling_coordination_module.*`) | commitments, candidates, windows, constraint sets, proposals, decisions, conflicts | `add_commitment`, `detect_conflicts`, `propose_time_blocks`, `commit_proposal`, upserts | proposals that outlive the schedule they were computed from, three writes per commit |
| Memory store (`src/core/memory.*`) | a table per record kind, an append-only file per table | upsert, append with or without deduplication, load | table before file, refused and cut lines, texts that do not survive their encoding, replay |
| Memory service and repositories (`src/core/memory.*`) | none | forwarding | - |
| Control plane (`src/control_plane/*`) | registry of modules, event log | `register_module`, `dispatch` | nested dispatches from inside modules, exceptions, all-or-nothing registration |
| Procedural auditor (`src/meta/*`) | activities, optimization proposals, audit runs | `upsert_activity`, `audit_inventory` | each proposal is triaged by a nested request, and what is recorded of it must not claim more than triage did |
| Application bootstrap and operator console (`src/app/application_bootstrap.*`) | configuration, one runtime per command | some thirty commands | a line is judged by one reading and run by another; commands nested in the console have tables of their own over the same files |
| Intent router (`src/intelligence`) | none | routing of free text through a language model | what an external answer may make the console do, confirmation of risky commands |
| Integration configuration (`src/integration/integration_configuration_repository.*`, `src/app/provider_setup`) | one file of provider records, key files, environment | `integration-set-provider`, listing, testing | key and record are two writes; three kinds of process without a lock; a text format without escapes |
| Inference transport (`src/integration/inference`) | none | request, executor, reading of the reply | six stages at which a request fails, replies that throw |
| Assistant shell (`src/app/assistant_shell`) | one file per session (transcript, pending confirmation, status, attachments) | start, submit, accept, decline, attach, detach | every call rewrites the whole file from what it read of it, and empties it first; sessions and confirmations are named by the millisecond, and the name has a `:` in it, which not every file system takes |
| Artifact queries, action forms, result views (`src/app/app_support`) | none | forms to command lines, queries after a success | tables of names kept by hand in five places |
| Windows UI (`src/ui`) | what each window shows: confirmation, provider list and form | the shell window, the setup window, the admin window | acting on what was shown some time ago |
| Smoke program, scripts | none | - | - |

How they interact: a command builds a runtime (store, repository, registry,
control plane), loads the files into tables, dispatches one or more requests,
and ends. The assistant shell, the setup window and the operator console are
processes of their own that run commands in-process. Everything is synchronous
and on one thread. The hard interleavings are therefore not of threads but of
*writes and crashes* (each record is one line appended at once; a process may
die between two, and the next one replays the files), of *requests with what
earlier requests stored*, of *dispatches nested in dispatches*, and of
*processes over shared files* (session files, provider records and keys).

## Modules

| Module | Models |
|---|---|
| `BehavioralRules` | the thresholds, ranking and verdicts of the triage engine, as operators |
| `BehavioralTriage` | the triage module over its six tables: one action per record written |
| `ProceduralAuditor` | the auditor composed with `BehavioralTriage`: its nested requests are requests of that module |
| `SchedulingEngine` | placement, conflict detection and the staleness test, as operators over a discrete clock |
| `SchedulingPlacement` | every small schedule as an input of the engine, and the definition of what it should find |
| `SchedulingCoordination` | the scheduling module over its tables: one action per record written |
| `SchedulingCandidates` | the commands that turn approved interventions into candidates and these into offers |
| `DurableStore` | what a store promises: a record changes only to a newer write, and a crash changes nothing |
| `MemoryStore` | `FileMemoryStore`: tables, files, the steps of a write, faults, load; implements `DurableStore` |
| `ControlPlane` | registry, dispatch as a stack of frames, event log, answers |
| `CommandTables` | commands and aliases, options, parameter names, action forms, artifact types: the tables that must agree |
| `CommandLine` | how a line of words is judged and read, whoever asks for it, and how a form is submitted |
| `IntentRouting` | the intent router and what the operator query does with the route, as operators |
| `ResponseParser` | the parser of the provider's reply, as the router sees it |
| `InferenceTransport` | a request to the provider: options, executors, reading of the reply, what is told of it, as operators |
| `ProviderConfiguration` | provider records, keys and environment under a command line, the console and the setup window |
| `AssistantShell` | windows over session files: a call reads and runs, empties the file, and writes it, in three actions |
| `MCxxx` | instances for TLC |
| `xxx_proofs` | theorems about the module they are named for; `Scheduling_proofs` is about the engine, the coordination module and the commands, `AssistantShell_proofs` about the router as well |

**BehavioralTriage.** The tables are functions from proposal ids, because every
other id (`decision.`, `backlog.`, `intervention.` ...) is derived from it. A
request is a program counter (`phase`) over the handler's writes: `StoreProposal`
for each proposal, then for each ranked one `Decide` (the verdict and the append
of the decision), `WriteBacklogItem`, `WriteIntervention`, and for a re-evaluation
`WriteArtifact`; `Respond` answers. `Crash` may come before any of them; `torn`
remembers the proposal it hit. Times and snapshots are chosen by the caller, as
in the code, so a retry may carry the same decision time or another one; the
artifact of a re-evaluation is compared with the one stored at its time by
snapshot and by the numbers of what it lists (`ArtifactAlreadyThere`).
Efforts and benefits are small numbers and ROI is compared by cross
multiplication; the scores of a snapshot are abstracted to the capacity level
they derive to (`strain`). The results of the appends are ignored by the code,
and no refused append is modelled here: `MemoryStore` has them.

**ProceduralAuditor** extends `BehavioralTriage` and uses its actions as they
are. `RecordRunState` is the snapshot the command line adds when there is none,
`RankInventory` classifies the whole inventory (an attribute that is no number
throws there and ends the audit), `DispatchTriage` begins a nested request of one
proposal, `RecordProposal` and `RecordFailure` store the proposal with what triage
answered, and `CompleteAudit` records the run. `Die` may come
anywhere and takes the nested request with it. A run that the caller did not name
is named by its inventory, so the same inventory audited again is the same run.

**SchedulingEngine, SchedulingPlacement, SchedulingCoordination.** Time is a
number of slots, `Day` of them a day, with the working day from `WorkStart` to
`WorkEnd`; the instances share one clock of quarter hours (96, 36, 68).
`AddMinutes` yields `NoTime` where `add_minutes_same_day` yields an empty string,
and `Overlap` is the half-open test of the code. `SchedulingPlacement` draws
every schedule from the spans between `Origin` and `Horizon`, which the instance
lays around a midnight. `GenerateProposals` follows `generate_proposals`: sorted
windows, the cursor over padded commitments, `try_gap`. The coordination module
keeps the records that `propose_time_blocks` and `commit_proposal` read and
write; a commit is three actions (`CommitProposal`, `MarkCommitted`,
`RecordDecision`). `torn` names commitments whose conflict detection a crash cut
off, `unguarded` proposals committed so near midnight that the engine does not
see their commitment.

**SchedulingCandidates.** A command reads its table when it starts and writes
one record after another; `Exit` ends it, at the end of its list or anywhere
before. `Approve` is triage replacing an intervention between two of them. The
engine is the one above, called without commitments, as the code does.

**MemoryStore.** A layer is one table with its file. A write is `Assign` (the
table), then `AppendLine`, `RefuseLine` (the stream does not open, an exception
turns into an error answer) or `CutLine` (a full disk, which `append_line` does
not notice; what follows continues the cut line); event emission may fail after
the line is written. `Skip` is the early return of the deduplicating appends.
`Load` replays the files, or fails: one line that does not parse, in any file,
keeps every later process from starting. A record carries the number of the write
it comes from, so that "the last write" has a meaning. A line is what a load makes
of it: an id, a record, and whether it parses. `Encoded` is what the encoding may
make of a record's texts, which take off each escape twice and escape no line end
(`memory.cpp:42-64`, `:113-121`): the record, or one with other texts, or a line
that does not parse. `CutLines` is what a full disk may leave of a line. Most
layers want the version after the id, so a line cut before it does not parse; the
`LenientLayers` (`candidates` and `proposal_artifacts`, `memory.cpp:406-407`;
`conflicts`, `:412`) want nothing but the id, so that a line cut inside the id is
read under a shorter one, which may be another record's (`Shorter`) or nobody's
(`Stray`). `Joined` is what becomes of two lines in one: a key that the first has
whole is read again from the second. `FaultyLayers` are the layers whose files may
fail.

**ControlPlane.** `stack` is the call stack of `dispatch`: `Submit` and `Call`
(a module that dispatches in turn) push a frame, and each step of `dispatch` is
an action of the top frame. `Throw` empties the stack: no frame has a handler.

**CommandLine, CommandTables.** A word is dashed, with a name and perhaps a
value, or a plain text. `GiveArguments`, `TypeExact`, `AskText`, `SubmitForm` and
`Refresh` are the five ways a line comes about; `ReadName`, `ReadSwitch`,
`ReadSetting`, `ReadOption` and `ReadText` are the branches of
`resolve_bootstrap_config`, from left to right, and `Run` its end. The tables are
written out, entry by entry: what they must do is agree with each other, and
nothing in the code makes them.

**IntentRouting, ResponseParser.** A payload of the provider is a record of what
is read of it: mode, command, arguments, confidence in tenths, confirmation, the
last two possibly garbled. `Delivered` is what the parser makes of it, `Read` is
`route_with_provider`, `Normalize` is `normalize_intent_routing_result`, and
`Rejected`, `Deferred` and `Executed` are the three ends of
`resolve_operator_input`.

**InferenceTransport, ProviderConfiguration.** The network is an outcome: the
WinHTTP call that fails, the status and the body. `Run` is the whole request as a
function of it. The record file is modelled as a later load reads it (`ReadBack`
says what the separators cost a record). `integration-set-provider` is
`BeginSet`, `WriteSecret`, `AppendRecord` and `WriteManifest` of whichever
process calls it, and `Die` ends a process between any two. The setup window
keeps the list it last showed and the form it filled from it (`Refresh`,
`Select`, `Edit`, `Save`); the console keeps the records it loaded at its start. A
request may name any secret source: one that is neither `env` nor `existing`
writes a key as `direct` does, and its name is stored (`WritesKey`), where a `;`
in it makes a line that no load accepts (`IsMalformed`). The setup window has three
sources to choose from and shows the first for a record with another (`Chosen`).

**AssistantShell.** `files` are the session files and `windows` the processes.
A window is `closed`, `idle`, `calling` (a call has read the file and run its
commands), `writing` (it has opened the file, which emptied it) or `listing` (the
tool panel is refreshed after a resolution). `Launch` opens the session named by
the millisecond, `clock`; a session without messages is greeted as turn 0 (`Greet`),
at the start or in `RefreshPanel`. `SubmitCommand`, `SubmitWithoutProvider`,
`SubmitRejected`, `SubmitDeferred` and `SubmitExecuted` are the outcomes of
`operator-query`, and `AnswerSubmission` is what the turn makes of one. `Accept`
and `Decline` read the pending confirmation and `AnswerResolution` drops it.
`BeginAttachment` reads the messages and the last status, and `WriteAttachments`
the pending confirmation, two commands later; the tests of the service call these
operations, and the window does not. Every call ends in `Truncate` and
`FinishWrite`, the two halves of `persist_session`. `Close` ends a process in any
stage, between the two halves too, and an exception from an accepted command ends
it as well (`AcceptThrows`). `openable` says whether a file can have the session's
name: where it cannot, because of the `:` of the time in it, as on Windows, the
stream does not open, nobody tests it, and nothing is stored or read. `torn` and
`overlapped` remember the sessions in which a process died between the halves, and
those in which another window wrote a confirmation in the middle of a call for an
attachment. A process is started once: a window that is opened again is another
member of `Windows`.

## Runs

| Run | Shows |
|---|---|
| `Triage.cfg` | two proposals, three requests of up to two proposals, all interleavings of crashes: no orphan records, an audit trail for all but the torn proposal, a retry repairs it, decisions are those of the documented rule, versions of proposals advance |
| `TriageCap.cfg` | *violated*: two requests approve more interventions than the documented cap |
| `Audit.cfg` | two activities, upserts, audits and nested triage in up to four calls, crashes anywhere, refused proposals and attributes that do not convert: an outcome on record has its evidence in triage, a recorded run is whole, audits end, and the composition is a behaviour of the triage module's `Spec` |
| `Scheduling.cfg` | three machines side by side (`part`): the coordination module in the afternoon and evening of one day, five requests, two tasks and two commitments, with crashes; the engine alone on every schedule of up to two commitments and a window in the two hours around a midnight, in quarters of an hour; the two scheduling commands, cut short anywhere, on days of a month. Durations of no minutes are among the tasks. No double booking through stale proposals, no overlap without a conflict on record, commits leave their evidence and are final; offers are sound and the earliest is found; offers follow what the interventions ask for |
| `SchedulingGap.cfg` | *violated*: an inline minimum gap is forgotten at commit |
| `Store.cfg` | an upserted layer on a sound file, a lenient and a deduplicated one on files that refuse or cut lines and whose texts may not survive, two ids of which one begins with the other, three writes, crashes, events that fail: memory is what a restart reads, the damage stays where it was done or, in the lenient layer, hits the shorter id, and the sound layer implements `DurableStore` while the others fail |
| `StoreRetry.cfg` | *violated*: the retry of a refused append is acknowledged but never written |
| `Dispatch.cfg` | six modules, among them ones with a taken capability, a taken id, an empty id and an empty capability; three dispatches, nested ones and exceptions: exact ownership, no silent escalation, the log is true of the stack and of the answers, every dispatch ends |
| `DispatchThrows.cfg` | *violated*: an exception leaves a started dispatch without a closing event |
| `Shell.cfg` | two machines side by side: the shell with two windows that share a session or not, three calls, deaths anywhere, between opening and writing a file too, files that open or do not, attachments beside submissions, and payloads wrong in none, one or two respects; and every command line of up to four words, typed or given as arguments, every text asked and every form filled in any two of its fields. Transcripts are kept but for the turns such a death or such a file costs, what a window shows can be accepted and is what runs, the status does not underreport, what is told fits what was done, routed runs are guarded; and what runs is what was asked for, whoever asks |
| `ShellOutcome.cfg` | *violated*: a route deferred for its confidence alone is told as completed |
| `Providers.cfg` | two providers, a command line, the console and the setup window, two calls of `integration-set-provider`, two fields edited, texts with the file's separators, a source nobody knows, a network that fails at each stage: key and record belong together, the place of the key survives the file, what is said of a request is what was sent, a save keeps what was not edited |

**Bounds.** Each is a constant whose comment says "bound".

- Triage: two proposals are the least with which one outranks another and one is
  torn while another is whole; three requests allow an attempt, a crash, a retry,
  and a re-evaluation after both.
- Audit: two activities are the least of which one is recorded and one is not when
  an audit dies; four calls allow two activities, an audit that dies and one that
  repairs it, or one repeated after a change.
- Scheduling: two commitments and two tasks are the least for stale proposals that
  compete; the span of a task is long enough for a slot before, between and after
  the commitments. Durations of 0, 1 and 2 and buffers and gaps of 0 and 1 meet in
  every combination within the eight slots of the engine's part; negative numbers are
  not covered. Ids of a kind are model values that nothing tells apart
  (`MCSymmetry`). Six runs of commands are two full rounds of approval, candidates
  and offers, so the second meets what the first left.
- Store: three writes reach a record written, refused and retried, a line cut,
  continued and written again, or a record of the shorter id replaced by the cut
  line of the longer and written again; two ids are the least of which one begins
  with the other. A cut line that is continued by a cut line is left out.
- Dispatch: three dispatches reach a call inside a call and a further request
  after an exception.
- Shell: two windows are the least that share a session; two milliseconds the
  least in which they have one each, or two confirmations of one session have
  different ids; three calls allow a confirmation to be made, replaced by the other
  window, and accepted, or put back by an attachment.
- Lines: four words hold a command, an option with its value and one word more,
  which may be another command; a form has at most two of its fields filled, as a
  field's words depend on nothing but that field and what precedes them.
- Providers: two calls are the least that meet between their writes; with two
  edited fields the source and the field it enables are both new.

`CHECK_DEADLOCK FALSE` is set everywhere, because a behaviour ends when its bound
of requests is used up and the process may be idle for ever.

**Fairness.** `ControlPlane!FairSpec` states weak fairness of `Step`, the single
thread that executes `dispatch`: once a request is in, nothing but this thread
moves, and it does one of the finitely many things the code does next. A module
that never returns is outside the model; `EveryDispatchEnds` says that the control
plane adds no way of its own to hang. `ProceduralAuditor!FairAuditorSpec` states it
of the audit's own steps and of the nested request's, which are straight-line code
with no waiting; `AuditEnds` says that every path through them ends, an
attribute that throws and a refused proposal included. All other properties are
safety properties and need none.

**Limits stated in the properties.** What a property excludes is as real as what
it says.

- `NearMidnight`, and `NotPadded` for the engine alone, exclude commitments so close
  to midnight that padding them leaves the day: the engine then skips them
  (`scheduling_engine.cpp:170`), so they can be overlapped, and a task committed
  there can be proposed again, which is what `unguarded` is for.
  `EarliestIsOffered` is stated for tasks that take time, without a gap (with one, a
  window that opens at the end of a commitment loses its first slots, or all) and
  for windows that stay within one day.
- `CommittedIsFinal` and `CommitLeavesEvidence` except blocks of no minutes as well
  (`TakesTime`, `unguarded`). `propose_time_blocks` uses what `std::stoi` returns as
  it is (`scheduling_coordination_module.cpp:76`), and a commitment `[s, s]` overlaps
  nothing that starts at `s` (`scheduling_engine.cpp:170`). So it does not keep its
  own task off: a task of 0 minutes that was committed is offered the same place
  when it is proposed again, its proposal, of the same id, is written back as
  `Proposed` with its decision on record, and it can be committed a second time. This
  came out when the model was given durations of 0; no document says anything of
  them, so there is no run that refutes one. Negative durations are not covered.
- `VersionsAdvance` is about proposals. A new triage starts its backlog items at
  version 1 again (`behavioral_triage_engine.cpp:60-68`).
- `OffersFollowInterventions`: no offer is made on the 29th to 31st, because days
  are clamped to the 28th for one end of the span only; an offer ignores stored
  commitments and other offers, and stays `Proposed` in the table when the start
  of the next one moves. `ConflictDetected` is never given by these commands, and
  a candidate's `updated_at` never moves.
- `DecisionsFollowRule` is stated for batches of distinct ids. `RunIsWhole` compares
  versions for runs named by their inventory only, since a caller's name may be
  used for another inventory.
- `MemoryIsReplay` excludes records whose writes were refused or harmed: readers
  see those until the restart. `harmed` are the records whose own line was cut,
  joined to a cut one, or lost texts in the encoding, and in a lenient layer those
  whose id a cut line begins with: there a full disk does replace an acknowledged
  record of another id, and `DamageIsContained` excepts it by name. Neither property
  says that a load succeeds: a line that does not parse stops all of it. Ids are
  assumed to be free of the characters that are escaped, and values of whole lines
  of other records. `relationship_memory` is written and never read
  back (`memory.cpp:395`).
- `TranscriptKept` and `ShownIsResolvable` are about sessions used by one window,
  on file systems where the session's file opens: windows started in the same
  millisecond share a file and do lose each other's turns, and where the file does
  not open nothing is kept, and accepting any confirmation answers that there is
  none. `TranscriptKept` excepts sessions in which a process died between opening
  the file and writing it (`torn`): all turns before are lost then.
  `AcceptRunsShown` excludes two confirmations of one session made in the same
  millisecond by two windows, which get the same id. `StatusNeverUnderreports`
  excepts sessions in which a confirmation was written while a call for an
  attachment of another window had read the count and not yet what is pending
  (`overlapped`): it is stored beside a count of 0. It says nothing of the other
  direction: the count is taken before the file is rewritten and still says 1 after
  a confirmation is resolved. `NarrationFitsDeed` excludes
  routes deferred for their confidence, the subject of `ShellOutcome.cfg`.
  `RoutedRunsAreGuarded` allows another command to run when the answer's own
  arguments name it.
- `FormIsObeyed` excepts the attributes field: forms and help offer
  `--attributes-json` (`application_bootstrap.cpp:146`, `:152`), but
  `normalize_command_option_key` has no entry for it, so it is stored as
  `attributes-json` while the commands look for `attributes_json` (`:1060`, `:1366`)
  and never find it. Values that begin with dashes or are a command's name are
  excepted too: they run or refuse something else, and required fields left empty
  hold no form back. `TypedIsObeyed` excepts a later command name, the setting
  `--command`, and a setting without its value, which shifts the reading.
- `ReferencesSurvive` excepts a variable whose name has a comma: the form takes one,
  the file keeps it, and the load cuts the name there.
- `KeyFitsRecord` excludes a provider on which a call died, was refused, could not
  write the key, or met another (`troubled`), until the next undisturbed call; two
  calls that overlap in the truncation of the key file are among them.
  `SaveKeepsTheRest` excludes a record appended since the list was refreshed: the
  save then writes the older fields back. The endpoint is not listed and not kept:
  a save makes it the default. A secret source that the window does not know becomes
  `direct`, and a key has to be typed (`provider_setup_window.cpp:290-291`). The key
  itself is not a listed field and not covered. The word "unset" stands for an empty
  field. A line that no load accepts
  stops every later command that loads the file (`ruined`).
- `AttemptsAreTold`: a request whose reply is lost after it was sent is told as not
  attempted (`assign_failure` takes it back), and so is one of a record without a
  model.

## Proofs

Each theorem holds for every value of the constants that satisfies the module's
assumptions and the theorem's hypotheses. Every safety property of a passing run
is the conclusion of one; the runs check the same definitions on small instances.

`BehavioralTriage_proofs` proves `TypeOK`, `RecordsHaveTheirOrigin`,
`AuditTrail`, `AnsweredRequestIsWhole`, `DecisionsFollowRule` and
`VersionsAdvance` for every set of proposals, snapshots and times. None is
inductive alone. `Progress` says what the program counter knows:
that in the middle of a request the proposals of the batch are stored, that the
index whose records are being written is decided and no longer remaining, and
which record comes next for which verdict. `WrittenIsWhole` says that items
already passed are complete, which gives `AnsweredRequestIsWhole` when none is
left. `RankOrder` (whatever is decided was not outranked by anything remaining)
and `RunningCount` (the engine's count is the active number plus the unexpired
proposals under the gate decided so far, up to the cap) turn the loop into the
counting rule of `DecisionsFollowRule`; the lemma `AheadIsPassed` is the heart of
it.

`ProceduralAuditor_proofs` proves `AuditorTypeOK`, `OutcomeHasEvidence`,
`RunIsWhole`, and that the composition implements `BehavioralTriage!Spec`. The
last comes first: every step of an audit is a step of triage or leaves it alone
(`StepIsTriageStep`), so the invariant of triage holds of the composition without
a second proof, and the evidence of an outcome is read off it. `NestedRequest`
says that what triage is working on is what the audit dispatched,
`PassedIsRecorded` that what the audit has passed is recorded once more than its
run was completed, `RunStandsForInventory` that an unnamed run has the inventory
it is named by.

`ControlPlane_proofs` proves `TypeOK`, `OwnershipIsExact`, `NoSilentEscalation` and
`LogIsTrue` for any modules, tiers and nesting. For the first three the
strengthening is about every frame of the stack: past validation its capability
has an owner, past the risk check its tier is at least the owner's, and
registration happens on an empty stack only, so owners never change under a frame.
`LogIsTrue` is about what a reader of the whole log makes of it. `LogInv` relates
that reading to the machine: the stack is the end of the dispatches the reader
holds open (`EndsWith`), the others were abandoned after they had started
(`OthersStarted`), and what he saw end is what was answered (`Agree`). One more
event takes the reading one step further (`ReadMore`), which is the unfolding of
the recursive function `Readings`; it is proved by an induction stated over a set
of numbers, because the library's schemes take an operator.

`MemoryStore_proofs` proves `TypeOK`, `MemoryIsReplay`, `DamageIsContained` and
`IsDurable`, the refinement of `DurableStore` by the layers on sound files, for any
layers, strict or lenient, any ids and any relation of beginnings between them. The
invariant says that the tables are the replay of the files but for the write under
way and the records refused or harmed (`TablesAreReplay`), that a file with an open
line has harmed the record whose id that line is read under, if it is one
(`OpenIsHarmed`), that only faulty layers are harmed (`HarmIsFaulty`), and that the
writes in a file, and the one under way, are numbered in order (`WritesAreOrdered`),
without which a step could show an older write. That an id with a line has a last
one (`LastsExist`) is by the well-foundedness of the naturals.

`Scheduling_proofs` has three parts.

*The engine.* `PlacementIsRight`, for every schedule of commitments and windows of
any size. The hypothesis `PlacementInputs` says that `Origin` and `Horizon` are
natural numbers, that durations, buffers and gaps are not negative, and that `NoSet`
is no constraint set. An offer is sound because it was cut from a gap of the walk
and the padded commitments of that window end before it or start after it; the
earliest place is found because a feasible start lies in some window, after the
greatest of the ends that lie before it, and that gap is one the walk tries. The
steps only add commitments and windows, so `IsInput` (every one has its two times)
is all the invariant there is: the work is in the lemmas `Soundness` and
`Completeness`.

*The commands.* `OffersFollowInterventions`, for any interventions, days and number
of runs cut short anywhere. The hypothesis `CommandInputs` says that the clock has
24 hours and the work is from nine to five, that the commands' own constraint set is
one, that efforts are integers and days are those of a month, and that
interventions are approved ones, the only kind triage writes
(`behavioral_triage_engine.cpp:84`). The engine's answer to a candidate is computed
once and for all (`FitsWhen`, `OfferIs`). The invariant `CommandInv` says that what a
run has still to do is in its table
(`RunTodo`), that the candidate of an intervention not replaced since is the one
built from it (`SettledInv`), and that the last artifact of a candidate not rebuilt
since is what would be written again and is on record (`AnswerInv`). `MCScheduling`
ASSUMEs both hypotheses of its constants.

*The coordination module.* `TypeOK`, `NoDoubleBooking`, `NoSilentOverlap`,
`CommitLeavesEvidence` and `CommittedIsFinal`, for any day, tasks, gaps and number
of requests, with durations from 0 on; the last two for blocks that take time. The
key lemma is `UnblockedIsFree`: what passes the test at commit overlaps no
commitment away from midnight. What the engine offers is free as well
(`PendingIsFree`); its walk takes the greatest of the ends seen, which exists
because `EndsAreBounded` (by well-foundedness of the naturals). `RequestTyped` is
what each phase of a request knows of its record. Proving this found that an earlier
form of `CommitLeavesEvidence`, which excused a decision by where the proposal lies
*now*, was true only within the bounds of the run: hence the history variable
`unguarded`.

`ProviderConfiguration_proofs` proves `ProviderTypeOK`, `KeyFitsRecord`,
`AttemptsAreTold`, `ReferencesSurvive` and `SaveKeepsTheRest`, for requests with any
text as their secret source. `KeyFitsRecord` needs `CleanIsAlone`: a call between
its two writes that is still clean is the only one there on its provider, and the
key on disk is its own. `AttemptsAreTold` is a case analysis of the transport, for
every record, key and network outcome: a request not asked, an executor that failed
before or after sending, a reply. The other three share the invariant `StoredInv`:
records in the file and in the console are such as a load returns, and refer to what
their call named (`TablesOK`), a call's own record is one that was cleaned of
separators (`CallsOK`), the window's list is the file's but for what was appended
since (`ListFits`), its form is the list's but for the fields edited and a source
the window does not know (`FormFits`), and the call it made carries the form
(`WindowCallFits`). So what a save writes in a field nobody edited has gone from the
file to the list, to the form, to the call and back unchanged. They assume that no
provider's name and no default endpoint holds the separator (`ProviderAssumption`).
The first attempt at `ReferencesSurvive` failed, and its counterexample was one of
the code: a variable's name with a comma does not survive a load. The property now
excepts it.

`CommandLine_proofs` proves `LinesAreObeyed` for lines of any length, any texts and
every form filled in any of its fields. It begins with the tables: every alias
stands for a command (`AliasesAreKnown`), and every form has the properties that
the reading relies on (`FormsAreKept`: its command is one, no two of its fields
share a parameter, each option is the command's). The words of a form are a
recursive function of its fields; `WordsAre` and `FormLine` say which word stands
where, by the induction described above. The reader has one pass over the line, so
for each origin of a line there is a predicate that says what has been read when the
pass has come to a word (`FormRead`, `TypedRead`, `AskedRead`, `RefreshRead`,
`NamesRead`), and `LineInv` is their conjunction: for a form, for instance, that the
command is the form's and the parameters are exactly those of the fields passed.

`AssistantShell_proofs` proves all properties of the shell's part of `Shell.cfg` for
any number of windows, answers and bounds. `ExecutedIsGuarded` follows an answer
that runs backwards through deferral, correction and reading. What makes it more
than a restatement is that the confirmation of risky commands is judged twice, on
the name the model gave and on the name it was corrected to, and that the flags are
looked for after the command's own name was put in front. For the others the
invariant adds that an open window is among the users of its session (`Opened`) and
a window in no call is in none (`Settled`), that a file that cannot be opened is
blank (`Unopened`), that a call of a window alone in a whole session has read all
that was said (`TurnOpen`) and what it is about to write has that and its own turn
in it, and the confirmation the window goes on showing (`WritingKept`), that what
such a window shows is pending in the middle of a call too (`ShownHeld`), that every
confirmation on file, shown or about to be written was created in its session
(`Made`), which is what `AcceptRunsShown` rests on, and that the counts an
attachment has read (`CountHeld`) and any call is about to write (`CountWritten`)
fit what is pending. Three lemmas carry the proof, for what calls have in common:
`BeginStep`, `TruncateStep` and `FinishWriteStep`; `NotAlone` is the fact that a
step of one window takes nothing from another that has its session to itself.
`NarrationFitsDeed` has an invariant of its own, `CallsFit`: what a call whose
outcome is yet to be told can have done, by its kind.

Model-checked only: liveness (`EveryDispatchEnds`, `AuditEnds`), which is out of the
prover's reach; and what the runs expected to fail refute, which is shown by a
counterexample. Induction over data is avoided, not done: where a property folds
over a sequence, the fold is a function on numbers whose unfolding is proved by
induction over a set of them.

## Not modelled

- Memory service and repositories: each method forwards to one of the store's.
  The smoke program, the build files and the scripts: wiring without logic.
- Of the application: listings, health checks and what commands print, which
  change nothing, and the seeded data. Of the Windows user interface: drawing,
  menus, layout, the admin window's previews. Of the assistant shell: the tool
  panel, and the provider state kept in the session file, which is displayed and
  never acted on (two of its fields are cut two characters short of their prefix
  when they are read, `assistant_shell_surface_service.cpp:438`, and so grow with
  every rewrite of the file).
- What is attached to a session, and session files that reach the disk in more than
  one piece: opening empties a file, and its text follows at once.
- Texts of records in the store, of which the model says only whether they survive
  their encoding; JSON below the level of
  fields, event log files, request bodies.
- Two processes on the store's record files: the files are only appended to and a
  process reads them at its start, but what interleaved appends of two processes
  make of versions is not modelled. Session files, provider records and keys are
  shared in the models.
- Appends refused inside a triage request: the module ignores their results and
  answers success (`behavioral_triage_module.cpp:140`); `MemoryStore` has what then
  becomes of the record, `ProceduralAuditor` the refused proposal.

`components` in `PROJECT.json` has the reason for each part.

## Plan

Done: triage, auditor, scheduling (engine, module, commands), store, control
plane, command line, router, transport, provider configuration, assistant shell;
proofs of the safety properties of all of these.

Left, in order:

1. Two processes over the store's record files, with versions computed from tables
   loaded before the other's writes.
2. Refused appends inside a triage request.
3. Proofs about the models of both, and of the two liveness properties' safety
   halves: the measure that decreases with every step of a dispatch and of an audit.
