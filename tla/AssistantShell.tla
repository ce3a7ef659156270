---------------------------- MODULE AssistantShell ----------------------------
(***************************************************************************)
(* The assistant shell: windows, each a process of its own, over one       *)
(* session file each.  Every call of the service reads the file, runs      *)
(* commands, and then rewrites the whole file: it is truncated when it is  *)
(* opened and written after that.  A session is named by the millisecond   *)
(* it was started in, so windows started in the same one share a file.     *)
(* The name has the ':' of the time in it: where a file cannot be named    *)
(* so, as on Windows, it does not open, which nothing tests, and nothing   *)
(* is stored or read.                                                      *)
(*                                                                         *)
(* A turn is a submission or the resolution of a confirmation; its         *)
(* messages in the transcript are abstracted to its number, the greeting's *)
(* to 0.  A submission runs operator-query, modelled by what the exact     *)
(* match or the intent router makes of the text.  A command that runs ends *)
(* well ("ok"), with an exit code ("failed") or with an exception          *)
(* ("threw"); what it does is not modelled.  Texts that name               *)
(* operator-query or operator-console themselves are left out, and so are  *)
(* the state of the provider kept in the file, the attachments in it, and  *)
(* files that reach the disk in more than one piece.                       *)
(***************************************************************************)
EXTENDS IntentRouting

CONSTANTS
  Windows,
  Answers,    \* what the provider may answer
  MaxClock,   \* bound: milliseconds at which something happens
  MaxTurns    \* bound: calls begun in one behavior, the greetings not counted

ASSUME ShellAssumption ==
  /\ MaxClock \in Nat /\ MaxTurns \in Nat
  /\ \A a \in Answers : IsAnswer(a)

VARIABLES
  clock,      \* the millisecond it is
  openable,   \* files can be named as sessions are
  configured, \* a provider record is on disk
  files,      \* the session files, by session
  windows,    \* the processes
  \* history and bound
  users,      \* windows that opened a session
  said,       \* turns completed in a session
  created,    \* confirmations created
  torn,       \* sessions in which a process died between opening the file and writing it
  overlapped, \* sessions in which a confirmation was written while another window attached
  turns

history == <<users, said, created, torn, overlapped>>
vars == <<clock, openable, configured, files, windows, history, turns>>

Sessions == 0..MaxClock

NoConfirmation == [id |-> -1, args |-> <<>>]
NoCall == [kind |-> "none", did |-> "nothing", confirm |-> FALSE, args |-> <<>>,
           turn |-> 0, transcript |-> <<>>, count |-> 0]

\* What is read of a file that is empty, or not there, or does not open.
Blank == [transcript |-> <<>>, pending |-> NoConfirmation, count |-> 0]

\* writing: what the file will have in it, once it is written.
Closed == [stage |-> "closed", session |-> 0, showing |-> NoConfirmation,
           call |-> NoCall, writing |-> Blank]

Init ==
  /\ clock = 0 /\ openable \in BOOLEAN /\ configured = FALSE
  /\ files = [s \in Sessions |-> Blank]
  /\ windows = [w \in Windows |-> Closed]
  /\ users = [s \in Sessions |-> {}] /\ said = [s \in Sessions |-> <<>>]
  /\ created = {} /\ torn = {} /\ overlapped = {} /\ turns = 0

Session(w) == windows[w].session
File(w) == files[Session(w)]
Kind(w) == windows[w].call.kind

PendingCount(f) == IF f.pending = NoConfirmation THEN 0 ELSE 1

-----------------------------------------------------------------------------
(* The world around *)

Tick ==
  /\ clock < MaxClock /\ clock' = clock + 1
  /\ UNCHANGED <<openable, configured, files, windows, history, turns>>

\* The provider setup window, or another process, writes the record.
ConfigureProvider ==
  /\ ~configured /\ configured' = TRUE
  /\ UNCHANGED <<clock, openable, files, windows, history, turns>>

\* A process may be closed, or die, at any point; in a write, the file stays empty.
Close(w) ==
  /\ windows[w].stage # "closed"
  /\ windows' = [windows EXCEPT ![w] = Closed]
  /\ torn' = IF windows[w].stage = "writing" THEN torn \union {Session(w)} ELSE torn
  /\ UNCHANGED <<clock, openable, configured, files, users, said, created, overlapped, turns>>

-----------------------------------------------------------------------------
(* persist_session                                                           *)

Stored(s, f) == IF openable THEN [files EXCEPT ![s] = f] ELSE files

\* The file is opened, and is empty from then on.
Truncate(w, f, kind) ==
  /\ files' = Stored(Session(w), Blank)
  /\ windows' = [windows EXCEPT ![w].stage = "writing", ![w].writing = f,
                   ![w].call = [NoCall EXCEPT !.kind = kind, !.turn = windows[w].call.turn]]

\* Some other window of the session has read the status and not yet the rest.
AttachingBeside(w) ==
  \E v \in Windows \ {w} :
    windows[v].stage = "calling" /\ Kind(v) = "attachment" /\ Session(v) = Session(w)

\* The file is written, and the call returns: the window shows the confirmation
\* of the turn, or none; after a resolution it goes on to list the sessions.
FinishWrite(w) ==
  LET call == windows[w].call
      f == windows[w].writing IN
  /\ windows[w].stage = "writing"
  /\ files' = Stored(Session(w), f)
  /\ said' = [said EXCEPT ![Session(w)] =
               IF call.kind = "attachment" THEN @ ELSE Append(@, call.turn)]
  /\ overlapped' = IF f.pending # NoConfirmation /\ AttachingBeside(w)
                   THEN overlapped \union {Session(w)} ELSE overlapped
  /\ windows' = [windows EXCEPT ![w] = [windows[w] EXCEPT
       !.stage = IF call.kind = "resolved" THEN "listing" ELSE "idle",
       !.showing = IF call.kind = "attachment" THEN windows[w].showing ELSE f.pending,
       !.call = NoCall, !.writing = Blank]]
  /\ UNCHANGED <<clock, openable, configured, users, created, torn, turns>>

-----------------------------------------------------------------------------
(* StartOrResumeSession: a file without messages is given a greeting, when   *)
(* the status is there, which may take two commands.                         *)

Greeting == [NoCall EXCEPT !.kind = "greeting"]
IsSilent(s) == files[s].transcript = <<>>

\* A process is started once: one that is started over is another window.
Launch(w) ==
  /\ \A s \in Sessions : w \notin users[s]
  /\ windows' = [windows EXCEPT ![w] =
       IF IsSilent(clock)
       THEN [Closed EXCEPT !.stage = "calling", !.session = clock, !.call = Greeting]
       ELSE [Closed EXCEPT !.stage = "idle", !.session = clock]]
  /\ users' = [users EXCEPT ![clock] = @ \union {w}]
  /\ UNCHANGED <<clock, openable, configured, files, said, created, torn, overlapped, turns>>

\* After a resolution, to fill the tool panel, unless no session is listed.
RefreshPanel(w) ==
  /\ windows[w].stage = "listing"
  /\ \/ windows' = [windows EXCEPT ![w].stage = "idle"]
     \/ /\ openable /\ IsSilent(Session(w))
        /\ windows' = [windows EXCEPT ![w].stage = "calling", ![w].call = Greeting]
  /\ UNCHANGED <<clock, openable, configured, files, history, turns>>

\* The count is that of an empty file, or what the file holds by now.
Greet(w) ==
  /\ windows[w].stage = "calling" /\ Kind(w) = "greeting"
  /\ \E n \in {0, PendingCount(File(w))} :
       Truncate(w, [transcript |-> <<0>>, pending |-> NoConfirmation, count |-> n], "greeting")
  /\ UNCHANGED <<clock, openable, configured, history, turns>>

-----------------------------------------------------------------------------
(* A submission: SubmitUserText reads the transcript and runs               *)
(* operator-query, then rewrites the file and answers.                       *)

\* A call of the service in progress: what runs for it, and what it has read.
Call(w, kind, did, confirm, args) ==
  [kind |-> kind, did |-> did, confirm |-> confirm, args |-> args,
   turn |-> turns + 1, transcript |-> File(w).transcript, count |-> 0]

BeginTurn(w, call) ==
  /\ windows[w].stage = "idle" /\ turns < MaxTurns
  /\ turns' = turns + 1
  /\ windows' = [windows EXCEPT ![w].stage = "calling", ![w].call = call]
  /\ UNCHANGED <<clock, openable, configured, files, history>>

Ask(w, kind, did, confirm, args) == BeginTurn(w, Call(w, kind, did, confirm, args))

Endings == {"ok", "failed", "threw"}

\* The text is a command: it runs, whatever its risk.
SubmitCommand(w) == \E did \in Endings : Ask(w, "exact", did, FALSE, <<>>)

SubmitWithoutProvider(w) == ~configured /\ Ask(w, "no_provider", "nothing", FALSE, <<>>)

Routes == {Route(a) : a \in Answers}

SubmitRejected(w) ==
  configured /\ (\E r \in Routes : Rejected(r)) /\ Ask(w, "rejected", "nothing", FALSE, <<>>)

SubmitDeferred(w) ==
  /\ configured
  /\ \E r \in Routes : Deferred(r) /\ Ask(w, "deferred", "nothing", r.confirm, r.args)

SubmitExecuted(w) ==
  /\ configured
  /\ \E r \in Routes, did \in Endings : Executed(r) /\ Ask(w, "executed", did, r.confirm, <<>>)

\* Mutant of SubmissionOutcome: the exit code is not looked at.
SubmissionOutcomeIgnoresExit(call) ==
  IF call.did = "threw" THEN "failed"
  ELSE IF call.kind = "no_provider" THEN "provider_remediation_needed"
  ELSE IF call.kind = "rejected" THEN "no_action_resolved"
  ELSE IF call.confirm THEN "confirmation_required"
  ELSE "succeeded"

\* Only the flag tells a deferred route from an executed one: one deferred for
\* its confidence alone is reported as completed.
SubmissionOutcome(call) ==
  IF call.did = "threw" THEN "failed"
  ELSE IF call.kind = "no_provider" THEN "provider_remediation_needed"
  ELSE IF call.did = "failed" \/ call.kind = "rejected" THEN "no_action_resolved"
  ELSE IF call.confirm THEN "confirmation_required"
  ELSE "succeeded"

\* Mutant of SubmissionCount: the new confirmation is counted on top.
SubmissionCountAdds(w, pending) ==
  PendingCount(File(w)) + (IF pending = NoConfirmation THEN 0 ELSE 1)

\* Mutant of SubmissionCount: the new confirmation is not counted.
SubmissionCountForgets(w, pending) == PendingCount(File(w))

\* build_status_snapshot counts what the file holds before it is rewritten.
SubmissionCount(w, pending) ==
  IF pending = NoConfirmation THEN PendingCount(File(w)) ELSE 1

\* Mutant of TranscriptOfSubmission: the transcript starts over.
TranscriptStartsOver(call) == <<call.turn>>

TranscriptOfSubmission(call) == Append(call.transcript, call.turn)

Submissions == {"exact", "no_provider", "rejected", "deferred", "executed"}

AnswerSubmission(w) ==
  LET call == windows[w].call
      kind == SubmissionOutcome(call)
      pending == IF kind = "confirmation_required"
                 THEN [id |-> clock, args |-> call.args] ELSE NoConfirmation IN
  /\ windows[w].stage = "calling" /\ call.kind \in Submissions
  /\ Truncate(w, [transcript |-> TranscriptOfSubmission(call), pending |-> pending,
                  count |-> SubmissionCount(w, pending)], "answered")
  /\ created' = IF pending = NoConfirmation THEN created
                ELSE created \union {[session |-> Session(w), id |-> clock, args |-> call.args]}
  /\ UNCHANGED <<clock, openable, configured, users, said, torn, overlapped, turns>>

-----------------------------------------------------------------------------
(* Confirmations: ResolveConfirmation reads the pending one from the file,   *)
(* runs it if it was accepted, and rewrites the file without it.             *)

\* Mutant of Matches: any pending confirmation will do.
MatchesAny(w) == File(w).pending # NoConfirmation

Matches(w) ==
  /\ File(w).pending # NoConfirmation
  /\ File(w).pending.id = windows[w].showing.id

\* Nothing matches: nothing is written, and the window stops showing it.
ResolveUnmatched(w) ==
  /\ windows[w].stage = "idle" /\ turns < MaxTurns
  /\ windows[w].showing # NoConfirmation /\ ~Matches(w)
  /\ turns' = turns + 1
  /\ windows' = [windows EXCEPT ![w].stage = "listing", ![w].showing = NoConfirmation]
  /\ UNCHANGED <<clock, openable, configured, files, history>>

ResolveMatched(w, did) ==
  /\ windows[w].showing # NoConfirmation /\ Matches(w)
  /\ BeginTurn(w, Call(w, "resolution", did, FALSE, File(w).pending.args))

Accept(w) == \E did \in {"ok", "failed"} : ResolveMatched(w, did)
Decline(w) == ResolveMatched(w, "nothing")

\* No handler is between the command and the message loop: if it throws the
\* process ends.
AcceptThrows(w) ==
  /\ windows[w].stage = "idle"
  /\ windows[w].showing # NoConfirmation /\ Matches(w)
  /\ windows' = [windows EXCEPT ![w] = Closed]
  /\ UNCHANGED <<clock, openable, configured, files, history, turns>>

ResolutionOutcome(call) ==
  CASE call.did = "ok" -> "succeeded"
    [] call.did = "failed" -> "failed"
    [] OTHER -> "rejected"

\* The count is again that of the file before: it still says 1.
AnswerResolution(w) ==
  LET call == windows[w].call IN
  /\ windows[w].stage = "calling" /\ call.kind = "resolution"
  /\ Truncate(w, [transcript |-> Append(call.transcript, call.turn), pending |-> NoConfirmation,
                  count |-> PendingCount(File(w))], "resolved")
  /\ UNCHANGED <<clock, openable, configured, history, turns>>

-----------------------------------------------------------------------------
(* AddAttachment and RemoveAttachment rewrite the file with all it held.     *)

\* They read the messages and the last status, and then run two commands for a
\* status they have no use for if there was one.
BeginAttachment(w) ==
  /\ windows[w].stage = "idle" /\ turns < MaxTurns
  /\ turns' = turns + 1
  /\ windows' = [windows EXCEPT ![w].stage = "calling",
       ![w].call = [NoCall EXCEPT !.kind = "attachment", !.transcript = File(w).transcript,
                                  !.count = File(w).count]]
  /\ UNCHANGED <<clock, openable, configured, files, history>>

\* Mutant of WithAttachments: the pending confirmation is not written again.
WithAttachmentsAlone(w) ==
  [transcript |-> windows[w].call.transcript, pending |-> NoConfirmation,
   count |-> windows[w].call.count]

\* Only then do they read what is pending.
WithAttachments(w) ==
  [transcript |-> windows[w].call.transcript, pending |-> File(w).pending,
   count |-> windows[w].call.count]

WriteAttachments(w) ==
  /\ windows[w].stage = "calling" /\ Kind(w) = "attachment"
  /\ Truncate(w, WithAttachments(w), "attachment")
  /\ UNCHANGED <<clock, openable, configured, history, turns>>

-----------------------------------------------------------------------------
Submit(w) ==
  \/ SubmitCommand(w) \/ SubmitWithoutProvider(w)
  \/ SubmitRejected(w) \/ SubmitDeferred(w) \/ SubmitExecuted(w)
Resolve(w) == ResolveUnmatched(w) \/ Accept(w) \/ AcceptThrows(w) \/ Decline(w)

Next ==
  \/ Tick \/ ConfigureProvider
  \/ \E w \in Windows :
       \/ Launch(w) \/ RefreshPanel(w) \/ Greet(w) \/ Close(w) \/ FinishWrite(w)
       \/ Submit(w) \/ AnswerSubmission(w)
       \/ Resolve(w) \/ AnswerResolution(w)
       \/ BeginAttachment(w) \/ WriteAttachments(w)

Spec == Init /\ [][Next]_vars
-----------------------------------------------------------------------------
(* Properties *)

Turns == 1..MaxTurns
Transcripts == Seq({0} \union Turns)
Confirmations == [id : Sessions, args : Seq(Tokens)]
MaybeConfirmation == Confirmations \union {NoConfirmation}
Files == [transcript : Transcripts, pending : MaybeConfirmation, count : 0..1]
Calls == [kind : Submissions \union {"none", "greeting", "resolution", "attachment", "answered", "resolved"},
          did : Endings \union {"nothing"}, confirm : BOOLEAN, args : Seq(Tokens),
          turn : {0} \union Turns, transcript : Transcripts, count : 0..1]
Processes == [stage : {"closed", "idle", "calling", "writing", "listing"}, session : Sessions,
              showing : MaybeConfirmation, call : Calls, writing : Files]

\* Types of all variables.
TypeOK ==
  /\ clock \in Sessions /\ openable \in BOOLEAN /\ configured \in BOOLEAN /\ turns \in 0..MaxTurns
  /\ files \in [Sessions -> Files] /\ windows \in [Windows -> Processes]
  /\ users \in [Sessions -> SUBSET Windows] /\ said \in [Sessions -> Transcripts]
  /\ created \subseteq [session : Sessions, id : Sessions, args : Seq(Tokens)]
  /\ torn \subseteq Sessions /\ overlapped \subseteq Sessions

Unshared(s) == \E w \in Windows : users[s] \subseteq {w}
IsWritten(s) == \E w \in Windows : windows[w].stage = "writing" /\ Session(w) = s

\* Every call rewrites the whole session file from what it read of it earlier.
\* In a session of one window no turn is lost, doubled or displaced by that,
\* whatever attachments come between and wherever the process dies, except that
\* everything is lost if it dies after opening the file and before writing it, and
\* nothing is ever kept where the file does not open.
TranscriptKept ==
  \A s \in Sessions :
    openable /\ Unshared(s) /\ s \notin torn /\ ~IsWritten(s) => files[s].transcript = said[s]

\* The window's memory and the file are written apart.  When a window that has
\* its session to itself shows a confirmation, that one is pending on file, so
\* that accepting it finds it, if session files can be opened at all.  (If not,
\* accepting any confirmation answers that there is none.)
ShownIsResolvable ==
  \A w \in Windows :
    /\ openable /\ Unshared(Session(w))
    /\ windows[w].stage = "idle" /\ windows[w].showing # NoConfirmation
    => File(w).pending = windows[w].showing

\* Two confirmations of a shared session were given one id, in one millisecond.
IdIsShared(w) ==
  /\ ~Unshared(Session(w))
  /\ \E c \in created, d \in created :
       /\ c # d /\ c.session = Session(w) /\ d.session = Session(w)
       /\ c.id = windows[w].showing.id /\ d.id = windows[w].showing.id

\* Accepting runs the command the window shows, even when another window of the
\* session has put its own confirmation in the file, or an earlier one back; only
\* ids made in the same millisecond are not told apart.
AcceptRunsShown ==
  \A w \in Windows :
    Kind(w) = "resolution" /\ windows[w].call.did # "nothing"
      => windows[w].call.args = windows[w].showing.args \/ IdIsShared(w)

\* The count of a session's status is computed from the file before the file is
\* rewritten, and kept by later calls: it never says that nothing is pending
\* when something is, unless another window wrote its confirmation while a call for
\* an attachment had read the count and not yet what is pending.  (It may say 1
\* when nothing is pending any more.)
StatusNeverUnderreports ==
  \A s \in Sessions :
    s \notin overlapped /\ files[s].pending # NoConfirmation => files[s].count = 1

\* What a window with an open turn is about to answer.
Outcome(call) ==
  IF call.kind = "resolution" THEN ResolutionOutcome(call) ELSE SubmissionOutcome(call)
OpenCalls ==
  {call \in {windows[w].call : w \in Windows} : call.kind \in Submissions \union {"resolution"}}

\* What the shell says happened, against what the command did: a success was
\* one, unless the route was deferred for its confidence; nothing ran when it
\* asks for confirmation or for a provider, or says it was cancelled; and what
\* it calls failed or not completed did not end well.
NarrationFitsDeed ==
  \A call \in OpenCalls : LET kind == Outcome(call) IN
    /\ kind = "succeeded" => call.did = "ok" \/ call.kind = "deferred"
    /\ kind \in {"confirmation_required", "provider_remediation_needed", "rejected"}
         => call.did = "nothing"
    /\ kind \in {"failed", "no_action_resolved"} => call.did # "ok"

\* docs/ASSISTANT_SHELL_EXECUTION_TO_NARRATION_BASELINE.md:9: the runtime
\* outcome is the source of truth for what actually happened.
OutcomeIsTruth == \A call \in OpenCalls : Outcome(call) = "succeeded" => call.did = "ok"

\* What may run straight from an answer, through reading, correction, deferral
\* and the parsing of the arguments: the answer was sure and did not ask for
\* confirmation, the command is known and has its flags, and it is not of high
\* risk, unless the arguments name another command.  (A fact about answers, the
\* same in every state: it is looked at before the first turn.)
RoutedRunsAreGuarded ==
  turns = 0 /\ configured =>
    \A a \in Answers : Executed(Route(a)) => IsGuarded(a)
=============================================================================
