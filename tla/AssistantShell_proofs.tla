------------------------ MODULE AssistantShell_proofs ------------------------
(***************************************************************************)
(* Proofs about IntentRouting, whose answers the shell resolves: what a     *)
(* route's arguments are, and that nothing runs straight from an answer    *)
(* that is not guarded.  And about AssistantShell, for any windows,        *)
(* answers and bounds: types, that transcripts are kept and shown          *)
(* confirmations held in sessions of one window, that accepting runs what  *)
(* is shown, and what the status says of pending confirmations.            *)
(***************************************************************************)
EXTENDS AssistantShell, SequenceTheorems, TLAPS

-----------------------------------------------------------------------------
(* Routes *)

LEMMA WithCommandFirstFacts ==
  ASSUME NEW c \in Commands, NEW args \in Seq(Tokens)
  PROVE  /\ WithCommandFirst(c, args) \in Seq(Tokens)
         /\ ToSet(WithCommandFirst(c, args)) \subseteq ToSet(args) \union {c}
<1> c \in Tokens
  BY RoutingAssumption
<1>1. CASE args = <<>>
  BY <1>1 DEF WithCommandFirst, ToSet
<1>2. CASE args # <<>> /\ Head(args) = c
  BY <1>2 DEF WithCommandFirst, ToSet
<1>3. CASE args # <<>> /\ Head(args) # c
  <2>1. WithCommandFirst(c, args) = <<c>> \o args
    BY <1>3 DEF WithCommandFirst
  <2>2. /\ <<c>> \o args \in Seq(Tokens)
        /\ DOMAIN (<<c>> \o args) = 1..(1 + Len(args))
        /\ \A i \in 1..(1 + Len(args)) : (<<c>> \o args)[i] = IF i = 1 THEN c ELSE args[i - 1]
    OBVIOUS
  <2>3. \A i \in 2..(1 + Len(args)) : i - 1 \in DOMAIN args
    OBVIOUS
  <2> QED
    BY <2>1, <2>2, <2>3 DEF ToSet
<1> QED
  BY <1>1, <1>2, <1>3

\* What is read of an answer is a route, whole.
LEMMA ReadFacts ==
  ASSUME NEW a, IsAnswer(a)
  PROVE  LET r == Read(a) IN
         /\ r = [mode |-> r.mode, command |-> r.command, args |-> r.args,
                 confidence |-> r.confidence, confirm |-> r.confirm]
         /\ r.args \in Seq(Tokens) /\ r.confirm \in BOOLEAN /\ r.confidence \in Int
<1>1. CASE ~a.structured
  <2>1. Read(a) = Failure
    BY <1>1 DEF Read
  <2> QED
    BY <2>1 DEF Failure
<1>2. CASE a.structured /\ IsGarbled(a)
  <2>1. Read(a) = [mode |-> a.mode, command |-> NoCommand, args |-> a.args,
                   confidence |-> 0, confirm |-> FALSE]
    BY <1>2 DEF Read, Failure
  <2> QED
    BY <2>1 DEF IsAnswer
<1>3. CASE a.structured /\ ~IsGarbled(a)
  <2>1. Read(a) = [mode |-> a.mode, command |-> a.command, args |-> a.args,
                   confidence |-> Clamped(a.confidence),
                   confirm |-> a.confirm = "true" \/ a.command \in HighRisk]
    BY <1>3 DEF Read
  <2>2. Clamped(a.confidence) \in Int
    BY DEF Clamped, IsAnswer
  <2>3. (a.confirm = "true" \/ a.command \in HighRisk) \in BOOLEAN
    OBVIOUS
  <2> QED
    BY <2>1, <2>2, <2>3 DEF IsAnswer
<1> QED
  BY <1>1, <1>2, <1>3

\* The arguments of a route are words of command lines, and the command a
\* route runs comes with the arguments the answer had.
LEMMA RouteFacts ==
  ASSUME NEW a, IsAnswer(a)
  PROVE  Route(a).args \in Seq(Tokens) /\ Route(a).confirm \in BOOLEAN
<1> DEFINE r == Read(a)
           c == Canonical(r.command)
<1>1. r.args \in Seq(Tokens) /\ r.confirm \in BOOLEAN
  BY ReadFacts
<1>2. CASE Normalize(r) = Failure
  BY <1>2 DEF Route, Failure
<1>3. CASE Normalize(r) # Failure
  <2>1. /\ c \in Commands
        /\ Normalize(r) = [r EXCEPT !.command = c, !.args = WithCommandFirst(c, r.args),
                                    !.confirm = r.confirm \/ c \in HighRisk]
    BY <1>3 DEF Normalize
  <2>2. Normalize(r).args = WithCommandFirst(c, r.args)
        /\ Normalize(r).confirm = (r.confirm \/ c \in HighRisk)
    BY <2>1, ReadFacts
  <2> QED
    BY <1>1, <2>1, <2>2, WithCommandFirstFacts DEF Route
<1> QED
  BY <1>2, <1>3

\* Whatever the provider answers, what runs straight from it is sure, was not
\* to be confirmed, is known, complete and not of high risk; and any other
\* command that runs in its place was named among the arguments.
THEOREM ExecutedIsGuarded ==
  ASSUME NEW a, IsAnswer(a), Executed(Route(a))
  PROVE  IsGuarded(a)
<1> DEFINE r == Read(a)
           c == Canonical(r.command)
<1>1. Normalize(r).mode = "proposed" /\ ~Normalize(r).confirm /\ Normalize(r).confidence >= 9
  <2>1. Normalize(r).confidence \in Int
    BY ReadFacts DEF Normalize, Failure
  <2> QED
    BY <2>1 DEF Executed, Deferred, Route
<1>2. Normalize(r) # Failure
  BY <1>1 DEF Failure
<1>3. /\ r.mode = "proposed" /\ c \in Commands
      /\ HasRequiredFlags(c, WithCommandFirst(c, r.args)) \/ r.confirm \/ c \in HighRisk
      /\ Normalize(r) = [r EXCEPT !.command = c, !.args = WithCommandFirst(c, r.args),
                                  !.confirm = r.confirm \/ c \in HighRisk]
  BY <1>2 DEF Normalize
<1>4. /\ Normalize(r).args = WithCommandFirst(c, r.args)
      /\ Normalize(r).confirm = (r.confirm \/ c \in HighRisk)
      /\ Normalize(r).confidence = r.confidence
  BY <1>3, ReadFacts
<1>5. ~r.confirm /\ c \notin HighRisk /\ r.confidence >= 9
  BY <1>1, <1>4
<1>6. a.structured /\ ~IsGarbled(a)
  BY <1>5 DEF Read, Failure
<1>7. r.args = a.args /\ r.command = a.command /\ r.confidence = Clamped(a.confidence)
      /\ r.confirm = (a.confirm = "true" \/ a.command \in HighRisk)
  BY <1>6 DEF Read
<1>8. a.confidence >= 9 /\ a.confirm = "false"
  <2>1. a.confidence >= 9
    BY <1>5, <1>7 DEF Clamped, IsAnswer
  <2>2. a.confirm # "true" /\ a.confirm # Garbled.truth
    BY <1>5, <1>6, <1>7 DEF IsGarbled
  <2> QED
    BY <2>1, <2>2 DEF IsAnswer
<1>9. a.args \in Seq(Tokens) /\ ToSet(WithCommandFirst(c, a.args)) \subseteq ToSet(a.args) \union {c}
  BY <1>3, <1>7, WithCommandFirstFacts DEF IsAnswer
<1>10. HasRequiredFlags(c, a.args)
  BY <1>3, <1>5, <1>7, <1>9, RoutingAssumption DEF HasRequiredFlags
<1>11. ASSUME NEW other \in Commands \ {c}, Runs(other, Route(a).args)
       PROVE  other \in ToSet(a.args)
  BY <1>4, <1>7, <1>9, <1>11 DEF Runs, Route, ToSet
<1> QED
  BY <1>3, <1>5, <1>7, <1>8, <1>10, <1>11 DEF IsGuarded

-----------------------------------------------------------------------------
(* The inductive invariant *)

\* A window that is open is among the users of its session.
Opened == \A w \in Windows : windows[w].stage # "closed" => w \in users[Session(w)]

\* A window in no call is in none.
Settled == \A w \in Windows : windows[w].stage \in {"closed", "idle", "listing"} => windows[w].call = NoCall

Unopened == ~openable => \A s \in Sessions : files[s] = Blank

\* What is kept holds for a window alone in its session, of which nothing was lost.
Alone(w) == openable /\ Unshared(Session(w))
Intact(w) == Alone(w) /\ Session(w) \notin torn

\* A call in progress has read all that was said.
TurnOpen ==
  \A w \in Windows : windows[w].stage = "calling" =>
    /\ Intact(w) => windows[w].call.transcript = said[Session(w)]
    /\ Kind(w) = "greeting" => windows[w].call = Greeting

\* The transcript a call leaves, by its kind.
Said(w) ==
  IF Kind(w) = "attachment" THEN said[Session(w)] ELSE Append(said[Session(w)], windows[w].call.turn)

\* What is about to be written has that in it, and what the window goes on showing.
WritingKept ==
  \A w \in Windows : windows[w].stage = "writing" =>
    /\ Intact(w) => windows[w].writing.transcript = Said(w)
    /\ Alone(w) /\ Kind(w) = "attachment" /\ windows[w].showing # NoConfirmation
         => windows[w].writing.pending = windows[w].showing

\* ShownIsResolvable, in the middle of a call too.
ShownHeld ==
  \A w \in Windows :
    windows[w].stage \notin {"closed", "writing"} /\ windows[w].showing # NoConfirmation /\ Alone(w)
      => File(w).pending = windows[w].showing

\* Every confirmation on file, shown or about to be written was created in its session.
IsMade(s, p) ==
  p # NoConfirmation => [session |-> s, id |-> p.id, args |-> p.args] \in created
Made ==
  /\ \A s \in Sessions : IsMade(s, files[s].pending)
  /\ \A w \in Windows : /\ IsMade(Session(w), windows[w].showing)
                        /\ IsMade(Session(w), windows[w].writing.pending)

\* A call for an attachment has read a count that fits what is pending by now.
CountHeld ==
  \A w \in Windows :
    /\ windows[w].stage = "calling" /\ Kind(w) = "attachment"
    /\ Session(w) \notin overlapped /\ File(w).pending # NoConfirmation
    => windows[w].call.count = 1

CountWritten ==
  \A w \in Windows :
    /\ windows[w].stage = "writing" /\ Session(w) \notin overlapped
    /\ windows[w].writing.pending # NoConfirmation
    => windows[w].writing.count = 1

IInv ==
  /\ TypeOK /\ Opened /\ Settled /\ Unopened /\ TurnOpen /\ WritingKept /\ TranscriptKept
  /\ ShownHeld /\ Made /\ AcceptRunsShown /\ CountHeld /\ CountWritten /\ StatusNeverUnderreports

-----------------------------------------------------------------------------
(* Types and what calls are made of *)

LEMMA RestFacts ==
  /\ Blank \in Files /\ NoCall \in Calls /\ Greeting \in Calls /\ Closed \in Processes
  /\ Blank.pending = NoConfirmation /\ Blank.transcript = <<>>
  /\ Greeting.kind = "greeting" /\ Greeting.turn = 0 /\ Greeting.transcript = <<>>
  /\ NoCall.kind = "none"
  /\ Closed.stage = "closed" /\ Closed.showing = NoConfirmation /\ Closed.call = NoCall
  /\ Closed.writing = Blank
<1>1. Blank \in Files
  BY DEF Blank, Files, Transcripts, MaybeConfirmation
<1>2. NoCall \in Calls /\ Greeting \in Calls
  <2>1. <<>> \in Transcripts /\ <<>> \in Seq(Tokens)
    BY DEF Transcripts
  <2>2. NoCall \in Calls
    BY <2>1 DEF NoCall, Calls
  <2> QED
    BY <2>2 DEF Greeting, Calls
<1>3. Closed \in Processes
  BY <1>1, <1>2, ShellAssumption DEF Closed, Processes, MaybeConfirmation, Sessions
<1> QED
  BY <1>1, <1>2, <1>3 DEF Blank, NoCall, Greeting, Closed

LEMMA WindowFacts ==
  ASSUME TypeOK, NEW w \in Windows
  PROVE  /\ windows[w] \in Processes /\ Session(w) \in Sessions /\ File(w) \in Files
         /\ windows[w].call \in Calls /\ windows[w].writing \in Files
         /\ windows[w].showing \in MaybeConfirmation
         /\ File(w) = files[windows[w].session] /\ Session(w) = windows[w].session
BY DEF TypeOK, Processes, Session, File

\* Two windows in one session are not alone in it.
LEMMA NotAlone ==
  ASSUME Opened, NEW v \in Windows, NEW w \in Windows, v # w,
         windows[v].stage # "closed", windows[w].stage # "closed", Session(v) = Session(w)
  PROVE  ~Alone(v) /\ ~Alone(w)
BY DEF Opened, Alone, Unshared

LEMMA CallTypes ==
  ASSUME TypeOK, turns < MaxTurns, NEW w \in Windows, NEW kind, NEW did, NEW confirm, NEW args,
         kind \in Submissions \union {"resolution"},
         did \in Endings \union {"nothing"}, confirm \in BOOLEAN, args \in Seq(Tokens)
  PROVE  Call(w, kind, did, confirm, args) \in Calls
<1>1. turns + 1 \in Turns
  BY ShellAssumption DEF TypeOK, Turns
<1>2. File(w).transcript \in Transcripts
  BY WindowFacts DEF Files
<1> QED
  BY <1>1, <1>2 DEF Call, Calls

\* Every submission begins a call of its kind.
LEMMA SubmitFacts ==
  ASSUME TypeOK, NEW w \in Windows, Submit(w)
  PROVE  \E call \in Calls : /\ BeginTurn(w, call) /\ call.kind \in Submissions
                             /\ call.transcript = File(w).transcript
<1>1. \A r \in Routes : r.args \in Seq(Tokens) /\ r.confirm \in BOOLEAN
  BY ShellAssumption, RouteFacts DEF Routes
<1>2. <<>> \in Seq(Tokens) /\ FALSE \in BOOLEAN
  OBVIOUS
<1>3. \E kind \in Submissions,
         did \in Endings \union {"nothing"}, confirm \in BOOLEAN, args \in Seq(Tokens) :
           Ask(w, kind, did, confirm, args)
  <2>0. /\ "exact" \in Submissions /\ "no_provider" \in Submissions /\ "rejected" \in Submissions
        /\ "deferred" \in Submissions /\ "executed" \in Submissions
    BY DEF Submissions
  <2>1. CASE SubmitCommand(w)
    BY <1>2, <2>0, <2>1, Zenon DEF SubmitCommand
  <2>2. CASE SubmitWithoutProvider(w)
    BY <1>2, <2>0, <2>2, Zenon DEF SubmitWithoutProvider
  <2>3. CASE SubmitRejected(w)
    BY <1>2, <2>0, <2>3, Zenon DEF SubmitRejected
  <2>4. CASE SubmitDeferred(w)
    BY <1>1, <2>0, <2>4, Zenon DEF SubmitDeferred
  <2>5. CASE SubmitExecuted(w)
    BY <1>1, <1>2, <2>0, <2>5, Zenon DEF SubmitExecuted
  <2> QED
    BY <2>1, <2>2, <2>3, <2>4, <2>5 DEF Submit
<1>4. PICK kind \in Submissions, did \in Endings \union {"nothing"}, confirm \in BOOLEAN,
           args \in Seq(Tokens) : Ask(w, kind, did, confirm, args)
  BY <1>3
<1> DEFINE call == Call(w, kind, did, confirm, args)
<1>5. BeginTurn(w, call) /\ turns < MaxTurns
  BY <1>4 DEF Ask, BeginTurn
<1>6. call \in Calls
  BY <1>5, CallTypes
<1>7. call.kind = kind /\ call.transcript = File(w).transcript
  BY DEF Call
<1> QED
  BY <1>5, <1>6, <1>7

-----------------------------------------------------------------------------
(* The invariant, step by step *)

LEMMA InitIInv == Init => IInv
<1> SUFFICES ASSUME Init PROVE IInv
  OBVIOUS
<1>1. TypeOK
  <2>1. 0 \in Sessions /\ 0 \in 0..MaxTurns
    BY ShellAssumption DEF Sessions
  <2>2. files \in [Sessions -> Files] /\ windows \in [Windows -> Processes]
    BY RestFacts DEF Init
  <2>3. users \in [Sessions -> SUBSET Windows] /\ said \in [Sessions -> Transcripts]
    BY DEF Init, Transcripts
  <2>4. /\ created \subseteq [session : Sessions, id : Sessions, args : Seq(Tokens)]
        /\ torn \subseteq Sessions /\ overlapped \subseteq Sessions
    BY DEF Init
  <2> QED
    BY <2>1, <2>2, <2>3, <2>4 DEF TypeOK, Init
<1>2. \A s \in Sessions : files[s] = Blank /\ said[s] = <<>>
  BY DEF Init
<1>3. \A w \in Windows : windows[w] = Closed
  BY DEF Init
<1>4. \A w \in Windows : Session(w) \in Sessions
  BY <1>1, WindowFacts
<1>5. Opened /\ Settled /\ Unopened /\ TurnOpen /\ WritingKept
  BY <1>2, <1>3, RestFacts DEF Opened, Settled, Unopened, TurnOpen, WritingKept
<1>6. TranscriptKept /\ ShownHeld /\ StatusNeverUnderreports
  BY <1>2, <1>3, RestFacts DEF TranscriptKept, ShownHeld, StatusNeverUnderreports
<1>7. Made /\ CountHeld /\ CountWritten
  BY <1>2, <1>3, RestFacts DEF Made, IsMade, CountHeld, CountWritten
<1>8. AcceptRunsShown
  BY <1>3, RestFacts DEF AcceptRunsShown, Kind
<1> QED
  BY <1>1, <1>5, <1>6, <1>7, <1>8 DEF IInv

LEMMA AroundStep ==
  ASSUME IInv, Tick \/ ConfigureProvider \/ UNCHANGED vars
  PROVE  IInv'
<1>1. UNCHANGED <<openable, files, windows, users, said, created, torn, overlapped, turns>>
  BY DEF Tick, ConfigureProvider, vars, history
<1>2. TypeOK'
  <2>1. clock \in Sessions
    BY DEF IInv, TypeOK
  <2>2. Tick => clock' \in Sessions
    BY <2>1, ShellAssumption DEF Tick, Sessions
  <2>3. Tick \/ clock' = clock
    BY DEF ConfigureProvider, vars
  <2>4. configured' \in BOOLEAN
    BY DEF Tick, ConfigureProvider, vars, IInv, TypeOK
  <2> QED
    BY <1>1, <2>1, <2>2, <2>3, <2>4 DEF IInv, TypeOK
<1>3. Opened' /\ Settled' /\ Unopened' /\ TurnOpen' /\ WritingKept' /\ TranscriptKept'
  BY <1>1 DEF IInv, Opened, Settled, Unopened, TurnOpen, WritingKept, TranscriptKept, Intact, Alone,
     Said, Unshared, IsWritten, Session, Kind
<1>4. ShownHeld' /\ Made' /\ AcceptRunsShown' /\ CountHeld' /\ CountWritten' /\ StatusNeverUnderreports'
  BY <1>1 DEF IInv, ShownHeld, Made, IsMade, AcceptRunsShown, IdIsShared, CountHeld, CountWritten,
     StatusNeverUnderreports, Alone, Unshared, Session, File, Kind
<1> QED
  BY <1>2, <1>3, <1>4 DEF IInv

\* A process that ends leaves the files as they are; in a write, its session is torn.
LEMMA CloseStep ==
  ASSUME IInv, NEW w \in Windows, Close(w) \/ AcceptThrows(w)
  PROVE  IInv'
<1> USE DEF IInv
<1>1. /\ windows' = [windows EXCEPT ![w] = Closed]
      /\ torn' = IF windows[w].stage = "writing" THEN torn \union {Session(w)} ELSE torn
      /\ UNCHANGED <<clock, openable, configured, files, users, said, created, overlapped, turns>>
  BY DEF Close, AcceptThrows, history
<1>2. TypeOK'
  BY <1>1, RestFacts, WindowFacts DEF TypeOK
<1>3. /\ windows'[w] = Closed
      /\ \A v \in Windows \ {w} : windows'[v] = windows[v]
  BY <1>1 DEF TypeOK
<1>4. torn \subseteq torn'
  BY <1>1
<1>5. Opened' /\ Settled' /\ Unopened'
  BY <1>1, <1>3, RestFacts DEF Opened, Settled, Unopened, Session
<1>6. TurnOpen' /\ WritingKept'
  <2>1. ASSUME NEW v \in Windows, windows'[v].stage # "closed"
        PROVE  /\ windows'[v] = windows[v] /\ Said(v)' = Said(v)
               /\ (Intact(v)' => Intact(v)) /\ (Alone(v)' => Alone(v))
    BY <1>1, <1>3, <1>4, <2>1, RestFacts DEF Intact, Alone, Unshared, Said, Session, Kind
  <2>2. TurnOpen'
    BY <1>1, <2>1 DEF TurnOpen, Session, Kind
  <2>3. WritingKept'
    BY <2>1 DEF WritingKept, Kind
  <2> QED
    BY <2>2, <2>3
<1>7. TranscriptKept'
  <2>1. ASSUME NEW s \in Sessions, s \notin torn', ~IsWritten(s)' PROVE ~IsWritten(s)
    BY <1>1, <1>3, <2>1 DEF IsWritten, Session
  <2> QED
    BY <1>1, <1>4, <2>1 DEF TranscriptKept, Unshared
<1>8. ShownHeld' /\ CountHeld' /\ CountWritten' /\ StatusNeverUnderreports'
  BY <1>1, <1>3, RestFacts DEF ShownHeld, CountHeld, CountWritten, StatusNeverUnderreports, Alone,
     Unshared, Session, File, Kind
<1>9. Made'
  BY <1>1, <1>3, RestFacts DEF Made, IsMade, Session
<1>10. AcceptRunsShown'
  BY <1>1, <1>3, RestFacts DEF AcceptRunsShown, IdIsShared, Unshared, Session, Kind
<1> QED
  BY <1>2, <1>5, <1>6, <1>7, <1>8, <1>9, <1>10

\* A window that starts finds in the file all that was said, if it is alone in its
\* session.
LEMMA LaunchStep ==
  ASSUME IInv, NEW w \in Windows, Launch(w)
  PROVE  IInv'
<1> USE DEF IInv
<1>1. PICK p \in Processes :
        /\ windows' = [windows EXCEPT ![w] = p]
        /\ p.session = clock /\ p.showing = NoConfirmation /\ p.writing = Blank
        /\ \/ p.stage = "idle" /\ p.call = NoCall
           \/ p.stage = "calling" /\ p.call = Greeting /\ IsSilent(clock)
  <2>1. CASE IsSilent(clock)
    <3> DEFINE p == [Closed EXCEPT !.stage = "calling", !.session = clock, !.call = Greeting]
    <3>1. p \in Processes
      BY RestFacts DEF Processes, TypeOK
    <3>2. p.session = clock /\ p.showing = NoConfirmation /\ p.writing = Blank
          /\ p.stage = "calling" /\ p.call = Greeting
      BY DEF Closed
    <3> QED
      BY <2>1, <3>1, <3>2 DEF Launch
  <2>2. CASE ~IsSilent(clock)
    <3> DEFINE p == [Closed EXCEPT !.stage = "idle", !.session = clock]
    <3>1. p \in Processes
      BY RestFacts DEF Processes, TypeOK
    <3>2. p.session = clock /\ p.showing = NoConfirmation /\ p.writing = Blank
          /\ p.stage = "idle" /\ p.call = NoCall
      BY DEF Closed
    <3> QED
      BY <2>2, <3>1, <3>2 DEF Launch
  <2> QED
    BY <2>1, <2>2
<1>2. /\ users' = [users EXCEPT ![clock] = @ \union {w}]
      /\ UNCHANGED <<clock, openable, configured, files, said, created, torn, overlapped, turns>>
      /\ w \notin users[clock] /\ clock \in Sessions
  BY DEF Launch, TypeOK
<1>3. /\ windows'[w] = p
      /\ \A v \in Windows \ {w} : windows'[v] = windows[v]
  BY <1>1 DEF TypeOK
<1>4. \A s \in Sessions : users[s] \subseteq users'[s]
  BY <1>2 DEF TypeOK
<1>5. w \in users'[clock] /\ \A s \in Sessions : Unshared(s)' => Unshared(s)
  BY <1>2, <1>4 DEF TypeOK, Unshared
<1>6. TypeOK'
  BY <1>1, <1>2 DEF TypeOK
<1>7. Opened' /\ Settled' /\ Unopened'
  BY <1>1, <1>2, <1>3, <1>4, <1>5, RestFacts, WindowFacts DEF Opened, Settled, Unopened, Session
<1>8. \A s \in Sessions : IsWritten(s)' => IsWritten(s)
  BY <1>1, <1>3 DEF IsWritten, Session
<1>9. windows[w].stage = "closed"
  BY <1>2, WindowFacts DEF Opened, Launch
<1>10. \A s \in Sessions : IsWritten(s) => IsWritten(s)'
  BY <1>3, <1>9 DEF IsWritten, Session
<1>11. TranscriptKept'
  BY <1>2, <1>5, <1>10 DEF TranscriptKept
<1>12. ASSUME NEW v \in Windows, v # w
       PROVE  /\ windows'[v] = windows[v] /\ Session(v)' = Session(v) /\ Session(v) \in Sessions
              /\ Said(v)' = Said(v) /\ Kind(v)' = Kind(v)
              /\ (Alone(v)' => Alone(v)) /\ (Intact(v)' => Intact(v))
  BY <1>2, <1>3, <1>5, <1>12, WindowFacts DEF Alone, Intact, Said, Session, Kind
<1>13. TurnOpen'
  <2>1. ASSUME Intact(w)', p.stage = "calling" PROVE said[clock] = <<>>
    <3>1. openable /\ Unshared(clock)' /\ clock \notin torn
      BY <1>1, <1>2, <1>3, <2>1 DEF Intact, Alone, Session
    <3>2. users[clock] = {}
      BY <1>2, <1>5, <3>1 DEF Unshared, TypeOK
    <3>3. ~IsWritten(clock)
      BY <3>2 DEF IsWritten, Opened
    <3> QED
      BY <1>1, <1>2, <1>5, <2>1, <3>1, <3>3 DEF TranscriptKept, IsSilent
  <2>2. p.stage = "calling" => /\ p.call = Greeting
                               /\ Intact(w)' => p.call.transcript = said[clock]
    BY <1>1, <2>1, RestFacts
  <2> QED
    BY <1>1, <1>2, <1>3, <1>12, <2>2 DEF TurnOpen, Session, Kind
<1>14. WritingKept'
  BY <1>1, <1>3, <1>12 DEF WritingKept
<1>15. ShownHeld'
  BY <1>1, <1>2, <1>3, <1>12 DEF ShownHeld, File
<1>16. Made'
  BY <1>1, <1>2, <1>3, <1>12, RestFacts DEF Made, IsMade, Session
<1>17. AcceptRunsShown'
  <2>1. p.call.kind # "resolution"
    BY <1>1, RestFacts
  <2>2. ASSUME NEW v \in Windows, v # w, IdIsShared(v) PROVE IdIsShared(v)'
    BY <1>2, <1>3, <1>5, <1>12, <2>2 DEF IdIsShared
  <2> QED
    BY <1>3, <1>12, <2>1, <2>2 DEF AcceptRunsShown, Kind
<1>18. CountHeld' /\ CountWritten' /\ StatusNeverUnderreports'
  BY <1>1, <1>2, <1>3, <1>12, RestFacts DEF CountHeld, CountWritten, StatusNeverUnderreports, File, Kind
<1> QED
  BY <1>6, <1>7, <1>11, <1>13, <1>14, <1>15, <1>16, <1>17, <1>18

\* A call begins with what it has read of the file.
LEMMA BeginStep ==
  ASSUME IInv, NEW w \in Windows, NEW call \in Calls,
         windows[w].stage \in {"idle", "listing"},
         windows' = [windows EXCEPT ![w] = [windows[w] EXCEPT !.stage = "calling", !.call = call]],
         UNCHANGED <<clock, openable, configured, files, users, said, created, torn, overlapped>>,
         turns' \in 0..MaxTurns,
         Intact(w) => call.transcript = said[Session(w)],
         call.kind = "greeting" => call = Greeting,
         call.kind = "attachment" => call.count = File(w).count,
         call.kind = "resolution" /\ call.did # "nothing" =>
           call.args = windows[w].showing.args \/ IdIsShared(w)
  PROVE  IInv'
<1> USE DEF IInv
<1>1. /\ windows'[w].stage = "calling" /\ windows'[w].call = call
      /\ windows'[w].session = windows[w].session /\ windows'[w].showing = windows[w].showing
      /\ windows'[w].writing = windows[w].writing
      /\ \A v \in Windows \ {w} : windows'[v] = windows[v]
  BY WindowFacts DEF TypeOK, Processes
<1>2. windows' \in [Windows -> Processes]
  BY WindowFacts DEF TypeOK, Processes
<1>3. TypeOK'
  BY <1>2 DEF TypeOK
<1>4. \A v \in Windows : /\ Session(v)' = Session(v) /\ (Alone(v)' <=> Alone(v)) /\ (Intact(v)' <=> Intact(v))
                         /\ File(v)' = File(v)
  BY <1>1 DEF Session, Alone, Intact, Unshared, File
<1>5. \A v \in Windows : v # w => Said(v)' = Said(v) /\ Kind(v)' = Kind(v)
  BY <1>1, <1>4 DEF Said, Kind
<1>6. Opened' /\ Settled' /\ Unopened'
  BY <1>1, <1>4 DEF Opened, Settled, Unopened
<1>7. TurnOpen'
  BY <1>1, <1>4, <1>5 DEF TurnOpen, Kind
<1>8. WritingKept'
  BY <1>1, <1>4, <1>5 DEF WritingKept
<1>9. \A s \in Sessions : IsWritten(s)' = IsWritten(s)
  BY <1>1, <1>4 DEF IsWritten
<1>10. TranscriptKept'
  BY <1>9 DEF TranscriptKept, Unshared
<1>11. ShownHeld' /\ Made'
  BY <1>1, <1>4 DEF ShownHeld, Made, IsMade
<1>12. AcceptRunsShown'
  <2>1. \A v \in Windows : IdIsShared(v)' = IdIsShared(v)
    BY <1>1, <1>4 DEF IdIsShared, Unshared
  <2> QED
    BY <1>1, <1>5, <2>1 DEF AcceptRunsShown, Kind
<1>13. CountHeld'
  BY <1>1, <1>4, <1>5, WindowFacts DEF CountHeld, StatusNeverUnderreports, Kind
<1>14. CountWritten' /\ StatusNeverUnderreports'
  BY <1>1, <1>4 DEF CountWritten, StatusNeverUnderreports
<1> QED
  BY <1>3, <1>6, <1>7, <1>8, <1>10, <1>11, <1>12, <1>13, <1>14

LEMMA BeginTurnFacts ==
  ASSUME TypeOK, NEW w \in Windows, NEW call, BeginTurn(w, call)
  PROVE  /\ windows[w].stage = "idle"
         /\ windows' = [windows EXCEPT ![w] = [windows[w] EXCEPT !.stage = "calling", !.call = call]]
         /\ UNCHANGED <<clock, openable, configured, files, users, said, created, torn, overlapped>>
         /\ turns' \in 0..MaxTurns
<1>1. windows' = [windows EXCEPT ![w] = [windows[w] EXCEPT !.stage = "calling", !.call = call]]
  BY DEF BeginTurn, TypeOK, Processes
<1>2. turns' \in 0..MaxTurns
  BY ShellAssumption DEF BeginTurn, TypeOK
<1> QED
  BY <1>1, <1>2 DEF BeginTurn, history

\* A window in no write that is alone in its session finds all that was said in the file.
LEMMA ReadsAll ==
  ASSUME IInv, NEW w \in Windows, windows[w].stage \in {"idle", "listing"}, Intact(w)
  PROVE  File(w).transcript = said[Session(w)]
<1>1. ~IsWritten(Session(w))
  BY NotAlone DEF IInv, IsWritten, Intact
<1> QED
  BY <1>1, WindowFacts DEF IInv, TranscriptKept, Intact, Alone, File, Session

LEMMA SubmitStep ==
  ASSUME IInv, NEW w \in Windows, Submit(w)
  PROVE  IInv'
<1>1. PICK call \in Calls : /\ BeginTurn(w, call) /\ call.kind \in Submissions
                            /\ call.transcript = File(w).transcript
  BY SubmitFacts DEF IInv
<1>2. /\ windows[w].stage = "idle"
      /\ windows' = [windows EXCEPT ![w] = [windows[w] EXCEPT !.stage = "calling", !.call = call]]
      /\ UNCHANGED <<clock, openable, configured, files, users, said, created, torn, overlapped>>
      /\ turns' \in 0..MaxTurns
  BY <1>1, BeginTurnFacts DEF IInv
<1>3. Intact(w) => call.transcript = said[Session(w)]
  BY <1>1, <1>2, ReadsAll
<1>4. call.kind \notin {"greeting", "attachment", "resolution"}
  BY <1>1 DEF Submissions
<1> QED
  BY <1>2, <1>3, <1>4, BeginStep

\* What matches by its id is what is shown, or another got the same id.
LEMMA ResolveMatchedStep ==
  ASSUME IInv, NEW w \in Windows, NEW did \in Endings \union {"nothing"}, ResolveMatched(w, did)
  PROVE  IInv'
<1> USE DEF IInv
<1> DEFINE call == Call(w, "resolution", did, FALSE, File(w).pending.args)
           p == File(w).pending
           q == windows[w].showing
<1>1. BeginTurn(w, call) /\ turns < MaxTurns /\ q # NoConfirmation /\ p # NoConfirmation /\ p.id = q.id
  BY DEF ResolveMatched, Matches, BeginTurn
<1>2. p \in Confirmations /\ q \in Confirmations /\ Session(w) \in Sessions
  BY <1>1, WindowFacts DEF Files, MaybeConfirmation
<1>3. call \in Calls
  BY <1>1, <1>2, CallTypes DEF Confirmations
<1>4. call.kind = "resolution" /\ call.args = p.args /\ call.transcript = File(w).transcript
  BY DEF Call
<1>5. windows[w].stage = "idle"
  BY <1>1 DEF BeginTurn
<1>6. p.args = q.args \/ IdIsShared(w)
  <2>1. CASE Unshared(Session(w))
    <3>1. openable
      BY <1>1, <1>2, RestFacts DEF Unopened, File
    <3> QED
      BY <1>1, <1>5, <2>1, <3>1 DEF ShownHeld, Alone
  <2>2. CASE ~Unshared(Session(w)) /\ p.args # q.args
    <3> DEFINE c == [session |-> Session(w), id |-> p.id, args |-> p.args]
               d == [session |-> Session(w), id |-> q.id, args |-> q.args]
    <3>1. c \in created /\ d \in created
      BY <1>1, <1>2 DEF Made, IsMade, File
    <3>2. c # d
      BY <2>2
    <3> QED
      BY <1>1, <2>2, <3>1, <3>2 DEF IdIsShared
  <2> QED
    BY <2>1, <2>2
<1>7. Intact(w) => call.transcript = said[Session(w)]
  BY <1>4, <1>5, ReadsAll
<1> HIDE DEF call
<1>8. /\ windows' = [windows EXCEPT ![w] = [windows[w] EXCEPT !.stage = "calling", !.call = call]]
      /\ UNCHANGED <<clock, openable, configured, files, users, said, created, torn, overlapped>>
      /\ turns' \in 0..MaxTurns
  BY <1>1, BeginTurnFacts
<1> QED
  BY <1>3, <1>4, <1>5, <1>6, <1>7, <1>8, BeginStep

LEMMA BeginAttachmentStep ==
  ASSUME IInv, NEW w \in Windows, BeginAttachment(w)
  PROVE  IInv'
<1> DEFINE call == [NoCall EXCEPT !.kind = "attachment", !.transcript = File(w).transcript,
                                  !.count = File(w).count]
<1>1. /\ windows[w].stage = "idle"
      /\ windows' = [windows EXCEPT ![w] = [windows[w] EXCEPT !.stage = "calling", !.call = call]]
      /\ UNCHANGED <<clock, openable, configured, files, users, said, created, torn, overlapped>>
  BY DEF BeginAttachment, history, IInv, TypeOK, Processes
<1>2. turns' \in 0..MaxTurns
  BY ShellAssumption DEF BeginAttachment, IInv, TypeOK
<1>3. call \in Calls
  BY RestFacts, WindowFacts DEF Calls, Files, IInv
<1>4. call.kind = "attachment" /\ call.transcript = File(w).transcript /\ call.count = File(w).count
  BY DEF NoCall
<1>5. Intact(w) => call.transcript = said[Session(w)]
  BY <1>1, <1>4, ReadsAll
<1> HIDE DEF call
<1> QED
  BY <1>1, <1>2, <1>3, <1>4, <1>5, BeginStep

\* A call that is done empties the file, and has in hand what will be in it.
LEMMA TruncateStep ==
  ASSUME IInv, NEW w \in Windows, NEW f \in Files,
         NEW kind \in {"greeting", "attachment", "answered", "resolved"},
         windows[w].stage = "calling", Truncate(w, f, kind),
         UNCHANGED <<clock, openable, configured, users, said, torn, overlapped, turns>>,
         created \subseteq created',
         created' \subseteq [session : Sessions, id : Sessions, args : Seq(Tokens)],
         Intact(w) => f.transcript = IF kind = "attachment" THEN said[Session(w)]
                                     ELSE Append(said[Session(w)], windows[w].call.turn),
         Alone(w) /\ kind = "attachment" /\ windows[w].showing # NoConfirmation
           => f.pending = windows[w].showing,
         f.pending # NoConfirmation
           => [session |-> Session(w), id |-> f.pending.id, args |-> f.pending.args] \in created',
         f.pending # NoConfirmation /\ Session(w) \notin overlapped => f.count = 1
  PROVE  IInv'
<1> USE DEF IInv
<1> DEFINE call == [NoCall EXCEPT !.kind = kind, !.turn = windows[w].call.turn]
<1>1. call \in Calls /\ call.kind = kind /\ call.turn = windows[w].call.turn
  BY RestFacts, WindowFacts DEF NoCall, Calls
<1>2. windows' = [windows EXCEPT ![w] = [windows[w] EXCEPT !.stage = "writing", !.writing = f, !.call = call]]
  BY DEF Truncate, TypeOK, Processes
<1> HIDE DEF call
<1>3. /\ windows'[w].stage = "writing" /\ windows'[w].call = call /\ windows'[w].writing = f
      /\ windows'[w].session = windows[w].session /\ windows'[w].showing = windows[w].showing
      /\ \A v \in Windows \ {w} : windows'[v] = windows[v]
  BY <1>2, WindowFacts DEF TypeOK, Processes
<1>4. windows' \in [Windows -> Processes]
  BY <1>1, <1>2, WindowFacts DEF TypeOK, Processes
<1>5. /\ files' \in [Sessions -> Files] /\ files'[Session(w)] = Blank
      /\ \A s \in Sessions : s # Session(w) => files'[s] = files[s]
      /\ ~openable => files' = files
  BY RestFacts, WindowFacts DEF Truncate, Stored, Unopened, TypeOK
<1>6. TypeOK'
  BY <1>4, <1>5 DEF TypeOK
<1>7. \A v \in Windows : /\ Session(v)' = Session(v) /\ (Alone(v)' <=> Alone(v)) /\ (Intact(v)' <=> Intact(v))
                         /\ Session(v) \in Sessions
  BY <1>3, WindowFacts DEF Session, Alone, Intact, Unshared
<1>8. \A v \in Windows : v # w => Said(v)' = Said(v) /\ Kind(v)' = Kind(v)
  BY <1>3, <1>7 DEF Said, Kind
<1>9. Opened' /\ Settled' /\ Unopened'
  BY <1>3, <1>5, <1>7 DEF Opened, Settled, Unopened
<1>10. TurnOpen'
  BY <1>3, <1>7, <1>8 DEF TurnOpen
<1>11. WritingKept'
  BY <1>1, <1>3, <1>7, <1>8 DEF WritingKept, Said, Kind
<1>12. TranscriptKept'
  <2>1. \A s \in Sessions : ~IsWritten(s)' => s # Session(w)
    BY <1>3, <1>7 DEF IsWritten
  <2>2. \A s \in Sessions : IsWritten(s) => IsWritten(s)'
    BY <1>3, <1>7 DEF IsWritten
  <2> SUFFICES ASSUME NEW s \in Sessions, openable, Unshared(s), s \notin torn, ~IsWritten(s)'
               PROVE  files'[s].transcript = said[s]
    BY DEF TranscriptKept, Unshared
  <2>3. s # Session(w) /\ ~IsWritten(s)
    BY <2>1, <2>2
  <2> QED
    BY <1>5, <2>3 DEF TranscriptKept
<1>13. ShownHeld'
  <2> SUFFICES ASSUME NEW v \in Windows, windows'[v].stage \notin {"closed", "writing"},
                      windows'[v].showing # NoConfirmation, Alone(v)'
               PROVE  File(v)' = File(v)
    BY <1>3, <1>7 DEF ShownHeld
  <2>1. v # w /\ windows[v].stage # "closed" /\ Alone(v)
    BY <1>3, <1>7
  <2>2. Session(v) # Session(w)
    BY <2>1, NotAlone
  <2> QED
    BY <1>5, <1>7, <2>2 DEF File
<1>14. Made'
  <2>1. \A s \in Sessions : IsMade(s, files[s].pending)'
    BY <1>5, RestFacts DEF Made, IsMade
  <2>2. \A v \in Windows : IsMade(Session(v), windows[v].showing)'
    BY <1>3, <1>7 DEF Made, IsMade
  <2>3. ASSUME NEW v \in Windows PROVE IsMade(Session(v), windows[v].writing.pending)'
    <3>1. CASE v = w
      BY <1>3, <1>7, <3>1 DEF IsMade
    <3>2. CASE v # w
      BY <1>3, <1>7, <3>2 DEF Made, IsMade
    <3> QED
      BY <3>1, <3>2
  <2> QED
    BY <2>1, <2>2, <2>3 DEF Made
<1>15. AcceptRunsShown'
  <2>1. ASSUME NEW v \in Windows, IdIsShared(v), v # w PROVE IdIsShared(v)'
    BY <1>3, <1>7, <2>1 DEF IdIsShared, Unshared
  <2>2. Kind(w)' # "resolution"
    BY <1>1, <1>3 DEF Kind
  <2> QED
    BY <1>3, <1>8, <2>1, <2>2 DEF AcceptRunsShown
<1>16. CountHeld' /\ StatusNeverUnderreports'
  BY <1>3, <1>5, <1>7, <1>8, RestFacts DEF CountHeld, StatusNeverUnderreports, File
<1>17. CountWritten'
  BY <1>3, <1>7 DEF CountWritten
<1> QED
  BY <1>6, <1>9, <1>10, <1>11, <1>12, <1>13, <1>14, <1>15, <1>16, <1>17

LEMMA GreetStep ==
  ASSUME IInv, NEW w \in Windows, Greet(w)
  PROVE  IInv'
<1>1. PICK n \in {0, PendingCount(File(w))} :
        Truncate(w, [transcript |-> <<0>>, pending |-> NoConfirmation, count |-> n], "greeting")
  BY DEF Greet
<1> DEFINE f == [transcript |-> <<0>>, pending |-> NoConfirmation, count |-> n]
<1>2. f \in Files /\ f.pending = NoConfirmation /\ f.transcript = <<0>>
  <2>1. n \in 0..1
    BY DEF PendingCount
  <2>2. <<0>> \in Transcripts
    BY DEF Transcripts
  <2> QED
    BY <2>1, <2>2 DEF Files, MaybeConfirmation
<1>3. /\ windows[w].stage = "calling"
      /\ UNCHANGED <<clock, openable, configured, users, said, created, torn, overlapped, turns>>
  BY DEF Greet, history
<1>4. Intact(w) => f.transcript = Append(said[Session(w)], windows[w].call.turn)
  <2>1. windows[w].call = Greeting /\ (Intact(w) => said[Session(w)] = <<>>)
    BY RestFacts DEF Greet, IInv, TurnOpen
  <2> QED
    BY <1>2, <2>1, RestFacts
<1> HIDE DEF f
<1>5. Truncate(w, f, "greeting")
  BY <1>1 DEF f
<1>6. created \subseteq [session : Sessions, id : Sessions, args : Seq(Tokens)]
  BY DEF IInv, TypeOK
<1> QED
  BY <1>2, <1>3, <1>4, <1>5, <1>6, TruncateStep

LEMMA AnswerSubmissionStep ==
  ASSUME IInv, NEW w \in Windows, AnswerSubmission(w)
  PROVE  IInv'
<1> DEFINE call == windows[w].call
           p == IF SubmissionOutcome(call) = "confirmation_required"
                THEN [id |-> clock, args |-> call.args] ELSE NoConfirmation
           f == [transcript |-> TranscriptOfSubmission(call), pending |-> p, count |-> SubmissionCount(w, p)]
           made == [session |-> Session(w), id |-> clock, args |-> call.args]
<1>1. /\ windows[w].stage = "calling" /\ Truncate(w, f, "answered")
      /\ created' = IF p = NoConfirmation THEN created ELSE created \union {made}
      /\ UNCHANGED <<clock, openable, configured, users, said, torn, overlapped, turns>>
  BY DEF AnswerSubmission
<1>2. Session(w) \in Sessions /\ call \in Calls /\ clock \in Sessions
  BY WindowFacts DEF IInv, TypeOK
<1>3. p \in MaybeConfirmation /\ (p # NoConfirmation => p.id = clock /\ p.args = call.args)
  BY <1>2 DEF MaybeConfirmation, Confirmations, Calls
<1>4. SubmissionCount(w, p) \in 0..1 /\ (p # NoConfirmation => SubmissionCount(w, p) = 1)
  BY DEF SubmissionCount, PendingCount
<1>5. TranscriptOfSubmission(call) \in Transcripts
  BY <1>2 DEF TranscriptOfSubmission, Transcripts, Calls
<1>6. /\ f \in Files /\ f.pending = p /\ f.count = SubmissionCount(w, p)
      /\ f.transcript = TranscriptOfSubmission(call)
  BY <1>3, <1>4, <1>5 DEF Files
<1>7. made \in [session : Sessions, id : Sessions, args : Seq(Tokens)]
  BY <1>2 DEF Calls
<1>8. /\ created \subseteq created'
      /\ created' \subseteq [session : Sessions, id : Sessions, args : Seq(Tokens)]
  BY <1>1, <1>7 DEF IInv, TypeOK
<1>9. p # NoConfirmation => [session |-> Session(w), id |-> p.id, args |-> p.args] \in created'
  BY <1>1, <1>3
<1>10. Intact(w) => f.transcript = Append(said[Session(w)], windows[w].call.turn)
  BY <1>1, <1>6 DEF IInv, TurnOpen, TranscriptOfSubmission
<1> HIDE DEF f, p, call
<1> QED
  BY <1>1, <1>4, <1>6, <1>8, <1>9, <1>10, TruncateStep

LEMMA AnswerResolutionStep ==
  ASSUME IInv, NEW w \in Windows, AnswerResolution(w)
  PROVE  IInv'
<1> DEFINE call == windows[w].call
           f == [transcript |-> Append(call.transcript, call.turn), pending |-> NoConfirmation,
                 count |-> PendingCount(File(w))]
<1>1. /\ windows[w].stage = "calling" /\ Truncate(w, f, "resolved")
      /\ UNCHANGED <<clock, openable, configured, users, said, created, torn, overlapped, turns>>
  BY DEF AnswerResolution, history
<1>2. Append(call.transcript, call.turn) \in Transcripts
  BY WindowFacts DEF IInv, Transcripts, Calls
<1>3. f \in Files /\ f.pending = NoConfirmation /\ f.transcript = Append(call.transcript, call.turn)
  BY <1>2 DEF Files, MaybeConfirmation, PendingCount
<1>4. Intact(w) => f.transcript = Append(said[Session(w)], windows[w].call.turn)
  BY <1>1, <1>3 DEF IInv, TurnOpen
<1>5. created \subseteq [session : Sessions, id : Sessions, args : Seq(Tokens)]
  BY DEF IInv, TypeOK
<1> HIDE DEF f
<1> QED
  BY <1>1, <1>3, <1>4, <1>5, TruncateStep

LEMMA WriteAttachmentsStep ==
  ASSUME IInv, NEW w \in Windows, WriteAttachments(w)
  PROVE  IInv'
<1> DEFINE f == WithAttachments(w)
<1>1. /\ windows[w].stage = "calling" /\ Kind(w) = "attachment" /\ Truncate(w, f, "attachment")
      /\ UNCHANGED <<clock, openable, configured, users, said, created, torn, overlapped, turns>>
  BY DEF WriteAttachments, history
<1>2. /\ f \in Files /\ f.transcript = windows[w].call.transcript
      /\ f.pending = File(w).pending /\ f.count = windows[w].call.count
  BY WindowFacts DEF WithAttachments, Files, Calls, IInv
<1>3. Intact(w) => f.transcript = said[Session(w)]
  BY <1>1, <1>2 DEF IInv, TurnOpen
<1>4. Alone(w) /\ windows[w].showing # NoConfirmation => f.pending = windows[w].showing
  BY <1>1, <1>2 DEF IInv, ShownHeld
<1>5. f.pending # NoConfirmation
        => [session |-> Session(w), id |-> f.pending.id, args |-> f.pending.args] \in created
  BY <1>2, WindowFacts DEF IInv, Made, IsMade, File
<1>6. f.pending # NoConfirmation /\ Session(w) \notin overlapped => f.count = 1
  BY <1>1, <1>2 DEF IInv, CountHeld
<1>7. created \subseteq [session : Sessions, id : Sessions, args : Seq(Tokens)]
  BY DEF IInv, TypeOK
<1> HIDE DEF f
<1> QED
  BY <1>1, <1>2, <1>3, <1>4, <1>5, <1>6, <1>7, TruncateStep

\* The file has what was in hand, and the window shows what is pending in it.
LEMMA FinishWriteStep ==
  ASSUME IInv, NEW w \in Windows, FinishWrite(w)
  PROVE  IInv'
<1> USE DEF IInv
<1> DEFINE call == windows[w].call
           f == windows[w].writing
           s == Session(w)
           stage == IF call.kind = "resolved" THEN "listing" ELSE "idle"
           showing == IF call.kind = "attachment" THEN windows[w].showing ELSE f.pending
<1>1. /\ windows[w].stage = "writing"
      /\ files' = Stored(s, f)
      /\ said' = [said EXCEPT ![s] = IF call.kind = "attachment" THEN @ ELSE Append(@, call.turn)]
      /\ overlapped' = IF f.pending # NoConfirmation /\ AttachingBeside(w)
                       THEN overlapped \union {s} ELSE overlapped
      /\ UNCHANGED <<clock, openable, configured, users, created, torn, turns>>
  BY DEF FinishWrite
<1>2. windows' = [windows EXCEPT ![w] = [windows[w] EXCEPT
        !.stage = stage, !.showing = showing, !.call = NoCall, !.writing = Blank]]
  BY DEF FinishWrite
<1>3. /\ windows[w] \in Processes /\ s \in Sessions /\ call \in Calls /\ f \in Files
      /\ showing \in MaybeConfirmation /\ stage \in {"idle", "listing"}
  BY WindowFacts DEF Files
<1>4. said[s] \in Transcripts /\ Append(said[s], call.turn) \in Transcripts
  BY <1>3 DEF TypeOK, Transcripts, Calls
<1> HIDE DEF call, f, s, stage, showing
<1>5. /\ windows'[w].stage = stage /\ windows'[w].call = NoCall /\ windows'[w].writing = Blank
      /\ windows'[w].session = windows[w].session /\ windows'[w].showing = showing
      /\ \A v \in Windows \ {w} : windows'[v] = windows[v]
  BY <1>2, <1>3 DEF TypeOK, Processes
<1>6. windows' \in [Windows -> Processes]
  BY <1>2, <1>3, RestFacts DEF TypeOK, Processes
<1>7. /\ files' \in [Sessions -> Files] /\ (openable => files'[s] = f)
      /\ \A t \in Sessions : t # s => files'[t] = files[t]
      /\ ~openable => files' = files
  BY <1>1, <1>3 DEF Stored, TypeOK
<1>8. /\ said' \in [Sessions -> Transcripts]
      /\ said'[s] = IF call.kind = "attachment" THEN said[s] ELSE Append(said[s], call.turn)
      /\ \A t \in Sessions : t # s => said'[t] = said[t]
  BY <1>1, <1>3, <1>4 DEF TypeOK
<1>9. overlapped \subseteq overlapped' /\ overlapped' \subseteq Sessions
  BY <1>1, <1>3 DEF TypeOK
<1>10. TypeOK'
  BY <1>1, <1>6, <1>7, <1>8, <1>9 DEF TypeOK
<1>11. s = Session(w) /\ call = windows[w].call /\ f = windows[w].writing
  BY DEF s, call, f
<1>12. \A v \in Windows : /\ Session(v)' = Session(v) /\ (Alone(v)' <=> Alone(v)) /\ (Intact(v)' <=> Intact(v))
                          /\ Session(v) \in Sessions
  BY <1>1, <1>5, WindowFacts DEF Session, Alone, Intact, Unshared
<1>13. ASSUME NEW v \in Windows, v # w, windows[v].stage # "closed", Alone(v)
       PROVE  /\ Session(v) # s /\ File(v)' = File(v)
              /\ said'[Session(v)] = said[Session(v)] /\ Said(v)' = Said(v)
  <2>1. Session(v) # s
    BY <1>1, <1>11, <1>13, NotAlone
  <2> QED
    BY <1>5, <1>7, <1>8, <1>12, <1>13, <2>1 DEF File, Said, Kind
<1>14. \A t \in Sessions : Unshared(t)' = Unshared(t)
  BY <1>1 DEF Unshared
<1>15. Opened' /\ Settled' /\ Unopened'
  BY <1>1, <1>3, <1>5, <1>7, <1>12 DEF Opened, Settled, Unopened
<1>16. TurnOpen'
  <2> SUFFICES ASSUME NEW v \in Windows, windows'[v].stage = "calling"
               PROVE  /\ Intact(v)' => windows'[v].call.transcript = said'[Session(v)']
                      /\ Kind(v)' = "greeting" => windows'[v].call = Greeting
    BY DEF TurnOpen
  <2>1. v # w /\ windows'[v] = windows[v] /\ Kind(v)' = Kind(v)
    BY <1>3, <1>5 DEF Kind
  <2> QED
    BY <1>12, <1>13, <2>1 DEF TurnOpen, Intact
<1>17. WritingKept'
  <2> SUFFICES ASSUME NEW v \in Windows, windows'[v].stage = "writing"
               PROVE  /\ Intact(v)' => windows'[v].writing.transcript = Said(v)'
                      /\ Alone(v)' /\ Kind(v)' = "attachment" /\ windows'[v].showing # NoConfirmation
                           => windows'[v].writing.pending = windows'[v].showing
    BY DEF WritingKept
  <2>1. v # w /\ windows'[v] = windows[v] /\ Kind(v)' = Kind(v)
    BY <1>3, <1>5 DEF Kind
  <2> QED
    BY <1>12, <1>13, <2>1 DEF WritingKept, Intact
<1>18. TranscriptKept'
  <2> SUFFICES ASSUME NEW t \in Sessions, openable, Unshared(t), t \notin torn, ~IsWritten(t)'
               PROVE  files'[t].transcript = said'[t]
    BY <1>1, <1>14 DEF TranscriptKept
  <2>1. CASE t = s
    <3>1. Intact(w)
      BY <1>11, <2>1 DEF Intact, Alone
    <3>2. f.transcript = Said(w)
      BY <1>1, <1>11, <3>1 DEF WritingKept
    <3> QED
      BY <1>7, <1>8, <1>11, <2>1, <3>2 DEF Said, Kind
  <2>2. CASE t # s
    <3>1. ~IsWritten(t)
      BY <1>5, <1>11, <1>12, <2>2 DEF IsWritten
    <3> QED
      BY <1>7, <1>8, <2>2, <3>1 DEF TranscriptKept
  <2> QED
    BY <2>1, <2>2
<1>19. ShownHeld'
  <2> SUFFICES ASSUME NEW v \in Windows, windows'[v].stage \notin {"closed", "writing"},
                      windows'[v].showing # NoConfirmation, Alone(v)
               PROVE  File(v)'.pending = windows'[v].showing
    BY <1>12 DEF ShownHeld
  <2>1. CASE v = w
    <3>1. f.pending = showing
      BY <1>1, <1>5, <1>11, <2>1 DEF WritingKept, Kind, showing
    <3> QED
      BY <1>5, <1>7, <1>11, <1>12, <2>1, <3>1 DEF File, Alone
  <2>2. CASE v # w
    BY <1>5, <1>13, <2>2 DEF ShownHeld
  <2> QED
    BY <2>1, <2>2
<1>20. Made'
  <2>1. IsMade(s, f.pending) /\ IsMade(s, windows[w].showing)
    BY <1>11 DEF Made
  <2>2. \A t \in Sessions : IsMade(t, files[t].pending)'
    BY <1>1, <1>7, <2>1 DEF Made, IsMade
  <2>3. \A v \in Windows : IsMade(Session(v), windows[v].showing)'
    BY <1>1, <1>5, <1>11, <1>12, <2>1 DEF Made, IsMade, showing
  <2>4. \A v \in Windows : IsMade(Session(v), windows[v].writing.pending)'
    BY <1>1, <1>5, <1>12, RestFacts DEF Made, IsMade
  <2> QED
    BY <2>2, <2>3, <2>4 DEF Made
<1>21. AcceptRunsShown'
  <2>1. ASSUME NEW v \in Windows, IdIsShared(v), v # w PROVE IdIsShared(v)'
    BY <1>1, <1>5, <1>12, <1>14, <2>1 DEF IdIsShared
  <2>2. Kind(w)' # "resolution"
    BY <1>5, RestFacts DEF Kind
  <2> QED
    BY <1>5, <2>1, <2>2 DEF AcceptRunsShown, Kind
<1>22. CountHeld'
  <2> SUFFICES ASSUME NEW v \in Windows, windows'[v].stage = "calling", Kind(v)' = "attachment",
                      Session(v) \notin overlapped', File(v)'.pending # NoConfirmation
               PROVE  windows'[v].call.count = 1
    BY <1>12 DEF CountHeld
  <2>1. v # w /\ windows[v].stage = "calling" /\ windows'[v] = windows[v] /\ Kind(v) = "attachment"
    BY <1>3, <1>5 DEF Kind
  <2>2. CASE Session(v) = s /\ openable
    <3>1. f.pending # NoConfirmation
      BY <1>7, <1>12, <2>2 DEF File
    <3>2. AttachingBeside(w)
      BY <1>11, <2>1, <2>2 DEF AttachingBeside
    <3> QED
      BY <1>1, <2>2, <3>1, <3>2
  <2>3. CASE Session(v) # s \/ ~openable
    BY <1>7, <1>9, <1>12, <2>1, <2>3 DEF CountHeld, File
  <2> QED
    BY <2>2, <2>3
<1>23. CountWritten'
  BY <1>3, <1>5, <1>9, <1>12 DEF CountWritten
<1>24. StatusNeverUnderreports'
  <2>1. s \notin overlapped /\ f.pending # NoConfirmation => f.count = 1
    BY <1>1, <1>11 DEF CountWritten
  <2> QED
    BY <1>7, <1>9, <2>1 DEF StatusNeverUnderreports
<1> QED
  BY <1>10, <1>15, <1>16, <1>17, <1>18, <1>19, <1>20, <1>21, <1>22, <1>23, <1>24

\* A window that resolved something goes on to list the sessions, and may rest then.
LEMMA RestStep ==
  ASSUME IInv, NEW w \in Windows, NEW stage \in {"idle", "listing"},
         windows[w].stage \in {"idle", "listing"},
         NEW showing \in {NoConfirmation, windows[w].showing},
         windows' = [windows EXCEPT ![w] = [windows[w] EXCEPT !.stage = stage, !.showing = showing]],
         UNCHANGED <<clock, openable, configured, files, users, said, created, torn, overlapped>>,
         turns' \in 0..MaxTurns
  PROVE  IInv'
<1> USE DEF IInv
<1>1. /\ windows'[w].stage = stage /\ windows'[w].call = windows[w].call
      /\ windows'[w].session = windows[w].session /\ windows'[w].showing = showing
      /\ windows'[w].writing = windows[w].writing
      /\ \A v \in Windows \ {w} : windows'[v] = windows[v]
  BY WindowFacts DEF TypeOK, Processes
<1>2. windows' \in [Windows -> Processes]
  BY WindowFacts DEF TypeOK, Processes, MaybeConfirmation
<1>3. TypeOK'
  BY <1>2 DEF TypeOK
<1>4. \A v \in Windows : /\ Session(v)' = Session(v) /\ (Alone(v)' <=> Alone(v)) /\ (Intact(v)' <=> Intact(v))
                         /\ File(v)' = File(v) /\ Kind(v)' = Kind(v) /\ Said(v)' = Said(v)
  BY <1>1 DEF Session, Alone, Intact, Unshared, File, Kind, Said
<1>5. Opened' /\ Settled' /\ Unopened' /\ TurnOpen' /\ WritingKept'
  BY <1>1, <1>4 DEF Opened, Settled, Unopened, TurnOpen, WritingKept
<1>6. \A t \in Sessions : IsWritten(t)' = IsWritten(t)
  BY <1>1, <1>4 DEF IsWritten
<1>7. TranscriptKept'
  BY <1>6 DEF TranscriptKept, Unshared
<1>8. ShownHeld' /\ Made'
  <2>1. \A v \in Windows : windows'[v].showing \in {NoConfirmation, windows[v].showing}
    BY <1>1
  <2>2. ShownHeld'
    BY <1>1, <1>4, <2>1 DEF ShownHeld
  <2>3. \A v \in Windows : windows'[v].writing = windows[v].writing
    BY <1>1
  <2>4. \A t \in Sessions : IsMade(t, files[t].pending)'
    BY DEF Made, IsMade
  <2>5. ASSUME NEW v \in Windows
        PROVE  IsMade(Session(v), windows[v].showing)' /\ IsMade(Session(v), windows[v].writing.pending)'
    <3>1. IsMade(Session(v), windows[v].showing) /\ IsMade(Session(v), windows[v].writing.pending)
      BY DEF Made
    <3> QED
      BY <1>4, <2>1, <2>3, <3>1 DEF IsMade
  <2> QED
    BY <2>2, <2>4, <2>5 DEF Made
<1>9. AcceptRunsShown'
  <2>1. ASSUME NEW v \in Windows, IdIsShared(v), v # w PROVE IdIsShared(v)'
    BY <1>1, <1>4, <2>1 DEF IdIsShared, Unshared
  <2>2. Kind(w) # "resolution"
    BY RestFacts DEF Settled, Kind
  <2> QED
    BY <1>1, <1>4, <2>1, <2>2 DEF AcceptRunsShown
<1>10. CountHeld' /\ CountWritten' /\ StatusNeverUnderreports'
  BY <1>1, <1>4 DEF CountHeld, CountWritten, StatusNeverUnderreports
<1> QED
  BY <1>3, <1>5, <1>7, <1>8, <1>9, <1>10

LEMMA UnmatchedStep ==
  ASSUME IInv, NEW w \in Windows, ResolveUnmatched(w)
  PROVE  IInv'
<1>1. windows' = [windows EXCEPT ![w] = [windows[w] EXCEPT !.stage = "listing", !.showing = NoConfirmation]]
  BY DEF ResolveUnmatched, IInv, TypeOK, Processes
<1>2. /\ windows[w].stage = "idle"
      /\ UNCHANGED <<clock, openable, configured, files, users, said, created, torn, overlapped>>
  BY DEF ResolveUnmatched, history
<1>3. turns' \in 0..MaxTurns
  BY ShellAssumption DEF ResolveUnmatched, IInv, TypeOK
<1> QED
  BY <1>1, <1>2, <1>3, RestStep

\* The panel is filled by opening a session that may have to be greeted again.
LEMMA RefreshPanelStep ==
  ASSUME IInv, NEW w \in Windows, RefreshPanel(w)
  PROVE  IInv'
<1>1. /\ windows[w].stage = "listing"
      /\ UNCHANGED <<clock, openable, configured, files, users, said, created, torn, overlapped, turns>>
  BY DEF RefreshPanel, history
<1>2. turns' \in 0..MaxTurns
  BY <1>1 DEF IInv, TypeOK
<1>3. CASE windows' = [windows EXCEPT ![w].stage = "idle"]
  <2>1. windows' = [windows EXCEPT ![w] = [windows[w] EXCEPT !.stage = "idle",
                                                            !.showing = windows[w].showing]]
    BY <1>3 DEF IInv, TypeOK, Processes
  <2> QED
    BY <1>1, <1>2, <2>1, RestStep
<1>4. CASE /\ openable /\ IsSilent(Session(w))
           /\ windows' = [windows EXCEPT ![w].stage = "calling", ![w].call = Greeting]
  <2>1. windows' = [windows EXCEPT ![w] = [windows[w] EXCEPT !.stage = "calling", !.call = Greeting]]
    BY <1>4 DEF IInv, TypeOK, Processes
  <2>2. Intact(w) => Greeting.transcript = said[Session(w)]
    BY <1>1, <1>4, RestFacts, ReadsAll DEF IsSilent, File
  <2> QED
    BY <1>1, <1>2, <2>1, <2>2, RestFacts, BeginStep
<1> QED
  BY <1>3, <1>4 DEF RefreshPanel

LEMMA NextIInv == IInv /\ [Next]_vars => IInv'
<1> SUFFICES ASSUME IInv, [Next]_vars PROVE IInv'
  OBVIOUS
<1>1. CASE Tick \/ ConfigureProvider \/ UNCHANGED vars
  BY <1>1, AroundStep
<1>2. ASSUME NEW w \in Windows, Launch(w) \/ RefreshPanel(w) \/ Greet(w) PROVE IInv'
  BY <1>2, LaunchStep, RefreshPanelStep, GreetStep
<1>3. ASSUME NEW w \in Windows, Close(w) \/ AcceptThrows(w) PROVE IInv'
  BY <1>3, CloseStep
<1>4. ASSUME NEW w \in Windows, FinishWrite(w) PROVE IInv'
  BY <1>4, FinishWriteStep
<1>5. ASSUME NEW w \in Windows, Submit(w) \/ AnswerSubmission(w) PROVE IInv'
  BY <1>5, SubmitStep, AnswerSubmissionStep
<1>6. ASSUME NEW w \in Windows, ResolveUnmatched(w) PROVE IInv'
  BY <1>6, UnmatchedStep
<1>7. ASSUME NEW w \in Windows, Accept(w) \/ Decline(w) PROVE IInv'
  BY <1>7, ResolveMatchedStep DEF Accept, Decline, Endings
<1>8. ASSUME NEW w \in Windows, AnswerResolution(w) PROVE IInv'
  BY <1>8, AnswerResolutionStep
<1>9. ASSUME NEW w \in Windows, BeginAttachment(w) \/ WriteAttachments(w) PROVE IInv'
  BY <1>9, BeginAttachmentStep, WriteAttachmentsStep
<1> QED
  BY <1>1, <1>2, <1>3, <1>4, <1>5, <1>6, <1>7, <1>8, <1>9 DEF Next, Resolve

\* The invariant of the shell holds after every call, answer and close of any window.
THEOREM Invariance == Spec => []IInv
<1> QED
  BY InitIInv, NextIInv, PTL DEF Spec

\* The state of windows and files keeps its types.
THEOREM TypesHold == Spec => []TypeOK
<1>1. IInv => TypeOK
  BY DEF IInv
<1> QED
  BY <1>1, Invariance, PTL

\* No turn is lost, doubled or displaced in a session of one window, for any
\* number of windows and any answers, where session files open and no process died
\* between opening the file and writing it.
THEOREM TranscriptsAreKept == Spec => []TranscriptKept
<1>1. IInv => TranscriptKept
  BY DEF IInv
<1> QED
  BY <1>1, Invariance, PTL

\* What a window alone in its session shows is pending in the file, where session
\* files open.
THEOREM ShownConfirmationsAreResolvable == Spec => []ShownIsResolvable
<1>1. IInv => ShownIsResolvable
  BY DEF IInv, ShownHeld, ShownIsResolvable, Alone
<1> QED
  BY <1>1, Invariance, PTL

\* Accepting runs the command shown, whatever the other windows of the session
\* have put in the file, unless two confirmations of a shared session got one id.
THEOREM AcceptingRunsWhatIsShown == Spec => []AcceptRunsShown
<1>1. IInv => AcceptRunsShown
  BY DEF IInv
<1> QED
  BY <1>1, Invariance, PTL

\* The status never says that nothing is pending when something is, unless another
\* window wrote its confirmation in the middle of a call for an attachment.
THEOREM StatusTellsOfPending == Spec => []StatusNeverUnderreports
<1>1. IInv => StatusNeverUnderreports
  BY DEF IInv
<1> QED
  BY <1>1, Invariance, PTL

\* Nothing runs straight from an answer unless it is guarded.
THEOREM RoutedRunsGuarded == Spec => []RoutedRunsAreGuarded
<1>1. RoutedRunsAreGuarded
  BY ExecutedIsGuarded, ShellAssumption DEF RoutedRunsAreGuarded
<1>2. RoutedRunsAreGuarded'
  BY ExecutedIsGuarded, ShellAssumption DEF RoutedRunsAreGuarded
<1> QED
  BY <1>1, <1>2, PTL

-----------------------------------------------------------------------------
(* What is told against what was done *)

\* What a call in progress can have done, by its kind.
Fits(call) ==
  \/ call.kind \in {"exact", "executed"} /\ call.did \in Endings /\ call.confirm = FALSE
  \/ call.kind \in {"no_provider", "rejected"} /\ call.did = "nothing" /\ call.confirm = FALSE
  \/ call.kind = "deferred" /\ call.did = "nothing"
  \/ call.kind = "resolution" /\ call.did \in {"ok", "failed", "nothing"}

Reported == Submissions \union {"resolution"}
CallsFit == \A w \in Windows : Kind(w) \in Reported => Fits(windows[w].call)

LEMMA FitsFacts ==
  ASSUME NEW w \in Windows, NEW kind, NEW did, NEW confirm, NEW args
  PROVE  LET call == Call(w, kind, did, confirm, args) IN
         call.kind = kind /\ call.did = did /\ call.confirm = confirm
BY DEF Call

\* Every call is begun fit for its kind: one that runs was not to be confirmed.
LEMMA BegunFits ==
  ASSUME TypeOK, NEW w \in Windows, Submit(w) \/ Accept(w) \/ Decline(w)
  PROVE  \E call : Fits(call) /\ BeginTurn(w, call)
<1>1. \A did \in Endings, confirm \in BOOLEAN :
        ~confirm => Fits(Call(w, "exact", did, confirm, <<>>))
  BY FitsFacts DEF Fits
<1>2. \A confirm \in BOOLEAN : ~confirm =>
        /\ Fits(Call(w, "no_provider", "nothing", confirm, <<>>))
        /\ Fits(Call(w, "rejected", "nothing", confirm, <<>>))
  BY FitsFacts DEF Fits
<1>3. \A r \in Routes : Fits(Call(w, "deferred", "nothing", r.confirm, r.args))
  BY FitsFacts DEF Fits
<1>4. ASSUME NEW r \in Routes, NEW did \in Endings, Executed(r)
      PROVE  Fits(Call(w, "executed", did, r.confirm, <<>>))
  <2>1. r.confirm \in BOOLEAN
    BY ShellAssumption, RouteFacts DEF Routes
  <2>2. r.confirm = FALSE
    BY <1>4, <2>1 DEF Executed, Deferred
  <2> QED
    BY <2>2, FitsFacts DEF Fits
<1>5. \A did \in {"ok", "failed", "nothing"}, confirm \in BOOLEAN :
        Fits(Call(w, "resolution", did, confirm, File(w).pending.args))
  BY FitsFacts DEF Fits
<1>6. FALSE \in BOOLEAN /\ ~FALSE
  OBVIOUS
<1>7. CASE SubmitCommand(w)
  BY <1>1, <1>6, <1>7, Zenon DEF SubmitCommand, Ask
<1>8. CASE SubmitWithoutProvider(w) \/ SubmitRejected(w)
  BY <1>2, <1>6, <1>8, Zenon DEF SubmitWithoutProvider, SubmitRejected, Ask
<1>9. CASE SubmitDeferred(w)
  BY <1>3, <1>9, Zenon DEF SubmitDeferred, Ask
<1>10. CASE SubmitExecuted(w)
  BY <1>4, <1>10, Zenon DEF SubmitExecuted, Ask
<1>11. CASE Accept(w) \/ Decline(w)
  BY <1>5, <1>6, <1>11, Zenon DEF Accept, Decline, ResolveMatched
<1> QED
  BY <1>7, <1>8, <1>9, <1>10, <1>11 DEF Submit

LEMMA CallsFitKept ==
  ASSUME TypeOK, CallsFit, [Next]_vars
  PROVE  CallsFit'
<1> USE DEF TypeOK
<1>1. ASSUME NEW w \in Windows, windows'[w].call.kind \in Reported => Fits(windows'[w].call),
             \A v \in Windows \ {w} : windows'[v] = windows[v]
      PROVE  CallsFit'
  BY <1>1 DEF CallsFit, Kind
<1>2. ASSUME NEW w \in Windows, Submit(w) \/ Accept(w) \/ Decline(w) PROVE CallsFit'
  <2>1. PICK call : Fits(call) /\ BeginTurn(w, call)
    BY <1>2, BegunFits
  <2>2. windows' = [windows EXCEPT ![w] = [windows[w] EXCEPT !.stage = "calling", !.call = call]]
    BY <2>1 DEF BeginTurn, Processes
  <2>3. windows'[w].call = call /\ \A v \in Windows \ {w} : windows'[v] = windows[v]
    BY <2>2 DEF Processes
  <2> QED
    BY <1>1, <2>1, <2>3
<1>3. ASSUME NEW w \in Windows,
             \/ Greet(w) \/ AnswerSubmission(w) \/ AnswerResolution(w) \/ WriteAttachments(w)
      PROVE  CallsFit'
  <2>1. PICK kind \in {"greeting", "attachment", "answered", "resolved"} : \E f : Truncate(w, f, kind)
    <3>1. ASSUME NEW f, NEW kind \in {"greeting", "attachment", "answered", "resolved"}, Truncate(w, f, kind)
          PROVE  \E k \in {"greeting", "attachment", "answered", "resolved"} : \E g : Truncate(w, g, k)
      BY <3>1
    <3>2. CASE Greet(w)
      BY <3>1, <3>2 DEF Greet
    <3>3. CASE AnswerSubmission(w)
      BY <3>1, <3>3 DEF AnswerSubmission
    <3>4. CASE AnswerResolution(w)
      BY <3>1, <3>4 DEF AnswerResolution
    <3>5. CASE WriteAttachments(w)
      BY <3>1, <3>5 DEF WriteAttachments
    <3> QED
      BY <1>3, <3>2, <3>3, <3>4, <3>5
  <2>2. PICK f : windows' = [windows EXCEPT ![w] = [windows[w] EXCEPT !.stage = "writing", !.writing = f,
                               !.call = [NoCall EXCEPT !.kind = kind, !.turn = windows[w].call.turn]]]
    BY <2>1 DEF Truncate, Processes
  <2>3. /\ windows'[w].call.kind = kind
        /\ \A v \in Windows \ {w} : windows'[v] = windows[v]
    BY <2>2 DEF Processes, NoCall
  <2> QED
    BY <1>1, <2>3 DEF Reported, Submissions
<1>4. ASSUME NEW w \in Windows,
             Launch(w) \/ Close(w) \/ AcceptThrows(w) \/ FinishWrite(w) \/ BeginAttachment(w)
      PROVE  CallsFit'
  <2>1. /\ windows'[w].call.kind \in {"none", "greeting", "attachment"}
        /\ \A v \in Windows \ {w} : windows'[v] = windows[v]
    <3>1. CASE Launch(w)
      <4>1. [Closed EXCEPT !.stage = "calling", !.session = clock, !.call = Greeting].call = Greeting
        BY DEF Closed
      <4>2. [Closed EXCEPT !.stage = "idle", !.session = clock].call = NoCall
        BY DEF Closed
      <4> QED
        BY <3>1, <4>1, <4>2, RestFacts DEF Launch
    <3>2. CASE Close(w) \/ AcceptThrows(w)
      BY <3>2, RestFacts DEF Close, AcceptThrows
    <3>3. CASE FinishWrite(w)
      BY <3>3, RestFacts DEF FinishWrite, Processes
    <3>4. CASE BeginAttachment(w)
      BY <3>4 DEF BeginAttachment, NoCall, Processes
    <3> QED
      BY <1>4, <3>1, <3>2, <3>3, <3>4
  <2> QED
    BY <1>1, <2>1 DEF Reported, Submissions
<1>5. ASSUME NEW w \in Windows, RefreshPanel(w) \/ ResolveUnmatched(w) PROVE CallsFit'
  <2>1. /\ windows'[w].call = windows[w].call \/ windows'[w].call = Greeting
        /\ \A v \in Windows \ {w} : windows'[v] = windows[v]
    BY <1>5 DEF RefreshPanel, ResolveUnmatched, Processes
  <2> QED
    BY <1>1, <2>1, RestFacts DEF CallsFit, Kind, Reported, Submissions
<1>6. CASE UNCHANGED windows
  BY <1>6 DEF CallsFit, Kind
<1> QED
  BY <1>2, <1>3, <1>4, <1>5, <1>6 DEF Next, vars, Tick, ConfigureProvider, Resolve

\* What the shell says happened agrees with what the command did, save for
\* routes deferred for their confidence, whatever the provider answers.
THEOREM NarrationFits == Spec => []NarrationFitsDeed
<1>1. Init => CallsFit
  BY RestFacts DEF Init, CallsFit, Kind, Reported, Submissions
<1>2. CallsFit => NarrationFitsDeed
  <2>1. ASSUME NEW call, Fits(call)
        PROVE  LET kind == Outcome(call) IN
               /\ kind = "succeeded" => call.did = "ok" \/ call.kind = "deferred"
               /\ kind \in {"confirmation_required", "provider_remediation_needed", "rejected"}
                    => call.did = "nothing"
               /\ kind \in {"failed", "no_action_resolved"} => call.did # "ok"
    BY <2>1 DEF Fits, Outcome, SubmissionOutcome, ResolutionOutcome, Endings, Submissions
  <2> QED
    BY <2>1 DEF CallsFit, NarrationFitsDeed, OpenCalls, Kind, Reported
<1>3. TypeOK /\ CallsFit /\ [Next]_vars => CallsFit'
  BY CallsFitKept
<1> QED
  BY <1>1, <1>2, <1>3, TypesHold, PTL DEF Spec
=============================================================================
