---------------------------- MODULE ControlPlane ----------------------------
(***************************************************************************)
(* control_plane: the registry of modules, the dispatch of a request to    *)
(* the module that owns its capability, and the events dispatch logs.      *)
(*                                                                         *)
(* Dispatch is synchronous, but a module being executed may dispatch in    *)
(* turn (the procedural auditor submits each of its proposals to triage),  *)
(* so what is under way is a stack of dispatches.  Only the top one moves, *)
(* by one event of the code at a time.                                     *)
(*                                                                         *)
(* What a module does is abstracted to how it ends: with any status, after *)
(* any dispatches of its own, or, if Throws, with an exception (std::stoi  *)
(* of a parameter), which nothing on the stack catches.  The log is the    *)
(* one in memory, of one process; a log that cannot be written to is not   *)
(* covered.                                                                *)
(***************************************************************************)
EXTENDS Naturals, Sequences, SequencesExt

CONSTANTS
  Modules,       \* module objects that may be registered
  Descriptor,    \* of each: its module_id, capabilities and risk tier
  Calls,         \* of each: the capabilities it dispatches to itself
  CallTier,      \* the risk tier it declares then
  RequestIds, Capabilities, Tiers,
  NoId, NoCapability,  \* the empty strings
  Outcomes,      \* statuses a module may answer with
  Throws,
  MaxRequests    \* bound: dispatches in one behavior

ASSUME ControlPlaneAssumption ==
  /\ \A m \in Modules : /\ Descriptor[m].tier \in Tiers
                        /\ Descriptor[m].capabilities \subseteq Capabilities \union {NoCapability}
                        /\ Calls[m] \subseteq Capabilities
  /\ Tiers \subseteq Nat /\ CallTier \in Tiers
  /\ NoCapability \notin Capabilities /\ NoId \notin RequestIds
  /\ Throws \in BOOLEAN /\ MaxRequests \in Nat

VARIABLES
  byId,      \* modules_by_id_
  owner,     \* capability_to_module_
  stack,     \* dispatches under way, the innermost last
  events,    \* events_
  answers,   \* responses returned, in order
  received   \* dispatches begun, for the bound

vars == <<byId, owner, stack, events, answers, received>>
registry == <<byId, owner>>

Requests == [id : RequestIds \union {NoId}, capability : Capabilities \union {NoCapability},
             tier : Tiers]

Init ==
  /\ byId = <<>> /\ owner = <<>>
  /\ stack = <<>> /\ events = <<>> /\ answers = <<>> /\ received = 0

-----------------------------------------------------------------------------
(* The registry *)

\* Mutant of Registrable: capabilities that have an owner are not refused.
RegistrableUnderAnyCapability(d) ==
  /\ d.id # NoId /\ d.id \notin DOMAIN byId
  /\ NoCapability \notin d.capabilities

\* Mutant of Registrable: an empty capability is not refused.
RegistrableWithBlanks(d) ==
  /\ d.id # NoId /\ d.id \notin DOMAIN byId
  /\ d.capabilities \intersect DOMAIN owner = {}

Registrable(d) ==
  /\ d.id # NoId /\ d.id \notin DOMAIN byId
  /\ NoCapability \notin d.capabilities
  /\ d.capabilities \intersect DOMAIN owner = {}

\* register_module: a module that is refused leaves no trace.  emplace does
\* not replace an entry there is.
RegisterModule(m) ==
  /\ stack = <<>>
  /\ Registrable(Descriptor[m])
  /\ byId' = [i \in DOMAIN byId \union {Descriptor[m].id} |->
                IF i \in DOMAIN byId THEN byId[i] ELSE m]
  /\ owner' = [c \in DOMAIN owner \union Descriptor[m].capabilities |->
                 IF c \in DOMAIN owner THEN owner[c] ELSE Descriptor[m].id]
  /\ UNCHANGED <<stack, events, answers, received>>

-----------------------------------------------------------------------------
(* Dispatch *)

Event(category, request) == [category |-> category, request |-> request]
Emit(category, request) == events' = Append(events, Event(category, request))

Frame(request, stage) == [request |-> request, stage |-> stage]
Top == Last(stack)
At(stage) == stack # <<>> /\ Top.stage = stage
Owner == byId[owner[Top.request.capability]]

\* Emit an event of the top dispatch and go to the next stage ...
Advance(category, stage) ==
  /\ Emit(category, Top.request)
  /\ stack' = Front(stack) \o <<Frame(Top.request, stage)>>
  /\ UNCHANGED <<answers, registry, received>>

\* ... or end it with an answer.
Return(category, status) ==
  /\ Emit(category, Top.request)
  /\ stack' = Front(stack)
  /\ answers' = Append(answers, [id |-> Top.request.id, status |-> status])
  /\ UNCHANGED <<registry, received>>

Receive(request) ==
  /\ received < MaxRequests /\ received' = received + 1
  /\ Emit("RequestReceived", request)
  /\ stack' = Append(stack, Frame(request, "received"))
  /\ UNCHANGED <<answers, registry>>

Submit(request) == stack = <<>> /\ Receive(request)

\* A module that is executing dispatches a request of its own.
Call ==
  /\ At("started")
  /\ \E i \in RequestIds, c \in Calls[Owner] :
       Receive([id |-> i, capability |-> c, tier |-> CallTier])

WellFormed(request) == request.id # NoId /\ request.capability # NoCapability

RejectInvalid ==
  /\ At("received") /\ ~WellFormed(Top.request)
  /\ Return("RequestRejected", "InvalidRequest")

RejectUnknown ==
  /\ At("received") /\ WellFormed(Top.request) /\ Top.request.capability \notin DOMAIN owner
  /\ Return("RequestRejected", "NotFound")

Validate ==
  /\ At("received") /\ WellFormed(Top.request) /\ Top.request.capability \in DOMAIN owner
  /\ Advance("RequestValidated", "validated")

\* Mutant of RiskCheck: the comparison is the wrong way around.
RiskCheckInverted ==
  /\ At("validated")
  /\ IF Top.request.tier > Descriptor[Owner].tier THEN Advance("RiskCheckFailed", "refused")
     ELSE Advance("RiskCheckPassed", "passed")

\* Mutant of RiskCheck: equal tiers are neither refused nor passed.
RiskCheckStrict ==
  /\ At("validated")
  /\ \/ Top.request.tier < Descriptor[Owner].tier /\ Advance("RiskCheckFailed", "refused")
     \/ Top.request.tier > Descriptor[Owner].tier /\ Advance("RiskCheckPassed", "passed")

RiskCheck ==
  /\ At("validated")
  /\ IF Top.request.tier < Descriptor[Owner].tier THEN Advance("RiskCheckFailed", "refused")
     ELSE Advance("RiskCheckPassed", "passed")

\* Mutant of RejectRisk: the refusal is answered but not logged.
RejectRiskUnlogged ==
  /\ At("refused")
  /\ stack' = Front(stack)
  /\ answers' = Append(answers, [id |-> Top.request.id, status |-> "InvalidRequest"])
  /\ UNCHANGED <<events, registry, received>>

RejectRisk == At("refused") /\ Return("RequestRejected", "InvalidRequest")

Start == At("passed") /\ Advance("DispatchStarted", "started")

Ending(status) == IF status = "Succeeded" THEN "DispatchCompleted" ELSE "DispatchFailed"

Finish ==
  /\ At("started")
  /\ \E status \in Outcomes : Return(Ending(status), status)

\* An exception leaves execute and every dispatch it is under.
Throw ==
  /\ Throws /\ At("started")
  /\ stack' = <<>>
  /\ UNCHANGED <<events, answers, registry, received>>

Step ==
  \/ Call
  \/ RejectInvalid \/ RejectUnknown \/ Validate
  \/ RiskCheck \/ RejectRisk \/ Start \/ Finish

Next ==
  \/ \E m \in Modules : RegisterModule(m)
  \/ \E r \in Requests : Submit(r)
  \/ Step
  \/ Throw

Spec == Init /\ [][Next]_vars

\* The thread that dispatches goes on, and modules end: their loops are over
\* what was stored before.
FairSpec == Spec /\ WF_vars(Step)

-----------------------------------------------------------------------------
(* Properties *)

Stages == {"received", "validated", "refused", "passed", "started"}
Categories == {"RequestReceived", "RequestValidated", "RequestRejected", "RiskCheckPassed",
               "RiskCheckFailed", "DispatchStarted", "DispatchCompleted", "DispatchFailed"}

TypeOK ==
  /\ \A i \in DOMAIN byId : byId[i] \in Modules /\ Descriptor[byId[i]].id = i
  /\ DOMAIN owner \subseteq Capabilities
  /\ stack \in Seq([request : Requests, stage : Stages])
  /\ events \in Seq([category : Categories, request : Requests])
  /\ answers \in Seq([id : RequestIds \union {NoId},
                      status : Outcomes \union {"InvalidRequest", "NotFound"}])
  /\ received \in 0..MaxRequests

\* Registration is all or nothing: whatever was refused in between, each
\* capability has one owner, a registered module that declares it, and each
\* registered module owns every capability it declares.
OwnershipIsExact ==
  /\ \A c \in DOMAIN owner :
       owner[c] \in DOMAIN byId /\ c \in Descriptor[byId[owner[c]]].capabilities
  /\ \A i \in DOMAIN byId : \A c \in Descriptor[byId[i]].capabilities :
       c \in DOMAIN owner /\ owner[c] = i

\* A module that is executing, at any depth, was called with a tier that its
\* descriptor allows, and so was every module above it.
NoSilentEscalation ==
  \A k \in DOMAIN stack : stack[k].stage = "started" =>
    stack[k].request.tier >= Descriptor[byId[owner[stack[k].request.capability]]].tier

\* docs/CONTROL_PLANE_BASELINE.md, "Deterministic dispatch sequence", as a
\* reader of the log: the stage of a dispatch, an event, the stage after it.
Sequence ==
  {<<"received", "RequestValidated", "validated">>, <<"received", "RequestRejected", "over">>,
   <<"validated", "RiskCheckPassed", "passed">>, <<"validated", "RiskCheckFailed", "refused">>,
   <<"refused", "RequestRejected", "over">>, <<"passed", "DispatchStarted", "started">>,
   <<"started", "DispatchCompleted", "over">>, <<"started", "DispatchFailed", "over">>}

Misread ==
  <<Frame([id |-> NoId, capability |-> NoCapability, tier |-> CallTier], "misread")>>

\* The open dispatches after one more event; a dispatch begins at the bottom
\* or inside a module that is executing.
ReadOpen(open, e) ==
  IF e.category = "RequestReceived"
  THEN IF open = <<>> \/ Last(open).stage = "started"
       THEN Append(open, Frame(e.request, "received")) ELSE Misread
  ELSE IF open # <<>> /\ \E t \in Sequence : t[1] = Last(open).stage /\ t[2] = e.category
                                              /\ Last(open).request = e.request
  THEN LET after == (CHOOSE t \in Sequence :
                       t[1] = Last(open).stage /\ t[2] = e.category)[3]
       IN  IF after = "over" THEN Front(open)
           ELSE Front(open) \o <<Frame(e.request, after)>>
  ELSE Misread

Closing == {"DispatchCompleted", "DispatchFailed", "RequestRejected"}

ReadEvent(read, e) ==
  [open |-> ReadOpen(read.open, e),
   ended |-> IF e.category \in Closing THEN Append(read.ended, e) ELSE read.ended]

\* What has been read after each number of events: the dispatches that are
\* open, and the last event of each of the others.
Readings(log) ==
  LET reading[n \in 0..Len(log)] ==
        IF n = 0 THEN [open |-> <<>>, ended |-> <<>>]
        ELSE ReadEvent(reading[n - 1], log[n])
  IN  reading

Open == Readings(events)[Len(events)].open
Endings == Readings(events)[Len(events)].ended

\* The log alone tells what is under way: read from the start, it follows the
\* documented sequence, nested dispatches included, and the dispatches it
\* leaves open are the ones on the stack, above any that an exception ended.
LogTellsStack == IsSuffix(stack, Open)

\* The last event of each dispatch and its answer agree, in the same order:
\* completed is succeeded, failed is any other status a module answered with,
\* rejected is a request that no module saw.
LogTellsAnswers ==
  /\ Len(Endings) = Len(answers)
  /\ \A k \in DOMAIN answers :
       /\ Endings[k].request.id = answers[k].id
       /\ Endings[k].category = "DispatchCompleted" <=> answers[k].status = "Succeeded"

\* The log of a process tells the truth, of what is under way and of what was
\* answered.
LogIsTrue == LogTellsStack /\ LogTellsAnswers

\* No dispatch stays under way for ever, whatever the modules it goes through
\* dispatch or throw.
EveryDispatchEnds == stack # <<>> ~> stack = <<>>

\* docs/CONTROL_PLANE_BASELINE.md, "Deterministic dispatch sequence", 9.:
\* "Emit DispatchCompleted or DispatchFailed".  When nothing is under way,
\* each dispatch the log has started has ended in it.
StartedDispatchesEnd == stack = <<>> => Open = <<>>
=============================================================================
