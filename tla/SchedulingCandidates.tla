------------------------ MODULE SchedulingCandidates ------------------------
(***************************************************************************)
(* From approved interventions to offers in the calendar: the commands     *)
(* scheduling-generate-candidates and scheduling-generate-proposals of     *)
(* application_bootstrap.cpp.  Each is a process that reads one table at   *)
(* its start and writes one record after another into the next table; a    *)
(* refused write or a crash ends it where it stands, and triage replaces   *)
(* interventions between two processes.                                    *)
(*                                                                         *)
(* Data abstraction.  A slot is a quarter of an hour, the unit of the      *)
(* effort of an intervention, and all timestamps are of one month.  The    *)
(* texts and source ids that are copied along, versions, and times other   *)
(* than the creation of a candidate decide nothing and are left out.       *)
(***************************************************************************)
EXTENDS SchedulingEngine

CONSTANTS
  Interventions,  \* ids
  Bodies,         \* [mode, priority, effort, status]: interventions triage may approve
  DaysOfMonth,    \* days that --now may name
  MaxRuns         \* bound: commands and triage requests

VARIABLES
  interventions, candidateRecords,  \* by intervention: a candidate's id is made of its
  proposalArtifacts,                \* a set of records, at most one to an id
  run,                              \* the command that runs: its name, list and --now
  runs,
  settled, answer  \* history: interventions that have their candidate, and
                   \* the last artifact written from it

commandVars == <<interventions, candidateRecords, proposalArtifacts, run, runs, settled, answer>>

Without(m, id) == [x \in DOMAIN m \ {id} |-> m[x]]

Hour == 4
At(day, slot) == (day - 1) * Day + slot
IdleRun == [command |-> "none", todo |-> {}, day |-> 0]

-----------------------------------------------------------------------------
(* Candidates *)

NormalizeUrgency(p) ==
  IF p \in {"Critical", "critical"} THEN "Critical"
  ELSE IF p \in {"High", "high"} THEN "High"
  ELSE IF p \in {"Low", "low"} THEN "Low" ELSE "Normal"

IsPrompt(b) == b.mode = "ScheduledPrompt"
IsUrgent(b) == NormalizeUrgency(b.priority) \in {"Critical", "High"}
HasSignal(b) == b.status \in {"Approved", "ScheduledPrompt", "ApprovedForScheduling"}

BuildSchedulingCandidate(b, created) ==
  [duration |-> IF b.effort > 0 THEN b.effort ELSE 0,
   hint |-> IF IsPrompt(b) THEN "next_24_hours" ELSE IF IsUrgent(b) THEN "next_3_days"
            ELSE "unspecified",
   status |-> IF HasSignal(b) /\ (IsPrompt(b) \/ IsUrgent(b)) THEN "Candidate"
              ELSE IF b.status = "Rejected" THEN "Rejected" ELSE "Deferred",
   created |-> created]

Created(i) == IF i \in DOMAIN candidateRecords THEN candidateRecords[i].created ELSE run.day

\* Mutant of Candidate: a candidate that exists is taken to be unchanged.
CandidateOnce(i) ==
  IF i \in DOMAIN candidateRecords THEN candidateRecords[i]
  ELSE BuildSchedulingCandidate(interventions[i], run.day)

\* A candidate is rebuilt on every run and keeps the day of its first.
Candidate(i) == BuildSchedulingCandidate(interventions[i], Created(i))

-----------------------------------------------------------------------------
(* Proposals *)

PreferredStart(hint) ==
  CASE hint = "next_24_hours" -> 9 * Hour
    [] hint = "next_3_days" -> 12 * Hour
    [] OTHER -> 10 * Hour
DaySpan(hint) ==
  CASE hint = "next_24_hours" -> 1
    [] hint = "next_3_days" -> 3
    [] OTHER -> 7

\* add_days_same_month: no day of a month is later than its 28th.
AddDays(day, n) == Max({1, Min({28, day + n})})

TaskCandidate(i, r) ==
  [id |-> i, earliest |-> At(r.created, PreferredStart(r.hint)),
   latest |-> At(AddDays(r.created, DaySpan(r.hint) - 1), 17 * Hour),
   duration |-> r.duration, before |-> 0, after |-> 0]

\* What the command asks the engine for, without the stored commitments and
\* windows.
InternalSet == [id |-> "internal", gap |-> 0, hours |-> TRUE, allowed |-> {}, blocked |-> {}]
Generated(i, r) == GenerateProposals(TaskCandidate(i, r), {}, {}, InternalSet)

Artifact(i) ==
  LET r == candidateRecords[i]
      placed == Generated(i, r) # {}
      block == IF placed THEN CHOOSE p \in Generated(i, r) : TRUE
               ELSE [start |-> NoTime, end |-> NoTime]
      blocked == r.status # "Candidate" \/ r.duration <= 0 \/ ~placed
  IN [id |-> <<i, block.start>>, start |-> block.start, end |-> block.end,
      status |-> IF blocked THEN "Rejected"
                 ELSE IF DerivedConflicts(TaskCandidate(i, r), {}, {}, InternalSet) # {}
                 THEN "ConflictDetected" ELSE "Proposed"]

-----------------------------------------------------------------------------
\* A slot is a quarter of an hour, and triage marks what it approves.
CommandInputs ==
  /\ Day = 24 * Hour /\ WorkStart = 9 * Hour /\ WorkEnd = 17 * Hour
  /\ NoSet # InternalSet
  /\ \A b \in Bodies : b.effort \in Int /\ HasSignal(b)
  /\ DaysOfMonth \subseteq 1..31

CommandInit ==
  /\ interventions = <<>> /\ candidateRecords = <<>> /\ proposalArtifacts = {}
  /\ run = IdleRun /\ runs = 0
  /\ settled = {} /\ answer = <<>>

\* A request to the triage module approves i, for the first time or anew; an
\* intervention with the creation time of the stored one would be dropped.
Approve(i, b) ==
  /\ run = IdleRun /\ runs < MaxRuns
  /\ interventions' = Put(interventions, i, b)
  /\ settled' = settled \ {i}
  /\ answer' = Without(answer, i)
  /\ runs' = runs + 1
  /\ UNCHANGED <<candidateRecords, proposalArtifacts, run>>

GenerateCandidates(day) ==
  /\ run = IdleRun /\ runs < MaxRuns
  /\ run' = [command |-> "candidates", todo |-> DOMAIN interventions, day |-> day]
  /\ runs' = runs + 1
  /\ UNCHANGED <<interventions, candidateRecords, proposalArtifacts, settled, answer>>

UpsertCandidate(i) ==
  /\ run.command = "candidates" /\ i \in run.todo
  /\ candidateRecords' = Put(candidateRecords, i, Candidate(i))
  /\ run' = [run EXCEPT !.todo = @ \ {i}]
  /\ settled' = settled \union {i}
  /\ UNCHANGED <<interventions, proposalArtifacts, runs, answer>>

\* The day of --now only dates the artifacts.
GenerateScheduleProposals ==
  /\ run = IdleRun /\ runs < MaxRuns
  /\ run' = [command |-> "proposals", todo |-> DOMAIN candidateRecords, day |-> 0]
  /\ runs' = runs + 1
  /\ UNCHANGED <<interventions, candidateRecords, proposalArtifacts, settled, answer>>

UpsertArtifact(i) ==
  /\ run.command = "proposals" /\ i \in run.todo
  /\ proposalArtifacts' =
       {a \in proposalArtifacts : a.id # Artifact(i).id} \union {Artifact(i)}
  /\ run' = [run EXCEPT !.todo = @ \ {i}]
  /\ answer' = IF i \in settled THEN Put(answer, i, Artifact(i)) ELSE answer
  /\ UNCHANGED <<interventions, candidateRecords, runs, settled>>

\* The list is done, a write was refused, or the process died.
Exit ==
  /\ run # IdleRun
  /\ run' = IdleRun
  /\ UNCHANGED <<interventions, candidateRecords, proposalArtifacts, runs, settled, answer>>

CommandNext ==
  \/ \E i \in Interventions, b \in Bodies : Approve(i, b)
  \/ \E d \in DaysOfMonth : GenerateCandidates(d)
  \/ GenerateScheduleProposals
  \/ \E i \in Interventions : UpsertCandidate(i) \/ UpsertArtifact(i)
  \/ Exit

CommandSpec == CommandInit /\ [][CommandNext]_commandVars

-----------------------------------------------------------------------------
(* Properties *)

WantedHour(b) == IF IsPrompt(b) THEN 9 ELSE 12

\* The candidate's day decides whether there is an offer, and it is the day of
\* the first run: from the 29th on there never is one.
CanBeOffered(b, day) ==
  /\ IsPrompt(b) \/ IsUrgent(b)
  /\ b.effort > 0
  /\ WantedHour(b) * Hour + b.effort <= 17 * Hour
  /\ day <= 28

\* When both commands have written an intervention's records since it was last
\* approved, however often they were cut short before, the last artifact is an
\* offer exactly if the intervention as it stands asks for one that fits the
\* working hours, and then it is offered at its hour, for its effort, on the
\* day of its first candidate, and stands so in the table.
OffersFollowInterventions ==
  \A i \in DOMAIN answer :
    LET b == interventions[i]
        day == candidateRecords[i].created
        a == answer[i]
    IN  /\ a \in proposalArtifacts
        /\ a.status = "Proposed" <=> CanBeOffered(b, day)
        /\ CanBeOffered(b, day) => /\ a.start = At(day, WantedHour(b) * Hour)
                                   /\ a.end = a.start + b.effort
=============================================================================
