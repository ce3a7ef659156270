-------------------------- MODULE ProceduralAuditor --------------------------
(***************************************************************************)
(* meta.procedural_auditor composed with coordination.behavioral_triage:   *)
(* an audit ranks the inventory of activities, derives one optimization    *)
(* proposal from each, has each triaged by a dispatch nested in its own,   *)
(* and records the proposal with the outcome and, last, the audit run.     *)
(*                                                                         *)
(* The actions and the records of BehavioralTriage are used as they are; a *)
(* nested dispatch is a request of one proposal.  As there, the program    *)
(* runs one request at a time and may die between any two writes.          *)
(* ControlPlane has the dispatches themselves.                             *)
(*                                                                         *)
(* Covered: upsert_activity, audit_inventory (the command line's version   *)
(* first records a snapshot when there is none), the engine's classes and  *)
(* opportunities, a nested triage that cannot store its proposal.  Not     *)
(* covered: the other appends failing (MemoryStore), the estimates and     *)
(* texts of a proposal, and the episode each call logs.                    *)
(***************************************************************************)
EXTENDS BehavioralTriage

CONSTANTS
  Activities,   \* activity_inventory_item_id, ordered as the strings are
  Changes,      \* what a caller may give to upsert_activity
  Items,        \* what a stored activity can be
  RunNames,     \* procedural_audit_run_id given by the caller
  Keep,         \* a field the caller does not give
  MaxCalls      \* bound: upserts and audits in one behavior

Fields == {"duration", "effort", "outcome", "repeatable", "load"}
Unset == "unset"        \* an attribute that was never given
NotANumber == "words"   \* an attribute std::stoi refuses

\* A new activity, and what a change makes of an activity.
FreshItem == [duration |-> 30, effort |-> 5, outcome |-> 5, repeatable |-> Unset, load |-> Unset]
Merged(item, change) == [f \in Fields |-> IF change[f] = Keep THEN item[f] ELSE change[f]]

ASSUME ItemsAssumption ==
  /\ \A i \in Items : /\ DOMAIN i = Fields
                      /\ i.duration \in Int /\ i.effort \in Int /\ i.outcome \in Int
  /\ \A i \in Items \union {FreshItem}, c \in Changes : Merged(i, c) \in Items
ASSUME ActivitiesAssumption == Activities \subseteq Nat /\ IsFiniteSet(Activities)
ASSUME MaxCallsAssumption == MaxCalls \in Nat
-----------------------------------------------------------------------------
(* ProceduralAuditorEngine *)

Classify(item) ==
  LET high == item.effort >= 7 \/ item.duration >= 60
      low == item.outcome <= 4
  IN  IF high /\ low THEN "HighEffortLowValue" ELSE IF high THEN "HighEffortHighValue"
      ELSE IF low THEN "LowEffortLowValue" ELSE "LowEffortHighValue"

ClassRank == [HighEffortLowValue |-> 0, HighEffortHighValue |-> 1,
              LowEffortLowValue |-> 2, LowEffortHighValue |-> 3]

OpportunityType(item) ==
  IF item.repeatable = "1" THEN "Automation" ELSE IF item.outcome <= 2 THEN "Elimination"
  ELSE IF item.effort >= 8 THEN "Delegation" ELSE IF item.duration >= 45 THEN "StructuralOptimization"
  ELSE "Simplification"

Multiplier == [Automation |-> 4, Simplification |-> 2, Elimination |-> 5,
               Delegation |-> 3, StructuralOptimization |-> 3]

\* The comparator of audit(): class, then score, then id.
Score(item) == item.effort * item.duration - 10 * item.outcome
RanksBefore(x, a, y, b) ==
  LET cx == ClassRank[Classify(x)]
      cy == ClassRank[Classify(y)]
  IN  \/ cx < cy
      \/ cx = cy /\ Score(x) > Score(y)
      \/ cx = cy /\ Score(x) = Score(y) /\ a < b

\* audit() converts every numeric attribute of every activity.
Convertible(item) == item.load # NotANumber

\* stable_proposal_id: activity, opportunity and class, in the order of the
\* strings; the behavioral proposal has the same id behind a prefix.
OpportunityName == [Automation |-> 0, Delegation |-> 1, Elimination |-> 2,
                    Simplification |-> 3, StructuralOptimization |-> 4]
ClassName == [HighEffortHighValue |-> 0, HighEffortLowValue |-> 1,
              LowEffortHighValue |-> 2, LowEffortLowValue |-> 3]
StableProposalId(a, item) ==
  20 * a + 4 * OpportunityName[OpportunityType(item)] + ClassName[Classify(item)]

AtLeastOne(n) == IF n > 1 THEN n ELSE 1
\* What the nested triage request says of the proposal; its texts carry the
\* run and, through the title, the activity.
TriageBody(item, run, t) ==
  LET worst == Classify(item) = "HighEffortLowValue"
  IN  [priority |-> IF worst THEN "Critical" ELSE "High",
       effort |-> IF worst THEN 2 ELSE 3,
       benefit |-> AtLeastOne(item.effort * Multiplier[OpportunityType(item)]),
       earliest |-> t, latest |-> NoTime, text |-> run]

\* An inventory is the activities recorded, each with its item; the run id is
\* the caller's or made of the inventory's fingerprint.
Inventories == UNION {[S -> Items] : S \in SUBSET Activities}
NoName == "fingerprint"
RunIds == [name : RunNames, of : {<<>>}] \union [name : {NoName}, of : Inventories]
RunOf(name, inventory) ==
  [name |-> name, of |-> IF name = NoName THEN inventory ELSE <<>>]

\* The snapshot procedural-run-audit records when there is none.
RunSnapshotId == 0
RunSnapshot(t) ==
  [capturedAt |-> t, notes |-> "run", active |-> 0, backlog |-> 0, strain |-> "fresh"]

ASSUME AuditorAssumption ==
  /\ NoName \notin RunNames
  /\ RunSnapshotId \in SnapshotIds /\ \A t \in Times : RunSnapshot(t) \in SnapshotInputs
  /\ \A a \in Activities, i \in Items : StableProposalId(a, i) \in ProposalIds
  /\ \A i \in Items, r \in RunIds, t \in Times : Convertible(i) => TriageBody(i, r, t) \in ProposalBodies
-----------------------------------------------------------------------------
VARIABLES
  activities,      \* activity_inventory: [item, version]
  optimizations,   \* optimization_proposals, by stable proposal id
  runs,            \* audit_runs: a function on the run ids recorded
  auditPhase,      \* what the audit does next
  auditRun, auditNow,
  left,            \* ranked activities not triaged yet
  item,            \* the activity being triaged
  front,           \* triage_status of the first proposal of the ranking
  calls            \* upserts and audits begun, for the bound

auditing == <<auditPhase, auditRun, auditNow, left, item, front>>
records == <<activities, optimizations, runs>>
auditorVars == <<records, auditing, calls>>

AuditPhases == {"idle", "state", "rank", "triage", "nested", "complete"}
TriageStatuses == DecisionTypes \union {"Failed"}
ActivityRecords == [item : Items, version : Nat \ {0}]
OptimizationRecords ==
  [run : RunIds, status : TriageStatuses, decidedAt : Times \union {NoTime},
   createdAt : Times, updatedAt : Times, version : Nat \ {0}]
RunRecords ==
  [inventory : Inventories, proposals : Nat, accepted : TriageStatuses \union {"None"},
   createdAt : Times, updatedAt : Times, version : Nat \ {0}]
ASSUME AuditorRecordsAssumption ==
  NoRecord \notin ActivityRecords /\ NoRecord \notin OptimizationRecords
NoRun == [name |-> NoName, of |-> <<>>]

Resting ==
  /\ auditPhase' = "idle" /\ auditRun' = NoRun /\ auditNow' = 0
  /\ left' = {} /\ item' = 0 /\ front' = "None"

AuditorInit ==
  /\ Init
  /\ activities = [a \in Activities |-> NoRecord]
  /\ optimizations = [p \in ProposalIds |-> NoRecord]
  /\ runs = <<>>
  /\ auditPhase = "idle" /\ auditRun = NoRun /\ auditNow = 0
  /\ left = {} /\ item = 0 /\ front = "None"
  /\ calls = 0

Known == {a \in Activities : ~Absent(activities, a)}
Inventory == [a \in Known |-> activities[a].item]

-----------------------------------------------------------------------------
(* procedural.upsert_activity: what the caller does not give is kept. *)
UpsertActivity(a, change) ==
  /\ phase = "idle" /\ auditPhase = "idle" /\ calls < MaxCalls
  /\ activities' = [activities EXCEPT ![a] =
       IF Absent(activities, a) THEN [item |-> Merged(FreshItem, change), version |-> 1]
       ELSE [item |-> Merged(activities[a].item, change), version |-> activities[a].version + 1]]
  /\ calls' = calls + 1
  /\ UNCHANGED <<vars, optimizations, runs, auditing>>

-----------------------------------------------------------------------------
(* procedural-run-audit and procedural.audit_inventory *)

\* A command that begins has room for the requests it dispatches.
BeginAudit(name, t) ==
  /\ phase = "idle" /\ auditPhase = "idle" /\ calls < MaxCalls
  /\ requests + Cardinality(Known) + (IF Recorded = {} THEN 1 ELSE 0) <= MaxRequests
  /\ auditPhase' = IF Recorded = {} THEN "state" ELSE "rank"
  /\ auditRun' = RunOf(name, Inventory) /\ auditNow' = t
  /\ left' = {} /\ item' = 0 /\ front' = "None"
  /\ calls' = calls + 1
  /\ UNCHANGED <<vars, records>>

RecordRunState ==
  /\ auditPhase = "state"
  /\ RecordState(RunSnapshotId, RunSnapshot(auditNow))
  /\ auditPhase' = "rank"
  /\ UNCHANGED <<records, auditRun, auditNow, left, item, front, calls>>

\* engine_.audit throws on an attribute it cannot convert, whichever activity
\* has it: the exception leaves the dispatch and the command fails.
RankInventory ==
  /\ auditPhase = "rank"
  /\ IF \A a \in Known : Convertible(activities[a].item)
     THEN /\ auditPhase' = IF Known = {} THEN "complete" ELSE "triage"
          /\ left' = Known
          /\ UNCHANGED <<auditRun, auditNow, item, front>>
     ELSE Resting
  /\ UNCHANGED <<vars, records, calls>>

\* The ranking is total, so exactly one of the activities left comes first.
First(a) == \A b \in left \ {a} : RanksBefore(activities[a].item, a, activities[b].item, b)

DispatchTriage(a) ==
  /\ auditPhase = "triage" /\ First(a)
  /\ BeginTriage(<<Proposal(StableProposalId(a, activities[a].item),
                            TriageBody(activities[a].item, auditRun, auditNow))>>, auditNow)
  /\ auditPhase' = "nested" /\ item' = a
  /\ UNCHANGED <<records, auditRun, auditNow, left, front, calls>>

\* Mutants: the record that is already there is not looked up; versions count
\* from zero.
OptimizationAnew(id, status, decidedAt) ==
  [run |-> auditRun, status |-> status, decidedAt |-> decidedAt,
   createdAt |-> auditNow, updatedAt |-> auditNow, version |-> 1]
OptimizationFromZero(id, status, decidedAt) ==
  [run |-> auditRun, status |-> status, decidedAt |-> decidedAt,
   createdAt |-> IF Absent(optimizations, id) THEN auditNow ELSE optimizations[id].createdAt,
   updatedAt |-> auditNow,
   version |-> IF Absent(optimizations, id) THEN 0 ELSE optimizations[id].version + 1]

\* The proposal is upserted with the outcome; a failed append of that record
\* is ignored (MemoryStore has what it leaves behind).
Optimization(id, status, decidedAt) ==
  [run |-> auditRun, status |-> status, decidedAt |-> decidedAt,
   createdAt |-> IF Absent(optimizations, id) THEN auditNow ELSE optimizations[id].createdAt,
   updatedAt |-> auditNow,
   version |-> IF Absent(optimizations, id) THEN 1 ELSE optimizations[id].version + 1]

\* Mutant: the loop does not move on.
UpsertOptimizationStays(status, decidedAt) ==
  LET id == StableProposalId(item, activities[item].item)
  IN  /\ optimizations' = [optimizations EXCEPT ![id] = Optimization(id, status, decidedAt)]
      /\ front' = IF front = "None" THEN status ELSE front
      /\ left' = left /\ item' = 0 /\ auditPhase' = "triage"

UpsertOptimization(status, decidedAt) ==
  LET id == StableProposalId(item, activities[item].item)
  IN  /\ optimizations' = [optimizations EXCEPT ![id] = Optimization(id, status, decidedAt)]
      /\ front' = IF front = "None" THEN status ELSE front
      /\ left' = left \ {item} /\ item' = 0
      /\ auditPhase' = IF left \ {item} = {} THEN "complete" ELSE "triage"

\* Mutant: whatever is not rejected counts as approved.
TriageStatusOptimistic(counts) == IF counts["Rejected"] = 0 THEN "Approved" ELSE "Rejected"

\* The outcome is read from the counts of the response.
TriageStatus(counts) ==
  IF counts["Approved"] = 1 THEN "Approved" ELSE IF counts["Deferred"] = 1 THEN "Deferred"
  ELSE IF counts["Rejected"] = 1 THEN "Rejected" ELSE "Backlogged"
Counts == [d \in DecisionTypes |-> Cardinality({i \in DOMAIN outcome : outcome[i] = d})]

\* Mutant: the response is taken before the last record is written.
RecordProposalUnfinished ==
  /\ auditPhase = "nested" /\ phase \in {"backlog", "intervention", "done"}
  /\ Idle /\ UNCHANGED <<store, torn, requests>>
  /\ UpsertOptimization(TriageStatus(Counts), auditNow)
  /\ UNCHANGED <<activities, runs, auditRun, auditNow, calls>>

RecordProposal ==
  /\ auditPhase = "nested" /\ phase = "done"
  /\ Respond
  /\ UpsertOptimization(TriageStatus(Counts), auditNow)
  /\ UNCHANGED <<activities, runs, auditRun, auditNow, calls>>

\* The store refuses the behavioral proposal: triage answers Failed at once,
\* and the audit goes on.  To triage it is as if the request had died.
RecordFailure ==
  /\ auditPhase = "nested" /\ phase = "store"
  /\ Crash
  /\ UpsertOptimization("Failed", NoTime)
  /\ UNCHANGED <<activities, runs, auditRun, auditNow, calls>>

RunRecord ==
  LET known == auditRun \in DOMAIN runs
  IN  [inventory |-> Inventory, proposals |-> Cardinality(Known), accepted |-> front,
       createdAt |-> IF known THEN runs[auditRun].createdAt ELSE auditNow,
       updatedAt |-> auditNow,
       version |-> IF known THEN runs[auditRun].version + 1 ELSE 1]

CompleteAudit ==
  /\ auditPhase = "complete"
  /\ runs' = [r \in DOMAIN runs \union {auditRun} |-> IF r = auditRun THEN RunRecord ELSE runs[r]]
  /\ Resting
  /\ UNCHANGED <<vars, activities, optimizations, calls>>

-----------------------------------------------------------------------------
(* Requests to triage that do not come from an audit, and the steps of the *)
(* one that is running.                                                    *)
TriageRequest ==
  /\ auditPhase = "idle"
  /\ \/ \E id \in SnapshotIds, s \in SnapshotInputs : RecordState(id, s)
     \/ \E t \in Times : BeginReevaluation(t)
     \/ Respond
  /\ UNCHANGED auditorVars

TriageStep ==
  /\ \/ StoreProposal \/ \E i \in remaining : Decide(i)
     \/ WriteBacklogItem \/ WriteIntervention \/ WriteArtifact
  /\ UNCHANGED auditorVars

\* The process dies, in or outside a nested request.
Die ==
  /\ auditPhase # "idle" \/ phase # "idle"
  /\ Crash \/ (phase = "idle" /\ UNCHANGED vars)
  /\ Resting
  /\ UNCHANGED <<records, calls>>

AuditStep == \/ RecordRunState \/ RankInventory
             \/ \E a \in left : DispatchTriage(a)
             \/ RecordProposal \/ CompleteAudit

AuditorNext ==
  \/ \E a \in Activities, c \in Changes : UpsertActivity(a, c)
  \/ \E name \in RunNames \union {NoName}, t \in Times : BeginAudit(name, t)
  \/ AuditStep \/ RecordFailure
  \/ TriageRequest \/ TriageStep \/ Die

AuditorSpec == AuditorInit /\ [][AuditorNext]_<<vars, auditorVars>>

\* The handlers are straight-line code: a request that runs goes on.
FairAuditorSpec ==
  AuditorSpec /\ WF_<<vars, auditorVars>>(AuditStep \/ TriageStep)

-----------------------------------------------------------------------------
(* Properties *)

\* The auditor's records and the audit in progress have their types.
AuditorTypeOK ==
  /\ activities \in [Activities -> Optional(ActivityRecords)]
  /\ optimizations \in [ProposalIds -> Optional(OptimizationRecords)]
  /\ DOMAIN runs \subseteq RunIds /\ \A r \in DOMAIN runs : runs[r] \in RunRecords
  /\ auditPhase \in AuditPhases /\ left \subseteq Known
  /\ auditPhase # "idle" => auditRun \in RunIds /\ auditNow \in Times
  /\ auditPhase = "nested" => item \in left
  /\ front \in TriageStatuses \union {"None"}
  /\ calls \in 0..MaxCalls

\* An optimization record never claims an outcome of triage that left no
\* trace: an approval has its intervention, a deferral its backlog item, any
\* outcome a decision, whatever died in between and whatever is decided later.
\* docs/BEHAVIORAL_TRIAGE_BASELINE.md: "Auditor outputs should not bypass
\* triage approval, backlog handling, or intervention ordering."
OutcomeHasEvidence ==
  \A p \in ProposalIds : ~Absent(optimizations, p) =>
    LET status == optimizations[p].status
    IN  /\ status \in DecisionTypes => ~Absent(proposals, p) /\ ~Absent(decisions, p)
        /\ status = "Approved" => ~Absent(interventions, p)
        /\ status \in {"Deferred", "Backlogged"} => ~Absent(backlog, p)

\* A run on record had every activity of its inventory triaged and recorded:
\* a run that died or met an attribute it cannot convert leaves no run record,
\* and the record counts no more completions than each of its proposals does.
RunIsWhole ==
  \A r \in DOMAIN runs : \A a \in DOMAIN runs[r].inventory :
    LET id == StableProposalId(a, runs[r].inventory[a])
    IN  /\ Convertible(runs[r].inventory[a])
        /\ ~Absent(optimizations, id)
        /\ r.name = NoName => optimizations[id].version >= runs[r].version

\* Every audit ends, with its run recorded, refused or by dying.
AuditEnds == auditPhase # "idle" ~> auditPhase = "idle"
=============================================================================
