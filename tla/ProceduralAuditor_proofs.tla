---------------------- MODULE ProceduralAuditor_proofs ----------------------
(***************************************************************************)
(* Proofs about ProceduralAuditor, for every inventory, change, snapshot   *)
(* and time and every bound.  An audit is a client of triage: its steps    *)
(* are steps of BehavioralTriage or leave triage alone, so everything      *)
(* proved of triage holds under it, and what it records rests on that.     *)
(***************************************************************************)
EXTENDS ProceduralAuditor, BehavioralTriage_proofs

-----------------------------------------------------------------------------
(* The inductive invariant *)

IdNow(a) == StableProposalId(a, activities[a].item)

\* What is queued can be converted; the run is recorded when nothing is left.
QueueIsSound ==
  /\ auditPhase \in {"triage", "nested"} => \A a \in left : Convertible(activities[a].item)
  /\ auditPhase = "complete" => left = {}

\* Triage rests between nested requests, and a nested request is the one the
\* audit dispatched; the decision it made is the last one on record.
Requested == Proposal(IdNow(item), TriageBody(activities[item].item, auditRun, auditNow))
NestedRequest ==
  /\ auditPhase \notin {"idle", "nested"} => phase = "idle"
  /\ auditPhase = "nested" =>
       /\ phase \in {"store", "decide", "backlog", "intervention", "done"}
       /\ kind = "triage" /\ batch = <<Requested>>
       /\ \A i \in DOMAIN outcome :
            decisions[batch[i].id] = [type |-> outcome[i], decidedAt |-> now]

\* A run without a name stands for the inventory it was made of.
RunStandsForInventory ==
  /\ auditPhase # "idle" /\ auditRun.name = NoName => auditRun.of = Inventory
  /\ \A r \in DOMAIN runs : r.name = NoName => runs[r].inventory = r.of

\* What the audit has passed is recorded, once more than its run was completed.
PassedIsRecorded ==
  auditPhase \in {"triage", "nested", "complete"} =>
    \A a \in Known \ left :
      /\ Convertible(activities[a].item)
      /\ ~Absent(optimizations, IdNow(a))
      /\ auditRun.name = NoName /\ auditRun \in DOMAIN runs
           => optimizations[IdNow(a)].version > runs[auditRun].version

AuditInv == /\ AuditorTypeOK /\ QueueIsSound /\ NestedRequest
            /\ RunStandsForInventory /\ PassedIsRecorded
            /\ OutcomeHasEvidence /\ RunIsWhole

-----------------------------------------------------------------------------
(* Steps of the audit are steps of triage *)

\* What an audit dispatches is a request that triage may get.
LEMMA RequestIsBatch ==
  ASSUME NEW a \in Activities, NEW i \in Items, Convertible(i),
         NEW r \in RunIds, NEW t \in Times
  PROVE  <<Proposal(StableProposalId(a, i), TriageBody(i, r, t))>> \in Batches
<1> DEFINE p == Proposal(StableProposalId(a, i), TriageBody(i, r, t))
<1>1. p \in Proposals
  BY AuditorAssumption DEF Proposals
<1>2. <<p>> \in [1..1 -> Proposals]
  BY <1>1
<1>3. 1 \in 1..MaxBatch
  BY BoundsAssumption
<1> QED
  BY <1>2, <1>3 DEF Batches

\* Items of what is left, and of the activity being triaged.
LEMMA LeftAreItems ==
  ASSUME AuditorTypeOK, NEW a \in left
  PROVE  a \in Activities /\ activities[a] \in ActivityRecords /\ activities[a].item \in Items
         /\ a \in Known
BY DEF AuditorTypeOK, Known, Absent, Optional, ActivityRecords

LEMMA StepIsTriageStep ==
  ASSUME AuditInv, [AuditorNext]_<<vars, auditorVars>>
  PROVE  [Next]_vars
<1> USE DEF AuditInv
<1>1. ASSUME NEW a \in left, DispatchTriage(a)
      PROVE  Next
  <2>1. /\ Convertible(activities[a].item) /\ auditRun \in RunIds /\ auditNow \in Times
        /\ a \in Activities /\ activities[a].item \in Items
    BY <1>1, LeftAreItems DEF DispatchTriage, QueueIsSound, AuditorTypeOK
  <2> DEFINE b == <<Proposal(StableProposalId(a, activities[a].item),
                             TriageBody(activities[a].item, auditRun, auditNow))>>
  <2>2. b \in Batches
    BY <2>1, RequestIsBatch
  <2>3. BeginTriage(b, auditNow)
    BY <1>1 DEF DispatchTriage
  <2>4. phase = "idle" /\ \E c \in Batches, t \in Times : BeginTriage(c, t)
    <3>1. phase = "idle"
      BY <2>3 DEF BeginTriage
    <3> QED
      BY <2>1, <2>2, <2>3, <3>1
  <2> QED
    BY <2>4 DEF Next
<1>2. CASE RecordRunState
  <2>1. RunSnapshotId \in SnapshotIds /\ RunSnapshot(auditNow) \in SnapshotInputs
    BY <1>2, AuditorAssumption DEF RecordRunState, AuditorTypeOK
  <2>2. RecordState(RunSnapshotId, RunSnapshot(auditNow))
    BY <1>2 DEF RecordRunState
  <2> QED
    BY <2>1, <2>2 DEF Next
<1>3. CASE RecordProposal
  BY <1>3 DEF RecordProposal, Next
<1>4. CASE RecordFailure
  BY <1>4 DEF RecordFailure, Next
<1>5. CASE TriageRequest
  BY <1>5 DEF TriageRequest, Next
<1>6. CASE TriageStep
  BY <1>6 DEF TriageStep, Next
<1>7. CASE Die
  BY <1>7 DEF Die, Next
<1>8. CASE RankInventory
  BY <1>8 DEF RankInventory
<1>9. CASE CompleteAudit
  BY <1>9 DEF CompleteAudit
<1>10. CASE \E a \in Activities, c \in Changes : UpsertActivity(a, c)
  BY <1>10 DEF UpsertActivity
<1>11. CASE \E name \in RunNames \union {NoName}, t \in Times : BeginAudit(name, t)
  BY <1>11 DEF BeginAudit
<1>12. CASE UNCHANGED <<vars, auditorVars>>
  BY <1>12
<1> QED
  BY <1>1, <1>2, <1>3, <1>4, <1>5, <1>6, <1>7, <1>8, <1>9, <1>10, <1>11, <1>12
     DEF AuditorNext, AuditStep

-----------------------------------------------------------------------------
(* Evidence, once there, stays *)

LEMMA RecordsStay ==
  ASSUME IInv, TypeOK', [Next]_vars, NEW p \in ProposalIds
  PROVE  /\ ~Absent(proposals, p) => ~Absent(proposals, p)'
         /\ ~Absent(decisions, p) => ~Absent(decisions, p)'
         /\ ~Absent(backlog, p) => ~Absent(backlog, p)'
         /\ ~Absent(interventions, p) => ~Absent(interventions, p)'
<1> USE DEF IInv, Absent
<1>1. CASE StoreProposal
  BY <1>1, StoreKeepsProposals DEF StoreProposal
<1>2. ASSUME NEW i \in remaining, Decide(i)
      PROVE  /\ proposals' = proposals /\ backlog' = backlog /\ interventions' = interventions
             /\ decisions[p] # NoRecord => decisions'[p] # NoRecord
  BY <1>2, DecideEffect, RecordsArePresent DEF Decide
<1>3. CASE WriteBacklogItem
  BY <1>3, BacklogEffect DEF WriteBacklogItem
<1>4. CASE WriteIntervention
  BY <1>4, InterventionEffect DEF WriteIntervention
<1>5. CASE \E id \in SnapshotIds, s \in SnapshotInputs : RecordState(id, s)
  BY <1>5 DEF RecordState
<1>6. CASE (\E b \in Batches, t \in Times : BeginTriage(b, t)) \/ \E t \in Times : BeginReevaluation(t)
  BY <1>6 DEF BeginTriage, BeginReevaluation, store
<1>7. CASE WriteArtifact \/ Respond \/ Crash \/ UNCHANGED vars
  BY <1>7 DEF WriteArtifact, Respond, Crash, store, vars
<1> QED
  BY <1>1, <1>2, <1>3, <1>4, <1>5, <1>6, <1>7 DEF Next

LEMMA EvidenceStays ==
  ASSUME IInv, TypeOK', [Next]_vars, OutcomeHasEvidence, optimizations' = optimizations
  PROVE  OutcomeHasEvidence'
BY RecordsStay DEF OutcomeHasEvidence, Absent

-----------------------------------------------------------------------------
(* Types of what the audit computes *)

LEMMA InventoryIsOne ==
  ASSUME AuditorTypeOK
  PROVE  Inventory \in Inventories /\ DOMAIN Inventory = Known /\ Known \subseteq Activities
         /\ \A a \in Known : /\ Inventory[a] = activities[a].item
                              /\ activities[a] \in ActivityRecords
<1>1. Known \subseteq Activities
  BY DEF Known
<1>2. \A a \in Known : activities[a] \in ActivityRecords
  BY DEF Known, AuditorTypeOK, Optional, Absent
<1>3. Inventory \in [Known -> Items]
  BY <1>2 DEF Inventory, ActivityRecords
<1> QED
  BY <1>1, <1>2, <1>3 DEF Inventory, Inventories

LEMMA RunOfIsRun ==
  ASSUME NEW name \in RunNames \union {NoName}, NEW f \in Inventories
  PROVE  RunOf(name, f) \in RunIds /\ RunOf(name, f).name = name
         /\ (name = NoName => RunOf(name, f).of = f)
BY AuditorAssumption DEF RunOf, RunIds

LEMMA OptimizationIsRecord ==
  ASSUME AuditorTypeOK, auditPhase # "idle", NEW id \in ProposalIds,
         NEW status \in TriageStatuses, NEW t \in Times \union {NoTime}
  PROVE  /\ Optimization(id, status, t) \in OptimizationRecords
         /\ ~Absent(optimizations, id) =>
              Optimization(id, status, t).version > optimizations[id].version
<1>1. auditRun \in RunIds /\ auditNow \in Times
  BY DEF AuditorTypeOK
<1>2. ~Absent(optimizations, id) => optimizations[id] \in OptimizationRecords
  BY DEF AuditorTypeOK, Optional, Absent
<1> QED
  BY <1>1, <1>2 DEF Optimization, OptimizationRecords

-----------------------------------------------------------------------------
(* Every step keeps the invariant *)

LEMMA InitAudit == AuditorInit => AuditInv
<1> SUFFICES ASSUME AuditorInit PROVE AuditInv
  OBVIOUS
<1>1. AuditorTypeOK
  BY MaxCallsAssumption DEF AuditorInit, AuditorTypeOK, Optional, AuditPhases
<1> QED
  BY <1>1 DEF AuditorInit, Init, AuditInv, QueueIsSound, NestedRequest, RunStandsForInventory,
              PassedIsRecorded, OutcomeHasEvidence, RunIsWhole, Absent

LEMMA UpsertKeeps ==
  ASSUME AuditInv, NEW a \in Activities, NEW c \in Changes, UpsertActivity(a, c)
  PROVE  AuditInv'
<1> USE DEF AuditInv
<1> DEFINE rec == activities'[a]
<1>1. activities' = [activities EXCEPT ![a] = rec] /\ activities'[a] \in ActivityRecords
  <2>1. CASE Absent(activities, a)
    <3>1. rec = [item |-> Merged(FreshItem, c), version |-> 1]
          /\ activities' = [activities EXCEPT ![a] = [item |-> Merged(FreshItem, c), version |-> 1]]
      BY <2>1 DEF UpsertActivity, AuditorTypeOK
    <3> QED
      BY <3>1, ItemsAssumption DEF ActivityRecords
  <2>2. CASE ~Absent(activities, a)
    <3>1. activities[a] \in ActivityRecords
      BY <2>2 DEF AuditorTypeOK, Optional, Absent
    <3> DEFINE new == [item |-> Merged(activities[a].item, c), version |-> activities[a].version + 1]
    <3>2. rec = new /\ activities' = [activities EXCEPT ![a] = new]
      BY <2>2 DEF UpsertActivity, AuditorTypeOK
    <3>3. new \in ActivityRecords
      BY <3>1, ItemsAssumption DEF ActivityRecords
    <3> QED
      BY <3>2, <3>3
  <2> QED
    BY <2>1, <2>2
<1>2. activities' \in [Activities -> Optional(ActivityRecords)]
  BY <1>1 DEF AuditorTypeOK, Optional
<1>3. auditPhase = "idle" /\ UNCHANGED <<vars, optimizations, runs, auditing>> /\ calls' \in 0..MaxCalls
  BY MaxCallsAssumption DEF UpsertActivity, AuditorTypeOK
<1>4. left' \subseteq Known'
  <2>1. \A b \in Activities : activities[b] # NoRecord => activities'[b] # NoRecord
    BY <1>1, AuditorRecordsAssumption DEF AuditorTypeOK
  <2> QED
    BY <1>3, <2>1 DEF AuditorTypeOK, Known, Absent, auditing
<1>5. AuditorTypeOK'
  BY <1>2, <1>3, <1>4 DEF AuditorTypeOK, auditing
<1>6. QueueIsSound' /\ PassedIsRecorded' /\ NestedRequest' /\ RunStandsForInventory'
  BY <1>3 DEF QueueIsSound, PassedIsRecorded, NestedRequest, RunStandsForInventory, auditing
<1>7. OutcomeHasEvidence' /\ RunIsWhole'
  BY <1>3 DEF OutcomeHasEvidence, RunIsWhole, vars, Absent
<1> QED
  BY <1>5, <1>6, <1>7

LEMMA BeginKeeps ==
  ASSUME AuditInv, NEW name \in RunNames \union {NoName}, NEW t \in Times, BeginAudit(name, t)
  PROVE  AuditInv'
<1> USE DEF AuditInv
<1>1. auditRun' \in RunIds /\ (auditRun'.name = NoName => auditRun'.of = Inventory)
  <2>1. auditRun' = RunOf(name, Inventory) /\ Inventory \in Inventories
    BY InventoryIsOne DEF BeginAudit
  <2> HIDE DEF AuditInv
  <2>2. RunOf(name, Inventory) \in RunIds /\ RunOf(name, Inventory).name = name
        /\ (name = NoName => RunOf(name, Inventory).of = Inventory)
    BY <2>1, RunOfIsRun
  <2> QED
    BY <2>1, <2>2
<1>2. auditPhase' \in {"state", "rank"} /\ phase' = "idle" /\ Inventory' = Inventory
  BY DEF BeginAudit, vars, records, Inventory, Known, Absent
<1>3. AuditorTypeOK'
  BY <1>1, <1>2, MaxCallsAssumption DEF BeginAudit, AuditorTypeOK, AuditPhases, records
<1>4. QueueIsSound' /\ PassedIsRecorded' /\ NestedRequest' /\ RunStandsForInventory'
  BY <1>1, <1>2 DEF BeginAudit, QueueIsSound, PassedIsRecorded, NestedRequest,
                    RunStandsForInventory, records
<1>5. OutcomeHasEvidence' /\ RunIsWhole'
  BY DEF BeginAudit, OutcomeHasEvidence, RunIsWhole, vars, records, Absent
<1> QED
  BY <1>3, <1>4, <1>5

LEMMA RecordStateKeeps ==
  ASSUME AuditInv, RecordRunState
  PROVE  AuditInv'
<1> USE DEF AuditInv
<1>1. auditPhase' = "rank" /\ phase' = "idle" /\ Inventory' = Inventory /\ auditPhase = "state"
  BY DEF RecordRunState, RecordState, records, Inventory, Known, Absent
<1>2. AuditorTypeOK'
  BY <1>1 DEF RecordRunState, AuditorTypeOK, AuditPhases, records, Known, Absent
<1>3. QueueIsSound' /\ PassedIsRecorded' /\ NestedRequest' /\ RunStandsForInventory'
  BY <1>1 DEF RecordRunState, QueueIsSound, PassedIsRecorded, NestedRequest,
              RunStandsForInventory, records
<1>4. OutcomeHasEvidence' /\ RunIsWhole'
  BY DEF RecordRunState, RecordState, OutcomeHasEvidence, RunIsWhole, records, Absent
<1> QED
  BY <1>2, <1>3, <1>4

LEMMA RankKeeps ==
  ASSUME AuditInv, RankInventory
  PROVE  AuditInv'
<1> USE DEF AuditInv
<1>1. /\ auditPhase' \in {"idle", "complete", "triage"} /\ phase' = "idle" /\ phase = "idle"
      /\ UNCHANGED <<vars, records, calls>> /\ Inventory' = Inventory /\ Known' = Known
      /\ auditPhase = "rank"
  BY DEF RankInventory, Resting, NestedRequest, vars, records, Inventory, Known, Absent
<1>2. AuditorTypeOK'
  BY <1>1 DEF RankInventory, Resting, AuditorTypeOK, AuditPhases, records
<1>3. QueueIsSound' /\ PassedIsRecorded'
  BY <1>1 DEF RankInventory, Resting, QueueIsSound, PassedIsRecorded, records
<1>4. NestedRequest' /\ RunStandsForInventory'
  BY <1>1 DEF RankInventory, Resting, NestedRequest, RunStandsForInventory, records
<1>5. OutcomeHasEvidence' /\ RunIsWhole'
  BY <1>1 DEF OutcomeHasEvidence, RunIsWhole, vars, records, Absent
<1> QED
  BY <1>2, <1>3, <1>4, <1>5

LEMMA DispatchKeeps ==
  ASSUME AuditInv, IInv, NEW a \in left, DispatchTriage(a)
  PROVE  AuditInv'
<1> USE DEF AuditInv
<1>1. /\ auditPhase' = "nested" /\ phase' = "store" /\ kind' = "triage" /\ item' = a
      /\ UNCHANGED <<records, auditRun, auditNow, left, front, calls, store, engine>>
      /\ auditPhase = "triage" /\ phase = "idle" /\ outcome' = outcome
      /\ batch' = <<Proposal(StableProposalId(a, activities[a].item),
                             TriageBody(activities[a].item, auditRun, auditNow))>>
  BY DEF DispatchTriage, BeginTriage, engine
<1>2. Inventory' = Inventory /\ Known' = Known
  BY <1>1 DEF records, Inventory, Known, Absent
<1>3. outcome = <<>>
  BY <1>1 DEF IInv, Progress, EngineProgress, Deciding
<1>4. AuditorTypeOK'
  BY <1>1, <1>2 DEF AuditorTypeOK, AuditPhases, records
<1>5. QueueIsSound' /\ PassedIsRecorded'
  BY <1>1, <1>2 DEF QueueIsSound, PassedIsRecorded, records, IdNow, Absent
<1>6. NestedRequest' /\ RunStandsForInventory'
  BY <1>1, <1>2, <1>3 DEF NestedRequest, RunStandsForInventory, Requested, IdNow, records
<1>7. OutcomeHasEvidence' /\ RunIsWhole'
  BY <1>1 DEF OutcomeHasEvidence, RunIsWhole, store, records, Absent
<1> QED
  BY <1>4, <1>5, <1>6, <1>7

\* A nested request is a vector of one, whose id is that of the activity.
LEMMA NestedBatch ==
  ASSUME AuditInv, IInv, auditPhase = "nested"
  PROVE  /\ item \in left /\ item \in Activities /\ item \in Known /\ activities[item].item \in Items
         /\ IdNow(item) \in ProposalIds
         /\ DOMAIN batch = {1} /\ batch[1].id = IdNow(item)
         /\ phase = "done" => DOMAIN outcome = {1} /\ outcome[1] \in DecisionTypes
<1>1. item \in left /\ batch = <<Requested>>
  BY DEF AuditInv, AuditorTypeOK, NestedRequest
<1>2. item \in Activities /\ item \in Known /\ activities[item].item \in Items
  BY <1>1, LeftAreItems DEF AuditInv
<1>3. IdNow(item) \in ProposalIds
  BY <1>2, AuditorAssumption DEF IdNow
<1>4. DOMAIN batch = {1} /\ batch[1].id = IdNow(item)
  BY <1>1 DEF Requested, Proposal
<1>5. phase = "done" => DOMAIN outcome = {1} /\ outcome[1] \in DecisionTypes
  <2> SUFFICES ASSUME phase = "done" PROVE DOMAIN outcome = {1} /\ outcome[1] \in DecisionTypes
    OBVIOUS
  <2>1. DOMAIN outcome = {1}
    BY <1>4 DEF IInv, Progress, EngineProgress, Deciding
  <2> QED
    BY <2>1 DEF IInv, TypeOK
<1> QED
  BY <1>1, <1>2, <1>3, <1>4, <1>5

\* The status recorded is the decision of the one proposal.
LEMMA StatusIsDecision ==
  ASSUME DOMAIN outcome = {1}, outcome[1] \in DecisionTypes
  PROVE  TriageStatus(Counts) = outcome[1]
<1>1. \A d \in DecisionTypes : Counts[d] = IF d = outcome[1] THEN 1 ELSE 0
  <2> SUFFICES ASSUME NEW d \in DecisionTypes PROVE Counts[d] = IF d = outcome[1] THEN 1 ELSE 0
    OBVIOUS
  <2> DEFINE S == {i \in DOMAIN outcome : outcome[i] = d}
  <2>1. Counts[d] = Cardinality(S)
    BY DEF Counts
  <2>2. CASE d = outcome[1]
    <3>1. S = {1}
      BY <2>2
    <3>2. Cardinality({1}) = 1
      BY FS_Singleton
    <3> QED
      BY <2>1, <2>2, <3>1, <3>2
  <2>3. CASE d # outcome[1]
    <3>1. S = {}
      BY <2>3
    <3>2. Cardinality({}) = 0
      BY FS_EmptySet
    <3> QED
      BY <2>1, <2>3, <3>1, <3>2
  <2> QED
    BY <2>2, <2>3
<1> HIDE DEF Counts
<1> QED
  BY <1>1 DEF TriageStatus, DecisionTypes

\* What recording one outcome does to the auditor's own part of the invariant.
LEMMA UpsertOptimizationKeeps ==
  ASSUME AuditInv, IInv, auditPhase = "nested", phase' = "idle",
         NEW status \in TriageStatuses, NEW t \in Times \union {NoTime},
         UpsertOptimization(status, t),
         UNCHANGED <<activities, runs, auditRun, auditNow, calls>>
  PROVE  /\ AuditorTypeOK' /\ QueueIsSound' /\ NestedRequest' /\ RunStandsForInventory'
         /\ PassedIsRecorded' /\ RunIsWhole'
         /\ \A q \in ProposalIds : q # IdNow(item) => optimizations'[q] = optimizations[q]
         /\ optimizations'[IdNow(item)].status = status
<1> USE DEF AuditInv
<1> DEFINE id == IdNow(item)
           rec == Optimization(id, status, t)
<1>1. /\ item \in left /\ item \in Known /\ item \in Activities /\ id \in ProposalIds
      /\ activities[item].item \in Items
  BY NestedBatch
<1>2. /\ optimizations' = [optimizations EXCEPT ![id] = rec]
      /\ left' = left \ {item} /\ auditPhase' \in {"complete", "triage"}
      /\ auditPhase' = "complete" => left' = {}
  BY DEF UpsertOptimization, IdNow
<1>3. rec \in OptimizationRecords /\ (~Absent(optimizations, id) => rec.version > optimizations[id].version)
  BY <1>1, OptimizationIsRecord
<1>4. rec.status = status /\ rec # NoRecord
  BY <1>3, AuditorRecordsAssumption DEF Optimization
<1>5. /\ optimizations'[id] = rec
      /\ \A q \in ProposalIds : q # id => optimizations'[q] = optimizations[q]
  BY <1>1, <1>2 DEF AuditorTypeOK
<1>6. \A q \in ProposalIds : ~Absent(optimizations, q) =>
        /\ optimizations'[q] # NoRecord /\ optimizations[q].version \in Nat
        /\ optimizations'[q].version \in Nat /\ optimizations'[q].version >= optimizations[q].version
  <2> SUFFICES ASSUME NEW q \in ProposalIds, ~Absent(optimizations, q)
               PROVE  /\ optimizations'[q] # NoRecord /\ optimizations[q].version \in Nat
                      /\ optimizations'[q].version \in Nat
                      /\ optimizations'[q].version >= optimizations[q].version
    OBVIOUS
  <2>1. optimizations[q] \in OptimizationRecords
    BY DEF AuditorTypeOK, Optional, Absent
  <2>2. optimizations[q].version \in Nat /\ rec.version \in Nat
    BY <2>1, <1>3 DEF OptimizationRecords
  <2>3. CASE q = id
    BY <1>3, <1>4, <1>5, <2>2, <2>3
  <2>4. CASE q # id
    BY <1>5, <2>2, <2>4 DEF Absent
  <2> QED
    BY <2>3, <2>4
<1>7. Inventory' = Inventory /\ Known' = Known
  BY DEF Inventory, Known, Absent
<1>8. AuditorTypeOK'
  <2>1. optimizations' \in [ProposalIds -> Optional(OptimizationRecords)]
    BY <1>2, <1>3 DEF AuditorTypeOK, Optional
  <2>2. front' \in TriageStatuses \union {"None"}
    BY DEF UpsertOptimization, AuditorTypeOK
  <2> QED
    BY <1>2, <1>7, <2>1, <2>2 DEF AuditorTypeOK, AuditPhases
<1>9. QueueIsSound'
  BY <1>2 DEF QueueIsSound
<1>10. NestedRequest' /\ RunStandsForInventory'
  BY <1>2, <1>7 DEF NestedRequest, RunStandsForInventory
<1>11. RunIsWhole'
  <2> SUFFICES ASSUME NEW r \in DOMAIN runs, NEW a \in DOMAIN runs[r].inventory
               PROVE  LET q == StableProposalId(a, runs[r].inventory[a])
                      IN  /\ Convertible(runs[r].inventory[a])
                          /\ optimizations'[q] # NoRecord
                          /\ r.name = NoName => optimizations'[q].version >= runs[r].version
    BY DEF RunIsWhole, Absent
  <2> DEFINE q == StableProposalId(a, runs[r].inventory[a])
  <2>1. runs[r].inventory \in Inventories /\ runs[r].version \in Nat
    BY DEF AuditorTypeOK, RunRecords
  <2>2. a \in Activities /\ runs[r].inventory[a] \in Items
    BY <2>1 DEF Inventories
  <2>3. q \in ProposalIds
    BY <2>2, AuditorAssumption
  <2>4. /\ Convertible(runs[r].inventory[a]) /\ ~Absent(optimizations, q)
        /\ r.name = NoName => optimizations[q].version >= runs[r].version
    BY DEF RunIsWhole
  <2>5. /\ optimizations'[q] # NoRecord /\ optimizations[q].version \in Nat
        /\ optimizations'[q].version \in Nat /\ optimizations'[q].version >= optimizations[q].version
    BY <2>3, <2>4, <1>6
  <2> HIDE DEF q
  <2>6. r.name = NoName => optimizations'[q].version >= runs[r].version
    BY <2>1, <2>4, <2>5
  <2> QED
    BY <2>4, <2>5, <2>6 DEF q
<1>12. PassedIsRecorded'
  <2> SUFFICES ASSUME NEW a \in Known \ left'
               PROVE  /\ Convertible(activities[a].item)
                      /\ optimizations'[IdNow(a)] # NoRecord
                      /\ auditRun.name = NoName /\ auditRun \in DOMAIN runs
                           => optimizations'[IdNow(a)].version > runs[auditRun].version
    BY <1>7 DEF PassedIsRecorded, Absent, IdNow
  <2>1. a \in Activities /\ activities[a].item \in Items /\ activities[a].item = Inventory[a]
    BY InventoryIsOne DEF ActivityRecords
  <2>2. IdNow(a) \in ProposalIds
    BY <2>1, AuditorAssumption DEF IdNow
  <2>3. auditRun \in DOMAIN runs => runs[auditRun].version \in Nat
    BY DEF AuditorTypeOK, RunRecords
  <2>4. CASE a \notin left
    <3>1. /\ Convertible(activities[a].item) /\ ~Absent(optimizations, IdNow(a))
          /\ auditRun.name = NoName /\ auditRun \in DOMAIN runs
                => optimizations[IdNow(a)].version > runs[auditRun].version
      BY <2>4 DEF PassedIsRecorded
    <3>2. /\ optimizations'[IdNow(a)] # NoRecord /\ optimizations[IdNow(a)].version \in Nat
          /\ optimizations'[IdNow(a)].version \in Nat
          /\ optimizations'[IdNow(a)].version >= optimizations[IdNow(a)].version
      BY <2>2, <3>1, <1>6
    <3> QED
      BY <2>3, <3>1, <3>2
  <2>5. CASE a \in left
    <3>1. a = item
      BY <1>2, <2>5
    <3>2. Convertible(activities[a].item)
      BY <1>1, <3>1 DEF QueueIsSound
    <3>3. optimizations'[IdNow(a)] # NoRecord /\ rec.version \in Nat /\ rec.version >= 1
      BY <1>3, <1>4, <1>5, <3>1 DEF OptimizationRecords
    <3>4. ASSUME auditRun.name = NoName, auditRun \in DOMAIN runs
          PROVE  rec.version > runs[auditRun].version
      <4>1. runs[auditRun].inventory = Inventory /\ DOMAIN Inventory = Known
        BY <3>4, InventoryIsOne DEF RunStandsForInventory
      <4>2. /\ ~Absent(optimizations, id) /\ optimizations[id].version >= runs[auditRun].version
        BY <1>1, <2>1, <3>1, <3>4, <4>1 DEF RunIsWhole, IdNow
      <4>3. rec.version > optimizations[id].version /\ optimizations[id].version \in Nat
        BY <1>1, <1>3, <1>6, <4>2
      <4> QED
        BY <2>3, <3>3, <3>4, <4>2, <4>3
    <3> QED
      BY <1>5, <3>1, <3>2, <3>3, <3>4
  <2> QED
    BY <2>4, <2>5
<1> QED
  BY <1>4, <1>5, <1>8, <1>9, <1>10, <1>11, <1>12

LEMMA RecordProposalKeeps ==
  ASSUME AuditInv, IInv, RecordProposal
  PROVE  AuditInv'
<1> DEFINE id == IdNow(item)
<1>1. /\ auditPhase = "nested" /\ phase = "done" /\ phase' = "idle"
      /\ UNCHANGED <<proposals, decisions, backlog, interventions>>
      /\ UpsertOptimization(TriageStatus(Counts), auditNow)
      /\ UNCHANGED <<activities, runs, auditRun, auditNow, calls>>
  BY DEF RecordProposal, Respond, Idle, store
<1>2. /\ DOMAIN outcome = {1} /\ outcome[1] \in DecisionTypes /\ batch[1].id = id
      /\ id \in ProposalIds
  BY <1>1, NestedBatch
<1>3. TriageStatus(Counts) = outcome[1]
  BY <1>2, StatusIsDecision
<1>4. outcome[1] \in TriageStatuses /\ auditNow \in Times \union {NoTime}
  BY <1>1, <1>2 DEF TriageStatuses, AuditInv, AuditorTypeOK
<1>5. /\ AuditorTypeOK' /\ QueueIsSound' /\ NestedRequest' /\ RunStandsForInventory'
      /\ PassedIsRecorded' /\ RunIsWhole'
      /\ \A q \in ProposalIds : q # id => optimizations'[q] = optimizations[q]
      /\ optimizations'[id].status = outcome[1]
  BY <1>1, <1>3, <1>4, UpsertOptimizationKeeps
<1>6. decisions[id] = [type |-> outcome[1], decidedAt |-> now]
  BY <1>1, <1>2 DEF AuditInv, NestedRequest
<1>7. ~Absent(proposals, id) /\ ~Absent(decisions, id)
  <2>1. decisions[id] \in DecisionRecords
    BY <1>1, <1>2, <1>6 DEF IInv, TypeOK, DecisionRecords
  <2> QED
    BY <1>2, <2>1, RecordsArePresent DEF IInv, RecordsHaveTheirOrigin, Absent
<1>8. /\ outcome[1] = "Approved" => ~Absent(interventions, id)
      /\ outcome[1] \in {"Deferred", "Backlogged"} => ~Absent(backlog, id)
  <2>1. outcome[1] # "Rejected" => id \notin torn
    BY <1>1, <1>2 DEF IInv, WrittenIsWhole
  <2>2. BeingWritten = {}
    BY <1>1 DEF BeingWritten
  <2>3. decisions[id].type = outcome[1]
    BY <1>6
  <2> QED
    BY <1>2, <1>7, <2>1, <2>2, <2>3 DEF IInv, AuditTrail
<1>9. OutcomeHasEvidence'
  <2> SUFFICES ASSUME NEW q \in ProposalIds, optimizations'[q] # NoRecord
               PROVE  LET status == optimizations'[q].status
                      IN  /\ status \in DecisionTypes => ~Absent(proposals, q) /\ ~Absent(decisions, q)
                          /\ status = "Approved" => ~Absent(interventions, q)
                          /\ status \in {"Deferred", "Backlogged"} => ~Absent(backlog, q)
    BY <1>1 DEF OutcomeHasEvidence, Absent
  <2>1. CASE q = id
    BY <1>5, <1>7, <1>8, <2>1
  <2>2. CASE q # id
    BY <1>5, <2>2 DEF AuditInv, OutcomeHasEvidence, Absent
  <2> QED
    BY <2>1, <2>2
<1> QED
  BY <1>5, <1>9 DEF AuditInv

LEMMA RecordFailureKeeps ==
  ASSUME AuditInv, IInv, RecordFailure
  PROVE  AuditInv'
<1>1. /\ auditPhase = "nested" /\ phase' = "idle"
      /\ UNCHANGED <<proposals, decisions, backlog, interventions>>
      /\ UpsertOptimization("Failed", NoTime)
      /\ UNCHANGED <<activities, runs, auditRun, auditNow, calls>>
  BY DEF RecordFailure, Crash, Idle, store
<1>2. /\ AuditorTypeOK' /\ QueueIsSound' /\ NestedRequest' /\ RunStandsForInventory'
      /\ PassedIsRecorded' /\ RunIsWhole'
      /\ \A q \in ProposalIds : q # IdNow(item) => optimizations'[q] = optimizations[q]
      /\ optimizations'[IdNow(item)].status = "Failed"
  BY <1>1, UpsertOptimizationKeeps DEF TriageStatuses
<1>3. OutcomeHasEvidence'
  BY <1>1, <1>2 DEF AuditInv, OutcomeHasEvidence, DecisionTypes, Absent
<1> QED
  BY <1>2, <1>3 DEF AuditInv

LEMMA CompleteKeeps ==
  ASSUME AuditInv, CompleteAudit
  PROVE  AuditInv'
<1> USE DEF AuditInv
<1>1. /\ auditPhase = "complete" /\ auditPhase' = "idle" /\ left' = {} /\ phase' = phase
      /\ UNCHANGED <<vars, activities, optimizations, calls>>
      /\ DOMAIN runs' = DOMAIN runs \union {auditRun} /\ runs'[auditRun] = RunRecord
      /\ \A r \in DOMAIN runs : r # auditRun => runs'[r] = runs[r]
  BY DEF CompleteAudit, Resting, vars
<1>2. left = {}
  BY <1>1 DEF QueueIsSound
<1>3. RunRecord \in RunRecords /\ RunRecord.inventory = Inventory
      /\ RunRecord.version = (IF auditRun \in DOMAIN runs THEN runs[auditRun].version + 1 ELSE 1)
  <2>1. auditRun \in RunIds /\ auditNow \in Times /\ Inventory \in Inventories
    BY <1>1, InventoryIsOne DEF AuditorTypeOK
  <2>2. auditRun \in DOMAIN runs => runs[auditRun] \in RunRecords
    BY DEF AuditorTypeOK
  <2>3. Cardinality(Known) \in Nat
    <3>1. IsFiniteSet(Known)
      BY ActivitiesAssumption, FS_Subset DEF Known
    <3> QED
      BY <3>1, FS_CardinalityType
  <2>4. front \in TriageStatuses \union {"None"}
    BY DEF AuditorTypeOK
  <2> QED
    BY <2>1, <2>2, <2>3, <2>4 DEF RunRecord, RunRecords
<1>4. AuditorTypeOK'
  <2>1. DOMAIN runs' \subseteq RunIds /\ \A r \in DOMAIN runs' : runs'[r] \in RunRecords
    BY <1>1, <1>3 DEF AuditorTypeOK
  <2>2. left' \subseteq Known'
    BY <1>1
  <2> QED
    BY <1>1, <2>1, <2>2 DEF CompleteAudit, Resting, AuditorTypeOK, AuditPhases
<1>5. QueueIsSound' /\ NestedRequest' /\ PassedIsRecorded'
  BY <1>1 DEF QueueIsSound, NestedRequest, PassedIsRecorded
<1>6. RunStandsForInventory'
  BY <1>1, <1>3 DEF RunStandsForInventory
<1>7. RunIsWhole'
  <2> SUFFICES ASSUME NEW r \in DOMAIN runs', NEW a \in DOMAIN runs'[r].inventory
               PROVE  LET q == StableProposalId(a, runs'[r].inventory[a])
                      IN  /\ Convertible(runs'[r].inventory[a])
                          /\ ~Absent(optimizations, q)
                          /\ r.name = NoName => optimizations[q].version >= runs'[r].version
    BY <1>1 DEF RunIsWhole, Absent
  <2>1. CASE r # auditRun
    BY <1>1, <2>1 DEF RunIsWhole
  <2>2. CASE r = auditRun
    <3>1. runs'[r].inventory = Inventory /\ a \in Known /\ Inventory[a] = activities[a].item
          /\ a \in Activities
      BY <1>1, <1>3, <2>2, InventoryIsOne
    <3>2. /\ Convertible(activities[a].item) /\ ~Absent(optimizations, IdNow(a))
          /\ auditRun.name = NoName /\ auditRun \in DOMAIN runs
               => optimizations[IdNow(a)].version > runs[auditRun].version
      BY <1>1, <1>2, <3>1 DEF PassedIsRecorded
    <3>3. optimizations[IdNow(a)].version \in Nat \ {0}
      <4>1. IdNow(a) \in ProposalIds
        BY <3>1, AuditorAssumption, InventoryIsOne DEF IdNow, ActivityRecords
      <4>2. optimizations[IdNow(a)] \in OptimizationRecords
        BY <4>1, <3>2 DEF AuditorTypeOK, Optional, Absent
      <4> QED
        BY <4>2 DEF OptimizationRecords
    <3>4. auditRun \in DOMAIN runs => runs[auditRun].version \in Nat
      BY DEF AuditorTypeOK, RunRecords
    <3>5. auditRun.name = NoName => optimizations[IdNow(a)].version >= runs'[auditRun].version
      BY <1>1, <1>3, <3>2, <3>3, <3>4
    <3> QED
      BY <2>2, <3>1, <3>2, <3>5 DEF IdNow
  <2> QED
    BY <2>1, <2>2
<1>8. OutcomeHasEvidence'
  BY <1>1 DEF OutcomeHasEvidence, vars, Absent
<1> QED
  BY <1>4, <1>5, <1>6, <1>7, <1>8

\* Steps of triage that are not the audit's own leave its records alone.
LEMMA TriageRequestKeeps ==
  ASSUME AuditInv, IInv, TypeOK', [Next]_vars, TriageRequest
  PROVE  AuditInv'
<1> USE DEF AuditInv
<1>1. auditPhase = "idle" /\ UNCHANGED auditorVars
  BY DEF TriageRequest
<1>2. AuditorTypeOK'
  BY <1>1 DEF auditorVars, records, auditing, AuditorTypeOK, Known, Absent
<1>3. QueueIsSound' /\ NestedRequest' /\ PassedIsRecorded'
  BY <1>1 DEF auditorVars, auditing, QueueIsSound, NestedRequest, PassedIsRecorded
<1>4. RunStandsForInventory' /\ RunIsWhole'
  BY <1>1 DEF auditorVars, auditing, records, RunStandsForInventory, RunIsWhole, Absent
<1>5. OutcomeHasEvidence'
  BY <1>1, EvidenceStays DEF auditorVars, records
<1> QED
  BY <1>2, <1>3, <1>4, <1>5

LEMMA TriageStepKeeps ==
  ASSUME AuditInv, IInv, TypeOK', [Next]_vars, TriageStep
  PROVE  AuditInv'
<1> USE DEF AuditInv
<1>1. UNCHANGED auditorVars /\ phase # "idle"
  BY DEF TriageStep, StoreProposal, Decide, WriteBacklogItem, WriteIntervention, WriteArtifact
<1>2. AuditorTypeOK' /\ auditPhase \in {"idle", "nested"}
  BY <1>1 DEF auditorVars, records, auditing, AuditorTypeOK, Known, Absent, NestedRequest
<1>3. QueueIsSound' /\ PassedIsRecorded'
  BY <1>1 DEF auditorVars, auditing, records, QueueIsSound, PassedIsRecorded, Known, Absent, IdNow
<1>4. RunStandsForInventory' /\ RunIsWhole'
  BY <1>1 DEF auditorVars, auditing, records, RunStandsForInventory, RunIsWhole, Inventory, Known, Absent
<1>5. OutcomeHasEvidence'
  BY <1>1, EvidenceStays DEF auditorVars, records
<1>6. NestedRequest'
  <2> SUFFICES ASSUME auditPhase = "nested" PROVE NestedRequest'
    BY <1>1, <1>2 DEF NestedRequest, auditorVars, auditing
  <2>1. /\ kind = "triage" /\ phase \in {"store", "decide", "backlog", "intervention", "done"}
        /\ batch = <<Requested>> /\ DOMAIN batch = {1}
        /\ \A j \in DOMAIN outcome :
             decisions[batch[j].id] = [type |-> outcome[j], decidedAt |-> now]
    BY NestedBatch DEF NestedRequest
  <2>2. Requested' = Requested \/ batch' # batch
    BY <1>1 DEF Requested, IdNow, auditorVars, auditing, records
  <2>3. CASE StoreProposal
    <3>1. outcome = <<>> /\ outcome' = <<>> /\ phase' \in {"store", "decide"}
          /\ kind' = kind /\ batch' = batch
      BY <2>3 DEF StoreProposal, StartEngine, engine, IInv, Progress, EngineProgress, Deciding
    <3> QED
      BY <1>1, <2>1, <2>2, <3>1 DEF NestedRequest, auditorVars, auditing
  <2>4. ASSUME NEW i \in remaining, Decide(i)
        PROVE  NestedRequest'
    <3> DEFINE v == Verdict(batch[i], now, limits, approved)
    <3>1. /\ i \in DOMAIN batch /\ i \notin DOMAIN outcome /\ DOMAIN outcome' = DOMAIN outcome \union {i}
          /\ outcome'[i] = v /\ batch' = batch /\ now' = now
          /\ decisions'[batch[i].id] = [type |-> v, decidedAt |-> now]
      BY <2>4, DecideEffect DEF IInv
    <3>2. DOMAIN outcome' = {1} /\ i = 1
      <4>1. DOMAIN outcome \subseteq {1}
        BY <2>1, <2>4 DEF Decide, IInv, Progress, EngineProgress, Deciding
      <4> QED
        BY <2>1, <3>1, <4>1
    <3>3. phase' \in {"decide", "backlog", "intervention", "done"} /\ kind' = kind
      BY <2>1, <2>4 DEF Decide, PhaseAfterDecision, AfterItem
    <3>4. \A j \in DOMAIN outcome' :
            decisions'[batch'[j].id] = [type |-> outcome'[j], decidedAt |-> now']
      BY <3>1, <3>2
    <3> QED
      BY <1>1, <2>1, <2>2, <3>1, <3>3, <3>4 DEF NestedRequest, auditorVars, auditing
  <2>5. CASE WriteBacklogItem
    BY <1>1, <2>1, <2>2, <2>5 DEF WriteBacklogItem, AfterItem, engine, NestedRequest, auditorVars, auditing
  <2>6. CASE WriteIntervention
    BY <1>1, <2>1, <2>2, <2>6 DEF WriteIntervention, AfterItem, engine, NestedRequest, auditorVars, auditing
  <2>7. CASE WriteArtifact
    BY <2>1, <2>7 DEF WriteArtifact
  <2> QED
    BY <2>3, <2>4, <2>5, <2>6, <2>7 DEF TriageStep
<1> QED
  BY <1>2, <1>3, <1>4, <1>5, <1>6

LEMMA DieKeeps ==
  ASSUME AuditInv, IInv, Die
  PROVE  AuditInv'
<1> USE DEF AuditInv
<1>1. /\ auditPhase' = "idle" /\ left' = {} /\ front' = "None" /\ UNCHANGED <<records, calls>>
      /\ UNCHANGED <<proposals, decisions, backlog, interventions>>
  BY DEF Die, Resting, Crash, store, vars
<1>2. AuditorTypeOK'
  BY <1>1 DEF records, AuditorTypeOK, AuditPhases
<1>3. QueueIsSound' /\ NestedRequest' /\ PassedIsRecorded' /\ RunStandsForInventory'
  BY <1>1 DEF records, QueueIsSound, NestedRequest, PassedIsRecorded, RunStandsForInventory
<1>4. OutcomeHasEvidence' /\ RunIsWhole'
  BY <1>1 DEF records, OutcomeHasEvidence, RunIsWhole, Absent
<1> QED
  BY <1>2, <1>3, <1>4

LEMMA StutterKeeps ==
  ASSUME AuditInv, UNCHANGED <<vars, auditorVars>>
  PROVE  AuditInv'
<1> USE DEF AuditInv, vars, auditorVars, records, auditing, Known, Absent, Inventory
<1>1. AuditorTypeOK' /\ QueueIsSound' /\ RunStandsForInventory'
  BY DEF AuditorTypeOK, QueueIsSound, RunStandsForInventory
<1>2. NestedRequest' /\ PassedIsRecorded'
  BY DEF NestedRequest, PassedIsRecorded, Requested, IdNow
<1>3. OutcomeHasEvidence' /\ RunIsWhole'
  BY DEF OutcomeHasEvidence, RunIsWhole
<1> QED
  BY <1>1, <1>2, <1>3

-----------------------------------------------------------------------------
(* Theorems *)

Whole == IInv /\ RankInv /\ AuditInv

\* The invariants of triage and of the auditor are inductive together.
THEOREM AuditorNextInv == Whole /\ [AuditorNext]_<<vars, auditorVars>> => Whole'
<1> SUFFICES ASSUME Whole, [AuditorNext]_<<vars, auditorVars>> PROVE Whole'
  OBVIOUS
<1> USE DEF Whole
<1>1. [Next]_vars
  BY StepIsTriageStep
<1>2. (IInv /\ RankInv)'
  BY <1>1, NextInv
<1>3. TypeOK'
  BY <1>2 DEF IInv
<1>4. CASE \E a \in Activities, c \in Changes : UpsertActivity(a, c)
  BY <1>2, <1>4, UpsertKeeps
<1>5. CASE \E name \in RunNames \union {NoName}, t \in Times : BeginAudit(name, t)
  BY <1>2, <1>5, BeginKeeps
<1>6. CASE AuditStep
  BY <1>2, <1>6, RecordStateKeeps, RankKeeps, DispatchKeeps, RecordProposalKeeps, CompleteKeeps
     DEF AuditStep
<1>7. CASE RecordFailure
  BY <1>2, <1>7, RecordFailureKeeps
<1>8. CASE TriageRequest
  BY <1>1, <1>2, <1>3, <1>8, TriageRequestKeeps
<1>9. CASE TriageStep
  BY <1>1, <1>2, <1>3, <1>9, TriageStepKeeps
<1>10. CASE Die
  BY <1>2, <1>10, DieKeeps
<1>11. CASE UNCHANGED <<vars, auditorVars>>
  BY <1>2, <1>11, StutterKeeps
<1> QED
  BY <1>4, <1>5, <1>6, <1>7, <1>8, <1>9, <1>10, <1>11 DEF AuditorNext

\* The invariants of the audit and of the triage it drives hold throughout.
THEOREM AuditorInvariance == AuditorSpec => []Whole
<1>1. AuditorInit => Whole
  BY InitAudit, InitInv DEF AuditorInit, Whole
<1> QED
  BY <1>1, AuditorNextInv, PTL DEF AuditorSpec

\* Under the auditor, triage does nothing it would not do alone: every theorem
\* of BehavioralTriage holds of the composition.
THEOREM AuditorImplementsTriage == AuditorSpec => Spec
<1>1. AuditorInit => Init
  BY DEF AuditorInit
<1>2. Whole /\ [AuditorNext]_<<vars, auditorVars>> => [Next]_vars
  BY StepIsTriageStep DEF Whole
<1> QED
  BY <1>1, <1>2, AuditorInvariance, PTL DEF AuditorSpec, Spec

\* The auditor's records and the audit in progress always have their types.
THEOREM AuditorTypeCorrect == AuditorSpec => []AuditorTypeOK
<1>1. Whole => AuditorTypeOK
  BY DEF Whole, AuditInv
<1> QED
  BY <1>1, AuditorInvariance, PTL

\* No optimization record claims an outcome triage has no trace of.
THEOREM OutcomesHaveEvidence == AuditorSpec => []OutcomeHasEvidence
<1>1. Whole => OutcomeHasEvidence
  BY DEF Whole, AuditInv
<1> QED
  BY <1>1, AuditorInvariance, PTL

\* A run on record had its whole inventory triaged and recorded.
THEOREM RunsAreWhole == AuditorSpec => []RunIsWhole
<1>1. Whole => RunIsWhole
  BY DEF Whole, AuditInv
<1> QED
  BY <1>1, AuditorInvariance, PTL
=============================================================================
