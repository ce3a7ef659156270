----------------------- MODULE BehavioralTriage_proofs -----------------------
(***************************************************************************)
(* Proofs about BehavioralTriage, for every set of ids, bodies, snapshots  *)
(* and times and every bound.  The argument is one inductive invariant,    *)
(* IInv: the properties TLC checks, together with what is known of the     *)
(* request in progress at each phase.                                      *)
(***************************************************************************)
EXTENDS BehavioralTriage, FiniteSetTheorems, SequenceTheorems, TLAPS

-----------------------------------------------------------------------------
(* The inductive invariant *)

Deciding == phase \notin {"idle", "store"}

\* The proposal stored under an id carries that id.
BodiesKeepTheirIds ==
  \A p \in ProposalIds : ~Absent(proposals, p) => proposals[p].body.id = p

\* The engine has not started before the last proposal is stored, and what it
\* has decided is what is no longer remaining.
EngineProgress ==
  /\ ~Deciding => outcome = <<>> /\ remaining = {}
  /\ Deciding => /\ DOMAIN outcome = DOMAIN batch \ remaining
                 /\ IsFiniteSet(DOMAIN batch)
  /\ phase \in {"artifact", "done"} => remaining = {}

\* A proposal is stored before anything else is written for it, and what a
\* reevaluation works on is in the backlog.
BatchIsStored ==
  /\ phase = "store" => /\ kind = "triage"
                        /\ \A j \in DOMAIN batch : j < next => ~Absent(proposals, batch[j].id)
  /\ Deciding => /\ \A j \in DOMAIN batch : ~Absent(proposals, batch[j].id)
                 /\ kind \in {"triage", "reevaluate"}
                 /\ kind = "reevaluate" => \A j \in DOMAIN batch : ~Absent(backlog, batch[j].id)

\* The item being written is the one decided last, and its decision record is
\* already there.
WritesFollowDecision ==
  /\ phase \in {"backlog", "intervention"} =>
       /\ current \in DOMAIN outcome
       /\ decisions[batch[current].id] = [type |-> outcome[current], decidedAt |-> now]
  /\ phase = "intervention" => outcome[current] = "Approved"

\* What has been answered, or written in full by this request, is not torn.
WrittenIsWhole ==
  \A i \in DOMAIN outcome :
    \/ phase \in {"backlog", "intervention"} /\ i = current
    \/ outcome[i] = "Rejected"
    \/ batch[i].id \notin torn

\* The engine walks the vector in rank order ...
RankOrder == \A j \in DOMAIN outcome, k \in remaining : ~Outranks(batch[k], batch[j])

\* ... and its running count is the number of approvals the cap leaves to the
\* eager proposals it has passed.
EagerDecided == {j \in DOMAIN outcome : Eager(batch[j])}
Capped(n) == IF n < limits.cap THEN n ELSE limits.cap
RunningCount ==
  Deciding => approved = IF limits.active < limits.cap
                         THEN Capped(limits.active + Cardinality(EagerDecided))
                         ELSE limits.active

Progress == BodiesKeepTheirIds /\ EngineProgress /\ BatchIsStored /\ WritesFollowDecision
IInv == /\ TypeOK /\ Progress
        /\ RecordsHaveTheirOrigin /\ AuditTrail /\ WrittenIsWhole
        /\ RankOrder
RankInv == RunningCount /\ DecisionsFollowRule

-----------------------------------------------------------------------------
(* Operators *)

\* A request's vector is a sequence of proposals.
LEMMA BatchIsSequence ==
  ASSUME NEW b \in Batches
  PROVE  /\ b \in Seq(Proposals) /\ Len(b) \in Nat \ {0}
         /\ DOMAIN b = 1..Len(b) /\ b \in [DOMAIN b -> Proposals]
<1>1. PICK n \in 1..MaxBatch : b \in [1..n -> Proposals]
  BY DEF Batches
<1>2. n \in Nat \ {0}
  BY BoundsAssumption
<1>3. b \in Seq(Proposals) /\ Len(b) = n /\ DOMAIN b = 1..n
  BY <1>1, <1>2, SeqDef, LenProperties
<1> QED
  BY <1>1, <1>2, <1>3

\* The fields of a proposal that the ranking and the verdict read.
LEMMA ProposalFields ==
  ASSUME NEW p \in Proposals
  PROVE  /\ p.id \in ProposalIds /\ p.id \in Nat
         /\ p.priority \in Priorities /\ p.effort \in Int /\ p.benefit \in Int
         /\ p.earliest \in Times \union {NoTime} /\ p.latest \in Times \union {NoTime}
<1>1. PICK id \in ProposalIds, b \in ProposalBodies : p = Proposal(id, b)
  BY DEF Proposals
<1> QED
  BY <1>1, BodiesAssumption, IdsAssumption DEF Proposal

LEMMA RelevantTimeIsNat ==
  ASSUME NEW p \in Proposals
  PROVE  RelevantTime(p) \in Nat
<1>1. p.earliest \in Times \union {NoTime} /\ p.latest \in Times \union {NoTime}
  BY ProposalFields
<1>2. CASE p.latest # NoTime
  BY <1>1, <1>2, TimesAssumption DEF RelevantTime
<1>3. CASE p.latest = NoTime /\ p.earliest # NoTime
  BY <1>1, <1>3, TimesAssumption DEF RelevantTime
<1>4. CASE p.latest = NoTime /\ p.earliest = NoTime
  BY <1>4 DEF RelevantTime, FarFuture
<1> QED
  BY <1>2, <1>3, <1>4

\* What a snapshot must be for the engine to work with it.
Usable(s) == s.active \in Nat /\ s.backlog \in Nat /\ s.strain \in Strains

LEMMA LimitsOfUsable ==
  ASSUME NEW s, Usable(s)
  PROVE  LimitsOf(s) \in LimitRecords /\ LimitsOf(s).active = s.active
BY DEF LimitsOf, LimitRecords, Usable, DeriveCapacityLevel, ActiveInterventionCap, EffortGate

\* The effective snapshot is usable whatever was recorded, and when nothing was.
LEMMA LatestIsUsable ==
  ASSUME snapshots \in [SnapshotIds -> Optional(SnapshotInputs)]
  PROVE  Usable(LatestSnapshot)
<1>1. CASE \E s \in Recorded : Newest(s)
  <2> DEFINE latest == CHOOSE s \in Recorded : Newest(s)
  <2>1. latest \in Recorded
    BY <1>1
  <2>2. snapshots[latest] \in SnapshotInputs
    BY <2>1 DEF Recorded, Absent, Optional
  <2>3. LatestSnapshot = snapshots[latest]
    BY <1>1 DEF LatestSnapshot
  <2> QED
    BY <2>2, <2>3, SnapshotsAssumption DEF Usable
<1>2. CASE ~ \E s \in Recorded : Newest(s)
  BY <1>2 DEF LatestSnapshot, DefaultSnapshot, Usable, Strains
<1> QED
  BY <1>1, <1>2

\* The comparator separates any two proposals with different ids.
LEMMA OutranksTotal ==
  ASSUME NEW a \in Proposals, NEW b \in Proposals, a.id # b.id
  PROVE  Outranks(a, b) \/ Outranks(b, a)
<1>1. PriorityRank[a.priority] \in Nat /\ PriorityRank[b.priority] \in Nat
  BY ProposalFields DEF PriorityRank, Priorities
<1>2. EffortFloor(a) \in Int /\ EffortFloor(b) \in Int
  BY ProposalFields DEF EffortFloor
<1>3. a.benefit * EffortFloor(b) \in Int /\ b.benefit * EffortFloor(a) \in Int
  BY <1>2, ProposalFields
<1>4. RoiGreater(a, b) => ~RoiGreater(b, a)
  BY <1>3 DEF RoiGreater
<1>5. RelevantTime(a) \in Int /\ RelevantTime(b) \in Int
  BY RelevantTimeIsNat
<1>6. a.id \in Int /\ b.id \in Int
  BY ProposalFields
<1> QED
  BY <1>1, <1>4, <1>5, <1>6 DEF Outranks

\* A proposal that can be approved has its type of verdict.
LEMMA VerdictIsDecision ==
  ASSUME NEW p, NEW t, NEW l, NEW n
  PROVE  Verdict(p, t, l, n) \in DecisionTypes
BY DEF Verdict, DecisionTypes
-----------------------------------------------------------------------------
(* Types *)

LEMMA InitType == Init => TypeOK
BY BoundsAssumption DEF Init, TypeOK, Optional, NoLimits, LimitRecords, Phases, Batches

\* A stored item of the vector, and the records the handlers write for it.
LEMMA ItemFields ==
  ASSUME TypeOK, NEW i \in DOMAIN batch
  PROVE  batch[i] \in Proposals /\ batch[i].id \in ProposalIds
BY ProposalFields DEF TypeOK

LEMMA ReconsideredIsItem ==
  ASSUME NEW item \in BacklogItems, NEW v, now \in Times
  PROVE  ReconsideredItem(item, v) \in BacklogItems
<1>1. StatusAfter(v) \in BacklogStatuses
  BY DEF StatusAfter, BacklogStatuses
<1>2. item.version + 1 \in Nat \ {0}
  BY DEF BacklogItems
<1>3. [item EXCEPT !.status = StatusAfter(v)] \in BacklogItems
  BY <1>1 DEF BacklogItems
<1>4. [item EXCEPT !.status = StatusAfter(v), !.lastReconsideredAt = now] \in BacklogItems
  BY <1>3 DEF BacklogItems
<1> QED
  BY <1>2, <1>4 DEF ReconsideredItem, BacklogItems

LEMMA IdleType ==
  ASSUME Idle
  PROVE  /\ phase' \in Phases /\ kind' \in {"none", "triage", "reevaluate"}
         /\ (phase # "idle" => now \in Times)' /\ (batch \in [DOMAIN batch -> Proposals])'
         /\ (phase = "store" => batch \in Batches /\ next \in 1..Len(batch))'
         /\ limits' \in LimitRecords /\ approved' \in Nat
         /\ (remaining \subseteq DOMAIN batch)' /\ (outcome \in [DOMAIN outcome -> DecisionTypes])'
         /\ (phase \in {"backlog", "intervention"} => current \in DOMAIN batch)'
BY DEF Idle, NoLimits, LimitRecords, Phases

\* Every step keeps the types.
LEMMA NextType ==
  ASSUME TypeOK, Progress, [Next]_vars
  PROVE  TypeOK'
<1> USE DEF Deciding
<1>1. ASSUME NEW id \in SnapshotIds, NEW s \in SnapshotInputs, RecordState(id, s)
      PROVE  TypeOK'
  <2>1. snapshots' \in [SnapshotIds -> Optional(SnapshotInputs)]
    BY <1>1 DEF RecordState, TypeOK, Optional
  <2>2. requests' \in 0..MaxRequests
    BY <1>1, BoundsAssumption DEF RecordState, TypeOK
  <2> QED
    BY <1>1, <2>1, <2>2 DEF RecordState, TypeOK, engine
<1>2. ASSUME NEW b \in Batches, NEW t \in Times, BeginTriage(b, t)
      PROVE  TypeOK'
  <2>1. requests' \in 0..MaxRequests
    BY <1>2, BoundsAssumption DEF BeginTriage, TypeOK
  <2>2. remaining = {}
    BY <1>2 DEF BeginTriage, Progress, EngineProgress
  <2>3. batch' \in [DOMAIN batch' -> Proposals] /\ 1 \in 1..Len(batch')
    BY <1>2, BatchIsSequence DEF BeginTriage
  <2> QED
    BY <1>2, <2>1, <2>2, <2>3 DEF BeginTriage, TypeOK, store, engine, Phases
<1>3. ASSUME NEW t \in Times, BeginReevaluation(t)
      PROVE  TypeOK'
  <2>1. \A p \in Eligible(t) : proposals[p].body \in Proposals
    BY DEF Eligible, Absent, TypeOK, Optional, StoredProposals
  <2>2. batch' \in [DOMAIN batch' -> Proposals]
    BY <1>3, <2>1 DEF BeginReevaluation
  <2>3. Usable(LatestSnapshot)
    BY LatestIsUsable DEF TypeOK
  <2>4. limits' \in LimitRecords /\ approved' \in Nat /\ remaining' \subseteq DOMAIN batch'
        /\ outcome' \in [DOMAIN outcome' -> DecisionTypes]
    BY <1>3, <2>3, LimitsOfUsable DEF BeginReevaluation, StartEngine, Usable
  <2>5. requests' \in 0..MaxRequests
    BY <1>3, BoundsAssumption DEF BeginReevaluation, TypeOK
  <2>6. phase' \in {"artifact", "decide"} /\ kind' = "reevaluate" /\ now' = t
    BY <1>3 DEF BeginReevaluation
  <2> QED
    BY <1>3, <2>2, <2>4, <2>5, <2>6 DEF BeginReevaluation, TypeOK, store, Phases
<1>4. CASE StoreProposal
  <2> DEFINE p == batch[next]
  <2>1. /\ batch \in Batches /\ next \in 1..Len(batch) /\ DOMAIN batch = 1..Len(batch)
        /\ Len(batch) \in Nat /\ p \in Proposals /\ p.id \in ProposalIds /\ now \in Times
    BY <1>4, BatchIsSequence, ItemFields DEF StoreProposal, TypeOK
  <2>2. NextVersion(p) \in Nat \ {0}
    BY <2>1 DEF NextVersion, Absent, TypeOK, Optional, StoredProposals
  <2>3. StoredProposal(p) \in StoredProposals
    BY <2>1, <2>2 DEF StoredProposal, StoredProposals
  <2>4. proposals' \in [ProposalIds -> Optional(StoredProposals)]
    BY <1>4, <2>1, <2>3 DEF StoreProposal, TypeOK, Optional
  <2>5. /\ phase' \in Phases /\ (phase' = "store" => next' \in 1..Len(batch))
        /\ limits' \in LimitRecords /\ approved' \in Nat /\ remaining' \subseteq DOMAIN batch
        /\ outcome' \in [DOMAIN outcome' -> DecisionTypes]
        /\ phase' \notin {"idle", "backlog", "intervention"}
    <3>1. CASE next < Len(batch)
      BY <1>4, <2>1, <3>1 DEF StoreProposal, TypeOK, engine, Phases
    <3>2. CASE ~(next < Len(batch))
      <4>1. Usable(LatestSnapshot)
        BY LatestIsUsable DEF TypeOK
      <4> QED
        BY <1>4, <3>2, <4>1, LimitsOfUsable DEF StoreProposal, StartEngine, Phases, Usable
    <3> QED
      BY <3>1, <3>2
  <2> QED
    BY <1>4, <2>1, <2>4, <2>5 DEF StoreProposal, TypeOK
<1>5. ASSUME NEW i \in remaining, Decide(i)
      PROVE  TypeOK'
  <2> DEFINE v == Verdict(batch[i], now, limits, approved)
  <2>1. i \in DOMAIN batch /\ batch[i].id \in ProposalIds /\ now \in Times
    BY <1>5, ItemFields DEF Decide, TypeOK
  <2>2. v \in DecisionTypes
    BY VerdictIsDecision
  <2>3. decisions' \in [ProposalIds -> Optional(DecisionRecords)]
    BY <1>5, <2>1, <2>2 DEF Decide, TypeOK, Optional, DecisionRecords
  <2>4. outcome' \in [DOMAIN outcome' -> DecisionTypes]
    BY <1>5, <2>2 DEF Decide, TypeOK
  <2>5. approved' \in Nat /\ remaining' \subseteq DOMAIN batch'
    BY <1>5 DEF Decide, TypeOK
  <2>6. phase' \in Phases \ {"idle", "store"}
    BY <1>5 DEF Decide, PhaseAfterDecision, AfterItem, Phases
  <2>7. current' \in DOMAIN batch'
    BY <1>5, <2>1 DEF Decide
  <2> QED
    BY <1>5, <2>1, <2>3, <2>4, <2>5, <2>6, <2>7 DEF Decide, TypeOK
<1>6. CASE WriteBacklogItem
  <2> DEFINE p == batch[current]
             v == outcome[current]
  <2>1. p \in Proposals /\ p.id \in ProposalIds /\ now \in Times
    BY <1>6, ItemFields DEF WriteBacklogItem, TypeOK
  <2>2. NewBacklogItem(p) \in BacklogItems
    BY <2>1, ProposalFields DEF NewBacklogItem, BacklogItems, BacklogStatuses
  <2>3. kind # "triage" => backlog[p.id] \in BacklogItems
    BY <1>6, <2>1 DEF WriteBacklogItem, Progress, BatchIsStored, TypeOK, Optional, Absent
  <2>4. kind # "triage" => ReconsideredItem(backlog[p.id], v) \in BacklogItems
    BY <2>1, <2>3, ReconsideredIsItem
  <2>5. backlog' \in [ProposalIds -> Optional(BacklogItems)]
    BY <1>6, <2>1, <2>2, <2>4 DEF WriteBacklogItem, TypeOK, Optional
  <2>6. phase' \in Phases \ {"idle", "store"} /\ torn' \subseteq ProposalIds
    BY <1>6 DEF WriteBacklogItem, AfterItem, Phases, TypeOK
  <2> QED
    BY <1>6, <2>5, <2>6 DEF WriteBacklogItem, TypeOK, engine
<1>7. CASE WriteIntervention
  <2>1. batch[current].id \in ProposalIds /\ now \in Times
    BY <1>7, ItemFields DEF WriteIntervention, TypeOK
  <2>2. interventions' \in [ProposalIds -> Optional(InterventionRecords)]
    BY <1>7, <2>1 DEF WriteIntervention, TypeOK, Optional, InterventionRecords
  <2>3. phase' \in Phases \ {"idle", "store"} /\ torn' \subseteq ProposalIds
    BY <1>7 DEF WriteIntervention, AfterItem, Phases, TypeOK
  <2> QED
    BY <1>7, <2>2, <2>3 DEF WriteIntervention, TypeOK, engine
<1>8. CASE WriteArtifact
  BY <1>8 DEF WriteArtifact, TypeOK, engine, Phases
<1>9. CASE Respond
  BY <1>9, IdleType DEF Respond, TypeOK, store
<1>10. CASE Crash
  <2>1. BeingWritten \subseteq ProposalIds
    BY ItemFields DEF BeingWritten, TypeOK
  <2> QED
    BY <1>10, <2>1, IdleType DEF Crash, TypeOK, store
<1>11. CASE UNCHANGED vars
  BY <1>11 DEF vars, TypeOK
<1> QED
  BY <1>1, <1>2, <1>3, <1>4, <1>5, <1>6, <1>7, <1>8, <1>9, <1>10, <1>11 DEF Next
-----------------------------------------------------------------------------
(* The request in progress *)

\* No record is mistaken for a missing one.
LEMMA RecordsArePresent ==
  /\ \A r \in StoredProposals : r # NoRecord
  /\ \A r \in DecisionRecords : r # NoRecord
  /\ \A r \in BacklogItems : r # NoRecord
  /\ \A r \in InterventionRecords : r # NoRecord
BY NoRecordAssumption

\* An empty request has nothing decided, stored or being written.
LEMMA IdleProgress ==
  ASSUME Idle
  PROVE  /\ EngineProgress' /\ BatchIsStored' /\ WritesFollowDecision'
         /\ WrittenIsWhole' /\ RankOrder' /\ RunningCount' /\ DecisionsFollowRule'
BY DEF Idle, Deciding, EngineProgress, BatchIsStored, WritesFollowDecision,
       WrittenIsWhole, RankOrder, RunningCount, DecisionsFollowRule

\* What Decide does, in terms of the item it decides.
LEMMA DecideEffect ==
  ASSUME TypeOK, Progress, NEW i \in remaining, Decide(i)
  PROVE  LET v == Verdict(batch[i], now, limits, approved) IN
         /\ phase = "decide" /\ phase' \in {"decide", "backlog", "intervention", "artifact", "done"}
         /\ i \in DOMAIN batch /\ i \notin DOMAIN outcome
         /\ DOMAIN outcome' = DOMAIN outcome \union {i} /\ outcome'[i] = v
         /\ \A j \in DOMAIN outcome : outcome'[j] = outcome[j]
         /\ v \in DecisionTypes /\ current' = i /\ batch' = batch /\ now' = now
         /\ decisions'[batch[i].id] = [type |-> v, decidedAt |-> now]
         /\ decisions'[batch[i].id] \in DecisionRecords
         /\ \A q \in ProposalIds : q # batch[i].id => decisions'[q] = decisions[q]
<1>1. i \in DOMAIN batch /\ batch[i].id \in ProposalIds /\ now \in Times
  BY ItemFields DEF TypeOK, Decide
<1>2. i \notin DOMAIN outcome
  BY DEF Progress, EngineProgress, Deciding, Decide
<1>3. Verdict(batch[i], now, limits, approved) \in DecisionTypes
  BY VerdictIsDecision
<1>4. /\ DOMAIN outcome' = DOMAIN outcome \union {i}
      /\ outcome'[i] = Verdict(batch[i], now, limits, approved)
      /\ \A j \in DOMAIN outcome : outcome'[j] = outcome[j]
  BY <1>2 DEF Decide
<1>5. decisions'[batch[i].id] = [type |-> Verdict(batch[i], now, limits, approved), decidedAt |-> now]
      /\ \A q \in ProposalIds : q # batch[i].id => decisions'[q] = decisions[q]
  BY <1>1 DEF Decide, TypeOK
<1>6. [type |-> Verdict(batch[i], now, limits, approved), decidedAt |-> now] \in DecisionRecords
  BY <1>1, <1>3 DEF DecisionRecords
<1>7. phase' \in {"decide", "backlog", "intervention", "artifact", "done"}
  BY DEF Decide, PhaseAfterDecision, AfterItem
<1> QED
  BY <1>1, <1>2, <1>3, <1>4, <1>5, <1>6, <1>7 DEF Decide

\* Every step keeps what is known of the request in progress.
LEMMA NextProgress ==
  ASSUME TypeOK, TypeOK', Progress, RecordsHaveTheirOrigin, [Next]_vars
  PROVE  Progress'
<1> USE DEF Progress, Deciding
<1>1. ASSUME NEW id \in SnapshotIds, NEW s \in SnapshotInputs, RecordState(id, s)
      PROVE  Progress'
  BY <1>1 DEF RecordState, engine, BodiesKeepTheirIds, EngineProgress, BatchIsStored,
              WritesFollowDecision, Absent
<1>2. ASSUME NEW b \in Batches, NEW t \in Times, BeginTriage(b, t)
      PROVE  Progress'
  <2>1. \A j \in DOMAIN batch' : ~(j < 1)
    BY <1>2, BatchIsSequence DEF BeginTriage
  <2> QED
    BY <1>2, <2>1 DEF BeginTriage, store, engine, BodiesKeepTheirIds, EngineProgress,
                      BatchIsStored, WritesFollowDecision, Absent
<1>3. ASSUME NEW t \in Times, BeginReevaluation(t)
      PROVE  Progress'
  <2>1. DOMAIN batch' = Eligible(t) /\ IsFiniteSet(DOMAIN batch')
    BY <1>3, FS_Subset, IdsAssumption DEF BeginReevaluation, Eligible
  <2>2. \A p \in Eligible(t) : ~Absent(backlog, p) /\ ~Absent(proposals, p) /\ batch'[p].id = p
    BY <1>3 DEF BeginReevaluation, Eligible, BodiesKeepTheirIds
  <2>3. remaining' = Eligible(t) /\ outcome' = <<>>
        /\ (phase' = "artifact" => Eligible(t) = {}) /\ phase' \in {"artifact", "decide"}
    BY <1>3, <2>1 DEF BeginReevaluation, StartEngine
  <2> QED
    BY <1>3, <2>1, <2>2, <2>3 DEF BeginReevaluation, store, BodiesKeepTheirIds, EngineProgress,
                                  BatchIsStored, WritesFollowDecision, Absent
<1>4. CASE StoreProposal
  <2> DEFINE p == batch[next]
  <2>1. /\ batch \in Batches /\ next \in 1..Len(batch) /\ DOMAIN batch = 1..Len(batch)
        /\ Len(batch) \in Nat /\ p \in Proposals /\ p.id \in ProposalIds
    BY <1>4, BatchIsSequence, ItemFields DEF StoreProposal, TypeOK
  <2>2. proposals'[p.id] # NoRecord /\ proposals'[p.id].body.id = p.id
    <3>1. CASE ProposalAlreadyThere(p)
      BY <1>4, <2>1, <3>1 DEF StoreProposal, ProposalAlreadyThere, Absent, BodiesKeepTheirIds
    <3>2. CASE ~ProposalAlreadyThere(p)
      <4>1. proposals'[p.id] = StoredProposal(p)
        BY <1>4, <2>1, <3>2 DEF StoreProposal, TypeOK
      <4>2. StoredProposal(p) \in StoredProposals
        <5>1. proposals'[p.id] \in Optional(StoredProposals)
          BY <2>1 DEF TypeOK
        <5>2. NextVersion(p) \in Nat \ {0}
          BY <2>1 DEF NextVersion, Absent, TypeOK, Optional, StoredProposals
        <5> QED
          BY <1>4, <2>1, <5>2 DEF StoredProposal, StoredProposals, StoreProposal, TypeOK
      <4> QED
        BY <4>1, <4>2, RecordsArePresent DEF StoredProposal, Absent
    <3> QED
      BY <3>1, <3>2
  <2>3. \A q \in ProposalIds : q # p.id => proposals'[q] = proposals[q]
    BY <1>4, <2>1 DEF StoreProposal, TypeOK
  <2>4. BodiesKeepTheirIds'
    BY <2>2, <2>3 DEF BodiesKeepTheirIds, Absent
  <2>5. \A j \in DOMAIN batch : j < next + 1 => proposals'[batch[j].id] # NoRecord
    <3>1. SUFFICES ASSUME NEW j \in DOMAIN batch, j < next + 1
                   PROVE  proposals'[batch[j].id] # NoRecord
      BY <1>4 DEF StoreProposal
    <3>2. batch[j].id \in ProposalIds /\ (j = next \/ j < next) /\ batch' = batch
      BY <1>4, <2>1, <3>1, ItemFields DEF StoreProposal
    <3>3. j < next => ~Absent(proposals, batch[j].id)
      BY <1>4, <3>1 DEF StoreProposal, BatchIsStored
    <3> QED
      BY <2>2, <2>3, <3>2, <3>3 DEF Absent
  <2>6. CASE next < Len(batch)
    BY <1>4, <2>4, <2>5, <2>6 DEF StoreProposal, engine, EngineProgress,
                                  BatchIsStored, WritesFollowDecision, Absent
  <2>7. CASE ~(next < Len(batch))
    <3>1. \A j \in DOMAIN batch : j < next + 1
      BY <2>1, <2>7
    <3>2. phase' = "decide" /\ remaining' = DOMAIN batch /\ outcome' = <<>> /\ batch' = batch
          /\ kind' = "triage"
      BY <1>4, <2>7 DEF StoreProposal, StartEngine, BatchIsStored
    <3>3. IsFiniteSet(DOMAIN batch)
      BY <2>1, FS_Interval
    <3> QED
      BY <2>4, <2>5, <3>1, <3>2, <3>3 DEF EngineProgress, BatchIsStored, WritesFollowDecision, Absent
  <2> QED
    BY <2>6, <2>7
<1>5. ASSUME NEW i \in remaining, Decide(i)
      PROVE  Progress'
  <2>1. EngineProgress'
    BY <1>5, DecideEffect DEF Decide, PhaseAfterDecision, AfterItem, EngineProgress
  <2>2. WritesFollowDecision'
    <3>1. current' \in DOMAIN outcome' /\ decisions'[batch'[current'].id]
             = [type |-> outcome'[current'], decidedAt |-> now']
      BY <1>5, DecideEffect DEF Decide
    <3>2. phase' = "intervention" => outcome'[current'] = "Approved"
      BY <1>5, DecideEffect DEF Decide, PhaseAfterDecision, AfterItem
    <3> QED
      BY <3>1, <3>2 DEF WritesFollowDecision
  <2>3. BodiesKeepTheirIds' /\ BatchIsStored'
    BY <1>5, DecideEffect DEF Decide, BodiesKeepTheirIds, BatchIsStored, Absent
  <2> QED
    BY <2>1, <2>2, <2>3
<1>6. CASE WriteBacklogItem
  <2>1. phase' \in {"decide", "intervention", "artifact", "done"}
        /\ (phase' = "intervention" => outcome[current] = "Approved")
        /\ (phase' \in {"artifact", "done"} => remaining = {})
    BY <1>6 DEF WriteBacklogItem, AfterItem
  <2>2. \A q \in ProposalIds : ~Absent(backlog, q) => ~Absent(backlog, q)'
    <3>1. current \in DOMAIN batch /\ batch[current].id \in ProposalIds
      BY <1>6, ItemFields DEF WriteBacklogItem, TypeOK
    <3>2. backlog'[batch[current].id] \in BacklogItems
      <4> DEFINE item == IF kind = "triage" THEN NewBacklogItem(batch[current])
                         ELSE ReconsideredItem(backlog[batch[current].id], outcome[current])
      <4>1. backlog'[batch[current].id] = item
        BY <1>6, <3>1 DEF WriteBacklogItem, TypeOK
      <4>2. now \in Times /\ batch[current] \in Proposals
        BY <1>6, <3>1, ItemFields DEF WriteBacklogItem, TypeOK
      <4>3. NewBacklogItem(batch[current]) \in BacklogItems
        BY <4>2, ProposalFields DEF NewBacklogItem, BacklogItems, BacklogStatuses
      <4>4. kind # "triage" => backlog[batch[current].id] \in BacklogItems
        BY <1>6, <3>1 DEF WriteBacklogItem, BatchIsStored, TypeOK, Optional, Absent
      <4> QED
        BY <4>1, <4>2, <4>3, <4>4, ReconsideredIsItem
    <3> QED
      BY <1>6, <3>1, <3>2, RecordsArePresent DEF WriteBacklogItem, Absent, TypeOK
  <2>3. BodiesKeepTheirIds'
    BY <1>6 DEF WriteBacklogItem, BodiesKeepTheirIds, Absent
  <2>4. EngineProgress' /\ WritesFollowDecision'
    BY <1>6, <2>1 DEF WriteBacklogItem, engine, EngineProgress, WritesFollowDecision
  <2>5. BatchIsStored'
    BY <1>6, <2>1, <2>2, ItemFields DEF WriteBacklogItem, BatchIsStored, Absent
  <2> QED
    BY <2>3, <2>4, <2>5
<1>7. CASE WriteIntervention
  BY <1>7 DEF WriteIntervention, AfterItem, engine, BodiesKeepTheirIds, EngineProgress,
              BatchIsStored, WritesFollowDecision, Absent
<1>8. CASE WriteArtifact
  BY <1>8 DEF WriteArtifact, engine, BodiesKeepTheirIds, EngineProgress, BatchIsStored,
              WritesFollowDecision, Absent
<1>9. CASE Respond
  BY <1>9, IdleProgress DEF Respond, store, BodiesKeepTheirIds, Absent
<1>10. CASE Crash
  BY <1>10, IdleProgress DEF Crash, store, BodiesKeepTheirIds, Absent
<1>11. CASE UNCHANGED vars
  BY <1>11 DEF vars, BodiesKeepTheirIds, EngineProgress, BatchIsStored,
               WritesFollowDecision, Absent
<1> QED
  BY <1>1, <1>2, <1>3, <1>4, <1>5, <1>6, <1>7, <1>8, <1>9, <1>10, <1>11 DEF Next
-----------------------------------------------------------------------------
(* The records *)

\* What WriteBacklogItem leaves behind, in terms of the item it writes.
LEMMA BacklogEffect ==
  ASSUME TypeOK, TypeOK', Progress, WriteBacklogItem
  PROVE  LET p == batch[current].id IN
         /\ p \in ProposalIds /\ current \in DOMAIN outcome
         /\ decisions[p] = [type |-> outcome[current], decidedAt |-> now]
         /\ decisions[p] # NoRecord /\ backlog'[p] # NoRecord
         /\ outcome[current] # "Approved" => backlog'[p].status # "Approved"
         /\ \A q \in ProposalIds : q # p => backlog'[q] = backlog[q]
<1> DEFINE p == batch[current].id
           item == IF kind = "triage" THEN NewBacklogItem(batch[current])
                   ELSE ReconsideredItem(backlog[p], outcome[current])
<1>1. /\ p \in ProposalIds /\ current \in DOMAIN outcome
      /\ decisions[p] = [type |-> outcome[current], decidedAt |-> now]
  BY ItemFields DEF WriteBacklogItem, TypeOK, Progress, WritesFollowDecision
<1>2. decisions[p] \in DecisionRecords
  BY <1>1 DEF WriteBacklogItem, TypeOK, DecisionRecords
<1>3. backlog'[p] = item /\ \A q \in ProposalIds : q # p => backlog'[q] = backlog[q]
  BY <1>1 DEF WriteBacklogItem, TypeOK
<1>4. now \in Times /\ batch[current] \in Proposals /\ phase = "backlog"
  BY ItemFields DEF WriteBacklogItem, TypeOK
<1>5. kind = "triage" => item \in BacklogItems /\ item.status = "Pending"
  BY <1>4, ProposalFields DEF NewBacklogItem, BacklogItems, BacklogStatuses
<1>6. kind # "triage" => backlog[p] \in BacklogItems
  BY <1>1, <1>4 DEF WriteBacklogItem, Progress, BatchIsStored, Deciding, TypeOK, Optional, Absent
<1>7. kind # "triage" => item \in BacklogItems /\ item.status = StatusAfter(outcome[current])
  BY <1>4, <1>6, ReconsideredIsItem DEF ReconsideredItem, BacklogItems
<1>8. outcome[current] # "Approved" => StatusAfter(outcome[current]) # "Approved"
  BY DEF StatusAfter
<1> QED
  BY <1>1, <1>2, <1>3, <1>5, <1>7, <1>8, RecordsArePresent

\* What WriteIntervention leaves behind.
LEMMA InterventionEffect ==
  ASSUME TypeOK, TypeOK', Progress, WriteIntervention
  PROVE  LET p == batch[current].id IN
         /\ p \in ProposalIds /\ current \in DOMAIN outcome /\ outcome[current] = "Approved"
         /\ decisions[p] = [type |-> "Approved", decidedAt |-> now]
         /\ decisions[p] # NoRecord /\ interventions'[p] # NoRecord
         /\ \A q \in ProposalIds : q # p => interventions'[q] = interventions[q]
<1> DEFINE p == batch[current].id
<1>1. /\ p \in ProposalIds /\ current \in DOMAIN outcome /\ outcome[current] = "Approved"
      /\ decisions[p] = [type |-> outcome[current], decidedAt |-> now]
  BY ItemFields DEF WriteIntervention, TypeOK, Progress, WritesFollowDecision
<1>2. decisions[p] \in DecisionRecords
  BY <1>1 DEF WriteIntervention, TypeOK, DecisionRecords
<1>3. interventions'[p] = [status |-> "Approved", createdAt |-> now]
      /\ \A q \in ProposalIds : q # p => interventions'[q] = interventions[q]
  BY <1>1 DEF WriteIntervention, TypeOK
<1>4. interventions'[p] \in InterventionRecords
  BY <1>3 DEF WriteIntervention, TypeOK, InterventionRecords
<1> QED
  BY <1>1, <1>2, <1>3, <1>4, RecordsArePresent

\* Storing a proposal replaces no record by an older one.
LEMMA StoreKeepsProposals ==
  ASSUME TypeOK, TypeOK', StoreProposal, NEW q \in ProposalIds, ~Absent(proposals, q)
  PROVE  proposals'[q] # NoRecord /\ proposals'[q].version >= proposals[q].version
<1> DEFINE p == batch[next]
<1>1. p.id \in ProposalIds /\ now \in Times
  BY BatchIsSequence, ItemFields DEF StoreProposal, TypeOK
<1>2. proposals[q] \in StoredProposals
  BY DEF TypeOK, Optional, Absent
<1>3. CASE proposals' = proposals
  BY <1>2, <1>3 DEF StoredProposals, Absent
<1>4. CASE proposals' = [proposals EXCEPT ![p.id] = StoredProposal(p)]
  <2>1. CASE q # p.id
    BY <1>1, <1>2, <1>4, <2>1 DEF TypeOK, StoredProposals, Absent
  <2>2. CASE q = p.id
    <3>1. proposals'[q] = StoredProposal(p)
      BY <1>1, <1>4, <2>2 DEF TypeOK
    <3>2. NextVersion(p) \in Nat \ {0} /\ NextVersion(p) >= proposals[q].version
      BY <1>2, <2>2 DEF NextVersion, Absent, StoredProposals
    <3>3. StoredProposal(p) \in StoredProposals
      BY <1>1, <3>2, BatchIsSequence, ItemFields
         DEF StoredProposal, StoredProposals, StoreProposal, TypeOK
    <3> QED
      BY <3>1, <3>2, <3>3, RecordsArePresent DEF StoredProposal
  <2> QED
    BY <2>1, <2>2
<1> QED
  BY <1>3, <1>4 DEF StoreProposal
\* Every step keeps each record's origin.
LEMMA NextOrigin ==
  ASSUME TypeOK, TypeOK', Progress, RecordsHaveTheirOrigin, [Next]_vars
  PROVE  RecordsHaveTheirOrigin'
<1> USE DEF RecordsHaveTheirOrigin, Absent
<1>1. CASE StoreProposal
  BY <1>1, StoreKeepsProposals DEF StoreProposal
<1>2. ASSUME NEW i \in remaining, Decide(i)
      PROVE  RecordsHaveTheirOrigin'
  <2>1. batch[i].id \in ProposalIds /\ ~Absent(proposals, batch[i].id)
    BY <1>2, DecideEffect, ItemFields DEF Progress, BatchIsStored, Deciding
  <2>2. \A q \in ProposalIds : decisions'[q] # NoRecord <=> q = batch[i].id \/ decisions[q] # NoRecord
    BY <1>2, DecideEffect, RecordsArePresent
  <2> QED
    BY <1>2, <2>1, <2>2 DEF Decide
<1>3. CASE WriteBacklogItem
  BY <1>3, BacklogEffect DEF WriteBacklogItem
<1>4. CASE WriteIntervention
  BY <1>4, InterventionEffect DEF WriteIntervention
<1>5. CASE \E id \in SnapshotIds, s \in SnapshotInputs : RecordState(id, s)
  BY <1>5 DEF RecordState
<1>6. CASE (\E b \in Batches, t \in Times : BeginTriage(b, t)) \/ \E t \in Times : BeginReevaluation(t)
  BY <1>6 DEF BeginTriage, BeginReevaluation, store
<1>7. CASE WriteArtifact \/ Respond \/ Crash \/ UNCHANGED vars
  BY <1>7 DEF WriteArtifact, Respond, Crash, store, vars
<1> QED
  BY <1>1, <1>2, <1>3, <1>4, <1>5, <1>6, <1>7 DEF Next

\* Every step keeps the audit trail: a record leaves BeingWritten only when
\* its last part is written, and a crash moves it to torn.
LEMMA NextAuditTrail ==
  ASSUME TypeOK, TypeOK', Progress, AuditTrail, [Next]_vars
  PROVE  AuditTrail'
<1> USE DEF AuditTrail, Absent
<1>1. CASE StoreProposal
  BY <1>1 DEF StoreProposal, BeingWritten
<1>2. ASSUME NEW i \in remaining, Decide(i)
      PROVE  AuditTrail'
  <2>1. BeingWritten = {} /\ torn' = torn /\ backlog' = backlog /\ interventions' = interventions
    BY <1>2 DEF Decide, BeingWritten
  <2>2. \A q \in ProposalIds : q # batch[i].id => decisions'[q] = decisions[q]
    BY <1>2, DecideEffect
  <2>3. CASE phase' \in {"backlog", "intervention"}
    <3>1. BeingWritten' = {batch[i].id}
      BY <1>2, <2>3, DecideEffect DEF BeingWritten
    <3> QED
      BY <2>1, <2>2, <3>1
  <2>4. CASE phase' \notin {"backlog", "intervention"}
    <3>1. decisions'[batch[i].id].type = "Rejected"
      <4>1. Verdict(batch[i], now, limits, approved) \in DecisionTypes
        BY VerdictIsDecision
      <4>2. Verdict(batch[i], now, limits, approved) = "Rejected"
        BY <1>2, <2>4, <4>1 DEF Decide, PhaseAfterDecision, DecisionTypes
      <4>3. decisions'[batch[i].id]
              = [type |-> Verdict(batch[i], now, limits, approved), decidedAt |-> now]
        BY <1>2, DecideEffect
      <4> QED
        BY <4>2, <4>3
    <3> QED
      BY <2>1, <2>2, <3>1
  <2> QED
    BY <2>3, <2>4
<1>3. CASE WriteBacklogItem
  <2> DEFINE p == batch[current].id
  <2>1. BeingWritten = {p}
    BY <1>3 DEF WriteBacklogItem, BeingWritten
  <2>2. CASE outcome[current] = "Approved"
    <3>1. BeingWritten' = {p} /\ torn' = torn
      BY <1>3, <2>2 DEF WriteBacklogItem, BeingWritten, engine
    <3> QED
      BY <1>3, <2>1, <3>1, BacklogEffect DEF WriteBacklogItem
  <2>3. CASE outcome[current] # "Approved"
    <3>1. torn' = torn \ {p} /\ decisions' = decisions /\ interventions' = interventions
      BY <1>3, <2>3 DEF WriteBacklogItem
    <3>2. decisions[p].type # "Approved" /\ backlog'[p] # NoRecord /\ backlog'[p].status # "Approved"
      BY <1>3, <2>3, BacklogEffect
    <3>3. \A q \in ProposalIds : q # p => backlog'[q] = backlog[q]
      BY <1>3, BacklogEffect
    <3> QED
      BY <2>1, <3>1, <3>2, <3>3
  <2> QED
    BY <2>2, <2>3
<1>4. CASE WriteIntervention
  <2> DEFINE p == batch[current].id
  <2>1. BeingWritten = {p} /\ torn' = torn \ {p} /\ decisions' = decisions /\ backlog' = backlog
    BY <1>4 DEF WriteIntervention, BeingWritten
  <2>2. decisions[p].type = "Approved" /\ interventions'[p] # NoRecord
    BY <1>4, InterventionEffect
  <2>3. \A q \in ProposalIds : q # p => interventions'[q] = interventions[q]
    BY <1>4, InterventionEffect
  <2> QED
    BY <2>1, <2>2, <2>3
<1>5. CASE \E id \in SnapshotIds, s \in SnapshotInputs : RecordState(id, s)
  BY <1>5 DEF RecordState, BeingWritten
<1>6. CASE (\E b \in Batches, t \in Times : BeginTriage(b, t)) \/ \E t \in Times : BeginReevaluation(t)
  BY <1>6 DEF BeginTriage, BeginReevaluation, store, BeingWritten
<1>7. CASE WriteArtifact \/ Respond
  BY <1>7 DEF WriteArtifact, Respond, store, BeingWritten
<1>8. CASE Crash
  BY <1>8 DEF Crash, store, Idle, BeingWritten
<1>9. CASE UNCHANGED vars
  BY <1>9 DEF vars, BeingWritten
<1> QED
  BY <1>1, <1>2, <1>3, <1>4, <1>5, <1>6, <1>7, <1>8, <1>9 DEF Next

\* Every step keeps what this request has written whole.
LEMMA NextWhole ==
  ASSUME TypeOK, TypeOK', Progress, WrittenIsWhole, [Next]_vars
  PROVE  WrittenIsWhole'
<1> USE DEF WrittenIsWhole
<1>1. CASE StoreProposal
  <2>1. outcome = <<>> /\ outcome' = <<>>
    BY <1>1 DEF StoreProposal, StartEngine, engine, Progress, EngineProgress, Deciding
  <2> QED
    BY <2>1
<1>2. ASSUME NEW i \in remaining, Decide(i)
      PROVE  WrittenIsWhole'
  <2>1. phase = "decide" /\ torn' = torn /\ batch' = batch
    BY <1>2 DEF Decide
  <2>2. outcome'[i] = "Rejected" \/ phase' \in {"backlog", "intervention"}
    BY <1>2, DecideEffect DEF Decide, PhaseAfterDecision, DecisionTypes
  <2> QED
    BY <1>2, <2>1, <2>2, DecideEffect
<1>3. CASE WriteBacklogItem
  BY <1>3, BacklogEffect DEF WriteBacklogItem, engine
<1>4. CASE WriteIntervention
  BY <1>4, InterventionEffect DEF WriteIntervention, engine
<1>5. CASE \E id \in SnapshotIds, s \in SnapshotInputs : RecordState(id, s)
  BY <1>5 DEF RecordState, engine
<1>6. CASE (\E b \in Batches, t \in Times : BeginTriage(b, t)) \/ \E t \in Times : BeginReevaluation(t)
  <2>1. outcome' = <<>>
    BY <1>6 DEF BeginTriage, BeginReevaluation, StartEngine, engine, Progress, EngineProgress, Deciding
  <2> QED
    BY <2>1
<1>7. CASE WriteArtifact \/ UNCHANGED vars
  BY <1>7 DEF WriteArtifact, engine, vars
<1>8. CASE Respond \/ Crash
  BY <1>8, IdleProgress DEF Respond, Crash
<1> QED
  BY <1>1, <1>2, <1>3, <1>4, <1>5, <1>6, <1>7, <1>8 DEF Next
-----------------------------------------------------------------------------
(* The engine's loop *)

\* The steps that leave the engine where it is.
LEMMA EngineAtRest ==
  ASSUME RankOrder, RunningCount, DecisionsFollowRule,
         UNCHANGED <<engine, batch, now>>, phase' # "idle" => phase # "idle", Deciding' => Deciding
  PROVE  RankOrder' /\ RunningCount' /\ DecisionsFollowRule'
<1>1. /\ outcome' = outcome /\ remaining' = remaining /\ batch' = batch /\ now' = now
      /\ limits' = limits /\ approved' = approved
  BY DEF engine
<1>2. RankOrder'
  BY <1>1 DEF RankOrder
<1>3. RunningCount'
  BY <1>1 DEF RunningCount, EagerDecided, Eager, Capped
<1>4. DecisionsFollowRule'
  BY <1>1 DEF DecisionsFollowRule, DistinctIds, RuleVerdict, AheadOf, Eager
<1> QED
  BY <1>2, <1>3, <1>4

\* The steps that start it, or leave it not started.
LEMMA EngineAtStart ==
  ASSUME outcome' = <<>>, Deciding' => approved' = limits'.active, limits' \in LimitRecords
  PROVE  RankOrder' /\ RunningCount' /\ DecisionsFollowRule'
<1>1. DOMAIN outcome' = {}
  OBVIOUS
<1>2. EagerDecided' = {} /\ Cardinality({}) = 0
  BY <1>1, FS_EmptySet DEF EagerDecided
<1>3. RunningCount'
  BY <1>2 DEF RunningCount, Capped, LimitRecords
<1> QED
  BY <1>1, <1>3 DEF RankOrder, DecisionsFollowRule

\* When the engine reaches an item, what outranks it among the eager ones is
\* exactly what it has passed.
LEMMA AheadIsPassed ==
  ASSUME TypeOK, Progress, RankOrder, DistinctIds, NEW i \in remaining, Decide(i)
  PROVE  AheadOf(i) = EagerDecided
<1>1. /\ i \in DOMAIN batch /\ DOMAIN outcome = DOMAIN batch \ remaining
      /\ batch \in [DOMAIN batch -> Proposals]
  BY DEF Decide, TypeOK, Progress, EngineProgress, Deciding
<1>2. \A j \in remaining : ~Outranks(batch[j], batch[i])
  BY DEF Decide, Foremost
<1>3. \A j \in DOMAIN outcome : Outranks(batch[j], batch[i])
  <2>1. SUFFICES ASSUME NEW j \in DOMAIN outcome
                 PROVE  Outranks(batch[j], batch[i])
    OBVIOUS
  <2>2. j \in DOMAIN batch /\ j # i /\ batch[j].id # batch[i].id
    BY <1>1 DEF DistinctIds
  <2>3. ~Outranks(batch[i], batch[j])
    BY DEF RankOrder
  <2> QED
    BY <1>1, <2>2, <2>3, OutranksTotal
<1> QED
  BY <1>1, <1>2, <1>3 DEF AheadOf, EagerDecided

\* An eager item is approved exactly when the count has room for it.
LEMMA DecideCounts ==
  ASSUME TypeOK, Progress, RunningCount, NEW i \in remaining, Decide(i)
  PROVE  /\ IsFiniteSet(EagerDecided) /\ Cardinality(EagerDecided) \in Nat
         /\ approved < limits.cap <=> limits.active + Cardinality(EagerDecided) < limits.cap
         /\ RunningCount'
<1>1. IsFiniteSet(EagerDecided) /\ Cardinality(EagerDecided) \in Nat
  <2>1. EagerDecided \subseteq DOMAIN batch /\ IsFiniteSet(DOMAIN batch)
    BY DEF EagerDecided, Progress, EngineProgress, Deciding, Decide
  <2> QED
    BY <2>1, FS_Subset, FS_CardinalityType
<1>2. limits.cap \in Nat /\ limits.active \in Nat /\ limits' = limits
  BY DEF TypeOK, LimitRecords, Decide
<1>3. approved = IF limits.active < limits.cap
                 THEN Capped(limits.active + Cardinality(EagerDecided)) ELSE limits.active
  BY DEF RunningCount, Deciding, Decide
<1>4. approved < limits.cap <=> limits.active + Cardinality(EagerDecided) < limits.cap
  BY <1>1, <1>2, <1>3 DEF Capped
<1>5. EagerDecided' = IF Eager(batch[i]) THEN EagerDecided \union {i} ELSE EagerDecided
  BY DecideEffect, <1>2 DEF EagerDecided, Eager, Decide
<1>6. i \notin EagerDecided
  BY DecideEffect DEF EagerDecided
<1>7. CASE Eager(batch[i])
  <2>1. Cardinality(EagerDecided') = Cardinality(EagerDecided) + 1
    BY <1>1, <1>5, <1>6, <1>7, FS_AddElement
  <2>2. Verdict(batch[i], now, limits, approved) = "Approved" <=> approved < limits.cap
    BY <1>7 DEF Eager, Verdict
  <2>3. approved' = IF approved < limits.cap THEN approved + 1 ELSE approved
    BY <2>2 DEF Decide
  <2> QED
    BY <1>1, <1>2, <1>3, <1>4, <2>1, <2>3 DEF RunningCount, Capped
<1>8. CASE ~Eager(batch[i])
  <2>1. Verdict(batch[i], now, limits, approved) # "Approved"
    BY <1>8 DEF Eager, Verdict
  <2>2. approved' = approved /\ EagerDecided' = EagerDecided
    BY <1>5, <1>8, <2>1 DEF Decide
  <2> QED
    BY <1>1, <1>2, <1>3, <1>4, <2>2 DEF RunningCount, Capped
<1> QED
  BY <1>1, <1>4, <1>7, <1>8

\* Every step keeps the rank order, the count and the rule.
LEMMA NextRank ==
  ASSUME TypeOK, TypeOK', Progress, RankOrder, RunningCount, DecisionsFollowRule, [Next]_vars
  PROVE  RankOrder' /\ RunningCount' /\ DecisionsFollowRule'
<1>1. CASE StoreProposal
  <2>1. outcome' = <<>> /\ (Deciding' => approved' = limits'.active) /\ limits' \in LimitRecords
    <3>1. CASE next < Len(batch)
      BY <1>1, <3>1 DEF StoreProposal, engine, Progress, EngineProgress, Deciding, TypeOK
    <3>2. CASE ~(next < Len(batch))
      <4>1. Usable(LatestSnapshot)
        BY LatestIsUsable DEF TypeOK
      <4> QED
        BY <1>1, <3>2, <4>1, LimitsOfUsable DEF StoreProposal, StartEngine
    <3> QED
      BY <3>1, <3>2
  <2> QED
    BY <2>1, EngineAtStart
<1>2. ASSUME NEW i \in remaining, Decide(i)
      PROVE  RankOrder' /\ RunningCount' /\ DecisionsFollowRule'
  <2>1. RankOrder'
    <3>1. \A k \in remaining' : k \in remaining /\ ~Outranks(batch[k], batch[i])
      BY <1>2 DEF Decide, Foremost
    <3> QED
      BY <1>2, <3>1, DecideEffect DEF RankOrder
  <2>2. RunningCount'
    BY <1>2, DecideCounts
  <2>3. DecisionsFollowRule'
    <3>1. batch' = batch /\ now' = now /\ limits' = limits /\ phase # "idle"
      BY <1>2 DEF Decide
    <3>2. SUFFICES ASSUME DistinctIds, NEW j \in DOMAIN outcome'
                   PROVE  outcome'[j] = RuleVerdict(j)
      BY <3>1 DEF DecisionsFollowRule, DistinctIds, RuleVerdict, AheadOf, Eager
    <3>3. CASE j = i
      <4>1. AheadOf(i) = EagerDecided
        BY <1>2, <3>2, AheadIsPassed
      <4>2. approved < limits.cap <=> limits.active + Cardinality(AheadOf(i)) < limits.cap
        BY <1>2, <4>1, DecideCounts
      <4>3. outcome'[i] = Verdict(batch[i], now, limits, approved)
        BY <1>2, DecideEffect
      <4> DEFINE room == limits.active + Cardinality(AheadOf(i)) < limits.cap
      <4>4. CASE Expired(batch[i], now)
        BY <3>3, <4>3, <4>4 DEF RuleVerdict, Verdict
      <4>5. CASE Eager(batch[i]) /\ room
        BY <3>3, <4>2, <4>3, <4>5 DEF RuleVerdict, Verdict, Eager
      <4>6. CASE ~Expired(batch[i], now) /\ ~(Eager(batch[i]) /\ room)
        <5>1. ~(batch[i].effort <= limits.gate /\ approved < limits.cap)
          BY <4>2, <4>6 DEF Eager
        <5> QED
          BY <3>3, <4>3, <4>6, <5>1 DEF RuleVerdict, Verdict
      <4> QED
        BY <4>4, <4>5, <4>6 DEF Eager
    <3>4. CASE j # i
      <4>1. /\ DOMAIN outcome' = DOMAIN outcome \union {i}
            /\ \A k \in DOMAIN outcome : outcome'[k] = outcome[k]
        BY <1>2, DecideEffect
      <4>2. j \in DOMAIN outcome /\ outcome'[j] = outcome[j]
        BY <3>2, <3>4, <4>1
      <4> QED
        BY <3>1, <3>2, <4>2 DEF DecisionsFollowRule
    <3> QED
      BY <3>3, <3>4
  <2> QED
    BY <2>1, <2>2, <2>3
<1>3. CASE \E id \in SnapshotIds, s \in SnapshotInputs : RecordState(id, s)
  BY <1>3, EngineAtRest DEF RecordState, Deciding
<1>4. CASE \E b \in Batches, t \in Times : BeginTriage(b, t)
  <2>1. outcome' = <<>> /\ ~Deciding' /\ limits' \in LimitRecords
    BY <1>4 DEF BeginTriage, engine, Progress, EngineProgress, Deciding, TypeOK
  <2> QED
    BY <2>1, EngineAtStart
<1>5. CASE \E t \in Times : BeginReevaluation(t)
  <2>1. Usable(LatestSnapshot)
    BY LatestIsUsable DEF TypeOK
  <2>2. outcome' = <<>> /\ approved' = limits'.active /\ limits' \in LimitRecords
    BY <1>5, <2>1, LimitsOfUsable DEF BeginReevaluation, StartEngine
  <2> QED
    BY <2>2, EngineAtStart
<1>6. CASE WriteBacklogItem \/ WriteIntervention \/ WriteArtifact
  BY <1>6, EngineAtRest DEF WriteBacklogItem, WriteIntervention, WriteArtifact, Deciding
<1>7. CASE Respond \/ Crash
  BY <1>7, IdleProgress DEF Respond, Crash
<1>8. CASE UNCHANGED vars
  BY <1>8, EngineAtRest DEF vars, engine, Deciding
<1> QED
  BY <1>1, <1>2, <1>3, <1>4, <1>5, <1>6, <1>7, <1>8 DEF Next

-----------------------------------------------------------------------------
(* Theorems *)

\* The inductive invariant holds at the start and every step keeps it.
THEOREM InitInv == Init => IInv /\ RankInv
<1> SUFFICES ASSUME Init PROVE IInv /\ RankInv
  OBVIOUS
<1>1. TypeOK
  BY InitType
<1>2. Progress /\ WrittenIsWhole /\ RankOrder /\ RankInv
  BY DEF Init, Progress, BodiesKeepTheirIds, EngineProgress, BatchIsStored, WritesFollowDecision,
         WrittenIsWhole, RankOrder, RankInv, RunningCount, DecisionsFollowRule, Deciding, Absent
<1>3. RecordsHaveTheirOrigin /\ AuditTrail
  BY DEF Init, RecordsHaveTheirOrigin, AuditTrail, Absent
<1> QED
  BY <1>1, <1>2, <1>3 DEF IInv

\* Every record written, answer and crash of triage keeps the invariant.
THEOREM NextInv == IInv /\ RankInv /\ [Next]_vars => (IInv /\ RankInv)'
<1> SUFFICES ASSUME IInv, RankInv, [Next]_vars PROVE (IInv /\ RankInv)'
  OBVIOUS
<1>1. TypeOK'
  BY NextType DEF IInv
<1>2. Progress' /\ RecordsHaveTheirOrigin' /\ AuditTrail' /\ WrittenIsWhole'
  BY <1>1, NextProgress, NextOrigin, NextAuditTrail, NextWhole DEF IInv
<1>3. RankOrder' /\ RankInv'
  BY <1>1, NextRank DEF IInv, RankInv
<1> QED
  BY <1>1, <1>2, <1>3 DEF IInv

\* The invariant of triage, with the counting rule, holds throughout.
THEOREM Invariance == Spec => [](IInv /\ RankInv)
BY InitInv, NextInv, PTL DEF Spec

\* The records and the request in progress always have their types.
THEOREM TypeCorrect == Spec => []TypeOK
<1>1. IInv => TypeOK
  BY DEF IInv
<1> QED
  BY <1>1, Invariance, PTL

\* Crashes included, no record of the store refers to a missing one.
THEOREM OriginTheorem == Spec => []RecordsHaveTheirOrigin
<1>1. IInv => RecordsHaveTheirOrigin
  BY DEF IInv
<1> QED
  BY <1>1, Invariance, PTL

\* Outside what a crash tore, approvals have their intervention and deferrals
\* their backlog item.
THEOREM AuditTrailTheorem == Spec => []AuditTrail
<1>1. IInv => AuditTrail
  BY DEF IInv
<1> QED
  BY <1>1, Invariance, PTL

\* The loop of the engine decides as the rule says, whatever the vector.
THEOREM RuleTheorem == Spec => []DecisionsFollowRule
<1>1. RankInv => DecisionsFollowRule
  BY DEF RankInv
<1> QED
  BY <1>1, Invariance, PTL

\* An answered request leaves nothing torn, so a retry repairs a crash.
THEOREM RetryRepairs == Spec => []AnsweredRequestIsWhole
<1>1. IInv => AnsweredRequestIsWhole
  <2> SUFFICES ASSUME IInv, phase = "done", NEW i \in DOMAIN batch, outcome[i] # "Rejected"
               PROVE  batch[i].id \notin torn
    BY DEF AnsweredRequestIsWhole
  <2>1. i \in DOMAIN outcome
    BY DEF IInv, Progress, EngineProgress, Deciding
  <2> QED
    BY <2>1 DEF IInv, WrittenIsWhole
<1> QED
  BY <1>1, Invariance, PTL

\* Versions of a stored proposal never go back and no proposal is lost; of backlog
\* items, whose versions a new triage takes back to 1, this says nothing.
THEOREM VersionsTheorem == Spec => VersionsAdvance
<1> DEFINE Kept == \A p \in ProposalIds :
             ~Absent(proposals, p) => /\ proposals'[p] # NoRecord
                                      /\ proposals'[p].version >= proposals[p].version
<1>1. TypeOK /\ TypeOK' /\ [Next]_vars => [Kept]_vars
  <2> SUFFICES ASSUME TypeOK, TypeOK', [Next]_vars, NEW p \in ProposalIds, ~Absent(proposals, p)
               PROVE  /\ proposals'[p] # NoRecord
                      /\ proposals'[p].version >= proposals[p].version
    OBVIOUS
  <2>1. proposals[p] \in StoredProposals /\ proposals[p] # NoRecord
    BY DEF TypeOK, Optional, Absent
  <2>2. CASE proposals' = proposals
    BY <2>1, <2>2 DEF StoredProposals
  <2>3. CASE StoreProposal
    BY <2>3, StoreKeepsProposals
  <2>4. proposals' = proposals \/ StoreProposal
    BY DEF Next, RecordState, BeginTriage, BeginReevaluation, Decide, WriteBacklogItem,
           WriteIntervention, WriteArtifact, Respond, Crash, store, vars
  <2> QED
    BY <2>2, <2>3, <2>4
<1> QED
  BY <1>1, TypeCorrect, PTL DEF Spec, VersionsAdvance
=============================================================================
