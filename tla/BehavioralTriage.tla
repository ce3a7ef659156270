-------------------------- MODULE BehavioralTriage --------------------------
(***************************************************************************)
(* coordination.behavioral_triage: the module that decides which proposals *)
(* become interventions, over the records it keeps in the memory store.    *)
(*                                                                         *)
(* The program is single threaded: one request runs at a time, and each    *)
(* record it writes is appended to its file at once.  What can interleave  *)
(* is a crash: the process may die between any two writes, and the next    *)
(* process starts from the records written so far (module MemoryStore      *)
(* models the files themselves).  So a handler is one action per record it *)
(* writes, in the order of the code, and Crash forgets everything else.    *)
(*                                                                         *)
(* Covered: record_state, triage_proposals, reevaluate_backlog, and the    *)
(* append/upsert operations of the store they call with their "already     *)
(* written" tests.  The list operations read only.  Not covered: a failed  *)
(* append (see MemoryStore), lineage attributes, response texts.           *)
(***************************************************************************)
EXTENDS BehavioralRules, Sequences, FiniteSets

CONSTANTS
  ProposalIds,     \* behavioral_proposal_id, ordered as the strings are
  ProposalBodies,  \* what a caller may submit under an id
  SnapshotIds,     \* behavioral_state_snapshot_id
  SnapshotInputs,  \* what a caller may record as its state
  Times,           \* decision_time, any value the caller supplies
  MaxBatch,        \* bound: proposals in one request
  MaxRequests,     \* bound: requests in one behavior
  NoRecord         \* no record under this id

ASSUME IdsAssumption ==
  ProposalIds \subseteq Nat /\ IsFiniteSet(ProposalIds) /\ SnapshotIds \subseteq Nat
ASSUME TimesAssumption == Times \subseteq Nat
ASSUME BoundsAssumption == MaxBatch \in Nat \ {0} /\ MaxRequests \in Nat
ASSUME BodiesAssumption ==
  \A b \in ProposalBodies : /\ b.priority \in Priorities
                            /\ b.effort \in Int /\ b.benefit \in Int
                            /\ b.earliest \in Times \union {NoTime}
                            /\ b.latest \in Times \union {NoTime}
ASSUME SnapshotsAssumption ==
  \A s \in SnapshotInputs : /\ s.capturedAt \in Nat /\ s.active \in Nat
                            /\ s.backlog \in Nat /\ s.strain \in Strains

\* BehavioralProposal, as far as triage reads it.
Proposal(id, b) ==
  [id |-> id, priority |-> b.priority, effort |-> b.effort, benefit |-> b.benefit,
   earliest |-> b.earliest, latest |-> b.latest, text |-> b.text]
Proposals == {Proposal(id, b) : id \in ProposalIds, b \in ProposalBodies}

BacklogStatuses == {"Pending", "Reconsidered", "Approved", "Rejected"}

\* The records of the store: what the properties tell apart of each struct.
Optional(S) == S \union {NoRecord}
StoredProposals == [body : Proposals, updatedAt : Times, version : Nat \ {0}]
DecisionRecords == [type : DecisionTypes, decidedAt : Times]
BacklogItems ==
  [status : BacklogStatuses, firstDeferredAt : Times,
   lastReconsideredAt : Times \union {NoTime},
   reconsiderAfter : Times \union {NoTime}, version : Nat \ {0}]
InterventionRecords == [status : {"Approved"}, createdAt : Times]

ASSUME NoRecordAssumption ==
  /\ NoRecord \notin StoredProposals /\ NoRecord \notin DecisionRecords
  /\ NoRecord \notin BacklogItems /\ NoRecord \notin InterventionRecords
  /\ NoRecord \notin SnapshotInputs

VARIABLES
  \* records of the store, by id; all five kinds of id derive from the proposal's
  proposals, decisions, backlog, interventions,
  snapshots,
  reevaluations,   \* by the time the artifact id is made of
  \* the request being executed
  phase,           \* which record it writes next
  kind,            \* "triage" or "reevaluate"
  now,             \* decision_time
  batch,           \* the vector of proposals given to the engine
  next,            \* next proposal of the request to store
  limits,          \* what effective_snapshot allowed
  remaining,       \* indices of the ranked vector not decided yet
  approved,        \* the engine's running count
  outcome,         \* decision types so far, by index
  current,         \* index whose records are being written
  \* history and bound
  torn,            \* ids whose records a crash may have left incomplete
  requests         \* requests begun, for the bound

store == <<proposals, decisions, backlog, interventions, snapshots, reevaluations>>
engine == <<limits, remaining, approved, outcome, current>>
vars == <<proposals, decisions, backlog, interventions, snapshots, reevaluations,
          phase, kind, now, batch, next, limits, remaining, approved, outcome,
          current, torn, requests>>

Absent(table, id) == table[id] = NoRecord
-----------------------------------------------------------------------------
NoLimits == [cap |-> 0, gate |-> 0, active |-> 0]

Idle ==
  /\ phase' = "idle" /\ kind' = "none" /\ now' = 0
  /\ batch' = <<>> /\ next' = 0
  /\ limits' = NoLimits /\ remaining' = {} /\ approved' = 0
  /\ outcome' = <<>> /\ current' = 0

Init ==
  /\ proposals = [p \in ProposalIds |-> NoRecord]
  /\ decisions = [p \in ProposalIds |-> NoRecord]
  /\ backlog = [p \in ProposalIds |-> NoRecord]
  /\ interventions = [p \in ProposalIds |-> NoRecord]
  /\ snapshots = [s \in SnapshotIds |-> NoRecord]
  /\ reevaluations = [t \in Times |-> NoRecord]
  /\ phase = "idle" /\ kind = "none" /\ now = 0
  /\ batch = <<>> /\ next = 0
  /\ limits = NoLimits /\ remaining = {} /\ approved = 0
  /\ outcome = <<>> /\ current = 0
  /\ torn = {} /\ requests = 0

-----------------------------------------------------------------------------
(* behavioral.record_state *)

\* append_behavioral_state_snapshot drops a snapshot whose id, captured_at,
\* notes and attributes are already there, even if its scores differ.
SnapshotAlreadyThere(id, s) ==
  /\ ~Absent(snapshots, id)
  /\ snapshots[id].capturedAt = s.capturedAt
  /\ snapshots[id].notes = s.notes

RecordState(id, s) ==
  /\ phase = "idle" /\ requests < MaxRequests
  /\ snapshots' = IF SnapshotAlreadyThere(id, s) THEN snapshots
                  ELSE [snapshots EXCEPT ![id] = s]
  /\ requests' = requests + 1
  /\ UNCHANGED <<proposals, decisions, backlog, interventions, reevaluations,
                 phase, kind, now, batch, next, engine, torn>>

\* list_recent_behavioral_state_snapshots(1): newest captured_at, then id.
Recorded == {s \in SnapshotIds : ~Absent(snapshots, s)}
Newest(s) == \A r \in Recorded \ {s} :
  \/ snapshots[r].capturedAt < snapshots[s].capturedAt
  \/ snapshots[r].capturedAt = snapshots[s].capturedAt /\ r < s
LatestSnapshot ==
  IF \E s \in Recorded : Newest(s)
  THEN snapshots[CHOOSE s \in Recorded : Newest(s)]
  ELSE DefaultSnapshot

-----------------------------------------------------------------------------
(* behavioral.triage_proposals: store the proposals in request order, ... *)

BeginTriage(b, t) ==
  /\ phase = "idle" /\ requests < MaxRequests
  /\ phase' = "store" /\ kind' = "triage" /\ now' = t
  /\ batch' = b /\ next' = 1
  /\ requests' = requests + 1
  /\ UNCHANGED <<store, engine, torn>>

\* Mutant: the test for a duplicate forgets that there may be no record yet.
ProposalAlreadyThereOrNew(p) == Absent(proposals, p.id) \/ proposals[p.id].updatedAt = now
\* append_behavioral_proposal drops a proposal whose updated_at and texts are
\* already there; otherwise the version counts the distinct decision times.
ProposalAlreadyThere(p) ==
  /\ ~Absent(proposals, p.id)
  /\ proposals[p.id].updatedAt = now
  /\ proposals[p.id].body.text = p.text

\* Mutants: storing again at the same time restarts at 1; versions count from 0.
NextVersionRestarts(p) ==
  IF Absent(proposals, p.id) \/ proposals[p.id].updatedAt = now THEN 1
  ELSE proposals[p.id].version + 1
NextVersionFromZero(p) == IF Absent(proposals, p.id) THEN 0 ELSE proposals[p.id].version + 1

NextVersion(p) ==
  IF Absent(proposals, p.id) THEN 1
  ELSE proposals[p.id].version + (IF proposals[p.id].updatedAt = now THEN 0 ELSE 1)

StoredProposal(p) == [body |-> p, updatedAt |-> now, version |-> NextVersion(p)]

\* The engine starts: it ranks the vector and counts approvals from the
\* number of active interventions the snapshot claims.
StartEngine(b, s) ==
  /\ limits' = LimitsOf(s)
  /\ approved' = s.active
  /\ remaining' = DOMAIN b
  /\ outcome' = <<>> /\ current' = 0

StoreProposal ==
  /\ phase = "store"
  /\ LET p == batch[next] IN
     proposals' = IF ProposalAlreadyThere(p) THEN proposals
                  ELSE [proposals EXCEPT ![p.id] = StoredProposal(p)]
  /\ next' = next + 1
  /\ IF next < Len(batch)
     THEN phase' = "store" /\ UNCHANGED engine
     ELSE phase' = "decide" /\ StartEngine(batch, LatestSnapshot)
  /\ UNCHANGED <<decisions, backlog, interventions, snapshots, reevaluations,
                 kind, now, batch, torn, requests>>
-----------------------------------------------------------------------------
(* behavioral.reevaluate_backlog: every backlog item whose reconsider_after *)
(* has come, whatever its status, is given to the engine again.             *)

Eligible(t) ==
  {p \in ProposalIds : /\ ~Absent(backlog, p) /\ ~Absent(proposals, p)
                       /\ (backlog[p].reconsiderAfter # NoTime => backlog[p].reconsiderAfter <= t)}

BeginReevaluation(t) ==
  /\ phase = "idle" /\ requests < MaxRequests
  /\ kind' = "reevaluate" /\ now' = t /\ next' = 0
  /\ batch' = [p \in Eligible(t) |-> proposals[p].body]
  /\ phase' = IF Eligible(t) = {} THEN "artifact" ELSE "decide"
  /\ StartEngine([p \in Eligible(t) |-> proposals[p].body], LatestSnapshot)
  /\ requests' = requests + 1
  /\ UNCHANGED <<store, torn>>

-----------------------------------------------------------------------------
(* Both handlers then walk the decisions in rank order and write, for each, *)
(* the decision, the backlog item and the intervention, ignoring failures.  *)

AfterItem(left) ==
  IF left # {} THEN "decide" ELSE IF kind = "triage" THEN "done" ELSE "artifact"

\* The highest-ranked proposal left; proposals the comparator cannot separate
\* come in the order std::sort happens to leave them in.
Foremost(i) == \A j \in remaining : ~Outranks(batch[j], batch[i])

\* Mutants: a backlogged proposal gets no item; a decision that is already
\* recorded is taken as proof that the records after it are too.
PhaseAfterDecisionDropsBacklogged(i, v) ==
  IF kind = "reevaluate" \/ v = "Deferred" THEN "backlog"
  ELSE IF v = "Approved" THEN "intervention"
  ELSE AfterItem(remaining \ {i})
PhaseAfterDecisionSkips(i, v) ==
  IF decisions[batch[i].id] = [type |-> v, decidedAt |-> now] THEN AfterItem(remaining \ {i})
  ELSE IF kind = "reevaluate" \/ v \in {"Deferred", "Backlogged"} THEN "backlog"
  ELSE IF v = "Approved" THEN "intervention"
  ELSE AfterItem(remaining \ {i})

\* A triage request touches the backlog only to put an item there; a
\* reevaluation updates the item of every proposal it decides.
PhaseAfterDecision(i, v) ==
  IF kind = "reevaluate" \/ v \in {"Deferred", "Backlogged"} THEN "backlog"
  ELSE IF v = "Approved" THEN "intervention"
  ELSE AfterItem(remaining \ {i})

Decide(i) ==
  /\ phase = "decide" /\ Foremost(i)
  /\ LET p == batch[i]
         v == Verdict(p, now, limits, approved)
     IN  /\ decisions' = [decisions EXCEPT ![p.id] =
                            [type |-> v, decidedAt |-> now]]
         /\ outcome' = [j \in DOMAIN outcome \union {i} |-> IF j = i THEN v ELSE outcome[j]]
         /\ approved' = IF v = "Approved" THEN approved + 1 ELSE approved
         /\ phase' = PhaseAfterDecision(i, v)
  /\ remaining' = remaining \ {i}
  /\ current' = i
  /\ UNCHANGED <<proposals, backlog, interventions, snapshots, reevaluations,
                 kind, now, batch, next, limits, torn, requests>>

NewBacklogItem(p) ==
  [status |-> "Pending", firstDeferredAt |-> now, lastReconsideredAt |-> NoTime,
   reconsiderAfter |-> p.earliest, version |-> 1]

StatusAfter(v) ==
  IF v \in {"Approved", "Rejected"} THEN v ELSE "Reconsidered"

ReconsideredItem(item, v) ==
  [item EXCEPT !.status = StatusAfter(v), !.lastReconsideredAt = now,
               !.version = item.version + 1]

WriteBacklogItem ==
  /\ phase = "backlog"
  /\ LET p == batch[current]
         v == outcome[current]
     IN  /\ backlog' = [backlog EXCEPT ![p.id] =
                          IF kind = "triage" THEN NewBacklogItem(p)
                          ELSE ReconsideredItem(backlog[p.id], v)]
         /\ phase' = IF v = "Approved" THEN "intervention" ELSE AfterItem(remaining)
         /\ torn' = IF v = "Approved" THEN torn ELSE torn \ {p.id}
  /\ UNCHANGED <<proposals, decisions, interventions, snapshots, reevaluations,
                 kind, now, batch, next, engine, requests>>

WriteIntervention ==
  /\ phase = "intervention"
  /\ interventions' = [interventions EXCEPT ![batch[current].id] =
                         [status |-> "Approved", createdAt |-> now]]
  /\ phase' = AfterItem(remaining)
  /\ torn' = torn \ {batch[current].id}
  /\ UNCHANGED <<proposals, decisions, backlog, snapshots, reevaluations,
                 kind, now, batch, next, engine, requests>>
\* The reevaluation artifact, whose id is made of the decision time alone; an
\* artifact with the same counts and snapshot is taken for the same artifact.
Present(table) == {p \in ProposalIds : ~Absent(table, p)}
Promoted == {i \in DOMAIN outcome : outcome[i] = "Approved"}
Artifact ==
  [backlogCount |-> Cardinality(Present(backlog)),
   interventionCount |-> Cardinality(Present(interventions)),
   snapshot |-> {s \in Recorded : Newest(s)},
   reevaluated |-> DOMAIN outcome, created |-> Promoted]

ArtifactAlreadyThere(a) ==
  /\ reevaluations[now] # NoRecord
  /\ reevaluations[now].backlogCount = a.backlogCount
  /\ reevaluations[now].interventionCount = a.interventionCount
  /\ reevaluations[now].snapshot = a.snapshot
  /\ Cardinality(reevaluations[now].reevaluated) = Cardinality(a.reevaluated)
  /\ Cardinality(reevaluations[now].created) = Cardinality(a.created)

WriteArtifact ==
  /\ phase = "artifact"
  /\ reevaluations' = IF ArtifactAlreadyThere(Artifact) THEN reevaluations
                      ELSE [reevaluations EXCEPT ![now] = Artifact]
  /\ phase' = "done"
  /\ UNCHANGED <<proposals, decisions, backlog, interventions, snapshots,
                 kind, now, batch, next, engine, torn, requests>>

-----------------------------------------------------------------------------
\* The response is returned to the caller.
Respond ==
  /\ phase = "done"
  /\ Idle
  /\ UNCHANGED <<store, torn, requests>>

\* The process dies; the next one replays the files.
BeingWritten == IF phase \in {"backlog", "intervention"} THEN {batch[current].id} ELSE {}

Crash ==
  /\ phase # "idle"
  /\ Idle
  /\ torn' = torn \union BeingWritten
  /\ UNCHANGED <<store, requests>>

Batches == UNION {[1..n -> Proposals] : n \in 1..MaxBatch}

Next ==
  \/ \E id \in SnapshotIds, s \in SnapshotInputs : RecordState(id, s)
  \/ phase = "idle" /\ \E b \in Batches, t \in Times : BeginTriage(b, t)
  \/ \E t \in Times : BeginReevaluation(t)
  \/ StoreProposal
  \/ \E i \in remaining : Decide(i)
  \/ WriteBacklogItem
  \/ WriteIntervention
  \/ WriteArtifact
  \/ Respond
  \/ Crash

Spec == Init /\ [][Next]_vars

-----------------------------------------------------------------------------
(* Properties *)

LimitRecords == [cap : 0..3, gate : 0..10, active : Nat]
Phases == {"idle", "store", "decide", "backlog", "intervention", "artifact", "done"}

\* The records and the request in progress have their types, and a phase
\* that works on an item has that item.
TypeOK ==
  /\ proposals \in [ProposalIds -> Optional(StoredProposals)]
  /\ decisions \in [ProposalIds -> Optional(DecisionRecords)]
  /\ backlog \in [ProposalIds -> Optional(BacklogItems)]
  /\ interventions \in [ProposalIds -> Optional(InterventionRecords)]
  /\ snapshots \in [SnapshotIds -> Optional(SnapshotInputs)]
  /\ DOMAIN reevaluations = Times
  /\ phase \in Phases /\ kind \in {"none", "triage", "reevaluate"}
  /\ phase # "idle" => now \in Times
  /\ batch \in [DOMAIN batch -> Proposals]
  /\ phase = "store" => batch \in Batches /\ next \in 1..Len(batch)
  /\ limits \in LimitRecords /\ approved \in Nat
  /\ remaining \subseteq DOMAIN batch
  /\ outcome \in [DOMAIN outcome -> DecisionTypes]
  /\ phase \in {"backlog", "intervention"} => current \in DOMAIN batch
  /\ torn \subseteq ProposalIds /\ requests \in 0..MaxRequests

\* Whatever crashes happened, no record refers to one that is missing: a
\* decision has its proposal, a backlog item and an intervention have their
\* decision.  It rests on the order of the appends in both handlers.
RecordsHaveTheirOrigin ==
  \A p \in ProposalIds :
    /\ ~Absent(decisions, p) => ~Absent(proposals, p)
    /\ ~Absent(backlog, p) => ~Absent(decisions, p)
    /\ ~Absent(interventions, p) => ~Absent(decisions, p)

\* Approved proposals become intervention records, deferred and backlogged
\* ones stay auditable through a backlog item, except for the one proposal a
\* handler is writing, or was writing when the process died.
AuditTrail ==
  \A p \in ProposalIds \ (torn \union BeingWritten) :
    /\ ~Absent(decisions, p) /\ decisions[p].type \in {"Deferred", "Backlogged"}
         => ~Absent(backlog, p)
    /\ ~Absent(decisions, p) /\ decisions[p].type = "Approved"
         => ~Absent(interventions, p)
    /\ ~Absent(backlog, p) /\ backlog[p].status = "Approved"
         => ~Absent(interventions, p)

\* The triage rule of behavioral.hpp stated without the loop: an unexpired
\* proposal that passes the effort gate is approved exactly when fewer than
\* cap - active such proposals outrank it.
DistinctIds == \A i, j \in DOMAIN batch : i # j => batch[i].id # batch[j].id
Eager(p) == ~Expired(p, now) /\ p.effort <= limits.gate
AheadOf(i) == {j \in DOMAIN batch : Eager(batch[j]) /\ Outranks(batch[j], batch[i])}
RuleVerdict(i) ==
  IF Expired(batch[i], now) THEN "Rejected"
  ELSE IF Eager(batch[i]) /\ limits.active + Cardinality(AheadOf(i)) < limits.cap
       THEN "Approved"
  ELSE IF Valuable(batch[i]) THEN "Deferred" ELSE "Backlogged"

DecisionsFollowRule ==
  phase # "idle" /\ DistinctIds => \A i \in DOMAIN outcome : outcome[i] = RuleVerdict(i)

\* A request that is answered left nothing half written for its proposals,
\* even if an earlier attempt at it died: retrying repairs what a crash tore.
AnsweredRequestIsWhole ==
  phase = "done" =>
    \A i \in DOMAIN batch : outcome[i] # "Rejected" => batch[i].id \notin torn

\* Stored versions of a proposal never go back, across retries and crashes.  (Those
\* of backlog items do: a new triage starts an item anew.)
VersionsAdvance ==
  [][\A p \in ProposalIds :
       ~Absent(proposals, p) => /\ proposals'[p] # NoRecord
                                /\ proposals'[p].version >= proposals[p].version]_vars

\* docs/BEHAVIORAL_TRIAGE_BASELINE.md: "Active intervention caps are fixed:
\* Low=1, Medium=2, High=3, Recovery=0."  The largest cap is 3.
ActiveInterventionsWithinCap ==
  Cardinality({p \in ProposalIds : ~Absent(interventions, p)}) <= 3
=============================================================================
