------------------------ MODULE SchedulingCoordination ------------------------
(***************************************************************************)
(* coordination.scheduling: commitments, task candidates, proposals and    *)
(* conflicts in the memory store, and the handlers that write them.        *)
(*                                                                         *)
(* As in BehavioralTriage, one request runs at a time and the only thing   *)
(* that can come between two of its writes is the death of the process:    *)
(* one action per record written, in the order of the code.  The conflicts *)
(* of one detection are one step, for nothing reads them to decide; a      *)
(* crash may leave any part of them.                                       *)
(*                                                                         *)
(* Availability windows and named constraint sets reach the store through  *)
(* the memory service only (UpsertWindow, UpsertConstraintSet).            *)
(* list_schedule_window reads only.  A task may be asked for with a        *)
(* duration of no minutes at all: std::stoi's result is used as it is.     *)
(* Not covered: failed appends (module MemoryStore), requests whose        *)
(* numbers or times do not parse, negative durations, buffers and gaps     *)
(* (they place blocks that end before they start).                         *)
(***************************************************************************)
EXTENDS SchedulingEngine

CONSTANTS
  CommitmentIds,     \* ids a caller gives a commitment
  CommitmentSpans,   \* what a caller may commit, or ask conflicts for
  CandidateIds,
  CandidateBodies,   \* what a caller may ask to place
  WindowIds, WindowSpans,
  SetIds, SetBodies, \* named constraint sets
  Asked,             \* constraints a propose request may carry
  NoId,              \* the empty constraint_set_id
  MaxRequests        \* bound: requests in one behavior

ASSUME InputsAssumption ==
  /\ \A s \in CommitmentSpans \union WindowSpans : s.start \in Nat /\ s.end \in Nat
  /\ \A b \in CandidateBodies :
       /\ b.earliest \in Nat /\ b.latest \in Nat /\ b.duration \in Nat
       /\ b.before \in Nat /\ b.after \in Nat
  /\ \A b \in SetBodies : b.gap \in Nat
  /\ \A a \in Asked : a.gap \in Nat /\ (a.id = NoId \/ a.id \in SetIds)
  /\ NoSet \notin SetBodies \union Asked
  /\ NoId \notin SetIds /\ \A i \in CommitmentIds : NoId # <<"own", i>>
  /\ "own" \notin CandidateIds
  /\ MaxRequests \in Nat

VARIABLES
  commitments, candidates, proposals, windows, constraintSets,  \* records, by id
  decisions, conflicts,                                         \* sets of ids
  phase, current, pending,   \* the request being executed
  torn,                      \* history: commitments whose conflicts a crash may have lost
  unguarded,                 \* history: proposals committed that do not block their task
  requests

store == <<commitments, candidates, proposals, windows, constraintSets, decisions, conflicts>>
vars == <<commitments, candidates, proposals, windows, constraintSets, decisions, conflicts,
          phase, current, pending, torn, unguarded, requests>>

Records(m) == {m[x] : x \in DOMAIN m}

\* A proposal's id is made of its candidate and start, and the id of the
\* commitment it becomes is made of the proposal's.
OwnId(i) == <<"own", i>>
ProposalId(cand, start) == <<cand, start>>
FromProposal(id) == id[1] # "own"

NoRequest == [id |-> NoId]
Idle == phase' = "idle" /\ current' = NoRequest /\ pending' = {}

Init ==
  /\ commitments = <<>> /\ candidates = <<>> /\ proposals = <<>>
  /\ windows = <<>> /\ constraintSets = <<>>
  /\ decisions = {} /\ conflicts = {}
  /\ phase = "idle" /\ current = NoRequest /\ pending = {}
  /\ torn = {} /\ unguarded = {} /\ requests = 0

NewRequest == phase = "idle" /\ requests < MaxRequests /\ requests' = requests + 1

-----------------------------------------------------------------------------
(* The memory service, called directly *)

UpsertWindow(w, s) ==
  /\ NewRequest
  /\ windows' = Put(windows, w, [id |-> w, start |-> s.start, end |-> s.end])
  /\ UNCHANGED <<commitments, candidates, proposals, constraintSets, decisions, conflicts,
                 phase, current, pending, torn, unguarded>>

UpsertConstraintSet(k, b) ==
  /\ NewRequest
  /\ constraintSets' = Put(constraintSets, k,
       [id |-> k, gap |-> b.gap, hours |-> b.hours, allowed |-> b.allowed, blocked |-> b.blocked])
  /\ UNCHANGED <<commitments, candidates, proposals, windows, decisions, conflicts,
                 phase, current, pending, torn, unguarded>>

-----------------------------------------------------------------------------
(* scheduling.add_commitment and scheduling.detect_conflicts *)

AddCommitment(i, s) ==
  /\ NewRequest
  /\ s.start < s.end
  /\ commitments' = Put(commitments, OwnId(i), [id |-> OwnId(i), start |-> s.start, end |-> s.end])
  /\ phase' = "detect" /\ current' = [id |-> OwnId(i), start |-> s.start, end |-> s.end]
  /\ UNCHANGED <<candidates, proposals, windows, constraintSets, decisions, conflicts,
                 pending, torn, unguarded>>

BeginDetectConflicts(s) ==
  /\ NewRequest
  /\ phase' = "detect" /\ current' = [id |-> NoId, start |-> s.start, end |-> s.end]
  /\ UNCHANGED <<store, pending, torn, unguarded>>

\* Mutant of DetectedConflicts: only commitments inside the window are read.
DetectedConflictsInside ==
  DetectConflicts({c \in InWindow(Records(commitments), current) :
                     current.start <= c.start /\ c.end <= current.end},
                  InWindow(Records(windows), current))

\* What the request's detection finds: it looks no further than its window.
DetectedConflicts ==
  DetectConflicts(InWindow(Records(commitments), current), InWindow(Records(windows), current))

RecordConflicts ==
  /\ phase = "detect"
  /\ conflicts' = conflicts \union DetectedConflicts
  /\ torn' = torn \ {current.id}
  /\ Idle
  /\ UNCHANGED <<commitments, candidates, proposals, windows, constraintSets, decisions,
                 unguarded, requests>>

-----------------------------------------------------------------------------
(* scheduling.propose_time_blocks: the candidate is stored, then the derived *)
(* conflicts, then the proposals in rank order.                              *)

\* A constraint set named but not found is no constraint at all; the inline
\* one has the empty id.
ConstraintOf(a) ==
  IF a.id = NoId
  THEN [id |-> NoId, gap |-> a.gap, hours |-> a.hours, allowed |-> {}, blocked |-> {}]
  ELSE IF a.id \in DOMAIN constraintSets THEN constraintSets[a.id] ELSE NoSet

BasedOn(cs) == IF cs = NoSet THEN NoId ELSE cs.id

Span(cand) == [start |-> cand.earliest, end |-> cand.latest]
InHorizon(m, cand) == InWindow(Records(m), Span(cand))

StoreCandidate(c, b, a) ==
  /\ NewRequest
  /\ candidates' = Put(candidates, c,
       [id |-> c, earliest |-> b.earliest, latest |-> b.latest, duration |-> b.duration,
        before |-> b.before, after |-> b.after])
  /\ phase' = "propose" /\ current' = [id |-> c, asked |-> a]
  /\ UNCHANGED <<commitments, proposals, windows, constraintSets, decisions, conflicts,
                 pending, torn, unguarded>>

Generate ==
  /\ phase = "propose"
  /\ LET cand == candidates[current.id]
         cs == ConstraintOf(current.asked)
         near == InHorizon(commitments, cand)
         open == InHorizon(windows, cand)
     IN  /\ conflicts' = conflicts \union DerivedConflicts(cand, near, open, cs)
         /\ pending' = GenerateProposals(cand, near, open, cs)
  /\ IF pending' = {} THEN phase' = "idle" /\ current' = NoRequest
     ELSE phase' = "append" /\ UNCHANGED current
  /\ UNCHANGED <<commitments, candidates, proposals, windows, constraintSets, decisions,
                 torn, unguarded, requests>>

\* Mutant of NewProposal: the version is left at zero.
NewProposalUnversioned(cand, block, cs) ==
  [cand |-> cand, start |-> block.start, end |-> block.end, basedOn |-> BasedOn(cs),
   status |-> "Proposed", version |-> 0, wanted |-> GapOf(cs)]

\* wanted: the gap the request asked for, which the record does not keep.
NewProposal(cand, block, cs) ==
  [cand |-> cand, start |-> block.start, end |-> block.end, basedOn |-> BasedOn(cs),
   status |-> "Proposed", version |-> 1, wanted |-> GapOf(cs)]

AppendProposal ==
  /\ phase = "append"
  /\ LET first == CHOOSE x \in pending : \A y \in pending : x.start <= y.start
     IN  /\ proposals' = Put(proposals, ProposalId(current.id, first.start),
                             NewProposal(current.id, first, ConstraintOf(current.asked)))
         /\ IF pending = {first} THEN Idle
            ELSE pending' = pending \ {first} /\ UNCHANGED <<phase, current>>
  /\ UNCHANGED <<commitments, candidates, windows, constraintSets, decisions, conflicts,
                 torn, unguarded, requests>>

-----------------------------------------------------------------------------
(* scheduling.commit_proposal: the commitment, the proposal's new status and *)
(* the decision.  A proposal that no longer holds is rejected and nothing    *)
(* is written.                                                               *)

\* The set is looked up again; an inline constraint is gone.
ConstraintAtCommit(p) ==
  IF p.basedOn \in DOMAIN constraintSets THEN constraintSets[p.basedOn] ELSE NoSet

\* Mutant of StillValid: what held at proposal time is trusted.
StillValidAsProposed(p) == proposals[p].status = "Proposed"

StillValid(p) ==
  LET cand == candidates[proposals[p].cand]
      cs == ConstraintAtCommit(proposals[p])
  IN  ProposalStillValid(proposals[p], cand, InHorizon(commitments, cand),
                         InHorizon(windows, cand), cs)

\* So near midnight that some constraint's padding leaves the day.
NearMidnight(x) ==
  \E b \in SetBodies \union Asked : PaddedStart(x, b) = NoTime \/ PaddedEnd(x, b) = NoTime

TakesTime(x) == x.start < x.end

\* What does not stand in the way of its own task: a commitment near midnight
\* is not padded, and one of no minutes overlaps nothing that starts with it.
Unguarded(x) == NearMidnight(x) \/ ~TakesTime(x)

\* Mutant of CommitProposal: the proposal's new status is not written.
CommitProposalUnmarked(p) ==
  /\ NewRequest
  /\ StillValid(p)
  /\ commitments' = Put(commitments, p,
       [id |-> p, start |-> proposals[p].start, end |-> proposals[p].end])
  /\ unguarded' = unguarded \union {x \in {p} : Unguarded(proposals[x])}
  /\ phase' = "decide" /\ current' = [id |-> p]
  /\ UNCHANGED <<candidates, proposals, windows, constraintSets, decisions, conflicts,
                 pending, torn>>

CommitProposal(p) ==
  /\ NewRequest
  /\ StillValid(p)
  /\ commitments' = Put(commitments, p,
       [id |-> p, start |-> proposals[p].start, end |-> proposals[p].end])
  /\ unguarded' = unguarded \union {x \in {p} : Unguarded(proposals[x])}
  /\ phase' = "mark" /\ current' = [id |-> p]
  /\ UNCHANGED <<candidates, proposals, windows, constraintSets, decisions, conflicts,
                 pending, torn>>

MarkCommitted ==
  /\ phase = "mark"
  /\ proposals' = [proposals EXCEPT ![current.id].status = "Committed",
                                    ![current.id].version = @ + 1]
  /\ phase' = "decide"
  /\ UNCHANGED <<commitments, candidates, windows, constraintSets, decisions, conflicts,
                 current, pending, torn, unguarded, requests>>

RecordDecision ==
  /\ phase = "decide"
  /\ decisions' = decisions \union {current.id}
  /\ Idle
  /\ UNCHANGED <<commitments, candidates, proposals, windows, constraintSets, conflicts,
                 torn, unguarded, requests>>

-----------------------------------------------------------------------------
\* The process dies; a detection it was recording may have left any part.
Detecting == IF phase = "detect" THEN {current.id} \ {NoId} ELSE {}

Crash ==
  /\ phase # "idle"
  /\ \E part \in SUBSET (IF phase = "detect" THEN DetectedConflicts ELSE {}) :
       conflicts' = conflicts \union part
  /\ torn' = torn \union Detecting
  /\ Idle
  /\ UNCHANGED <<commitments, candidates, proposals, windows, constraintSets, decisions,
                 unguarded, requests>>

Next ==
  \/ \E w \in WindowIds, s \in WindowSpans : UpsertWindow(w, s)
  \/ \E k \in SetIds, b \in SetBodies : UpsertConstraintSet(k, b)
  \/ \E i \in CommitmentIds, s \in CommitmentSpans : AddCommitment(i, s)
  \/ \E s \in CommitmentSpans : BeginDetectConflicts(s)
  \/ RecordConflicts
  \/ \E c \in CandidateIds, b \in CandidateBodies, a \in Asked : StoreCandidate(c, b, a)
  \/ Generate
  \/ AppendProposal
  \/ \E p \in DOMAIN proposals : CommitProposal(p)
  \/ MarkCommitted
  \/ RecordDecision
  \/ Crash

Spec == Init /\ [][Next]_vars

-----------------------------------------------------------------------------
(* Properties *)

Statuses == {"Proposed", "Committed"}

TypeOK ==
  /\ DOMAIN candidates \subseteq CandidateIds
  /\ \A id \in DOMAIN commitments :
       /\ commitments[id].id = id /\ commitments[id].start <= commitments[id].end
       /\ ~FromProposal(id) => TakesTime(commitments[id])
  /\ \A p \in DOMAIN proposals :
       /\ p = ProposalId(proposals[p].cand, proposals[p].start)
       /\ proposals[p].cand \in DOMAIN candidates
       /\ proposals[p].status \in Statuses /\ proposals[p].version \in 1..2
  /\ DOMAIN windows \subseteq WindowIds /\ DOMAIN constraintSets \subseteq SetIds
  /\ decisions \subseteq DOMAIN proposals
  /\ phase \in {"idle", "detect", "propose", "append", "mark", "decide"}
  /\ phase \in {"propose", "append"} => current.id \in DOMAIN candidates
  /\ phase \in {"mark", "decide"} => current.id \in DOMAIN proposals
  /\ phase # "append" => pending = {}
  /\ torn \subseteq {OwnId(i) : i \in CommitmentIds} /\ unguarded \subseteq DOMAIN commitments
  /\ requests \in 0..MaxRequests

\* Two committed proposals never overlap, whatever was proposed, moved,
\* committed or lost in a crash in between: the test at commit time is what
\* keeps stale proposals out.
NoDoubleBooking ==
  \A a, b \in Records(commitments) :
    /\ FromProposal(a.id) /\ FromProposal(b.id) /\ a.id # b.id
    /\ ~NearMidnight(a) /\ ~NearMidnight(b)
    => ~Overlap(a, b)

\* Overlapping commitments are allowed, silent ones are not: unless a crash
\* cut the detection off, the overlap is on record, although each detection
\* looks at one window only and committing a proposal detects nothing.
NoSilentOverlap ==
  \A a, b \in Records(commitments) :
    /\ a.id # b.id /\ Overlap(a, b)
    /\ {a.id, b.id} \intersect (torn \union Detecting) = {}
    /\ ~NearMidnight(a) /\ ~NearMidnight(b)
    => OverlapConflict(a, b) \in conflicts

\* Crashes included, a committed proposal has its commitment, with the same
\* span, and a decision is never recorded before the proposal is committed.
\* Two commitments do not keep their task from being proposed again: one near
\* midnight, and one beside a block of no minutes (0 is a duration the request
\* may carry), for that overlaps nothing it starts or ends with.
CommitLeavesEvidence ==
  /\ \A p \in DOMAIN proposals : proposals[p].status = "Committed" =>
       /\ p \in DOMAIN commitments
       /\ commitments[p].start = proposals[p].start /\ commitments[p].end = proposals[p].end
  /\ \A d \in decisions : d \in DOMAIN commitments
       /\ (\/ proposals[d].status = "Committed"
           \/ d \in unguarded \/ ~TakesTime(proposals[d]))

\* A committed proposal stays committed: proposing its task again cannot
\* write the same id as Proposed, for its own commitment is in the way.  It is
\* not when it is near midnight, and not when the committed block or the one
\* now asked for takes no time: then the code does write the id back as
\* Proposed, and it can be committed again.
CommittedIsFinal ==
  [][\A p \in DOMAIN proposals :
       proposals[p].status = "Committed" /\ ~Unguarded(proposals[p])
       => proposals'[p].status = "Committed" \/ ~TakesTime(proposals'[p])]_vars

\* docs/SCHEDULING_COORDINATION_BASELINE.md: "Minimum gap between
\* commitments" is a supported constraint.  A proposal generated with a gap
\* keeps that gap from every commitment there is when it is committed.
CommitKeepsGap ==
  [][\A p \in DOMAIN commitments' \ DOMAIN commitments : FromProposal(p) =>
       \A c \in Records(commitments) :
         \/ proposals[p].end + proposals[p].wanted <= c.start
         \/ c.end + proposals[p].wanted <= proposals[p].start]_vars
=============================================================================
