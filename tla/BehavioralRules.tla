--------------------------- MODULE BehavioralRules ---------------------------
(***************************************************************************)
(* The pure part of behavioral triage: how a state snapshot yields a       *)
(* capacity level, how a level yields limits, how proposals are ranked and *)
(* what verdict one proposal gets (core/behavioral.cpp and the loop body   *)
(* of coordination/behavioral_triage_engine.cpp).                          *)
(*                                                                         *)
(* Data abstraction.  The five scores of a snapshot (density, compliance,  *)
(* failures, fatigue, stress) only matter through the threshold band they  *)
(* fall in, so a snapshot carries that band, "strain".  Efforts and        *)
(* benefits are integers; ratios are compared by cross multiplication.     *)
(* Timestamps are naturals below FarFuture, compared as the code compares  *)
(* ISO strings.  Title, description and attributes are one value, "text".  *)
(***************************************************************************)
EXTENDS Integers

CONSTANT NoTime   \* std::nullopt for an optional timestamp

\* The literal "9999-12-31T23:59:59.999Z" the ranking falls back to.
FarFuture == 9999

ASSUME NoTimeAssumption == NoTime \notin Nat

Priorities == {"Low", "Normal", "High", "Critical"}
PriorityRank == [Low |-> 1, Normal |-> 2, High |-> 3, Critical |-> 4]

-----------------------------------------------------------------------------
(* Capacity *)

\* Bands of the five scores: some score past a recovery threshold, else some
\* past a low threshold, else all inside the high thresholds, else neither.
Strains == {"exhausted", "strained", "steady", "fresh"}
CapacityLevels == {"Recovery", "Low", "Medium", "High"}

DeriveCapacityLevel(s) ==
  IF s.active >= 3 \/ s.strain = "exhausted" THEN "Recovery"
  ELSE IF s.backlog >= 5 \/ s.strain = "strained" THEN "Low"
  ELSE IF s.active = 0 /\ s.backlog <= 1 /\ s.strain = "fresh" THEN "High"
  ELSE "Medium"

ActiveInterventionCap == [Low |-> 1, Medium |-> 2, High |-> 3, Recovery |-> 0]
EffortGate == [Recovery |-> 0, Low |-> 2, Medium |-> 5, High |-> 10]

\* The snapshot used when none was recorded.
DefaultSnapshot ==
  [capturedAt |-> 0, notes |-> "default", active |-> 0, backlog |-> 0, strain |-> "fresh"]

\* What one triage run works with: the level is derived again from the
\* snapshot's counts and scores, whatever level the snapshot itself carries.
LimitsOf(s) ==
  LET level == DeriveCapacityLevel(s)
  IN  [cap |-> ActiveInterventionCap[level], gate |-> EffortGate[level], active |-> s.active]

-----------------------------------------------------------------------------
(* Ranking *)

EffortFloor(p) == IF p.effort > 1 THEN p.effort ELSE 1

\* roi(a) > roi(b), with roi = benefit / max(1, effort)
RoiGreater(a, b) == a.benefit * EffortFloor(b) > b.benefit * EffortFloor(a)

RelevantTime(p) ==
  IF p.latest # NoTime THEN p.latest
  ELSE IF p.earliest # NoTime THEN p.earliest
  ELSE FarFuture

\* The comparator given to std::sort: priority, ROI, relevant time, id.
Outranks(a, b) ==
  \/ PriorityRank[a.priority] > PriorityRank[b.priority]
  \/ /\ PriorityRank[a.priority] = PriorityRank[b.priority]
     /\ ~RoiGreater(b, a)
     /\ \/ RoiGreater(a, b)
        \/ RelevantTime(a) < RelevantTime(b)
        \/ RelevantTime(a) = RelevantTime(b) /\ a.id < b.id

-----------------------------------------------------------------------------
(* Verdict *)

DecisionTypes == {"Approved", "Deferred", "Backlogged", "Rejected"}

Expired(p, now) == p.latest # NoTime /\ p.latest < now

\* roi >= 1.5, or priority High or Critical
Valuable(p) == \/ 2 * p.benefit >= 3 * EffortFloor(p)
               \/ PriorityRank[p.priority] >= PriorityRank["High"]

\* Mutant: the cap test is off by one.
VerdictOverCap(p, now, limits, approved) ==
  IF Expired(p, now) THEN "Rejected"
  ELSE IF p.effort <= limits.gate /\ approved <= limits.cap THEN "Approved"
  ELSE IF Valuable(p) THEN "Deferred"
  ELSE "Backlogged"

\* The loop body: approved is the running count that starts at the
\* snapshot's own active_intervention_count.
Verdict(p, now, limits, approved) ==
  IF Expired(p, now) THEN "Rejected"
  ELSE IF p.effort <= limits.gate /\ approved < limits.cap THEN "Approved"
  ELSE IF Valuable(p) THEN "Deferred"
  ELSE "Backlogged"
=============================================================================
