-------------------------- MODULE SchedulingEngine --------------------------
(***************************************************************************)
(* The pure part of scheduling (coordination/scheduling_engine.cpp): which *)
(* conflicts a set of commitments has, where a task candidate can be       *)
(* placed, and whether a stored proposal still holds.                      *)
(*                                                                         *)
(* Data abstraction.  A timestamp is the number of its slot, Day slots to  *)
(* a day, ordered as the code orders the strings; adding minutes stays in  *)
(* the day, as in the code, and otherwise yields NoTime (the empty         *)
(* string).  Vectors are sets: the code sorts them before use, and what it *)
(* appends is keyed by id.  Ranks are left out: a candidate's proposals    *)
(* have one length, so their rank is the order of their start times.       *)
(***************************************************************************)
EXTENDS Integers, FiniteSets, FiniteSetsExt

CONSTANTS
  Day,                 \* slots in a day
  WorkStart, WorkEnd,  \* 09:00 and 17:00, as slots of a day
  NoTime,              \* ""
  NoSet                \* a null constraint set

ASSUME DayAssumption ==
  /\ Day \in Nat \ {0}
  /\ WorkStart \in 0..Day-1 /\ WorkEnd \in 0..Day-1
ASSUME NoTimeAssumption == NoTime \notin Int

\* The map assignment m[id] = record, for the modules that keep records.
Put(m, id, record) == [x \in DOMAIN m \union {id} |-> IF x = id THEN record ELSE m[x]]

MinuteOfDay(t) == t % Day

\* add_minutes_same_day
AddMinutes(t, m) == IF MinuteOfDay(t) + m \in 0..Day-1 THEN t + m ELSE NoTime

\* Of anything with a start and an end.
Overlap(a, b) == a.start < b.end /\ b.start < a.end
InWindow(S, h) == {x \in S : Overlap(x, h)}

GapOf(cs) == IF cs = NoSet THEN 0 ELSE cs.gap
HoursOnly(cs) == cs # NoSet /\ cs.hours

-----------------------------------------------------------------------------
(* Availability *)

WindowAllowed(w, cs) ==
  cs # NoSet => (cs.allowed # {} => w.id \in cs.allowed) /\ w.id \notin cs.blocked

AllowedWindows(windows, cs) == {w \in windows : w.start < w.end /\ WindowAllowed(w, cs)}

ContainedByAnyWindow(x, windows, cs) ==
  LET allowed == AllowedWindows(windows, cs) IN
  IF allowed # {} THEN \E w \in allowed : w.start <= x.start /\ x.end <= w.end
  ELSE HoursOnly(cs) => MinuteOfDay(x.start) >= WorkStart /\ MinuteOfDay(x.end) <= WorkEnd

-----------------------------------------------------------------------------
(* Conflicts.  The id of a conflict is made of its type, the commitments it *)
(* is between, whichever starts first, and the window or candidate it is    *)
(* about.                                                                   *)

Conflict(type, items, about) == [type |-> type, items |-> items, about |-> about]
OverlapConflict(a, b) == Conflict("Overlap", {a.id, b.id}, {})

DetectConflicts(commitments, windows) ==
  {Conflict("InvalidWindow", {}, {w.id}) : w \in {v \in windows : v.start >= v.end}}
  \union
  {OverlapConflict(p[1], p[2]) :
     p \in {q \in commitments \X commitments : q[1].id # q[2].id /\ Overlap(q[1], q[2])}}
  \union
  {Conflict("OutsideAvailability", {c.id}, {}) :
     c \in {d \in commitments : windows # {} /\ ~ContainedByAnyWindow(d, windows, NoSet)}}

-----------------------------------------------------------------------------
(* Placement of a candidate *)

\* A commitment is padded only if both padded ends stay in its day ...
PaddedStart(c, cs) == AddMinutes(c.start, -GapOf(cs))
PaddedEnd(c, cs) == AddMinutes(c.end, GapOf(cs))

\* ... and one that is not padded stands in nobody's way.
Blocks(c, x, cs) ==
  /\ PaddedStart(c, cs) # NoTime /\ PaddedEnd(c, cs) # NoTime
  /\ Overlap(x, [start |-> PaddedStart(c, cs), end |-> PaddedEnd(c, cs)])

Later(s, t) == IF s > t THEN s ELSE t

\* Mutant of CursorAfter: the walk forgets where the window starts.
CursorAfterFromEarliest(passed, cand, w, cs) ==
  Max({cand.earliest} \union ({PaddedEnd(c, cs) : c \in passed} \ {NoTime}))

\* The walk through a window: the cursor starts at the later of the window's
\* and the candidate's start and is moved past the padded end of each
\* commitment that overlaps the window; the stretch between the cursor and the
\* next padded start is a gap, and so is what is left at the end.
CursorAfter(passed, cand, w, cs) ==
  Max({Later(w.start, cand.earliest)} \union ({PaddedEnd(c, cs) : c \in passed} \ {NoTime}))

GapsOf(w, cand, commitments, cs) ==
  LET inside == InWindow(commitments, w)
      Before(c) == [start |-> CursorAfter({d \in inside : d.start < c.start}, cand, w, cs),
                    end |-> PaddedStart(c, cs), basis |-> w.id]
      Last == [start |-> CursorAfter(inside, cand, w, cs), end |-> w.end, basis |-> w.id]
  IN  {g \in {Before(c) : c \in {d \in inside : PaddedStart(d, cs) # NoTime}} \union {Last} :
         g.start < g.end}

\* Without windows there is one gap, the candidate's own span, unless a
\* constraint set is given that does not ask for working hours.
Gaps(cand, commitments, windows, cs) ==
  IF windows # {} THEN UNION {GapsOf(w, cand, commitments, cs) : w \in AllowedWindows(windows, cs)}
  ELSE IF cs # NoSet /\ ~cs.hours THEN {}
  ELSE {[start |-> cand.earliest, end |-> cand.latest, basis |-> "working_hours_only"]}

\* try_gap, in the order of its tests.
ProposedStart(g, cand) == Later(g.start, cand.earliest)
ProposedEnd(g, cand) ==
  AddMinutes(ProposedStart(g, cand), cand.before + cand.duration + cand.after)
TooSmall(g, cand) == ProposedEnd(g, cand) > g.end \/ ProposedEnd(g, cand) > cand.latest
Block(g, cand) == [start |-> ProposedStart(g, cand) + cand.before,
                   end |-> ProposedStart(g, cand) + cand.before + cand.duration]
Padded(g, cand) == [start |-> ProposedStart(g, cand), end |-> ProposedEnd(g, cand)]

\* Mutant of Fits: the gap is trusted to be free.
FitsUnchecked(g, cand, commitments, windows, cs) ==
  /\ ProposedEnd(g, cand) # NoTime
  /\ ~TooSmall(g, cand)
  /\ ContainedByAnyWindow(Block(g, cand), windows, cs)

Fits(g, cand, commitments, windows, cs) ==
  /\ ProposedEnd(g, cand) # NoTime
  /\ ~TooSmall(g, cand)
  /\ ContainedByAnyWindow(Block(g, cand), windows, cs)
  /\ \A c \in commitments : ~Blocks(c, Padded(g, cand), cs)

GenerateProposals(cand, commitments, windows, cs) ==
  {Block(g, cand) : g \in {h \in Gaps(cand, commitments, windows, cs) :
                             Fits(h, cand, commitments, windows, cs)}}

GapConflict(g, cand) ==
  Conflict(IF TooSmall(g, cand) THEN "DurationInsufficient" ELSE "OutsideAvailability",
           {}, {cand.id, g.basis})

DerivedConflicts(cand, commitments, windows, cs) ==
  {GapConflict(g, cand) :
     g \in {h \in Gaps(cand, commitments, windows, cs) :
              /\ ProposedEnd(h, cand) # NoTime
              /\ \/ TooSmall(h, cand)
                 \/ ~ContainedByAnyWindow(Block(h, cand), windows, cs)}}
  \union
  {Conflict("InvalidWindow", {}, {cand.id, w.id}) :
     w \in {v \in windows : v.start >= v.end}}
  \union
  IF windows = {} /\ cs # NoSet /\ ~HoursOnly(cs)
  THEN {Conflict("OutsideAvailability", {}, {cand.id, "unbounded"})} ELSE {}

-----------------------------------------------------------------------------
\* proposal_still_valid: the buffers are not looked at again.
ProposalStillValid(p, cand, commitments, windows, cs) ==
  /\ p.status = "Proposed"
  /\ p.start >= cand.earliest /\ p.end <= cand.latest
  /\ ContainedByAnyWindow(p, windows, cs)
  /\ \A c \in commitments : ~Blocks(c, p, cs)
=============================================================================
