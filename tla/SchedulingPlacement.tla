------------------------- MODULE SchedulingPlacement ------------------------
(***************************************************************************)
(* The placement algorithm of SchedulingEngine against a definition of     *)
(* what it should find, over every small schedule: a schedule is built one *)
(* commitment and one window at a time, and each one reached is an input.  *)
(* It is a machine of its own; MCScheduling runs it beside the module's.   *)
(***************************************************************************)
EXTENDS SchedulingEngine

CONSTANTS
  Origin, Horizon,  \* bound: the first and the last slot of a schedule
  MaxBlocks,        \* bound
  FreeIds,          \* windows
  Durations, Buffers, GapChoices

VARIABLES
  cand, cs,
  blocks,  \* commitments
  free     \* windows
placementVars == <<cand, cs, blocks, free>>

Spans == {s \in [start : Origin..Horizon, end : Origin..Horizon] : s.start < s.end}

Candidates == [id : {"task"}, earliest : {Origin + 1}, latest : {Horizon - 2},
               duration : Durations, before : Buffers, after : Buffers]

\* Sets that ask for a gap and block some windows.
ConstraintSets == [id : {"inline"}, gap : GapChoices, hours : {FALSE}, allowed : {{}},
                   blocked : SUBSET FreeIds]

\* Durations, buffers and gaps are numbers of slots.  The code reads them with
\* std::stoi and refuses no negative one; these are not looked at.
PlacementInputs ==
  /\ Origin \in Nat /\ Horizon \in Nat
  /\ Durations \subseteq Nat /\ Buffers \subseteq Nat /\ GapChoices \subseteq Nat
  /\ NoSet \notin ConstraintSets

PlacementInit ==
  /\ cand \in Candidates /\ cs \in ConstraintSets
  /\ blocks = {} /\ free = {}

\* Commitments are numbered in start order: their ids decide nothing.
AddBlock(s) ==
  /\ Cardinality(blocks) < MaxBlocks
  /\ \A c \in blocks : c.start <= s.start
  /\ blocks' = blocks \union
       {[id |-> Cardinality(blocks) + 1, start |-> s.start, end |-> s.end]}
  /\ UNCHANGED <<cand, cs, free>>

AddFree(i, s) ==
  /\ \A w \in free : w.id # i
  /\ free' = free \union {[id |-> i, start |-> s.start, end |-> s.end]}
  /\ UNCHANGED <<cand, cs, blocks>>

PlacementNext ==
  \E s \in Spans : AddBlock(s) \/ \E i \in FreeIds : AddFree(i, s)
PlacementSpec == PlacementInit /\ [][PlacementNext]_placementVars

-----------------------------------------------------------------------------
(* What the algorithm should find *)

Found == GenerateProposals(cand, InWindow(blocks, [start |-> cand.earliest, end |-> cand.latest]),
                           InWindow(free, [start |-> cand.earliest, end |-> cand.latest]), cs)
OfferedWindows ==
  AllowedWindows(InWindow(free, [start |-> cand.earliest, end |-> cand.latest]), cs)

\* The candidate with its buffers, when the work starts at s.
WithBuffers(s) == [start |-> s - cand.before, end |-> s + cand.duration + cand.after]

\* A commitment whose padding would leave its day is not padded by the code.
NotPadded(c) == MinuteOfDay(c.start) < cs.gap \/ MinuteOfDay(c.end) + cs.gap >= Day

KeepsGap(s, c) == \/ WithBuffers(s).end + cs.gap <= c.start
                  \/ c.end + cs.gap <= WithBuffers(s).start

InOneDay(x) == MinuteOfDay(x.start) + (x.end - x.start) < Day

Feasible(s) ==
  /\ WithBuffers(s).start >= cand.earliest /\ WithBuffers(s).end <= cand.latest
  /\ InOneDay(WithBuffers(s))
  /\ \E w \in OfferedWindows : w.start <= WithBuffers(s).start /\ WithBuffers(s).end <= w.end
  /\ \A c \in blocks : KeepsGap(s, c)

\* Every block offered has the candidate's length, lies with its buffers in
\* the candidate's span and in one allowed window, and keeps the minimum gap
\* from every commitment in the span that is not near midnight.
OffersAreSound ==
  \A p \in Found :
    /\ p.end - p.start = cand.duration
    /\ WithBuffers(p.start).start >= cand.earliest /\ WithBuffers(p.start).end <= cand.latest
    /\ \E w \in OfferedWindows :
         w.start <= WithBuffers(p.start).start /\ WithBuffers(p.start).end <= w.end
    /\ \A c \in InWindow(blocks, [start |-> cand.earliest, end |-> cand.latest]) :
         NotPadded(c) \/ KeepsGap(p.start, c)

\* For a task that takes time, without a minimum gap, and with windows that
\* stay inside a day, the walk over the gaps misses nothing: the first offer
\* starts as early as possible.
WindowsInOneDay == \A w \in free : w.start < w.end => w.start \div Day = (w.end - 1) \div Day
EarliestIsOffered ==
  cand.duration > 0 /\ cs.gap = 0 /\ WindowsInOneDay =>
    \A s \in cand.earliest..cand.latest : Feasible(s) => \E p \in Found : p.start <= s

\* Blocks offered lie where they may, and the earliest one is not missed.
PlacementIsRight == OffersAreSound /\ EarliestIsOffered
=============================================================================
