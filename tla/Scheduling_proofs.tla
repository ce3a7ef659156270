-------------------------- MODULE Scheduling_proofs --------------------------
(***************************************************************************)
(* Proofs about scheduling.                                                *)
(*                                                                         *)
(* The engine, in its two uses: for any schedule that SchedulingPlacement  *)
(* builds, the walk over the gaps offers nothing wrong and misses nothing; *)
(* and the commands of SchedulingCandidates offer what the interventions   *)
(* call for.                                                               *)
(*                                                                         *)
(* The coordination module, for any day, spans, constraints and number of  *)
(* requests.  What makes its properties inductive is that every commitment *)
(* has integer ends with a common bound (so the walk through a window has  *)
(* a cursor), that the blocks still to be recorded as proposals are free   *)
(* of commitments, and what each phase of a request knows of the record it *)
(* is about.                                                               *)
(***************************************************************************)
EXTENDS SchedulingCoordination, SchedulingPlacement, SchedulingCandidates, TLAPS,
        WellFoundedInduction

-----------------------------------------------------------------------------
(* Numbers and times *)

LEMMA MaxFacts ==
  ASSUME NEW S \in SUBSET Int, NEW x \in S, NEW h \in Int, \A y \in S : y <= h
  PROVE  Max(S) \in S /\ \A y \in S : y <= Max(S)
<1> DEFINE U == {n \in Nat : h - n \in S}
<1>1. h - x \in Nat /\ h - (h - x) = x
  OBVIOUS
<1>2. U \in SUBSET Nat /\ U # {}
  BY <1>1
<1>3. PICK n \in U : \A i \in U : ~(<<i, n>> \in OpToRel(<, Nat))
  BY <1>2, NatLessThanWellFounded, WFMin
<1>4. n \in Nat /\ h - n \in S
  BY <1>3
<1>5. ASSUME NEW y \in S PROVE h - n >= y
  <2>1. h - y \in Nat /\ h - (h - y) = y
    OBVIOUS
  <2>2. h - y \in U
    BY <2>1
  <2>3. ~(h - y < n)
    BY <1>3, <2>1, <2>2 DEF OpToRel
  <2> QED
    BY <1>4, <2>1, <2>3
<1>6. \E m \in S : \A y \in S : m >= y
  BY <1>4, <1>5
<1>7. Max(S) \in S /\ \A y \in S : Max(S) >= y
  BY <1>6 DEF Max
<1> QED
  BY <1>7

LEMMA MinutesOfDay ==
  ASSUME NEW t \in Int
  PROVE  MinuteOfDay(t) \in Int /\ 0 <= MinuteOfDay(t) /\ MinuteOfDay(t) < Day
BY DayAssumption DEF MinuteOfDay

\* Adding is exact or gives no time, and then the day was left.
LEMMA MinutesAdded ==
  ASSUME NEW t \in Int, NEW m \in Int
  PROVE  /\ AddMinutes(t, m) = NoTime <=> MinuteOfDay(t) + m < 0 \/ MinuteOfDay(t) + m >= Day
         /\ AddMinutes(t, m) # NoTime => AddMinutes(t, m) = t + m
<1>1. MinuteOfDay(t) \in Int /\ Day \in Nat
  BY MinutesOfDay, DayAssumption
<1>2. t + m # NoTime
  BY NoTimeAssumption
<1>3. MinuteOfDay(t) + m \in 0..Day-1
        <=> ~(MinuteOfDay(t) + m < 0 \/ MinuteOfDay(t) + m >= Day)
  BY <1>1
<1> QED
  BY <1>2, <1>3 DEF AddMinutes

\* Within a span that stays in one day, later times are later in the day.
LEMMA SameDay ==
  ASSUME NEW s \in Int, NEW t \in Int, NEW a \in Int, NEW b \in Int,
         a <= s, s <= t, t <= b, a \div Day = b \div Day
  PROVE  MinuteOfDay(s) <= MinuteOfDay(t)
<1> DEFINE q == a \div Day
<1>1. Day \in Nat \ {0}
  BY DayAssumption
<1>2. \A x \in Int : /\ x \div Day \in Int /\ (x % Day) \in 0..Day-1
                     /\ x = Day * (x \div Day) + (x % Day)
  BY <1>1
<1>3. \A x, y \in Int : x <= y => x \div Day <= y \div Day
  BY <1>1
<1>4. a \div Day <= s \div Day /\ s \div Day <= t \div Day /\ t \div Day <= b \div Day
  BY <1>3
<1>5. /\ a \div Day \in Int /\ s \div Day \in Int /\ t \div Day \in Int
      /\ s = Day * (s \div Day) + (s % Day) /\ t = Day * (t \div Day) + (t % Day)
      /\ (s % Day) \in Int /\ (t % Day) \in Int
  BY <1>2
<1> DEFINE qs == s \div Day
           qt == t \div Day
           ms == s % Day
           mt == t % Day
<1>6. qs = qt
  <2>1. qs <= qt /\ qt <= b \div Day /\ a \div Day <= qs /\ qs \in Int /\ qt \in Int
    BY <1>4, <1>5
  <2> HIDE DEF qs, qt
  <2> QED
    BY <1>5, <2>1
<1>7. /\ s = Day * qs + ms /\ t = Day * qt + mt /\ ms \in Int /\ mt \in Int /\ qs \in Int
  BY <1>5
<1>8. ms <= mt
  <2> HIDE DEF qs, qt, ms, mt
  <2> QED
    BY <1>1, <1>6, <1>7
<1> QED
  BY <1>8 DEF MinuteOfDay

-----------------------------------------------------------------------------
(* The inputs *)

Timed(x) == x.start \in Origin..Horizon /\ x.end \in Origin..Horizon /\ x.start < x.end

\* What a schedule and a candidate that were built look like.
IsInput ==
  /\ cand \in Candidates /\ cs \in ConstraintSets
  /\ \A c \in blocks : Timed(c)
  /\ \A w \in free : Timed(w)

LEMMA Inputs ==
  ASSUME PlacementInputs, IsInput
  PROVE  /\ cand.earliest \in Nat /\ cand.latest \in Int
         /\ cand.duration \in Nat /\ cand.before \in Nat /\ cand.after \in Nat
         /\ Origin \in Nat /\ Horizon \in Nat
<1>1. /\ Origin \in Nat /\ Horizon \in Nat /\ Durations \subseteq Nat /\ Buffers \subseteq Nat
      /\ cand \in Candidates
  BY DEF PlacementInputs, IsInput
<1>2. /\ cand.earliest = Origin + 1 /\ cand.latest = Horizon - 2
      /\ cand.duration \in Durations /\ cand.before \in Buffers /\ cand.after \in Buffers
  BY <1>1 DEF Candidates
<1>3. cand.duration \in Nat /\ cand.before \in Nat /\ cand.after \in Nat
  BY <1>1, <1>2
<1>4. Origin + 1 \in Nat /\ Horizon - 2 \in Int
  BY <1>1
<1> QED
  BY <1>1, <1>2, <1>3, <1>4

LEMMA SetInputs ==
  ASSUME PlacementInputs, IsInput
  PROVE  /\ cs # NoSet /\ GapOf(cs) = cs.gap /\ cs.gap \in Nat
<1>1. cs # NoSet
  BY DEF PlacementInputs, IsInput
<1>2. cs.gap \in GapChoices
  BY DEF IsInput, ConstraintSets
<1> QED
  BY <1>1, <1>2 DEF GapOf, PlacementInputs

LEMMA NoWorkingHours ==
  ASSUME PlacementInputs, IsInput
  PROVE  ~cs.hours
<1>1. PICK gap \in GapChoices, b \in SUBSET FreeIds :
        cs = [id |-> "inline", gap |-> gap, hours |-> FALSE, allowed |-> {}, blocked |-> b]
  BY Zenon DEF IsInput, ConstraintSets
<1>2. cs.hours = FALSE
  BY <1>1, Zenon
<1> QED
  BY <1>2, Zenon

-----------------------------------------------------------------------------
(* The walk through a window *)

\* The cursor is past all that was walked over, and where it is put.
LEMMA CursorIs ==
  ASSUME PlacementInputs, IsInput, NEW w, Timed(w), NEW passed \in SUBSET blocks
  PROVE  LET at == CursorAfter(passed, cand, w, cs) IN
         /\ at \in Int /\ w.start <= at /\ cand.earliest <= at
         /\ \A c \in passed : PaddedEnd(c, cs) # NoTime => PaddedEnd(c, cs) <= at
         /\ \/ at = w.start \/ at = cand.earliest
            \/ \E c \in passed : PaddedEnd(c, cs) # NoTime /\ at = PaddedEnd(c, cs)
<1> DEFINE from == Later(w.start, cand.earliest)
           ends == {PaddedEnd(c, cs) : c \in passed} \ {NoTime}
           S == {from} \union ends
<1>1. /\ cand.earliest \in Int /\ w.start \in Int
      /\ cs.gap \in Nat /\ GapOf(cs) = cs.gap /\ Horizon \in Nat
  BY Inputs, SetInputs DEF Timed
<1>2. from \in Int /\ w.start <= from /\ cand.earliest <= from
      /\ (from = w.start \/ from = cand.earliest)
  BY <1>1 DEF Later
<1>3. \A c \in passed : PaddedEnd(c, cs) # NoTime
        => PaddedEnd(c, cs) \in Int /\ PaddedEnd(c, cs) <= Horizon + cs.gap
  <2> SUFFICES ASSUME NEW c \in passed, PaddedEnd(c, cs) # NoTime
               PROVE  PaddedEnd(c, cs) \in Int /\ PaddedEnd(c, cs) <= Horizon + cs.gap
    OBVIOUS
  <2>1. c.end \in Origin..Horizon
    BY DEF IsInput, Timed
  <2>2. PaddedEnd(c, cs) = c.end + cs.gap
    BY <1>1, <2>1, MinutesAdded DEF PaddedEnd
  <2> QED
    BY <1>1, <2>1, <2>2
<1> DEFINE h == Later(from, Horizon + cs.gap)
<1>4. h \in Int /\ from <= h /\ Horizon + cs.gap <= h
  BY <1>1, <1>2 DEF Later
<1>5. \A e \in ends : e \in Int /\ e <= h
  <2> HIDE DEF h, from
  <2>1. ASSUME NEW e \in ends PROVE e \in Int /\ e <= h
    <3>1. PICK c \in passed : e = PaddedEnd(c, cs) /\ e # NoTime
      BY <2>1
    <3> QED
      BY <1>1, <1>3, <1>4, <3>1
  <2> QED
    BY <2>1
<1> HIDE DEF h, from
<1>6. S \in SUBSET Int /\ from \in S /\ \A y \in S : y <= h
  <2> HIDE DEF ends
  <2> QED BY <1>2, <1>4, <1>5
<1>7. Max(S) \in S /\ \A y \in S : y <= Max(S)
  <2> HIDE DEF S
  <2> QED BY <1>4, <1>6, MaxFacts
<1> DEFINE at == CursorAfter(passed, cand, w, cs)
<1>8. at = Max(S)
  BY DEF CursorAfter, from
<1> HIDE DEF at
<1>9. at \in Int /\ w.start <= at /\ cand.earliest <= at
  <2>1. at \in Int /\ from <= at
    <3> HIDE DEF S
    <3> QED BY <1>6, <1>7, <1>8
  <2> QED
    BY <1>1, <1>2, <2>1
<1>10. \A c \in passed : PaddedEnd(c, cs) # NoTime => PaddedEnd(c, cs) <= at
  BY <1>7, <1>8
<1>11. \/ at = w.start \/ at = cand.earliest
       \/ \E c \in passed : PaddedEnd(c, cs) # NoTime /\ at = PaddedEnd(c, cs)
  <2>1. at = from \/ at \in ends
    BY <1>7, <1>8
  <2>2. CASE at = from
    BY <1>2, <2>2
  <2>3. CASE at \in ends
    BY <2>3
  <2> QED
    BY <2>1, <2>2, <2>3
<1> QED
  BY <1>9, <1>10, <1>11 DEF at

\* A gap of a window ends with it, or where a commitment starts.
LEMMA GapInWindow ==
  ASSUME PlacementInputs, IsInput, NEW w, Timed(w),
         NEW C \in SUBSET blocks, NEW g \in GapsOf(w, cand, C, cs)
  PROVE  /\ g.start \in Int /\ g.end \in Int
         /\ w.start <= g.start /\ cand.earliest <= g.start /\ g.end <= w.end
<1> DEFINE inside == InWindow(C, w)
           Before(c) == [start |-> CursorAfter({d \in inside : d.start < c.start}, cand, w, cs),
                         end |-> PaddedStart(c, cs), basis |-> w.id]
           LastGap == [start |-> CursorAfter(inside, cand, w, cs), end |-> w.end, basis |-> w.id]
<1>1. g \in {Before(c) : c \in {d \in inside : PaddedStart(d, cs) # NoTime}} \/ g = LastGap
  BY DEF GapsOf
<1>2. inside \subseteq C /\ \A c \in inside : c.start < w.end
  BY DEF InWindow, Overlap
<1>3. w.end \in Int
  BY Inputs DEF Timed
<1>4. CASE g = LastGap
  <2>1. g.start = CursorAfter(inside, cand, w, cs) /\ g.end = w.end
    BY <1>4
  <2> HIDE DEF inside
  <2> QED
    BY <1>2, <1>3, <2>1, CursorIs
<1>5. CASE g \in {Before(c) : c \in {d \in inside : PaddedStart(d, cs) # NoTime}}
  <2>1. PICK c \in inside : PaddedStart(c, cs) # NoTime /\ g = Before(c)
    BY <1>5
  <2> DEFINE passed == {d \in inside : d.start < c.start}
  <2>2. g.start = CursorAfter(passed, cand, w, cs) /\ g.end = PaddedStart(c, cs)
    BY <2>1
  <2>3. passed \in SUBSET blocks
    BY <1>2
  <2>4. c.start \in Int /\ c.start < w.end /\ cs.gap \in Nat /\ GapOf(cs) = cs.gap
    BY <1>2, SetInputs, Inputs DEF IsInput, Timed
  <2>5. PaddedStart(c, cs) = c.start - cs.gap
    BY <2>1, <2>4, MinutesAdded DEF PaddedStart
  <2> HIDE DEF inside, passed
  <2> QED
    BY <1>3, <2>2, <2>3, <2>4, <2>5, CursorIs
<1> QED
  BY <1>1, <1>4, <1>5

-----------------------------------------------------------------------------
(* What is found *)

CandidateSpan == [start |-> cand.earliest, end |-> cand.latest]
Near == InWindow(blocks, CandidateSpan)
Open == InWindow(free, CandidateSpan)

LEMMA OpenWindows ==
  ASSUME IsInput, NEW w \in OfferedWindows
  PROVE  w \in free /\ Timed(w)
BY DEF IsInput, OfferedWindows, AllowedWindows, InWindow

LEMMA NearAreTimed ==
  ASSUME IsInput
  PROVE  Near \in SUBSET blocks /\ \A c \in Near : Timed(c)
BY DEF IsInput, Near, InWindow

LEMMA FoundIs ==
  ASSUME PlacementInputs, IsInput
  PROVE  Found = {Block(g, cand) :
                    g \in {h \in UNION {GapsOf(w, cand, Near, cs) : w \in OfferedWindows} :
                             Fits(h, cand, Near, Open, cs)}}
<1>1. Found = GenerateProposals(cand, Near, Open, cs)
      /\ OfferedWindows = AllowedWindows(Open, cs)
  BY DEF Found, OfferedWindows, Near, Open, CandidateSpan
<1>2. CASE Open # {}
  <2>1. Gaps(cand, Near, Open, cs) =
          UNION {GapsOf(w, cand, Near, cs) : w \in AllowedWindows(Open, cs)}
    BY <1>2, Zenon DEF Gaps
  <2> QED
    BY <1>1, <2>1, Zenon DEF GenerateProposals
<1>3. CASE Open = {}
  <2>1. cs # NoSet /\ ~cs.hours
    BY SetInputs, NoWorkingHours, Zenon
  <2>2. Gaps(cand, Near, Open, cs) = {}
    BY <1>3, <2>1, Zenon DEF Gaps
  <2>3. OfferedWindows = {}
    BY <1>1, <1>3 DEF AllowedWindows
  <2>4. UNION {GapsOf(w, cand, Near, cs) : w \in OfferedWindows} = {}
    BY <2>3
  <2>5. Found = {Block(g, cand) : g \in {h \in {} : Fits(h, cand, Near, Open, cs)}}
    BY <1>1, <2>2, Zenon DEF GenerateProposals
  <2> QED
    BY <2>4, <2>5, Zenon
<1> QED
  BY <1>2, <1>3

\* Where a block is proposed in a gap.
LEMMA ProposedIs ==
  ASSUME PlacementInputs, IsInput, NEW g, g.start \in Int, g.end \in Int,
         cand.earliest <= g.start
  PROVE  LET long == cand.before + cand.duration + cand.after IN
         /\ ProposedStart(g, cand) = g.start
         /\ ProposedEnd(g, cand) # NoTime => ProposedEnd(g, cand) = g.start + long
         /\ MinuteOfDay(g.start) + long < Day => ProposedEnd(g, cand) # NoTime
         /\ Block(g, cand).start = g.start + cand.before
         /\ Block(g, cand).end = g.start + cand.before + cand.duration
<1>1. /\ cand.earliest \in Int /\ cand.duration \in Nat /\ cand.before \in Nat
      /\ cand.after \in Nat
  BY Inputs
<1>2. ProposedStart(g, cand) = g.start
  BY <1>1 DEF ProposedStart, Later
<1> DEFINE long == cand.before + cand.duration + cand.after
<1>3. long \in Nat /\ MinuteOfDay(g.start) \in Int /\ 0 <= MinuteOfDay(g.start) /\ Day \in Nat
  BY <1>1, MinutesOfDay, DayAssumption
<1>4. ProposedEnd(g, cand) = AddMinutes(g.start, long)
  BY <1>2 DEF ProposedEnd
<1> HIDE DEF long
<1>5. /\ ProposedEnd(g, cand) # NoTime => ProposedEnd(g, cand) = g.start + long
      /\ MinuteOfDay(g.start) + long < Day => ProposedEnd(g, cand) # NoTime
  BY <1>3, <1>4, MinutesAdded
<1>6. /\ Block(g, cand).start = g.start + cand.before
      /\ Block(g, cand).end = g.start + cand.before + cand.duration
  BY <1>2 DEF Block
<1> QED
  BY <1>2, <1>5, <1>6 DEF long

\* A commitment that can be padded blocks what does not keep the gap from it.
LEMMA KeptApart ==
  ASSUME PlacementInputs, IsInput, NEW c, Timed(c), NEW s \in Int, NEW x,
         x.start = WithBuffers(s).start, x.end = WithBuffers(s).end,
         ~Blocks(c, x, cs), ~NotPadded(c)
  PROVE  KeepsGap(s, c)
<1>1. /\ c.start \in Int /\ c.end \in Int /\ cs.gap \in Nat /\ GapOf(cs) = cs.gap
  BY Inputs, SetInputs DEF Timed
<1>2. /\ MinuteOfDay(c.start) \in Int /\ MinuteOfDay(c.start) < Day
      /\ MinuteOfDay(c.end) \in Int /\ 0 <= MinuteOfDay(c.end) /\ Day \in Nat
  BY <1>1, MinutesOfDay, DayAssumption
<1>3. MinuteOfDay(c.start) >= cs.gap /\ MinuteOfDay(c.end) + cs.gap < Day
  BY <1>1, <1>2 DEF NotPadded
<1>4. PaddedStart(c, cs) # NoTime /\ PaddedStart(c, cs) = c.start - cs.gap
  <2>1. -cs.gap \in Int /\ ~(MinuteOfDay(c.start) + (-cs.gap) < 0)
        /\ ~(MinuteOfDay(c.start) + (-cs.gap) >= Day) /\ c.start + (-cs.gap) = c.start - cs.gap
    BY <1>1, <1>2, <1>3
  <2> QED
    BY <1>1, <2>1, MinutesAdded DEF PaddedStart
<1>5. PaddedEnd(c, cs) # NoTime /\ PaddedEnd(c, cs) = c.end + cs.gap
  <2>1. ~(MinuteOfDay(c.end) + cs.gap < 0) /\ ~(MinuteOfDay(c.end) + cs.gap >= Day)
    BY <1>1, <1>2, <1>3
  <2> QED
    BY <1>1, <2>1, MinutesAdded DEF PaddedEnd
<1>6. ~(x.start < c.end + cs.gap /\ c.start - cs.gap < x.end)
  BY <1>4, <1>5 DEF Blocks, Overlap
<1>7. x.start \in Int /\ x.end \in Int
  BY Inputs DEF WithBuffers
<1> QED
  BY <1>1, <1>6, <1>7 DEF KeepsGap

LEMMA Soundness ==
  ASSUME PlacementInputs, IsInput
  PROVE  OffersAreSound
<1> SUFFICES ASSUME NEW p \in Found
             PROVE  /\ p.end - p.start = cand.duration
                    /\ WithBuffers(p.start).start >= cand.earliest
                    /\ WithBuffers(p.start).end <= cand.latest
                    /\ \E w \in OfferedWindows :
                         w.start <= WithBuffers(p.start).start /\ WithBuffers(p.start).end <= w.end
                    /\ \A c \in Near : NotPadded(c) \/ KeepsGap(p.start, c)
  BY DEF OffersAreSound, Near, CandidateSpan
<1>1. PICK w \in OfferedWindows :
        \E g \in GapsOf(w, cand, Near, cs) : p = Block(g, cand) /\ Fits(g, cand, Near, Open, cs)
  BY FoundIs
<1>2. PICK g \in GapsOf(w, cand, Near, cs) :
       p = Block(g, cand) /\ Fits(g, cand, Near, Open, cs)
  BY <1>1
<1>3. Timed(w) /\ Near \in SUBSET blocks /\ \A c \in Near : Timed(c)
  BY OpenWindows, NearAreTimed
<1>4. /\ g.start \in Int /\ g.end \in Int
      /\ w.start <= g.start /\ cand.earliest <= g.start /\ g.end <= w.end
  BY <1>3, GapInWindow
<1>5. /\ cand.earliest \in Int /\ cand.latest \in Int /\ cand.duration \in Nat
      /\ cand.before \in Nat /\ cand.after \in Nat /\ w.start \in Int /\ w.end \in Int
  BY <1>3, Inputs DEF Timed
<1>6. ProposedEnd(g, cand) # NoTime /\ ~TooSmall(g, cand)
      /\ \A c \in Near : ~Blocks(c, Padded(g, cand), cs)
  BY <1>2 DEF Fits
<1> DEFINE long == cand.before + cand.duration + cand.after
<1>7. /\ ProposedStart(g, cand) = g.start /\ ProposedEnd(g, cand) = g.start + long
      /\ p.start = g.start + cand.before /\ p.end = g.start + cand.before + cand.duration
  BY <1>2, <1>4, <1>6, ProposedIs
<1>8. /\ WithBuffers(p.start).start = g.start /\ WithBuffers(p.start).end = g.start + long
  BY <1>4, <1>5, <1>7 DEF WithBuffers
<1>9. g.start + long <= g.end /\ g.start + long <= cand.latest
  BY <1>4, <1>5, <1>6, <1>7 DEF TooSmall
<1>10. ASSUME NEW c \in Near, ~NotPadded(c) PROVE KeepsGap(p.start, c)
  <2> DEFINE x == Padded(g, cand)
  <2>1. x.start = g.start /\ x.end = g.start + long
    BY <1>7 DEF Padded
  <2>2. ~Blocks(c, x, cs) /\ p.start \in Int
    BY <1>4, <1>5, <1>6, <1>7
  <2> HIDE DEF x
  <2> QED
    BY <1>3, <1>8, <1>10, <2>1, <2>2, KeptApart
<1> QED
  BY <1>4, <1>5, <1>7, <1>8, <1>9, <1>10

-----------------------------------------------------------------------------
(* What is not missed *)

\* Without a gap to keep, commitments stand where they are.
LEMMA NoPadding ==
  ASSUME PlacementInputs, IsInput, cs.gap = 0, NEW c, Timed(c)
  PROVE  PaddedStart(c, cs) = c.start /\ PaddedEnd(c, cs) = c.end
         /\ PaddedStart(c, cs) # NoTime /\ PaddedEnd(c, cs) # NoTime
<1>1. /\ c.start \in Int /\ c.end \in Int /\ GapOf(cs) = cs.gap /\ cs.gap \in Nat
  BY Inputs, SetInputs DEF Timed
<1>2. /\ MinuteOfDay(c.start) \in Int /\ MinuteOfDay(c.start) < Day
      /\ 0 <= MinuteOfDay(c.start)
      /\ MinuteOfDay(c.end) \in Int /\ 0 <= MinuteOfDay(c.end)
      /\ MinuteOfDay(c.end) < Day /\ Day \in Nat
  BY <1>1, MinutesOfDay, DayAssumption
<1>3. PaddedStart(c, cs) # NoTime /\ PaddedStart(c, cs) = c.start
  <2>1. /\ -cs.gap \in Int /\ c.start + (-cs.gap) = c.start
        /\ ~(MinuteOfDay(c.start) + (-cs.gap) < 0)
        /\ ~(MinuteOfDay(c.start) + (-cs.gap) >= Day)
    BY <1>1, <1>2
  <2> QED
    BY <1>1, <2>1, MinutesAdded DEF PaddedStart
<1>4. PaddedEnd(c, cs) # NoTime /\ PaddedEnd(c, cs) = c.end
  <2>1. /\ c.end + cs.gap = c.end
        /\ ~(MinuteOfDay(c.end) + cs.gap < 0) /\ ~(MinuteOfDay(c.end) + cs.gap >= Day)
    BY <1>1, <1>2
  <2> QED
    BY <1>1, <2>1, MinutesAdded DEF PaddedEnd
<1> QED
  BY <1>3, <1>4

\* A gap that starts no later than a feasible place and ends no earlier, and
\* that no commitment is in, has an offer.
LEMMA GapIsOffered ==
  ASSUME PlacementInputs, IsInput, cs.gap = 0, WindowsInOneDay, cand.duration > 0,
         NEW s \in Nat, Feasible(s),
         NEW w \in OfferedWindows,
         w.start <= WithBuffers(s).start, WithBuffers(s).end <= w.end,
         NEW g \in GapsOf(w, cand, Near, cs),
         g.start <= WithBuffers(s).start, WithBuffers(s).end <= g.end,
         \A c \in Near : Overlap(c, w) => c.end <= g.start \/ g.end <= c.start
  PROVE  \E p \in Found : p.start <= s
<1> DEFINE a == s - cand.before
           long == cand.before + cand.duration + cand.after
<1>1. Timed(w) /\ w \in free /\ Near \in SUBSET blocks /\ \A c \in Near : Timed(c)
  BY OpenWindows, NearAreTimed
<1>2. /\ g.start \in Int /\ g.end \in Int
      /\ w.start <= g.start /\ cand.earliest <= g.start /\ g.end <= w.end
  BY <1>1, GapInWindow
<1>3. /\ cand.earliest \in Int /\ cand.latest \in Int /\ cand.duration \in Nat
      /\ cand.before \in Nat /\ cand.after \in Nat /\ w.start \in Int /\ w.end \in Int
      /\ Day \in Nat /\ w.start < w.end
  BY <1>1, Inputs, DayAssumption DEF Timed
<1>4. /\ a \in Int /\ long \in Nat /\ long > 0 /\ a + long \in Int
      /\ WithBuffers(s).start = a /\ WithBuffers(s).end = a + long
  BY <1>3 DEF WithBuffers
<1>5. g.start <= a /\ a + long <= g.end /\ a + long <= w.end /\ a + long <= cand.latest
  BY <1>4 DEF Feasible
<1>6. MinuteOfDay(a) + long < Day
  <2>1. InOneDay(WithBuffers(s)) /\ (a + long) - a = long
    BY <1>4 DEF Feasible
  <2> HIDE DEF long, a
  <2> QED
    BY <1>4, <2>1 DEF InOneDay
<1>7. MinuteOfDay(g.start) <= MinuteOfDay(a)
  <2>1. w.start \div Day = (w.end - 1) \div Day
    BY <1>1, <1>3 DEF WindowsInOneDay
  <2>2. a <= w.end - 1 /\ w.end - 1 \in Int
    BY <1>3, <1>4, <1>5
  <2> HIDE DEF a, long
  <2> QED
    BY <1>2, <1>3, <1>4, <1>5, <2>1, <2>2, SameDay
<1>8. MinuteOfDay(g.start) + long < Day
  <2>1. MinuteOfDay(g.start) \in Int /\ MinuteOfDay(a) \in Int
    BY <1>2, <1>4, MinutesOfDay
  <2> HIDE DEF a, long
  <2> QED
    BY <1>3, <1>4, <1>6, <1>7, <2>1
<1>9. /\ ProposedStart(g, cand) = g.start /\ ProposedEnd(g, cand) = g.start + long
      /\ ProposedEnd(g, cand) # NoTime
      /\ Block(g, cand).start = g.start + cand.before
      /\ Block(g, cand).end = g.start + cand.before + cand.duration
  BY <1>2, <1>8, ProposedIs
<1>10. ~TooSmall(g, cand)
  BY <1>2, <1>3, <1>4, <1>5, <1>9 DEF TooSmall
<1>11. ContainedByAnyWindow(Block(g, cand), Open, cs)
  <2>1. w \in AllowedWindows(Open, cs)
    BY DEF OfferedWindows, Open, CandidateSpan
  <2>2. w.start <= Block(g, cand).start /\ Block(g, cand).end <= w.end
    BY <1>2, <1>3, <1>4, <1>5, <1>9
  <2> QED
    BY <2>1, <2>2 DEF ContainedByAnyWindow
<1>12. ASSUME NEW c \in Near PROVE ~Blocks(c, Padded(g, cand), cs)
  <2> DEFINE x == Padded(g, cand)
  <2>1. x.start = g.start /\ x.end = g.start + long
    BY <1>9 DEF Padded
  <2>2. PaddedStart(c, cs) = c.start /\ PaddedEnd(c, cs) = c.end
    BY <1>1, NoPadding
  <2>3. c.start \in Int /\ c.end \in Int
    BY <1>1, Inputs DEF Timed
  <2>4. c.end <= g.start \/ g.start + long <= c.start
    <3>1. CASE Overlap(c, w)
      BY <1>2, <1>4, <1>5, <2>3, <3>1
    <3>2. CASE ~Overlap(c, w)
      <4>1. ~(c.start < w.end) \/ ~(w.start < c.end)
        BY <3>2 DEF Overlap
      <4> QED
        BY <1>2, <1>3, <1>4, <1>5, <2>3, <4>1
    <3> QED
      BY <3>1, <3>2
  <2>5. g.start + long \in Int
    BY <1>2, <1>4
  <2>6. ~Blocks(c, x, cs)
    <3> HIDE DEF x, long
    <3> QED
      BY <1>2, <2>1, <2>2, <2>3, <2>4, <2>5 DEF Blocks, Overlap
  <2> QED
    BY <2>6
<1>13. Fits(g, cand, Near, Open, cs)
  BY <1>9, <1>10, <1>11, <1>12 DEF Fits
<1>14. Block(g, cand) \in Found
  BY <1>13, FoundIs
<1>15. Block(g, cand).start <= s
  BY <1>2, <1>3, <1>4, <1>5, <1>9
<1> QED
  BY <1>14, <1>15

LEMMA Completeness ==
  ASSUME PlacementInputs, IsInput
  PROVE  EarliestIsOffered
<1> SUFFICES ASSUME cand.duration > 0, cs.gap = 0, WindowsInOneDay,
                    NEW s \in cand.earliest..cand.latest, Feasible(s)
             PROVE  \E p \in Found : p.start <= s
  BY DEF EarliestIsOffered
<1> DEFINE a == WithBuffers(s).start
           b == WithBuffers(s).end
<1>1. PICK w \in OfferedWindows : w.start <= a /\ b <= w.end
  BY DEF Feasible
<1>2. Timed(w) /\ Near \in SUBSET blocks /\ \A c \in Near : Timed(c)
  BY OpenWindows, NearAreTimed
<1>3. /\ s \in Nat /\ a \in Int /\ b \in Int /\ a < b /\ cand.earliest <= a
  <2>1. s \in Nat
    BY Inputs
  <2>2. a = s - cand.before /\ b = s + cand.duration + cand.after
    BY DEF WithBuffers
  <2>3. cand.earliest <= a
    BY DEF Feasible
  <2> QED
    BY <2>1, <2>2, <2>3, Inputs
<1>4. \A c \in Near : /\ c.start \in Int /\ c.end \in Int /\ c.start < c.end
                      /\ b <= c.start \/ c.end <= a
                      /\ PaddedStart(c, cs) = c.start /\ PaddedEnd(c, cs) = c.end
                      /\ PaddedStart(c, cs) # NoTime /\ PaddedEnd(c, cs) # NoTime
  <2> SUFFICES ASSUME NEW c \in Near
               PROVE  /\ c.start \in Int /\ c.end \in Int /\ c.start < c.end
                      /\ b <= c.start \/ c.end <= a
                      /\ PaddedStart(c, cs) = c.start /\ PaddedEnd(c, cs) = c.end
                      /\ PaddedStart(c, cs) # NoTime /\ PaddedEnd(c, cs) # NoTime
    OBVIOUS
  <2>1. c.start \in Int /\ c.end \in Int /\ c.start < c.end
    BY <1>2, Inputs DEF Timed
  <2>2. b <= c.start \/ c.end <= a
    <3>1. KeepsGap(s, c)
      BY <1>2 DEF Feasible
    <3>2. b + 0 = b /\ c.end + 0 = c.end
      BY <1>3, <2>1
    <3> HIDE DEF a, b
    <3> QED
      BY <3>1, <3>2 DEF KeepsGap, a, b
  <2> QED
    BY <1>2, <2>1, <2>2, NoPadding
<1> DEFINE inside == InWindow(Near, w)
           after == {c \in inside : b <= c.start}
<1>5. inside \subseteq Near /\ \A c \in Near : Overlap(c, w) => c \in inside
  BY DEF InWindow
<1>6. w.start \in Int /\ w.end \in Int
  BY <1>2, Inputs DEF Timed
<1> HIDE DEF a, b, inside
<1>7. CASE after = {}
  <2> DEFINE g == [start |-> CursorAfter(inside, cand, w, cs), end |-> w.end, basis |-> w.id]
  <2>1. \A c \in inside : c.end <= a
    BY <1>4, <1>5, <1>7
  <2>2. /\ g.start \in Int /\ g.start <= a
        /\ \A c \in inside : c.end <= g.start
    <3>1. /\ CursorAfter(inside, cand, w, cs) \in Int
          /\ \A c \in inside : PaddedEnd(c, cs) # NoTime
                               => PaddedEnd(c, cs) <= CursorAfter(inside, cand, w, cs)
          /\ \/ CursorAfter(inside, cand, w, cs) = w.start
             \/ CursorAfter(inside, cand, w, cs) = cand.earliest
             \/ \E c \in inside : PaddedEnd(c, cs) # NoTime
                                  /\ CursorAfter(inside, cand, w, cs) = PaddedEnd(c, cs)
      BY <1>2, <1>5, CursorIs
    <3> QED
      BY <1>1, <1>3, <1>4, <1>5, <2>1, <3>1
  <2>3. g.end = w.end
    OBVIOUS
  <2>4. g \in GapsOf(w, cand, Near, cs)
    <3>1. g.start < g.end
      BY <1>1, <1>3, <1>6, <2>2, <2>3
    <3> QED
      BY <3>1 DEF GapsOf, inside
  <2> HIDE DEF g
  <2>5. \A c \in Near : Overlap(c, w) => c.end <= g.start \/ g.end <= c.start
    BY <1>5, <2>2
  <2> QED
    BY <1>1, <1>3, <2>2, <2>3, <2>4, <2>5, GapIsOffered DEF a, b
<1>8. CASE after # {}
  <2>1. PICK c0 \in after : \A c \in after : c0.start <= c.start
    <3> DEFINE T == {n \in Nat : \E c \in after : c.start = n}
    <3>1. \A c \in after : c.start \in Nat
      BY <1>2, <1>5, Inputs DEF Timed
    <3>2. T \in SUBSET Nat /\ T # {}
      BY <1>8, <3>1
    <3>3. PICK n \in T : \A i \in T : ~(<<i, n>> \in OpToRel(<, Nat))
      BY <3>2, NatLessThanWellFounded, WFMin
    <3>4. \A c \in after : ~(c.start < n)
      BY <3>1, <3>3 DEF OpToRel
    <3>5. PICK c0 \in after : c0.start = n
      BY <3>3
    <3>6. n \in Nat
      BY <3>3
    <3> QED
      BY <3>1, <3>4, <3>5, <3>6
  <2> DEFINE passed == {d \in inside : d.start < c0.start}
             g == [start |-> CursorAfter(passed, cand, w, cs), end |-> PaddedStart(c0, cs),
                   basis |-> w.id]
  <2>2. /\ c0 \in inside /\ c0 \in Near /\ b <= c0.start /\ c0.start \in Int
        /\ PaddedStart(c0, cs) = c0.start /\ PaddedStart(c0, cs) # NoTime
    BY <1>4, <1>5
  <2>3. \A c \in passed : c.end <= a /\ c \in Near
    <3> SUFFICES ASSUME NEW c \in passed PROVE c.end <= a /\ c \in Near
      OBVIOUS
    <3>1. c \in inside /\ c \in Near /\ c.start < c0.start /\ c.start \in Int
      BY <1>4, <1>5
    <3>2. ~(b <= c.start)
      BY <2>1, <2>2, <3>1
    <3> QED
      BY <1>4, <3>1, <3>2
  <2>4. /\ g.start \in Int /\ g.start <= a
        /\ \A c \in passed : c.end <= g.start
    <3>1. passed \in SUBSET blocks
      BY <1>2, <2>3
    <3>2. /\ CursorAfter(passed, cand, w, cs) \in Int
          /\ \A c \in passed : PaddedEnd(c, cs) # NoTime
                               => PaddedEnd(c, cs) <= CursorAfter(passed, cand, w, cs)
          /\ \/ CursorAfter(passed, cand, w, cs) = w.start
             \/ CursorAfter(passed, cand, w, cs) = cand.earliest
             \/ \E c \in passed : PaddedEnd(c, cs) # NoTime
                                  /\ CursorAfter(passed, cand, w, cs) = PaddedEnd(c, cs)
      <4> HIDE DEF passed
      <4> QED BY <1>2, <3>1, CursorIs
    <3> HIDE DEF passed
    <3> QED
      BY <1>1, <1>3, <1>4, <2>3, <3>2
  <2>5. g.end = c0.start
    BY <2>2
  <2>6. g \in GapsOf(w, cand, Near, cs)
    <3>1. g.start < g.end
      <4> HIDE DEF g
      <4> QED BY <1>3, <2>2, <2>4, <2>5
    <3> QED
      BY <2>2, <3>1 DEF GapsOf, inside
  <2>7. \A c \in Near : Overlap(c, w) => c.end <= g.start \/ g.end <= c.start
    <3> SUFFICES ASSUME NEW c \in Near, Overlap(c, w)
                 PROVE  c.end <= g.start \/ g.end <= c.start
      OBVIOUS
    <3>1. c \in inside /\ c.start \in Int
      BY <1>4, <1>5
    <3>2. CASE c.start < c0.start
      <4> HIDE DEF g
      <4> QED BY <2>4, <3>1, <3>2
    <3>3. CASE ~(c.start < c0.start)
      <4> HIDE DEF g
      <4> QED BY <2>2, <2>5, <3>1, <3>3
    <3> QED
      BY <3>2, <3>3
  <2> HIDE DEF g
  <2>8. g.start <= a /\ b <= g.end
    BY <2>2, <2>4, <2>5
  <2> QED
    BY <1>1, <1>3, <2>6, <2>7, <2>8, GapIsOffered DEF a, b
<1> QED
  BY <1>7, <1>8

-----------------------------------------------------------------------------
(* Every schedule that is built is an input of this kind *)

LEMMA InitIsInput == ASSUME PlacementInit PROVE IsInput
BY DEF PlacementInit, IsInput

LEMMA NextIsInput == ASSUME IsInput, [PlacementNext]_placementVars PROVE IsInput'
<1>1. ASSUME NEW t \in Spans
      PROVE  Timed([id |-> Cardinality(blocks) + 1, start |-> t.start, end |-> t.end])
  BY DEF Spans, Timed
<1>2. ASSUME NEW t \in Spans, NEW i PROVE Timed([id |-> i, start |-> t.start, end |-> t.end])
  BY DEF Spans, Timed
<1>3. ASSUME NEW t \in Spans, AddBlock(t) PROVE IsInput'
  <2>1. /\ blocks' = blocks \union
             {[id |-> Cardinality(blocks) + 1, start |-> t.start, end |-> t.end]}
        /\ UNCHANGED <<cand, cs, free>>
    BY <1>3 DEF AddBlock
  <2> QED
    BY <1>1, <2>1 DEF IsInput, Timed
<1>4. ASSUME NEW t \in Spans, NEW i \in FreeIds, AddFree(i, t) PROVE IsInput'
  <2>1. /\ free' = free \union {[id |-> i, start |-> t.start, end |-> t.end]}
        /\ UNCHANGED <<cand, cs, blocks>>
    BY <1>4 DEF AddFree
  <2> QED
    BY <1>2, <2>1 DEF IsInput, Timed
<1>5. ASSUME UNCHANGED placementVars PROVE IsInput'
  BY <1>5 DEF placementVars, IsInput, Timed
<1> QED
  BY <1>3, <1>4, <1>5 DEF PlacementNext

\* Whatever commitments and windows there are, every block offered is in an
\* allowed window and clear of the commitments, and, where no gap is asked for,
\* the first one starts as early as any place there is.
THEOREM PlacementTheorem ==
  ASSUME PlacementInputs
  PROVE  PlacementSpec => []PlacementIsRight
<1>1. PlacementInit => IsInput
  BY InitIsInput
<1>2. IsInput /\ [PlacementNext]_placementVars => IsInput'
  BY NextIsInput
<1>3. IsInput => PlacementIsRight
  BY Soundness, Completeness DEF PlacementIsRight
<1> QED
  BY <1>1, <1>2, <1>3, PTL DEF PlacementSpec

-----------------------------------------------------------------------------
(* What is offered for a candidate *)

\* As Artifact, for a given record.
ArtifactOf(i, r) ==
  LET placed == Generated(i, r) # {}
      block == IF placed THEN CHOOSE p \in Generated(i, r) : TRUE
               ELSE [start |-> NoTime, end |-> NoTime]
      blocked == r.status # "Candidate" \/ r.duration <= 0 \/ ~placed
  IN [id |-> <<i, block.start>>, start |-> block.start, end |-> block.end,
      status |-> IF blocked THEN "Rejected"
                 ELSE IF DerivedConflicts(TaskCandidate(i, r), {}, {}, InternalSet) # {}
                 THEN "ConflictDetected" ELSE "Proposed"]

LEMMA ArtifactIs ==
  ASSUME NEW i
  PROVE  Artifact(i) = ArtifactOf(i, candidateRecords[i])
BY DEF Artifact, ArtifactOf

LEMMA PairFacts ==
  ASSUME NEW x \in Int, NEW y \in Int
  PROVE  /\ Min({x, y}) = IF x <= y THEN x ELSE y
         /\ Max({x, y}) = IF x <= y THEN y ELSE x
<1>1. \E m \in {x, y} : \A z \in {x, y} : m <= z
  OBVIOUS
<1>2. Min({x, y}) \in {x, y} /\ \A z \in {x, y} : Min({x, y}) <= z
  BY <1>1 DEF Min
<1>3. \E m \in {x, y} : \A z \in {x, y} : m >= z
  OBVIOUS
<1>4. Max({x, y}) \in {x, y} /\ \A z \in {x, y} : Max({x, y}) >= z
  BY <1>3 DEF Max
<1> QED
  BY <1>2, <1>4

\* The end of a span is in its month, before the 29th.
LEMMA DaysAdded ==
  ASSUME NEW day \in 1..31, NEW n \in 0..6
  PROVE  AddDays(day, n) \in 1..28 /\ (day <= 28 => day <= AddDays(day, n))
<1> DEFINE m == Min({28, day + n})
<1>1. 28 \in Int /\ 1 \in Int /\ day + n \in Int
  OBVIOUS
<1>2. m = IF 28 <= day + n THEN 28 ELSE day + n
  BY <1>1, PairFacts
<1>3. AddDays(day, n) = Max({1, m})
  BY DEF AddDays
<1> HIDE DEF m
<1>4. m \in 1..28 /\ m \in Int /\ (day <= 28 => day <= m)
  BY <1>2
<1>5. Max({1, m}) = IF 1 <= m THEN m ELSE 1
  BY <1>1, <1>4, PairFacts
<1> QED
  BY <1>3, <1>4, <1>5

LEMMA InternalSetIs ==
  ASSUME CommandInputs
  PROVE  /\ InternalSet # NoSet /\ InternalSet.hours
         /\ HoursOnly(InternalSet) /\ ~(InternalSet # NoSet /\ ~InternalSet.hours)
<1>1. InternalSet # NoSet
  BY DEF CommandInputs
<1>2. InternalSet.hours = TRUE
  BY Zenon DEF InternalSet
<1>3. InternalSet.hours
  BY <1>2, Zenon
<1> QED
  BY <1>1, <1>3, Zenon DEF HoursOnly

\* The one gap of a candidate's span.
Gap(c) == [start |-> c.earliest, end |-> c.latest, basis |-> "working_hours_only"]

LEMMA GapIs ==
  ASSUME CommandInputs, NEW c
  PROVE  Gaps(c, {}, {}, InternalSet) = {Gap(c)}
<1>1. Gaps(c, {}, {}, InternalSet) =
        IF InternalSet # NoSet /\ ~InternalSet.hours THEN {} ELSE {Gap(c)}
  BY Zenon DEF Gaps, Gap
<1> QED
  BY <1>1, InternalSetIs, Zenon

LEMMA HoursDecide ==
  ASSUME CommandInputs, NEW x
  PROVE  ContainedByAnyWindow(x, {}, InternalSet)
           <=> MinuteOfDay(x.start) >= WorkStart /\ MinuteOfDay(x.end) <= WorkEnd
<1>1. AllowedWindows({}, InternalSet) = {}
  BY DEF AllowedWindows
<1> QED
  BY <1>1, InternalSetIs, Zenon DEF ContainedByAnyWindow

\* The gap is offered if it fits, and then nothing is held against it.
LEMMA OfferIs ==
  ASSUME CommandInputs, NEW c
  PROVE  /\ Fits(Gap(c), c, {}, {}, InternalSet)
              => /\ GenerateProposals(c, {}, {}, InternalSet) = {Block(Gap(c), c)}
                 /\ DerivedConflicts(c, {}, {}, InternalSet) = {}
         /\ ~Fits(Gap(c), c, {}, {}, InternalSet)
              => GenerateProposals(c, {}, {}, InternalSet) = {}
<1> DEFINE G == Gaps(c, {}, {}, InternalSet)
           F(g) == Fits(g, c, {}, {}, InternalSet)
<1>1. G = {Gap(c)}
  BY GapIs
<1>2. GenerateProposals(c, {}, {}, InternalSet) = {Block(g, c) : g \in {h \in G : F(h)}}
  BY Zenon DEF GenerateProposals
<1>3. ASSUME F(Gap(c)) PROVE GenerateProposals(c, {}, {}, InternalSet) = {Block(Gap(c), c)}
  <2>1. {h \in G : F(h)} = {Gap(c)}
    <3> HIDE DEF F, G
    <3> QED BY <1>1, <1>3
  <2> HIDE DEF F, G
  <2> QED
    BY <1>2, <2>1
<1>4. ASSUME ~F(Gap(c)) PROVE GenerateProposals(c, {}, {}, InternalSet) = {}
  <2>1. {h \in G : F(h)} = {}
    <3> HIDE DEF F, G
    <3> QED BY <1>1, <1>4
  <2> HIDE DEF F, G
  <2> QED
    BY <1>2, <2>1
<1>5. ASSUME F(Gap(c)) PROVE DerivedConflicts(c, {}, {}, InternalSet) = {}
  <2> DEFINE Fails(h) == /\ ProposedEnd(h, c) # NoTime
                         /\ \/ TooSmall(h, c)
                            \/ ~ContainedByAnyWindow(Block(h, c), {}, InternalSet)
  <2>1. ~Fails(Gap(c))
    BY <1>5, Zenon DEF Fits
  <2> HIDE DEF G, Fails
  <2>2. {h \in G : Fails(h)} = {}
    BY <1>1, <2>1
  <2>3. {GapConflict(g, c) : g \in {h \in G : Fails(h)}} = {}
    BY <2>2
  <2>4. {Conflict("InvalidWindow", {}, {c.id, w.id}) : w \in {v \in {} : v.start >= v.end}} = {}
    OBVIOUS
  <2>5. (IF {} = {} /\ InternalSet # NoSet /\ ~HoursOnly(InternalSet)
         THEN {Conflict("OutsideAvailability", {}, {c.id, "unbounded"})} ELSE {}) = {}
    BY InternalSetIs, Zenon
  <2>6. DerivedConflicts(c, {}, {}, InternalSet) =
          {GapConflict(g, c) : g \in {h \in G : Fails(h)}}
          \union {Conflict("InvalidWindow", {}, {c.id, w.id}) : w \in {v \in {} : v.start >= v.end}}
          \union (IF {} = {} /\ InternalSet # NoSet /\ ~HoursOnly(InternalSet)
                  THEN {Conflict("OutsideAvailability", {}, {c.id, "unbounded"})} ELSE {})
    BY Zenon DEF DerivedConflicts, G, Fails
  <2> QED
    BY <2>3, <2>4, <2>5, <2>6
<1> QED
  BY <1>3, <1>4, <1>5

LEMMA MinuteIs ==
  ASSUME CommandInputs, NEW day \in 1..31, NEW slot \in 0..95
  PROVE  At(day, slot) \in Int /\ MinuteOfDay(At(day, slot)) = slot
<1>1. Day = 96
  BY DEF CommandInputs, Hour
<1>2. At(day, slot) = 96 * (day - 1) + slot
  BY <1>1 DEF At
<1>3. (96 * (day - 1) + slot) % 96 = slot
  OBVIOUS
<1> QED
  BY <1>1, <1>2, <1>3 DEF MinuteOfDay

\* A span that begins at slot pref of a day, for a task of any length, and ends
\* at 17:00 of that day or a later one, but not after the 28th.
IsCandidateSpan(c, day, pref, last, effort) ==
  /\ day \in 1..31 /\ pref \in {36, 48}
  /\ last \in 1..28 /\ (day <= 28 => day <= last)
  /\ effort \in Int /\ effort > 0
  /\ c.earliest = At(day, pref) /\ c.latest = At(last, 17 * Hour)
  /\ c.duration = effort /\ c.before = 0 /\ c.after = 0

LEMMA FitsWhen ==
  ASSUME CommandInputs, NEW c, NEW day, NEW pref, NEW last, NEW effort,
         IsCandidateSpan(c, day, pref, last, effort)
  PROVE  /\ Fits(Gap(c), c, {}, {}, InternalSet) <=> pref + effort <= 17 * Hour /\ day <= 28
         /\ Block(Gap(c), c).start = c.earliest
         /\ Block(Gap(c), c).end = c.earliest + effort
<1> DEFINE g == Gap(c)
           from == 96 * (day - 1) + pref
           until == 96 * (last - 1) + 68
<1>1. /\ day \in 1..31 /\ pref \in {36, 48} /\ last \in 1..28 /\ (day <= 28 => day <= last)
      /\ effort \in Int /\ effort > 0
      /\ c.earliest = At(day, pref) /\ c.latest = At(last, 17 * Hour)
      /\ c.duration = effort /\ c.before = 0 /\ c.after = 0
  BY DEF IsCandidateSpan
<1>2. Day = 96 /\ WorkStart = 36 /\ WorkEnd = 68 /\ 17 * Hour = 68
  BY DEF CommandInputs, Hour
<1>3. /\ c.earliest = from /\ c.latest = until
      /\ from \in Int /\ until \in Int /\ MinuteOfDay(from) = pref
  BY <1>1, <1>2, MinuteIs DEF At
<1>4. g.start = from /\ g.end = until
  BY <1>1, <1>3 DEF Gap
<1>5. ProposedStart(g, c) = from
  BY <1>1, <1>3, <1>4 DEF ProposedStart, Later
<1>6. ProposedEnd(g, c) = AddMinutes(from, effort)
  BY <1>1, <1>5 DEF ProposedEnd
<1>7. Block(g, c).start = from /\ Block(g, c).end = from + effort
  BY <1>1, <1>3, <1>5 DEF Block
<1>8. CASE pref + effort >= 96
  <2>1. ProposedEnd(g, c) = NoTime
    BY <1>1, <1>2, <1>3, <1>6, <1>8, MinutesAdded
  <2> QED
    BY <1>1, <1>2, <1>3, <1>7, <1>8, <2>1 DEF Fits
<1>9. CASE pref + effort < 96
  <2>1. ProposedEnd(g, c) # NoTime /\ ProposedEnd(g, c) = from + effort
    BY <1>1, <1>2, <1>3, <1>6, <1>9, MinutesAdded
  <2>2. TooSmall(g, c) <=> from + effort > until
    BY <1>1, <1>3, <1>4, <2>1 DEF TooSmall
  <2>3. MinuteOfDay(from + effort) = pref + effort
    <3>1. pref + effort \in 0..95
      BY <1>1, <1>9
    <3>2. from + effort = At(day, pref + effort)
      BY <1>1, <1>2 DEF At
    <3> QED
      BY <1>1, <3>1, <3>2, MinuteIs
  <2>4. ContainedByAnyWindow(Block(g, c), {}, InternalSet)
          <=> pref >= 36 /\ pref + effort <= 68
    BY <1>1, <1>2, <1>3, <1>7, <2>3, HoursDecide
  <2>5. Fits(g, c, {}, {}, InternalSet)
          <=> ~(from + effort > until) /\ pref + effort <= 68
    BY <1>1, <2>1, <2>2, <2>4 DEF Fits
  <2>6. pref + effort <= 68 => (from + effort > until <=> day > 28)
    BY <1>1
  <2> QED
    BY <1>1, <1>2, <1>3, <1>7, <2>5, <2>6
<1> QED
  BY <1>1, <1>8, <1>9

\* An offer is made exactly for what can be offered, and where it should be.
LEMMA OfferFollows ==
  ASSUME CommandInputs, NEW b \in Bodies, NEW day \in 1..31, NEW i, NEW a,
         a = ArtifactOf(i, BuildSchedulingCandidate(b, day))
  PROVE  /\ a.status = "Proposed" <=> CanBeOffered(b, day)
         /\ CanBeOffered(b, day) => /\ a.start = At(day, WantedHour(b) * Hour)
                                    /\ a.end = a.start + b.effort
<1> DEFINE r == BuildSchedulingCandidate(b, day)
           c == TaskCandidate(i, r)
<1>1. b.effort \in Int /\ HasSignal(b)
  BY DEF CommandInputs
<1>2. /\ r.duration = (IF b.effort > 0 THEN b.effort ELSE 0)
      /\ r.hint = (IF IsPrompt(b) THEN "next_24_hours" ELSE IF IsUrgent(b) THEN "next_3_days"
                   ELSE "unspecified")
      /\ r.created = day
  BY DEF BuildSchedulingCandidate
<1>3. r.status = "Candidate" <=> IsPrompt(b) \/ IsUrgent(b)
  BY <1>1 DEF BuildSchedulingCandidate
<1> HIDE DEF r
<1>4. CASE b.effort > 0 /\ (IsPrompt(b) \/ IsUrgent(b))
  <2> DEFINE pref == PreferredStart(r.hint)
             last == AddDays(day, DaySpan(r.hint) - 1)
  <2>1. /\ c.earliest = At(day, pref) /\ c.latest = At(last, 17 * Hour)
        /\ c.duration = b.effort /\ c.before = 0 /\ c.after = 0
    BY <1>2, <1>4 DEF TaskCandidate
  <2>2. pref = WantedHour(b) * Hour /\ pref \in {36, 48} /\ DaySpan(r.hint) \in {1, 3}
    BY <1>2, <1>4 DEF PreferredStart, DaySpan, WantedHour, Hour
  <2>3. last \in 1..28 /\ (day <= 28 => day <= last)
    <3>1. DaySpan(r.hint) - 1 \in 0..6
      BY <2>2
    <3> QED
      BY <3>1, DaysAdded
  <2> HIDE DEF c, pref, last
  <2>4. /\ Fits(Gap(c), c, {}, {}, InternalSet) <=> pref + b.effort <= 17 * Hour /\ day <= 28
        /\ Block(Gap(c), c).start = c.earliest
        /\ Block(Gap(c), c).end = c.earliest + b.effort
    <3>1. IsCandidateSpan(c, day, pref, last, b.effort)
      BY <1>1, <1>4, <2>1, <2>2, <2>3 DEF IsCandidateSpan
    <3> QED
      BY <3>1, FitsWhen
  <2>5. CanBeOffered(b, day) <=> Fits(Gap(c), c, {}, {}, InternalSet)
    BY <1>4, <2>2, <2>4 DEF CanBeOffered
  <2>6. r.status = "Candidate" /\ ~(r.duration <= 0)
    BY <1>1, <1>2, <1>3, <1>4
  <2>7. Generated(i, r) = GenerateProposals(c, {}, {}, InternalSet)
    BY DEF Generated, c
  <2>8. CASE Fits(Gap(c), c, {}, {}, InternalSet)
    <3>1. /\ Generated(i, r) = {Block(Gap(c), c)}
          /\ DerivedConflicts(c, {}, {}, InternalSet) = {}
      BY <2>7, <2>8, OfferIs
    <3>2. Generated(i, r) # {} /\ (CHOOSE p \in Generated(i, r) : TRUE) = Block(Gap(c), c)
      BY <3>1
    <3>3. a.status = "Proposed" /\ a.start = Block(Gap(c), c).start /\ a.end = Block(Gap(c), c).end
      BY <2>6, <3>1, <3>2 DEF ArtifactOf, r, c
    <3> QED
      BY <2>1, <2>2, <2>4, <2>5, <2>8, <3>3
  <2>9. CASE ~Fits(Gap(c), c, {}, {}, InternalSet)
    <3>1. Generated(i, r) = {}
      BY <2>7, <2>9, OfferIs
    <3>2. a.status = "Rejected"
      BY <3>1 DEF ArtifactOf, r
    <3> QED
      BY <2>5, <2>9, <3>2
  <2> QED
    BY <2>8, <2>9
<1>5. CASE ~(b.effort > 0 /\ (IsPrompt(b) \/ IsUrgent(b)))
  <2>1. r.status # "Candidate" \/ r.duration <= 0
    BY <1>1, <1>2, <1>3, <1>5
  <2>2. a.status = "Rejected"
    BY <2>1 DEF ArtifactOf, r
  <2>3. ~CanBeOffered(b, day)
    BY <1>5 DEF CanBeOffered
  <2> QED
    BY <2>2, <2>3
<1> QED
  BY <1>4, <1>5

-----------------------------------------------------------------------------
(* The two commands *)

RunTodo ==
  /\ run.command = "candidates"
       => run.day \in DaysOfMonth /\ run.todo \subseteq DOMAIN interventions
  /\ run.command = "proposals" => run.todo \subseteq DOMAIN candidateRecords

RecordsInv ==
  /\ \A i \in DOMAIN interventions : interventions[i] \in Bodies
  /\ DOMAIN candidateRecords \subseteq DOMAIN interventions
  /\ \A i \in DOMAIN candidateRecords : candidateRecords[i].created \in DaysOfMonth

\* The candidate of a settled intervention is the one built from it as it is.
SettledInv ==
  /\ settled \subseteq DOMAIN candidateRecords
  /\ \A i \in settled : candidateRecords[i] =
       BuildSchedulingCandidate(interventions[i], candidateRecords[i].created)

\* The last artifact is what would be written again, and is in the table.
AnswerInv ==
  /\ DOMAIN answer \subseteq settled
  /\ \A i \in DOMAIN answer : answer[i] = Artifact(i) /\ answer[i] \in proposalArtifacts

CommandInv == RunTodo /\ RecordsInv /\ SettledInv /\ AnswerInv

\* Artifacts depend on the candidate's record alone.
LEMMA SameArtifact ==
  ASSUME NEW i, candidateRecords'[i] = candidateRecords[i]
  PROVE  Artifact(i)' = Artifact(i)
BY DEF Artifact

LEMMA IdleTodo == ASSUME run' = IdleRun PROVE RunTodo'
<1>1. IdleRun.command = "none"
  BY DEF IdleRun
<1> QED
  BY <1>1 DEF RunTodo

LEMMA ApproveStep ==
  ASSUME CommandInv, NEW i \in Interventions, NEW b \in Bodies, Approve(i, b)
  PROVE  CommandInv'
<1>1. /\ run = IdleRun /\ interventions' = Put(interventions, i, b)
      /\ settled' = settled \ {i} /\ answer' = Without(answer, i)
      /\ UNCHANGED <<candidateRecords, proposalArtifacts, run>>
  BY DEF Approve
<1>2. RunTodo'
  BY <1>1, IdleTodo
<1>3. RecordsInv'
  BY <1>1 DEF CommandInv, RecordsInv, Put
<1>4. SettledInv'
  <2> SUFFICES ASSUME NEW j \in settled'
               PROVE  /\ j \in DOMAIN candidateRecords'
                      /\ candidateRecords'[j] =
                           BuildSchedulingCandidate(interventions'[j], candidateRecords'[j].created)
    BY DEF SettledInv
  <2>1. j \in settled /\ j # i /\ j \in DOMAIN candidateRecords /\ j \in DOMAIN interventions
    BY <1>1 DEF CommandInv, SettledInv, RecordsInv
  <2>2. interventions'[j] = interventions[j]
    BY <1>1, <2>1 DEF Put
  <2> QED
    BY <1>1, <2>1, <2>2 DEF CommandInv, SettledInv
<1>5. AnswerInv'
  <2>1. ASSUME NEW j PROVE Artifact(j)' = Artifact(j)
    BY <1>1, SameArtifact
  <2> QED
    BY <1>1, <2>1 DEF CommandInv, AnswerInv, Without
<1> QED
  BY <1>2, <1>3, <1>4, <1>5 DEF CommandInv

LEMMA SameRecords ==
  ASSUME CommandInv, RunTodo',
         UNCHANGED <<interventions, candidateRecords, proposalArtifacts, settled, answer>>
  PROVE  CommandInv'
<1>1. ASSUME NEW j PROVE Artifact(j)' = Artifact(j)
  BY SameArtifact
<1>2. RecordsInv' /\ SettledInv'
  BY DEF CommandInv, RecordsInv, SettledInv
<1>3. AnswerInv'
  BY <1>1 DEF CommandInv, AnswerInv
<1> QED
  BY <1>2, <1>3 DEF CommandInv

LEMMA UpsertCandidateStep ==
  ASSUME CommandInv, NEW i \in Interventions, UpsertCandidate(i)
  PROVE  CommandInv'
<1> DEFINE record == Candidate(i)
<1>1. /\ run.command = "candidates" /\ i \in run.todo
      /\ candidateRecords' = Put(candidateRecords, i, record)
      /\ run' = [run EXCEPT !.todo = @ \ {i}]
      /\ settled' = settled \union {i}
      /\ UNCHANGED <<interventions, proposalArtifacts, answer>>
  BY DEF UpsertCandidate
<1>2. /\ i \in DOMAIN interventions /\ run.day \in DaysOfMonth
      /\ run.todo \subseteq DOMAIN interventions
  BY <1>1 DEF CommandInv, RunTodo
<1>3. record = BuildSchedulingCandidate(interventions[i], Created(i)) /\ record.created = Created(i)
  BY DEF Candidate, BuildSchedulingCandidate
<1>4. Created(i) \in DaysOfMonth
  BY <1>2 DEF Created, CommandInv, RecordsInv
<1>5. i \in settled => record = candidateRecords[i]
  BY <1>3 DEF CommandInv, SettledInv, Created
<1> HIDE DEF record
<1>6. /\ DOMAIN candidateRecords' = DOMAIN candidateRecords \union {i}
      /\ candidateRecords'[i] = record
      /\ \A j \in DOMAIN candidateRecords : j # i => candidateRecords'[j] = candidateRecords[j]
  BY <1>1 DEF Put
<1>7. RunTodo'
  <2>1. run'.command = run.command /\ run'.day = run.day
        /\ (run'.todo = run.todo \ {i} \/ run'.todo = run.todo)
    BY <1>1
  <2> QED
    BY <1>1, <1>2, <2>1 DEF RunTodo
<1>8. RecordsInv'
  BY <1>1, <1>2, <1>3, <1>4, <1>6 DEF CommandInv, RecordsInv
<1>9. SettledInv'
  <2> SUFFICES ASSUME NEW j \in settled'
               PROVE  /\ j \in DOMAIN candidateRecords'
                      /\ candidateRecords'[j] =
                           BuildSchedulingCandidate(interventions'[j], candidateRecords'[j].created)
    BY DEF SettledInv
  <2>1. CASE j = i
    BY <1>1, <1>3, <1>6, <2>1
  <2>2. CASE j # i
    <3>1. /\ j \in settled /\ j \in DOMAIN candidateRecords
          /\ candidateRecords[j] =
               BuildSchedulingCandidate(interventions[j], candidateRecords[j].created)
      BY <1>1, <2>2 DEF CommandInv, SettledInv
    <3> QED
      BY <1>1, <1>6, <2>2, <3>1
  <2> QED
    BY <2>1, <2>2
<1>10. AnswerInv'
  <2> SUFFICES ASSUME NEW j \in DOMAIN answer
               PROVE  /\ j \in settled' /\ answer[j] = Artifact(j)'
                      /\ answer[j] \in proposalArtifacts
    BY <1>1 DEF AnswerInv
  <2>1. j \in settled /\ j \in DOMAIN candidateRecords
        /\ answer[j] = Artifact(j) /\ answer[j] \in proposalArtifacts
    BY DEF CommandInv, AnswerInv, SettledInv
  <2>2. candidateRecords'[j] = candidateRecords[j]
    BY <1>5, <1>6, <2>1
  <2> QED
    BY <1>1, <2>1, <2>2, SameArtifact
<1> QED
  BY <1>7, <1>8, <1>9, <1>10 DEF CommandInv

LEMMA UpsertArtifactStep ==
  ASSUME CommandInv, NEW i \in Interventions, UpsertArtifact(i)
  PROVE  CommandInv'
<1> DEFINE new == Artifact(i)
<1>1. /\ run.command = "proposals" /\ i \in run.todo
      /\ proposalArtifacts' = {a \in proposalArtifacts : a.id # new.id} \union {new}
      /\ run' = [run EXCEPT !.todo = @ \ {i}]
      /\ answer' = IF i \in settled THEN Put(answer, i, new) ELSE answer
      /\ UNCHANGED <<interventions, candidateRecords, settled>>
  BY DEF UpsertArtifact
<1>2. run.todo \subseteq DOMAIN candidateRecords
  BY <1>1 DEF CommandInv, RunTodo
<1>3. RunTodo'
  <2>1. run'.command = run.command /\ (run'.todo = run.todo \ {i} \/ run'.todo = run.todo)
    BY <1>1
  <2> QED
    BY <1>1, <1>2, <2>1 DEF RunTodo
<1>4. RecordsInv' /\ SettledInv'
  BY <1>1 DEF CommandInv, RecordsInv, SettledInv
<1>5. ASSUME NEW j PROVE Artifact(j)' = Artifact(j) /\ Artifact(j).id[1] = j
  <2>1. Artifact(j)' = Artifact(j)
    BY <1>1, SameArtifact
  <2>2. Artifact(j).id[1] = j
    BY DEF Artifact
  <2> QED
    BY <2>1, <2>2
<1> HIDE DEF new
<1>6. AnswerInv'
  <2> SUFFICES ASSUME NEW j \in DOMAIN answer'
               PROVE  /\ j \in settled /\ answer'[j] = Artifact(j)'
                      /\ answer'[j] \in proposalArtifacts'
    BY <1>1 DEF AnswerInv
  <2>1. CASE j = i
    <3>1. i \in settled
      BY <1>1, <2>1 DEF CommandInv, AnswerInv
    <3>2. answer'[j] = new /\ new \in proposalArtifacts'
      BY <1>1, <2>1, <3>1 DEF Put
    <3> QED
      BY <1>5, <2>1, <3>1, <3>2 DEF new
  <2>2. CASE j # i
    <3>1. j \in DOMAIN answer /\ answer'[j] = answer[j]
      BY <1>1, <2>2 DEF Put
    <3>2. j \in settled /\ answer[j] = Artifact(j) /\ answer[j] \in proposalArtifacts
      BY <3>1 DEF CommandInv, AnswerInv
    <3>3. answer[j].id # new.id
      BY <1>5, <2>2, <3>2 DEF new
    <3> QED
      BY <1>1, <1>5, <3>1, <3>2, <3>3
  <2> QED
    BY <2>1, <2>2
<1> QED
  BY <1>3, <1>4, <1>6 DEF CommandInv

LEMMA InitCommand == ASSUME CommandInit PROVE CommandInv
<1>1. RunTodo
  <2>1. IdleRun.command = "none"
    BY DEF IdleRun
  <2> QED
    BY <2>1 DEF CommandInit, RunTodo
<1>2. RecordsInv /\ SettledInv /\ AnswerInv
  BY DEF CommandInit, RecordsInv, SettledInv, AnswerInv
<1> QED
  BY <1>1, <1>2 DEF CommandInv

LEMMA NextCommand == ASSUME CommandInv, [CommandNext]_commandVars PROVE CommandInv'
<1>1. ASSUME NEW i \in Interventions, NEW b \in Bodies, Approve(i, b) PROVE CommandInv'
  BY <1>1, ApproveStep
<1>2. ASSUME NEW d \in DaysOfMonth, GenerateCandidates(d) PROVE CommandInv'
  <2>1. /\ run' = [command |-> "candidates", todo |-> DOMAIN interventions, day |-> d]
        /\ UNCHANGED <<interventions, candidateRecords, proposalArtifacts, settled, answer>>
    BY <1>2 DEF GenerateCandidates
  <2>2. run'.command = "candidates" /\ run'.day = d /\ run'.todo = DOMAIN interventions
    BY <2>1
  <2>3. RunTodo'
    BY <2>1, <2>2 DEF RunTodo
  <2> QED
    BY <2>1, <2>3, SameRecords
<1>3. ASSUME GenerateScheduleProposals PROVE CommandInv'
  <2>1. /\ run' = [command |-> "proposals", todo |-> DOMAIN candidateRecords, day |-> 0]
        /\ UNCHANGED <<interventions, candidateRecords, proposalArtifacts, settled, answer>>
    BY <1>3 DEF GenerateScheduleProposals
  <2>2. run'.command = "proposals" /\ run'.todo = DOMAIN candidateRecords
    BY <2>1
  <2>3. RunTodo'
    BY <2>1, <2>2 DEF RunTodo
  <2> QED
    BY <2>1, <2>3, SameRecords
<1>4. ASSUME NEW i \in Interventions, UpsertCandidate(i) PROVE CommandInv'
  BY <1>4, UpsertCandidateStep
<1>5. ASSUME NEW i \in Interventions, UpsertArtifact(i) PROVE CommandInv'
  BY <1>5, UpsertArtifactStep
<1>6. ASSUME Exit PROVE CommandInv'
  BY <1>6, IdleTodo, SameRecords DEF Exit
<1>7. ASSUME UNCHANGED commandVars PROVE CommandInv'
  <2>1. RunTodo'
    BY <1>7 DEF commandVars, CommandInv, RunTodo
  <2> QED
    BY <1>7, <2>1, SameRecords DEF commandVars
<1> QED
  BY <1>1, <1>2, <1>3, <1>4, <1>5, <1>6, <1>7 DEF CommandNext

\* However often the commands are cut short and interventions approved anew,
\* the last artifact written is the offer, or the refusal, the intervention calls
\* for.
THEOREM OffersTheorem ==
  ASSUME CommandInputs
  PROVE  CommandSpec => []OffersFollowInterventions
<1>1. CommandInit => CommandInv
  BY InitCommand
<1>2. CommandInv /\ [CommandNext]_commandVars => CommandInv'
  BY NextCommand
<1>3. CommandInv => OffersFollowInterventions
  <2> SUFFICES ASSUME CommandInv, NEW i \in DOMAIN answer
               PROVE  /\ answer[i] \in proposalArtifacts
                      /\ answer[i].status = "Proposed"
                           <=> CanBeOffered(interventions[i], candidateRecords[i].created)
                      /\ CanBeOffered(interventions[i], candidateRecords[i].created)
                           => /\ answer[i].start = At(candidateRecords[i].created,
                                                      WantedHour(interventions[i]) * Hour)
                              /\ answer[i].end = answer[i].start + interventions[i].effort
    BY DEF OffersFollowInterventions
  <2> DEFINE b == interventions[i]
             day == candidateRecords[i].created
             a == answer[i]
  <2>1. /\ a \in proposalArtifacts /\ a = Artifact(i) /\ i \in settled
        /\ i \in DOMAIN candidateRecords /\ i \in DOMAIN interventions
        /\ candidateRecords[i] = BuildSchedulingCandidate(b, day)
    BY DEF CommandInv, AnswerInv, SettledInv, RecordsInv
  <2>2. b \in Bodies /\ day \in 1..31
    BY <2>1 DEF CommandInv, RecordsInv, CommandInputs
  <2>3. a = ArtifactOf(i, BuildSchedulingCandidate(b, day))
    BY <2>1, ArtifactIs
  <2> HIDE DEF a, b, day
  <2>4. /\ a.status = "Proposed" <=> CanBeOffered(b, day)
        /\ CanBeOffered(b, day) => /\ a.start = At(day, WantedHour(b) * Hour)
                                   /\ a.end = a.start + b.effort
    BY <2>2, <2>3, OfferFollows
  <2> QED
    BY <2>1, <2>4 DEF a, b, day
<1> QED
  BY <1>1, <1>2, <1>3, PTL DEF CommandSpec

-----------------------------------------------------------------------------
(* The inductive invariant *)

OwnIds == {OwnId(i) : i \in CommitmentIds}
IsSpan(x) == x.start \in Nat /\ x.end \in Nat
IsBlock(x) == IsSpan(x) /\ x.start <= x.end
SameSpan(x, y) == x.start = y.start /\ x.end = y.end
IsTask(b) ==
  /\ b.earliest \in Nat /\ b.latest \in Nat /\ b.duration \in Nat
  /\ b.before \in Nat /\ b.after \in Nat

IsProposal(q) ==
  /\ IsBlock(q) /\ (q.status = "Proposed" => q.version = 1)
  /\ q = [cand |-> q.cand, start |-> q.start, end |-> q.end, basedOn |-> q.basedOn,
           status |-> q.status, version |-> q.version, wanted |-> q.wanted]

RecordsTyped ==
  /\ \A c \in DOMAIN candidates : IsTask(candidates[c])
  /\ \A id \in DOMAIN commitments :
       /\ IsBlock(commitments[id]) /\ id \in OwnIds \union DOMAIN proposals
       /\ id \in DOMAIN proposals => commitments[id].start = proposals[id].start
  /\ \A p \in DOMAIN proposals : IsProposal(proposals[p])
  /\ \A w \in DOMAIN windows : IsSpan(windows[w])
  /\ \A k \in DOMAIN constraintSets : \E b \in SetBodies : constraintSets[k].gap = b.gap

RequestTyped ==
  /\ phase = "detect" /\ current.id # NoId =>
       /\ current.id \in OwnIds /\ current.id \in DOMAIN commitments
       /\ SameSpan(current, commitments[current.id]) /\ TakesTime(current)
  /\ phase \in {"propose", "append"} => current.asked \in Asked
  /\ phase = "append" => pending # {}
  /\ \A x \in pending : IsBlock(x)
  /\ phase \in {"mark", "decide"} => current.id \in DOMAIN commitments
  /\ phase = "mark" => /\ SameSpan(commitments[current.id], proposals[current.id])
                        /\ proposals[current.id].status = "Proposed"
  /\ phase = "decide" => proposals[current.id].status = "Committed"

EndsAreBounded == \E n \in Nat : \A id \in DOMAIN commitments : commitments[id].end <= n

IsFree(x) == \A id \in DOMAIN commitments :
               NearMidnight(commitments[id]) \/ ~Overlap(x, commitments[id])
PendingIsFree == \A x \in pending : IsFree(x)

UnguardedIsKnown ==
  \A id \in DOMAIN commitments : Unguarded(commitments[id]) => id \in unguarded \union OwnIds

IInv ==
  /\ TypeOK /\ RecordsTyped /\ RequestTyped /\ EndsAreBounded /\ PendingIsFree
  /\ UnguardedIsKnown /\ NoDoubleBooking /\ NoSilentOverlap /\ CommitLeavesEvidence

-----------------------------------------------------------------------------
(* Greatest and least elements *)

LEMMA HasLeast == ASSUME NEW T, T \subseteq Nat, T # {} PROVE \E x \in T : \A y \in T : x <= y
<1>1. PICK x \in T : \A y \in T : ~ (<<y, x>> \in OpToRel(<, Nat))
  BY NatLessThanWellFounded, WFMin
<1>2. \A y \in T : ~(y < x)
  BY <1>1 DEF OpToRel
<1> QED
  BY <1>2

LEMMA HasGreatest ==
  ASSUME NEW S, S \subseteq Nat, S # {}, NEW n \in Nat, \A x \in S : x <= n
  PROVE  Max(S) \in S
<1> DEFINE T == {n - x : x \in S}
<1>1. T \subseteq Nat /\ T # {}
  <2>1. \A x \in S : x \in Nat /\ n - x \in Nat
    OBVIOUS
  <2> QED
    BY <2>1
<1>2. PICK t \in T : \A y \in T : t <= y
  BY <1>1, HasLeast
<1>3. PICK x \in S : t = n - x
  BY <1>2
<1>4. \A y \in S : x >= y
  <2> SUFFICES ASSUME NEW y \in S PROVE x >= y
    OBVIOUS
  <2>1. n - y \in T
    OBVIOUS
  <2>2. t <= n - y
    BY <1>2, <2>1
  <2> QED
    BY <1>3, <2>2
<1> QED
  BY <1>4 DEF Max

-----------------------------------------------------------------------------
(* Constraints and padding *)

\* The gaps that are ever in force.
Known(limits) == GapOf(limits) = 0 \/ \E b \in SetBodies \union Asked : GapOf(limits) = GapOf(b)

LEMMA KnownGap == ASSUME NEW limits, Known(limits) PROVE GapOf(limits) \in Nat
<1>1. \A b \in SetBodies \union Asked : b # NoSet /\ b.gap \in Nat
  BY InputsAssumption
<1>2. \A b \in SetBodies \union Asked : GapOf(b) \in Nat
  BY <1>1 DEF GapOf
<1> QED
  BY <1>2 DEF Known

LEMMA KnownAsked == ASSUME RecordsTyped, NEW a \in Asked PROVE Known(ConstraintOf(a))
<1>1. \A b \in SetBodies \union Asked : GapOf(b) = b.gap
  BY InputsAssumption DEF GapOf
<1>2. CASE ConstraintOf(a) = NoSet
  BY <1>2 DEF Known, GapOf
<1>3. CASE ConstraintOf(a) # NoSet
  <2>1. GapOf(ConstraintOf(a)) = ConstraintOf(a).gap
    BY <1>3 DEF GapOf
  <2>2. CASE a.id = NoId
    BY <1>1, <2>1, <2>2 DEF Known, ConstraintOf
  <2>3. CASE a.id # NoId
    <3>1. a.id \in DOMAIN constraintSets /\ ConstraintOf(a) = constraintSets[a.id]
      BY <1>3, <2>3 DEF ConstraintOf
    <3>2. PICK b \in SetBodies : constraintSets[a.id].gap = b.gap
      BY <3>1 DEF RecordsTyped
    <3> QED
      BY <1>1, <2>1, <3>1, <3>2 DEF Known
  <2> QED
    BY <2>2, <2>3
<1> QED
  BY <1>2, <1>3

LEMMA KnownAtCommit == ASSUME RecordsTyped, NEW p PROVE Known(ConstraintAtCommit(p))
<1>1. \A b \in SetBodies \union Asked : GapOf(b) = b.gap
  BY InputsAssumption DEF GapOf
<1>2. CASE ConstraintAtCommit(p) = NoSet
  BY <1>2 DEF Known, GapOf
<1>3. CASE ConstraintAtCommit(p) # NoSet
  <2>1. GapOf(ConstraintAtCommit(p)) = ConstraintAtCommit(p).gap
    BY <1>3 DEF GapOf
  <2>2. p.basedOn \in DOMAIN constraintSets /\ ConstraintAtCommit(p) = constraintSets[p.basedOn]
    BY <1>3 DEF ConstraintAtCommit
  <2>3. PICK b \in SetBodies : constraintSets[p.basedOn].gap = b.gap
    BY <2>2 DEF RecordsTyped
  <2> QED
    BY <1>1, <2>1, <2>2, <2>3 DEF Known
<1> QED
  BY <1>2, <1>3

LEMMA Added ==
  ASSUME NEW t \in Nat, NEW m \in Int
  PROVE  /\ AddMinutes(t, m) = NoTime \/ AddMinutes(t, m) = t + m
         /\ AddMinutes(t, 0) = t
<1>1. AddMinutes(t, m) = NoTime \/ AddMinutes(t, m) = t + m
  BY DEF AddMinutes
<1>2. t % Day \in 0..Day-1
  BY DayAssumption
<1>3. AddMinutes(t, 0) = t
  BY DayAssumption, <1>2 DEF AddMinutes, MinuteOfDay
<1> QED
  BY <1>1, <1>3

\* What is not near midnight is padded on both sides.
LEMMA IsPadded ==
  ASSUME NEW c, IsBlock(c), ~NearMidnight(c), NEW limits, Known(limits)
  PROVE  /\ PaddedStart(c, limits) # NoTime /\ PaddedEnd(c, limits) # NoTime
         /\ PaddedStart(c, limits) \in Int /\ PaddedStart(c, limits) <= c.start
         /\ PaddedEnd(c, limits) \in Int /\ c.end <= PaddedEnd(c, limits)
<1>1. GapOf(limits) \in Nat /\ c.start \in Nat /\ c.end \in Nat
  BY KnownGap DEF IsBlock, IsSpan
<1>2. PaddedStart(c, limits) # NoTime /\ PaddedEnd(c, limits) # NoTime
  <2>1. CASE GapOf(limits) = 0
    <3>1. PaddedStart(c, limits) = c.start /\ PaddedEnd(c, limits) = c.end
      <4>1. /\ c.start % Day \in 0..Day-1 /\ (c.start % Day) + (-GapOf(limits)) = c.start % Day
            /\ c.start + (-GapOf(limits)) = c.start
        BY <1>1, <2>1, DayAssumption
      <4>2. PaddedStart(c, limits) = c.start
        BY <4>1 DEF PaddedStart, AddMinutes, MinuteOfDay
      <4>3. PaddedEnd(c, limits) = AddMinutes(c.end, 0)
        BY <2>1 DEF PaddedEnd
      <4>4. 0 \in Int
        OBVIOUS
      <4> QED
        BY <1>1, <4>2, <4>3, <4>4, Added
    <3> QED
      BY <1>1, <3>1, NoTimeAssumption
  <2>2. CASE GapOf(limits) # 0
    <3>1. PICK b \in SetBodies \union Asked : GapOf(limits) = GapOf(b)
      BY <2>2 DEF Known
    <3>2. PaddedStart(c, b) # NoTime /\ PaddedEnd(c, b) # NoTime
      BY DEF NearMidnight
    <3> QED
      BY <3>1, <3>2 DEF PaddedStart, PaddedEnd
  <2> QED
    BY <2>1, <2>2
<1>3. PaddedStart(c, limits) = c.start + (-GapOf(limits)) /\ PaddedEnd(c, limits) = c.end + GapOf(limits)
  <2>1. -GapOf(limits) \in Int /\ GapOf(limits) \in Int
    BY <1>1
  <2> QED
    BY <1>1, <1>2, <2>1, Added DEF PaddedStart, PaddedEnd
<1> QED
  BY <1>1, <1>2, <1>3

\* A block inside a task's span that no commitment of the span blocks overlaps
\* no commitment at all, but for those near midnight.
LEMMA UnblockedIsFree ==
  ASSUME RecordsTyped, NEW task, IsTask(task), NEW x, IsBlock(x),
         task.earliest <= x.start, x.end <= task.latest, NEW limits, Known(limits),
         \A c \in InHorizon(commitments, task) : ~Blocks(c, x, limits)
  PROVE  IsFree(x)
<1> SUFFICES ASSUME NEW id \in DOMAIN commitments, ~NearMidnight(commitments[id]),
                    Overlap(x, commitments[id])
             PROVE  FALSE
  BY DEF IsFree
<1> DEFINE c == commitments[id]
<1>1. IsBlock(c) /\ c \in Records(commitments)
  BY DEF RecordsTyped, Records
<1>2. /\ x.start \in Nat /\ x.end \in Nat /\ c.start \in Nat /\ c.end \in Nat
      /\ task.earliest \in Nat /\ task.latest \in Nat
      /\ x.start < c.end /\ c.start < x.end
  BY <1>1 DEF IsBlock, IsSpan, IsTask, Overlap
<1> HIDE DEF c
<1>3. Overlap(c, Span(task))
  BY <1>2 DEF Overlap, Span
<1>4. c \in InHorizon(commitments, task)
  BY <1>1, <1>3 DEF InHorizon, InWindow
<1>5. /\ PaddedStart(c, limits) # NoTime /\ PaddedEnd(c, limits) # NoTime
      /\ PaddedStart(c, limits) \in Int /\ PaddedStart(c, limits) <= c.start
      /\ PaddedEnd(c, limits) \in Int /\ c.end <= PaddedEnd(c, limits)
  BY <1>1, IsPadded DEF c
<1>6. Blocks(c, x, limits)
  BY <1>2, <1>5 DEF Blocks, Overlap
<1> QED
  BY <1>4, <1>6

-----------------------------------------------------------------------------
(* Placement *)

\* The walk through a window always has a cursor.
LEMMA CursorExists ==
  ASSUME RecordsTyped, EndsAreBounded, NEW passed, passed \subseteq Records(commitments),
         NEW task, IsTask(task), NEW w, IsSpan(w), NEW limits, Known(limits)
  PROVE  CursorAfter(passed, task, w, limits) \in Nat
<1> DEFINE start == Later(w.start, task.earliest)
           S == {start} \union ({PaddedEnd(c, limits) : c \in passed} \ {NoTime})
<1>1. PICK n \in Nat : \A id \in DOMAIN commitments : commitments[id].end <= n
  BY DEF EndsAreBounded
<1>2. start \in Nat
  BY DEF Later, IsSpan, IsTask
<1>3. GapOf(limits) \in Nat
  BY KnownGap
<1>4. \A c \in passed : PaddedEnd(c, limits) # NoTime =>
                          PaddedEnd(c, limits) \in Nat /\ PaddedEnd(c, limits) <= n + GapOf(limits)
  <2> TAKE c \in passed
  <2>1. c.end \in Nat /\ c.end <= n
    BY <1>1 DEF Records, RecordsTyped, IsBlock, IsSpan
  <2>2. PaddedEnd(c, limits) = NoTime \/ PaddedEnd(c, limits) = c.end + GapOf(limits)
    BY <1>3, <2>1, Added DEF PaddedEnd
  <2> QED
    BY <1>1, <1>3, <2>1, <2>2
<1> HIDE DEF start
<1>5. S \subseteq Nat /\ S # {}
  BY <1>2, <1>4
<1>6. \A x \in S : x <= start + n + GapOf(limits)
  BY <1>1, <1>2, <1>3, <1>4
<1>7. start + n + GapOf(limits) \in Nat
  BY <1>1, <1>2, <1>3
<1>8. Max(S) \in S
  BY <1>5, <1>6, <1>7, HasGreatest
<1> QED
  BY <1>5, <1>8 DEF CursorAfter, start

LEMMA GapStarts ==
  ASSUME RecordsTyped, EndsAreBounded, NEW task, IsTask(task), NEW limits, Known(limits),
         NEW g \in Gaps(task, InHorizon(commitments, task), InHorizon(windows, task), limits)
  PROVE  g.start \in Nat
<1> DEFINE near == InHorizon(commitments, task)
           open == InHorizon(windows, task)
<1>1. near \subseteq Records(commitments) /\ \A w \in open : IsSpan(w)
  BY DEF InHorizon, InWindow, Records, RecordsTyped
<1>2. CASE open # {}
  <2>1. PICK w \in open : g \in GapsOf(w, task, near, limits)
    BY <1>2 DEF Gaps, AllowedWindows
  <2>2. \A passed : passed \subseteq near => CursorAfter(passed, task, w, limits) \in Nat
    BY <1>1, <2>1, CursorExists
  <2>3. \E passed : passed \subseteq near /\ g.start = CursorAfter(passed, task, w, limits)
    <3>1. InWindow(near, w) \subseteq near
      BY DEF InWindow
    <3>2. \/ g.start = CursorAfter(InWindow(near, w), task, w, limits)
          \/ \E c \in InWindow(near, w) :
               g.start = CursorAfter({d \in InWindow(near, w) : d.start < c.start}, task, w, limits)
      <4> HIDE DEF near
      <4> QED
        BY <2>1 DEF GapsOf
    <3> QED
      BY <3>1, <3>2
  <2> QED
    BY <2>2, <2>3
<1>3. CASE open = {}
  BY <1>3 DEF Gaps, IsTask
<1> QED
  BY <1>2, <1>3

\* The engine's blocks lie free of all commitments, not only of the near ones.
LEMMA PlacedIsFree ==
  ASSUME RecordsTyped, EndsAreBounded, NEW task, IsTask(task), NEW limits, Known(limits),
         NEW x \in GenerateProposals(task, InHorizon(commitments, task),
                                     InHorizon(windows, task), limits)
  PROVE  IsBlock(x) /\ IsFree(x)
<1> DEFINE near == InHorizon(commitments, task)
           open == InHorizon(windows, task)
<1>1. PICK g \in Gaps(task, near, open, limits) :
        Fits(g, task, near, open, limits) /\ x = Block(g, task)
  BY DEF GenerateProposals
<1>2. g.start \in Nat
  BY <1>1, GapStarts
<1> DEFINE s == ProposedStart(g, task)
           d == task.before + task.duration + task.after
<1>3. s \in Nat /\ task.earliest <= s /\ d \in Nat
  BY <1>2 DEF ProposedStart, Later, IsTask
<1>4. ProposedEnd(g, task) = s + d
  BY <1>1, <1>3, Added DEF Fits, ProposedEnd
<1>5. s + d <= task.latest
  BY <1>1, <1>3, <1>4 DEF Fits, TooSmall, IsTask
<1>6. \A c \in near : ~Blocks(c, Padded(g, task), limits)
  BY <1>1 DEF Fits
<1>7. Padded(g, task).start = s /\ Padded(g, task).end = s + d
  BY <1>4 DEF Padded
<1>8. x.start = s + task.before /\ x.end = s + task.before + task.duration
  BY <1>1 DEF Block
<1> HIDE DEF s
<1>9. IsBlock(Padded(g, task)) /\ IsBlock(x) /\ s <= x.start /\ x.end <= s + d
  <2>1. /\ task.before \in Nat /\ task.duration \in Nat
        /\ task.after \in Nat /\ s \in Nat
    BY <1>3 DEF IsTask
  <2>2. IsBlock(Padded(g, task))
    BY <1>7, <2>1 DEF IsBlock, IsSpan
  <2>3. IsBlock(x)
    BY <1>8, <2>1 DEF IsBlock, IsSpan
  <2> QED
    BY <1>8, <2>1, <2>2, <2>3
<1>10. IsFree(Padded(g, task))
  BY <1>3, <1>5, <1>6, <1>7, <1>9, UnblockedIsFree
<1>11. IsFree(x)
  <2> SUFFICES ASSUME NEW id \in DOMAIN commitments, Overlap(x, commitments[id])
               PROVE  Overlap(Padded(g, task), commitments[id])
    BY <1>10 DEF IsFree
  <2>1. commitments[id].start \in Nat /\ commitments[id].end \in Nat
    BY DEF RecordsTyped, IsBlock, IsSpan
  <2> QED
    BY <1>3, <1>7, <1>9, <2>1 DEF Overlap, IsBlock, IsSpan
<1> QED
  BY <1>9, <1>11

\* A proposal that is still valid is free as well.
LEMMA ValidIsFree ==
  ASSUME IInv, NEW p \in DOMAIN proposals, StillValid(p)
  PROVE  IsFree(proposals[p]) /\ proposals[p].status = "Proposed"
<1> DEFINE task == candidates[proposals[p].cand]
           limits == ConstraintAtCommit(proposals[p])
<1>1. /\ proposals[p].status = "Proposed"
      /\ proposals[p].start >= task.earliest /\ proposals[p].end <= task.latest
      /\ \A c \in InHorizon(commitments, task) : ~Blocks(c, proposals[p], limits)
  BY DEF StillValid, ProposalStillValid
<1>2. IsTask(task) /\ IsBlock(proposals[p]) /\ RecordsTyped
  BY DEF IInv, TypeOK, RecordsTyped, IsProposal
<1>3. Known(limits)
  BY <1>2, KnownAtCommit
<1>4. task.earliest <= proposals[p].start
  BY <1>1, <1>2 DEF IsTask, IsBlock, IsSpan
<1> HIDE DEF task, limits
<1> QED
  BY <1>1, <1>2, <1>3, <1>4, UnblockedIsFree

-----------------------------------------------------------------------------
(* Ids *)

LEMMA IdsDiffer ==
  ASSUME TypeOK
  PROVE  /\ \A p \in DOMAIN proposals : p \notin OwnIds /\ FromProposal(p)
         /\ \A id \in OwnIds : ~FromProposal(id) /\ id # NoId
<1>1. \A id \in OwnIds : id[1] = "own" /\ id # NoId
  BY InputsAssumption DEF OwnIds, OwnId
<1>2. \A p \in DOMAIN proposals : p[1] # "own"
  <2> TAKE p \in DOMAIN proposals
  <2>1. p = <<proposals[p].cand, proposals[p].start>> /\ proposals[p].cand \in CandidateIds
    BY DEF TypeOK, ProposalId
  <2>2. p[1] = proposals[p].cand
    BY <2>1
  <2> QED
    BY <2>1, <2>2, InputsAssumption
<1> QED
  BY <1>1, <1>2 DEF FromProposal

-----------------------------------------------------------------------------
(* Init and the steps *)

LEMMA Initially == Init => IInv
<1> SUFFICES ASSUME Init PROVE IInv
  OBVIOUS
<1> USE DEF Init
<1>1. TypeOK
  BY InputsAssumption DEF TypeOK
<1>2. RecordsTyped /\ RequestTyped /\ PendingIsFree /\ UnguardedIsKnown
  BY DEF RecordsTyped, RequestTyped, PendingIsFree, UnguardedIsKnown
<1>3. EndsAreBounded
  <2>1. 0 \in Nat
    OBVIOUS
  <2> QED
    BY <2>1 DEF EndsAreBounded
<1>4. NoDoubleBooking /\ NoSilentOverlap /\ CommitLeavesEvidence
  BY DEF NoDoubleBooking, NoSilentOverlap, CommitLeavesEvidence, Records
<1> QED
  BY <1>1, <1>2, <1>3, <1>4 DEF IInv

\* What a step keeps that touches no commitment and no proposal, and leaves no
\* commitment without its conflicts unmarked.
LEMMA QuietStep ==
  ASSUME IInv, UNCHANGED <<commitments, proposals, decisions, unguarded>>,
         conflicts \subseteq conflicts', torn \union Detecting \subseteq torn' \union Detecting',
         phase' \notin {"decide"}
  PROVE  /\ EndsAreBounded' /\ UnguardedIsKnown' /\ NoDoubleBooking' /\ NoSilentOverlap'
         /\ CommitLeavesEvidence'
         /\ \A x : IsFree(x)' <=> IsFree(x)
<1> USE DEF IInv
<1>1. EndsAreBounded' /\ UnguardedIsKnown' /\ NoDoubleBooking' /\ CommitLeavesEvidence'
  BY DEF EndsAreBounded, UnguardedIsKnown, NoDoubleBooking, CommitLeavesEvidence, Records
<1>2. NoSilentOverlap'
  BY DEF NoSilentOverlap, Records
<1>3. \A x : IsFree(x)' <=> IsFree(x)
  BY DEF IsFree
<1> QED
  BY <1>1, <1>2, <1>3

LEMMA UpsertWindowKeeps ==
  ASSUME IInv, NEW w \in WindowIds, NEW s \in WindowSpans, UpsertWindow(w, s)
  PROVE  IInv'
<1> USE DEF IInv, UpsertWindow, NewRequest
<1> DEFINE r == [id |-> w, start |-> s.start, end |-> s.end]
<1>1. TypeOK'
  BY InputsAssumption DEF TypeOK, Put
<1>2. RecordsTyped'
  <2>1. IsSpan(r)
    BY InputsAssumption DEF IsSpan
  <2>2. windows' = Put(windows, w, r)
    OBVIOUS
  <2> HIDE DEF r
  <2>3. \A x \in DOMAIN windows' :
          windows'[x] = r \/ (x \in DOMAIN windows /\ windows'[x] = windows[x])
    BY <2>2 DEF Put
  <2> QED
    BY <2>1, <2>3 DEF RecordsTyped
<1>3. RequestTyped'
  BY DEF RequestTyped, TypeOK
<1>4. Detecting' = Detecting
  BY DEF Detecting
<1>5. /\ EndsAreBounded' /\ UnguardedIsKnown' /\ NoDoubleBooking' /\ NoSilentOverlap'
      /\ CommitLeavesEvidence'
  BY <1>4, QuietStep
<1>6. PendingIsFree'
  BY DEF PendingIsFree, TypeOK
<1> QED
  BY <1>1, <1>2, <1>3, <1>5, <1>6

LEMMA UpsertConstraintSetKeeps ==
  ASSUME IInv, NEW k \in SetIds, NEW b \in SetBodies, UpsertConstraintSet(k, b)
  PROVE  IInv'
<1> USE DEF IInv, UpsertConstraintSet, NewRequest
<1> DEFINE r == [id |-> k, gap |-> b.gap, hours |-> b.hours, allowed |-> b.allowed,
                 blocked |-> b.blocked]
<1>1. TypeOK'
  BY InputsAssumption DEF TypeOK, Put
<1>2. RecordsTyped'
  <2>1. constraintSets' = Put(constraintSets, k, r) /\ r.gap = b.gap
    OBVIOUS
  <2> HIDE DEF r
  <2>2. \A x \in DOMAIN constraintSets' :
          constraintSets'[x] = r \/
          (x \in DOMAIN constraintSets /\ constraintSets'[x] = constraintSets[x])
    BY <2>1 DEF Put
  <2>3. \A x \in DOMAIN constraintSets' : \E c \in SetBodies : constraintSets'[x].gap = c.gap
    BY <2>1, <2>2 DEF RecordsTyped
  <2> QED
    BY <2>3 DEF RecordsTyped
<1>3. RequestTyped'
  BY DEF RequestTyped, TypeOK
<1>4. Detecting' = Detecting
  BY DEF Detecting
<1>5. /\ EndsAreBounded' /\ UnguardedIsKnown' /\ NoDoubleBooking' /\ NoSilentOverlap'
      /\ CommitLeavesEvidence'
  BY <1>4, QuietStep
<1>6. PendingIsFree'
  BY DEF PendingIsFree, TypeOK
<1> QED
  BY <1>1, <1>2, <1>3, <1>5, <1>6

LEMMA BeginDetectConflictsKeeps ==
  ASSUME IInv, NEW s \in CommitmentSpans, BeginDetectConflicts(s)
  PROVE  IInv'
<1> USE DEF IInv, BeginDetectConflicts, NewRequest, store
<1>1. TypeOK'
  BY InputsAssumption DEF TypeOK
<1>2. RecordsTyped' /\ RequestTyped' /\ PendingIsFree'
  BY DEF RecordsTyped, RequestTyped, PendingIsFree, TypeOK
<1>3. Detecting = {}
  BY DEF Detecting
<1>4. /\ EndsAreBounded' /\ UnguardedIsKnown' /\ NoDoubleBooking' /\ NoSilentOverlap'
      /\ CommitLeavesEvidence'
  BY <1>3, QuietStep
<1> QED
  BY <1>1, <1>2, <1>4

LEMMA StoreCandidateKeeps ==
  ASSUME IInv, NEW c \in CandidateIds, NEW b \in CandidateBodies, NEW a \in Asked,
         StoreCandidate(c, b, a)
  PROVE  IInv'
<1> USE DEF IInv, StoreCandidate, NewRequest
<1>1. DOMAIN candidates' = DOMAIN candidates \union {c}
  BY DEF Put
<1>2. TypeOK'
  BY <1>1, InputsAssumption DEF TypeOK
<1>3. RecordsTyped'
  <2>1. \A x \in DOMAIN candidates' : IsTask(candidates'[x])
    <3> TAKE x \in DOMAIN candidates'
    <3> DEFINE r == [id |-> c, earliest |-> b.earliest, latest |-> b.latest,
                     duration |-> b.duration, before |-> b.before, after |-> b.after]
    <3>0. candidates' = Put(candidates, c, r) /\ IsTask(r)
      BY InputsAssumption DEF IsTask
    <3> HIDE DEF r
    <3>1. CASE x = c
      BY <3>0, <3>1 DEF Put
    <3>2. CASE x # c
      BY <1>1, <3>0, <3>2 DEF RecordsTyped, Put
    <3> QED
      BY <3>1, <3>2
  <2> QED
    BY <2>1 DEF RecordsTyped
<1>4. RequestTyped' /\ PendingIsFree'
  BY DEF RequestTyped, PendingIsFree, TypeOK
<1>5. Detecting = {}
  BY DEF Detecting
<1>6. /\ EndsAreBounded' /\ UnguardedIsKnown' /\ NoDoubleBooking' /\ NoSilentOverlap'
      /\ CommitLeavesEvidence'
  BY <1>5, QuietStep
<1> QED
  BY <1>2, <1>3, <1>4, <1>6

\* What a new commitment keeps: it is either a caller's, and its conflicts are
\* about to be detected, or a proposal's, and free of the others.
LEMMA NewCommitment ==
  ASSUME IInv, NEW id \in OwnIds \union DOMAIN proposals, NEW r, r.id = id, IsBlock(r),
         commitments' = Put(commitments, id, r),
         UNCHANGED <<candidates, proposals, windows, constraintSets, decisions, conflicts, torn>>,
         phase = "idle", phase' # "decide", unguarded \subseteq unguarded',
         IF id \in OwnIds THEN id \in Detecting' ELSE IsFree(r),
         Unguarded(r) => id \in unguarded' \union OwnIds, id \in OwnIds => TakesTime(r),
         id \in DOMAIN proposals => proposals[id].status = "Proposed" /\ r.start = proposals[id].start
  PROVE  /\ RecordsTyped' /\ EndsAreBounded' /\ UnguardedIsKnown' /\ NoDoubleBooking'
         /\ NoSilentOverlap' /\ CommitLeavesEvidence'
<1> USE DEF IInv
<1>1. /\ DOMAIN commitments' = DOMAIN commitments \union {id}
      /\ commitments'[id] = r
      /\ \A x \in DOMAIN commitments : x # id => commitments'[x] = commitments[x]
  BY DEF Put
<1>2. RecordsTyped'
  BY <1>1 DEF RecordsTyped
<1>3. EndsAreBounded'
  <2>1. PICK n \in Nat : \A x \in DOMAIN commitments : commitments[x].end <= n
    BY DEF EndsAreBounded
  <2>2. r.end \in Nat /\ \A x \in DOMAIN commitments : commitments[x].end \in Nat
    BY DEF IsBlock, IsSpan, RecordsTyped
  <2>3. n + r.end \in Nat /\ \A x \in DOMAIN commitments' : commitments'[x].end <= n + r.end
    BY <1>1, <2>1, <2>2
  <2> QED
    BY <2>3 DEF EndsAreBounded
<1>4. UnguardedIsKnown'
  BY <1>1 DEF UnguardedIsKnown
<1>5. \A a \in Records(commitments') : a = r \/ (a \in Records(commitments) /\ a.id # id)
  BY <1>1 DEF Records, TypeOK
<1>6. Detecting = {}
  BY DEF Detecting
<1>7. \A a \in Records(commitments) :
        id \notin OwnIds => NearMidnight(a) \/ (~Overlap(r, a) /\ ~Overlap(a, r))
  BY DEF Records, IsFree, Overlap
<1>8. NoDoubleBooking'
  <2> SUFFICES ASSUME NEW a \in Records(commitments'), NEW b \in Records(commitments'),
                      FromProposal(a.id), FromProposal(b.id), a.id # b.id,
                      ~NearMidnight(a), ~NearMidnight(b)
               PROVE  ~Overlap(a, b)
    BY DEF NoDoubleBooking
  <2>1. a \in Records(commitments) /\ b \in Records(commitments) => ~Overlap(a, b)
    BY DEF NoDoubleBooking
  <2>2. a = r \/ b = r => id \notin OwnIds
    BY IdsDiffer
  <2> QED
    BY <1>5, <1>7, <2>1, <2>2
<1>9. NoSilentOverlap'
  <2> SUFFICES ASSUME NEW a \in Records(commitments'), NEW b \in Records(commitments'),
                      a.id # b.id, Overlap(a, b),
                      {a.id, b.id} \intersect (torn' \union Detecting') = {},
                      ~NearMidnight(a), ~NearMidnight(b)
               PROVE  OverlapConflict(a, b) \in conflicts'
    BY DEF NoSilentOverlap
  <2>1. a = r \/ b = r => id \notin OwnIds
    OBVIOUS
  <2>2. a \in Records(commitments) /\ b \in Records(commitments)
    BY <1>5, <1>7, <2>1
  <2>3. {a.id, b.id} \intersect (torn \union Detecting) = {}
    BY <1>6
  <2> QED
    BY <2>2, <2>3 DEF NoSilentOverlap
<1>10. CommitLeavesEvidence'
  BY <1>1 DEF CommitLeavesEvidence
<1> QED
  BY <1>2, <1>3, <1>4, <1>8, <1>9, <1>10

LEMMA AddCommitmentKeeps ==
  ASSUME IInv, NEW i \in CommitmentIds, NEW s \in CommitmentSpans, AddCommitment(i, s)
  PROVE  IInv'
<1> USE DEF AddCommitment, NewRequest
<1> DEFINE id == OwnId(i)
           r == [id |-> id, start |-> s.start, end |-> s.end]
<1>1. id \in OwnIds /\ id # NoId /\ id \notin DOMAIN proposals
  BY IdsDiffer DEF OwnIds, IInv
<1>2. IsBlock(r) /\ TakesTime(r) /\ r.id = id
  BY InputsAssumption DEF IsBlock, IsSpan, TakesTime
<1>3. /\ commitments' = Put(commitments, id, r) /\ current' = r
      /\ phase = "idle" /\ phase' = "detect"
      /\ UNCHANGED <<candidates, proposals, windows, constraintSets, decisions, conflicts,
                     pending, torn, unguarded>>
      /\ requests < MaxRequests /\ requests' = requests + 1
  OBVIOUS
<1> HIDE DEF id, r, AddCommitment, NewRequest
<1>4. id \in Detecting'
  BY <1>1, <1>2, <1>3 DEF Detecting
<1>5. /\ RecordsTyped' /\ EndsAreBounded' /\ UnguardedIsKnown' /\ NoDoubleBooking'
      /\ NoSilentOverlap' /\ CommitLeavesEvidence'
  BY <1>1, <1>2, <1>3, <1>4, NewCommitment
<1>6. /\ DOMAIN commitments' = DOMAIN commitments \union {id}
      /\ commitments'[id] = r
      /\ \A x \in DOMAIN commitments : x # id => commitments'[x] = commitments[x]
  BY <1>3 DEF Put
<1>7. TypeOK'
  BY <1>1, <1>2, <1>3, <1>6, InputsAssumption DEF TypeOK, IInv, IsBlock
<1>8. RequestTyped' /\ PendingIsFree'
  BY <1>1, <1>2, <1>3, <1>6 DEF RequestTyped, PendingIsFree, SameSpan, TypeOK, IInv
<1> QED
  BY <1>5, <1>7, <1>8 DEF IInv

LEMMA CommitProposalKeeps ==
  ASSUME IInv, NEW p \in DOMAIN proposals, CommitProposal(p)
  PROVE  IInv'
<1> USE DEF CommitProposal, NewRequest
<1> DEFINE r == [id |-> p, start |-> proposals[p].start, end |-> proposals[p].end]
<1>1. p \notin OwnIds /\ FromProposal(p)
  BY IdsDiffer DEF IInv
<1>2. IsBlock(proposals[p]) /\ IsFree(proposals[p]) /\ proposals[p].status = "Proposed"
  BY ValidIsFree DEF IInv, RecordsTyped, IsProposal
<1>3. /\ IsBlock(r) /\ IsFree(r) /\ r.id = p /\ SameSpan(r, proposals[p])
      /\ Unguarded(r) <=> Unguarded(proposals[p])
  BY <1>2 DEF IsBlock, IsSpan, IsFree, Overlap, SameSpan, Unguarded, TakesTime, NearMidnight, PaddedStart, PaddedEnd
<1>4. /\ commitments' = Put(commitments, p, r) /\ current' = [id |-> p]
      /\ phase = "idle" /\ phase' = "mark"
      /\ unguarded' = unguarded \union {x \in {p} : Unguarded(proposals[x])}
      /\ UNCHANGED <<candidates, proposals, windows, constraintSets, decisions, conflicts,
                     pending, torn>>
      /\ requests < MaxRequests /\ requests' = requests + 1
  OBVIOUS
<1> HIDE DEF r, CommitProposal, NewRequest
<1>5. Unguarded(r) => p \in unguarded'
  BY <1>3, <1>4
<1>6. /\ RecordsTyped' /\ EndsAreBounded' /\ UnguardedIsKnown' /\ NoDoubleBooking'
      /\ NoSilentOverlap' /\ CommitLeavesEvidence'
  BY <1>1, <1>2, <1>3, <1>4, <1>5, NewCommitment DEF SameSpan
<1>7. /\ DOMAIN commitments' = DOMAIN commitments \union {p}
      /\ commitments'[p] = r
      /\ \A x \in DOMAIN commitments : x # p => commitments'[x] = commitments[x]
  BY <1>4 DEF Put
<1>8. TypeOK'
  BY <1>1, <1>3, <1>4, <1>7, InputsAssumption DEF TypeOK, IInv, IsBlock
<1>9. RequestTyped' /\ PendingIsFree'
  BY <1>2, <1>3, <1>4, <1>7 DEF RequestTyped, PendingIsFree, TypeOK, IInv
<1> QED
  BY <1>6, <1>8, <1>9 DEF IInv

LEMMA RecordConflictsKeeps == ASSUME IInv, RecordConflicts PROVE IInv'
<1> USE DEF IInv, RecordConflicts, Idle
<1>1. TypeOK' /\ RecordsTyped' /\ RequestTyped' /\ PendingIsFree'
  BY DEF TypeOK, RecordsTyped, RequestTyped, PendingIsFree, Statuses
<1>2. EndsAreBounded' /\ UnguardedIsKnown' /\ NoDoubleBooking' /\ CommitLeavesEvidence'
  BY DEF EndsAreBounded, UnguardedIsKnown, NoDoubleBooking, CommitLeavesEvidence, Records
<1>3. NoSilentOverlap'
  <2> SUFFICES ASSUME NEW a \in Records(commitments), NEW b \in Records(commitments),
                      a.id # b.id, Overlap(a, b),
                      a.id \notin torn', b.id \notin torn',
                      ~NearMidnight(a), ~NearMidnight(b)
               PROVE  OverlapConflict(a, b) \in conflicts'
    BY DEF NoSilentOverlap, Records
  <2>1. conflicts' = conflicts \union DetectedConflicts /\ torn' = torn \ {current.id}
    OBVIOUS
  <2>2. CASE current.id \in {a.id, b.id} /\ current.id # NoId
    <3>1. SameSpan(current, commitments[current.id]) /\ TakesTime(current)
      BY <2>2 DEF RequestTyped
    <3>2. commitments[a.id] = a /\ commitments[b.id] = b /\ IsBlock(a) /\ IsBlock(b)
      BY DEF Records, RecordsTyped, TypeOK
    <3>3. Overlap(a, current) /\ Overlap(b, current)
      BY <2>2, <3>1, <3>2 DEF Overlap, SameSpan, TakesTime, IsBlock, IsSpan
    <3>4. a \in InWindow(Records(commitments), current) /\ b \in InWindow(Records(commitments), current)
      BY <3>3 DEF InWindow
    <3>5. OverlapConflict(a, b) \in DetectedConflicts
      <4> DEFINE S == InWindow(Records(commitments), current)
      <4>1. <<a, b>> \in {q \in S \X S : q[1].id # q[2].id /\ Overlap(q[1], q[2])}
        BY <3>4
      <4>2. <<a, b>>[1] = a /\ <<a, b>>[2] = b
        OBVIOUS
      <4> QED
        BY <4>1, <4>2 DEF DetectedConflicts, DetectConflicts
    <3> QED
      BY <2>1, <3>5
  <2>3. CASE ~(current.id \in {a.id, b.id} /\ current.id # NoId)
    <3>1. torn \subseteq OwnIds /\ NoId \notin torn
      BY IdsDiffer DEF TypeOK, OwnIds
    <3>2. {a.id, b.id} \intersect (torn \union Detecting) = {}
      BY <2>1, <2>3, <3>1 DEF Detecting
    <3> QED
      BY <2>1, <3>2 DEF NoSilentOverlap
  <2> QED
    BY <2>2, <2>3
<1> QED
  BY <1>1, <1>2, <1>3

LEMMA GenerateKeeps == ASSUME IInv, Generate PROVE IInv'
<1> USE DEF IInv, Generate
<1> DEFINE task == candidates[current.id]
           limits == ConstraintOf(current.asked)
<1>1. IsTask(task) /\ current.asked \in Asked /\ current.id \in DOMAIN candidates
  BY DEF RecordsTyped, RequestTyped, TypeOK
<1>2. Known(limits)
  BY <1>1, KnownAsked
<1>3. pending' = GenerateProposals(task, InHorizon(commitments, task), InHorizon(windows, task), limits)
  OBVIOUS
<1> HIDE DEF task, limits
<1>4. \A x \in pending' : IsBlock(x) /\ IsFree(x)
  BY <1>1, <1>2, <1>3, PlacedIsFree
<1>5. Detecting = {} /\ conflicts \subseteq conflicts'
  BY DEF Detecting
<1>6. /\ EndsAreBounded' /\ UnguardedIsKnown' /\ NoDoubleBooking' /\ NoSilentOverlap'
      /\ CommitLeavesEvidence' /\ \A x : IsFree(x)' <=> IsFree(x)
  BY <1>5, QuietStep
<1>7. PendingIsFree'
  BY <1>4 DEF PendingIsFree, IsFree
<1>8. TypeOK'
  BY <1>1 DEF TypeOK, NoRequest
<1>9. RecordsTyped' /\ RequestTyped'
  BY <1>1, <1>4 DEF RecordsTyped, RequestTyped, NoRequest
<1> QED
  BY <1>6, <1>7, <1>8, <1>9

\* The block AppendProposal takes: there always is a first one.
First == CHOOSE x \in pending : \A y \in pending : x.start <= y.start

LEMMA FirstExists == ASSUME IInv, phase = "append" PROVE First \in pending
<1> DEFINE T == {x.start : x \in pending}
<1>1. pending # {} /\ \A x \in pending : x.start \in Nat
  BY DEF IInv, RequestTyped, IsBlock, IsSpan
<1>2. T \subseteq Nat /\ T # {}
  BY <1>1
<1>3. PICK t \in T : \A y \in T : t <= y
  BY <1>2, HasLeast
<1>4. PICK x \in pending : t = x.start
  BY <1>3
<1>5. \A y \in pending : x.start <= y.start
  BY <1>3, <1>4
<1> QED
  BY <1>5 DEF First

\* A block that takes time is only proposed under the id of a commitment if
\* that commitment does not stand in its way.
LEMMA OverwrittenIsUnguarded ==
  ASSUME IInv, phase = "append", NEW p \in DOMAIN proposals, p \in DOMAIN commitments,
         p = ProposalId(current.id, First.start), TakesTime(First)
  PROVE  Unguarded(commitments[p]) /\ p \in unguarded
<1> USE DEF IInv
<1>1. First \in pending /\ IsBlock(First) /\ IsFree(First)
  BY FirstExists DEF RequestTyped, PendingIsFree
<1>2. commitments[p].start = First.start
  <2>1. <<proposals[p].cand, proposals[p].start>> = <<current.id, First.start>>
    BY DEF TypeOK, ProposalId
  <2>2. commitments[p].start = proposals[p].start
    BY DEF RecordsTyped
  <2> QED
    BY <2>1, <2>2
<1>3. IsBlock(commitments[p])
  BY DEF RecordsTyped
<1>4. TakesTime(commitments[p]) => Overlap(First, commitments[p])
  BY <1>1, <1>2, <1>3 DEF Overlap, TakesTime, IsBlock, IsSpan
<1>5. Unguarded(commitments[p])
  BY <1>1, <1>4 DEF IsFree, Unguarded
<1>6. p \notin OwnIds
  BY IdsDiffer
<1> QED
  BY <1>5, <1>6 DEF UnguardedIsKnown

LEMMA AppendProposalKeeps == ASSUME IInv, AppendProposal PROVE IInv'
<1> USE DEF AppendProposal
<1> DEFINE p == ProposalId(current.id, First.start)
           r == NewProposal(current.id, First, ConstraintOf(current.asked))
<1>1. /\ phase = "append" /\ proposals' = Put(proposals, p, r)
      /\ IF pending = {First} THEN Idle ELSE pending' = pending \ {First} /\ UNCHANGED <<phase, current>>
      /\ UNCHANGED <<commitments, candidates, windows, constraintSets, decisions, conflicts,
                     torn, unguarded, requests>>
  BY DEF First
<1>2. First \in pending /\ IsBlock(First)
  BY <1>1, FirstExists DEF IInv, RequestTyped
<1>3. /\ r.start = First.start /\ r.end = First.end /\ r.cand = current.id
      /\ r.status = "Proposed" /\ r.version = 1
  BY DEF NewProposal
<1>4. IsBlock(r) /\ p = ProposalId(r.cand, r.start)
  BY <1>2, <1>3 DEF IsBlock, IsSpan
<1>16. IsProposal(r)
  BY <1>3, <1>4 DEF IsProposal, NewProposal
<1>5. current.id \in DOMAIN candidates /\ current.asked \in Asked
  BY <1>1 DEF IInv, TypeOK, RequestTyped
<1>6. /\ phase' \in {"idle", "append"} /\ pending' \subseteq pending
      /\ phase' = "append" => pending' # {} /\ current' = current
      /\ phase' = "idle" => pending' = {}
  BY <1>1, <1>2 DEF Idle
<1>7. p \in DOMAIN proposals /\ p \in DOMAIN commitments /\ TakesTime(First) => p \in unguarded
  BY <1>1, OverwrittenIsUnguarded
<1>17. TakesTime(First) <=> TakesTime(r)
  BY <1>3 DEF TakesTime
<1>18. p \notin OwnIds
  <2>1. p[1] = current.id /\ current.id \in CandidateIds
    BY <1>5 DEF IInv, TypeOK, ProposalId
  <2> QED
    BY <2>1, InputsAssumption DEF OwnIds, OwnId
<1>19. p \in DOMAIN commitments => p \in DOMAIN proposals /\ commitments[p].start = r.start
  <2> SUFFICES ASSUME p \in DOMAIN commitments
               PROVE  p \in DOMAIN proposals /\ commitments[p].start = r.start
    OBVIOUS
  <2>1. p \in DOMAIN proposals /\ commitments[p].start = proposals[p].start
    BY <1>18 DEF IInv, RecordsTyped
  <2>2. <<proposals[p].cand, proposals[p].start>> = <<current.id, First.start>>
    BY <2>1 DEF IInv, TypeOK, ProposalId
  <2> QED
    BY <1>3, <2>1, <2>2
<1> HIDE DEF p, r, AppendProposal
<1>8. /\ DOMAIN proposals' = DOMAIN proposals \union {p}
      /\ proposals'[p] = r
      /\ \A x \in DOMAIN proposals : x # p => proposals'[x] = proposals[x]
  BY <1>1 DEF Put
<1> USE DEF IInv
<1>9. TypeOK'
  BY <1>1, <1>3, <1>4, <1>5, <1>6, <1>8 DEF TypeOK, Statuses
<1>10. RecordsTyped'
  BY <1>1, <1>8, <1>16, <1>19 DEF RecordsTyped
<1>11. RequestTyped'
  BY <1>1, <1>5, <1>6 DEF RequestTyped
<1>12. EndsAreBounded' /\ UnguardedIsKnown' /\ NoDoubleBooking'
  BY <1>1 DEF EndsAreBounded, UnguardedIsKnown, NoDoubleBooking, Records
<1>13. PendingIsFree'
  BY <1>1, <1>6 DEF PendingIsFree, IsFree
<1>14. NoSilentOverlap'
  <2>1. Detecting' = {} /\ Detecting = {}
    BY <1>1, <1>6 DEF Detecting
  <2> QED
    BY <1>1, <2>1 DEF NoSilentOverlap, Records
<1>15. CommitLeavesEvidence'
  BY <1>1, <1>3, <1>7, <1>8, <1>17, <1>19 DEF CommitLeavesEvidence, TypeOK
<1> QED
  BY <1>9, <1>10, <1>11, <1>12, <1>13, <1>14, <1>15

Marked(q) == [q EXCEPT !.status = "Committed", !.version = @ + 1]

LEMMA MarkedIs ==
  ASSUME NEW c, NEW st, NEW e, NEW b, NEW x, NEW w, NEW q,
         q = [cand |-> c, start |-> st, end |-> e, basedOn |-> b, status |-> x,
              version |-> 1, wanted |-> w]
  PROVE  Marked(q) = [cand |-> c, start |-> st, end |-> e, basedOn |-> b,
                      status |-> "Committed", version |-> 2, wanted |-> w]
<1>1. PICK r : r = [q EXCEPT !.status = "Committed", !.version = @ + 1]
  OBVIOUS
<1>2. r = [q EXCEPT !.status = "Committed", !.version = 2]
  BY <1>1
<1> QED
  BY <1>1, <1>2 DEF Marked

LEMMA MarkCommittedKeeps == ASSUME IInv, MarkCommitted PROVE IInv'
<1> USE DEF IInv, MarkCommitted
<1> DEFINE p == current.id
<1>1. /\ p \in DOMAIN proposals /\ p \in DOMAIN commitments
      /\ SameSpan(commitments[p], proposals[p]) /\ proposals[p].version = 1
      /\ IsProposal(proposals[p])
  BY DEF TypeOK, RequestTyped, RecordsTyped, IsProposal
<1>2. /\ DOMAIN proposals' = DOMAIN proposals
      /\ \A x \in DOMAIN proposals : x # p => proposals'[x] = proposals[x]
  BY <1>1
<1>3. /\ proposals'[p].status = "Committed" /\ proposals'[p].version = 2
      /\ proposals'[p].start = proposals[p].start /\ proposals'[p].end = proposals[p].end
      /\ proposals'[p].cand = proposals[p].cand /\ IsProposal(proposals'[p])
  <2> DEFINE q == proposals[p]
  <2>1. proposals'[p] = Marked(q)
    BY <1>1 DEF Marked
  <2>2. PICK c, st, e, b, x, w :
          q = [cand |-> c, start |-> st, end |-> e, basedOn |-> b, status |-> x,
               version |-> 1, wanted |-> w]
    BY <1>1 DEF IsProposal
  <2>3. IsBlock(q)
    BY <1>1 DEF IsProposal
  <2> HIDE DEF q, p, MarkCommitted
  <2>4. proposals'[p] = [cand |-> c, start |-> st, end |-> e, basedOn |-> b,
                         status |-> "Committed", version |-> 2, wanted |-> w]
    BY <2>1, <2>2, MarkedIs
  <2>5. q.start = st /\ q.end = e /\ q.cand = c
    BY <2>2
  <2>6. IsProposal(proposals'[p])
    BY <2>3, <2>4, <2>5 DEF IsProposal, IsBlock, IsSpan
  <2> QED
    BY <2>4, <2>5, <2>6 DEF q
<1>4. PendingIsFree' /\ EndsAreBounded' /\ UnguardedIsKnown' /\ NoDoubleBooking'
  BY DEF PendingIsFree, IsFree, EndsAreBounded, UnguardedIsKnown, NoDoubleBooking, Records
<1>5. NoSilentOverlap'
  BY DEF NoSilentOverlap, Records, Detecting
<1>6. /\ phase' = "decide"
      /\ UNCHANGED <<commitments, candidates, windows, constraintSets, decisions, conflicts,
                     current, pending, torn, unguarded, requests>>
      /\ phase = "mark"
  OBVIOUS
<1> HIDE DEF p, MarkCommitted
<1>7. TypeOK'
  BY <1>1, <1>2, <1>3, <1>6 DEF TypeOK, Statuses, p
<1>8. RecordsTyped'
  BY <1>1, <1>2, <1>3, <1>6 DEF RecordsTyped
<1>9. RequestTyped'
  BY <1>1, <1>3, <1>6 DEF RequestTyped, TypeOK, p
<1>10. CommitLeavesEvidence'
  BY <1>1, <1>2, <1>3, <1>6 DEF CommitLeavesEvidence, SameSpan, TypeOK
<1> QED
  BY <1>4, <1>5, <1>7, <1>8, <1>9, <1>10

LEMMA RecordDecisionKeeps == ASSUME IInv, RecordDecision PROVE IInv'
<1> USE DEF IInv, RecordDecision, Idle
<1>1. TypeOK'
  BY DEF TypeOK
<1>2. RecordsTyped' /\ RequestTyped' /\ PendingIsFree'
  BY DEF RecordsTyped, RequestTyped, PendingIsFree
<1>3. EndsAreBounded' /\ UnguardedIsKnown' /\ NoDoubleBooking'
  BY DEF EndsAreBounded, UnguardedIsKnown, NoDoubleBooking, Records
<1>4. NoSilentOverlap'
  BY DEF NoSilentOverlap, Records, Detecting
<1>5. CommitLeavesEvidence'
  BY DEF CommitLeavesEvidence, RequestTyped
<1> QED
  BY <1>1, <1>2, <1>3, <1>4, <1>5

LEMMA CrashKeeps == ASSUME IInv, Crash PROVE IInv'
<1> USE DEF IInv, Crash, Idle
<1>1. Detecting \subseteq OwnIds
  BY DEF Detecting, RequestTyped
<1>2. TypeOK'
  BY <1>1 DEF TypeOK, OwnIds
<1>3. RecordsTyped' /\ RequestTyped' /\ PendingIsFree'
  BY DEF RecordsTyped, RequestTyped, PendingIsFree
<1>4. /\ EndsAreBounded' /\ UnguardedIsKnown' /\ NoDoubleBooking' /\ NoSilentOverlap'
      /\ CommitLeavesEvidence'
  BY QuietStep
<1> QED
  BY <1>2, <1>3, <1>4

\* The invariant of the module's tables and of its request holds throughout.
THEOREM CoordinationInvariant == Spec => []IInv
<1>1. IInv /\ [Next]_vars => IInv'
  <2> SUFFICES ASSUME IInv, [Next]_vars PROVE IInv'
    OBVIOUS
  <2>1. CASE UNCHANGED vars
    <3> USE <2>1 DEF vars
    <3>1. TypeOK' /\ RecordsTyped' /\ RequestTyped' /\ EndsAreBounded'
      BY DEF IInv, TypeOK, RecordsTyped, RequestTyped, EndsAreBounded
    <3>2. PendingIsFree' /\ UnguardedIsKnown' /\ NoDoubleBooking' /\ CommitLeavesEvidence'
      BY DEF IInv, PendingIsFree, IsFree, UnguardedIsKnown, NoDoubleBooking, CommitLeavesEvidence,
             Records
    <3>3. NoSilentOverlap'
      BY DEF IInv, NoSilentOverlap, Records, Detecting
    <3> QED
      BY <3>1, <3>2, <3>3 DEF IInv
  <2>2. CASE Next
    BY <2>2, UpsertWindowKeeps, UpsertConstraintSetKeeps, AddCommitmentKeeps,
       BeginDetectConflictsKeeps, RecordConflictsKeeps, StoreCandidateKeeps, GenerateKeeps,
       AppendProposalKeeps, CommitProposalKeeps, MarkCommittedKeeps, RecordDecisionKeeps,
       CrashKeeps DEF Next
  <2> QED
    BY <2>1, <2>2
<1> QED
  BY Initially, <1>1, PTL DEF Spec

\* The tables, the request being executed and the history keep their types.
THEOREM CoordinationTypes == Spec => []TypeOK
<1>1. IInv => TypeOK
  BY DEF IInv
<1> QED
  BY <1>1, CoordinationInvariant, PTL

\* Two committed proposals never overlap, unless one is so near midnight that
\* it is not padded (proposal_still_valid at commit time).
THEOREM NeverDoubleBooked == Spec => []NoDoubleBooking
<1>1. IInv => NoDoubleBooking
  BY DEF IInv
<1> QED
  BY <1>1, CoordinationInvariant, PTL

\* Two overlapping commitments have their conflict on record, unless a crash
\* cut a detection off (detect_conflicts over the new commitment's own window).
THEOREM OverlapsAreOnRecord == Spec => []NoSilentOverlap
<1>1. IInv => NoSilentOverlap
  BY DEF IInv
<1> QED
  BY <1>1, CoordinationInvariant, PTL

\* A committed proposal has its commitment, and a decision its committed
\* proposal, through any crash (commit_proposal), near midnight and blocks of
\* no minutes excepted.
THEOREM CommitsHaveEvidence == Spec => []CommitLeavesEvidence
<1>1. IInv => CommitLeavesEvidence
  BY DEF IInv
<1> QED
  BY <1>1, CoordinationInvariant, PTL

\* A committed proposal that takes time, away from midnight, is only ever
\* written over by a block of no minutes: its own commitment blocks its task
\* (propose_time_blocks).
THEOREM CommitsAreFinal == Spec => CommittedIsFinal
<1>1. ASSUME IInv, Next, NEW p \in DOMAIN proposals, proposals[p].status = "Committed",
             ~Unguarded(proposals[p])
      PROVE  proposals'[p].status = "Committed" \/ ~TakesTime(proposals'[p])
  <2>1. CASE AppendProposal
    <3>1. /\ phase = "append"
          /\ proposals' = Put(proposals, ProposalId(current.id, First.start),
                              NewProposal(current.id, First, ConstraintOf(current.asked)))
      BY <2>1 DEF AppendProposal, First
    <3>2. CASE p # ProposalId(current.id, First.start)
      <4>1. proposals'[p] = proposals[p]
        BY <3>1, <3>2 DEF Put
      <4> QED
        BY <1>1, <4>1
    <3>3. CASE p = ProposalId(current.id, First.start)
      <4>1. p \in DOMAIN commitments /\ SameSpan(commitments[p], proposals[p])
        BY <1>1 DEF IInv, CommitLeavesEvidence, SameSpan
      <4>2. ~Unguarded(commitments[p])
        BY <1>1, <4>1
           DEF Unguarded, TakesTime, NearMidnight, SameSpan, PaddedStart, PaddedEnd
      <4>3. ~TakesTime(First)
        BY <1>1, <3>1, <3>3, <4>1, <4>2, OverwrittenIsUnguarded
      <4>4. proposals'[p] = NewProposal(current.id, First, ConstraintOf(current.asked))
        BY <3>1, <3>3 DEF Put
      <4> QED
        BY <4>3, <4>4 DEF NewProposal, TakesTime
    <3> QED
      BY <3>2, <3>3
  <2>2. CASE MarkCommitted
    BY <1>1, <2>2 DEF MarkCommitted
  <2>3. CASE UNCHANGED proposals
    BY <1>1, <2>3
  <2> QED
    BY <1>1, <2>1, <2>2, <2>3
       DEF Next, UpsertWindow, UpsertConstraintSet, AddCommitment, BeginDetectConflicts,
           RecordConflicts, StoreCandidate, Generate, CommitProposal, RecordDecision, Crash, store
<1>2. IInv /\ [Next]_vars =>
        [\A p \in DOMAIN proposals :
           proposals[p].status = "Committed" /\ ~Unguarded(proposals[p])
           => proposals'[p].status = "Committed" \/ ~TakesTime(proposals'[p])]_vars
  BY <1>1
<1> QED
  BY <1>2, CoordinationInvariant, PTL DEF Spec, CommittedIsFinal
=============================================================================
