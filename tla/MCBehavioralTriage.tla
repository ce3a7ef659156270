------------------------- MODULE MCBehavioralTriage -------------------------
(* Instances of BehavioralTriage for TLC.                                  *)
EXTENDS BehavioralTriage

Body(pr, e, b, ear, lat) ==
  [priority |-> pr, effort |-> e, benefit |-> b, earliest |-> ear, latest |-> lat, text |-> pr]

Urgent   == Body("High", 1, 1, 2, NoTime)        \* valuable, not before 2
Heavy    == Body("Low", 3, 1, NoTime, NoTime)    \* of low value, passes only the wide gates
Expiring == Body("Normal", 1, 2, NoTime, 1)      \* good ROI, no use after 1
Routine  == Body("Normal", 1, 2, NoTime, NoTime) \* the same, never expires

LifecycleBodies == {Urgent, Heavy, Expiring}
CapBodies == {Routine}

Snap(t, a, st) == [capturedAt |-> t, notes |-> "n", active |-> a, backlog |-> 0, strain |-> st]

\* Medium with room for one, Low with room for one and a narrow gate, and
\* Recovery with no room at all.
LifecycleSnapshots == {Snap(1, 1, "steady"), Snap(1, 0, "strained"), Snap(2, 0, "exhausted")}
NoSnapshots == {}
=============================================================================
