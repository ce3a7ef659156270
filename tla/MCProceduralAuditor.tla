------------------------ MODULE MCProceduralAuditor ------------------------
(* An instance of ProceduralAuditor for TLC.                               *)
EXTENDS ProceduralAuditor

Change(d, e, o, load) ==
  [duration |-> d, effort |-> e, outcome |-> o, repeatable |-> Keep, load |-> load]

\* A heavy activity of little value; an attribute that cannot be converted.
Heavy == Change(30, 8, 3, "3")
Spoil == Change(Keep, Keep, Keep, NotANumber)
AllChanges == {Heavy, Spoil}
AllItems == {Merged(FreshItem, Heavy), Merged(FreshItem, Spoil), Merged(Merged(FreshItem, Heavy), Spoil)}
AuditBodies == {TriageBody(i, r, t) : i \in AllItems, r \in RunIds, t \in Times}
AuditIds == {StableProposalId(a, i) : a \in Activities, i \in AllItems}
\* What the command records, or a state that leaves no room for approvals.
AuditSnapshots == {RunSnapshot(t) : t \in Times} \union
  {[capturedAt |-> 1, notes |-> "n", active |-> 2, backlog |-> 0, strain |-> "steady"]}
=============================================================================
