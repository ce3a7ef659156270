--------------------------- MODULE MCControlPlane ---------------------------
(* Instances of ControlPlane for TLC. *)
EXTENDS ControlPlane

D(id, caps, tier) == [id |-> id, capabilities |-> caps, tier |-> tier]

\* The auditor dispatches to triage; the others want what is taken, a
\* capability of triage or its id, or have an empty id or capability.
MCDescriptor ==
  [auditor |-> D("meta", {"audit"}, 0), triage |-> D("behavioral", {"triage", "state"}, 1),
   rival |-> D("stub", {"other", "triage"}, 0), twin |-> D("behavioral", {"other"}, 0),
   nameless |-> D(NoId, {"other"}, 0), blank |-> D("blank", {NoCapability}, 0)]
MCCalls == [m \in Modules |-> IF m = "auditor" THEN {"triage", "other"} ELSE {}]
=============================================================================
