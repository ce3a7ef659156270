---------------------------- MODULE MCScheduling ----------------------------
(***************************************************************************)
(* Instances of the scheduling modules for TLC, on a clock of quarters of  *)
(* an hour.  A behavior is one of the coordination module (part =          *)
(* "module"), in the afternoon and evening of one day, or one that builds  *)
(* an input for the engine alone (part = "engine"), in the hours around a  *)
(* midnight, or one of the two scheduling commands (part = "commands"), on *)
(* the days of a month.                                                    *)
(***************************************************************************)
EXTENDS SchedulingCoordination, SchedulingPlacement, SchedulingCandidates, TLC

S(s, e) == [start |-> s, end |-> e]
Task(e, l, d, b, a) == [earliest |-> e, latest |-> l, duration |-> d, before |-> b, after |-> a]
Inline(g, h) == [id |-> NoId, gap |-> g, hours |-> h]
Named(k) == [id |-> k, gap |-> 0, hours |-> FALSE]
SetBody(g, h, a, b) == [gap |-> g, hours |-> h, allowed |-> a, blocked |-> b]

\* Two commitments before the end of work, at 68, and one before midnight.
MCSpans == {S(64, 66), S(65, 67), S(94, 95)}
MCWindows == {S(63, 95), S(67, 64)}
\* The last task takes no time.
MCTasks == {Task(63, 95, 2, 0, 0), Task(64, 95, 1, 1, 0), Task(63, 95, 0, 0, 0)}
MCSets == {SetBody(1, FALSE, {}, {})}
MCAsked == {Inline(0, TRUE), Inline(1, FALSE), Named("set")}

\* Long tasks fit from 9:00 but not from 12:00, or not into a day at all.
Body(m, p, e) == [mode |-> m, priority |-> p, effort |-> e, status |-> "Approved"]
MCBodies ==
  {Body("ScheduledPrompt", "Low", 24), Body("SuggestivePrompt", "High", 24),
   Body("SuggestivePrompt", "Critical", 4), Body("SuggestivePrompt", "Normal", 4),
   Body("ScheduledPrompt", "High", 0), Body("ScheduledPrompt", "High", 70)}

\* What the proofs assume of the inputs.
ASSUME EngineInputsAssumption == PlacementInputs /\ CommandInputs

\* Nothing tells two ids of a kind apart.
MCSymmetry ==
  Permutations(CommitmentIds) \union Permutations(CandidateIds) \union Permutations(Interventions)

VARIABLE part

MCInit ==
  /\ Init /\ CommandInit /\ PlacementInit
  /\ part \in {"module", "engine", "commands"}
  /\ part # "engine" => /\ cand = CHOOSE c \in Candidates : TRUE
                        /\ cs = CHOOSE k \in ConstraintSets : TRUE

MCNext ==
  /\ \/ part = "module" /\ Next /\ UNCHANGED <<placementVars, commandVars>>
     \/ part = "engine" /\ PlacementNext /\ UNCHANGED <<vars, commandVars>>
     \/ part = "commands" /\ CommandNext /\ UNCHANGED <<vars, placementVars>>
  /\ UNCHANGED part

MCSpec == MCInit /\ [][MCNext]_<<vars, part, placementVars, commandVars>>
=============================================================================
