--------------------------- MODULE MCOrchestrator ---------------------------
(* Small instances of Orchestrator for TLC. *)
EXTENDS Orchestrator, TLC

(* Every request names the same instance. *)
OneInstance == [r \in Launches \cup Kills |-> CHOOSE id \in InstanceIds : TRUE]

RequestSymmetry == Permutations(Launches) \cup Permutations(Kills)

(* Once all the create requests have begun there are no faults, and a       *)
(* delete request or the pruner's clock, not both.                          *)
Begun == {r \in Launches \cup Kills : pc'[r] \notin {"check", "unregisterGet"}}
AllOrFaults ==
    Launches \subseteq Begun => faults' = 0 /\ (now' = 0 \/ Kills \cap Begun = {})
=============================================================================
