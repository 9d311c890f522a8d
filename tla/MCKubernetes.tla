---------------------------- MODULE MCKubernetes ----------------------------
(* Small instances of KubernetesBackend for TLC: every request names the    *)
(* same instance.                                                           *)
EXTENDS KubernetesBackend

OneInstance == [r \in Launches \cup Kills |-> CHOOSE id \in InstanceIds : TRUE]
=============================================================================
