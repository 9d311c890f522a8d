----------------------------- MODULE Instances -----------------------------
(***************************************************************************)
(* What the registry, the container backend and the servers talk about:     *)
(* instance ids, and the create requests that name them.                    *)
(***************************************************************************)
EXTENDS Integers

CONSTANTS
    InstanceIds,      \* "chal-<challenge>-<team>"
    Launches,         \* create requests, and the UserData each would produce
    Kills,            \* delete requests
    InstanceOf,       \* the instance id a request names
    None              \* no value

ASSUME InstancesAssumption ==
    /\ InstanceOf \in [Launches \cup Kills -> InstanceIds]
    /\ None \notin InstanceIds \cup Launches \cup Nat
    /\ Launches \cap Kills = {}
=============================================================================
