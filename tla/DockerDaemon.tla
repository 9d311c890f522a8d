---------------------------- MODULE DockerDaemon ----------------------------
(***************************************************************************)
(* The Docker daemon, as far as backends/docker_backend.py uses it: named   *)
(* containers and named volumes.  (External: modelled from its use.)        *)
(*                                                                         *)
(* Services are numbered in the order the backend walks them: the anvil     *)
(* containers of a request first, then its daemon containers.  Container    *)
(* <<l, s>> is the one launch l created for service s; its name,            *)
(* "{instance_id}-{service}", is shared by all launches of that instance.   *)
(***************************************************************************)
EXTENDS Instances

CONSTANTS
    NumAnvils,        \* anvil nodes of an instance
    NumDaemons        \* challenge daemons of an instance

ASSUME DockerAssumption == NumAnvils \in Nat \ {0} /\ NumDaemons \in Nat

VARIABLES
    containers,       \* containers that exist
    running,          \* containers whose process is running
    volumes           \* named volumes that exist

dockerVars == <<containers, running, volumes>>

NumServices == NumAnvils + NumDaemons
Services == 1 .. NumServices
IsAnvil(s) == s <= NumAnvils

DockerInit == containers = {} /\ running = {} /\ volumes = {}

DockerTypeOK ==
    /\ containers \subseteq Launches \X Services
    /\ running \subseteq containers
    /\ volumes \subseteq InstanceIds

(* The launches whose container holds the name of service s of instance id. *)
HoldersOf(id, s) == {l \in Launches : InstanceOf[l] = id /\ <<l, s>> \in containers}

NameTaken(id, s) == HoldersOf(id, s) # {}

(* containers.get(name), where the name exists. *)
Holder(id, s) == CHOOSE l \in Launches : l \in HoldersOf(id, s)

(* volumes.create(name): creating a volume that exists returns it. *)
CreateVolume(id) ==
    /\ volumes' = volumes \cup {id}
    /\ UNCHANGED <<containers, running>>

(* containers.run(name, detach=True): create, then start.  A volume named   *)
(* by a mount is created when it is missing.                                *)
RunContainer(l, s, started) ==
    /\ containers' = containers \cup {<<l, s>>}
    /\ running' = IF started THEN running \cup {<<l, s>>} ELSE running
    /\ volumes' = IF IsAnvil(s) THEN volumes \cup {InstanceOf[l]} ELSE volumes

(* container.kill(); the restart policy does not revive a killed container. *)
KillContainer(l, s) ==
    /\ running' = running \ {<<l, s>>}
    /\ UNCHANGED <<containers, volumes>>

(* container.remove() of a killed container. *)
RemoveContainer(l, s) ==
    /\ containers' = containers \ {<<l, s>>}
    /\ running' = running \ {<<l, s>>}
    /\ UNCHANGED volumes

(* A volume mounted by a container cannot be removed. *)
VolumeInUse(id) == \E s \in 1 .. NumAnvils : NameTaken(id, s)

RemoveVolume(id) ==
    /\ volumes' = IF VolumeInUse(id) THEN volumes ELSE volumes \ {id}
    /\ UNCHANGED <<containers, running>>
=============================================================================
