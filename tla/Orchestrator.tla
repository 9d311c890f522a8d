---------------------------- MODULE Orchestrator ----------------------------
(***************************************************************************)
(* The orchestrator with the Redis registry and the Docker backend:         *)
(* ctf_server/orchestrator.py, backends/backend.py,                         *)
(* backends/docker_backend.py, databases/redisdb.py.                        *)
(*                                                                         *)
(* Each request is served by a thread of its own (FastAPI runs the          *)
(* synchronous handlers in a thread pool, and several servers may run), and *)
(* each backend has a pruner thread.  A thread's step is one call to Redis  *)
(* or to Docker; nothing is locked between two steps.                       *)
(***************************************************************************)
EXTENDS RedisDatabase, DockerDaemon

CONSTANTS
    Pruners,          \* pruner threads, one per orchestrator process
    Timeout,          \* CreateInstanceRequest.timeout, in seconds
    MaxTime,          \* bound on the clock, in ticks
    MaxFaults         \* bound on refused calls, lost connections and crashes

ASSUME OrchestratorAssumption ==
    /\ Pruners \cap (Launches \cup Kills) = {}
    /\ Timeout \in Nat /\ MaxTime \in Nat /\ MaxFaults \in Nat

VARIABLES
    now,              \* time.time(), in ticks
    expires_at,       \* UserData.expires_at of each launch
    pc,               \* what each thread does next
    pos,              \* service the thread's current loop is at
    target,           \* instance id the thread works on
    seen,             \* document read by the first half of unregister_instance
    handle,           \* launch that created the container being deleted
    listing,          \* pruner: ids get_expired_instances still has to fetch
    todo,             \* pruner: fetched instances still to be killed
    absent,           \* pruner: fetched entries that were None
    leaked,           \* ghost: names (0 = volume) whose deletion a fault skipped
    faults            \* faults so far

threadVars == <<pc, pos, target, seen, handle, listing, todo, absent>>
timeVars == <<now, expires_at>>
faultVars == <<leaked, faults>>
vars == <<redisVars, dockerVars, threadVars, timeVars, faultVars>>

Threads == Launches \cup Kills \cup Pruners

(* Where a launch holds resources, and where a thread deletes containers. *)
Creating == {"run", "inspect", "connect", "setBalance", "inspectDaemon", "stamp", "register"}
Deleting == {"getContainer", "killContainer", "removeContainer"}

LaunchLabels ==
    {"check", "volume", "ok", "published", "exists", "failed", "deleteVolume", "crashed"}
      \cup Creating \cup Deleting
KillLabels ==
    {"unregisterGet", "unregisterExec", "deleteVolume", "deleted", "notFound", "error", "crashed"}
      \cup Deleting
PrunerLabels ==
    {"list", "fetch", "prune", "unregisterGet", "unregisterExec", "deleteVolume"} \cup Deleting
Answered == {"ok", "published", "exists", "failed", "deleted", "notFound", "error", "crashed"}

LabelsOf(t) ==
    IF t \in Launches THEN LaunchLabels ELSE IF t \in Kills THEN KillLabels ELSE PrunerLabels

ThreadTypeOK ==
    /\ pc \in [Threads -> LaunchLabels \cup KillLabels \cup PrunerLabels]
    /\ \A t \in Threads : pc[t] \in LabelsOf(t)
    /\ pos \in [Threads -> 0 .. NumServices]
    /\ target \in [Threads -> InstanceIds \cup {None}]
    /\ seen \in [Threads -> Launches \cup {None}]
    /\ handle \in [Threads -> Launches \cup {None}]

RoundTypeOK ==
    /\ listing \in [Pruners -> SUBSET InstanceIds]
    /\ todo \in [Pruners -> SUBSET InstanceIds]
    /\ absent \in [Pruners -> SUBSET InstanceIds]

TimeTypeOK == now \in Nat /\ expires_at \in [Launches -> Nat]

FaultTypeOK ==
    /\ leaked \subseteq InstanceIds \X (0 .. NumServices)
    /\ faults \in 0 .. MaxFaults

TypeOK ==
    RedisTypeOK /\ DockerTypeOK /\ ThreadTypeOK /\ RoundTypeOK /\ TimeTypeOK /\ FaultTypeOK

Init ==
    /\ RedisInit
    /\ DockerInit
    /\ now = 0
    /\ expires_at = [l \in Launches |-> 0]
    /\ pc = [t \in Threads |-> IF t \in Launches THEN "check"
                               ELSE IF t \in Kills THEN "unregisterGet" ELSE "list"]
    /\ pos = [t \in Threads |-> 0]
    /\ target = [t \in Threads |-> IF t \in Pruners THEN None ELSE InstanceOf[t]]
    /\ seen = [t \in Threads |-> None]
    /\ handle = [t \in Threads |-> None]
    /\ listing = [p \in Pruners |-> {}]
    /\ todo = [p \in Pruners |-> {}]
    /\ absent = [p \in Pruners |-> {}]
    /\ leaked = {}
    /\ faults = 0

-----------------------------------------------------------------------------
(* Moving a thread on.                                                      *)

Goto(t, label) == pc' = [pc EXCEPT ![t] = label] /\ UNCHANGED pos

GotoAt(t, label, s) ==
    /\ pc' = [pc EXCEPT ![t] = label]
    /\ pos' = [pos EXCEPT ![t] = s]

(* The pruner's for loop: the next entry of the list, or the next round. *)
AfterKill(p) == IF todo[p] \cup absent[p] = {} THEN "list" ELSE "prune"

(* __try_delete returns to _cleanup_instance (then launch_instance re-raises *)
(* and create_instance answers), to delete_instance, or to the pruner.       *)
AfterDelete(t) ==
    IF t \in Launches THEN "failed" ELSE IF t \in Kills THEN "deleted" ELSE AfterKill(t)

(* __try_delete starts at the first container name. *)
StartDelete(t) == GotoAt(t, "getContainer", 1)

(* Mutant: the volume is forgotten. *)
NextDeleteNoVolume(t) ==
    IF pos[t] < NumServices THEN GotoAt(t, "getContainer", pos[t] + 1)
                            ELSE Goto(t, AfterDelete(t))

(* The next container name of __try_delete, or the volume after the last. *)
NextDelete(t) ==
    IF pos[t] < NumServices THEN GotoAt(t, "getContainer", pos[t] + 1)
                            ELSE Goto(t, "deleteVolume")

(* An exception leaves the handler, or ends the pruner's round. *)
Raise(t) ==
    /\ Goto(t, IF t \in Launches THEN "failed" ELSE IF t \in Kills THEN "error" ELSE "list")
    /\ listing' = [p \in Pruners |-> IF p = t THEN {} ELSE listing[p]]
    /\ todo' = [p \in Pruners |-> IF p = t THEN {} ELSE todo[p]]
    /\ absent' = [p \in Pruners |-> IF p = t THEN {} ELSE absent[p]]

roundVars == <<listing, todo, absent>>
deleteVars == <<target, seen, handle>>

-----------------------------------------------------------------------------
(* create_instance -> Backend.launch_instance -> DockerBackend              *)

(* if self._database.get_instance(id) is not None: raise InstanceExists() *)
CheckInstance(l) ==
    /\ pc[l] = "check"
    /\ Goto(l, IF instance[InstanceOf[l]] # None THEN "exists" ELSE "volume")
    /\ UNCHANGED <<redisVars, dockerVars, deleteVars, roundVars, timeVars, faultVars>>

MakeVolume(l) ==
    /\ pc[l] = "volume"
    /\ CreateVolume(InstanceOf[l])
    /\ GotoAt(l, "run", 1)
    /\ UNCHANGED <<redisVars, deleteVars, roundVars, timeVars, faultVars>>

(* containers.run for each anvil, then for each daemon. *)
RunService(l) ==
    /\ pc[l] = "run"
    /\ ~NameTaken(InstanceOf[l], pos[l])
    /\ RunContainer(l, pos[l], TRUE)
    /\ IF pos[l] < NumServices THEN GotoAt(l, "run", pos[l] + 1)
                               ELSE GotoAt(l, "inspect", 1)
    /\ UNCHANGED <<redisVars, deleteVars, roundVars, timeVars, faultVars>>

(* The name is taken: APIError 409, launch_instance cleans up by name. *)
RunConflict(l) ==
    /\ pc[l] = "run"
    /\ NameTaken(InstanceOf[l], pos[l])
    /\ StartDelete(l)
    /\ UNCHANGED <<redisVars, dockerVars, deleteVars, roundVars, timeVars, faultVars>>

(* Mutant: wait for the container instead of failing. *)
InspectAnvilRetry(l) ==
    /\ pc[l] = "inspect"
    /\ <<l, pos[l]>> \in containers
    /\ Goto(l, "connect")
    /\ UNCHANGED <<redisVars, dockerVars, deleteVars, roundVars, timeVars, faultVars>>

(* containers.get(container.id) for the address of an anvil: NotFound when  *)
(* another thread has removed it.                                           *)
InspectAnvil(l) ==
    /\ pc[l] = "inspect"
    /\ IF <<l, pos[l]>> \in containers THEN Goto(l, "connect") ELSE StartDelete(l)
    /\ UNCHANGED <<redisVars, dockerVars, deleteVars, roundVars, timeVars, faultVars>>

(* while not web3.is_connected(): only a running node ends the loop. *)
Connect(l) ==
    /\ pc[l] = "connect"
    /\ <<l, pos[l]>> \in running
    /\ Goto(l, "setBalance")
    /\ UNCHANGED <<redisVars, dockerVars, deleteVars, roundVars, timeVars, faultVars>>

(* anvil_setBalance per account; the call fails once the node is gone. *)
SetBalance(l) ==
    /\ pc[l] = "setBalance"
    /\ IF <<l, pos[l]>> \notin running THEN StartDelete(l)
       ELSE IF pos[l] < NumAnvils THEN GotoAt(l, "inspect", pos[l] + 1)
       ELSE IF pos[l] < NumServices THEN GotoAt(l, "inspectDaemon", pos[l] + 1)
       ELSE Goto(l, "stamp")
    /\ UNCHANGED <<redisVars, dockerVars, deleteVars, roundVars, timeVars, faultVars>>

InspectDaemon(l) ==
    /\ pc[l] = "inspectDaemon"
    /\ IF <<l, pos[l]>> \notin containers THEN StartDelete(l)
       ELSE IF pos[l] < NumServices THEN GotoAt(l, "inspectDaemon", pos[l] + 1)
       ELSE Goto(l, "stamp")
    /\ UNCHANGED <<redisVars, dockerVars, deleteVars, roundVars, timeVars, faultVars>>

(* now = time.time(); expires_at = now + timeout *)
Stamp(l) ==
    /\ pc[l] = "stamp"
    /\ expires_at' = [expires_at EXCEPT ![l] = now + Timeout * TicksPerSecond]
    /\ Goto(l, "register")
    /\ UNCHANGED <<redisVars, dockerVars, deleteVars, roundVars, now, faultVars>>

Register(l) ==
    /\ pc[l] = "register"
    /\ RegisterInstance(l, expires_at[l])
    /\ Goto(l, "ok")
    /\ UNCHANGED <<dockerVars, deleteVars, roundVars, timeVars, faultVars>>

(* The launcher has deployed its challenge and posts the address to         *)
(* update_metadata; the handler does not look the instance up.              *)
UpdateMetadata(l) ==
    /\ pc[l] = "ok"
    /\ HSetMetadata(InstanceOf[l], l)
    /\ Goto(l, "published")
    /\ UNCHANGED <<dockerVars, deleteVars, roundVars, timeVars, faultVars>>

-----------------------------------------------------------------------------
(* delete_instance and the pruner -> DockerBackend.kill_instance            *)

(* Mutant: the containers are deleted while the instance stays registered. *)
UnregisterGetOnly(t) ==
    /\ pc[t] = "unregisterGet"
    /\ seen' = [seen EXCEPT ![t] = instance[target[t]]]
    /\ IF instance[target[t]] # None THEN StartDelete(t)
       ELSE Goto(t, IF t \in Kills THEN "notFound" ELSE AfterKill(t))
    /\ UNCHANGED <<redisVars, dockerVars, target, handle, roundVars, timeVars, faultVars>>

(* unregister_instance, first half: JSON.GET. *)
UnregisterGet(t) ==
    /\ pc[t] = "unregisterGet"
    /\ seen' = [seen EXCEPT ![t] = instance[target[t]]]
    /\ Goto(t, IF instance[target[t]] # None THEN "unregisterExec"
               ELSE IF t \in Kills THEN "notFound" ELSE AfterKill(t))
    /\ UNCHANGED <<redisVars, dockerVars, target, handle, roundVars, timeVars, faultVars>>

(* Mutant: kill_instance removes the volume only. *)
UnregisterExecNoDelete(t) ==
    /\ pc[t] = "unregisterExec"
    /\ UnregisterPipeline(target[t], seen[t])
    /\ Goto(t, "deleteVolume")
    /\ UNCHANGED <<dockerVars, deleteVars, roundVars, timeVars, faultVars>>

(* unregister_instance, second half: whatever the id names by now is gone. *)
UnregisterExec(t) ==
    /\ pc[t] = "unregisterExec"
    /\ UnregisterPipeline(target[t], seen[t])
    /\ StartDelete(t)
    /\ UNCHANGED <<dockerVars, deleteVars, roundVars, timeVars, faultVars>>

(* A deletion has found or made the name free. *)
Freed(t, s) == leaked' = leaked \ {<<target[t], s>>} /\ UNCHANGED faults

(* __try_delete_container: containers.get(name) *)
GetContainer(t) ==
    /\ pc[t] = "getContainer"
    /\ NameTaken(target[t], pos[t])
    /\ handle' = [handle EXCEPT ![t] = Holder(target[t], pos[t])]
    /\ Goto(t, "killContainer")
    /\ UNCHANGED <<redisVars, dockerVars, target, seen, roundVars, timeVars, faultVars>>

(* except NotFound: return *)
SkipContainer(t) ==
    /\ pc[t] = "getContainer"
    /\ ~NameTaken(target[t], pos[t])
    /\ NextDelete(t)
    /\ Freed(t, pos[t])
    /\ UNCHANGED <<redisVars, dockerVars, deleteVars, roundVars, timeVars>>

(* Mutant: a 409 from kill is taken to mean that nothing is left to do. *)
KillStoppedSkips(t) ==
    /\ pc[t] = "killContainer"
    /\ KillContainer(handle[t], pos[t])
    /\ IF <<handle[t], pos[t]>> \in running THEN Goto(t, "removeContainer")
                                            ELSE NextDelete(t)
    /\ UNCHANGED <<redisVars, deleteVars, roundVars, timeVars, faultVars>>

(* container.kill(): a stopped container answers 409, which is ignored; one *)
(* that is gone answers 404, which is logged.                               *)
Kill(t) ==
    /\ pc[t] = "killContainer"
    /\ KillContainer(handle[t], pos[t])
    /\ IF <<handle[t], pos[t]>> \in containers THEN Goto(t, "removeContainer")
                                               ELSE NextDelete(t)
    /\ UNCHANGED <<redisVars, deleteVars, roundVars, timeVars, faultVars>>

(* container.remove(), 404 logged. *)
Remove(t) ==
    /\ pc[t] = "removeContainer"
    /\ RemoveContainer(handle[t], pos[t])
    /\ IF <<handle[t], pos[t]>> \in containers THEN Freed(t, pos[t]) ELSE UNCHANGED faultVars
    /\ NextDelete(t)
    /\ UNCHANGED <<redisVars, deleteVars, roundVars, timeVars>>

(* __try_delete_volume; the refusal for a volume in use is logged. *)
DeleteVolume(t) ==
    /\ pc[t] = "deleteVolume"
    /\ RemoveVolume(target[t])
    /\ IF VolumeInUse(target[t]) THEN UNCHANGED faultVars ELSE Freed(t, 0)
    /\ Goto(t, AfterDelete(t))
    /\ UNCHANGED <<redisVars, deleteVars, roundVars, timeVars>>

-----------------------------------------------------------------------------
(* Backend.__instance_pruner_thread                                         *)

(* get_expired_instances: ZRANGE; an empty list ends the round. *)
ListExpired(p) ==
    /\ pc[p] = "list"
    /\ listing' = [listing EXCEPT ![p] = ExpiredIds(now)]
    /\ Goto(p, IF ExpiredIds(now) = {} THEN "list" ELSE "fetch")
    /\ UNCHANGED <<redisVars, dockerVars, deleteVars, todo, absent, timeVars, faultVars>>

(* get_expired_instances: get_instance for each id (the order, by score and *)
(* name, is left open); one that is gone by now is appended as None.        *)
FetchInstance(p) ==
    /\ pc[p] = "fetch"
    /\ \E id \in listing[p] :
         /\ listing' = [listing EXCEPT ![p] = @ \ {id}]
         /\ IF instance[id] # None
            THEN todo' = [todo EXCEPT ![p] = @ \cup {id}] /\ UNCHANGED absent
            ELSE absent' = [absent EXCEPT ![p] = @ \cup {id}] /\ UNCHANGED todo
         /\ Goto(p, IF listing[p] = {id} THEN "prune" ELSE "fetch")
    /\ UNCHANGED <<redisVars, dockerVars, deleteVars, timeVars, faultVars>>

(* self.kill_instance(instance["instance_id"]) *)
Prune(p) ==
    /\ pc[p] = "prune"
    /\ \E id \in todo[p] :
         /\ todo' = [todo EXCEPT ![p] = @ \ {id}]
         /\ target' = [target EXCEPT ![p] = id]
    /\ Goto(p, "unregisterGet")
    /\ UNCHANGED <<redisVars, dockerVars, seen, handle, listing, absent, timeVars, faultVars>>

(* Mutant: the entry is tried again and again. *)
PruneAbsentRetries(p) == pc[p] = "prune" /\ absent[p] # {} /\ UNCHANGED vars

(* instance["instance_id"] of None: TypeError, the round ends. *)
PruneAbsent(p) ==
    /\ pc[p] = "prune"
    /\ absent[p] # {}
    /\ Raise(p)
    /\ UNCHANGED <<redisVars, dockerVars, deleteVars, timeVars, faultVars>>

-----------------------------------------------------------------------------
(* Faults the code has exception paths for, MaxFaults of them.              *)

NewFault == faults < MaxFaults /\ faults' = faults + 1

(* Nobody will come back for names ss of the instance t works on. *)
Leak(t, ss) == leaked' = leaked \cup ({target[t]} \X ss)

(* A Redis command fails before it takes effect; get_instance is called     *)
(* outside launch_instance's try.                                           *)
RedisRefuses(t) ==
    /\ pc[t] \in {"check", "unregisterGet", "unregisterExec", "list", "fetch"}
    /\ NewFault
    /\ Raise(t)
    /\ UNCHANGED <<redisVars, dockerVars, deleteVars, timeVars, leaked>>

(* register_instance fails inside the try: clean up. *)
RegisterRefused(l) ==
    /\ pc[l] = "register"
    /\ NewFault
    /\ StartDelete(l)
    /\ UNCHANGED <<redisVars, dockerVars, deleteVars, roundVars, timeVars, leaked>>

(* socket_timeout: the transaction ran, the client raises. *)
RegisterReplyLost(l) ==
    /\ pc[l] = "register"
    /\ NewFault
    /\ RegisterInstance(l, expires_at[l])
    /\ StartDelete(l)
    /\ UNCHANGED <<dockerVars, deleteVars, roundVars, timeVars, leaked>>

UnregisterReplyLost(t) ==
    /\ pc[t] = "unregisterExec"
    /\ NewFault
    /\ UnregisterPipeline(target[t], seen[t])
    /\ Raise(t)
    /\ Leak(t, 0 .. NumServices)
    /\ UNCHANGED <<dockerVars, deleteVars, timeVars>>

(* Docker refuses a call of _launch_instance_impl; containers.run may fail  *)
(* after it has created the container.                                      *)
CreateRefused(l) ==
    /\ pc[l] \in {"volume", "run", "inspect", "inspectDaemon"}
    /\ NewFault
    /\ \/ UNCHANGED dockerVars
       \/ /\ pc[l] = "run"
          /\ ~NameTaken(InstanceOf[l], pos[l])
          /\ RunContainer(l, pos[l], FALSE)
    /\ StartDelete(l)
    /\ UNCHANGED <<redisVars, deleteVars, roundVars, timeVars, leaked>>

(* containers.get fails with anything but NotFound: the except clause reads *)
(* the unassigned container, and its UnboundLocalError leaves __try_delete. *)
GetRefused(t) ==
    /\ pc[t] = "getContainer"
    /\ NewFault
    /\ Leak(t, {0} \cup (pos[t] .. NumServices))
    /\ Raise(t)
    /\ UNCHANGED <<redisVars, dockerVars, deleteVars, timeVars>>

(* kill or remove fails: logged, on to the next name. *)
DeleteRefused(t) ==
    /\ pc[t] \in {"killContainer", "removeContainer"}
    /\ NewFault
    /\ Leak(t, {pos[t]})
    /\ NextDelete(t)
    /\ UNCHANGED <<redisVars, dockerVars, deleteVars, roundVars, timeVars>>

(* volume.remove fails: logged. *)
VolumeRefused(t) ==
    /\ pc[t] = "deleteVolume"
    /\ NewFault
    /\ Leak(t, {0})
    /\ Goto(t, AfterDelete(t))
    /\ UNCHANGED <<redisVars, dockerVars, deleteVars, roundVars, timeVars>>

(* volumes.get fails like containers.get. *)
GetVolumeRefused(t) ==
    /\ pc[t] = "deleteVolume"
    /\ NewFault
    /\ Leak(t, {0})
    /\ Raise(t)
    /\ UNCHANGED <<redisVars, dockerVars, deleteVars, timeVars>>

(* The server stops and is started again; Redis and Docker live on. *)
Unfinished == {t \in Threads : pc[t] \in Creating \cup Deleting \cup {"deleteVolume"}}

UnfinishedNames == {<<target[t], s>> : t \in Unfinished, s \in 0 .. NumServices}

Crash ==
    /\ NewFault
    /\ leaked' = leaked \cup UnfinishedNames
    /\ pc' = [t \in Threads |->
                 IF t \in Pruners THEN "list"
                 ELSE IF pc[t] \in Answered \cup {"check", "unregisterGet"} THEN pc[t]
                 ELSE "crashed"]
    /\ listing' = [p \in Pruners |-> {}]
    /\ todo' = [p \in Pruners |-> {}]
    /\ absent' = [p \in Pruners |-> {}]
    /\ UNCHANGED <<redisVars, dockerVars, deleteVars, pos, timeVars>>

Tick ==
    /\ now < MaxTime
    /\ now' = now + 1
    /\ UNCHANGED <<redisVars, dockerVars, threadVars, expires_at, faultVars>>

-----------------------------------------------------------------------------
LaunchStep(l) ==
    \/ CheckInstance(l) \/ MakeVolume(l) \/ RunService(l) \/ RunConflict(l)
    \/ InspectAnvil(l) \/ Connect(l) \/ SetBalance(l) \/ InspectDaemon(l)
    \/ Stamp(l) \/ Register(l)

DeleteStep(t) ==
    GetContainer(t) \/ SkipContainer(t) \/ Kill(t) \/ Remove(t) \/ DeleteVolume(t)

KillStep(t) == UnregisterGet(t) \/ UnregisterExec(t)

PruneStep(p) == ListExpired(p) \/ FetchInstance(p) \/ Prune(p) \/ PruneAbsent(p)

Fault ==
    \/ \E t \in Threads :
         \/ RedisRefuses(t) \/ UnregisterReplyLost(t)
         \/ GetRefused(t) \/ DeleteRefused(t) \/ VolumeRefused(t) \/ GetVolumeRefused(t)
    \/ \E l \in Launches : RegisterRefused(l) \/ RegisterReplyLost(l) \/ CreateRefused(l)
    \/ Crash

Next ==
    \/ \E l \in Launches : LaunchStep(l) \/ UpdateMetadata(l)
    \/ \E t \in Kills \cup Pruners : KillStep(t)
    \/ \E t \in Threads : DeleteStep(t)
    \/ \E p \in Pruners : PruneStep(p)
    \/ Fault
    \/ Tick

Spec == Init /\ [][Next]_vars

(* No thread is starved by the scheduler; neither the clock, nor a fault,   *)
(* nor the launcher's metadata call is assumed to happen.                   *)
Fairness ==
    /\ \A l \in Launches : WF_vars(LaunchStep(l))
    /\ \A t \in Kills \cup Pruners : WF_vars(KillStep(t))
    /\ \A t \in Threads : WF_vars(DeleteStep(t))
    /\ \A p \in Pruners : WF_vars(PruneStep(p))

FairSpec == Spec /\ Fairness

-----------------------------------------------------------------------------
(* Properties                                                               *)

(* Thread t has still to delete the container of launch l for service s. *)
WillDelete(t, l, s) ==
    /\ target[t] = InstanceOf[l]
    /\ \/ pc[t] = "getContainer" /\ pos[t] <= s
       \/ pc[t] \in Deleting /\ pos[t] < s
       \/ pc[t] \in Deleting /\ pos[t] = s /\ handle[t] = l

(* The registry's three views agree whatever registrations and              *)
(* two-step unregistrations interleave: a registered instance resolves by   *)
(* its external id and is in the expiry set under its own deadline, and an  *)
(* id that is not registered never expires.                                 *)
IndexConsistent ==
    \A id \in InstanceIds :
        IF instance[id] = None THEN expiries[id] = None
        ELSE /\ external_ids[instance[id]] = id
             /\ expiries[id] = Seconds(expires_at[instance[id]])

(* No container is forgotten: its instance is registered (so a kill or the  *)
(* pruner will find it), its own launch is still under way, some thread is  *)
(* on its way to delete it, or a fault made a deletion skip its name.       *)
ContainersOwned ==
    \A l \in Launches, s \in Services :
        <<l, s>> \in containers =>
            \/ instance[InstanceOf[l]] # None
            \/ pc[l] \in Creating
            \/ \E t \in Threads : WillDelete(t, l, s)
            \/ <<InstanceOf[l], s>> \in leaked

(* No volume is forgotten either, although Docker refuses to remove one     *)
(* that a container of a concurrent launch mounts.                          *)
VolumesOwned ==
    \A id \in volumes :
        \/ instance[id] # None
        \/ \E l \in Launches : InstanceOf[l] = id /\ pc[l] \in Creating
        \/ \E t \in Threads : target[t] = id /\ pc[t] \in Deleting \cup {"deleteVolume"}
        \/ \E s \in 0 .. NumServices : <<id, s>> \in leaked

(* An answer can be relied on: when a create request has failed, or a       *)
(* delete request has returned the instance it deleted, no container of     *)
(* that launch is left, save under a name whose deletion a fault skipped.   *)
AnsweredMeansGone ==
    \A l \in Launches, s \in Services :
        /\ \/ pc[l] = "failed"
           \/ \E k \in Kills : pc[k] = "deleted" /\ seen[k] = l
        /\ <<l, s>> \in containers
        => <<InstanceOf[l], s>> \in leaked

(* As long as no second launch of the same instance got past the existence  *)
(* check, an instance that was answered ok and is registered has all its    *)
(* containers running: kills and the pruner unregister before they delete.  *)
SoleLaunchIntact ==
    \A l \in Launches :
        /\ pc[l] \in {"ok", "published"}
        /\ instance[InstanceOf[l]] = l
        /\ \A m \in Launches \ {l} :
             InstanceOf[m] = InstanceOf[l] => pc[m] \in {"check", "exists"}
        => \A s \in Services : <<l, s>> \in running

(* An instance past its deadline is unregistered (or replaced): a pruner    *)
(* round that meets an entry deleted under it ends early, but the next      *)
(* round takes the rest.                                                    *)
ExpiredArePruned ==
    \A id \in InstanceIds, l \in Launches :
        (instance[id] = l /\ id \in ExpiredIds(now)) ~> instance[id] # l

(* A create request is answered, unless the node it waits for in            *)
(* _prepare_node was stopped by another request: that loop has no way out.  *)
LaunchAnswered ==
    \A l \in Launches :
        TRUE ~> \/ pc[l] \in Answered
                \/ pc[l] = "connect" /\ <<l, pos[l]>> \notin running

(* launcher.py tells the user the blockchain "will automatically terminate  *)
(* in {timeout} seconds": the pruner unregisters no instance before that.   *)
PrunedOnlyWhenExpired ==
    [][\A p \in Pruners, id \in InstanceIds :
         (pc[p] = "unregisterExec" /\ pc'[p] # pc[p] /\ instance[id] # None
            /\ instance'[id] = None) => id \in ExpiredIds(now)]_vars
=============================================================================
