------------------------- MODULE KubernetesBackend -------------------------
(***************************************************************************)
(* The orchestrator with the Redis registry and the Kubernetes backend:     *)
(* ctf_server/backends/backend.py and kubernetes_backend.py. An instance is *)
(* a pod that is named by its id. Unlike the Docker backend this one        *)
(* overrides no _cleanup_instance: a launch that fails leaves its pod. The  *)
(* pruner's kills are requests like the others here.                        *)
(***************************************************************************)
EXTENDS RedisDatabase

CONSTANT MaxFaults      \* bound on refused calls

Pod == [launch : Launches, phase : {"Pending", "Running"}, deleted : BOOLEAN]

ASSUME KubernetesAssumption == MaxFaults \in Nat /\ None \notin Pod

VARIABLES
    pods,       \* None, or the pod: the launch that created it, its phase,
                \* and whether its deletion was asked for
    host,       \* the pod whose address the launch read, by its launch
    pc,         \* what each request does next
    seen,       \* document read by the first half of unregister_instance
    leaked,     \* ghost: launches that failed and left their pod
    faults

vars == <<redisVars, pods, host, pc, seen, leaked, faults>>

Id(t) == InstanceOf[t]
Goto(t, label) == pc' = [pc EXCEPT ![t] = label]
HasPod(id) == pods[id] # None
Holder(id) == IF HasPod(id) THEN {pods[id].launch} ELSE {}
NewPod(l) == [launch |-> l, phase |-> "Pending", deleted |-> FALSE]
HostRuns(l) ==
    HasPod(Id(l)) /\ pods[Id(l)].launch = host[l] /\ pods[Id(l)].phase = "Running"

Init ==
    /\ RedisInit
    /\ pods = [id \in InstanceIds |-> None] /\ host = [l \in Launches |-> None]
    /\ pc = [t \in Launches \cup Kills |-> IF t \in Launches THEN "check" ELSE "unregisterGet"]
    /\ seen = [k \in Kills |-> None]
    /\ leaked = {} /\ faults = 0

-----------------------------------------------------------------------------
(* launch_instance and _launch_instance_impl *)
Check(l) ==
    /\ pc[l] = "check"
    /\ Goto(l, IF instance[Id(l)] # None THEN "exists" ELSE "create")
    /\ UNCHANGED <<redisVars, pods, host, seen, leaked, faults>>

(* Variant for mutation testing: a pod of that name is replaced. *)
CreatePodReplaces(l) ==
    /\ pc[l] = "create"
    /\ pods' = [pods EXCEPT ![Id(l)] = NewPod(l)] /\ Goto(l, "poll")
    /\ UNCHANGED <<redisVars, host, seen, leaked, faults>>

(* create_namespaced_pod: 409 when the name is taken. *)
CreatePod(l) ==
    /\ pc[l] = "create"
    /\ IF HasPod(Id(l)) THEN Goto(l, "failed") /\ UNCHANGED pods
       ELSE /\ pods' = [pods EXCEPT ![Id(l)] = NewPod(l)]
            /\ Goto(l, "poll")
    /\ UNCHANGED <<redisVars, host, seen, leaked, faults>>

(* Variant for mutation testing: waits for the pod to have succeeded. *)
PollSucceeded(l) ==
    /\ pc[l] = "poll"
    /\ \/ /\ HasPod(Id(l)) /\ pods[Id(l)].phase = "Succeeded"
          /\ host' = [host EXCEPT ![l] = pods[Id(l)].launch] /\ Goto(l, "connect")
       \/ ~HasPod(Id(l)) /\ Goto(l, "failed") /\ UNCHANGED host
    /\ UNCHANGED <<redisVars, pods, seen, leaked, faults>>

(* read_namespaced_pod until the phase is not Pending: by now the name may  *)
(* be another launch's, or nobody's (404).                                  *)
Poll(l) ==
    /\ pc[l] = "poll"
    /\ \/ /\ HasPod(Id(l)) /\ pods[Id(l)].phase # "Pending"
          /\ host' = [host EXCEPT ![l] = pods[Id(l)].launch] /\ Goto(l, "connect")
       \/ ~HasPod(Id(l)) /\ Goto(l, "failed") /\ UNCHANGED host
    /\ UNCHANGED <<redisVars, pods, seen, leaked, faults>>

(* _prepare_node: connect, for as long as it takes, and set the balances.   *)
Connect(l) ==
    /\ pc[l] = "connect" /\ HostRuns(l)
    /\ Goto(l, "setBalance")
    /\ UNCHANGED <<redisVars, pods, host, seen, leaked, faults>>

SetBalance(l) ==
    /\ pc[l] = "setBalance"
    /\ Goto(l, IF HostRuns(l) THEN "register" ELSE "failed")
    /\ UNCHANGED <<redisVars, pods, host, seen, leaked, faults>>

Register(l) ==
    /\ pc[l] = "register"
    /\ RegisterInstance(l, 0) /\ Goto(l, "ok")
    /\ UNCHANGED <<pods, host, seen, leaked, faults>>

-----------------------------------------------------------------------------
(* kill_instance *)
UnregisterGet(k) ==
    /\ pc[k] = "unregisterGet"
    /\ seen' = [seen EXCEPT ![k] = instance[Id(k)]]
    /\ Goto(k, IF instance[Id(k)] = None THEN "notFound" ELSE "unregisterExec")
    /\ UNCHANGED <<redisVars, pods, host, leaked, faults>>

(* Variant for mutation testing: the pod is left to the garbage collector. *)
UnregisterExecOnly(k) ==
    /\ pc[k] = "unregisterExec"
    /\ UnregisterPipeline(Id(k), seen[k]) /\ Goto(k, "deleted")
    /\ UNCHANGED <<pods, host, seen, leaked, faults>>

UnregisterExec(k) ==
    /\ pc[k] = "unregisterExec"
    /\ UnregisterPipeline(Id(k), seen[k]) /\ Goto(k, "delete")
    /\ UNCHANGED <<pods, host, seen, leaked, faults>>

(* Variant for mutation testing: waits for a pod that nobody deleted. *)
DeletePodSkipped(k) ==
    /\ pc[k] = "delete"
    /\ Goto(k, IF HasPod(Id(k)) THEN "wait" ELSE "error")
    /\ UNCHANGED <<redisVars, pods, host, seen, leaked, faults>>

(* delete_namespaced_pod: 404 leaves the handler. *)
DeletePod(k) ==
    /\ pc[k] = "delete"
    /\ IF HasPod(Id(k))
       THEN pods' = [pods EXCEPT ![Id(k)].deleted = TRUE] /\ Goto(k, "wait")
       ELSE Goto(k, "error") /\ UNCHANGED pods
    /\ UNCHANGED <<redisVars, host, seen, leaked, faults>>

(* Variant for mutation testing: gone as soon as it terminates. *)
WaitGoneEarly(k) ==
    /\ pc[k] = "wait" /\ Goto(k, "deleted")
    /\ UNCHANGED <<redisVars, pods, host, seen, leaked, faults>>

(* The loop ends with a 404, whichever pod has the name by now. *)
WaitGone(k) ==
    /\ pc[k] = "wait" /\ ~HasPod(Id(k))
    /\ Goto(k, "deleted")
    /\ UNCHANGED <<redisVars, pods, host, seen, leaked, faults>>

-----------------------------------------------------------------------------
(* The cluster: a pod starts, and a deleted one goes. *)
PodRuns(id) ==
    /\ HasPod(id) /\ pods[id].phase = "Pending" /\ ~pods[id].deleted
    /\ pods' = [pods EXCEPT ![id].phase = "Running"]
    /\ UNCHANGED <<redisVars, host, pc, seen, leaked, faults>>

PodGoes(id) ==
    /\ HasPod(id) /\ pods[id].deleted
    /\ pods' = [pods EXCEPT ![id] = None]
    /\ UNCHANGED <<redisVars, host, pc, seen, leaked, faults>>

(* A call is refused: the launch fails and keeps its pod, the kill is       *)
(* answered with an error. read_namespaced_pod in the loop of kill_instance *)
(* is tried again.                                                          *)
LaunchRefused(l) ==
    /\ faults < MaxFaults /\ faults' = faults + 1
    /\ pc[l] \in {"check", "create", "poll", "setBalance", "register"}
    /\ Goto(l, "failed") /\ leaked' = leaked \cup {l}
    /\ UNCHANGED <<redisVars, pods, host, seen>>

(* The pod was created, or the instance registered; the answer was lost.    *)
LaunchReplyLost(l) ==
    /\ faults < MaxFaults /\ faults' = faults + 1
    /\ \/ /\ pc[l] = "create" /\ ~HasPod(Id(l)) /\ UNCHANGED redisVars
          /\ pods' = [pods EXCEPT ![Id(l)] = NewPod(l)]
       \/ pc[l] = "register" /\ RegisterInstance(l, 0) /\ UNCHANGED pods
    /\ Goto(l, "failed") /\ leaked' = leaked \cup {l}
    /\ UNCHANGED <<host, seen>>

KillRefused(k) ==
    /\ faults < MaxFaults /\ faults' = faults + 1
    /\ pc[k] \in {"unregisterGet", "unregisterExec", "delete"}
    /\ Goto(k, "error")
    /\ leaked' = IF pc[k] = "delete" THEN leaked \cup Holder(Id(k)) ELSE leaked
    /\ UNCHANGED <<redisVars, pods, host, seen>>

KillReplyLost(k) ==
    /\ faults < MaxFaults /\ faults' = faults + 1
    /\ Goto(k, "error")
    /\ \/ /\ pc[k] = "unregisterExec" /\ UnregisterPipeline(Id(k), seen[k])
          /\ leaked' = leaked \cup Holder(Id(k)) /\ UNCHANGED pods
       \/ /\ pc[k] = "delete" /\ HasPod(Id(k))
          /\ pods' = [pods EXCEPT ![Id(k)].deleted = TRUE]
          /\ UNCHANGED <<redisVars, leaked>>
    /\ UNCHANGED <<host, seen>>

LaunchStep(l) == Check(l) \/ CreatePod(l) \/ Poll(l) \/ Connect(l) \/ SetBalance(l) \/ Register(l)
KillStep(k) == UnregisterGet(k) \/ UnregisterExec(k) \/ DeletePod(k) \/ WaitGone(k)
Next ==
    \/ \E l \in Launches : LaunchStep(l) \/ LaunchRefused(l) \/ LaunchReplyLost(l)
    \/ \E k \in Kills : KillStep(k) \/ KillRefused(k) \/ KillReplyLost(k)
    \/ \E id \in InstanceIds : PodRuns(id) \/ PodGoes(id)

Spec == Init /\ [][Next]_vars
FairSpec ==
    /\ Spec
    /\ \A l \in Launches : WF_vars(LaunchStep(l))
    /\ \A k \in Kills : WF_vars(KillStep(k))
    /\ \A id \in InstanceIds : WF_vars(PodRuns(id)) /\ WF_vars(PodGoes(id))

-----------------------------------------------------------------------------
(* A launch that was answered, on an id that nobody has asked to kill, runs *)
(* and is what the registry names, whatever launches raced with it: the     *)
(* loser stops at the name and cleans nothing up.                           *)
LaunchedIsIntact ==
    \A l \in Launches :
        pc[l] = "ok" /\ (\A k \in Kills : Id(k) = Id(l) => pc[k] = "unregisterGet")
        => /\ instance[Id(l)] = l
           /\ HasPod(Id(l)) /\ pods[Id(l)] = [launch |-> l, phase |-> "Running", deleted |-> FALSE]

(* A pod outlives its request only under an id that the registry has, so    *)
(* that a kill or the pruner can find it, as the victim of a kill under     *)
(* way, or after a refused call. The document registered may be that of     *)
(* another launch: a second kill can delete the pod before its registration.*)
PodsAccounted ==
    \A id \in InstanceIds : HasPod(id) =>
        LET l == pods[id].launch
        IN  \/ pc[l] \in {"poll", "connect", "setBalance", "register"}
            \/ instance[id] # None \/ l \in leaked \/ pods[id].deleted
            \/ \E k \in Kills : Id(k) = id /\ pc[k] = "delete"

(* Once a kill is answered the pod of the instance that it unregistered is  *)
(* gone, however many kills and launches of that id ran meanwhile.          *)
KilledIsGone ==
    \A k \in Kills : pc[k] = "deleted" /\ HasPod(Id(k)) => pods[Id(k)].launch # seen[k]

(* A kill is answered, unless the id was launched again while it waited:    *)
(* its loop then waits for the new pod.                                     *)
KillAnswered ==
    \A k \in Kills :
        pc[k] = "wait" ~> \/ pc[k] = "deleted"
                          \/ HasPod(Id(k)) /\ pods[Id(k)].launch # seen[k]

(* A launch is answered, unless a kill took the pod that it connects to:     *)
(* the loop of _prepare_node has no way out.                                *)
LaunchAnswered ==
    \A l \in Launches :
        pc[l] = "check" ~> \/ pc[l] \in {"ok", "exists", "failed"}
                           \/ pc[l] = "connect" /\ ~HostRuns(l)
=============================================================================
