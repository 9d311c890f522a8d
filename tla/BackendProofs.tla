---------------------------- MODULE BackendProofs ----------------------------
(***************************************************************************)
(* Proofs about the two servers that run something for a team: the safety   *)
(* properties of KubernetesBackend, which runs an instance as a pod, for    *)
(* every number of launches, kills, instances and faults; and those of      *)
(* NodeManager, which runs an access token's nodes as its own processes, for *)
(* every number of tokens, requests, processes, ports, crashes and resets.  *)
(***************************************************************************)
EXTENDS KubernetesBackend, NodeManager, WellFoundedInduction, TLAPS

-----------------------------------------------------------------------------
(* Pods                                                                     *)

Requests == Launches \cup Kills
LaunchLabels ==
    {"check", "exists", "create", "poll", "connect", "setBalance", "register", "ok", "failed"}
KillLabels == {"unregisterGet", "notFound", "unregisterExec", "delete", "wait", "deleted", "error"}

(* The pod of an id is None or that of a launch of this id; so is the       *)
(* document of the registry and the one that a kill has read.               *)
PodsType ==
    /\ pods \in [InstanceIds -> Pod \cup {None}]
    /\ \A id \in InstanceIds : HasPod(id) => Id(pods[id].launch) = id
PcType ==
    /\ pc \in [Requests -> LaunchLabels \cup KillLabels]
    /\ \A l \in Launches : pc[l] \in LaunchLabels
    /\ \A k \in Kills : pc[k] \in KillLabels
SeenType ==
    /\ seen \in [Kills -> Launches \cup {None}]
    /\ \A k \in Kills : pc[k] = "unregisterExec" => seen[k] # None
RestType ==
    /\ RedisTypeOK
    /\ host \in [Launches -> Launches \cup {None}]
    /\ leaked \subseteq Launches /\ faults \in Nat
TypeInv == PodsType /\ PcType /\ SeenType /\ RestType

(* A launch that has not come to the name of its pod left no trace. *)
Fresh == {"check", "create"}
FreshOK ==
    \A l \in Launches : pc[l] \in Fresh =>
        /\ \A id \in InstanceIds : instance[id] # l
        /\ \A id \in InstanceIds : HasPod(id) => pods[id].launch # l
        /\ \A k \in Kills : seen[k] # l

(* While its pod exists, the address that a launch has read is that of its  *)
(* own pod, which runs.                                                     *)
Connected == {"connect", "setBalance", "register"}
HostOwn ==
    \A l \in Launches :
        pc[l] \in Connected /\ HasPod(Id(l)) /\ pods[Id(l)].launch = l
        => host[l] = l /\ pods[Id(l)].phase = "Running"

(* Until an id is asked to be killed, its pod is that of the one launch that *)
(* has come past its creation.                                              *)
Unkilled(id) == \A k \in Kills : Id(k) = id => pc[k] = "unregisterGet"
HoldsPod(l) == HasPod(Id(l)) /\ pods[Id(l)].launch = l /\ ~pods[Id(l)].deleted
UnkilledOK ==
    \A l \in Launches : Unkilled(Id(l)) =>
        /\ pc[l] \in Connected \cup {"poll", "ok"} => HoldsPod(l)
        /\ pc[l] \in Connected \cup {"ok"} => pods[Id(l)].phase = "Running"
        /\ pc[l] = "ok" => instance[Id(l)] = l
        /\ HasPod(Id(l)) => ~pods[Id(l)].deleted

IInv == TypeInv /\ FreshOK /\ HostOwn /\ UnkilledOK /\ PodsAccounted /\ KilledIsGone

-----------------------------------------------------------------------------
(* The invariant holds at the start. *)
LEMMA InitIInv == Init => IInv
  <1> SUFFICES ASSUME Init PROVE IInv
    BY Zenon
  <1> USE InstancesAssumption DEF Init, RedisInit, HasPod, Requests
  <1>1. TypeInv
    BY Zenon DEF TypeInv, PodsType, PcType, SeenType, RestType, RedisTypeOK, LaunchLabels,
            KillLabels
  <1>2. /\ \A l \in Launches : pc[l] = "check"
        /\ \A k \in Kills : pc[k] = "unregisterGet"
        /\ \A id \in InstanceIds : ~HasPod(id)
    BY Zenon
  <1>3. FreshOK
    BY Zenon DEF FreshOK
  <1>4. HostOwn /\ PodsAccounted /\ KilledIsGone
    BY Zenon DEF HostOwn, PodsAccounted, KilledIsGone, Connected
  <1>5. UnkilledOK
    BY Zenon DEF UnkilledOK, Connected, Id
  <1> QED BY Zenon, <1>1, <1>3, <1>4, <1>5 DEF IInv

(* The pod that a launch creates. *)
LEMMA NewPodOK ==
  ASSUME NEW l \in Launches
  PROVE  /\ NewPod(l) \in Pod /\ NewPod(l) # None
         /\ NewPod(l).launch = l /\ NewPod(l).phase = "Pending" /\ ~NewPod(l).deleted
  <1>1. NewPod(l) \in Pod
    BY Zenon DEF NewPod, Pod
  <1>2. NewPod(l).launch = l /\ NewPod(l).phase = "Pending" /\ ~NewPod(l).deleted
    BY Zenon DEF NewPod
  <1> QED BY Zenon, <1>1, <1>2, KubernetesAssumption

Marked(pod) == [pod EXCEPT !.deleted = TRUE]
Running(pod) == [pod EXCEPT !.phase = "Running"]

(* What is done to a pod keeps its launch. *)
LEMMA PodSteps ==
  ASSUME NEW pod \in Pod
  PROVE  /\ Marked(pod) \in Pod /\ Marked(pod) # None /\ Marked(pod).deleted
         /\ Marked(pod).launch = pod.launch /\ Marked(pod).phase = pod.phase
         /\ Running(pod) \in Pod /\ Running(pod) # None /\ Running(pod).phase = "Running"
         /\ Running(pod).launch = pod.launch /\ Running(pod).deleted = pod.deleted
  <1>1. Marked(pod) \in Pod /\ Running(pod) \in Pod
    BY Zenon DEF Pod, Marked, Running
  <1>2. /\ Marked(pod).launch = pod.launch /\ Marked(pod).phase = pod.phase /\ Marked(pod).deleted
        /\ Running(pod).launch = pod.launch /\ Running(pod).deleted = pod.deleted
        /\ Running(pod).phase = "Running"
    BY Zenon DEF Pod, Marked, Running
  <1> QED BY Zenon, <1>1, <1>2, KubernetesAssumption

(* A deletion that is asked for changes no other pod. *)
LEMMA MarkedPods ==
  ASSUME PodsType, NEW id \in InstanceIds, HasPod(id),
         pods' = [pods EXCEPT ![id].deleted = TRUE]
  PROVE  PodsType'
  <1>1. pods[id] \in Pod
    BY Zenon DEF PodsType, HasPod
  <1>2. pods' = [pods EXCEPT ![id] = Marked(pods[id])]
    BY Zenon DEF Marked
  <1>3. Marked(pods[id]) \in Pod /\ Marked(pods[id]).launch = pods[id].launch
    BY Zenon, <1>1, PodSteps
  <1> QED BY Zenon, <1>2, <1>3 DEF PodsType, HasPod

(* The check for an instance that exists. *)
LEMMA CheckInv ==
  ASSUME IInv, NEW l \in Launches, Check(l)
  PROVE  IInv'
  <1> USE InstancesAssumption
         DEF IInv, TypeInv, Check, HasPod, Goto, Requests, redisVars, LaunchLabels
  <1>1. TypeInv'
    <2>1. PodsType'
      BY Zenon DEF PodsType
    <2>2. PcType' /\ SeenType'
      BY Zenon DEF PcType, SeenType
    <2>3. RestType'
      BY Zenon DEF RestType, RedisTypeOK
    <2> QED BY Zenon, <2>1, <2>2, <2>3
  <1>2. FreshOK'
    BY DEF FreshOK, Fresh
  <1>3. HostOwn'
    BY DEF HostOwn, Connected
  <1>4. UnkilledOK'
    <2> SUFFICES ASSUME NEW m \in Launches, Unkilled(Id(m))'
                 PROVE  /\ (pc[m] \in Connected \cup {"poll", "ok"} => HoldsPod(m))'
                        /\ (pc[m] \in Connected \cup {"ok"} => pods[Id(m)].phase = "Running")'
                        /\ (pc[m] = "ok" => instance[Id(m)] = m)'
                        /\ (HasPod(Id(m)) => ~pods[Id(m)].deleted)'
      BY Zenon DEF UnkilledOK
    <2>1. Unkilled(Id(m))
      BY DEF Unkilled
    <2> QED BY <2>1 DEF UnkilledOK, HoldsPod, Connected
  <1>5. PodsAccounted'
    BY DEF PodsAccounted
  <1>6. KilledIsGone'
    BY DEF KilledIsGone
  <1> QED BY Zenon, <1>1, <1>2, <1>3, <1>4, <1>5, <1>6

(* A poll for the pod to be ready. *)
LEMMA PollInv ==
  ASSUME IInv, NEW l \in Launches, Poll(l)
  PROVE  IInv'
  <1> USE InstancesAssumption
         DEF IInv, TypeInv, Poll, HasPod, Goto, Id, Requests, redisVars, LaunchLabels
  <1>1. TypeInv'
    <2>1. PodsType'
      BY Zenon DEF PodsType
    <2>2. PcType' /\ SeenType'
      BY DEF PcType, SeenType
    <2>3. RestType'
      BY ZenonT(30) DEF RestType, RedisTypeOK, PodsType, Pod
    <2> QED BY Zenon, <2>1, <2>2, <2>3
  <1>2. FreshOK'
    BY ZenonT(30) DEF FreshOK, Fresh, PcType
  <1>3. HostOwn'
    BY DEF HostOwn, PcType, PodsType, Pod, RestType
  <1>4. UnkilledOK'
    <2> SUFFICES ASSUME NEW m \in Launches, Unkilled(Id(m))'
                 PROVE  /\ (pc[m] \in Connected \cup {"poll", "ok"} => HoldsPod(m))'
                        /\ (pc[m] \in Connected \cup {"ok"} => pods[Id(m)].phase = "Running")'
                        /\ (pc[m] = "ok" => instance[Id(m)] = m)'
                        /\ (HasPod(Id(m)) => ~pods[Id(m)].deleted)'
      BY Zenon DEF UnkilledOK
    <2>1. Unkilled(Id(m))
      BY Zenon DEF Unkilled, PcType
    <2> QED BY <2>1 DEF UnkilledOK, HoldsPod, PcType, PodsType, Pod
  <1>5. PodsAccounted'
    BY DEF PodsAccounted, PcType, PodsType, Pod
  <1>6. KilledIsGone'
    BY Zenon DEF KilledIsGone, PcType
  <1> QED BY Zenon, <1>1, <1>2, <1>3, <1>4, <1>5, <1>6

(* Connecting to anvil in the pod. *)
LEMMA ConnectInv ==
  ASSUME IInv, NEW l \in Launches, Connect(l)
  PROVE  IInv'
  <1> USE InstancesAssumption
         DEF IInv, TypeInv, Connect, HasPod, Goto, Requests, redisVars, LaunchLabels
  <1>1. TypeInv'
    <2>1. PodsType'
      BY Zenon DEF PodsType
    <2>2. PcType' /\ SeenType'
      BY Zenon DEF PcType, SeenType
    <2>3. RestType'
      BY Zenon DEF RestType, RedisTypeOK
    <2> QED BY Zenon, <2>1, <2>2, <2>3
  <1>2. FreshOK'
    BY DEF FreshOK, Fresh
  <1>3. HostOwn'
    BY DEF HostOwn, Connected
  <1>4. UnkilledOK'
    <2> SUFFICES ASSUME NEW m \in Launches, Unkilled(Id(m))'
                 PROVE  /\ (pc[m] \in Connected \cup {"poll", "ok"} => HoldsPod(m))'
                        /\ (pc[m] \in Connected \cup {"ok"} => pods[Id(m)].phase = "Running")'
                        /\ (pc[m] = "ok" => instance[Id(m)] = m)'
                        /\ (HasPod(Id(m)) => ~pods[Id(m)].deleted)'
      BY Zenon DEF UnkilledOK
    <2>1. Unkilled(Id(m))
      BY DEF Unkilled
    <2> QED BY <2>1 DEF UnkilledOK, HoldsPod, Connected
  <1>5. PodsAccounted'
    BY DEF PodsAccounted
  <1>6. KilledIsGone'
    BY DEF KilledIsGone
  <1> QED BY Zenon, <1>1, <1>2, <1>3, <1>4, <1>5, <1>6

(* Setting up the accounts. *)
LEMMA SetBalanceInv ==
  ASSUME IInv, NEW l \in Launches, SetBalance(l)
  PROVE  IInv'
  <1> USE InstancesAssumption
         DEF IInv, TypeInv, SetBalance, HasPod, Goto, HostRuns, Requests, redisVars,
              LaunchLabels
  <1>1. TypeInv'
    <2>1. PodsType'
      BY Zenon DEF PodsType
    <2>2. PcType' /\ SeenType'
      BY Zenon DEF PcType, SeenType
    <2>3. RestType'
      BY Zenon DEF RestType, RedisTypeOK
    <2> QED BY Zenon, <2>1, <2>2, <2>3
  <1>2. FreshOK'
    BY DEF FreshOK, Fresh
  <1>3. HostOwn'
    BY DEF HostOwn, Connected
  <1>4. UnkilledOK'
    <2> SUFFICES ASSUME NEW m \in Launches, Unkilled(Id(m))'
                 PROVE  /\ (pc[m] \in Connected \cup {"poll", "ok"} => HoldsPod(m))'
                        /\ (pc[m] \in Connected \cup {"ok"} => pods[Id(m)].phase = "Running")'
                        /\ (pc[m] = "ok" => instance[Id(m)] = m)'
                        /\ (HasPod(Id(m)) => ~pods[Id(m)].deleted)'
      BY Zenon DEF UnkilledOK
    <2>1. Unkilled(Id(m))
      BY DEF Unkilled
    <2> QED BY SMTT(30), <2>1 DEF UnkilledOK, HoldsPod, Connected
  <1>5. PodsAccounted'
    BY SMTT(30) DEF PodsAccounted, PodsType, HostOwn, Connected
  <1>6. KilledIsGone'
    BY DEF KilledIsGone
  <1> QED BY Zenon, <1>1, <1>2, <1>3, <1>4, <1>5, <1>6

(* Registering the instance. *)
LEMMA RegisterInv ==
  ASSUME IInv, NEW l \in Launches, Register(l)
  PROVE  IInv'
  <1> USE InstancesAssumption
         DEF IInv, TypeInv, Register, HasPod, Goto, Id, Requests, LaunchLabels,
              RegisterInstance, Seconds
  <1>1. TypeInv'
    <2>1. PodsType'
      BY Zenon DEF PodsType
    <2>2. PcType' /\ SeenType'
      BY Zenon DEF PcType, SeenType
    <2>3. RestType'
      <3>1. Seconds(0) \in Nat
        BY RedisAssumption
      <3> HIDE DEF Seconds
      <3> QED BY Zenon, <3>1 DEF RestType, RedisTypeOK
    <2> QED BY Zenon, <2>1, <2>2, <2>3
  <1>2. FreshOK'
    BY DEF FreshOK, Fresh
  <1>3. HostOwn'
    BY DEF HostOwn, Connected
  <1>4. UnkilledOK'
    <2> SUFFICES ASSUME NEW m \in Launches, Unkilled(Id(m))'
                 PROVE  /\ (pc[m] \in Connected \cup {"poll", "ok"} => HoldsPod(m))'
                        /\ (pc[m] \in Connected \cup {"ok"} => pods[Id(m)].phase = "Running")'
                        /\ (pc[m] = "ok" => instance[Id(m)] = m)'
                        /\ (HasPod(Id(m)) => ~pods[Id(m)].deleted)'
      BY Zenon DEF UnkilledOK
    <2>1. Unkilled(Id(m))
      BY DEF Unkilled
    <2>2. Id(m) = Id(l) /\ pc[m] = "ok" => m = l
      BY <2>1 DEF UnkilledOK, HoldsPod, Connected
    <2>3. Unkilled(Id(l)) => HoldsPod(l) /\ pods[Id(l)].phase = "Running"
      BY Zenon DEF UnkilledOK, Connected
    <2> QED BY Zenon, <2>1, <2>2
               DEF UnkilledOK, HoldsPod, Connected, PcType, Pod, RestType, RedisTypeOK
  <1>5. PodsAccounted'
    BY DEF PodsAccounted, PodsType, RestType, RedisTypeOK
  <1>6. KilledIsGone'
    BY DEF KilledIsGone
  <1> QED BY Zenon, <1>1, <1>2, <1>3, <1>4, <1>5, <1>6

(* create_namespaced_pod. *)
LEMMA CreatePodInv ==
  ASSUME IInv, NEW l \in Launches, CreatePod(l)
  PROVE  IInv'
  <1> USE InstancesAssumption
         DEF IInv, TypeInv, CreatePod, HasPod, Goto, Id, Requests, redisVars,
              LaunchLabels
  <1>1. TypeInv'
    <2>1. PodsType'
      BY NewPodOK DEF PodsType
    <2>2. PcType' /\ SeenType'
      BY DEF PcType, SeenType
    <2>3. RestType'
      BY Zenon DEF RestType, RedisTypeOK
    <2> QED BY Zenon, <2>1, <2>2, <2>3
  <1>2. FreshOK'
    BY NewPodOK DEF FreshOK, Fresh, PcType, PodsType
  <1>3. HostOwn'
    BY SMTT(30), NewPodOK DEF HostOwn, Connected, PcType, PodsType
  <1>4. UnkilledOK'
    <2> SUFFICES ASSUME NEW m \in Launches, Unkilled(Id(m))'
                 PROVE  /\ (pc[m] \in Connected \cup {"poll", "ok"} => HoldsPod(m))'
                        /\ (pc[m] \in Connected \cup {"ok"} => pods[Id(m)].phase = "Running")'
                        /\ (pc[m] = "ok" => instance[Id(m)] = m)'
                        /\ (HasPod(Id(m)) => ~pods[Id(m)].deleted)'
      BY Zenon DEF UnkilledOK
    <2>1. Unkilled(Id(m))
      BY Zenon DEF Unkilled, PcType
    <2> QED BY SMTT(30), <2>1, NewPodOK DEF UnkilledOK, HoldsPod, Connected, PcType, PodsType
  <1>5. PodsAccounted'
    BY SMTT(30), NewPodOK DEF PodsAccounted, PcType, PodsType, Pod
  <1>6. KilledIsGone'
    BY NewPodOK DEF KilledIsGone, PcType, PodsType, FreshOK, Fresh
  <1> QED BY Zenon, <1>1, <1>2, <1>3, <1>4, <1>5, <1>6

(* A call of the launch that the API server refuses. *)
LEMMA LaunchRefusedInv ==
  ASSUME IInv, NEW l \in Launches, LaunchRefused(l)
  PROVE  IInv'
  <1> USE InstancesAssumption
         DEF IInv, TypeInv, LaunchRefused, HasPod, Goto, Requests, redisVars,
              LaunchLabels
  <1>1. TypeInv'
    <2>1. PodsType'
      BY Zenon DEF PodsType
    <2>2. PcType' /\ SeenType'
      BY Zenon DEF PcType, SeenType
    <2>3. RestType'
      BY SMTT(30) DEF RestType, RedisTypeOK
    <2> QED BY Zenon, <2>1, <2>2, <2>3
  <1>2. FreshOK'
    BY DEF FreshOK, Fresh
  <1>3. HostOwn'
    BY SMTT(30) DEF HostOwn, Connected
  <1>4. UnkilledOK'
    <2> SUFFICES ASSUME NEW m \in Launches, Unkilled(Id(m))'
                 PROVE  /\ (pc[m] \in Connected \cup {"poll", "ok"} => HoldsPod(m))'
                        /\ (pc[m] \in Connected \cup {"ok"} => pods[Id(m)].phase = "Running")'
                        /\ (pc[m] = "ok" => instance[Id(m)] = m)'
                        /\ (HasPod(Id(m)) => ~pods[Id(m)].deleted)'
      BY Zenon DEF UnkilledOK
    <2>1. Unkilled(Id(m))
      BY DEF Unkilled
    <2> QED BY SMTT(30), <2>1 DEF UnkilledOK, HoldsPod, Connected
  <1>5. PodsAccounted'
    BY DEF PodsAccounted
  <1>6. KilledIsGone'
    BY DEF KilledIsGone
  <1> QED BY Zenon, <1>1, <1>2, <1>3, <1>4, <1>5, <1>6

(* A call of the launch that is done, and whose reply is lost. *)
LEMMA LaunchReplyLostInv ==
  ASSUME IInv, NEW l \in Launches, LaunchReplyLost(l)
  PROVE  IInv'
  <1> USE InstancesAssumption
         DEF IInv, TypeInv, LaunchReplyLost, HasPod, Goto, Id, Requests, redisVars,
              LaunchLabels, RegisterInstance, Seconds
  <1>1. TypeInv'
    <2>1. PodsType'
      BY NewPodOK DEF PodsType
    <2>2. PcType' /\ SeenType'
      BY Zenon DEF PcType, SeenType
    <2>3. RestType'
      BY SMTT(30), RedisAssumption DEF RestType, RedisTypeOK
    <2> QED BY Zenon, <2>1, <2>2, <2>3
  <1>2. FreshOK'
    BY SMTT(30), NewPodOK DEF FreshOK, Fresh, PcType, PodsType, RestType, RedisTypeOK
  <1>3. HostOwn'
    BY SMTT(30), NewPodOK DEF HostOwn, Connected, PodsType
  <1>4. UnkilledOK'
    <2> SUFFICES ASSUME NEW m \in Launches, Unkilled(Id(m))'
                 PROVE  /\ (pc[m] \in Connected \cup {"poll", "ok"} => HoldsPod(m))'
                        /\ (pc[m] \in Connected \cup {"ok"} => pods[Id(m)].phase = "Running")'
                        /\ (pc[m] = "ok" => instance[Id(m)] = m)'
                        /\ (HasPod(Id(m)) => ~pods[Id(m)].deleted)'
      BY Zenon DEF UnkilledOK
    <2>1. Unkilled(Id(m))
      BY SMTT(30) DEF Unkilled
    <2> QED BY SMTT(30), <2>1, NewPodOK
               DEF UnkilledOK, HoldsPod, Connected, PodsType, RestType, RedisTypeOK
  <1>5. PodsAccounted'
    BY NewPodOK DEF PodsAccounted, PodsType, RestType, RedisTypeOK
  <1>6. KilledIsGone'
    BY NewPodOK DEF KilledIsGone, PodsType, FreshOK, Fresh
  <1> QED BY Zenon, <1>1, <1>2, <1>3, <1>4, <1>5, <1>6

(* The first half of unregister_instance. *)
LEMMA UnregisterGetInv ==
  ASSUME IInv, NEW k \in Kills, UnregisterGet(k)
  PROVE  IInv'
  <1> USE InstancesAssumption
         DEF IInv, TypeInv, UnregisterGet, HasPod, Goto, Id, Requests, redisVars,
              KillLabels
  <1>1. TypeInv'
    <2>1. PodsType'
      BY Zenon DEF PodsType
    <2>2. PcType' /\ SeenType'
      <3>1. Id(k) \in InstanceIds /\ instance[Id(k)] \in Launches \cup {None}
        BY Zenon DEF RestType, RedisTypeOK
      <3>2. /\ seen'[k] = instance[Id(k)]
            /\ \A j \in Kills \ {k} : seen'[j] = seen[j] /\ pc'[j] = pc[j]
        BY DEF SeenType
      <3> HIDE DEF Id
      <3> QED BY Zenon, <3>1 DEF PcType, SeenType
    <2>3. RestType'
      BY Zenon DEF RestType, RedisTypeOK
    <2> QED BY Zenon, <2>1, <2>2, <2>3
  <1>2. FreshOK'
    <2>1. Id(k) \in InstanceIds /\ \A j \in Kills : seen'[j] \in {seen[j], instance[Id(k)]}
      OBVIOUS
    <2> HIDE DEF Id
    <2> QED BY <2>1 DEF FreshOK
  <1>3. HostOwn'
    BY SMTT(30) DEF HostOwn
  <1>4. UnkilledOK'
    <2> SUFFICES ASSUME NEW m \in Launches, Unkilled(Id(m))'
                 PROVE  /\ (pc[m] \in Connected \cup {"poll", "ok"} => HoldsPod(m))'
                        /\ (pc[m] \in Connected \cup {"ok"} => pods[Id(m)].phase = "Running")'
                        /\ (pc[m] = "ok" => instance[Id(m)] = m)'
                        /\ (HasPod(Id(m)) => ~pods[Id(m)].deleted)'
      BY Zenon DEF UnkilledOK
    <2>1. Unkilled(Id(m))
      BY DEF Unkilled
    <2> QED BY SMTT(30), <2>1 DEF UnkilledOK, HoldsPod
  <1>5. PodsAccounted'
    BY DEF PodsAccounted
  <1>6. KilledIsGone'
    BY DEF KilledIsGone
  <1> QED BY Zenon, <1>1, <1>2, <1>3, <1>4, <1>5, <1>6

(* The second half of unregister_instance. *)
LEMMA UnregisterExecInv ==
  ASSUME IInv, NEW k \in Kills, UnregisterExec(k)
  PROVE  IInv'
  <1> USE InstancesAssumption
         DEF IInv, TypeInv, UnregisterExec, HasPod, Goto, Requests, KillLabels,
              UnregisterPipeline
  <1>1. TypeInv'
    <2>1. PodsType'
      BY Zenon DEF PodsType
    <2>2. PcType' /\ SeenType'
      BY Zenon DEF PcType, SeenType
    <2>3. RestType'
      BY Zenon DEF RestType, RedisTypeOK
    <2> QED BY Zenon, <2>1, <2>2, <2>3
  <1>2. FreshOK'
    BY DEF FreshOK
  <1>3. HostOwn'
    BY SMTT(30) DEF HostOwn
  <1>4. UnkilledOK'
    <2> SUFFICES ASSUME NEW m \in Launches, Unkilled(Id(m))'
                 PROVE  /\ (pc[m] \in Connected \cup {"poll", "ok"} => HoldsPod(m))'
                        /\ (pc[m] \in Connected \cup {"ok"} => pods[Id(m)].phase = "Running")'
                        /\ (pc[m] = "ok" => instance[Id(m)] = m)'
                        /\ (HasPod(Id(m)) => ~pods[Id(m)].deleted)'
      BY Zenon DEF UnkilledOK
    <2>1. Unkilled(Id(m))
      BY SMTT(30) DEF Unkilled
    <2> QED BY SMTT(30) DEF UnkilledOK, Unkilled, HoldsPod
  <1>5. PodsAccounted'
    BY SMTT(30) DEF PodsAccounted, PcType
  <1>6. KilledIsGone'
    BY DEF KilledIsGone
  <1> QED BY Zenon, <1>1, <1>2, <1>3, <1>4, <1>5, <1>6

(* delete_namespaced_pod. *)
LEMMA DeletePodInv ==
  ASSUME IInv, NEW k \in Kills, DeletePod(k)
  PROVE  IInv'
  <1> USE InstancesAssumption
         DEF IInv, TypeInv, DeletePod, HasPod, Goto, Id, Requests, redisVars, KillLabels
  <1>1. TypeInv'
    <2>1. PodsType'
      <3>1. CASE UNCHANGED pods
        BY Zenon, <3>1 DEF PodsType
      <3>2. CASE HasPod(Id(k)) /\ pods' = [pods EXCEPT ![Id(k)].deleted = TRUE]
        BY Zenon, <3>2, MarkedPods
      <3> QED BY Zenon, <3>1, <3>2
    <2>2. PcType' /\ SeenType'
      BY DEF PcType, SeenType
    <2>3. RestType'
      BY Zenon DEF RestType, RedisTypeOK
    <2> QED BY Zenon, <2>1, <2>2, <2>3
  <1>2. FreshOK'
    BY DEF FreshOK, PcType, PodsType, Pod
  <1>3. HostOwn'
    BY DEF HostOwn, PcType, PodsType, Pod
  <1>4. UnkilledOK'
    <2> SUFFICES ASSUME NEW m \in Launches, Unkilled(Id(m))'
                 PROVE  /\ (pc[m] \in Connected \cup {"poll", "ok"} => HoldsPod(m))'
                        /\ (pc[m] \in Connected \cup {"ok"} => pods[Id(m)].phase = "Running")'
                        /\ (pc[m] = "ok" => instance[Id(m)] = m)'
                        /\ (HasPod(Id(m)) => ~pods[Id(m)].deleted)'
      BY Zenon DEF UnkilledOK
    <2>1. Unkilled(Id(m))
      BY Zenon DEF Unkilled, PcType
    <2> QED BY DEF UnkilledOK, Unkilled, HoldsPod, PcType, PodsType
  <1>5. PodsAccounted'
    BY DEF PodsAccounted, PcType, PodsType, Pod
  <1>6. KilledIsGone'
    BY DEF KilledIsGone, PcType, PodsType, Pod
  <1> QED BY Zenon, <1>1, <1>2, <1>3, <1>4, <1>5, <1>6

(* A poll for the pod to be gone. *)
LEMMA WaitGoneInv ==
  ASSUME IInv, NEW k \in Kills, WaitGone(k)
  PROVE  IInv'
  <1> USE InstancesAssumption
         DEF IInv, TypeInv, WaitGone, HasPod, Goto, Requests, redisVars, KillLabels
  <1>1. TypeInv'
    <2>1. PodsType'
      BY Zenon DEF PodsType
    <2>2. PcType' /\ SeenType'
      BY Zenon DEF PcType, SeenType
    <2>3. RestType'
      BY Zenon DEF RestType, RedisTypeOK
    <2> QED BY Zenon, <2>1, <2>2, <2>3
  <1>2. FreshOK'
    BY DEF FreshOK
  <1>3. HostOwn'
    BY SMTT(30) DEF HostOwn
  <1>4. UnkilledOK'
    <2> SUFFICES ASSUME NEW m \in Launches, Unkilled(Id(m))'
                 PROVE  /\ (pc[m] \in Connected \cup {"poll", "ok"} => HoldsPod(m))'
                        /\ (pc[m] \in Connected \cup {"ok"} => pods[Id(m)].phase = "Running")'
                        /\ (pc[m] = "ok" => instance[Id(m)] = m)'
                        /\ (HasPod(Id(m)) => ~pods[Id(m)].deleted)'
      BY Zenon DEF UnkilledOK
    <2>1. Unkilled(Id(m))
      BY SMTT(30) DEF Unkilled
    <2> QED BY SMTT(30), <2>1 DEF UnkilledOK, HoldsPod
  <1>5. PodsAccounted'
    BY DEF PodsAccounted
  <1>6. KilledIsGone'
    BY DEF KilledIsGone
  <1> QED BY Zenon, <1>1, <1>2, <1>3, <1>4, <1>5, <1>6

(* A call of the kill that is refused. *)
LEMMA KillRefusedInv ==
  ASSUME IInv, NEW k \in Kills, KillRefused(k)
  PROVE  IInv'
  <1> USE InstancesAssumption
         DEF IInv, TypeInv, KillRefused, HasPod, Goto, Id, Holder, Requests, redisVars,
              KillLabels
  <1>1. TypeInv'
    <2>1. PodsType'
      BY Zenon DEF PodsType
    <2>2. PcType' /\ SeenType'
      BY Zenon DEF PcType, SeenType
    <2>3. RestType'
      BY DEF RestType, RedisTypeOK, PodsType, Pod
    <2> QED BY Zenon, <2>1, <2>2, <2>3
  <1>2. FreshOK'
    BY DEF FreshOK
  <1>3. HostOwn'
    BY SMTT(30) DEF HostOwn
  <1>4. UnkilledOK'
    <2> SUFFICES ASSUME NEW m \in Launches, Unkilled(Id(m))'
                 PROVE  /\ (pc[m] \in Connected \cup {"poll", "ok"} => HoldsPod(m))'
                        /\ (pc[m] \in Connected \cup {"ok"} => pods[Id(m)].phase = "Running")'
                        /\ (pc[m] = "ok" => instance[Id(m)] = m)'
                        /\ (HasPod(Id(m)) => ~pods[Id(m)].deleted)'
      BY Zenon DEF UnkilledOK
    <2>1. Unkilled(Id(m))
      BY DEF Unkilled
    <2> QED BY SMTT(30), <2>1 DEF UnkilledOK, HoldsPod
  <1>5. PodsAccounted'
    BY DEF PodsAccounted
  <1>6. KilledIsGone'
    BY DEF KilledIsGone
  <1> QED BY Zenon, <1>1, <1>2, <1>3, <1>4, <1>5, <1>6

(* A call of the kill that is done, and whose reply is lost. *)
LEMMA KillReplyLostInv ==
  ASSUME IInv, NEW k \in Kills, KillReplyLost(k)
  PROVE  IInv'
  <1> USE InstancesAssumption
         DEF IInv, TypeInv, KillReplyLost, HasPod, Goto, Id, Holder, Requests,
              redisVars, KillLabels, UnregisterPipeline
  <1>1. TypeInv'
    <2>1. PodsType'
      <3>1. CASE UNCHANGED pods
        BY Zenon, <3>1 DEF PodsType
      <3>2. CASE HasPod(Id(k)) /\ pods' = [pods EXCEPT ![Id(k)].deleted = TRUE]
        BY Zenon, <3>2, MarkedPods
      <3> QED BY Zenon, <3>1, <3>2
    <2>2. PcType' /\ SeenType'
      BY Zenon DEF PcType, SeenType
    <2>3. RestType'
      BY DEF RestType, RedisTypeOK, PodsType, Pod
    <2> QED BY Zenon, <2>1, <2>2, <2>3
  <1>2. FreshOK'
    BY DEF FreshOK, PodsType, Pod, RestType, RedisTypeOK
  <1>3. HostOwn'
    BY DEF HostOwn, PodsType, Pod
  <1>4. UnkilledOK'
    <2> SUFFICES ASSUME NEW m \in Launches, Unkilled(Id(m))'
                 PROVE  /\ (pc[m] \in Connected \cup {"poll", "ok"} => HoldsPod(m))'
                        /\ (pc[m] \in Connected \cup {"ok"} => pods[Id(m)].phase = "Running")'
                        /\ (pc[m] = "ok" => instance[Id(m)] = m)'
                        /\ (HasPod(Id(m)) => ~pods[Id(m)].deleted)'
      BY Zenon DEF UnkilledOK
    <2>1. Unkilled(Id(m))
      BY DEF Unkilled
    <2> QED BY DEF UnkilledOK, Unkilled, HoldsPod, PodsType, RestType, RedisTypeOK
  <1>5. PodsAccounted'
    BY DEF PodsAccounted, PodsType, Pod, RestType, RedisTypeOK
  <1>6. KilledIsGone'
    BY DEF KilledIsGone, PodsType, Pod
  <1> QED BY Zenon, <1>1, <1>2, <1>3, <1>4, <1>5, <1>6

(* Kubernetes runs a pod. *)
LEMMA PodRunsInv ==
  ASSUME IInv, NEW id \in InstanceIds, PodRuns(id)
  PROVE  IInv'
  <1> USE KubernetesAssumption DEF IInv, TypeInv, PodRuns, HasPod, redisVars
  <1>1. TypeInv'
    <2>1. PodsType'
      BY Zenon DEF PodsType, Pod
    <2>2. PcType' /\ SeenType'
      BY Zenon DEF PcType, SeenType
    <2>3. RestType'
      BY Zenon DEF RestType, RedisTypeOK
    <2> QED BY Zenon, <2>1, <2>2, <2>3
  <1>2. FreshOK'
    BY DEF FreshOK
  <1>3. HostOwn'
    BY DEF HostOwn
  <1>4. UnkilledOK'
    <2> SUFFICES ASSUME NEW m \in Launches, Unkilled(Id(m))'
                 PROVE  /\ (pc[m] \in Connected \cup {"poll", "ok"} => HoldsPod(m))'
                        /\ (pc[m] \in Connected \cup {"ok"} => pods[Id(m)].phase = "Running")'
                        /\ (pc[m] = "ok" => instance[Id(m)] = m)'
                        /\ (HasPod(Id(m)) => ~pods[Id(m)].deleted)'
      BY Zenon DEF UnkilledOK
    <2>1. Unkilled(Id(m))
      BY Zenon DEF Unkilled
    <2> QED BY <2>1 DEF UnkilledOK, HoldsPod, PodsType, Pod
  <1>5. PodsAccounted'
    BY DEF PodsAccounted
  <1>6. KilledIsGone'
    BY DEF KilledIsGone
  <1> QED BY Zenon, <1>1, <1>2, <1>3, <1>4, <1>5, <1>6

(* Kubernetes removes a deleted pod. *)
LEMMA PodGoesInv ==
  ASSUME IInv, NEW id \in InstanceIds, PodGoes(id)
  PROVE  IInv'
  <1> USE DEF IInv, TypeInv, PodGoes, HasPod, redisVars
  <1>1. TypeInv'
    <2>1. PodsType'
      BY Zenon DEF PodsType
    <2>2. PcType' /\ SeenType'
      BY Zenon DEF PcType, SeenType
    <2>3. RestType'
      BY Zenon DEF RestType, RedisTypeOK
    <2> QED BY Zenon, <2>1, <2>2, <2>3
  <1>2. FreshOK'
    BY DEF FreshOK
  <1>3. HostOwn'
    BY SMTT(30) DEF HostOwn
  <1>4. UnkilledOK'
    <2> SUFFICES ASSUME NEW m \in Launches, Unkilled(Id(m))'
                 PROVE  /\ (pc[m] \in Connected \cup {"poll", "ok"} => HoldsPod(m))'
                        /\ (pc[m] \in Connected \cup {"ok"} => pods[Id(m)].phase = "Running")'
                        /\ (pc[m] = "ok" => instance[Id(m)] = m)'
                        /\ (HasPod(Id(m)) => ~pods[Id(m)].deleted)'
      BY Zenon DEF UnkilledOK
    <2>1. Unkilled(Id(m))
      BY Zenon DEF Unkilled
    <2> QED BY SMTT(30), <2>1 DEF UnkilledOK, HoldsPod
  <1>5. PodsAccounted'
    BY DEF PodsAccounted
  <1>6. KilledIsGone'
    BY DEF KilledIsGone
  <1> QED BY Zenon, <1>1, <1>2, <1>3, <1>4, <1>5, <1>6

-----------------------------------------------------------------------------
(* Every step keeps the invariant. *)
LEMMA NextIInv == IInv /\ [Next]_vars => IInv'
  <1> SUFFICES ASSUME IInv, [Next]_vars PROVE IInv'
    BY Zenon
  <1>1. CASE UNCHANGED vars
    <2> USE <1>1 DEF vars, redisVars, HasPod, IInv
    <2>1. TypeInv'
      BY Zenon DEF TypeInv, PodsType, PcType, SeenType, RestType, RedisTypeOK
    <2>2. FreshOK' /\ HostOwn'
      BY Zenon DEF FreshOK, HostOwn
    <2>3. UnkilledOK'
      BY Zenon DEF UnkilledOK, Unkilled, HoldsPod
    <2>4. PodsAccounted' /\ KilledIsGone'
      BY Zenon DEF PodsAccounted, KilledIsGone
    <2> QED BY Zenon, <2>1, <2>2, <2>3, <2>4
  <1>2. ASSUME NEW l \in Launches, LaunchStep(l) PROVE IInv'
    BY Zenon, <1>2, CheckInv, CreatePodInv, PollInv, ConnectInv, SetBalanceInv, RegisterInv
       DEF LaunchStep
  <1>3. ASSUME NEW k \in Kills, KillStep(k) PROVE IInv'
    BY Zenon, <1>3, UnregisterGetInv, UnregisterExecInv, DeletePodInv, WaitGoneInv DEF KillStep
  <1>4. ASSUME NEW id \in InstanceIds, PodRuns(id) \/ PodGoes(id) PROVE IInv'
    BY Zenon, <1>4, PodRunsInv, PodGoesInv
  <1>5. ASSUME NEW l \in Launches, LaunchRefused(l) \/ LaunchReplyLost(l) PROVE IInv'
    BY Zenon, <1>5, LaunchRefusedInv, LaunchReplyLostInv
  <1>6. ASSUME NEW k \in Kills, KillRefused(k) \/ KillReplyLost(k) PROVE IInv'
    BY <1>6, KillRefusedInv, KillReplyLostInv
  <1> QED BY Zenon, <1>1, <1>2, <1>3, <1>4, <1>5, <1>6 DEF Next

(* IInv always holds. *)
LEMMA SpecIInv == Spec => []IInv
  BY InitIInv, NextIInv, PTL DEF Spec

(* A record is its fields. *)
LEMMA PodFields ==
  ASSUME NEW pod \in Pod
  PROVE  pod = [launch |-> pod.launch, phase |-> pod.phase, deleted |-> pod.deleted]
  BY Zenon DEF Pod

(* A launch that was answered and that nobody asked to kill has its running *)
(* pod and its document, whatever launches of the same id race with it.     *)
THEOREM LaunchesStayIntact == Spec => []LaunchedIsIntact
  <1>1. IInv => LaunchedIsIntact
    <2> SUFFICES ASSUME IInv, NEW l \in Launches, pc[l] = "ok", Unkilled(Id(l))
                 PROVE  /\ instance[Id(l)] = l /\ HasPod(Id(l))
                        /\ pods[Id(l)] = [launch |-> l, phase |-> "Running", deleted |-> FALSE]
      BY Zenon DEF LaunchedIsIntact, Unkilled
    <2>1. /\ instance[Id(l)] = l /\ HasPod(Id(l))
          /\ pods[Id(l)].launch = l /\ pods[Id(l)].phase = "Running" /\ ~pods[Id(l)].deleted
      BY Zenon DEF IInv, UnkilledOK, HoldsPod
    <2>2. pods[Id(l)] \in Pod
      BY Zenon, <2>1, InstancesAssumption DEF IInv, TypeInv, PodsType, HasPod, Id
    <2>3. pods[Id(l)].deleted = FALSE
      BY <2>1
    <2> QED BY Zenon, <2>1, <2>2, <2>3, PodFields
  <1> QED BY <1>1, SpecIInv, PTL

(* No pod is left behind under an id that nothing can find, except after a  *)
(* refused call.                                                            *)
THEOREM PodsStayAccounted == Spec => []PodsAccounted
  <1>1. IInv => PodsAccounted
    BY Zenon DEF IInv
  <1> QED BY <1>1, SpecIInv, PTL

(* The pod that an answered kill unregistered never shows again. *)
THEOREM KilledStaysGone == Spec => []KilledIsGone
  <1>1. IInv => KilledIsGone
    BY Zenon DEF IInv
  <1> QED BY <1>1, SpecIInv, PTL

-----------------------------------------------------------------------------
(* The nodes of an access token                                             *)

Slot == [pid : Pid \cup {Null}, port : Port \cup {0}]
Active == [at : {"ready", "wait", "call"}, step : 1 .. 4, token : Token, lx : {1, 2},
           rounds : Nat]

NodeTypeInv ==
    /\ db \in [Node -> Slot]
    /\ locks \in [Node -> SUBSET (Request \cup Pid)]
    /\ owner \in [Port -> Node \cup {Other, Null}]
    /\ state \in [Node -> {"absent", "original", "dumped", "torn"}]
    /\ proc \in [Pid -> Process \cup {Null}]
    /\ req \in [Request -> Active \cup [at : {"idle"}, rounds : Nat]]
    /\ fresh \subseteq Node

(* What runs holds the lock of its node and is the pid on file; the pid on  *)
(* file is that of a child of this node.                                    *)
Filed ==
    /\ \A p \in Pid : Alive(p) => p \in locks[proc[p].node] /\ db[proc[p].node].pid = p
    /\ \A n \in Node : db[n].pid # Null => proc[db[n].pid] # Null /\ proc[db[n].pid].node = n

(* The port on file is the node's own; it is there while the lock is held,  *)
(* and from the step of a request that made the node ready.                 *)
PortOwned ==
    \A n \in Node : db[n].port # 0 => db[n].port \in Port /\ owner[db[n].port] = n
LockedHasPort == \A n \in Node : locks[n] # {} => db[n].port # 0
PassedHasPort ==
    \A r \in Request, i \in {1, 2} :
        req[r].at # "idle" /\ i < req[r].step => db[NodeOf(r, i)].port # 0

(* RelayerWired for every child, dead ones included. *)
Wired ==
    \A p \in Pid : proc[p] # Null /\ proc[p].node[2] = "RELAYER" =>
        \A i \in {1, 2} : /\ proc[p].wired[i] \in Port
                          /\ owner[proc[p].wired[i]] = <<proc[p].node[1], Kinds[i]>>

(* A node that was reset does not run. *)
FreshIsDown == \A p \in Pid : Alive(p) => proc[p].node \notin fresh

NodeIInv ==
    /\ NodeTypeInv /\ Filed /\ PortOwned /\ LockedHasPort /\ PassedHasPort /\ Wired
    /\ FreshIsDown /\ ResetRestores

-----------------------------------------------------------------------------
(* A nonempty set of ports has a first one. *)
LEMMA FirstOfPorts ==
  ASSUME NEW S, S \subseteq Port, S # {}
  PROVE  \E p \in S : \A q \in S : p <= q
  <1>1. S \subseteq Nat
    BY Zenon, ManagerAssumption
  <1>2. PICK p \in S : \A q \in S : ~(<<q, p>> \in OpToRel(<, Nat))
    BY Zenon, <1>1, NatLessThanWellFounded, WFMin
  <1>3. \A q \in S : ~(q < p)
    BY Zenon, <1>1, <1>2 DEF OpToRel
  <1> QED BY <1>1, <1>3

(* The port that assign_port chooses is free, or the node's own. *)
LEMMA FirstPortOK ==
  ASSUME NEW n, PortsFor(n) # {}
  PROVE  FirstPort(n) \in Port /\ owner[FirstPort(n)] \in {n, Null}
  <1>1. \E p \in PortsFor(n) : \A q \in PortsFor(n) : p <= q
    BY Zenon, FirstOfPorts DEF PortsFor
  <1>2. FirstPort(n) \in PortsFor(n)
    BY Zenon, <1>1 DEF FirstPort
  <1> QED BY Zenon, <1>2 DEF PortsFor

(* A relayer's node belongs to a token that has two chains. *)
LEMMA KindsOK ==
  ASSUME NEW n \in Node
  PROVE  \A i \in {1, 2} : <<n[1], Kinds[i]>> \in Node
  BY DEF Node, Kinds

(* The ports of a row are numbers. *)
LEMMA SlotPorts ==
  ASSUME NEW slot \in Slot
  PROVE  slot.port \in Nat
  <1>1. slot.port \in Port \cup {0}
    BY Zenon DEF Slot
  <1>2. Port \subseteq Nat
    BY Zenon, ManagerAssumption
  <1>3. 0 \in Nat
    BY Zenon
  <1> QED BY <1>1, <1>2, <1>3, Zenon

(* The node that a request is at. *)
LEMMA TargetOK ==
  ASSUME NodeTypeInv, NEW r \in Request, req[r].at # "idle"
  PROVE  /\ req[r] \in Active
         /\ \A i \in 1 .. 3 : NodeOf(r, i) \in Node /\ NodeOf(r, i)[2] = Kinds[i]
                               /\ NodeOf(r, i)[1] = req[r].token
         /\ Target(r) \in Node /\ Target(r)[1] = req[r].token
         /\ Target(r)[2] = "RELAYER" <=> req[r].step = 3
         /\ req[r].step \in {1, 2, 3} => Target(r) = NodeOf(r, req[r].step)
  <1>1. req[r] \in Active
    BY Zenon DEF NodeTypeInv
  <1>2. req[r].token \in Token /\ req[r].step \in 1 .. 4 /\ req[r].lx \in {1, 2}
    BY Zenon, <1>1 DEF Active
  <1>3. \A i \in 1 .. 3 : /\ NodeOf(r, i) \in Node /\ NodeOf(r, i)[2] = Kinds[i]
                          /\ NodeOf(r, i)[1] = req[r].token
    BY <1>2 DEF NodeOf, Node, Kinds
  <1>4. Target(r) = NodeOf(r, IF req[r].step = 4 THEN req[r].lx ELSE req[r].step)
    BY Zenon DEF Target
  <1>5. (IF req[r].step = 4 THEN req[r].lx ELSE req[r].step) \in 1 .. 3
    BY SMTT(30), <1>2
  <1>6. Target(r)[2] = "RELAYER" <=> req[r].step = 3
    BY SMTT(30), <1>2, <1>3, <1>4, <1>5 DEF Kinds
  <1> QED BY <1>1, <1>2, <1>3, <1>4, <1>5, <1>6

LEMMA RequestNodes ==
  ASSUME NodeTypeInv
  PROVE  \A r \in Request, i \in {1, 2} : req[r].at # "idle" => NodeOf(r, i) \in Node
  <1>1. {1, 2} \subseteq 1 .. 3
    OBVIOUS
  <1> QED BY Zenon, <1>1, TargetOK

(* NodeIInv holds when the server starts. *)
LEMMA InitNodeIInv == NodeInit => NodeIInv
  <1> SUFFICES ASSUME NodeInit PROVE NodeIInv
    OBVIOUS
  <1> USE ManagerAssumption DEF NodeInit
  <1>1. NodeTypeInv
    BY Zenon DEF NodeTypeInv, Slot, Idle
  <1>2. /\ \A p \in Pid : ~Alive(p) /\ proc[p] = Null
        /\ \A n \in Node : db[n].pid = Null /\ db[n].port = 0 /\ locks[n] = {}
        /\ \A r \in Request : req[r].at = "idle"
    BY Zenon DEF Alive, Idle
  <1> QED BY Zenon, <1>1, <1>2 DEF NodeIInv, Filed, PortOwned, LockedHasPort, PassedHasPort, Wired,
                            FreshIsDown, ResetRestores

(* A step that moves a request and gives up no lock but a request's own. *)
LEMMA QuietStep ==
  ASSUME NodeIInv, UNCHANGED <<db, owner, state, proc, fresh>>,
         locks' \in [Node -> SUBSET (Request \cup Pid)],
         \A n \in Node : locks'[n] \subseteq locks[n] /\ locks[n] \ locks'[n] \subseteq Request,
         req' \in [Request -> Active \cup [at : {"idle"}, rounds : Nat]],
         PassedHasPort'
  PROVE  NodeIInv'
  <1> USE DEF NodeIInv
  <1>1. NodeTypeInv'
    BY Zenon DEF NodeTypeInv
  <1>2. Filed'
    <2>1. \A p \in Pid : Alive(p)' => Alive(p)
      BY Zenon DEF Alive
    <2>2. \A p \in Pid : Alive(p) => proc[p].node \in Node
      BY Zenon DEF Alive, NodeTypeInv, Process
    <2>3. \A p \in Pid : p \notin Request
      BY Zenon, ManagerAssumption
    <2> QED BY Zenon, <2>1, <2>2, <2>3 DEF Filed
  <1>3. PortOwned' /\ LockedHasPort' /\ Wired' /\ ResetRestores'
    BY ZenonT(30) DEF PortOwned, LockedHasPort, Wired, ResetRestores
  <1>4. FreshIsDown'
    BY Zenon DEF FreshIsDown, Alive
  <1> QED BY Zenon, <1>1, <1>2, <1>3, <1>4

(* The requests after a step of one: the nodes that they have passed are    *)
(* those of before and the one that this one was at.                        *)
Passed(s, i) == req[s].at # "idle" /\ i < req[s].step
(* A request goes on from a node: it has passed that node and those before. *)
LEMMA ContinueOK ==
  ASSUME NodeIInv, NEW r \in Request, req[r].at # "idle",
         req' = [req EXCEPT ![r] = Continue(r)]
  PROVE  /\ req' \in [Request -> Active \cup [at : {"idle"}, rounds : Nat]]
         /\ \A s \in Request, i \in {1, 2} : Passed(s, i)' =>
               NodeOf(s, i)' \in Node /\ (NodeOf(s, i)' = Target(r) \/ db[NodeOf(s, i)'].port # 0)
  <1> USE DEF NodeIInv
  <1>1. /\ req[r] \in Active /\ req[r].step \in 1 .. 4 /\ req[r].token \in Token
        /\ req[r].step \in {1, 2, 3} => Target(r) = NodeOf(r, req[r].step)
    BY Zenon, TargetOK DEF Active
  <1>2. Continue(r) \in Active
    <2>1. CASE req[r].step = 4
      <3>1. [req[r] EXCEPT !.at = "call"] \in Active
        BY <1>1, Zenon DEF Active
      <3> QED BY Zenon, <2>1, <3>1 DEF Continue
    <2>2. CASE req[r].step # 4
      <3>1. req[r].step + 1 \in 1 .. 4
        BY <1>1, <2>2
      <3>2. [req[r] EXCEPT !.at = "ready", !.step = req[r].step + 1] \in Active
        BY <1>1, <3>1, Zenon DEF Active
      <3> QED BY Zenon, <2>2, <3>2 DEF Continue
    <2> QED BY Zenon, <2>1, <2>2
  <1>3. Continue(r).token = req[r].token
    BY Zenon, <1>1 DEF Continue, Active
  <1>4. Continue(r).step = IF req[r].step = 4 THEN 4 ELSE req[r].step + 1
    BY Zenon, <1>1 DEF Continue, Active
  <1>5. req' \in [Request -> Active \cup [at : {"idle"}, rounds : Nat]]
    BY Zenon, <1>2 DEF NodeTypeInv
  <1>6. ASSUME NEW s \in Request, NEW i \in {1, 2}, Passed(s, i)'
        PROVE  NodeOf(s, i)' \in Node /\ (NodeOf(s, i)' = Target(r) \/ db[NodeOf(s, i)'].port # 0)
    <2>1. CASE s # r
      <3>1. req'[s] = req[s]
        BY Zenon, <2>1 DEF NodeTypeInv
      <3>2. Passed(s, i) /\ NodeOf(s, i)' = NodeOf(s, i)
        BY Zenon, <1>6, <3>1 DEF Passed, NodeOf
      <3> QED BY <3>2, TargetOK DEF Passed, PassedHasPort
    <2>2. CASE s = r
      <3>1. req'[r] = Continue(r)
        BY Zenon DEF NodeTypeInv
      <3>2. NodeOf(r, i)' = NodeOf(r, i)
        BY Zenon, <3>1, <1>3 DEF NodeOf
      <3>3. NodeOf(r, i) \in Node
        BY SMTT(30), TargetOK
      <3>4. i < req[r].step \/ i = req[r].step
        BY <1>1, <1>4, <1>6, <2>2, <3>1 DEF Passed
      <3> QED BY Zenon, <1>1, <2>2, <3>2, <3>3, <3>4 DEF PassedHasPort
    <2> QED BY Zenon, <2>1, <2>2
  <1> QED BY Zenon, <1>5, <1>6

(* A request that waits has passed no further node. *)
LEMMA WaitOK ==
  ASSUME NodeIInv, NEW r \in Request, req[r].at # "idle",
         req' = [req EXCEPT ![r] = [@ EXCEPT !.at = "wait"]]
  PROVE  /\ req' \in [Request -> Active \cup [at : {"idle"}, rounds : Nat]]
         /\ \A s \in Request, i \in {1, 2} : Passed(s, i)' =>
               NodeOf(s, i)' \in Node /\ db[NodeOf(s, i)'].port # 0
  <1> DEFINE new == [req[r] EXCEPT !.at = "wait"]
  <1>1. req[r] \in Active
    BY Zenon, TargetOK DEF NodeIInv
  <1>2. new \in Active /\ new.step = req[r].step /\ new.token = req[r].token
    BY <1>1, Zenon DEF Active
  <1> HIDE DEF new
  <1>3. /\ req' \in [Request -> Active \cup [at : {"idle"}, rounds : Nat]]
        /\ \A s \in Request : req'[s] = IF s = r THEN new ELSE req[s]
    BY Zenon, <1>2 DEF NodeIInv, NodeTypeInv, new
  <1>4. ASSUME NEW s \in Request, NEW i \in {1, 2}, Passed(s, i)'
        PROVE  NodeOf(s, i)' \in Node /\ db[NodeOf(s, i)'].port # 0
    <2>1. Passed(s, i) /\ NodeOf(s, i)' = NodeOf(s, i)
      BY Zenon, <1>2, <1>3, <1>4 DEF Passed, NodeOf
    <2> QED BY <2>1, TargetOK DEF NodeIInv, Passed, PassedHasPort
  <1> QED BY Zenon, <1>3, <1>4

(* A request that ends. *)
LEMMA IdleOK ==
  ASSUME NodeIInv, NEW r \in Request, req[r].at # "idle",
         req' = [req EXCEPT ![r] = Idle(req[r].rounds)]
  PROVE  /\ req' \in [Request -> Active \cup [at : {"idle"}, rounds : Nat]]
         /\ \A s \in Request : req'[s].at # "idle" => req'[s] = req[s]
  <1>1. req[r].rounds \in Nat
    BY Zenon, TargetOK DEF NodeIInv, Active
  <1>2. Idle(req[r].rounds) \in [at : {"idle"}, rounds : Nat] /\ Idle(req[r].rounds).at = "idle"
    BY Zenon, <1>1 DEF Idle
  <1> QED BY Zenon, <1>2 DEF NodeIInv, NodeTypeInv

(* A request comes in. *)
LEMMA ReceiveInv ==
  ASSUME NodeIInv, NEW r \in Request, NEW t \in Token, NEW lx \in {1, 2}, Receive(r, t, lx)
  PROVE  NodeIInv'
  <1> DEFINE new == [at |-> "ready", step |-> 1, token |-> t, lx |-> lx,
                     rounds |-> req[r].rounds + 1]
  <1>1. req[r].rounds \in Nat /\ req' = [req EXCEPT ![r] = new]
    BY Zenon DEF Receive, NodeIInv, NodeTypeInv, Active
  <1>2. new \in Active /\ new.step = 1
    BY SMTT(30), <1>1 DEF Active
  <1> HIDE DEF new
  <1>3. req' \in [Request -> Active \cup [at : {"idle"}, rounds : Nat]]
    BY Zenon, <1>1, <1>2 DEF NodeIInv, NodeTypeInv
  <1>4. \A s \in Request : req'[s] = IF s = r THEN new ELSE req[s]
    BY Zenon, <1>1 DEF NodeIInv, NodeTypeInv
  <1>5. PassedHasPort'
    <2> SUFFICES ASSUME NEW s \in Request, NEW i \in {1, 2}, req'[s].at # "idle", i < req'[s].step
                 PROVE  db[<<req'[s].token, Kinds[i]>>].port # 0
      BY Zenon DEF PassedHasPort, NodeOf, Receive
    <2>1. s # r
      BY <1>2, <1>4
    <2> QED BY Zenon, <1>4, <2>1 DEF NodeIInv, PassedHasPort, NodeOf
  <1> QED BY ZenonT(30), <1>3, <1>5, QuietStep DEF Receive, NodeIInv, NodeTypeInv

(* The node that a request needs is there already. *)
LEMMA StartedInv ==
  ASSUME NodeIInv, NEW r \in Request, Started(r)
  PROVE  NodeIInv'
  <1>1. Target(r) \in Node /\ db[Target(r)].port # 0
    BY Zenon, TargetOK DEF Started, NodeIInv, LockedHasPort
  <1>2. CASE req' = [req EXCEPT ![r] = Continue(r)]
    <2>1. PassedHasPort'
      <3>1. req[r].at # "idle" /\ db' = db
        BY Zenon DEF Started
      <3> QED BY ZenonT(30), <1>1, <1>2, <3>1, ContinueOK DEF Passed, PassedHasPort
    <2> QED BY Zenon, <1>2, <2>1, ContinueOK, QuietStep DEF Started, NodeIInv, NodeTypeInv
  <1>3. CASE req' = [req EXCEPT ![r] = Idle(req[r].rounds)]
    <2>1. PassedHasPort'
      BY Zenon, <1>3, IdleOK DEF Started, PassedHasPort, NodeOf, NodeIInv
    <2> QED BY Zenon, <1>3, <2>1, IdleOK, QuietStep DEF Started, NodeIInv, NodeTypeInv
  <1> QED BY ZenonT(30), <1>2, <1>3 DEF Started

(* A node answers the request that waits for it. *)
LEMMA WaitUntilReadyInv ==
  ASSUME NodeIInv, NEW r \in Request, WaitUntilReady(r)
  PROVE  NodeIInv'
  <1>1. Target(r) \in Node
    BY Zenon, TargetOK DEF WaitUntilReady, NodeIInv
  <1>2. PICK p \in Pid : db[Target(r)].pid = p /\ proc[p] # Null /\ proc[p].at \in {"up", "dumping"}
    BY Zenon DEF WaitUntilReady, Answers
  <1>3. p \in locks[Target(r)]
    BY Zenon, <1>1, <1>2, ManagerAssumption DEF NodeIInv, Filed, Alive
  <1>4. db[Target(r)].port # 0
    BY Zenon, <1>1, <1>3 DEF NodeIInv, LockedHasPort
  <1>5. locks' = [locks EXCEPT ![Target(r)] = @ \ {r}]
    BY Zenon DEF WaitUntilReady, Release
  <1>6. PassedHasPort'
    BY ZenonT(30), <1>4, ContinueOK DEF WaitUntilReady, Passed, PassedHasPort
  <1> QED BY Zenon, <1>1, <1>5, <1>6, ContinueOK, QuietStep DEF WaitUntilReady, NodeIInv, NodeTypeInv

(* A request gives up waiting. *)
LEMMA WaitRaisesInv ==
  ASSUME NodeIInv, NEW r \in Request, WaitRaises(r)
  PROVE  NodeIInv'
  <1>1. Target(r) \in Node
    BY Zenon, TargetOK DEF WaitRaises, NodeIInv
  <1>2. PassedHasPort'
    BY ZenonT(30), IdleOK DEF WaitRaises, PassedHasPort, NodeOf, NodeIInv
  <1>3. locks' = [locks EXCEPT ![Target(r)] = @ \ {r}]
    BY Zenon DEF WaitRaises, Release
  <1> QED BY Zenon, <1>1, <1>2, <1>3, IdleOK, QuietStep DEF WaitRaises, NodeIInv, NodeTypeInv

(* The proxied call. *)
LEMMA CallInv ==
  ASSUME NodeIInv, NEW r \in Request, Call(r)
  PROVE  NodeIInv'
  <1>1. PassedHasPort'
    BY ZenonT(30), IdleOK DEF Call, PassedHasPort, NodeOf, NodeIInv
  <1> QED BY Zenon, <1>1, IdleOK, QuietStep DEF Call, NodeIInv, NodeTypeInv

-----------------------------------------------------------------------------
(* assign_port takes no port from another node, and save_db drops none. *)
LEMMA AssignPort ==
  ASSUME NodeIInv, NEW n \in Node, PortsFor(n) # {}, NEW x \in Pid \cup {Null},
         db' = [db EXCEPT ![n] = [pid |-> x, port |-> FirstPort(n)]],
         owner' = [owner EXCEPT ![FirstPort(n)] = n]
  PROVE  /\ db' \in [Node -> Slot] /\ owner' \in [Port -> Node \cup {Other, Null}]
         /\ db'[n].pid = x /\ \A m \in Node \ {n} : db'[m] = db[m]
         /\ \A m \in Node : db[m].port # 0 => db'[m].port # 0
         /\ db'[n].port # 0
         /\ \A q \in Port, m \in Node : owner[q] = m => owner'[q] = m
         /\ PortOwned'
  <1> USE DEF NodeIInv
  <1>1. FirstPort(n) \in Port /\ owner[FirstPort(n)] \in {n, Null} /\ FirstPort(n) # 0
    BY Zenon, FirstPortOK, ManagerAssumption
  <1> DEFINE slot == [pid |-> x, port |-> FirstPort(n)]
  <1>2. slot \in Slot /\ slot.pid = x /\ slot.port = FirstPort(n)
    BY Zenon, <1>1 DEF Slot
  <1> HIDE DEF slot
  <1>3. db' \in [Node -> Slot] /\ \A m \in Node : db'[m] = IF m = n THEN slot ELSE db[m]
    BY Zenon, <1>2 DEF NodeTypeInv, slot
  <1>4. /\ owner' \in [Port -> Node \cup {Other, Null}]
        /\ \A q \in Port : owner'[q] = IF q = FirstPort(n) THEN n ELSE owner[q]
    BY Zenon, <1>1 DEF NodeTypeInv
  <1>5. \A q \in Port, m \in Node : owner[q] = m => owner'[q] = m
    BY Zenon, <1>1, <1>4, ManagerAssumption
  <1>6. PortOwned'
    BY <1>1, <1>2, <1>3, <1>4, <1>5 DEF PortOwned
  <1> QED BY Zenon, <1>1, <1>2, <1>3, <1>4, <1>5, <1>6

(* So a relayer stays wired. *)
LEMMA WiresKept ==
  ASSUME NodeIInv, \A q \in Port, m \in Node : owner[q] = m => owner'[q] = m,
         NEW p \in Pid, proc[p] # Null, proc[p].node[2] = "RELAYER", NEW i \in {1, 2}
  PROVE  /\ proc[p].wired[i] \in Port
         /\ owner'[proc[p].wired[i]] = <<proc[p].node[1], Kinds[i]>>
  <1>1. proc[p].node \in Node
    BY Zenon DEF NodeIInv, NodeTypeInv, Process
  <1>2. <<proc[p].node[1], Kinds[i]>> \in Node
    BY Zenon, <1>1, KindsOK
  <1> QED BY ZenonT(30), <1>2 DEF NodeIInv, Wired

(* The state file that is written when there is none. *)
LEMMA StateKept ==
  ASSUME NodeIInv, NEW n \in Node,
         state' = [state EXCEPT ![n] = IF @ = "absent" THEN "original" ELSE @]
  PROVE  /\ state' \in [Node -> {"absent", "original", "dumped", "torn"}]
         /\ \A m \in Node : state[m] = "original" => state'[m] = "original"
  BY Zenon DEF NodeIInv, NodeTypeInv

(* A node's fork fails. *)
LEMMA ForkFailsInv ==
  ASSUME NodeIInv, NEW r \in Request, ForkFails(r)
  PROVE  NodeIInv'
  <1> DEFINE n == Target(r)
  <1>0. /\ n \in Node /\ req[r].at # "idle" /\ locks[n] = {} /\ PortsFor(n) # {}
        /\ db' = [db EXCEPT ![n] = [pid |-> Null, port |-> FirstPort(n)]]
        /\ owner' = [owner EXCEPT ![FirstPort(n)] = n]
        /\ state' = [state EXCEPT ![n] = IF @ = "absent" THEN "original" ELSE @]
        /\ req' = [req EXCEPT ![r] = Idle(req[r].rounds)]
        /\ UNCHANGED <<locks, proc, fresh>>
    BY Zenon, TargetOK DEF ForkFails, NodeIInv
  <1> HIDE DEF n
  <1>1. NodeTypeInv'
    BY ZenonT(30), <1>0, AssignPort, StateKept, IdleOK DEF NodeIInv, NodeTypeInv
  <1>2. Filed'
    <2>1. \A p \in Pid : Alive(p)' => Alive(p) /\ proc[p].node \in Node /\ proc[p].node # n
      BY ZenonT(30), <1>0 DEF Alive, NodeIInv, Filed, NodeTypeInv, Process
    <2>2. db'[n].pid = Null /\ \A m \in Node \ {n} : db'[m] = db[m]
      BY Zenon, <1>0, AssignPort
    <2>3. ASSUME NEW p \in Pid, Alive(p)'
          PROVE  p \in locks'[proc'[p].node] /\ db'[proc'[p].node].pid = p
      <3>1. Alive(p) /\ proc[p].node \in Node \ {n}
        BY Zenon, <2>1, <2>3
      <3>2. p \in locks[proc[p].node] /\ db[proc[p].node].pid = p
        BY Zenon, <3>1 DEF NodeIInv, Filed
      <3>3. db'[proc[p].node] = db[proc[p].node] /\ locks' = locks /\ proc' = proc
        BY Zenon, <1>0, <2>2, <3>1
      <3> QED BY Zenon, <3>2, <3>3
    <2>4. ASSUME NEW m \in Node, db'[m].pid # Null
          PROVE  proc'[db'[m].pid] # Null /\ proc'[db'[m].pid].node = m
      <3>1. m # n
        BY Zenon, <2>2, <2>4
      <3> QED BY Zenon, <1>0, <2>2, <2>4, <3>1 DEF NodeIInv, Filed
    <2> QED BY Zenon, <2>3, <2>4 DEF Filed
  <1>3. PortOwned'
    BY ZenonT(30), <1>0, AssignPort
  <1>4. LockedHasPort'
    BY Zenon, <1>0, AssignPort DEF NodeIInv, LockedHasPort
  <1>5. PassedHasPort'
    <2>1. \A m \in Node : db[m].port # 0 => db'[m].port # 0
      BY Zenon, <1>0, AssignPort
    <2>2. \A s \in Request : req'[s].at # "idle" => req'[s] = req[s]
      BY ZenonT(30), <1>0, IdleOK
    <2>3. \A s \in Request, i \in {1, 2} : req[s].at # "idle" => NodeOf(s, i) \in Node
      BY Zenon, RequestNodes DEF NodeIInv
    <2> QED BY Zenon, <2>1, <2>2, <2>3 DEF NodeIInv, PassedHasPort, NodeOf
  <1>6. Wired'
    <2>1. \A q \in Port, m \in Node : owner[q] = m => owner'[q] = m
      BY Zenon, <1>0, AssignPort
    <2>2. proc' = proc
      BY ZenonT(30), <1>0
    <2> QED BY Zenon, <2>1, <2>2, WiresKept DEF Wired
  <1>7. FreshIsDown' /\ ResetRestores'
    BY Zenon, <1>0, StateKept DEF NodeIInv, FreshIsDown, ResetRestores, Alive, NodeTypeInv
  <1> QED BY Zenon, <1>1, <1>2, <1>3, <1>4, <1>5, <1>6, <1>7 DEF NodeIInv

(* No port is left for a node. *)
LEMMA NoPortInv ==
  ASSUME NodeIInv, NEW r \in Request, NoPort(r)
  PROVE  NodeIInv'
  <1> DEFINE n == Target(r)
  <1>0. /\ n \in Node /\ req[r].at # "idle" /\ locks[n] = {} /\ PortsFor(n) = {}
        /\ db' = [db EXCEPT ![n] = [pid |-> Null, port |-> 0]]
        /\ state' = [state EXCEPT ![n] = IF @ = "absent" THEN "original" ELSE @]
        /\ req' = [req EXCEPT ![r] = Idle(req[r].rounds)]
        /\ UNCHANGED <<locks, owner, proc, fresh>>
    BY ZenonT(30), TargetOK DEF NoPort, NodeIInv
  <1> HIDE DEF n
  <1>a. db[n].port = 0
    BY Zenon, <1>0 DEF NodeIInv, PortOwned, PortsFor
  <1>b. /\ db' \in [Node -> Slot] /\ db'[n].pid = Null
        /\ \A m \in Node : db'[m].port = db[m].port /\ (m # n => db'[m] = db[m])
    BY Zenon, <1>0, <1>a DEF NodeIInv, NodeTypeInv, Slot
  <1>1. NodeTypeInv'
    BY Zenon, <1>0, <1>b, StateKept, IdleOK DEF NodeIInv, NodeTypeInv
  <1>2. Filed'
    <2>1. \A p \in Pid : Alive(p)' => Alive(p) /\ proc[p].node \in Node /\ proc[p].node # n
      BY ZenonT(30), <1>0 DEF Alive, NodeIInv, Filed, NodeTypeInv, Process
    <2> QED BY ZenonT(30), <1>0, <1>b, <2>1 DEF NodeIInv, Filed
  <1>3. PortOwned' /\ LockedHasPort'
    BY Zenon, <1>0, <1>b DEF NodeIInv, PortOwned, LockedHasPort
  <1>4. PassedHasPort'
    <2>1. \A s \in Request : req'[s].at # "idle" => req'[s] = req[s]
      BY Zenon, <1>0, IdleOK
    <2>2. \A s \in Request, i \in {1, 2} : req[s].at # "idle" => NodeOf(s, i) \in Node
      BY Zenon, RequestNodes DEF NodeIInv
    <2>3. ASSUME NEW s \in Request, NEW i \in {1, 2}, req'[s].at # "idle" /\ i < req'[s].step
          PROVE  db'[NodeOf(s, i)'].port # 0
      <3>1. req'[s] = req[s] /\ NodeOf(s, i) \in Node /\ NodeOf(s, i)' = NodeOf(s, i)
        <4>1. req'[s] = req[s]
          BY Zenon, <2>1, <2>3
        <4>2. NodeOf(s, i) \in Node
          BY Zenon, <2>2, <2>3, <4>1
        <4>3. NodeOf(s, i)' = NodeOf(s, i)
          BY Zenon, <4>1 DEF NodeOf
        <4> QED BY Zenon, <4>1, <4>2, <4>3
      <3>2. db[NodeOf(s, i)].port # 0
        BY Zenon, <2>3, <3>1 DEF NodeIInv, PassedHasPort
      <3> QED BY ZenonT(30), <1>b, <3>1, <3>2
    <2> QED BY Zenon, <2>3 DEF PassedHasPort
  <1>5. Wired'
    BY ZenonT(30), <1>0 DEF NodeIInv, Wired
  <1>6. FreshIsDown' /\ ResetRestores'
    BY Zenon, <1>0, StateKept DEF NodeIInv, FreshIsDown, ResetRestores, Alive, NodeTypeInv
  <1> QED BY Zenon, <1>1, <1>2, <1>3, <1>4, <1>5, <1>6 DEF NodeIInv

-----------------------------------------------------------------------------
(* The child that a request forks. *)
LEMMA ForkedOK ==
  ASSUME NodeIInv, NEW r \in Request, req[r].at # "idle", NEW p \in Pid, Start(r, Target(r), p)
  PROVE  \E child \in Process :
            /\ proc' = [proc EXCEPT ![p] = child]
            /\ child.node = Target(r)
            /\ child.node[2] = "RELAYER" =>
                  \A i \in {1, 2} : child.wired[i] = db[NodeOf(r, i)].port
  <1> DEFINE n == Target(r)
             at == IF n[2] = "RELAYER" THEN "up" ELSE "starting"
             wired == IF n[2] = "RELAYER"
                      THEN <<db[<<n[1], "L1">>].port, db[<<n[1], "L2">>].port>> ELSE <<>>
             child == [node |-> n, at |-> at, wired |-> wired]
  <1>1. n \in Node /\ <<n[1], "L1">> = NodeOf(r, 1) /\ <<n[1], "L2">> = NodeOf(r, 2)
    BY ZenonT(30), TargetOK DEF NodeIInv, NodeOf, Kinds
  <1>2. db[NodeOf(r, 1)].port \in Nat /\ db[NodeOf(r, 2)].port \in Nat
    <2>1. NodeOf(r, 1) \in Node /\ NodeOf(r, 2) \in Node
      BY TargetOK DEF NodeIInv
    <2>2. db[NodeOf(r, 1)] \in Slot /\ db[NodeOf(r, 2)] \in Slot
      BY Zenon, <2>1 DEF NodeIInv, NodeTypeInv
    <2> QED BY ZenonT(30), <2>2, SlotPorts
  <1>3. wired \in Seq(Nat)
    BY <1>1, <1>2
  <1>4. \/ wired[1] = db[NodeOf(r, 1)].port /\ wired[2] = db[NodeOf(r, 2)].port
        \/ n[2] # "RELAYER"
    BY Zenon, <1>1
  <1>5. proc' = [proc EXCEPT ![p] = child]
    BY Zenon DEF Start
  <1> HIDE DEF n, wired
  <1>6. child \in Process /\ child.node = n /\ child.wired = wired
    BY ZenonT(30), <1>1, <1>3 DEF Process
  <1> HIDE DEF child
  <1>7. child.node[2] = "RELAYER" => \A i \in {1, 2} : child.wired[i] = db[NodeOf(r, i)].port
    BY Zenon, <1>4, <1>6
  <1> QED BY Zenon, <1>5, <1>6, <1>7 DEF n

(* A node is launched. *)
LEMMA StartNodeInv ==
  ASSUME NodeIInv, NEW r \in Request, StartNode(r)
  PROVE  NodeIInv'
  <1> DEFINE n == Target(r)
  <1>0. PICK p \in Pid : Start(r, n, p)
    BY Zenon DEF StartNode
  <1>1. /\ n \in Node /\ req[r].at = "ready" /\ locks[n] = {} /\ PortsFor(n) # {}
        /\ proc[p] = Null /\ fresh' = fresh \ {n}
        /\ db' = [db EXCEPT ![n] = [pid |-> p, port |-> FirstPort(n)]]
        /\ owner' = [owner EXCEPT ![FirstPort(n)] = n]
        /\ state' = [state EXCEPT ![n] = IF @ = "absent" THEN "original" ELSE @]
    BY ZenonT(30), <1>0, TargetOK DEF StartNode, Start, NodeIInv
  <1>2. PICK child \in Process :
            /\ proc' = [proc EXCEPT ![p] = child]
            /\ child.node = n
            /\ child.node[2] = "RELAYER" =>
                  \A i \in {1, 2} : child.wired[i] = db[NodeOf(r, i)].port
    BY ZenonT(30), <1>0, <1>1, ForkedOK
  <1>3. /\ locks' \in [Node -> SUBSET (Request \cup Pid)]
        /\ p \in locks'[n] /\ \A m \in Node \ {n} : locks'[m] = locks[m]
    <2>1. PICK S \in SUBSET (Request \cup Pid) : p \in S /\ locks' = [locks EXCEPT ![n] = S]
      BY ZenonT(30), <1>0, ManagerAssumption DEF Start, Holders
    <2> QED BY Zenon, <1>1, <2>1 DEF NodeIInv, NodeTypeInv
  <1>4. /\ req' \in [Request -> Active \cup [at : {"idle"}, rounds : Nat]]
        /\ \A s \in Request, i \in {1, 2} : Passed(s, i)' =>
              NodeOf(s, i)' \in Node /\ (NodeOf(s, i)' = n \/ db[NodeOf(s, i)'].port # 0)
    <2>1. CASE req' = [req EXCEPT ![r] = Continue(r)]
      BY Zenon, <1>1, <2>1, ContinueOK
    <2>2. CASE req' = [req EXCEPT ![r] = [@ EXCEPT !.at = "wait"]]
      BY Zenon, <1>1, <2>2, WaitOK
    <2> QED BY Zenon, <2>1, <2>2 DEF StartNode
  <1> HIDE DEF n
  <1>5. proc' \in [Pid -> Process \cup {Null}] /\ child # Null
        /\ \A q \in Pid : proc'[q] = IF q = p THEN child ELSE proc[q]
    BY Zenon, <1>2, ManagerAssumption DEF NodeIInv, NodeTypeInv
  <1>6. NodeTypeInv'
    BY ZenonT(30), <1>1, <1>3, <1>4, <1>5, AssignPort, StateKept DEF NodeIInv, NodeTypeInv
  <1>7. Filed'
    <2>1. db'[n].pid = p /\ \A m \in Node \ {n} : db'[m] = db[m]
      BY ZenonT(30), <1>1, AssignPort
    <2>2. \A q \in Pid : q # p /\ Alive(q)' => Alive(q) /\ proc[q].node \in Node /\ proc[q].node # n
      <3> SUFFICES ASSUME NEW q \in Pid, q # p, Alive(q)'
                   PROVE  Alive(q) /\ proc[q].node \in Node /\ proc[q].node # n
        BY Zenon
      <3>1. Alive(q)
        BY Zenon, <1>5 DEF Alive
      <3>2. proc[q] \in Process
        BY Zenon, <3>1 DEF Alive, NodeIInv, NodeTypeInv
      <3>3. proc[q].node \in Node
        BY Zenon, <3>2 DEF Process
      <3>4. q \in locks[proc[q].node]
        BY Zenon, <3>1 DEF NodeIInv, Filed
      <3> QED BY Zenon, <1>1, <3>1, <3>3, <3>4
    <2>3. ASSUME NEW q \in Pid, Alive(q)'
          PROVE  q \in locks'[proc'[q].node] /\ db'[proc'[q].node].pid = q
      <3>1. CASE q = p
        BY Zenon, <1>2, <1>3, <1>5, <2>1, <3>1
      <3>2. CASE q # p
        <4>1. proc'[q] = proc[q]
          BY Zenon, <1>5, <3>2
        <4>2. Alive(q) /\ proc[q].node \in Node \ {n}
          BY Zenon, <2>2, <2>3, <3>2
        <4>3. q \in locks[proc[q].node] /\ db[proc[q].node].pid = q
          BY Zenon, <4>2 DEF NodeIInv, Filed
        <4> QED BY Zenon, <1>3, <2>1, <4>1, <4>2, <4>3
      <3> QED BY Zenon, <3>1, <3>2
    <2>4. ASSUME NEW m \in Node, db'[m].pid # Null
          PROVE  proc'[db'[m].pid] # Null /\ proc'[db'[m].pid].node = m
      <3>1. CASE m = n
        BY Zenon, <1>2, <1>5, <2>1, <3>1
      <3>2. CASE m # n
        <4>1. db'[m] = db[m] /\ proc[db[m].pid] # Null /\ proc[db[m].pid].node = m
          BY Zenon, <2>1, <2>4, <3>2 DEF NodeIInv, Filed
        <4>2. db[m].pid \in Pid /\ db[m].pid # p
          <5>1. db[m] \in Slot
            BY Zenon DEF NodeIInv, NodeTypeInv
          <5>2. db[m].pid \in Pid \cup {Null} /\ db[m].pid # Null
            BY Zenon, <2>4, <4>1, <5>1 DEF Slot
          <5> QED BY Zenon, <1>1, <4>1, <5>2
        <4> QED BY Zenon, <1>5, <4>1, <4>2
      <3> QED BY Zenon, <3>1, <3>2
    <2> QED BY Zenon, <2>3, <2>4 DEF Filed
  <1>8. PortOwned'
    BY Zenon, <1>1, AssignPort
  <1>9. LockedHasPort'
    BY Zenon, <1>1, <1>3, AssignPort DEF NodeIInv, LockedHasPort
  <1>10. PassedHasPort'
    <2>1. db'[n].port # 0 /\ \A m \in Node : db[m].port # 0 => db'[m].port # 0
      BY ZenonT(30), <1>1, AssignPort
    <2> QED BY Zenon, <1>4, <2>1 DEF Passed, PassedHasPort
  <1>11. Wired'
    <2> SUFFICES ASSUME NEW q \in Pid, proc'[q] # Null, proc'[q].node[2] = "RELAYER",
                        NEW i \in {1, 2}
                 PROVE  /\ proc'[q].wired[i] \in Port
                        /\ owner'[proc'[q].wired[i]] = <<proc'[q].node[1], Kinds[i]>>
      BY Zenon DEF Wired
    <2>1. \A o \in Port, m \in Node : owner[o] = m => owner'[o] = m
      BY Zenon, <1>1, AssignPort
    <2>2. CASE q # p
      BY ZenonT(30), <1>5, <2>1, <2>2, WiresKept
    <2>3. CASE q = p
      <3>1. /\ child.node = n /\ n[2] = "RELAYER"
            /\ child.wired[i] = db[NodeOf(r, i)].port
        BY ZenonT(30), <1>2, <1>5, <2>3
      <3>2. /\ req[r].step = 3 /\ NodeOf(r, i) \in Node /\ NodeOf(r, i) = <<n[1], Kinds[i]>>
        <4>1. req[r].step = 3 /\ NodeOf(r, i) \in Node /\ n[1] = req[r].token
          BY SMTT(30), <1>1, <3>1, TargetOK DEF NodeIInv, n
        <4> QED BY ZenonT(30), <4>1 DEF NodeOf
      <3>3. db[NodeOf(r, i)].port # 0
        BY SMTT(30), <1>1, <3>2 DEF NodeIInv, PassedHasPort
      <3>4. db[NodeOf(r, i)].port \in Port /\ owner[db[NodeOf(r, i)].port] = NodeOf(r, i)
        BY Zenon, <3>2, <3>3 DEF NodeIInv, PortOwned
      <3> QED BY SMTT(30), <1>5, <2>1, <2>3, <3>1, <3>2, <3>4
    <2> QED BY Zenon, <2>2, <2>3
  <1>12. FreshIsDown' /\ ResetRestores'
    BY ZenonT(30), <1>1, <1>2, <1>5, StateKept DEF NodeIInv, FreshIsDown, ResetRestores, Alive, NodeTypeInv
  <1> QED BY Zenon, <1>6, <1>7, <1>8, <1>9, <1>10, <1>11, <1>12 DEF NodeIInv

-----------------------------------------------------------------------------
(* A process that goes on. *)
LEMMA NodeStepOK ==
  ASSUME NodeIInv, NEW p \in Pid, proc[p] # Null, NEW to \in {"up", "dumping", "zombie"},
         proc' = [proc EXCEPT ![p].at = to]
  PROVE  /\ proc' \in [Pid -> Process \cup {Null}]
         /\ proc[p] \in Process /\ proc'[p].at = to
         /\ \A q \in Pid : q # p => proc'[q] = proc[q]
         /\ \A q \in Pid : (proc'[q] = Null <=> proc[q] = Null)
         /\ \A q \in Pid : proc[q] # Null =>
               proc[q].node \in Node /\ proc'[q].node = proc[q].node /\ proc'[q].wired = proc[q].wired
  <1> DEFINE child == [proc[p] EXCEPT !.at = to]
  <1>1. proc[p] \in Process
    BY Zenon DEF NodeIInv, NodeTypeInv
  <1>2. child \in Process /\ child.at = to /\ child.node = proc[p].node /\ child.wired = proc[p].wired
    BY <1>1, Zenon DEF Process
  <1>3. proc' = [proc EXCEPT ![p] = child]
    BY Zenon
  <1> HIDE DEF child
  <1>4. child # Null
    BY Zenon, <1>2, ManagerAssumption
  <1>5. /\ proc' \in [Pid -> Process \cup {Null}]
        /\ \A q \in Pid : proc'[q] = IF q = p THEN child ELSE proc[q]
    BY <1>2, <1>3 DEF NodeIInv, NodeTypeInv
  <1>6. \A q \in Pid : proc[q] # Null => proc[q].node \in Node
    BY Zenon DEF NodeIInv, NodeTypeInv, Process
  <1> QED BY Zenon, <1>1, <1>2, <1>4, <1>5, <1>6

(* A process comes up, or dumps its state. *)
LEMMA ProcessInv ==
  ASSUME NodeIInv, NEW p \in Pid, NEW to \in {"up", "dumping"}, Alive(p),
         proc' = [proc EXCEPT ![p].at = to],
         UNCHANGED <<db, locks, owner, req, fresh>>,
         \/ UNCHANGED state
         \/ state' = [state EXCEPT ![proc[p].node] = "dumped"]
  PROVE  NodeIInv'
  <1> USE DEF NodeIInv
  <1>1. /\ proc' \in [Pid -> Process \cup {Null}]
        /\ \A q \in Pid : /\ proc'[q] = Null <=> proc[q] = Null
                          /\ Alive(q)' <=> Alive(q)
                          /\ proc[q] # Null => /\ proc[q].node \in Node
                                               /\ proc'[q].node = proc[q].node
                                               /\ proc'[q].wired = proc[q].wired
    BY ZenonT(30), NodeStepOK DEF Alive
  <1>2. NodeTypeInv'
    BY Zenon, <1>1 DEF NodeTypeInv
  <1>3. Filed'
    <2>1. \A n \in Node : db[n].pid \in Pid \cup {Null}
      BY Zenon DEF NodeTypeInv, Slot
    <2> QED BY <1>1, <2>1 DEF Filed, Alive
  <1>4. PortOwned' /\ LockedHasPort' /\ PassedHasPort'
    BY ZenonT(30) DEF PortOwned, LockedHasPort, PassedHasPort, NodeOf
  <1>5. Wired'
    BY ZenonT(30), <1>1 DEF Wired
  <1>6. FreshIsDown' /\ ResetRestores'
    BY <1>1 DEF FreshIsDown, ResetRestores, Alive, NodeTypeInv
  <1> QED BY Zenon, <1>2, <1>3, <1>4, <1>5, <1>6

(* A process dies. *)
LEMMA CrashInv ==
  ASSUME NodeIInv, NEW p \in Pid, Crash(p)
  PROVE  NodeIInv'
  <1> USE DEF NodeIInv
  <1>1. /\ proc' \in [Pid -> Process \cup {Null}]
        /\ \A q \in Pid : /\ proc'[q] = Null <=> proc[q] = Null
                          /\ Alive(q)' => Alive(q) /\ q # p
                          /\ proc[q] # Null => /\ proc[q].node \in Node
                                               /\ proc'[q].node = proc[q].node
                                               /\ proc'[q].wired = proc[q].wired
    BY Zenon, NodeStepOK DEF Crash, Alive
  <1>2. /\ locks' \in [Node -> SUBSET (Request \cup Pid)]
        /\ \A n \in Node : locks'[n] = locks[n] \ {p}
    BY Zenon DEF Crash, NodeTypeInv
  <1>3. /\ state' \in [Node -> {"absent", "original", "dumped", "torn"}]
        /\ \A n \in Node : n # proc[p].node => state'[n] = state[n]
    BY Zenon DEF Crash, NodeTypeInv
  <1>4. Alive(p) /\ UNCHANGED <<db, owner, req, fresh>>
    BY Zenon DEF Crash
  <1>5. NodeTypeInv'
    BY ZenonT(30), <1>1, <1>2, <1>3, <1>4 DEF NodeTypeInv
  <1>6. Filed'
    <2>1. \A n \in Node : db[n].pid \in Pid \cup {Null}
      BY Zenon DEF NodeTypeInv, Slot
    <2> QED BY <1>1, <1>2, <1>4, <2>1 DEF Filed, Alive
  <1>7. PortOwned' /\ LockedHasPort' /\ PassedHasPort'
    BY ZenonT(30), <1>2, <1>4 DEF PortOwned, LockedHasPort, PassedHasPort, NodeOf
  <1>8. Wired'
    BY ZenonT(30), <1>1, <1>4 DEF Wired
  <1>9. FreshIsDown' /\ ResetRestores'
    BY Zenon, <1>1, <1>3, <1>4 DEF FreshIsDown, ResetRestores, Alive, NodeTypeInv
  <1> QED BY Zenon, <1>5, <1>6, <1>7, <1>8, <1>9

-----------------------------------------------------------------------------
(* GET /reset signals the processes of this token's nodes and no others. *)
NodesOf(t) == {t} \X {"L1", "L2", "RELAYER"}
(* A reset kills exactly the processes of the team's nodes. *)
LEMMA VictimsOK ==
  ASSUME NodeIInv, NEW t \in Token
  PROVE  /\ NodesOf(t) \subseteq Node
         /\ \A p \in Pid : p \in Victims(t) <=> \E n \in NodesOf(t) : db[n].pid = p
         /\ Victims(t) \subseteq Pid
         /\ \A p \in Pid : Alive(p) /\ p \notin Victims(t) => proc[p].node \notin NodesOf(t)
         /\ \A n \in Node : n \notin NodesOf(t) => db[n].pid \notin Victims(t)
  <1>1. NodesOf(t) \subseteq Node
    BY Zenon DEF NodesOf, Node
  <1>2. \A n \in Node : db[n].pid \in Pid \cup {Null}
    BY Zenon DEF NodeIInv, NodeTypeInv, Slot
  <1>3. /\ \A p \in Pid : p \in Victims(t) <=> \E n \in NodesOf(t) : db[n].pid = p
        /\ Victims(t) \subseteq Pid
    BY SMTT(30), <1>1, <1>2, ManagerAssumption DEF Victims, NodesOf
  <1>4. \A p \in Pid : Alive(p) /\ p \notin Victims(t) => proc[p].node \notin NodesOf(t)
    BY Zenon, <1>3 DEF NodeIInv, Filed
  <1>5. \A n \in Node : n \notin NodesOf(t) => db[n].pid \notin Victims(t)
    BY <1>1, <1>3, ManagerAssumption DEF NodeIInv, Filed
  <1> QED BY Zenon, <1>1, <1>3, <1>4, <1>5

(* A reset. *)
LEMMA ResetInv ==
  ASSUME NodeIInv, NEW t \in Token, Reset(t)
  PROVE  NodeIInv'
  <1> USE DEF NodeIInv
  <1> DEFINE killed == {n \in NodesOf(t) : db[n].pid # Null}
             dumping == {n \in killed : proc[db[n].pid] # Null /\ proc[db[n].pid].at = "dumping"}
  <1>1. PICK torn \in SUBSET dumping :
            state' = [n \in Node |-> IF n \in torn THEN "torn"
                                     ELSE IF n \in killed THEN KilledState(n) ELSE state[n]]
    BY ZenonT(30) DEF Reset, NodesOf
  <1>2. /\ fresh' = (fresh \cup killed) \ dumping
        /\ db' = [n \in Node |-> IF n \in killed THEN WithoutPid(db[n]) ELSE db[n]]
        /\ proc' = [p \in Pid |-> IF p \in Victims(t) THEN Null ELSE proc[p]]
        /\ locks' = [n \in Node |-> locks[n] \ Victims(t)]
        /\ UNCHANGED <<owner, req>>
    BY Zenon DEF Reset, NodesOf
  <1>3. \A slot \in Slot : /\ WithoutPid(slot) \in Slot /\ WithoutPid(slot).pid = Null
                           /\ WithoutPid(slot).port = slot.port
    BY ZenonT(30) DEF Slot, WithoutPid
  <1>4. /\ db' \in [Node -> Slot]
        /\ \A n \in Node : /\ db'[n].port = db[n].port
                           /\ n \in NodesOf(t) => db'[n].pid = Null
                           /\ n \notin NodesOf(t) => db'[n] = db[n]
    BY Zenon, <1>2, <1>3 DEF NodeTypeInv
  <1>5. /\ killed \subseteq Node /\ torn \subseteq dumping /\ dumping \subseteq killed
    BY ZenonT(30), <1>1, VictimsOK
  <1>6. /\ state' \in [Node -> {"absent", "original", "dumped", "torn"}]
        /\ \A n \in Node : n \notin dumping =>
              state'[n] = IF n \in killed THEN "original" ELSE state[n]
    BY Zenon, <1>1, <1>5 DEF NodeTypeInv, KilledState
  <1>7. /\ \A p \in Pid : Alive(p)' => /\ Alive(p) /\ proc'[p] = proc[p] /\ p \notin Victims(t)
                                       /\ proc[p].node \in Node \ NodesOf(t)
        /\ \A p \in Pid : proc'[p] # Null => proc'[p] = proc[p]
    BY ZenonT(30), <1>2, VictimsOK DEF Alive, NodeTypeInv, Process
  <1> HIDE DEF dumping
  <1>8. NodeTypeInv'
    BY Zenon, <1>2, <1>4, <1>5, <1>6, VictimsOK DEF NodeTypeInv
  <1>9. Filed'
    <2>1. \A p \in Pid : Alive(p)' => p \in locks'[proc'[p].node] /\ db'[proc'[p].node].pid = p
      BY Zenon, <1>2, <1>4, <1>7 DEF Filed
    <2>2. \A n \in Node : db'[n].pid # Null => proc'[db'[n].pid] # Null /\ proc'[db'[n].pid].node = n
      <3> SUFFICES ASSUME NEW n \in Node, db'[n].pid # Null
                   PROVE  proc'[db'[n].pid] # Null /\ proc'[db'[n].pid].node = n
        BY ZenonT(30)
      <3>1. n \notin NodesOf(t) /\ db'[n].pid = db[n].pid /\ db[n].pid \in Pid
        BY ZenonT(30), <1>4 DEF NodeTypeInv, Slot
      <3>2. proc'[db[n].pid] = proc[db[n].pid]
        BY Zenon, <1>2, <3>1, VictimsOK
      <3> QED BY Zenon, <3>1, <3>2 DEF Filed
    <2> QED BY Zenon, <2>1, <2>2 DEF Filed
  <1>10. PortOwned' /\ LockedHasPort'
    BY SMTT(30), <1>2, <1>4 DEF PortOwned, LockedHasPort
  <1>11. PassedHasPort'
    <2>1. \A r \in Request, i \in {1, 2} : req[r].at # "idle" => NodeOf(r, i) \in Node
      BY Zenon, RequestNodes
    <2> SUFFICES ASSUME NEW r \in Request, NEW i \in {1, 2}, req'[r].at # "idle", i < req'[r].step
                 PROVE  db'[NodeOf(r, i)'].port # 0
      BY ZenonT(30) DEF PassedHasPort
    <2>2. req'[r] = req[r] /\ NodeOf(r, i)' = NodeOf(r, i)
      BY ZenonT(30), <1>2 DEF NodeOf
    <2>3. NodeOf(r, i) \in Node /\ db[NodeOf(r, i)].port # 0
      BY Zenon, <2>1, <2>2 DEF PassedHasPort
    <2> QED BY ZenonT(30), <1>4, <2>2, <2>3
  <1>12. Wired'
    BY ZenonT(30), <1>2, <1>7 DEF Wired
  <1>13. FreshIsDown'
    BY ZenonT(30), <1>2, <1>7 DEF FreshIsDown
  <1>14. ResetRestores'
    BY Zenon, <1>2, <1>5, <1>6 DEF ResetRestores, NodeTypeInv
  <1> QED BY Zenon, <1>8, <1>9, <1>10, <1>11, <1>12, <1>13, <1>14

(* Every step keeps the invariant. *)
LEMMA NextNodeIInv == NodeIInv /\ [NodeNext]_nodeVars => NodeIInv'
  <1> SUFFICES ASSUME NodeIInv, [NodeNext]_nodeVars PROVE NodeIInv'
    OBVIOUS
  <1>1. CASE UNCHANGED nodeVars
    <2>1. PassedHasPort'
      BY Zenon, <1>1 DEF nodeVars, NodeIInv, PassedHasPort, NodeOf
    <2> QED BY Zenon, <1>1, <2>1, QuietStep DEF nodeVars, NodeIInv, NodeTypeInv
  <1>2. ASSUME NEW r \in Request, Step(r) PROVE NodeIInv'
    BY Zenon, <1>2, StartedInv, StartNodeInv, ForkFailsInv, NoPortInv, WaitUntilReadyInv,
       WaitRaisesInv, CallInv DEF Step
  <1>3. ASSUME NEW p \in Pid, Listen(p) \/ DumpBegin(p) \/ DumpEnd(p) PROVE NodeIInv'
    BY Zenon, <1>3, ProcessInv DEF Listen, DumpBegin, DumpEnd, NodeStep, Alive
  <1> QED BY Zenon, <1>1, <1>2, <1>3, ReceiveInv, ResetInv, CrashInv DEF NodeNext

(* NodeIInv always holds. *)
LEMMA NodeIInvariant == NodeSpec => []NodeIInv
  BY InitNodeIInv, NextNodeIInv, PTL DEF NodeSpec

(* A node never runs twice, what runs is locked and on file, and reset      *)
(* never signals a process that is not the node's.                          *)
THEOREM NodesRunOnce == NodeSpec => []OneProcess
  <1>1. NodeIInv => OneProcess
    <2> SUFFICES ASSUME NodeIInv PROVE OneProcess
      BY Zenon
    <2>1. \A p, q \in Pid : Alive(p) /\ Alive(q) /\ proc[p].node = proc[q].node => p = q
      BY SMTT(30) DEF NodeIInv, Filed
    <2> QED BY Zenon, <2>1 DEF OneProcess, NodeIInv, Filed
  <1> QED BY <1>1, NodeIInvariant, PTL

(* A relayer that runs talks to the nodes of its own token. *)
THEOREM RelayersStayWired == NodeSpec => []RelayerWired
  <1>1. NodeIInv => RelayerWired
    BY Zenon DEF NodeIInv, Wired, RelayerWired, Alive
  <1> QED BY <1>1, NodeIInvariant, PTL

(* A chain that was reset starts from the original state. *)
THEOREM ResetsRestore == NodeSpec => []ResetRestores
  <1>1. NodeIInv => ResetRestores
    BY Zenon DEF NodeIInv
  <1> QED BY <1>1, NodeIInvariant, PTL
=============================================================================
