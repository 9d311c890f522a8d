------------------------- MODULE OrchestratorProofs -------------------------
(***************************************************************************)
(* Proofs of the safety properties of Orchestrator for every number of      *)
(* requests, pruners, instances, services and faults: the types and the     *)
(* registry, the ownership of containers and volumes, and what an answer    *)
(* promises.                                                                *)
(***************************************************************************)
EXTENDS Orchestrator, TLAPS

(* What a thread has established by the time it reaches a label. *)
TargetOK ==
    /\ \A t \in Launches \cup Kills : target[t] = InstanceOf[t]
    /\ \A p \in Pruners : target[p] = None => pc[p] \in {"list", "fetch", "prune"}
PosOK == \A t \in Threads : pc[t] \in Creating \cup Deleting => pos[t] # 0
HandleOK ==
    \A t \in Threads :
        pc[t] \in {"killContainer", "removeContainer"} =>
            handle[t] \in Launches /\ InstanceOf[handle[t]] = target[t]
SeenOK ==
    \A t \in Threads :
        pc[t] = "unregisterExec" => seen[t] \in Launches /\ InstanceOf[seen[t]] = target[t]
DocumentOK == \A id \in InstanceIds : instance[id] # None => InstanceOf[instance[id]] = id

ThreadOK == TargetOK /\ PosOK /\ HandleOK /\ SeenOK /\ DocumentOK

TypeInv == TypeOK /\ ThreadOK

(* A step that moves thread t to a label of its own, within the services. *)
MovesOn(t) ==
    /\ pc' = [pc EXCEPT ![t] = pc'[t]]
    /\ pos' = [pos EXCEPT ![t] = pos'[t]]
    /\ pc'[t] \in LabelsOf(t)
    /\ pos'[t] \in 0 .. NumServices
    /\ pc'[t] \in Creating \cup Deleting => pos'[t] # 0

-----------------------------------------------------------------------------
(* The parts of TypeInv that a step leaves alone.                           *)

(* TypeInv holds at the start. *)
LEMMA InitTypeInv == Init => TypeInv
  <1> SUFFICES ASSUME Init PROVE TypeInv
    BY Zenon
  <1> USE InstancesAssumption, DockerAssumption, OrchestratorAssumption DEF Init
  <1>1. RedisTypeOK /\ DocumentOK /\ DockerTypeOK
    BY Zenon DEF RedisInit, DockerInit, RedisTypeOK, DockerTypeOK, DocumentOK
  <1>2. \A t \in Threads : pc[t] \in LabelsOf(t) /\ pc[t] \in {"check", "unregisterGet", "list"}
    BY Zenon DEF Threads, LabelsOf, LaunchLabels, KillLabels, PrunerLabels
  <1>3. ThreadTypeOK
    <2>1. pc \in [Threads -> LaunchLabels \cup KillLabels \cup PrunerLabels]
      BY Zenon, <1>2 DEF LabelsOf
    <2>2. target \in [Threads -> InstanceIds \cup {None}]
      BY Zenon DEF Threads
    <2> QED BY <1>2, <2>1, <2>2 DEF ThreadTypeOK, NumServices
  <1>4. TargetOK /\ PosOK /\ HandleOK /\ SeenOK
    BY Zenon, <1>2 DEF TargetOK, PosOK, HandleOK, SeenOK, Threads, Creating, Deleting
  <1>5. RoundTypeOK /\ TimeTypeOK /\ FaultTypeOK
    BY DEF RoundTypeOK, TimeTypeOK, FaultTypeOK
  <1> QED BY Zenon, <1>1, <1>3, <1>4, <1>5 DEF TypeInv, TypeOK, ThreadOK

(* What is not touched stays typed. *)
LEMMA Frame ==
  ASSUME TypeInv
  PROVE  /\ UNCHANGED redisVars => RedisTypeOK' /\ DocumentOK'
         /\ UNCHANGED dockerVars => DockerTypeOK'
         /\ UNCHANGED roundVars => RoundTypeOK'
         /\ UNCHANGED timeVars => TimeTypeOK'
         /\ UNCHANGED faultVars => FaultTypeOK'
         /\ UNCHANGED leaked /\ NewFault => FaultTypeOK'
  <1> USE DEF TypeInv, TypeOK, ThreadOK
  <1>1. UNCHANGED redisVars => RedisTypeOK' /\ DocumentOK'
    BY Zenon DEF redisVars, RedisTypeOK, DocumentOK
  <1>2. UNCHANGED dockerVars => DockerTypeOK'
    BY Zenon DEF dockerVars, DockerTypeOK
  <1>3. UNCHANGED roundVars => RoundTypeOK'
    BY Zenon DEF roundVars, RoundTypeOK
  <1>4. UNCHANGED timeVars => TimeTypeOK'
    BY Zenon DEF timeVars, TimeTypeOK
  <1>5. UNCHANGED faultVars => FaultTypeOK'
    BY Zenon DEF faultVars, FaultTypeOK
  <1>6. UNCHANGED leaked /\ NewFault => FaultTypeOK'
    BY OrchestratorAssumption DEF FaultTypeOK, NewFault
  <1> QED BY Zenon, <1>1, <1>2, <1>3, <1>4, <1>5, <1>6

(* A thread that moves on with its other fields unchanged. *)
LEMMA MoveType ==
  ASSUME TypeInv, NEW t \in Threads, MovesOn(t), UNCHANGED deleteVars,
         pc'[t] \in {"killContainer", "removeContainer"} =>
            handle[t] \in Launches /\ InstanceOf[handle[t]] = target[t],
         pc'[t] # "unregisterExec",
         target[t] = None => pc'[t] \in {"list", "fetch", "prune"}
  PROVE  ThreadTypeOK' /\ TargetOK' /\ PosOK' /\ HandleOK' /\ SeenOK'
  <1> USE DEF TypeInv, TypeOK, ThreadOK, MovesOn, deleteVars
  <1>1. \A u \in Threads : u # t => pc'[u] = pc[u] /\ pos'[u] = pos[u]
    BY Zenon DEF ThreadTypeOK
  <1>2. ThreadTypeOK'
    BY DEF ThreadTypeOK, LabelsOf
  <1>3. TargetOK'
    BY Zenon, <1>1 DEF TargetOK, Threads
  <1>4. PosOK'
    BY Zenon, <1>1 DEF PosOK
  <1>5. HandleOK'
    BY Zenon, <1>1 DEF HandleOK
  <1>6. SeenOK'
    BY ZenonT(30), <1>1 DEF SeenOK
  <1> QED BY Zenon, <1>2, <1>3, <1>4, <1>5, <1>6

(* Truncation to seconds stays within the naturals. *)
LEMMA SecondsType ==
  ASSUME NEW time \in Nat
  PROVE  Seconds(time) \in Nat
  BY RedisAssumption DEF Seconds

(* containers.get(name) yields a container of that instance and service. *)
LEMMA HolderType ==
  ASSUME NEW id, NEW s, NameTaken(id, s)
  PROVE  /\ Holder(id, s) \in Launches
         /\ InstanceOf[Holder(id, s)] = id
         /\ <<Holder(id, s), s>> \in containers
  BY Zenon DEF NameTaken, Holder, HoldersOf

(* Only a pruner between two kills works on no instance. *)
LEMMA TargetType ==
  ASSUME TypeInv, NEW t \in Threads, pc[t] \notin {"list", "fetch", "prune"}
  PROVE  target[t] \in InstanceIds /\ target[t] # None
  BY InstancesAssumption DEF TypeInv, TypeOK, ThreadTypeOK, ThreadOK, TargetOK, Threads

(* The thread is at a service while it creates or deletes. *)
LEMMA PosType ==
  ASSUME TypeInv, NEW t \in Threads
  PROVE  /\ pos[t] \in 0 .. NumServices
         /\ NumServices \in Nat \ {0} /\ NumAnvils \in 1 .. NumServices
         /\ pc[t] \in Creating \cup Deleting => pos[t] \in Services
  BY DockerAssumption
  DEF TypeInv, TypeOK, ThreadTypeOK, ThreadOK, PosOK, NumServices, Services

(* Labels that every thread, or every launch, has. *)
LEMMA Labels ==
  /\ \A t \in Threads : {"getContainer", "killContainer", "removeContainer", "deleteVolume"}
                          \subseteq LabelsOf(t)
  /\ \A l \in Launches : /\ l \in Threads
                         /\ LabelsOf(l) = LaunchLabels
                         /\ Creating \cup {"volume", "exists", "ok", "published"} \subseteq LabelsOf(l)
  /\ 1 \in Services
  BY DockerAssumption
  DEF LabelsOf, LaunchLabels, KillLabels, PrunerLabels, Deleting, Threads, Services, NumServices

(* What the two ways of moving a thread need in order to be a MovesOn step. *)
LEMMA GotoMoves ==
  ASSUME TypeInv, NEW t \in Threads, NEW label \in LabelsOf(t), Goto(t, label),
         label \in Creating \cup Deleting => pos[t] # 0
  PROVE  MovesOn(t) /\ pc'[t] = label /\ pos'[t] = pos[t]
  BY Zenon DEF Goto, MovesOn, TypeInv, TypeOK, ThreadTypeOK

(* Goto with a new position. *)
LEMMA GotoAtMoves ==
  ASSUME TypeInv, NEW t \in Threads, NEW label \in LabelsOf(t), NEW s \in Services,
         GotoAt(t, label, s)
  PROVE  MovesOn(t) /\ pc'[t] = label /\ pos'[t] = s
  BY DockerAssumption
  DEF GotoAt, MovesOn, TypeInv, TypeOK, ThreadTypeOK, Services, NumServices

(* Where the deletion loop starts, where it goes, and where an exception leads. *)
LEMMA StartDeleteMoves ==
  ASSUME TypeInv, NEW t \in Threads, StartDelete(t)
  PROVE  MovesOn(t) /\ pc'[t] = "getContainer" /\ pos'[t] = 1
  BY Zenon, GotoAtMoves, Labels DEF StartDelete

(* Going on to the next name of __try_delete. *)
LEMMA NextDeleteMoves ==
  ASSUME TypeInv, NEW t \in Threads, pc[t] \in Deleting, NextDelete(t)
  PROVE  /\ MovesOn(t)
         /\ \/ pc'[t] = "getContainer" /\ pos'[t] = pos[t] + 1 /\ pos[t] < NumServices
            \/ pc'[t] = "deleteVolume" /\ pos'[t] = pos[t] /\ pos[t] = NumServices
  <1>1. pos[t] \in Services
    BY Zenon, PosType
  <1>2. CASE pos[t] < NumServices
    <2>1. pos[t] + 1 \in Services
      BY <1>1, <1>2, PosType DEF Services
    <2> QED BY Zenon, <1>2, <2>1, GotoAtMoves, Labels DEF NextDelete
  <1>3. CASE ~(pos[t] < NumServices)
    BY <1>1, <1>3, PosType, GotoMoves, Labels DEF NextDelete, Services
  <1> QED BY Zenon, <1>2, <1>3

(* Leaving a handler, or a pruner's round, by an exception. *)
LEMMA RaiseMoves ==
  ASSUME TypeInv, NEW t \in Threads, Raise(t)
  PROVE  MovesOn(t) /\ RoundTypeOK' /\ pc'[t] \in {"failed", "error", "list"}
                    /\ (t \in Pruners => pc'[t] = "list")
  <1>1. PICK label \in {"failed", "error", "list"} :
          label \in LabelsOf(t) /\ Goto(t, label) /\ (t \in Pruners => label = "list")
    BY Zenon, OrchestratorAssumption DEF Raise, LabelsOf, LaunchLabels, KillLabels, PrunerLabels
  <1>2. MovesOn(t) /\ pc'[t] = label
    BY Zenon, <1>1, GotoMoves DEF Creating, Deleting
  <1>3. RoundTypeOK'
    BY Zenon DEF TypeInv, TypeOK, RoundTypeOK, Raise
  <1> QED BY Zenon, <1>1, <1>2, <1>3

(* Returning from __try_delete. *)
LEMMA AfterDeleteMoves ==
  ASSUME TypeInv, NEW t \in Threads, Goto(t, AfterDelete(t))
  PROVE  MovesOn(t) /\ pc'[t] \in {"failed", "deleted", "list", "prune"}
                    /\ (t \in Pruners => pc'[t] \in {"list", "prune"})
  <1>1. /\ AfterDelete(t) \in LabelsOf(t) \cap {"failed", "deleted", "list", "prune"}
        /\ t \in Pruners => AfterDelete(t) \in {"list", "prune"}
    BY Zenon, OrchestratorAssumption
    DEF AfterDelete, AfterKill, LabelsOf, LaunchLabels, KillLabels, PrunerLabels
  <1> QED BY Zenon, <1>1, GotoMoves DEF Creating, Deleting

(* The names a fault skips are names of the thread's instance. *)
LEMMA LeakType ==
  ASSUME TypeInv, NEW t \in Threads, pc[t] \notin {"list", "fetch", "prune"},
         NEW ss, ss \subseteq 0 .. NumServices, Leak(t, ss), NewFault
  PROVE  FaultTypeOK'
  <1>1. leaked' \subseteq InstanceIds \X (0 .. NumServices)
    BY Zenon, TargetType DEF TypeInv, TypeOK, FaultTypeOK, Leak
  <1>2. faults' \in 0 .. MaxFaults
    BY OrchestratorAssumption DEF TypeInv, TypeOK, FaultTypeOK, NewFault
  <1> QED BY Zenon, <1>1, <1>2 DEF FaultTypeOK

(* Clearing a name keeps the ghost variable typed. *)
LEMMA FreedType ==
  ASSUME TypeInv, NEW t, NEW s, Freed(t, s)
  PROVE  FaultTypeOK'
  BY Zenon DEF TypeInv, TypeOK, FaultTypeOK, Freed

-----------------------------------------------------------------------------
(* One lemma per action: TypeInv is preserved.                              *)

(* The existence check of launch_instance. *)
LEMMA CheckInstanceType ==
  ASSUME TypeInv, NEW l \in Launches, CheckInstance(l)
  PROVE  TypeInv' /\ MovesOn(l)
  <1>1. MovesOn(l) /\ pc'[l] \in {"exists", "volume"}
    BY Zenon, GotoMoves, Labels DEF CheckInstance, Creating, Deleting
  <1> QED
    BY Zenon, <1>1, Labels, TargetType, MoveType, Frame
    DEF CheckInstance, TypeInv, TypeOK, ThreadOK

(* volumes.create. *)
LEMMA MakeVolumeType ==
  ASSUME TypeInv, NEW l \in Launches, MakeVolume(l)
  PROVE  TypeInv' /\ MovesOn(l)
  <1>1. MovesOn(l) /\ pc'[l] = "run"
    BY Zenon, GotoAtMoves, Labels DEF MakeVolume, Creating
  <1>2. DockerTypeOK'
    BY Zenon, InstancesAssumption DEF MakeVolume, CreateVolume, TypeInv, TypeOK, DockerTypeOK
  <1> QED
    BY Zenon, <1>1, <1>2, Labels, TargetType, MoveType, Frame
    DEF MakeVolume, TypeInv, TypeOK, ThreadOK

(* containers.run that succeeds: the position stays among the services. *)
LEMMA RunServiceType ==
  ASSUME TypeInv, NEW l \in Launches, RunService(l)
  PROVE  TypeInv' /\ MovesOn(l)
  <1>1. MovesOn(l) /\ pc'[l] \in {"run", "inspect"}
    <2>1. pos[l] < NumServices => pos[l] + 1 \in Services
      BY PosType, Labels DEF RunService, Creating, Services
    <2> QED BY Zenon, <2>1, GotoAtMoves, Labels DEF RunService, Creating
  <1>2. DockerTypeOK'
    BY PosType, Labels, InstancesAssumption
    DEF RunService, RunContainer, Creating, TypeInv, TypeOK, DockerTypeOK
  <1> QED
    BY Zenon, <1>1, <1>2, Labels, TargetType, MoveType, Frame
    DEF RunService, TypeInv, TypeOK, ThreadOK

(* containers.run that meets a taken name. *)
LEMMA RunConflictType ==
  ASSUME TypeInv, NEW l \in Launches, RunConflict(l)
  PROVE  TypeInv' /\ MovesOn(l)
  <1>1. MovesOn(l) /\ pc'[l] = "getContainer"
    BY Zenon, StartDeleteMoves, Labels DEF RunConflict
  <1> QED
    BY Zenon, <1>1, Labels, TargetType, MoveType, Frame
    DEF RunConflict, TypeInv, TypeOK, ThreadOK

(* containers.get for the address of an anvil. *)
LEMMA InspectAnvilType ==
  ASSUME TypeInv, NEW l \in Launches, InspectAnvil(l)
  PROVE  TypeInv' /\ MovesOn(l)
  <1>1. MovesOn(l) /\ pc'[l] \in {"connect", "getContainer"}
    BY GotoMoves, StartDeleteMoves, PosType, Labels DEF InspectAnvil, Creating, Services
  <1> QED
    BY Zenon, <1>1, Labels, TargetType, MoveType, Frame
    DEF InspectAnvil, TypeInv, TypeOK, ThreadOK

(* The waiting loop of _prepare_node. *)
LEMMA ConnectType ==
  ASSUME TypeInv, NEW l \in Launches, Connect(l)
  PROVE  TypeInv' /\ MovesOn(l)
  <1>1. MovesOn(l) /\ pc'[l] = "setBalance"
    BY GotoMoves, PosType, Labels DEF Connect, Creating, Services
  <1> QED
    BY Zenon, <1>1, Labels, TargetType, MoveType, Frame
    DEF Connect, TypeInv, TypeOK, ThreadOK

(* The balances, then the next anvil, the daemons or the stamp. *)
LEMMA SetBalanceType ==
  ASSUME TypeInv, NEW l \in Launches, SetBalance(l)
  PROVE  TypeInv' /\ MovesOn(l)
  <1>1. MovesOn(l) /\ pc'[l] \in {"inspect", "inspectDaemon", "stamp", "getContainer"}
    <2>1. /\ pos[l] \in Services
          /\ pos[l] < NumAnvils \/ pos[l] < NumServices => pos[l] + 1 \in Services
      BY PosType, Labels DEF SetBalance, Creating, Services
    <2> QED
      BY <2>1, GotoMoves, GotoAtMoves, StartDeleteMoves, Labels DEF SetBalance, Creating, Services
  <1> QED
    BY Zenon, <1>1, Labels, TargetType, MoveType, Frame
    DEF SetBalance, TypeInv, TypeOK, ThreadOK

(* containers.get for the address of a daemon. *)
LEMMA InspectDaemonType ==
  ASSUME TypeInv, NEW l \in Launches, InspectDaemon(l)
  PROVE  TypeInv' /\ MovesOn(l)
  <1>1. MovesOn(l) /\ pc'[l] \in {"inspectDaemon", "stamp", "getContainer"}
    <2>1. pos[l] \in Services /\ (pos[l] < NumServices => pos[l] + 1 \in Services)
      BY PosType, Labels DEF InspectDaemon, Creating, Services
    <2> QED
      BY <2>1, GotoMoves, GotoAtMoves, StartDeleteMoves, Labels
      DEF InspectDaemon, Creating, Services
  <1> QED
    BY Zenon, <1>1, Labels, TargetType, MoveType, Frame
    DEF InspectDaemon, TypeInv, TypeOK, ThreadOK

(* expires_at is a natural number of ticks. *)
LEMMA StampType ==
  ASSUME TypeInv, NEW l \in Launches, Stamp(l)
  PROVE  TypeInv' /\ MovesOn(l)
  <1>1. MovesOn(l) /\ pc'[l] = "register"
    BY GotoMoves, PosType, Labels DEF Stamp, Creating, Deleting, Services
  <1>2. Timeout * TicksPerSecond \in Nat
    BY OrchestratorAssumption, RedisAssumption
  <1>3. TimeTypeOK'
    BY <1>2 DEF Stamp, TypeInv, TypeOK, TimeTypeOK
  <1> QED
    BY Zenon, <1>1, <1>2, <1>3, Labels, TargetType, MoveType, Frame
    DEF Stamp, TypeInv, TypeOK, ThreadOK

(* register_instance stores a launch under its own instance id. *)
LEMMA RegisterType ==
  ASSUME TypeInv, NEW l \in Launches, Register(l)
  PROVE  TypeInv' /\ MovesOn(l)
  <1>1. MovesOn(l) /\ pc'[l] = "ok"
    BY Zenon, GotoMoves, PosType, Labels DEF Register, Creating, Deleting, Services
  <1>2. RedisTypeOK' /\ DocumentOK'
    BY Zenon, SecondsType, InstancesAssumption
    DEF Register, RegisterInstance, TypeInv, TypeOK, ThreadOK, RedisTypeOK, DocumentOK,
       TimeTypeOK
  <1> QED
    BY Zenon, <1>1, <1>2, Labels, TargetType, MoveType, Frame
    DEF Register, TypeInv, TypeOK, ThreadOK

(* update_metadata. *)
LEMMA UpdateMetadataType ==
  ASSUME TypeInv, NEW l \in Launches, UpdateMetadata(l)
  PROVE  TypeInv' /\ MovesOn(l)
  <1>1. MovesOn(l) /\ pc'[l] = "published"
    BY Zenon, GotoMoves, PosType, Labels DEF UpdateMetadata, Creating, Deleting, Services
  <1>2. RedisTypeOK' /\ DocumentOK'
    BY Zenon, InstancesAssumption
    DEF UpdateMetadata, HSetMetadata, TypeInv, TypeOK, ThreadOK, RedisTypeOK, DocumentOK
  <1> QED
    BY Zenon, <1>1, <1>2, Labels, TargetType, MoveType, Frame
    DEF UpdateMetadata, TypeInv, TypeOK, ThreadOK

(* The document that is read is a launch of the target, or None. *)
LEMMA UnregisterGetType ==
  ASSUME TypeInv, NEW t \in Kills \cup Pruners, UnregisterGet(t)
  PROVE  TypeInv' /\ MovesOn(t)
  <1>1. t \in Threads /\ target[t] \in InstanceIds
    BY Zenon, TargetType DEF UnregisterGet, Threads
  <1>2. MovesOn(t) /\ pc'[t] \notin Creating \cup Deleting
    BY Zenon, <1>1, PosType, InstancesAssumption, OrchestratorAssumption
    DEF UnregisterGet, AfterKill, Goto, MovesOn, TypeInv, TypeOK, ThreadTypeOK,
        LabelsOf, KillLabels, PrunerLabels, Creating, Deleting
  <1>3. \A u \in Threads : u # t => pc'[u] = pc[u] /\ pos'[u] = pos[u] /\ seen'[u] = seen[u]
    BY Zenon, <1>2 DEF UnregisterGet, MovesOn, TypeInv, TypeOK, ThreadTypeOK
  <1>4. ThreadTypeOK'
    BY <1>1, <1>2 DEF UnregisterGet, MovesOn, TypeInv, TypeOK, ThreadTypeOK, RedisTypeOK,
       LabelsOf
  <1>5. TargetOK' /\ PosOK' /\ HandleOK'
    BY ZenonT(30), <1>1, <1>2, <1>3, TargetType
    DEF UnregisterGet, TypeInv, ThreadOK, TargetOK, PosOK, HandleOK, Threads, Deleting
  <1>6. SeenOK'
    BY <1>1, <1>3 DEF UnregisterGet, AfterKill, Goto, TypeInv, TypeOK, ThreadTypeOK, ThreadOK,
       SeenOK,
       DocumentOK, RedisTypeOK
  <1> QED
    BY Zenon, <1>2, <1>4, <1>5, <1>6, Frame DEF UnregisterGet, TypeInv, TypeOK, ThreadOK

(* The pipeline of unregister_instance: seen is a launch here. *)
LEMMA UnregisterExecType ==
  ASSUME TypeInv, NEW t \in Kills \cup Pruners, UnregisterExec(t)
  PROVE  TypeInv' /\ MovesOn(t)
  <1>1. t \in Threads
    BY Zenon DEF Threads
  <1>2. MovesOn(t) /\ pc'[t] = "getContainer"
    BY Zenon, <1>1, StartDeleteMoves DEF UnregisterExec
  <1>3. RedisTypeOK' /\ DocumentOK'
    BY Zenon, TargetType DEF UnregisterExec, UnregisterPipeline, TypeInv, TypeOK, ThreadOK, SeenOK,
       RedisTypeOK, DocumentOK, Threads
  <1> QED
    BY Zenon, <1>1, <1>2, <1>3, TargetType, MoveType, Frame
    DEF UnregisterExec, TypeInv, TypeOK, ThreadOK

(* The handle is a launch of the target instance. *)
LEMMA GetContainerType ==
  ASSUME TypeInv, NEW t \in Threads, GetContainer(t)
  PROVE  TypeInv' /\ MovesOn(t)
  <1>1. MovesOn(t) /\ pc'[t] = "killContainer" /\ pos'[t] = pos[t]
    BY PosType, Labels DEF GetContainer, Goto, MovesOn, TypeInv, TypeOK, ThreadTypeOK,
       Deleting, Services
  <1>2. /\ Holder(target[t], pos[t]) \in Launches
        /\ InstanceOf[Holder(target[t], pos[t])] = target[t]
    BY Zenon, HolderType DEF GetContainer
  <1>3. \A u \in Threads :
          /\ u # t => pc'[u] = pc[u] /\ pos'[u] = pos[u] /\ handle'[u] = handle[u]
          /\ u = t => handle'[u] \in Launches /\ InstanceOf[handle'[u]] = target[u]
    BY Zenon, <1>1, <1>2 DEF GetContainer, MovesOn, TypeInv, TypeOK, ThreadTypeOK
  <1>4. ThreadTypeOK'
    BY ZenonT(30), <1>1, <1>2 DEF GetContainer, MovesOn, TypeInv, TypeOK, ThreadTypeOK, LabelsOf
  <1>5. TargetOK' /\ PosOK' /\ HandleOK' /\ SeenOK'
    BY <1>1, <1>3, TargetType
    DEF GetContainer, MovesOn, TypeInv, ThreadOK, TargetOK, PosOK, HandleOK, SeenOK, Threads
  <1> QED
    BY Zenon, <1>1, <1>4, <1>5, Frame DEF GetContainer, TypeInv, TypeOK, ThreadOK

(* A name that is free. *)
LEMMA SkipContainerType ==
  ASSUME TypeInv, NEW t \in Threads, SkipContainer(t)
  PROVE  TypeInv' /\ MovesOn(t)
  <1>1. MovesOn(t) /\ pc'[t] \in {"getContainer", "deleteVolume"}
    BY Zenon, NextDeleteMoves DEF SkipContainer, Deleting
  <1>2. FaultTypeOK'
    BY Zenon, FreedType DEF SkipContainer
  <1> QED
    BY Zenon, <1>1, <1>2, TargetType, MoveType, Frame
    DEF SkipContainer, TypeInv, TypeOK, ThreadOK

(* container.kill. *)
LEMMA KillType ==
  ASSUME TypeInv, NEW t \in Threads, Kill(t)
  PROVE  TypeInv' /\ MovesOn(t)
  <1>1. MovesOn(t) /\ pc'[t] \in {"getContainer", "removeContainer", "deleteVolume"}
    <2>1. CASE <<handle[t], pos[t]>> \in containers
      BY <2>1, PosType, Labels
      DEF Kill, Goto, MovesOn, TypeInv, TypeOK, ThreadTypeOK, Deleting, Services
    <2>2. CASE <<handle[t], pos[t]>> \notin containers
      BY ZenonT(30), <2>2, NextDeleteMoves DEF Kill, Deleting
    <2> QED BY Zenon, <2>1, <2>2
  <1>2. DockerTypeOK'
    BY Zenon DEF Kill, KillContainer, TypeInv, TypeOK, DockerTypeOK
  <1>3. handle[t] \in Launches /\ InstanceOf[handle[t]] = target[t]
    BY Zenon DEF Kill, TypeInv, ThreadOK, HandleOK
  <1> QED
    BY Zenon, <1>1, <1>2, <1>3, TargetType, MoveType, Frame
    DEF Kill, TypeInv, TypeOK, ThreadOK

(* container.remove. *)
LEMMA RemoveType ==
  ASSUME TypeInv, NEW t \in Threads, Remove(t)
  PROVE  TypeInv' /\ MovesOn(t)
  <1>1. MovesOn(t) /\ pc'[t] \in {"getContainer", "deleteVolume"}
    BY Zenon, NextDeleteMoves DEF Remove, Deleting
  <1>2. FaultTypeOK'
    BY Zenon, FreedType, Frame DEF Remove
  <1>3. DockerTypeOK'
    BY Zenon DEF Remove, RemoveContainer, TypeInv, TypeOK, DockerTypeOK
  <1> QED
    BY Zenon, <1>1, <1>2, <1>3, TargetType, MoveType, Frame
    DEF Remove, TypeInv, TypeOK, ThreadOK

(* volume.remove, then the answer or the next round. *)
LEMMA DeleteVolumeType ==
  ASSUME TypeInv, NEW t \in Threads, DeleteVolume(t)
  PROVE  TypeInv' /\ MovesOn(t)
  <1>1. MovesOn(t) /\ pc'[t] \in {"failed", "deleted", "list", "prune"}
    BY Zenon, AfterDeleteMoves DEF DeleteVolume
  <1>2. FaultTypeOK'
    BY Zenon, FreedType, Frame DEF DeleteVolume
  <1>3. DockerTypeOK'
    BY Zenon DEF DeleteVolume, RemoveVolume, TypeInv, TypeOK, DockerTypeOK
  <1> QED
    BY Zenon, <1>1, <1>2, <1>3, TargetType, MoveType, Frame
    DEF DeleteVolume, TypeInv, TypeOK, ThreadOK

(* The ZRANGE of get_expired_instances. *)
LEMMA ListExpiredType ==
  ASSUME TypeInv, NEW p \in Pruners, ListExpired(p)
  PROVE  TypeInv' /\ MovesOn(p)
  <1>1. p \in Threads /\ MovesOn(p) /\ pc'[p] \in {"list", "fetch", "prune"}
    BY Zenon, PosType, OrchestratorAssumption
    DEF ListExpired, Goto, MovesOn, TypeInv, TypeOK, ThreadTypeOK, Threads, LabelsOf,
       PrunerLabels, Creating, Deleting
  <1>2. RoundTypeOK'
    BY Zenon DEF ListExpired, ExpiredIds, TypeInv, TypeOK, RoundTypeOK
  <1> QED
    BY Zenon, <1>1, <1>2, MoveType, Frame
    DEF ListExpired, TypeInv, TypeOK, ThreadOK

(* One get_instance of get_expired_instances. *)
LEMMA FetchInstanceType ==
  ASSUME TypeInv, NEW p \in Pruners, FetchInstance(p)
  PROVE  TypeInv' /\ MovesOn(p)
  <1>1. p \in Threads /\ MovesOn(p) /\ pc'[p] \in {"list", "fetch", "prune"}
    BY ZenonT(30), PosType, OrchestratorAssumption
    DEF FetchInstance, Goto, MovesOn, TypeInv, TypeOK, ThreadTypeOK, Threads, LabelsOf,
       PrunerLabels, Creating, Deleting
  <1>2. RoundTypeOK'
    BY DEF FetchInstance, TypeInv, TypeOK, RoundTypeOK
  <1> QED
    BY Zenon, <1>1, <1>2, MoveType, Frame
    DEF FetchInstance, TypeInv, TypeOK, ThreadOK

(* The pruner takes up an instance: its target becomes an instance id. *)
LEMMA PruneType ==
  ASSUME TypeInv, NEW p \in Pruners, Prune(p)
  PROVE  TypeInv' /\ MovesOn(p)
  <1>1. PICK id \in todo[p] : /\ todo' = [todo EXCEPT ![p] = @ \ {id}]
                             /\ target' = [target EXCEPT ![p] = id]
    BY Zenon DEF Prune
  <1>2. p \in Threads /\ id \in InstanceIds /\ p \notin Launches \cup Kills
    BY Zenon, OrchestratorAssumption DEF Threads, TypeInv, TypeOK, RoundTypeOK
  <1>3. MovesOn(p) /\ pc'[p] = "unregisterGet"
    BY Zenon, <1>2, PosType
    DEF Prune, Goto, MovesOn, TypeInv, TypeOK, ThreadTypeOK, LabelsOf, PrunerLabels, Creating,
       Deleting
  <1>4. \A u \in Threads : u # p => pc'[u] = pc[u] /\ pos'[u] = pos[u] /\ target'[u] = target[u]
    BY Zenon, <1>1, <1>3 DEF MovesOn, TypeInv, TypeOK, ThreadTypeOK
  <1>5. ThreadTypeOK'
    BY <1>1, <1>2, <1>3 DEF Prune, MovesOn, TypeInv, TypeOK, ThreadTypeOK, LabelsOf
  <1>6. TargetOK'
    BY ZenonT(30), <1>1, <1>2, <1>3, <1>4, InstancesAssumption
    DEF TypeInv, TypeOK, ThreadTypeOK, ThreadOK, TargetOK, Threads
  <1>7. PosOK' /\ HandleOK' /\ SeenOK'
    BY <1>3, <1>4 DEF Prune, TypeInv, ThreadOK, PosOK, HandleOK, SeenOK, Creating, Deleting
  <1>8. RoundTypeOK'
    BY Zenon, <1>1 DEF Prune, TypeInv, TypeOK, RoundTypeOK
  <1> QED
    BY Zenon, <1>3, <1>5, <1>6, <1>7, <1>8, Frame DEF Prune, TypeInv, TypeOK, ThreadOK

(* A None in the list ends the round. *)
LEMMA PruneAbsentType ==
  ASSUME TypeInv, NEW p \in Pruners, PruneAbsent(p)
  PROVE  TypeInv' /\ MovesOn(p)
  <1>1. p \in Threads
    BY Zenon DEF Threads
  <1>2. MovesOn(p) /\ RoundTypeOK' /\ pc'[p] \in {"failed", "error", "list"}
          /\ (p \in Pruners => pc'[p] = "list")
    BY Zenon, RaiseMoves, <1>1 DEF PruneAbsent
  <1> QED
    BY Zenon, <1>1, <1>2, MoveType, Frame
    DEF PruneAbsent, TypeInv, TypeOK, ThreadOK

(* A refused Redis command. *)
LEMMA RedisRefusesType ==
  ASSUME TypeInv, NEW t \in Threads, RedisRefuses(t)
  PROVE  TypeInv' /\ MovesOn(t)
  <1>1. MovesOn(t) /\ RoundTypeOK' /\ pc'[t] \in {"failed", "error", "list"}
          /\ (t \in Pruners => pc'[t] = "list")
    BY Zenon, RaiseMoves DEF RedisRefuses
  <1>2. t \notin Pruners => target[t] # None
    BY InstancesAssumption DEF TypeInv, ThreadOK, TargetOK, Threads
  <1> QED
    BY Zenon, <1>1, <1>2, MoveType, Frame
    DEF RedisRefuses, TypeInv, TypeOK, ThreadOK

(* A refused registration. *)
LEMMA RegisterRefusedType ==
  ASSUME TypeInv, NEW l \in Launches, RegisterRefused(l)
  PROVE  TypeInv' /\ MovesOn(l)
  <1>1. MovesOn(l) /\ pc'[l] = "getContainer"
    BY Zenon, StartDeleteMoves, Labels DEF RegisterRefused
  <1> QED
    BY Zenon, <1>1, Labels, TargetType, MoveType, Frame
    DEF RegisterRefused, TypeInv, TypeOK, ThreadOK

(* A registration whose reply is lost. *)
LEMMA RegisterReplyLostType ==
  ASSUME TypeInv, NEW l \in Launches, RegisterReplyLost(l)
  PROVE  TypeInv' /\ MovesOn(l)
  <1>1. MovesOn(l) /\ pc'[l] = "getContainer"
    BY Zenon, StartDeleteMoves, Labels DEF RegisterReplyLost
  <1>2. RedisTypeOK' /\ DocumentOK'
    BY Zenon, SecondsType, InstancesAssumption
    DEF RegisterReplyLost, RegisterInstance, TypeInv, TypeOK, ThreadOK, RedisTypeOK,
       DocumentOK, TimeTypeOK
  <1> QED
    BY Zenon, <1>1, <1>2, Labels, TargetType, MoveType, Frame
    DEF RegisterReplyLost, TypeInv, TypeOK, ThreadOK

(* An unregistration whose reply is lost. *)
LEMMA UnregisterReplyLostType ==
  ASSUME TypeInv, NEW t \in Threads, UnregisterReplyLost(t)
  PROVE  TypeInv' /\ MovesOn(t)
  <1>1. MovesOn(t) /\ RoundTypeOK' /\ pc'[t] \in {"failed", "error", "list"}
          /\ (t \in Pruners => pc'[t] = "list")
    BY Zenon, RaiseMoves DEF UnregisterReplyLost
  <1>2. t \notin Pruners => target[t] # None
    BY InstancesAssumption DEF TypeInv, ThreadOK, TargetOK, Threads
  <1>3. RedisTypeOK' /\ DocumentOK'
    BY Zenon, TargetType DEF UnregisterReplyLost, UnregisterPipeline, TypeInv, TypeOK, ThreadOK,
       SeenOK, RedisTypeOK, DocumentOK, Threads
  <1>4. FaultTypeOK'
    BY Zenon, LeakType DEF UnregisterReplyLost
  <1> QED
    BY Zenon, <1>1, <1>2, <1>3, <1>4, MoveType, Frame
    DEF UnregisterReplyLost, TypeInv, TypeOK, ThreadOK

(* A refused call of _launch_instance_impl. *)
LEMMA CreateRefusedType ==
  ASSUME TypeInv, NEW l \in Launches, CreateRefused(l)
  PROVE  TypeInv' /\ MovesOn(l)
  <1>1. MovesOn(l) /\ pc'[l] = "getContainer"
    BY Zenon, StartDeleteMoves, Labels DEF CreateRefused
  <1>2. DockerTypeOK'
    BY PosType, Labels, InstancesAssumption, Frame
    DEF CreateRefused, RunContainer, Creating, TypeInv, TypeOK, DockerTypeOK
  <1> QED
    BY Zenon, <1>1, <1>2, Labels, TargetType, MoveType, Frame
    DEF CreateRefused, TypeInv, TypeOK, ThreadOK

(* containers.get that fails: the names left go to the ghost variable. *)
LEMMA GetRefusedType ==
  ASSUME TypeInv, NEW t \in Threads, GetRefused(t)
  PROVE  TypeInv' /\ MovesOn(t)
  <1>1. MovesOn(t) /\ RoundTypeOK' /\ pc'[t] \in {"failed", "error", "list"}
          /\ (t \in Pruners => pc'[t] = "list")
    BY Zenon, RaiseMoves DEF GetRefused
  <1>2. t \notin Pruners => target[t] # None
    BY InstancesAssumption DEF TypeInv, ThreadOK, TargetOK, Threads
  <1>3. {0} \cup (pos[t] .. NumServices) \subseteq 0 .. NumServices
    BY PosType
  <1>4. FaultTypeOK'
    BY Zenon, <1>3, LeakType DEF GetRefused
  <1> QED
    BY Zenon, <1>1, <1>2, <1>3, <1>4, MoveType, Frame
    DEF GetRefused, TypeInv, TypeOK, ThreadOK

(* kill or remove that fails. *)
LEMMA DeleteRefusedType ==
  ASSUME TypeInv, NEW t \in Threads, DeleteRefused(t)
  PROVE  TypeInv' /\ MovesOn(t)
  <1>1. MovesOn(t) /\ pc'[t] \in {"getContainer", "deleteVolume"}
    BY Zenon, NextDeleteMoves DEF DeleteRefused, Deleting
  <1>2. {pos[t]} \subseteq 0 .. NumServices
    BY Zenon, PosType
  <1>3. FaultTypeOK'
    BY Zenon, <1>2, LeakType DEF DeleteRefused
  <1> QED
    BY Zenon, <1>1, <1>2, <1>3, TargetType, MoveType, Frame
    DEF DeleteRefused, TypeInv, TypeOK, ThreadOK

(* volume.remove that fails. *)
LEMMA VolumeRefusedType ==
  ASSUME TypeInv, NEW t \in Threads, VolumeRefused(t)
  PROVE  TypeInv' /\ MovesOn(t)
  <1>1. MovesOn(t) /\ pc'[t] \in {"failed", "deleted", "list", "prune"}
    BY Zenon, AfterDeleteMoves DEF VolumeRefused
  <1>2. {0} \subseteq 0 .. NumServices
    BY PosType
  <1>3. FaultTypeOK'
    BY Zenon, <1>2, LeakType DEF VolumeRefused
  <1> QED
    BY Zenon, <1>1, <1>2, <1>3, TargetType, MoveType, Frame
    DEF VolumeRefused, TypeInv, TypeOK, ThreadOK

(* volumes.get that fails. *)
LEMMA GetVolumeRefusedType ==
  ASSUME TypeInv, NEW t \in Threads, GetVolumeRefused(t)
  PROVE  TypeInv' /\ MovesOn(t)
  <1>1. MovesOn(t) /\ RoundTypeOK' /\ pc'[t] \in {"failed", "error", "list"}
          /\ (t \in Pruners => pc'[t] = "list")
    BY Zenon, RaiseMoves DEF GetVolumeRefused
  <1>2. t \notin Pruners => target[t] # None
    BY InstancesAssumption DEF TypeInv, ThreadOK, TargetOK, Threads
  <1>3. {0} \subseteq 0 .. NumServices
    BY PosType
  <1>4. FaultTypeOK'
    BY Zenon, <1>3, LeakType DEF GetVolumeRefused
  <1> QED
    BY Zenon, <1>1, <1>2, <1>3, <1>4, MoveType, Frame
    DEF GetVolumeRefused, TypeInv, TypeOK, ThreadOK

(* A crash: every thread is at a label of its own kind again. *)
LEMMA CrashType ==
  ASSUME TypeInv, Crash
  PROVE  TypeInv'
  <1>1. \A t \in Threads : /\ pc'[t] \in LabelsOf(t)
                          /\ pc'[t] \in {"list", "check", "unregisterGet"} \cup Answered
    <2> TAKE t \in Threads
    <2>1. pc[t] \in LabelsOf(t)
      BY Zenon DEF TypeInv, TypeOK, ThreadTypeOK
    <2>2. CASE t \in Pruners
      <3>1. "list" \in LabelsOf(t)
        BY Zenon, <2>2, OrchestratorAssumption DEF LabelsOf, PrunerLabels
      <3> QED BY Zenon, <2>2, <3>1 DEF Crash
    <2>3. CASE t \notin Pruners
      <3>1. "crashed" \in LabelsOf(t)
        BY Zenon, <2>3 DEF Threads, LabelsOf, LaunchLabels, KillLabels
      <3>2. pc'[t] = IF pc[t] \in Answered \cup {"check", "unregisterGet"} THEN pc[t] ELSE "crashed"
        BY Zenon, <2>3 DEF Crash
      <3> QED BY Zenon, <2>1, <3>1, <3>2 DEF Answered
    <2> QED BY Zenon, <2>2, <2>3
  <1>2. ThreadTypeOK'
    BY Zenon, <1>1 DEF Crash, deleteVars, TypeInv, TypeOK, ThreadTypeOK, LabelsOf
  <1>3. TargetOK' /\ PosOK' /\ HandleOK' /\ SeenOK'
    BY ZenonT(30), <1>1 DEF Crash, deleteVars, TypeInv, ThreadOK, TargetOK, PosOK, HandleOK, SeenOK,
       Threads,
       Creating, Deleting, Answered
  <1>4. FaultTypeOK'
    <2>1. \A t \in Unfinished : target[t] \in InstanceIds
      BY Zenon, TargetType DEF Unfinished, Creating, Deleting
    <2>2. leaked' = leaked \cup UnfinishedNames
      BY Zenon DEF Crash
    <2>3. UnfinishedNames \subseteq InstanceIds \X (0 .. NumServices)
      BY <2>1 DEF UnfinishedNames
    <2>4. leaked \subseteq InstanceIds \X (0 .. NumServices)
      BY Zenon DEF TypeInv, TypeOK, FaultTypeOK
    <2>5. NewFault
      BY Zenon DEF Crash
    <2>6. faults' \in 0 .. MaxFaults
      BY <2>5, OrchestratorAssumption DEF NewFault, TypeInv, TypeOK, FaultTypeOK
    <2> QED BY Zenon, <2>2, <2>3, <2>4, <2>6 DEF FaultTypeOK
  <1>5. RoundTypeOK'
    BY Zenon DEF Crash, RoundTypeOK
  <1> QED
    BY Zenon, <1>2, <1>3, <1>4, <1>5, Frame DEF Crash, TypeInv, TypeOK, ThreadOK

(* The clock. *)
LEMMA TickType ==
  ASSUME TypeInv, Tick \/ UNCHANGED vars
  PROVE  TypeInv'
  <1>1. UNCHANGED <<redisVars, dockerVars, roundVars, faultVars>>
    BY Zenon DEF Tick, vars, threadVars, roundVars
  <1>2. TimeTypeOK'
    BY SMTT(30) DEF Tick, vars, timeVars, TypeInv, TypeOK, TimeTypeOK
  <1>3. ThreadTypeOK' /\ TargetOK' /\ PosOK' /\ HandleOK' /\ SeenOK'
    BY Zenon DEF Tick, vars, threadVars, TypeInv, TypeOK, ThreadOK, ThreadTypeOK, TargetOK, PosOK,
       HandleOK, SeenOK
  <1> QED
    BY Zenon, <1>1, <1>2, <1>3, Frame DEF TypeInv, TypeOK, ThreadOK

(* TypeInv is inductive. *)
LEMMA NextTypeInv ==
  ASSUME TypeInv, [Next]_vars
  PROVE  TypeInv'
  <1>1. CASE Tick \/ UNCHANGED vars
    BY Zenon, <1>1, TickType
  <1>2. CASE \E l \in Launches : LaunchStep(l) \/ UpdateMetadata(l)
    BY Zenon, <1>2, CheckInstanceType, MakeVolumeType, RunServiceType, RunConflictType,
       InspectAnvilType, ConnectType, SetBalanceType, InspectDaemonType, StampType,
       RegisterType, UpdateMetadataType DEF LaunchStep
  <1>3. CASE \E t \in Kills \cup Pruners : KillStep(t)
    BY Zenon, <1>3, UnregisterGetType, UnregisterExecType DEF KillStep
  <1>4. CASE \E t \in Threads : DeleteStep(t)
    BY Zenon, <1>4, GetContainerType, SkipContainerType, KillType, RemoveType, DeleteVolumeType DEF
       DeleteStep
  <1>5. CASE \E p \in Pruners : PruneStep(p)
    BY Zenon, <1>5, ListExpiredType, FetchInstanceType, PruneType, PruneAbsentType DEF PruneStep
  <1>6. CASE Fault
    BY Zenon, <1>6, RedisRefusesType, RegisterRefusedType, RegisterReplyLostType,
       UnregisterReplyLostType, CreateRefusedType, GetRefusedType, DeleteRefusedType,
       VolumeRefusedType, GetVolumeRefusedType, CrashType DEF Fault
  <1> QED BY Zenon, <1>1, <1>2, <1>3, <1>4, <1>5, <1>6 DEF Next

(* Every variable keeps its type: no thread ever reads a document, a        *)
(* container handle or a service position it has not got.                   *)
THEOREM TypeCorrect == Spec => []TypeOK
  <1>1. Spec => []TypeInv
    BY InitTypeInv, NextTypeInv, PTL DEF Spec
  <1>2. TypeInv => TypeOK
    BY Zenon DEF TypeInv
  <1> QED BY <1>1, <1>2, PTL


-----------------------------------------------------------------------------
(* The registry                                                             *)

(* A launch that has not registered yet. *)
Fresh == {"check", "volume"} \cup Creating

(* No launch ever becomes fresh again. *)
NoReturn == \A l \in Launches : pc'[l] \in Fresh => pc[l] \in Fresh

(* A fresh launch's document is not in the registry, so that stamping it     *)
(* cannot change the deadline of a registered instance.                      *)
FreshOK == \A l \in Launches, id \in InstanceIds : pc[l] \in Fresh => instance[id] # l

IndexInv == IndexConsistent /\ FreshOK

(* A thread that moves to a label that is not fresh, or from one that is. *)
LEMMA MoveNoReturn ==
  ASSUME TypeInv, NEW t \in Threads, MovesOn(t),
         t \in Launches => pc[t] \in Fresh \/ pc'[t] \notin Fresh
  PROVE  NoReturn
  BY Zenon DEF MovesOn, TypeInv, TypeOK, ThreadTypeOK, NoReturn, Threads

(* Every step keeps a launch from becoming fresh again. *)
LEMMA NextNoReturn ==
  ASSUME TypeInv, [Next]_vars
  PROVE  NoReturn
  <1>1. ASSUME NEW l \in Launches, LaunchStep(l) PROVE NoReturn
    <2>1. pc[l] \in Fresh
      BY Zenon, <1>1 DEF LaunchStep, CheckInstance, MakeVolume, RunService, RunConflict, InspectAnvil,
         Connect, SetBalance, InspectDaemon, Stamp, Register, Fresh, Creating
    <2>2. MovesOn(l)
      BY Zenon, <1>1, CheckInstanceType, MakeVolumeType, RunServiceType, RunConflictType,
         InspectAnvilType, ConnectType, SetBalanceType, InspectDaemonType, StampType, RegisterType
      DEF LaunchStep
    <2> QED BY Zenon, <2>1, <2>2, Labels, MoveNoReturn
  <1>2. ASSUME NEW l \in Launches, UpdateMetadata(l) PROVE NoReturn
    <2>1. MovesOn(l) /\ pc'[l] = "published"
      BY Zenon, <1>2, UpdateMetadataType, Labels DEF UpdateMetadata, Goto, TypeInv, TypeOK, ThreadTypeOK
    <2> QED BY Zenon, <2>1, Labels, MoveNoReturn DEF Fresh, Creating
  <1>3. ASSUME NEW t \in Kills \cup Pruners, KillStep(t) PROVE NoReturn
    <2>1. MovesOn(t) /\ t \in Threads /\ t \notin Launches
      BY Zenon, <1>3, UnregisterGetType, UnregisterExecType, InstancesAssumption, OrchestratorAssumption
      DEF KillStep, Threads
    <2> QED BY Zenon, <2>1, MoveNoReturn
  <1>4. ASSUME NEW t \in Threads, DeleteStep(t) PROVE NoReturn
    <2>1. MovesOn(t)
      BY Zenon, <1>4, GetContainerType, SkipContainerType, KillType, RemoveType, DeleteVolumeType
      DEF DeleteStep
    <2>2. CASE GetContainer(t) \/ (Kill(t) /\ <<handle[t], pos[t]>> \in containers)
      BY Zenon, <2>1, <2>2, MoveNoReturn
      DEF GetContainer, Kill, Goto, Fresh, Creating, TypeInv, TypeOK, ThreadTypeOK
    <2>3. CASE SkipContainer(t) \/ Remove(t) \/ (Kill(t) /\ <<handle[t], pos[t]>> \notin containers)
      <3>1. pc[t] \in Deleting /\ NextDelete(t)
        BY Zenon, <2>3 DEF SkipContainer, Remove, Kill, Deleting
      <3> QED BY Zenon, <3>1, <2>1, NextDeleteMoves, MoveNoReturn DEF Fresh, Creating
    <2>4. CASE DeleteVolume(t)
      BY Zenon, <2>1, <2>4, AfterDeleteMoves, MoveNoReturn DEF DeleteVolume, Fresh, Creating
    <2> QED BY Zenon, <1>4, <2>2, <2>3, <2>4 DEF DeleteStep
  <1>5. ASSUME NEW p \in Pruners, PruneStep(p) PROVE NoReturn
    <2>1. MovesOn(p) /\ p \in Threads /\ p \notin Launches
      BY Zenon, <1>5, ListExpiredType, FetchInstanceType, PruneType, PruneAbsentType,
         OrchestratorAssumption DEF PruneStep, Threads
    <2> QED BY Zenon, <2>1, MoveNoReturn
  <1>6. ASSUME NEW l \in Launches, RegisterRefused(l) \/ RegisterReplyLost(l) \/ CreateRefused(l)
        PROVE  NoReturn
    <2>1. MovesOn(l) /\ pc[l] \in Fresh
      BY Zenon, <1>6, RegisterRefusedType, RegisterReplyLostType, CreateRefusedType
      DEF RegisterRefused, RegisterReplyLost, CreateRefused, Fresh, Creating
    <2> QED BY Zenon, <2>1, Labels, MoveNoReturn
  <1>7. ASSUME NEW t \in Threads,
               \/ RedisRefuses(t) \/ UnregisterReplyLost(t) \/ GetRefused(t) \/ GetVolumeRefused(t)
        PROVE  NoReturn
    <2>1. MovesOn(t) /\ pc'[t] \in {"failed", "error", "list"}
      BY ZenonT(30), <1>7, RaiseMoves DEF RedisRefuses, UnregisterReplyLost, GetRefused, GetVolumeRefused
    <2> QED BY Zenon, <2>1, MoveNoReturn DEF Fresh, Creating
  <1>8. ASSUME NEW t \in Threads, DeleteRefused(t) PROVE NoReturn
    BY ZenonT(30), <1>8, NextDeleteMoves, MoveNoReturn DEF DeleteRefused, Fresh, Creating, Deleting
  <1>9. ASSUME NEW t \in Threads, VolumeRefused(t) PROVE NoReturn
    BY Zenon, <1>9, AfterDeleteMoves, MoveNoReturn DEF VolumeRefused, Fresh, Creating
  <1>10. CASE Crash
    BY Zenon, <1>10 DEF Crash, NoReturn, Fresh, Creating, Threads, Answered
  <1>11. CASE Tick \/ UNCHANGED vars
    BY Zenon, <1>11 DEF Tick, vars, threadVars, NoReturn
  <1> QED
    BY Zenon, <1>1, <1>2, <1>3, <1>4, <1>5, <1>6, <1>7, <1>8, <1>9, <1>10, <1>11 DEF Next, Fault

(* A step that leaves the registry and the deadlines alone. *)
LEMMA QuietIndex ==
  ASSUME IndexInv, NoReturn, UNCHANGED <<instance, external_ids, expiries, expires_at>>
  PROVE  IndexInv'
  BY Zenon DEF IndexInv, IndexConsistent, FreshOK, NoReturn, Seconds

(* Stamping changes the deadline of a document that is not registered. *)
LEMMA StampIndex ==
  ASSUME TypeInv, IndexInv, NoReturn, NEW l \in Launches, Stamp(l)
  PROVE  IndexInv'
  <1>1. FreshOK'
    BY Zenon DEF IndexInv, FreshOK, NoReturn, Stamp, redisVars
  <1>2. \A m \in Launches : m # l => expires_at'[m] = expires_at[m]
    BY Zenon DEF Stamp, TypeInv, TypeOK, TimeTypeOK
  <1>3. \A id \in InstanceIds : instance[id] # l /\ instance[id] \in Launches \cup {None}
    BY Zenon DEF Stamp, IndexInv, FreshOK, Fresh, Creating, TypeInv, TypeOK, RedisTypeOK
  <1>4. UNCHANGED <<instance, external_ids, expiries>>
    BY Zenon DEF Stamp, redisVars
  <1>5. IndexConsistent'
    BY Zenon, <1>2, <1>3, <1>4 DEF IndexInv, IndexConsistent
  <1> QED BY Zenon, <1>1, <1>5 DEF IndexInv

(* A registration writes all three views. *)
LEMMA RegisterIndex ==
  ASSUME TypeInv, IndexInv, NoReturn, NEW l \in Launches,
         RegisterInstance(l, expires_at[l]), UNCHANGED expires_at,
         pc[l] = "register", pc'[l] \notin Fresh
  PROVE  IndexInv'
  <1>1. InstanceOf[l] \in InstanceIds /\ None \notin Launches /\ l # None
    BY Zenon, InstancesAssumption
  <1>2. /\ instance'[InstanceOf[l]] = l
        /\ external_ids'[l] = InstanceOf[l]
        /\ expiries'[InstanceOf[l]] = Seconds(expires_at[l])
    BY Zenon, <1>1 DEF RegisterInstance, TypeInv, TypeOK, RedisTypeOK
  <1>3. \A id \in InstanceIds :
           id # InstanceOf[l] => instance'[id] = instance[id] /\ expiries'[id] = expiries[id]
    BY Zenon, <1>1 DEF RegisterInstance, TypeInv, TypeOK, RedisTypeOK
  <1>4. \A id \in InstanceIds : instance[id] # l /\ instance[id] \in Launches \cup {None}
    BY Zenon DEF IndexInv, FreshOK, Fresh, Creating, TypeInv, TypeOK, RedisTypeOK
  <1>5. \A m \in Launches : m # l => external_ids'[m] = external_ids[m]
    BY Zenon DEF RegisterInstance, TypeInv, TypeOK, RedisTypeOK
  <1>6. ASSUME NEW id \in InstanceIds
        PROVE  (IF instance[id] = None THEN expiries[id] = None
                ELSE /\ external_ids[instance[id]] = id
                     /\ expiries[id] = Seconds(expires_at[instance[id]]))'
    <2>1. CASE id = InstanceOf[l]
      BY ZenonT(30), <1>1, <1>2, <2>1 DEF Seconds
    <2>2. CASE id # InstanceOf[l]
      BY <1>3, <1>4, <1>5, <2>2 DEF IndexInv, IndexConsistent, Seconds
    <2> QED BY Zenon, <2>1, <2>2
  <1>7. IndexConsistent'
    BY ZenonT(30), <1>6 DEF IndexConsistent
  <1>8. FreshOK'
    BY Zenon, <1>2, <1>3 DEF IndexInv, FreshOK, NoReturn
  <1> QED BY Zenon, <1>7, <1>8 DEF IndexInv

(* The transaction of unregister_instance removes all three views: the       *)
(* external id it deletes belongs to this instance, even if the document was *)
(* replaced since it was read.                                               *)
LEMMA UnregisterIndex ==
  ASSUME TypeInv, IndexInv, NoReturn, NEW t \in Threads, pc[t] = "unregisterExec",
         UnregisterPipeline(target[t], seen[t]), UNCHANGED expires_at
  PROVE  IndexInv'
  <1>1. target[t] \in InstanceIds /\ seen[t] \in Launches /\ InstanceOf[seen[t]] = target[t]
    BY Zenon, TargetType DEF TypeInv, ThreadOK, SeenOK
  <1>2. instance'[target[t]] = None /\ expiries'[target[t]] = None
    BY Zenon, <1>1 DEF UnregisterPipeline, TypeInv, TypeOK, RedisTypeOK
  <1>3. \A id \in InstanceIds :
           id # target[t] => instance'[id] = instance[id] /\ expiries'[id] = expiries[id]
    BY Zenon, <1>1 DEF UnregisterPipeline, TypeInv, TypeOK, RedisTypeOK
  <1>4. \A m \in Launches : m # seen[t] => external_ids'[m] = external_ids[m]
    BY Zenon, <1>1 DEF UnregisterPipeline, TypeInv, TypeOK, RedisTypeOK
  <1>5. ASSUME NEW id \in InstanceIds
        PROVE  (IF instance[id] = None THEN expiries[id] = None
                ELSE /\ external_ids[instance[id]] = id
                     /\ expiries[id] = Seconds(expires_at[instance[id]]))'
    <2>1. CASE id = target[t]
      BY Zenon, <1>2, <2>1
    <2>2. CASE id # target[t]
      <3>1. instance[id] # None => instance[id] \in Launches /\ instance[id] # seen[t]
        BY Zenon, <1>1, <2>2 DEF TypeInv, TypeOK, RedisTypeOK, ThreadOK, DocumentOK
      <3> QED BY <1>3, <1>4, <2>2, <3>1 DEF IndexInv, IndexConsistent, Seconds
    <2> QED BY Zenon, <2>1, <2>2
  <1>6. IndexConsistent'
    BY Zenon, <1>5 DEF IndexConsistent
  <1>7. FreshOK'
    BY ZenonT(30), <1>2, <1>3, InstancesAssumption DEF IndexInv, FreshOK, NoReturn
  <1> QED BY Zenon, <1>6, <1>7 DEF IndexInv

(* IndexInv is inductive relative to TypeInv. *)
LEMMA NextIndexInv ==
  ASSUME TypeInv, IndexInv, [Next]_vars
  PROVE  IndexInv'
  <1>1. NoReturn
    BY Zenon, NextNoReturn
  <1> USE DEF redisVars, timeVars
  <1>2. ASSUME NEW l \in Launches, LaunchStep(l) \/ UpdateMetadata(l) PROVE IndexInv'
    <2>1. CASE Register(l)
      <3>1. pc'[l] = "ok"
        BY Zenon, <2>1, Labels DEF Register, Goto, TypeInv, TypeOK, ThreadTypeOK
      <3> QED BY Zenon, <1>1, <2>1, <3>1, RegisterIndex DEF Register, Fresh, Creating
    <2>2. CASE Stamp(l)
      BY Zenon, <1>1, <2>2, StampIndex
    <2>3. CASE UpdateMetadata(l)
      BY Zenon, <1>1, <2>3, QuietIndex DEF UpdateMetadata, HSetMetadata
    <2>4. CASE CheckInstance(l) \/ MakeVolume(l) \/ RunService(l) \/ RunConflict(l)
      BY Zenon, <1>1, <2>4, QuietIndex DEF CheckInstance, MakeVolume, RunService, RunConflict
    <2>5. CASE InspectAnvil(l) \/ Connect(l) \/ SetBalance(l) \/ InspectDaemon(l)
      BY Zenon, <1>1, <2>5, QuietIndex DEF InspectAnvil, Connect, SetBalance, InspectDaemon
    <2> QED BY Zenon, <1>2, <2>1, <2>2, <2>3, <2>4, <2>5 DEF LaunchStep
  <1>3. ASSUME NEW t \in Kills \cup Pruners, KillStep(t) PROVE IndexInv'
    <2>1. CASE UnregisterGet(t)
      BY Zenon, <1>1, <2>1, QuietIndex DEF UnregisterGet
    <2>2. CASE UnregisterExec(t)
      BY Zenon, <1>1, <2>2, UnregisterIndex DEF UnregisterExec, Threads
    <2> QED BY Zenon, <1>3, <2>1, <2>2 DEF KillStep
  <1>4. ASSUME NEW t \in Threads, DeleteStep(t) PROVE IndexInv'
    BY Zenon, <1>1, <1>4, QuietIndex
    DEF DeleteStep, GetContainer, SkipContainer, Kill, Remove, DeleteVolume
  <1>5. ASSUME NEW p \in Pruners, PruneStep(p) PROVE IndexInv'
    BY Zenon, <1>1, <1>5, QuietIndex DEF PruneStep, ListExpired, FetchInstance, Prune, PruneAbsent
  <1>6. ASSUME NEW l \in Launches, RegisterRefused(l) \/ CreateRefused(l) PROVE IndexInv'
    BY Zenon, <1>1, <1>6, QuietIndex DEF RegisterRefused, CreateRefused
  <1>7. ASSUME NEW l \in Launches, RegisterReplyLost(l) PROVE IndexInv'
    <2>1. pc'[l] = "getContainer"
      BY Zenon, <1>7, Labels, StartDeleteMoves DEF RegisterReplyLost
    <2> QED BY Zenon, <1>1, <1>7, <2>1, RegisterIndex DEF RegisterReplyLost, Fresh, Creating
  <1>8. ASSUME NEW t \in Threads, UnregisterReplyLost(t) PROVE IndexInv'
    BY Zenon, <1>1, <1>8, UnregisterIndex DEF UnregisterReplyLost
  <1>9. ASSUME NEW t \in Threads,
               \/ RedisRefuses(t) \/ GetRefused(t) \/ DeleteRefused(t)
               \/ VolumeRefused(t) \/ GetVolumeRefused(t)
        PROVE  IndexInv'
    BY Zenon, <1>1, <1>9, QuietIndex
    DEF RedisRefuses, GetRefused, DeleteRefused, VolumeRefused, GetVolumeRefused
  <1>10. CASE Crash
    BY Zenon, <1>1, <1>10, QuietIndex DEF Crash
  <1>11. CASE Tick \/ UNCHANGED vars
    BY Zenon, <1>1, <1>11, QuietIndex DEF Tick, vars
  <1> QED
    BY Zenon, <1>2, <1>3, <1>4, <1>5, <1>6, <1>7, <1>8, <1>9, <1>10, <1>11 DEF Next, Fault

(* The three views of the registry agree in every reachable state, however   *)
(* registrations, two-step unregistrations, lost replies and crashes         *)
(* interleave.                                                               *)
THEOREM RegistryConsistent == Spec => []IndexConsistent
  <1>1. Init => IndexInv
    BY InstancesAssumption DEF Init, RedisInit, IndexInv, IndexConsistent, FreshOK
  <1>2. Spec => []TypeInv
    BY InitTypeInv, NextTypeInv, PTL DEF Spec
  <1>3. Spec => []IndexInv
    BY <1>1, <1>2, NextIndexInv, PTL DEF Spec
  <1>4. IndexInv => IndexConsistent
    BY DEF IndexInv
  <1> QED BY <1>3, <1>4, PTL

-----------------------------------------------------------------------------
(* No container and no volume is forgotten                                  *)

(* Docker never gives one container name to two containers. *)
UniqueNames ==
    \A l, m \in Launches, s \in Services :
        /\ <<l, s>> \in containers /\ <<m, s>> \in containers
        /\ InstanceOf[l] = InstanceOf[m]
        => l = m

(* Somebody answers for the container of launch l for service s. *)
Owned(l, s) ==
    \/ instance[InstanceOf[l]] # None
    \/ pc[l] \in Creating
    \/ \E t \in Threads : WillDelete(t, l, s)
    \/ <<InstanceOf[l], s>> \in leaked

(* Somebody answers for the volume of instance id. *)
VolumeOwned(id) ==
    \/ instance[id] # None
    \/ \E l \in Launches : InstanceOf[l] = id /\ pc[l] \in Creating
    \/ \E t \in Threads : target[t] = id /\ pc[t] \in Deleting \cup {"deleteVolume"}
    \/ \E s \in 0 .. NumServices : <<id, s>> \in leaked

OwnInv == UniqueNames /\ ContainersOwned /\ VolumesOwned

(* What a thread has yet to answer for: nothing, unless it creates or deletes. *)
Idle(t) == pc[t] \notin Creating \cup Deleting \cup {"deleteVolume"}

(* A step of thread t that leaves the fields of the other threads alone. *)
OthersKeep(t) ==
    \A u \in Threads : u # t => /\ pc'[u] = pc[u] /\ pos'[u] = pos[u]
                                /\ target'[u] = target[u] /\ handle'[u] = handle[u]

(* Instance id does not leave the registry. *)
StaysRegistered(id) == instance[id] # None => instance'[id] # None

(* A step that moves t alone leaves the others their promises. *)
LEMMA MovesOthersKeep ==
  ASSUME TypeInv, NEW t \in Threads, MovesOn(t), UNCHANGED <<target, handle>>
  PROVE  OthersKeep(t)
  BY Zenon DEF OthersKeep, MovesOn, TypeInv, TypeOK, ThreadTypeOK

(* The owners that a step of thread t cannot take away. *)
LEMMA OthersOwn ==
  ASSUME TypeInv, NEW t \in Threads, OthersKeep(t), NEW l \in Launches, NEW s \in Services,
         Owned(l, s), StaysRegistered(InstanceOf[l]),
         t # l \/ pc[l] \notin Creating \/ pc'[l] \in Creating,
         ~WillDelete(t, l, s) \/ WillDelete(t, l, s)',
         <<InstanceOf[l], s>> \in leaked => <<InstanceOf[l], s>> \in leaked'
  PROVE  Owned(l, s)'
  <1>1. InstanceOf[l] \in InstanceIds /\ l \in Threads
    BY ZenonT(30), InstancesAssumption DEF Threads
  <1>2. CASE instance[InstanceOf[l]] # None
    BY Zenon, <1>1, <1>2 DEF StaysRegistered, Owned
  <1>3. CASE pc[l] \in Creating
    BY Zenon, <1>1, <1>3 DEF OthersKeep, Owned
  <1>4. ASSUME NEW u \in Threads, WillDelete(u, l, s) PROVE Owned(l, s)'
    <2>1. CASE u = t
      BY ZenonT(30), <1>4, <2>1 DEF Owned
    <2>2. CASE u # t
      <3>1. WillDelete(u, l, s)'
        BY Zenon, <1>4, <2>2 DEF OthersKeep, WillDelete
      <3> QED BY Zenon, <3>1 DEF Owned
    <2> QED BY Zenon, <2>1, <2>2
  <1>5. CASE <<InstanceOf[l], s>> \in leaked
    BY ZenonT(30), <1>5 DEF Owned
  <1> QED BY ZenonT(30), <1>2, <1>3, <1>4, <1>5 DEF Owned

(* The same for volumes. *)
LEMMA OthersOwnVolume ==
  ASSUME TypeInv, NEW t \in Threads, OthersKeep(t), NEW id \in InstanceIds,
         VolumeOwned(id), StaysRegistered(id),
         target[t] # id \/ Idle(t) \/ (target'[t] = id /\ pc'[t] \in Deleting \cup {"deleteVolume"}),
         \A s \in 0 .. NumServices : <<id, s>> \in leaked => <<id, s>> \in leaked'
  PROVE  VolumeOwned(id)'
  <1>1. CASE instance[id] # None
    BY Zenon, <1>1 DEF StaysRegistered, VolumeOwned
  <1>2. ASSUME NEW l \in Launches, InstanceOf[l] = id, pc[l] \in Creating PROVE VolumeOwned(id)'
    <2>1. l \in Threads /\ target[l] = id
      BY ZenonT(30), <1>2 DEF Threads, TypeInv, ThreadOK, TargetOK
    <2>2. CASE l = t
      BY ZenonT(30), <1>2, <2>1, <2>2 DEF VolumeOwned, Idle
    <2>3. CASE l # t
      BY Zenon, <1>2, <2>1, <2>3 DEF VolumeOwned, OthersKeep
    <2> QED BY Zenon, <2>2, <2>3
  <1>3. ASSUME NEW u \in Threads, target[u] = id, pc[u] \in Deleting \cup {"deleteVolume"}
        PROVE  VolumeOwned(id)'
    <2>1. CASE u = t
      BY Zenon, <1>3, <2>1 DEF VolumeOwned, Idle
    <2>2. CASE u # t
      BY ZenonT(30), <1>3, <2>2 DEF VolumeOwned, OthersKeep
    <2> QED BY Zenon, <2>1, <2>2
  <1>4. CASE \E s \in 0 .. NumServices : <<id, s>> \in leaked
    BY Zenon, <1>4 DEF VolumeOwned
  <1> QED BY Zenon, <1>1, <1>2, <1>3, <1>4 DEF VolumeOwned

(* OwnInv in terms of Owned and VolumeOwned. *)
LEMMA OwnInvIntro ==
  ASSUME UniqueNames',
         \A l \in Launches, s \in Services : <<l, s>> \in containers' => Owned(l, s)',
         \A id \in InstanceIds : id \in volumes' => VolumeOwned(id)',
         DockerTypeOK'
  PROVE  OwnInv'
  BY Zenon DEF OwnInv, ContainersOwned, VolumesOwned, Owned, VolumeOwned, DockerTypeOK

(* What OwnInv says of one container and one volume. *)
LEMMA OwnInvElim ==
  ASSUME OwnInv
  PROVE  /\ UniqueNames
         /\ \A l \in Launches, s \in Services : <<l, s>> \in containers => Owned(l, s)
         /\ \A id \in volumes : VolumeOwned(id)
  BY Zenon DEF OwnInv, ContainersOwned, VolumesOwned, Owned, VolumeOwned

(* A container's owner answers for the volume it mounts, too. *)
LEMMA OwnerHasVolume ==
  ASSUME NEW l \in Launches, NEW s \in Services, Owned(l, s)'
  PROVE  VolumeOwned(InstanceOf[l])'
  <1>1. ASSUME NEW t \in Threads, WillDelete(t, l, s)' PROVE VolumeOwned(InstanceOf[l])'
    BY Zenon, <1>1 DEF VolumeOwned, WillDelete, Deleting
  <1>2. s \in 0 .. NumServices
    BY DEF Services
  <1> QED BY Zenon, <1>1, <1>2 DEF Owned, VolumeOwned

-----------------------------------------------------------------------------
(* Steps of threads that answer for nothing                                 *)

(* A step of a thread that answers for nothing, registry and containers as before. *)
LEMMA IdleStep ==
  ASSUME TypeInv, OwnInv, NEW t \in Threads, OthersKeep(t), Idle(t), UNCHANGED dockerVars,
         instance' = instance, leaked' = leaked
  PROVE  OwnInv'
  <1>1. UniqueNames'
    BY Zenon, OwnInvElim DEF UniqueNames, dockerVars
  <1>2. ASSUME NEW l \in Launches, NEW s \in Services, <<l, s>> \in containers' PROVE Owned(l, s)'
    <2>1. Owned(l, s)
      BY Zenon, <1>2, OwnInvElim DEF dockerVars
    <2>2. ~WillDelete(t, l, s) /\ (t = l => pc[l] \notin Creating)
      BY Zenon DEF Idle, WillDelete, Deleting
    <2> QED BY Zenon, <2>1, <2>2, OthersOwn DEF StaysRegistered
  <1>3. ASSUME NEW id \in InstanceIds, id \in volumes' PROVE VolumeOwned(id)'
    BY Zenon, <1>3, OwnInvElim, OthersOwnVolume DEF dockerVars, StaysRegistered
  <1>4. DockerTypeOK'
    BY Zenon, Frame
  <1> QED BY Zenon, <1>1, <1>2, <1>3, <1>4, OwnInvIntro

-----------------------------------------------------------------------------
(* Steps of a launch that creates, or starts to clean up                    *)

(* A step of a launch under way that creates at most its own container. *)
LEMMA CreatingStep ==
  ASSUME TypeInv, OwnInv, NEW l \in Launches, OthersKeep(l), pc[l] \in Creating \cup {"volume"},
         target'[l] = target[l],
         pc'[l] \in Creating \/ (pc'[l] = "getContainer" /\ pos'[l] = 1),
         \/ containers' = containers
         \/ containers' = containers \cup {<<l, pos[l]>>} /\ ~NameTaken(InstanceOf[l], pos[l]),
         volumes' \subseteq volumes \cup {InstanceOf[l]}, DockerTypeOK',
         \A id \in InstanceIds : StaysRegistered(id), leaked' = leaked
  PROVE  OwnInv'
  <1>1. l \in Threads /\ target[l] = InstanceOf[l] /\ InstanceOf[l] \in InstanceIds
    BY Zenon, InstancesAssumption DEF Threads, TypeInv, ThreadOK, TargetOK
  <1>2. UniqueNames'
    <2> SUFFICES ASSUME NEW m \in Launches, NEW n \in Launches, NEW s \in Services,
                        <<m, s>> \in containers', <<n, s>> \in containers',
                        InstanceOf[m] = InstanceOf[n]
                 PROVE  m = n
      BY Zenon DEF UniqueNames
    <2>1. CASE <<m, s>> \in containers /\ <<n, s>> \in containers
      BY Zenon, <2>1, OwnInvElim DEF UniqueNames
    <2>2. CASE <<m, s>> \notin containers \/ <<n, s>> \notin containers
      <3>1. s = pos[l] /\ (m = l \/ n = l) /\ ~NameTaken(InstanceOf[l], s)
        BY SMTT(30), <2>2
      <3> QED BY Zenon, <3>1, <2>2 DEF NameTaken, HoldersOf
    <2> QED BY ZenonT(30), <2>1, <2>2
  <1>3. \A s \in Services : Owned(l, s)'
    <2>1. CASE pc'[l] \in Creating
      BY Zenon, <2>1 DEF Owned
    <2>2. CASE pc'[l] = "getContainer" /\ pos'[l] = 1
      <3>1. \A s \in Services : WillDelete(l, l, s)'
        BY SMTT(30), <1>1, <2>2 DEF WillDelete, Services
      <3> QED BY Zenon, <1>1, <3>1 DEF Owned
    <2> QED BY Zenon, <2>1, <2>2
  <1>4. ASSUME NEW m \in Launches, NEW s \in Services, <<m, s>> \in containers' PROVE Owned(m, s)'
    <2>1. CASE m # l
      <3>1. <<m, s>> \in containers
        BY SMTT(30), <1>4, <2>1
      <3>2. ~WillDelete(l, m, s)
        BY Zenon DEF WillDelete, Creating, Deleting
      <3> QED BY Zenon, <1>1, <2>1, <3>1, <3>2, OwnInvElim, OthersOwn, InstancesAssumption
    <2> QED BY Zenon, <1>3, <2>1
  <1>5. ASSUME NEW id \in InstanceIds, id \in volumes' PROVE VolumeOwned(id)'
    <2>1. CASE id = InstanceOf[l]
      BY Zenon, <1>3, <2>1, Labels, OwnerHasVolume
    <2>2. CASE id # InstanceOf[l]
      BY Zenon, <1>1, <1>5, <2>2, OwnInvElim, OthersOwnVolume
    <2> QED BY Zenon, <2>1, <2>2
  <1> QED BY Zenon, <1>2, <1>4, <1>5, OwnInvIntro

(* Registering hands everything the launch created over to the registry. *)
LEMMA RegisterStep ==
  ASSUME TypeInv, OwnInv, NEW l \in Launches, Register(l)
  PROVE  OwnInv'
  <1>1. /\ l \in Threads /\ InstanceOf[l] \in InstanceIds /\ target[l] = InstanceOf[l]
        /\ OthersKeep(l)
    BY Zenon, RegisterType, MovesOthersKeep, InstancesAssumption
    DEF Register, deleteVars, Threads, TypeInv, ThreadOK, TargetOK
  <1>2. instance'[InstanceOf[l]] # None
    BY Zenon, <1>1, InstancesAssumption DEF Register, RegisterInstance, TypeInv, TypeOK, RedisTypeOK
  <1>3. \A id \in InstanceIds : StaysRegistered(id)
    BY Zenon, <1>1, <1>2 DEF Register, RegisterInstance, StaysRegistered, TypeInv, TypeOK, RedisTypeOK
  <1>4. leaked' = leaked /\ UNCHANGED dockerVars
    BY Zenon DEF Register, faultVars
  <1>5. UniqueNames'
    BY Zenon, <1>4, OwnInvElim DEF UniqueNames, dockerVars
  <1>6. ASSUME NEW m \in Launches, NEW s \in Services, <<m, s>> \in containers' PROVE Owned(m, s)'
    <2>1. CASE InstanceOf[m] = InstanceOf[l]
      BY Zenon, <1>2, <2>1 DEF Owned
    <2>2. CASE InstanceOf[m] # InstanceOf[l]
      <3>1. Owned(m, s)
        BY Zenon, <1>4, <1>6, OwnInvElim DEF dockerVars
      <3>2. ~WillDelete(l, m, s) /\ m # l
        BY Zenon, <2>2 DEF Register, WillDelete, Deleting
      <3>3. StaysRegistered(InstanceOf[m])
        BY Zenon, <1>3, InstancesAssumption
      <3> QED BY Zenon, <1>1, <1>4, <3>1, <3>2, <3>3, OthersOwn
    <2> QED BY Zenon, <2>1, <2>2
  <1>7. ASSUME NEW id \in InstanceIds, id \in volumes' PROVE VolumeOwned(id)'
    <2>1. CASE id = InstanceOf[l]
      BY Zenon, <1>2, <2>1 DEF VolumeOwned
    <2>2. CASE id # InstanceOf[l]
      BY Zenon, <1>1, <1>3, <1>4, <1>7, <2>2, OwnInvElim, OthersOwnVolume DEF dockerVars
    <2> QED BY Zenon, <2>1, <2>2
  <1>8. DockerTypeOK'
    BY Zenon, <1>4, Frame
  <1> QED BY Zenon, <1>5, <1>6, <1>7, <1>8, OwnInvIntro

-----------------------------------------------------------------------------
(* Unregistering: the deletion that follows, or the leak, takes over.       *)

(* Unregistering hands the containers to the deletion it starts, or to leaked. *)
LEMMA UnregisterStep ==
  ASSUME TypeInv, OwnInv, NEW t \in Threads, OthersKeep(t), pc[t] = "unregisterExec",
         UnregisterPipeline(target[t], seen[t]), UNCHANGED dockerVars, target' = target,
         \/ pc'[t] = "getContainer" /\ pos'[t] = 1 /\ leaked' = leaked
         \/ leaked' = leaked \cup ({target[t]} \X (0 .. NumServices))
  PROVE  OwnInv'
  <1>1. target[t] \in InstanceIds /\ Idle(t)
    BY Zenon, TargetType DEF Idle, Creating, Deleting
  <1>2. \A id \in InstanceIds : id # target[t] => StaysRegistered(id)
    BY Zenon, <1>1 DEF UnregisterPipeline, StaysRegistered, TypeInv, TypeOK, RedisTypeOK
  <1>3. leaked \subseteq leaked'
    BY Zenon
  <1>4. UniqueNames'
    BY Zenon, OwnInvElim DEF UniqueNames, dockerVars
  <1>5. ASSUME NEW l \in Launches, NEW s \in Services, InstanceOf[l] = target[t] PROVE Owned(l, s)'
    <2>1. CASE pc'[t] = "getContainer" /\ pos'[t] = 1
      <3>1. WillDelete(t, l, s)'
        BY SMTT(30), <1>5, <2>1 DEF WillDelete, Services
      <3> QED BY Zenon, <3>1 DEF Owned
    <2>2. CASE leaked' = leaked \cup ({target[t]} \X (0 .. NumServices))
      BY SMTT(30), <1>5, <2>2 DEF Owned, Services
    <2> QED BY Zenon, <2>1, <2>2
  <1>6. ASSUME NEW l \in Launches, NEW s \in Services, <<l, s>> \in containers' PROVE Owned(l, s)'
    <2>1. CASE InstanceOf[l] # target[t]
      <3>1. Owned(l, s)
        BY Zenon, <1>6, OwnInvElim DEF dockerVars
      <3>2. ~WillDelete(t, l, s) /\ (t = l => pc[l] \notin Creating)
        BY Zenon, <1>1 DEF Idle, WillDelete, Deleting
      <3>3. StaysRegistered(InstanceOf[l])
        BY Zenon, <1>2, <2>1, InstancesAssumption
      <3> QED BY Zenon, <1>3, <3>1, <3>2, <3>3, OthersOwn
    <2> QED BY Zenon, <1>5, <2>1
  <1>7. ASSUME NEW id \in InstanceIds, id \in volumes' PROVE VolumeOwned(id)'
    <2>1. CASE id # target[t]
      BY Zenon, <1>2, <1>3, <1>7, <2>1, OwnInvElim, OthersOwnVolume DEF dockerVars
    <2>2. CASE id = target[t] /\ pc'[t] = "getContainer"
      BY ZenonT(30), <2>2 DEF VolumeOwned, Deleting
    <2>3. CASE id = target[t] /\ leaked' = leaked \cup ({target[t]} \X (0 .. NumServices))
      <3>1. 0 \in 0 .. NumServices
        BY PosType
      <3> QED BY Zenon, <2>3, <3>1 DEF VolumeOwned
    <2> QED BY Zenon, <2>1, <2>2, <2>3
  <1>8. DockerTypeOK'
    BY Zenon, Frame
  <1> QED BY ZenonT(30), <1>4, <1>6, <1>7, <1>8, OwnInvIntro

-----------------------------------------------------------------------------
(* Deleting                                                                 *)

(* A deletion that moves on: whatever it answered for and still exists has   *)
(* been leaked, or is still ahead; a leak is forgotten only for a free name.  *)
LEMMA DeletingStep ==
  ASSUME TypeInv, OwnInv, NEW t \in Threads, OthersKeep(t),
         pc[t] \in Deleting, pc'[t] \in Deleting \cup {"deleteVolume"}, target'[t] = target[t],
         containers' \subseteq containers, volumes' = volumes, DockerTypeOK', instance' = instance,
         \A l \in Launches, s \in Services :
            <<l, s>> \in containers' /\ WillDelete(t, l, s) =>
                WillDelete(t, l, s)' \/ <<InstanceOf[l], s>> \in leaked',
         \A l \in Launches, s \in Services :
            <<l, s>> \in containers' /\ <<InstanceOf[l], s>> \in leaked
                => <<InstanceOf[l], s>> \in leaked',
         \A id \in InstanceIds, s \in 0 .. NumServices :
            id # target[t] /\ <<id, s>> \in leaked => <<id, s>> \in leaked'
  PROVE  OwnInv'
  <1>1. UniqueNames'
    BY Zenon, OwnInvElim DEF UniqueNames
  <1>2. ASSUME NEW l \in Launches, NEW s \in Services, <<l, s>> \in containers' PROVE Owned(l, s)'
    <2>1. Owned(l, s)
      BY Zenon, <1>2, OwnInvElim
    <2>2. t = l => pc[l] \notin Creating
      BY Zenon DEF Creating, Deleting
    <2>3. CASE <<InstanceOf[l], s>> \in leaked'
      BY Zenon, <2>3 DEF Owned
    <2>4. CASE ~WillDelete(t, l, s) \/ WillDelete(t, l, s)'
      BY ZenonT(30), <1>2, <2>1, <2>2, <2>4, OthersOwn DEF StaysRegistered
    <2> QED BY ZenonT(30), <1>2, <2>3, <2>4
  <1>3. ASSUME NEW id \in InstanceIds, id \in volumes' PROVE VolumeOwned(id)'
    <2>1. CASE id = target[t]
      BY Zenon, <2>1 DEF VolumeOwned
    <2>2. CASE id # target[t]
      BY ZenonT(30), <1>3, <2>2, OwnInvElim, OthersOwnVolume DEF StaysRegistered
    <2> QED BY ZenonT(30), <2>1, <2>2
  <1> QED BY Zenon, <1>1, <1>2, <1>3, OwnInvIntro

(* Taking the handle of a name: UniqueNames makes it the only holder. *)
LEMMA GetContainerStep ==
  ASSUME TypeInv, OwnInv, NEW t \in Threads, GetContainer(t)
  PROVE  OwnInv'
  <1>1. /\ pc[t] = "getContainer" /\ pc'[t] = "killContainer" /\ pos'[t] = pos[t]
        /\ target'[t] = target[t] /\ handle'[t] = Holder(target[t], pos[t])
        /\ OthersKeep(t)
    BY Zenon DEF GetContainer, Goto, OthersKeep, TypeInv, TypeOK, ThreadTypeOK
  <1>2. ASSUME NEW l \in Launches, NEW s \in Services, <<l, s>> \in containers, WillDelete(t, l, s)
        PROVE  WillDelete(t, l, s)'
    <2>1. target[t] = InstanceOf[l] /\ pos[t] <= s /\ pos[t] \in 0 .. NumServices
      BY <1>1, <1>2, PosType DEF WillDelete, Services, Deleting
    <2>2. CASE pos[t] < s
      BY ZenonT(30), <1>1, <2>1, <2>2 DEF WillDelete, Deleting
    <2>3. CASE pos[t] = s
      <3>1. /\ Holder(target[t], s) \in Launches
            /\ InstanceOf[Holder(target[t], s)] = InstanceOf[l]
            /\ <<Holder(target[t], s), s>> \in containers
        BY Zenon, <2>1, <2>3, HolderType DEF GetContainer
      <3>2. Holder(target[t], s) = l
        BY Zenon, <1>2, <3>1, OwnInvElim DEF UniqueNames
      <3> QED BY ZenonT(30), <1>1, <2>1, <2>3, <3>2 DEF WillDelete, Deleting
    <2> QED BY SMTT(30), <2>1, <2>2, <2>3 DEF Services
  <1>3. UNCHANGED dockerVars /\ instance' = instance /\ leaked' = leaked
    BY Zenon DEF GetContainer, redisVars, faultVars
  <1>4. DockerTypeOK'
    BY Zenon, <1>3, Frame
  <1> QED BY Zenon, <1>1, <1>2, <1>3, <1>4, DeletingStep DEF Deleting, dockerVars

(* What a thread has still to delete is at its position or beyond. *)
LEMMA DeleteAhead ==
  ASSUME TypeInv, NEW t \in Threads, NEW l \in Launches, NEW s \in Services, WillDelete(t, l, s)
  PROVE  /\ target[t] = InstanceOf[l] /\ s \in pos[t] .. NumServices
         /\ pos[t] <= s /\ (pos[t] = s \/ pos[t] < s)
         /\ pos[t] = s => pc[t] = "getContainer" \/ handle[t] = l
  <1>1. pos[t] \in Nat /\ NumServices \in Nat
    BY SMTT(30), PosType
  <1>2. s \in Nat /\ s <= NumServices
    BY <1>1 DEF Services
  <1>3. /\ target[t] = InstanceOf[l]
        /\ \/ pc[t] = "getContainer" /\ pos[t] <= s
           \/ pos[t] < s
           \/ pos[t] = s /\ handle[t] = l
    BY Zenon DEF WillDelete
  <1> QED BY ONLY SMTT(30), <1>1, <1>2, <1>3

(* After NextDelete, everything beyond the current name is still ahead. *)
LEMMA NextDeleteStep ==
  ASSUME TypeInv, OwnInv, NEW t \in Threads, pc[t] \in Deleting, NextDelete(t), deleteVars' = deleteVars,
         containers' \subseteq containers, volumes' = volumes, DockerTypeOK', instance' = instance,
         \A l \in Launches :
            <<l, pos[t]>> \in containers' /\ WillDelete(t, l, pos[t])
                => <<InstanceOf[l], pos[t]>> \in leaked',
         \/ leaked \subseteq leaked'
         \/ /\ leaked' = leaked \ {<<target[t], pos[t]>>}
            /\ \A l \in Launches : InstanceOf[l] = target[t] => <<l, pos[t]>> \notin containers'
  PROVE  OwnInv'
  <1>1. /\ OthersKeep(t) /\ target'[t] = target[t] /\ handle'[t] = handle[t]
        /\ \/ pc'[t] = "getContainer" /\ pos'[t] = pos[t] + 1 /\ pos[t] < NumServices
           \/ pc'[t] = "deleteVolume" /\ pos[t] = NumServices
    BY Zenon, NextDeleteMoves, MovesOthersKeep DEF deleteVars
  <1>2. pos[t] \in Services /\ NumServices \in Nat
    BY ZenonT(30), PosType
  <1>3. ASSUME NEW l \in Launches, NEW s \in Services, <<l, s>> \in containers', WillDelete(t, l, s)
        PROVE  WillDelete(t, l, s)' \/ <<InstanceOf[l], s>> \in leaked'
    <2>1. target[t] = InstanceOf[l] /\ (s = pos[t] \/ pos[t] < s)
      BY ZenonT(30), <1>3, DeleteAhead
    <2>2. CASE s = pos[t]
      BY Zenon, <1>3, <2>2
    <2>3. CASE pos[t] < s
      <3>1. pc'[t] = "getContainer" /\ pos'[t] <= s
        BY SMTT(30), <1>1, <1>2, <2>3 DEF Services
      <3> QED BY ZenonT(30), <1>1, <2>1, <3>1 DEF WillDelete
    <2> QED BY Zenon, <2>1, <2>2, <2>3
  <1>4. \A l \in Launches, s \in Services :
           <<l, s>> \in containers' /\ <<InstanceOf[l], s>> \in leaked
               => <<InstanceOf[l], s>> \in leaked'
    BY Zenon
  <1>5. \A id \in InstanceIds, s \in 0 .. NumServices :
           id # target[t] /\ <<id, s>> \in leaked => <<id, s>> \in leaked'
    BY Zenon
  <1>6. pc'[t] \in Deleting \cup {"deleteVolume"}
    BY Zenon, <1>1 DEF Deleting
  <1> QED BY Zenon, <1>1, <1>3, <1>4, <1>5, <1>6, DeletingStep

(* A free name has no container to answer for. *)
LEMMA SkipContainerStep ==
  ASSUME TypeInv, OwnInv, NEW t \in Threads, SkipContainer(t)
  PROVE  OwnInv'
  <1>1. \A l \in Launches : InstanceOf[l] = target[t] => <<l, pos[t]>> \notin containers
    BY Zenon DEF SkipContainer, NameTaken, HoldersOf
  <1>2. UNCHANGED dockerVars /\ instance' = instance /\ leaked' = leaked \ {<<target[t], pos[t]>>}
    BY ZenonT(30) DEF SkipContainer, redisVars, Freed
  <1>3. pc[t] \in Deleting /\ NextDelete(t) /\ deleteVars' = deleteVars
    BY Zenon DEF SkipContainer, Deleting
  <1>4. DockerTypeOK'
    BY Zenon, <1>2, Frame
  <1> QED BY Zenon, <1>1, <1>2, <1>3, <1>4, NextDeleteStep DEF WillDelete, dockerVars

(* Killing keeps the container, and its handle. *)
LEMMA KillStepOwn ==
  ASSUME TypeInv, OwnInv, NEW t \in Threads, Kill(t)
  PROVE  OwnInv'
  <1>1. /\ containers' = containers /\ volumes' = volumes /\ instance' = instance
        /\ leaked' = leaked /\ deleteVars' = deleteVars /\ pc[t] = "killContainer"
    BY Zenon DEF Kill, KillContainer, redisVars, faultVars
  <1>2. DockerTypeOK' /\ MovesOn(t)
    BY Zenon, KillType DEF TypeInv, TypeOK
  <1>3. CASE <<handle[t], pos[t]>> \in containers
    <2>1. pc'[t] = "removeContainer" /\ pos'[t] = pos[t]
      BY Zenon, <1>3 DEF Kill, Goto, TypeInv, TypeOK, ThreadTypeOK
    <2>2. OthersKeep(t) /\ target'[t] = target[t] /\ handle'[t] = handle[t]
      BY Zenon, <1>1, <1>2, MovesOthersKeep DEF deleteVars
    <2>3. \A l \in Launches, s \in Services : WillDelete(t, l, s) => WillDelete(t, l, s)'
      BY Zenon, <1>1, <2>1, <2>2 DEF WillDelete, Deleting
    <2> QED BY Zenon, <1>1, <1>2, <2>1, <2>2, <2>3, DeletingStep DEF Deleting
  <1>4. CASE <<handle[t], pos[t]>> \notin containers
    <2>1. \A l \in Launches : <<l, pos[t]>> \in containers => ~WillDelete(t, l, pos[t])
      <3>1. pos[t] \in Services /\ pc[t] # "getContainer"
        BY Zenon, <1>1, PosType DEF Deleting
      <3> QED BY Zenon, <1>4, <3>1, DeleteAhead
    <2>2. NextDelete(t) /\ pc[t] \in Deleting
      BY Zenon, <1>1, <1>4 DEF Kill, Deleting
    <2> QED BY ZenonT(30), <1>1, <1>2, <2>1, <2>2, NextDeleteStep
  <1> QED BY Zenon, <1>3, <1>4

(* Removing the container ends the duty. *)
LEMMA RemoveStep ==
  ASSUME TypeInv, OwnInv, NEW t \in Threads, Remove(t)
  PROVE  OwnInv'
  <1>1. /\ containers' = containers \ {<<handle[t], pos[t]>>} /\ volumes' = volumes
        /\ instance' = instance /\ deleteVars' = deleteVars /\ pc[t] = "removeContainer"
        /\ NextDelete(t) /\ pc[t] \in Deleting
    BY Zenon DEF Remove, RemoveContainer, redisVars, Deleting
  <1>2. DockerTypeOK'
    BY ZenonT(30), RemoveType DEF TypeInv, TypeOK
  <1>3. \A l \in Launches : <<l, pos[t]>> \in containers' => ~WillDelete(t, l, pos[t])
    <2>1. pos[t] \in Services /\ pc[t] # "getContainer" /\ <<handle[t], pos[t]>> \notin containers'
      BY Zenon, <1>1, PosType
    <2> QED BY Zenon, <2>1, DeleteAhead
  <1>4. CASE <<handle[t], pos[t]>> \notin containers
    BY Zenon, <1>1, <1>2, <1>3, <1>4, NextDeleteStep DEF Remove, faultVars
  <1>5. CASE <<handle[t], pos[t]>> \in containers
    <2>1. leaked' = leaked \ {<<target[t], pos[t]>>}
      BY Zenon, <1>5 DEF Remove, Freed
    <2>2. handle[t] \in Launches /\ InstanceOf[handle[t]] = target[t] /\ pos[t] \in Services
      BY Zenon, <1>1, PosType DEF TypeInv, ThreadOK, HandleOK
    <2>3. \A l \in Launches : InstanceOf[l] = target[t] => <<l, pos[t]>> \notin containers'
      BY ZenonT(30), <1>1, <1>5, <2>2, OwnInvElim DEF UniqueNames
    <2> QED BY Zenon, <1>1, <1>2, <1>3, <2>1, <2>3, NextDeleteStep
  <1> QED BY Zenon, <1>4, <1>5

(* A failed kill or remove puts the name into leaked. *)
LEMMA DeleteRefusedStep ==
  ASSUME TypeInv, OwnInv, NEW t \in Threads, DeleteRefused(t)
  PROVE  OwnInv'
  <1>1. /\ UNCHANGED dockerVars /\ instance' = instance /\ deleteVars' = deleteVars
        /\ NextDelete(t) /\ pc[t] \in Deleting
    BY Zenon DEF DeleteRefused, redisVars, Deleting
  <1>2. leaked \subseteq leaked' /\ <<target[t], pos[t]>> \in leaked'
    BY Zenon DEF DeleteRefused, Leak
  <1>3. DockerTypeOK'
    BY Zenon, <1>1, Frame
  <1> QED BY Zenon, <1>1, <1>2, <1>3, NextDeleteStep DEF WillDelete, dockerVars

(* The end of a deletion: the volume goes, stays with the owner of a         *)
(* container that mounts it, or is leaked.                                   *)
LEMMA VolumeStep ==
  ASSUME TypeInv, OwnInv, NEW t \in Threads, OthersKeep(t), pc[t] = "deleteVolume",
         containers' = containers, instance' = instance, DockerTypeOK',
         \A id \in InstanceIds, s \in Services : <<id, s>> \in leaked => <<id, s>> \in leaked',
         \A id \in InstanceIds : id # target[t] /\ <<id, 0>> \in leaked => <<id, 0>> \in leaked',
         volumes' \subseteq volumes,
         target[t] \notin volumes' \/ VolumeInUse(target[t]) \/ <<target[t], 0>> \in leaked'
  PROVE  OwnInv'
  <1>1. UniqueNames'
    BY Zenon, OwnInvElim DEF UniqueNames
  <1>2. ASSUME NEW l \in Launches, NEW s \in Services, <<l, s>> \in containers PROVE Owned(l, s)'
    <2>1. Owned(l, s) /\ InstanceOf[l] \in InstanceIds
      BY Zenon, <1>2, OwnInvElim, InstancesAssumption
    <2>2. ~WillDelete(t, l, s) /\ (t = l => pc[l] \notin Creating)
      BY Zenon DEF WillDelete, Deleting, Creating
    <2> QED BY ZenonT(30), <2>1, <2>2, OthersOwn DEF StaysRegistered
  <1>3. ASSUME NEW id \in InstanceIds, id \in volumes' PROVE VolumeOwned(id)'
    <2>1. CASE id # target[t]
      <3>1. \A s \in 0 .. NumServices : <<id, s>> \in leaked => <<id, s>> \in leaked'
        BY <2>1, PosType DEF Services
      <3> QED BY Zenon, <1>3, <2>1, <3>1, OwnInvElim, OthersOwnVolume DEF StaysRegistered
    <2>2. CASE id = target[t] /\ VolumeInUse(id)
      <3>1. PICK s \in Services, l \in Launches : InstanceOf[l] = id /\ <<l, s>> \in containers
        BY SMTT(30), <2>2, PosType DEF VolumeInUse, NameTaken, HoldersOf, Services
      <3> QED BY ZenonT(30), <1>2, <3>1, OwnerHasVolume
    <2>3. CASE id = target[t] /\ <<id, 0>> \in leaked'
      BY <2>3, PosType DEF VolumeOwned
    <2> QED BY Zenon, <1>3, <2>1, <2>2, <2>3
  <1> QED BY Zenon, <1>1, <1>2, <1>3, OwnInvIntro

(* The volume step in its three outcomes. *)
LEMMA DeleteVolumeStep ==
  ASSUME TypeInv, OwnInv, NEW t \in Threads, DeleteVolume(t) \/ VolumeRefused(t) \/ GetVolumeRefused(t)
  PROVE  OwnInv'
  <1>1. /\ containers' = containers /\ instance' = instance /\ pc[t] = "deleteVolume"
        /\ UNCHANGED deleteVars
    BY Zenon DEF DeleteVolume, VolumeRefused, GetVolumeRefused, RemoveVolume, redisVars, dockerVars
  <1>2. DockerTypeOK' /\ MovesOn(t)
    BY Zenon, DeleteVolumeType, VolumeRefusedType, GetVolumeRefusedType DEF TypeInv, TypeOK
  <1>3. OthersKeep(t)
    BY Zenon, <1>1, <1>2, MovesOthersKeep DEF deleteVars
  <1>4. CASE DeleteVolume(t)
    <2>1. leaked \subseteq leaked' \cup {<<target[t], 0>>}
      BY ZenonT(30), <1>4 DEF DeleteVolume, Freed, faultVars
    <2>2. volumes' \subseteq volumes /\ (target[t] \notin volumes' \/ VolumeInUse(target[t]))
      BY Zenon, <1>4 DEF DeleteVolume, RemoveVolume
    <2>3. \A id \in InstanceIds, s \in Services : <<id, s>> \in leaked => <<id, s>> \in leaked'
      BY <2>1 DEF Services
    <2> QED BY ZenonT(30), <1>1, <1>2, <1>3, <2>1, <2>2, <2>3, VolumeStep
  <1>5. CASE VolumeRefused(t) \/ GetVolumeRefused(t)
    <2>1. leaked \subseteq leaked' /\ <<target[t], 0>> \in leaked' /\ volumes' = volumes
      BY Zenon, <1>5 DEF VolumeRefused, GetVolumeRefused, Leak, dockerVars
    <2> QED BY Zenon, <1>1, <1>2, <1>3, <2>1, VolumeStep
  <1> QED BY Zenon, <1>4, <1>5

(* A failed containers.get puts all names left into leaked. *)
LEMMA GetRefusedStep ==
  ASSUME TypeInv, OwnInv, NEW t \in Threads, GetRefused(t)
  PROVE  OwnInv'
  <1>1. /\ UNCHANGED dockerVars /\ instance' = instance /\ UNCHANGED deleteVars
        /\ pc[t] = "getContainer"
    BY Zenon DEF GetRefused, redisVars
  <1>2. OthersKeep(t)
    BY Zenon, <1>1, GetRefusedType, MovesOthersKeep DEF deleteVars
  <1>3. /\ leaked \subseteq leaked' /\ <<target[t], 0>> \in leaked'
        /\ \A s \in pos[t] .. NumServices : <<target[t], s>> \in leaked'
    BY Zenon DEF GetRefused, Leak
  <1>4. UniqueNames'
    BY Zenon, <1>1, OwnInvElim DEF UniqueNames, dockerVars
  <1>5. ASSUME NEW l \in Launches, NEW s \in Services, <<l, s>> \in containers' PROVE Owned(l, s)'
    <2>1. Owned(l, s)
      BY Zenon, <1>1, <1>5, OwnInvElim DEF dockerVars
    <2>2. t = l => pc[l] \notin Creating
      BY Zenon, <1>1 DEF Creating
    <2>3. CASE WillDelete(t, l, s)
      <3>1. target[t] = InstanceOf[l] /\ s \in pos[t] .. NumServices
        BY Zenon, <2>3, DeleteAhead
      <3> QED BY ZenonT(30), <1>3, <3>1 DEF Owned
    <2>4. CASE ~WillDelete(t, l, s)
      BY Zenon, <1>1, <1>2, <1>3, <2>1, <2>2, <2>4, OthersOwn DEF StaysRegistered
    <2> QED BY Zenon, <2>3, <2>4
  <1>6. ASSUME NEW id \in InstanceIds, id \in volumes' PROVE VolumeOwned(id)'
    <2>1. CASE id = target[t]
      BY SMTT(30), <1>3, <2>1, PosType DEF VolumeOwned
    <2>2. CASE id # target[t]
      BY Zenon, <1>1, <1>2, <1>3, <1>6, <2>2, OwnInvElim, OthersOwnVolume DEF StaysRegistered, dockerVars
    <2> QED BY Zenon, <2>1, <2>2
  <1>7. DockerTypeOK'
    BY Zenon, <1>1, Frame
  <1> QED BY Zenon, <1>4, <1>5, <1>6, <1>7, OwnInvIntro

-----------------------------------------------------------------------------
(* Everything together                                                      *)

(* A crash leaks whatever the threads it ends answered for. *)
LEMMA CrashStep ==
  ASSUME TypeInv, OwnInv, Crash
  PROVE  OwnInv'
  <1>1. UNCHANGED dockerVars /\ instance' = instance /\ UNCHANGED deleteVars
    BY Zenon DEF Crash, redisVars
  <1>2. leaked \subseteq leaked' /\ UnfinishedNames \subseteq leaked'
    BY ZenonT(30) DEF Crash
  <1>3. ASSUME NEW t \in Threads, ~Idle(t), NEW s \in 0 .. NumServices
        PROVE  <<target[t], s>> \in leaked'
    BY <1>2, <1>3 DEF Idle, Unfinished, UnfinishedNames
  <1>4. UniqueNames'
    BY Zenon, <1>1, OwnInvElim DEF UniqueNames, dockerVars
  <1>5. ASSUME NEW l \in Launches, NEW s \in Services, <<l, s>> \in containers' PROVE Owned(l, s)'
    <2>1. Owned(l, s) /\ l \in Threads /\ target[l] = InstanceOf[l] /\ s \in 0 .. NumServices
      BY <1>1, <1>5, OwnInvElim
      DEF dockerVars, Threads, TypeInv, ThreadOK, TargetOK, Services
    <2>2. CASE instance[InstanceOf[l]] # None \/ <<InstanceOf[l], s>> \in leaked
      BY Zenon, <1>1, <1>2, <2>2 DEF Owned
    <2>3. CASE pc[l] \in Creating
      BY Zenon, <1>3, <2>1, <2>3 DEF Owned, Idle
    <2>4. ASSUME NEW t \in Threads, WillDelete(t, l, s) PROVE Owned(l, s)'
      <3>1. ~Idle(t) /\ target[t] = InstanceOf[l]
        BY ZenonT(30), <2>4 DEF WillDelete, Idle, Deleting
      <3> QED BY Zenon, <1>3, <2>1, <3>1 DEF Owned
    <2> QED BY ZenonT(30), <2>1, <2>2, <2>3, <2>4 DEF Owned
  <1>6. ASSUME NEW id \in InstanceIds, id \in volumes' PROVE VolumeOwned(id)'
    <2>1. VolumeOwned(id)
      BY Zenon, <1>1, <1>6, OwnInvElim DEF dockerVars
    <2>2. 0 \in 0 .. NumServices
      BY DockerAssumption DEF NumServices
    <2>3. CASE instance[id] # None \/ \E s \in 0 .. NumServices : <<id, s>> \in leaked
      BY Zenon, <1>1, <1>2, <2>3 DEF VolumeOwned
    <2>4. ASSUME NEW l \in Launches, InstanceOf[l] = id, pc[l] \in Creating PROVE VolumeOwned(id)'
      <3>1. l \in Threads /\ target[l] = id /\ ~Idle(l)
        BY Zenon, <2>4 DEF Threads, TypeInv, ThreadOK, TargetOK, Idle
      <3> QED BY Zenon, <1>3, <2>2, <3>1 DEF VolumeOwned
    <2>5. ASSUME NEW t \in Threads, target[t] = id, pc[t] \in Deleting \cup {"deleteVolume"}
          PROVE  VolumeOwned(id)'
      BY Zenon, <1>3, <2>2, <2>5 DEF VolumeOwned, Idle
    <2> QED BY Zenon, <2>1, <2>3, <2>4, <2>5 DEF VolumeOwned
  <1>7. DockerTypeOK'
    BY Zenon, <1>1, Frame
  <1> QED BY Zenon, <1>4, <1>5, <1>6, <1>7, OwnInvIntro

(* The launch actions that keep the launch creating or start its clean-up. *)
LEMMA LaunchStepOwn ==
  ASSUME TypeInv, OwnInv, NEW l \in Launches, LaunchStep(l)
  PROVE  OwnInv'
  <1>1. l \in Threads
    BY Zenon, Labels
  <1>2. CASE CheckInstance(l)
    <2>1. OthersKeep(l)
      BY Zenon, <1>1, <1>2, CheckInstanceType, MovesOthersKeep DEF CheckInstance, deleteVars
    <2> QED
      BY ZenonT(30), <1>1, <1>2, <2>1, IdleStep
      DEF CheckInstance, Idle, Creating, Deleting, redisVars, faultVars
  <1>3. CASE Register(l)
    BY Zenon, <1>3, RegisterStep
  <1>4. CASE \/ MakeVolume(l) \/ RunService(l) \/ RunConflict(l) \/ InspectAnvil(l)
             \/ Connect(l) \/ SetBalance(l) \/ InspectDaemon(l) \/ Stamp(l)
    <2>1. MovesOn(l) /\ DockerTypeOK'
      BY Zenon, <1>4, MakeVolumeType, RunServiceType, RunConflictType, InspectAnvilType, ConnectType,
         SetBalanceType, InspectDaemonType, StampType DEF TypeInv, TypeOK
    <2>2. UNCHANGED deleteVars /\ instance' = instance /\ leaked' = leaked
      BY Zenon, <1>4
      DEF MakeVolume, RunService, RunConflict, InspectAnvil, Connect, SetBalance, InspectDaemon,
          Stamp, redisVars, faultVars
    <2>3. pc[l] \in Creating \cup {"volume"}
      BY Zenon, <1>4
      DEF MakeVolume, RunService, RunConflict, InspectAnvil, Connect, SetBalance, InspectDaemon,
          Stamp, Creating
    <2>4. /\ volumes' \subseteq volumes \cup {InstanceOf[l]}
          /\ \/ containers' = containers
             \/ containers' = containers \cup {<<l, pos[l]>>} /\ ~NameTaken(InstanceOf[l], pos[l])
      <3>1. CASE MakeVolume(l)
        BY Zenon, <3>1 DEF MakeVolume, CreateVolume
      <3>2. CASE RunService(l)
        BY Zenon, <3>2 DEF RunService, RunContainer
      <3>3. CASE \/ RunConflict(l) \/ InspectAnvil(l) \/ Connect(l) \/ SetBalance(l)
                 \/ InspectDaemon(l) \/ Stamp(l)
        BY Zenon, <3>3
        DEF RunConflict, InspectAnvil, Connect, SetBalance, InspectDaemon, Stamp, dockerVars
      <3> QED BY Zenon, <1>4, <3>1, <3>2, <3>3
    <2>5. pc'[l] \in Creating \/ (pc'[l] = "getContainer" /\ pos'[l] = 1)
      <3>1. CASE StartDelete(l)
        BY Zenon, <1>1, <3>1, StartDeleteMoves
      <3>2. CASE ~StartDelete(l)
        BY Zenon, <1>1, <1>4, <3>2
        DEF MakeVolume, RunService, RunConflict, InspectAnvil, Connect, SetBalance, InspectDaemon,
            Stamp, Goto, GotoAt, Creating, TypeInv, TypeOK, ThreadTypeOK
      <3> QED BY Zenon, <3>1, <3>2
    <2> QED
      BY ZenonT(30), <1>1, <2>1, <2>2, <2>3, <2>4, <2>5, MovesOthersKeep, CreatingStep
      DEF deleteVars, StaysRegistered
  <1> QED BY Zenon, <1>2, <1>3, <1>4 DEF LaunchStep

(* A launch that fails starts deleting at the first name. *)
LEMMA RefusedStepOwn ==
  ASSUME TypeInv, OwnInv, NEW l \in Launches,
         RegisterRefused(l) \/ RegisterReplyLost(l) \/ CreateRefused(l)
  PROVE  OwnInv'
  <1>1. l \in Threads /\ InstanceOf[l] \in InstanceIds /\ l # None
    BY Zenon, Labels, InstancesAssumption
  <1>2. MovesOn(l) /\ DockerTypeOK'
    BY Zenon, RegisterRefusedType, RegisterReplyLostType, CreateRefusedType DEF TypeInv, TypeOK
  <1>3. UNCHANGED deleteVars /\ leaked' = leaked /\ StartDelete(l)
    BY Zenon DEF RegisterRefused, RegisterReplyLost, CreateRefused
  <1>4. pc[l] \in Creating \cup {"volume"}
    BY Zenon DEF RegisterRefused, RegisterReplyLost, CreateRefused, Creating
  <1>5. \A id \in InstanceIds : StaysRegistered(id)
    BY ZenonT(30), <1>1 DEF RegisterRefused, RegisterReplyLost, CreateRefused, RegisterInstance, redisVars,
       StaysRegistered, TypeInv, TypeOK, RedisTypeOK
  <1>6. /\ volumes' \subseteq volumes \cup {InstanceOf[l]}
        /\ \/ containers' = containers
           \/ containers' = containers \cup {<<l, pos[l]>>} /\ ~NameTaken(InstanceOf[l], pos[l])
    BY Zenon DEF RegisterRefused, RegisterReplyLost, CreateRefused, RunContainer, dockerVars
  <1> QED
    BY Zenon, <1>1, <1>2, <1>3, <1>4, <1>5, <1>6, StartDeleteMoves, MovesOthersKeep, CreatingStep
    DEF deleteVars

(* Unregistering, with its two outcomes. *)
LEMMA UnregisterStepOwn ==
  ASSUME TypeInv, OwnInv, NEW t \in Threads,
         UnregisterReplyLost(t) \/ (t \in Kills \cup Pruners /\ UnregisterExec(t))
  PROVE  OwnInv'
  <1>1. /\ UNCHANGED dockerVars /\ target' = target /\ handle' = handle
        /\ pc[t] = "unregisterExec" /\ UnregisterPipeline(target[t], seen[t])
    BY Zenon DEF UnregisterReplyLost, UnregisterExec, deleteVars
  <1>2. OthersKeep(t)
    BY Zenon, <1>1, UnregisterReplyLostType, UnregisterExecType, MovesOthersKeep
  <1>3. CASE UnregisterExec(t)
    BY ZenonT(30), <1>1, <1>2, <1>3, StartDeleteMoves, UnregisterStep DEF UnregisterExec, faultVars
  <1>4. CASE UnregisterReplyLost(t)
    BY Zenon, <1>1, <1>2, <1>4, UnregisterStep DEF UnregisterReplyLost, Leak
  <1> QED BY Zenon, <1>3, <1>4

(* The remaining actions move a thread that answers for nothing. *)
LEMMA IdleStepOwn ==
  ASSUME TypeInv, OwnInv, NEW t \in Threads,
         \/ t \in Launches /\ UpdateMetadata(t)
         \/ t \in Kills \cup Pruners /\ UnregisterGet(t)
         \/ t \in Pruners /\ PruneStep(t)
         \/ RedisRefuses(t)
  PROVE  OwnInv'
  <1>1. UNCHANGED dockerVars /\ instance' = instance /\ leaked' = leaked /\ handle' = handle
    BY ZenonT(30) DEF UpdateMetadata, HSetMetadata, UnregisterGet, PruneStep, ListExpired, FetchInstance,
       Prune, PruneAbsent, RedisRefuses, redisVars, faultVars, deleteVars
  <1>2. Idle(t)
    BY Zenon DEF UpdateMetadata, UnregisterGet, PruneStep, ListExpired, FetchInstance, Prune, PruneAbsent,
       RedisRefuses, Idle, Creating, Deleting
  <1>3. MovesOn(t)
    BY Zenon, UpdateMetadataType, UnregisterGetType, ListExpiredType, FetchInstanceType, PruneType,
       PruneAbsentType, RedisRefusesType DEF PruneStep
  <1>4. \A u \in Threads : u # t => target'[u] = target[u]
    BY Zenon DEF UpdateMetadata, UnregisterGet, PruneStep, ListExpired, FetchInstance, Prune,
       PruneAbsent, RedisRefuses, deleteVars, TypeInv, TypeOK, ThreadTypeOK
  <1>5. OthersKeep(t)
    BY Zenon, <1>1, <1>3, <1>4 DEF OthersKeep, MovesOn, TypeInv, TypeOK, ThreadTypeOK
  <1> QED BY Zenon, <1>1, <1>2, <1>5, IdleStep

(* Every step keeps OwnInv. *)
LEMMA NextOwnInv ==
  ASSUME TypeInv, OwnInv, [Next]_vars
  PROVE  OwnInv'
  <1>1. ASSUME NEW l \in Launches, LaunchStep(l) \/ UpdateMetadata(l) PROVE OwnInv'
    BY Zenon, <1>1, LaunchStepOwn, IdleStepOwn, Labels
  <1>2. ASSUME NEW t \in Kills \cup Pruners, KillStep(t) PROVE OwnInv'
    BY Zenon, <1>2, IdleStepOwn, UnregisterStepOwn DEF KillStep, Threads
  <1>3. ASSUME NEW t \in Threads, DeleteStep(t) PROVE OwnInv'
    BY Zenon, <1>3, GetContainerStep, SkipContainerStep, KillStepOwn, RemoveStep, DeleteVolumeStep
    DEF DeleteStep
  <1>4. ASSUME NEW p \in Pruners, PruneStep(p) PROVE OwnInv'
    BY Zenon, <1>4, IdleStepOwn DEF Threads
  <1>5. CASE Fault
    BY Zenon, <1>5, IdleStepOwn, UnregisterStepOwn, GetRefusedStep, DeleteRefusedStep, DeleteVolumeStep,
       RefusedStepOwn, CrashStep DEF Fault
  <1>6. CASE Tick \/ UNCHANGED vars
    <2>1. UNCHANGED <<instance, containers, volumes, pc, pos, target, handle, leaked>>
      BY Zenon, <1>6 DEF Tick, vars, redisVars, dockerVars, threadVars, faultVars
    <2> QED
      BY ZenonT(30), <2>1
      DEF OwnInv, UniqueNames, ContainersOwned, VolumesOwned, WillDelete
  <1> QED BY Zenon, <1>1, <1>2, <1>3, <1>4, <1>5, <1>6 DEF Next

(* OwnInv holds in every reachable state. *)
LEMMA OwnInvariant == Spec => []OwnInv
  <1>1. Init => OwnInv
    BY Zenon DEF Init, DockerInit, OwnInv, UniqueNames, ContainersOwned, VolumesOwned
  <1>2. Spec => []TypeInv
    BY InitTypeInv, NextTypeInv, PTL DEF Spec
  <1> QED BY <1>1, <1>2, NextOwnInv, PTL DEF Spec

(* No container is ever forgotten: through every race of launches, kills    *)
(* and pruners, and every refused call, lost reply and crash, a container    *)
(* belongs to a registered instance, to a launch under way or to a deletion  *)
(* under way, or lies under a name whose deletion a fault skipped.           *)
THEOREM NoContainerForgotten == Spec => []ContainersOwned
  <1>1. OwnInv => ContainersOwned
    BY Zenon DEF OwnInv
  <1> QED BY <1>1, OwnInvariant, PTL

(* The same for volumes, although Docker refuses to remove one in use. *)
THEOREM NoVolumeForgotten == Spec => []VolumesOwned
  <1>1. OwnInv => VolumesOwned
    BY Zenon DEF OwnInv
  <1> QED BY <1>1, OwnInvariant, PTL

-----------------------------------------------------------------------------
(* What an answer means                                                     *)

(* The container of launch l for service s is gone, or a fault skipped it. *)
Gone(l, s) == <<l, s>> \in containers => <<InstanceOf[l], s>> \in leaked

(* Thread t deletes the containers of launch l: its own, or those of the    *)
(* document that it unregistered.                                           *)
Serves(t, l) == t = l \/ (t \in Kills /\ seen[t] = l)

(* What is behind a thread that deletes is gone. *)
Swept(t, l) ==
    /\ pc[t] \in Deleting => \A s \in Services : s < pos[t] => Gone(l, s)
    /\ pc[t] \in {"killContainer", "removeContainer"} /\ handle[t] # l => Gone(l, pos[t])
    /\ pc[t] \in {"deleteVolume", "failed", "deleted"} => \A s \in Services : Gone(l, s)

SweptInv == \A t \in Threads, l \in Launches : Serves(t, l) => Swept(t, l)

(* Only a launch that creates no more is unregistered. *)
SeenIsLate ==
    \A k \in Kills, l \in Launches :
        seen[k] = l => pc[l] \notin Fresh /\ InstanceOf[l] = InstanceOf[k]

(* A launch that has not come to its containers has none. *)
NoneYet ==
    \A l \in Launches, s \in Services :
        pc[l] \in {"check", "volume", "exists"} => <<l, s>> \notin containers

AnswerInv == SweptInv /\ SeenIsLate /\ NoneYet

(* A step brings no container of a launch back that creates no more. *)
GoneStays ==
    \A l \in Launches, s \in Services : pc[l] \notin Fresh /\ Gone(l, s) => Gone(l, s)'

(* Nothing that is gone comes back if no container is added. *)
LEMMA GoneKept ==
  ASSUME containers' \subseteq containers, leaked \subseteq leaked'
  PROVE  GoneStays
  BY Zenon DEF GoneStays, Gone

(* A launch that still creates makes no container of another come back. *)
LEMMA GoneRun ==
  ASSUME NEW m \in Launches, pc[m] \in Fresh, NEW n, containers' \subseteq containers \cup {<<m, n>>},
         leaked' = leaked
  PROVE  GoneStays
  BY Zenon DEF GoneStays, Gone

(* Where a thread that serves l is, l creates no more. *)
LEMMA ServedIsLate ==
  ASSUME TypeInv, SeenIsLate, NEW t \in Threads, NEW l \in Launches, Serves(t, l),
         pc[t] \in Deleting \cup {"deleteVolume", "failed", "deleted"}
  PROVE  pc[l] \notin Fresh /\ InstanceOf[l] = target[t]
  <1>1. CASE t = l
    BY Zenon, <1>1 DEF Fresh, Creating, Deleting, TypeInv, ThreadOK, TargetOK
  <1>2. CASE t \in Kills /\ seen[t] = l
    BY Zenon, <1>2 DEF SeenIsLate, TypeInv, ThreadOK, TargetOK
  <1> QED BY Zenon, <1>1, <1>2 DEF Serves

(* The other threads keep what they have swept. *)
LEMMA OthersSwept ==
  ASSUME TypeInv, AnswerInv, GoneStays, NEW t \in Threads, OthersKeep(t),
         NEW u \in Threads, u # t, seen'[u] = seen[u], NEW l \in Launches, Serves(u, l)'
  PROVE  Swept(u, l)'
  <1>1. Serves(u, l) /\ Swept(u, l)
    BY Zenon DEF Serves, AnswerInv, SweptInv
  <1>2. pc'[u] = pc[u] /\ pos'[u] = pos[u] /\ handle'[u] = handle[u]
    BY Zenon DEF OthersKeep
  <1>3. CASE pc[u] \notin Deleting \cup {"deleteVolume", "failed", "deleted"}
    BY Zenon, <1>2, <1>3 DEF Swept, Deleting
  <1>4. CASE pc[u] \in Deleting \cup {"deleteVolume", "failed", "deleted"}
    <2>1. pc[l] \notin Fresh
      BY Zenon, <1>1, <1>4, ServedIsLate DEF AnswerInv
    <2>2. \A s \in Services : Gone(l, s) => Gone(l, s)'
      BY Zenon, <2>1 DEF GoneStays
    <2>3. pc[u] \in Deleting => pos[u] \in Services
      BY Zenon, PosType
    <2> QED BY <1>1, <1>2, <2>2, <2>3, ZenonT(30) DEF Swept, Deleting
  <1> QED BY Zenon, <1>3, <1>4

(* A step of thread t that has done its part. *)
LEMMA AnswerStep ==
  ASSUME TypeInv, AnswerInv, GoneStays, NoReturn, NEW t \in Threads, OthersKeep(t),
         UNCHANGED seen,
         t \in Launches /\ pc'[t] \in {"check", "volume", "exists"}
            => pc[t] \in {"check", "volume", "exists"},
         \A l \in Launches, s \in Services :
            <<l, s>> \in containers' =>
               <<l, s>> \in containers \/ (l = t /\ pc'[t] \notin {"check", "volume", "exists"}),
         \A l \in Launches : Serves(t, l) => Swept(t, l)'
  PROVE  AnswerInv'
  <1>1. SweptInv'
    <2> SUFFICES ASSUME NEW u \in Threads, NEW l \in Launches, Serves(u, l)'
                 PROVE  Swept(u, l)'
      BY Zenon DEF SweptInv
    <2>1. CASE u = t
      BY Zenon, <2>1 DEF Serves
    <2>2. CASE u # t
      BY ZenonT(30), <2>2, OthersSwept
    <2> QED BY Zenon, <2>1, <2>2
  <1>2. SeenIsLate'
    BY Zenon DEF AnswerInv, SeenIsLate, NoReturn
  <1>3. NoneYet'
    BY Zenon DEF AnswerInv, NoneYet, OthersKeep, Threads
  <1> QED BY Zenon, <1>1, <1>2, <1>3 DEF AnswerInv

(* Labels at which there is nothing to show. *)
LEMMA NothingSwept ==
  ASSUME TypeInv, NEW t \in Threads, NEW l \in Launches,
         \/ pc'[t] \notin Deleting \cup {"deleteVolume", "failed", "deleted"}
         \/ pc'[t] = "getContainer" /\ pos'[t] = 1
  PROVE  Swept(t, l)'
  BY SMTT(30) DEF Swept, Deleting, Services

(* On to the next name. *)
LEMMA NextSwept ==
  ASSUME TypeInv, AnswerInv, GoneStays, NEW t \in Threads, pc[t] \in Deleting, NextDelete(t),
         NEW l \in Launches, Serves(t, l), NEW n \in Services, n = pos[t], Gone(l, n)'
  PROVE  Swept(t, l)'
  <1>1. pc[l] \notin Fresh /\ Swept(t, l)
    BY Zenon, ServedIsLate DEF AnswerInv, SweptInv
  <1>2. pos[t] \in Services /\ NumServices \in Nat
    BY Zenon, PosType
  <1>3. \A s \in Services : s < pos[t] => Gone(l, s)'
    BY Zenon, <1>1 DEF GoneStays, Swept
  <1>4. \A s \in Services : s <= pos[t] => Gone(l, s)'
    <2>1. \A s \in Services : s <= pos[t] => s < pos[t] \/ s = n
      BY SMTT(30), <1>2 DEF Services
    <2> QED BY Zenon, <1>3, <2>1
  <1>5. CASE pc'[t] = "getContainer" /\ pos'[t] = pos[t] + 1
    <2>1. \A s \in Services : s < pos'[t] => s <= pos[t]
      BY SMTT(30), <1>2, <1>5 DEF Services
    <2> QED BY Zenon, <1>4, <1>5, <2>1 DEF Swept, Deleting
  <1>6. CASE pc'[t] = "deleteVolume" /\ pos[t] = NumServices
    <2>1. \A s \in Services : s <= pos[t]
      BY <1>2, <1>6 DEF Services
    <2> QED BY Zenon, <1>4, <1>6, <2>1 DEF Swept, Deleting
  <1> QED BY Zenon, <1>5, <1>6, NextDeleteMoves

(* A launch on its way creates at most the container it is at. *)
LEMMA LaunchAnswer ==
  ASSUME TypeInv, AnswerInv, NoReturn, NEW l \in Launches,
         LaunchStep(l) \/ UpdateMetadata(l)
           \/ RegisterRefused(l) \/ RegisterReplyLost(l) \/ CreateRefused(l)
  PROVE  AnswerInv'
  <1>1. l \in Threads /\ OthersKeep(l)
    BY ZenonT(30), Labels, CheckInstanceType, MakeVolumeType, RunServiceType, RunConflictType,
       InspectAnvilType, ConnectType, SetBalanceType, InspectDaemonType, StampType, RegisterType,
       UpdateMetadataType, RegisterRefusedType, RegisterReplyLostType, CreateRefusedType,
       MovesOthersKeep
    DEF LaunchStep, CheckInstance, MakeVolume, RunService, RunConflict, InspectAnvil, Connect,
        SetBalance, InspectDaemon, Stamp, Register, UpdateMetadata, RegisterRefused,
        RegisterReplyLost, CreateRefused, deleteVars
  <1>2. UNCHANGED seen /\ leaked' = leaked
    BY Zenon
    DEF LaunchStep, CheckInstance, MakeVolume, RunService, RunConflict, InspectAnvil, Connect,
        SetBalance, InspectDaemon, Stamp, Register, UpdateMetadata, RegisterRefused,
        RegisterReplyLost, CreateRefused, deleteVars, faultVars
  <1>3. \/ containers' = containers
        \/ containers' = containers \cup {<<l, pos[l]>>} /\ pc[l] = "run"
    BY ZenonT(30)
    DEF LaunchStep, CheckInstance, MakeVolume, RunService, RunConflict, InspectAnvil, Connect,
        SetBalance, InspectDaemon, Stamp, Register, UpdateMetadata, RegisterRefused,
        RegisterReplyLost, CreateRefused, dockerVars, CreateVolume, RunContainer
  <1>4. /\ pc[l] = "check" \/ pc'[l] \notin {"check", "volume", "exists"}
        /\ \/ pc'[l] \notin Deleting \cup {"deleteVolume", "failed", "deleted"}
           \/ pc'[l] = "getContainer" /\ pos'[l] = 1
    <2>1. CASE StartDelete(l)
      BY Zenon, <1>1, <2>1, StartDeleteMoves
    <2>2. CASE ~StartDelete(l)
      BY ZenonT(30), <1>1, <2>2
      DEF LaunchStep, CheckInstance, MakeVolume, RunService, RunConflict, InspectAnvil, Connect,
          SetBalance, InspectDaemon, Stamp, Register, UpdateMetadata, RegisterRefused,
          RegisterReplyLost, CreateRefused, Goto, GotoAt, Deleting, TypeInv, TypeOK, ThreadTypeOK
    <2> QED BY Zenon, <2>1, <2>2
  <1>5. GoneStays
    BY Zenon, <1>2, <1>3, GoneKept, GoneRun DEF Fresh, Creating
  <1>6. \A m \in Launches : Swept(l, m)'
    BY Zenon, <1>1, <1>4, NothingSwept
  <1>7. \A m \in Launches, s \in Services :
           <<m, s>> \in containers' =>
              <<m, s>> \in containers \/ (m = l /\ pc'[l] \notin {"check", "volume", "exists"})
    BY <1>3, <1>4
  <1> QED BY Zenon, <1>1, <1>2, <1>4, <1>5, <1>6, <1>7, AnswerStep

(* The first half of unregister_instance reads a document of a launch that *)
(* creates no more.                                                        *)
LEMMA UnregisterGetAnswer ==
  ASSUME TypeInv, IndexInv, AnswerInv, NoReturn, NEW t \in Kills \cup Pruners, UnregisterGet(t)
  PROVE  AnswerInv'
  <1>1. t \in Threads /\ t \notin Launches /\ OthersKeep(t)
    BY Zenon, UnregisterGetType, MovesOthersKeep, InstancesAssumption, OrchestratorAssumption
    DEF UnregisterGet, Threads
  <1>2. UNCHANGED <<containers, leaked>>
    BY Zenon DEF UnregisterGet, dockerVars, faultVars
  <1>3. \A u \in Threads : u # t => seen'[u] = seen[u]
    BY Zenon DEF UnregisterGet, TypeInv, TypeOK, ThreadTypeOK
  <1>4. seen'[t] = instance[target[t]] /\ target[t] \in InstanceIds
    BY Zenon, <1>1, TargetType DEF UnregisterGet, TypeInv, TypeOK, ThreadTypeOK
  <1>5. pc'[t] \notin Deleting \cup {"deleteVolume", "failed", "deleted"}
    BY Zenon, <1>1 DEF UnregisterGet, Goto, AfterKill, Deleting, TypeInv, TypeOK, ThreadTypeOK
  <1>6. GoneStays
    BY Zenon, <1>2, GoneKept
  <1>7. SweptInv'
    <2> SUFFICES ASSUME NEW u \in Threads, NEW l \in Launches, Serves(u, l)'
                 PROVE  Swept(u, l)'
      BY Zenon DEF SweptInv
    <2>1. CASE u = t
      BY Zenon, <1>5, <2>1, NothingSwept
    <2>2. CASE u # t
      BY Zenon, <1>1, <1>3, <1>6, <2>2, OthersSwept
    <2> QED BY Zenon, <2>1, <2>2
  <1>8. SeenIsLate'
    <2> SUFFICES ASSUME NEW k \in Kills, NEW l \in Launches, seen'[k] = l
                 PROVE  pc'[l] \notin Fresh /\ InstanceOf[l] = InstanceOf[k]
      BY Zenon DEF SeenIsLate
    <2>1. k \in Threads
      BY Zenon DEF Threads
    <2>2. CASE k # t
      BY Zenon, <1>3, <2>1, <2>2 DEF AnswerInv, SeenIsLate, NoReturn
    <2>3. CASE k = t
      <3>1. instance[target[t]] = l /\ target[t] = InstanceOf[k]
        BY Zenon, <1>4, <2>3 DEF TypeInv, ThreadOK, TargetOK
      <3>2. InstanceOf[l] = target[t]
        BY Zenon, <1>4, <3>1, InstancesAssumption DEF TypeInv, ThreadOK, DocumentOK
      <3> QED BY Zenon, <1>4, <3>1, <3>2 DEF IndexInv, FreshOK, NoReturn
    <2> QED BY Zenon, <2>2, <2>3
  <1>9. NoneYet'
    BY Zenon, <1>1, <1>2 DEF AnswerInv, NoneYet, OthersKeep, Threads
  <1> QED BY Zenon, <1>7, <1>8, <1>9 DEF AnswerInv

(* A step that changes no container and shows nothing swept. *)
LEMMA QuietAnswer ==
  ASSUME TypeInv, AnswerInv, NoReturn, NEW t \in Threads, OthersKeep(t), UNCHANGED seen,
         containers' = containers, leaked \subseteq leaked',
         \/ pc'[t] \notin Deleting \cup {"deleteVolume", "failed", "deleted",
                                         "check", "volume", "exists"}
         \/ pc'[t] = "getContainer" /\ pos'[t] = 1
  PROVE  AnswerInv'
  <1>1. \A l \in Launches : Swept(t, l)'
    BY Zenon, NothingSwept
  <1>2. pc'[t] \notin {"check", "volume", "exists"}
    BY Zenon
  <1> QED BY Zenon, <1>1, <1>2, GoneKept, AnswerStep

(* The second half of unregister_instance starts the deletion, or fails. *)
LEMMA UnregisterAnswer ==
  ASSUME TypeInv, AnswerInv, NoReturn, NEW t \in Threads,
         UnregisterReplyLost(t) \/ (t \in Kills \cup Pruners /\ UnregisterExec(t))
  PROVE  AnswerInv'
  <1>1. OthersKeep(t) /\ UNCHANGED seen /\ containers' = containers /\ leaked \subseteq leaked'
    BY ZenonT(30), UnregisterReplyLostType, UnregisterExecType, MovesOthersKeep
    DEF UnregisterReplyLost, UnregisterExec, deleteVars, dockerVars, faultVars, Leak
  <1>2. CASE UnregisterExec(t)
    BY Zenon, <1>1, <1>2, StartDeleteMoves, QuietAnswer DEF UnregisterExec
  <1>3. CASE UnregisterReplyLost(t)
    <2>1. t \notin Launches
      BY Zenon, <1>3, Labels
      DEF UnregisterReplyLost, TypeInv, TypeOK, ThreadTypeOK, LaunchLabels, Creating, Deleting
    <2>2. pc'[t] \in {"error", "list"}
      BY Zenon, <1>3, <2>1 DEF UnregisterReplyLost, Raise, Goto, TypeInv, TypeOK, ThreadTypeOK
    <2> QED BY Zenon, <1>1, <2>2, QuietAnswer DEF Deleting
  <1> QED BY Zenon, <1>2, <1>3

(* The pruner answers nobody. *)
LEMMA PruneAnswer ==
  ASSUME TypeInv, AnswerInv, NoReturn, NEW p \in Pruners, PruneStep(p)
  PROVE  AnswerInv'
  <1>1. p \in Threads /\ UNCHANGED <<seen, handle, containers, leaked>>
    BY Zenon
    DEF PruneStep, ListExpired, FetchInstance, Prune, PruneAbsent, Threads, deleteVars, dockerVars,
        faultVars
  <1>2. MovesOn(p)
    BY Zenon, ListExpiredType, FetchInstanceType, PruneType, PruneAbsentType DEF PruneStep
  <1>3. \A u \in Threads : u # p => target'[u] = target[u]
    BY Zenon
    DEF PruneStep, ListExpired, FetchInstance, Prune, PruneAbsent, deleteVars, TypeInv, TypeOK,
        ThreadTypeOK
  <1>4. OthersKeep(p)
    BY Zenon, <1>1, <1>2, <1>3 DEF OthersKeep, MovesOn, TypeInv, TypeOK, ThreadTypeOK
  <1>5. pc'[p] \in {"list", "fetch", "prune", "unregisterGet"}
    <2>1. CASE PruneAbsent(p)
      BY Zenon, <1>1, <2>1, RaiseMoves DEF PruneAbsent
    <2>2. CASE ListExpired(p) \/ FetchInstance(p) \/ Prune(p)
      BY Zenon, <1>1, <2>2 DEF ListExpired, FetchInstance, Prune, Goto, TypeInv, TypeOK, ThreadTypeOK
    <2> QED BY Zenon, <2>1, <2>2 DEF PruneStep
  <1> QED BY Zenon, <1>1, <1>4, <1>5, QuietAnswer DEF Deleting

(* A launch that Redis refuses before it has begun has nothing to clean up. *)
LEMMA RedisRefusesAnswer ==
  ASSUME TypeInv, AnswerInv, NoReturn, NEW t \in Threads, RedisRefuses(t)
  PROVE  AnswerInv'
  <1>1. OthersKeep(t) /\ UNCHANGED <<seen, containers, leaked>>
    BY Zenon, RedisRefusesType, MovesOthersKeep DEF RedisRefuses, deleteVars, dockerVars
  <1>2. CASE t \notin Launches
    <2>1. pc'[t] \in {"error", "list"}
      BY Zenon, <1>2 DEF RedisRefuses, Raise, Goto, TypeInv, TypeOK, ThreadTypeOK
    <2> QED BY Zenon, <1>1, <2>1, QuietAnswer DEF Deleting
  <1>3. CASE t \in Launches
    <2>1. pc[t] = "check" /\ pc'[t] = "failed"
      BY ZenonT(30), <1>3, Labels
      DEF RedisRefuses, Raise, Goto, TypeInv, TypeOK, ThreadTypeOK, LaunchLabels, Creating, Deleting
    <2>2. \A s \in Services : <<t, s>> \notin containers
      BY Zenon, <1>3, <2>1 DEF AnswerInv, NoneYet
    <2>3. \A l \in Launches : Serves(t, l) => l = t
      BY Zenon, <1>3, InstancesAssumption DEF Serves
    <2>4. \A l \in Launches : Serves(t, l) => Swept(t, l)'
      BY Zenon, <1>1, <2>1, <2>2, <2>3 DEF Swept, Gone, Deleting
    <2> QED BY ZenonT(30), <1>1, <2>1, <2>4, GoneKept, AnswerStep
  <1> QED BY Zenon, <1>2, <1>3

-----------------------------------------------------------------------------
(* The deletion                                                             *)

(* A deletion that moves on to the next name. *)
LEMMA NextDeleteAnswer ==
  ASSUME TypeInv, AnswerInv, NoReturn, GoneStays, NEW t \in Threads, pc[t] \in Deleting,
         NextDelete(t), UNCHANGED deleteVars, containers' \subseteq containers,
         NEW n \in Services, n = pos[t], \A l \in Launches : Serves(t, l) => Gone(l, n)'
  PROVE  AnswerInv'
  <1>1. OthersKeep(t) /\ UNCHANGED seen
    BY Zenon, NextDeleteMoves, MovesOthersKeep DEF deleteVars
  <1>2. \A l \in Launches : Serves(t, l) => Swept(t, l)'
    BY Zenon, NextSwept
  <1>3. pc'[t] \notin {"check", "volume", "exists"}
    BY Zenon, NextDeleteMoves
  <1> QED BY ZenonT(30), <1>1, <1>2, <1>3, AnswerStep

(* A name that is taken has one holder: another launch than that has none. *)
LEMMA GetContainerAnswer ==
  ASSUME TypeInv, OwnInv, AnswerInv, NoReturn, NEW t \in Threads, GetContainer(t)
  PROVE  AnswerInv'
  <1>1. /\ pc[t] = "getContainer" /\ pc'[t] = "killContainer" /\ pos'[t] = pos[t]
        /\ handle'[t] = Holder(target[t], pos[t]) /\ OthersKeep(t)
        /\ UNCHANGED <<seen, containers, leaked>>
    BY Zenon DEF GetContainer, Goto, OthersKeep, TypeInv, TypeOK, ThreadTypeOK, dockerVars, faultVars
  <1>2. pos[t] \in Services
    BY Zenon, <1>1, PosType DEF Deleting
  <1>3. ASSUME NEW l \in Launches, Serves(t, l) PROVE Swept(t, l)'
    <2>1. Swept(t, l) /\ InstanceOf[l] = target[t]
      BY Zenon, <1>1, <1>3, ServedIsLate DEF AnswerInv, SweptInv, Deleting
    <2>2. CASE handle'[t] # l
      <3>1. /\ handle'[t] \in Launches /\ InstanceOf[handle'[t]] = InstanceOf[l]
            /\ <<handle'[t], pos[t]>> \in containers
        BY <1>1, <2>1, HolderType DEF GetContainer
      <3>2. <<l, pos[t]>> \notin containers
        BY ZenonT(30), <1>2, <2>2, <3>1, OwnInvElim DEF UniqueNames
      <3> QED BY ZenonT(30), <1>1, <2>1, <3>2 DEF Swept, Gone, Deleting
    <2>3. CASE handle'[t] = l
      BY Zenon, <1>1, <2>1, <2>3 DEF Swept, Gone, Deleting
    <2> QED BY Zenon, <2>2, <2>3
  <1> QED BY Zenon, <1>1, <1>3, GoneKept, AnswerStep

(* A free name: no container of the launch has it. *)
LEMMA SkipContainerAnswer ==
  ASSUME TypeInv, AnswerInv, NoReturn, NEW t \in Threads, SkipContainer(t)
  PROVE  AnswerInv'
  <1>1. \A l \in Launches : InstanceOf[l] = target[t] => <<l, pos[t]>> \notin containers
    BY Zenon DEF SkipContainer, NameTaken, HoldersOf
  <1>2. containers' = containers /\ leaked' = leaked \ {<<target[t], pos[t]>>}
    BY Zenon DEF SkipContainer, dockerVars, Freed
  <1>3. pc[t] \in Deleting /\ NextDelete(t) /\ UNCHANGED deleteVars /\ pos[t] \in Services
    BY Zenon, PosType DEF SkipContainer, Deleting
  <1>4. GoneStays
    BY Zenon, <1>1, <1>2 DEF GoneStays, Gone
  <1>5. PICK n \in Services : n = pos[t]
    BY Zenon, <1>3
  <1>6. \A l \in Launches : Serves(t, l) => Gone(l, n)'
    BY Zenon, <1>1, <1>2, <1>3, <1>5, ServedIsLate DEF Gone, AnswerInv
  <1> QED BY Zenon, <1>2, <1>3, <1>4, <1>5, <1>6, NextDeleteAnswer

(* Killing: a handle that is gone was not the launch's, or is gone with it. *)
LEMMA KillAnswer ==
  ASSUME TypeInv, AnswerInv, NoReturn, NEW t \in Threads, Kill(t)
  PROVE  AnswerInv'
  <1>1. /\ containers' = containers /\ leaked' = leaked /\ UNCHANGED deleteVars
        /\ pc[t] = "killContainer" /\ pc[t] \in Deleting
    BY Zenon DEF Kill, KillContainer, faultVars, Deleting
  <1>2. OthersKeep(t) /\ UNCHANGED <<seen, handle>> /\ GoneStays
    BY Zenon, <1>1, KillType, MovesOthersKeep, GoneKept DEF deleteVars
  <1>3. CASE <<handle[t], pos[t]>> \in containers
    <2>1. pc'[t] = "removeContainer" /\ pos'[t] = pos[t]
      BY ZenonT(30), <1>3 DEF Kill, Goto, TypeInv, TypeOK, ThreadTypeOK
    <2>2. ASSUME NEW l \in Launches, Serves(t, l) PROVE Swept(t, l)'
      <3>1. Swept(t, l)
        BY Zenon, <2>2 DEF AnswerInv, SweptInv
      <3> QED BY Zenon, <1>1, <1>2, <2>1, <3>1 DEF Swept, Gone, Deleting
    <2> QED BY Zenon, <1>1, <1>2, <2>1, <2>2, AnswerStep
  <1>4. CASE <<handle[t], pos[t]>> \notin containers
    <2>1. PICK n \in Services : n = pos[t]
      BY Zenon, <1>1, PosType
    <2>2. \A l \in Launches : Serves(t, l) => Gone(l, n)'
      BY Zenon, <1>1, <1>4, <2>1 DEF AnswerInv, SweptInv, Swept, Gone
    <2>3. NextDelete(t)
      BY Zenon, <1>4 DEF Kill
    <2> QED BY Zenon, <1>1, <1>2, <2>1, <2>2, <2>3, NextDeleteAnswer
  <1> QED BY Zenon, <1>3, <1>4

(* Removing. *)
LEMMA RemoveAnswer ==
  ASSUME TypeInv, OwnInv, AnswerInv, NoReturn, NEW t \in Threads, Remove(t)
  PROVE  AnswerInv'
  <1>1. /\ containers' = containers \ {<<handle[t], pos[t]>>} /\ UNCHANGED deleteVars
        /\ pc[t] = "removeContainer" /\ pc[t] \in Deleting /\ NextDelete(t)
    BY Zenon DEF Remove, RemoveContainer, Deleting
  <1>2. PICK n \in Services : n = pos[t]
    BY Zenon, <1>1, PosType
  <1>3. handle[t] \in Launches /\ InstanceOf[handle[t]] = target[t]
    BY Zenon, <1>1 DEF TypeInv, ThreadOK, HandleOK
  <1>4. \/ leaked' = leaked
        \/ /\ leaked' = leaked \ {<<target[t], n>>}
           /\ \A l \in Launches : InstanceOf[l] = target[t] => <<l, n>> \notin containers'
    <2>1. CASE <<handle[t], pos[t]>> \in containers
      <3>1. leaked' = leaked \ {<<target[t], n>>}
        BY Zenon, <1>2, <2>1 DEF Remove, Freed
      <3>2. \A l \in Launches : InstanceOf[l] = target[t] => <<l, n>> \notin containers'
        BY Zenon, <1>1, <1>2, <1>3, <2>1, OwnInvElim DEF UniqueNames
      <3> QED BY Zenon, <3>1, <3>2
    <2>2. CASE <<handle[t], pos[t]>> \notin containers
      BY Zenon, <2>2 DEF Remove, faultVars
    <2> QED BY Zenon, <2>1, <2>2
  <1>5. GoneStays
    BY Zenon, <1>1, <1>4 DEF GoneStays, Gone
  <1>6. ASSUME NEW l \in Launches, Serves(t, l) PROVE Gone(l, n)'
    <2>1. pc[l] \notin Fresh /\ Swept(t, l)
      BY Zenon, <1>1, <1>6, ServedIsLate DEF AnswerInv, SweptInv
    <2>2. CASE handle[t] = l
      BY Zenon, <1>1, <1>2, <2>2 DEF Gone
    <2>3. CASE handle[t] # l
      BY Zenon, <1>1, <1>2, <1>5, <2>1, <2>3 DEF Swept, GoneStays
    <2> QED BY Zenon, <2>2, <2>3
  <1> QED BY ZenonT(30), <1>1, <1>2, <1>5, <1>6, NextDeleteAnswer

(* A refused kill or remove leaves the name to nobody. *)
LEMMA DeleteRefusedAnswer ==
  ASSUME TypeInv, AnswerInv, NoReturn, NEW t \in Threads, DeleteRefused(t)
  PROVE  AnswerInv'
  <1>1. /\ containers' = containers /\ UNCHANGED deleteVars /\ NextDelete(t)
        /\ pc[t] \in Deleting /\ leaked \subseteq leaked' /\ <<target[t], pos[t]>> \in leaked'
    BY Zenon DEF DeleteRefused, dockerVars, Deleting, Leak
  <1>2. PICK n \in Services : n = pos[t]
    BY Zenon, <1>1, PosType
  <1>3. \A l \in Launches : Serves(t, l) => Gone(l, n)'
    BY Zenon, <1>1, <1>2, ServedIsLate DEF AnswerInv, Gone
  <1> QED BY ZenonT(30), <1>1, <1>2, <1>3, GoneKept, NextDeleteAnswer

(* The end of a deletion: all the names are behind it. *)
LEMMA VolumeAnswer ==
  ASSUME TypeInv, AnswerInv, NoReturn, NEW t \in Threads,
         DeleteVolume(t) \/ VolumeRefused(t) \/ GetVolumeRefused(t)
  PROVE  AnswerInv'
  <1>1. containers' = containers /\ pc[t] = "deleteVolume" /\ UNCHANGED deleteVars
    BY Zenon DEF DeleteVolume, VolumeRefused, GetVolumeRefused, RemoveVolume, dockerVars
  <1>2. OthersKeep(t) /\ UNCHANGED seen
    BY Zenon, <1>1, DeleteVolumeType, VolumeRefusedType, GetVolumeRefusedType, MovesOthersKeep
    DEF deleteVars
  <1>3. pc'[t] \in {"failed", "deleted", "error", "list", "prune"}
    BY ZenonT(30), AfterDeleteMoves, RaiseMoves DEF DeleteVolume, VolumeRefused, GetVolumeRefused
  <1>4. leaked \subseteq leaked' \cup {<<target[t], 0>>}
    BY ZenonT(30) DEF DeleteVolume, VolumeRefused, GetVolumeRefused, Freed, Leak, faultVars
  <1>5. \A l \in Launches, s \in Services : Gone(l, s) => Gone(l, s)'
    BY SMTT(30), <1>1, <1>4 DEF Gone, Services
  <1>6. ASSUME NEW l \in Launches, Serves(t, l) PROVE Swept(t, l)'
    <2>1. \A s \in Services : Gone(l, s)
      BY Zenon, <1>1, <1>6 DEF AnswerInv, SweptInv, Swept
    <2> QED BY Zenon, <1>3, <1>5, <2>1 DEF Swept, Deleting
  <1>7. pc'[t] \notin {"check", "volume", "exists"} /\ GoneStays
    BY Zenon, <1>3, <1>5 DEF GoneStays
  <1> QED BY Zenon, <1>1, <1>2, <1>6, <1>7, AnswerStep

(* A refused containers.get leaves all the names ahead to nobody. *)
LEMMA GetRefusedAnswer ==
  ASSUME TypeInv, AnswerInv, NoReturn, NEW t \in Threads, GetRefused(t)
  PROVE  AnswerInv'
  <1>1. /\ containers' = containers /\ pc[t] = "getContainer" /\ UNCHANGED deleteVars
        /\ pc'[t] \in {"failed", "error", "list"}
    BY Zenon, RaiseMoves DEF GetRefused, dockerVars
  <1>2. OthersKeep(t) /\ UNCHANGED seen
    BY Zenon, <1>1, GetRefusedType, MovesOthersKeep DEF deleteVars
  <1>3. /\ leaked \subseteq leaked'
        /\ \A s \in pos[t] .. NumServices : <<target[t], s>> \in leaked'
    BY Zenon DEF GetRefused, Leak
  <1>4. ASSUME NEW l \in Launches, Serves(t, l) PROVE Swept(t, l)'
    <2>1. Swept(t, l) /\ InstanceOf[l] = target[t] /\ pc[t] \in Deleting
      BY Zenon, <1>1, <1>4, ServedIsLate DEF AnswerInv, SweptInv, Deleting
    <2>2. \A s \in Services : s < pos[t] \/ s \in pos[t] .. NumServices
      BY SMTT(30), <2>1, PosType DEF Services
    <2>3. \A s \in Services : Gone(l, s)'
      BY Zenon, <1>1, <1>3, <2>1, <2>2 DEF Swept, Gone
    <2> QED BY Zenon, <1>1, <2>3 DEF Swept, Deleting
  <1> QED BY Zenon, <1>1, <1>2, <1>3, <1>4, GoneKept, AnswerStep

(* A crash answers nobody, and forgets no leak. *)
LEMMA CrashAnswer ==
  ASSUME TypeInv, AnswerInv, NoReturn, Crash
  PROVE  AnswerInv'
  <1>1. containers' = containers /\ UNCHANGED <<pos, seen, handle>> /\ leaked \subseteq leaked'
    BY Zenon DEF Crash, dockerVars, deleteVars
  <1>2. \A t \in Threads : pc'[t] = pc[t] \/ pc'[t] \in {"list", "crashed"}
    BY Zenon DEF Crash
  <1>3. SweptInv'
    <2> SUFFICES ASSUME NEW t \in Threads, NEW l \in Launches, Serves(t, l)'
                 PROVE  Swept(t, l)'
      BY Zenon DEF SweptInv
    <2>1. Swept(t, l)
      BY Zenon, <1>1 DEF Serves, AnswerInv, SweptInv
    <2>2. \A s : Gone(l, s) => Gone(l, s)'
      BY Zenon, <1>1 DEF Gone
    <2>3. CASE pc'[t] = pc[t]
      BY <1>1, <2>1, <2>2, <2>3, ZenonT(30) DEF Swept
    <2>4. CASE pc'[t] \in {"list", "crashed"}
      BY Zenon, <2>4 DEF Swept, Deleting
    <2> QED BY Zenon, <1>2, <2>3, <2>4
  <1>4. SeenIsLate'
    BY Zenon, <1>1 DEF AnswerInv, SeenIsLate, NoReturn
  <1>5. NoneYet'
    BY Zenon, <1>1, <1>2 DEF AnswerInv, NoneYet, Threads
  <1> QED BY Zenon, <1>3, <1>4, <1>5 DEF AnswerInv

(* Every step keeps AnswerInv. *)
LEMMA NextAnswerInv ==
  ASSUME TypeInv, IndexInv, OwnInv, AnswerInv, [Next]_vars
  PROVE  AnswerInv'
  <1>1. NoReturn
    BY Zenon, NextNoReturn
  <1>2. ASSUME NEW l \in Launches, LaunchStep(l) \/ UpdateMetadata(l) PROVE AnswerInv'
    BY Zenon, <1>1, <1>2, LaunchAnswer
  <1>3. ASSUME NEW t \in Kills \cup Pruners, KillStep(t) PROVE AnswerInv'
    BY Zenon, <1>1, <1>3, UnregisterGetAnswer, UnregisterAnswer DEF KillStep, Threads
  <1>4. ASSUME NEW t \in Threads, DeleteStep(t) PROVE AnswerInv'
    BY Zenon, <1>1, <1>4, GetContainerAnswer, SkipContainerAnswer, KillAnswer, RemoveAnswer, VolumeAnswer
    DEF DeleteStep
  <1>5. ASSUME NEW p \in Pruners, PruneStep(p) PROVE AnswerInv'
    BY Zenon, <1>1, <1>5, PruneAnswer
  <1>6. CASE Fault
    BY Zenon, <1>1, <1>6, RedisRefusesAnswer, UnregisterAnswer, GetRefusedAnswer, DeleteRefusedAnswer,
       VolumeAnswer, LaunchAnswer, CrashAnswer DEF Fault
  <1>7. CASE Tick \/ UNCHANGED vars
    <2>1. UNCHANGED <<containers, pc, pos, seen, handle, leaked>>
      BY Zenon, <1>7 DEF Tick, vars, dockerVars, threadVars, faultVars
    <2> QED
      BY ZenonT(30), <2>1 DEF AnswerInv, SweptInv, SeenIsLate, NoneYet, Serves, Swept, Gone
  <1> QED BY Zenon, <1>2, <1>3, <1>4, <1>5, <1>6, <1>7 DEF Next

(* The registry's invariant holds in every reachable state. *)
LEMMA IndexInvariant == Spec => [](TypeInv /\ IndexInv)
  <1>1. Init => IndexInv
    BY InstancesAssumption DEF Init, RedisInit, IndexInv, IndexConsistent, FreshOK
  <1>2. Spec => []TypeInv
    BY InitTypeInv, NextTypeInv, PTL DEF Spec
  <1> QED BY <1>1, <1>2, NextIndexInv, PTL DEF Spec

(* An answer can be relied on: through every race and every fault, a create *)
(* request that has failed and a delete request that has answered leave no   *)
(* container of that launch behind, save under a name that a fault skipped.  *)
THEOREM AnswersAreTrue == Spec => []AnsweredMeansGone
  <1>1. Init => AnswerInv
    <2> SUFFICES ASSUME Init PROVE AnswerInv
      BY Zenon
    <2>1. containers = {} /\ \A k \in Kills : seen[k] = None
      BY Zenon DEF Init, DockerInit, Threads
    <2> QED
      BY Zenon, <2>1, InstancesAssumption DEF AnswerInv, SweptInv, SeenIsLate, NoneYet, Swept, Gone
  <1>2. Spec => []AnswerInv
    BY <1>1, IndexInvariant, OwnInvariant, NextAnswerInv, PTL DEF Spec
  <1>3. AnswerInv => AnsweredMeansGone
    BY Zenon DEF AnswerInv, SweptInv, Serves, Swept, Gone, AnsweredMeansGone, Threads
  <1> QED BY <1>2, <1>3, PTL

-----------------------------------------------------------------------------
(* An instance without a competitor                                         *)

(* A launch that holds nothing, and never registers from there. *)
Unborn == {"check", "exists"}

(* No other launch of the instance has got past the existence check. *)
Sole(l) == \A m \in Launches \ {l} : InstanceOf[m] = InstanceOf[l] => pc[m] \in Unborn

(* What a thread deletes after an unregistration is no longer registered. *)
Unregistered ==
    \A t \in Kills \cup Pruners :
        /\ pc[t] \in Deleting \cup {"unregisterExec"} =>
              /\ seen[t] \in Launches /\ InstanceOf[seen[t]] = target[t]
              /\ pc[seen[t]] \notin Fresh \cup {"exists"}
        /\ pc[t] \in Deleting => instance[target[t]] # seen[t]

(* A launch that was told the instance exists is not registered. *)
ExistsOK == \A l \in Launches, id \in InstanceIds : pc[l] = "exists" => instance[id] # l

(* The containers that launch l has come to are running. *)
Up(l) ==
    /\ pc[l] = "run" => \A s \in Services : s < pos[l] => <<l, s>> \in running
    /\ \/ pc[l] \in Creating \ {"run"}
       \/ pc[l] \in {"ok", "published"} /\ instance[InstanceOf[l]] = l
       => \A s \in Services : <<l, s>> \in running

IntactInv == Unregistered /\ ExistsOK /\ \A l \in Launches : Sole(l) => Up(l)

(* What a step does to the launches: none becomes unborn again, ... *)
NoRebirth == \A l \in Launches : pc'[l] \in Unborn => pc[l] \in Unborn

(* ... none is registered but by its own registration, ... *)
OwnRegistration ==
    \A l \in Launches, id \in InstanceIds :
        instance'[id] = l => \/ instance[id] = l
                             \/ pc[l] = "register" /\ pc'[l] \notin Fresh \cup {"exists"}

(* ... none loses a running container but to a thread that has its handle, ... *)
OnlyHandlesStop ==
    \A l \in Launches, s \in Services :
        <<l, s>> \in running => \/ <<l, s>> \in running'
                                \/ \E t \in Threads : /\ pc[t] \in {"killContainer", "removeContainer"}
                                                      /\ handle[t] = l

(* ... and none gets on but over containers that it has started. *)
Advances(l) ==
    /\ pc'[l] = "run" => \/ pc[l] = "run" /\ pos'[l] = pos[l]
                         \/ pos'[l] = 1
                         \/ pc[l] = "run" /\ pos'[l] = pos[l] + 1 /\ <<l, pos[l]>> \in running'
    /\ pc'[l] \in Creating \ {"run"} =>
          \/ pc[l] \in Creating \ {"run"}
          \/ pc[l] = "run" /\ pos[l] = NumServices /\ <<l, pos[l]>> \in running'
    /\ pc'[l] \in {"ok", "published"} => pc[l] \in {"register", "ok", "published"}

(* Whoever deletes has unregistered what it has read. *)
Follows(t) ==
    /\ pc'[t] \in Deleting =>
          /\ seen'[t] = seen[t] /\ target'[t] = target[t]
          /\ \/ pc[t] \in Deleting
             \/ pc[t] = "unregisterExec" /\ instance'[target[t]] = None
    /\ pc'[t] = "unregisterExec" =>
          /\ target'[t] = target[t]
          /\ \/ pc[t] = "unregisterExec" /\ seen'[t] = seen[t]
             \/ /\ pc[t] = "unregisterGet" /\ seen'[t] = instance[target[t]]
                /\ seen'[t] # None

Steps ==
    /\ NoReturn /\ NoRebirth /\ OwnRegistration /\ OnlyHandlesStop
    /\ \A l \in Launches : Advances(l)
    /\ \A t \in Kills \cup Pruners : Follows(t)

(* Nobody deletes what a sole launch builds or the registry lists for it. *)
LEMMA NobodyStops ==
  ASSUME TypeInv, IntactInv, NEW l \in Launches, Sole(l),
         pc[l] \in Creating \/ (pc[l] \in {"ok", "published"} /\ instance[InstanceOf[l]] = l),
         NEW t \in Threads, pc[t] \in {"killContainer", "removeContainer"}
  PROVE  handle[t] # l
  <1> SUFFICES ASSUME handle[t] = l PROVE FALSE
    BY Zenon
  <1>1. InstanceOf[l] = target[t] /\ pc[t] \in Deleting
    BY Zenon DEF TypeInv, ThreadOK, HandleOK, Deleting
  <1>2. CASE t \in Launches
    BY Zenon, <1>1, <1>2 DEF TypeInv, ThreadOK, TargetOK, Sole, Unborn, Creating, Deleting
  <1>3. CASE t \in Kills \cup Pruners
    <2>1. /\ seen[t] \in Launches /\ InstanceOf[seen[t]] = InstanceOf[l]
          /\ pc[seen[t]] \notin Fresh \cup {"exists"} /\ instance[target[t]] # seen[t]
      BY Zenon, <1>1, <1>3 DEF IntactInv, Unregistered
    <2>2. seen[t] = l
      BY Zenon, <2>1 DEF Sole, Unborn, Fresh
    <2> QED BY Zenon, <1>1, <2>1, <2>2 DEF Fresh
  <1> QED BY Zenon, <1>2, <1>3 DEF Threads

(* The invariant follows from what the steps do. *)
LEMMA StepsIntact ==
  ASSUME TypeInv, TypeInv', IndexInv, IntactInv, Steps
  PROVE  IntactInv'
  <1>1. ExistsOK'
    <2> SUFFICES ASSUME NEW l \in Launches, NEW id \in InstanceIds, pc'[l] = "exists"
                 PROVE  instance'[id] # l
      BY Zenon DEF ExistsOK
    <2>1. pc[l] \in {"check", "exists"}
      BY Zenon DEF Steps, NoRebirth, Unborn
    <2>2. instance[id] # l
      BY Zenon, <2>1 DEF IntactInv, ExistsOK, IndexInv, FreshOK, Fresh
    <2> QED BY Zenon, <2>1, <2>2 DEF Steps, OwnRegistration
  <1>2. \A l \in Launches : pc[l] \notin Fresh \cup {"exists"} => pc'[l] \notin Fresh \cup {"exists"}
    BY Zenon DEF Steps, NoReturn, NoRebirth, Unborn, Fresh
  <1>3. Unregistered'
    <2> SUFFICES ASSUME NEW t \in Kills \cup Pruners, pc'[t] \in Deleting \cup {"unregisterExec"}
                 PROVE  /\ seen'[t] \in Launches /\ InstanceOf[seen'[t]] = target'[t]
                        /\ pc'[seen'[t]] \notin Fresh \cup {"exists"}
                        /\ pc'[t] \in Deleting => instance'[target'[t]] # seen'[t]
      BY Zenon DEF Unregistered
    <2>1. t \in Threads
      BY Zenon DEF Threads
    <2>2. CASE pc'[t] \in Deleting
      <3>1. /\ seen'[t] = seen[t] /\ target'[t] = target[t]
            /\ pc[t] \in Deleting \cup {"unregisterExec"}
            /\ pc[t] \in Deleting \/ instance'[target[t]] = None
        BY Zenon, <2>2 DEF Steps, Follows
      <3>2. /\ seen[t] \in Launches /\ InstanceOf[seen[t]] = target[t]
            /\ pc[seen[t]] \notin Fresh \cup {"exists"}
            /\ pc[t] \in Deleting => instance[target[t]] # seen[t]
        BY Zenon, <3>1 DEF IntactInv, Unregistered
      <3>3. target[t] \in InstanceIds
        BY Zenon, <3>2, InstancesAssumption
      <3>4. instance'[target[t]] # seen[t]
        BY Zenon, <3>1, <3>2, <3>3, InstancesAssumption DEF Steps, OwnRegistration, Fresh, Creating
      <3> QED BY Zenon, <1>2, <3>1, <3>2, <3>4
    <2>3. CASE pc'[t] = "unregisterExec"
      <3>1. target'[t] = target[t]
        BY Zenon, <2>3 DEF Steps, Follows
      <3>2. CASE pc[t] = "unregisterExec" /\ seen'[t] = seen[t]
        BY Zenon, <1>2, <2>3, <3>1, <3>2 DEF IntactInv, Unregistered, Deleting
      <3>3. CASE pc[t] = "unregisterGet" /\ seen'[t] = instance[target[t]] /\ seen'[t] # None
        <4>1. target[t] \in InstanceIds
          BY Zenon, <2>1, <3>3, TargetType
        <4>2. seen'[t] \in Launches /\ InstanceOf[seen'[t]] = target[t]
          BY Zenon, <3>3, <4>1 DEF TypeInv, TypeOK, RedisTypeOK, ThreadOK, DocumentOK
        <4>3. pc[seen'[t]] \notin Fresh \cup {"exists"}
          BY Zenon, <3>3, <4>1, <4>2 DEF IndexInv, FreshOK, IntactInv, ExistsOK
        <4> QED BY ZenonT(30), <1>2, <2>3, <3>1, <4>2, <4>3 DEF Deleting
      <3> QED BY Zenon, <2>3, <3>2, <3>3 DEF Steps, Follows
    <2> QED BY Zenon, <2>2, <2>3
  <1>4. ASSUME NEW l \in Launches, Sole(l)' PROVE Up(l)'
    <2>1. Sole(l) /\ Up(l)
      BY Zenon, <1>4 DEF Sole, Steps, NoRebirth, IntactInv
    <2>2. l \in Threads /\ pos[l] \in 0 .. NumServices /\ InstanceOf[l] \in InstanceIds
      BY Zenon, Labels, PosType, InstancesAssumption
    <2>3. ASSUME pc[l] \in Creating \/ (pc[l] \in {"ok", "published"} /\ instance[InstanceOf[l]] = l)
          PROVE  \A s \in Services : <<l, s>> \in running => <<l, s>> \in running'
      BY Zenon, <2>1, <2>3, NobodyStops DEF Steps, OnlyHandlesStop
    <2>4. CASE pc'[l] = "run"
      <3>1. ASSUME NEW s \in Services, s < pos'[l] PROVE <<l, s>> \in running'
        <4>1. s \in Nat /\ s >= 1
          BY SMTT(30) DEF Services
        <4>2. CASE pc[l] = "run" /\ pos'[l] = pos[l]
          BY Zenon, <2>1, <2>3, <3>1, <4>2 DEF Up, Creating
        <4>3. CASE pc[l] = "run" /\ pos'[l] = pos[l] + 1 /\ <<l, pos[l]>> \in running'
          <5>1. s < pos[l] \/ s = pos[l]
            BY SMTT(30), <2>2, <3>1, <4>1, <4>3
          <5> QED BY Zenon, <2>1, <2>3, <4>3, <5>1 DEF Up, Creating
        <4> QED BY SMTT(30), <2>4, <3>1, <4>1, <4>2, <4>3 DEF Steps, Advances
      <3> QED BY Zenon, <2>4, <3>1 DEF Up, Creating
    <2>5. CASE pc'[l] \in Creating \ {"run"}
      <3>1. CASE pc[l] \in Creating \ {"run"}
        BY Zenon, <2>1, <2>3, <2>5, <3>1 DEF Up
      <3>2. CASE pc[l] = "run" /\ pos[l] = NumServices /\ <<l, pos[l]>> \in running'
        <4>1. \A s \in Services : s < pos[l] \/ s = pos[l]
          BY SMTT(30), <2>2, <3>2 DEF Services
        <4> QED BY Zenon, <2>1, <2>3, <2>5, <3>2, <4>1 DEF Up, Creating
      <3> QED BY Zenon, <2>5, <3>1, <3>2 DEF Steps, Advances
    <2>6. CASE pc'[l] \in {"ok", "published"} /\ instance'[InstanceOf[l]] = l
      <3>1. pc[l] \in {"register", "ok", "published"}
        BY Zenon, <2>6 DEF Steps, Advances
      <3>2. pc[l] # "register" => instance[InstanceOf[l]] = l
        BY Zenon, <2>2, <2>6 DEF Steps, OwnRegistration
      <3>3. \A s \in Services : <<l, s>> \in running
        BY Zenon, <2>1, <3>1, <3>2 DEF Up, Creating
      <3>4. pc[l] \in Creating \/ (pc[l] \in {"ok", "published"} /\ instance[InstanceOf[l]] = l)
        BY Zenon, <3>1, <3>2 DEF Creating
      <3> QED BY Zenon, <2>3, <2>6, <3>3, <3>4 DEF Up
    <2> QED BY Zenon, <2>4, <2>5, <2>6 DEF Up, Creating
  <1> QED BY Zenon, <1>1, <1>3, <1>4 DEF IntactInv

(* A step of one thread: the others stay where they are. *)
LEMMA ThreadSteps ==
  ASSUME NoReturn, OwnRegistration, OnlyHandlesStop, NEW t \in Threads, OthersKeep(t),
         \A u \in Threads : u # t => seen'[u] = seen[u],
         t \in Launches => Advances(t) /\ (pc'[t] \in Unborn => pc[t] \in Unborn),
         t \in Kills \cup Pruners => Follows(t)
  PROVE  Steps
  <1>1. NoRebirth
    BY Zenon DEF NoRebirth, OthersKeep, Threads
  <1>2. \A l \in Launches : Advances(l)
    BY Zenon DEF Advances, OthersKeep, Threads, Creating
  <1>3. \A u \in Kills \cup Pruners : Follows(u)
    BY ZenonT(30) DEF Follows, OthersKeep, Threads, Deleting
  <1> QED BY Zenon, <1>1, <1>2, <1>3 DEF Steps

(* A launch on its way. *)
LEMMA LaunchSteps ==
  ASSUME TypeInv, NoReturn, NEW l \in Launches,
         LaunchStep(l) \/ UpdateMetadata(l)
           \/ RegisterRefused(l) \/ RegisterReplyLost(l) \/ CreateRefused(l)
  PROVE  Steps
  <1>1. l \in Threads /\ OthersKeep(l)
    BY ZenonT(30), Labels, CheckInstanceType, MakeVolumeType, RunServiceType, RunConflictType,
       InspectAnvilType, ConnectType, SetBalanceType, InspectDaemonType, StampType, RegisterType,
       UpdateMetadataType, RegisterRefusedType, RegisterReplyLostType, CreateRefusedType,
       MovesOthersKeep
    DEF LaunchStep, CheckInstance, MakeVolume, RunService, RunConflict, InspectAnvil, Connect,
        SetBalance, InspectDaemon, Stamp, Register, UpdateMetadata, RegisterRefused,
        RegisterReplyLost, CreateRefused, deleteVars
  <1>2. UNCHANGED seen /\ running \subseteq running'
    BY ZenonT(30)
    DEF LaunchStep, CheckInstance, MakeVolume, RunService, RunConflict, InspectAnvil, Connect,
        SetBalance, InspectDaemon, Stamp, Register, UpdateMetadata, RegisterRefused,
        RegisterReplyLost, CreateRefused, deleteVars, dockerVars, CreateVolume, RunContainer
  <1>3. /\ Advances(l) /\ (pc'[l] \in Unborn => pc[l] \in Unborn)
        /\ pc[l] = "register" => pc'[l] \notin Fresh \cup {"exists"}
    <2>1. CASE StartDelete(l)
      <3>1. pc'[l] = "getContainer"
        BY Zenon, <1>1, <2>1, StartDeleteMoves
      <3> QED BY Zenon, <3>1 DEF Advances, Unborn, Creating, Fresh
    <2>2. CASE RunService(l)
      <3>1. /\ pc[l] = "run" /\ <<l, pos[l]>> \in running'
            /\ \/ pc'[l] = "run" /\ pos'[l] = pos[l] + 1
               \/ pc'[l] = "inspect" /\ ~(pos[l] < NumServices)
        BY ZenonT(30), <1>1, <2>2
        DEF RunService, RunContainer, GotoAt, TypeInv, TypeOK, ThreadTypeOK
      <3>2. pos[l] < NumServices \/ pos[l] = NumServices
        BY SMTT(30), <1>1, PosType
      <3> QED BY Zenon, <3>1, <3>2 DEF Advances, Unborn, Creating, Fresh
    <2>3. CASE MakeVolume(l)
      <3>1. pc'[l] = "run" /\ pos'[l] = 1 /\ pc[l] = "volume"
        BY ZenonT(30), <1>1, <2>3 DEF MakeVolume, GotoAt, TypeInv, TypeOK, ThreadTypeOK
      <3> QED BY Zenon, <3>1 DEF Advances, Unborn, Creating
    <2>4. CASE ~StartDelete(l) /\ ~RunService(l) /\ ~MakeVolume(l)
      <3>1. \/ pc[l] = "check" /\ pc'[l] \in {"exists", "volume"}
            \/ /\ pc[l] \in {"inspect", "connect", "setBalance", "inspectDaemon"}
               /\ pc'[l] \in {"inspect", "connect", "setBalance", "inspectDaemon", "stamp"}
            \/ pc[l] = "stamp" /\ pc'[l] = "register"
            \/ pc[l] = "register" /\ pc'[l] = "ok"
            \/ pc[l] = "ok" /\ pc'[l] = "published"
        BY ZenonT(30), <1>1, <2>4
        DEF LaunchStep, CheckInstance, RunConflict, InspectAnvil, Connect,
            SetBalance, InspectDaemon, Stamp, Register, UpdateMetadata, RegisterRefused,
            RegisterReplyLost, CreateRefused, Goto, GotoAt, TypeInv, TypeOK, ThreadTypeOK
      <3> QED BY Zenon, <3>1 DEF Advances, Unborn, Creating, Fresh
    <2> QED BY ZenonT(30), <2>1, <2>2, <2>3, <2>4
  <1>4. OwnRegistration
    <2>1. \/ instance' = instance
          \/ pc[l] = "register" /\ instance' = [instance EXCEPT ![InstanceOf[l]] = l]
      BY ZenonT(30)
      DEF LaunchStep, CheckInstance, MakeVolume, RunService, RunConflict, InspectAnvil, Connect,
          SetBalance, InspectDaemon, Stamp, Register, UpdateMetadata, RegisterRefused,
          RegisterReplyLost, CreateRefused, redisVars, RegisterInstance, HSetMetadata
    <2> QED BY Zenon, <1>3, <2>1 DEF OwnRegistration, TypeInv, TypeOK, RedisTypeOK
  <1>5. OnlyHandlesStop
    BY Zenon, <1>2 DEF OnlyHandlesStop
  <1>6. l \notin Kills \cup Pruners
    BY Zenon, InstancesAssumption, OrchestratorAssumption
  <1> QED BY Zenon, <1>1, <1>2, <1>3, <1>4, <1>5, <1>6, ThreadSteps

(* The two halves of unregister_instance. *)
LEMMA KillSteps ==
  ASSUME TypeInv, NoReturn, NEW t \in Threads,
         UnregisterReplyLost(t) \/ (t \in Kills \cup Pruners /\ KillStep(t))
  PROVE  Steps
  <1>1. /\ UNCHANGED <<running, target, handle>>
        /\ \A u \in Threads : u # t => seen'[u] = seen[u]
    BY Zenon
    DEF UnregisterReplyLost, KillStep, UnregisterGet, UnregisterExec, deleteVars, dockerVars,
        TypeInv, TypeOK, ThreadTypeOK
  <1>2. OthersKeep(t)
    BY Zenon, <1>1, UnregisterReplyLostType, UnregisterGetType, UnregisterExecType, MovesOthersKeep
    DEF KillStep
  <1>3. pc[t] \in {"unregisterGet", "unregisterExec"} /\ t \notin Launches
    BY ZenonT(30), Labels
    DEF UnregisterReplyLost, KillStep, UnregisterGet, UnregisterExec, TypeInv, TypeOK, ThreadTypeOK,
        LaunchLabels, Creating, Deleting
  <1>4. target[t] \in InstanceIds
    BY Zenon, <1>3, TargetType
  <1>5. Follows(t) /\ OwnRegistration
    <2>1. CASE UnregisterReplyLost(t) \/ UnregisterExec(t)
      <3>1. instance' = [instance EXCEPT ![target[t]] = None] /\ seen' = seen
        BY Zenon, <2>1 DEF UnregisterReplyLost, UnregisterExec, UnregisterPipeline, deleteVars
      <3>2. pc'[t] \in {"getContainer", "failed", "error", "list"} /\ pc[t] = "unregisterExec"
        BY Zenon, <2>1, StartDeleteMoves, RaiseMoves DEF UnregisterReplyLost, UnregisterExec
      <3>3. instance'[target[t]] = None
        BY Zenon, <1>4, <3>1 DEF TypeInv, TypeOK, RedisTypeOK
      <3>4. OwnRegistration
        BY Zenon, <3>1, InstancesAssumption DEF OwnRegistration, TypeInv, TypeOK, RedisTypeOK
      <3> QED BY Zenon, <1>1, <3>1, <3>2, <3>3, <3>4 DEF Follows, Deleting
    <2>2. CASE UnregisterGet(t)
      <3>1. instance' = instance /\ seen'[t] = instance[target[t]] /\ pc[t] = "unregisterGet"
        BY Zenon, <2>2 DEF UnregisterGet, redisVars, TypeInv, TypeOK, ThreadTypeOK
      <3>2. \/ pc'[t] = "unregisterExec" /\ instance[target[t]] # None
            \/ pc'[t] \in {"notFound", "list", "prune"}
        BY ZenonT(30), <2>2 DEF UnregisterGet, Goto, AfterKill, TypeInv, TypeOK, ThreadTypeOK
      <3> QED BY Zenon, <1>1, <3>1, <3>2 DEF Follows, Deleting, OwnRegistration
    <2> QED BY Zenon, <2>1, <2>2 DEF KillStep
  <1>6. OnlyHandlesStop
    BY Zenon, <1>1 DEF OnlyHandlesStop
  <1> QED BY ZenonT(30), <1>1, <1>2, <1>3, <1>5, <1>6, ThreadSteps

(* A deletion stops only what it has the handle of. *)
LEMMA DeleteSteps ==
  ASSUME TypeInv, NoReturn, NEW t \in Threads,
         DeleteStep(t) \/ GetRefused(t) \/ DeleteRefused(t) \/ VolumeRefused(t)
           \/ GetVolumeRefused(t)
  PROVE  Steps
  <1>1. /\ UNCHANGED <<instance, seen, target>> /\ MovesOn(t)
        /\ pc[t] \in Deleting \cup {"deleteVolume"}
    BY ZenonT(30), GetContainerType, SkipContainerType, KillType, RemoveType, DeleteVolumeType,
       GetRefusedType, DeleteRefusedType, VolumeRefusedType, GetVolumeRefusedType
    DEF DeleteStep, GetContainer, SkipContainer, Kill, Remove, DeleteVolume, GetRefused,
        DeleteRefused, VolumeRefused, GetVolumeRefused, redisVars, deleteVars, Deleting
  <1>2. \A u \in Threads : u # t => handle'[u] = handle[u]
    BY Zenon
    DEF DeleteStep, GetContainer, SkipContainer, Kill, Remove, DeleteVolume, GetRefused,
        DeleteRefused, VolumeRefused, GetVolumeRefused, deleteVars, TypeInv, TypeOK, ThreadTypeOK
  <1>3. OthersKeep(t)
    BY Zenon, <1>1, <1>2 DEF OthersKeep, MovesOn, TypeInv, TypeOK, ThreadTypeOK
  <1>4. OnlyHandlesStop
    <2>1. CASE Kill(t) \/ Remove(t)
      BY ZenonT(30), <2>1 DEF Kill, Remove, KillContainer, RemoveContainer, OnlyHandlesStop
    <2>2. CASE ~Kill(t) /\ ~Remove(t)
      <3>1. running' = running
        BY Zenon, <2>2
        DEF DeleteStep, GetContainer, SkipContainer, DeleteVolume, GetRefused, DeleteRefused,
            VolumeRefused, GetVolumeRefused, dockerVars, RemoveVolume
      <3> QED BY Zenon, <3>1 DEF OnlyHandlesStop
    <2> QED BY Zenon, <2>1, <2>2
  <1>5. /\ pc'[t] \in Deleting \cup {"deleteVolume", "failed", "deleted", "error", "list", "prune"}
        /\ pc'[t] \in Deleting => pc[t] \in Deleting
    <2>1. CASE pc[t] \in Deleting /\ NextDelete(t)
      BY Zenon, <2>1, NextDeleteMoves DEF Deleting
    <2>2. CASE Raise(t)
      BY Zenon, <2>2, RaiseMoves DEF Deleting
    <2>3. CASE Goto(t, AfterDelete(t))
      BY Zenon, <2>3, AfterDeleteMoves DEF Deleting
    <2>4. CASE pc[t] \in Deleting /\ (Goto(t, "killContainer") \/ Goto(t, "removeContainer"))
      BY Zenon, <2>4 DEF Goto, Deleting, TypeInv, TypeOK, ThreadTypeOK
    <2> QED
      BY ZenonT(30), <2>1, <2>2, <2>3, <2>4
      DEF DeleteStep, GetContainer, SkipContainer, Kill, Remove, DeleteVolume, GetRefused,
          DeleteRefused, VolumeRefused, GetVolumeRefused, Deleting
  <1>6. Advances(t) /\ pc'[t] \notin Unborn
    BY Zenon, <1>5 DEF Advances, Creating, Deleting, Unborn
  <1>7. Follows(t)
    BY Zenon, <1>1, <1>5 DEF Follows, Deleting
  <1>8. OwnRegistration
    BY Zenon, <1>1 DEF OwnRegistration
  <1> QED BY Zenon, <1>1, <1>3, <1>4, <1>6, <1>7, <1>8, ThreadSteps

(* The pruner's round, and a command that Redis refuses. *)
LEMMA QuietSteps ==
  ASSUME TypeInv, NoReturn, NEW t \in Threads, RedisRefuses(t) \/ (t \in Pruners /\ PruneStep(t))
  PROVE  Steps
  <1>1. UNCHANGED <<instance, running, seen, handle>> /\ MovesOn(t)
    BY ZenonT(30), RedisRefusesType, ListExpiredType, FetchInstanceType, PruneType, PruneAbsentType
    DEF RedisRefuses, PruneStep, ListExpired, FetchInstance, Prune, PruneAbsent, redisVars,
        dockerVars, deleteVars
  <1>2. \A u \in Threads : u # t => target'[u] = target[u]
    BY Zenon
    DEF RedisRefuses, PruneStep, ListExpired, FetchInstance, Prune, PruneAbsent, deleteVars,
        TypeInv, TypeOK, ThreadTypeOK
  <1>3. OthersKeep(t)
    BY Zenon, <1>1, <1>2 DEF OthersKeep, MovesOn, TypeInv, TypeOK, ThreadTypeOK
  <1>4. pc'[t] \in {"failed", "error", "list", "fetch", "prune", "unregisterGet"}
    <2>1. CASE Raise(t)
      BY ZenonT(30), <2>1, RaiseMoves
    <2>2. CASE ~Raise(t)
      BY ZenonT(30), <2>2
      DEF RedisRefuses, PruneStep, ListExpired, FetchInstance, Prune, PruneAbsent, Goto, TypeInv,
          TypeOK, ThreadTypeOK
    <2> QED BY Zenon, <2>1, <2>2
  <1>5. Advances(t) /\ pc'[t] \notin Unborn /\ Follows(t)
    BY Zenon, <1>4 DEF Advances, Follows, Creating, Deleting, Unborn
  <1>6. OwnRegistration /\ OnlyHandlesStop
    BY Zenon, <1>1 DEF OwnRegistration, OnlyHandlesStop
  <1> QED BY ZenonT(30), <1>1, <1>3, <1>5, <1>6, ThreadSteps

(* A crash, the clock, and a step that changes nothing. *)
LEMMA OtherSteps ==
  ASSUME TypeInv, NoReturn, Crash \/ Tick \/ UNCHANGED vars
  PROVE  Steps
  <1>1. UNCHANGED <<instance, running, pos, seen, target>>
    BY ZenonT(30) DEF Crash, Tick, vars, redisVars, dockerVars, deleteVars, threadVars
  <1>2. \A t \in Threads : pc'[t] = pc[t] \/ pc'[t] \in {"list", "crashed"}
    BY Zenon DEF Crash, Tick, vars, threadVars
  <1>3. NoRebirth
    BY Zenon, <1>2 DEF NoRebirth, Unborn, Threads
  <1>4. OwnRegistration /\ OnlyHandlesStop
    BY Zenon, <1>1 DEF OwnRegistration, OnlyHandlesStop
  <1>5. \A l \in Launches : Advances(l)
    BY ZenonT(30), <1>1, <1>2 DEF Advances, Creating, Threads
  <1>6. \A t \in Kills \cup Pruners : Follows(t)
    BY Zenon, <1>1, <1>2 DEF Follows, Deleting, Threads
  <1> QED BY Zenon, <1>3, <1>4, <1>5, <1>6 DEF Steps

(* Every step is of that kind. *)
LEMMA NextSteps ==
  ASSUME TypeInv, [Next]_vars
  PROVE  Steps
  <1>1. NoReturn
    BY Zenon, NextNoReturn
  <1> QED
    BY ZenonT(30), <1>1, LaunchSteps, KillSteps, DeleteSteps, QuietSteps, OtherSteps
    DEF Next, Fault, Threads

(* As long as an instance has no competitor it is intact: whatever kills,   *)
(* pruners and faults do, an instance that was answered ok and is registered *)
(* has all its containers running, if no second launch of it got past the    *)
(* existence check.                                                          *)
THEOREM SoleLaunchStaysIntact == Spec => []SoleLaunchIntact
  <1>1. Init => IntactInv
    <2> SUFFICES ASSUME Init PROVE IntactInv
      OBVIOUS
    <2>1. /\ \A l \in Launches : pc[l] = "check"
          /\ \A t \in Kills \cup Pruners : pc[t] \in {"unregisterGet", "list"}
      BY Zenon, InstancesAssumption, OrchestratorAssumption DEF Init, Threads
    <2> QED BY ZenonT(30), <2>1 DEF IntactInv, Unregistered, ExistsOK, Up, Creating, Deleting
  <1>2. TypeInv /\ IndexInv /\ IntactInv /\ [Next]_vars => IntactInv'
    BY Zenon, NextTypeInv, NextSteps, StepsIntact
  <1>3. Spec => []IntactInv
    BY <1>1, <1>2, IndexInvariant, PTL DEF Spec
  <1>4. IntactInv => SoleLaunchIntact
    BY Zenon DEF IntactInv, SoleLaunchIntact, Sole, Up, Unborn
  <1> QED BY <1>3, <1>4, PTL
=============================================================================
