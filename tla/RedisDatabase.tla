--------------------------- MODULE RedisDatabase ---------------------------
(***************************************************************************)
(* The instance registry the servers share: ctf_server/databases/redisdb.py *)
(*                                                                         *)
(* One variable per Redis key family.  A UserData document is identified    *)
(* with the create request (launch) that produced it: its instance_id is    *)
(* InstanceOf[l] and its external_id, 24 random letters, is unique to it.   *)
(* Every pipeline() is a MULTI/EXEC transaction, hence one atomic step;     *)
(* a method that issues two commands is two operators here, and the         *)
(* processes that call it take two steps.                                   *)
(***************************************************************************)
EXTENDS Instances

CONSTANT TicksPerSecond    \* resolution of time.time() in the model

ASSUME RedisAssumption == TicksPerSecond \in Nat \ {0}

VARIABLES
    instance,         \* instance/{id}: JSON document
    external_ids,     \* hash external_ids: external_id -> instance_id
    expiries,         \* sorted set expiries: instance_id -> int(expires_at)
    metadata          \* metadata/{id}: the launch whose challenge_address it holds

redisVars == <<instance, external_ids, expiries, metadata>>

RedisInit ==
    /\ instance = [id \in InstanceIds |-> None]
    /\ external_ids = [l \in Launches |-> None]
    /\ expiries = [id \in InstanceIds |-> None]
    /\ metadata = [id \in InstanceIds |-> None]

RedisTypeOK ==
    /\ instance \in [InstanceIds -> Launches \cup {None}]
    /\ external_ids \in [Launches -> InstanceIds \cup {None}]
    /\ expiries \in [InstanceIds -> Nat \cup {None}]
    /\ metadata \in [InstanceIds -> Launches \cup {None}]

(* int(time.time()), int(expires_at): truncation to whole seconds. *)
Seconds(t) == t \div TicksPerSecond

(* register_instance: JSON.SET, HSET and ZADD in one transaction. *)
RegisterInstance(l, expires) ==
    /\ instance' = [instance EXCEPT ![InstanceOf[l]] = l]
    /\ external_ids' = [external_ids EXCEPT ![l] = InstanceOf[l]]
    /\ expiries' = [expiries EXCEPT ![InstanceOf[l]] = Seconds(expires)]
    /\ UNCHANGED metadata

(* Mutant: ZREM forgotten. *)
UnregisterPipelineKeepsExpiry(id, l) ==
    /\ instance' = [instance EXCEPT ![id] = None]
    /\ external_ids' = [external_ids EXCEPT ![l] = None]
    /\ metadata' = [metadata EXCEPT ![id] = None]
    /\ UNCHANGED expiries

(* unregister_instance, second half: JSON.DEL, HDEL of the external_id read *)
(* by the first half, ZREM and DEL of the metadata in one transaction.      *)
UnregisterPipeline(id, l) ==
    /\ instance' = [instance EXCEPT ![id] = None]
    /\ external_ids' = [external_ids EXCEPT ![l] = None]
    /\ expiries' = [expiries EXCEPT ![id] = None]
    /\ metadata' = [metadata EXCEPT ![id] = None]

(* update_metadata: HSET, whether or not the instance exists. *)
HSetMetadata(id, l) ==
    /\ metadata' = [metadata EXCEPT ![id] = l]
    /\ UNCHANGED <<instance, external_ids, expiries>>

(* get_expired_instances: ZRANGE expiries 0 int(time) BYSCORE. *)
ExpiredIds(time) ==
    {id \in InstanceIds : expiries[id] # None /\ expiries[id] <= Seconds(time)}
=============================================================================
