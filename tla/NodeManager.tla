---------------------------- MODULE NodeManager ----------------------------
(***************************************************************************)
(* The server that runs two anvil nodes and a relayer for every access      *)
(* token: AnvilInstance of enterprise-blockchain/package/anvil.py and the   *)
(* handlers of package/main.py. The handlers are coroutines of one process, *)
(* so a step runs from one suspension to the next; a request suspends only  *)
(* while it waits for a node that it has started. A node holds an inherited *)
(* descriptor of its status file, and with it the file's lock.              *)
(***************************************************************************)
EXTENDS Integers, Sequences, FiniteSets

CONSTANTS
    Token,      \* access tokens
    Request,    \* POST /rpc requests
    Pid,        \* process ids
    Port,       \* ports that assign_port tries, in order
    Other,      \* a node of a token that sends no requests any more
    Taken,      \* the sets of ports that such nodes may own
    MaxCrashes, \* bound on nodes that die by themselves
    MaxResets,  \* bound on GET /reset
    MaxRounds,  \* bound on the requests a client sends one after the other
    Null

Kinds == <<"L1", "L2", "RELAYER">>
Node == Token \X {"L1", "L2", "RELAYER"}
Chains == Token \X {"L1", "L2"}
Process == [node : Node, at : {"starting", "up", "dumping", "zombie"}, wired : Seq(Nat)]

ASSUME ManagerAssumption ==
    /\ Null \notin Pid /\ Request \cap Pid = {}
    /\ Null \notin Node /\ Other \notin Node /\ Other # Null /\ Null \notin Process
    /\ Port \subseteq Nat \ {0} /\ Taken \subseteq SUBSET Port
    /\ MaxCrashes \in Nat /\ MaxResets \in Nat /\ MaxRounds \in Nat

VARIABLES
    db,         \* db.json of each node: its pid and port, Null and 0 when absent
    status,     \* contents of each status file
    locks,      \* holders of each status file's lock: requests and processes
    owner,      \* port_owner.<port>
    state,      \* the state file of each node
    proc,       \* process table: Null, or a child of the server
    req,        \* where each request is
    fresh,      \* nodes that GET /reset has killed and that have not started since
    crashes, resets

nodeVars == <<db, status, locks, owner, state, proc, req, fresh, crashes, resets>>

Alive(p) == proc[p] # Null /\ proc[p].at # "zombie"
NodeOf(r, i) == <<req[r].token, Kinds[i]>>
Idle(n) == [at |-> "idle", rounds |-> n]

NodeInit ==
    /\ db = [n \in Node |-> [pid |-> Null, port |-> 0]]
    /\ status = [n \in Node |-> ""]
    /\ locks = [n \in Node |-> {}]
    /\ \E taken \in Taken : owner = [p \in Port |-> IF p \in taken THEN Other ELSE Null]
    /\ state = [n \in Node |-> "absent"]
    /\ proc = [p \in Pid |-> Null]
    /\ req = [r \in Request |-> Idle(0)]
    /\ fresh = {} /\ crashes = 0 /\ resets = 0

-----------------------------------------------------------------------------
(* Variant for mutation testing: somebody's port will do. *)
FirstPortAnybodys(n) == CHOOSE p \in Port : \A q \in Port : p <= q

(* assign_port: the first port that is one's own or nobody's. *)
PortsFor(n) == {p \in Port : owner[p] \in {n, Null}}
FirstPort(n) == CHOOSE p \in PortsFor(n) : \A q \in PortsFor(n) : p <= q

(* Variant for mutation testing: the lock is not inherited. *)
HoldersServer(r, p) == {r}

(* os.set_inheritable and fork: request and process share the lock. *)
Holders(r, p) == {r, p}

StatusAtStart(n) == IF n[2] = "RELAYER" THEN "READY" ELSE ""

(* ready(start_if_not=True) on a node whose lock is free, up to the first   *)
(* suspension. The relayer is not waited for: READY is written and the      *)
(* file closed.                                                             *)
Start(r, n, p) ==
    /\ proc[p] = Null /\ PortsFor(n) # {}
    /\ db' = [db EXCEPT ![n] = [pid |-> p, port |-> FirstPort(n)]]
    /\ owner' = [owner EXCEPT ![FirstPort(n)] = n]
    /\ state' = [state EXCEPT ![n] = IF @ = "absent" THEN "original" ELSE @]
    /\ proc' = [proc EXCEPT ![p] =
          [node |-> n, at |-> IF n[2] = "RELAYER" THEN "up" ELSE "starting",
           wired |-> IF n[2] = "RELAYER"
                     THEN <<db[<<n[1], "L1">>].port, db[<<n[1], "L2">>].port>> ELSE <<>>]]
    /\ status' = [status EXCEPT ![n] = StatusAtStart(n)]
    /\ locks' = [locks EXCEPT ![n] = IF n[2] = "RELAYER" THEN Holders(r, p) \ {r}
                                     ELSE Holders(r, p)]
    /\ fresh' = fresh \ {n}

(* POST /rpc/{lx}/{token}: steps 1 to 3 make each node ready, step 4 the    *)
(* one that is asked for.                                                   *)
Receive(r, t, lx) ==
    /\ req[r].at = "idle" /\ req[r].rounds < MaxRounds
    /\ req' = [req EXCEPT ![r] = [at |-> "ready", step |-> 1, token |-> t, lx |-> lx,
                                  rounds |-> @.rounds + 1]]
    /\ UNCHANGED <<db, status, locks, owner, state, proc, fresh, crashes, resets>>

Target(r) == NodeOf(r, IF req[r].step = 4 THEN req[r].lx ELSE req[r].step)
Continue(r) == IF req[r].step = 4 THEN [req[r] EXCEPT !.at = "call"]
               ELSE [req[r] EXCEPT !.at = "ready", !.step = @ + 1]

(* The lock is held: somebody has started the node. At the last step the    *)
(* answer of ready decides.                                                 *)
Started(r) ==
    /\ req[r].at = "ready" /\ locks[Target(r)] # {}
    /\ req' = [req EXCEPT ![r] =
          IF req[r].step = 4 /\ status[Target(r)] # "READY"
          THEN Idle(req[r].rounds) ELSE Continue(r)]
    /\ UNCHANGED <<db, status, locks, owner, state, proc, fresh, crashes, resets>>

StartNode(r) ==
    /\ req[r].at = "ready" /\ locks[Target(r)] = {}
    /\ \E p \in Pid : Start(r, Target(r), p)
    /\ req' = [req EXCEPT ![r] = IF Target(r)[2] = "RELAYER" THEN Continue(r)
                                 ELSE [@ EXCEPT !.at = "wait"]]
    /\ UNCHANGED <<crashes, resets>>

(* Every child counts until it is waited for: fork may fail, which leaves   *)
(* the lock free and db.json without a pid.                                 *)
ForkFails(r) ==
    /\ req[r].at = "ready" /\ locks[Target(r)] = {}
    /\ PortsFor(Target(r)) # {} /\ \A p \in Pid : proc[p] # Null
    /\ LET n == Target(r)
       IN  /\ db' = [db EXCEPT ![n] = [pid |-> Null, port |-> FirstPort(n)]]
           /\ owner' = [owner EXCEPT ![FirstPort(n)] = n]
           /\ state' = [state EXCEPT ![n] = IF @ = "absent" THEN "original" ELSE @]
           /\ status' = [status EXCEPT ![n] = ""]
    /\ req' = [req EXCEPT ![r] = Idle(req[r].rounds)]
    /\ UNCHANGED <<locks, proc, fresh, crashes, resets>>

(* assign_port finds nothing: db.json is empty by then. *)
NoPort(r) ==
    /\ req[r].at = "ready" /\ locks[Target(r)] = {} /\ PortsFor(Target(r)) = {}
    /\ LET n == Target(r)
       IN  /\ db' = [db EXCEPT ![n] = [pid |-> Null, port |-> 0]]
           /\ state' = [state EXCEPT ![n] = IF @ = "absent" THEN "original" ELSE @]
           /\ status' = [status EXCEPT ![n] = ""]
    /\ req' = [req EXCEPT ![r] = Idle(req[r].rounds)]
    /\ UNCHANGED <<locks, owner, proc, fresh, crashes, resets>>

Release(r, n) == locks' = [locks EXCEPT ![n] = @ \ {r}]

Answers(n) == \E p \in Pid : db[n].pid = p /\ proc[p] # Null /\ proc[p].at \in {"up", "dumping"}

(* _wait_until_ready: the node answers, READY is written, the file closed.  *)
WaitUntilReady(r) ==
    /\ req[r].at = "wait" /\ Answers(Target(r))
    /\ status' = [status EXCEPT ![Target(r)] = "READY"]
    /\ Release(r, Target(r))
    /\ req' = [req EXCEPT ![r] = Continue(r)]
    /\ UNCHANGED <<db, owner, state, proc, fresh, crashes, resets>>

(* Variant for mutation testing: the loop goes on. *)
WaitRaisesRetries(r) == req[r].at = "wait" /\ ~Answers(Target(r)) /\ UNCHANGED nodeVars

(* The pid is gone (EOFError), or the node does not answer yet or no more:  *)
(* aiohttp's errors are no RequestException, and leave the loop, ready and  *)
(* the handler.                                                             *)
WaitRaises(r) ==
    /\ req[r].at = "wait" /\ ~Answers(Target(r))
    /\ Release(r, Target(r))
    /\ req' = [req EXCEPT ![r] = Idle(req[r].rounds)]
    /\ UNCHANGED <<db, status, owner, state, proc, fresh, crashes, resets>>

(* l1.rpc or l2.rpc; an exception becomes an error answer. *)
Call(r) ==
    /\ req[r].at = "call"
    /\ req' = [req EXCEPT ![r] = Idle(req[r].rounds)]
    /\ UNCHANGED <<db, status, locks, owner, state, proc, fresh, crashes, resets>>

-----------------------------------------------------------------------------
(* GET /reset/{token}: kill on each node. Nothing in it suspends.           *)
WithoutPid(d) == [d EXCEPT !.pid = Null]

Victims(t) == {db[n].pid : n \in {t} \X {"L1", "L2", "RELAYER"}} \ {Null}

(* Variant for mutation testing: the state file is left alone. *)
KilledStateKept(n) == state[n]

KilledState(n) == "original"

(* A dump that SIGKILL interrupts may still reach the file after the        *)
(* original state: the process is waited for last.                          *)
Reset(t) ==
    /\ resets < MaxResets /\ resets' = resets + 1
    /\ LET killed == {n \in {t} \X {"L1", "L2", "RELAYER"} : db[n].pid # Null}
           dumping == {n \in killed : proc[db[n].pid] # Null /\ proc[db[n].pid].at = "dumping"}
       IN  /\ \E torn \in SUBSET dumping :
                state' = [n \in Node |-> IF n \in torn THEN "torn"
                                         ELSE IF n \in killed THEN KilledState(n) ELSE state[n]]
           /\ fresh' = (fresh \cup killed) \ dumping
           /\ db' = [n \in Node |-> IF n \in killed THEN WithoutPid(db[n]) ELSE db[n]]
    /\ proc' = [p \in Pid |-> IF p \in Victims(t) THEN Null ELSE proc[p]]
    /\ locks' = [n \in Node |-> locks[n] \ Victims(t)]
    /\ UNCHANGED <<status, owner, req, crashes>>

-----------------------------------------------------------------------------
(* The processes: a node begins to listen, dumps its state every five       *)
(* seconds, and may die. Nobody waits for a child that dies by itself, so   *)
(* its pid is not given out again.                                          *)
NodeStep(p, from, to) ==
    /\ proc[p] # Null /\ proc[p].at = from
    /\ proc' = [proc EXCEPT ![p].at = to]
    /\ UNCHANGED <<db, status, locks, owner, req, fresh, crashes, resets>>

Listen(p) == NodeStep(p, "starting", "up") /\ UNCHANGED state
DumpBegin(p) ==
    /\ NodeStep(p, "up", "dumping") /\ proc[p].node \in Chains
    /\ UNCHANGED state
DumpEnd(p) ==
    NodeStep(p, "dumping", "up") /\ state' = [state EXCEPT ![proc[p].node] = "dumped"]

Crash(p) ==
    /\ Alive(p) /\ crashes < MaxCrashes /\ crashes' = crashes + 1
    /\ proc' = [proc EXCEPT ![p].at = "zombie"]
    /\ locks' = [n \in Node |-> locks[n] \ {p}]
    /\ state' = [state EXCEPT ![proc[p].node] = IF proc[p].at = "dumping" THEN "torn" ELSE @]
    /\ UNCHANGED <<db, status, owner, req, fresh, resets>>

Step(r) ==
    \/ Started(r) \/ StartNode(r) \/ ForkFails(r) \/ NoPort(r)
    \/ WaitUntilReady(r) \/ WaitRaises(r) \/ Call(r)

NodeNext ==
    \/ \E r \in Request : Step(r) \/ \E t \in Token, lx \in {1, 2} : Receive(r, t, lx)
    \/ \E t \in Token : Reset(t)
    \/ \E p \in Pid : Listen(p) \/ DumpBegin(p) \/ DumpEnd(p) \/ Crash(p)

NodeSpec == NodeInit /\ [][NodeNext]_nodeVars
NodeFairSpec == NodeSpec /\ \A r \in Request : WF_nodeVars(Step(r))

-----------------------------------------------------------------------------
(* A node runs at most once, and whoever asks finds its lock held. What     *)
(* runs can be reset, and reset signals nothing else: the pid on file is    *)
(* that of the node's own process, alive or not yet waited for.             *)
OneProcess ==
    /\ \A p, q \in Pid : Alive(p) /\ Alive(q) /\ proc[p].node = proc[q].node => p = q
    /\ \A p \in Pid : Alive(p) => p \in locks[proc[p].node] /\ db[proc[p].node].pid = p
    /\ \A n \in Node : db[n].pid # Null => proc[db[n].pid] # Null /\ proc[db[n].pid].node = n

(* The relayer of a token talks to the two nodes of that token, through     *)
(* every restart and reset of them.                                         *)
RelayerWired ==
    \A p \in Pid : Alive(p) /\ proc[p].node[2] = "RELAYER" =>
        \A i \in {1, 2} : /\ proc[p].wired[i] \in Port
                          /\ owner[proc[p].wired[i]] = <<proc[p].node[1], Kinds[i]>>

(* A chain that was reset, with no dump under way, starts from the original *)
(* state.                                                                   *)
ResetRestores == \A n \in fresh : state[n] = "original"

(* A request is answered, whoever else starts or resets nodes. *)
RequestAnswered == \A r \in Request : req[r].at # "idle" ~> req[r].at = "idle"
=============================================================================
