---------------------------- MODULE ShardCtrler -----------------------------
(***************************************************************************)
(* The shard controller of src/shardctrler: its clerks, the handlers of    *)
(* their requests, and the state machine that executes what was committed. *)
(*                                                                         *)
(* The replicas are told apart only by how far they are in the log: a      *)
(* server that handles a request may not have executed the newest commands *)
(* (KVRaft has the logs and the waiting handlers, which are the same       *)
(* pattern here).  A command that was started may be committed at any      *)
(* later time, as often as it was started again, or never.                 *)
(***************************************************************************)
EXTENDS ShardConfig

CONSTANTS
    Clerk,        \* the clerks
    Request,      \* bound: the requests that clients make
    MaxRequests   \* bound: how many requests all clerks together make

ASSUME ShardCtrlerAssumption == MaxRequests \in Nat

Idle == [OpType |-> "None"]
None == [Num |-> -1]   \* no reply yet

VARIABLES
    configs, LastRequestMap,   \* a replica after the committed commands
    started,                   \* the commands in the logs that are yet to be applied
    request, RequestId,        \* a clerk: the arguments of its call, its counter
    reply,                     \* the reply to the call it waits for
    called, effect, got        \* history: see ConfigService

serverVars == <<configs, LastRequestMap>>
clerkVars == <<request, RequestId>>
history == <<called, effect, got>>
vars == <<configs, LastRequestMap, started, request, RequestId, reply,
          called, effect, got>>

last == configs[Len(configs)]

Init ==
    /\ configs = <<NoConfig>> /\ LastRequestMap = [c \in Clerk |-> -1]
    /\ started = {}
    /\ request = [c \in Clerk |-> Idle] /\ RequestId = [c \in Clerk |-> 0]
    /\ reply = [c \in Clerk |-> None]
    /\ called = [c \in Clerk |-> 0] /\ effect = [c \in Clerk |-> FALSE]
    /\ got = [c \in Clerk |-> NoConfig]

-----------------------------------------------------------------------------
(* The clerk *)

\* Bound: requests made so far.
Made == LET made(c) == RequestId[c] + (IF request[c] = Idle THEN 0 ELSE 1)
        IN MapThenSumSet(made, Clerk)

Calls(c, args) ==
    /\ request[c] = Idle /\ args \in Request /\ Made < MaxRequests
    /\ request' = [request EXCEPT ![c] = args]
    /\ called' = [called EXCEPT ![c] = Len(configs)]
    /\ UNCHANGED <<serverVars, started, RequestId, reply, effect, got>>

ClerkQuery(c, num) == Calls(c, [OpType |-> "Query", Num |-> num])
ClerkJoin(c, gids) == Calls(c, [OpType |-> "Join", GIDs |-> gids])
ClerkLeave(c, gids) == Calls(c, [OpType |-> "Leave", GIDs |-> gids])
\* Clients move shards to groups that have joined.
ClerkMove(c, shard, gid) ==
    gid \in last.Groups /\ Calls(c, [OpType |-> "Move", Shard |-> shard, GID |-> gid])

\* The reply reaches the clerk.
Return(c) ==
    /\ reply[c] # None
    /\ request' = [request EXCEPT ![c] = Idle]
    /\ RequestId' = [RequestId EXCEPT ![c] = @ + 1]
    /\ reply' = [reply EXCEPT ![c] = None]
    /\ got' = IF request[c].OpType = "Query" THEN [got EXCEPT ![c] = reply[c]] ELSE got
    /\ called' = [called EXCEPT ![c] = 0]
    /\ effect' = [effect EXCEPT ![c] = FALSE]
    /\ UNCHANGED <<serverVars, started>>

-----------------------------------------------------------------------------
(* The handlers *)

\* A command is started: the reply waits until it is applied.
Start(c) ==
    /\ started' = started \cup
         {[ClientId |-> c, RequestId |-> RequestId[c], args |-> request[c]]}
    /\ reply' = [reply EXCEPT ![c] = None]

\* Mutant of Handler: a request that was executed is refused.
HandlerRefuses(c, type, executed) ==
    /\ request[c].OpType = type
    /\ IF RequestId[c] <= executed
       THEN reply' = [reply EXCEPT ![c] = None] /\ UNCHANGED started
       ELSE Start(c)
    /\ UNCHANGED <<serverVars, clerkVars, history>>

\* The clerk calls a server that has executed its requests up to executed: it
\* is the first call, or the one before failed.  A request that was executed is
\* answered OK, with an empty configuration; another one is started.
Handler(c, type, executed) ==
    /\ request[c].OpType = type
    /\ IF RequestId[c] <= executed
       THEN reply' = [reply EXCEPT ![c] = NoConfig] /\ UNCHANGED started
       ELSE Start(c)
    /\ UNCHANGED <<serverVars, clerkVars, history>>

Join(c, executed) == Handler(c, "Join", executed)
Leave(c, executed) == Handler(c, "Leave", executed)
Move(c, executed) == Handler(c, "Move", executed)
Query(c, executed) == Handler(c, "Query", executed)

-----------------------------------------------------------------------------
(* The applier *)


\* A clerk that is not in the map is -1 here.
isInvalidRequest(c, id) == id <= LastRequestMap[c]

UpdateLastRequest(c, id) ==
    LastRequestMap' = [LastRequestMap EXCEPT ![c] = IF @ < id THEN id ELSE @]

\* The configuration a Join, Leave or Move makes.
Processed(config, args) ==
    CASE args.OpType = "Join" -> processJoin(config, args.GIDs)
      [] args.OpType = "Leave" -> processLeave(config, args.GIDs)
      [] args.OpType = "Move" -> processMove(config, args.Shard, args.GID)

Found(seq, args) == processQuery(seq, args.Num)

\* The handler that waits for the command is given the result.
notifyWaitCh(m, result) ==
    reply' = IF request[m.ClientId] = m.args /\ RequestId[m.ClientId] = m.RequestId
             THEN [reply EXCEPT ![m.ClientId] = result] ELSE reply

\* A copy of the command is applied; the log may hold more of them.
Applied(m) == started' \in {started, started \ {m}}

\* A repeated request changes nothing; for its handler it was executed, with
\* the empty Configure of the new command.
Skip(m) ==
    /\ isInvalidRequest(m.ClientId, m.RequestId)
    /\ notifyWaitCh(m, NoConfig)
    /\ Applied(m)
    /\ UNCHANGED <<serverVars, clerkVars, history>>

ExecuteWrite(m) ==
    /\ ~isInvalidRequest(m.ClientId, m.RequestId) /\ m.args.OpType # "Query"
    /\ configs' = Append(configs, Processed(last, m.args))
    /\ UpdateLastRequest(m.ClientId, m.RequestId)
    /\ notifyWaitCh(m, NoConfig)
    /\ Applied(m)
    /\ effect' = [effect EXCEPT ![m.ClientId] = TRUE]
    /\ UNCHANGED <<clerkVars, called, got>>

ExecuteQuery(m) ==
    /\ ~isInvalidRequest(m.ClientId, m.RequestId) /\ m.args.OpType = "Query"
    /\ UpdateLastRequest(m.ClientId, m.RequestId)
    /\ notifyWaitCh(m, Found(configs, m.args))
    /\ Applied(m)
    /\ UNCHANGED <<configs, clerkVars, history>>

-----------------------------------------------------------------------------
\* Some server handles the request of a clerk.
Handle(c, executed) ==
    Join(c, executed) \/ Leave(c, executed) \/ Move(c, executed) \/ Query(c, executed)

Execute(m) == Skip(m) \/ ExecuteWrite(m) \/ ExecuteQuery(m)

Next ==
    \/ \E c \in Clerk :
         \/ \E num \in -1 .. MaxRequests : ClerkQuery(c, num)
         \/ \E gids \in SUBSET Gid \ {{}} : ClerkJoin(c, gids) \/ ClerkLeave(c, gids)
         \/ \E shard \in Shard, gid \in Gid : ClerkMove(c, shard, gid)
         \/ \E executed \in -1 .. LastRequestMap[c] : Handle(c, executed)
         \/ Return(c)
    \/ \E m \in started : Execute(m)

\* A clerk asks one server after the other until the leader, which has executed
\* what is committed, answers; it commits what it starts.
Fairness ==
    \A c \in Clerk :
        /\ SF_vars(\/ Handle(c, LastRequestMap[c])
                   \/ \E m \in started : m.ClientId = c /\ Execute(m))
        /\ SF_vars(Return(c))

Spec == Init /\ [][Next]_vars /\ Fairness

-----------------------------------------------------------------------------
(* Properties *)

\* Configurations are well formed and numbered by their place in sc.configs,
\* which is where Query looks them up; the filter of repeated requests is never
\* ahead of the clerk.
TypeOK ==
    /\ \A n \in 1 .. Len(configs) : configs[n] \in Config /\ configs[n].Num = n - 1
    /\ request \in [Clerk -> Request \cup {Idle}] /\ RequestId \in [Clerk -> Nat]
    /\ \A c \in Clerk : LastRequestMap[c] \in {RequestId[c] - 1, RequestId[c]}
    /\ reply \in [Clerk -> Config \cup {None}]


\* A Join or Leave that leads to the present groups spreads the shards evenly
\* over them, whatever Moves came before: no two members differ by more than one.
Balanced == last.Groups # {} => SpreadsEvenly[last.Groups]

\* All replicas compute the same configuration: what adjustShards returns does
\* not depend on the order in which Go iterates over the map of the groups.
ReplicasAgree == last.Groups # {} => OrderIrrelevant[last.Groups]

\* Join and Leave move as few shards as an even assignment allows: no other
\* even assignment differs from the old one in fewer shards.
MovesFewest == last.Groups # {} => NoneMovesFewer[last.Groups]

\* For its clerks the controller is one linearizable sequence of
\* configurations: retries, late copies of a command and servers that are
\* behind make no configuration twice, skip none and show no old one.
Service == INSTANCE ConfigService WITH pending <- request, Made <- Processed

Linearizable == Service!Spec

\* Every request returns, however many replies are lost.
RequestsReturn == \A c \in Clerk : (request[c] # Idle) ~> (request[c] = Idle)
=============================================================================
