------------------------------ MODULE ShardKV -------------------------------
(***************************************************************************)
(* The groups of src/shardkv: how they follow the configurations of the    *)
(* shard controller one by one, pull the shards they gain, have the old    *)
(* owner delete them, and serve the clerks meanwhile.                      *)
(*                                                                         *)
(* A group is the state machine that its log drives (KVRaft has the        *)
(* waiting handlers and the applier, which are the same code here), and a  *)
(* replica that is behind and may still take itself for the leader.  The   *)
(* monitors and the clerks repeat their requests without limit, so what    *)
(* was sent or started once may arrive or be committed at any later time,  *)
(* any number of times, or never: the sets of messages only grow.  A shard *)
(* holds one key, whose value is the sequence of the requests that wrote   *)
(* it.                                                                     *)
(***************************************************************************)
EXTENDS Integers, Sequences, FiniteSetsExt

CONSTANTS
    Gid,          \* the groups
    Shard,        \* the shards
    Clerk,        \* the clerks
    Used,         \* bound: the shards of the keys that clients use
    OpType,       \* what clients call: some of "Get", "Put" and "Append"
    Lagging,      \* bound: the groups with a replica that lags behind
    Plans,        \* bound: what the controller may assign the shards to, in turn
    MaxRequests,  \* bound: operations a clerk calls
    MaxEvents     \* bound: configurations made and operations called, together

ASSUME ShardKVAssumption ==
    /\ Gid \subseteq Nat \ {0} /\ Lagging \subseteq Gid /\ Used \subseteq Shard
    /\ MaxRequests \in Nat /\ MaxEvents \in Nat
    /\ OpType \subseteq {"Get", "Put", "Append"}
    /\ \A p \in Plans : p \in Seq([Shard -> Gid])

Idle == [OpType |-> "None", Shard |-> CHOOSE s \in Shard : TRUE, RequestId |-> 0]
Operation == [OpType : OpType, Shard : Shard, RequestId : 0 .. (MaxRequests - 1)]
Config == [Num : Nat, Shards : [Shard -> Gid \cup {0}]]
NoConfig == [Num |-> 0, Shards |-> [s \in Shard |-> 0]]

VARIABLES
    configs,    \* the configurations of the controller; configs[n+1] has Num n
    kv,         \* the state of a group after its committed commands
    behind,     \* the state of a replica that has not applied all of them
    pulls,      \* GetShards requests
    adding, inserting, deleting, adjusting,  \* started commands of a group
    ops,        \* and its started client commands
    replies,    \* replies OK to the call a clerk waits for
    op, RequestId, config,  \* a clerk: its operation and its fields
    value,      \* history: what was written to a shard
    effect,     \* history: whether the write a clerk waits for was executed
    seen,       \* history: the values of its shard since the call
    got         \* history: what its last Get returned

serverVars == <<kv, behind>>
commandVars == <<adding, inserting, deleting, adjusting>>
rpcVars == <<ops, replies>>
clerkVars == <<op, RequestId, config>>
history == <<value, effect, seen, got>>
vars == <<configs, kv, behind, pulls, adding, inserting, deleting, adjusting,
          ops, replies, op, RequestId, config, value, effect, seen, got>>

\* Bound: there may be another configuration or operation.
Calls(c) == IF op[c] = Idle THEN RequestId[c] ELSE RequestId[c] + 1
MoreEvents == Len(configs) - 1 + MapThenSumSet(Calls, Clerk) < MaxEvents

-----------------------------------------------------------------------------
(* The controller, as the groups and the clerks see it *)

\* Join, Leave or Move makes the next configuration of a plan.
NextConfig(plan) ==
    /\ Len(plan) >= Len(configs) /\ MoreEvents
    /\ \A n \in 1 .. (Len(configs) - 1) : configs[n + 1].Shards = plan[n]
    /\ configs' = Append(configs, [Num |-> Len(configs),
                                   Shards |-> plan[Len(configs)]])
    /\ UNCHANGED <<serverVars, pulls, commandVars, rpcVars, clerkVars, history>>

\* Query(-1) answers the newest configuration; a Query whose first answer was
\* lost is answered with an empty one, as it is filtered like a write.
Queried == {configs[Len(configs)], NoConfig}

-----------------------------------------------------------------------------
(* The state machine of group g *)

InState(st, state) == {s \in Shard : st.shards[s].State = state}

\* Mutant of checkShardAndState: the old owner goes on serving.
checkShardAndStateBePulling(st, g, s) ==
    st.shards[s].State # "Pulling" /\
    (st.currentConfig.Shards[s] = g \/ st.shards[s].State = "BePulling")

checkShardAndState(st, g, s) ==
    /\ st.currentConfig.Shards[s] = g
    /\ st.shards[s].State \in {"Serving", "GCing"}

\* A clerk that is not in the map is -1 here.
isInvalidRequest(st, c, request) == request <= st.LastRequestMap[c]

Written(c, o, old) ==
    CASE o.OpType = "Put" -> <<<<c, o.RequestId>>>>
      [] o.OpType = "Append" -> Append(old, <<c, o.RequestId>>)
      [] OTHER -> old

\* The states a shard gets with a new configuration.  A shard that comes from
\* or goes to no group at all keeps its state.
Reassigned(st, g, new, s) ==
    LET old == st.currentConfig.Shards[s]
    IN IF new.Shards[s] = g /\ old \notin {g, 0} THEN "Pulling"
       ELSE IF old = g /\ new.Shards[s] \notin {g, 0} THEN "BePulling"
       ELSE st.shards[s].State

\* Mutant of processAddConfig: any configuration is taken.
processAddConfigAny(st, g, new) ==
    [st EXCEPT
       !.shards = [s \in Shard |->
                      [@[s] EXCEPT !.State = Reassigned(st, g, new, s)]],
       !.lastConfig = st.currentConfig, !.currentConfig = new]

processAddConfig(st, g, new) ==
    IF new.Num # st.currentConfig.Num + 1 THEN st
    ELSE [st EXCEPT
            !.shards = [s \in Shard |->
                           [@[s] EXCEPT !.State = Reassigned(st, g, new, s)]],
            !.lastConfig = st.currentConfig, !.currentConfig = new]

\* Mutant of MergedMap: the map of the old owner is not taken over.
MergedMapNot(st, m) == st.LastRequestMap

MergedMap(st, m) ==
    [c \in Clerk |-> Max({m.LastRequestMap[c], st.LastRequestMap[c]})]

\* The key is copied over when the pulled shard has it.
Copied(local, pulled) == IF pulled = <<>> THEN local ELSE pulled

processInsertShard(st, m) ==
    IF m.ConfigNum # st.currentConfig.Num THEN st
    ELSE [st EXCEPT
            !.shards = [s \in Shard |->
                IF s \in DOMAIN m.Shards /\ @[s].State = "Pulling"
                THEN [db |-> Copied(@[s].db, m.Shards[s]), State |-> "GCing"]
                ELSE @[s]],
            !.LastRequestMap = MergedMap(st, m)]

processDeleteShard(st, m) ==
    IF m.ConfigNum # st.currentConfig.Num THEN st
    ELSE [st EXCEPT !.shards = [s \in Shard |->
            IF s \in m.ShardIds /\ @[s].State = "BePulling"
            THEN [db |-> <<>>, State |-> "Serving"] ELSE @[s]]]

processAdjustGCingShard(st, m) ==
    IF m.ConfigNum # st.currentConfig.Num THEN st
    ELSE [st EXCEPT !.shards = [s \in Shard |->
            IF s \in m.ShardIds THEN [@[s] EXCEPT !.State = "Serving"] ELSE @[s]]]

-----------------------------------------------------------------------------
(* The monitors, and the requests between the groups *)

\* Mutant of Stable: the group does not wait for its migrations.
StableAlways(st) == TRUE

\* No shard of the group is on its way.
Stable(st) == InState(st, "Serving") = Shard

\* When nothing is on its way, the next configuration is queried.
monitorRequestConfig(g) ==
    /\ Stable(kv[g]) /\ kv[g].currentConfig.Num + 2 <= Len(configs)
    /\ adding' = [adding EXCEPT
          ![g] = @ \cup {configs[kv[g].currentConfig.Num + 2]}]
    /\ UNCHANGED <<configs, serverVars, pulls, inserting, deleting, adjusting,
                   rpcVars, clerkVars, history>>

\* The shards of group g in a state that had group h as owner before.
ShardIds(g, state, h) ==
    {s \in InState(kv[g], state) : kv[g].lastConfig.Shards[s] = h}

\* Shards that are to be pulled are asked of their old owner h.
monitorInsert(g, h) ==
    /\ ShardIds(g, "Pulling", h) # {}
    /\ pulls' = pulls \cup
          {[from |-> g, to |-> h, ConfigNum |-> kv[g].currentConfig.Num,
            ShardIds |-> ShardIds(g, "Pulling", h)]}
    /\ UNCHANGED <<configs, serverVars, commandVars, rpcVars, clerkVars, history>>


HasReached(st, m) == m.ConfigNum = st.currentConfig.Num

Offered(st, m) == m.ShardIds \cap InState(st, "BePulling")

\* A replica with state st that takes itself for the leader of the old owner
\* answers, and the new owner starts InsertShard with the answer.
GetShards(m, st) ==
    /\ HasReached(st, m)
    /\ inserting' = [inserting EXCEPT ![m.from] = @ \cup
          {[ConfigNum |-> m.ConfigNum, LastRequestMap |-> st.LastRequestMap,
            Shards |-> [s \in Offered(st, m) |-> st.shards[s].db]]}]
    /\ UNCHANGED <<configs, serverVars, pulls, adding, deleting, adjusting, rpcVars,
                   clerkVars, history>>

\* Mutant of Inserted: deletion is asked for while the shard is being pulled.
InsertedEarly(g, h) == ShardIds(g, "GCing", h) \cup ShardIds(g, "Pulling", h)

Inserted(g, h) == ShardIds(g, "GCing", h)

\* Shards that were inserted are to be deleted at their old owner h, where
\* DeleteShards starts a command.
monitorGC(g, h) ==
    /\ Inserted(g, h) # {}
    /\ deleting' = [deleting EXCEPT ![h] = @ \cup
          {[from |-> g, ConfigNum |-> kv[g].currentConfig.Num,
            ShardIds |-> Inserted(g, h)]}]
    /\ UNCHANGED <<configs, serverVars, pulls, adding, inserting, adjusting, rpcVars,
                   clerkVars, history>>

-----------------------------------------------------------------------------
(* The applier: a command is committed and executed *)

AddConfig(g, new) ==
    /\ kv' = [kv EXCEPT ![g] = processAddConfig(@, g, new)]
    /\ UNCHANGED <<configs, behind, pulls, commandVars, rpcVars, clerkVars,
                   history>>

InsertShard(g, m) ==
    /\ kv' = [kv EXCEPT ![g] = processInsertShard(@, m)]
    /\ UNCHANGED <<configs, behind, pulls, commandVars, rpcVars, clerkVars,
                   history>>

DeleteIsOK(g, m) == m.ConfigNum <= kv[g].currentConfig.Num

\* The answer of DeleteShards may reach the new owner, which then starts
\* AdjustShardState.
DeleteShard(g, m, answered) ==
    /\ kv' = [kv EXCEPT ![g] = processDeleteShard(@, m)]
    /\ adjusting' = IF answered /\ DeleteIsOK(g, m)
                    THEN [adjusting EXCEPT ![m.from] = @ \cup
                            {[ConfigNum |-> m.ConfigNum, ShardIds |-> m.ShardIds]}]
                    ELSE adjusting
    /\ UNCHANGED <<configs, behind, pulls, adding, inserting, deleting, rpcVars,
                   clerkVars, history>>

AdjustShardState(g, m) ==
    /\ kv' = [kv EXCEPT ![g] = processAdjustGCingShard(@, m)]
    /\ UNCHANGED <<configs, behind, pulls, commandVars, rpcVars, clerkVars,
                   history>>

\* What a snapshot holds and readPersist takes from it.
encodeState(st) ==
    [shards |-> st.shards, LastRequestMap |-> st.LastRequestMap,
     lastConfig |-> st.lastConfig, currentConfig |-> st.currentConfig]

\* The replica that was behind applies what it has missed, or installs a
\* snapshot of it.  Its monitors, if it takes itself for the leader, repeat what
\* those of the group sent when it was in that state.
CatchUp(g) ==
    /\ g \in Lagging
    /\ behind' = [behind EXCEPT ![g] = encodeState(kv[g])]
    /\ UNCHANGED <<configs, kv, pulls, commandVars, rpcVars, clerkVars, history>>

-----------------------------------------------------------------------------
(* The clerks *)

\* The group a clerk takes for the owner of its shard; 0 is no group.
Target(c) == config[c].Shards[op[c].Shard]

\* A client calls Get, Put or Append of a clerk.
Call(c, type, s) ==
    /\ op[c] = Idle /\ RequestId[c] < MaxRequests /\ MoreEvents
    /\ op' = [op EXCEPT ![c] = [OpType |-> type, Shard |-> s,
                                RequestId |-> RequestId[c]]]
    /\ seen' = [seen EXCEPT ![c] = {value[s]}]
    /\ UNCHANGED <<configs, serverVars, pulls, commandVars, rpcVars, RequestId,
                   config, value, effect, got>>

\* The clerk has OK from the group it calls.
Receive(c, result) ==
    /\ result \in replies[c]
    /\ op' = [op EXCEPT ![c] = Idle]
    /\ RequestId' = [RequestId EXCEPT ![c] = @ + 1]
    /\ got' = IF op[c].OpType = "Get"
              THEN [got EXCEPT ![c][op[c].Shard] = result] ELSE got
    /\ replies' = [replies EXCEPT ![c] = {}]
    /\ seen' = [seen EXCEPT ![c] = {}]
    /\ effect' = [effect EXCEPT ![c] = FALSE]
    /\ UNCHANGED <<configs, serverVars, pulls, commandVars, ops, config, value>>


\* No server of the group answers OK, or the answer is lost: the clerk asks
\* for the configuration and goes round its loop.
Requery(c, answer) ==
    /\ op[c] # Idle
    /\ config' = [config EXCEPT ![c] = answer]
    /\ replies' = [replies EXCEPT ![c] = {}]
    /\ UNCHANGED <<configs, serverVars, pulls, commandVars, ops, op, RequestId,
                   history>>

-----------------------------------------------------------------------------
(* Get and PutAppend *)

\* Group g answers message m, if the clerk still waits for that.
Reply(g, m, result) ==
    replies' = IF op[m.clerk] = m.op /\ Target(m.clerk) = g
               THEN [replies EXCEPT ![m.clerk] = @ \cup {result}] ELSE replies

\* The clerk calls a server of the group, a replica with state st: a shard
\* that is not served is refused with ErrWrongGroup, a write that was executed
\* is answered, and the rest is started.
Handle(c, g, st) ==
    /\ op[c] # Idle /\ Target(c) = g
    /\ checkShardAndState(st, g, op[c].Shard)
    /\ LET m == [clerk |-> c, op |-> op[c]]
       IN IF op[c].OpType # "Get" /\ isInvalidRequest(st, c, op[c].RequestId)
          THEN Reply(g, m, <<>>) /\ UNCHANGED ops
          ELSE ops' = [ops EXCEPT ![g] = @ \cup {m}] /\ UNCHANGED replies
    /\ UNCHANGED <<configs, serverVars, pulls, commandVars, clerkVars, history>>

Executes(st, m) ==
    m.op.OpType = "Get" \/ ~isInvalidRequest(st, m.clerk, m.op.RequestId)

\* History: write m is executed.
RecordWrite(m) ==
    LET s == m.op.Shard
        new == Written(m.clerk, m.op, value[s])
    IN /\ value' = [value EXCEPT ![s] = new]
       /\ effect' = [effect EXCEPT ![m.clerk] = @ \/ op[m.clerk] = m.op]
       /\ seen' = [d \in Clerk |-> IF op[d] # Idle /\ op[d].Shard = s
                                   THEN seen[d] \cup {new} ELSE seen[d]]

\* The command is executed, if the group still serves the shard by then.
processGetPutAppend(g, m) ==
    LET s == m.op.Shard
    IN /\ checkShardAndState(kv[g], g, s)
       /\ kv' = IF ~Executes(kv[g], m) THEN kv
                ELSE [kv EXCEPT
                        ![g].shards[s].db = Written(m.clerk, m.op, @),
                        ![g].LastRequestMap[m.clerk] = Max({@, m.op.RequestId})]
       /\ IF Executes(kv[g], m) /\ m.op.OpType # "Get" THEN RecordWrite(m)
          ELSE UNCHANGED <<value, effect, seen>>
       /\ Reply(g, m, IF m.op.OpType = "Get" THEN kv[g].shards[s].db ELSE <<>>)
       /\ UNCHANGED <<configs, behind, pulls, commandVars, ops, clerkVars, got>>

-----------------------------------------------------------------------------
NewGroup == [currentConfig |-> NoConfig, lastConfig |-> NoConfig,
             shards |-> [s \in Shard |-> [db |-> <<>>, State |-> "Serving"]],
             LastRequestMap |-> [c \in Clerk |-> -1]]

Init ==
    /\ configs = <<NoConfig>>
    /\ kv = [g \in Gid |-> NewGroup] /\ behind = kv
    /\ pulls = {}
    /\ adding = [g \in Gid |-> {}] /\ inserting = adding
    /\ deleting = adding /\ adjusting = adding /\ ops = adding
    /\ op = [c \in Clerk |-> Idle] /\ RequestId = [c \in Clerk |-> 0]
    /\ config = [c \in Clerk |-> NoConfig]
    /\ replies = [c \in Clerk |-> {}]
    /\ value = [s \in Shard |-> <<>>]
    /\ effect = [c \in Clerk |-> FALSE] /\ seen = [c \in Clerk |-> {}]
    /\ got = [c \in Clerk |-> [s \in Shard |-> <<>>]]

Next ==
    \/ \E plan \in Plans : NextConfig(plan)
    \/ \E g \in Gid :
         \/ monitorRequestConfig(g) \/ CatchUp(g)
         \/ \E h \in Gid : monitorInsert(g, h) \/ monitorGC(g, h)
         \/ \E new \in adding[g] : AddConfig(g, new)
         \/ \E m \in inserting[g] : InsertShard(g, m)
         \/ \E m \in deleting[g], answered \in BOOLEAN : DeleteShard(g, m, answered)
         \/ \E m \in adjusting[g] : AdjustShardState(g, m)
         \/ \E c \in Clerk, st \in {kv[g], behind[g]} : Handle(c, g, st)
         \/ \E m \in ops[g] : processGetPutAppend(g, m)
    \/ \E m \in pulls : \E st \in {kv[m.to], behind[m.to]} : GetShards(m, st)
    \/ \E c \in Clerk :
         \/ \E type \in OpType, s \in Used : Call(c, type, s)
         \/ \E answer \in Queried : Requery(c, answer)
         \/ \E result \in replies[c] : Receive(c, result)

\* The steps of a migration, at servers that are up to date and answer.
Migration ==
    \/ \E g \in Gid :
         \/ monitorRequestConfig(g)
         \/ \E h \in Gid : monitorInsert(g, h) \/ monitorGC(g, h)
         \/ \E new \in adding[g] : AddConfig(g, new)
         \/ \E m \in inserting[g] : InsertShard(g, m)
         \/ \E m \in deleting[g] : DeleteShard(g, m, TRUE)
         \/ \E m \in adjusting[g] : AdjustShardState(g, m)
    \/ \E m \in pulls : GetShards(m, kv[m.to])

\* Every group has a leader that runs its monitors and commits what it starts,
\* clerks go round their loops, and a message that is sent again and again
\* gets through.
Fairness ==
    /\ WF_vars(Migration)
    /\ \A c \in Clerk :
         /\ WF_vars(Requery(c, configs[Len(configs)]))
         /\ SF_vars(\E g \in Gid :
                       \/ Handle(c, g, kv[g])
                       \/ \E m \in ops[g] :
                            m.clerk = c /\ processGetPutAppend(g, m))
         /\ SF_vars(\E result \in replies[c] : Receive(c, result))

Spec == Init /\ [][Next]_vars /\ Fairness

-----------------------------------------------------------------------------
(* Properties *)

Value == Seq(Clerk \X (0 .. (MaxRequests - 1)))
ShardState == {"Serving", "Pulling", "BePulling", "GCing"}
Group == [currentConfig : Config, lastConfig : Config,
          shards : [Shard -> [db : Value, State : ShardState]],
          LastRequestMap : [Clerk -> -1 .. (MaxRequests - 1)]]

\* The variables keep their types, and a group's two configurations are
\* successive ones of the controller's (one version at a time).
TypeOK ==
    /\ configs \in Seq(Config) /\ kv \in [Gid -> Group] /\ behind \in [Gid -> Group]
    /\ \A g \in Gid : kv[g].currentConfig.Num > 0 =>
         kv[g].lastConfig.Num = kv[g].currentConfig.Num - 1
    /\ \A g \in Gid : \A m \in inserting[g] : \A s \in DOMAIN m.Shards :
         m.Shards[s] \in Value
    /\ op \in [Clerk -> Operation \cup {Idle}]
    /\ RequestId \in [Clerk -> 0 .. MaxRequests] /\ config \in [Clerk -> Config]
    /\ value \in [Shard -> Value] /\ got \in [Clerk -> [Shard -> Value]]

\* No two groups serve a shard at the same time, however far apart their
\* configurations are.
OneOwner ==
    \A g, h \in Gid : \A s \in Shard :
        (checkShardAndState(kv[g], g, s) /\ checkShardAndState(kv[h], h, s)) => g = h

\* A group that serves a shard has everything that was written to it: nothing
\* is lost, repeated or overwritten on the way between groups.
ServesTheValue ==
    \A g \in Gid : \A s \in Shard :
        checkShardAndState(kv[g], g, s) => kv[g].shards[s].db = value[s]

\* While a shard is being pulled its old owner is not beyond that
\* configuration, and once it has reached it, keeps the shard for pulling.
OldOwnerKeeps ==
    \A g \in Gid : \A s \in InState(kv[g], "Pulling") :
        LET old == kv[kv[g].lastConfig.Shards[s]]
            num == kv[g].currentConfig.Num
        IN /\ old.currentConfig.Num <= num
           /\ old.currentConfig.Num = num =>
                /\ old.shards[s].State = "BePulling"
                /\ old.shards[s].db = value[s]

\* For the clerks the groups together are one linearizable store per shard,
\* across migrations: the duplicate map moves with the shard.
Store(s) == INSTANCE KVStore WITH
    store <- value[s],
    pending <- [c \in Clerk |-> IF op[c].Shard = s THEN op[c] ELSE Idle],
    effect <- [c \in Clerk |-> effect[c] /\ op[c].Shard = s],
    seen <- [c \in Clerk |-> IF op[c].Shard = s THEN seen[c] ELSE {}],
    got <- [c \in Clerk |-> got[c][s]]

Linearizable ==
    /\ \A s \in Shard : Store(s)!Init
    /\ [][\A s \in Shard : UNCHANGED Store(s)!vars \/ Store(s)!Next]_vars


\* Once some group owns the shards, every operation of a clerk returns.
OperationsReturn ==
    \A c \in Clerk : (op[c] # Idle /\ Len(configs) > 1) ~> (op[c] = Idle)
=============================================================================
