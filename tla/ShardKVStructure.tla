-------------------------- MODULE ShardKVStructure --------------------------
(***************************************************************************)
(* What the commands and steps of the groups of src/shardkv compute, and   *)
(* who has a shard: every step keeps the types, no two groups have the     *)
(* same version of a shard, and every message about a shard says what is   *)
(* true of it.                                                             *)
(***************************************************************************)
EXTENDS ShardKVInvariants, TLAPS

\* The back ends a leaf that names none is given to, in this order.
USE ZenonT(10), SMTT(10), ZenonT(30), SMTT(30)

-----------------------------------------------------------------------------
(* The commands of the state machine *)

LEMMA MaxOfTwo ==
    ASSUME NEW a \in Int, NEW b \in Int
    PROVE  Max({a, b}) \in {a, b} /\ Max({a, b}) >= a /\ Max({a, b}) >= b
BY SMTT(10) DEF Max

\* A clerk's command in the log of a group carries an operation.
LEMMA CommandTypes ==
    ASSUME TypeInv, NEW g \in Gid, NEW m \in ops[g]
    PROVE  /\ m \in ClerkCommand /\ m.clerk \in Clerk /\ m.op \in Operation
           /\ m.op.Shard \in Shard /\ m.op.RequestId \in Int /\ m.op # Idle
           /\ kv \in [Gid -> Group] /\ kv[g] \in Group
<1>1. ops \in [Gid -> SUBSET ClerkCommand] /\ kv \in [Gid -> Group]
  BY DEF TypeInv
<1>2. m \in ClerkCommand /\ kv[g] \in Group
  BY <1>1
<1>3. m.clerk \in Clerk /\ m.op \in Operation
  BY <1>2 DEF ClerkCommand
<1>4. m.op.Shard \in Shard /\ m.op.RequestId \in Int /\ m.op # Idle
  BY SMTT(10), <1>3, ShardKVAssumption DEF Operation, Idle
<1> QED BY <1>1, <1>2, <1>3, <1>4

\* What AddConfig does to a group that takes the configuration.
LEMMA AddConfigEffect ==
    ASSUME NEW st \in Group, NEW g \in Gid, NEW new \in Config
    PROVE  /\ processAddConfig(st, g, new) \in Group
           /\ new.Num # st.currentConfig.Num + 1 => processAddConfig(st, g, new) = st
           /\ new.Num = st.currentConfig.Num + 1 =>
                LET r == processAddConfig(st, g, new)
                IN /\ r.currentConfig = new /\ r.lastConfig = st.currentConfig
                   /\ r.LastRequestMap = st.LastRequestMap
                   /\ \A s \in Shard : /\ r.shards[s].db = st.shards[s].db
                                       /\ r.shards[s].State = Reassigned(st, g, new, s)
<1> DEFINE moved == [s \in Shard |-> [st.shards[s] EXCEPT !.State = Reassigned(st, g, new, s)]]
<1>1. \A s \in Shard : Reassigned(st, g, new, s) \in ShardState
  BY DEF Reassigned, ShardState, Group
<1>2. moved \in [Shard -> [db : Value, State : ShardState]]
  BY <1>1 DEF Group
<1>3. \A s \in Shard : /\ moved[s].db = st.shards[s].db
                       /\ moved[s].State = Reassigned(st, g, new, s)
  BY DEF Group
<1>4. CASE new.Num = st.currentConfig.Num + 1
  <2>1. processAddConfig(st, g, new) =
          [st EXCEPT !.shards = moved, !.lastConfig = st.currentConfig, !.currentConfig = new]
    BY <1>4 DEF processAddConfig
  <2> HIDE DEF moved
  <2> QED BY <1>2, <1>3, <1>4, <2>1 DEF Group
<1>5. CASE new.Num # st.currentConfig.Num + 1
  BY <1>5 DEF processAddConfig
<1> QED BY <1>4, <1>5

LEMMA MergedMapEffect ==
    ASSUME NEW st \in Group, NEW m, m.LastRequestMap \in LastRequests
    PROVE  /\ MergedMap(st, m) \in LastRequests
           /\ \A c \in Clerk : /\ MergedMap(st, m)[c] >= st.LastRequestMap[c]
                               /\ MergedMap(st, m)[c] >= m.LastRequestMap[c]
                               /\ MergedMap(st, m)[c] \in
                                    {st.LastRequestMap[c], m.LastRequestMap[c]}
<1>1. ASSUME NEW c \in Clerk
      PROVE  /\ m.LastRequestMap[c] \in -1 .. (MaxRequests - 1)
             /\ st.LastRequestMap[c] \in -1 .. (MaxRequests - 1)
  BY DEF Group, LastRequests
<1>2. ASSUME NEW c \in Clerk
      PROVE  LET x == Max({m.LastRequestMap[c], st.LastRequestMap[c]})
             IN /\ x \in -1 .. (MaxRequests - 1)
                /\ x >= st.LastRequestMap[c] /\ x >= m.LastRequestMap[c]
                /\ x \in {st.LastRequestMap[c], m.LastRequestMap[c]}
  <2> DEFINE a == m.LastRequestMap[c]
             b == st.LastRequestMap[c]
  <2>1. a \in Int /\ b \in Int
    BY SMTT(10), <1>1, <1>2
  <2> HIDE DEF a, b
  <2>2. Max({a, b}) \in {a, b} /\ Max({a, b}) >= a /\ Max({a, b}) >= b
    BY <2>1, MaxOfTwo
  <2> QED BY <1>1, <1>2, <2>2 DEF a, b
<1> QED BY <1>2 DEF MergedMap, LastRequests

LEMMA InsertShardEffect ==
    ASSUME NEW st \in Group, NEW m, IsInsert(m)
    PROVE  LET r == processInsertShard(st, m)
           IN /\ r \in Group
              /\ r.currentConfig = st.currentConfig /\ r.lastConfig = st.lastConfig
              /\ m.ConfigNum # st.currentConfig.Num => r = st
              /\ m.ConfigNum = st.currentConfig.Num =>
                   /\ r.LastRequestMap = MergedMap(st, m)
                   /\ \A s \in Shard :
                        IF s \in DOMAIN m.Shards /\ st.shards[s].State = "Pulling"
                        THEN /\ r.shards[s].State = "GCing"
                             /\ r.shards[s].db = Copied(st.shards[s].db, m.Shards[s])
                        ELSE r.shards[s] = st.shards[s]
<1> DEFINE new == [s \in Shard |->
                IF s \in DOMAIN m.Shards /\ st.shards[s].State = "Pulling"
                THEN [db |-> Copied(st.shards[s].db, m.Shards[s]), State |-> "GCing"]
                ELSE st.shards[s]]
<1>1. CASE m.ConfigNum # st.currentConfig.Num
  BY <1>1 DEF processInsertShard
<1>2. CASE m.ConfigNum = st.currentConfig.Num
  <2>1. processInsertShard(st, m) =
          [st EXCEPT !.shards = new, !.LastRequestMap = MergedMap(st, m)]
    BY <1>2 DEF processInsertShard
  <2>2. new \in [Shard -> [db : Value, State : ShardState]]
    BY DEF Group, IsInsert, Copied, ShardState
  <2>3. MergedMap(st, m) \in LastRequests
    BY MergedMapEffect DEF IsInsert
  <2>4. \A s \in Shard :
           IF s \in DOMAIN m.Shards /\ st.shards[s].State = "Pulling"
           THEN /\ new[s].State = "GCing"
                /\ new[s].db = Copied(st.shards[s].db, m.Shards[s])
           ELSE new[s] = st.shards[s]
    OBVIOUS
  <2> HIDE DEF new
  <2> QED BY <1>2, <2>1, <2>2, <2>3, <2>4 DEF Group, LastRequests
<1> QED BY <1>1, <1>2

LEMMA DeleteShardEffect ==
    ASSUME NEW st \in Group, NEW m \in Delete
    PROVE  LET r == processDeleteShard(st, m)
           IN /\ r \in Group
              /\ r.currentConfig = st.currentConfig /\ r.lastConfig = st.lastConfig
              /\ r.LastRequestMap = st.LastRequestMap
              /\ m.ConfigNum # st.currentConfig.Num => r = st
              /\ m.ConfigNum = st.currentConfig.Num =>
                   \A s \in Shard :
                        IF s \in m.ShardIds /\ st.shards[s].State = "BePulling"
                        THEN r.shards[s].State = "Serving" /\ r.shards[s].db = <<>>
                        ELSE r.shards[s] = st.shards[s]
<1> DEFINE new == [s \in Shard |->
                IF s \in m.ShardIds /\ st.shards[s].State = "BePulling"
                THEN [db |-> <<>>, State |-> "Serving"] ELSE st.shards[s]]
<1>1. CASE m.ConfigNum # st.currentConfig.Num
  BY <1>1 DEF processDeleteShard
<1>2. CASE m.ConfigNum = st.currentConfig.Num
  <2>1. processDeleteShard(st, m) = [st EXCEPT !.shards = new]
    BY <1>2 DEF processDeleteShard
  <2>2. new \in [Shard -> [db : Value, State : ShardState]]
    <3>1. <<>> \in Value
      BY SMTT(10) DEF Value
    <3> QED BY <3>1 DEF Group, ShardState
  <2>3. \A s \in Shard :
           IF s \in m.ShardIds /\ st.shards[s].State = "BePulling"
           THEN new[s].State = "Serving" /\ new[s].db = <<>>
           ELSE new[s] = st.shards[s]
    OBVIOUS
  <2> HIDE DEF new
  <2> QED BY <1>2, <2>1, <2>2, <2>3 DEF Group
<1> QED BY <1>1, <1>2

LEMMA AdjustShardEffect ==
    ASSUME NEW st \in Group, NEW m \in Adjust
    PROVE  LET r == processAdjustGCingShard(st, m)
           IN /\ r \in Group
              /\ r.currentConfig = st.currentConfig /\ r.lastConfig = st.lastConfig
              /\ r.LastRequestMap = st.LastRequestMap
              /\ m.ConfigNum # st.currentConfig.Num => r = st
              /\ m.ConfigNum = st.currentConfig.Num =>
                   \A s \in Shard :
                        /\ r.shards[s].db = st.shards[s].db
                        /\ r.shards[s].State = IF s \in m.ShardIds THEN "Serving"
                                               ELSE st.shards[s].State
<1> DEFINE new == [s \in Shard |->
                IF s \in m.ShardIds THEN [st.shards[s] EXCEPT !.State = "Serving"]
                ELSE st.shards[s]]
<1>1. CASE m.ConfigNum # st.currentConfig.Num
  BY <1>1 DEF processAdjustGCingShard
<1>2. CASE m.ConfigNum = st.currentConfig.Num
  <2>1. processAdjustGCingShard(st, m) = [st EXCEPT !.shards = new]
    BY <1>2 DEF processAdjustGCingShard
  <2>2. new \in [Shard -> [db : Value, State : ShardState]]
    BY DEF Group, ShardState
  <2>3. \A s \in Shard : /\ new[s].db = st.shards[s].db
                         /\ new[s].State = IF s \in m.ShardIds THEN "Serving"
                                           ELSE st.shards[s].State
    BY DEF Group
  <2> HIDE DEF new
  <2> QED BY <1>2, <2>1, <2>2, <2>3 DEF Group
<1> QED BY <1>1, <1>2

LEMMA WrittenType ==
    ASSUME NEW c \in Clerk, NEW o \in Operation, NEW old \in Value
    PROVE  Written(c, o, old) \in Value
<1>1. <<c, o.RequestId>> \in Clerk \X (0 .. (MaxRequests - 1))
  BY DEF Operation
<1>2. <<<<c, o.RequestId>>>> \in Value /\ Append(old, <<c, o.RequestId>>) \in Value
  BY SMTT(10), <1>1 DEF Value
<1> QED BY <1>2 DEF Written

\* What the execution of a client's command does to its group.
LEMMA ExecuteEffect ==
    ASSUME kv \in [Gid -> Group], NEW g \in Gid, NEW m \in ClerkCommand,
           Executes(kv[g], m), processGetPutAppend(g, m)
    PROVE  /\ kv' \in [Gid -> Group]
           /\ \A h \in Gid : h # g => kv'[h] = kv[h]
           /\ kv'[g].currentConfig = kv[g].currentConfig
           /\ kv'[g].lastConfig = kv[g].lastConfig
           /\ \A t \in Shard : /\ kv'[g].shards[t].State = kv[g].shards[t].State
                               /\ t # m.op.Shard => kv'[g].shards[t] = kv[g].shards[t]
           /\ kv'[g].shards[m.op.Shard].db =
                Written(m.clerk, m.op, kv[g].shards[m.op.Shard].db)
           /\ \A c \in Clerk : c # m.clerk =>
                kv'[g].LastRequestMap[c] = kv[g].LastRequestMap[c]
           /\ kv'[g].LastRequestMap[m.clerk] =
                Max({kv[g].LastRequestMap[m.clerk], m.op.RequestId})
<1> DEFINE s == m.op.Shard
           c == m.clerk
           st == kv[g]
           db == Written(c, m.op, st.shards[s].db)
           last == Max({st.LastRequestMap[c], m.op.RequestId})
           shards == [st.shards EXCEPT ![s].db = db]
           map == [st.LastRequestMap EXCEPT ![c] = last]
<1>1. /\ s \in Shard /\ c \in Clerk /\ st \in Group
      /\ m.op \in Operation /\ m.op.RequestId \in 0 .. (MaxRequests - 1)
      /\ st.LastRequestMap \in [Clerk -> -1 .. (MaxRequests - 1)]
      /\ st.shards \in [Shard -> [db : Value, State : ShardState]]
  BY DEF ClerkCommand, Operation, Group
<1>2. db \in Value
  BY <1>1, WrittenType
<1>3. last \in -1 .. (MaxRequests - 1)
  <2>1. st.LastRequestMap[c] \in -1 .. (MaxRequests - 1)
    BY <1>1
  <2> DEFINE a == st.LastRequestMap[c]
             b == m.op.RequestId
  <2>2. a \in Int /\ b \in Int /\ last = Max({a, b})
    BY SMTT(10), <1>1, <2>1
  <2>3. b \in -1 .. (MaxRequests - 1)
    BY SMTT(10), <1>1
  <2> HIDE DEF a, b, last
  <2>4. last \in {a, b}
    BY <2>2, MaxOfTwo
  <2> QED BY <2>1, <2>3, <2>4 DEF a
<1>4. kv' = [kv EXCEPT ![g] = [st EXCEPT !.shards = shards, !.LastRequestMap = map]]
  BY DEF processGetPutAppend
<1> HIDE DEF db, last
<1>5. /\ shards \in [Shard -> [db : Value, State : ShardState]]
      /\ shards[s].db = db
      /\ \A t \in Shard : /\ shards[t].State = st.shards[t].State
                          /\ t # s => shards[t] = st.shards[t]
  BY <1>1, <1>2
<1>6. /\ map \in [Clerk -> -1 .. (MaxRequests - 1)] /\ map[c] = last
      /\ \A d \in Clerk : d # c => map[d] = st.LastRequestMap[d]
  BY <1>1, <1>3
<1> HIDE DEF shards, map
<1>7. [st EXCEPT !.shards = shards, !.LastRequestMap = map] \in Group
  BY <1>1, <1>5, <1>6 DEF Group
<1>8. /\ kv'[g].currentConfig = st.currentConfig /\ kv'[g].lastConfig = st.lastConfig
      /\ kv'[g].shards = shards /\ kv'[g].LastRequestMap = map
  BY <1>1, <1>4 DEF Group
<1> QED BY SMTT(10), <1>4, <1>5, <1>6, <1>7, <1>8 DEF db, last

-----------------------------------------------------------------------------
(* The other steps *)

\* What GetShards adds.
Answered(m, st) ==
    [ConfigNum |-> m.ConfigNum, LastRequestMap |-> st.LastRequestMap,
     Shards |-> [s \in Offered(st, m) |-> st.shards[s].db]]

LEMMA GetShardsEffect ==
    ASSUME TypeInv, NEW m \in pulls, NEW st \in Group, GetShards(m, st)
    PROVE  /\ IsInsert(Answered(m, st))
           /\ DOMAIN inserting' = Gid /\ m.from \in Gid
           /\ \A g \in Gid : inserting'[g] = IF g = m.from
                                THEN inserting[g] \cup {Answered(m, st)} ELSE inserting[g]
           /\ UNCHANGED <<configs, kv, behind, pulls, adding, deleting, adjusting, ops,
                          replies, op, RequestId, config, value, effect, seen, got>>
<1>1. m \in Pull
  BY DEF TypeInv
<1>2. IsInsert(Answered(m, st))
  BY <1>1 DEF IsInsert, Answered, Offered, InState, Pull, Group, LastRequests
<1>3. inserting' = [inserting EXCEPT ![m.from] = @ \cup {Answered(m, st)}]
  BY DEF GetShards, Answered
<1> QED BY <1>1, <1>2, <1>3
  DEF GetShards, TypeInv, Pull, serverVars, rpcVars, clerkVars, history

\* A snapshot has the whole state of a group.
LEMMA SnapshotIsState ==
    ASSUME NEW st \in Group
    PROVE  encodeState(st) = st
BY DEF encodeState, Group

\* What an executed write does to the history.
LEMMA RecordWriteEffect ==
    ASSUME TypeInv, NEW m \in ClerkCommand, RecordWrite(m)
    PROVE  LET s == m.op.Shard
               new == Written(m.clerk, m.op, value[s])
           IN /\ s \in Shard /\ new \in Value
              /\ value' = [value EXCEPT ![s] = new]
              /\ effect' = [effect EXCEPT ![m.clerk] = @ \/ op[m.clerk] = m.op]
              /\ seen' = [d \in Clerk |-> IF op[d] # Idle /\ op[d].Shard = s
                                          THEN seen[d] \cup {new} ELSE seen[d]]
              /\ value' \in [Shard -> Value] /\ effect' \in [Clerk -> BOOLEAN]
              /\ seen' \in [Clerk -> SUBSET Value]
<1> DEFINE s == m.op.Shard
           new == Written(m.clerk, m.op, value[s])
<1>1. s \in Shard /\ m.clerk \in Clerk /\ m.op \in Operation /\ value[s] \in Value
  BY DEF ClerkCommand, Operation, TypeInv
<1>2. new \in Value
  BY <1>1, WrittenType
<1>3. /\ value' = [value EXCEPT ![s] = new]
      /\ effect' = [effect EXCEPT ![m.clerk] = @ \/ op[m.clerk] = m.op]
      /\ seen' = [d \in Clerk |-> IF op[d] # Idle /\ op[d].Shard = s
                                  THEN seen[d] \cup {new} ELSE seen[d]]
  BY DEF RecordWrite
<1> HIDE DEF new, s
<1>4. value' \in [Shard -> Value] /\ seen' \in [Clerk -> SUBSET Value]
  BY <1>1, <1>2, <1>3 DEF TypeInv
<1>5. effect' \in [Clerk -> BOOLEAN]
  BY <1>1, <1>3 DEF TypeInv
<1> QED BY <1>1, <1>2, <1>3, <1>4, <1>5 DEF new, s

-----------------------------------------------------------------------------
(* Who has a shard *)

\* Steps that leave the controller and the groups alone.
LEMMA SameGroups ==
    ASSUME UNCHANGED <<configs, kv>>
    PROVE  /\ Version' = Version /\ \A g : Num(g)' = Num(g)
           /\ \A n, s : Owner(n, s)' = Owner(n, s) /\ (Acquired(n, s)' <=> Acquired(n, s))
BY DEF Version, Num, Owner, Acquired

\* Facts about versions and groups that the steps below use.
LEMMA Versions ==
    ASSUME TypeInv, ConfigsSound
    PROVE  /\ Len(configs) \in Nat /\ Len(configs) >= 1
           /\ \A n \in Version : \A s \in Shard : Owner(n, s) \in Gid /\ Owner(n, s) # 0
           /\ \A s \in Shard : Owner(0, s) = 0
           /\ \A g \in Gid : Num(g) \in Nat
           /\ \A n \in Version : n \in Nat /\ (n > 1 => n - 1 \in Version)
<1>1. Len(configs) \in Nat /\ Len(configs) >= 1
  BY SMTT(10) DEF TypeInv, ConfigsSound
<1>2. \A n \in Version : \A s \in Shard : Owner(n, s) \in Gid /\ Owner(n, s) # 0
  BY ShardKVAssumption DEF ConfigsSound, Owner
<1>3. \A s \in Shard : Owner(0, s) = 0
  BY SMTT(10) DEF ConfigsSound, Owner, NoConfig
<1>4. \A g \in Gid : Num(g) \in Nat
  BY DEF TypeInv, Num, Group, Config
<1>5. \A n \in Version : n \in Nat /\ (n > 1 => n - 1 \in Version)
  BY SMTT(10), <1>1 DEF Version
<1> QED BY <1>1, <1>2, <1>3, <1>4, <1>5

\* A shard whose old owner has reached the version of the new one, which has
\* not got it yet, is served by nobody.
LEMMA NobodyServes ==
    ASSUME TypeInv, Structure, NEW s \in Shard, NEW n \in Version, n > 1,
           Num(Owner(n - 1, s)) >= n, ~Acquired(n, s), NEW g \in Gid
    PROVE  ~checkShardAndState(kv[g], g, s)
<1> SUFFICES ASSUME checkShardAndState(kv[g], g, s)
             PROVE  FALSE
  OBVIOUS
<1> DEFINE a == Num(g)
<1>1. /\ a \in Nat /\ Len(configs) \in Nat /\ n \in Nat /\ n \in Version
      /\ Owner(n, s) \in Gid /\ Owner(n - 1, s) \in Gid
      /\ Num(Owner(n, s)) \in Nat /\ Num(Owner(n - 1, s)) \in Nat
  BY Versions DEF Structure, Version
<1>2. a < Len(configs) /\ kv[g].currentConfig = configs[a + 1]
  BY DEF Structure, ReplicasFollow, FollowsConfigs, Num
<1>3. Owner(a, s) = g /\ kv[g].shards[s].State # "Pulling"
  BY <1>2 DEF checkShardAndState, Owner
<1>4. a \in Version
  <2>1. a # 0
    BY <1>3, Versions, ShardKVAssumption DEF Structure
  <2> QED BY SMTT(10), <1>1, <1>2, <2>1 DEF Version
<1>5. Acquired(a, s)
  BY <1>3 DEF Acquired
<1>6. CASE a > n
  <2>1. n \in 1 .. (a - 1)
    BY SMTT(10), <1>1, <1>6 DEF Version
  <2>2. Num(Owner(n, s)) > n
    BY <1>4, <1>5, <2>1 DEF Structure, PassedOn
  <2> QED BY <2>2 DEF Acquired
<1>7. CASE a = n
  BY <1>5, <1>7
<1>8. CASE a = n - 1
  BY SMTT(10), <1>1, <1>3, <1>8
<1>9. CASE a < n - 1
  <2>1. n - 1 \in Version /\ a \in 1 .. ((n - 1) - 1)
    BY SMTT(10), <1>1, <1>4, <1>9 DEF Version
  <2>2. Acquired(n - 1, s)
    BY SMTT(10), <1>1 DEF Acquired
  <2>3. Num(Owner(a, s)) > a
    BY <2>1, <2>2 DEF Structure, PassedOn
  <2> QED BY SMTT(10), <1>1, <1>3, <2>3
<1> QED BY SMTT(10), <1>1, <1>6, <1>7, <1>8, <1>9

\* No two groups serve a shard.
LEMMA OneServes ==
    ASSUME TypeInv, Structure
    PROVE  OneOwner
<1> SUFFICES ASSUME NEW g \in Gid, NEW h \in Gid, NEW s \in Shard,
                    checkShardAndState(kv[g], g, s), checkShardAndState(kv[h], h, s),
                    Num(g) <= Num(h)
             PROVE  g = h
  BY SMTT(10), Versions DEF OneOwner, Structure
<1>1. ASSUME NEW k \in Gid, checkShardAndState(kv[k], k, s)
      PROVE  /\ Owner(Num(k), s) = k /\ Num(k) \in Version /\ Num(k) \in Nat
             /\ Acquired(Num(k), s)
  <2>1. /\ Num(k) \in Nat /\ Num(k) < Len(configs) /\ Len(configs) \in Nat
        /\ kv[k].currentConfig = configs[Num(k) + 1]
    BY Versions DEF Structure, ReplicasFollow, FollowsConfigs, Num
  <2>2. Owner(Num(k), s) = k /\ kv[k].shards[s].State # "Pulling"
    BY <1>1, <2>1 DEF checkShardAndState, Owner
  <2>3. Num(k) # 0
    BY <2>2, Versions, ShardKVAssumption DEF Structure
  <2> QED BY SMTT(10), <2>1, <2>2, <2>3 DEF Version, Acquired
<1>2. CASE Num(g) = Num(h)
  BY <1>1, <1>2
<1>3. CASE Num(g) < Num(h)
  <2>1. Num(g) \in 1 .. (Num(h) - 1)
    BY SMTT(10), <1>1, <1>3 DEF Version
  <2>2. Num(Owner(Num(g), s)) > Num(g)
    BY <1>1, <2>1 DEF Structure, PassedOn
  <2> QED BY SMTT(10), <1>1, <2>2
<1> QED BY SMTT(10), <1>1, <1>2, <1>3

LEMMA ServedVersion ==
    ASSUME TypeInv, Structure, NEW g \in Gid, NEW s \in Shard,
           checkShardAndState(kv[g], g, s)
    PROVE  /\ Num(g) \in Version /\ Owner(Num(g), s) = g
           /\ Acquired(Num(g), s) /\ 1 \in Version /\ Acquired(1, s)
<1>1. /\ Num(g) \in Nat /\ Num(g) < Len(configs) /\ Len(configs) \in Nat
      /\ kv[g].currentConfig = configs[Num(g) + 1]
  BY Versions DEF Structure, ReplicasFollow, FollowsConfigs, Num
<1>2. Owner(Num(g), s) = g /\ kv[g].shards[s].State # "Pulling"
  BY <1>1 DEF checkShardAndState, Owner
<1>3. Num(g) # 0
  BY <1>2, Versions, ShardKVAssumption DEF Structure
<1>4. Num(g) \in Version /\ 1 \in Version
  BY SMTT(10), <1>1, <1>3 DEF Version
<1>5. Acquired(Num(g), s)
  BY <1>2 DEF Acquired
<1>6. CASE Num(g) = 1
  BY <1>2, <1>4, <1>5, <1>6
<1>7. CASE Num(g) > 1
  <2>1. 1 \in 1 .. (Num(g) - 1)
    BY SMTT(10), <1>1, <1>7
  <2>2. Num(Owner(1, s)) > 1
    BY <1>4, <1>5, <2>1 DEF Structure, PassedOn
  <2> QED BY <1>2, <1>4, <1>5, <2>2 DEF Acquired
<1> QED BY SMTT(10), <1>1, <1>3, <1>6, <1>7

LEMMA OfferedVersion ==
    ASSUME TypeInv, Structure, NEW g \in Gid, NEW st \in {kv[g], behind[g]},
           NEW s \in Shard, st.shards[s].State = "BePulling"
    PROVE  LET n == st.currentConfig.Num
           IN /\ n \in Version /\ n > 1 /\ Owner(n - 1, s) = g /\ Num(g) >= n
<1>1. /\ FollowsConfigs(st, g) /\ st.currentConfig.Num <= Num(g)
      /\ st.currentConfig.Num \in Nat /\ Num(g) \in Nat
  BY SMTT(10), Versions DEF Structure, ReplicasFollow, TypeInv, Group, Config, Num
<1>2. Len(configs) \in Nat
  BY Versions DEF Structure
<1> QED BY SMTT(10), SMTT(30), <1>1, <1>2 DEF FollowsConfigs, Version

-----------------------------------------------------------------------------
(* Steps that execute a command *)

\* Steps that change group g.  No group goes back to an earlier version or
\* waits for a shard again that it has got in this one.
GoesOn ==
    \A h \in Gid :
        /\ kv'[h].currentConfig.Num >= kv[h].currentConfig.Num
        /\ kv'[h].currentConfig.Num = kv[h].currentConfig.Num =>
             \A s \in Shard : kv'[h].shards[s].State = "Pulling" =>
                                kv[h].shards[s].State = "Pulling"

LEMMA AcquiredStays ==
    ASSUME TypeInv, TypeInv', Structure, UNCHANGED configs, GoesOn
    PROVE  /\ Version' = Version /\ \A n, s : Owner(n, s)' = Owner(n, s)
           /\ \A n \in Version : \A s \in Shard : Acquired(n, s) => Acquired(n, s)'
<1>1. Version' = Version /\ \A n, s : Owner(n, s)' = Owner(n, s)
  BY DEF Version, Owner
<1>2. \A h \in Gid : Num(h) \in Nat /\ Num(h)' \in Nat
  BY DEF TypeInv, Num, Group, Config
<1>3. ASSUME NEW n \in Version, NEW s \in Shard, Acquired(n, s)
      PROVE  Acquired(n, s)'
  <2>1. Owner(n, s) \in Gid /\ n \in Int
    BY SMTT(10), Versions DEF Structure, Version
  <2> QED BY SMTT(10), <1>1, <1>2, <1>3, <2>1 DEF Acquired, GoesOn, Num
<1> QED BY <1>1, <1>3

\* A group takes the next version only when nothing is on its way, and then
\* has the shards that it goes on owning.
LEMMA AddConfigStep ==
    ASSUME TypeInv, Structure, NEW g \in Gid, NEW new \in adding[g], AddConfig(g, new)
    PROVE  /\ \A h \in Gid : h # g => kv'[h] = kv[h]
           /\ UNCHANGED <<configs, behind, pulls, adding, inserting, deleting, adjusting>>
           /\ new.Num # Num(g) + 1 => kv' = kv
           /\ new.Num = Num(g) + 1 =>
                /\ Num(g) + 1 \in Version
                /\ kv'[g].currentConfig = configs[Num(g) + 2]
                /\ kv'[g].currentConfig.Num = Num(g) + 1
                /\ kv'[g].lastConfig = kv[g].currentConfig
                /\ kv'[g].LastRequestMap = kv[g].LastRequestMap
                /\ \A s \in Shard :
                     /\ kv'[g].shards[s].db = kv[g].shards[s].db
                     /\ kv[g].shards[s].State = "Serving"
                     /\ kv'[g].shards[s].State =
                          IF Owner(Num(g) + 1, s) = g
                          THEN IF Owner(Num(g), s) \in {g, 0} THEN "Serving" ELSE "Pulling"
                          ELSE IF Owner(Num(g), s) = g THEN "BePulling" ELSE "Serving"
<1> DEFINE r == processAddConfig(kv[g], g, new)
<1>1. /\ kv[g] \in Group /\ new \in Config /\ kv'[g] = r
      /\ \A h \in Gid : h # g => kv'[h] = kv[h]
      /\ UNCHANGED <<configs, behind, pulls, adding, inserting, deleting, adjusting>>
  BY DEF AddConfig, commandVars, TypeInv
<1>2. /\ new.Num # Num(g) + 1 => r = kv[g]
      /\ new.Num = Num(g) + 1 =>
           /\ r.currentConfig = new /\ r.lastConfig = kv[g].currentConfig
           /\ r.LastRequestMap = kv[g].LastRequestMap
           /\ \A s \in Shard : /\ r.shards[s].db = kv[g].shards[s].db
                               /\ r.shards[s].State = Reassigned(kv[g], g, new, s)
  BY SMTT(10), <1>1, AddConfigEffect DEF Num
<1>3. new.Num # Num(g) + 1 => kv' = kv
  BY <1>2 DEF AddConfig, TypeInv
<1> HIDE DEF r
<1>4. ASSUME new.Num = Num(g) + 1
      PROVE  /\ Num(g) + 1 \in Version /\ new = configs[Num(g) + 2]
             /\ \A s \in Shard : kv[g].shards[s].State = "Serving"
  <2>1. /\ new.Num \in Version /\ new = configs[new.Num + 1] /\ Stable(kv[g])
    BY <1>4 DEF Structure, AddingSound
  <2>2. Num(g) \in Nat
    BY Versions DEF Structure
  <2> QED BY SMTT(10), <1>4, <2>1, <2>2 DEF Stable, InState
<1>5. ASSUME new.Num = Num(g) + 1, NEW s \in Shard
      PROVE  Reassigned(kv[g], g, new, s) =
               IF Owner(Num(g) + 1, s) = g
               THEN IF Owner(Num(g), s) \in {g, 0} THEN "Serving" ELSE "Pulling"
               ELSE IF Owner(Num(g), s) = g THEN "BePulling" ELSE "Serving"
  <2>1. Num(g) \in Nat /\ kv[g].currentConfig.Shards[s] = Owner(Num(g), s)
    BY Versions DEF Structure, ReplicasFollow, FollowsConfigs, Num, Owner
  <2>2. new.Shards[s] = Owner(Num(g) + 1, s)
    BY SMTT(10), <1>4, <1>5, <2>1 DEF Owner
  <2>3. Owner(Num(g) + 1, s) # 0
    BY <1>4, <1>5, Versions DEF Structure
  <2> QED BY <1>4, <1>5, <2>1, <2>2, <2>3 DEF Reassigned
<1> QED BY <1>1, <1>2, <1>3, <1>4, <1>5

LEMMA AdjustedShards ==
    ASSUME TypeInv, Structure, NEW g \in Gid, NEW m \in adjusting[g],
           NEW s \in m.ShardIds, m.ConfigNum = Num(g)
    PROVE  kv[g].shards[s].State \in {"GCing", "Serving"}
<1>1. kv[g] \in Group /\ m \in Adjust
  BY DEF TypeInv
<1>2. Owner(Num(g), s) = g /\ Acquired(Num(g), s) /\ s \in Shard
  BY SMTT(10), SMTT(30), <1>1 DEF Structure, AdjustingSound, Adjust
<1>3. kv[g].shards[s].State # "Pulling" /\ kv[g].shards[s].State # "BePulling"
  BY SMTT(10), <1>2, Versions DEF Acquired, Structure, ReplicasFollow, FollowsConfigs, Num
<1> QED BY <1>1, <1>2, <1>3 DEF Group, ShardState

\* What a client's command does to its shard and to the value written to it.
LEMMA ExecuteStep ==
    ASSUME TypeInv, Structure, Values, NEW g \in Gid, NEW m \in ops[g],
           processGetPutAppend(g, m)
    PROVE  LET s == m.op.Shard
           IN /\ s \in Shard /\ m.clerk \in Clerk /\ m \in ClerkCommand
              /\ checkShardAndState(kv[g], g, s) /\ kv[g].shards[s].db = value[s]
              /\ UNCHANGED <<configs, behind, inserting, ops, op, RequestId, got>>
              /\ \A h \in Gid : h # g => kv'[h] = kv[h]
              /\ kv'[g].currentConfig = kv[g].currentConfig
              /\ \A t \in Shard : /\ kv'[g].shards[t].State = kv[g].shards[t].State
                                  /\ t # s => kv'[g].shards[t] = kv[g].shards[t]
              /\ kv'[g].shards[s].db = value'[s]
              /\ value' \in [Shard -> Value]
              /\ \A t \in Shard : t # s => value'[t] = value[t]
<1> DEFINE s == m.op.Shard
<1>1. s \in Shard /\ m.clerk \in Clerk /\ m \in ClerkCommand /\ kv \in [Gid -> Group]
  BY CommandTypes
<1>2. /\ checkShardAndState(kv[g], g, s)
      /\ UNCHANGED <<configs, behind, inserting, ops, op, RequestId, got>>
  BY DEF processGetPutAppend, commandVars, clerkVars
<1>3. kv[g].shards[s].db = value[s]
  BY <1>1, <1>2 DEF Values, ServesTheValue
<1>4. CASE ~Executes(kv[g], m)
  <2>1. UNCHANGED <<kv, value>>
    BY <1>4 DEF processGetPutAppend
  <2> QED BY <1>1, <1>2, <1>3, <2>1 DEF TypeInv
<1>5. CASE Executes(kv[g], m)
  <2>1. /\ \A h \in Gid : h # g => kv'[h] = kv[h]
        /\ kv'[g].currentConfig = kv[g].currentConfig
        /\ \A t \in Shard : /\ kv'[g].shards[t].State = kv[g].shards[t].State
                            /\ t # s => kv'[g].shards[t] = kv[g].shards[t]
        /\ kv'[g].shards[s].db = Written(m.clerk, m.op, value[s])
    <3>1. /\ \A h \in Gid : h # g => kv'[h] = kv[h]
          /\ kv'[g].currentConfig = kv[g].currentConfig
          /\ \A t \in Shard : /\ kv'[g].shards[t].State = kv[g].shards[t].State
                              /\ t # s => kv'[g].shards[t] = kv[g].shards[t]
          /\ kv'[g].shards[s].db = Written(m.clerk, m.op, kv[g].shards[s].db)
      BY <1>1, <1>5, ExecuteEffect
    <3> QED BY <1>3, <3>1
  <2>2. CASE m.op.OpType = "Get"
    <3>1. UNCHANGED value /\ Written(m.clerk, m.op, value[s]) = value[s]
      BY <2>2 DEF processGetPutAppend, Written
    <3> QED BY <1>1, <1>2, <1>3, <2>1, <3>1 DEF TypeInv
  <2>3. CASE m.op.OpType # "Get"
    <3>1. RecordWrite(m)
      BY <1>5, <2>3 DEF processGetPutAppend
    <3> DEFINE new == Written(m.clerk, m.op, value[s])
    <3>2. value' = [value EXCEPT ![s] = new] /\ value' \in [Shard -> Value]
      BY <1>1, <3>1, RecordWriteEffect
    <3> HIDE DEF new
    <3>3. value'[s] = new /\ \A t \in Shard : t # s => value'[t] = value[t]
      BY <1>1, <3>2 DEF TypeInv
    <3> QED BY <1>1, <1>2, <1>3, <2>1, <3>2, <3>3 DEF new
  <2> QED BY <2>2, <2>3
<1> QED BY <1>4, <1>5

-----------------------------------------------------------------------------
(* Types *)

LEMMA TypeInit ==
    ASSUME Init
    PROVE  TypeInv
<1>1. <<>> \in Value /\ NoConfig \in Config
  BY SMTT(10) DEF Value, NoConfig, Config
<1>2. NewGroup \in Group
  BY SMTT(10), <1>1, ShardKVAssumption DEF NewGroup, Group, ShardState
<1> QED BY SMTT(10), <1>1, <1>2, ShardKVAssumption DEF Init, TypeInv

LEMMA TypeNextConfig ==
    ASSUME TypeInv, NEW plan \in Plans, NextConfig(plan), Len(configs) >= 1
    PROVE  TypeInv'
<1>1. Len(configs) \in Nat /\ Len(configs) \in 1 .. Len(plan)
  BY SMTT(10), ShardKVAssumption DEF TypeInv, NextConfig
<1>2. plan[Len(configs)] \in [Shard -> Gid]
  BY SMTT(10), <1>1, ShardKVAssumption
<1>3. [Num |-> Len(configs), Shards |-> plan[Len(configs)]] \in Config
  BY <1>1, <1>2 DEF Config
<1>4. configs' \in Seq(Config)
  BY SMTT(10), <1>3 DEF NextConfig, TypeInv
<1> QED BY <1>4 DEF TypeInv, NextConfig, serverVars, commandVars, rpcVars, clerkVars, history

\* The monitors and GetShards only send or start something.
LEMMA TypeMonitors ==
    ASSUME TypeInv, ConfigsSound, NEW g \in Gid, NEW h \in Gid,
           monitorRequestConfig(g) \/ monitorInsert(g, h) \/ monitorGC(g, h)
    PROVE  TypeInv'
<1>1. kv[g] \in Group /\ kv[g].currentConfig.Num \in Nat
  BY DEF TypeInv, Group, Config
<1>2. \A state : ShardIds(g, state, h) \subseteq Shard
  BY DEF ShardIds, InState
<1>3. CASE monitorRequestConfig(g)
  <2>1. configs[kv[g].currentConfig.Num + 2] \in Config
    BY SMTT(10), SMTT(30), <1>1, <1>3 DEF monitorRequestConfig, TypeInv
  <2>2. adding' \in [Gid -> SUBSET Config]
    BY <1>3, <2>1 DEF monitorRequestConfig, TypeInv
  <2> QED BY <1>3, <2>2
    DEF monitorRequestConfig, TypeInv, serverVars, rpcVars, clerkVars, history
<1>4. CASE monitorInsert(g, h)
  <2>1. pulls' \subseteq Pull
    BY SMTT(10), <1>1, <1>2, <1>4 DEF monitorInsert, TypeInv, Pull
  <2> QED BY <1>4, <2>1
    DEF monitorInsert, TypeInv, serverVars, commandVars, rpcVars, clerkVars, history
<1>5. CASE monitorGC(g, h)
  <2>1. deleting' \in [Gid -> SUBSET Delete]
    BY SMTT(10), <1>1, <1>2, <1>5 DEF monitorGC, TypeInv, Delete, Inserted
  <2> QED BY <1>5, <2>1 DEF monitorGC, TypeInv, serverVars, rpcVars, clerkVars, history
<1> QED BY <1>3, <1>4, <1>5

LEMMA TypeGetShards ==
    ASSUME TypeInv, NEW m \in pulls, NEW st \in {kv[m.to], behind[m.to]}, GetShards(m, st)
    PROVE  TypeInv'
<1>1. st \in Group
  BY SMTT(10) DEF TypeInv, Pull
<1>2. /\ IsInsert(Answered(m, st)) /\ DOMAIN inserting' = Gid
      /\ \A g \in Gid : inserting'[g] \subseteq inserting[g] \cup {Answered(m, st)}
  BY <1>1, GetShardsEffect
<1>3. \A g \in Gid : \A n \in inserting'[g] : IsInsert(n)
  BY SMTT(10), <1>2 DEF TypeInv
<1> QED BY SMTT(10), <1>1, <1>2, <1>3, GetShardsEffect DEF TypeInv

\* A command that is executed changes the state of its group only.
LEMMA TypeCommands ==
    ASSUME TypeInv, NEW g \in Gid, NEW st \in Group, kv' = [kv EXCEPT ![g] = st],
           adjusting' \in [Gid -> SUBSET Adjust],
           UNCHANGED <<configs, behind, pulls, adding, inserting, deleting, rpcVars,
                       clerkVars, history>>
    PROVE  TypeInv'
<1>1. kv' \in [Gid -> Group]
  BY DEF TypeInv
<1> QED BY <1>1 DEF TypeInv, rpcVars, clerkVars, history

LEMMA TypeAddConfig ==
    ASSUME TypeInv, NEW g \in Gid, NEW new \in adding[g], AddConfig(g, new)
    PROVE  TypeInv'
<1>1. kv[g] \in Group /\ new \in Config
  BY DEF TypeInv
<1>2. processAddConfig(kv[g], g, new) \in Group
  BY <1>1, AddConfigEffect
<1> QED BY <1>2, TypeCommands DEF AddConfig, commandVars, TypeInv

LEMMA TypeInsertShard ==
    ASSUME TypeInv, NEW g \in Gid, NEW m \in inserting[g], InsertShard(g, m)
    PROVE  TypeInv'
<1>1. kv[g] \in Group /\ IsInsert(m)
  BY DEF TypeInv
<1>2. processInsertShard(kv[g], m) \in Group
  BY <1>1, InsertShardEffect
<1> QED BY <1>2, TypeCommands DEF InsertShard, commandVars, TypeInv

LEMMA TypeDeleteShard ==
    ASSUME TypeInv, NEW g \in Gid, NEW m \in deleting[g], NEW answered \in BOOLEAN,
           DeleteShard(g, m, answered)
    PROVE  TypeInv'
<1>1. kv[g] \in Group /\ m \in Delete
  BY DEF TypeInv
<1>2. processDeleteShard(kv[g], m) \in Group
  BY <1>1, DeleteShardEffect
<1>3. [ConfigNum |-> m.ConfigNum, ShardIds |-> m.ShardIds] \in Adjust /\ m.from \in Gid
  BY <1>1 DEF Delete, Adjust
<1>4. adjusting' \in [Gid -> SUBSET Adjust]
  BY <1>3 DEF DeleteShard, TypeInv
<1> QED BY <1>2, <1>4, TypeCommands DEF DeleteShard

LEMMA TypeAdjustShardState ==
    ASSUME TypeInv, NEW g \in Gid, NEW m \in adjusting[g], AdjustShardState(g, m)
    PROVE  TypeInv'
<1>1. kv[g] \in Group /\ m \in Adjust
  BY DEF TypeInv
<1>2. processAdjustGCingShard(kv[g], m) \in Group
  BY <1>1, AdjustShardEffect
<1> QED BY <1>2, TypeCommands DEF AdjustShardState, commandVars, TypeInv

LEMMA TypeCatchUp ==
    ASSUME TypeInv, NEW g \in Gid, CatchUp(g)
    PROVE  TypeInv'
<1>1. kv[g] \in Group
  BY DEF TypeInv
<1>2. behind' = [behind EXCEPT ![g] = kv[g]]
  BY <1>1, SnapshotIsState DEF CatchUp
<1>3. behind' \in [Gid -> Group]
  BY <1>1, <1>2 DEF TypeInv
<1> QED BY <1>3 DEF TypeInv, CatchUp, commandVars, rpcVars, clerkVars, history

LEMMA TypeCall ==
    ASSUME TypeInv, NEW c \in Clerk, NEW type \in OpType, NEW s \in Used, Call(c, type, s)
    PROVE  TypeInv'
<1> DEFINE o == [OpType |-> type, Shard |-> s, RequestId |-> RequestId[c]]
<1>1. o \in Operation /\ s \in Shard
  BY SMTT(10), ShardKVAssumption DEF TypeInv, Call, Operation
<1>2. o # Idle
  BY ShardKVAssumption DEF Idle
<1>3. op' = [op EXCEPT ![c] = o] /\ o.RequestId = RequestId[c]
  BY DEF Call
<1> HIDE DEF o
<1>4. op' \in [Clerk -> Operation \cup {Idle}]
  BY <1>1, <1>3 DEF TypeInv
<1>5. seen' \in [Clerk -> SUBSET Value]
  BY SMTT(10), <1>1 DEF Call, TypeInv
<1>6. UNCHANGED <<configs, kv, behind, pulls, adding, inserting, deleting, adjusting, ops,
                  replies, RequestId, config, value, effect, got>>
  BY DEF Call, serverVars, commandVars, rpcVars
<1>7. \A d \in Clerk : /\ op'[d] # Idle => op'[d].RequestId = RequestId[d]
                       /\ op'[d] = Idle => replies[d] = {}
  BY <1>2, <1>3 DEF TypeInv
<1> QED BY <1>4, <1>5, <1>6, <1>7 DEF TypeInv

LEMMA TypeReceive ==
    ASSUME TypeInv, NEW c \in Clerk, NEW result \in replies[c], Receive(c, result)
    PROVE  TypeInv'
<1>1. /\ op[c] \in Operation /\ op[c] # Idle /\ RequestId[c] + 1 \in 0 .. MaxRequests
      /\ op[c].Shard \in Shard /\ result \in Value
  BY SMTT(10), ShardKVAssumption DEF TypeInv, Operation
<1>2. /\ op' = [op EXCEPT ![c] = Idle]
      /\ RequestId' = [RequestId EXCEPT ![c] = RequestId[c] + 1]
      /\ replies' = [replies EXCEPT ![c] = {}] /\ seen' = [seen EXCEPT ![c] = {}]
      /\ effect' = [effect EXCEPT ![c] = FALSE]
      /\ UNCHANGED <<configs, kv, behind, pulls, adding, inserting, deleting, adjusting,
                     ops, config, value>>
  BY DEF Receive, serverVars, commandVars
<1>3. got' \in [Clerk -> [Shard -> Value]]
  BY <1>1 DEF Receive, TypeInv
<1>4. \A d \in Clerk : /\ op'[d] # Idle => op'[d].RequestId = RequestId'[d]
                       /\ op'[d] = Idle => replies'[d] = {}
  BY <1>2 DEF TypeInv
<1> QED BY <1>1, <1>2, <1>3, <1>4 DEF TypeInv

LEMMA TypeRequery ==
    ASSUME TypeInv, ConfigsSound, NEW c \in Clerk, NEW answer \in Queried, Requery(c, answer)
    PROVE  TypeInv'
<1>1. answer \in Config
  <2>1. NoConfig \in Config
    BY DEF NoConfig, Config
  <2> QED BY SMTT(10), <2>1 DEF Queried, TypeInv, ConfigsSound
<1>2. config' \in [Clerk -> Config] /\ replies' \in [Clerk -> SUBSET Value]
  BY <1>1 DEF Requery, TypeInv
<1>3. \A d \in Clerk : replies[d] = {} => replies'[d] = {}
  BY DEF Requery, TypeInv
<1> QED BY <1>2, <1>3 DEF Requery, TypeInv, serverVars, commandVars, history

\* A reply reaches a clerk that waits for it.
LEMMA TypeReply ==
    ASSUME TypeInv, NEW g, NEW m \in ClerkCommand, NEW result \in Value, Reply(g, m, result)
    PROVE  /\ replies' \in [Clerk -> SUBSET Value]
           /\ \A d \in Clerk : op[d] = Idle => replies'[d] = {}
<1>1. m.clerk \in Clerk /\ m.op \in Operation /\ m.op # Idle
  BY SMTT(10), ShardKVAssumption DEF ClerkCommand, Operation, Idle
<1> QED BY <1>1 DEF Reply, TypeInv

LEMMA TypeHandle ==
    ASSUME TypeInv, NEW c \in Clerk, NEW g \in Gid, NEW st, Handle(c, g, st)
    PROVE  TypeInv'
<1> DEFINE m == [clerk |-> c, op |-> op[c]]
<1>1. m \in ClerkCommand
  BY DEF Handle, TypeInv, ClerkCommand
<1>2. UNCHANGED <<configs, kv, behind, pulls, adding, inserting, deleting, adjusting,
                  op, RequestId, config, value, effect, seen, got>>
  BY DEF Handle, serverVars, commandVars, clerkVars, history
<1>3. CASE op[c].OpType # "Get" /\ isInvalidRequest(st, c, op[c].RequestId)
  <2>1. Reply(g, m, <<>>) /\ UNCHANGED ops
    BY <1>3 DEF Handle
  <2>2. <<>> \in Value
    BY SMTT(10) DEF Value
  <2> HIDE DEF m
  <2>3. /\ replies' \in [Clerk -> SUBSET Value]
        /\ \A d \in Clerk : op[d] = Idle => replies'[d] = {}
    BY <1>1, <2>1, <2>2, TypeReply
  <2> QED BY <1>2, <2>1, <2>3 DEF TypeInv
<1>4. CASE ~(op[c].OpType # "Get" /\ isInvalidRequest(st, c, op[c].RequestId))
  <2>1. ops' = [ops EXCEPT ![g] = @ \cup {m}] /\ UNCHANGED replies
    BY <1>4 DEF Handle
  <2> HIDE DEF m
  <2>2. ops' \in [Gid -> SUBSET ClerkCommand]
    BY <1>1, <2>1 DEF TypeInv
  <2> QED BY <1>2, <2>1, <2>2 DEF TypeInv
<1> QED BY <1>3, <1>4

LEMMA TypeExecute ==
    ASSUME TypeInv, NEW g \in Gid, NEW m \in ops[g], processGetPutAppend(g, m)
    PROVE  TypeInv'
<1>1. /\ m \in ClerkCommand /\ kv[g] \in Group /\ m.op.Shard \in Shard
      /\ kv[g].shards[m.op.Shard].db \in Value /\ <<>> \in Value
  <2>1. m \in ClerkCommand /\ kv[g] \in Group /\ m.op.Shard \in Shard
    BY CommandTypes
  <2> QED BY SMTT(10), <2>1 DEF Group, Value
<1>2. UNCHANGED <<configs, behind, pulls, adding, inserting, deleting, adjusting, ops, op,
                  RequestId, config, got>>
  BY DEF processGetPutAppend, commandVars, clerkVars
<1>3. kv' \in [Gid -> Group]
  <2>1. CASE Executes(kv[g], m)
    BY <1>1, <2>1, ExecuteEffect DEF TypeInv
  <2>2. CASE ~Executes(kv[g], m)
    BY <2>2 DEF processGetPutAppend, TypeInv
  <2> QED BY <2>1, <2>2
<1>4. /\ value' \in [Shard -> Value] /\ effect' \in [Clerk -> BOOLEAN]
      /\ seen' \in [Clerk -> SUBSET Value]
  <2>1. CASE Executes(kv[g], m) /\ m.op.OpType # "Get"
    <3>1. RecordWrite(m)
      BY <2>1 DEF processGetPutAppend
    <3> QED BY <1>1, <3>1, RecordWriteEffect
  <2>2. CASE ~(Executes(kv[g], m) /\ m.op.OpType # "Get")
    BY <2>2 DEF processGetPutAppend, TypeInv
  <2> QED BY <2>1, <2>2
<1>5. /\ replies' \in [Clerk -> SUBSET Value]
      /\ \A d \in Clerk : op[d] = Idle => replies'[d] = {}
  <2> DEFINE result == IF m.op.OpType = "Get" THEN kv[g].shards[m.op.Shard].db ELSE <<>>
  <2>1. result \in Value /\ Reply(g, m, result)
    BY <1>1 DEF processGetPutAppend
  <2> HIDE DEF result
  <2> QED BY <1>1, <2>1, TypeReply
<1> QED BY <1>2, <1>3, <1>4, <1>5 DEF TypeInv

-----------------------------------------------------------------------------
(* Steps that execute no command *)

\* How a replica comes to follow the configurations after a step.
LEMMA FollowAfter ==
    ASSUME \A g \in Gid :
             /\ \E st : kv'[g] = st /\ FollowsConfigs(st, g)'
             /\ \E st : behind'[g] = st /\ FollowsConfigs(st, g)'
             /\ behind'[g].currentConfig.Num <= kv'[g].currentConfig.Num
    PROVE  ReplicasFollow'
<1> SUFFICES ASSUME NEW g \in Gid
             PROVE  (/\ FollowsConfigs(kv[g], g) /\ FollowsConfigs(behind[g], g)
                     /\ behind[g].currentConfig.Num <= Num(g))'
  BY DEF ReplicasFollow
<1>1. FollowsConfigs(kv[g], g)'
  <2>1. PICK st : kv'[g] = st /\ FollowsConfigs(st, g)'
    OBVIOUS
  <2> QED BY <2>1 DEF FollowsConfigs
<1>2. FollowsConfigs(behind[g], g)'
  <2>1. PICK st : behind'[g] = st /\ FollowsConfigs(st, g)'
    OBVIOUS
  <2> QED BY <2>1 DEF FollowsConfigs
<1> QED BY <1>1, <1>2 DEF Num

LEMMA SameFollow ==
    ASSUME UNCHANGED configs, NEW st, NEW g, FollowsConfigs(st, g)
    PROVE  FollowsConfigs(st, g)'
<1>1. \A n, s : Owner(n, s)' = Owner(n, s)
  BY DEF Owner
<1> QED BY <1>1 DEF FollowsConfigs

LEMMA SameStructure ==
    ASSUME Structure, UNCHANGED <<configs, kv>>
    PROVE  /\ ConfigsSound' /\ PassedOn' /\ KeptForNext'
           /\ UNCHANGED behind => ReplicasFollow'
           /\ UNCHANGED adding => AddingSound'
           /\ UNCHANGED pulls => PullsSound'
           /\ UNCHANGED inserting => InsertingSound'
           /\ UNCHANGED deleting => DeletingSound'
           /\ UNCHANGED adjusting => AdjustingSound'
<1>1. ConfigsSound'
  BY DEF Structure, ConfigsSound, Version
<1>2. PassedOn'
  BY SMTT(10), SameGroups DEF Structure, PassedOn
<1>3. KeptForNext'
  BY SMTT(10), SameGroups DEF Structure, KeptForNext
<1>4. UNCHANGED behind => ReplicasFollow'
  BY FollowAfter, SameFollow DEF Structure, ReplicasFollow, Num
<1>5. UNCHANGED adding => AddingSound'
  BY DEF Structure, AddingSound, Version, Num, Stable, InState
<1>6. UNCHANGED pulls => PullsSound'
  BY SameGroups DEF Structure, PullsSound
<1>7. UNCHANGED inserting => InsertingSound'
  BY SMTT(10), SameGroups DEF Structure, InsertingSound
<1>8. UNCHANGED deleting => DeletingSound'
  BY SameGroups DEF Structure, DeletingSound
<1>9. UNCHANGED adjusting => AdjustingSound'
  BY SMTT(10), SameGroups DEF Structure, AdjustingSound
<1> QED BY <1>1, <1>2, <1>3, <1>4, <1>5, <1>6, <1>7, <1>8, <1>9

LEMMA StructureRequestConfig ==
    ASSUME TypeInv, Structure, NEW g \in Gid, monitorRequestConfig(g)
    PROVE  Structure'
<1>1. /\ UNCHANGED <<configs, kv, behind, pulls, inserting, deleting, adjusting>>
      /\ adding' = [adding EXCEPT ![g] = @ \cup {configs[Num(g) + 2]}]
      /\ Stable(kv[g]) /\ Num(g) + 2 <= Len(configs)
  BY DEF monitorRequestConfig, serverVars, Num
<1>2. AddingSound'
  <2> SUFFICES ASSUME NEW h \in Gid, NEW new \in adding'[h]
               PROVE  /\ new.Num \in Version /\ new = configs[new.Num + 1]
                      /\ new.Num <= Num(h) + 1
                      /\ new.Num = Num(h) + 1 => Stable(kv[h])
    BY SMTT(10), <1>1, SameGroups DEF AddingSound
  <2>1. CASE new \in adding[h]
    BY <2>1 DEF Structure, AddingSound
  <2>2. CASE new \notin adding[h]
    <3>1. h = g /\ new = configs[(Num(g) + 1) + 1]
      BY SMTT(10), <1>1, <2>2, Versions DEF TypeInv, Structure
    <3>2. Num(g) + 1 \in Version /\ Num(g) \in Nat
      BY SMTT(10), <1>1, Versions DEF Structure, Version
    <3>3. new.Num = Num(g) + 1
      BY <3>1, <3>2 DEF Structure, ConfigsSound
    <3> QED BY SMTT(10), SMTT(30), <1>1, <3>1, <3>2, <3>3
  <2> QED BY <2>1, <2>2
<1> QED BY <1>1, <1>2, SameStructure DEF Structure

\* The shards a group has in a state, and the group they come from.
LEMMA ShardIdsEffect ==
    ASSUME TypeInv, Structure, NEW g \in Gid, NEW h \in Gid, NEW state \in {"Pulling", "GCing"},
           NEW s \in ShardIds(g, state, h)
    PROVE  /\ s \in Shard /\ kv[g].shards[s].State = state
           /\ Num(g) > 1 /\ Num(g) \in Version
           /\ Owner(Num(g), s) = g /\ Owner(Num(g) - 1, s) = h
<1>1. /\ s \in Shard /\ kv[g].shards[s].State = state
      /\ kv[g].lastConfig.Shards[s] = h
  BY DEF ShardIds, InState
<1>2. /\ Num(g) > 1 /\ Num(g) < Len(configs) /\ Owner(Num(g), s) = g
      /\ kv[g].lastConfig = configs[Num(g)]
  BY SMTT(10), SMTT(30), <1>1, Versions DEF Structure, ReplicasFollow, FollowsConfigs, Num
<1>3. Num(g) \in Nat /\ Len(configs) \in Nat
  BY Versions DEF Structure
<1> QED BY SMTT(10), <1>1, <1>2, <1>3 DEF Version, Owner

LEMMA StructureInsert ==
    ASSUME TypeInv, Structure, NEW g \in Gid, NEW h \in Gid, monitorInsert(g, h)
    PROVE  Structure'
<1>1. /\ UNCHANGED <<configs, kv, behind, adding, inserting, deleting, adjusting>>
      /\ ShardIds(g, "Pulling", h) # {}
      /\ pulls' = pulls \cup {[from |-> g, to |-> h, ConfigNum |-> Num(g),
                               ShardIds |-> ShardIds(g, "Pulling", h)]}
  BY DEF monitorInsert, serverVars, commandVars, Num
<1>2. /\ Num(g) \in Version /\ Num(g) > 1
      /\ \A s \in ShardIds(g, "Pulling", h) :
           Owner(Num(g), s) = g /\ Owner(Num(g) - 1, s) = h
  BY SMTT(10), <1>1, ShardIdsEffect
<1>3. PullsSound'
  BY SMTT(10), <1>1, <1>2, SameGroups DEF Structure, PullsSound
<1> QED BY <1>1, <1>3, SameStructure DEF Structure

LEMMA StructureGC ==
    ASSUME TypeInv, Structure, NEW g \in Gid, NEW h \in Gid, monitorGC(g, h)
    PROVE  Structure'
<1> DEFINE m == [from |-> g, ConfigNum |-> Num(g), ShardIds |-> ShardIds(g, "GCing", h)]
<1>1. /\ UNCHANGED <<configs, kv, behind, adding, pulls, inserting, adjusting>>
      /\ ShardIds(g, "GCing", h) # {}
      /\ deleting' = [deleting EXCEPT ![h] = @ \cup {m}]
  BY DEF monitorGC, serverVars, Num, Inserted
<1>2. /\ Num(g) \in Version
      /\ \A s \in ShardIds(g, "GCing", h) : Owner(Num(g), s) = g /\ Acquired(Num(g), s)
  BY <1>1, ShardIdsEffect DEF Acquired
<1>3. \A k \in Gid : deleting'[k] \subseteq deleting[k] \cup {m}
  BY <1>1 DEF TypeInv
<1>4. DeletingSound'
  BY SMTT(10), <1>1, <1>2, <1>3, SameGroups DEF Structure, DeletingSound
<1> QED BY <1>1, <1>4, SameStructure DEF Structure

LEMMA StructureGetShards ==
    ASSUME TypeInv, Structure, NEW m \in pulls, NEW st \in {kv[m.to], behind[m.to]},
           GetShards(m, st)
    PROVE  Structure'
<1>1. m \in Pull /\ m.from \in Gid /\ m.to \in Gid
  BY DEF TypeInv, Pull
<1>2. st \in Group
  BY SMTT(10), <1>1 DEF TypeInv
<1>3. /\ \A g \in Gid : inserting'[g] = IF g = m.from
                          THEN inserting[g] \cup {Answered(m, st)} ELSE inserting[g]
      /\ UNCHANGED <<configs, kv, behind, pulls, adding, deleting, adjusting>>
  BY <1>2, GetShardsEffect
<1>4. m.ConfigNum <= Num(m.to)
  BY SMTT(10), <1>1, Versions DEF Structure, ReplicasFollow, GetShards, HasReached, Num
<1>5. /\ Answered(m, st).ConfigNum = m.ConfigNum
      /\ DOMAIN Answered(m, st).Shards \subseteq m.ShardIds
  BY DEF Answered, Offered
<1>6. InsertingSound'
  <2> SUFFICES ASSUME NEW g \in Gid, NEW i \in inserting'[g]
               PROVE  /\ i.ConfigNum \in Version /\ i.ConfigNum > 1
                      /\ \A s \in DOMAIN i.Shards :
                           /\ Owner(i.ConfigNum, s) = g
                           /\ Num(Owner(i.ConfigNum - 1, s)) >= i.ConfigNum
    BY SMTT(10), <1>3, SameGroups DEF InsertingSound
  <2>1. CASE i \in inserting[g]
    BY <2>1 DEF Structure, InsertingSound
  <2>2. CASE g = m.from /\ i = Answered(m, st)
    <3>1. /\ m.ConfigNum \in Version /\ m.ConfigNum > 1
          /\ \A s \in m.ShardIds : /\ Owner(m.ConfigNum, s) = m.from
                                   /\ Owner(m.ConfigNum - 1, s) = m.to
      BY DEF Structure, PullsSound
    <3>2. Num(m.to) \in Nat /\ m.ConfigNum \in Nat
      BY <1>1, Versions DEF Structure, Pull
    <3> QED BY <1>4, <1>5, <2>2, <3>1, <3>2
  <2> QED BY <1>3, <2>1, <2>2
<1> QED BY <1>3, <1>6, SameStructure DEF Structure

LEMMA StructureCatchUp ==
    ASSUME TypeInv, Structure, NEW g \in Gid, CatchUp(g)
    PROVE  Structure'
<1>1. /\ UNCHANGED <<configs, kv, pulls, adding, inserting, deleting, adjusting>>
      /\ behind' = [behind EXCEPT ![g] = kv[g]]
  BY SnapshotIsState DEF CatchUp, commandVars, TypeInv
<1>2. ReplicasFollow'
  <2>1. \A h \in Gid :
          /\ FollowsConfigs(kv[h], h) /\ FollowsConfigs(behind[h], h)
          /\ behind[h].currentConfig.Num <= Num(h) /\ Num(h) \in Nat
    BY Versions DEF Structure, ReplicasFollow
  <2>2. \A h \in Gid : behind'[h] = kv[h] \/ behind'[h] = behind[h]
    BY <1>1 DEF TypeInv
  <2> QED BY SMTT(10), SMTT(30), <1>1, <2>1, <2>2, FollowAfter, SameFollow DEF Num
<1> QED BY <1>1, <1>2, SameStructure DEF Structure

LEMMA StructureNextConfig ==
    ASSUME TypeInv, Structure, NEW plan \in Plans, NextConfig(plan)
    PROVE  Structure'
<1>0. PICK L : L = Len(configs)
  OBVIOUS
<1>1. /\ L = Len(configs) /\ L \in Nat /\ L >= 1 /\ L \in 1 .. Len(plan)
      /\ configs' = Append(configs, [Num |-> L, Shards |-> plan[L]])
      /\ UNCHANGED <<kv, behind, pulls, adding, inserting, deleting, adjusting>>
  BY SMTT(10), <1>0, Versions, ShardKVAssumption DEF NextConfig, serverVars, commandVars, Structure
<1>2. plan[L] \in [Shard -> Gid]
  BY SMTT(10), SMTT(30), <1>1, ShardKVAssumption
<1>3. /\ Len(configs') = L + 1 /\ \A n \in 1 .. L : configs'[n] = configs[n]
      /\ configs'[L + 1] = [Num |-> L, Shards |-> plan[L]]
  BY SMTT(10), <1>1 DEF TypeInv
<1>4. /\ Version = 1 .. (L - 1) /\ Version' = 1 .. L
  BY SMTT(10), <1>1, <1>3 DEF Version
<1>5. \A g \in Gid : Num(g)' = Num(g) /\ Num(g) \in Nat /\ Num(g) < L
  BY <1>1, Versions DEF Num, Structure, ReplicasFollow, FollowsConfigs
<1>6. \A n \in 0 .. (L - 1) : \A s : Owner(n, s)' = Owner(n, s)
  BY SMTT(10), <1>1, <1>3 DEF Owner
<1>7. \A s \in Shard : Owner(L, s)' \in Gid
  BY SMTT(10), <1>1, <1>2, <1>3 DEF Owner
<1>8. \A n \in Version : \A s : Acquired(n, s)' <=> Acquired(n, s)
  BY SMTT(10), <1>1, <1>4, <1>6 DEF Acquired, Num
<1>9. \A s \in Shard : ~Acquired(L, s)'
  BY SMTT(10), <1>1, <1>5, <1>7 DEF Acquired
<1>10. ConfigsSound'
  BY SMTT(10), <1>1, <1>2, <1>3, <1>4 DEF Structure, ConfigsSound
<1>11. ReplicasFollow'
  <2>1. ASSUME NEW h \in Gid, NEW st \in Group, FollowsConfigs(st, h)
        PROVE  FollowsConfigs(st, h)'
    <3>1. st.currentConfig.Num \in Nat
      BY DEF Group, Config
    <3> QED BY SMTT(10), <1>1, <1>3, <1>6, <2>1, <3>1 DEF FollowsConfigs
  <2> QED BY <1>1, <2>1, FollowAfter DEF TypeInv, Structure, ReplicasFollow, Num
<1>12. AddingSound'
  BY SMTT(10), SMTT(30), <1>1, <1>3, <1>4, <1>5 DEF Structure, AddingSound, Stable, InState
<1>13. PullsSound'
  BY SMTT(10), SMTT(30), <1>1, <1>4, <1>6 DEF Structure, PullsSound
<1>14. InsertingSound'
  BY SMTT(10), SMTT(30), <1>1, <1>4, <1>5, <1>6 DEF Structure, InsertingSound, Num
<1>15. DeletingSound' /\ AdjustingSound'
  BY SMTT(10), SMTT(30), <1>1, <1>4, <1>6, <1>8 DEF Structure, DeletingSound, AdjustingSound
<1>16. PassedOn'
  <2> SUFFICES ASSUME NEW s \in Shard, NEW n \in Version', NEW k \in 1 .. (n - 1),
                      Acquired(n, s)'
               PROVE  Num(Owner(k, s))' > k
    BY DEF PassedOn
  <2>1. n \in Version /\ k \in 0 .. (L - 1) /\ Acquired(n, s)
    BY SMTT(10), <1>1, <1>4, <1>8, <1>9
  <2>2. Num(Owner(k, s)) > k
    BY <2>1 DEF Structure, PassedOn
  <2> QED BY <1>1, <1>6, <2>1, <2>2 DEF Num
<1>17. KeptForNext'
  <2> SUFFICES ASSUME NEW s \in Shard, NEW n \in Version', n > 1,
                      Owner(n - 1, s)' # Owner(n, s)',
                      \/ kv'[Owner(n - 1, s)'].currentConfig.Num > n
                      \/ /\ kv'[Owner(n - 1, s)'].currentConfig.Num = n
                         /\ kv'[Owner(n - 1, s)'].shards[s].State # "BePulling"
               PROVE  Acquired(n, s)'
    BY DEF KeptForNext, Num
  <2>1. n \in Nat /\ n - 1 \in Version /\ n - 1 \in 0 .. (L - 1)
    BY SMTT(10), <1>1, <1>4
  <2>2. Owner(n - 1, s)' = Owner(n - 1, s) /\ Owner(n - 1, s) \in Gid
    BY <1>6, <2>1, Versions DEF Structure
  <2>3. n \in Version
    BY SMTT(10), SMTT(30), <1>1, <1>4, <1>5, <2>1, <2>2 DEF Num
  <2>4. Owner(n, s)' = Owner(n, s)
    BY SMTT(10), <1>1, <1>4, <1>6, <2>3
  <2>5. Acquired(n, s)
    BY <1>1, <2>2, <2>3, <2>4 DEF Structure, KeptForNext, Num
  <2> QED BY <1>8, <2>3, <2>5
<1> QED BY <1>10, <1>11, <1>12, <1>13, <1>14, <1>15, <1>16, <1>17 DEF Structure

-----------------------------------------------------------------------------
(* Steps that execute a command *)

LEMMA MessagesStay ==
    ASSUME TypeInv, TypeInv', Structure, UNCHANGED configs, GoesOn
    PROVE  /\ ConfigsSound'
           /\ UNCHANGED pulls => PullsSound'
           /\ UNCHANGED inserting => InsertingSound'
           /\ UNCHANGED deleting => DeletingSound'
           /\ UNCHANGED adjusting => AdjustingSound'
<1>1. /\ Version' = Version /\ \A n, s : Owner(n, s)' = Owner(n, s)
      /\ \A n \in Version : \A s \in Shard : Acquired(n, s) => Acquired(n, s)'
  BY AcquiredStays
<1>2. ConfigsSound'
  BY <1>1 DEF Structure, ConfigsSound
<1>3. UNCHANGED pulls => PullsSound'
  BY <1>1 DEF Structure, PullsSound
<1>4. ASSUME UNCHANGED inserting
      PROVE  InsertingSound'
  <2> SUFFICES ASSUME NEW g \in Gid, NEW m \in inserting[g]
               PROVE  /\ m.ConfigNum \in Version /\ m.ConfigNum > 1
                      /\ \A s \in DOMAIN m.Shards :
                           /\ Owner(m.ConfigNum, s) = g
                           /\ kv'[Owner(m.ConfigNum - 1, s)].currentConfig.Num
                                >= m.ConfigNum
    BY <1>1, <1>4 DEF InsertingSound, Num
  <2>1. /\ m.ConfigNum \in Version /\ m.ConfigNum > 1 /\ DOMAIN m.Shards \subseteq Shard
        /\ \A s \in DOMAIN m.Shards :
             /\ Owner(m.ConfigNum, s) = g
             /\ Num(Owner(m.ConfigNum - 1, s)) >= m.ConfigNum
    BY DEF Structure, InsertingSound, TypeInv, IsInsert
  <2>2. \A s \in DOMAIN m.Shards : Owner(m.ConfigNum - 1, s) \in Gid
    BY <2>1, Versions DEF Structure
  <2>3. \A h \in Gid : Num(h) \in Nat /\ kv'[h].currentConfig.Num \in Nat
    BY DEF TypeInv, Num, Group, Config
  <2>4. ASSUME NEW s \in DOMAIN m.Shards
        PROVE  kv'[Owner(m.ConfigNum - 1, s)].currentConfig.Num >= m.ConfigNum
    <3> DEFINE h == Owner(m.ConfigNum - 1, s)
    <3>1. h \in Gid /\ Num(h) >= m.ConfigNum /\ m.ConfigNum \in Int
      BY SMTT(10), <2>1, <2>2 DEF Version
    <3> HIDE DEF h
    <3>2. kv'[h].currentConfig.Num >= m.ConfigNum
      BY SMTT(10), <2>3, <3>1 DEF GoesOn, Num
    <3> QED BY <3>2 DEF h
  <2> QED BY <2>1, <2>4
<1>5. ASSUME UNCHANGED deleting
      PROVE  DeletingSound'
  <2>1. \A g \in Gid : \A m \in deleting[g] : m.ShardIds \subseteq Shard
    BY SMTT(10), SMTT(30) DEF TypeInv, Delete
  <2> QED BY <1>1, <1>5, <2>1 DEF Structure, DeletingSound
<1>6. ASSUME UNCHANGED adjusting
      PROVE  AdjustingSound'
  <2>1. \A g \in Gid : \A m \in adjusting[g] : m.ShardIds \subseteq Shard
    BY SMTT(10) DEF TypeInv, Adjust
  <2> QED BY <1>1, <1>6, <2>1 DEF Structure, AdjustingSound
<1> QED BY <1>2, <1>3, <1>4, <1>5, <1>6

\* What a command other than AddConfig does to the state of a shard: it was
\* pulled, or deleted at the old owner, or the deletion was confirmed.
Moves(g) ==
    \A s \in Shard :
        LET old == kv[g].shards[s].State
            new == kv'[g].shards[s].State
        IN \/ new = old
           \/ /\ old = "Pulling" /\ new = "GCing"
              /\ Num(Owner(Num(g) - 1, s)) >= Num(g)
           \/ /\ old = "BePulling" /\ new = "Serving" /\ Acquired(Num(g), s)
              /\ kv'[g].shards[s].db = <<>>
           \/ old = "GCing" /\ new = "Serving"

\* No command leaves contents where the group does not own the shard.
Empties(g) ==
    \A s \in Shard :
        LET old == kv[g].shards[s]
            new == kv'[g].shards[s]
        IN \/ new.db = old.db \/ new.db = <<>>
           \/ new.State # "Pulling" /\ kv[g].currentConfig.Shards[s] = g

\* A command that only moves shards on takes no group back.
LEMMA MovesGoOn ==
    ASSUME TypeInv, ConfigsSound, NEW g \in Gid, Moves(g),
           \A h \in Gid : h # g => kv'[h] = kv[h],
           kv'[g].currentConfig = kv[g].currentConfig
    PROVE  GoesOn
<1>1. ASSUME NEW s \in Shard, kv'[g].shards[s].State = "Pulling"
      PROVE  kv[g].shards[s].State = "Pulling"
  BY <1>1 DEF Moves
<1>2. \A h \in Gid : kv'[h].currentConfig = kv[h].currentConfig
  OBVIOUS
<1>3. \A h \in Gid : kv[h].currentConfig.Num \in Nat
  BY Versions DEF Num
<1>4. \A h \in Gid : kv'[h].currentConfig.Num >= kv[h].currentConfig.Num
  BY SMTT(10), <1>2, <1>3
<1> QED BY <1>1, <1>4 DEF GoesOn

LEMMA StructureMoves ==
    ASSUME TypeInv, TypeInv', Structure, NEW g \in Gid, Moves(g), Empties(g),
           \A h \in Gid : h # g => kv'[h] = kv[h],
           kv'[g].currentConfig = kv[g].currentConfig, kv'[g].lastConfig = kv[g].lastConfig,
           UNCHANGED <<configs, behind, pulls, adding, inserting, deleting>>,
           AdjustingSound'
    PROVE  Structure'
<1>1. \A h \in Gid : /\ Num(h)' = Num(h) /\ Num(h) \in Nat /\ Num(h) < Len(configs)
                     /\ FollowsConfigs(kv[h], h) /\ FollowsConfigs(behind[h], h)
                     /\ behind[h].currentConfig.Num <= Num(h)
                     /\ kv'[h].currentConfig = kv[h].currentConfig
  <2>1. \A h \in Gid : /\ FollowsConfigs(kv[h], h) /\ FollowsConfigs(behind[h], h)
                       /\ behind[h].currentConfig.Num <= Num(h) /\ Num(h) \in Nat
    BY Versions DEF Structure, ReplicasFollow
  <2>2. \A h \in Gid : Num(h) < Len(configs)
    BY <2>1 DEF FollowsConfigs, Num
  <2>3. \A h \in Gid : kv'[h].currentConfig = kv[h].currentConfig
    OBVIOUS
  <2> QED BY <2>1, <2>2, <2>3 DEF Num
<1>2. GoesOn
  BY MovesGoOn DEF Structure
<1>3. /\ Version' = Version /\ \A n, s : Owner(n, s)' = Owner(n, s)
      /\ \A n \in Version : \A s \in Shard : Acquired(n, s) => Acquired(n, s)'
  BY <1>2, AcquiredStays
<1>4. ReplicasFollow'
  <2>1. FollowsConfigs(kv'[g], g)
    <3> DEFINE n == kv[g].currentConfig.Num
    <3>1. /\ n < Len(configs) /\ kv'[g].currentConfig = configs[n + 1]
          /\ kv'[g].currentConfig.Num = n
          /\ kv'[g].lastConfig = IF n = 0 THEN NoConfig ELSE configs[n]
      BY <1>1 DEF FollowsConfigs
    <3>2. ASSUME NEW s \in Shard
          PROVE  /\ kv'[g].shards[s].State \in {"Pulling", "GCing"} =>
                      n > 1 /\ Owner(n, s) = g /\ Owner(n - 1, s) # g
                 /\ kv'[g].shards[s].State = "BePulling" =>
                      n > 1 /\ Owner(n, s) # g /\ Owner(n - 1, s) = g
      <4> DEFINE old == kv[g].shards[s].State
                 new == kv'[g].shards[s].State
      <4>1. /\ old \in {"Pulling", "GCing"} =>
                 n > 1 /\ Owner(n, s) = g /\ Owner(n - 1, s) # g
            /\ old = "BePulling" => n > 1 /\ Owner(n, s) # g /\ Owner(n - 1, s) = g
        BY <1>1 DEF FollowsConfigs
      <4>2. \/ new = old
            \/ old = "Pulling" /\ new = "GCing"
            \/ old = "BePulling" /\ new = "Serving"
            \/ old = "GCing" /\ new = "Serving"
        BY DEF Moves
      <4> HIDE DEF n, old, new
      <4>3. /\ new \in {"Pulling", "GCing"} => old \in {"Pulling", "GCing"}
            /\ new = "BePulling" => old = "BePulling"
        BY <4>2
      <4> QED BY <4>1, <4>3 DEF new
    <3>3. ASSUME NEW s \in Shard
          PROVE  /\ kv'[g].shards[s].State = "Pulling" => kv'[g].shards[s].db = <<>>
                 /\ (kv'[g].shards[s].State = "Serving" /\
                     kv'[g].currentConfig.Shards[s] # g) => kv'[g].shards[s].db = <<>>
      <4> DEFINE old == kv[g].shards[s]
                 new == kv'[g].shards[s]
      <4>1. /\ old.State = "Pulling" => old.db = <<>>
            /\ (old.State = "Serving" /\ kv[g].currentConfig.Shards[s] # g) => old.db = <<>>
            /\ old.State = "GCing" => kv[g].currentConfig.Shards[s] = g
        <5>1. /\ old.State = "Pulling" => old.db = <<>>
              /\ (old.State = "Serving" /\ kv[g].currentConfig.Shards[s] # g) =>
                    old.db = <<>>
              /\ old.State = "GCing" => Owner(n, s) = g
          BY <1>1 DEF FollowsConfigs
        <5>2. Owner(n, s) = kv[g].currentConfig.Shards[s]
          BY <3>1 DEF Owner
        <5> QED BY <5>1, <5>2
      <4>2. \/ new.State = old.State
            \/ old.State = "Pulling" /\ new.State = "GCing"
            \/ old.State = "BePulling" /\ new.State = "Serving" /\ new.db = <<>>
            \/ old.State = "GCing" /\ new.State = "Serving"
        BY DEF Moves
      <4>3. \/ new.db = old.db \/ new.db = <<>>
            \/ new.State # "Pulling" /\ kv[g].currentConfig.Shards[s] = g
        BY DEF Empties
      <4> HIDE DEF old, new
      <4>4. /\ new.State = "Pulling" => new.db = <<>>
            /\ (new.State = "Serving" /\ kv[g].currentConfig.Shards[s] # g) => new.db = <<>>
        BY <4>1, <4>2, <4>3
      <4> QED BY <4>4 DEF new
    <3> HIDE DEF n
    <3> QED BY <3>1, <3>2, <3>3 DEF FollowsConfigs
  <2>2. \A h \in Gid : FollowsConfigs(kv'[h], h)
    BY <1>1, <2>1
  <2> QED BY <1>1, <2>2, FollowAfter, SameFollow DEF Num
<1>5. AddingSound'
  <2> SUFFICES ASSUME NEW h \in Gid, NEW new \in adding[h], new.Num = Num(h) + 1,
                      Stable(kv[h])
               PROVE  Stable(kv'[h])
    BY <1>1, <1>3 DEF Structure, AddingSound, Stable, InState
  <2>1. CASE h = g
    BY <2>1 DEF Moves, Stable, InState
  <2>2. CASE h # g
    BY <2>2
  <2> QED BY <2>1, <2>2
<1>6. PassedOn'
  <2> SUFFICES ASSUME NEW s \in Shard, NEW n \in Version, NEW k \in 1 .. (n - 1),
                      Acquired(n, s)'
               PROVE  Num(Owner(k, s)) > k
    <3>1. \A k \in Version : \A s \in Shard : Num(Owner(k, s))' = Num(Owner(k, s))
      BY <1>1, <1>3, Versions DEF Structure, Num
    <3> QED BY SMTT(10), <1>3, <3>1 DEF PassedOn, Version
  <2>1. CASE Acquired(n, s)
    BY <2>1 DEF Structure, PassedOn
  <2>2. CASE ~Acquired(n, s)
    <3>1. Owner(n, s) = g /\ n = Num(g) /\ Num(Owner(n - 1, s)) >= n
      <4> DEFINE h == Owner(n, s)
      <4>1. h \in Gid /\ n \in Nat
        BY Versions DEF Structure
      <4>2. /\ kv'[h].currentConfig.Num > n \/
               (kv'[h].currentConfig.Num = n /\ kv'[h].shards[s].State # "Pulling")
            /\ ~(Num(h) > n) /\ ~(Num(h) = n /\ kv[h].shards[s].State # "Pulling")
        BY <1>3, <2>2 DEF Acquired, Num
      <4> HIDE DEF h
      <4>3. /\ h = g /\ Num(g) = n
            /\ kv[g].shards[s].State = "Pulling" /\ kv'[g].shards[s].State # "Pulling"
        BY <1>1, <4>1, <4>2 DEF Num
      <4> QED BY <4>3 DEF Moves, h
    <3>2. n - 1 \in Version /\ n - 1 \in Nat /\ Owner(n - 1, s) \in Gid
      <4>1. n - 1 \in Version /\ n - 1 \in Nat
        BY SMTT(10), SMTT(30) DEF Version
      <4> QED BY <4>1, Versions DEF Structure
    <3>3. CASE k = n - 1
      BY SMTT(10), <1>1, <3>1, <3>2, <3>3
    <3>4. CASE k < n - 1
      <4>1. Acquired(n - 1, s) /\ k \in 1 .. ((n - 1) - 1)
        BY SMTT(10), SMTT(30), <1>1, <3>1, <3>2, <3>4 DEF Acquired
      <4> QED BY <3>2, <4>1 DEF Structure, PassedOn
    <3> QED BY SMTT(10), <3>2, <3>3, <3>4
  <2> QED BY <2>1, <2>2
<1>7. KeptForNext'
  <2> SUFFICES ASSUME NEW s \in Shard, NEW n \in Version, n > 1, ~Acquired(n, s),
                      Owner(n - 1, s) # Owner(n, s),
                      \/ kv'[Owner(n - 1, s)].currentConfig.Num > n
                      \/ /\ kv'[Owner(n - 1, s)].currentConfig.Num = n
                         /\ kv'[Owner(n - 1, s)].shards[s].State # "BePulling"
               PROVE  FALSE
    BY <1>3 DEF KeptForNext, Num
  <2>1. Owner(n - 1, s) \in Gid /\ n \in Int
    BY SMTT(10), Versions DEF Structure, Version
  <2>2. /\ ~(Num(Owner(n - 1, s)) > n)
        /\ Num(Owner(n - 1, s)) = n => kv[Owner(n - 1, s)].shards[s].State = "BePulling"
    BY DEF Structure, KeptForNext
  <2> DEFINE h == Owner(n - 1, s)
  <2> HIDE DEF h
  <2>3. h = g /\ Num(g) = n /\ kv[g].shards[s].State = "BePulling"
    BY <1>1, <2>1, <2>2 DEF h, Num
  <2> QED BY SMTT(10), <2>1, <2>3 DEF Moves, h, Num
<1>8. ConfigsSound' /\ PullsSound' /\ InsertingSound' /\ DeletingSound'
  BY <1>2, MessagesStay
<1> QED BY <1>4, <1>5, <1>6, <1>7, <1>8 DEF Structure

LEMMA StructureInsertShard ==
    ASSUME TypeInv, TypeInv', Structure, NEW g \in Gid, NEW m \in inserting[g],
           InsertShard(g, m)
    PROVE  Structure'
<1> DEFINE r == processInsertShard(kv[g], m)
<1>1. /\ kv[g] \in Group /\ IsInsert(m) /\ kv'[g] = r
      /\ \A h \in Gid : h # g => kv'[h] = kv[h]
      /\ UNCHANGED <<configs, behind, pulls, adding, inserting, deleting, adjusting>>
  BY DEF InsertShard, commandVars, TypeInv
<1>2. /\ r.currentConfig = kv[g].currentConfig /\ r.lastConfig = kv[g].lastConfig
      /\ m.ConfigNum # Num(g) => r = kv[g]
      /\ m.ConfigNum = Num(g) => \A s \in Shard :
           IF s \in DOMAIN m.Shards /\ kv[g].shards[s].State = "Pulling"
           THEN r.shards[s].State = "GCing" ELSE r.shards[s] = kv[g].shards[s]
  BY <1>1, InsertShardEffect DEF Num
<1> HIDE DEF r
<1>3. \A s \in DOMAIN m.Shards : m.ConfigNum = Num(g) =>
         Num(Owner(Num(g) - 1, s)) >= Num(g)
  BY DEF Structure, InsertingSound
<1>4. Moves(g)
  BY <1>1, <1>2, <1>3 DEF Moves
<1>5. Empties(g)
  <2>1. \A s \in Shard : kv[g].shards[s].State = "Pulling" =>
          kv[g].currentConfig.Shards[s] = g
    <3> SUFFICES ASSUME NEW s \in Shard, kv[g].shards[s].State = "Pulling"
                 PROVE  kv[g].currentConfig.Shards[s] = g
      OBVIOUS
    <3>1. FollowsConfigs(kv[g], g)
      BY DEF Structure, ReplicasFollow
    <3>2. PICK n : n = kv[g].currentConfig.Num
      OBVIOUS
    <3>3. kv[g].currentConfig = configs[n + 1] /\ Owner(n, s) = g
      BY <3>1, <3>2 DEF FollowsConfigs
    <3> QED BY <3>3 DEF Owner
  <2>2. ASSUME NEW s \in Shard
        PROVE  \/ r.shards[s] = kv[g].shards[s]
               \/ r.shards[s].State # "Pulling" /\ kv[g].currentConfig.Shards[s] = g
    BY <1>2, <2>1
  <2> QED BY <1>1, <2>2 DEF Empties
<1>6. AdjustingSound'
  <2>1. GoesOn
    BY <1>1, <1>2, <1>4, MovesGoOn DEF Structure
  <2> QED BY <1>1, <2>1, MessagesStay
<1> QED BY <1>1, <1>2, <1>4, <1>5, <1>6, StructureMoves

LEMMA StructureDeleteShard ==
    ASSUME TypeInv, TypeInv', Structure, NEW g \in Gid, NEW m \in deleting[g],
           NEW answered \in BOOLEAN, DeleteShard(g, m, answered)
    PROVE  Structure'
<1> DEFINE r == processDeleteShard(kv[g], m)
           told == [ConfigNum |-> m.ConfigNum, ShardIds |-> m.ShardIds]
<1>1. /\ kv[g] \in Group /\ m \in Delete /\ kv'[g] = r
      /\ \A h \in Gid : h # g => kv'[h] = kv[h]
      /\ UNCHANGED <<configs, behind, pulls, adding, inserting, deleting>>
  BY DEF DeleteShard, TypeInv
<1>2. /\ r.currentConfig = kv[g].currentConfig /\ r.lastConfig = kv[g].lastConfig
      /\ m.ConfigNum # Num(g) => r = kv[g]
      /\ m.ConfigNum = Num(g) => \A s \in Shard :
           IF s \in m.ShardIds /\ kv[g].shards[s].State = "BePulling"
           THEN r.shards[s].State = "Serving" /\ r.shards[s].db = <<>>
           ELSE r.shards[s] = kv[g].shards[s]
  BY <1>1, DeleteShardEffect DEF Num
<1> HIDE DEF r
<1>3. /\ m.ConfigNum \in Version /\ m.from \in Gid /\ m.ShardIds \subseteq Shard
      /\ \A s \in m.ShardIds : Owner(m.ConfigNum, s) = m.from /\ Acquired(m.ConfigNum, s)
  BY <1>1 DEF Structure, DeletingSound, Delete
<1>4. Moves(g)
  BY <1>1, <1>2, <1>3 DEF Moves
<1>5. Empties(g)
  BY <1>1, <1>2 DEF Empties
<1>6. AdjustingSound'
  <2>1. GoesOn
    BY <1>1, <1>2, <1>4, MovesGoOn DEF Structure
  <2>2. /\ Version' = Version /\ \A n, s : Owner(n, s)' = Owner(n, s)
        /\ \A n \in Version : \A s \in Shard : Acquired(n, s) => Acquired(n, s)'
    BY <1>1, <2>1, AcquiredStays
  <2>3. \A h \in Gid : \A a \in adjusting'[h] :
          a \in adjusting[h] \/ (h = m.from /\ a = told)
    <3>1. DOMAIN adjusting = Gid
      BY DEF TypeInv
    <3> QED BY <1>3, <3>1 DEF DeleteShard
  <2>4. \A h \in Gid : \A a \in adjusting[h] : a.ShardIds \subseteq Shard
    <3>1. \A h \in Gid : adjusting[h] \subseteq Adjust
      BY DEF TypeInv
    <3> QED BY <3>1 DEF Adjust
  <2> QED BY SMTT(10), <1>3, <2>2, <2>3, <2>4 DEF Structure, AdjustingSound
<1> QED BY <1>1, <1>2, <1>4, <1>5, <1>6, StructureMoves

LEMMA StructureAdjust ==
    ASSUME TypeInv, TypeInv', Structure, NEW g \in Gid, NEW m \in adjusting[g],
           AdjustShardState(g, m)
    PROVE  Structure'
<1> DEFINE r == processAdjustGCingShard(kv[g], m)
<1>1. /\ kv[g] \in Group /\ m \in Adjust /\ kv'[g] = r
      /\ \A h \in Gid : h # g => kv'[h] = kv[h]
      /\ UNCHANGED <<configs, behind, pulls, adding, inserting, deleting, adjusting>>
  BY DEF AdjustShardState, commandVars, TypeInv
<1>2. /\ r.currentConfig = kv[g].currentConfig /\ r.lastConfig = kv[g].lastConfig
      /\ m.ConfigNum # Num(g) => r = kv[g]
      /\ m.ConfigNum = Num(g) => \A s \in Shard :
           /\ r.shards[s].db = kv[g].shards[s].db
           /\ r.shards[s].State = IF s \in m.ShardIds THEN "Serving"
                                  ELSE kv[g].shards[s].State
  BY <1>1, AdjustShardEffect DEF Num
<1> HIDE DEF r
<1>3. \A s \in m.ShardIds : m.ConfigNum = Num(g) =>
         kv[g].shards[s].State \in {"GCing", "Serving"}
  BY AdjustedShards
<1>4. Moves(g)
  BY <1>1, <1>2, <1>3 DEF Moves
<1>5. Empties(g)
  BY <1>1, <1>2 DEF Empties
<1>6. AdjustingSound'
  <2>1. GoesOn
    BY <1>1, <1>2, <1>4, MovesGoOn DEF Structure
  <2> QED BY <1>1, <2>1, MessagesStay
<1> QED BY <1>1, <1>2, <1>4, <1>5, <1>6, StructureMoves

LEMMA StructureExecute ==
    ASSUME TypeInv, TypeInv', Structure, NEW g \in Gid, NEW m \in ops[g],
           processGetPutAppend(g, m)
    PROVE  Structure'
<1>1. /\ m \in ClerkCommand /\ m.op.Shard \in Shard
      /\ UNCHANGED <<configs, behind, pulls, adding, inserting, deleting, adjusting>>
      /\ checkShardAndState(kv[g], g, m.op.Shard)
  <2>1. m \in ClerkCommand /\ m.op.Shard \in Shard
    BY CommandTypes
  <2> QED BY <2>1 DEF processGetPutAppend, commandVars
<1>2. CASE Executes(kv[g], m)
  <2>1. /\ \A h \in Gid : h # g => kv'[h] = kv[h]
        /\ kv'[g].currentConfig = kv[g].currentConfig
        /\ kv'[g].lastConfig = kv[g].lastConfig
        /\ \A t \in Shard : /\ kv'[g].shards[t].State = kv[g].shards[t].State
                            /\ t # m.op.Shard => kv'[g].shards[t] = kv[g].shards[t]
    <3>1. kv \in [Gid -> Group]
      BY DEF TypeInv
    <3> QED BY <1>1, <1>2, <3>1, ExecuteEffect
  <2>2. Moves(g) /\ Empties(g)
    BY <1>1, <2>1 DEF Moves, Empties, checkShardAndState
  <2>3. GoesOn
    BY <2>1, <2>2, MovesGoOn DEF Structure
  <2>4. AdjustingSound'
    BY <1>1, <2>3, MessagesStay
  <2> QED BY <1>1, <2>1, <2>2, <2>4, StructureMoves
<1>3. CASE ~Executes(kv[g], m)
  BY <1>1, <1>3, SameStructure DEF processGetPutAppend, Structure
<1> QED BY <1>2, <1>3

LEMMA StructureAddConfig ==
    ASSUME TypeInv, TypeInv', Structure, NEW g \in Gid, NEW new \in adding[g],
           AddConfig(g, new)
    PROVE  Structure'
<1>1. CASE new.Num # Num(g) + 1
  BY <1>1, AddConfigStep, SameStructure DEF Structure
<1>2. CASE new.Num = Num(g) + 1
  <2>0. PICK n : n = Num(g)
    OBVIOUS
  <2>1. /\ \A h \in Gid : h # g => kv'[h] = kv[h]
        /\ UNCHANGED <<configs, behind, pulls, adding, inserting, deleting, adjusting>>
        /\ n + 1 \in Version /\ kv'[g].currentConfig = configs[n + 2]
        /\ kv'[g].currentConfig.Num = n + 1 /\ kv'[g].lastConfig = kv[g].currentConfig
        /\ \A s \in Shard :
             /\ kv'[g].shards[s].db = kv[g].shards[s].db
             /\ kv[g].shards[s].State = "Serving"
             /\ kv'[g].shards[s].State =
                  IF Owner(n + 1, s) = g
                  THEN IF Owner(n, s) \in {g, 0} THEN "Serving" ELSE "Pulling"
                  ELSE IF Owner(n, s) = g THEN "BePulling" ELSE "Serving"
    <3>1. /\ \A h \in Gid : h # g => kv'[h] = kv[h]
          /\ UNCHANGED <<configs, behind, pulls, adding, inserting, deleting, adjusting>>
          /\ kv'[g].lastConfig = kv[g].currentConfig
          /\ \A s \in Shard : /\ kv'[g].shards[s].db = kv[g].shards[s].db
                              /\ kv[g].shards[s].State = "Serving"
      BY SMTT(10), SMTT(30), <1>2, AddConfigStep
    <3>2. /\ n + 1 \in Version /\ kv'[g].currentConfig = configs[n + 2]
          /\ kv'[g].currentConfig.Num = n + 1
      BY <1>2, <2>0, AddConfigStep
    <3>3. ASSUME NEW s \in Shard
          PROVE  kv'[g].shards[s].State =
                   IF Owner(n + 1, s) = g
                   THEN IF Owner(n, s) \in {g, 0} THEN "Serving" ELSE "Pulling"
                   ELSE IF Owner(n, s) = g THEN "BePulling" ELSE "Serving"
      <4>1. kv'[g].shards[s].State =
              IF Owner(Num(g) + 1, s) = g
              THEN IF Owner(Num(g), s) \in {g, 0} THEN "Serving" ELSE "Pulling"
              ELSE IF Owner(Num(g), s) = g THEN "BePulling" ELSE "Serving"
        BY ZenonT(30), <1>2, AddConfigStep
      <4> QED BY <2>0, <4>1
    <3> QED BY <3>1, <3>2, <3>3
  <2>2. /\ n \in Nat /\ Num(g) = n /\ Len(configs) \in Nat /\ n + 1 < Len(configs)
        /\ \A h \in Gid : Num(h) \in Nat
        /\ kv[g].currentConfig = configs[n + 1]
    <3>1. Len(configs) \in Nat /\ \A h \in Gid : Num(h) \in Nat
      BY Versions DEF Structure
    <3>2. n \in Nat /\ Num(g) = n
      BY <2>0, <3>1
    <3>3. n + 1 < Len(configs)
      BY SMTT(10), <2>1, <3>1, <3>2 DEF Version
    <3>4. FollowsConfigs(kv[g], g)
      BY DEF Structure, ReplicasFollow
    <3>5. kv[g].currentConfig = configs[n + 1]
      BY <2>0, <3>4 DEF FollowsConfigs, Num
    <3> QED BY <3>1, <3>2, <3>3, <3>5
  <2>3. GoesOn
    BY SMTT(10), <2>1, <2>2 DEF GoesOn, Num
  <2>4. /\ Version' = Version /\ \A k, s : Owner(k, s)' = Owner(k, s)
        /\ \A k \in Version : \A s \in Shard : Acquired(k, s) => Acquired(k, s)'
    BY <2>1, <2>3, AcquiredStays
  <2>5. \A s \in Shard : Owner(n, s) # 0 => n \in Version
    BY SMTT(10), SMTT(30), <2>2, Versions DEF Structure, Version
  <2>6. ReplicasFollow'
    <3>1. FollowsConfigs(kv'[g], g)
      <4>1. kv'[g].lastConfig = configs[n + 1] /\ kv'[g].currentConfig = configs[(n + 1) + 1]
        BY SMTT(10), <2>1, <2>2
      <4>2. ASSUME NEW s \in Shard
            PROVE  /\ kv'[g].shards[s].State \in {"Pulling", "GCing"} =>
                        n + 1 > 1 /\ Owner(n + 1, s) = g /\ Owner(n, s) # g
                   /\ kv'[g].shards[s].State = "BePulling" =>
                        n + 1 > 1 /\ Owner(n + 1, s) # g /\ Owner(n, s) = g
        <5>1. Owner(n, s) # 0 => n + 1 > 1
          BY SMTT(10), SMTT(30), <2>2, <2>5 DEF Version
        <5>2. g # 0
          BY ShardKVAssumption
        <5> QED BY <2>1, <5>1, <5>2
      <4>3. ASSUME NEW s \in Shard
            PROVE  /\ kv'[g].shards[s].State = "Pulling" => kv'[g].shards[s].db = <<>>
                   /\ (kv'[g].shards[s].State = "Serving" /\
                       kv'[g].currentConfig.Shards[s] # g) => kv'[g].shards[s].db = <<>>
        <5>1. kv[g].currentConfig.Shards[s] # g => kv[g].shards[s].db = <<>>
          BY <2>1 DEF Structure, ReplicasFollow, FollowsConfigs
        <5>2. /\ Owner(n + 1, s) = kv'[g].currentConfig.Shards[s]
              /\ Owner(n, s) = kv[g].currentConfig.Shards[s]
          BY <2>2, <4>1 DEF Owner
        <5> QED BY <2>1, <5>1, <5>2
      <4>4. n + 1 # 0 /\ (n + 1) - 1 = n
        BY SMTT(10), <2>2
      <4>5. PICK st, k : st = kv'[g] /\ k = n + 1
        OBVIOUS
      <4>6. /\ st.currentConfig.Num = k /\ k < Len(configs)
            /\ st.currentConfig = configs[k + 1] /\ st.lastConfig = configs[k] /\ k # 0
        BY <2>1, <2>2, <4>1, <4>4, <4>5
      <4>7. ASSUME NEW s \in Shard
            PROVE  /\ st.shards[s].State \in {"Pulling", "GCing"} =>
                        k > 1 /\ Owner(k, s) = g /\ Owner(k - 1, s) # g
                   /\ st.shards[s].State = "BePulling" =>
                        k > 1 /\ Owner(k, s) # g /\ Owner(k - 1, s) = g
                   /\ st.shards[s].State = "Pulling" => st.shards[s].db = <<>>
                   /\ (st.shards[s].State = "Serving" /\
                       st.currentConfig.Shards[s] # g) => st.shards[s].db = <<>>
        BY <4>2, <4>3, <4>4, <4>5
      <4>8. FollowsConfigs(st, g)
        BY <4>6, <4>7 DEF FollowsConfigs
      <4> QED BY <4>5, <4>8
    <3>2. \A h \in Gid : FollowsConfigs(kv'[h], h) /\ FollowsConfigs(behind[h], h)
      BY <2>1, <3>1 DEF Structure, ReplicasFollow
    <3>3. \A h \in Gid : behind[h].currentConfig.Num <= kv'[h].currentConfig.Num
      <4>1. \A h \in Gid : /\ behind[h].currentConfig.Num <= kv[h].currentConfig.Num
                           /\ behind[h].currentConfig.Num \in Nat
        BY DEF Structure, ReplicasFollow, Num, TypeInv, Group, Config
      <4> QED BY SMTT(10), <2>1, <2>2, <4>1 DEF Num
    <3> QED BY <2>1, <3>2, <3>3, FollowAfter, SameFollow
  <2>7. AddingSound'
    <3> SUFFICES ASSUME NEW h \in Gid, NEW c \in adding[h]
                 PROVE  /\ c.Num <= kv'[h].currentConfig.Num + 1
                        /\ c.Num = kv'[h].currentConfig.Num + 1 => Stable(kv'[h])
      BY <2>1, <2>4 DEF Structure, AddingSound, Stable, InState, Num
    <3>1. /\ c.Num \in Nat /\ c.Num <= Num(h) + 1
          /\ c.Num = Num(h) + 1 => Stable(kv[h])
      BY Versions DEF Structure, AddingSound
    <3>2. CASE h = g
      BY SMTT(10), <2>1, <2>2, <3>1, <3>2
    <3>3. CASE h # g
      BY <2>1, <3>1, <3>3 DEF Num
    <3> QED BY <3>2, <3>3
  <2>8. PassedOn'
    <3> SUFFICES ASSUME NEW s \in Shard, NEW i \in Version, NEW k \in 1 .. (i - 1),
                        Acquired(i, s)'
                 PROVE  kv'[Owner(k, s)].currentConfig.Num > k
      BY <2>4 DEF PassedOn, Num
    <3>1. i \in Nat /\ k \in Nat /\ k \in Version /\ Owner(k, s) \in Gid
      <4>1. i \in Nat /\ k \in Nat /\ k \in Version
        BY SMTT(10) DEF Version
      <4> QED BY <4>1, Versions DEF Structure
    <3>2. ASSUME NEW j \in Version, Acquired(j, s), k \in 1 .. (j - 1)
          PROVE  kv'[Owner(k, s)].currentConfig.Num > k
      <4> DEFINE h == Owner(k, s)
      <4>1. Num(h) > k /\ h \in Gid
        BY <3>1, <3>2 DEF Structure, PassedOn
      <4> HIDE DEF h
      <4>2. kv'[h].currentConfig.Num > k
        BY SMTT(10), SMTT(30), <2>1, <2>2, <3>1, <4>1 DEF Num
      <4> QED BY <4>2 DEF h
    <3>3. CASE Acquired(i, s)
      BY <3>2, <3>3
    <3>4. CASE ~Acquired(i, s)
      <4> DEFINE h == Owner(i, s)
      <4>1. h \in Gid
        BY Versions DEF Structure
      <4>2. /\ kv'[h].currentConfig.Num > i \/
               (kv'[h].currentConfig.Num = i /\ kv'[h].shards[s].State # "Pulling")
            /\ ~(Num(h) > i) /\ ~(Num(h) = i /\ kv[h].shards[s].State # "Pulling")
        BY <2>4, <3>4 DEF Acquired, Num
      <4> HIDE DEF h
      <4>3. h = g /\ i = n + 1 /\ kv'[g].shards[s].State # "Pulling"
        <5>1. CASE h # g
          <6>1. kv'[h] = kv[h]
            BY <2>1, <4>1, <5>1
          <6> QED BY <4>2, <6>1 DEF Num
        <5>2. CASE h = g
          <6>1. kv'[g].currentConfig.Num = n + 1 /\ Num(g) = n /\ n \in Nat /\ i \in Nat
            BY <2>1, <2>2, <3>1
          <6>2. /\ n + 1 > i \/ (n + 1 = i /\ kv'[g].shards[s].State # "Pulling")
                /\ ~(n > i) /\ ~(n = i /\ kv[g].shards[s].State # "Pulling")
            BY <4>2, <5>2, <6>1
          <6>3. kv[g].shards[s].State = "Serving"
            BY <2>1
          <6>4. ~(n > i) /\ n # i /\ (n + 1 > i \/ n + 1 = i)
            BY <6>2, <6>3
          <6>5. i = n + 1 /\ ~(n + 1 > i)
            BY SMTT(10), <6>1, <6>4
          <6> QED BY <5>2, <6>2, <6>5
        <5> QED BY <5>1, <5>2
      <4>4. Owner(n, s) \in {g, 0}
        BY <2>1, <4>3 DEF h
      <4>5. n \in Version
        BY SMTT(10), <2>2, <3>1, <4>3 DEF Version
      <4>6. Owner(n, s) = g
        BY <4>4, <4>5, Versions DEF Structure
      <4>7. Acquired(n, s)
        BY <2>1, <2>2, <4>6 DEF Acquired
      <4>8. CASE k = n
        BY SMTT(10), <2>1, <2>2, <4>6, <4>8
      <4>9. CASE k < n
        <5>1. k \in 1 .. (n - 1)
          BY SMTT(10), <2>2, <3>1, <4>9
        <5> QED BY <3>2, <4>5, <4>7, <5>1
      <4> QED BY SMTT(10), SMTT(30), <2>2, <3>1, <4>3, <4>8, <4>9
    <3> QED BY <3>3, <3>4
  <2>9. KeptForNext'
    <3> SUFFICES ASSUME NEW s \in Shard, NEW i \in Version, i > 1, ~Acquired(i, s),
                        Owner(i - 1, s) # Owner(i, s),
                        \/ kv'[Owner(i - 1, s)].currentConfig.Num > i
                        \/ /\ kv'[Owner(i - 1, s)].currentConfig.Num = i
                           /\ kv'[Owner(i - 1, s)].shards[s].State # "BePulling"
                 PROVE  FALSE
      BY <2>4 DEF KeptForNext, Num
    <3> DEFINE h == Owner(i - 1, s)
    <3>1. h \in Gid /\ i \in Nat
      BY Versions DEF Structure
    <3>2. ~(Num(h) > i) /\ (Num(h) = i => kv[h].shards[s].State = "BePulling")
      BY DEF Structure, KeptForNext
    <3> HIDE DEF h
    <3>3. \/ kv'[h].currentConfig.Num > i
          \/ kv'[h].currentConfig.Num = i /\ kv'[h].shards[s].State # "BePulling"
      BY DEF h
    <3>4. h = g /\ i = n + 1 /\ kv'[g].shards[s].State # "BePulling"
      <4>1. CASE h # g
        <5>1. kv'[h] = kv[h]
          BY <2>1, <3>1, <4>1
        <5> QED BY <3>2, <3>3, <5>1 DEF Num
      <4>2. CASE h = g
        <5>1. kv'[g].currentConfig.Num = n + 1 /\ Num(g) = n /\ n \in Nat
          BY <2>1, <2>2
        <5>2. ~(n > i) /\ (n = i => kv[g].shards[s].State = "BePulling")
          BY <3>2, <4>2, <5>1
        <5>3. kv[g].shards[s].State = "Serving"
          BY <2>1
        <5>4. n # i
          BY <5>2, <5>3
        <5>5. n + 1 > i \/ (n + 1 = i /\ kv'[g].shards[s].State # "BePulling")
          BY <3>3, <4>2, <5>1
        <5>6. ~(n > i) /\ (n + 1 > i \/ n + 1 = i) /\ n \in Nat /\ i \in Nat
          BY <3>1, <5>1, <5>2, <5>5
        <5>7. i = n + 1 /\ ~(n + 1 > i)
          BY SMTT(10), <5>4, <5>6
        <5> QED BY <4>2, <5>5, <5>7
      <4> QED BY <4>1, <4>2
    <3>5. Owner(n, s) = g /\ Owner(n + 1, s) # g
      BY SMTT(10), <2>2, <3>1, <3>4 DEF h
    <3> QED BY <2>1, <3>4, <3>5
  <2>10. /\ ConfigsSound' /\ PullsSound' /\ InsertingSound' /\ DeletingSound'
         /\ AdjustingSound'
    BY <2>1, <2>3, MessagesStay
  <2> QED BY <2>6, <2>7, <2>8, <2>9, <2>10 DEF Structure
<1> QED BY <1>1, <1>2

LEMMA StructureInit ==
    ASSUME Init
    PROVE  Structure
<1>1. Len(configs) = 1 /\ configs[1] = NoConfig /\ Version = {} /\ NoConfig.Num = 0
  BY SMTT(10) DEF Init, Version, NoConfig
<1>2. \A g \in Gid : kv[g] = NewGroup /\ behind[g] = NewGroup
  BY DEF Init
<1>3. \A g \in Gid : FollowsConfigs(NewGroup, g)
  BY SMTT(10), SMTT(30), <1>1 DEF FollowsConfigs, NewGroup
<1>4. ReplicasFollow
  <2> SUFFICES ASSUME NEW g \in Gid
               PROVE  /\ FollowsConfigs(kv[g], g) /\ FollowsConfigs(behind[g], g)
                      /\ behind[g].currentConfig.Num <= Num(g)
    BY DEF ReplicasFollow
  <2>1. NewGroup.currentConfig.Num = 0
    BY <1>1 DEF NewGroup
  <2>2. behind[g].currentConfig.Num = 0 /\ kv[g].currentConfig.Num = 0
    BY <1>2, <2>1
  <2>3. behind[g].currentConfig.Num <= Num(g)
    BY SMTT(10), SMTT(30), <2>2 DEF Num
  <2> QED BY <1>2, <1>3, <2>3
<1>5. ConfigsSound /\ PassedOn /\ KeptForNext
  BY SMTT(10), <1>1 DEF ConfigsSound, PassedOn, KeptForNext
<1>6. AddingSound /\ PullsSound /\ InsertingSound /\ DeletingSound /\ AdjustingSound
  BY DEF Init, AddingSound, PullsSound, InsertingSound, DeletingSound, AdjustingSound
<1> QED BY <1>4, <1>5, <1>6 DEF Structure

=============================================================================
