--------------------------- MODULE ShardKVProofs ----------------------------
(***************************************************************************)
(* The groups of src/shardkv never serve a shard together, a shard keeps   *)
(* its value on its way between them, and for their clerks they are one    *)
(* linearizable store per shard: for any groups, shards and clerks, any    *)
(* sequence of configurations that assign every shard, and whatever is     *)
(* repeated, late or answered by a replica that lags behind. A write that  *)
(* was executed is in the duplicate map of whoever has or gets its shard,  *)
(* so that no group executes it again.                                     *)
(***************************************************************************)
EXTENDS ShardKVStructure

\* The back ends a leaf that names none is given to, in this order.
USE ZenonT(10), SMTT(10), ZenonT(30), SMTT(30)

-----------------------------------------------------------------------------
(* The map goes where the shard goes *)

LEMMA SameKnown ==
    ASSUME UNCHANGED <<configs, kv, behind, inserting>>, NEW s, NEW c, NEW r
    PROVE  Known(s, c, r)' <=> Known(s, c, r)
BY SameGroups DEF Known, checkShardAndState

LEMMA KnownNextConfig ==
    ASSUME TypeInv, Structure, NEW plan \in Plans, NextConfig(plan),
           NEW s \in Shard, NEW c, NEW r, Known(s, c, r)
    PROVE  Known(s, c, r)'
<1>1. /\ configs' = Append(configs, [Num |-> Len(configs), Shards |-> plan[Len(configs)]])
      /\ UNCHANGED <<kv, behind, inserting>>
  BY DEF NextConfig, serverVars, commandVars
<1>2. /\ Len(configs) \in Nat /\ Len(configs') = Len(configs) + 1
      /\ \A n \in 1 .. Len(configs) : configs'[n] = configs[n]
  BY SMTT(10), <1>1 DEF TypeInv
<1>3. \A n \in Version : Acquired(n, s)' <=> Acquired(n, s)
  <2>1. \A n \in Version : Owner(n, s)' = Owner(n, s)
    BY SMTT(10), <1>2 DEF Owner, Version
  <2> QED BY <1>1, <2>1 DEF Acquired, Num
<1>4. Len(configs') > 1 /\ Acquired(1, s)'
  BY SMTT(10), <1>2, <1>3 DEF Known, Version
<1>5. \A g \in Gid : checkShardAndState(kv'[g], g, s) => kv'[g].LastRequestMap[c] >= r
  BY <1>1 DEF Known
<1>6. \A g \in Gid : \A st \in {kv[g], behind[g]} :
        (st.shards[s].State = "BePulling" /\ ~Acquired(st.currentConfig.Num, s)') =>
           st.LastRequestMap[c] >= r
  BY <1>3, OfferedVersion DEF Known
<1>7. \A g \in Gid : \A m \in inserting[g] :
        (s \in DOMAIN m.Shards /\ ~Acquired(m.ConfigNum, s)') => m.LastRequestMap[c] >= r
  BY <1>3 DEF Known, Structure, InsertingSound
<1> QED BY <1>1, <1>4, <1>5, <1>6, <1>7 DEF Known, checkShardAndState

LEMMA KnownGetShards ==
    ASSUME TypeInv, Structure, NEW m \in pulls, NEW st \in {kv[m.to], behind[m.to]},
           GetShards(m, st), NEW s \in Shard, NEW c, NEW r, Known(s, c, r)
    PROVE  Known(s, c, r)'
<1>1. m \in Pull /\ m.from \in Gid /\ m.to \in Gid /\ st \in Group
  BY SMTT(10) DEF TypeInv, Pull
<1>2. /\ \A g \in Gid : inserting'[g] \subseteq inserting[g] \cup {Answered(m, st)}
      /\ UNCHANGED <<configs, kv, behind>>
  BY <1>1, GetShardsEffect
<1>3. /\ Answered(m, st).ConfigNum = st.currentConfig.Num
      /\ Answered(m, st).LastRequestMap = st.LastRequestMap
      /\ \A t \in DOMAIN Answered(m, st).Shards : st.shards[t].State = "BePulling"
  BY DEF Answered, Offered, InState, GetShards, HasReached
<1>4. ASSUME s \in DOMAIN Answered(m, st).Shards, ~Acquired(st.currentConfig.Num, s)
      PROVE  st.LastRequestMap[c] >= r
  BY <1>1, <1>3, <1>4 DEF Known
<1>5. \A g \in Gid : \A i \in inserting'[g] :
        (s \in DOMAIN i.Shards /\ ~Acquired(i.ConfigNum, s)) => i.LastRequestMap[c] >= r
  BY <1>2, <1>3, <1>4 DEF Known
<1> QED BY <1>2, <1>5, SameGroups DEF Known, checkShardAndState

LEMMA KnownCatchUp ==
    ASSUME TypeInv, NEW g \in Gid, CatchUp(g), NEW s \in Shard, NEW c, NEW r, Known(s, c, r)
    PROVE  Known(s, c, r)'
<1>1. UNCHANGED <<configs, kv, inserting>> /\ behind' = [behind EXCEPT ![g] = kv[g]]
  BY SnapshotIsState DEF CatchUp, commandVars, TypeInv
<1>2. \A h \in Gid : behind'[h] = kv[h] \/ behind'[h] = behind[h]
  BY <1>1 DEF TypeInv
<1> QED BY SMTT(10), <1>1, <1>2, SameGroups DEF Known, checkShardAndState

\* A command, when the map of its group has the request after it.
LEMMA KnownCommand ==
    ASSUME TypeInv, TypeInv', Structure, NEW g \in Gid, GoesOn,
           UNCHANGED <<configs, behind, inserting>>,
           \A h \in Gid : h # g => kv'[h] = kv[h],
           NEW s \in Shard, NEW c \in Clerk, NEW r \in Int, Known(s, c, r),
           checkShardAndState(kv'[g], g, s) => kv'[g].LastRequestMap[c] >= r,
           \/ kv'[g].shards[s].State # "BePulling"
           \/ kv'[g].LastRequestMap[c] >= r
           \/ /\ kv[g].shards[s].State = "BePulling"
              /\ kv'[g].currentConfig = kv[g].currentConfig
              /\ kv'[g].LastRequestMap[c] >= kv[g].LastRequestMap[c]
    PROVE  Known(s, c, r)'
<1>1. /\ Version' = Version /\ \A n \in Version : Acquired(n, s) => Acquired(n, s)'
  BY AcquiredStays
<1>2. Len(configs') > 1 /\ Acquired(1, s)'
  <2>1. 1 \in Version
    BY SMTT(10), Versions DEF Known, Version, Structure
  <2> QED BY <1>1, <2>1 DEF Known
<1>3. \A h \in Gid : checkShardAndState(kv'[h], h, s) => kv'[h].LastRequestMap[c] >= r
  BY DEF Known
<1>4. ASSUME NEW h \in Gid, NEW st \in {kv[h], behind[h]}, NEW n,
             n = st.currentConfig.Num, st.shards[s].State = "BePulling", ~Acquired(n, s)'
      PROVE  st.LastRequestMap[c] >= r
  <2>1. n \in Version
    BY <1>4, OfferedVersion
  <2> QED BY <1>1, <1>4, <2>1 DEF Known
<1>5. ASSUME NEW h \in Gid, NEW st \in {kv'[h], behind'[h]}, NEW n,
             n = st.currentConfig.Num, st.shards[s].State = "BePulling", ~Acquired(n, s)'
      PROVE  st.LastRequestMap[c] >= r
  <2>1. CASE st \in {kv[h], behind[h]}
    BY <1>4, <1>5, <2>1
  <2>2. CASE st \notin {kv[h], behind[h]}
    <3>1. h = g /\ st = kv'[g]
      BY <2>2
    <3>2. kv[g].LastRequestMap[c] \in Int /\ kv'[g].LastRequestMap[c] \in Int
      BY SMTT(10), SMTT(30), ShardKVAssumption DEF TypeInv, Group
    <3>3. kv'[g].LastRequestMap[c] >= kv[g].LastRequestMap[c] /\
          kv[g].LastRequestMap[c] >= r => kv'[g].LastRequestMap[c] >= r
      BY SMTT(10), <3>2
    <3> QED BY <1>4, <1>5, <3>1, <3>3
  <2> QED BY <2>1, <2>2
<1>6. ASSUME NEW h \in Gid, NEW m \in inserting[h], NEW n, n = m.ConfigNum,
             s \in DOMAIN m.Shards, ~Acquired(n, s)'
      PROVE  m.LastRequestMap[c] >= r
  <2>1. n \in Version
    BY <1>6 DEF Structure, InsertingSound
  <2> QED BY <1>1, <1>6, <2>1 DEF Known
<1> QED BY <1>2, <1>3, <1>5, <1>6 DEF Known, checkShardAndState

LEMMA KnownAddConfig ==
    ASSUME TypeInv, TypeInv', Structure, NEW g \in Gid, NEW new \in adding[g],
           AddConfig(g, new), NEW s \in Shard, NEW c \in Clerk, NEW r \in Int, Known(s, c, r)
    PROVE  Known(s, c, r)'
<1>1. CASE new.Num # Num(g) + 1
  <2>1. UNCHANGED <<configs, kv, behind, inserting>>
    BY <1>1, AddConfigStep
  <2> QED BY <2>1, SameKnown
<1>2. CASE new.Num = Num(g) + 1
  <2> DEFINE n == Num(g)
  <2>1. /\ \A h \in Gid : h # g => kv'[h] = kv[h]
        /\ UNCHANGED <<configs, behind, inserting>>
        /\ n + 1 \in Version /\ kv'[g].currentConfig = configs[n + 2]
        /\ kv'[g].currentConfig.Num = n + 1
        /\ kv'[g].LastRequestMap = kv[g].LastRequestMap
        /\ \A t \in Shard :
             /\ kv[g].shards[t].State = "Serving"
             /\ kv'[g].shards[t].State =
                  IF Owner(n + 1, t) = g
                  THEN IF Owner(n, t) \in {g, 0} THEN "Serving" ELSE "Pulling"
                  ELSE IF Owner(n, t) = g THEN "BePulling" ELSE "Serving"
    BY SMTT(10), <1>2, AddConfigStep
  <2>2. n \in Nat /\ kv[g].currentConfig = configs[n + 1] /\ \A h \in Gid : Num(h) \in Nat
    BY Versions DEF Structure, ReplicasFollow, FollowsConfigs, Num
  <2>3. /\ kv[g].currentConfig.Shards[s] = Owner(n, s)
        /\ kv'[g].currentConfig.Shards[s] = Owner(n + 1, s)
    BY SMTT(10), <2>1, <2>2 DEF Owner
  <2>4. Owner(n, s) = g => kv[g].LastRequestMap[c] >= r
    BY <2>1, <2>3 DEF Known, checkShardAndState
  <2>5. ~(Owner(n, s) = 0 /\ Owner(n + 1, s) = g)
    <3> SUFFICES ASSUME Owner(n, s) = 0, Owner(n + 1, s) = g
                 PROVE  FALSE
      OBVIOUS
    <3>1. n = 0
      <4>1. n \notin Version
        BY Versions DEF Structure
      <4> QED BY SMTT(10), <2>1, <2>2, <4>1, Versions DEF Version, Structure
    <3>2. n + 1 = 1 /\ Num(g) = 0
      BY SMTT(10), <3>1
    <3>3. Owner(1, s) = g
      BY <3>2
    <3>4. Acquired(1, s)
      BY DEF Known
    <3> QED BY SMTT(10), <3>2, <3>3, <3>4 DEF Acquired
  <2> HIDE DEF n
  <2>6. GoesOn
    BY SMTT(10), SMTT(30), <2>1, <2>2 DEF GoesOn, Num, n
  <2>7. checkShardAndState(kv'[g], g, s) => kv'[g].LastRequestMap[c] >= r
    BY <2>1, <2>3, <2>4, <2>5 DEF checkShardAndState
  <2>8. kv'[g].shards[s].State = "BePulling" => kv'[g].LastRequestMap[c] >= r
    BY <2>1, <2>4
  <2> QED BY <2>1, <2>6, <2>7, <2>8, KnownCommand
<1> QED BY <1>1, <1>2

LEMMA KnownInsertShard ==
    ASSUME TypeInv, TypeInv', Structure, NEW g \in Gid, NEW m \in inserting[g],
           InsertShard(g, m), NEW s \in Shard, NEW c \in Clerk, NEW r \in Int, Known(s, c, r)
    PROVE  Known(s, c, r)'
<1> DEFINE n == processInsertShard(kv[g], m)
<1>1. /\ kv[g] \in Group /\ IsInsert(m) /\ kv'[g] = n
      /\ \A h \in Gid : h # g => kv'[h] = kv[h]
      /\ UNCHANGED <<configs, behind, inserting>>
  BY DEF InsertShard, commandVars, TypeInv
<1>2. /\ n.currentConfig = kv[g].currentConfig
      /\ m.ConfigNum # Num(g) => n = kv[g]
      /\ m.ConfigNum = Num(g) =>
           /\ n.LastRequestMap = MergedMap(kv[g], m)
           /\ \A t \in Shard :
                IF t \in DOMAIN m.Shards /\ kv[g].shards[t].State = "Pulling"
                THEN n.shards[t].State = "GCing" ELSE n.shards[t] = kv[g].shards[t]
  BY <1>1, InsertShardEffect DEF Num
<1> HIDE DEF n
<1>3. /\ n.LastRequestMap[c] >= kv[g].LastRequestMap[c]
      /\ m.ConfigNum = Num(g) => n.LastRequestMap[c] >= m.LastRequestMap[c]
  <2>1. /\ MergedMap(kv[g], m)[c] >= kv[g].LastRequestMap[c]
        /\ MergedMap(kv[g], m)[c] >= m.LastRequestMap[c]
    BY <1>1, MergedMapEffect DEF IsInsert
  <2>2. kv[g].LastRequestMap[c] \in Int
    BY SMTT(10), SMTT(30), <1>1, ShardKVAssumption DEF Group
  <2> QED BY SMTT(10), <1>2, <2>1, <2>2
<1>4. /\ n.LastRequestMap[c] \in Int /\ kv[g].LastRequestMap[c] \in Int
      /\ m.LastRequestMap[c] \in Int
  BY SMTT(10), SMTT(30), <1>1, ShardKVAssumption DEF Group, IsInsert, LastRequests, TypeInv
<1>5. ASSUME s \in DOMAIN m.Shards, m.ConfigNum = Num(g), kv[g].shards[s].State = "Pulling"
      PROVE  m.LastRequestMap[c] >= r
  <2>1. Owner(Num(g), s) = g
    BY <1>5 DEF Structure, ReplicasFollow, FollowsConfigs, Num
  <2>2. ~Acquired(Num(g), s)
    BY SMTT(10), <1>5, <2>1, Versions DEF Acquired, Structure
  <2> QED BY <1>5, <2>2 DEF Known
<1>6. GoesOn
  BY SMTT(10), <1>1, <1>2, Versions DEF GoesOn, Num, Structure
<1>7. checkShardAndState(kv'[g], g, s) => kv'[g].LastRequestMap[c] >= r
  <2>1. CASE checkShardAndState(kv[g], g, s)
    BY SMTT(10), SMTT(30), <1>1, <1>3, <1>4, <2>1 DEF Known
  <2>2. CASE ~checkShardAndState(kv[g], g, s)
    BY SMTT(10), SMTT(30), <1>1, <1>2, <1>3, <1>4, <1>5, <2>2 DEF checkShardAndState
  <2> QED BY <2>1, <2>2
<1>8. kv'[g].shards[s].State = "BePulling" => kv[g].shards[s].State = "BePulling"
  BY <1>1, <1>2
<1> QED BY <1>1, <1>2, <1>3, <1>6, <1>7, <1>8, KnownCommand

LEMMA KnownDeleteShard ==
    ASSUME TypeInv, TypeInv', Structure, NEW g \in Gid, NEW m \in deleting[g],
           NEW answered \in BOOLEAN, DeleteShard(g, m, answered),
           NEW s \in Shard, NEW c \in Clerk, NEW r \in Int, Known(s, c, r)
    PROVE  Known(s, c, r)'
<1> DEFINE n == processDeleteShard(kv[g], m)
<1>1. /\ kv[g] \in Group /\ m \in Delete /\ kv'[g] = n
      /\ \A h \in Gid : h # g => kv'[h] = kv[h]
      /\ UNCHANGED <<configs, behind, inserting>>
  BY DEF DeleteShard, TypeInv
<1>2. /\ n.currentConfig = kv[g].currentConfig /\ n.LastRequestMap = kv[g].LastRequestMap
      /\ m.ConfigNum # Num(g) => n = kv[g]
      /\ m.ConfigNum = Num(g) => \A t \in Shard :
           IF t \in m.ShardIds /\ kv[g].shards[t].State = "BePulling"
           THEN n.shards[t].State = "Serving" ELSE n.shards[t] = kv[g].shards[t]
  BY <1>1, DeleteShardEffect DEF Num
<1> HIDE DEF n
<1>3. kv[g].shards[s].State = "BePulling" => kv[g].currentConfig.Shards[s] # g
  <2>1. /\ kv[g].currentConfig = configs[Num(g) + 1]
        /\ kv[g].shards[s].State = "BePulling" => Owner(Num(g), s) # g
    BY DEF Structure, ReplicasFollow, FollowsConfigs, Num
  <2> QED BY <2>1 DEF Owner
<1>4. GoesOn
  BY SMTT(10), <1>1, <1>2, Versions DEF GoesOn, Num, Structure
<1>5. checkShardAndState(kv'[g], g, s) => kv'[g].LastRequestMap[c] >= r
  BY <1>1, <1>2, <1>3 DEF checkShardAndState, Known
<1>6. kv'[g].shards[s].State = "BePulling" => kv[g].shards[s].State = "BePulling"
  BY <1>1, <1>2
<1>7. kv'[g].LastRequestMap[c] >= kv[g].LastRequestMap[c]
  BY SMTT(10), <1>1, <1>2, ShardKVAssumption DEF Group
<1> QED BY <1>1, <1>2, <1>4, <1>5, <1>6, <1>7, KnownCommand

LEMMA KnownAdjust ==
    ASSUME TypeInv, TypeInv', Structure, NEW g \in Gid, NEW m \in adjusting[g],
           AdjustShardState(g, m),
           NEW s \in Shard, NEW c \in Clerk, NEW r \in Int, Known(s, c, r)
    PROVE  Known(s, c, r)'
<1> DEFINE n == processAdjustGCingShard(kv[g], m)
<1>1. /\ kv[g] \in Group /\ m \in Adjust /\ kv'[g] = n
      /\ \A h \in Gid : h # g => kv'[h] = kv[h]
      /\ UNCHANGED <<configs, behind, inserting>>
  BY DEF AdjustShardState, commandVars, TypeInv
<1>2. /\ n.currentConfig = kv[g].currentConfig /\ n.LastRequestMap = kv[g].LastRequestMap
      /\ m.ConfigNum # Num(g) => n = kv[g]
      /\ m.ConfigNum = Num(g) => \A t \in Shard :
           n.shards[t].State = IF t \in m.ShardIds THEN "Serving" ELSE kv[g].shards[t].State
  BY <1>1, AdjustShardEffect DEF Num
<1> HIDE DEF n
<1>3. \A t \in m.ShardIds : m.ConfigNum = Num(g) =>
         kv[g].shards[t].State \in {"GCing", "Serving"}
  BY AdjustedShards
<1>4. GoesOn
  BY SMTT(10), <1>1, <1>2, Versions DEF GoesOn, Num, Structure
<1>5. checkShardAndState(kv'[g], g, s) => kv'[g].LastRequestMap[c] >= r
  BY <1>1, <1>2, <1>3 DEF checkShardAndState, Known
<1>6. kv'[g].shards[s].State = "BePulling" => kv[g].shards[s].State = "BePulling"
  BY <1>1, <1>2
<1>7. kv'[g].LastRequestMap[c] >= kv[g].LastRequestMap[c]
  BY SMTT(10), <1>1, <1>2, ShardKVAssumption DEF Group
<1> QED BY <1>1, <1>2, <1>4, <1>5, <1>6, <1>7, KnownCommand

\* The maps after a client's command: its request is in that of the group.
LEMMA ExecuteMap ==
    ASSUME TypeInv, NEW g \in Gid, NEW m \in ops[g], processGetPutAppend(g, m)
    PROVE  /\ \A h \in Gid : h # g => kv'[h] = kv[h]
           /\ \A c \in Clerk :
                /\ kv[g].LastRequestMap[c] \in Int /\ kv'[g].LastRequestMap[c] \in Int
                /\ kv'[g].LastRequestMap[c] >= kv[g].LastRequestMap[c]
                /\ \/ kv'[g].LastRequestMap[c] = kv[g].LastRequestMap[c]
                   \/ /\ c = m.clerk /\ kv'[g].LastRequestMap[c] = m.op.RequestId
                      /\ Executes(kv[g], m)
           /\ Executes(kv[g], m) => kv'[g].LastRequestMap[m.clerk] >= m.op.RequestId
<1>1. /\ m \in ClerkCommand /\ m.clerk \in Clerk /\ m.op.RequestId \in Int
      /\ kv \in [Gid -> Group] /\ kv[g].LastRequestMap \in LastRequests
      /\ \A c \in Clerk : kv[g].LastRequestMap[c] \in Int
  BY SMTT(10), CommandTypes DEF Group, LastRequests
<1>2. CASE Executes(kv[g], m)
  <2> DEFINE a == kv[g].LastRequestMap[m.clerk]
             b == m.op.RequestId
             x == Max({a, b})
  <2>1. /\ \A h \in Gid : h # g => kv'[h] = kv[h]
        /\ \A c \in Clerk : c # m.clerk =>
             kv'[g].LastRequestMap[c] = kv[g].LastRequestMap[c]
        /\ kv'[g].LastRequestMap[m.clerk] = x
    BY ZenonT(30), <1>1, <1>2, ExecuteEffect
  <2>2. a \in Int /\ b \in Int
    BY <1>1
  <2> HIDE DEF a, b
  <2>3. x \in {a, b} /\ x >= a /\ x >= b
    BY <2>2, MaxOfTwo
  <2> HIDE DEF x
  <2>4. kv[g].LastRequestMap[m.clerk] = a /\ m.op.RequestId = b
    BY DEF a, b
  <2> QED BY SMTT(10), <1>1, <1>2, <2>1, <2>2, <2>3, <2>4
<1>3. CASE ~Executes(kv[g], m)
  <2>1. kv' = kv
    BY <1>3 DEF processGetPutAppend
  <2> QED BY SMTT(10), <1>1, <1>3, <2>1
<1> QED BY <1>2, <1>3

LEMMA KnownExecute ==
    ASSUME TypeInv, TypeInv', Structure, Values, NEW g \in Gid, NEW m \in ops[g],
           processGetPutAppend(g, m),
           NEW s \in Shard, NEW c \in Clerk, NEW r \in Int, Known(s, c, r)
    PROVE  Known(s, c, r)'
<1>1. /\ UNCHANGED <<configs, behind, inserting>>
      /\ \A h \in Gid : h # g => kv'[h] = kv[h]
      /\ kv'[g].currentConfig = kv[g].currentConfig
      /\ \A t \in Shard : kv'[g].shards[t].State = kv[g].shards[t].State
  BY ExecuteStep
<1>2. /\ kv[g].LastRequestMap[c] \in Int /\ kv'[g].LastRequestMap[c] \in Int
      /\ kv'[g].LastRequestMap[c] >= kv[g].LastRequestMap[c]
  BY ExecuteMap
<1>3. GoesOn
  BY SMTT(10), <1>1, Versions DEF GoesOn, Num, Structure
<1>4. checkShardAndState(kv'[g], g, s) => kv'[g].LastRequestMap[c] >= r
  <2>1. checkShardAndState(kv'[g], g, s) => checkShardAndState(kv[g], g, s)
    BY <1>1 DEF checkShardAndState
  <2>2. checkShardAndState(kv[g], g, s) => kv[g].LastRequestMap[c] >= r
    BY DEF Known
  <2> QED BY SMTT(10), <1>2, <2>1, <2>2
<1> QED BY <1>1, <1>2, <1>3, <1>4, KnownCommand

\* What the map of the group that serves a shard has, everyone to come knows.
ServersKnow ==
    \A g \in Gid : \A s \in Shard : \A c \in Clerk : \A r \in Int :
        (/\ TypeInv /\ Structure /\ checkShardAndState(kv[g], g, s)
         /\ kv[g].LastRequestMap[c] >= r) => Known(s, c, r)

LEMMA ServerKnows == ServersKnow
<1> SUFFICES ASSUME NEW g \in Gid, NEW s \in Shard, NEW c \in Clerk, NEW r \in Int,
                    TypeInv, Structure, checkShardAndState(kv[g], g, s),
                    kv[g].LastRequestMap[c] >= r
             PROVE  Known(s, c, r)
  BY DEF ServersKnow
<1>1. Len(configs) > 1 /\ Acquired(1, s)
  <2>1. 1 \in Version /\ Acquired(1, s)
    BY ServedVersion
  <2> QED BY SMTT(10), <2>1, Versions DEF Version, Structure
<1>2. \A h \in Gid : checkShardAndState(kv[h], h, s) => kv[h].LastRequestMap[c] >= r
  BY OneServes DEF OneOwner
<1>3. ASSUME NEW h \in Gid, NEW st \in {kv[h], behind[h]}, st.shards[s].State = "BePulling"
      PROVE  Acquired(st.currentConfig.Num, s)
  <2>1. LET n == st.currentConfig.Num
        IN n \in Version /\ n > 1 /\ Owner(n - 1, s) = h /\ Num(h) >= n
    BY <1>3, OfferedVersion
  <2> QED BY <2>1, NobodyServes
<1>4. ASSUME NEW h \in Gid, NEW m \in inserting[h], s \in DOMAIN m.Shards
      PROVE  Acquired(m.ConfigNum, s)
  <2>1. m.ConfigNum \in Version /\ m.ConfigNum > 1 /\
        Num(Owner(m.ConfigNum - 1, s)) >= m.ConfigNum
    BY <1>4 DEF Structure, InsertingSound
  <2> QED BY <2>1, NobodyServes
<1> QED BY <1>1, <1>2, <1>3, <1>4 DEF Known

-----------------------------------------------------------------------------
(* The writes that were executed *)

\* A number a map may hold for clerk c.
Sound(x, c) ==
    \/ x < RequestId[c]
    \/ x = RequestId[c] /\ op[c] # Idle /\ (op[c].OpType = "Get" \/ effect[c])

LEMMA MapsAfter ==
    ASSUME \A c \in Clerk : \A g \in Gid :
             /\ \E x : x = kv'[g].LastRequestMap[c] /\ Sound(x, c)'
             /\ \E x : x = behind'[g].LastRequestMap[c] /\ Sound(x, c)'
             /\ \A m \in inserting'[g] : \E x : x = m.LastRequestMap[c] /\ Sound(x, c)'
    PROVE  MapsSound'
BY SMTT(10) DEF MapsSound, MapSound, Sound

LEMMA MapsBefore ==
    ASSUME MapsSound
    PROVE  \A c \in Clerk : \A g \in Gid :
             /\ Sound(kv[g].LastRequestMap[c], c) /\ Sound(behind[g].LastRequestMap[c], c)
             /\ \A m \in inserting[g] : Sound(m.LastRequestMap[c], c)
BY DEF MapsSound, MapSound, Sound

LEMMA SameSound ==
    ASSUME UNCHANGED <<op, RequestId, effect>>, NEW x, NEW c, Sound(x, c)
    PROVE  Sound(x, c)'
BY DEF Sound

LEMMA WritesAfter ==
    ASSUME \A c \in Clerk : effect'[c] =>
             /\ IsWrite(op'[c])
             /\ \E s, r : s = op'[c].Shard /\ r = op'[c].RequestId /\ Known(s, c, r)',
           \A g \in Gid : \A m \in ops'[g] :
             (IsWrite(m.op) /\ m.op.RequestId < RequestId'[m.clerk]) =>
                Known(m.op.Shard, m.clerk, m.op.RequestId)'
    PROVE  WritesKnown'
<1> SUFFICES ASSUME NEW c \in Clerk, effect'[c]
             PROVE  IsWrite(op'[c]) /\ Known(op[c].Shard, c, op[c].RequestId)'
  BY DEF WritesKnown, IsWrite
<1>1. PICK s, r : s = op'[c].Shard /\ r = op'[c].RequestId /\ Known(s, c, r)'
  OBVIOUS
<1> QED BY <1>1 DEF Known

LEMMA EffectPending ==
    ASSUME TypeInv, ClerkInv, NEW c \in Clerk, effect[c]
    PROVE  op[c] \in Operation /\ op[c] # Idle /\ op[c].OpType # "Get"
<1>1. op[c].OpType \in {"Put", "Append"}
  BY DEF ClerkInv, WritesKnown, IsWrite
<1>2. op[c] \in Operation \/ op[c] = Idle
  BY DEF TypeInv
<1> QED BY SMTT(10), <1>1, <1>2 DEF Idle

\* A step of the groups between themselves.
LEMMA ClerkMigrates ==
    ASSUME TypeInv, ClerkInv, MapsSound',
           UNCHANGED <<ops, replies, op, RequestId, value, effect, seen>>,
           \A s \in Shard : \A c \in Clerk : \A r \in Int :
               Known(s, c, r) => Known(s, c, r)'
    PROVE  ClerkInv'
<1>1. WritesKnown'
  <2>1. \A c \in Clerk : effect[c] => op[c].Shard \in Shard /\ op[c].RequestId \in Int
    BY SMTT(10), EffectPending, ShardKVAssumption DEF Operation
  <2>2. \A g \in Gid : \A m \in ops[g] :
          m.op.Shard \in Shard /\ m.clerk \in Clerk /\ m.op.RequestId \in Int
    BY CommandTypes
  <2> QED BY <2>1, <2>2 DEF ClerkInv, WritesKnown
<1>2. CommandsSound'
  BY DEF ClerkInv, CommandsSound
<1>3. RepliesSound'
  BY DEF ClerkInv, RepliesSound
<1> QED BY <1>1, <1>2, <1>3 DEF ClerkInv

LEMMA ClerkNextConfig ==
    ASSUME Inv, NEW plan \in Plans, NextConfig(plan)
    PROVE  ClerkInv'
<1>1. UNCHANGED <<kv, behind, inserting, ops, replies, op, RequestId, value, effect, seen>>
  BY DEF NextConfig, serverVars, commandVars, rpcVars, clerkVars, history
<1>2. MapsSound'
  BY <1>1, MapsAfter, MapsBefore, SameSound DEF Inv, ClerkInv
<1> QED BY <1>1, <1>2, KnownNextConfig, ClerkMigrates DEF Inv, MigrationInv

LEMMA ClerkMonitors ==
    ASSUME Inv, NEW g \in Gid, NEW h \in Gid,
           monitorRequestConfig(g) \/ monitorInsert(g, h) \/ monitorGC(g, h)
    PROVE  ClerkInv'
<1>1. UNCHANGED <<configs, kv, behind, inserting, ops, replies, op, RequestId, value, effect,
                  seen>>
  BY DEF monitorRequestConfig, monitorInsert, monitorGC, serverVars, commandVars, rpcVars,
         clerkVars, history
<1>2. MapsSound'
  BY <1>1, MapsAfter, MapsBefore, SameSound DEF Inv, ClerkInv
<1> QED BY <1>1, <1>2, SameKnown, ClerkMigrates DEF Inv, MigrationInv

LEMMA ClerkGetShards ==
    ASSUME Inv, NEW m \in pulls, NEW st \in {kv[m.to], behind[m.to]}, GetShards(m, st)
    PROVE  ClerkInv'
<1>1. m.to \in Gid /\ st \in Group
  BY SMTT(10) DEF Inv, MigrationInv, TypeInv, Pull
<1>2. /\ \A g \in Gid : inserting'[g] \subseteq inserting[g] \cup {Answered(m, st)}
      /\ UNCHANGED <<configs, kv, behind, ops, replies, op, RequestId, value, effect, seen>>
  BY <1>1, GetShardsEffect DEF Inv, MigrationInv
<1>3. Answered(m, st).LastRequestMap = st.LastRequestMap
  BY DEF Answered
<1>4. MapsSound'
  BY <1>1, <1>2, <1>3, MapsAfter, MapsBefore, SameSound DEF Inv, ClerkInv
<1> QED BY <1>2, <1>4, KnownGetShards, ClerkMigrates DEF Inv, MigrationInv

LEMMA ClerkCatchUp ==
    ASSUME Inv, NEW g \in Gid, CatchUp(g)
    PROVE  ClerkInv'
<1>1. /\ UNCHANGED <<configs, kv, inserting, ops, replies, op, RequestId, value, effect, seen>>
      /\ behind' = [behind EXCEPT ![g] = kv[g]]
  BY SnapshotIsState
  DEF CatchUp, commandVars, rpcVars, clerkVars, history, Inv, MigrationInv, TypeInv
<1>2. \A h \in Gid : behind'[h] = kv[h] \/ behind'[h] = behind[h]
  BY <1>1 DEF Inv, MigrationInv, TypeInv
<1>3. MapsSound'
  BY SMTT(10), <1>1, <1>2, MapsAfter, MapsBefore, SameSound DEF Inv, ClerkInv
<1> QED BY <1>1, <1>3, KnownCatchUp, ClerkMigrates DEF Inv, MigrationInv

LEMMA ClerkCommands ==
    ASSUME Inv, TypeInv', NEW g \in Gid,
           \/ \E new \in adding[g] : AddConfig(g, new)
           \/ \E m \in inserting[g] : InsertShard(g, m)
           \/ \E m \in deleting[g], answered \in BOOLEAN : DeleteShard(g, m, answered)
           \/ \E m \in adjusting[g] : AdjustShardState(g, m)
    PROVE  ClerkInv'
<1>1. UNCHANGED <<configs, behind, inserting, ops, replies, op, RequestId, value, effect, seen>>
  BY DEF AddConfig, InsertShard, DeleteShard, AdjustShardState, commandVars, rpcVars,
         clerkVars, history
<1>2. TypeInv /\ Structure /\ kv[g] \in Group /\ DOMAIN kv = Gid
  BY DEF Inv, MigrationInv, TypeInv
<1>3. /\ \A h \in Gid : h # g => kv'[h] = kv[h]
      /\ \A c \in Clerk : \/ kv'[g].LastRequestMap[c] = kv[g].LastRequestMap[c]
                          \/ \E m \in inserting[g] :
                               kv'[g].LastRequestMap[c] = m.LastRequestMap[c]
  <2>1. ASSUME NEW new \in adding[g], AddConfig(g, new)
        PROVE  /\ \A h \in Gid : h # g => kv'[h] = kv[h]
               /\ kv'[g].LastRequestMap = kv[g].LastRequestMap
    BY <1>2, <2>1, AddConfigStep
  <2>2. ASSUME NEW m \in inserting[g], InsertShard(g, m)
        PROVE  /\ \A h \in Gid : h # g => kv'[h] = kv[h]
               /\ \A c \in Clerk : \/ kv'[g].LastRequestMap[c] = kv[g].LastRequestMap[c]
                                   \/ kv'[g].LastRequestMap[c] = m.LastRequestMap[c]
    <3>1. /\ kv'[g] = processInsertShard(kv[g], m) /\ \A h \in Gid : h # g => kv'[h] = kv[h]
          /\ IsInsert(m)
      BY <1>2, <2>2 DEF InsertShard, TypeInv
    <3>2. \/ kv'[g] = kv[g] \/ kv'[g].LastRequestMap = MergedMap(kv[g], m)
      BY SMTT(10), <1>2, <3>1, InsertShardEffect
    <3>3. \A c \in Clerk : MergedMap(kv[g], m)[c] \in
                             {kv[g].LastRequestMap[c], m.LastRequestMap[c]}
      BY <1>2, <3>1, MergedMapEffect DEF IsInsert
    <3> QED BY <3>1, <3>2, <3>3
  <2>3. ASSUME NEW m \in deleting[g], NEW answered \in BOOLEAN, DeleteShard(g, m, answered)
        PROVE  /\ \A h \in Gid : h # g => kv'[h] = kv[h]
               /\ kv'[g].LastRequestMap = kv[g].LastRequestMap
    <3>1. /\ kv'[g] = processDeleteShard(kv[g], m) /\ \A h \in Gid : h # g => kv'[h] = kv[h]
          /\ m \in Delete
      BY <1>2, <2>3 DEF DeleteShard, TypeInv
    <3> QED BY SMTT(10), <1>2, <3>1, DeleteShardEffect
  <2>4. ASSUME NEW m \in adjusting[g], AdjustShardState(g, m)
        PROVE  /\ \A h \in Gid : h # g => kv'[h] = kv[h]
               /\ kv'[g].LastRequestMap = kv[g].LastRequestMap
    <3>1. /\ kv'[g] = processAdjustGCingShard(kv[g], m) /\ m \in Adjust
          /\ \A h \in Gid : h # g => kv'[h] = kv[h]
      BY <1>2, <2>4 DEF AdjustShardState, TypeInv
    <3> QED BY SMTT(10), <1>2, <3>1, AdjustShardEffect
  <2> QED BY <2>1, <2>2, <2>3, <2>4
<1>4. MapsSound'
  BY SMTT(10), <1>1, <1>3, MapsAfter, MapsBefore, SameSound DEF Inv, ClerkInv
<1>5. \A s \in Shard : \A c \in Clerk : \A r \in Int : Known(s, c, r) => Known(s, c, r)'
  BY <1>2, KnownAddConfig, KnownInsertShard, KnownDeleteShard, KnownAdjust
<1> QED BY <1>1, <1>2, <1>4, <1>5, ClerkMigrates DEF Inv

\* Steps of a clerk.
LEMMA ClerkCall ==
    ASSUME Inv, NEW c \in Clerk, NEW type \in OpType, NEW s \in Used, Call(c, type, s)
    PROVE  ClerkInv'
<1> DEFINE o == [OpType |-> type, Shard |-> s, RequestId |-> RequestId[c]]
<1>1. /\ op[c] = Idle /\ op' = [op EXCEPT ![c] = o]
      /\ seen' = [seen EXCEPT ![c] = {value[s]}]
      /\ UNCHANGED <<configs, kv, behind, inserting, ops, replies, RequestId, value, effect>>
  BY DEF Call, serverVars, commandVars, rpcVars
<1>2. TypeInv /\ ClerkInv /\ ~effect[c] /\ replies[c] = {} /\ o # Idle
  <2>1. TypeInv /\ ClerkInv
    BY DEF Inv, MigrationInv
  <2>2. ~effect[c]
    BY <1>1, <2>1, EffectPending
  <2>3. o # Idle
    BY ShardKVAssumption DEF Idle
  <2> QED BY <1>1, <2>1, <2>2, <2>3 DEF TypeInv
<1>3. o.Shard = s /\ s \in Shard
  BY ShardKVAssumption
<1> HIDE DEF o
<1>4. op'[c] = o /\ seen'[c] = {value[s]}
      /\ \A d \in Clerk : d # c => op'[d] = op[d] /\ seen'[d] = seen[d]
  BY <1>1, <1>2 DEF TypeInv
<1>5. MapsSound'
  <2>1. ASSUME NEW x, NEW d \in Clerk, Sound(x, d)
        PROVE  Sound(x, d)'
    BY <1>1, <1>2, <1>4, <2>1 DEF Sound
  <2> QED BY <1>1, <2>1, MapsAfter, MapsBefore DEF Inv, ClerkInv
<1>6. WritesKnown'
  <2>1. ASSUME NEW d \in Clerk, effect[d]
        PROVE  /\ IsWrite(op'[d])
               /\ \E t, r : t = op'[d].Shard /\ r = op'[d].RequestId /\ Known(t, d, r)'
    <3>1. op'[d] = op[d] /\ IsWrite(op[d]) /\ Known(op[d].Shard, d, op[d].RequestId)
      BY <1>2, <1>4, <2>1 DEF ClerkInv, WritesKnown
    <3> QED BY <1>1, <3>1, SameKnown
  <2>2. ASSUME NEW g \in Gid, NEW m \in ops[g], IsWrite(m.op),
               m.op.RequestId < RequestId[m.clerk]
        PROVE  Known(m.op.Shard, m.clerk, m.op.RequestId)'
    BY <1>1, <1>2, <2>2, SameKnown DEF ClerkInv, WritesKnown
  <2> QED BY <1>1, <2>1, <2>2, WritesAfter
<1>7. CommandsSound'
  <2>1. \A g \in Gid : \A m \in ops[g] : m.op # Idle /\ m.clerk \in Clerk
    BY <1>2, CommandTypes
  <2> QED BY SMTT(10), <1>1, <1>2, <1>4, <2>1 DEF ClerkInv, CommandsSound
<1>8. RepliesSound'
  <2> SUFFICES ASSUME NEW d \in Clerk
               PROVE  /\ (replies[d] # {} /\ op'[d].OpType # "Get") => effect[d]
                      /\ op'[d].OpType = "Get" => replies[d] \subseteq seen'[d]
                      /\ op'[d] # Idle => value[op'[d].Shard] \in seen'[d]
                      /\ op'[d] = Idle => seen'[d] = {}
    BY <1>1 DEF RepliesSound
  <2>1. CASE d = c
    BY <1>2, <1>3, <1>4, <2>1
  <2>2. CASE d # c
    BY <1>2, <1>4, <2>2 DEF ClerkInv, RepliesSound
  <2> QED BY <2>1, <2>2
<1> QED BY <1>5, <1>6, <1>7, <1>8 DEF ClerkInv

LEMMA ClerkReceive ==
    ASSUME Inv, NEW c \in Clerk, NEW result \in replies[c], Receive(c, result)
    PROVE  ClerkInv'
<1>1. /\ op' = [op EXCEPT ![c] = Idle] /\ RequestId' = [RequestId EXCEPT ![c] = @ + 1]
      /\ replies' = [replies EXCEPT ![c] = {}] /\ seen' = [seen EXCEPT ![c] = {}]
      /\ effect' = [effect EXCEPT ![c] = FALSE]
      /\ UNCHANGED <<configs, kv, behind, inserting, ops, value>>
  BY DEF Receive, serverVars, commandVars
<1>2. TypeInv /\ ClerkInv
  BY DEF Inv, MigrationInv
<1>3. /\ op'[c] = Idle /\ RequestId'[c] = RequestId[c] + 1 /\ RequestId[c] \in Int
      /\ replies'[c] = {} /\ seen'[c] = {} /\ ~effect'[c]
      /\ \A d \in Clerk : d # c =>
           /\ op'[d] = op[d] /\ RequestId'[d] = RequestId[d] /\ replies'[d] = replies[d]
           /\ seen'[d] = seen[d] /\ effect'[d] = effect[d]
  BY SMTT(10), SMTT(30), <1>1, <1>2, ShardKVAssumption DEF TypeInv
<1>4. op[c] # Idle /\ op[c].RequestId = RequestId[c] /\ (op[c].OpType # "Get" => effect[c])
  BY <1>2 DEF TypeInv, ClerkInv, RepliesSound
<1>5. MapsSound'
  <2>1. ASSUME NEW x \in Int, NEW d \in Clerk, Sound(x, d)
        PROVE  Sound(x, d)'
    BY SMTT(10), SMTT(30), <1>3, <2>1 DEF Sound
  <2>2. \A d \in Clerk : \A g \in Gid :
          /\ kv[g].LastRequestMap[d] \in Int /\ behind[g].LastRequestMap[d] \in Int
          /\ \A m \in inserting[g] : m.LastRequestMap[d] \in Int
    BY SMTT(10), SMTT(30), <1>2, ShardKVAssumption DEF TypeInv, Group, IsInsert, LastRequests
  <2> QED BY <1>1, <1>2, <2>1, <2>2, MapsAfter, MapsBefore DEF ClerkInv
<1>6. WritesKnown'
  <2>1. ASSUME NEW d \in Clerk, effect'[d]
        PROVE  /\ IsWrite(op'[d])
               /\ \E t, r : t = op'[d].Shard /\ r = op'[d].RequestId /\ Known(t, d, r)'
    <3>1. op'[d] = op[d] /\ IsWrite(op[d]) /\ Known(op[d].Shard, d, op[d].RequestId)
      BY <1>2, <1>3, <2>1 DEF ClerkInv, WritesKnown
    <3> QED BY <1>1, <3>1, SameKnown
  <2>2. ASSUME NEW g \in Gid, NEW m \in ops[g], IsWrite(m.op),
               m.op.RequestId < RequestId'[m.clerk]
        PROVE  Known(m.op.Shard, m.clerk, m.op.RequestId)'
    <3>1. m.clerk \in Clerk /\ m.op.RequestId \in Int /\ RequestId[m.clerk] \in Int
      <4>1. RequestId \in [Clerk -> 0 .. MaxRequests]
        BY <1>2 DEF TypeInv
      <4>2. m.clerk \in Clerk /\ m.op.RequestId \in Int
        BY <1>2, CommandTypes
      <4> QED BY SMTT(10), <4>1, <4>2, ShardKVAssumption
    <3>2. CASE m.op.RequestId < RequestId[m.clerk]
      BY <1>1, <1>2, <2>2, <3>2, SameKnown DEF ClerkInv, WritesKnown
    <3>3. CASE ~(m.op.RequestId < RequestId[m.clerk])
      <4>1. m.clerk = c
        BY <1>3, <2>2, <3>1, <3>3
      <4>2. m.op = op[c]
        BY <1>2, <3>3, <4>1 DEF ClerkInv, CommandsSound
      <4>3. effect[c]
        BY <1>4, <2>2, <4>2 DEF IsWrite
      <4>4. Known(m.op.Shard, m.clerk, m.op.RequestId)
        BY <1>2, <4>1, <4>2, <4>3 DEF ClerkInv, WritesKnown
      <4> QED BY <1>1, <4>4, SameKnown
    <3> QED BY <3>2, <3>3
  <2> QED BY <1>1, <2>1, <2>2, WritesAfter
<1>7. CommandsSound'
  <2>1. \A g \in Gid : \A m \in ops[g] : m.clerk \in Clerk /\ m.op.RequestId \in Int
    BY <1>2, CommandTypes
  <2> QED BY SMTT(10), <1>1, <1>2, <1>3, <1>4, <2>1 DEF ClerkInv, CommandsSound
<1>8. RepliesSound'
  <2> SUFFICES ASSUME NEW d \in Clerk
               PROVE  /\ (replies'[d] # {} /\ op'[d].OpType # "Get") => effect'[d]
                      /\ op'[d].OpType = "Get" => replies'[d] \subseteq seen'[d]
                      /\ op'[d] # Idle => value[op'[d].Shard] \in seen'[d]
                      /\ op'[d] = Idle => seen'[d] = {}
    BY <1>1 DEF RepliesSound
  <2>1. CASE d = c
    BY <1>3, <2>1
  <2>2. CASE d # c
    BY <1>2, <1>3, <2>2 DEF ClerkInv, RepliesSound
  <2> QED BY <2>1, <2>2
<1> QED BY <1>5, <1>6, <1>7, <1>8 DEF ClerkInv

\* A step of a clerk or a server that changes no more than the replies.
LEMMA ClerkReplies ==
    ASSUME Inv, UNCHANGED <<configs, kv, behind, inserting, ops, op, RequestId, value, effect,
                            seen>>,
           \A d \in Clerk : replies'[d] # replies[d] =>
               replies'[d] = {} \/ (op[d].OpType # "Get" /\ effect[d])
    PROVE  ClerkInv'
<1>1. TypeInv /\ ClerkInv
  BY DEF Inv, MigrationInv
<1>2. MapsSound'
  BY <1>1, MapsAfter, MapsBefore, SameSound DEF ClerkInv
<1>3. WritesKnown'
  <2>1. ASSUME NEW d \in Clerk, effect'[d]
        PROVE  /\ IsWrite(op'[d])
               /\ \E t, r : t = op'[d].Shard /\ r = op'[d].RequestId /\ Known(t, d, r)'
    <3>1. IsWrite(op[d]) /\ Known(op[d].Shard, d, op[d].RequestId)
      BY <1>1, <2>1 DEF ClerkInv, WritesKnown
    <3> QED BY <3>1, SameKnown
  <2>2. ASSUME NEW g \in Gid, NEW m \in ops[g], IsWrite(m.op),
               m.op.RequestId < RequestId[m.clerk]
        PROVE  Known(m.op.Shard, m.clerk, m.op.RequestId)'
    BY <1>1, <2>2, SameKnown DEF ClerkInv, WritesKnown
  <2> QED BY <2>1, <2>2, WritesAfter
<1>4. CommandsSound'
  BY <1>1 DEF ClerkInv, CommandsSound
<1>5. RepliesSound'
  BY <1>1 DEF ClerkInv, RepliesSound
<1> QED BY <1>2, <1>3, <1>4, <1>5 DEF ClerkInv

LEMMA ClerkRequery ==
    ASSUME Inv, NEW c \in Clerk, NEW answer \in Queried, Requery(c, answer)
    PROVE  ClerkInv'
<1>1. /\ replies' = [replies EXCEPT ![c] = {}]
      /\ UNCHANGED <<configs, kv, behind, inserting, ops, op, RequestId, value, effect, seen>>
  BY DEF Requery, serverVars, commandVars, history
<1>2. \A d \in Clerk : replies'[d] # replies[d] => replies'[d] = {}
  BY <1>1 DEF Inv, MigrationInv, TypeInv
<1> QED BY <1>1, <1>2, ClerkReplies

\* A request that isInvalidRequest refuses as old, and its clerk waits for, took
\* effect.
LEMMA RepeatedHasEffect ==
    ASSUME TypeInv, ClerkInv, NEW c \in Clerk, NEW g \in Gid, NEW st \in {kv[g], behind[g]},
           op[c] # Idle, op[c].OpType # "Get", isInvalidRequest(st, c, op[c].RequestId)
    PROVE  effect[c]
<1>1. /\ op[c].RequestId = RequestId[c] /\ RequestId[c] \in Int
      /\ st.LastRequestMap[c] \in Int /\ st.LastRequestMap[c] >= RequestId[c]
  BY SMTT(10), ShardKVAssumption DEF TypeInv, Group, isInvalidRequest
<1>2. Sound(st.LastRequestMap[c], c)
  BY MapsBefore DEF ClerkInv
<1> QED BY SMTT(10), SMTT(30), <1>1, <1>2 DEF Sound

LEMMA ClerkHandle ==
    ASSUME Inv, NEW c \in Clerk, NEW g \in Gid, NEW st \in {kv[g], behind[g]},
           Handle(c, g, st)
    PROVE  ClerkInv'
<1> DEFINE m == [clerk |-> c, op |-> op[c]]
<1>1. TypeInv /\ ClerkInv
  BY DEF Inv, MigrationInv
<1>2. /\ op[c] # Idle
      /\ UNCHANGED <<configs, kv, behind, inserting, op, RequestId, value, effect, seen>>
  BY DEF Handle, serverVars, commandVars, clerkVars, history
<1>3. CASE op[c].OpType # "Get" /\ isInvalidRequest(st, c, op[c].RequestId)
  <2>1. Reply(g, m, <<>>) /\ UNCHANGED ops
    BY <1>3 DEF Handle
  <2>2. effect[c]
    BY <1>1, <1>2, <1>3, RepeatedHasEffect
  <2>3. \A d \in Clerk : replies'[d] # replies[d] => d = c
    BY <1>1, <2>1 DEF Reply, TypeInv
  <2> QED BY <1>2, <1>3, <2>1, <2>2, <2>3, ClerkReplies
<1>4. CASE ~(op[c].OpType # "Get" /\ isInvalidRequest(st, c, op[c].RequestId))
  <2>1. ops' = [ops EXCEPT ![g] = @ \cup {m}] /\ UNCHANGED replies
    BY <1>4 DEF Handle
  <2>2. /\ m.clerk = c /\ m.op = op[c] /\ op[c].RequestId = RequestId[c]
        /\ RequestId[c] \in Int
    BY SMTT(10), SMTT(30), <1>1, <1>2, ShardKVAssumption DEF TypeInv
  <2> HIDE DEF m
  <2>3. \A h \in Gid : \A i \in ops'[h] : i \in ops[h] \/ i = m
    BY <1>1, <2>1 DEF TypeInv
  <2>4. MapsSound'
    BY <1>1, <1>2, MapsAfter, MapsBefore, SameSound DEF ClerkInv
  <2>5. WritesKnown'
    <3>1. ASSUME NEW d \in Clerk, effect'[d]
          PROVE  /\ IsWrite(op'[d])
                 /\ \E t, r : t = op'[d].Shard /\ r = op'[d].RequestId /\ Known(t, d, r)'
      <4>1. IsWrite(op[d]) /\ Known(op[d].Shard, d, op[d].RequestId)
        BY <1>1, <1>2, <3>1 DEF ClerkInv, WritesKnown
      <4> QED BY <1>2, <4>1, SameKnown
    <3>2. ASSUME NEW h \in Gid, NEW i \in ops'[h], IsWrite(i.op),
                 i.op.RequestId < RequestId[i.clerk]
          PROVE  Known(i.op.Shard, i.clerk, i.op.RequestId)'
      <4>1. i \in ops[h]
        BY SMTT(10), SMTT(30), <2>2, <2>3, <3>2
      <4> QED BY <1>1, <1>2, <3>2, <4>1, SameKnown DEF ClerkInv, WritesKnown
    <3> QED BY <1>2, <3>1, <3>2, WritesAfter
  <2>6. CommandsSound'
    BY <1>1, <1>2, <2>2, <2>3 DEF ClerkInv, CommandsSound
  <2>7. RepliesSound'
    BY <1>1, <1>2, <2>1 DEF ClerkInv, RepliesSound
  <2> QED BY <2>4, <2>5, <2>6, <2>7 DEF ClerkInv
<1> QED BY <1>3, <1>4

\* A write that is executed is the one its clerk waits for, and is executed for
\* the first time: an old one is in the map of the group that serves the shard.
LEMMA FreshWrite ==
    ASSUME Inv, NEW g \in Gid, NEW m \in ops[g], checkShardAndState(kv[g], g, m.op.Shard),
           Executes(kv[g], m), m.op.OpType # "Get"
    PROVE  IsWrite(m.op) /\ op[m.clerk] = m.op /\ ~effect[m.clerk]
<1>1. TypeInv /\ ClerkInv
  BY DEF Inv, MigrationInv
<1>2. /\ m.clerk \in Clerk /\ m.op \in Operation /\ m.op.RequestId \in Int
      /\ kv[g].LastRequestMap[m.clerk] \in Int
  <2>1. /\ m.clerk \in Clerk /\ m.op \in Operation /\ m.op.RequestId \in Int
        /\ kv[g] \in Group
    BY <1>1, CommandTypes
  <2> QED BY SMTT(10), <2>1 DEF Group, LastRequests
<1>3. IsWrite(m.op)
  BY <1>2, ShardKVAssumption DEF IsWrite, Operation
<1>4. ~(kv[g].LastRequestMap[m.clerk] >= m.op.RequestId)
  BY <1>2 DEF Executes, isInvalidRequest
<1>5. ~Known(m.op.Shard, m.clerk, m.op.RequestId)
  BY <1>4 DEF Known
<1>6. op[m.clerk] = m.op
  BY <1>1, <1>3, <1>5 DEF ClerkInv, WritesKnown, CommandsSound
<1>7. ~effect[m.clerk]
  BY <1>1, <1>2, <1>5, <1>6 DEF ClerkInv, WritesKnown
<1> QED BY <1>3, <1>6, <1>7

\* What a client's command does to the history and to the replies.
LEMMA ExecuteHistory ==
    ASSUME Inv, NEW g \in Gid, NEW m \in ops[g], processGetPutAppend(g, m)
    PROVE  LET s == m.op.Shard
               write == Executes(kv[g], m) /\ m.op.OpType # "Get"
           IN /\ m.clerk \in Clerk /\ s \in Shard
              /\ UNCHANGED <<ops, op, RequestId, got>>
              /\ write => /\ op[m.clerk] = m.op /\ ~effect[m.clerk] /\ IsWrite(m.op)
                          /\ effect' = [effect EXCEPT ![m.clerk] = TRUE]
                          /\ value' = [value EXCEPT ![s] = Written(m.clerk, m.op, value[s])]
                          /\ seen' = [d \in Clerk |-> IF op[d] # Idle /\ op[d].Shard = s
                                                      THEN seen[d] \cup {value'[s]}
                                                      ELSE seen[d]]
              /\ ~write => UNCHANGED <<value, effect, seen>>
              /\ \A d \in Clerk : replies'[d] # replies[d] =>
                   /\ d = m.clerk /\ op[d] = m.op
                   /\ m.op.OpType = "Get" => replies'[d] = replies[d] \cup {value[s]}
<1> DEFINE s == m.op.Shard
           write == Executes(kv[g], m) /\ m.op.OpType # "Get"
<1>1. TypeInv /\ Structure /\ Values
  BY DEF Inv, MigrationInv
<1>2. /\ s \in Shard /\ m.clerk \in Clerk /\ m \in ClerkCommand
      /\ checkShardAndState(kv[g], g, s) /\ kv[g].shards[s].db = value[s]
      /\ UNCHANGED <<ops, op, RequestId, got>>
  BY <1>1, ExecuteStep
<1>3. ASSUME write
      PROVE  /\ op[m.clerk] = m.op /\ ~effect[m.clerk] /\ IsWrite(m.op)
             /\ effect' = [effect EXCEPT ![m.clerk] = TRUE]
             /\ value' = [value EXCEPT ![s] = Written(m.clerk, m.op, value[s])]
             /\ seen' = [d \in Clerk |-> IF op[d] # Idle /\ op[d].Shard = s
                                         THEN seen[d] \cup {value'[s]} ELSE seen[d]]
  <2> DEFINE new == Written(m.clerk, m.op, value[s])
  <2>1. RecordWrite(m)
    BY <1>3 DEF processGetPutAppend
  <2>2. /\ value' = [value EXCEPT ![s] = new]
        /\ effect' = [effect EXCEPT ![m.clerk] = @ \/ op[m.clerk] = m.op]
        /\ seen' = [d \in Clerk |-> IF op[d] # Idle /\ op[d].Shard = s
                                    THEN seen[d] \cup {new} ELSE seen[d]]
    BY <1>1, <1>2, <2>1, RecordWriteEffect
  <2>3. op[m.clerk] = m.op /\ ~effect[m.clerk] /\ IsWrite(m.op)
    BY <1>2, <1>3, FreshWrite
  <2> HIDE DEF new
  <2>4. value'[s] = new
    BY <1>1, <1>2, <2>2 DEF TypeInv
  <2>5. effect' = [effect EXCEPT ![m.clerk] = TRUE]
    BY <2>2, <2>3
  <2> QED BY <2>2, <2>3, <2>4, <2>5 DEF new
<1>4. ~write => UNCHANGED <<value, effect, seen>>
  BY DEF processGetPutAppend
<1>5. ASSUME NEW d \in Clerk, replies'[d] # replies[d]
      PROVE  /\ d = m.clerk /\ op[d] = m.op
             /\ m.op.OpType = "Get" => replies'[d] = replies[d] \cup {value[s]}
  <2> DEFINE result == IF m.op.OpType = "Get" THEN kv[g].shards[s].db ELSE <<>>
  <2>1. Reply(g, m, result) /\ (m.op.OpType = "Get" => result = value[s])
    BY <1>2 DEF processGetPutAppend
  <2> HIDE DEF result
  <2> QED BY SMTT(10), SMTT(30), <1>1, <1>2, <1>5, <2>1 DEF Reply, TypeInv
<1> QED BY <1>2, <1>3, <1>4, <1>5

LEMMA ClerkExecute ==
    ASSUME Inv, MigrationInv', NEW g \in Gid, NEW m \in ops[g], processGetPutAppend(g, m)
    PROVE  ClerkInv'
<1> DEFINE s == m.op.Shard
           c == m.clerk
           write == Executes(kv[g], m) /\ m.op.OpType # "Get"
<1>1. TypeInv /\ Structure /\ Values /\ ClerkInv /\ TypeInv' /\ Structure'
  BY DEF Inv, MigrationInv
<1>2. /\ c \in Clerk /\ s \in Shard
      /\ UNCHANGED <<ops, op, RequestId>>
      /\ write => /\ op[c] = m.op /\ ~effect[c] /\ IsWrite(m.op)
                  /\ effect' = [effect EXCEPT ![c] = TRUE]
                  /\ seen' = [d \in Clerk |-> IF op[d] # Idle /\ op[d].Shard = s
                                              THEN seen[d] \cup {value'[s]} ELSE seen[d]]
      /\ ~write => UNCHANGED <<value, effect, seen>>
      /\ \A d \in Clerk : replies'[d] # replies[d] =>
           /\ d = c /\ op[d] = m.op
           /\ m.op.OpType = "Get" => replies'[d] = replies[d] \cup {value[s]}
  BY ExecuteHistory
<1>3. /\ checkShardAndState(kv[g], g, s) /\ UNCHANGED <<behind, inserting>>
      /\ kv'[g].currentConfig = kv[g].currentConfig
      /\ \A t \in Shard : kv'[g].shards[t].State = kv[g].shards[t].State
      /\ \A t \in Shard : t # s => value'[t] = value[t]
  BY <1>1, ExecuteStep
<1>4. /\ \A h \in Gid : h # g => kv'[h] = kv[h]
      /\ \A d \in Clerk : \/ kv'[g].LastRequestMap[d] = kv[g].LastRequestMap[d]
                          \/ /\ d = c /\ kv'[g].LastRequestMap[d] = m.op.RequestId
                             /\ Executes(kv[g], m)
      /\ Executes(kv[g], m) => kv'[g].LastRequestMap[c] >= m.op.RequestId
  BY <1>1, ExecuteMap
<1>5. /\ m.op \in Operation /\ m.op.RequestId \in Int /\ m.op # Idle
      /\ op[c] = m.op => m.op.RequestId = RequestId[c]
  <2>1. op[c] # Idle => op[c].RequestId = RequestId[c]
    BY <1>1, <1>2 DEF TypeInv
  <2>2. m.op \in Operation /\ m.op.RequestId \in Int /\ m.op # Idle
    BY <1>1, CommandTypes
  <2> QED BY <2>1, <2>2
<1>6. /\ \A d \in Clerk : effect[d] => effect'[d]
      /\ \A d \in Clerk : effect'[d] /\ ~effect[d] => write /\ d = c
      /\ write => effect'[c]
  <2>1. effect \in [Clerk -> BOOLEAN]
    BY <1>1 DEF TypeInv
  <2> HIDE DEF s, c, write
  <2>2. CASE write
    <3>1. effect' = [effect EXCEPT ![c] = TRUE] /\ c \in Clerk
      BY <1>2, <2>2
    <3> QED BY <2>1, <2>2, <3>1
  <2>3. CASE ~write
    BY <1>2, <2>3
  <2> QED BY <2>2, <2>3
<1> HIDE DEF s, c, write
<1>7. MapsSound'
  <2>1. ASSUME NEW x, NEW d \in Clerk, Sound(x, d)
        PROVE  Sound(x, d)'
    BY <1>2, <1>6, <2>1 DEF Sound
  <2>2. ASSUME NEW x, NEW d \in Clerk, x = m.op.RequestId, d = c, Executes(kv[g], m)
        PROVE  Sound(x, d)'
    <3>1. m.op.RequestId < RequestId[c] \/ m.op = op[c]
      BY <1>1 DEF ClerkInv, CommandsSound, c
    <3> QED BY <1>2, <1>5, <1>6, <2>2, <3>1 DEF Sound, write
  <2>3. \A d \in Clerk : \A h \in Gid :
          /\ Sound(kv[h].LastRequestMap[d], d) /\ Sound(behind[h].LastRequestMap[d], d)
          /\ \A i \in inserting[h] : Sound(i.LastRequestMap[d], d)
    BY <1>1, MapsBefore DEF ClerkInv
  <2>4. ASSUME NEW d \in Clerk, NEW h \in Gid
        PROVE  \E x : x = kv'[h].LastRequestMap[d] /\ Sound(x, d)'
    <3>1. PICK x : x = kv'[h].LastRequestMap[d]
      OBVIOUS
    <3>2. PICK y : y = kv[h].LastRequestMap[d] /\ Sound(y, d)
      BY <2>3
    <3>3. x = y \/ (x = m.op.RequestId /\ d = c /\ Executes(kv[g], m))
      <4>1. CASE h # g
        <5>1. kv'[h] = kv[h]
          BY <1>4, <4>1
        <5> QED BY <3>1, <3>2, <5>1
      <4>2. CASE h = g
        <5>1. \/ kv'[g].LastRequestMap[d] = kv[g].LastRequestMap[d]
              \/ /\ d = c /\ kv'[g].LastRequestMap[d] = m.op.RequestId
                 /\ Executes(kv[g], m)
          BY <1>4
        <5> QED BY <3>1, <3>2, <4>2, <5>1
      <4> QED BY <4>1, <4>2
    <3> QED BY <2>1, <2>2, <3>1, <3>2, <3>3
  <2>5. ASSUME NEW d \in Clerk, NEW h \in Gid
        PROVE  /\ \E x : x = behind'[h].LastRequestMap[d] /\ Sound(x, d)'
               /\ \A i \in inserting'[h] : \E x : x = i.LastRequestMap[d] /\ Sound(x, d)'
    BY <1>3, <2>1, <2>3
  <2> QED BY <2>4, <2>5, MapsAfter
<1>8. \A t \in Shard : \A d \in Clerk : \A r \in Int : Known(t, d, r) => Known(t, d, r)'
  BY <1>1, KnownExecute
<1>9. WritesKnown'
  <2>1. ASSUME NEW d \in Clerk, effect'[d]
        PROVE  /\ IsWrite(op'[d])
               /\ \E t, r : t = op'[d].Shard /\ r = op'[d].RequestId /\ Known(t, d, r)'
    <3>1. CASE effect[d]
      <4>1. /\ op[d].Shard \in Shard /\ op[d].RequestId \in Int
            /\ IsWrite(op[d]) /\ Known(op[d].Shard, d, op[d].RequestId)
        BY SMTT(10), SMTT(30), <1>1, <3>1, EffectPending, ShardKVAssumption DEF ClerkInv, WritesKnown, Operation
      <4> QED BY <1>2, <1>8, <4>1
    <3>2. CASE ~effect[d]
      <4>1. write /\ d = c
        BY <1>6, <2>1, <3>2
      <4>2. op[d] = m.op /\ IsWrite(m.op) /\ kv'[g].LastRequestMap[d] >= m.op.RequestId
        BY <1>2, <1>4, <4>1 DEF write
      <4>3. checkShardAndState(kv'[g], g, s)
        BY <1>2, <1>3 DEF checkShardAndState
      <4>4. ServersKnow'
        BY ServerKnows, PTL
      <4>5. Known(s, d, m.op.RequestId)'
        BY <1>1, <1>2, <1>5, <4>2, <4>3, <4>4
        DEF ServersKnow, checkShardAndState
      <4> QED BY <1>2, <4>2, <4>5 DEF s
    <3> QED BY <3>1, <3>2
  <2>2. ASSUME NEW h \in Gid, NEW i \in ops[h], IsWrite(i.op),
               i.op.RequestId < RequestId[i.clerk]
        PROVE  Known(i.op.Shard, i.clerk, i.op.RequestId)'
    <3>1. i.op.Shard \in Shard /\ i.clerk \in Clerk /\ i.op.RequestId \in Int
      BY <1>1, CommandTypes
    <3>2. Known(i.op.Shard, i.clerk, i.op.RequestId)
      BY <1>1, <2>2 DEF ClerkInv, WritesKnown
    <3> QED BY <1>8, <3>1, <3>2
  <2> QED BY <1>2, <2>1, <2>2, WritesAfter
<1>10. CommandsSound'
  BY <1>1, <1>2 DEF ClerkInv, CommandsSound
<1>11. RepliesSound'
  <2> SUFFICES ASSUME NEW d \in Clerk
               PROVE  /\ (replies'[d] # {} /\ op[d].OpType # "Get") => effect'[d]
                      /\ op[d].OpType = "Get" => replies'[d] \subseteq seen'[d]
                      /\ op[d] # Idle => value'[op[d].Shard] \in seen'[d]
                      /\ op[d] = Idle => seen'[d] = {}
    BY <1>2 DEF RepliesSound
  <2>1. /\ (replies[d] # {} /\ op[d].OpType # "Get") => effect[d]
        /\ op[d].OpType = "Get" => replies[d] \subseteq seen[d]
        /\ op[d] # Idle => value[op[d].Shard] \in seen[d]
        /\ op[d] = Idle => seen[d] = {}
    BY <1>1 DEF ClerkInv, RepliesSound
  <2>2. seen[d] \subseteq seen'[d] /\ (op[d] = Idle => seen'[d] = seen[d])
    BY SMTT(10), SMTT(30), <1>2
  <2>3. ASSUME op[d] # Idle
        PROVE  value'[op[d].Shard] \in seen'[d]
    <3>1. op[d].Shard \in Shard
      BY <1>1, <2>3 DEF TypeInv, Operation
    <3>2. CASE write /\ op[d].Shard = s
      BY <1>2, <2>3, <3>2
    <3>3. CASE ~(write /\ op[d].Shard = s)
      BY <1>2, <1>3, <2>1, <2>2, <2>3, <3>1, <3>3
    <3> QED BY <3>2, <3>3
  <2>4. ASSUME replies'[d] # {}, op[d].OpType # "Get"
        PROVE  effect'[d]
    <3>1. CASE replies'[d] = replies[d]
      BY <1>6, <2>1, <2>4, <3>1
    <3>2. CASE replies'[d] # replies[d]
      <4>1. d = c /\ op[d] = m.op
        BY <1>2, <3>2
      <4>2. CASE Executes(kv[g], m)
        BY <1>6, <2>4, <4>1, <4>2 DEF write
      <4>3. CASE ~Executes(kv[g], m)
        <5>1. isInvalidRequest(kv[g], d, op[d].RequestId)
          BY <4>1, <4>3 DEF Executes, c
        <5>2. effect[d]
          BY <1>1, <1>5, <2>4, <4>1, <5>1, RepeatedHasEffect
        <5> QED BY <1>6, <5>2
      <4> QED BY <4>2, <4>3
    <3> QED BY <3>1, <3>2
  <2>5. ASSUME op[d].OpType = "Get"
        PROVE  replies'[d] \subseteq seen'[d]
    <3>1. CASE replies'[d] = replies[d]
      BY <2>1, <2>2, <2>5, <3>1
    <3>2. CASE replies'[d] # replies[d]
      BY SMTT(10), SMTT(30), <1>2, <1>5, <2>1, <2>2, <2>5, <3>2 DEF s
    <3> QED BY <3>1, <3>2
  <2> QED BY <2>1, <2>2, <2>3, <2>4, <2>5
<1> QED BY <1>7, <1>9, <1>10, <1>11 DEF ClerkInv

LEMMA ClerkInit ==
    ASSUME Init
    PROVE  ClerkInv
<1>1. /\ \A g \in Gid : /\ kv[g] = NewGroup /\ behind[g] = NewGroup
                        /\ inserting[g] = {} /\ ops[g] = {}
      /\ \A c \in Clerk : /\ op[c] = Idle /\ RequestId[c] = 0 /\ replies[c] = {}
                          /\ ~effect[c] /\ seen[c] = {}
  BY DEF Init
<1>2. \A c \in Clerk : NewGroup.LastRequestMap[c] = -1
  BY DEF NewGroup
<1>3. MapsSound
  BY SMTT(10), <1>1, <1>2 DEF MapsSound, MapSound
<1>4. WritesKnown /\ CommandsSound
  BY <1>1 DEF WritesKnown, CommandsSound
<1>5. RepliesSound
  BY <1>1 DEF RepliesSound, Idle
<1> QED BY <1>3, <1>4, <1>5 DEF ClerkInv

-----------------------------------------------------------------------------
(* Where the value of a shard is *)

LEMMA SameValues ==
    ASSUME Values, UNCHANGED <<configs, kv, value>>
    PROVE  /\ NothingWritten' /\ ServesTheValue'
           /\ UNCHANGED behind => OfferedIsValue'
           /\ UNCHANGED inserting => InsertedIsValue'
<1>1. NothingWritten'
  BY SameGroups DEF Values, NothingWritten
<1>2. ServesTheValue'
  BY DEF Values, ServesTheValue, checkShardAndState
<1>3. UNCHANGED behind => OfferedIsValue'
  BY SMTT(10), SameGroups DEF Values, OfferedIsValue
<1>4. UNCHANGED inserting => InsertedIsValue'
  BY SameGroups DEF Values, InsertedIsValue
<1> QED BY <1>1, <1>2, <1>3, <1>4

LEMMA ValuesNextConfig ==
    ASSUME TypeInv, Structure, Values, NEW plan \in Plans, NextConfig(plan)
    PROVE  Values'
<1>1. /\ configs' = Append(configs, [Num |-> Len(configs), Shards |-> plan[Len(configs)]])
      /\ UNCHANGED <<kv, behind, inserting, value>>
  BY DEF NextConfig, serverVars, commandVars, history
<1>2. /\ Len(configs) \in Nat /\ Len(configs') = Len(configs) + 1
      /\ \A n \in 1 .. Len(configs) : configs'[n] = configs[n]
  BY SMTT(10), <1>1 DEF TypeInv
<1>3. \A n \in Version : \A s : Acquired(n, s)' <=> Acquired(n, s)
  <2>1. \A n \in Version : \A s : Owner(n, s)' = Owner(n, s)
    BY SMTT(10), <1>2 DEF Owner, Version
  <2> QED BY <1>1, <2>1 DEF Acquired, Num
<1>4. NothingWritten'
  BY SMTT(10), <1>1, <1>2, <1>3 DEF Values, NothingWritten, Version
<1>5. ServesTheValue'
  BY <1>1 DEF Values, ServesTheValue, checkShardAndState
<1>6. OfferedIsValue'
  BY SMTT(10), SMTT(30), <1>1, <1>3, OfferedVersion DEF Values, OfferedIsValue
<1>7. InsertedIsValue'
  BY <1>1, <1>3 DEF Values, InsertedIsValue, Structure, InsertingSound
<1> QED BY <1>4, <1>5, <1>6, <1>7 DEF Values

LEMMA ValuesGetShards ==
    ASSUME TypeInv, Structure, Values, NEW m \in pulls,
           NEW st \in {kv[m.to], behind[m.to]}, GetShards(m, st)
    PROVE  Values'
<1>1. m \in Pull /\ m.from \in Gid /\ m.to \in Gid /\ st \in Group
  BY SMTT(10) DEF TypeInv, Pull
<1>2. /\ \A g \in Gid : inserting'[g] = IF g = m.from
                          THEN inserting[g] \cup {Answered(m, st)} ELSE inserting[g]
      /\ UNCHANGED <<configs, kv, behind, value>>
  BY <1>1, GetShardsEffect
<1>3. /\ Answered(m, st).ConfigNum = st.currentConfig.Num
      /\ \A s \in DOMAIN Answered(m, st).Shards :
           /\ s \in Shard /\ st.shards[s].State = "BePulling"
           /\ Answered(m, st).Shards[s] = st.shards[s].db
  BY DEF Answered, Offered, InState, GetShards, HasReached
<1>4. InsertedIsValue'
  <2> SUFFICES ASSUME NEW g \in Gid, NEW i \in inserting'[g], NEW s \in DOMAIN i.Shards,
                      ~Acquired(i.ConfigNum, s)
               PROVE  i.Shards[s] = value[s]
    BY <1>2, SameGroups DEF InsertedIsValue
  <2>1. CASE i \in inserting[g]
    BY <2>1 DEF Values, InsertedIsValue
  <2>2. CASE i = Answered(m, st)
    BY <1>1, <1>3, <2>2 DEF Values, OfferedIsValue
  <2> QED BY <1>2, <2>1, <2>2
<1> QED BY <1>2, <1>4, SameValues DEF Values

LEMMA ValuesCatchUp ==
    ASSUME TypeInv, Structure, Values, NEW g \in Gid, CatchUp(g)
    PROVE  Values'
<1>1. UNCHANGED <<configs, kv, inserting, value>> /\ behind' = [behind EXCEPT ![g] = kv[g]]
  BY SnapshotIsState DEF CatchUp, commandVars, history, TypeInv
<1>2. \A h \in Gid : behind'[h] = kv[h] \/ behind'[h] = behind[h]
  BY <1>1 DEF TypeInv
<1>3. OfferedIsValue'
  BY SMTT(10), <1>1, <1>2, SameGroups DEF Values, OfferedIsValue
<1> QED BY <1>1, <1>3, SameValues DEF Values

\* A command that writes nothing, when the shards of its group are all right.
LEMMA ValuesCommand ==
    ASSUME TypeInv, TypeInv', Structure, Values, NEW g \in Gid, GoesOn,
           UNCHANGED <<configs, behind, inserting, value>>,
           \A h \in Gid : h # g => kv'[h] = kv[h],
           \A s \in Shard : checkShardAndState(kv'[g], g, s) =>
                              kv'[g].shards[s].db = value[s],
           \A s \in Shard : \/ kv'[g].shards[s].State # "BePulling"
                            \/ kv'[g].shards[s].db = value[s]
                            \/ /\ kv[g].shards[s].State = "BePulling"
                               /\ kv'[g].currentConfig = kv[g].currentConfig
                               /\ kv'[g].shards[s].db = kv[g].shards[s].db
    PROVE  Values'
<1>1. /\ Version' = Version /\ \A n, s : Owner(n, s)' = Owner(n, s)
      /\ \A n \in Version : \A s \in Shard : Acquired(n, s) => Acquired(n, s)'
  BY AcquiredStays
<1>2. NothingWritten'
  <2>1. Len(configs) > 1 => 1 \in Version
    BY SMTT(10), Versions DEF Structure, Version
  <2> QED BY <1>1, <2>1 DEF Values, NothingWritten
<1>3. ServesTheValue'
  BY SMTT(10) DEF Values, ServesTheValue, checkShardAndState
<1>4. OfferedIsValue'
  <2>1. ASSUME NEW h \in Gid, NEW st \in {kv[h], behind[h]}, NEW s \in Shard, NEW n,
               n = st.currentConfig.Num, st.shards[s].State = "BePulling",
               ~Acquired(n, s)'
        PROVE  st.shards[s].db = value[s]
    <3>1. n \in Version
      BY SMTT(10), <2>1, OfferedVersion
    <3> QED BY <1>1, <2>1, <3>1 DEF Values, OfferedIsValue
  <2> SUFFICES ASSUME NEW h \in Gid, NEW st \in {kv'[h], behind'[h]}, NEW s \in Shard,
                      NEW n, n = st.currentConfig.Num, st.shards[s].State = "BePulling",
                      ~Acquired(n, s)'
               PROVE  st.shards[s].db = value[s]
    BY SMTT(10) DEF OfferedIsValue
  <2>2. CASE st \in {kv[h], behind[h]}
    BY <2>1, <2>2
  <2>3. CASE st \notin {kv[h], behind[h]}
    <3>1. h = g /\ st = kv'[g]
      BY <2>3
    <3> QED BY <2>1, <3>1
  <2> QED BY <2>2, <2>3
<1>5. InsertedIsValue'
  <2>1. \A h \in Gid : \A m \in inserting[h] : DOMAIN m.Shards \subseteq Shard
    BY DEF TypeInv, IsInsert
  <2> QED BY <1>1, <2>1 DEF Values, InsertedIsValue, Structure, InsertingSound
<1> QED BY <1>2, <1>3, <1>4, <1>5 DEF Values

LEMMA ValuesAddConfig ==
    ASSUME TypeInv, TypeInv', Structure, Values, NEW g \in Gid, NEW new \in adding[g],
           AddConfig(g, new)
    PROVE  Values'
<1>1. CASE new.Num # Num(g) + 1
  <2>1. UNCHANGED <<configs, kv, behind, inserting, value>>
    BY <1>1, AddConfigStep DEF AddConfig, history
  <2> QED BY <2>1, SameValues DEF Values
<1>2. CASE new.Num = Num(g) + 1
  <2> DEFINE n == Num(g)
  <2>1. /\ \A h \in Gid : h # g => kv'[h] = kv[h]
        /\ UNCHANGED <<configs, behind, inserting>>
        /\ n + 1 \in Version /\ kv'[g].currentConfig = configs[n + 2]
        /\ kv'[g].currentConfig.Num = n + 1
        /\ \A s \in Shard :
             /\ kv'[g].shards[s].db = kv[g].shards[s].db
             /\ kv[g].shards[s].State = "Serving"
             /\ kv'[g].shards[s].State =
                  IF Owner(n + 1, s) = g
                  THEN IF Owner(n, s) \in {g, 0} THEN "Serving" ELSE "Pulling"
                  ELSE IF Owner(n, s) = g THEN "BePulling" ELSE "Serving"
    BY <1>2, AddConfigStep
  <2>2. UNCHANGED value
    BY DEF AddConfig, history
  <2>3. n \in Nat /\ kv[g].currentConfig = configs[n + 1] /\ \A h \in Gid : Num(h) \in Nat
    BY Versions DEF Structure, ReplicasFollow, FollowsConfigs, Num
  <2>4. \A s \in Shard : /\ kv[g].currentConfig.Shards[s] = Owner(n, s)
                         /\ kv'[g].currentConfig.Shards[s] = Owner(n + 1, s)
    BY SMTT(10), SMTT(30), <2>1, <2>3 DEF Owner
  <2>5. \A s \in Shard : Owner(n, s) = g => kv[g].shards[s].db = value[s]
    BY <2>1, <2>4 DEF Values, ServesTheValue, checkShardAndState
  <2>6. ASSUME NEW s \in Shard, Owner(n, s) = 0, Owner(n + 1, s) = g
        PROVE  kv[g].shards[s].db = value[s]
    <3>1. g # 0
      BY ShardKVAssumption
    <3>2. kv[g].shards[s].db = <<>>
      BY ZenonT(30), <2>1, <2>4, <2>6, <3>1 DEF Structure, ReplicasFollow, FollowsConfigs
    <3>3. n = 0
      <4>1. n \notin Version
        BY <2>6, Versions DEF Structure
      <4> QED BY SMTT(10), SMTT(30), <2>1, <2>3, <4>1, Versions DEF Version, Structure
    <3>4. ~Acquired(1, s)
      BY SMTT(10), SMTT(30), <2>6, <3>3 DEF Acquired
    <3> QED BY <3>2, <3>4 DEF Values, NothingWritten
  <2> HIDE DEF n
  <2>7. GoesOn
    BY SMTT(10), <2>1, <2>3 DEF GoesOn, Num, n
  <2>8. \A s \in Shard : checkShardAndState(kv'[g], g, s) => kv'[g].shards[s].db = value[s]
    BY <2>1, <2>4, <2>5, <2>6 DEF checkShardAndState
  <2>9. \A s \in Shard : kv'[g].shards[s].State = "BePulling" =>
                           kv'[g].shards[s].db = value[s]
    BY <2>1, <2>5
  <2> QED BY <2>1, <2>2, <2>7, <2>8, <2>9, ValuesCommand
<1> QED BY <1>1, <1>2

LEMMA ValuesInsertShard ==
    ASSUME TypeInv, TypeInv', Structure, Values, NEW g \in Gid, NEW m \in inserting[g],
           InsertShard(g, m)
    PROVE  Values'
<1> DEFINE r == processInsertShard(kv[g], m)
<1>1. /\ kv[g] \in Group /\ IsInsert(m) /\ kv'[g] = r
      /\ \A h \in Gid : h # g => kv'[h] = kv[h]
      /\ UNCHANGED <<configs, behind, inserting, value>>
  BY DEF InsertShard, commandVars, history, TypeInv
<1>2. /\ r.currentConfig = kv[g].currentConfig
      /\ m.ConfigNum # Num(g) => r = kv[g]
      /\ m.ConfigNum = Num(g) => \A s \in Shard :
           IF s \in DOMAIN m.Shards /\ kv[g].shards[s].State = "Pulling"
           THEN /\ r.shards[s].State = "GCing"
                /\ r.shards[s].db = Copied(kv[g].shards[s].db, m.Shards[s])
           ELSE r.shards[s] = kv[g].shards[s]
  BY SMTT(10), SMTT(30), <1>1, InsertShardEffect DEF Num
<1> HIDE DEF r
<1>3. ASSUME NEW s \in DOMAIN m.Shards, m.ConfigNum = Num(g),
             kv[g].shards[s].State = "Pulling"
      PROVE  r.shards[s].db = value[s]
  <2>1. s \in Shard
    BY <1>1 DEF IsInsert
  <2>2. kv[g].shards[s].db = <<>> /\ Owner(Num(g), s) = g
    BY <1>3, <2>1 DEF Structure, ReplicasFollow, FollowsConfigs, Num
  <2>3. ~Acquired(Num(g), s)
    BY SMTT(10), <1>3, <2>1, <2>2, Versions DEF Acquired, Structure
  <2>4. m.Shards[s] = value[s]
    BY <1>3, <2>3 DEF Values, InsertedIsValue
  <2> QED BY <1>2, <1>3, <2>1, <2>2, <2>4 DEF Copied
<1>4. GoesOn
  BY SMTT(10), SMTT(30), <1>1, <1>2, Versions DEF GoesOn, Num, Structure
<1>5. \A s \in Shard : checkShardAndState(kv'[g], g, s) => kv'[g].shards[s].db = value[s]
  BY SMTT(10), SMTT(30), <1>1, <1>2, <1>3 DEF checkShardAndState, Values, ServesTheValue
<1>6. \A s \in Shard : kv'[g].shards[s].State = "BePulling" =>
                         kv'[g].shards[s] = kv[g].shards[s]
  BY <1>1, <1>2
<1> QED BY <1>1, <1>2, <1>4, <1>5, <1>6, ValuesCommand

LEMMA ValuesDeleteShard ==
    ASSUME TypeInv, TypeInv', Structure, Values, NEW g \in Gid, NEW m \in deleting[g],
           NEW answered \in BOOLEAN, DeleteShard(g, m, answered)
    PROVE  Values'
<1> DEFINE r == processDeleteShard(kv[g], m)
<1>1. /\ kv[g] \in Group /\ m \in Delete /\ kv'[g] = r
      /\ \A h \in Gid : h # g => kv'[h] = kv[h]
      /\ UNCHANGED <<configs, behind, inserting, value>>
  BY DEF DeleteShard, history, TypeInv
<1>2. /\ r.currentConfig = kv[g].currentConfig
      /\ m.ConfigNum # Num(g) => r = kv[g]
      /\ m.ConfigNum = Num(g) => \A s \in Shard :
           IF s \in m.ShardIds /\ kv[g].shards[s].State = "BePulling"
           THEN r.shards[s].State = "Serving" /\ r.shards[s].db = <<>>
           ELSE r.shards[s] = kv[g].shards[s]
  BY <1>1, DeleteShardEffect DEF Num
<1> HIDE DEF r
<1>3. \A s \in Shard : kv[g].shards[s].State = "BePulling" =>
                         kv[g].currentConfig.Shards[s] # g
  <2>1. kv[g].currentConfig = configs[Num(g) + 1]
    BY DEF Structure, ReplicasFollow, FollowsConfigs, Num
  <2>2. \A s \in Shard : kv[g].shards[s].State = "BePulling" => Owner(Num(g), s) # g
    BY DEF Structure, ReplicasFollow, FollowsConfigs, Num
  <2> QED BY <2>1, <2>2 DEF Owner
<1>4. GoesOn
  BY SMTT(10), SMTT(30), <1>1, <1>2, Versions DEF GoesOn, Num, Structure
<1>5. \A s \in Shard : checkShardAndState(kv'[g], g, s) => kv'[g].shards[s].db = value[s]
  BY SMTT(10), <1>1, <1>2, <1>3 DEF checkShardAndState, Values, ServesTheValue
<1>6. \A s \in Shard : kv'[g].shards[s].State = "BePulling" =>
                         kv'[g].shards[s] = kv[g].shards[s]
  BY <1>1, <1>2
<1> QED BY <1>1, <1>2, <1>4, <1>5, <1>6, ValuesCommand

LEMMA ValuesAdjust ==
    ASSUME TypeInv, TypeInv', Structure, Values, NEW g \in Gid, NEW m \in adjusting[g],
           AdjustShardState(g, m)
    PROVE  Values'
<1> DEFINE r == processAdjustGCingShard(kv[g], m)
<1>1. /\ kv[g] \in Group /\ m \in Adjust /\ kv'[g] = r
      /\ \A h \in Gid : h # g => kv'[h] = kv[h]
      /\ UNCHANGED <<configs, behind, inserting, value>>
  BY DEF AdjustShardState, commandVars, history, TypeInv
<1>2. /\ r.currentConfig = kv[g].currentConfig
      /\ m.ConfigNum # Num(g) => r = kv[g]
      /\ m.ConfigNum = Num(g) => \A s \in Shard :
           /\ r.shards[s].db = kv[g].shards[s].db
           /\ r.shards[s].State = IF s \in m.ShardIds THEN "Serving"
                                  ELSE kv[g].shards[s].State
  BY <1>1, AdjustShardEffect DEF Num
<1> HIDE DEF r
<1>3. \A s \in m.ShardIds : m.ConfigNum = Num(g) =>
         kv[g].shards[s].State \in {"GCing", "Serving"}
  BY AdjustedShards
<1>4. GoesOn
  BY SMTT(10), SMTT(30), <1>1, <1>2, Versions DEF GoesOn, Num, Structure
<1>5. \A s \in Shard : checkShardAndState(kv'[g], g, s) => kv'[g].shards[s].db = value[s]
  BY SMTT(10), <1>1, <1>2, <1>3 DEF checkShardAndState, Values, ServesTheValue
<1>6. \A s \in Shard : kv'[g].shards[s].State = "BePulling" =>
                         /\ kv[g].shards[s].State = "BePulling"
                         /\ kv'[g].shards[s].db = kv[g].shards[s].db
  BY <1>1, <1>2
<1> QED BY <1>1, <1>2, <1>4, <1>5, <1>6, ValuesCommand

LEMMA ValuesExecute ==
    ASSUME TypeInv, TypeInv', Structure, Values, NEW g \in Gid, NEW m \in ops[g],
           processGetPutAppend(g, m)
    PROVE  Values'
<1>1. PICK s : s = m.op.Shard
  OBVIOUS
<1>2. /\ s \in Shard /\ checkShardAndState(kv[g], g, s) /\ kv[g].shards[s].db = value[s]
      /\ UNCHANGED <<configs, behind, inserting>>
      /\ \A h \in Gid : h # g => kv'[h] = kv[h]
      /\ kv'[g].currentConfig = kv[g].currentConfig
      /\ \A t \in Shard : /\ kv'[g].shards[t].State = kv[g].shards[t].State
                          /\ t # s => kv'[g].shards[t] = kv[g].shards[t]
      /\ kv'[g].shards[s].db = value'[s]
      /\ \A t \in Shard : t # s => value'[t] = value[t]
  BY ZenonT(30), <1>1, ExecuteStep
<1>3. \A h \in Gid : /\ kv'[h].currentConfig = kv[h].currentConfig
                     /\ \A t \in Shard : kv'[h].shards[t].State = kv[h].shards[t].State
  BY <1>2
<1>4. \A n \in Version : \A t \in Shard : Acquired(n, t)' <=> Acquired(n, t)
  <2> SUFFICES ASSUME NEW n \in Version, NEW t \in Shard
               PROVE  Acquired(n, t)' <=> Acquired(n, t)
    OBVIOUS
  <2>1. Owner(n, t) \in Gid /\ Owner(n, t)' = Owner(n, t)
    BY <1>2, Versions DEF Structure, Owner
  <2> QED BY <1>3, <2>1 DEF Acquired, Num
<1>5. 1 \in Version /\ Acquired(1, s)
  BY <1>2, ServedVersion
<1>6. NothingWritten'
  <2>1. Len(configs) > 1
    BY SMTT(10), <1>5, Versions DEF Version, Structure
  <2> QED BY <1>2, <1>4, <1>5, <2>1 DEF Values, NothingWritten
<1>7. ServesTheValue'
  <2> SUFFICES ASSUME NEW h \in Gid, NEW t \in Shard, checkShardAndState(kv'[h], h, t)
               PROVE  kv'[h].shards[t].db = value'[t]
    BY DEF ServesTheValue, checkShardAndState
  <2>1. checkShardAndState(kv[h], h, t)
    BY <1>3 DEF checkShardAndState
  <2>2. h = g \/ t # s
    BY <1>2, <2>1, OneServes DEF OneOwner
  <2>3. kv[h].shards[t].db = value[t]
    BY <2>1 DEF Values, ServesTheValue
  <2> QED BY <1>2, <2>2, <2>3
<1>8. OfferedIsValue'
  <2> SUFFICES ASSUME NEW h \in Gid, NEW t \in Shard, NEW st \in {kv'[h], behind'[h]},
                      NEW n, n = st.currentConfig.Num, st.shards[t].State = "BePulling",
                      ~Acquired(n, t)'
               PROVE  st.shards[t].db = value'[t]
    BY DEF OfferedIsValue
  <2>1. PICK old \in {kv[h], behind[h]} :
          /\ old.shards[t].State = "BePulling" /\ old.currentConfig.Num = n
          /\ t # s => st.shards[t] = old.shards[t]
    BY ZenonT(30), <1>2, <1>3
  <2>2. n \in Version /\ n > 1 /\ Owner(n - 1, t) = h /\ Num(h) >= n
    BY <2>1, OfferedVersion
  <2>3. ~Acquired(n, t)
    BY <1>4, <2>2
  <2>4. t # s
    BY <1>2, <2>2, <2>3, NobodyServes
  <2>5. old.shards[t].db = value[t]
    BY <2>1, <2>3 DEF Values, OfferedIsValue
  <2> QED BY <1>2, <2>1, <2>4, <2>5
<1>9. InsertedIsValue'
  <2> SUFFICES ASSUME NEW h \in Gid, NEW i \in inserting[h], NEW t \in DOMAIN i.Shards,
                      NEW n, n = i.ConfigNum, ~Acquired(n, t)'
               PROVE  i.Shards[t] = value'[t]
    BY <1>2 DEF InsertedIsValue
  <2>1. t \in Shard /\ n \in Version /\ n > 1 /\ Num(Owner(n - 1, t)) >= n
    BY DEF Structure, InsertingSound, TypeInv, IsInsert
  <2>2. ~Acquired(n, t)
    BY <1>4, <2>1
  <2>3. t # s
    BY <1>2, <2>1, <2>2, NobodyServes
  <2>4. i.Shards[t] = value[t]
    BY <2>2 DEF Values, InsertedIsValue
  <2> QED BY <1>2, <2>1, <2>3, <2>4
<1> QED BY <1>6, <1>7, <1>8, <1>9 DEF Values

LEMMA ValuesInit ==
    ASSUME Init
    PROVE  Values
<1>1. \A g \in Gid : /\ kv[g] = NewGroup /\ behind[g] = NewGroup
                     /\ inserting[g] = {}
  BY DEF Init
<1>2. \A s \in Shard : /\ value[s] = <<>> /\ NewGroup.shards[s].db = <<>>
                       /\ NewGroup.shards[s].State = "Serving"
  BY DEF Init, NewGroup
<1> QED BY <1>1, <1>2
    DEF Values, NothingWritten, ServesTheValue, OfferedIsValue, InsertedIsValue

-----------------------------------------------------------------------------
(* The invariant of a migration *)

LEMMA MigrationInit ==
    ASSUME Init
    PROVE  MigrationInv
BY TypeInit, StructureInit, ValuesInit DEF MigrationInv

\* Steps that leave the groups, and what is on its way between them, alone.
LEMMA MigrationIdle ==
    ASSUME MigrationInv, TypeInv',
           UNCHANGED <<configs, kv, behind, pulls, adding, inserting, deleting, adjusting,
                       value>>
    PROVE  MigrationInv'
<1>1. Structure'
  BY SameStructure DEF MigrationInv, Structure
<1>2. Values'
  BY SameValues DEF MigrationInv, Values
<1> QED BY <1>1, <1>2 DEF MigrationInv

LEMMA MigrationMonitors ==
    ASSUME MigrationInv, NEW g \in Gid, NEW h \in Gid,
           monitorRequestConfig(g) \/ monitorInsert(g, h) \/ monitorGC(g, h)
    PROVE  MigrationInv'
<1>1. TypeInv'
  BY TypeMonitors DEF MigrationInv, Structure
<1>2. Structure'
  BY StructureRequestConfig, StructureInsert, StructureGC DEF MigrationInv
<1>3. UNCHANGED <<configs, kv, behind, inserting, value>>
  BY DEF monitorRequestConfig, monitorInsert, monitorGC, serverVars, commandVars, history
<1>4. Values'
  BY <1>3, SameValues DEF MigrationInv, Values
<1> QED BY <1>1, <1>2, <1>4 DEF MigrationInv

LEMMA MigrationCommands ==
    ASSUME MigrationInv, NEW g \in Gid,
           \/ \E new \in adding[g] : AddConfig(g, new)
           \/ \E m \in inserting[g] : InsertShard(g, m)
           \/ \E m \in deleting[g], answered \in BOOLEAN : DeleteShard(g, m, answered)
           \/ \E m \in adjusting[g] : AdjustShardState(g, m)
           \/ \E m \in ops[g] : processGetPutAppend(g, m)
    PROVE  MigrationInv'
<1> USE DEF MigrationInv
<1>1. ASSUME NEW new \in adding[g], AddConfig(g, new)
      PROVE  MigrationInv'
  BY <1>1, TypeAddConfig, StructureAddConfig, ValuesAddConfig
<1>2. ASSUME NEW m \in inserting[g], InsertShard(g, m)
      PROVE  MigrationInv'
  BY <1>2, TypeInsertShard, StructureInsertShard, ValuesInsertShard
<1>3. ASSUME NEW m \in deleting[g], NEW answered \in BOOLEAN, DeleteShard(g, m, answered)
      PROVE  MigrationInv'
  BY <1>3, TypeDeleteShard, StructureDeleteShard, ValuesDeleteShard
<1>4. ASSUME NEW m \in adjusting[g], AdjustShardState(g, m)
      PROVE  MigrationInv'
  BY <1>4, TypeAdjustShardState, StructureAdjust, ValuesAdjust
<1>5. ASSUME NEW m \in ops[g], processGetPutAppend(g, m)
      PROVE  MigrationInv'
  BY <1>5, TypeExecute, StructureExecute, ValuesExecute
<1> HIDE DEF MigrationInv
<1> QED BY <1>1, <1>2, <1>3, <1>4, <1>5

LEMMA MigrationReplies ==
    ASSUME MigrationInv,
           \/ \E m \in pulls : \E st \in {kv[m.to], behind[m.to]} : GetShards(m, st)
           \/ \E g \in Gid : CatchUp(g)
           \/ \E plan \in Plans : NextConfig(plan)
    PROVE  MigrationInv'
<1> USE DEF MigrationInv
<1>1. ASSUME NEW m \in pulls, NEW st \in {kv[m.to], behind[m.to]}, GetShards(m, st)
      PROVE  MigrationInv'
  BY <1>1, TypeGetShards, StructureGetShards, ValuesGetShards
<1>2. ASSUME NEW g \in Gid, CatchUp(g)
      PROVE  MigrationInv'
  BY <1>2, TypeCatchUp, StructureCatchUp, ValuesCatchUp
<1>3. ASSUME NEW plan \in Plans, NextConfig(plan)
      PROVE  MigrationInv'
  BY <1>3, TypeNextConfig, StructureNextConfig, ValuesNextConfig, Versions DEF Structure
<1> HIDE DEF MigrationInv
<1> QED BY <1>1, <1>2, <1>3

LEMMA MigrationClerks ==
    ASSUME MigrationInv, NEW c \in Clerk,
           \/ \E type \in OpType, s \in Used : Call(c, type, s)
           \/ \E answer \in Queried : Requery(c, answer)
           \/ \E result \in replies[c] : Receive(c, result)
           \/ \E g \in Gid : \E st \in {kv[g], behind[g]} : Handle(c, g, st)
    PROVE  MigrationInv'
<1>1. TypeInv'
  BY TypeCall, TypeRequery, TypeReceive, TypeHandle DEF MigrationInv, Structure
<1>2. UNCHANGED <<configs, kv, behind, pulls, adding, inserting, deleting, adjusting,
                  value>>
  BY DEF Call, Requery, Receive, Handle, serverVars, commandVars, history
<1> QED BY <1>1, <1>2, MigrationIdle

LEMMA MigrationNext ==
    ASSUME MigrationInv, [Next]_vars
    PROVE  MigrationInv'
<1>1. CASE Next
  BY <1>1, MigrationMonitors, MigrationCommands, MigrationReplies, MigrationClerks DEF Next
<1>2. CASE UNCHANGED vars
  <2>1. TypeInv'
    BY <1>2 DEF vars, MigrationInv, TypeInv
  <2> QED BY <1>2, <2>1, MigrationIdle DEF vars
<1> QED BY <1>1, <1>2

\* Whatever is repeated, lost or late between the groups, and whichever replica
\* answers: who has a shard, and where its value is, is as MigrationInv says.
THEOREM MigrationHolds == Spec => []MigrationInv
<1>1. Init => MigrationInv
  BY MigrationInit
<1>2. MigrationInv /\ [Next]_vars => MigrationInv'
  BY MigrationNext
<1> QED BY <1>1, <1>2, PTL DEF Spec

\* The variables keep their types, and a group takes the configurations of the
\* controller one version at a time (processAddConfig).
THEOREM TypeCorrect == Spec => []TypeOK
<1>1. MigrationInv => TypeOK
  <2> SUFFICES ASSUME TypeInv, Structure
               PROVE  TypeOK
    BY DEF MigrationInv
  <2>1. ASSUME NEW g \in Gid, kv[g].currentConfig.Num > 0
        PROVE  kv[g].lastConfig.Num = kv[g].currentConfig.Num - 1
    <3> DEFINE n == kv[g].currentConfig.Num
    <3>1. n \in Nat /\ n < Len(configs) /\ kv[g].lastConfig = configs[n]
      BY SMTT(10), SMTT(30), <2>1, Versions DEF Structure, ReplicasFollow, FollowsConfigs, Num
    <3> HIDE DEF n
    <3>2. CASE n = 1
      BY SMTT(10), <3>1, <3>2 DEF Structure, ConfigsSound, NoConfig, n
    <3>3. CASE n > 1
      <4>1. n - 1 \in Version /\ (n - 1) + 1 = n
        BY SMTT(10), <3>1, <3>3, Versions DEF Structure, Version
      <4>2. configs[(n - 1) + 1].Num = n - 1
        BY <4>1 DEF Structure, ConfigsSound
      <4> QED BY <3>1, <4>1, <4>2 DEF n
    <3> QED BY SMTT(10), SMTT(30), <2>1, <3>1, <3>2, <3>3 DEF n
  <2> QED BY <2>1 DEF TypeInv, TypeOK, IsInsert
<1> QED BY <1>1, MigrationHolds, PTL

\* No two groups pass checkShardAndState for a shard at the same time, however
\* far apart their configurations are.
THEOREM OneOwnerHolds == Spec => []OneOwner
<1>1. MigrationInv => OneOwner
  BY OneServes DEF MigrationInv
<1> QED BY <1>1, MigrationHolds, PTL

\* A group that serves a shard has everything that was written to it: GetShards,
\* InsertShard and DeleteShard lose, repeat and overwrite nothing.
THEOREM ValuesMigrate == Spec => []ServesTheValue
<1>1. MigrationInv => ServesTheValue
  BY DEF MigrationInv, Values
<1> QED BY <1>1, MigrationHolds, PTL

\* The old owner of a shard does not go past the configuration in which the new
\* one pulls it, and keeps it for GetShards until then.
THEOREM KeptUntilPulled == Spec => []OldOwnerKeeps
<1>1. MigrationInv => OldOwnerKeeps
  <2> SUFFICES ASSUME TypeInv, Structure, Values, NEW g \in Gid,
                      NEW s \in InState(kv[g], "Pulling")
               PROVE  LET old == kv[kv[g].lastConfig.Shards[s]]
                          num == kv[g].currentConfig.Num
                      IN /\ old.currentConfig.Num <= num
                         /\ old.currentConfig.Num = num =>
                              old.shards[s].State = "BePulling" /\ old.shards[s].db = value[s]
    BY DEF MigrationInv, OldOwnerKeeps
  <2> DEFINE n == Num(g)
             h == Owner(n - 1, s)
  <2>1. s \in Shard /\ kv[g].shards[s].State = "Pulling"
    BY DEF InState
  <2>2. /\ n \in Nat /\ n > 1 /\ n < Len(configs) /\ Owner(n, s) = g /\ h # g
        /\ kv[g].lastConfig = configs[n]
    <3>1. /\ n \in Nat /\ n > 1 /\ n < Len(configs) /\ Owner(n, s) = g /\ h # g
          /\ kv[g].lastConfig = IF n = 0 THEN NoConfig ELSE configs[n]
      BY ZenonT(30), <2>1, Versions DEF Structure, ReplicasFollow, FollowsConfigs, Num
    <3>2. n # 0
      BY SMTT(10), <3>1
    <3> QED BY <3>1, <3>2
  <2>3. n \in Version /\ h \in Gid /\ h = kv[g].lastConfig.Shards[s] /\ Num(h) \in Nat
    <3>1. n \in Version
      BY SMTT(10), <2>2, Versions DEF Structure, Version
    <3>2. h \in Gid
      BY <2>1, <2>2, <3>1, Versions DEF Structure
    <3>3. h = kv[g].lastConfig.Shards[s]
      BY SMTT(10), SMTT(30), <2>2 DEF Owner
    <3> QED BY <3>1, <3>2, <3>3, Versions DEF Structure
  <2>4. ~Acquired(n, s)
    BY SMTT(10), <2>1, <2>2 DEF Acquired
  <2>5. ~(Num(h) > n) /\ (Num(h) = n => kv[h].shards[s].State = "BePulling")
    BY <2>1, <2>2, <2>3, <2>4 DEF Structure, KeptForNext
  <2> HIDE DEF h, n
  <2>6. Num(h) = n => kv[h].shards[s].db = value[s]
    BY <2>1, <2>3, <2>4, <2>5 DEF Values, OfferedIsValue, Num
  <2>7. /\ kv[h].currentConfig.Num <= n
        /\ kv[h].currentConfig.Num = n =>
             kv[h].shards[s].State = "BePulling" /\ kv[h].shards[s].db = value[s]
    <3>1. Num(h) \in Nat /\ n \in Nat /\ ~(Num(h) > n)
      BY <2>2, <2>3, <2>5
    <3>2. Num(h) <= n
      BY SMTT(10), <3>1
    <3> QED BY <2>5, <2>6, <3>2 DEF Num
  <2>8. kv[g].currentConfig.Num = n
    BY DEF n, Num
  <2> QED BY <2>3, <2>7, <2>8
<1> QED BY <1>1, MigrationHolds, PTL

-----------------------------------------------------------------------------
(* The invariant of the clerks *)

LEMMA InvNext ==
    ASSUME Inv, [Next]_vars
    PROVE  Inv'
<1>1. MigrationInv' /\ TypeInv'
  BY MigrationNext DEF Inv, MigrationInv
<1>2. CASE Next
  <2>1. ASSUME NEW g \in Gid, NEW m \in ops[g], processGetPutAppend(g, m)
        PROVE  ClerkInv'
    BY <1>1, <2>1, ClerkExecute
  <2>2. ASSUME NEW g \in Gid,
               \/ \E new \in adding[g] : AddConfig(g, new)
               \/ \E m \in inserting[g] : InsertShard(g, m)
               \/ \E m \in deleting[g], answered \in BOOLEAN : DeleteShard(g, m, answered)
               \/ \E m \in adjusting[g] : AdjustShardState(g, m)
        PROVE  ClerkInv'
    BY <1>1, <2>2, ClerkCommands
  <2>3. ClerkInv'
    BY <1>2, <2>1, <2>2, ClerkNextConfig, ClerkMonitors, ClerkGetShards, ClerkCatchUp,
       ClerkCall, ClerkReceive, ClerkRequery, ClerkHandle
    DEF Next
  <2> QED BY <1>1, <2>3 DEF Inv
<1>3. CASE UNCHANGED vars
  BY <1>1, <1>3, ClerkReplies DEF vars, Inv
<1> QED BY <1>2, <1>3

\* A write that was executed is in the duplicate map of whoever has or gets its
\* shard, and what a clerk was answered is true.
THEOREM InvHolds == Spec => []Inv
<1>1. Init => Inv
  BY MigrationInit, ClerkInit DEF Inv
<1>2. Inv /\ [Next]_vars => Inv'
  BY InvNext
<1> QED BY <1>1, <1>2, PTL DEF Spec

-----------------------------------------------------------------------------
(* The refinement of a store per shard *)

\* What the refinement mapping of shard s makes of clerk c.
PendingAt(s, c) == IF op[c].Shard = s THEN op[c] ELSE Idle

TookAt(s, c) == effect[c] /\ op[c].Shard = s

SeenAt(s, c) == IF op[c].Shard = s THEN seen[c] ELSE {}

Pending(s) == [c \in Clerk |-> PendingAt(s, c)]

Took(s) == [c \in Clerk |-> TookAt(s, c)]

Seen(s) == [c \in Clerk |-> SeenAt(s, c)]

Got(s) == [c \in Clerk |-> got[c][s]]

LEMMA SameStore ==
    ASSUME NEW s \in Shard, value'[s] = value[s],
           \A c \in Clerk : /\ PendingAt(s, c)' = PendingAt(s, c)
                            /\ TookAt(s, c)' = TookAt(s, c)
                            /\ SeenAt(s, c)' = SeenAt(s, c)
                            /\ got'[c][s] = got[c][s]
    PROVE  UNCHANGED Store(s)!vars
<1>1. UNCHANGED <<Pending(s), Took(s), Seen(s), Got(s)>>
  BY DEF Pending, Took, Seen, Got
<1> QED BY <1>1 DEF Store!vars, Pending, Took, Seen, Got, PendingAt, TookAt, SeenAt

LEMMA RefinedInit ==
    ASSUME Init, NEW s \in Shard
    PROVE  Store(s)!Init
<1>1. /\ value[s] = <<>>
      /\ \A c \in Clerk : /\ op[c] = Idle /\ effect[c] = FALSE /\ seen[c] = {}
                          /\ got[c][s] = <<>>
  BY DEF Init
<1>2. \A c \in Clerk : /\ PendingAt(s, c) = Idle /\ TookAt(s, c) = FALSE
                       /\ SeenAt(s, c) = {}
  BY <1>1 DEF PendingAt, TookAt, SeenAt
<1>3. /\ Pending(s) = [c \in Clerk |-> Idle] /\ Took(s) = [c \in Clerk |-> FALSE]
      /\ Seen(s) = [c \in Clerk |-> {}] /\ Got(s) = [c \in Clerk |-> <<>>]
  BY <1>1, <1>2 DEF Pending, Took, Seen, Got
<1> QED BY <1>1, <1>3
        DEF Store!Init, Pending, Took, Seen, Got, PendingAt, TookAt, SeenAt

\* No step but the call, its execution and its return changes a store.
LEMMA RefinedStutter ==
    ASSUME UNCHANGED <<value, op, effect, seen, got>>, NEW s \in Shard
    PROVE  UNCHANGED Store(s)!vars
<1>1. ASSUME NEW c \in Clerk
      PROVE  /\ PendingAt(s, c)' = PendingAt(s, c)
             /\ TookAt(s, c)' = TookAt(s, c)
             /\ SeenAt(s, c)' = SeenAt(s, c)
  BY DEF PendingAt, TookAt, SeenAt
<1> QED BY <1>1, SameStore

\* A clerk without an operation has nothing in any store.
LEMMA IdleClerk ==
    ASSUME Inv, NEW c \in Clerk, op[c] = Idle, NEW s \in Shard
    PROVE  /\ effect[c] = FALSE /\ seen[c] = {}
           /\ PendingAt(s, c) = Idle /\ TookAt(s, c) = FALSE /\ SeenAt(s, c) = {}
<1>1. effect[c] = FALSE
  BY EffectPending DEF Inv, MigrationInv, TypeInv, ClerkInv
<1>2. seen[c] = {}
  BY DEF Inv, ClerkInv, RepliesSound
<1> QED BY <1>1, <1>2 DEF PendingAt, TookAt, SeenAt

LEMMA RefinedCall ==
    ASSUME Inv, NEW c \in Clerk, NEW type \in OpType, NEW t \in Used, Call(c, type, t),
           NEW s \in Shard
    PROVE  UNCHANGED Store(s)!vars \/ Store(s)!Next
<1> PICK o : o = [OpType |-> type, Shard |-> t, RequestId |-> RequestId[c]]
  OBVIOUS
<1>1. TypeInv
  BY DEF Inv, MigrationInv
<1>2. /\ op[c] = Idle /\ t \in Shard /\ o \in Operation
      /\ op' = [op EXCEPT ![c] = o] /\ seen' = [seen EXCEPT ![c] = {value[t]}]
      /\ UNCHANGED <<value, effect, got>>
  BY SMTT(10), SMTT(30), <1>1, ShardKVAssumption DEF TypeInv, Call, Operation
<1>3. o.Shard = t
  OBVIOUS
<1>4. /\ op'[c] = o /\ seen'[c] = {value[t]}
      /\ \A d \in Clerk : d # c => op'[d] = op[d] /\ seen'[d] = seen[d]
  BY <1>1, <1>2 DEF TypeInv
<1>5. /\ effect[c] = FALSE
      /\ PendingAt(s, c) = Idle /\ TookAt(s, c) = FALSE /\ SeenAt(s, c) = {}
  BY <1>2, IdleClerk
<1>6. \A d \in Clerk : d # c => /\ PendingAt(s, d)' = PendingAt(s, d)
                                /\ TookAt(s, d)' = TookAt(s, d)
                                /\ SeenAt(s, d)' = SeenAt(s, d)
  BY <1>2, <1>4 DEF PendingAt, TookAt, SeenAt
<1>7. TookAt(s, c)' = TookAt(s, c)
  BY <1>2, <1>5 DEF TookAt
<1>8. CASE s # t
  <2>1. PendingAt(s, c)' = Idle /\ SeenAt(s, c)' = {}
    BY <1>3, <1>4, <1>8 DEF PendingAt, SeenAt
  <2> QED BY <1>2, <1>5, <1>6, <1>7, <2>1, SameStore
<1>9. CASE s = t
  <2>1. PendingAt(s, c)' = o /\ SeenAt(s, c)' = {value[s]}
    BY <1>3, <1>4, <1>9 DEF PendingAt, SeenAt
  <2>2. /\ Pending(s)[c] = Idle
        /\ Pending(s)' = [Pending(s) EXCEPT ![c] = o]
        /\ Seen(s)' = [Seen(s) EXCEPT ![c] = {value[s]}]
        /\ Took(s)' = Took(s) /\ Got(s)' = Got(s)
    BY <1>2, <1>5, <1>6, <1>7, <2>1 DEF Pending, Seen, Took, Got
  <2>3. Store(s)!Call(c, o)
    BY <1>2, <2>2 DEF Store!Call, Pending, Took, Seen, Got, PendingAt, TookAt, SeenAt
  <2> QED BY <1>2, <2>3 DEF Store!Next
<1> QED BY <1>8, <1>9

\* A clerk that has OK returns from the store of its shard: with a value that
\* store had since the call, or with a write that took effect.
LEMMA RefinedReceive ==
    ASSUME Inv, NEW c \in Clerk, NEW result \in replies[c], Receive(c, result),
           NEW s \in Shard
    PROVE  UNCHANGED Store(s)!vars \/ Store(s)!Next
<1>1. TypeInv /\ ClerkInv
  BY DEF Inv, MigrationInv
<1>2. /\ op[c] # Idle /\ op[c] \in Operation /\ op[c].Shard \in Shard
      /\ op[c].OpType # "Get" => effect[c]
      /\ op[c].OpType = "Get" => result \in seen[c]
  BY <1>1 DEF TypeInv, ClerkInv, RepliesSound, Operation
<1>3. /\ op'[c] = Idle /\ seen'[c] = {} /\ effect'[c] = FALSE
      /\ \A d \in Clerk : d # c => op'[d] = op[d] /\ seen'[d] = seen[d]
                                   /\ effect'[d] = effect[d] /\ got'[d] = got[d]
      /\ value' = value
  BY <1>1 DEF TypeInv, Receive
<1>4. /\ s # op[c].Shard \/ op[c].OpType # "Get" => got'[c][s] = got[c][s]
      /\ s = op[c].Shard /\ op[c].OpType = "Get" => got'[c][s] = result
  BY <1>1, <1>2 DEF TypeInv, Receive
<1>5. PendingAt(s, c)' = Idle /\ TookAt(s, c)' = FALSE /\ SeenAt(s, c)' = {}
  BY <1>3 DEF PendingAt, TookAt, SeenAt
<1>6. \A d \in Clerk : d # c => /\ PendingAt(s, d)' = PendingAt(s, d)
                                /\ TookAt(s, d)' = TookAt(s, d)
                                /\ SeenAt(s, d)' = SeenAt(s, d)
  BY <1>3 DEF PendingAt, TookAt, SeenAt
<1>7. CASE s # op[c].Shard
  <2>1. PendingAt(s, c) = Idle /\ TookAt(s, c) = FALSE /\ SeenAt(s, c) = {}
    BY <1>7 DEF PendingAt, TookAt, SeenAt
  <2> QED BY <1>3, <1>4, <1>5, <1>6, <1>7, <2>1, SameStore
<1>8. CASE s = op[c].Shard
  <2>1. PendingAt(s, c) = op[c] /\ TookAt(s, c) = effect[c] /\ SeenAt(s, c) = seen[c]
    BY <1>1, <1>8 DEF PendingAt, TookAt, SeenAt, TypeInv
  <2>2. /\ Pending(s)[c] = op[c] /\ Took(s)[c] = effect[c] /\ Seen(s)[c] = seen[c]
        /\ Pending(s)' = [Pending(s) EXCEPT ![c] = Idle]
        /\ Seen(s)' = [Seen(s) EXCEPT ![c] = {}]
        /\ Took(s)' = [Took(s) EXCEPT ![c] = FALSE]
        /\ op[c].OpType # "Get" => Got(s)' = Got(s)
        /\ op[c].OpType = "Get" => Got(s)' = [Got(s) EXCEPT ![c] = result]
    BY <1>3, <1>4, <1>5, <1>6, <1>8, <2>1 DEF Pending, Seen, Took, Got
  <2>3. Store(s)!Return(c)
    BY <1>2, <1>3, <2>2 DEF Store!Return, Pending, Took, Seen, Got, PendingAt, TookAt, SeenAt
  <2> QED BY <2>3 DEF Store!Next
<1> QED BY <1>7, <1>8

\* A group that executes a write lets it take effect in the store of its shard;
\* one that answers a repeated write, or a Get, changes no store.
LEMMA RefinedExecute ==
    ASSUME Inv, NEW g \in Gid, NEW m \in ops[g], processGetPutAppend(g, m), NEW s \in Shard
    PROVE  UNCHANGED Store(s)!vars \/ Store(s)!Next
<1> DEFINE t == m.op.Shard
           c == m.clerk
           write == Executes(kv[g], m) /\ m.op.OpType # "Get"
<1>1. TypeInv /\ Structure /\ Values /\ ClerkInv
  BY DEF Inv, MigrationInv
<1>2. /\ c \in Clerk /\ t \in Shard
      /\ UNCHANGED <<op, got>>
      /\ write => /\ op[c] = m.op /\ ~effect[c]
                  /\ effect' = [effect EXCEPT ![c] = TRUE]
                  /\ seen' = [d \in Clerk |-> IF op[d] # Idle /\ op[d].Shard = t
                                              THEN seen[d] \cup {value'[t]} ELSE seen[d]]
      /\ ~write => UNCHANGED <<value, effect, seen>>
  BY ExecuteHistory
<1>3. m.op # Idle /\ \A d \in Shard : d # t => value'[d] = value[d]
  <2>1. m.op # Idle
    BY SMTT(10), SMTT(30), <1>1, ExecuteStep, ShardKVAssumption DEF ClerkCommand, Operation, Idle
  <2> QED BY <1>1, <2>1, ExecuteStep
<1>4. write => value'[t] = Written(c, m.op, value[t])
  BY SMTT(10), SMTT(30), <1>1 DEF processGetPutAppend, RecordWrite, TypeInv, ClerkCommand, Operation
<1> HIDE DEF write, t, c
<1>5. CASE ~write
  BY <1>2, <1>5, RefinedStutter
<1>6. CASE write
  <2>1. /\ effect'[c] = TRUE /\ \A d \in Clerk : d # c => effect'[d] = effect[d]
    BY <1>1, <1>2, <1>6 DEF TypeInv
  <2>2. \A d \in Clerk : op[d] = Idle => seen[d] = {}
    BY <1>1 DEF ClerkInv, RepliesSound
  <2>3. \A d \in Clerk : PendingAt(s, d)' = PendingAt(s, d) /\ got'[d][s] = got[d][s]
    BY <1>2 DEF PendingAt
  <2>4. \A d \in Clerk : d # c => TookAt(s, d)' = TookAt(s, d)
    BY <1>2, <2>1 DEF TookAt
  <2>5. CASE s # t
    <3>1. op[c].Shard # s
      BY <1>2, <1>6, <2>5 DEF t
    <3>2. \A d \in Clerk : TookAt(s, d)' = TookAt(s, d)
      BY <1>2, <2>4, <3>1 DEF TookAt
    <3>3. \A d \in Clerk : SeenAt(s, d)' = SeenAt(s, d)
      BY <1>2, <1>6, <2>5 DEF SeenAt
    <3> QED BY <1>3, <2>3, <2>5, <3>2, <3>3, SameStore
  <2>6. CASE s = t
    <3>1. PendingAt(s, c) = m.op /\ TookAt(s, c) = FALSE /\ TookAt(s, c)' = TRUE
      BY <1>2, <1>6, <2>1, <2>6 DEF PendingAt, TookAt, t
    <3>2. \A d \in Clerk :
            SeenAt(s, d)' = IF PendingAt(s, d) = Idle THEN {}
                            ELSE SeenAt(s, d) \cup {value'[s]}
      BY <1>2, <1>6, <2>2, <2>6 DEF SeenAt, PendingAt
    <3>3. /\ Pending(s)[c] = m.op /\ Took(s)[c] = FALSE
          /\ Took(s)' = [Took(s) EXCEPT ![c] = TRUE]
          /\ Seen(s)' = [d \in Clerk |-> IF Pending(s)[d] = Idle THEN {}
                                         ELSE Seen(s)[d] \cup {value'[s]}]
          /\ Pending(s)' = Pending(s) /\ Got(s)' = Got(s)
      BY <1>2, <2>3, <2>4, <3>1, <3>2 DEF Pending, Seen, Took, Got
    <3>4. value'[s] = Store(s)!Written(c, m.op, value[s])
      BY <1>4, <1>6, <2>6 DEF Written, Store!Written
    <3>5. Store(s)!TakeEffect(c)
      BY <1>2, <1>3, <3>3, <3>4
      DEF Store!TakeEffect, Pending, Took, Seen, Got, PendingAt, TookAt, SeenAt
    <3> QED BY <1>2, <3>5 DEF Store!Next
  <2> QED BY <2>5, <2>6
<1> QED BY <1>5, <1>6

LEMMA RefinedNext ==
    ASSUME Inv, [Next]_vars, NEW s \in Shard
    PROVE  UNCHANGED Store(s)!vars \/ Store(s)!Next
<1>1. ASSUME UNCHANGED <<value, op, effect, seen, got>>
      PROVE  UNCHANGED Store(s)!vars
  BY <1>1, RefinedStutter
<1>2. CASE Next
  <2>1. ASSUME NEW plan \in Plans, NextConfig(plan)
        PROVE  UNCHANGED <<value, op, effect, seen, got>>
    BY <2>1 DEF NextConfig, clerkVars, history
  <2>2. ASSUME NEW g \in Gid,
               \/ monitorRequestConfig(g) \/ CatchUp(g)
               \/ \E h \in Gid : monitorInsert(g, h) \/ monitorGC(g, h)
        PROVE  UNCHANGED <<value, op, effect, seen, got>>
    BY <2>2 DEF monitorRequestConfig, CatchUp, monitorInsert, monitorGC, clerkVars, history
  <2>3. ASSUME NEW g \in Gid,
               \/ \E new \in adding[g] : AddConfig(g, new)
               \/ \E m \in inserting[g] : InsertShard(g, m)
               \/ \E m \in deleting[g], answered \in BOOLEAN : DeleteShard(g, m, answered)
               \/ \E m \in adjusting[g] : AdjustShardState(g, m)
        PROVE  UNCHANGED <<value, op, effect, seen, got>>
    BY <2>3 DEF AddConfig, InsertShard, DeleteShard, AdjustShardState, clerkVars, history
  <2>4. ASSUME NEW g \in Gid, NEW c \in Clerk, NEW st, Handle(c, g, st)
        PROVE  UNCHANGED <<value, op, effect, seen, got>>
    BY <2>4 DEF Handle, clerkVars, history
  <2>5. ASSUME NEW m \in pulls, NEW st, GetShards(m, st)
        PROVE  UNCHANGED <<value, op, effect, seen, got>>
    BY <2>5 DEF GetShards, clerkVars, history
  <2>6. ASSUME NEW c \in Clerk, NEW answer, Requery(c, answer)
        PROVE  UNCHANGED <<value, op, effect, seen, got>>
    BY <2>6 DEF Requery, clerkVars, history
  <2> QED
    BY <1>1, <1>2, <2>1, <2>2, <2>3, <2>4, <2>5, <2>6,
       RefinedCall, RefinedReceive, RefinedExecute
    DEF Next
<1>3. CASE UNCHANGED vars
  BY <1>1, <1>3 DEF vars
<1> QED BY <1>2, <1>3

\* Through every migration the groups together implement, for each shard, one
\* store in which a Put or Append takes effect exactly once between its call
\* and its return, and a Get returns a value its shard had in that time.
THEOREM GroupsLinearizable == Spec => Linearizable
<1>1. Init => \A s \in Shard : Store(s)!Init
  BY RefinedInit
<1>2. Inv /\ [Next]_vars =>
        [\A s \in Shard : UNCHANGED Store(s)!vars \/ Store(s)!Next]_vars
  BY RefinedNext
<1> QED BY <1>1, <1>2, InvHolds, PTL DEF Spec, Linearizable

=============================================================================
