------------------------- MODULE ShardKVInvariants ---------------------------
(***************************************************************************)
(* The invariants that the proofs about ShardKV carry from step to step:   *)
(* TypeInv, about types; MigrationInv, about who has a shard and its value *)
(* while configurations follow one another; and ClerkInv, about which      *)
(* writes were executed.                                                   *)
(***************************************************************************)
EXTENDS ShardKV

-----------------------------------------------------------------------------
(* Types *)

Requests == 0 .. (MaxRequests - 1)
LastRequests == [Clerk -> -1 .. (MaxRequests - 1)]
ClerkCommand == [clerk : Clerk, op : Operation]
Pull == [from : Gid, to : Gid, ConfigNum : Nat, ShardIds : SUBSET Shard]
Delete == [from : Gid, ConfigNum : Nat, ShardIds : SUBSET Shard]
Adjust == [ConfigNum : Nat, ShardIds : SUBSET Shard]

IsInsert(m) ==
    /\ m.ConfigNum \in Nat /\ m.LastRequestMap \in LastRequests
    /\ DOMAIN m.Shards \subseteq Shard
    /\ \A s \in DOMAIN m.Shards : m.Shards[s] \in Value

TypeInv ==
    /\ configs \in Seq(Config) /\ kv \in [Gid -> Group] /\ behind \in [Gid -> Group]
    /\ pulls \subseteq Pull
    /\ adding \in [Gid -> SUBSET Config] /\ deleting \in [Gid -> SUBSET Delete]
    /\ adjusting \in [Gid -> SUBSET Adjust] /\ ops \in [Gid -> SUBSET ClerkCommand]
    /\ DOMAIN inserting = Gid /\ \A g \in Gid : \A m \in inserting[g] : IsInsert(m)
    /\ op \in [Clerk -> Operation \cup {Idle}]
    /\ RequestId \in [Clerk -> 0 .. MaxRequests] /\ config \in [Clerk -> Config]
    /\ replies \in [Clerk -> SUBSET Value]
    /\ value \in [Shard -> Value] /\ got \in [Clerk -> [Shard -> Value]]
    /\ effect \in [Clerk -> BOOLEAN] /\ seen \in [Clerk -> SUBSET Value]
    /\ \A c \in Clerk :
         /\ op[c] # Idle => op[c].RequestId = RequestId[c]
         /\ op[c] = Idle => replies[c] = {}

-----------------------------------------------------------------------------
(* Who has a shard *)

\* The version of the configuration group g has reached.
Num(g) == kv[g].currentConfig.Num

\* The versions after the empty one.
Version == 1 .. (Len(configs) - 1)

Owner(n, s) == configs[n + 1].Shards[s]

\* The owner of shard s in version n has got it.
Acquired(n, s) ==
    \/ Num(Owner(n, s)) > n
    \/ Num(Owner(n, s)) = n /\ kv[Owner(n, s)].shards[s].State # "Pulling"

\* Versions count up, and each assigns every shard.
ConfigsSound ==
    /\ Len(configs) >= 1 /\ configs[1] = NoConfig
    /\ \A n \in Version : configs[n + 1].Num = n /\ configs[n + 1].Shards \in [Shard -> Gid]

\* A replica's two configurations are successive ones of the controller's, and
\* tell which states its shards can be in.  A shard it has not got is empty.
FollowsConfigs(st, g) ==
    LET n == st.currentConfig.Num
    IN /\ n < Len(configs) /\ st.currentConfig = configs[n + 1]
       /\ st.lastConfig = IF n = 0 THEN NoConfig ELSE configs[n]
       /\ \A s \in Shard :
            /\ st.shards[s].State \in {"Pulling", "GCing"} =>
                 n > 1 /\ Owner(n, s) = g /\ Owner(n - 1, s) # g
            /\ st.shards[s].State = "BePulling" =>
                 n > 1 /\ Owner(n, s) # g /\ Owner(n - 1, s) = g
            /\ st.shards[s].State = "Pulling" => st.shards[s].db = <<>>
            /\ (st.shards[s].State = "Serving" /\ st.currentConfig.Shards[s] # g) =>
                 st.shards[s].db = <<>>

ReplicasFollow ==
    \A g \in Gid : /\ FollowsConfigs(kv[g], g) /\ FollowsConfigs(behind[g], g)
                   /\ behind[g].currentConfig.Num <= Num(g)

\* The next configuration was only started by a group with nothing on its way.
AddingSound ==
    \A g \in Gid : \A new \in adding[g] :
        /\ new.Num \in Version /\ new = configs[new.Num + 1]
        /\ new.Num <= Num(g) + 1
        /\ new.Num = Num(g) + 1 => Stable(kv[g])

\* What was asked of an old owner, what it answered, and what the new owner
\* wants deleted or has been told is deleted.
PullsSound ==
    \A m \in pulls : /\ m.ConfigNum \in Version /\ m.ConfigNum > 1
                     /\ \A s \in m.ShardIds : /\ Owner(m.ConfigNum, s) = m.from
                                              /\ Owner(m.ConfigNum - 1, s) = m.to

InsertingSound ==
    \A g \in Gid : \A m \in inserting[g] :
        /\ m.ConfigNum \in Version /\ m.ConfigNum > 1
        /\ \A s \in DOMAIN m.Shards :
             /\ Owner(m.ConfigNum, s) = g
             /\ Num(Owner(m.ConfigNum - 1, s)) >= m.ConfigNum

DeletingSound ==
    \A g \in Gid : \A m \in deleting[g] :
        /\ m.ConfigNum \in Version
        /\ \A s \in m.ShardIds : Owner(m.ConfigNum, s) = m.from /\ Acquired(m.ConfigNum, s)

AdjustingSound ==
    \A g \in Gid : \A m \in adjusting[g] :
        /\ m.ConfigNum \in Version
        /\ \A s \in m.ShardIds : Owner(m.ConfigNum, s) = g /\ Acquired(m.ConfigNum, s)

\* A shard is passed on along its owners: when one has got it, all owners before
\* are past the versions in which they owned it.
PassedOn ==
    \A s \in Shard : \A n \in Version : \A k \in 1 .. (n - 1) :
        Acquired(n, s) => Num(Owner(k, s)) > k

\* An old owner is through with a shard only when the new owner has got it.
KeptForNext ==
    \A s \in Shard : \A n \in Version :
        LET h == Owner(n - 1, s)
        IN (n > 1 /\ h # Owner(n, s) /\
            (Num(h) > n \/ (Num(h) = n /\ kv[h].shards[s].State # "BePulling")))
              => Acquired(n, s)

-----------------------------------------------------------------------------
(* Where its value is *)

NothingWritten ==
    \A s \in Shard : value[s] # <<>> => Len(configs) > 1 /\ Acquired(1, s)

\* Until the new owner has got a shard, what the old one offers is its value.
OfferedIsValue ==
    \A g \in Gid : \A st \in {kv[g], behind[g]} : \A s \in Shard :
        (st.shards[s].State = "BePulling" /\ ~Acquired(st.currentConfig.Num, s)) =>
            st.shards[s].db = value[s]

InsertedIsValue ==
    \A g \in Gid : \A m \in inserting[g] : \A s \in DOMAIN m.Shards :
        ~Acquired(m.ConfigNum, s) => m.Shards[s] = value[s]

Structure ==
    /\ ConfigsSound /\ ReplicasFollow
    /\ AddingSound /\ PullsSound /\ InsertingSound /\ DeletingSound /\ AdjustingSound
    /\ PassedOn /\ KeptForNext

Values == NothingWritten /\ ServesTheValue /\ OfferedIsValue /\ InsertedIsValue

MigrationInv == TypeInv /\ Structure /\ Values

-----------------------------------------------------------------------------
(* Which writes were executed *)

IsWrite(o) == o.OpType \in {"Put", "Append"}

\* The last request of clerk c in a map is one it has finished, or the one it
\* is in, which then was executed.
MapSound(map, c) ==
    \/ map[c] < RequestId[c]
    \/ /\ map[c] = RequestId[c] /\ op[c] # Idle
       /\ op[c].OpType = "Get" \/ effect[c]

MapsSound ==
    \A c \in Clerk : \A g \in Gid :
        /\ MapSound(kv[g].LastRequestMap, c) /\ MapSound(behind[g].LastRequestMap, c)
        /\ \A m \in inserting[g] : MapSound(m.LastRequestMap, c)

\* Wherever shard s is, the map that goes with it has request r of clerk c.
Known(s, c, r) ==
    /\ Len(configs) > 1 /\ Acquired(1, s)
    /\ \A g \in Gid : checkShardAndState(kv[g], g, s) => kv[g].LastRequestMap[c] >= r
    /\ \A g \in Gid : \A st \in {kv[g], behind[g]} :
         (st.shards[s].State = "BePulling" /\ ~Acquired(st.currentConfig.Num, s)) =>
            st.LastRequestMap[c] >= r
    /\ \A g \in Gid : \A m \in inserting[g] :
         (s \in DOMAIN m.Shards /\ ~Acquired(m.ConfigNum, s)) => m.LastRequestMap[c] >= r

\* A write that was executed is known where its shard is.
WritesKnown ==
    /\ \A c \in Clerk : effect[c] =>
         IsWrite(op[c]) /\ Known(op[c].Shard, c, op[c].RequestId)
    /\ \A g \in Gid : \A m \in ops[g] :
         (IsWrite(m.op) /\ m.op.RequestId < RequestId[m.clerk]) =>
            Known(m.op.Shard, m.clerk, m.op.RequestId)

\* A command is one of an operation its clerk has finished, or of the one it
\* is in.
CommandsSound ==
    \A g \in Gid : \A m \in ops[g] :
        \/ m.op.RequestId < RequestId[m.clerk]
        \/ m.op = op[m.clerk]

\* A clerk that has a reply can return it.
RepliesSound ==
    \A c \in Clerk :
        /\ (replies[c] # {} /\ op[c].OpType # "Get") => effect[c]
        /\ op[c].OpType = "Get" => replies[c] \subseteq seen[c]
        /\ op[c] # Idle => value[op[c].Shard] \in seen[c]
        /\ op[c] = Idle => seen[c] = {}

ClerkInv == MapsSound /\ WritesKnown /\ CommandsSound /\ RepliesSound

Inv == MigrationInv /\ ClerkInv
=============================================================================
