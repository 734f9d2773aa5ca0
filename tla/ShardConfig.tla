---------------------------- MODULE ShardConfig -----------------------------
(***************************************************************************)
(* The configurations of src/shardctrler: what Join, Leave, Move and Query *)
(* compute when a replica of the shard controller executes them, and the   *)
(* algorithm that balances the shards.                                     *)
(*                                                                         *)
(* A group is told by its gid; the names of its servers are left out.      *)
(***************************************************************************)
EXTENDS Integers, Sequences, FiniteSets, SequencesExt

CONSTANTS
    NShards,  \* shards are 0 .. NShards-1
    Gid       \* the groups that may join

ASSUME ShardConfigAssumption ==
    NShards \in Nat \ {0} /\ Gid \subseteq Nat \ {0} /\ IsFiniteSet(Gid)

Shard == 0 .. (NShards - 1)
Config == [Num : Nat, Shards : [Shard -> Gid \cup {0}], Groups : SUBSET Gid]

\* The zero value of Config, which is also configuration 0.
NoConfig == [Num |-> 0, Shards |-> [s \in Shard |-> 0], Groups |-> {}]

-----------------------------------------------------------------------------
(* adjustShards *)

\* Mutant of Sorted: the gids stay in the order the map was iterated in.
SortedNot(order) == order

\* sort.Ints
Sorted(order) == SortSeq(order, LAMBDA g, h : g < h)

\* The scan over the gids of the map: gid 0 is the fullest as long as it has a
\* shard, and is never the emptiest.
findMaxAndMinGid(cnt, order) ==
    LET scan(r, gid) ==
          LET m == Len(cnt[gid])
              isMax == r.maxGid # 0 /\ \/ gid = 0 /\ m > 0
                                       \/ gid # 0 /\ m > r.mx
              isMin == gid # 0 /\ m < r.mn
          IN [maxGid |-> IF isMax THEN gid ELSE r.maxGid,
              mx |-> IF isMax THEN m ELSE r.mx,
              minGid |-> IF isMin THEN gid ELSE r.minGid,
              mn |-> IF isMin THEN m ELSE r.mn]
    IN FoldLeft(scan, [maxGid |-> -1, mx |-> -1, minGid |-> -1, mn |-> NShards + 1],
                Sorted(order))

\* Mutant of Unbalanced: a difference of two is left alone.
UnbalancedByTwo(r) == r.maxGid = 0 \/ r.mx - r.mn > 2

Unbalanced(r) == r.maxGid = 0 \/ r.mx - r.mn > 1

\* One shard after the other moves from the fullest to the emptiest group.
RECURSIVE move(_, _, _)
move(cnt, shards, order) ==
    LET r == findMaxAndMinGid(cnt, order)
        shard == Head(cnt[r.maxGid])
    IN IF ~Unbalanced(r) THEN shards
       ELSE move([cnt EXCEPT ![r.maxGid] = Tail(@), ![r.minGid] = Append(@, shard)],
                 [shards EXCEPT ![shard] = r.minGid], order)

\* The gids of cnt: the groups, and whatever the shards are assigned to.
CntGids(groups, shards) == groups \cup {shards[s] : s \in Shard}

\* Mutant of ShardsOf: every group starts empty, and all shards are dealt out.
ShardsOfNone(shards, g) == IF g = 0 THEN [n \in 1 .. NShards |-> n - 1] ELSE <<>>

\* The shards of a gid in cnt, in the order of the array.
ShardsOf(shards, g) ==
    SelectSeq([n \in 1 .. NShards |-> n - 1], LAMBDA s : shards[s] = g)

adjustShards(groups, shards, order) ==
    IF groups = {} THEN shards
    ELSE move([g \in CntGids(groups, shards) |-> ShardsOf(shards, g)], shards, order)

-----------------------------------------------------------------------------
(* The operations *)

\* The order in which Go iterates over a map is arbitrary.
Orders == [gids \in SUBSET (Gid \cup {0}) |-> SetToSeqs(gids)]
SomeOrder == [gids \in DOMAIN Orders |-> CHOOSE order \in Orders[gids] : TRUE]

\* What adjustShards makes of groups and shards: a table, which TLC computes
\* once (f @@ <<>> is f, evaluated for every argument).
Adjusted ==
    [groups \in SUBSET Gid |-> [shards \in [Shard -> Gid \cup {0}] |->
        adjustShards(groups, shards, SomeOrder[CntGids(groups, shards)])] @@ <<>>] @@ <<>>

\* The configuration after another one, with these groups, its shards adjusted.
NewConfig(config, groups, shards) ==
    [Num |-> config.Num + 1, Groups |-> groups, Shards |-> Adjusted[groups][shards]]

processJoin(config, gids) == NewConfig(config, config.Groups \cup gids, config.Shards)


\* The shards of groups that leave go back to gid 0.
Freed(shards, gids) == [s \in Shard |-> IF shards[s] \in gids THEN 0 ELSE shards[s]]

processLeave(config, gids) ==
    NewConfig(config, config.Groups \ gids, Freed(config.Shards, gids))

\* Mutant of processMove: the configuration keeps its number.
processMoveSameNum(config, shard, gid) == [config EXCEPT !.Shards[shard] = gid]

processMove(config, shard, gid) ==
    [config EXCEPT !.Num = @ + 1, !.Shards[shard] = gid]

\* -1 and numbers beyond the last one mean the newest configuration.
processQuery(configs, num) ==
    IF num = -1 \/ num >= Len(configs) THEN configs[Len(configs)]
    ELSE configs[num + 1]

-----------------------------------------------------------------------------
(* What adjustShards returns, for everything Join and Leave can give it *)

Load(shards, g) == Cardinality({s \in Shard : shards[s] = g})

\* Every shard has a group that is a member, and no two members differ by more
\* than one shard.
Even(groups, shards) ==
    /\ \A s \in Shard : shards[s] \in groups
    /\ \A g, h \in groups : Load(shards, g) <= Load(shards, h) + 1

Memberships == SUBSET Gid \ {{}}
EvenAssignments ==
    [groups \in Memberships |-> {shards \in [Shard -> groups] : Even(groups, shards)}]

\* Before Join and Leave have adjusted the shards: each belongs to a member,
\* whatever Moves were made, or to none (it was freed, or there was no group).
Assignments(groups) == [Shard -> groups \cup {0}]

SpreadsEvenly ==
    [groups \in Memberships |-> \A shards \in Assignments(groups) :
        Even(groups, Adjusted[groups][shards])] @@ <<>>

OrderIrrelevant ==
    [groups \in Memberships |-> \A shards \in Assignments(groups) :
        \A order \in Orders[CntGids(groups, shards)] :
            adjustShards(groups, shards, order) = Adjusted[groups][shards]] @@ <<>>

Moved(old, new) == Cardinality({s \in Shard : old[s] # new[s]})

NoneMovesFewer ==
    [groups \in Memberships |-> \A shards \in Assignments(groups) :
        LET moves == Moved(shards, Adjusted[groups][shards])
        IN \A other \in EvenAssignments[groups] : moves <= Moved(shards, other)] @@ <<>>
=============================================================================
