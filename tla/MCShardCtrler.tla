--------------------------- MODULE MCShardCtrler ----------------------------
(* ShardCtrler for TLC: what the clients ask for.  Query(1) asks for the     *)
(* newest configuration as long as there is only one.                         *)
EXTENDS ShardCtrler

Requests ==
    {[OpType |-> "Join", GIDs |-> {1}], [OpType |-> "Join", GIDs |-> {2, 3}],
     [OpType |-> "Leave", GIDs |-> {1}], [OpType |-> "Move", Shard |-> 0, GID |-> 2],
     [OpType |-> "Query", Num |-> 1]}
=============================================================================
