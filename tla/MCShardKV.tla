----------------------------- MODULE MCShardKV ------------------------------
(* ShardKV for TLC: what the controller does with the shards. *)
EXTENDS ShardKV

\* Group 1 owns all shards, gives the even ones to group 2 and gets them back;
\* or the two groups exchange theirs, each waiting for what the other has.
ThereAndBack ==
    LET all(g) == [s \in Shard |-> g]
        even(g, h) == [s \in Shard |-> IF s % 2 = 0 THEN g ELSE h]
    IN {<<all(1), even(2, 1), all(1)>>,
        <<all(1), even(2, 1), even(2, 1), even(1, 2)>>}
=============================================================================
