------------------------------ MODULE MCKVRaft ------------------------------
(* Model checking instances of KVRaft. *)
EXTENDS KVRaft, TLC

\* Clerks are interchangeable.
Symmetry == Permutations(Clerk)

\* States that differ only in what no later step can read are the same state:
\* the buffers of channels nobody waits on, where an idle clerk was when it
\* called, and what earlier Gets returned.
View ==
    <<raftVars, applyVars, stateVars, waitChMap, handlers, calls, kills,
      [ch \in CallId |->
          IF \/ \E h \in CallId : handlers[h].ch = ch
             \/ \E i \in Server, k \in CallId : waitChMap[i][k] = ch
          THEN buffered[ch] ELSE <<>>],
      [c \in Clerk |-> <<RequestId[c], op[c], call[c],
          IF op[c] = Idle THEN 0 ELSE since[c],
          IF RequestId[c] = MaxRequests THEN 0 ELSE LeaderId[c]>>]>>
=============================================================================
