------------------------------- MODULE MCRaft -------------------------------
(* Model checking instances of Raft. *)
EXTENDS Raft, TLC

\* Servers are interchangeable: no action or property names one of them.
Symmetry == Permutations(Server)

\* States that differ only in what no later step can read are the same state:
\* the election counters of a server that is no candidate, the replication
\* indexes of one that is no leader, and the vote replies that the goroutine
\* waiting for them drops.  The history of votes is not read either.
View ==
    <<persistent, state, commitIndex,
      [i \in Server |-> IF state[i] = "Candidate"
                        THEN <<receivedVotes[i], calls[i]>> ELSE <<>>],
      [i \in Server |-> IF state[i] = "Leader"
                        THEN <<nextIndex[i], matchIndex[i]>> ELSE <<>>],
      spawned, bounds, elected, committed, rvReq, aeNet, isNet,
      {m \in rvRep : /\ currentTerm[m.to] = m.argsTerm
                     /\ state[m.to] = "Candidate"
                     /\ m.VoteGranted \/ m.Term > m.argsTerm}>>

-----------------------------------------------------------------------------
(* A later start: l was elected in term 1 by the servers of V, was given one *)
(* command and replicated it to the servers of H, but has not committed it   *)
(* yet; everything else that was sent was lost.                              *)

Entry(term, index, c) == [Term |-> term, Index |-> index, Command |-> c]

TermOne(l, V, H, c) ==
    LET held == [i \in Server |-> IF i \in H
                    THEN <<Sentinel(0, 0), Entry(1, 1, c)>>
                    ELSE <<Sentinel(0, 0)>>]
    IN /\ currentTerm = [i \in Server |-> IF i \in V THEN 1 ELSE 0]
       /\ voteFor = [i \in Server |-> IF i \in V THEN l ELSE None]
       /\ log = held
       /\ disk = [i \in Server |->
                    [currentTerm |-> IF i \in V THEN 1 ELSE 0,
                     voteFor |-> IF i \in V THEN l ELSE None,
                     log |-> held[i]]]
       /\ state = [i \in Server |-> IF i = l THEN "Leader" ELSE "Follower"]
       /\ commitIndex = [i \in Server |-> 0]
       /\ receivedVotes = [i \in Server |-> IF i = l THEN Cardinality(V) ELSE 0]
       /\ calls = [i \in Server |-> IF i = l THEN Server \ V ELSE {}]
       /\ nextIndex = [i \in Server |->
             [j \in Server |-> IF i = l /\ j \in H \ {l} THEN 2 ELSE 1]]
       /\ matchIndex = [i \in Server |->
             [j \in Server |-> IF i = l /\ j \in H \ {l} THEN 1 ELSE 0]]
       /\ spawned = [i \in Server |-> IF i = l THEN {1} ELSE {}]
       /\ rvReq = {} /\ rvRep = {} /\ aeReq = {} /\ aeRep = {}
       /\ isReq = {} /\ isRep = {}
       /\ elections = 1 /\ kills = 0 /\ elected = {<<1, l>>}
       /\ votes = {<<1, i, l>> : i \in V} /\ committed = {}

LaterInit ==
    \E l \in Server, V \in SUBSET Server, H \in SUBSET Server,
       c \in Command :
        /\ l \in V /\ l \in H /\ H \subseteq V
        /\ Cardinality(V) = Cardinality(Server) \div 2 + 1
        /\ TermOne(l, V, H, c)

LaterSpec == LaterInit /\ [][Next]_vars
=============================================================================
