--------------------------- MODULE RaftInvariants ----------------------------
(***************************************************************************)
(* The invariants that the proofs of RaftProofs carry from step to step:   *)
(* IndexInv, about logs and what refers to them, and ElectionInv, about    *)
(* votes and leaders.                                                      *)
(***************************************************************************)
EXTENDS Raft

\* The Index fields of l count up from its sentinel's.
Contiguous(l) == \A k \in 1 .. Len(l) : l[k].Index = getFirstIndex(l) + k - 1

\* The entries es are the ones at prev + 1, prev + 2, ...
Follows(es, prev) == \A n \in 1 .. Len(es) : es[n].Index = prev + n

-----------------------------------------------------------------------------
(* The inductive invariant of logs and indexes *)

\* Every log is consecutive, is what its server's Persister holds, and starts
\* at or below commitIndex.
LogsSound ==
    \A i \in Server :
        /\ Contiguous(log[i])
        /\ disk[i] = encodeState(i)
        /\ getFirstIndex(log[i]) <= commitIndex[i]

RequestsFollow == \A m \in aeReq : Follows(m.Entries, m.PrevLogIndex)

\* Server i may have led in term t, and is not trying to be elected in it.
LedBefore(i, t) ==
    t <= currentTerm[i] /\ (state[i] = "Candidate" => t < currentTerm[i])

\* No message or goroutine speaks for a term its leader has not led.
TermsPast ==
    /\ \A i \in Server : \A t \in spawned[i] : LedBefore(i, t)
    /\ \A m \in aeReq \cup isReq : LedBefore(m.LeaderId, m.Term)
    /\ \A m \in aeRep \cup isRep : LedBefore(m.to, m.argsTerm)

\* What a leader has recorded, and what was sent in its term, lies in its log.
LeaderInRange(i) ==
    /\ \A j \in Server : /\ nextIndex[i][j] >= 1
                         /\ nextIndex[i][j] <= getNextIndex(log[i])
                         /\ matchIndex[i][j] <= getLastIndex(log[i])
    /\ \A m \in aeReq : (m.LeaderId = i /\ m.Term = currentTerm[i]) =>
            m.PrevLogIndex + Len(m.Entries) <= getLastIndex(log[i])
    /\ \A m \in aeRep : (m.to = i /\ m.argsTerm = currentTerm[i]) =>
            /\ m.lastSent <= getLastIndex(log[i])
            /\ m.PrevLogIndex <= m.lastSent /\ m.ConflictIndex <= m.lastSent
    /\ \A m \in isReq : (m.LeaderId = i /\ m.Term = currentTerm[i]) =>
            m.LastIncludedIndex <= getLastIndex(log[i])
    /\ \A m \in isRep : (m.to = i /\ m.argsTerm = currentTerm[i]) =>
            m.LastIncludedIndex <= getLastIndex(log[i])

LeadersInRange == \A i \in Server : state[i] = "Leader" => LeaderInRange(i)

IndexInv == TypeOK /\ LogsSound /\ RequestsFollow /\ TermsPast /\ LeadersInRange

-----------------------------------------------------------------------------
(* The inductive invariant of elections *)

\* A vote is remembered by its voter (in memory and, by LogsSound, on disk)
\* until the voter moves on to a larger term.
VotesAreFinal ==
    \A v \in votes :
        /\ v[1] <= currentTerm[v[2]]
        /\ v[1] = currentTerm[v[2]] => voteFor[v[2]] = v[3]

VotedOnce ==
    \A v, w \in votes : (v[1] = w[1] /\ v[2] = w[2]) => v[3] = w[3]

RepliesAreVotes ==
    \A m \in rvRep : m.VoteGranted => <<m.argsTerm, m.from, m.to>> \in votes

\* Q voted for i in term t.
VotedFor(Q, t, i) == \A j \in Q : <<t, j, i>> \in votes

\* A candidate's counter counts votes of its current term, of different
\* servers whose call has returned.
CountIsVotes ==
    \A i \in Server : state[i] = "Candidate" =>
        \E Q \in SUBSET (Server \ calls[i]) :
            Cardinality(Q) = receivedVotes[i] /\ VotedFor(Q, currentTerm[i], i)

ElectedByMajority ==
    \A e \in elected : \E Q \in SUBSET Server :
        IsMajority(Cardinality(Q)) /\ VotedFor(Q, e[1], e[2])

\* Whoever leads, or sends as a leader, was elected; nobody sends to itself.
LeadersAreElected ==
    /\ \A i \in Server : state[i] = "Leader" => <<currentTerm[i], i>> \in elected
    /\ \A i \in Server : \A t \in spawned[i] : <<t, i>> \in elected
    /\ \A m \in aeReq \cup isReq :
          <<m.Term, m.LeaderId>> \in elected /\ m.to # m.LeaderId

ElectionInv ==
    /\ VotesAreFinal /\ VotedOnce /\ RepliesAreVotes /\ CountIsVotes
    /\ ElectedByMajority /\ LeadersAreElected

-----------------------------------------------------------------------------
(* Kinds of steps *)

\* Nobody votes and nobody is elected; terms grow, and a server forgets its
\* vote only with its term; leaders and candidates may resign.
Quiet ==
    /\ UNCHANGED <<votes, elected>>
    /\ \A m \in rvRep' : m \in rvRep \/ ~m.VoteGranted
    /\ \A k \in Server :
          /\ \/ currentTerm'[k] > currentTerm[k]
             \/ currentTerm'[k] = currentTerm[k] /\ voteFor'[k] = voteFor[k]
          /\ state'[k] = "Candidate" =>
                /\ state[k] = "Candidate" /\ currentTerm'[k] = currentTerm[k]
                /\ calls'[k] = calls[k] /\ receivedVotes'[k] = receivedVotes[k]
          /\ state'[k] = "Leader" =>
                state[k] = "Leader" /\ currentTerm'[k] = currentTerm[k]
          /\ \A t \in spawned'[k] :
                t \in spawned[k] \/ (state[k] = "Leader" /\ t = currentTerm[k])
    /\ \A m \in aeReq' \cup isReq' :
          \/ m \in aeReq \cup isReq
          \/ m.Term \in spawned[m.LeaderId] /\ m.to # m.LeaderId /\ m.LeaderId \in Server

\* No leader resigns in its own term.
LeaderStays ==
    \A i \in Server :
        (state[i] = "Leader" /\ state'[i] \notin {"Leader", "Dead"})
            => currentTerm'[i] > currentTerm[i]
==============================================================================
