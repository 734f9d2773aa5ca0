----------------------------- MODULE RaftProofs -----------------------------
(***************************************************************************)
(* Raft is type correct and its leaders never leave the bounds of their    *)
(* logs; at most one server is elected in a term, and a leader keeps its   *)
(* term until it sees a larger one: for any number of servers, elections,  *)
(* crashes and restarts, any bounds, and any lost or late message. First   *)
(* ElectionInv, kept by the steps that touch no vote (the quiet ones) and  *)
(* by those of an election; then the shape of a log, and IndexInv.         *)
(***************************************************************************)
EXTENDS RaftInvariants, TLAPS, FiniteSetTheorems, WellFoundedInduction

\* The back ends a leaf that names none is given to, in this order.
USE ZenonT(10), SMTT(10), ZenonT(30), SMTT(30)

-----------------------------------------------------------------------------
(* Numbers *)

LEMMA SelfAndNext == \A n \in Nat : n <= n /\ n >= n /\ n + 1 \in Nat /\ n + 1 >= n
  BY SMT

LEMMA NextAtMost == \A n, m \in Nat : n <= m => n + 1 \in Nat /\ n + 1 >= 1 /\ n + 1 <= m + 1
  BY SMT

LEMMA AboveFirst == \A f, l \in Nat : \A n \in Nat : n > f /\ n <= l => n \in (f + 1) .. l
  BY SMT

\* The term a server has after it has seen another.
LEMMA LargerTerm ==
    \A a, b \in Nat : /\ Max2(a, b) \in Nat /\ Max2(a, b) >= a
                      /\ (b > a => Max2(a, b) > a) /\ (~(b > a) => Max2(a, b) = a)
  BY SMT DEF Max2

\* What handleAppendEntriesRPCResponse commits lies in the log.
LEMMA CommittedRange ==
    \A first, commit, last \in Nat : \A new, k :
        /\ first <= commit /\ (new = commit \/ new \in (commit + 1) .. last)
        /\ k \in (commit + 1) .. new
        => k \in first .. last
  BY SMT

\* The same of what the follower commits in AppendEntries: as much of
\* leaderCommit as its log has.
LEMMA AcceptedRange ==
    \A first, commit, last, leaderCommit \in Nat : \A new :
        /\ first <= commit /\ first <= last
        /\ new = commit \/ (leaderCommit > commit /\ new = Min2(last, leaderCommit))
        => /\ new \in Nat /\ first <= new
           /\ \A k \in (commit + 1) .. new : k \in first .. last
  BY SMT DEF Min2

-----------------------------------------------------------------------------
(* Which steps keep ElectionInv *)

LEMMA ElectionInit == Init => ElectionInv
BY DEF Init, ElectionInv, VotesAreFinal, VotedOnce, RepliesAreVotes, CountIsVotes,
       ElectedByMajority, LeadersAreElected

\* Two servers elected in one term share a voter, who voted once.
LEMMA ElectionIsSafe ==
    ASSUME TypeOK, ElectionInv
    PROVE  ElectionSafety
<1> SUFFICES ASSUME NEW e \in elected, NEW f \in elected, e[1] = f[1]
             PROVE  e[2] = f[2]
  BY DEF ElectionSafety
<1>1. PICK Q \in SUBSET Server :
           IsMajority(Cardinality(Q)) /\ VotedFor(Q, e[1], e[2])
  BY DEF ElectionInv, ElectedByMajority
<1>2. PICK R \in SUBSET Server :
           IsMajority(Cardinality(R)) /\ VotedFor(R, f[1], f[2])
  BY DEF ElectionInv, ElectedByMajority
<1>3. IsFiniteSet(Server) /\ Cardinality(Server) \in Nat
  BY ServerAssumption, FS_CardinalityType
<1>4. Cardinality(Q) \in Nat /\ Cardinality(R) \in Nat
  BY <1>3, FS_Subset, FS_CardinalityType
<1>5. Cardinality(Q) + Cardinality(R) > Cardinality(Server)
  BY SMTT(10), <1>1, <1>2, <1>3, <1>4 DEF IsMajority
<1>6. PICK j \in Server : j \in Q /\ j \in R
  <2>1. Q \cap R # {}
    BY <1>3, <1>5, FS_MajoritiesIntersect
  <2> QED BY <2>1
<1>7. <<e[1], j, e[2]>> \in votes /\ <<f[1], j, f[2]>> \in votes
  BY <1>1, <1>2, <1>6 DEF VotedFor
<1> DEFINE v == <<e[1], j, e[2]>>
           w == <<f[1], j, f[2]>>
<1>8. v \in votes /\ w \in votes /\ v[1] = w[1] /\ v[2] = w[2]
      /\ v[3] = e[2] /\ w[3] = f[2]
  BY <1>7
<1> HIDE DEF v, w
<1>9. v[3] = w[3]
  BY <1>8 DEF ElectionInv, VotedOnce
<1> QED BY <1>8, <1>9

-----------------------------------------------------------------------------
(* Steps without votes *)

LEMMA ElectionQuiet ==
    ASSUME TypeOK, TypeOK', ElectionInv, Quiet
    PROVE  ElectionInv'
<1>1. VotesAreFinal'
  <2> SUFFICES ASSUME NEW v \in votes
               PROVE  /\ v[1] <= currentTerm'[v[2]]
                      /\ v[1] = currentTerm'[v[2]] => voteFor'[v[2]] = v[3]
    BY DEF VotesAreFinal, Quiet
  <2>1. /\ v[1] \in Nat /\ v[2] \in Server
        /\ currentTerm[v[2]] \in Nat /\ currentTerm'[v[2]] \in Nat
    BY DEF TypeOK
  <2>2. /\ v[1] <= currentTerm[v[2]]
        /\ v[1] = currentTerm[v[2]] => voteFor[v[2]] = v[3]
    BY DEF ElectionInv, VotesAreFinal
  <2>3. \/ currentTerm'[v[2]] > currentTerm[v[2]]
        \/ currentTerm'[v[2]] = currentTerm[v[2]] /\ voteFor'[v[2]] = voteFor[v[2]]
    BY <2>1 DEF Quiet
  <2> QED BY SMTT(10), <2>1, <2>2, <2>3
<1>2. VotedOnce'
  BY DEF ElectionInv, VotedOnce, Quiet
<1>3. RepliesAreVotes'
  BY DEF ElectionInv, RepliesAreVotes, Quiet
<1>4. \A Q, t, i : VotedFor(Q, t, i)' = VotedFor(Q, t, i)
  BY DEF VotedFor, Quiet
<1>5. CountIsVotes'
  <2> SUFFICES ASSUME NEW i \in Server, state'[i] = "Candidate"
               PROVE  \E Q \in SUBSET (Server \ calls'[i]) :
                         /\ Cardinality(Q) = receivedVotes'[i]
                         /\ \A j \in Q : <<currentTerm'[i], j, i>> \in votes'
    BY DEF CountIsVotes, VotedFor
  <2>1. /\ state[i] = "Candidate" /\ currentTerm'[i] = currentTerm[i]
        /\ calls'[i] = calls[i] /\ receivedVotes'[i] = receivedVotes[i]
        /\ votes' = votes
    BY DEF Quiet
  <2> QED BY <2>1 DEF ElectionInv, CountIsVotes, VotedFor
<1>6. ElectedByMajority'
  BY <1>4 DEF ElectionInv, ElectedByMajority, Quiet
<1>7. LeadersAreElected'
  BY DEF ElectionInv, LeadersAreElected, Quiet
<1> QED BY <1>1, <1>2, <1>3, <1>5, <1>6, <1>7 DEF ElectionInv

-----------------------------------------------------------------------------
(* Steps with votes *)

\* One more vote keeps what the old votes establish.
LEMMA VoteAdded ==
    ASSUME TypeOK, ElectionInv, NEW t \in Nat, NEW j \in Server, NEW c \in Server,
           votes' = votes \cup {<<t, j, c>>}, UNCHANGED elected,
           t >= currentTerm[j], t = currentTerm[j] => voteFor[j] \in {None, c},
           currentTerm' = [currentTerm EXCEPT ![j] = t],
           voteFor' = [voteFor EXCEPT ![j] = c]
    PROVE  VotesAreFinal' /\ VotedOnce' /\ ElectedByMajority'
<1> DEFINE new == <<t, j, c>>
<1>1. new[1] = t /\ new[2] = j /\ new[3] = c /\ votes' = votes \cup {new}
  OBVIOUS
<1> HIDE DEF new
<1>2. currentTerm'[j] = t /\ voteFor'[j] = c /\ currentTerm[j] \in Nat
      /\ \A k \in Server \ {j} :
            currentTerm'[k] = currentTerm[k] /\ voteFor'[k] = voteFor[k]
  BY DEF TypeOK
<1>3. ASSUME NEW v \in votes
      PROVE  /\ v[1] \in Nat /\ v[2] \in Server /\ v[3] \in Server /\ v[3] # None
             /\ currentTerm[v[2]] \in Nat
             /\ v[1] <= currentTerm[v[2]]
             /\ v[1] = currentTerm[v[2]] => voteFor[v[2]] = v[3]
  <2>1. v[1] \in Nat /\ v[2] \in Server /\ v[3] \in Server
    BY DEF TypeOK
  <2> QED BY <2>1, ServerAssumption DEF TypeOK, ElectionInv, VotesAreFinal
<1>4. ASSUME NEW v \in votes, v[2] = j, v[1] = t
      PROVE  v[3] = c
  <2>1. t <= currentTerm[j]
    BY <1>3, <1>4
  <2>2. t = currentTerm[j]
    BY SMTT(10), <1>2, <2>1
  <2> QED BY <1>3, <1>4, <2>2
<1>5. VotesAreFinal'
  <2> SUFFICES ASSUME NEW v \in votes'
               PROVE  /\ v[1] <= currentTerm'[v[2]]
                      /\ v[1] = currentTerm'[v[2]] => voteFor'[v[2]] = v[3]
    BY DEF VotesAreFinal
  <2>1. CASE v = new
    BY SMTT(10), <1>1, <1>2, <2>1
  <2>2. CASE v \in votes /\ v[2] = j
    <3>1. v[1] <= currentTerm[j] /\ v[1] \in Nat
      BY <1>3, <2>2
    <3>2. v[1] <= t
      BY SMTT(10), <1>2, <3>1
    <3> QED BY ZenonT(30), <1>2, <1>4, <2>2, <3>2
  <2>3. CASE v \in votes /\ v[2] # j
    BY <1>2, <1>3, <2>3
  <2> QED BY <1>1, <2>1, <2>2, <2>3
<1>6. VotedOnce'
  <2> SUFFICES ASSUME NEW v \in votes', NEW w \in votes', v[1] = w[1], v[2] = w[2]
               PROVE  v[3] = w[3]
    BY DEF VotedOnce
  <2>1. CASE v \in votes /\ w \in votes
    BY <2>1 DEF ElectionInv, VotedOnce
  <2>2. CASE v = new \/ w = new
    BY SMTT(10), <1>1, <1>4, <2>2
  <2> QED BY <1>1, <2>1, <2>2
<1>7. ElectedByMajority'
  <2> SUFFICES ASSUME NEW e \in elected
               PROVE  \E Q \in SUBSET Server :
                         IsMajority(Cardinality(Q))
                         /\ \A k \in Q : <<e[1], k, e[2]>> \in votes'
    BY DEF ElectedByMajority, VotedFor, IsMajority
  <2>1. PICK Q \in SUBSET Server :
             IsMajority(Cardinality(Q)) /\ \A k \in Q : <<e[1], k, e[2]>> \in votes
    BY DEF ElectionInv, ElectedByMajority, VotedFor
  <2> QED BY <2>1
<1> QED BY <1>5, <1>6, <1>7

LEMMA ElectionStart ==
    ASSUME TypeOK, ElectionInv, NEW i \in Server, startElection(i)
    PROVE  ElectionInv'
<1> DEFINE t == currentTerm[i] + 1
<1>1. /\ votes' = votes \cup {<<t, i, i>>}
      /\ currentTerm' = [currentTerm EXCEPT ![i] = t]
      /\ voteFor' = [voteFor EXCEPT ![i] = i]
      /\ state' = [state EXCEPT ![i] = "Candidate"]
      /\ receivedVotes' = [receivedVotes EXCEPT ![i] = 1]
      /\ calls' = [calls EXCEPT ![i] = Server \ {i}]
      /\ UNCHANGED <<elected, rvRep, aeReq, isReq, spawned>>
  BY DEF startElection, aeNet, isNet
<1>2. t \in Nat /\ t > currentTerm[i] /\ t >= currentTerm[i] /\ t # currentTerm[i]
  BY SMTT(10) DEF TypeOK
<1> HIDE DEF t
<1>3. VotesAreFinal' /\ VotedOnce' /\ ElectedByMajority'
  BY Zenon, <1>1, <1>2, VoteAdded
<1>4. RepliesAreVotes'
  BY <1>1 DEF ElectionInv, RepliesAreVotes
<1>5. CountIsVotes'
  <2> SUFFICES ASSUME NEW k \in Server, state'[k] = "Candidate"
               PROVE  \E Q \in SUBSET (Server \ calls'[k]) :
                         /\ Cardinality(Q) = receivedVotes'[k]
                         /\ \A j \in Q : <<currentTerm'[k], j, k>> \in votes'
    BY DEF CountIsVotes, VotedFor
  <2>1. CASE k = i
    <3>1. /\ currentTerm'[i] = t /\ calls'[i] = Server \ {i} /\ receivedVotes'[i] = 1
      BY <1>1 DEF TypeOK
    <3>2. Cardinality({i}) = 1
      BY Zenon, FS_Singleton
    <3>3. {i} \in SUBSET (Server \ calls'[i])
      BY <3>1
    <3>4. \A j \in {i} : <<currentTerm'[i], j, i>> \in votes'
      BY SMTT(10), <1>1, <3>1
    <3> QED BY ZenonT(30), <2>1, <3>1, <3>2, <3>3, <3>4
  <2>2. CASE k # i
    <3>1. /\ state[k] = "Candidate" /\ calls'[k] = calls[k]
          /\ receivedVotes'[k] = receivedVotes[k] /\ currentTerm'[k] = currentTerm[k]
      BY <1>1, <2>2 DEF TypeOK
    <3>2. PICK Q \in SUBSET (Server \ calls[k]) :
               /\ Cardinality(Q) = receivedVotes[k]
               /\ \A j \in Q : <<currentTerm[k], j, k>> \in votes
      BY <3>1 DEF ElectionInv, CountIsVotes, VotedFor
    <3> QED BY SMTT(10), <1>1, <3>1, <3>2
  <2> QED BY <2>1, <2>2
<1>6. LeadersAreElected'
  <2>1. \A k \in Server : state'[k] = "Leader" =>
           state[k] = "Leader" /\ currentTerm'[k] = currentTerm[k]
    BY <1>1 DEF TypeOK
  <2> QED BY SMTT(10), <1>1, <2>1 DEF ElectionInv, LeadersAreElected
<1> QED BY ZenonT(30), <1>3, <1>4, <1>5, <1>6 DEF ElectionInv

LEMMA ElectionRequestVote ==
    ASSUME TypeOK, TypeOK', ElectionInv, NEW j \in Server, NEW m \in rvReq,
           RequestVote(j, m)
    PROVE  ElectionInv'
<1> DEFINE t == TermSeen(j, m.Term)
           r == [Term |-> t, VoteGranted |-> GrantsVote(j, m),
                 argsTerm |-> m.Term, from |-> j, to |-> m.CandidateId]
<1>1. /\ currentTerm' = [currentTerm EXCEPT ![j] = t]
      /\ state' = [state EXCEPT ![j] =
                     IF m.Term > currentTerm[j] THEN "Follower" ELSE state[j]]
      /\ voteFor' = [voteFor EXCEPT ![j] =
                       IF GrantsVote(j, m) THEN m.CandidateId ELSE VoteSeen(j, m.Term)]
      /\ rvRep' = rvRep \cup {r}
      /\ votes' = IF GrantsVote(j, m)
                  THEN votes \cup {<<m.Term, j, m.CandidateId>>} ELSE votes
      /\ UNCHANGED <<elected, receivedVotes, calls, aeReq, isReq, spawned>>
  BY DEF RequestVote, candidateVars, aeNet, isNet
<1>2. m.Term \in Nat /\ m.CandidateId \in Server /\ currentTerm[j] \in Nat
  BY DEF TypeOK, RequestVoteArgs
<1>3. /\ t >= currentTerm[j] /\ t \in Nat
      /\ t = IF m.Term > currentTerm[j] THEN m.Term ELSE currentTerm[j]
  BY SMTT(10), <1>2 DEF TermSeen, Max2
<1>4. /\ GrantsVote(j, m) => t = m.Term /\ VoteSeen(j, m.Term) \in {None, m.CandidateId}
      /\ VoteSeen(j, m.Term) = IF m.Term > currentTerm[j] THEN None ELSE voteFor[j]
  BY DEF GrantsVote, VoteSeen
<1>5. /\ r.VoteGranted = GrantsVote(j, m) /\ r.argsTerm = m.Term
      /\ r.from = j /\ r.to = m.CandidateId
  OBVIOUS
<1> HIDE DEF t, r
<1>6. \A k \in Server :
         /\ state'[k] \in {"Candidate", "Leader"} =>
              state'[k] = state[k] /\ currentTerm'[k] = currentTerm[k]
         /\ k # j => currentTerm'[k] = currentTerm[k] /\ voteFor'[k] = voteFor[k]
  BY ZenonT(30), <1>1, <1>2, <1>3 DEF TypeOK
<1>7. CASE GrantsVote(j, m)
  <2>1. /\ votes' = votes \cup {<<m.Term, j, m.CandidateId>>}
        /\ currentTerm' = [currentTerm EXCEPT ![j] = m.Term]
        /\ voteFor' = [voteFor EXCEPT ![j] = m.CandidateId]
    BY Zenon, <1>1, <1>4, <1>7
  <2>2. /\ m.Term >= currentTerm[j]
        /\ m.Term = currentTerm[j] => voteFor[j] \in {None, m.CandidateId}
    BY SMTT(10), SMTT(30), <1>2, <1>3, <1>4, <1>7
  <2>3. VotesAreFinal' /\ VotedOnce' /\ ElectedByMajority'
    BY Zenon, <1>1, <1>2, <2>1, <2>2, VoteAdded
  <2>4. RepliesAreVotes'
    <3> SUFFICES ASSUME NEW q \in rvRep', q.VoteGranted
                 PROVE  <<q.argsTerm, q.from, q.to>> \in votes'
      BY DEF RepliesAreVotes
    <3>1. CASE q \in rvRep
      BY <2>1, <3>1 DEF ElectionInv, RepliesAreVotes
    <3>2. CASE q = r
      BY <1>5, <2>1, <3>2
    <3> QED BY <1>1, <3>1, <3>2
  <2>5. CountIsVotes'
    <3> SUFFICES ASSUME NEW k \in Server, state'[k] = "Candidate"
                 PROVE  \E Q \in SUBSET (Server \ calls'[k]) :
                           /\ Cardinality(Q) = receivedVotes'[k]
                           /\ \A i \in Q : <<currentTerm'[k], i, k>> \in votes'
      BY DEF CountIsVotes, VotedFor
    <3>1. state[k] = "Candidate" /\ currentTerm'[k] = currentTerm[k]
      BY <1>6
    <3>2. PICK Q \in SUBSET (Server \ calls[k]) :
               /\ Cardinality(Q) = receivedVotes[k]
               /\ \A i \in Q : <<currentTerm[k], i, k>> \in votes
      BY <3>1 DEF ElectionInv, CountIsVotes, VotedFor
    <3> QED BY ZenonT(30), <1>1, <2>1, <3>1, <3>2
  <2>6. LeadersAreElected'
    BY SMTT(10), <1>1, <1>6 DEF ElectionInv, LeadersAreElected
  <2> QED BY <2>3, <2>4, <2>5, <2>6 DEF ElectionInv
<1>8. CASE ~GrantsVote(j, m)
  <2>1. \A k \in Server :
          \/ currentTerm'[k] > currentTerm[k]
          \/ currentTerm'[k] = currentTerm[k] /\ voteFor'[k] = voteFor[k]
    <3>1. currentTerm'[j] = t /\ voteFor'[j] = VoteSeen(j, m.Term)
      BY ZenonT(30), <1>1, <1>8 DEF TypeOK
    <3> QED BY ZenonT(30), <1>2, <1>3, <1>4, <1>6, <3>1
  <2>2. /\ votes' = votes
        /\ \A q \in rvRep' : q \in rvRep \/ ~q.VoteGranted
    BY <1>1, <1>5, <1>8
  <2>3. Quiet
    BY <1>1, <1>6, <2>1, <2>2 DEF Quiet
  <2> QED BY <2>3, ElectionQuiet
<1> QED BY ZenonT(30), <1>7, <1>8

LEMMA ElectionCountVote ==
    ASSUME TypeOK, TypeOK', ElectionInv, NEW i \in Server, NEW m \in rvRep,
           RequestVoteReply(i, m), CountVote(i, m)
    PROVE  ElectionInv'
<1>1. /\ state[i] = "Candidate" /\ m.argsTerm = currentTerm[i]
      /\ m.to = i /\ m.from \in calls[i] /\ m.VoteGranted
      /\ receivedVotes' = [receivedVotes EXCEPT ![i] = @ + 1]
      /\ calls' = [calls EXCEPT ![i] = @ \ {m.from}]
      /\ rvRep' \subseteq rvRep
      /\ UNCHANGED <<currentTerm, voteFor, votes, spawned, aeReq, isReq>>
  BY DEF RequestVoteReply, CountVote, persistent, aeNet, isNet
<1>2. \/ UNCHANGED <<state, elected>>
      \/ /\ IsMajority(receivedVotes[i] + 1)
         /\ state' = [state EXCEPT ![i] = "Leader"]
         /\ elected' = elected \cup {<<currentTerm[i], i>>}
  BY DEF CountVote, becomeLeader
<1>3. VotesAreFinal' /\ VotedOnce' /\ RepliesAreVotes'
  BY ZenonT(30), <1>1 DEF ElectionInv, VotesAreFinal, VotedOnce, RepliesAreVotes
<1>4. PICK Q \in SUBSET Server :
           /\ Cardinality(Q) = receivedVotes[i] + 1
           /\ Q \in SUBSET (Server \ calls'[i])
           /\ \A j \in Q : <<currentTerm[i], j, i>> \in votes
  <2>1. PICK R \in SUBSET (Server \ calls[i]) :
             /\ Cardinality(R) = receivedVotes[i]
             /\ \A j \in R : <<currentTerm[i], j, i>> \in votes
    BY <1>1 DEF ElectionInv, CountIsVotes, VotedFor
  <2>2. IsFiniteSet(R)
    BY ZenonT(30), ServerAssumption, FS_Subset
  <2>3. m.from \notin R /\ m.from \in Server /\ calls'[i] = calls[i] \ {m.from}
    BY <1>1 DEF TypeOK
  <2>4. Cardinality(R \cup {m.from}) = receivedVotes[i] + 1
    BY ZenonT(40), <2>1, <2>2, <2>3, FS_AddElement
  <2>5. <<currentTerm[i], m.from, i>> \in votes
    BY ZenonT(30), <1>1 DEF ElectionInv, RepliesAreVotes
  <2>6. R \cup {m.from} \in SUBSET (Server \ calls'[i])
    BY ZenonT(30), <2>3
  <2> QED BY ZenonT(30), <2>1, <2>4, <2>5, <2>6
<1>5. /\ receivedVotes'[i] = receivedVotes[i] + 1
      /\ \A k \in Server \ {i} : /\ receivedVotes'[k] = receivedVotes[k]
                                 /\ calls'[k] = calls[k] /\ state'[k] = state[k]
  BY SMTT(10), <1>1, <1>2 DEF TypeOK
<1>6. CountIsVotes'
  <2> SUFFICES ASSUME NEW k \in Server, state'[k] = "Candidate"
               PROVE  \E R \in SUBSET (Server \ calls'[k]) :
                         /\ Cardinality(R) = receivedVotes'[k]
                         /\ \A j \in R : <<currentTerm'[k], j, k>> \in votes'
    BY ZenonT(30) DEF CountIsVotes, VotedFor
  <2>1. CASE k = i
    BY SMTT(10), <1>1, <1>4, <1>5, <2>1
  <2>2. CASE k # i
    BY SMTT(10), <1>1, <1>5, <2>2 DEF ElectionInv, CountIsVotes, VotedFor
  <2> QED BY ZenonT(30), <2>1, <2>2
<1>7. ElectedByMajority'
  <2> SUFFICES ASSUME NEW e \in elected'
               PROVE  \E R \in SUBSET Server :
                         /\ IsMajority(Cardinality(R))
                         /\ \A j \in R : <<e[1], j, e[2]>> \in votes
    BY <1>1 DEF ElectedByMajority, VotedFor, IsMajority
  <2>1. CASE e \in elected
    BY <2>1 DEF ElectionInv, ElectedByMajority, VotedFor
  <2>2. CASE e \notin elected
    <3>1. /\ IsMajority(receivedVotes[i] + 1)
          /\ e = <<currentTerm[i], i>>
      BY ZenonT(30), <1>2, <2>2
    <3>2. e[1] = currentTerm[i] /\ e[2] = i
      BY ZenonT(30), <3>1
    <3> QED BY <1>4, <3>1, <3>2
  <2> QED BY ZenonT(30), <2>1, <2>2
<1>8. LeadersAreElected'
  <2>1. elected \subseteq elected'
    BY <1>2
  <2>2. ASSUME NEW k \in Server, state'[k] = "Leader"
        PROVE  <<currentTerm[k], k>> \in elected'
    <3>1. CASE k = i
      BY ZenonT(30), <1>1, <1>2, <2>2, <3>1
    <3>2. CASE k # i
      BY <1>5, <2>1, <2>2, <3>2 DEF ElectionInv, LeadersAreElected
    <3> QED BY ZenonT(30), <3>1, <3>2
  <2> QED BY <1>1, <2>1, <2>2 DEF ElectionInv, LeadersAreElected
<1> QED BY <1>3, <1>6, <1>7, <1>8 DEF ElectionInv

-----------------------------------------------------------------------------
(* Which steps are quiet *)

\* No server changes its term, vote or role.
LEMMA QuietRoles ==
    ASSUME UNCHANGED <<votes, elected, rvRep, currentTerm, voteFor, state, calls,
                       receivedVotes>>,
           \A k \in Server : \A t \in spawned'[k] :
               t \in spawned[k] \/ (state[k] = "Leader" /\ t = currentTerm[k]),
           \A m \in aeReq' \cup isReq' :
               \/ m \in aeReq \cup isReq
               \/ m.Term \in spawned[m.LeaderId] /\ m.to # m.LeaderId
                  /\ m.LeaderId \in Server
    PROVE  Quiet
BY DEF Quiet

\* Server j ends up neither candidate nor leader.
LEMMA QuietServer ==
    ASSUME TypeOK, NEW j \in Server, NEW t, NEW v, NEW s,
           currentTerm' = [currentTerm EXCEPT ![j] = t],
           voteFor' = [voteFor EXCEPT ![j] = v],
           state' = [state EXCEPT ![j] = s], s \notin {"Candidate", "Leader"},
           t > currentTerm[j] \/ (t = currentTerm[j] /\ v = voteFor[j]),
           UNCHANGED <<votes, elected>>, rvRep' \subseteq rvRep,
           aeReq' \subseteq aeReq, isReq' \subseteq isReq,
           \A k \in Server : spawned'[k] \subseteq spawned[k],
           \A k \in Server \ {j} :
               calls'[k] = calls[k] /\ receivedVotes'[k] = receivedVotes[k]
    PROVE  Quiet
<1>1. currentTerm'[j] = t /\ voteFor'[j] = v /\ state'[j] = s
  BY DEF TypeOK
<1>2. \A k \in Server \ {j} : /\ currentTerm'[k] = currentTerm[k]
                              /\ voteFor'[k] = voteFor[k] /\ state'[k] = state[k]
  BY DEF TypeOK
<1> QED BY <1>1, <1>2 DEF Quiet

\* Server j sees a larger term, or follows the leader of its term.
LEMMA QuietFollower ==
    ASSUME TypeOK, NEW j \in Server, NEW m, m.Term \in Nat,
           \/ becomeFollower(j, m.Term) /\ m.Term > currentTerm[j]
           \/ FollowLeader(j, m),
           UNCHANGED <<votes, elected, spawned>>, rvRep' \subseteq rvRep,
           aeReq' \subseteq aeReq, isReq' \subseteq isReq,
           \A k \in Server \ {j} :
               calls'[k] = calls[k] /\ receivedVotes'[k] = receivedVotes[k]
    PROVE  Quiet
<1>1. currentTerm[j] \in Nat
  BY DEF TypeOK
<1>2. PICK v :
        /\ currentTerm' = [currentTerm EXCEPT ![j] = m.Term]
        /\ voteFor' = [voteFor EXCEPT ![j] = v]
        /\ state' = [state EXCEPT ![j] = "Follower"]
        /\ m.Term > currentTerm[j] \/ (m.Term = currentTerm[j] /\ v = voteFor[j])
  <2>1. CASE becomeFollower(j, m.Term) /\ m.Term > currentTerm[j]
    BY Zenon, <2>1 DEF becomeFollower
  <2>2. CASE FollowLeader(j, m)
    <3>1. m.Term > currentTerm[j]
          \/ (m.Term = currentTerm[j] /\ VoteSeen(j, m.Term) = voteFor[j])
      BY SMTT(10), <1>1, <2>2 DEF FollowLeader, VoteSeen
    <3> QED BY Zenon, <2>2, <3>1 DEF FollowLeader
  <2> QED BY <2>1, <2>2
<1>3. "Follower" \notin {"Candidate", "Leader"}
  OBVIOUS
<1>4. \A k \in Server : spawned'[k] \subseteq spawned[k]
  OBVIOUS
<1> QED BY ZenonT(40), <1>2, <1>3, <1>4, QuietServer

LEMMA QuietReplies ==
    ASSUME TypeOK, NEW i \in Server, NEW m,
           \/ m \in rvRep /\ RequestVoteReply(i, m) /\ LoseElection(i, m)
           \/ m \in aeRep /\ AppendEntriesReply(i, m)
           \/ m \in isRep /\ InstallSnapshotReply(i, m)
    PROVE  Quiet
<1>1. m.Term \in Nat
  BY DEF TypeOK, VoteReply, EntriesReply, SnapshotReply
<1>2. CASE m \in rvRep /\ RequestVoteReply(i, m) /\ LoseElection(i, m)
  <2>1. /\ becomeFollower(i, m.Term) /\ m.Term > currentTerm[i]
        /\ UNCHANGED <<votes, elected, spawned, receivedVotes, aeReq, isReq>>
        /\ rvRep' \subseteq rvRep /\ calls' = [calls EXCEPT ![i] = @ \ {m.from}]
    BY <1>2 DEF RequestVoteReply, LoseElection, aeNet, isNet
  <2>2. \A k \in Server \ {i} :
           calls'[k] = calls[k] /\ receivedVotes'[k] = receivedVotes[k]
    BY <2>1 DEF TypeOK
  <2> QED BY <1>1, <2>1, <2>2, QuietFollower
<1>3. CASE \/ m \in aeRep /\ AppendEntriesReply(i, m)
           \/ m \in isRep /\ InstallSnapshotReply(i, m)
  <2>1. /\ UNCHANGED <<votes, elected, spawned, receivedVotes, calls, rvRep, aeReq,
                       isReq>>
    BY <1>3 DEF AppendEntriesReply, InstallSnapshotReply, candidateVars, rvNet,
                aeNet, isNet
  <2>2. \/ UNCHANGED <<currentTerm, voteFor, state>>
        \/ becomeFollower(i, m.Term) /\ m.Term > currentTerm[i]
    BY <1>3 DEF AppendEntriesReply, InstallSnapshotReply, ReplicationSucceeded,
                BackUp, SnapshotInstalled, StepDown, persistent
  <2>3. CASE UNCHANGED <<currentTerm, voteFor, state>>
    BY <2>1, <2>3, QuietRoles
  <2>4. CASE becomeFollower(i, m.Term) /\ m.Term > currentTerm[i]
    <3>1. rvRep' \subseteq rvRep /\ aeReq' \subseteq aeReq /\ isReq' \subseteq isReq
      BY <2>1
    <3> QED BY <1>1, <2>1, <2>4, <3>1, QuietFollower
  <2> QED BY <2>2, <2>3, <2>4
<1> QED BY <1>2, <1>3

LEMMA QuietRequests ==
    ASSUME TypeOK, NEW j \in Server, NEW m,
           \/ m \in aeReq /\ AppendEntries(j, m)
           \/ m \in isReq /\ InstallSnapshot(j, m)
    PROVE  Quiet
<1>1. m.Term \in Nat
  BY DEF TypeOK, AppendEntriesArgs, InstallSnapshotArgs
<1>2. /\ UNCHANGED <<votes, elected, spawned, receivedVotes, calls, rvRep>>
      /\ rvRep' \subseteq rvRep /\ aeReq' \subseteq aeReq /\ isReq' \subseteq isReq
  BY DEF AppendEntries, InstallSnapshot, candidateVars, rvNet, aeNet, isNet, Without
<1>3. UNCHANGED <<currentTerm, voteFor, state>> \/ FollowLeader(j, m)
  BY DEF AppendEntries, InstallSnapshot, RefuseOldLeader, persistent
<1>4. CASE UNCHANGED <<currentTerm, voteFor, state>>
  BY <1>2, <1>4, QuietRoles
<1>5. CASE FollowLeader(j, m)
  BY <1>1, <1>2, <1>5, QuietFollower
<1> QED BY <1>3, <1>4, <1>5

LEMMA QuietLeader ==
    ASSUME TypeOK, NEW i \in Server,
           \/ HeartBeat(i)
           \/ \E c \in Command : Start(i, c)
           \/ \E index \in 1 .. MaxSnapshot : Snapshot(i, index)
           \/ \E j \in Server, term \in spawned[i] :
                SendAppendEntries(i, j, term) \/ SendInstallSnapshot(i, j, term)
    PROVE  Quiet
<1>1. UNCHANGED <<votes, elected, rvRep, currentTerm, voteFor, state, calls,
                  receivedVotes>>
  BY DEF HeartBeat, Start, Snapshot, SendAppendEntries, SendInstallSnapshot,
         persistent, candidateVars, network, rvNet
<1>2. \A k \in Server : \A t \in spawned'[k] :
         t \in spawned[k] \/ (state[k] = "Leader" /\ t = currentTerm[k])
  <2>1. \/ spawned' = spawned
        \/ state[i] = "Leader" /\ spawned' = [spawned EXCEPT ![i] = @ \cup {currentTerm[i]}]
    BY DEF HeartBeat, Start, Snapshot, SendAppendEntries, SendInstallSnapshot,
           runHeartBeats
  <2>2. spawned \in [Server -> SUBSET Nat]
    BY DEF TypeOK
  <2> QED BY SMTT(10), <2>1, <2>2
<1>3. \A m \in aeReq' \cup isReq' :
         \/ m \in aeReq \cup isReq
         \/ m.Term \in spawned[m.LeaderId] /\ m.to # m.LeaderId /\ m.LeaderId \in Server
  <2>1. CASE UNCHANGED <<aeReq, isReq>>
    BY <2>1
  <2>2. ASSUME NEW j \in Server, NEW term \in spawned[i], SendAppendEntries(i, j, term)
        PROVE  \A m \in aeReq' \cup isReq' :
                  \/ m \in aeReq \cup isReq
                  \/ m.Term = term /\ m.LeaderId = i /\ m.to = j /\ i # j
    BY SMTT(10), SMTT(30), <2>2 DEF SendAppendEntries, isNet
  <2>3. ASSUME NEW j \in Server, NEW term \in spawned[i], SendInstallSnapshot(i, j, term)
        PROVE  \A m \in aeReq' \cup isReq' :
                  \/ m \in aeReq \cup isReq
                  \/ m.Term = term /\ m.LeaderId = i /\ m.to = j /\ i # j
    BY SMTT(10), <2>3 DEF SendInstallSnapshot, aeNet
  <2>4. \/ UNCHANGED <<aeReq, isReq>>
        \/ \E j \in Server, term \in spawned[i] :
             SendAppendEntries(i, j, term) \/ SendInstallSnapshot(i, j, term)
    BY DEF HeartBeat, Start, Snapshot, network
  <2> QED BY SMTT(10), <2>1, <2>2, <2>3, <2>4
<1> QED BY <1>1, <1>2, <1>3, QuietRoles

\* A restart finds the term and the vote of before the crash on disk.
LEMMA QuietCrash ==
    ASSUME IndexInv, NEW i \in Server,
           \/ Kill(i) \/ Make(i)
           \/ \E m \in rvReq \cup aeReq \cup isReq : KillInHandler(i, m)
    PROVE  Quiet
<1>1. TypeOK
  BY DEF IndexInv
<1>2. /\ UNCHANGED <<votes, elected, rvRep, aeReq, isReq>>
      /\ \A k \in Server : spawned'[k] \subseteq spawned[k]
      /\ \A k \in Server \ {i} :
            calls'[k] = calls[k] /\ receivedVotes'[k] = receivedVotes[k]
  BY ZenonT(40), <1>1 DEF Kill, Make, KillInHandler, candidateVars, network, TypeOK
<1>3. rvRep' \subseteq rvRep /\ aeReq' \subseteq aeReq /\ isReq' \subseteq isReq
  BY <1>2
<1>4. CASE Kill(i)
  <2>1. /\ currentTerm' = [currentTerm EXCEPT ![i] = currentTerm[i]]
        /\ voteFor' = [voteFor EXCEPT ![i] = voteFor[i]]
        /\ state' = [state EXCEPT ![i] = "Dead"]
        /\ "Dead" \notin {"Candidate", "Leader"}
    BY <1>1, <1>4 DEF Kill, persistent, TypeOK
  <2> QED BY Zenon, <1>1, <1>2, <1>3, <2>1, QuietServer
<1>5. CASE Make(i)
  <2>1. disk[i] = encodeState(i)
    BY DEF IndexInv, LogsSound
  <2>2. disk[i].currentTerm = currentTerm[i] /\ disk[i].voteFor = voteFor[i]
    BY SMTT(10), <2>1 DEF encodeState
  <2>3. /\ currentTerm' = [currentTerm EXCEPT ![i] = currentTerm[i]]
        /\ voteFor' = [voteFor EXCEPT ![i] = voteFor[i]]
        /\ state' = [state EXCEPT ![i] = "Follower"]
        /\ "Follower" \notin {"Candidate", "Leader"}
    BY <1>5, <2>2 DEF Make
  <2> QED BY ZenonT(40), <1>1, <1>2, <1>3, <2>3, QuietServer
<1>6. ASSUME NEW m \in rvReq \cup aeReq \cup isReq, KillInHandler(i, m)
      PROVE  Quiet
  <2>1. /\ currentTerm' = [currentTerm EXCEPT ![i] = m.Term]
        /\ voteFor' = [voteFor EXCEPT ![i] = None]
        /\ state' = [state EXCEPT ![i] = "Dead"] /\ m.Term > currentTerm[i]
        /\ "Dead" \notin {"Candidate", "Leader"}
    BY <1>6 DEF KillInHandler
  <2> QED BY Zenon, <1>1, <1>2, <1>3, <2>1, QuietServer
<1> QED BY <1>4, <1>5, <1>6

LEMMA QuietLose ==
    ASSUME Lose \/ UNCHANGED vars
    PROVE  Quiet
<1>1. /\ UNCHANGED <<votes, elected, rvRep, currentTerm, voteFor, state, calls,
                     receivedVotes, spawned>>
      /\ aeReq' \subseteq aeReq /\ isReq' \subseteq isReq
  BY DEF Lose, vars, persistent, candidateVars, rvNet, aeNet, isNet
<1> QED BY <1>1, QuietRoles

-----------------------------------------------------------------------------
\* Every step is one of those.
LEMMA ElectionSteps ==
    ASSUME IndexInv, [Next]_vars
    PROVE  \/ Quiet
           \/ \E i \in Server : startElection(i)
           \/ \E m \in rvReq : m.to \in Server /\ RequestVote(m.to, m)
           \/ \E m \in rvRep : /\ m.to \in Server /\ RequestVoteReply(m.to, m)
                               /\ CountVote(m.to, m)
<1>1. TypeOK
  BY DEF IndexInv
<1>2. /\ \A m \in rvReq \cup aeReq \cup isReq : m.to \in Server
      /\ \A m \in rvRep \cup aeRep \cup isRep : m.to \in Server
  BY <1>1 DEF TypeOK, RequestVoteArgs, AppendEntriesArgs, InstallSnapshotArgs,
              VoteReply, EntriesReply, SnapshotReply
<1>3. ASSUME NEW i \in Server,
             \/ HeartBeat(i)
             \/ \E c \in Command : Start(i, c)
             \/ \E index \in 1 .. MaxSnapshot : Snapshot(i, index)
             \/ \E j \in Server, term \in spawned[i] :
                  SendAppendEntries(i, j, term) \/ SendInstallSnapshot(i, j, term)
      PROVE  Quiet
  BY <1>1, <1>3, QuietLeader
<1>4. ASSUME NEW i \in Server, Kill(i) \/ Make(i)
      PROVE  Quiet
  BY <1>4, QuietCrash
<1>5. ASSUME NEW m \in rvReq \cup aeReq \cup isReq, KillInHandler(m.to, m)
      PROVE  Quiet
  BY <1>2, <1>5, QuietCrash
<1>6. ASSUME NEW m \in rvRep, RequestVoteReply(m.to, m), LoseElection(m.to, m)
      PROVE  Quiet
  BY <1>1, <1>2, <1>6, QuietReplies
<1>7. ASSUME NEW m \in aeRep, AppendEntriesReply(m.to, m)
      PROVE  Quiet
  BY <1>1, <1>2, <1>7, QuietReplies
<1>8. ASSUME NEW m \in isRep, InstallSnapshotReply(m.to, m)
      PROVE  Quiet
  BY <1>1, <1>2, <1>8, QuietReplies
<1>9. ASSUME NEW m \in aeReq, AppendEntries(m.to, m)
      PROVE  Quiet
  BY <1>1, <1>2, <1>9, QuietRequests
<1>10. ASSUME NEW m \in isReq, InstallSnapshot(m.to, m)
       PROVE  Quiet
  BY <1>1, <1>2, <1>10, QuietRequests
<1>11. CASE Lose \/ UNCHANGED vars
  BY <1>11, QuietLose
<1>12. ASSUME NEW m \in rvRep, RequestVoteReply(m.to, m)
       PROVE  CountVote(m.to, m) \/ LoseElection(m.to, m)
  BY <1>12 DEF RequestVoteReply
<1> QED BY <1>2, <1>3, <1>4, <1>5, <1>6, <1>7, <1>8, <1>9, <1>10, <1>11, <1>12
        DEF Next

-----------------------------------------------------------------------------
(* A leader leads until it sees a larger term *)

\* A step that moves one server j to role s and term t.
LEMMA StaysUnless ==
    ASSUME TypeOK, NEW j \in Server, NEW t, NEW s,
           currentTerm' = [currentTerm EXCEPT ![j] = t],
           state' = [state EXCEPT ![j] = s],
           state[j] # "Leader" \/ s \in {"Leader", "Dead"} \/ t > currentTerm[j]
    PROVE  LeaderStays
<1>1. currentTerm'[j] = t /\ state'[j] = s
      /\ \A k \in Server \ {j} : state'[k] = state[k]
  BY DEF TypeOK
<1> QED BY <1>1 DEF LeaderStays

\* No request of the leader's own term reaches the leader: its sender would
\* have been elected too, and nobody sends to itself.
LEMMA NoRivalRequest ==
    ASSUME TypeOK, ElectionInv, ElectionSafety, NEW j \in Server,
           NEW m \in aeReq \cup isReq, m.to = j, FollowLeader(j, m)
    PROVE  LeaderStays
<1>1. /\ m.Term >= currentTerm[j]
      /\ currentTerm' = [currentTerm EXCEPT ![j] = m.Term]
      /\ state' = [state EXCEPT ![j] = "Follower"]
  BY DEF FollowLeader
<1>2. m.Term \in Nat /\ currentTerm[j] \in Nat
  BY DEF TypeOK, AppendEntriesArgs, InstallSnapshotArgs
<1>3. ASSUME state[j] = "Leader", m.Term = currentTerm[j]
      PROVE  FALSE
  <2> DEFINE e == <<m.Term, m.LeaderId>>
             f == <<currentTerm[j], j>>
  <2>1. e \in elected /\ f \in elected /\ m.LeaderId # j
    BY <1>3 DEF ElectionInv, LeadersAreElected
  <2>2. e[1] = f[1] /\ e[2] = m.LeaderId /\ f[2] = j
    BY <1>3
  <2> HIDE DEF e, f
  <2>3. e[2] = f[2]
    BY <2>1, <2>2 DEF ElectionSafety
  <2> QED BY <2>1, <2>2, <2>3
<1>4. state[j] # "Leader" \/ m.Term > currentTerm[j]
  BY SMTT(10), SMTT(30), <1>1, <1>2, <1>3
<1> QED BY ZenonT(40), <1>1, <1>4, StaysUnless

LEMMA LeaderNext ==
    ASSUME TypeOK, ElectionInv, ElectionSafety, [Next]_vars
    PROVE  LeaderStays
<1>1. ASSUME UNCHANGED <<state, currentTerm>>
      PROVE  LeaderStays
  BY <1>1 DEF LeaderStays
<1>2. ASSUME NEW i \in Server, startElection(i)
      PROVE  LeaderStays
  <2>1. /\ currentTerm' = [currentTerm EXCEPT ![i] = currentTerm[i] + 1]
        /\ state' = [state EXCEPT ![i] = "Candidate"] /\ state[i] # "Leader"
    BY <1>2 DEF startElection
  <2> QED BY Zenon, <2>1, StaysUnless
<1>3. ASSUME NEW i \in Server,
             \/ HeartBeat(i)
             \/ \E c \in Command : Start(i, c)
             \/ \E index \in 1 .. MaxSnapshot : Snapshot(i, index)
             \/ \E j \in Server, term \in spawned[i] :
                  SendAppendEntries(i, j, term) \/ SendInstallSnapshot(i, j, term)
      PROVE  LeaderStays
  <2>1. UNCHANGED <<state, currentTerm>>
    BY <1>3 DEF HeartBeat, Start, Snapshot, SendAppendEntries, SendInstallSnapshot,
                persistent
  <2> QED BY <1>1, <2>1
<1>4. ASSUME NEW i \in Server, Kill(i)
      PROVE  LeaderStays
  <2>1. /\ currentTerm' = [currentTerm EXCEPT ![i] = currentTerm[i]]
        /\ state' = [state EXCEPT ![i] = "Dead"]
    BY <1>4 DEF Kill, persistent, TypeOK
  <2> QED BY Zenon, <2>1, StaysUnless
<1>5. ASSUME NEW i \in Server, Make(i)
      PROVE  LeaderStays
  <2>1. /\ currentTerm' = [currentTerm EXCEPT ![i] = disk[i].currentTerm]
        /\ state' = [state EXCEPT ![i] = "Follower"] /\ state[i] # "Leader"
    BY <1>5 DEF Make
  <2> QED BY Zenon, <2>1, StaysUnless
<1>6. ASSUME NEW m \in rvReq \cup aeReq \cup isReq, KillInHandler(m.to, m)
      PROVE  LeaderStays
  <2>1. m.to \in Server
    BY DEF TypeOK, RequestVoteArgs, AppendEntriesArgs, InstallSnapshotArgs
  <2>2. /\ currentTerm' = [currentTerm EXCEPT ![m.to] = m.Term]
        /\ state' = [state EXCEPT ![m.to] = "Dead"]
    BY <1>6 DEF KillInHandler
  <2> QED BY Zenon, <2>1, <2>2, StaysUnless
<1>7. ASSUME NEW m \in rvReq, RequestVote(m.to, m)
      PROVE  LeaderStays
  <2> DEFINE t == TermSeen(m.to, m.Term)
             s == IF m.Term > currentTerm[m.to] THEN "Follower" ELSE state[m.to]
  <2>1. m.to \in Server
    BY DEF TypeOK, RequestVoteArgs
  <2>2. /\ currentTerm' = [currentTerm EXCEPT ![m.to] = t]
        /\ state' = [state EXCEPT ![m.to] = s]
    BY <1>7 DEF RequestVote
  <2>3. state[m.to] # "Leader" \/ s \in {"Leader", "Dead"} \/ t > currentTerm[m.to]
    <3>1. m.Term \in Nat /\ currentTerm[m.to] \in Nat
      BY <2>1 DEF TypeOK, RequestVoteArgs
    <3> QED BY SMTT(10), <3>1 DEF TermSeen, Max2
  <2> HIDE DEF t, s
  <2> QED BY Zenon, <2>1, <2>2, <2>3, StaysUnless
<1>8. ASSUME NEW m \in rvRep, RequestVoteReply(m.to, m)
      PROVE  LeaderStays
  <2>1. m.to \in Server /\ state[m.to] # "Leader"
    BY <1>8 DEF TypeOK, VoteReply, RequestVoteReply
  <2>2. /\ \E t : currentTerm' = [currentTerm EXCEPT ![m.to] = t]
        /\ \E s : state' = [state EXCEPT ![m.to] = s]
    <3>1. CASE CountVote(m.to, m)
      <4>1. /\ currentTerm' = [currentTerm EXCEPT ![m.to] = currentTerm[m.to]]
            /\ \/ state' = [state EXCEPT ![m.to] = state[m.to]]
               \/ state' = [state EXCEPT ![m.to] = "Leader"]
        BY <3>1 DEF CountVote, becomeLeader, persistent, TypeOK
      <4> QED BY Zenon, <4>1
    <3>2. CASE LoseElection(m.to, m)
      BY ZenonT(40), <3>2 DEF LoseElection, becomeFollower
    <3> QED BY <1>8, <3>1, <3>2 DEF RequestVoteReply
  <2> QED BY Zenon, <2>1, <2>2, StaysUnless
<1>9. ASSUME NEW m, \/ m \in aeRep /\ AppendEntriesReply(m.to, m)
                    \/ m \in isRep /\ InstallSnapshotReply(m.to, m)
      PROVE  LeaderStays
  <2>1. m.to \in Server
    BY <1>9 DEF TypeOK, EntriesReply, SnapshotReply
  <2>2. \/ UNCHANGED <<state, currentTerm>>
        \/ /\ currentTerm' = [currentTerm EXCEPT ![m.to] = m.Term]
           /\ state' = [state EXCEPT ![m.to] = "Follower"]
           /\ m.Term > currentTerm[m.to]
    BY <1>9 DEF AppendEntriesReply, InstallSnapshotReply, ReplicationSucceeded,
                BackUp, SnapshotInstalled, StepDown, becomeFollower, persistent
  <2> QED BY <1>1, <2>1, <2>2, StaysUnless
<1>10. ASSUME NEW m, \/ m \in aeReq /\ AppendEntries(m.to, m)
                     \/ m \in isReq /\ InstallSnapshot(m.to, m)
       PROVE  LeaderStays
  <2>1. m.to \in Server /\ m \in aeReq \cup isReq
    BY <1>10 DEF TypeOK, AppendEntriesArgs, InstallSnapshotArgs
  <2>2. UNCHANGED <<state, currentTerm>> \/ FollowLeader(m.to, m)
    BY <1>10 DEF AppendEntries, InstallSnapshot, RefuseOldLeader, persistent
  <2> QED BY <1>1, <2>1, <2>2, NoRivalRequest
<1>11. CASE Lose \/ UNCHANGED vars
  BY <1>1, <1>11 DEF Lose, vars, persistent
<1> QED BY <1>2, <1>3, <1>4, <1>5, <1>6, <1>7, <1>8, <1>9, <1>10, <1>11 DEF Next

-----------------------------------------------------------------------------
(* The shape of a log, and steps of one server *)

\* The numbers that getFirstIndex, getLastIndex, getTerm... return.
LEMMA LogShape ==
    ASSUME NEW l \in LogType, Contiguous(l)
    PROVE  /\ l \in Seq(LogEntry) /\ Len(l) \in Nat /\ Len(l) >= 1
           /\ getFirstIndex(l) \in Nat /\ getLastIndex(l) \in Nat
           /\ getNextIndex(l) \in Nat /\ getNextIndex(l) = getLastIndex(l) + 1
           /\ getFirstTerm(l) \in Nat /\ getLastTerm(l) \in Nat
           /\ getLastIndex(l) = getFirstIndex(l) + Len(l) - 1
           /\ \A k \in getFirstIndex(l) .. getLastIndex(l) :
                 /\ getTerm(l, k) \in Nat
                 /\ k - getFirstIndex(l) + 1 \in 1 .. Len(l)
                 /\ l[k - getFirstIndex(l) + 1] \in LogEntry
<1>1. l \in Seq(LogEntry) /\ Len(l) \in Nat /\ Len(l) >= 1
  BY SMTT(10) DEF LogType
<1>2. \A k \in 1 .. Len(l) :
         l[k] \in LogEntry /\ l[k].Index \in Nat /\ l[k].Term \in Nat
  <2> TAKE k \in 1 .. Len(l)
  <2>1. l[k] \in LogEntry
    BY SMTT(10), <1>1
  <2> QED BY <2>1 DEF LogEntry
<1>3. getFirstIndex(l) \in Nat /\ getFirstTerm(l) \in Nat
  BY SMTT(10), <1>1, <1>2 DEF getFirstIndex, getFirstTerm
<1>4. getLastIndex(l) \in Nat /\ getLastTerm(l) \in Nat
      /\ getLastIndex(l) = getFirstIndex(l) + Len(l) - 1
  BY SMTT(10), <1>1, <1>2 DEF getLastIndex, getLastTerm, Contiguous
<1>5. ASSUME NEW k \in getFirstIndex(l) .. getLastIndex(l)
      PROVE  /\ getTerm(l, k) \in Nat
             /\ k - getFirstIndex(l) + 1 \in 1 .. Len(l)
             /\ l[k - getFirstIndex(l) + 1] \in LogEntry
  <2>1. k - getFirstIndex(l) + 1 \in 1 .. Len(l)
    BY SMTT(10), SMTT(30), <1>1, <1>3, <1>4
  <2> QED BY <2>1, <1>2 DEF getTerm
<1> QED BY SMTT(10), <1>1, <1>3, <1>4, <1>5 DEF getNextIndex

\* AdoptSnapshot: nothing of the old log is left but the sentinel.
LEMMA SentinelLog ==
    ASSUME NEW index \in Nat, NEW term \in Nat
    PROVE  LET c == <<Sentinel(index, term)>>
           IN /\ c \in LogType /\ Contiguous(c) /\ c \o <<>> = c
              /\ getFirstIndex(c) = index /\ getLastIndex(c) = index
<1> DEFINE c == <<Sentinel(index, term)>>
<1>1. c \in Seq(LogEntry) /\ Len(c) = 1 /\ c[1].Index = index
  BY SMTT(10) DEF Sentinel, LogEntry
<1>2. c \o <<>> = c
  BY SMTT(10), <1>1
<1> HIDE DEF c
<1>3. c \in LogType
  <2>1. Len(c) >= 1
    BY SMTT(10), <1>1
  <2> QED BY Zenon, <1>1, <2>1 DEF LogType
<1>4. getFirstIndex(c) = index /\ getLastIndex(c) = index
  BY <1>1 DEF getFirstIndex, getLastIndex
<1>5. Contiguous(c)
  BY SMTT(10), <1>1, <1>4 DEF Contiguous
<1> QED BY <1>2, <1>3, <1>4, <1>5 DEF c

-----------------------------------------------------------------------------
LEMMA IndexInit == Init => IndexInv
<1> SUFFICES ASSUME Init PROVE IndexInv
  OBVIOUS
<1> DEFINE l0 == <<Sentinel(0, 0)>>
<1>1. l0 \in LogType /\ Contiguous(l0) /\ getFirstIndex(l0) = 0
  BY SentinelLog
<1> HIDE DEF l0
<1>2. TypeOK
  BY <1>1 DEF Init, TypeOK, RuleState, Saved, l0
<1>3. LogsSound
  BY SMTT(10), <1>1 DEF Init, LogsSound, encodeState, l0
<1> QED BY <1>2, <1>3 DEF Init, IndexInv, RequestsFollow, TermsPast, LeadersInRange

-----------------------------------------------------------------------------
(* Facts used by several actions *)

\* What the invariant says of the log of one server.
LEMMA ServerLog ==
    ASSUME IndexInv, NEW i \in Server
    PROVE  /\ log[i] \in LogType /\ Contiguous(log[i])
           /\ getFirstIndex(log[i]) \in Nat /\ getLastIndex(log[i]) \in Nat
           /\ getFirstTerm(log[i]) \in Nat /\ getLastTerm(log[i]) \in Nat
           /\ getNextIndex(log[i]) = getLastIndex(log[i]) + 1
           /\ getFirstIndex(log[i]) <= getLastIndex(log[i])
           /\ getFirstIndex(log[i]) <= commitIndex[i]
<1>1. log[i] \in LogType /\ Contiguous(log[i])
      /\ getFirstIndex(log[i]) <= commitIndex[i]
  BY DEF IndexInv, TypeOK, LogsSound
<1> DEFINE l == log[i]
<1> HIDE DEF l
<1>2. /\ Len(l) \in Nat /\ Len(l) >= 1
      /\ getFirstIndex(l) \in Nat /\ getLastIndex(l) \in Nat
      /\ getNextIndex(l) = getLastIndex(l) + 1
      /\ getFirstTerm(l) \in Nat /\ getLastTerm(l) \in Nat
      /\ getLastIndex(l) = getFirstIndex(l) + Len(l) - 1
  BY <1>1, LogShape DEF l
<1>3. getFirstIndex(l) <= getLastIndex(l)
  BY SMTT(10), <1>2
<1> QED BY <1>1, <1>2, <1>3 DEF l

\* Terms grow, and a server becomes a candidate only in a term of its own.
TermsGrow ==
    \A i \in Server :
        /\ currentTerm'[i] >= currentTerm[i]
        /\ state'[i] = "Candidate" =>
             \/ currentTerm'[i] > currentTerm[i]
             \/ state[i] = "Candidate" /\ currentTerm'[i] = currentTerm[i]

\* A term that was led stays one that was led.
LEMMA LedBeforeStable ==
    ASSUME TypeOK, TypeOK', TermsGrow, NEW i \in Server, NEW t \in Nat,
           LedBefore(i, t)
    PROVE  LedBefore(i, t)'
BY SMTT(10) DEF TypeOK, TermsGrow, LedBefore

\* Goroutines are started by servers that led; what is sent carries the term
\* of such a goroutine, and a reply the term of its request.
LEMMA TermsPastStep ==
    ASSUME TypeOK, TypeOK', TermsGrow, TermsPast,
           \A i \in Server : \A t \in spawned'[i] :
               t \in spawned[i] \/ LedBefore(i, t),
           \A m \in aeReq' \cup isReq' :
               m \in aeReq \cup isReq \/ m.Term \in spawned[m.LeaderId],
           \A m \in aeRep' \cup isRep' :
               \/ m \in aeRep \cup isRep
               \/ \E q \in aeReq \cup isReq :
                     m.to = q.LeaderId /\ m.argsTerm = q.Term
    PROVE  TermsPast'
<1>1. ASSUME NEW i \in Server, NEW t \in spawned'[i]
      PROVE  LedBefore(i, t)'
  <2>1. t \in Nat /\ LedBefore(i, t)
    BY DEF TypeOK, TermsPast
  <2> QED BY <2>1, LedBeforeStable
<1>2. ASSUME NEW m \in aeReq' \cup isReq'
      PROVE  LedBefore(m.LeaderId, m.Term)'
  <2>1. m.LeaderId \in Server /\ m.Term \in Nat
    BY Zenon DEF TypeOK, AppendEntriesArgs, InstallSnapshotArgs
  <2>2. LedBefore(m.LeaderId, m.Term)
    BY <2>1 DEF TermsPast
  <2> QED BY <2>1, <2>2, LedBeforeStable
<1>3. ASSUME NEW m \in aeRep' \cup isRep'
      PROVE  LedBefore(m.to, m.argsTerm)'
  <2>1. m.to \in Server /\ m.argsTerm \in Nat
    BY DEF TypeOK, EntriesReply, SnapshotReply
  <2>2. LedBefore(m.to, m.argsTerm)
    BY DEF TermsPast
  <2> QED BY <2>1, <2>2, LedBeforeStable
<1> QED BY <1>1, <1>2, <1>3 DEF TermsPast

\* Steps that move no index of a leader: its log may grow, it may send what
\* its log holds, and replies may report on what it sent.
LEMMA LeadersStep ==
    ASSUME IndexInv,
           \A i \in Server : state'[i] = "Leader" =>
               /\ state[i] = "Leader" /\ currentTerm'[i] = currentTerm[i]
               /\ nextIndex'[i] = nextIndex[i] /\ matchIndex'[i] = matchIndex[i]
               /\ getLastIndex(log'[i]) \in Nat
               /\ getLastIndex(log'[i]) >= getLastIndex(log[i]),
           \A m \in aeReq' : m \in aeReq
               \/ m.PrevLogIndex + Len(m.Entries) <= getLastIndex(log'[m.LeaderId]),
           \A m \in aeRep' : m \in aeRep \/ \E q \in aeReq :
               /\ m.to = q.LeaderId /\ m.argsTerm = q.Term
               /\ m.lastSent = q.PrevLogIndex + Len(q.Entries)
               /\ m.PrevLogIndex <= m.lastSent /\ m.ConflictIndex <= m.lastSent,
           \A m \in isReq' : m \in isReq
               \/ m.LastIncludedIndex <= getLastIndex(log'[m.LeaderId]),
           \A m \in isRep' : m \in isRep \/ \E q \in isReq :
               /\ m.to = q.LeaderId /\ m.argsTerm = q.Term
               /\ m.LastIncludedIndex = q.LastIncludedIndex
    PROVE  LeadersInRange'
<1> SUFFICES ASSUME NEW i \in Server, state'[i] = "Leader"
             PROVE  LeaderInRange(i)'
  BY DEF LeadersInRange
<1> DEFINE old == getLastIndex(log[i])
           new == getLastIndex(log'[i])
<1>1. LeaderInRange(i)
  BY DEF IndexInv, LeadersInRange
<1>2. /\ currentTerm'[i] = currentTerm[i]
      /\ nextIndex'[i] = nextIndex[i] /\ matchIndex'[i] = matchIndex[i]
      /\ old \in Nat /\ new \in Nat /\ old <= new
      /\ getNextIndex(log[i]) = old + 1 /\ getNextIndex(log'[i]) = new + 1
  BY ServerLog DEF getNextIndex
<1>3. /\ \A m \in aeReq : m.PrevLogIndex + Len(m.Entries) \in Nat
      /\ \A m \in aeRep : m.lastSent \in Nat
      /\ \A m \in isReq \cup isRep : m.LastIncludedIndex \in Nat
  <2>1. ASSUME NEW m \in aeReq
        PROVE  m.PrevLogIndex + Len(m.Entries) \in Nat
    <3>1. m.PrevLogIndex \in Nat /\ m.Entries \in Seq(LogEntry)
      BY Zenon DEF IndexInv, TypeOK, AppendEntriesArgs
    <3> QED BY SMTT(10), <3>1
  <2>2. \A m \in aeRep : m.lastSent \in Nat
    BY DEF IndexInv, TypeOK, EntriesReply
  <2>3. \A m \in isReq \cup isRep : m.LastIncludedIndex \in Nat
    BY DEF IndexInv, TypeOK, InstallSnapshotArgs, SnapshotReply
  <2> QED BY <2>1, <2>2, <2>3
<1>4. ASSUME NEW j \in Server
      PROVE  /\ nextIndex'[i][j] >= 1 /\ nextIndex'[i][j] <= new + 1
             /\ matchIndex'[i][j] <= new
  <2>1. nextIndex[i][j] \in Nat /\ matchIndex[i][j] \in Nat
    BY SMTT(10) DEF IndexInv, TypeOK
  <2>2. /\ nextIndex[i][j] >= 1 /\ nextIndex[i][j] <= old + 1
        /\ matchIndex[i][j] <= old
    BY <1>1, <1>2 DEF LeaderInRange
  <2> HIDE DEF old, new
  <2> QED BY SMTT(10), SMTT(30), <1>2, <2>1, <2>2
<1>5. ASSUME NEW m \in aeReq', m.LeaderId = i, m.Term = currentTerm'[i]
      PROVE  m.PrevLogIndex + Len(m.Entries) <= new
  <2>1. CASE m \in aeReq
    <3>1. m.PrevLogIndex + Len(m.Entries) <= old
      BY <1>1, <1>2, <1>5, <2>1 DEF LeaderInRange
    <3> QED BY SMTT(10), <1>2, <1>3, <2>1, <3>1
  <2> QED BY <1>5, <2>1
<1>6. ASSUME NEW m \in aeRep', m.to = i, m.argsTerm = currentTerm'[i]
      PROVE  /\ m.lastSent <= new
             /\ m.PrevLogIndex <= m.lastSent /\ m.ConflictIndex <= m.lastSent
  <2>1. CASE m \in aeRep
    <3>1. /\ m.lastSent <= old
          /\ m.PrevLogIndex <= m.lastSent /\ m.ConflictIndex <= m.lastSent
      BY <1>1, <1>2, <1>6, <2>1 DEF LeaderInRange
    <3> QED BY SMTT(10), <1>2, <1>3, <2>1, <3>1
  <2>2. CASE m \notin aeRep
    <3>1. PICK q \in aeReq :
               /\ m.to = q.LeaderId /\ m.argsTerm = q.Term
               /\ m.lastSent = q.PrevLogIndex + Len(q.Entries)
               /\ m.PrevLogIndex <= m.lastSent /\ m.ConflictIndex <= m.lastSent
      BY <2>2
    <3>2. q.PrevLogIndex + Len(q.Entries) <= old
      BY <1>1, <1>2, <1>6, <3>1 DEF LeaderInRange
    <3> QED BY SMTT(10), <1>2, <1>3, <3>1, <3>2
  <2> QED BY <2>1, <2>2
<1>7. ASSUME NEW m \in isReq', m.LeaderId = i, m.Term = currentTerm'[i]
      PROVE  m.LastIncludedIndex <= new
  <2>1. CASE m \in isReq
    <3>1. m.LastIncludedIndex <= old
      BY <1>1, <1>2, <1>7, <2>1 DEF LeaderInRange
    <3> QED BY SMTT(10), SMTT(30), <1>2, <1>3, <2>1, <3>1
  <2> QED BY <1>7, <2>1
<1>8. ASSUME NEW m \in isRep', m.to = i, m.argsTerm = currentTerm'[i]
      PROVE  m.LastIncludedIndex <= new
  <2>1. CASE m \in isRep
    <3>1. m.LastIncludedIndex <= old
      BY <1>1, <1>2, <1>8, <2>1 DEF LeaderInRange
    <3> QED BY SMTT(10), <1>2, <1>3, <2>1, <3>1
  <2>2. CASE m \notin isRep
    <3>1. PICK q \in isReq :
               /\ m.to = q.LeaderId /\ m.argsTerm = q.Term
               /\ m.LastIncludedIndex = q.LastIncludedIndex
      BY <2>2
    <3>2. q.LastIncludedIndex <= old
      BY <1>1, <1>2, <1>8, <3>1 DEF LeaderInRange
    <3> QED BY SMTT(10), <1>2, <1>3, <3>1, <3>2
  <2> QED BY <2>1, <2>2
<1> QED BY <1>2, <1>4, <1>5, <1>6, <1>7, <1>8 DEF LeaderInRange

\* The same when no leader's indexes change and no request or reply is sent.
LEMMA LeadersKept ==
    ASSUME IndexInv,
           \A k \in Server : state'[k] = "Leader" =>
               /\ state[k] = "Leader" /\ currentTerm'[k] = currentTerm[k]
               /\ log'[k] = log[k],
           UNCHANGED <<nextIndex, matchIndex>>,
           aeReq' \subseteq aeReq, aeRep' \subseteq aeRep,
           isReq' \subseteq isReq, isRep' \subseteq isRep
    PROVE  LeadersInRange'
<1>1. \A i \in Server : state'[i] = "Leader" =>
          /\ state[i] = "Leader" /\ currentTerm'[i] = currentTerm[i]
          /\ nextIndex'[i] = nextIndex[i] /\ matchIndex'[i] = matchIndex[i]
          /\ getLastIndex(log'[i]) \in Nat
          /\ getLastIndex(log'[i]) >= getLastIndex(log[i])
  <2> SUFFICES ASSUME NEW i \in Server, state'[i] = "Leader"
               PROVE  /\ state[i] = "Leader" /\ currentTerm'[i] = currentTerm[i]
                      /\ nextIndex'[i] = nextIndex[i] /\ matchIndex'[i] = matchIndex[i]
                      /\ getLastIndex(log'[i]) \in Nat
                      /\ getLastIndex(log'[i]) >= getLastIndex(log[i])
    OBVIOUS
  <2>1. getLastIndex(log[i]) \in Nat
    BY ServerLog
  <2>2. log'[i] = log[i]
    OBVIOUS
  <2> QED BY SMTT(10), <2>1, <2>2
<1>2. \A m \in aeReq' : m \in aeReq
          \/ m.PrevLogIndex + Len(m.Entries) <= getLastIndex(log'[m.LeaderId])
  OBVIOUS
<1>3. \A m \in aeRep' : m \in aeRep \/ \E q \in aeReq :
          /\ m.to = q.LeaderId /\ m.argsTerm = q.Term
          /\ m.lastSent = q.PrevLogIndex + Len(q.Entries)
          /\ m.PrevLogIndex <= m.lastSent /\ m.ConflictIndex <= m.lastSent
  OBVIOUS
<1>4. \A m \in isReq' : m \in isReq
          \/ m.LastIncludedIndex <= getLastIndex(log'[m.LeaderId])
  OBVIOUS
<1>5. \A m \in isRep' : m \in isRep \/ \E q \in isReq :
          /\ m.to = q.LeaderId /\ m.argsTerm = q.Term
          /\ m.LastIncludedIndex = q.LastIncludedIndex
  OBVIOUS
<1> QED BY <1>1, <1>2, <1>3, <1>4, <1>5, LeadersStep

\* The only server a step touches is j: this is its state afterwards, and it
\* is persisted.
ServerIs(j, t, v, s, l, c) ==
    /\ currentTerm' = [currentTerm EXCEPT ![j] = t]
    /\ voteFor' = [voteFor EXCEPT ![j] = v]
    /\ state' = [state EXCEPT ![j] = s]
    /\ log' = [log EXCEPT ![j] = l]
    /\ commitIndex' = [commitIndex EXCEPT ![j] = c]
    /\ disk' = [disk EXCEPT ![j] = encodeState(j)']

\* That state is a sound one, and the term has not gone back.
ServerFine(j, t, v, s, l, c) ==
    /\ t \in Nat /\ v \in Server \cup {None} /\ s \in RuleState
    /\ l \in LogType /\ c \in Nat
    /\ Contiguous(l) /\ getFirstIndex(l) <= c /\ t >= currentTerm[j]
    /\ s = "Candidate" => \/ t > currentTerm[j]
                          \/ state[j] = "Candidate" /\ t = currentTerm[j]

ServerTypes ==
    /\ currentTerm \in [Server -> Nat]
    /\ voteFor \in [Server -> Server \cup {None}]
    /\ log \in [Server -> LogType]
    /\ disk \in [Server -> Saved]
    /\ state \in [Server -> RuleState]
    /\ commitIndex \in [Server -> Nat]

\* What follows of such a step.
ServerStepped(j, t, s, l) ==
    /\ ServerTypes' /\ LogsSound' /\ TermsGrow
    /\ \A k \in Server \ {j} : /\ state'[k] = state[k]
                               /\ currentTerm'[k] = currentTerm[k]
                               /\ log'[k] = log[k]
    /\ state'[j] = s /\ currentTerm'[j] = t /\ log'[j] = l

\* A server that is no candidate afterwards.
LEMMA NoCandidateFine ==
    ASSUME NEW j \in Server, NEW t \in Nat, NEW v \in Server \cup {None},
           NEW s \in {"Follower", "Dead"}, NEW l \in LogType, NEW c \in Nat,
           Contiguous(l), getFirstIndex(l) <= c, t >= currentTerm[j]
    PROVE  ServerFine(j, t, v, s, l, c)
BY DEF ServerFine, RuleState

LEMMA ServerStep ==
    ASSUME IndexInv, NEW j \in Server, NEW t, NEW v, NEW s, NEW l, NEW c,
           ServerIs(j, t, v, s, l, c), ServerFine(j, t, v, s, l, c)
    PROVE  ServerStepped(j, t, s, l)
<1> USE DEF ServerFine
<1>1. ServerTypes
  BY DEF IndexInv, TypeOK, ServerTypes
<1>2. /\ currentTerm'[j] = t /\ voteFor'[j] = v /\ state'[j] = s
      /\ log'[j] = l /\ commitIndex'[j] = c
  BY <1>1 DEF ServerTypes, ServerIs
<1>3. ASSUME NEW k \in Server \ {j}
      PROVE  /\ currentTerm'[k] = currentTerm[k] /\ voteFor'[k] = voteFor[k]
             /\ state'[k] = state[k] /\ log'[k] = log[k]
             /\ commitIndex'[k] = commitIndex[k] /\ disk'[k] = disk[k]
  BY <1>1 DEF ServerTypes, ServerIs
<1>4. encodeState(j)' = [currentTerm |-> t, voteFor |-> v, log |-> l]
      /\ disk'[j] = encodeState(j)'
  BY <1>1, <1>2 DEF ServerTypes, ServerIs, encodeState
<1>5. ServerTypes'
  <2>1. encodeState(j)' \in Saved
    BY SMTT(10), <1>4 DEF Saved
  <2>2. disk' \in [Server -> Saved]
    BY <1>1, <2>1 DEF ServerTypes, ServerIs
  <2> QED BY <1>1, <2>2 DEF ServerTypes, ServerIs
<1>6. LogsSound'
  <2> SUFFICES ASSUME NEW k \in Server
               PROVE  /\ Contiguous(log'[k]) /\ disk'[k] = encodeState(k)'
                      /\ getFirstIndex(log'[k]) <= commitIndex'[k]
    BY DEF LogsSound
  <2>1. CASE k = j
    BY <1>2, <1>4, <2>1
  <2>2. CASE k # j
    <3>1. /\ Contiguous(log[k]) /\ disk[k] = encodeState(k)
          /\ getFirstIndex(log[k]) <= commitIndex[k]
      BY DEF IndexInv, LogsSound
    <3> QED BY <1>3, <2>2, <3>1 DEF encodeState
  <2> QED BY <2>1, <2>2
<1>7. TermsGrow
  <2> SUFFICES ASSUME NEW k \in Server
               PROVE  /\ currentTerm'[k] >= currentTerm[k]
                      /\ state'[k] = "Candidate" =>
                           \/ currentTerm'[k] > currentTerm[k]
                           \/ /\ state[k] = "Candidate"
                              /\ currentTerm'[k] = currentTerm[k]
    BY DEF TermsGrow
  <2>1. CASE k = j
    BY <1>2, <2>1
  <2>2. CASE k # j
    BY SMTT(10), <1>1, <1>3, <2>2 DEF ServerTypes
  <2> QED BY <2>1, <2>2
<1> QED BY <1>2, <1>3, <1>5, <1>6, <1>7 DEF ServerStepped

-----------------------------------------------------------------------------
(* Elections *)

\* A server that turns follower of a larger term, and nothing else.
LEMMA IndexBecomeFollower ==
    ASSUME IndexInv, NEW i \in Server, NEW t \in Nat, t > currentTerm[i],
           becomeFollower(i, t),
           UNCHANGED <<commitIndex, nextIndex, matchIndex, spawned, rvReq,
                       aeReq, isReq, elections, kills, votes, elected, committed>>,
           rvRep' \subseteq rvRep, aeRep' \subseteq aeRep, isRep' \subseteq isRep,
           receivedVotes' \in [Server -> Nat],
           calls' \in [Server -> SUBSET Server]
    PROVE  IndexInv'
<1>1. ServerIs(i, t, None, "Follower", log[i], commitIndex[i])
  BY DEF IndexInv, TypeOK, ServerIs, becomeFollower, Persist
<1>2. ServerFine(i, t, None, "Follower", log[i], commitIndex[i])
  <2>1. /\ Contiguous(log[i]) /\ getFirstIndex(log[i]) <= commitIndex[i]
        /\ log[i] \in LogType
    BY ServerLog
  <2>2. currentTerm[i] \in Nat /\ commitIndex[i] \in Nat
    BY DEF IndexInv, TypeOK
  <2> QED BY SMTT(10), <2>1, <2>2 DEF ServerFine, RuleState
<1>3. ServerStepped(i, t, "Follower", log[i])
  BY <1>1, <1>2, ServerStep
<1>4. TypeOK'
  BY <1>3 DEF IndexInv, TypeOK, ServerTypes, ServerStepped
<1>5. TermsPast'
  BY <1>3, <1>4, TermsPastStep DEF IndexInv, ServerStepped
<1>6. LeadersInRange'
  <2>1. \A k \in Server : state'[k] = "Leader" =>
           /\ state[k] = "Leader" /\ currentTerm'[k] = currentTerm[k]
           /\ log'[k] = log[k]
    BY <1>3 DEF ServerStepped
  <2> QED BY <2>1, LeadersKept
<1>7. RequestsFollow'
  BY DEF IndexInv, RequestsFollow
<1> QED BY <1>3, <1>4, <1>5, <1>6, <1>7 DEF IndexInv, ServerStepped

\* A reply of a larger term makes the leader a follower.
LEMMA IndexStepDown ==
    ASSUME IndexInv, NEW i \in Server, NEW m, m.Term \in Nat, StepDown(i, m),
           UNCHANGED <<receivedVotes, calls, spawned, rvReq, rvRep, aeReq, isReq,
                       elections, kills, votes, elected>>,
           aeRep' \subseteq aeRep, isRep' \subseteq isRep
    PROVE  IndexInv'
<1>1. /\ m.Term > currentTerm[i] /\ becomeFollower(i, m.Term)
      /\ UNCHANGED <<nextIndex, matchIndex, commitIndex, committed>>
  BY DEF StepDown, leaderVars
<1>2. /\ receivedVotes' \in [Server -> Nat] /\ calls' \in [Server -> SUBSET Server]
      /\ rvRep' \subseteq rvRep
  BY DEF IndexInv, TypeOK
<1> QED BY <1>1, <1>2, IndexBecomeFollower

LEMMA IndexStartElection ==
    ASSUME IndexInv, NEW i \in Server, startElection(i)
    PROVE  IndexInv'
<1> DEFINE t == currentTerm[i] + 1
<1>1. /\ t \in Nat /\ t > currentTerm[i] /\ log[i] \in LogType
      /\ t >= currentTerm[i] /\ commitIndex[i] \in Nat
      /\ "Candidate" \in RuleState
  BY SMTT(10) DEF IndexInv, TypeOK, RuleState
<1>2. /\ Contiguous(log[i]) /\ getFirstIndex(log[i]) <= commitIndex[i]
      /\ getLastIndex(log[i]) \in Nat /\ getLastTerm(log[i]) \in Nat
  BY ServerLog
<1>3. ServerIs(i, t, i, "Candidate", log[i], commitIndex[i])
  BY ZenonT(30) DEF IndexInv, TypeOK, ServerIs, startElection, Persist
<1>4. UNCHANGED <<rvRep, aeReq, aeRep, isReq, isRep, nextIndex, matchIndex,
                  spawned, kills, elected, committed>>
  BY DEF startElection, aeNet, isNet, leaderVars
<1> HIDE DEF t
<1>5. ServerStepped(i, t, "Candidate", log[i])
  <2>1. ServerFine(i, t, i, "Candidate", log[i], commitIndex[i])
    BY <1>1, <1>2 DEF ServerFine
  <2> QED BY <1>3, <2>1, ServerStep
<1>6. TypeOK'
  <2>1. rvReq' \subseteq RequestVoteArgs
    <3> SUFFICES ASSUME NEW r \in rvReq', r \notin rvReq
                 PROVE  r \in RequestVoteArgs
      BY DEF IndexInv, TypeOK
    <3>1. PICK j \in Server : r = [Term |-> t, CandidateId |-> i, to |-> j,
               LastLogIndex |-> getLastIndex(log[i]),
               LastLogTerm |-> getLastTerm(log[i])]
      BY DEF startElection, t
    <3> QED BY <1>1, <1>2, <3>1 DEF RequestVoteArgs
  <2>2. votes' \subseteq Nat \X Server \X Server
    <3>1. votes' = votes \cup {<<t, i, i>>} /\ votes \subseteq Nat \X Server \X Server
      BY DEF IndexInv, TypeOK, startElection, t
    <3> QED BY SMTT(10), <1>1, <3>1
  <2>3. /\ elections' \in Nat /\ receivedVotes' \in [Server -> Nat]
        /\ calls' \in [Server -> SUBSET Server]
    BY SMTT(10) DEF IndexInv, TypeOK, startElection
  <2> QED BY ZenonT(30), <1>4, <1>5, <2>1, <2>2, <2>3
          DEF IndexInv, TypeOK, ServerTypes, ServerStepped
<1>7. TermsPast'
  BY <1>4, <1>5, <1>6, TermsPastStep DEF IndexInv, ServerStepped
<1>8. LeadersInRange'
  <2>1. \A k \in Server : state'[k] = "Leader" =>
           /\ state[k] = "Leader" /\ currentTerm'[k] = currentTerm[k]
           /\ log'[k] = log[k]
    BY <1>5 DEF ServerStepped
  <2> QED BY <1>4, <2>1, LeadersKept
<1>9. RequestsFollow'
  BY <1>4 DEF IndexInv, RequestsFollow
<1> QED BY <1>5, <1>6, <1>7, <1>8, <1>9 DEF IndexInv, ServerStepped

LEMMA IndexRequestVote ==
    ASSUME IndexInv, NEW j \in Server, NEW m \in rvReq, RequestVote(j, m)
    PROVE  IndexInv'
<1> DEFINE t == TermSeen(j, m.Term)
           v == IF GrantsVote(j, m) THEN m.CandidateId ELSE VoteSeen(j, m.Term)
           s == IF m.Term > currentTerm[j] THEN "Follower" ELSE state[j]
<1>1. /\ m.Term \in Nat /\ m.CandidateId \in Server
      /\ currentTerm[j] \in Nat /\ log[j] \in LogType
      /\ commitIndex[j] \in Nat /\ s \in RuleState
      /\ v \in Server \cup {None} /\ GrantsVote(j, m) \in BOOLEAN
  <2>1. m.Term \in Nat /\ m.CandidateId \in Server
    BY ZenonT(30) DEF IndexInv, TypeOK, RequestVoteArgs
  <2> QED BY <2>1 DEF IndexInv, TypeOK, RuleState, VoteSeen, GrantsVote
<1>2. /\ Contiguous(log[j]) /\ getFirstIndex(log[j]) <= commitIndex[j]
  BY <1>1, ServerLog
<1>3. ServerIs(j, t, v, s, log[j], commitIndex[j])
  BY ZenonT(30) DEF IndexInv, TypeOK, ServerIs, RequestVote, Persist
<1>4. UNCHANGED <<aeReq, aeRep, isReq, isRep, receivedVotes, calls, nextIndex,
                  matchIndex, spawned, elections, kills, elected, committed>>
  BY DEF RequestVote, aeNet, isNet, leaderVars, candidateVars, bounds
<1>5. /\ t \in Nat /\ t >= currentTerm[j]
      /\ s = "Candidate" => \/ t > currentTerm[j]
                            \/ state[j] = "Candidate" /\ t = currentTerm[j]
      /\ s = "Leader" => state[j] = "Leader" /\ t = currentTerm[j]
  BY ZenonT(30), <1>1, LargerTerm DEF TermSeen
<1> HIDE DEF t, v, s
<1>6. ServerStepped(j, t, s, log[j])
  <2>1. ServerFine(j, t, v, s, log[j], commitIndex[j])
    BY <1>1, <1>2, <1>5 DEF ServerFine
  <2> QED BY <1>3, <2>1, ServerStep
<1>7. TypeOK'
  <2>1. rvRep' \subseteq VoteReply
    <3> SUFFICES ASSUME NEW r \in rvRep', r \notin rvRep
                 PROVE  r \in VoteReply
      BY ZenonT(30) DEF IndexInv, TypeOK
    <3>1. r = [Term |-> t, VoteGranted |-> GrantsVote(j, m),
               argsTerm |-> m.Term, from |-> j, to |-> m.CandidateId]
      BY DEF RequestVote, t
    <3> QED BY <1>1, <1>5, <3>1 DEF VoteReply
  <2>2. votes' \subseteq Nat \X Server \X Server
    <3>1. /\ votes' \subseteq votes \cup {<<m.Term, j, m.CandidateId>>}
          /\ votes \subseteq Nat \X Server \X Server
      BY ZenonT(30) DEF IndexInv, TypeOK, RequestVote
    <3> QED BY SMTT(10), <1>1, <3>1
  <2>3. rvReq' \subseteq rvReq
    BY ZenonT(30) DEF RequestVote
  <2> QED BY ZenonT(30), <1>4, <1>6, <2>1, <2>2, <2>3
          DEF IndexInv, TypeOK, ServerTypes, ServerStepped
<1>8. TermsPast'
  BY ZenonT(30), <1>4, <1>6, <1>7, TermsPastStep DEF IndexInv, ServerStepped
<1>9. LeadersInRange'
  <2>1. \A k \in Server : getLastIndex(log[k]) \in Nat /\ log'[k] = log[k]
    BY ZenonT(30), <1>6, ServerLog DEF ServerStepped
  <2>2. \A k \in Server : state'[k] = "Leader" =>
           state[k] = "Leader" /\ currentTerm'[k] = currentTerm[k]
    BY <1>5, <1>6 DEF ServerStepped
  <2> QED BY ZenonT(30), <1>4, <2>1, <2>2, LeadersKept
<1>10. RequestsFollow'
  BY <1>4 DEF IndexInv, RequestsFollow
<1> QED BY <1>6, <1>7, <1>8, <1>9, <1>10 DEF IndexInv, ServerStepped

LEMMA IndexCountVote ==
    ASSUME IndexInv, NEW i \in Server, NEW m \in rvRep,
           RequestVoteReply(i, m), CountVote(i, m)
    PROVE  IndexInv'
<1>1. /\ state[i] = "Candidate"
      /\ UNCHANGED <<currentTerm, voteFor, log, disk, commitIndex, rvReq, aeReq,
                     aeRep, isReq, isRep, spawned, elections, kills, votes,
                     committed>>
      /\ rvRep' \subseteq rvRep
  BY ZenonT(30) DEF RequestVoteReply, CountVote, persistent, aeNet, isNet, bounds
<1>2. \/ UNCHANGED <<state, nextIndex, matchIndex, elected>>
      \/ becomeLeader(i)
  BY DEF CountVote, leaderVars
<1>3. getNextIndex(log[i]) = getLastIndex(log[i]) + 1 /\ getLastIndex(log[i]) \in Nat
  BY ServerLog
<1>4. TypeOK'
  <2>1. /\ receivedVotes' \in [Server -> Nat]
        /\ calls' \in [Server -> SUBSET Server]
    BY SMTT(10) DEF RequestVoteReply, CountVote, IndexInv, TypeOK
  <2>2. /\ state' \in [Server -> RuleState]
        /\ nextIndex' \in [Server -> [Server -> Nat]]
        /\ matchIndex' \in [Server -> [Server -> Nat]]
        /\ elected' \subseteq Nat \X Server
    <3>1. CASE UNCHANGED <<state, nextIndex, matchIndex, elected>>
      BY <3>1 DEF IndexInv, TypeOK
    <3>2. CASE becomeLeader(i)
      <4>1. elected' = elected \cup {<<currentTerm[i], i>>} /\ currentTerm[i] \in Nat
            /\ elected \subseteq Nat \X Server
        BY <3>2 DEF becomeLeader, IndexInv, TypeOK
      <4>2. elected' \subseteq Nat \X Server
        BY SMTT(10), <4>1
      <4>3. getNextIndex(log[i]) \in Nat
        BY SMTT(10), <1>3
      <4> QED BY <3>2, <4>2, <4>3 DEF becomeLeader, IndexInv, TypeOK, RuleState
    <3> QED BY <1>2, <3>1, <3>2
  <2> QED BY <1>1, <2>1, <2>2 DEF IndexInv, TypeOK
<1>5. LogsSound'
  BY ZenonT(30), <1>1 DEF IndexInv, LogsSound, encodeState
<1>6. RequestsFollow'
  BY <1>1 DEF IndexInv, RequestsFollow
<1>7. /\ \A k \in Server \ {i} : /\ state'[k] = state[k]
                                 /\ nextIndex'[k] = nextIndex[k]
                                 /\ matchIndex'[k] = matchIndex[k]
      /\ state'[i] = "Leader" =>
           /\ nextIndex'[i] = [j \in Server |-> getNextIndex(log[i])]
           /\ matchIndex'[i] = [j \in Server |-> 0]
      /\ state'[i] \in {"Candidate", "Leader"}
  BY <1>1, <1>2 DEF becomeLeader, IndexInv, TypeOK
<1>8. TermsPast'
  <2>1. TermsGrow
    <3>1. currentTerm \in [Server -> Nat]
      BY Zenon DEF IndexInv, TypeOK
    <3> QED BY SMTT(10), SMTT(30), <1>1, <1>2, <1>7, <3>1 DEF TermsGrow
  <2> QED BY ZenonT(30), <1>1, <1>4, <2>1, TermsPastStep DEF IndexInv
<1>9. LeadersInRange'
  <2> SUFFICES ASSUME NEW k \in Server, state'[k] = "Leader"
               PROVE  LeaderInRange(k)'
    BY DEF LeadersInRange
  <2>1. CASE k # i
    <3>1. LeaderInRange(k)
      BY ZenonT(30), <1>7, <2>1 DEF IndexInv, LeadersInRange
    <3> QED BY ZenonT(30), <1>1, <1>7, <2>1, <3>1 DEF LeaderInRange
  <2>2. CASE k = i
    <3>1. /\ \A q \in aeReq \cup isReq : q.LeaderId = i => q.Term # currentTerm[i]
          /\ \A q \in aeRep \cup isRep : q.to = i => q.argsTerm # currentTerm[i]
      <4>1. /\ \A q \in aeReq \cup isReq : q.LeaderId = i => q.Term < currentTerm[i]
            /\ \A q \in aeRep \cup isRep : q.to = i => q.argsTerm < currentTerm[i]
        BY <1>1 DEF IndexInv, TermsPast, LedBefore
      <4>2. /\ currentTerm[i] \in Nat
            /\ \A q \in aeReq \cup isReq : q.Term \in Nat
            /\ \A q \in aeRep \cup isRep : q.argsTerm \in Nat
        BY ZenonT(30) DEF IndexInv, TypeOK, AppendEntriesArgs, InstallSnapshotArgs,
               EntriesReply, SnapshotReply
      <4> QED BY SMTT(10), <4>1, <4>2
    <3>2. \A j \in Server : /\ nextIndex'[i][j] >= 1
                            /\ nextIndex'[i][j] <= getNextIndex(log'[i])
                            /\ matchIndex'[i][j] <= getLastIndex(log'[i])
      BY SMTT(10), <1>1, <1>3, <1>7, <2>2
    <3> QED BY ZenonT(30), <1>1, <2>2, <3>1, <3>2 DEF LeaderInRange
  <2> QED BY <2>1, <2>2
<1> QED BY <1>4, <1>5, <1>6, <1>8, <1>9 DEF IndexInv

LEMMA IndexRequestVoteReply ==
    ASSUME IndexInv, NEW i \in Server, NEW m \in rvRep, RequestVoteReply(i, m)
    PROVE  IndexInv'
<1>1. CASE CountVote(i, m)
  BY <1>1, IndexCountVote
<1>2. CASE LoseElection(i, m)
  <2>1. m.Term \in Nat /\ m.Term > currentTerm[i] /\ becomeFollower(i, m.Term)
    BY ZenonT(30), <1>2 DEF LoseElection, IndexInv, TypeOK, VoteReply
  <2>2. /\ UNCHANGED <<commitIndex, nextIndex, matchIndex, spawned, rvReq,
                       aeReq, isReq, elections, kills, votes, elected, committed>>
        /\ rvRep' \subseteq rvRep /\ aeRep' \subseteq aeRep /\ isRep' \subseteq isRep
        /\ receivedVotes' \in [Server -> Nat]
        /\ calls' \in [Server -> SUBSET Server]
    BY <1>2 DEF LoseElection, RequestVoteReply, leaderVars, aeNet, isNet, bounds,
                IndexInv, TypeOK
  <2> QED BY <2>1, <2>2, IndexBecomeFollower
<1> QED BY <1>1, <1>2 DEF RequestVoteReply

-----------------------------------------------------------------------------
(* What the log operations return *)

\* A set of naturals has a least member: the CHOOSE of Merge and of FirstOfRun
\* names something.
LEMMA LeastNat ==
    ASSUME NEW S \in SUBSET Nat, S # {}
    PROVE  \E x \in S : \A y \in S : x <= y
<1> DEFINE Less == {ss \in Nat \X Nat : ss[1] < ss[2]}
<1>1. IsWellFoundedOn(Less, Nat)
  BY NatLessThanWellFounded DEF OpToRel
<1>2. \A x, y \in Nat : y < x => <<y, x>> \in Less
  OBVIOUS
<1> HIDE DEF Less
<1>3. PICK x \in S : \A y \in S : ~ (<<y, x>> \in Less)
  BY Zenon, <1>1, WFMin
<1>4. \A y \in S : y \in Nat
  OBVIOUS
<1>5. \A y \in S : ~ (y < x)
  BY <1>2, <1>3, <1>4, Zenon
<1>6. \A y \in S : x <= y
  BY SMTT(10), <1>4, <1>5
<1> QED BY <1>6, Zenon

\* A bounded set of naturals has a greatest member: the CHOOSE of
\* SameTermBefore and of CommitIndexAfter names something.
LEMMA GreatestNat ==
    ASSUME NEW n \in Nat, NEW S \in SUBSET (0 .. n), S # {}
    PROVE  \E x \in S : \A y \in S : y <= x
<1> DEFINE T == {n - x : x \in S}
<1>1. T \in SUBSET Nat /\ T # {}
  <2>1. \A x \in S : x \in 0 .. n
    OBVIOUS
  <2>2. \A x \in S : n - x \in Nat
    BY SMTT(10), <2>1
  <2> QED BY Zenon, <2>2
<1>2. PICK t \in T : \A y \in T : t <= y
  <2> HIDE DEF T
  <2> QED BY <1>1, LeastNat
<1>3. PICK x \in S : t = n - x
  OBVIOUS
<1>4. \A y \in S : n - x <= n - y
  BY <1>2, <1>3
<1> QED BY SMTT(10), <1>4

\* What concatenation makes of two sequences.
LEMMA Concatenation ==
    ASSUME NEW S, NEW a \in Seq(S), NEW b \in Seq(S)
    PROVE  /\ a \o b \in Seq(S) /\ Len(a \o b) = Len(a) + Len(b)
           /\ \A i \in 1 .. Len(a) + Len(b) :
                 (a \o b)[i] = IF i <= Len(a) THEN a[i] ELSE b[i - Len(a)]
<1>1. a \o b \in Seq(S)
  BY SMTT(10)
<1>2. Len(a \o b) = Len(a) + Len(b)
  BY SMTT(10)
<1>3. ASSUME NEW i \in 1 .. Len(a) + Len(b)
      PROVE  (a \o b)[i] = IF i <= Len(a) THEN a[i] ELSE b[i - Len(a)]
  <2>1. CASE i <= Len(a)
    BY SMTT(10), <2>1
  <2>2. CASE ~ (i <= Len(a))
    BY SMTT(10), <2>2
  <2> QED BY <2>1, <2>2
<1> QED BY <1>1, <1>2, <1>3

-----------------------------------------------------------------------------
\* Start: the new entry carries the next index.
LEMMA AppendedLog ==
    ASSUME NEW l \in LogType, Contiguous(l), NEW e \in LogEntry,
           e.Index = getNextIndex(l)
    PROVE  /\ Append(l, e) \in LogType /\ Contiguous(Append(l, e))
           /\ getFirstIndex(Append(l, e)) = getFirstIndex(l)
           /\ getLastIndex(Append(l, e)) = getNextIndex(l)
<1> DEFINE a == Append(l, e)
<1>1. /\ a \in Seq(LogEntry) /\ Len(a) = Len(l) + 1
      /\ \A i \in 1 .. Len(l) : a[i] = l[i]
      /\ a[Len(l) + 1] = e
  BY SMTT(10), LogShape
<1> HIDE DEF a
<1>2. a \in LogType
  BY SMTT(10), <1>1, LogShape DEF LogType
<1>3. getFirstIndex(a) = getFirstIndex(l)
  BY SMTT(10), <1>1, LogShape DEF getFirstIndex
<1>4. Contiguous(a)
  <2> SUFFICES ASSUME NEW k \in 1 .. Len(a)
               PROVE  a[k].Index = getFirstIndex(l) + k - 1
    BY <1>3 DEF Contiguous
  <2>1. Len(l) \in Nat /\ getNextIndex(l) = getFirstIndex(l) + Len(l)
        /\ getFirstIndex(l) \in Nat
    BY SMTT(10), LogShape
  <2>2. CASE k = Len(l) + 1
    BY SMTT(10), <1>1, <2>1, <2>2
  <2>3. CASE k \in 1 .. Len(l)
    BY <1>1, <2>3 DEF Contiguous
  <2> QED BY SMTT(10), <1>1, <2>1, <2>2, <2>3
<1>5. getLastIndex(a) = getNextIndex(l)
  BY <1>1, LogShape DEF getLastIndex
<1> QED BY <1>2, <1>3, <1>4, <1>5 DEF a

\* Snapshot and AdoptSnapshot: a sentinel in front of what follows `index`.
LEMMA CompactedLog ==
    ASSUME NEW l \in LogType, Contiguous(l), NEW term \in Nat,
           NEW index \in (getFirstIndex(l) + 1) .. getLastIndex(l)
    PROVE  LET c == <<Sentinel(index, term)>>
                    \o SubSeq(l, index - getFirstIndex(l) + 2, Len(l))
           IN /\ c \in LogType /\ Contiguous(c)
              /\ getFirstIndex(c) = index /\ getLastIndex(c) = getLastIndex(l)
<1> DEFINE s == <<Sentinel(index, term)>>
           t == SubSeq(l, index - getFirstIndex(l) + 2, Len(l))
           c == s \o t
<1>1. /\ index \in Nat /\ getFirstIndex(l) \in Nat /\ Len(l) \in Nat
      /\ getLastIndex(l) = getFirstIndex(l) + Len(l) - 1
      /\ getFirstIndex(l) < index /\ index <= getLastIndex(l)
  BY SMTT(10), LogShape
<1>2. s \in Seq(LogEntry) /\ Len(s) = 1 /\ s[1] = Sentinel(index, term)
      /\ s[1].Index = index
  BY SMTT(10), <1>1 DEF Sentinel, LogEntry
<1>3. \A i \in (index - getFirstIndex(l) + 2) .. Len(l) : l[i] \in LogEntry
  <2> TAKE i \in (index - getFirstIndex(l) + 2) .. Len(l)
  <2>1. i \in 1 .. Len(l)
    BY SMTT(10), <1>1
  <2> QED BY SMTT(10), SMTT(30), <2>1, LogShape
<1>4. /\ t \in Seq(LogEntry)
      /\ Len(t) = getLastIndex(l) - index
      /\ \A i \in 1 .. Len(t) : t[i] = l[index - getFirstIndex(l) + 1 + i]
  <2> DEFINE p == index - getFirstIndex(l) + 2
  <2>1. /\ p \in Int /\ Len(l) \in Int
        /\ Len(l) - p + 1 = getLastIndex(l) - index
        /\ getLastIndex(l) - index \in Nat
    BY SMTT(10), <1>1
  <2>2. /\ SubSeq(l, p, Len(l)) \in Seq(LogEntry)
        /\ Len(SubSeq(l, p, Len(l))) = IF p <= Len(l) THEN Len(l) - p + 1 ELSE 0
        /\ \A i \in 1 .. Len(l) - p + 1 : SubSeq(l, p, Len(l))[i] = l[p + i - 1]
    BY SMTT(10), SMTT(30), <2>1, <1>3
  <2>3. Len(t) = getLastIndex(l) - index
    BY SMTT(10), <2>1, <2>2
  <2>4. \A i \in 1 .. Len(t) : t[i] = l[p + i - 1]
    BY <2>1, <2>2, <2>3
  <2>5. \A i \in 1 .. Len(t) : p + i - 1 = index - getFirstIndex(l) + 1 + i
    BY SMTT(10), SMTT(30), <1>1, <2>1, <2>3
  <2> QED BY <2>2, <2>3, <2>4, <2>5
<1> HIDE DEF s, t
<1>5. /\ c \in Seq(LogEntry) /\ Len(c) = 1 + Len(t) /\ c[1] = s[1]
      /\ \A i \in 2 .. Len(c) : c[i] = t[i - 1]
  <2>1. /\ c \in Seq(LogEntry) /\ Len(c) = Len(s) + Len(t)
        /\ \A i \in 1 .. Len(s) + Len(t) :
              c[i] = IF i <= Len(s) THEN s[i] ELSE t[i - Len(s)]
    BY Zenon, <1>2, <1>4, Concatenation
  <2>2. Len(t) \in Nat
    BY SMTT(10), <1>4
  <2> HIDE DEF c
  <2> QED BY SMTT(10), <1>2, <2>1, <2>2
<1> HIDE DEF c
<1>6. c \in LogType /\ getFirstIndex(c) = index
  BY SMTT(10), SMTT(30), <1>2, <1>4, <1>5, LogShape DEF LogType, getFirstIndex
<1>7. \A i \in 1 .. Len(t) : t[i].Index = index + i
  <2> TAKE i \in 1 .. Len(t)
  <2> DEFINE k == index - getFirstIndex(l) + 1 + i
  <2>1. t[i] = l[k]
    BY <1>4
  <2>2. k \in 1 .. Len(l) /\ getFirstIndex(l) + k - 1 = index + i
    BY SMTT(10), SMTT(30), <1>1, <1>4
  <2> HIDE DEF k
  <2>3. l[k].Index = getFirstIndex(l) + k - 1
    BY <2>2 DEF Contiguous
  <2> QED BY <2>1, <2>2, <2>3
<1>8. Contiguous(c)
  <2> SUFFICES ASSUME NEW k \in 1 .. Len(c)
               PROVE  c[k].Index = index + k - 1
    BY <1>6 DEF Contiguous
  <2>1. CASE k = 1
    BY SMTT(10), SMTT(30), <1>1, <1>2, <1>5, <2>1
  <2>2. CASE k # 1
    <3>1. Len(t) \in Nat
      BY SMTT(10), <1>4
    <3>2. k \in 2 .. Len(c) /\ k - 1 \in 1 .. Len(t)
      BY SMTT(10), SMTT(30), <1>5, <2>2, <3>1
    <3> QED BY Zenon, <1>1, <1>5, <1>7, <3>2
  <2> QED BY <2>1, <2>2
<1>9. getLastIndex(c) = getLastIndex(l)
  <2>1. getLastIndex(c) = index + Len(c) - 1
    BY <1>6, <1>8, LogShape
  <2>2. getLastIndex(l) \in Nat
    BY LogShape
  <2> QED BY SMTT(10), SMTT(30), <1>1, <1>4, <1>5, <2>1, <2>2
<1> QED BY <1>6, <1>8, <1>9 DEF c, s, t

\* SendAppendEntries: the entries copied from nextIndex on.
LEMMA CopiedEntries ==
    ASSUME NEW l \in LogType, Contiguous(l),
           NEW prev \in getFirstIndex(l) .. getLastIndex(l)
    PROVE  LET es == SubSeq(l, prev - getFirstIndex(l) + 2, Len(l))
           IN /\ es \in Seq(LogEntry) /\ Len(es) = getLastIndex(l) - prev
              /\ Follows(es, prev)
<1> DEFINE es == SubSeq(l, prev - getFirstIndex(l) + 2, Len(l))
<1>1. /\ prev \in Nat /\ getFirstIndex(l) \in Nat /\ Len(l) \in Nat
      /\ getLastIndex(l) = getFirstIndex(l) + Len(l) - 1
      /\ getFirstIndex(l) <= prev /\ prev <= getLastIndex(l)
  BY SMTT(10), LogShape
<1>2. \A i \in (prev - getFirstIndex(l) + 2) .. Len(l) : l[i] \in LogEntry
  <2> TAKE i \in (prev - getFirstIndex(l) + 2) .. Len(l)
  <2>1. i \in 1 .. Len(l)
    BY SMTT(10), <1>1
  <2> QED BY SMTT(10), SMTT(30), <2>1, LogShape
<1>3. /\ es \in Seq(LogEntry) /\ Len(es) = getLastIndex(l) - prev
      /\ \A i \in 1 .. Len(es) : es[i] = l[prev - getFirstIndex(l) + 1 + i]
  <2> DEFINE p == prev - getFirstIndex(l) + 2
  <2>1. /\ p \in Int /\ Len(l) \in Int
        /\ Len(l) - p + 1 = getLastIndex(l) - prev
        /\ getLastIndex(l) - prev \in Nat
    BY SMTT(10), <1>1
  <2>2. /\ SubSeq(l, p, Len(l)) \in Seq(LogEntry)
        /\ Len(SubSeq(l, p, Len(l))) = IF p <= Len(l) THEN Len(l) - p + 1 ELSE 0
        /\ \A i \in 1 .. Len(l) - p + 1 : SubSeq(l, p, Len(l))[i] = l[p + i - 1]
    BY SMTT(10), SMTT(30), <2>1, <1>2
  <2>3. Len(es) = getLastIndex(l) - prev
    BY SMTT(10), <2>1, <2>2
  <2>4. \A i \in 1 .. Len(es) : es[i] = l[p + i - 1]
    BY <2>1, <2>2, <2>3
  <2>5. \A i \in 1 .. Len(es) : p + i - 1 = prev - getFirstIndex(l) + 1 + i
    BY SMTT(10), SMTT(30), <1>1, <2>1, <2>3
  <2> QED BY <2>2, <2>3, <2>4, <2>5
<1> HIDE DEF es
<1>4. \A i \in 1 .. Len(es) : es[i].Index = prev + i
  <2> TAKE i \in 1 .. Len(es)
  <2> DEFINE k == prev - getFirstIndex(l) + 1 + i
  <2>1. es[i] = l[k]
    BY <1>3
  <2>2. k \in 1 .. Len(l) /\ getFirstIndex(l) + k - 1 = prev + i
    BY SMTT(10), SMTT(30), <1>1, <1>3
  <2> HIDE DEF k
  <2>3. l[k].Index = getFirstIndex(l) + k - 1
    BY <2>2 DEF Contiguous
  <2> QED BY <2>1, <2>2, <2>3
<1>5. Follows(es, prev)
  BY <1>4 DEF Follows
<1> QED BY <1>3, <1>5 DEF es

\* AppendEntries: what Merge makes of a log and a request that fits it.
LEMMA MergedLog ==
    ASSUME NEW l \in LogType, Contiguous(l), NEW m,
           m.PrevLogIndex \in getFirstIndex(l) .. getLastIndex(l),
           m.Entries \in Seq(LogEntry), Follows(m.Entries, m.PrevLogIndex)
    PROVE  /\ Merge(l, m) \in LogType /\ Contiguous(Merge(l, m))
           /\ getFirstIndex(Merge(l, m)) = getFirstIndex(l)
<1> DEFINE first == getFirstIndex(l)
           prev == m.PrevLogIndex
           es == m.Entries
           miss == Missing(l, m)
           n == CHOOSE p \in miss : \A q \in miss : p <= q
           cut == prev + n - first
           a == SubSeq(l, 1, cut)
           b == SubSeq(es, n, Len(es))
<1>1. CASE miss = {}
  BY <1>1 DEF Merge
<1>2. CASE miss # {}
  <2>1. /\ prev \in Nat /\ first \in Nat /\ Len(l) \in Nat /\ Len(l) >= 1
        /\ getLastIndex(l) = first + Len(l) - 1 /\ Len(es) \in Nat
        /\ getNextIndex(l) = first + Len(l)
        /\ first <= prev /\ prev <= getLastIndex(l)
    BY SMTT(10), SMTT(30), LogShape
  <2>2. miss \in SUBSET Nat
    BY SMTT(10), <2>1 DEF Missing
  <2>3. n \in miss /\ \A q \in miss : n <= q
    <3> HIDE DEF miss
    <3>1. \E p \in miss : \A q \in miss : p <= q
      BY <1>2, <2>2, LeastNat
    <3> QED BY <3>1
  <2> HIDE DEF n
  <2>4. n \in 1 .. Len(es)
    BY <2>3 DEF Missing
  <2>5. cut <= Len(l)
    <3>1. CASE n = 1
      BY SMTT(10), <2>1, <3>1
    <3>2. CASE n > 1
      <4>1. n - 1 \in 1 .. Len(es) /\ n - 1 \notin miss
        BY SMTT(10), <2>1, <2>2, <2>3, <2>4, <3>2
      <4>2. ~ (prev + (n - 1) >= getNextIndex(l))
        BY <4>1 DEF Missing
      <4> QED BY SMTT(10), SMTT(30), <2>1, <2>4, <4>2
    <3> QED BY SMTT(10), <2>4, <3>1, <3>2
  <2>6. cut \in Nat /\ cut >= 1
    BY SMTT(10), <2>1, <2>4
  <2> HIDE DEF miss, cut, first, prev, es
  <2>7. \A i \in 1 .. Len(l) : l[i] \in LogEntry
    BY SMTT(10), LogShape
  <2>8. /\ a \in Seq(LogEntry) /\ Len(a) = cut
        /\ \A i \in 1 .. cut : a[i] = l[i]
    <3>1. \A i \in 1 .. cut : l[i] \in LogEntry
      BY SMTT(10), SMTT(30), <2>1, <2>5, <2>6, <2>7
    <3>2. /\ a \in Seq(LogEntry)
          /\ Len(a) = IF 1 <= cut THEN cut - 1 + 1 ELSE 0
          /\ \A i \in 1 .. cut - 1 + 1 : a[i] = l[1 + i - 1]
      BY SMTT(10), <2>6, <3>1
    <3> QED BY SMTT(10), <2>6, <3>2
  <2>9. /\ b \in Seq(LogEntry) /\ Len(b) = Len(es) - n + 1
        /\ \A i \in 1 .. Len(b) : b[i] = es[n + i - 1]
    <3>1. \A i \in n .. Len(es) : es[i] \in LogEntry
      BY SMTT(10), <2>1, <2>4 DEF es
    <3>2. /\ b \in Seq(LogEntry)
          /\ Len(b) = IF n <= Len(es) THEN Len(es) - n + 1 ELSE 0
          /\ \A i \in 1 .. Len(es) - n + 1 : b[i] = es[n + i - 1]
      BY SMTT(10), <2>1, <2>4, <3>1
    <3> QED BY SMTT(10), <2>1, <2>4, <3>2
  <2>10. \A i \in 1 .. Len(b) : b[i].Index = first + cut + i - 1
    <3> SUFFICES ASSUME NEW i \in 1 .. Len(b)
                 PROVE  b[i].Index = first + cut + i - 1
      BY Zenon
    <3>1. Len(es) \in Nat /\ n \in Nat /\ 1 <= n /\ Len(b) = Len(es) - n + 1
      BY SMTT(10), <2>1, <2>4, <2>9
    <3>2. n + i - 1 \in 1 .. Len(es)
      BY SMTT(10), <3>1
    <3>3. es[n + i - 1].Index = prev + (n + i - 1)
      BY <3>2 DEF Follows, es, prev
    <3>4. prev + (n + i - 1) = first + cut + i - 1
      BY SMTT(10), <2>1, <2>4, <2>9 DEF cut
    <3> QED BY <2>9, <3>3, <3>4
  <2> DEFINE c == a \o b
  <2> HIDE DEF a, b
  <2>11. /\ c \in Seq(LogEntry) /\ Len(c) = Len(a) + Len(b)
         /\ \A i \in 1 .. Len(a) + Len(b) :
               c[i] = IF i <= Len(a) THEN a[i] ELSE b[i - Len(a)]
    BY Zenon, <2>8, <2>9, Concatenation
  <2> HIDE DEF c
  <2>12. Len(b) \in Nat
    BY SMTT(10), <2>9
  <2>13. c \in LogType /\ getFirstIndex(c) = first
    BY SMTT(10), <2>6, <2>8, <2>11, <2>12, <2>1, <2>5 DEF LogType, getFirstIndex, first
  <2>14. Contiguous(c)
    <3> SUFFICES ASSUME NEW k \in 1 .. Len(c)
                 PROVE  c[k].Index = first + k - 1
      BY <2>13 DEF Contiguous
    <3>1. CASE k <= cut
      <4>1. k \in 1 .. Len(l) /\ c[k] = l[k]
        BY Z3T(20), SMTT(30), <2>1, <2>5, <2>6, <2>8, <2>11, <2>12, <3>1
      <4> QED BY <4>1 DEF Contiguous, first
    <3>2. CASE ~ (k <= cut)
      <4>1. k - cut \in 1 .. Len(b) /\ c[k] = b[k - cut]
        BY SMTT(10), SMTT(30), <2>6, <2>8, <2>11, <2>12, <3>2
      <4>2. b[k - cut].Index = first + cut + (k - cut) - 1
        BY <2>10, <4>1
      <4> QED BY SMTT(10), SMTT(30), <2>1, <2>6, <4>1, <4>2
    <3> QED BY <3>1, <3>2
  <2>15. Merge(l, m) = c
    BY Zenon, <1>2 DEF Merge, c, a, b, n, cut, prev, first, es, miss
  <2> QED BY <2>13, <2>14, <2>15 DEF first
<1> QED BY <1>1, <1>2

\* AppendEntries: the conflict index of the reply is an index of the log.
LEMMA FirstOfRunRange ==
    ASSUME NEW l \in LogType, Contiguous(l),
           NEW prev \in getFirstIndex(l) .. getLastIndex(l)
    PROVE  FirstOfRun(l, prev) \in getFirstIndex(l) .. prev
<1> DEFINE first == getFirstIndex(l)
           Same(k) == \A h \in k .. prev : getTerm(l, h) = getTerm(l, prev)
           S == {k \in first .. prev : Same(k)}
<1>1. prev \in Nat /\ first \in Nat /\ first <= prev
  BY SMTT(10), LogShape
<1>2. S \in SUBSET Nat /\ S # {}
  <2>1. prev \in S
    BY SMTT(10), <1>1
  <2> QED BY SMTT(10), <1>1, <2>1
<1>3. PICK k \in S : \A h \in S : k <= h
  <2> HIDE DEF S
  <2> QED BY <1>2, LeastNat
<1>4. k \in first .. prev /\ Same(k)
  OBVIOUS
<1>5. k > first => getTerm(l, k - 1) # getTerm(l, prev)
  <2> SUFFICES ASSUME k > first, getTerm(l, k - 1) = getTerm(l, prev)
               PROVE  FALSE
    OBVIOUS
  <2>1. k - 1 \in first .. prev
    BY SMTT(10), <1>1, <1>4
  <2>2. Same(k - 1)
    <3> TAKE h \in (k - 1) .. prev
    <3>1. h = k - 1 \/ h \in k .. prev
      BY SMTT(10), SMTT(30), <1>1, <1>4
    <3> QED BY <1>4, <3>1
  <2>3. k <= k - 1
    BY <1>3, <2>1, <2>2
  <2> QED BY SMTT(10), <1>1, <1>4, <2>3
<1>6. \E x \in getFirstIndex(l) .. prev :
          /\ \A h \in x .. prev : getTerm(l, h) = getTerm(l, prev)
          /\ x > getFirstIndex(l) => getTerm(l, x - 1) # getTerm(l, prev)
  BY <1>4, <1>5
<1> QED BY <1>6, Zenon DEF FirstOfRun

\* BackUp: the scan ends at an index of the log below prev, or at -1.
LEMMA SameTermBeforeRange ==
    ASSUME NEW l \in LogType, Contiguous(l), NEW prev \in Nat, NEW term \in Int
    PROVE  SameTermBefore(l, prev, term)
               \in {-1} \cup getFirstIndex(l) .. (prev - 1)
<1> DEFINE below == {k \in getFirstIndex(l) .. (prev - 1) : getTerm(l, k) <= term}
           last == CHOOSE k \in below : \A h \in below : h <= k
<1>1. CASE below = {}
  BY <1>1 DEF SameTermBefore
<1>2. CASE below # {}
  <2>1. below \in SUBSET (0 .. prev)
    BY SMTT(10), SMTT(30), LogShape
  <2>2. last \in below
    <3> HIDE DEF below
    <3>1. \E k \in below : \A h \in below : h <= k
      BY Zenon, <1>2, <2>1, GreatestNat
    <3> QED BY <3>1
  <2> QED BY <2>2 DEF SameTermBefore
<1> QED BY <1>1, <1>2

\* The commit scan: it ends between the old commitIndex and the log's end.
LEMMA CommitIndexAfterRange ==
    ASSUME NEW i, NEW match, log[i] \in LogType, Contiguous(log[i]),
           commitIndex[i] \in Nat
    PROVE  \/ CommitIndexAfter(i, match) = commitIndex[i]
           \/ CommitIndexAfter(i, match)
                \in (commitIndex[i] + 1) .. getLastIndex(log[i])
<1> DEFINE points == CommitPoints(i, match)
           k0 == CHOOSE k \in points : \A h \in points : h <= k
<1>1. CASE points = {}
  BY <1>1 DEF CommitIndexAfter
<1>2. CASE points # {}
  <2>1. points \subseteq (commitIndex[i] + 1) .. getLastIndex(log[i])
    BY DEF CommitPoints
  <2>2. points \in SUBSET (0 .. getLastIndex(log[i]))
    BY SMTT(10), SMTT(30), <2>1
  <2>3. k0 \in points
    <3> HIDE DEF points
    <3>1. \E k \in points : \A h \in points : h <= k
      BY Zenon, <1>2, <2>2, LogShape, GreatestNat
    <3> QED BY <3>1
  <2> QED BY <1>2, <2>1, <2>3 DEF CommitIndexAfter
<1> QED BY <1>1, <1>2

-----------------------------------------------------------------------------
(* Replication: the leader's side *)

LEMMA IndexHeartBeat ==
    ASSUME IndexInv, NEW i \in Server, HeartBeat(i)
    PROVE  IndexInv'
<1>1. /\ UNCHANGED <<currentTerm, voteFor, log, disk, state, commitIndex,
                     receivedVotes, calls, nextIndex, matchIndex, rvReq, rvRep,
                     aeReq, aeRep, isReq, isRep, elections, kills, votes,
                     elected, committed>>
      /\ spawned' = [spawned EXCEPT ![i] = @ \cup {currentTerm[i]}]
      /\ state[i] = "Leader" /\ currentTerm[i] \in Nat
  BY DEF HeartBeat, runHeartBeats, persistent, candidateVars, leaderVars,
         network, bounds, IndexInv, TypeOK
<1>2. TypeOK'
  BY <1>1 DEF IndexInv, TypeOK
<1>3. TermsGrow
  BY SMTT(10), SMTT(30), <1>1 DEF IndexInv, TypeOK, TermsGrow
<1>4. TermsPast'
  <2>1. \A k \in Server : \A t \in spawned'[k] : t \in spawned[k] \/ LedBefore(k, t)
    BY SMTT(10), <1>1 DEF LedBefore, IndexInv, TypeOK
  <2> QED BY <1>1, <1>2, <1>3, <2>1, TermsPastStep DEF IndexInv
<1> QED BY <1>1, <1>2, <1>4 DEF IndexInv, LogsSound, encodeState, RequestsFollow,
                                LeadersInRange, LeaderInRange

LEMMA IndexStart ==
    ASSUME IndexInv, NEW i \in Server, NEW c \in Command, Start(i, c)
    PROVE  IndexInv'
<1> DEFINE e == [Term |-> currentTerm[i], Index |-> getNextIndex(log[i]),
                 Command |-> c]
           l == Append(log[i], e)
<1>1. /\ UNCHANGED <<receivedVotes, calls, nextIndex, matchIndex, rvReq, rvRep,
                     aeReq, aeRep, isReq, isRep, elections, kills, votes,
                     elected, committed>>
      /\ spawned' = [spawned EXCEPT ![i] = @ \cup {currentTerm[i]}]
      /\ state[i] = "Leader" /\ currentTerm[i] \in Nat /\ commitIndex[i] \in Nat
      /\ voteFor[i] \in Server \cup {None}
  BY DEF Start, runHeartBeats, candidateVars, leaderVars, network, bounds,
         IndexInv, TypeOK
<1>2. /\ log[i] \in LogType /\ Contiguous(log[i])
      /\ getLastIndex(log[i]) \in Nat
      /\ getNextIndex(log[i]) = getLastIndex(log[i]) + 1
      /\ getFirstIndex(log[i]) <= commitIndex[i]
  BY ServerLog
<1>3. e \in LogEntry /\ e.Index = getNextIndex(log[i])
  <2>1. currentTerm[i] \in Nat /\ getNextIndex(log[i]) \in Nat
    BY ZenonT(30), <1>1, <1>2, SelfAndNext
  <2> QED BY ZenonT(30), <2>1 DEF LogEntry
<1>4. ServerIs(i, currentTerm[i], voteFor[i], state[i], l, commitIndex[i])
  BY DEF Start, ServerIs, Persist, IndexInv, TypeOK
<1> HIDE DEF e
<1>5. /\ l \in LogType /\ Contiguous(l)
      /\ getFirstIndex(l) = getFirstIndex(log[i])
      /\ getLastIndex(l) = getNextIndex(log[i])
  BY <1>2, <1>3, AppendedLog
<1> HIDE DEF l
<1>6. ServerStepped(i, currentTerm[i], state[i], l)
  <2>1. ServerFine(i, currentTerm[i], voteFor[i], state[i], l, commitIndex[i])
    BY ZenonT(30), <1>1, <1>2, <1>5, SelfAndNext DEF ServerFine, RuleState
  <2> QED BY <1>4, <2>1, ServerStep
<1>7. TypeOK'
  BY ZenonT(40), <1>1, <1>6 DEF IndexInv, TypeOK, ServerTypes, ServerStepped
<1>8. TermsPast'
  <2>1. \A k \in Server : \A t \in spawned'[k] : t \in spawned[k] \/ LedBefore(k, t)
    BY SMTT(10), <1>1 DEF LedBefore, IndexInv, TypeOK
  <2>2. TermsGrow
    BY <1>6 DEF ServerStepped
  <2> QED BY ZenonT(30), <1>1, <1>7, <2>1, <2>2, TermsPastStep DEF IndexInv
<1>9. LeadersInRange'
  <2>1. ASSUME NEW k \in Server
        PROVE  /\ state'[k] = state[k] /\ currentTerm'[k] = currentTerm[k]
               /\ getLastIndex(log'[k]) \in Nat
               /\ getLastIndex(log'[k]) >= getLastIndex(log[k])
    <3>1. CASE k = i
      BY ZenonT(30), <1>2, <1>5, <1>6, <3>1, SelfAndNext DEF ServerStepped
    <3>2. CASE k # i
      <4>1. getLastIndex(log[k]) \in Nat
        BY ServerLog
      <4> QED BY SMTT(10), <1>6, <3>2, <4>1 DEF ServerStepped
    <3> QED BY <3>1, <3>2
  <2> QED BY <1>1, <2>1, LeadersStep
<1>10. RequestsFollow'
  BY <1>1 DEF IndexInv, RequestsFollow
<1> QED BY ZenonT(30), <1>6, <1>7, <1>8, <1>9, <1>10 DEF IndexInv, ServerStepped

\* The entries and the snapshot a leader sends are those of its log.
LEMMA IndexSend ==
    ASSUME IndexInv, NEW i \in Server, NEW j \in Server, NEW term \in spawned[i],
           SendAppendEntries(i, j, term) \/ SendInstallSnapshot(i, j, term)
    PROVE  IndexInv'
<1>1. /\ UNCHANGED <<currentTerm, voteFor, log, disk, state, commitIndex,
                     receivedVotes, calls, nextIndex, matchIndex, spawned, rvReq,
                     rvRep, aeRep, isRep, elections, kills, votes, elected,
                     committed>>
      /\ state[i] = "Leader"
  BY DEF SendAppendEntries, SendInstallSnapshot, persistent, candidateVars,
         leaderVars, rvNet, aeNet, isNet, bounds
<1>2. term \in Nat /\ commitIndex[i] \in Nat /\ nextIndex[i][j] \in Nat
  BY DEF IndexInv, TypeOK
<1>3. /\ log[i] \in LogType /\ Contiguous(log[i])
      /\ getFirstIndex(log[i]) \in Nat /\ getLastIndex(log[i]) \in Nat
      /\ getFirstTerm(log[i]) \in Nat
      /\ getNextIndex(log[i]) = getLastIndex(log[i]) + 1
      /\ getFirstIndex(log[i]) <= getLastIndex(log[i])
  BY ZenonT(30), ServerLog
<1>4. nextIndex[i][j] <= getLastIndex(log[i]) + 1
  BY ZenonT(30), <1>1, <1>3 DEF IndexInv, LeadersInRange, LeaderInRange
<1>5. ASSUME NEW m \in aeReq', m \notin aeReq
      PROVE  /\ m \in AppendEntriesArgs /\ m.LeaderId = i /\ m.Term = term
             /\ Follows(m.Entries, m.PrevLogIndex)
             /\ m.PrevLogIndex + Len(m.Entries) <= getLastIndex(log[i])
  <2> DEFINE prev == nextIndex[i][j] - 1
             es == SubSeq(log[i], prev - getFirstIndex(log[i]) + 2, Len(log[i]))
  <2>1. SendAppendEntries(i, j, term)
    BY ZenonT(30), <1>5 DEF SendInstallSnapshot, aeNet
  <2>2. prev \in getFirstIndex(log[i]) .. getLastIndex(log[i]) /\ prev \in Nat
    <3>1. nextIndex[i][j] > getFirstIndex(log[i])
      BY ZenonT(30), <2>1 DEF SendAppendEntries
    <3> QED BY SMTT(10), <1>2, <1>3, <1>4, <3>1
  <2>3. m = [Term |-> term, LeaderId |-> i, to |-> j, PrevLogIndex |-> prev,
             PrevLogTerm |-> getTerm(log[i], prev), Entries |-> es,
             LeaderCommit |-> commitIndex[i]]
    BY <1>5, <2>1 DEF SendAppendEntries
  <2> HIDE DEF prev
  <2>4. getTerm(log[i], prev) \in Nat
    BY <1>3, <2>2, LogShape
  <2>5. /\ es \in Seq(LogEntry) /\ Len(es) = getLastIndex(log[i]) - prev
        /\ Follows(es, prev)
    BY ZenonT(40), <1>3, <2>2, CopiedEntries
  <2> HIDE DEF es
  <2>6. prev + Len(es) <= getLastIndex(log[i])
    BY SMTT(10), SMTT(30), <1>3, <2>2, <2>5
  <2>7. m \in AppendEntriesArgs
    BY ZenonT(30), <1>2, <2>2, <2>3, <2>4, <2>5 DEF AppendEntriesArgs
  <2> QED BY <2>3, <2>5, <2>6, <2>7
<1>6. ASSUME NEW m \in isReq', m \notin isReq
      PROVE  /\ m \in InstallSnapshotArgs /\ m.LeaderId = i /\ m.Term = term
             /\ m.LastIncludedIndex <= getLastIndex(log[i])
  <2>1. SendInstallSnapshot(i, j, term)
    BY ZenonT(30), <1>6 DEF SendAppendEntries, isNet
  <2>2. m = [Term |-> term, LeaderId |-> i, to |-> j,
             LastIncludedIndex |-> getFirstIndex(log[i]),
             LastIncludedTerm |-> getFirstTerm(log[i])]
    BY <1>6, <2>1 DEF SendInstallSnapshot
  <2> QED BY <1>2, <1>3, <2>2 DEF InstallSnapshotArgs
<1>7. TypeOK'
  <2>1. aeReq' \subseteq AppendEntriesArgs
    BY <1>5 DEF IndexInv, TypeOK
  <2>2. isReq' \subseteq InstallSnapshotArgs
    BY <1>6 DEF IndexInv, TypeOK
  <2> QED BY <1>1, <2>1, <2>2 DEF IndexInv, TypeOK
<1>8. LogsSound'
  BY ZenonT(30), <1>1 DEF IndexInv, LogsSound, encodeState
<1>9. RequestsFollow'
  BY <1>5 DEF IndexInv, RequestsFollow
<1>10. TermsPast'
  <2>1. TermsGrow
    BY SMTT(10), <1>1 DEF IndexInv, TypeOK, TermsGrow
  <2>2. \A m \in aeReq' \cup isReq' :
           m \in aeReq \cup isReq \/ m.Term \in spawned[m.LeaderId]
    BY <1>5, <1>6
  <2> QED BY ZenonT(30), <1>1, <1>7, <2>1, <2>2, TermsPastStep DEF IndexInv
<1>11. LeadersInRange'
  <2>1. \A k \in Server : getLastIndex(log[k]) \in Nat
    BY ServerLog
  <2>2. \A m \in aeReq' : m \in aeReq
           \/ m.PrevLogIndex + Len(m.Entries) <= getLastIndex(log'[m.LeaderId])
    BY <1>1, <1>5
  <2>3. \A m \in isReq' : m \in isReq
           \/ m.LastIncludedIndex <= getLastIndex(log'[m.LeaderId])
    BY <1>1, <1>6
  <2>4. \A k \in Server : state'[k] = "Leader" =>
           /\ state[k] = "Leader" /\ currentTerm'[k] = currentTerm[k]
           /\ nextIndex'[k] = nextIndex[k] /\ matchIndex'[k] = matchIndex[k]
           /\ getLastIndex(log'[k]) \in Nat
           /\ getLastIndex(log'[k]) >= getLastIndex(log[k])
    BY ZenonT(30), <1>1, <2>1, SelfAndNext
  <2>5. aeRep' = aeRep /\ isRep' = isRep
    BY <1>1
  <2> QED BY ZenonT(30), <2>2, <2>3, <2>4, <2>5, LeadersStep
<1> QED BY ZenonT(30), <1>7, <1>8, <1>9, <1>10, <1>11 DEF IndexInv

-----------------------------------------------------------------------------
(* Replication: what a leader makes of replies *)

\* Only the indexes that leader i keeps for server `from` move, within its
\* log, and so does its commitIndex.
LEMMA IndexLeaderMoves ==
    ASSUME IndexInv, NEW i \in Server, NEW from \in Server,
           NEW next \in Nat, NEW match \in Nat, NEW commit \in Nat,
           next >= 1, next <= getLastIndex(log[i]) + 1,
           match <= getLastIndex(log[i]), commit >= commitIndex[i],
           nextIndex' = [nextIndex EXCEPT ![i][from] = next],
           matchIndex' = [matchIndex EXCEPT ![i][from] = match],
           commitIndex' = [commitIndex EXCEPT ![i] = commit],
           UNCHANGED <<currentTerm, voteFor, log, disk, state, receivedVotes,
                       calls, spawned, rvReq, rvRep, aeReq, isReq, elections,
                       kills, votes, elected>>,
           aeRep' \subseteq aeRep, isRep' \subseteq isRep,
           committed' \subseteq LogEntry
    PROVE  IndexInv'
<1>1. TypeOK'
  <2>1. /\ nextIndex' \in [Server -> [Server -> Nat]]
        /\ matchIndex' \in [Server -> [Server -> Nat]]
        /\ commitIndex' \in [Server -> Nat]
    BY DEF IndexInv, TypeOK
  <2> QED BY <2>1 DEF IndexInv, TypeOK
<1>2. LogsSound'
  <2> SUFFICES ASSUME NEW k \in Server
               PROVE  getFirstIndex(log[k]) <= commitIndex'[k]
    BY ZenonT(30) DEF IndexInv, LogsSound, encodeState
  <2>1. /\ getFirstIndex(log[k]) \in Nat /\ commitIndex[k] \in Nat
        /\ getFirstIndex(log[k]) <= commitIndex[k]
    BY ServerLog DEF IndexInv, TypeOK
  <2>2. commitIndex'[k] = IF k = i THEN commit ELSE commitIndex[k]
    BY DEF IndexInv, TypeOK
  <2> QED BY SMTT(10), <2>1, <2>2
<1>3. RequestsFollow'
  BY DEF IndexInv, RequestsFollow
<1>4. TermsPast'
  <2>1. TermsGrow
    BY SMTT(10) DEF IndexInv, TypeOK, TermsGrow
  <2> QED BY ZenonT(30), <1>1, <2>1, TermsPastStep DEF IndexInv
<1>5. LeadersInRange'
  <2> SUFFICES ASSUME NEW k \in Server, state[k] = "Leader"
               PROVE  LeaderInRange(k)'
    BY DEF LeadersInRange
  <2>1. LeaderInRange(k)
    BY ZenonT(30) DEF IndexInv, LeadersInRange
  <2>2. ASSUME NEW j \in Server
        PROVE  /\ nextIndex'[k][j] >= 1
               /\ nextIndex'[k][j] <= getNextIndex(log[k])
               /\ matchIndex'[k][j] <= getLastIndex(log[k])
    <3>1. CASE k = i /\ j = from
      <4>1. nextIndex'[k][j] = next /\ matchIndex'[k][j] = match
        BY ZenonT(30), <3>1 DEF IndexInv, TypeOK
      <4> QED BY ZenonT(30), <3>1, <4>1 DEF getNextIndex
    <3>2. CASE ~ (k = i /\ j = from)
      <4>1. nextIndex'[k][j] = nextIndex[k][j] /\ matchIndex'[k][j] = matchIndex[k][j]
        BY <3>2 DEF IndexInv, TypeOK
      <4> QED BY ZenonT(30), <2>1, <4>1 DEF LeaderInRange
    <3> QED BY <3>1, <3>2
  <2> QED BY ZenonT(30), <2>1, <2>2 DEF LeaderInRange
<1> QED BY ZenonT(30), <1>1, <1>2, <1>3, <1>4, <1>5 DEF IndexInv

LEMMA IndexReplicationSucceeded ==
    ASSUME IndexInv, NEW i \in Server, NEW m \in aeRep,
           AppendEntriesReply(i, m), ReplicationSucceeded(i, m)
    PROVE  IndexInv'
<1> DEFINE match == [matchIndex[i] EXCEPT ![m.from] = Max2(@, m.lastSent)]
           commit == CommitIndexAfter(i, match)
           last == getLastIndex(log[i])
<1>1. /\ m.from \in Server /\ m.lastSent \in Nat
      /\ matchIndex[i] \in [Server -> Nat] /\ commitIndex[i] \in Nat
      /\ matchIndex[i][m.from] \in Nat
  BY DEF IndexInv, TypeOK, EntriesReply
<1>2. /\ log[i] \in LogType /\ Contiguous(log[i]) /\ last \in Nat
      /\ getFirstIndex(log[i]) \in Nat
      /\ getFirstIndex(log[i]) <= commitIndex[i]
  BY ZenonT(30), ServerLog
<1>3. m.lastSent <= last /\ matchIndex[i][m.from] <= last
  BY ZenonT(30), <1>1 DEF IndexInv, LeadersInRange, LeaderInRange, AppendEntriesReply
<1>4. /\ match[m.from] \in Nat /\ match[m.from] <= last
      /\ match[m.from] = Max2(matchIndex[i][m.from], m.lastSent)
  BY ZenonT(30), <1>1, <1>2, <1>3 DEF Max2
<1>5. commit = commitIndex[i] \/ commit \in (commitIndex[i] + 1) .. last
  BY ZenonT(30), <1>1, <1>2, CommitIndexAfterRange
<1>6. /\ nextIndex' = [nextIndex EXCEPT ![i][m.from] = match[m.from] + 1]
      /\ matchIndex' = [matchIndex EXCEPT ![i] = match]
      /\ commitIndex' = [commitIndex EXCEPT ![i] = commit]
      /\ committed' = committed \cup
           {log[i][k - getFirstIndex(log[i]) + 1] : k \in (commitIndex[i] + 1) .. commit}
      /\ UNCHANGED <<currentTerm, voteFor, log, disk, state, receivedVotes,
                     calls, spawned, rvReq, rvRep, aeReq, isReq, isRep,
                     elections, kills, votes, elected>>
      /\ aeRep' \subseteq aeRep
  BY DEF ReplicationSucceeded, AppendEntriesReply, RecordCommit, persistent,
         candidateVars, rvNet, isNet, bounds, Without
<1>7. matchIndex' = [matchIndex EXCEPT ![i][m.from] = match[m.from]]
  BY Zenon, <1>1, <1>4, <1>6 DEF IndexInv, TypeOK
<1> HIDE DEF match, commit
<1>8. committed' \subseteq LogEntry
  <2>1. ASSUME NEW k \in (commitIndex[i] + 1) .. commit
        PROVE  log[i][k - getFirstIndex(log[i]) + 1] \in LogEntry
    <3>1. commitIndex[i] \in Nat /\ last \in Nat /\ getFirstIndex(log[i]) \in Nat
      BY ZenonT(30), <1>1, <1>2
    <3>2. k \in getFirstIndex(log[i]) .. last
      BY ZenonT(30), <1>2, <1>5, <2>1, <3>1, CommittedRange
    <3> QED BY ZenonT(30), <1>2, <3>2, LogShape
  <2> QED BY ZenonT(30), <1>6, <2>1 DEF IndexInv, TypeOK
<1>9. commit \in Nat /\ commit >= commitIndex[i]
  BY SMTT(10), SMTT(30), <1>1, <1>2, <1>5
<1>10. /\ match[m.from] + 1 \in Nat /\ match[m.from] + 1 >= 1
       /\ match[m.from] + 1 <= last + 1
  BY ZenonT(30), <1>2, <1>4, NextAtMost
<1> QED BY Zenon, <1>1, <1>4, <1>6, <1>7, <1>8, <1>9, <1>10, IndexLeaderMoves

LEMMA IndexBackUp ==
    ASSUME IndexInv, NEW i \in Server, NEW m \in aeRep,
           AppendEntriesReply(i, m), BackUp(i, m)
    PROVE  IndexInv'
<1> DEFINE match == matchIndex[i][m.from]
           last == IF m.ConflictTerm > 0
                   THEN SameTermBefore(log[i], m.PrevLogIndex, m.ConflictTerm)
                   ELSE -1
           next == IF last > 0 THEN last + 1 ELSE Max2(m.ConflictIndex, match + 1)
           end == getLastIndex(log[i])
<1>1. /\ m.from \in Server /\ m.lastSent \in Nat /\ m.ConflictIndex \in Nat
      /\ m.ConflictTerm \in Int /\ m.PrevLogIndex \in Nat
      /\ commitIndex[i] \in Nat /\ match \in Nat
  BY DEF IndexInv, TypeOK, EntriesReply
<1>2. /\ log[i] \in LogType /\ Contiguous(log[i]) /\ end \in Nat
      /\ getFirstIndex(log[i]) \in Nat
  BY ZenonT(30), ServerLog
<1>3. /\ m.lastSent <= end /\ m.PrevLogIndex <= m.lastSent
      /\ m.ConflictIndex <= m.lastSent /\ match <= end
  BY ZenonT(30), <1>1 DEF IndexInv, LeadersInRange, LeaderInRange, AppendEntriesReply
<1>4. last = -1 \/ last \in getFirstIndex(log[i]) .. (m.PrevLogIndex - 1)
  BY ZenonT(30), <1>1, <1>2, SameTermBeforeRange
<1>5. nextIndex' = [nextIndex EXCEPT ![i][m.from] = next]
  BY ZenonT(30) DEF BackUp
<1> HIDE DEF last, match, end
<1>6. next \in Nat /\ next >= 1 /\ next <= end + 1
  BY SMTT(10), SMTT(30), <1>1, <1>2, <1>3, <1>4 DEF Max2
<1> HIDE DEF next
<1>7. /\ UNCHANGED <<currentTerm, voteFor, log, disk, state, receivedVotes,
                     calls, spawned, rvReq, rvRep, aeReq, isReq, isRep,
                     elections, kills, votes, elected, committed>>
      /\ aeRep' \subseteq aeRep
      /\ matchIndex' = [matchIndex EXCEPT ![i][m.from] = match]
      /\ commitIndex' = [commitIndex EXCEPT ![i] = commitIndex[i]]
  <2>1. UNCHANGED <<matchIndex, commitIndex>>
    BY DEF BackUp
  <2>2. /\ UNCHANGED <<currentTerm, voteFor, log, disk, state, receivedVotes,
                       calls, spawned, rvReq, rvRep, aeReq, isReq, isRep,
                       elections, kills, votes, elected, committed>>
        /\ aeRep' \subseteq aeRep
    BY ZenonT(30) DEF BackUp, AppendEntriesReply, persistent, candidateVars, rvNet, isNet,
           bounds, Without
  <2> QED BY ZenonT(30), <1>1, <2>1, <2>2 DEF match, IndexInv, TypeOK
<1>8. committed' \subseteq LogEntry /\ commitIndex[i] >= commitIndex[i]
  BY SMTT(10), SMTT(30), <1>1, <1>7 DEF IndexInv, TypeOK
<1> QED BY Zenon, <1>1, <1>3, <1>5, <1>6, <1>7, <1>8, IndexLeaderMoves DEF end

LEMMA IndexSnapshotInstalled ==
    ASSUME IndexInv, NEW i \in Server, NEW m \in isRep, InstallSnapshotReply(i, m),
           SnapshotInstalled(i, m)
    PROVE  IndexInv'
<1>1. /\ UNCHANGED <<receivedVotes, calls, spawned, rvReq, rvRep, aeReq, aeRep,
                     isReq, elections, kills, votes, elected>>
      /\ isRep' \subseteq isRep
  BY ZenonT(30) DEF InstallSnapshotReply, candidateVars, rvNet, aeNet, bounds, Without
<1>2. /\ m.from \in Server /\ m.LastIncludedIndex \in Nat
  BY DEF IndexInv, TypeOK, SnapshotReply
<1> DEFINE match == Max2(matchIndex[i][m.from], m.LastIncludedIndex)
           end == getLastIndex(log[i])
<1>3. /\ matchIndex' = [matchIndex EXCEPT ![i][m.from] = match]
      /\ nextIndex' = [nextIndex EXCEPT ![i][m.from] = match + 1]
      /\ UNCHANGED <<currentTerm, voteFor, log, disk, state, commitIndex, committed>>
  BY ZenonT(30) DEF SnapshotInstalled, persistent
<1>4. /\ matchIndex[i][m.from] \in Nat /\ commitIndex[i] \in Nat
      /\ commitIndex' = [commitIndex EXCEPT ![i] = commitIndex[i]]
      /\ committed' \subseteq LogEntry
  BY ZenonT(30), <1>2, <1>3 DEF IndexInv, TypeOK
<1>5. matchIndex[i][m.from] <= end /\ m.LastIncludedIndex <= end
  BY ZenonT(30), <1>2 DEF IndexInv, LeadersInRange, LeaderInRange, InstallSnapshotReply
<1>6. end \in Nat
  BY ServerLog
<1>7. /\ match \in Nat /\ match <= end /\ match + 1 \in Nat
      /\ match + 1 >= 1 /\ match + 1 <= end + 1
      /\ commitIndex[i] >= commitIndex[i]
  BY SMTT(10), <1>2, <1>4, <1>5, <1>6 DEF Max2
<1> HIDE DEF match
<1> QED BY ZenonT(40), <1>1, <1>2, <1>3, <1>4, <1>7, IndexLeaderMoves

-----------------------------------------------------------------------------
(* Steps of a server that does not lead afterwards, and of the network *)

\* What is in flight after a step: no new request, and replies to requests
\* that were in flight.
RepliesFit ==
    /\ aeReq' \subseteq aeReq /\ isReq' \subseteq isReq
    /\ aeRep' \subseteq EntriesReply /\ isRep' \subseteq SnapshotReply
    /\ \A m \in aeRep' : m \in aeRep \/ \E q \in aeReq :
          /\ m.to = q.LeaderId /\ m.argsTerm = q.Term
          /\ m.lastSent = q.PrevLogIndex + Len(q.Entries)
          /\ m.PrevLogIndex <= m.lastSent /\ m.ConflictIndex <= m.lastSent
    /\ \A m \in isRep' : m \in isRep \/ \E q \in isReq :
          /\ m.to = q.LeaderId /\ m.argsTerm = q.Term
          /\ m.LastIncludedIndex = q.LastIncludedIndex

LEMMA IndexFits ==
    ASSUME IndexInv, TypeOK', LogsSound', TermsGrow, RepliesFit,
           \A k \in Server : spawned'[k] \subseteq spawned[k],
           \A k \in Server : state'[k] = "Leader" =>
               /\ state[k] = "Leader" /\ currentTerm'[k] = currentTerm[k]
               /\ nextIndex'[k] = nextIndex[k] /\ matchIndex'[k] = matchIndex[k]
               /\ getLastIndex(log'[k]) = getLastIndex(log[k])
    PROVE  IndexInv'
<1>1. RequestsFollow'
  BY DEF IndexInv, RequestsFollow, RepliesFit
<1>2. TermsPast'
  <2>1. /\ \A k \in Server : \A t \in spawned'[k] : t \in spawned[k] \/ LedBefore(k, t)
        /\ \A m \in aeReq' \cup isReq' :
               m \in aeReq \cup isReq \/ m.Term \in spawned[m.LeaderId]
        /\ \A m \in aeRep' \cup isRep' :
               \/ m \in aeRep \cup isRep
               \/ \E q \in aeReq \cup isReq :
                     m.to = q.LeaderId /\ m.argsTerm = q.Term
    BY DEF RepliesFit
  <2> QED BY <2>1, TermsPastStep DEF IndexInv
<1>3. LeadersInRange'
  <2>1. \A k \in Server : getLastIndex(log[k]) \in Nat
    BY ServerLog
  <2>2. \A k \in Server : state'[k] = "Leader" =>
           /\ state[k] = "Leader" /\ currentTerm'[k] = currentTerm[k]
           /\ nextIndex'[k] = nextIndex[k] /\ matchIndex'[k] = matchIndex[k]
           /\ getLastIndex(log'[k]) \in Nat
           /\ getLastIndex(log'[k]) >= getLastIndex(log[k])
    BY SMTT(10), <2>1
  <2>3. /\ \A m \in aeReq' : m \in aeReq
             \/ m.PrevLogIndex + Len(m.Entries) <= getLastIndex(log'[m.LeaderId])
        /\ \A m \in isReq' : m \in isReq
             \/ m.LastIncludedIndex <= getLastIndex(log'[m.LeaderId])
    BY DEF RepliesFit
  <2> QED BY <2>2, <2>3, LeadersStep DEF RepliesFit
<1> QED BY <1>1, <1>2, <1>3 DEF IndexInv

\* Server j is no leader afterwards.
LEMMA IndexNotLeading ==
    ASSUME IndexInv, NEW j \in Server, NEW t, NEW s, NEW l,
           ServerStepped(j, t, s, l), s # "Leader", RepliesFit,
           receivedVotes' \in [Server -> Nat], calls' \in [Server -> SUBSET Server],
           nextIndex' \in [Server -> [Server -> Nat]],
           matchIndex' \in [Server -> [Server -> Nat]],
           \A k \in Server \ {j} :
               nextIndex'[k] = nextIndex[k] /\ matchIndex'[k] = matchIndex[k],
           spawned' \in [Server -> SUBSET Nat],
           \A k \in Server : spawned'[k] \subseteq spawned[k],
           UNCHANGED <<rvReq, rvRep, elections, votes, elected>>,
           kills' \in Nat, committed' \subseteq LogEntry
    PROVE  IndexInv'
<1>1. TypeOK'
  BY Zenon DEF IndexInv, TypeOK, ServerStepped, ServerTypes, RepliesFit
<1>2. \A k \in Server : state'[k] = "Leader" =>
           /\ state[k] = "Leader" /\ currentTerm'[k] = currentTerm[k]
           /\ nextIndex'[k] = nextIndex[k] /\ matchIndex'[k] = matchIndex[k]
           /\ getLastIndex(log'[k]) = getLastIndex(log[k])
  BY DEF ServerStepped
<1>3. LogsSound' /\ TermsGrow
  BY DEF ServerStepped
<1> QED BY <1>1, <1>2, <1>3, IndexFits

\* No server changes.
LEMMA IndexNetwork ==
    ASSUME IndexInv, RepliesFit,
           UNCHANGED <<currentTerm, voteFor, log, disk, state, commitIndex,
                       receivedVotes, calls, nextIndex, matchIndex, spawned,
                       rvReq, rvRep, elections, kills, votes, elected, committed>>
    PROVE  IndexInv'
<1>1. TypeOK'
  BY Zenon DEF IndexInv, TypeOK, RepliesFit
<1>2. LogsSound'
  BY DEF IndexInv, LogsSound, encodeState
<1>3. TermsGrow
  BY SMTT(10), SMTT(30) DEF IndexInv, TypeOK, TermsGrow
<1> QED BY <1>1, <1>2, <1>3, IndexFits

-----------------------------------------------------------------------------
(* Replication: the follower's side *)

\* The reply to request m fits m.
LEMMA AppendReplyFits ==
    ASSUME IndexInv, NEW j \in Server, NEW m \in aeReq, NEW success \in BOOLEAN,
           NEW index \in Nat, NEW term \in Int,
           index <= m.PrevLogIndex,
           aeRep' = aeRep \cup {AppendReply(j, m, success, index, term)},
           aeReq' \subseteq aeReq, UNCHANGED <<isReq, isRep>>
    PROVE  RepliesFit
<1> DEFINE r == AppendReply(j, m, success, index, term)
<1>1. /\ m.Term \in Nat /\ m.LeaderId \in Server /\ m.PrevLogIndex \in Nat
      /\ m.Entries \in Seq(LogEntry) /\ currentTerm[j] \in Nat
  BY Zenon DEF IndexInv, TypeOK, AppendEntriesArgs
<1>2. Len(m.Entries) \in Nat
  BY SMTT(10), <1>1
<1>3. TermSeen(j, m.Term) \in Nat
  BY <1>1 DEF TermSeen, Max2
<1>4. /\ m.PrevLogIndex + Len(m.Entries) \in Nat
      /\ m.PrevLogIndex <= m.PrevLogIndex + Len(m.Entries)
      /\ index <= m.PrevLogIndex + Len(m.Entries)
  BY SMTT(10), SMTT(30), <1>1, <1>2
<1>5. r \in EntriesReply
  BY <1>1, <1>3, <1>4 DEF AppendReply, EntriesReply
<1>6. /\ r.to = m.LeaderId /\ r.argsTerm = m.Term
      /\ r.lastSent = m.PrevLogIndex + Len(m.Entries)
      /\ r.PrevLogIndex <= r.lastSent /\ r.ConflictIndex <= r.lastSent
  BY <1>4 DEF AppendReply
<1> HIDE DEF r
<1>7. aeRep' \subseteq EntriesReply /\ isRep' \subseteq SnapshotReply
  BY <1>5 DEF IndexInv, TypeOK, r
<1>8. \A q \in aeRep' : q \in aeRep \/ q = r
  BY DEF r
<1> QED BY <1>6, <1>7, <1>8 DEF RepliesFit

\* Server j has followed the leader that sent m and left with log l and
\* commitIndex c.
LEMMA FollowerStepped ==
    ASSUME IndexInv, NEW j \in Server, NEW m, m.Term \in Nat, FollowLeader(j, m),
           NEW l \in LogType, NEW c \in Nat, Contiguous(l), getFirstIndex(l) <= c,
           log' = [log EXCEPT ![j] = l],
           commitIndex' = [commitIndex EXCEPT ![j] = c], Persist(j)
    PROVE  ServerStepped(j, m.Term, "Follower", l)
<1>1. /\ m.Term >= currentTerm[j] /\ VoteSeen(j, m.Term) \in Server \cup {None}
  BY DEF FollowLeader, VoteSeen, IndexInv, TypeOK
<1>2. ServerIs(j, m.Term, VoteSeen(j, m.Term), "Follower", l, c)
  BY DEF FollowLeader, ServerIs, Persist
<1>3. ServerFine(j, m.Term, VoteSeen(j, m.Term), "Follower", l, c)
  BY <1>1 DEF ServerFine, RuleState
<1> QED BY ZenonT(30), <1>2, <1>3, ServerStep

\* A follower step of AppendEntries or InstallSnapshot.
LEMMA IndexFollower ==
    ASSUME IndexInv, NEW j \in Server, NEW t, NEW l,
           ServerStepped(j, t, "Follower", l), RepliesFit,
           UNCHANGED <<receivedVotes, calls, nextIndex, matchIndex, spawned, rvReq,
                       rvRep, elections, kills, votes, elected>>,
           committed' \subseteq LogEntry
    PROVE  IndexInv'
<1>1. /\ receivedVotes' \in [Server -> Nat] /\ calls' \in [Server -> SUBSET Server]
      /\ nextIndex' \in [Server -> [Server -> Nat]]
      /\ matchIndex' \in [Server -> [Server -> Nat]]
      /\ spawned' \in [Server -> SUBSET Nat] /\ kills' \in Nat
  BY DEF IndexInv, TypeOK
<1>2. \A k \in Server : spawned'[k] \subseteq spawned[k]
  OBVIOUS
<1> QED BY <1>1, <1>2, IndexNotLeading

LEMMA IndexAccept ==
    ASSUME IndexInv, NEW j \in Server, NEW m \in aeReq, FollowLeader(j, m),
           Accept(j, m), Persist(j),
           UNCHANGED <<receivedVotes, calls, nextIndex, matchIndex, spawned, rvReq,
                       rvRep, isReq, isRep, elections, kills, votes, elected>>,
           aeReq' \subseteq aeReq
    PROVE  IndexInv'
<1> DEFINE l == Merge(log[j], m)
           c == IF m.LeaderCommit > commitIndex[j]
                THEN Min2(getLastIndex(l), m.LeaderCommit) ELSE commitIndex[j]
<1>1. /\ m.Term \in Nat /\ m.PrevLogIndex \in Nat /\ m.LeaderCommit \in Nat
      /\ m.Entries \in Seq(LogEntry) /\ commitIndex[j] \in Nat
      /\ Follows(m.Entries, m.PrevLogIndex)
  BY Zenon DEF IndexInv, TypeOK, AppendEntriesArgs, RequestsFollow
<1>2. /\ log[j] \in LogType /\ Contiguous(log[j])
      /\ getFirstIndex(log[j]) \in Nat /\ getLastIndex(log[j]) \in Nat
      /\ getNextIndex(log[j]) = getLastIndex(log[j]) + 1
      /\ getFirstIndex(log[j]) <= commitIndex[j]
  BY ServerLog
<1>3. m.PrevLogIndex \in getFirstIndex(log[j]) .. getLastIndex(log[j])
  BY SMTT(10), <1>1, <1>2 DEF Accept, PrevMatches
<1>4. /\ log' = [log EXCEPT ![j] = l]
      /\ commitIndex' = [commitIndex EXCEPT ![j] = c]
      /\ committed' = committed \cup
            {l[k - getFirstIndex(l) + 1] : k \in (commitIndex[j] + 1) .. c}
      /\ aeRep' = aeRep \cup {AppendReply(j, m, TRUE, 0, 0)}
  BY DEF Accept, RecordCommit
<1>5. /\ l \in LogType /\ Contiguous(l) /\ getFirstIndex(l) = getFirstIndex(log[j])
  BY ZenonT(30), <1>1, <1>2, <1>3, MergedLog
<1> HIDE DEF l
<1>6. getLastIndex(l) \in Nat /\ getFirstIndex(l) <= getLastIndex(l)
  <2>1. /\ getLastIndex(l) = getFirstIndex(l) + Len(l) - 1 /\ Len(l) \in Nat
        /\ Len(l) >= 1 /\ getLastIndex(l) \in Nat /\ getFirstIndex(l) \in Nat
    BY ZenonT(30), <1>5, LogShape
  <2> QED BY SMTT(10), SMTT(30), <2>1
<1>7. /\ c \in Nat /\ getFirstIndex(l) <= c
      /\ \A k \in (commitIndex[j] + 1) .. c : k \in getFirstIndex(l) .. getLastIndex(l)
  <2>1. \/ c = commitIndex[j]
        \/ m.LeaderCommit > commitIndex[j] /\ c = Min2(getLastIndex(l), m.LeaderCommit)
    OBVIOUS
  <2>2. /\ getFirstIndex(l) \in Nat /\ getFirstIndex(l) <= commitIndex[j]
        /\ getFirstIndex(l) <= getLastIndex(l) /\ getLastIndex(l) \in Nat
    BY <1>2, <1>5, <1>6
  <2> HIDE DEF c
  <2> QED BY ZenonT(30), <1>1, <2>1, <2>2, AcceptedRange
<1> HIDE DEF c
<1>8. committed' \subseteq LogEntry
  <2>1. ASSUME NEW k \in (commitIndex[j] + 1) .. c
        PROVE  l[k - getFirstIndex(l) + 1] \in LogEntry
    <3>1. k \in getFirstIndex(l) .. getLastIndex(l)
      BY <1>7, <2>1
    <3> QED BY ZenonT(30), <1>5, <3>1, LogShape
  <2> QED BY ZenonT(30), <1>4, <2>1 DEF IndexInv, TypeOK
<1>9. RepliesFit
  <2>1. 0 \in Nat /\ 0 \in Int /\ 0 <= m.PrevLogIndex /\ TRUE \in BOOLEAN
    BY SMTT(10), SMTT(30), <1>1
  <2> QED BY ZenonT(40), <1>4, <2>1, AppendReplyFits
<1>10. ServerStepped(j, m.Term, "Follower", l)
  BY ZenonT(30), <1>1, <1>4, <1>5, <1>7, FollowerStepped
<1> QED BY ZenonT(30), <1>8, <1>9, <1>10, IndexFollower

LEMMA IndexAppendEntries ==
    ASSUME IndexInv, NEW j \in Server, NEW m \in aeReq, AppendEntries(j, m)
    PROVE  IndexInv'
<1>1. /\ UNCHANGED <<receivedVotes, calls, nextIndex, matchIndex, spawned, rvReq,
                     rvRep, isReq, isRep, elections, kills, votes, elected>>
      /\ aeReq' \subseteq aeReq
  BY ZenonT(30) DEF AppendEntries, candidateVars, leaderVars, rvNet, isNet, bounds, Without
<1>2. /\ m.Term \in Nat /\ m.PrevLogIndex \in Nat
      /\ commitIndex[j] \in Nat /\ committed \subseteq LogEntry
      /\ log = [log EXCEPT ![j] = log[j]]
      /\ commitIndex = [commitIndex EXCEPT ![j] = commitIndex[j]]
  BY Zenon DEF IndexInv, TypeOK, AppendEntriesArgs
<1>3. /\ log[j] \in LogType /\ Contiguous(log[j])
      /\ getFirstIndex(log[j]) \in Nat /\ getLastIndex(log[j]) \in Nat
      /\ getNextIndex(log[j]) = getLastIndex(log[j]) + 1
      /\ getFirstIndex(log[j]) <= commitIndex[j]
  BY ServerLog
<1>4. CASE RefuseOldLeader(j, m)
  <2>1. /\ UNCHANGED <<currentTerm, voteFor, log, disk, state, commitIndex, committed>>
        /\ aeRep' = aeRep \cup {AppendReply(j, m, FALSE, 0, 0)}
    BY <1>4 DEF RefuseOldLeader, persistent
  <2>2. 0 \in Nat /\ 0 \in Int /\ 0 <= m.PrevLogIndex /\ FALSE \in BOOLEAN
    BY SMTT(10), SMTT(30), <1>2
  <2>3. RepliesFit
    BY Zenon, <1>1, <2>1, <2>2, AppendReplyFits
  <2> QED BY ZenonT(30), <1>1, <2>1, <2>3, IndexNetwork
<1>5. ASSUME FollowLeader(j, m), Persist(j), UNCHANGED <<log, commitIndex, committed>>,
             RepliesFit
      PROVE  IndexInv'
  <2>1. /\ log' = [log EXCEPT ![j] = log[j]]
        /\ commitIndex' = [commitIndex EXCEPT ![j] = commitIndex[j]]
    BY <1>2, <1>5
  <2>2. ServerStepped(j, m.Term, "Follower", log[j])
    BY Zenon, <1>2, <1>3, <1>5, <2>1, FollowerStepped
  <2>3. committed' \subseteq LogEntry
    BY <1>2, <1>5
  <2> QED BY <1>1, <1>5, <2>2, <2>3, IndexFollower
<1>6. CASE FollowLeader(j, m) /\ PrevCompacted(j, m) /\ Persist(j)
  <2>1. UNCHANGED <<log, commitIndex, aeRep, committed>>
    BY ZenonT(30), <1>6 DEF PrevCompacted
  <2>2. RepliesFit
    BY ZenonT(30), <1>1, <2>1 DEF RepliesFit, IndexInv, TypeOK
  <2> QED BY ZenonT(30), <1>5, <1>6, <2>1, <2>2
<1>7. CASE FollowLeader(j, m) /\ Accept(j, m) /\ Persist(j)
  BY <1>1, <1>7, IndexAccept
<1>8. CASE FollowLeader(j, m) /\ Conflict(j, m) /\ Persist(j)
  <2>1. UNCHANGED <<log, commitIndex, committed>>
    BY <1>8 DEF Conflict
  <2>2. RepliesFit
    <3>1. CASE m.PrevLogIndex >= getNextIndex(log[j])
      <4>1. aeRep' = aeRep \cup {AppendReply(j, m, FALSE, getNextIndex(log[j]), -1)}
        BY <1>8, <3>1 DEF Conflict
      <4>2. /\ getNextIndex(log[j]) \in Nat /\ -1 \in Int /\ FALSE \in BOOLEAN
            /\ getNextIndex(log[j]) <= m.PrevLogIndex
        BY SMTT(10), SMTT(30), <1>2, <1>3, <3>1
      <4> QED BY Zenon, <1>1, <4>1, <4>2, AppendReplyFits
    <3>2. CASE ~ (m.PrevLogIndex >= getNextIndex(log[j]))
      <4> DEFINE index == FirstOfRun(log[j], m.PrevLogIndex)
                 term == getTerm(log[j], m.PrevLogIndex)
      <4>1. aeRep' = aeRep \cup {AppendReply(j, m, FALSE, index, term)}
        BY <1>8, <3>2 DEF Conflict
      <4>2. m.PrevLogIndex \in getFirstIndex(log[j]) .. getLastIndex(log[j])
        BY SMTT(10), SMTT(30), <1>2, <1>3, <1>8, <3>2 DEF Conflict
      <4>3. index \in getFirstIndex(log[j]) .. m.PrevLogIndex
        BY ZenonT(30), <1>3, <4>2, FirstOfRunRange
      <4>4. term \in Nat
        BY <1>3, <4>2, LogShape
      <4> HIDE DEF index, term
      <4>5. index \in Nat /\ index <= m.PrevLogIndex /\ term \in Int /\ FALSE \in BOOLEAN
        BY SMTT(10), SMTT(30), <1>2, <1>3, <4>3, <4>4
      <4> QED BY Zenon, <1>1, <4>1, <4>5, AppendReplyFits
    <3> QED BY <3>1, <3>2
  <2> QED BY ZenonT(30), <1>5, <1>8, <2>1, <2>2
<1> QED BY ZenonT(30), <1>4, <1>6, <1>7, <1>8 DEF AppendEntries

-----------------------------------------------------------------------------
(* Snapshots *)

LEMMA IndexSnapshot ==
    ASSUME IndexInv, NEW i \in Server, NEW index \in Nat, Snapshot(i, index)
    PROVE  IndexInv'
<1> DEFINE l == <<Sentinel(index, getTerm(log[i], index))>>
                \o SubSeq(log[i], index - getFirstIndex(log[i]) + 2, Len(log[i]))
<1>1. /\ UNCHANGED <<receivedVotes, calls, nextIndex, matchIndex, spawned, rvReq,
                     rvRep, aeReq, aeRep, isReq, isRep, elections, kills, votes,
                     elected, committed>>
  BY DEF Snapshot, candidateVars, leaderVars, network, bounds
<1>2. ServerIs(i, currentTerm[i], voteFor[i], state[i], l, commitIndex[i])
  BY DEF Snapshot, ServerIs, Persist, IndexInv, TypeOK
<1>3. /\ log[i] \in LogType /\ Contiguous(log[i])
      /\ getFirstIndex(log[i]) \in Nat /\ getLastIndex(log[i]) \in Nat
  BY ZenonT(30), ServerLog
<1>4. index \in (getFirstIndex(log[i]) + 1) .. getLastIndex(log[i])
  BY ZenonT(30), <1>3, AboveFirst DEF Snapshot
<1>5. getTerm(log[i], index) \in Nat
  <2>1. index \in getFirstIndex(log[i]) .. getLastIndex(log[i])
    BY SMTT(10), <1>3, <1>4
  <2> QED BY <1>3, <2>1, LogShape
<1>6. /\ l \in LogType /\ Contiguous(l)
      /\ getFirstIndex(l) = index /\ getLastIndex(l) = getLastIndex(log[i])
  BY ZenonT(30), <1>3, <1>4, <1>5, CompactedLog
<1> HIDE DEF l
<1>7. ServerStepped(i, currentTerm[i], state[i], l)
  <2>1. /\ currentTerm[i] \in Nat /\ voteFor[i] \in Server \cup {None}
        /\ state[i] \in RuleState /\ commitIndex[i] \in Nat
        /\ index <= commitIndex[i]
    BY ZenonT(30) DEF IndexInv, TypeOK, Snapshot
  <2>2. ServerFine(i, currentTerm[i], voteFor[i], state[i], l, commitIndex[i])
    BY SMTT(10), SMTT(30), <1>6, <2>1 DEF ServerFine
  <2> QED BY ZenonT(30), <1>2, <2>2, ServerStep
<1>8. TypeOK'
  BY ZenonT(30), <1>1, <1>7 DEF IndexInv, TypeOK, ServerTypes, ServerStepped
<1>9. RepliesFit
  BY ZenonT(30), <1>1 DEF RepliesFit, IndexInv, TypeOK
<1>10. \A k \in Server :
           /\ state'[k] = state[k] /\ currentTerm'[k] = currentTerm[k]
           /\ getLastIndex(log'[k]) = getLastIndex(log[k])
  BY ZenonT(30), <1>6, <1>7 DEF ServerStepped
<1>11. LogsSound' /\ TermsGrow
  BY <1>7 DEF ServerStepped
<1> QED BY ZenonT(30), <1>1, <1>8, <1>9, <1>10, <1>11, IndexFits

LEMMA IndexInstallSnapshot ==
    ASSUME IndexInv, NEW j \in Server, NEW m \in isReq, InstallSnapshot(j, m)
    PROVE  IndexInv'
<1> DEFINE last == m.LastIncludedIndex
           r == [Term |-> TermSeen(j, m.Term), argsTerm |-> m.Term,
                 LastIncludedIndex |-> last, from |-> j, to |-> m.LeaderId]
<1>1. /\ UNCHANGED <<receivedVotes, calls, nextIndex, matchIndex, spawned, rvReq,
                     rvRep, aeReq, aeRep, elections, kills, votes, elected, committed>>
      /\ isReq' \subseteq isReq /\ isRep' = isRep \cup {r}
  BY ZenonT(30) DEF InstallSnapshot, candidateVars, leaderVars, rvNet, aeNet, bounds, Without
<1>2. /\ m.Term \in Nat /\ last \in Nat /\ m.LastIncludedTerm \in Nat
      /\ m.LeaderId \in Server /\ currentTerm[j] \in Nat
      /\ commitIndex[j] \in Nat /\ committed \subseteq LogEntry
      /\ log = [log EXCEPT ![j] = log[j]]
      /\ commitIndex = [commitIndex EXCEPT ![j] = commitIndex[j]]
  BY ZenonT(30) DEF IndexInv, TypeOK, InstallSnapshotArgs
<1>3. /\ log[j] \in LogType /\ Contiguous(log[j])
      /\ getFirstIndex(log[j]) \in Nat /\ getLastIndex(log[j]) \in Nat
      /\ getFirstIndex(log[j]) <= commitIndex[j]
  BY ZenonT(30), ServerLog
<1>4. RepliesFit
  <2>1. TermSeen(j, m.Term) \in Nat
    BY <1>2 DEF TermSeen, Max2
  <2>2. r \in SnapshotReply
    BY ZenonT(30), <1>2, <2>1 DEF SnapshotReply
  <2>3. r.to = m.LeaderId /\ r.argsTerm = m.Term /\ r.LastIncludedIndex = last
    OBVIOUS
  <2> HIDE DEF r
  <2>4. aeRep' \subseteq EntriesReply /\ isRep' \subseteq SnapshotReply
    BY <1>1, <2>2 DEF IndexInv, TypeOK
  <2>5. \A q \in isRep' : q \in isRep \/ q = r
    BY <1>1
  <2> QED BY ZenonT(30), <1>1, <2>3, <2>4, <2>5 DEF RepliesFit
<1> HIDE DEF r
<1>5. CASE m.Term < currentTerm[j] /\ UNCHANGED <<persistent, state, commitIndex>>
  <2>1. UNCHANGED <<currentTerm, voteFor, log, disk, state, commitIndex>>
    BY <1>5 DEF persistent
  <2> QED BY <1>1, <1>4, <2>1, IndexNetwork
<1>6. CASE FollowLeader(j, m) /\ SnapshotIsOld(j, m) /\ Persist(j)
  <2>1. /\ log' = [log EXCEPT ![j] = log[j]]
        /\ commitIndex' = [commitIndex EXCEPT ![j] = commitIndex[j]]
    BY <1>2, <1>6 DEF SnapshotIsOld
  <2>2. ServerStepped(j, m.Term, "Follower", log[j])
    BY Zenon, <1>2, <1>3, <1>6, <2>1, FollowerStepped
  <2>3. committed' \subseteq LogEntry
    BY ZenonT(30), <1>1, <1>2
  <2> QED BY ZenonT(30), <1>1, <1>4, <2>2, <2>3, IndexFollower
<1>7. CASE FollowLeader(j, m) /\ AdoptSnapshot(j, m) /\ Persist(j)
  <2> DEFINE l == <<Sentinel(last, m.LastIncludedTerm)>>
                  \o (IF getLastIndex(log[j]) <= last THEN <<>>
                      ELSE SubSeq(log[j], last - getFirstIndex(log[j]) + 2, Len(log[j])))
  <2>1. /\ log' = [log EXCEPT ![j] = l]
        /\ commitIndex' = [commitIndex EXCEPT ![j] = last]
        /\ commitIndex[j] < last
    BY <1>7 DEF AdoptSnapshot
  <2>2. l \in LogType /\ Contiguous(l) /\ getFirstIndex(l) = last
    <3>1. CASE getLastIndex(log[j]) <= last
      <4>1. l = <<Sentinel(last, m.LastIncludedTerm)>> \o <<>>
        BY ZenonT(30), <3>1
      <4> HIDE DEF l
      <4> QED BY ZenonT(30), <1>2, <4>1, SentinelLog
    <3>2. CASE ~ (getLastIndex(log[j]) <= last)
      <4>1. l = <<Sentinel(last, m.LastIncludedTerm)>>
                \o SubSeq(log[j], last - getFirstIndex(log[j]) + 2, Len(log[j]))
        BY Zenon, <3>2
      <4>2. last \in (getFirstIndex(log[j]) + 1) .. getLastIndex(log[j])
        BY SMTT(10), SMTT(30), <1>2, <1>3, <2>1, <3>2
      <4> HIDE DEF l
      <4> QED BY ZenonT(30), <1>2, <1>3, <4>1, <4>2, CompactedLog
    <3> QED BY <3>1, <3>2
  <2> HIDE DEF l
  <2>3. getFirstIndex(l) <= last
    BY ZenonT(30), <1>2, <2>2, SelfAndNext
  <2>4. ServerStepped(j, m.Term, "Follower", l)
    BY Zenon, <1>2, <1>7, <2>1, <2>2, <2>3, FollowerStepped
  <2>5. committed' \subseteq LogEntry
    BY <1>1, <1>2
  <2> QED BY <1>1, <1>4, <2>4, <2>5, IndexFollower
<1> QED BY ZenonT(30), <1>5, <1>6, <1>7 DEF InstallSnapshot

-----------------------------------------------------------------------------
(* Kill, restart and loss *)

LEMMA IndexKill ==
    ASSUME IndexInv, NEW i \in Server,
           Kill(i) \/ \E m \in rvReq \cup aeReq \cup isReq : KillInHandler(i, m)
    PROVE  IndexInv'
<1>1. /\ UNCHANGED <<receivedVotes, calls, nextIndex, matchIndex, spawned, rvReq,
                     rvRep, aeReq, aeRep, isReq, isRep, elections, votes, elected,
                     committed>>
      /\ kills' = kills + 1
  BY ZenonT(30) DEF Kill, KillInHandler, candidateVars, leaderVars, network
<1>2. RepliesFit
  BY ZenonT(30), <1>1 DEF RepliesFit, IndexInv, TypeOK
<1>3. /\ receivedVotes' \in [Server -> Nat] /\ calls' \in [Server -> SUBSET Server]
      /\ nextIndex' \in [Server -> [Server -> Nat]]
      /\ matchIndex' \in [Server -> [Server -> Nat]]
      /\ spawned' \in [Server -> SUBSET Nat] /\ kills' \in Nat
      /\ committed' \subseteq LogEntry
  BY SMTT(10), SMTT(30), <1>1 DEF IndexInv, TypeOK
<1>4. /\ log[i] \in LogType /\ Contiguous(log[i])
      /\ getFirstIndex(log[i]) <= commitIndex[i]
  BY ServerLog
<1>5. /\ currentTerm[i] \in Nat /\ commitIndex[i] \in Nat
      /\ voteFor[i] \in Server \cup {None}
      /\ disk[i] = encodeState(i)
  BY DEF IndexInv, TypeOK, LogsSound
<1>6. \E t : ServerStepped(i, t, "Dead", log[i])
  <2>1. CASE Kill(i)
    <3>1. ServerIs(i, currentTerm[i], voteFor[i], "Dead", log[i], commitIndex[i])
      <4>1. UNCHANGED <<currentTerm, voteFor, log, disk, commitIndex>>
            /\ state' = [state EXCEPT ![i] = "Dead"]
        BY <2>1 DEF Kill, persistent
      <4>2. encodeState(i)' = encodeState(i)
        BY <4>1 DEF encodeState
      <4> QED BY ZenonT(30), <1>5, <4>1, <4>2 DEF ServerIs, IndexInv, TypeOK
    <3>2. ServerFine(i, currentTerm[i], voteFor[i], "Dead", log[i], commitIndex[i])
      BY SMTT(10), SMTT(30), <1>4, <1>5 DEF ServerFine, RuleState
    <3> QED BY ZenonT(30), <3>1, <3>2, ServerStep
  <2>2. ASSUME NEW m \in rvReq \cup aeReq \cup isReq, KillInHandler(i, m)
        PROVE  \E t : ServerStepped(i, t, "Dead", log[i])
    <3>1. m.Term \in Nat
      BY ZenonT(30) DEF IndexInv, TypeOK, RequestVoteArgs, AppendEntriesArgs, InstallSnapshotArgs
    <3>2. ServerIs(i, m.Term, None, "Dead", log[i], commitIndex[i])
      BY <2>2 DEF KillInHandler, Persist, ServerIs, IndexInv, TypeOK
    <3>3. ServerFine(i, m.Term, None, "Dead", log[i], commitIndex[i])
      <4>1. m.Term > currentTerm[i]
        BY <2>2 DEF KillInHandler
      <4>2. m.Term >= currentTerm[i]
        BY SMTT(10), SMTT(30), <1>5, <3>1, <4>1
      <4> QED BY Zenon, <1>4, <1>5, <3>1, <4>2, NoCandidateFine
    <3> QED BY ZenonT(30), <3>2, <3>3, ServerStep
  <2> QED BY ZenonT(30), <2>1, <2>2
<1>7. "Dead" # "Leader" /\ \A k \in Server : spawned'[k] \subseteq spawned[k]
  BY ZenonT(30), <1>1
<1> QED BY ZenonT(30), <1>1, <1>2, <1>3, <1>6, <1>7, IndexNotLeading

LEMMA IndexMake ==
    ASSUME IndexInv, NEW i \in Server, Make(i)
    PROVE  IndexInv'
<1> DEFINE first == getFirstIndex(log[i])
<1>1. /\ disk[i].currentTerm = currentTerm[i] /\ disk[i].voteFor = voteFor[i]
      /\ disk[i].log = log[i] /\ disk[i] = encodeState(i)
      /\ currentTerm[i] \in Nat /\ voteFor[i] \in Server \cup {None}
  BY SMTT(10), SMTT(30) DEF IndexInv, TypeOK, LogsSound, encodeState
<1>2. /\ log[i] \in LogType /\ Contiguous(log[i]) /\ first \in Nat
      /\ getNextIndex(log[i]) \in Nat
  BY SMTT(10), SMTT(30), ServerLog
<1>3. /\ UNCHANGED <<currentTerm, voteFor, log, disk, rvReq, rvRep, aeReq, aeRep,
                     isReq, isRep, elections, kills, votes, elected, committed>>
      /\ state' = [state EXCEPT ![i] = "Follower"]
      /\ commitIndex' = [commitIndex EXCEPT ![i] = first]
      /\ nextIndex' = [nextIndex EXCEPT ![i] = [j \in Server |-> getNextIndex(log[i])]]
      /\ matchIndex' = [matchIndex EXCEPT ![i] = [j \in Server |-> 0]]
      /\ receivedVotes' = [receivedVotes EXCEPT ![i] = 0]
      /\ calls' = [calls EXCEPT ![i] = {}]
      /\ spawned' = [spawned EXCEPT ![i] = {}]
  BY ZenonT(30), <1>1 DEF Make, network, bounds, IndexInv, TypeOK
<1>4. ServerIs(i, currentTerm[i], voteFor[i], "Follower", log[i], first)
  <2>1. encodeState(i)' = encodeState(i)
    BY ZenonT(30), <1>3 DEF encodeState
  <2> QED BY ZenonT(30), <1>1, <1>3, <2>1 DEF ServerIs, IndexInv, TypeOK
<1>5. ServerFine(i, currentTerm[i], voteFor[i], "Follower", log[i], first)
  <2>1. currentTerm[i] >= currentTerm[i] /\ first <= first
    BY SMTT(10), SMTT(30), <1>1, <1>2
  <2> QED BY Zenon, <1>1, <1>2, <2>1, NoCandidateFine
<1>6. ServerStepped(i, currentTerm[i], "Follower", log[i])
  BY ZenonT(30), <1>4, <1>5, ServerStep
<1>7. /\ receivedVotes' \in [Server -> Nat] /\ calls' \in [Server -> SUBSET Server]
      /\ nextIndex' \in [Server -> [Server -> Nat]]
      /\ matchIndex' \in [Server -> [Server -> Nat]]
      /\ spawned' \in [Server -> SUBSET Nat] /\ kills' \in Nat
      /\ committed' \subseteq LogEntry
  BY ZenonT(30), <1>2, <1>3 DEF IndexInv, TypeOK
<1>8. /\ \A k \in Server \ {i} :
           nextIndex'[k] = nextIndex[k] /\ matchIndex'[k] = matchIndex[k]
      /\ \A k \in Server : spawned'[k] \subseteq spawned[k]
  BY ZenonT(30), <1>3 DEF IndexInv, TypeOK
<1>9. RepliesFit
  BY <1>3 DEF RepliesFit, IndexInv, TypeOK
<1> QED BY ZenonT(30), <1>3, <1>6, <1>7, <1>8, <1>9, IndexNotLeading

LEMMA IndexLose ==
    ASSUME IndexInv, Lose
    PROVE  IndexInv'
<1>1. /\ UNCHANGED <<currentTerm, voteFor, log, disk, state, commitIndex,
                     receivedVotes, calls, nextIndex, matchIndex, spawned,
                     rvReq, rvRep, elections, kills, votes, elected, committed>>
      /\ aeReq' \subseteq aeReq /\ aeRep' \subseteq aeRep
      /\ isReq' \subseteq isReq /\ isRep' \subseteq isRep
  BY DEF Lose, persistent, candidateVars, leaderVars, rvNet, aeNet, isNet, bounds
<1>2. RepliesFit
  BY <1>1 DEF RepliesFit, IndexInv, TypeOK
<1> QED BY <1>1, <1>2, IndexNetwork

-----------------------------------------------------------------------------
(* The theorems *)

\* The replies a leader gets, to entries and to snapshots.
LEMMA IndexAppendEntriesReply ==
    ASSUME IndexInv, NEW i \in Server, NEW m \in aeRep, AppendEntriesReply(i, m)
    PROVE  IndexInv'
<1>1. CASE ReplicationSucceeded(i, m)
  BY <1>1, IndexReplicationSucceeded
<1>2. CASE BackUp(i, m)
  BY <1>2, IndexBackUp
<1>3. CASE StepDown(i, m)
  <2>1. m.Term \in Nat
    BY DEF IndexInv, TypeOK, EntriesReply
  <2>2. /\ UNCHANGED <<receivedVotes, calls, spawned, rvReq, rvRep, aeReq, isReq,
                       elections, kills, votes, elected>>
        /\ aeRep' \subseteq aeRep /\ isRep' \subseteq isRep
    BY DEF AppendEntriesReply, candidateVars, rvNet, isNet, bounds, Without
  <2> QED BY <1>3, <2>1, <2>2, IndexStepDown
<1> QED BY <1>1, <1>2, <1>3 DEF AppendEntriesReply

LEMMA IndexInstallSnapshotReply ==
    ASSUME IndexInv, NEW i \in Server, NEW m \in isRep, InstallSnapshotReply(i, m)
    PROVE  IndexInv'
<1>1. CASE SnapshotInstalled(i, m)
  BY <1>1, IndexSnapshotInstalled
<1>2. CASE StepDown(i, m)
  <2>1. m.Term \in Nat
    BY DEF IndexInv, TypeOK, SnapshotReply
  <2>2. /\ UNCHANGED <<receivedVotes, calls, spawned, rvReq, rvRep, aeReq, isReq,
                       elections, kills, votes, elected>>
        /\ aeRep' \subseteq aeRep /\ isRep' \subseteq isRep
    BY DEF InstallSnapshotReply, candidateVars, rvNet, aeNet, bounds, Without
  <2> QED BY <1>2, <2>1, <2>2, IndexStepDown
<1> QED BY <1>1, <1>2 DEF InstallSnapshotReply

LEMMA IndexNext ==
    ASSUME IndexInv, [Next]_vars
    PROVE  IndexInv'
<1>1. ASSUME NEW i \in Server, startElection(i)
      PROVE  IndexInv'
  BY <1>1, IndexStartElection
<1>2. ASSUME NEW i \in Server, HeartBeat(i)
      PROVE  IndexInv'
  BY <1>2, IndexHeartBeat
<1>3. ASSUME NEW i \in Server, Kill(i)
      PROVE  IndexInv'
  BY <1>3, IndexKill
<1>4. ASSUME NEW i \in Server, Make(i)
      PROVE  IndexInv'
  BY <1>4, IndexMake
<1>5. ASSUME NEW i \in Server, NEW c \in Command, Start(i, c)
      PROVE  IndexInv'
  BY <1>5, IndexStart
<1>6. ASSUME NEW i \in Server, NEW index \in 1 .. MaxSnapshot, Snapshot(i, index)
      PROVE  IndexInv'
  <2>1. index \in Nat
    BY SMTT(10), BoundAssumption
  <2> QED BY <1>6, <2>1, IndexSnapshot
<1>7. ASSUME NEW i \in Server, NEW j \in Server, NEW term \in spawned[i],
             SendAppendEntries(i, j, term) \/ SendInstallSnapshot(i, j, term)
      PROVE  IndexInv'
  BY <1>7, IndexSend
<1>8. ASSUME NEW m \in rvReq, RequestVote(m.to, m)
      PROVE  IndexInv'
  <2>1. m.to \in Server
    BY DEF IndexInv, TypeOK, RequestVoteArgs
  <2> QED BY <1>8, <2>1, IndexRequestVote
<1>9. ASSUME NEW m \in rvRep, RequestVoteReply(m.to, m)
      PROVE  IndexInv'
  <2>1. m.to \in Server
    BY DEF IndexInv, TypeOK, VoteReply
  <2> QED BY <1>9, <2>1, IndexRequestVoteReply
<1>10. ASSUME NEW m \in aeReq, AppendEntries(m.to, m)
       PROVE  IndexInv'
  <2>1. m.to \in Server
    BY DEF IndexInv, TypeOK, AppendEntriesArgs
  <2> QED BY <1>10, <2>1, IndexAppendEntries
<1>11. ASSUME NEW m \in aeRep, AppendEntriesReply(m.to, m)
       PROVE  IndexInv'
  <2>1. m.to \in Server
    BY DEF IndexInv, TypeOK, EntriesReply
  <2> QED BY <1>11, <2>1, IndexAppendEntriesReply
<1>12. ASSUME NEW m \in isReq, InstallSnapshot(m.to, m)
       PROVE  IndexInv'
  <2>1. m.to \in Server
    BY DEF IndexInv, TypeOK, InstallSnapshotArgs
  <2> QED BY <1>12, <2>1, IndexInstallSnapshot
<1>13. ASSUME NEW m \in isRep, InstallSnapshotReply(m.to, m)
       PROVE  IndexInv'
  <2>1. m.to \in Server
    BY DEF IndexInv, TypeOK, SnapshotReply
  <2> QED BY <1>13, <2>1, IndexInstallSnapshotReply
<1>14. ASSUME NEW m \in rvReq \cup aeReq \cup isReq, KillInHandler(m.to, m)
       PROVE  IndexInv'
  <2>1. m.to \in Server
    BY DEF IndexInv, TypeOK, RequestVoteArgs, AppendEntriesArgs, InstallSnapshotArgs
  <2> QED BY <1>14, <2>1, IndexKill
<1>15. CASE Lose
  BY <1>15, IndexLose
<1>16. CASE UNCHANGED vars
  <2>1. UNCHANGED <<currentTerm, voteFor, log, disk, state, commitIndex,
                    receivedVotes, calls, nextIndex, matchIndex, spawned,
                    rvReq, rvRep, aeReq, aeRep, isReq, isRep, elections, kills,
                    votes, elected, committed>>
    BY <1>16 DEF vars
  <2>2. RepliesFit
    BY <2>1 DEF RepliesFit, IndexInv, TypeOK
  <2> QED BY <2>1, <2>2, IndexNetwork
<1> QED BY <1>1, <1>2, <1>3, <1>4, <1>5, <1>6, <1>7, <1>8, <1>9, <1>10, <1>11,
           <1>12, <1>13, <1>14, <1>15, <1>16 DEF Next

\* The logs, snapshots, nextIndex and matchIndex of raft.go, and the indexes in
\* its requests and replies, always fit each other.
THEOREM IndexAlways == Spec => []IndexInv
<1>1. IndexInv /\ [Next]_vars => IndexInv'
  BY IndexNext
<1> QED BY <1>1, IndexInit, PTL DEF Spec

\* Raft is type correct: no message, log or counter of raft.go ever holds a
\* value outside its type.  In particular no index becomes negative and no log
\* loses its sentinel.
THEOREM TypeCorrect == Spec => []TypeOK
<1>1. IndexInv => TypeOK
  BY DEF IndexInv
<1> QED BY <1>1, IndexAlways, PTL

\* No slice or array access of a leader is ever out of range (runHeartBeats,
\* the commit scan, the backwards scan), for any number of servers, elections,
\* kills, lost, reordered or late messages, and any snapshots.
THEOREM IndexesCorrect == Spec => []IndexesInRange
<1>1. IndexInv => IndexesInRange
  BY DEF IndexInv, LogsSound, Contiguous, LeadersInRange, LeaderInRange, IndexesInRange
<1> QED BY <1>1, IndexAlways, PTL

LEMMA ElectionNext ==
    ASSUME IndexInv, IndexInv', ElectionInv, [Next]_vars
    PROVE  ElectionInv'
<1>1. TypeOK /\ TypeOK'
  BY DEF IndexInv
<1>2. CASE Quiet
  BY <1>1, <1>2, ElectionQuiet
<1>3. ASSUME NEW i \in Server, startElection(i)
      PROVE  ElectionInv'
  BY <1>1, <1>3, ElectionStart
<1>4. ASSUME NEW m \in rvReq, m.to \in Server, RequestVote(m.to, m)
      PROVE  ElectionInv'
  BY <1>1, <1>4, ElectionRequestVote
<1>5. ASSUME NEW m \in rvRep, m.to \in Server, RequestVoteReply(m.to, m),
             CountVote(m.to, m)
      PROVE  ElectionInv'
  BY <1>1, <1>5, ElectionCountVote
<1> QED BY <1>2, <1>3, <1>4, <1>5, ElectionSteps

\* Every vote counted by startElection was given in the candidate's term by a
\* server that is in that term with that votedFor, or has left it.
THEOREM ElectionAlways == Spec => []ElectionInv
<1>1. IndexInv /\ IndexInv' /\ ElectionInv /\ [Next]_vars => ElectionInv'
  BY ElectionNext
<1> QED BY <1>1, IndexAlways, ElectionInit, PTL DEF Spec

\* At most one server ever becomes leader in a term (startElection,
\* RequestVote and the vote goroutines), for any number of servers.
THEOREM ElectionCorrect == Spec => []ElectionSafety
<1>1. IndexInv /\ ElectionInv => ElectionSafety
  BY ElectionIsSafe DEF IndexInv
<1> QED BY <1>1, IndexAlways, ElectionAlways, PTL

\* A leader stays leader of its term until it sees a larger term or is killed:
\* the AppendEntries and InstallSnapshot handlers, which turn their server into
\* a follower without asking whether it leads, never do so to the leader of
\* the request's term.
THEOREM LeaderCorrect == Spec => LeaderUntilNewTerm
<1>1. IndexInv /\ ElectionInv /\ [Next]_vars => LeaderStays
  BY LeaderNext, ElectionIsSafe DEF IndexInv
<1> QED BY <1>1, IndexAlways, ElectionAlways, PTL DEF Spec, LeaderUntilNewTerm, LeaderStays

=============================================================================
