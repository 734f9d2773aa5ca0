-------------------------------- MODULE Raft --------------------------------
(***************************************************************************)
(* The replicated log of src/raft/raft.go: elections, log replication,     *)
(* persistence, crash and restart, and log compaction by snapshots.        *)
(*                                                                         *)
(* Every handler and every goroutine body of the code runs under rf.mu     *)
(* from Lock to Unlock; one such critical section is one action.  Between  *)
(* two of them anything may happen: RPCs are delayed, reordered or lost    *)
(* (a lost message is one that is never received), servers are killed and  *)
(* restarted, and goroutines are scheduled late.                           *)
(*                                                                         *)
(* labrpc delivers a request at most once, so receiving a message takes it *)
(* off the network.  AppendEntries and InstallSnapshot are re-sent         *)
(* unchanged by every tick of the heartbeat timer; with Copies a member of *)
(* their sets stands for any number of identical messages.                 *)
(***************************************************************************)
EXTENDS Integers, Sequences, FiniteSets

CONSTANTS
    Server,        \* the peers
    Command,       \* what a service hands to Start
    None,          \* the -1 of voteFor and the nil of a snapshot's command
    MaxElections,  \* bound: how many elections are started
    MaxIndex,      \* bound: no Start beyond this log index
    MaxSnapshot,   \* bound: the service snapshots up to this index
    MaxKills,      \* bound: how many times a server is killed
    MaxFlight,     \* bound: replication messages in flight at once
    Copies         \* bound: may identical messages be in flight at once?

ASSUME ServerAssumption == IsFiniteSet(Server) /\ None \notin Server
ASSUME BoundAssumption ==
    /\ MaxElections \in Nat /\ MaxIndex \in Nat
    /\ MaxSnapshot \in Nat /\ MaxKills \in Nat
    /\ MaxFlight \in Nat /\ Copies \in BOOLEAN

VARIABLES
    currentTerm, voteFor, log,          \* persisted fields of Raft
    disk,                               \* what the Persister holds
    state, commitIndex,                 \* volatile fields of Raft
    receivedVotes,  \* the counter the vote goroutines of an election share
    calls,          \* peers whose RequestVote call has not returned
    nextIndex, matchIndex,              \* volatile, used while Leader
    spawned,        \* the terms captured by heartbeat goroutines not yet run
    rvReq, rvRep,   \* RequestVote messages in flight
    aeReq, aeRep,   \* AppendEntries messages in flight
    isReq, isRep,   \* InstallSnapshot messages in flight
    elections, kills,   \* elections and kills so far (for the bounds)
    votes,          \* history: <<term, voter, candidate>> of every vote
    elected,        \* history: <<term, server>> of every becomeLeader
    committed       \* history: every entry some server held as committed

persistent == <<currentTerm, voteFor, log, disk>>
candidateVars == <<receivedVotes, calls>>
leaderVars == <<nextIndex, matchIndex>>
bounds == <<elections, kills>>
rvNet == <<rvReq, rvRep>>
aeNet == <<aeReq, aeRep>>
isNet == <<isReq, isRep>>
network == <<rvReq, rvRep, aeReq, aeRep, isReq, isRep>>
vars == <<currentTerm, voteFor, log, disk, state, commitIndex,
          receivedVotes, calls, nextIndex, matchIndex, spawned,
          rvReq, rvRep, aeReq, aeRep, isReq, isRep, elections, kills, votes, elected,
          committed>>

-----------------------------------------------------------------------------
(* Data.  log[i][1] is the sentinel: Term and Index of the last entry the  *)
(* snapshot covers (0 and 0 before the first snapshot), Command nil.       *)

RuleState == {"Follower", "Candidate", "Leader", "Dead"}

LogEntry == [Term : Nat, Index : Nat, Command : Command \cup {None}]

LogType == {l \in Seq(LogEntry) : Len(l) >= 1}

Saved == [currentTerm : Nat, voteFor : Server \cup {None}, log : LogType]

(* The RPC messages: the code's argument and reply structs, with the two     *)
(* ends of the call.  A reply also carries what the caller kept of its own   *)
(* arguments: the term, and how far the entries or the snapshot reached.     *)

RequestVoteArgs ==
    [Term : Nat, CandidateId : Server, LastLogIndex : Nat, LastLogTerm : Nat,
     to : Server]

VoteReply ==
    [Term : Nat, VoteGranted : BOOLEAN, argsTerm : Nat, from : Server, to : Server]

AppendEntriesArgs ==
    [Term : Nat, LeaderId : Server, PrevLogIndex : Nat, PrevLogTerm : Nat,
     Entries : Seq(LogEntry), LeaderCommit : Nat, to : Server]

EntriesReply ==
    [Term : Nat, Success : BOOLEAN, ConflictIndex : Nat, ConflictTerm : Int,
     argsTerm : Nat, PrevLogIndex : Nat, lastSent : Nat, from : Server, to : Server]

InstallSnapshotArgs ==
    [Term : Nat, LeaderId : Server, LastIncludedIndex : Nat,
     LastIncludedTerm : Nat, to : Server]

SnapshotReply ==
    [Term : Nat, argsTerm : Nat, LastIncludedIndex : Nat, from : Server, to : Server]

Sentinel(index, term) == [Term |-> term, Index |-> index, Command |-> None]

getFirstIndex(l) == l[1].Index

getFirstTerm(l) == l[1].Term

getLastIndex(l) == l[Len(l)].Index

getLastTerm(l) == l[Len(l)].Term

getNextIndex(l) == getLastIndex(l) + 1

getTerm(l, index) == l[index - getFirstIndex(l) + 1].Term

Max2(a, b) == IF a > b THEN a ELSE b

Min2(a, b) == IF a < b THEN a ELSE b

\* count*2 >= len(rf.peers)+1
IsMajority(count) == count * 2 >= Cardinality(Server) + 1

\* What may be left of a set of messages when m is received from it.
Without(S, m) == IF Copies THEN {S, S \ {m}} ELSE {S \ {m}}

InFlight == Cardinality(aeReq) + Cardinality(aeRep)
            + Cardinality(isReq) + Cardinality(isRep)

\* The history of commitIndex moving from `from` to `upto` on log l.
RecordCommit(l, from, upto) ==
    committed' = committed \cup
        {l[k - getFirstIndex(l) + 1] : k \in (from + 1) .. upto}

\* persister.Save(encodeState(), ...): the three persisted fields at once.
encodeState(i) ==
    [currentTerm |-> currentTerm[i], voteFor |-> voteFor[i], log |-> log[i]]

\* Mutant of Persist: voteFor is left out of what is saved.
PersistWithoutVote(i) ==
    disk' = [disk EXCEPT ![i] = [encodeState(i)' EXCEPT !.voteFor = disk[i].voteFor]]

\* persist() runs on every path that changes a persisted field, before the
\* lock is released; on other paths it would store what is already stored.
Persist(i) == disk' = [disk EXCEPT ![i] = encodeState(i)']

-----------------------------------------------------------------------------
(* Role changes *)

\* becomeFollower(term).  The election timer it starts is not modelled:
\* StartElection is possible whenever a server is no leader.
becomeFollower(i, term) ==
    /\ state' = [state EXCEPT ![i] = "Follower"]
    /\ currentTerm' = [currentTerm EXCEPT ![i] = term]
    /\ voteFor' = [voteFor EXCEPT ![i] = None]
    /\ UNCHANGED log
    /\ Persist(i)

\* The step every request handler begins with: a larger term makes the
\* server a follower of it that has not voted.
TermSeen(i, term) == Max2(currentTerm[i], term)

\* Mutant of VoteSeen: the zero value of an int instead of -1.
VoteSeenZero(i, term) == IF term > currentTerm[i] THEN 0 ELSE voteFor[i]

VoteSeen(i, term) == IF term > currentTerm[i] THEN None ELSE voteFor[i]

\* Mutant of becomeLeader: matchIndex is initialised like nextIndex.
becomeLeaderMatched(i) ==
    /\ state' = [state EXCEPT ![i] = "Leader"]
    /\ nextIndex' = [nextIndex EXCEPT
                        ![i] = [j \in Server |-> getNextIndex(log[i])]]
    /\ matchIndex' = [matchIndex EXCEPT
                        ![i] = [j \in Server |-> getLastIndex(log[i])]]
    /\ elected' = elected \cup {<<currentTerm[i], i>>}

becomeLeader(i) ==
    /\ state' = [state EXCEPT ![i] = "Leader"]
    /\ nextIndex' = [nextIndex EXCEPT
                        ![i] = [j \in Server |-> getNextIndex(log[i])]]
    /\ matchIndex' = [matchIndex EXCEPT ![i] = [j \in Server |-> 0]]
    /\ elected' = elected \cup {<<currentTerm[i], i>>}

-----------------------------------------------------------------------------
(* Elections *)

\* runElectionTimer fires: startElection().
startElection(i) ==
    /\ state[i] \in {"Follower", "Candidate"}
    /\ elections < MaxElections
    /\ elections' = elections + 1
    /\ currentTerm' = [currentTerm EXCEPT ![i] = @ + 1]
    /\ state' = [state EXCEPT ![i] = "Candidate"]
    /\ voteFor' = [voteFor EXCEPT ![i] = i]
    /\ UNCHANGED log
    /\ Persist(i)
    /\ receivedVotes' = [receivedVotes EXCEPT ![i] = 1]
    /\ calls' = [calls EXCEPT ![i] = Server \ {i}]
    /\ rvReq' = rvReq \cup
         {[Term |-> currentTerm[i] + 1, CandidateId |-> i, to |-> j,
           LastLogIndex |-> getLastIndex(log[i]),
           LastLogTerm |-> getLastTerm(log[i])] : j \in Server \ {i}}
    /\ votes' = votes \cup {<<currentTerm[i] + 1, i, i>>}
    /\ UNCHANGED <<rvRep, aeNet, isNet, commitIndex, leaderVars, spawned,
                   kills, elected, committed>>

\* Mutant of UpToDate: only the terms that are logged are compared, and a
\* candidate without entries passes.
UpToDateOrEmpty(m, l) ==
    m.LastLogIndex = 0 \/ m.LastLogTerm >= getLastTerm(l)

\* The candidate's log is at least as up to date as l.
UpToDate(m, l) ==
    \/ m.LastLogTerm > getLastTerm(l)
    \/ m.LastLogTerm = getLastTerm(l) /\ m.LastLogIndex >= getLastIndex(l)

\* Mutant of GrantsVote: a vote already given is not looked at.
GrantsVoteAgain(j, m) ==
    TermSeen(j, m.Term) = m.Term /\ UpToDate(m, log[j])

\* The condition under which the RequestVote handler of j grants its vote.
GrantsVote(j, m) ==
    /\ TermSeen(j, m.Term) = m.Term
    /\ VoteSeen(j, m.Term) \in {None, m.CandidateId}
    /\ UpToDate(m, log[j])

RequestVote(j, m) ==
    /\ m \in rvReq /\ m.to = j
    /\ state[j] # "Dead"
    /\ currentTerm' = [currentTerm EXCEPT ![j] = TermSeen(j, m.Term)]
    /\ state' = [state EXCEPT ![j] =
                    IF m.Term > currentTerm[j] THEN "Follower" ELSE @]
    /\ voteFor' = [voteFor EXCEPT ![j] =
                    IF GrantsVote(j, m) THEN m.CandidateId
                    ELSE VoteSeen(j, m.Term)]
    /\ UNCHANGED log
    /\ Persist(j)
    /\ rvReq' = rvReq \ {m}
    /\ rvRep' = rvRep \cup
         {[Term |-> TermSeen(j, m.Term), VoteGranted |-> GrantsVote(j, m),
           argsTerm |-> m.Term, from |-> j, to |-> m.CandidateId]}
    /\ votes' = IF GrantsVote(j, m)
                THEN votes \cup {<<m.Term, j, m.CandidateId>>} ELSE votes
    /\ UNCHANGED <<aeNet, isNet, commitIndex, candidateVars, leaderVars,
                   spawned, bounds, elected, committed>>

\* A vote goroutine of startElection gets its reply.  A reply that finds the
\* server no longer a candidate of that term is dropped by the code.
CountVote(i, m) ==
    /\ m.VoteGranted
    /\ receivedVotes' = [receivedVotes EXCEPT ![i] = @ + 1]
    /\ IF IsMajority(receivedVotes[i] + 1)
       THEN becomeLeader(i)
       ELSE UNCHANGED <<state, leaderVars, elected>>
    /\ UNCHANGED persistent

LoseElection(i, m) ==
    /\ ~m.VoteGranted /\ m.Term > currentTerm[i]
    /\ becomeFollower(i, m.Term)
    /\ UNCHANGED <<receivedVotes, leaderVars, elected>>

RequestVoteReply(i, m) ==
    /\ m \in rvRep /\ m.to = i /\ m.from \in calls[i]
    /\ state[i] = "Candidate" /\ currentTerm[i] = m.argsTerm
    /\ CountVote(i, m) \/ LoseElection(i, m)
    /\ calls' = [calls EXCEPT ![i] = @ \ {m.from}]
    /\ rvRep' = rvRep \ {m}
    /\ UNCHANGED <<rvReq, aeNet, isNet, commitIndex, spawned, bounds, votes, committed>>

-----------------------------------------------------------------------------
(* Replication: the leader's side *)

\* runHeartBeats() starts one goroutine per peer.  Each captured the term of
\* this moment; it is scheduled later, possibly much later.
runHeartBeats(i) == spawned' = [spawned EXCEPT ![i] = @ \cup {currentTerm[i]}]

\* One tick of heartBeatsTimer.
HeartBeat(i) ==
    /\ state[i] = "Leader"
    /\ runHeartBeats(i)
    /\ UNCHANGED <<persistent, state, commitIndex, candidateVars, leaderVars,
                   network, bounds, votes, elected, committed>>

Start(i, c) ==
    /\ state[i] = "Leader"
    /\ getNextIndex(log[i]) <= MaxIndex
    /\ log' = [log EXCEPT ![i] = Append(@,
         [Term |-> currentTerm[i], Index |-> getNextIndex(@), Command |-> c])]
    /\ UNCHANGED <<currentTerm, voteFor>>
    /\ Persist(i)
    /\ runHeartBeats(i)
    /\ UNCHANGED <<state, commitIndex, candidateVars, leaderVars, network,
                   bounds, votes, elected, committed>>

\* A heartbeat goroutine that captured `term` gets the lock.  It checks that
\* the server is a leader, not that it is still the leader of that term.
\* It sends the whole rest of the log, or the snapshot when the entries it
\* would need are compacted away.
SendAppendEntries(i, j, term) ==
    /\ InFlight < MaxFlight
    /\ state[i] = "Leader" /\ i # j /\ term \in spawned[i]
    /\ nextIndex[i][j] > getFirstIndex(log[i])
    /\ LET prev == nextIndex[i][j] - 1
       IN aeReq' = aeReq \cup
            {[Term |-> term, LeaderId |-> i, to |-> j,
              PrevLogIndex |-> prev,
              PrevLogTerm |-> getTerm(log[i], prev),
              Entries |-> SubSeq(log[i], prev - getFirstIndex(log[i]) + 2,
                                 Len(log[i])),
              LeaderCommit |-> commitIndex[i]]}
    /\ UNCHANGED <<persistent, state, commitIndex, candidateVars, leaderVars,
                   spawned, rvNet, aeRep, isNet, bounds, votes, elected, committed>>

SendInstallSnapshot(i, j, term) ==
    /\ InFlight < MaxFlight
    /\ state[i] = "Leader" /\ i # j /\ term \in spawned[i]
    /\ nextIndex[i][j] <= getFirstIndex(log[i])
    /\ isReq' = isReq \cup
         {[Term |-> term, LeaderId |-> i, to |-> j,
           LastIncludedIndex |-> getFirstIndex(log[i]),
           LastIncludedTerm |-> getFirstTerm(log[i])]}
    /\ UNCHANGED <<persistent, state, commitIndex, candidateVars, leaderVars,
                   spawned, rvNet, aeNet, isRep, bounds, votes, elected, committed>>

\* How many servers, the leader included, are known to hold index k.
Replicas(i, match, k) ==
    1 + Cardinality({j \in Server \ {i} : match[j] >= k})

\* The commit scan: from commitIndex+1 on, entries of older terms are passed
\* over, entries of the current term advance commitIndex until one of them
\* has no majority.
CommitPoints(i, match) ==
    LET current == {k \in (commitIndex[i] + 1) .. getLastIndex(log[i]) :
                        getTerm(log[i], k) = currentTerm[i]}
    IN {k \in current :
            \A h \in current : h <= k => IsMajority(Replicas(i, match, h))}

\* How far the leader of that reply is committed afterwards.
CommitIndexAfter(i, match) ==
    LET points == CommitPoints(i, match)
    IN IF points = {} THEN commitIndex[i]
       ELSE CHOOSE k \in points : \A h \in points : h <= k

\* handleAppendEntriesRPCResponse, reply.Success.
ReplicationSucceeded(i, m) ==
    /\ m.Term = currentTerm[i] /\ m.Success
    /\ LET match == [matchIndex[i] EXCEPT ![m.from] = Max2(@, m.lastSent)]
       IN /\ matchIndex' = [matchIndex EXCEPT ![i] = match]
          /\ nextIndex' = [nextIndex EXCEPT ![i][m.from] = match[m.from] + 1]
          /\ commitIndex' = [commitIndex EXCEPT ![i] = CommitIndexAfter(i, match)]
          /\ RecordCommit(log[i], commitIndex[i], CommitIndexAfter(i, match))
    /\ UNCHANGED <<persistent, state>>

\* The backwards scan for the follower's conflicting term: the last index
\* before prev whose term is not above it, if that index has that very term.
SameTermBefore(l, prev, term) ==
    LET below == {k \in getFirstIndex(l) .. (prev - 1) : getTerm(l, k) <= term}
        last == CHOOSE k \in below : \A h \in below : h <= k
    IN IF below # {} /\ getTerm(l, last) = term THEN last ELSE -1

\* handleAppendEntriesRPCResponse, ~reply.Success: back up nextIndex.
BackUp(i, m) ==
    /\ m.Term = currentTerm[i] /\ ~m.Success
    /\ LET last == IF m.ConflictTerm > 0
                   THEN SameTermBefore(log[i], m.PrevLogIndex, m.ConflictTerm)
                   ELSE -1
       IN nextIndex' = [nextIndex EXCEPT ![i][m.from] =
                          IF last > 0 THEN last + 1
                          ELSE Max2(m.ConflictIndex, matchIndex[i][m.from] + 1)]
    /\ UNCHANGED <<persistent, state, matchIndex, commitIndex, committed>>

\* A reply of a larger term, to either kind of call.
StepDown(i, m) ==
    /\ m.Term > currentTerm[i]
    /\ becomeFollower(i, m.Term)
    /\ UNCHANGED <<leaderVars, commitIndex, committed>>

AppendEntriesReply(i, m) ==
    /\ m \in aeRep /\ m.to = i
    /\ state[i] = "Leader" /\ currentTerm[i] = m.argsTerm
    /\ ReplicationSucceeded(i, m) \/ BackUp(i, m) \/ StepDown(i, m)
    /\ aeRep' \in Without(aeRep, m)
    /\ UNCHANGED <<candidateVars, spawned, rvNet, aeReq, isNet,
                   bounds, votes, elected>>

\* handleInstallSnapshotRPCResponse.
SnapshotInstalled(i, m) ==
    /\ m.Term = currentTerm[i]
    /\ LET match == Max2(matchIndex[i][m.from], m.LastIncludedIndex)
       IN /\ matchIndex' = [matchIndex EXCEPT ![i][m.from] = match]
          /\ nextIndex' = [nextIndex EXCEPT ![i][m.from] = match + 1]
    /\ UNCHANGED <<persistent, state, commitIndex, committed>>

InstallSnapshotReply(i, m) ==
    /\ m \in isRep /\ m.to = i
    /\ state[i] = "Leader" /\ currentTerm[i] = m.argsTerm
    /\ SnapshotInstalled(i, m) \/ StepDown(i, m)
    /\ isRep' \in Without(isRep, m)
    /\ UNCHANGED <<candidateVars, spawned, rvNet, aeNet, isReq,
                   bounds, votes, elected>>

-----------------------------------------------------------------------------
(* Replication: the follower's side *)

AppendReply(j, m, success, conflictIndex, conflictTerm) ==
    [Term |-> TermSeen(j, m.Term), Success |-> success,
     ConflictIndex |-> conflictIndex, ConflictTerm |-> conflictTerm,
     argsTerm |-> m.Term, PrevLogIndex |-> m.PrevLogIndex,
     lastSent |-> m.PrevLogIndex + Len(m.Entries),
     from |-> j, to |-> m.LeaderId]

\* A request of an older term: only the reply, which carries the newer term.
RefuseOldLeader(j, m) ==
    /\ m.Term < currentTerm[j]
    /\ aeRep' = aeRep \cup {AppendReply(j, m, FALSE, 0, 0)}
    /\ UNCHANGED <<persistent, state, commitIndex, committed>>

\* Mutant of FollowLeader: requests of older terms are followed too.
FollowAnyLeader(j, m) ==
    /\ currentTerm' = [currentTerm EXCEPT ![j] = TermSeen(j, m.Term)]
    /\ voteFor' = [voteFor EXCEPT ![j] = VoteSeen(j, m.Term)]
    /\ state' = [state EXCEPT ![j] = "Follower"]

\* What the handlers do first with a request of a current or newer term.
FollowLeader(j, m) ==
    /\ m.Term >= currentTerm[j]
    /\ currentTerm' = [currentTerm EXCEPT ![j] = m.Term]
    /\ voteFor' = [voteFor EXCEPT ![j] = VoteSeen(j, m.Term)]
    /\ state' = [state EXCEPT ![j] = "Follower"]

\* PrevLogIndex lies inside the snapshot.  The reply says Term 0, to which
\* no leader reacts.
PrevCompacted(j, m) ==
    /\ m.PrevLogIndex < getFirstIndex(log[j])
    /\ UNCHANGED <<log, commitIndex, aeRep, committed>>

PrevMatches(j, m) ==
    /\ m.PrevLogIndex >= getFirstIndex(log[j])
    /\ m.PrevLogIndex < getNextIndex(log[j])
    /\ m.PrevLogTerm = getTerm(log[j], m.PrevLogIndex)

\* The positions of the sent entries that l does not hold.
Missing(l, m) ==
    {n \in 1 .. Len(m.Entries) :
        \/ m.PrevLogIndex + n >= getNextIndex(l)
        \/ getTerm(l, m.PrevLogIndex + n) # m.Entries[n].Term}

\* Mutant of Merge: a present entry is never replaced.
MergeAppendOnly(l, m) ==
    LET held == getLastIndex(l) - m.PrevLogIndex
    IN l \o SubSeq(m.Entries, held + 1, Len(m.Entries))

\* From the first entry l does not hold, the sent entries replace l's.
\* When l holds them all it keeps what follows them.
Merge(l, m) ==
    LET n == CHOOSE p \in Missing(l, m) : \A q \in Missing(l, m) : p <= q
    IN IF Missing(l, m) = {} THEN l
       ELSE SubSeq(l, 1, m.PrevLogIndex + n - getFirstIndex(l))
            \o SubSeq(m.Entries, n, Len(m.Entries))

Accept(j, m) ==
    /\ PrevMatches(j, m)
    /\ log' = [log EXCEPT ![j] = Merge(@, m)]
    /\ LET commit == IF m.LeaderCommit > commitIndex[j]
                     THEN Min2(getLastIndex(Merge(log[j], m)), m.LeaderCommit)
                     ELSE commitIndex[j]
       IN /\ commitIndex' = [commitIndex EXCEPT ![j] = commit]
          /\ RecordCommit(Merge(log[j], m), commitIndex[j], commit)
    /\ aeRep' = aeRep \cup {AppendReply(j, m, TRUE, 0, 0)}

\* The lowest index of the run of entries that ends at prev and shares its
\* term, not below the sentinel.
FirstOfRun(l, prev) ==
    CHOOSE k \in getFirstIndex(l) .. prev :
        /\ \A h \in k .. prev : getTerm(l, h) = getTerm(l, prev)
        /\ k > getFirstIndex(l) => getTerm(l, k - 1) # getTerm(l, prev)

Conflict(j, m) ==
    /\ m.PrevLogIndex >= getFirstIndex(log[j])
    /\ ~PrevMatches(j, m)
    /\ aeRep' = aeRep \cup
         {IF m.PrevLogIndex >= getNextIndex(log[j])
          THEN AppendReply(j, m, FALSE, getNextIndex(log[j]), -1)
          ELSE AppendReply(j, m, FALSE, FirstOfRun(log[j], m.PrevLogIndex),
                           getTerm(log[j], m.PrevLogIndex))}
    /\ UNCHANGED <<log, commitIndex, committed>>

AppendEntries(j, m) ==
    /\ m \in aeReq /\ m.to = j
    /\ state[j] # "Dead"
    /\ \/ RefuseOldLeader(j, m)
       \/ /\ FollowLeader(j, m)
          /\ PrevCompacted(j, m) \/ Accept(j, m) \/ Conflict(j, m)
          /\ Persist(j)
    /\ aeReq' \in Without(aeReq, m)
    /\ UNCHANGED <<candidateVars, leaderVars, spawned, rvNet,
                   isNet, bounds, votes, elected>>

-----------------------------------------------------------------------------
(* Snapshots *)

\* The service compacts its log up to an index it has been handed.
Snapshot(i, index) ==
    /\ state[i] # "Dead"
    /\ index > getFirstIndex(log[i]) /\ index <= commitIndex[i]
    /\ index <= getLastIndex(log[i]) /\ index <= MaxSnapshot
    /\ log' = [log EXCEPT ![i] =
          <<Sentinel(index, getTerm(@, index))>>
          \o SubSeq(@, index - getFirstIndex(@) + 2, Len(@))]
    /\ UNCHANGED <<currentTerm, voteFor>>
    /\ Persist(i)
    /\ UNCHANGED <<state, commitIndex, candidateVars, leaderVars, spawned,
                   network, bounds, votes, elected, committed>>

\* A snapshot the server does not need is ignored.
SnapshotIsOld(j, m) ==
    /\ commitIndex[j] >= m.LastIncludedIndex
    /\ UNCHANGED <<log, commitIndex>>

\* Mutants of AdoptSnapshot: the term of the request becomes the sentinel's;
\* the suffix starts one entry early.
AdoptSnapshotTerm(j, m) ==
    /\ commitIndex[j] < m.LastIncludedIndex
    /\ log' = [log EXCEPT ![j] =
          <<Sentinel(m.LastIncludedIndex, m.Term)>>
          \o (IF getLastIndex(@) <= m.LastIncludedIndex THEN <<>>
              ELSE SubSeq(@, m.LastIncludedIndex - getFirstIndex(@) + 2, Len(@)))]
    /\ commitIndex' = [commitIndex EXCEPT ![j] = m.LastIncludedIndex]

AdoptSnapshotEarly(j, m) ==
    /\ commitIndex[j] < m.LastIncludedIndex
    /\ log' = [log EXCEPT ![j] =
          <<Sentinel(m.LastIncludedIndex, m.LastIncludedTerm)>>
          \o (IF getLastIndex(@) < m.LastIncludedIndex THEN <<>>
              ELSE SubSeq(@, m.LastIncludedIndex - getFirstIndex(@) + 1, Len(@)))]
    /\ commitIndex' = [commitIndex EXCEPT ![j] = m.LastIncludedIndex]

\* Entries behind the snapshot's last index are kept, whatever their terms.
AdoptSnapshot(j, m) ==
    /\ commitIndex[j] < m.LastIncludedIndex
    /\ log' = [log EXCEPT ![j] =
          <<Sentinel(m.LastIncludedIndex, m.LastIncludedTerm)>>
          \o (IF getLastIndex(@) <= m.LastIncludedIndex THEN <<>>
              ELSE SubSeq(@, m.LastIncludedIndex - getFirstIndex(@) + 2, Len(@)))]
    /\ commitIndex' = [commitIndex EXCEPT ![j] = m.LastIncludedIndex]

InstallSnapshot(j, m) ==
    /\ m \in isReq /\ m.to = j
    /\ state[j] # "Dead"
    /\ \/ m.Term < currentTerm[j] /\ UNCHANGED <<persistent, state, commitIndex>>
       \/ /\ FollowLeader(j, m)
          /\ SnapshotIsOld(j, m) \/ AdoptSnapshot(j, m)
          /\ Persist(j)
    /\ isRep' = isRep \cup
         {[Term |-> TermSeen(j, m.Term), argsTerm |-> m.Term,
           LastIncludedIndex |-> m.LastIncludedIndex,
           from |-> j, to |-> m.LeaderId]}
    /\ isReq' \in Without(isReq, m)
    /\ UNCHANGED <<candidateVars, leaderVars, spawned, rvNet, aeNet, bounds,
                   votes, elected, committed>>

-----------------------------------------------------------------------------
(* Kill and restart *)

Kill(i) ==
    /\ state[i] # "Dead" /\ kills < MaxKills
    /\ kills' = kills + 1
    /\ state' = [state EXCEPT ![i] = "Dead"]
    /\ UNCHANGED <<persistent, commitIndex, candidateVars, leaderVars, spawned,
                   network, elections, votes, elected, committed>>

\* The persisted state is copied for the restart while a handler has saved
\* the larger term of its request but not yet its vote or its new log.
KillInHandler(i, m) ==
    /\ m \in rvReq \cup aeReq \cup isReq /\ m.to = i
    /\ state[i] # "Dead" /\ kills < MaxKills
    /\ m.Term > currentTerm[i]
    /\ kills' = kills + 1
    /\ state' = [state EXCEPT ![i] = "Dead"]
    /\ currentTerm' = [currentTerm EXCEPT ![i] = m.Term]
    /\ voteFor' = [voteFor EXCEPT ![i] = None]
    /\ UNCHANGED log
    /\ Persist(i)
    /\ UNCHANGED <<commitIndex, candidateVars, leaderVars, spawned, network,
                   elections, votes, elected, committed>>

\* Make(): a killed server starts again from what its Persister holds.
Make(i) ==
    /\ state[i] = "Dead"
    /\ state' = [state EXCEPT ![i] = "Follower"]
    /\ currentTerm' = [currentTerm EXCEPT ![i] = disk[i].currentTerm]
    /\ voteFor' = [voteFor EXCEPT ![i] = disk[i].voteFor]
    /\ log' = [log EXCEPT ![i] = disk[i].log]
    /\ UNCHANGED disk
    /\ commitIndex' = [commitIndex EXCEPT ![i] = getFirstIndex(disk[i].log)]
    /\ nextIndex' = [nextIndex EXCEPT
                        ![i] = [j \in Server |-> getNextIndex(disk[i].log)]]
    /\ matchIndex' = [matchIndex EXCEPT ![i] = [j \in Server |-> 0]]
    /\ receivedVotes' = [receivedVotes EXCEPT ![i] = 0]
    /\ calls' = [calls EXCEPT ![i] = {}]
    /\ spawned' = [spawned EXCEPT ![i] = {}]
    /\ UNCHANGED <<network, bounds, votes, elected, committed>>

\* A replication request or reply is lost.
Lose ==
    /\ \/ \E m \in aeReq : aeReq' = aeReq \ {m} /\ UNCHANGED <<aeRep, isNet>>
       \/ \E m \in aeRep : aeRep' = aeRep \ {m} /\ UNCHANGED <<aeReq, isNet>>
       \/ \E m \in isReq : isReq' = isReq \ {m} /\ UNCHANGED <<isRep, aeNet>>
       \/ \E m \in isRep : isRep' = isRep \ {m} /\ UNCHANGED <<isReq, aeNet>>
    /\ UNCHANGED <<persistent, state, commitIndex, candidateVars, leaderVars,
                   spawned, rvNet, bounds, votes, elected, committed>>

-----------------------------------------------------------------------------
Init ==
    /\ currentTerm = [i \in Server |-> 0]
    /\ voteFor = [i \in Server |-> None]
    /\ log = [i \in Server |-> <<Sentinel(0, 0)>>]
    /\ disk = [i \in Server |->
                 [currentTerm |-> 0, voteFor |-> None, log |-> <<Sentinel(0, 0)>>]]
    /\ state = [i \in Server |-> "Follower"]
    /\ commitIndex = [i \in Server |-> 0]
    /\ receivedVotes = [i \in Server |-> 0]
    /\ calls = [i \in Server |-> {}]
    /\ nextIndex = [i \in Server |-> [j \in Server |-> 1]]
    /\ matchIndex = [i \in Server |-> [j \in Server |-> 0]]
    /\ spawned = [i \in Server |-> {}]
    /\ rvReq = {} /\ rvRep = {} /\ aeReq = {} /\ aeRep = {}
    /\ isReq = {} /\ isRep = {}
    /\ elections = 0 /\ kills = 0 /\ votes = {} /\ elected = {} /\ committed = {}

Next ==
    \/ \E i \in Server :
         \/ startElection(i) \/ HeartBeat(i) \/ Kill(i) \/ Make(i)
         \/ \E c \in Command : Start(i, c)
         \/ \E index \in 1 .. MaxSnapshot : Snapshot(i, index)
         \/ \E j \in Server, term \in spawned[i] :
              SendAppendEntries(i, j, term) \/ SendInstallSnapshot(i, j, term)
    \/ \E m \in rvReq : RequestVote(m.to, m)
    \/ \E m \in rvRep : RequestVoteReply(m.to, m)
    \/ \E m \in aeReq : AppendEntries(m.to, m)
    \/ \E m \in aeRep : AppendEntriesReply(m.to, m)
    \/ \E m \in isReq : InstallSnapshot(m.to, m)
    \/ \E m \in isRep : InstallSnapshotReply(m.to, m)
    \/ \E m \in rvReq \cup aeReq \cup isReq : KillInHandler(m.to, m)
    \/ Lose

Spec == Init /\ [][Next]_vars

-----------------------------------------------------------------------------
(* Properties *)

\* Every variable has its type.
TypeOK ==
    /\ currentTerm \in [Server -> Nat]
    /\ voteFor \in [Server -> Server \cup {None}]
    /\ log \in [Server -> LogType]
    /\ disk \in [Server -> Saved]
    /\ state \in [Server -> RuleState]
    /\ commitIndex \in [Server -> Nat]
    /\ receivedVotes \in [Server -> Nat]
    /\ calls \in [Server -> SUBSET Server]
    /\ nextIndex \in [Server -> [Server -> Nat]]
    /\ matchIndex \in [Server -> [Server -> Nat]]
    /\ spawned \in [Server -> SUBSET Nat]
    /\ rvReq \subseteq RequestVoteArgs /\ rvRep \subseteq VoteReply
    /\ aeReq \subseteq AppendEntriesArgs /\ aeRep \subseteq EntriesReply
    /\ isReq \subseteq InstallSnapshotArgs /\ isRep \subseteq SnapshotReply
    /\ elections \in Nat /\ kills \in Nat
    /\ votes \subseteq Nat \X Server \X Server
    /\ elected \subseteq Nat \X Server
    /\ committed \subseteq LogEntry

\* At most one server ever becomes leader in a term (becomeLeader), whatever
\* is lost, delayed, or forgotten by a crash.
ElectionSafety ==
    \A e, f \in elected : e[1] = f[1] => e[2] = f[2]

\* No two servers ever commit different entries for one index, and a server
\* still holds everything up to its commitIndex, which apply() hands to the
\* service, as it was committed.
StateMachineSafety ==
    /\ \A a, b \in committed : a.Index = b.Index => a = b
    /\ \A i \in Server :
         /\ commitIndex[i] <= getLastIndex(log[i])
         /\ \A k \in (getFirstIndex(log[i]) + 1) .. commitIndex[i] :
               log[i][k - getFirstIndex(log[i]) + 1] \in committed

\* The newest leader holds every entry that was ever committed, or a snapshot
\* that covers it: a leader never starts without what is committed.
LeaderCompleteness ==
    \A i \in Server :
        (state[i] = "Leader" /\ \A j \in Server : currentTerm[j] <= currentTerm[i])
        => \A a \in committed :
              \/ a.Index <= getFirstIndex(log[i])
              \/ a.Index <= getLastIndex(log[i])
                 /\ a = log[i][a.Index - getFirstIndex(log[i]) + 1]

\* A sentinel names an entry that was really committed: a snapshot, local or
\* installed, never covers a different history.
SnapshotsAgree ==
    \A i \in Server :
        getFirstIndex(log[i]) > 0 =>
            \E a \in committed :
                /\ a.Index = getFirstIndex(log[i])
                /\ a.Term = getFirstTerm(log[i])

\* No slice or array access of a leader is out of range: the commit scan that
\* starts behind commitIndex, and the entries a heartbeat goroutine copies
\* from nextIndex on.  The Index fields of a log are consecutive.
IndexesInRange ==
    \A i \in Server :
        /\ getFirstIndex(log[i]) <= commitIndex[i]
        /\ \A k \in 1 .. Len(log[i]) :
             log[i][k].Index = getFirstIndex(log[i]) + k - 1
        /\ state[i] = "Leader" =>
             \A j \in Server : /\ nextIndex[i][j] >= 1
                               /\ nextIndex[i][j] <= getNextIndex(log[i])

\* What the leader believes a follower of its term holds (matchIndex), the
\* follower does hold.
MatchIndexIsTrue ==
    \A i, j \in Server :
        (state[i] = "Leader" /\ currentTerm[j] = currentTerm[i] /\ i # j) =>
            /\ matchIndex[i][j] <= getLastIndex(log[j])
            /\ \A k \in (getFirstIndex(log[i]) + 1) .. matchIndex[i][j] :
                 k > getFirstIndex(log[j]) =>
                    getTerm(log[i], k) = getTerm(log[j], k)


\* A leader of a term stays leader of it until it sees a larger term or is
\* killed: no request of its own term ever reaches it (AppendEntries and
\* InstallSnapshot would make it a follower without a timer).
LeaderUntilNewTerm ==
    [][\A i \in Server :
         (state[i] = "Leader" /\ state'[i] \notin {"Leader", "Dead"})
            => currentTerm'[i] > currentTerm[i]]_vars

\* What a server has committed it never overwrites: entries up to commitIndex
\* change only by being compacted into a snapshot.
CommittedIsStable ==
    [][\A i \in Server :
         \A k \in (getFirstIndex(log[i]) + 1) .. commitIndex[i] :
            \/ k <= getFirstIndex(log'[i])
            \/ /\ k <= getLastIndex(log'[i])
               /\ log'[i][k - getFirstIndex(log'[i]) + 1]
                    = log[i][k - getFirstIndex(log[i]) + 1]]_vars
=============================================================================
