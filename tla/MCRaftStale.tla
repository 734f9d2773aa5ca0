---------------------------- MODULE MCRaftStale -----------------------------
(***************************************************************************)
(* One schedule of five Raft servers, step by step: a heartbeat goroutine  *)
(* that s1 started as leader of term 1 is first scheduled when s1 is       *)
(* leader of term 3.  Every step is a step of Raft.                        *)
(***************************************************************************)
EXTENDS Raft, TLC

CONSTANTS s1, s2, s3, s4, s5, x, y

VARIABLE pc

\* Server `from` answers the vote request of `cand`, and the answer arrives.
Asks(cand, from) == \E m \in rvReq : m.CandidateId = cand /\ RequestVote(from, m)

Counts(cand, from) == \E m \in rvRep : m.from = from /\ RequestVoteReply(cand, m)

Delivers(from, to, term) ==
    \E m \in aeReq : m.LeaderId = from /\ m.Term = term /\ AppendEntries(to, m)

Confirms(to, from) == \E m \in aeRep : m.from = from /\ AppendEntriesReply(to, m)

Schedule(n) ==
    \* s1 becomes leader of term 1 and its heartbeat goroutines start
    \/ n = 1 /\ startElection(s1)
    \/ n = 2 /\ Asks(s1, s2)
    \/ n = 3 /\ Asks(s1, s3)
    \/ n = 4 /\ Counts(s1, s2)
    \/ n = 5 /\ Counts(s1, s3)
    \/ n = 6 /\ HeartBeat(s1)
    \* s2 becomes leader of term 2 and sends x to s5; the request is delayed
    \/ n = 7 /\ startElection(s2)
    \/ n = 8 /\ Asks(s2, s1)
    \/ n = 9 /\ Asks(s2, s3)
    \/ n = 10 /\ Counts(s2, s1)
    \/ n = 11 /\ Counts(s2, s3)
    \/ n = 12 /\ Start(s2, x)
    \/ n = 13 /\ SendAppendEntries(s2, s5, 2)
    \* s1 becomes leader of term 3 and commits y on s1, s3 and s4
    \/ n = 14 /\ startElection(s1)
    \/ n = 15 /\ Asks(s1, s3)
    \/ n = 16 /\ \E m \in rvReq : m.CandidateId = s1 /\ m.Term = 3
                                   /\ RequestVote(s4, m)
    \/ n = 17 /\ Counts(s1, s3)
    \/ n = 18 /\ Counts(s1, s4)
    \/ n = 19 /\ Start(s1, y)
    \/ n = 20 /\ SendAppendEntries(s1, s3, 3)
    \/ n = 21 /\ SendAppendEntries(s1, s4, 3)
    \/ n = 22 /\ Delivers(s1, s3, 3)
    \/ n = 23 /\ Delivers(s1, s4, 3)
    \/ n = 24 /\ Confirms(s1, s3)
    \/ n = 25 /\ Confirms(s1, s4)
    \* the goroutine of term 1 runs: s5 accepts y in term 1, then x in term 2
    \/ n = 26 /\ SendAppendEntries(s1, s5, 1)
    \/ n = 27 /\ Delivers(s1, s5, 1)
    \/ n = 28 /\ Delivers(s2, s5, 2)

StaleInit == Init /\ pc = 1

StaleNext == Schedule(pc) /\ pc' = pc + 1

StaleSpec == StaleInit /\ [][StaleNext]_<<vars, pc>>
=============================================================================
