---------------------------- MODULE KVRaftProofs ----------------------------
(***************************************************************************)
(* What the replicated service of src/kvraft does for any number of        *)
(* servers, clerks, calls, terms and restarts: its types, the channels of  *)
(* its handlers, and, where applyCh hands messages over in order, that the *)
(* appliers follow the chosen log and that the service is linearizable.    *)
(***************************************************************************)
EXTENDS KVRaftService

USE ZenonT(3), SMTT(10), ZenonT(15), SMTT(30)

-----------------------------------------------------------------------------
(* Types and channels *)

LEMMA BaseInvariant == Spec => [](ServiceInv /\ RaftInv)
<1>1. Init => ServiceInv /\ RaftInv
  BY BaseInit
<1>2. (ServiceInv /\ RaftInv) /\ [Next]_vars => (ServiceInv /\ RaftInv)'
  BY BaseNext
<1> QED BY <1>1, <1>2, PTL DEF Spec

\* The clerks, handlers and appliers keep their variables in their types: a
\* clerk's LeaderId is a server through every retry, and the channel of
\* getWaitCh never holds more than the one Op it has a buffer for.
THEOREM TypeCorrect == Spec => []TypeOK
<1>1. ServiceInv => TypeOK
  <2> SUFFICES ASSUME ServiceInv PROVE TypeOK
    OBVIOUS
  <2>1. /\ RaftTypes /\ ApplyTypes /\ StateTypes /\ WaitTypes /\ HandlerTypes /\ ClerkTypes
        /\ calls \in 0 .. MaxCalls /\ kills \in 0 .. MaxKills
    BY DEF ServiceInv, TypeInv
  <2>2. \A i \in Server : installing[i] \subseteq [index : CallId, state : State]
    BY <2>1 DEF ApplyTypes, Installed
  <2>3. \A ch \in CallId : buffered[ch] \in Seq(Value) /\ Len(buffered[ch]) <= 1
    BY <2>1 DEF WaitTypes
  <2> QED BY <2>1, <2>2, <2>3 DEF TypeOK, RaftTypes, ApplyTypes, StateTypes, WaitTypes,
             HandlerTypes, ClerkTypes
<1> QED BY <1>1, BaseInvariant, PTL

\* The applier never blocks in notifyWaitCh, where it holds kv.mu: whatever
\* the order in which applyCh hands messages over, the channel it is about to
\* send to is empty.
THEOREM NotifyCorrect == Spec => []NotifyNeverBlocks
<1>1. ServiceInv => NotifyNeverBlocks
  <2> SUFFICES ASSUME ServiceInv, NEW i \in Server, batch[i] # <<>>, NEW k, k = Head(batch[i]),
                      Waiting(i, k, chosen[k])
               PROVE  HasRoom(waitChMap[i][k])
    BY DEF NotifyNeverBlocks
  <2>1. TypeInv /\ BatchesInOrder /\ ChannelsHaveRoom /\ batch[i] \in Seq(CallId)
    BY DEF ServiceInv, TypeInv, ApplyTypes
  <2>2. k \in CallId /\ k = batch[i][1] /\ 1 \in 1 .. Len(batch[i])
    BY SMTT(10), <2>1
  <2>3. waitChMap[i][k] # 0
    BY DEF Waiting
  <2>4. ~ \A n \in 1 .. Len(batch[i]) : batch[i][n] # k
    BY <2>2
  <2> QED BY <2>1, <2>2, <2>3, <2>4 DEF ChannelsHaveRoom, HasRoom
<1> QED BY <1>1, BaseInvariant, PTL

-----------------------------------------------------------------------------
(* Answers *)

LEMMA AnswerLeader ==
    ASSUME ServiceInv, TypeInv', AnswerInv, NEW i \in Server, NEW j \in Server,
           Elect(i) \/ StepDown(i, j) \/ Follow(i, j)
    PROVE  AnswerInv'
<1>1. TypeInv /\ RaftTypes
  BY DEF ServiceInv, TypeInv
<1>2. UNCHANGED <<chosen, values, applyVars, handlers, waitVars, clerkVars, calls>>
  BY DEF Elect, StepDown, Follow
<1>3. \A k \in Server : term[k] \in Nat /\ Len(log[k]) \in Nat
  BY <1>1, LogElements
<1>4. RaftMoves
  <2>1. CASE Elect(i)
    <3>1. PICK t \in 1 .. MaxTerm : /\ \A k \in Server : term[k] < t
                                    /\ term' = [term EXCEPT ![i] = t]
      BY <2>1 DEF Elect
    <3>2. isLeader' = [isLeader EXCEPT ![i] = TRUE] /\ UNCHANGED log
      BY <2>1 DEF Elect
    <3>3. term'[i] = t /\ term[i] < t /\ \A k \in Server : k # i => /\ term'[k] = term[k]
                                                                  /\ isLeader'[k] = isLeader[k]
      BY <1>1, <3>1, <3>2 DEF RaftTypes
    <3>4. term[i] <= term'[i] /\ term'[i] # term[i]
      BY SMTT(30), <1>3, <3>3
    <3> QED BY SMTT(10), <1>3, <3>2, <3>3, <3>4 DEF RaftMoves
  <2>2. CASE StepDown(i, j)
    <3>1. /\ term[j] > term[i] /\ term'[i] = term[j] /\ ~isLeader'[i] /\ UNCHANGED log
          /\ \A k \in Server : k # i => term'[k] = term[k] /\ isLeader'[k] = isLeader[k]
      BY <1>1, <2>2 DEF StepDown, RaftTypes
    <3>2. term[i] <= term'[i]
      BY SMTT(10), <1>3, <3>1
    <3> QED BY SMTT(30), <1>3, <3>1, <3>2 DEF RaftMoves
  <2>3. CASE Follow(i, j)
    <3>1. /\ term[i] <= term[j] /\ term'[i] = term[j] /\ ~isLeader'[i]
          /\ \A k \in Server : k # i => /\ term'[k] = term[k] /\ isLeader'[k] = isLeader[k]
                                        /\ log'[k] = log[k]
      BY <1>1, <2>3 DEF Follow, IsNewest, RaftTypes
    <3>2. term[i] <= term'[i]
      BY <1>3, <3>1
    <3> QED BY SMTT(30), <1>3, <3>1, <3>2 DEF RaftMoves
  <2> QED BY <2>1, <2>2, <2>3
<1>5. ChosenGrows /\ \A k \in Server : lastApplied[k] <= lastApplied'[k]
  <2>1. \A k \in Server : lastApplied[k] \in Nat
    BY <1>1, TypedEach DEF EachTyped
  <2> QED BY SMTT(10), <1>1, <1>2, <2>1, GrowsSame DEF applyVars
<1> QED BY <1>2, <1>4, <1>5, AnswerRaft

LEMMA AnswerChoose ==
    ASSUME ServiceInv, TypeInv', AnswerInv, NEW i \in Server, Choose(i)
    PROVE  AnswerInv'
<1>1. TypeInv /\ LogsBounded
  BY DEF ServiceInv
<1>2. UNCHANGED <<term, isLeader, log, applyVars, waitVars, handlers, clerkVars, calls>>
  BY DEF Choose
<1>3. RaftMoves /\ ChosenGrows
  BY <1>1, <1>2, RaftSame, GrowsChoose
<1>4. \A k \in Server : lastApplied[k] <= lastApplied'[k]
  <2>1. \A k \in Server : lastApplied[k] \in Nat
    BY <1>1, TypedEach DEF EachTyped
  <2> QED BY SMTT(10), <1>2, <2>1 DEF applyVars
<1> QED BY <1>2, <1>3, <1>4, AnswerRaft

LEMMA AnswerApply ==
    ASSUME ServiceInv, TypeInv', AnswerInv, NEW i \in Server,
           apply(i) \/ \E s \in installing[i] : ApplySnapshot(i, s)
    PROVE  AnswerInv'
<1>1. TypeInv /\ LogsBounded
  BY DEF ServiceInv
<1>2. UNCHANGED <<raftVars, waitVars, handlers, clerkVars, calls>>
  BY DEF apply, ApplySnapshot
<1>3. RaftMoves /\ ChosenGrows
  BY <1>1, <1>2, RaftSame, GrowsSame DEF raftVars
<1>4. \A k \in Server : lastApplied[k] <= lastApplied'[k]
  <2>1. \A k \in Server : lastApplied[k] \in Nat /\ lastApplied'[k] \in Nat
    BY <1>1, TypedEach, TypedEachNext DEF EachTyped
  <2>2. CASE apply(i)
    <3>1. lastApplied[i] < lastApplied'[i]
          /\ \A k \in Server : k # i => lastApplied'[k] = lastApplied[k]
      BY <1>1, <2>2, TypesApply
    <3> QED BY SMTT(10), <2>1, <3>1
  <2>3. CASE \E s \in installing[i] : ApplySnapshot(i, s)
    BY SMTT(30), <2>1, <2>3 DEF ApplySnapshot
  <2> QED BY <2>2, <2>3
<1> QED BY <1>2, <1>3, <1>4, AnswerRaft

LEMMA AnswerInstall ==
    ASSUME ServiceInv, RaftInv, AnswerInv, NEW j \in Server, NEW i \in Server,
           InstallSnapshot(j, i)
    PROVE  AnswerInv'
<1>1. TypeInv /\ LogsBounded /\ BatchesInOrder /\ AppliedIsHeld
  BY DEF ServiceInv, RaftInv
<1>2. PICK f : f = firstIndex[i]
  OBVIOUS
<1>3. /\ TypeInv' /\ IsNewest(i) /\ lastApplied[j] < f /\ f \in CallId
      /\ \A k \in Server : k # j => log'[k] = log[k]
      /\ term' = [term EXCEPT ![j] = term[i]]
      /\ isLeader' = [isLeader EXCEPT ![j] = FALSE]
      /\ lastApplied' = [lastApplied EXCEPT ![j] = f]
      /\ UNCHANGED <<chosen, values, waitVars, handlers, clerkVars, calls>>
  <2>1. TypeInv' /\ InstallDoes(j, i, f)
    BY <1>1, <1>2, TypesInstall
  <2> QED BY <2>1 DEF InstallDoes
<1>4. /\ term'[j] = term[i] /\ ~isLeader'[j] /\ lastApplied'[j] = f
      /\ \A k \in Server : k # j => /\ term'[k] = term[k] /\ isLeader'[k] = isLeader[k]
                                    /\ lastApplied'[k] = lastApplied[k]
  BY <1>1, <1>3 DEF TypeInv, RaftTypes, ApplyTypes
<1>5. /\ \A k \in Server : term[k] \in Nat /\ Len(log[k]) \in Nat /\ lastApplied[k] \in Nat
      /\ f \in Nat
  BY <1>1, <1>3, TypedEach, CallIds DEF EachTyped
<1>6. RaftMoves
  <2>1. term[j] <= term'[j]
    BY <1>3, <1>4 DEF IsNewest
  <2> QED BY SMTT(10), <1>3, <1>4, <1>5, <2>1 DEF RaftMoves
<1>7. ChosenGrows /\ \A k \in Server : lastApplied[k] <= lastApplied'[k]
  BY SMTT(10), <1>1, <1>3, <1>4, <1>5, GrowsSame
<1> QED BY <1>3, <1>6, <1>7, AnswerRaft

LEMMA AnswerRestart ==
    ASSUME ServiceInv, AnswerInv, NEW i \in Server, Restart(i)
    PROVE  AnswerInv'
<1>1. TypeInv /\ HandlersSound /\ \A h \in CallId : SharedBy(h)
  BY DEF ServiceInv, AnswerInv
<1>2. /\ TypeInv' /\ UNCHANGED <<term, log, chosen, values, buffered, clerkVars, calls>>
      /\ isLeader' = [isLeader EXCEPT ![i] = FALSE]
      /\ lastApplied' = [lastApplied EXCEPT ![i] = firstIndex[i]]
      /\ \A k \in CallId : waitChMap'[i][k] = 0
      /\ \A j \in Server : j # i => waitChMap'[j] = waitChMap[j]
      /\ \A h \in CallId :
           handlers'[h] = IF handlers[h].server = i /\ handlers[h].pc # "sent"
                          THEN NoHandler ELSE handlers[h]
  BY <1>1, TypesRestart
<1>3. /\ ~isLeader'[i] /\ \A k \in Server : k # i => /\ isLeader'[k] = isLeader[k]
                                                     /\ lastApplied'[k] = lastApplied[k]
  BY <1>1, <1>2 DEF TypeInv, RaftTypes, ApplyTypes
<1>4. RaftMoves
  <2>1. \A k \in Server : term[k] \in Nat /\ Len(log[k]) \in Nat
    BY <1>1, LogElements DEF TypeInv
  <2> QED BY SMTT(30), <1>2, <1>3, <2>1 DEF RaftMoves
<1>5. CallsMove /\ ChosenGrows
  BY <1>1, <1>2, CallsSame, GrowsSame DEF clerkVars
<1>6. /\ NoHandler.pc = "none"
      /\ \A h \in CallId : handlers'[h] = NoHandler \/ handlers'[h] = handlers[h]
  BY <1>2, NoHandlerIdle
<1>7. OwnersKeep /\ \A h \in CallId : Keeps(h)
  BY <1>6 DEF OwnersKeep, Keeps, KeepsEntry
<1>8. ASSUME NEW h \in CallId, handlers'[h].pc = "waits"
      PROVE  lastApplied[handlers[h].server] <= lastApplied'[handlers[h].server]
  <2>1. handlers[h].pc = "waits" /\ handlers[h].server # i
    BY <1>2, <1>6, <1>8
  <2>2. handlers[h].server \in Server
    BY <1>1, <2>1, HandlerRuns
  <2>3. lastApplied[handlers[h].server] \in Nat
    BY <1>1, <2>2, TypedEach DEF EachTyped
  <2> QED BY SMTT(30), <1>3, <2>1, <2>2, <2>3
<1>9. \A j \in Server, k \in CallId :
        waitChMap'[j][k] # 0 => waitChMap'[j][k] = waitChMap[j][k]
  BY <1>2
<1> QED BY <1>2, <1>4, <1>5, <1>7, <1>8, <1>9, AnswerKept

\* Steps of clerks and handlers that add nothing to a log or a channel.
LEMMA AnswerClerk ==
    ASSUME ServiceInv, TypeInv', AnswerInv, UNCHANGED <<raftVars, applyVars, buffered>>,
           CallsMove, OwnersKeep, \A h \in CallId : Keeps(h),
           \A i \in Server, k \in CallId :
               waitChMap'[i][k] # 0 => waitChMap'[i][k] = waitChMap[i][k]
    PROVE  AnswerInv'
<1>1. /\ TypeInv /\ HandlersSound
      /\ UNCHANGED <<term, isLeader, log, chosen, values, lastApplied>>
  BY DEF ServiceInv, raftVars, applyVars
<1>2. RaftMoves /\ ChosenGrows
  BY <1>1, RaftSame, GrowsSame
<1>3. ASSUME NEW h \in CallId, handlers'[h].pc = "waits"
      PROVE  lastApplied[handlers[h].server] <= lastApplied'[handlers[h].server]
  <2>1. handlers[h].pc = "waits"
    BY <1>3 DEF Keeps, KeepsEntry
  <2>2. handlers[h].server \in Server
    BY <1>1, <2>1, HandlerRuns
  <2>3. lastApplied[handlers[h].server] \in Nat
    BY <1>1, <2>2, TypedEach DEF EachTyped
  <2> QED BY SMTT(10), <1>1, <2>3
<1> QED BY <1>2, <1>3, AnswerKept

LEMMA AnswerSend ==
    ASSUME ServiceInv, AnswerInv, NEW c \in Clerk,
           (\E type \in OpType : Call(c, type)) \/ Retry(c)
    PROVE  AnswerInv'
<1>1. TypeInv /\ LogsBounded /\ ClerksSound /\ HandlersSound
  BY DEF ServiceInv
<1>2. PICK n : n = calls + 1
  OBVIOUS
<1>3. /\ TypeInv' /\ n \in CallId /\ calls' = n /\ handlers[n] = NoHandler
      /\ \E g \in Handler : handlers' = [handlers EXCEPT ![n] = g] /\ g.pc = "sent"
      /\ call' = [call EXCEPT ![c] = n]
      /\ op[c] = Idle => since' = [since EXCEPT ![c] = Len(chosen)]
      /\ op[c] # Idle => UNCHANGED since
      /\ UNCHANGED <<raftVars, applyVars, waitVars>>
  <2>1. TypeInv' /\ SendDoes(c, n)
    BY <1>1, <1>2, TypesSend
  <2> QED BY <2>1 DEF SendDoes
<1>4. PICK g \in Handler : handlers' = [handlers EXCEPT ![n] = g] /\ g.pc = "sent"
  BY <1>3
<1>5. handlers'[n] = g /\ \A x \in CallId : x # n => handlers'[x] = handlers[x]
  BY <1>1, <1>3, <1>4, OneHandlerChanges DEF TypeInv
<1>6. calls \in Nat /\ n > calls /\ calls <= n /\ n \in Nat
  BY SMTT(30), <1>1, <1>2, KVAssumption DEF TypeInv
<1>7. CallsMove
  <2>1. call'[c] = n /\ \A d \in Clerk : d # c => call'[d] = call[d] /\ since'[d] = since[d]
    BY <1>1, <1>3 DEF TypeInv, ClerkTypes
  <2> QED BY <1>3, <1>6, <2>1 DEF CallsMove
<1>8. OwnersKeep
  <2>1. \A y \in CallId : y <= calls => y # n
    BY SMTT(10), <1>6
  <2> QED BY <1>5, <2>1 DEF OwnersKeep
<1>9. \A h \in CallId : Keeps(h)
  BY <1>4, <1>5 DEF Keeps, KeepsEntry
<1> QED BY <1>3, <1>7, <1>8, <1>9, AnswerClerk DEF waitVars

LEMMA AnswerFails ==
    ASSUME ServiceInv, AnswerInv, NEW c \in Clerk, CallFails(c)
    PROVE  AnswerInv'
<1>1. TypeInv
  BY DEF ServiceInv
<1>2. /\ TypeInv' /\ call' = [call EXCEPT ![c] = 0]
      /\ UNCHANGED <<raftVars, applyVars, waitVars, handlers, since, calls>>
  BY <1>1, TypesFails
<1>3. CallsMove
  BY SMTT(10), <1>1, <1>2, KVAssumption DEF CallsMove, TypeInv, ClerkTypes
<1>4. OwnersKeep /\ \A h \in CallId : Keeps(h)
  BY <1>2, HandlersSame
<1> QED BY <1>2, <1>3, <1>4, AnswerClerk DEF waitVars

LEMMA AnswerReply ==
    ASSUME ServiceInv, TypeInv', AnswerInv, NEW h \in CallId, handlers[h] # NoHandler,
           NEW err, NEW value \in Value, Reply(h, err, value),
           UNCHANGED <<raftVars, applyVars, buffered, calls>>,
           \A i \in Server, k \in CallId :
               waitChMap'[i][k] # 0 => waitChMap'[i][k] = waitChMap[i][k]
    PROVE  AnswerInv'
<1>1. TypeInv /\ ClerksSound /\ HandlersSound
  BY DEF ServiceInv
<1>2. PICK c : c = handlers[h].clerk
  OBVIOUS
<1>3. /\ c \in Clerk /\ handlers' = [handlers EXCEPT ![h] = NoHandler] /\ UNCHANGED since
      /\ call[c] # h => UNCHANGED clerkVars
      /\ call[c] = h => call' = [call EXCEPT ![c] = 0]
  <2>1. ReplyDoes(h, err, value, c)
    BY <1>1, <1>2, ReplyEffect
  <2> QED BY <2>1 DEF ReplyDoes
<1>4. CallsMove
  <2>1. \A d \in Clerk : call'[d] = call[d] \/ call'[d] = 0
    BY <1>1, <1>3 DEF TypeInv, ClerkTypes, clerkVars
  <2>2. calls \in Nat
    BY <1>1, TypedEach DEF EachTyped
  <2> QED BY <1>3, <2>1, <2>2 DEF CallsMove
<1>5. /\ NoHandler.pc = "none"
      /\ \A x \in CallId : handlers'[x] = NoHandler \/ handlers'[x] = handlers[x]
  BY <1>1, <1>3, OneHandlerChanges, NoHandlerIdle DEF TypeInv
<1>6. OwnersKeep /\ \A x \in CallId : Keeps(x)
  BY <1>5 DEF OwnersKeep, Keeps, KeepsEntry
<1> QED BY <1>4, <1>6, AnswerClerk

LEMMA AnswerCheck ==
    ASSUME ServiceInv, AnswerInv, NEW h \in CallId, CheckRequest(h)
    PROVE  AnswerInv'
<1>1. TypeInv /\ ClerksSound /\ HandlersSound
  BY DEF ServiceInv
<1>2. /\ TypeInv' /\ handlers[h].pc = "sent"
      /\ UNCHANGED <<raftVars, applyVars, waitVars, calls>>
      /\ \/ Reply(h, "OK", <<>>)
         \/ /\ UNCHANGED clerkVars
            /\ \E g \in Handler : handlers' = [handlers EXCEPT ![h] = g] /\ g.pc = "checked"
  BY <1>1, TypesCheck
<1>3. handlers[h] # NoHandler /\ <<>> \in Value /\ UNCHANGED <<waitChMap, buffered>>
  BY SMTT(10), <1>1, <1>2, RunningHandler DEF Value, waitVars
<1>4. CASE Reply(h, "OK", <<>>)
  <2>1. PICK err : err = "OK"
    OBVIOUS
  <2>2. Reply(h, err, <<>>)
    BY <1>4, <2>1
  <2> QED BY <1>2, <1>3, <2>2, AnswerReply
<1>5. CASE /\ UNCHANGED clerkVars
           /\ \E g \in Handler : handlers' = [handlers EXCEPT ![h] = g] /\ g.pc = "checked"
  <2>1. PICK g \in Handler : handlers' = [handlers EXCEPT ![h] = g] /\ g.pc = "checked"
    BY <1>5
  <2>2. handlers'[h] = g /\ \A x \in CallId : x # h => handlers'[x] = handlers[x]
    BY <1>1, <2>1, OneHandlerChanges DEF TypeInv
  <2>3. CallsMove
    BY <1>1, <1>2, <1>5, CallsSame DEF clerkVars
  <2>4. OwnersKeep
    BY <1>2, <1>3, <2>2 DEF OwnersKeep
  <2>5. \A x \in CallId : Keeps(x)
    BY <2>1, <2>2 DEF Keeps, KeepsEntry
  <2> QED BY <1>2, <1>3, <2>3, <2>4, <2>5, AnswerClerk
<1> QED BY <1>2, <1>4, <1>5

LEMMA AnswerTimedOut ==
    ASSUME ServiceInv, AnswerInv, NEW h \in CallId, TimedOut(h)
    PROVE  AnswerInv'
<1>1. TypeInv
  BY DEF ServiceInv
<1>2. /\ TypeInv' /\ handlers[h].pc = "waits" /\ handlers[h] \in Handler
      /\ UNCHANGED <<raftVars, applyVars, waitVars, clerkVars, calls>>
      /\ \E g \in Handler :
           /\ handlers' = [handlers EXCEPT ![h] = g] /\ g.pc = "leaves"
           /\ g.err = "ErrWrongLeader" /\ g.server = handlers[h].server
           /\ g.clerk = handlers[h].clerk /\ g.op = handlers[h].op
           /\ g.index = handlers[h].index /\ g.term = handlers[h].term
  BY <1>1, TypesTimedOut
<1>3. PICK g \in Handler :
        /\ handlers' = [handlers EXCEPT ![h] = g] /\ g.pc = "leaves"
        /\ g.err = "ErrWrongLeader" /\ g.server = handlers[h].server
        /\ g.clerk = handlers[h].clerk /\ g.op = handlers[h].op
        /\ g.index = handlers[h].index /\ g.term = handlers[h].term
  BY <1>2
<1>4. handlers'[h] = g /\ \A x \in CallId : x # h => handlers'[x] = handlers[x]
  BY <1>1, <1>3, OneHandlerChanges DEF TypeInv
<1>5. CallsMove /\ UNCHANGED <<waitChMap, buffered>>
  BY <1>1, <1>2, CallsSame DEF clerkVars, waitVars
<1>6. handlers[h] # NoHandler
  BY <1>2, HandlerFields
<1>7. OwnersKeep
  BY <1>3, <1>4, <1>6 DEF OwnersKeep
<1>8. \A x \in CallId : Keeps(x)
  BY <1>2, <1>3, <1>4 DEF Keeps, KeepsEntry
<1> QED BY <1>2, <1>5, <1>7, <1>8, AnswerClerk

LEMMA AnswerLeave ==
    ASSUME ServiceInv, AnswerInv, NEW h \in CallId, Leave(h)
    PROVE  AnswerInv'
<1>0. PICK i, k, err, value : i = handlers[h].server /\ k = handlers[h].index
                              /\ err = handlers[h].err /\ value = handlers[h].value
  OBVIOUS
<1>1. TypeInv /\ ClerksSound /\ HandlersSound
  BY DEF ServiceInv
<1>2. /\ TypeInv' /\ handlers[h] \in Handler /\ Reply(h, err, value)
      /\ UNCHANGED <<raftVars, applyVars, buffered, calls>>
      /\ waitChMap'[i][k] = 0
      /\ \A x \in CallId : x # k => waitChMap'[i][x] = waitChMap[i][x]
      /\ \A j \in Server : j # i => waitChMap'[j] = waitChMap[j]
  <2>1. TypeInv' /\ LeaveDoes(h, i, k)
    BY <1>0, <1>1, TypesLeave
  <2> QED BY <1>0, <2>1 DEF LeaveDoes
<1>3. handlers[h] # NoHandler /\ value \in Value
  BY <1>0, <1>2, HandlerFields
<1>4. \A j \in Server, x \in CallId :
        waitChMap'[j][x] # 0 => waitChMap'[j][x] = waitChMap[j][x]
  BY <1>2
<1> QED BY <1>2, <1>3, <1>4, AnswerReply

LEMMA AnswerStart ==
    ASSUME ServiceInv, RaftInv, AnswerInv, NEW h \in CallId, Start(h)
    PROVE  AnswerInv'
<1>1. /\ TypeInv /\ LogsBounded /\ ClerksSound /\ HandlersSound
      /\ LeadersSound /\ LeadersHaveTheirs
  BY DEF ServiceInv, RaftInv
<1>2. PICK i : i = handlers[h].server
  OBVIOUS
<1>3. /\ TypeInv' /\ i \in Server /\ handlers[h] \in Handler
      /\ handlers[h].pc \in {"sent", "checked"}
      /\ UNCHANGED <<term, isLeader, chosen, values, applyVars, waitVars, calls>>
      /\ \/ Reply(h, "ErrWrongLeader", <<>>) /\ UNCHANGED log
         \/ /\ isLeader[i] /\ UNCHANGED clerkVars
            /\ \E g \in Handler, e \in Entry :
                 /\ handlers' = [handlers EXCEPT ![h] = g] /\ g.pc = "started"
                 /\ g.server = i /\ g.term = term[i]
                 /\ g.index = Len(log[i]) + 1
                 /\ log' = [log EXCEPT ![i] = Append(log[i], e)]
                 /\ e = [ClientId |-> g.clerk, OpType |-> g.op.OpType,
                         RequestId |-> g.op.RequestId, Term |-> g.term]
  <2>1. TypeInv' /\ StartDoes(h, i)
    BY <1>1, <1>2, TypesStart
  <2> QED BY <2>1 DEF StartDoes
<1>4. handlers[h] # NoHandler /\ <<>> \in Value /\ UNCHANGED <<waitChMap, buffered>>
  BY <1>3, HandlerFields DEF Value, waitVars
<1>5. CASE Reply(h, "ErrWrongLeader", <<>>) /\ UNCHANGED log
  <2>1. PICK err : err = "ErrWrongLeader"
    OBVIOUS
  <2>2. Reply(h, err, <<>>) /\ UNCHANGED raftVars
    BY <1>3, <1>5, <2>1 DEF raftVars
  <2> QED BY <1>3, <1>4, <2>2, AnswerReply
<1>6. CASE /\ isLeader[i] /\ UNCHANGED clerkVars
           /\ \E g \in Handler, e \in Entry :
                /\ handlers' = [handlers EXCEPT ![h] = g] /\ g.pc = "started"
                /\ g.server = i /\ g.term = term[i]
                /\ g.index = Len(log[i]) + 1
                /\ log' = [log EXCEPT ![i] = Append(log[i], e)]
                /\ e = [ClientId |-> g.clerk, OpType |-> g.op.OpType,
                        RequestId |-> g.op.RequestId, Term |-> g.term]
  <2>1. PICK g \in Handler, e \in Entry :
          /\ handlers' = [handlers EXCEPT ![h] = g] /\ g.pc = "started"
          /\ g.server = i /\ g.term = term[i]
          /\ g.index = Len(log[i]) + 1
          /\ log' = [log EXCEPT ![i] = Append(log[i], e)]
          /\ e = [ClientId |-> g.clerk, OpType |-> g.op.OpType,
                  RequestId |-> g.op.RequestId, Term |-> g.term]
    BY <1>6
  <2>2. handlers'[h] = g /\ \A x \in CallId : x # h => handlers'[x] = handlers[x]
    BY <1>1, <2>1, OneHandlerChanges DEF TypeInv
  <2>3. /\ log'[i] = Append(log[i], e) /\ log[i] \in Seq(Entry)
        /\ \A j \in Server : j # i => log'[j] = log[j]
    BY ZenonT(30), <1>1, <1>3, <2>1 DEF TypeInv, RaftTypes
  <2>4. /\ Len(log[i]) \in Nat /\ Len(log'[i]) = Len(log[i]) + 1
        /\ log'[i][Len(log[i]) + 1] = e
        /\ \A n \in 1 .. Len(log[i]) : log'[i][n] = log[i][n]
    BY SMTT(10), <2>3, SeqAppend, SeqLength
  <2>5. RaftMoves
    <3>1. \A j \in Server : term[j] <= term[j] /\ Len(log[j]) <= Len(log[j])
      BY <1>1, LogElements, SelfAndNext DEF TypeInv
    <3>2. Len(log[i]) <= Len(log'[i])
      BY <2>4, SelfAndNext
    <3>3. isLeader' = isLeader /\ term' = term
      BY <1>3
    <3> QED BY <2>3, <2>4, <3>1, <3>2, <3>3 DEF RaftMoves
  <2>6. CallsMove /\ ChosenGrows /\ UNCHANGED <<call, since, lastApplied>>
    BY <1>1, <1>3, <1>6, CallsSame, GrowsSame DEF clerkVars, applyVars
  <2>7. OwnersKeep
    BY <1>3, <1>4, <2>2 DEF OwnersKeep
  <2>8. \A x \in CallId : x # h => Keeps(x)
    BY <2>2 DEF Keeps, KeepsEntry
  <2>9. StartedBy(h)'
    <3>1. PICK k \in Nat, c \in Clerk : k = g.index /\ c = g.clerk
      BY <2>1, <2>4, HandlerFields
    <3>2. EntryOf(h)' = e
      BY <2>1, <2>2 DEF EntryOf
    <3>3. k <= Len(log'[i]) /\ log'[i][k] = e /\ term[i] <= term'[i]
      <4>1. k = Len(log[i]) + 1 /\ k = Len(log'[i])
        BY <2>1, <2>4, <3>1
      <4>2. k <= Len(log'[i])
        BY SMTT(10), <2>4, <4>1
      <4>3. term[i] \in Nat
        BY <1>1, <1>3, LogElements DEF TypeInv
      <4> QED BY <1>3, <2>4, <4>1, <4>2, <4>3
    <3>4. ASSUME k <= since[c] PROVE chosen[k].Term # term[i]
      <4>1. since[c] <= Len(chosen) /\ since[c] \in Nat /\ Len(chosen) \in Nat
        BY <1>1, TypedEach DEF EachTyped, ClerksSound
      <4>2. k \in 1 .. Len(chosen) /\ ~(k <= Len(log[i]))
        BY SMTT(10), <2>1, <2>4, <3>1, <3>4, <4>1
      <4> QED BY <1>1, <1>3, <1>6, <4>2 DEF LeadersHaveTheirs
    <3> QED BY <1>3, <2>1, <2>2, <2>6, <3>1, <3>2, <3>3, <3>4 DEF StartedBy
  <2>10. (SharedBy(h) /\ NotifiedBy(h) /\ AnsweredBy(h))'
    BY <2>1, <2>2 DEF SharedBy, NotifiedBy, AnsweredBy
  <2>11. ASSUME NEW x \in CallId, handlers'[x].pc = "waits"
         PROVE  lastApplied[handlers[x].server] <= lastApplied'[handlers[x].server]
    <3>1. handlers[x].pc = "waits"
      BY <2>1, <2>2, <2>11
    <3>2. handlers[x].server \in Server
      BY <1>1, <3>1, HandlerRuns
    <3>3. lastApplied[handlers[x].server] \in Nat
      BY <1>1, <3>2, TypedEach DEF EachTyped
    <3> QED BY SMTT(30), <2>6, <3>3
  <2>12. \A x \in CallId :
           Keeps(x) \/ (StartedBy(x) /\ SharedBy(x) /\ NotifiedBy(x) /\ AnsweredBy(x))'
    BY <2>8, <2>9, <2>10
  <2> QED BY <1>3, <1>4, <2>5, <2>6, <2>7, <2>11, <2>12, AnswerKept
<1> QED BY <1>3, <1>5, <1>6

LEMMA AnswerMakeWaitCh ==
    ASSUME ServiceInv, AnswerInv, NEW h \in CallId, MakeWaitCh(h)
    PROVE  AnswerInv'
<1>0. PICK i, k : i = handlers[h].server /\ k = handlers[h].index
  OBVIOUS
<1>1. /\ TypeInv /\ HandlersSound /\ ChannelsOwned /\ ChannelsFresh /\ ChannelsHaveRoom
      /\ StartedBy(h) /\ ChannelsTrue
  BY DEF ServiceInv, AnswerInv
<1>2. /\ TypeInv' /\ i \in Server /\ k \in CallId /\ handlers[h].pc = "started"
      /\ handlers[h] \in Handler
      /\ UNCHANGED <<raftVars, applyVars, buffered, clerkVars, calls>>
      /\ \E g \in Handler, ch \in CallId :
           /\ ch = IF waitChMap[i][k] = 0 THEN h ELSE waitChMap[i][k]
           /\ waitChMap'[i][k] = ch
           /\ \A x \in CallId : x # k => waitChMap'[i][x] = waitChMap[i][x]
           /\ \A j \in Server : j # i => waitChMap'[j] = waitChMap[j]
           /\ handlers' = [handlers EXCEPT ![h] = g] /\ g.pc = "waits" /\ g.ch = ch
           /\ g.server = i /\ g.clerk = handlers[h].clerk /\ g.op = handlers[h].op
           /\ g.index = k /\ g.term = handlers[h].term
  <2>1. TypeInv' /\ MakeWaitChDoes(h, i, k)
    BY <1>0, <1>1, TypesMakeWaitCh
  <2> QED BY <2>1 DEF MakeWaitChDoes
<1>3. PICK g \in Handler, ch \in CallId :
        /\ ch = IF waitChMap[i][k] = 0 THEN h ELSE waitChMap[i][k]
        /\ waitChMap'[i][k] = ch
        /\ \A x \in CallId : x # k => waitChMap'[i][x] = waitChMap[i][x]
        /\ \A j \in Server : j # i => waitChMap'[j] = waitChMap[j]
        /\ handlers' = [handlers EXCEPT ![h] = g] /\ g.pc = "waits" /\ g.ch = ch
        /\ g.server = i /\ g.clerk = handlers[h].clerk /\ g.op = handlers[h].op
        /\ g.index = k /\ g.term = handlers[h].term
  BY <1>2
<1>4. handlers'[h] = g /\ \A x \in CallId : x # h => handlers'[x] = handlers[x]
  BY <1>1, <1>3, OneHandlerChanges DEF TypeInv
<1>5. UNCHANGED <<term, isLeader, log, chosen, values, lastApplied, call, since>>
  BY <1>2 DEF raftVars, applyVars, clerkVars
<1>6. RaftMoves /\ CallsMove /\ ChosenGrows
  BY <1>1, <1>2, <1>5, RaftSame, CallsSame, GrowsSame
<1>7. handlers[h] # NoHandler /\ buffered[h] = <<>> /\ h <= calls
  BY <1>1, <1>2, HandlerFields, HandlerRuns DEF ChannelsFresh
<1>8. OwnersKeep
  BY <1>2, <1>4, <1>7 DEF OwnersKeep
<1>9. KeepsEntry(h) /\ \A x \in CallId : x # h => Keeps(x)
  BY <1>0, <1>2, <1>3, <1>4 DEF Keeps, KeepsEntry
<1>10. StartedBy(h)' /\ AnsweredBy(h)'
  BY <1>1, <1>2, <1>3, <1>4, <1>6, <1>9, StartedKept DEF AnsweredBy
<1>11. SharedBy(h)'
  <2>1. CASE ch = h
    BY ZenonT(30), <1>2, <1>3, <1>4, <1>7, <2>1 DEF SharedBy
  <2>2. CASE ch # h
    <3>1. waitChMap[i][k] # 0 /\ ch = waitChMap[i][k]
      BY <1>3, <2>2
    <3>2. /\ handlers[ch].pc \in {"waits", "leaves"}
          /\ handlers[ch].server = i /\ handlers[ch].index = k
      BY ZenonT(30), <1>1, <1>2, <3>1 DEF ChannelsOwned
    <3>3. ch <= calls
      BY <1>1, <3>2, HandlerRuns
    <3> QED BY <1>2, <1>3, <1>4, <2>2, <3>2, <3>3 DEF SharedBy
  <2> QED BY <2>1, <2>2
<1>12. NotifiedBy(h)'
  <2> SUFFICES ASSUME buffered[ch] # <<>>
               PROVE  k <= lastApplied[i] /\ Head(buffered[ch]) = ValueAt(k - 1)
    BY <1>2, <1>3, <1>4, <1>5 DEF NotifiedBy, ValueAt
  <2>1. waitChMap[i][k] # 0 /\ ch = waitChMap[i][k]
    BY <1>3, <1>7
  <2> QED BY <1>1, <1>2, <2>1 DEF ChannelsHaveRoom, ChannelsTrue
<1>13. \A x \in CallId :
         Keeps(x) \/ (StartedBy(x) /\ SharedBy(x) /\ NotifiedBy(x) /\ AnsweredBy(x))'
  BY <1>9, <1>10, <1>11, <1>12
<1>14. ASSUME NEW x \in CallId, handlers'[x].pc = "waits"
       PROVE  lastApplied[handlers[x].server] <= lastApplied'[handlers[x].server]
  <2>1. handlers[x].pc \in {"started", "waits", "leaves"}
    BY <1>2, <1>4, <1>14
  <2>2. handlers[x].server \in Server
    BY <1>1, <2>1, HandlerRuns
  <2>3. lastApplied[handlers[x].server] \in Nat
    BY <1>1, <2>2, TypedEach DEF EachTyped
  <2> QED BY SMTT(10), <1>5, <2>3
<1>15. \A j \in Server, x \in CallId : waitChMap'[j][x] # 0 =>
         waitChMap'[j][x] = waitChMap[j][x] \/ buffered'[waitChMap'[j][x]] = <<>>
  BY <1>2, <1>3, <1>7
<1> QED BY <1>2, <1>6, <1>8, <1>13, <1>14, <1>15, AnswerKept

\* Whoever leads the term of its entry finds it chosen where it was applied.
LEMMA AnswerNotified ==
    ASSUME ServiceInv, RaftInv, AnswerInv, NEW h \in CallId, Notified(h)
    PROVE  AnswerInv'
<1>0. PICK y : y = handlers[h].ch
  OBVIOUS
<1>1. /\ TypeInv /\ BatchesInOrder /\ HandlersSound /\ AppliedIsHeld
      /\ StartedBy(h) /\ NotifiedBy(h)
  BY DEF ServiceInv, RaftInv, AnswerInv
<1>2. /\ TypeInv' /\ handlers[h].pc = "waits" /\ handlers[h] \in Handler
      /\ y \in CallId /\ buffered[y] # <<>> /\ buffered' = [buffered EXCEPT ![y] = <<>>]
      /\ UNCHANGED <<raftVars, applyVars, waitChMap, clerkVars, calls>>
      /\ \E g \in Handler :
           /\ handlers' = [handlers EXCEPT ![h] = g] /\ g.pc = "leaves"
           /\ g.err = IF StillLeader(h) THEN "OK" ELSE "ErrWrongLeader"
           /\ g.value = Head(buffered[y]) /\ g.server = handlers[h].server
           /\ g.clerk = handlers[h].clerk /\ g.op = handlers[h].op
           /\ g.index = handlers[h].index /\ g.term = handlers[h].term
  <2>1. TypeInv' /\ NotifiedDoes(h, y)
    BY <1>0, <1>1, TypesNotified
  <2> QED BY <2>1 DEF NotifiedDoes
<1>3. PICK g \in Handler :
        /\ handlers' = [handlers EXCEPT ![h] = g] /\ g.pc = "leaves"
        /\ g.err = IF StillLeader(h) THEN "OK" ELSE "ErrWrongLeader"
        /\ g.value = Head(buffered[y]) /\ g.server = handlers[h].server
        /\ g.clerk = handlers[h].clerk /\ g.op = handlers[h].op
        /\ g.index = handlers[h].index /\ g.term = handlers[h].term
  BY <1>2
<1>4. handlers'[h] = g /\ \A x \in CallId : x # h => handlers'[x] = handlers[x]
  BY <1>1, <1>3, OneHandlerChanges DEF TypeInv
<1>5. UNCHANGED <<term, isLeader, log, chosen, values, lastApplied, call, since>>
  BY <1>2 DEF raftVars, applyVars, clerkVars
<1>6. RaftMoves /\ CallsMove /\ ChosenGrows
  BY <1>1, <1>2, <1>5, RaftSame, CallsSame, GrowsSame
<1>7. OwnersKeep
  <2>1. handlers[h] # NoHandler
    BY <1>2, HandlerFields
  <2> QED BY <1>3, <1>4, <2>1 DEF OwnersKeep
<1>8. KeepsEntry(h) /\ \A x \in CallId : x # h => Keeps(x)
  BY <1>2, <1>3, <1>4 DEF Keeps, KeepsEntry
<1>9. StartedBy(h)' /\ SharedBy(h)' /\ NotifiedBy(h)'
  BY <1>1, <1>2, <1>3, <1>4, <1>6, <1>8, StartedKept DEF SharedBy, NotifiedBy
<1>10. AnsweredBy(h)'
  <2> SUFFICES ASSUME StillLeader(h)
               PROVE  AnsweredBy(h)'
    BY <1>3, <1>4 DEF AnsweredBy
  <2>1. PICK i \in Server, c \in Clerk, k \in Nat \ {0} :
          i = handlers[h].server /\ c = handlers[h].clerk /\ k = handlers[h].index
    BY <1>1, <1>2, HandlerRuns
  <2>2. k <= lastApplied[i] /\ g.value = ValueAt(k - 1)
    BY <1>0, <1>1, <1>2, <1>3, <2>1 DEF NotifiedBy
  <2>3. /\ lastApplied[i] \in Nat /\ Len(chosen) \in Nat /\ lastApplied[i] <= Len(chosen)
        /\ Holds(i, lastApplied[i])
    BY <1>1, TypedEach DEF EachTyped, BatchesInOrder, AppliedIsHeld
  <2>4. log[i][k] = chosen[k] /\ k <= Len(chosen)
    <3>1. k \in 1 .. lastApplied[i]
      BY <2>1, <2>2, <2>3, Within
    <3> QED BY <2>1, <2>2, <2>3, <3>1, AtMost DEF Holds
  <2>5. log[i][k] = EntryOf(h)
    BY <1>1, <1>2, <2>1 DEF StartedBy
  <2>6. EntryOf(h)' = EntryOf(h) /\ EntryOf(h).Term = handlers[h].term
    BY <1>3, <1>4 DEF EntryOf
  <2>7. call[c] = h => k > since[c]
    <3>1. since[c] \in Nat
      BY <1>1, TypedEach DEF EachTyped
    <3>2. (call[c] = h /\ k <= since[c]) => chosen[k].Term # handlers[h].term
      BY <1>1, <1>2, <2>1 DEF StartedBy
    <3> QED BY SMTT(10), <2>1, <2>4, <2>5, <2>6, <3>1, <3>2
  <2>8. g.value = ValueAt(k - 1)'
    BY <1>5, <2>2 DEF ValueAt
  <2> QED BY ZenonT(30), <1>3, <1>4, <1>5, <2>1, <2>4, <2>5, <2>6, <2>7, <2>8 DEF AnsweredBy, ValueAt
<1>11. \A x \in CallId :
         Keeps(x) \/ (StartedBy(x) /\ SharedBy(x) /\ NotifiedBy(x) /\ AnsweredBy(x))'
  BY <1>8, <1>9, <1>10
<1>12. ASSUME NEW x \in CallId, handlers'[x].pc = "waits"
       PROVE  lastApplied[handlers[x].server] <= lastApplied'[handlers[x].server]
  <2>1. handlers[x].pc = "waits"
    BY <1>3, <1>4, <1>12
  <2>2. handlers[x].server \in Server
    BY <1>1, <2>1, HandlerRuns
  <2>3. lastApplied[handlers[x].server] \in Nat
    BY <1>1, <2>2, TypedEach DEF EachTyped
  <2> QED BY SMTT(30), <1>5, <2>3
<1>13. \A ch \in CallId : buffered'[ch] = buffered[ch] \/ buffered'[ch] = <<>>
  BY <1>1, <1>2 DEF TypeInv, WaitTypes
<1> QED BY <1>2, <1>6, <1>7, <1>11, <1>12, <1>13, AnswerKept

\* The applier sends the value from before its entry to those who wait for it.
LEMMA AnswerCommand ==
    ASSUME Ordered, ServiceInv, DeliveryInv, AnswerInv, NEW i \in Server, ApplyCommand(i)
    PROVE  AnswerInv'
<1>1. TypeInv /\ BatchesInOrder /\ HandlersSound /\ ChannelsOwned /\ ChannelsTrue /\ StatesTrue
  BY DEF ServiceInv, DeliveryInv, AnswerInv
<1>2. PICK k : k = Head(batch[i])
  OBVIOUS
<1>3. k - 1 = delivered[i]
  BY <1>2, NextInOrder
<1>4. /\ TypeInv' /\ k \in CallId /\ k <= lastApplied[i]
      /\ UNCHANGED <<raftVars, lastApplied, waitChMap, handlers, clerkVars, calls>>
      /\ \/ UNCHANGED buffered
         \/ /\ waitChMap[i][k] \in CallId
            /\ buffered' = [buffered EXCEPT ![waitChMap[i][k]] = <<KVDB[i]>>]
  <2>1. TypeInv' /\ CommandDoes(i, k)
    BY <1>1, <1>2, TypesCommand
  <2> QED BY <2>1 DEF CommandDoes
<1>5. RaftMoves /\ CallsMove /\ ChosenGrows /\ OwnersKeep /\ \A h \in CallId : Keeps(h)
  BY <1>1, <1>4, RaftSame, CallsSame, GrowsSame, HandlersSame DEF raftVars, clerkVars
<1>6. \A j \in Server : lastApplied[j] \in Nat /\ lastApplied[j] <= lastApplied'[j]
  BY <1>1, <1>4, KVAssumption DEF TypeInv, ApplyTypes
<1>7. CASE UNCHANGED buffered
  BY <1>4, <1>5, <1>6, <1>7, AnswerRaft DEF waitVars
<1>8. CASE /\ waitChMap[i][k] \in CallId
           /\ buffered' = [buffered EXCEPT ![waitChMap[i][k]] = <<KVDB[i]>>]
  <2>1. PICK y \in CallId : y = waitChMap[i][k]
    BY <1>8
  <2>2. /\ buffered'[y] = <<KVDB[i]>> /\ Head(buffered'[y]) = KVDB[i]
        /\ \A x \in CallId : x # y => buffered'[x] = buffered[x]
    BY SMTT(10), <1>1, <1>8, <2>1 DEF TypeInv, WaitTypes
  <2>3. /\ handlers[y].server = i /\ handlers[y].index = k
        /\ handlers[y].pc \in {"waits", "leaves"}
    <3>1. y # 0
      BY SMTT(10), <2>1 DEF CallId
    <3> QED BY <1>1, <1>4, <2>1, <3>1 DEF ChannelsOwned
  <2>4. KVDB[i] = ValueAt(k - 1) /\ KVDB[i] = ValueAt(k - 1)'
    <3>1. KVDB[i] = ValueAt(k - 1)
      BY <1>1, <1>3 DEF StatesTrue, StateTrue
    <3> QED BY <1>4, <3>1 DEF ValueAt, raftVars
  <2>5. ASSUME NEW h \in CallId
        PROVE  (StartedBy(h) /\ SharedBy(h) /\ NotifiedBy(h) /\ AnsweredBy(h))'
    <3>1. StartedBy(h) /\ SharedBy(h) /\ NotifiedBy(h) /\ AnsweredBy(h)
          /\ Keeps(h) /\ KeepsEntry(h)
      BY <1>5 DEF AnswerInv, Keeps
    <3>2. StartedBy(h)' /\ AnsweredBy(h)' /\ SharedBy(h)'
      BY <1>4, <1>5, <3>1, StartedKept, AnsweredKept, SharedKept DEF CallsMove
    <3>3. NotifiedBy(h)'
      <4>1. CASE handlers[h].pc # "waits"
        BY <1>4, <4>1 DEF NotifiedBy
      <4>2. CASE handlers[h].pc = "waits" /\ handlers[h].ch = y
        <5>1. handlers[y] # NoHandler
          BY <2>3, NoHandlerIdle
        <5>2. handlers[h].server = i /\ handlers[h].index = k
          BY <2>3, <3>1, <4>2, <5>1 DEF SharedBy
        <5> QED BY <1>4, <2>2, <2>4, <4>2, <5>2 DEF NotifiedBy, ValueAt
      <4>3. CASE handlers[h].pc = "waits" /\ handlers[h].ch # y
        <5>1. handlers[h].ch \in 0 .. MaxCalls /\ handlers[h] # NoHandler
              /\ handlers[h].server \in Server
          BY <1>1, <4>3, RunningHandler
        <5>2. handlers[h].ch # 0
          BY <1>1, <4>3, <5>1 DEF HandlersSound
        <5>3. handlers[h].ch \in CallId
          BY <5>1, <5>2, CallIds
        <5>4. buffered'[handlers[h].ch] = buffered[handlers[h].ch]
          BY <2>2, <4>3, <5>3
        <5> QED BY <1>4, <1>5, <1>6, <3>1, <5>1, <5>4, NotifiedKept
      <4> QED BY <4>1, <4>2, <4>3
    <3> QED BY <3>2, <3>3
  <2>6. ASSUME NEW j \in Server, NEW x \in CallId,
               waitChMap'[j][x] # 0, buffered'[waitChMap'[j][x]] # <<>>
        PROVE  Head(buffered'[waitChMap'[j][x]]) = ValueAt(x - 1)'
    <3>1. waitChMap'[j][x] = waitChMap[j][x] /\ waitChMap[j][x] \in 0 .. MaxCalls
      BY <1>1, <1>4 DEF TypeInv, WaitTypes
    <3>2. CASE waitChMap[j][x] = y
      <4>1. handlers[y].server = j /\ handlers[y].index = x
        BY <1>1, <2>6, <3>1, <3>2 DEF ChannelsOwned
      <4>2. j = i /\ x = k
        BY <2>3, <4>1
      <4> QED BY <2>2, <2>4, <3>1, <3>2, <4>2
    <3>3. CASE waitChMap[j][x] # y
      <4>1. waitChMap[j][x] \in CallId
        BY <2>6, <3>1, CallIds
      <4>2. buffered'[waitChMap[j][x]] = buffered[waitChMap[j][x]]
        BY <2>2, <3>3, <4>1
      <4> QED BY <1>1, <1>5, <2>6, <3>1, <4>2, ChannelsTrueKept
    <3> QED BY <3>2, <3>3
  <2>7. ChannelsTrue'
    BY <2>6 DEF ChannelsTrue, ValueAt
  <2> QED BY <2>5, <2>7 DEF AnswerInv
<1> QED BY <1>4, <1>7, <1>8

-----------------------------------------------------------------------------
(* The inductive invariant *)

\* Steps that touch no log and no request.
LEMMA RequestStill ==
    ASSUME TypeInv, TypeInv', RequestInv, UNCHANGED <<log, chosen, values, RequestId, op>>,
           HandlersServe
    PROVE  RequestInv'
<1>1. ClerksMove /\ ReturnsChosen
  BY RequestsSame
<1>2. \A i \in Server : \A n \in 1 .. Len(log'[i]) :
        \E j \in Server : n \in 1 .. Len(log[j]) /\ log'[i][n] = log[j][n]
  OBVIOUS
<1> QED BY <1>1, <1>2, RequestServes

\* PutAppend answers at once only what some applier has executed.
LEMMA InvalidIsChosen ==
    ASSUME TypeInv, StatesTrue, NEW h \in CallId, handlers[h].pc = "sent",
           isInvalidRequest(handlers[h].server, handlers[h].clerk, handlers[h].op.RequestId)
    PROVE  Executed(Len(chosen), handlers[h].clerk, handlers[h].op.RequestId)
<1>1. /\ handlers[h].server \in Server /\ handlers[h].clerk \in Clerk
      /\ handlers[h].op \in Operation
  BY RunningHandler
<1>2. PICK i \in Server : i = handlers[h].server
  BY <1>1
<1>3. PICK c \in Clerk : c = handlers[h].clerk
  BY <1>1
<1>4. PICK r \in 0 .. (MaxRequests - 1) : r = handlers[h].op.RequestId
  BY <1>1, OperationFields
<1>5. StateTrue(KVDB[i], LastRequestMap[i], delivered[i])
  BY DEF StatesTrue
<1>6. Executed(delivered[i], c, r) /\ delivered[i] <= Len(chosen)
  BY <1>2, <1>3, <1>4, <1>5 DEF StateTrue, isInvalidRequest
<1>7. delivered[i] \in Nat /\ Len(chosen) \in Nat
  BY TypedEach DEF EachTyped
<1> QED BY SMTT(10), <1>3, <1>4, <1>6, <1>7 DEF Executed

LEMMA RequestCheck ==
    ASSUME ServiceInv, RequestInv, DeliveryInv, NEW h \in CallId, CheckRequest(h)
    PROVE  RequestInv'
<1>1. TypeInv /\ ClerksSound /\ HandlersSound /\ HandlerTypes /\ StatesTrue
  BY DEF ServiceInv, TypeInv, DeliveryInv
<1>2. /\ TypeInv' /\ handlers[h].pc = "sent"
      /\ UNCHANGED <<raftVars, applyVars, stateVars, waitVars, calls, kills>>
      /\ \/ /\ isInvalidRequest(handlers[h].server, handlers[h].clerk,
                                handlers[h].op.RequestId)
            /\ Reply(h, "OK", <<>>)
         \/ /\ UNCHANGED clerkVars
            /\ \E g \in Handler :
                 /\ handlers' = [handlers EXCEPT ![h] = g] /\ g.pc = "checked"
                 /\ g.server = handlers[h].server /\ g.clerk = handlers[h].clerk
                 /\ g.op = handlers[h].op
  BY <1>1, TypesCheck
<1>3. UNCHANGED <<log, chosen, values>>
  BY <1>2 DEF raftVars
<1>4. handlers[h] # NoHandler /\ <<>> \in Value
  BY SMTT(30), <1>1, <1>2, RunningHandler DEF Value
<1>5. CASE /\ isInvalidRequest(handlers[h].server, handlers[h].clerk,
                               handlers[h].op.RequestId)
           /\ Reply(h, "OK", <<>>)
  BY <1>1, <1>2, <1>3, <1>4, <1>5, InvalidIsChosen, RequestReply
<1>6. CASE /\ UNCHANGED clerkVars
           /\ \E g \in Handler :
                /\ handlers' = [handlers EXCEPT ![h] = g] /\ g.pc = "checked"
                /\ g.server = handlers[h].server /\ g.clerk = handlers[h].clerk
                /\ g.op = handlers[h].op
  <2>1. HandlersServe
    BY <1>1, <1>4, <1>6, OneServes
  <2>2. UNCHANGED <<RequestId, op>>
    BY <1>6 DEF clerkVars
  <2> QED BY <1>1, <1>2, <1>3, <2>1, <2>2, RequestStill
<1> QED BY <1>2, <1>5, <1>6

\* A handler that answers OK has its entry among the chosen ones, and the
\* value from before it.
LEMMA AnswerIsChosen ==
    ASSUME ServiceInv, AnswerInv, NEW h \in CallId, handlers[h].pc = "leaves",
           handlers[h].err = "OK"
    PROVE  /\ Executed(Len(chosen), handlers[h].clerk, handlers[h].op.RequestId)
           /\ call[handlers[h].clerk] = h =>
                \E n \in since[handlers[h].clerk] .. Len(chosen) : handlers[h].value = ValueAt(n)
<1>1. TypeInv /\ HandlersSound /\ AnsweredBy(h)
  BY DEF ServiceInv, AnswerInv
<1>2. PICK k \in Nat \ {0}, c \in Clerk : k = handlers[h].index /\ c = handlers[h].clerk
  BY <1>1, HandlerRuns
<1>3. /\ k <= Len(chosen) /\ chosen[k] = EntryOf(h) /\ handlers[h].value = ValueAt(k - 1)
      /\ call[c] = h => k > since[c]
  BY <1>1, <1>2 DEF AnsweredBy
<1>4. Len(chosen) \in Nat /\ since[c] \in Nat
  BY <1>1, TypedEach DEF EachTyped
<1>5. k \in 1 .. Len(chosen) /\ chosen[k].ClientId = handlers[h].clerk
      /\ chosen[k].RequestId = handlers[h].op.RequestId
  BY SMTT(10), <1>2, <1>3, <1>4 DEF EntryOf
<1>6. Executed(Len(chosen), handlers[h].clerk, handlers[h].op.RequestId)
  BY <1>5 DEF Executed
<1>7. call[c] = h => k - 1 \in since[c] .. Len(chosen)
  BY SMTT(10), <1>2, <1>3, <1>4
<1> QED BY <1>2, <1>3, <1>6, <1>7

LEMMA RequestLeave ==
    ASSUME ServiceInv, RequestInv, AnswerInv, NEW h \in CallId, Leave(h)
    PROVE  RequestInv'
<1>1. TypeInv /\ ClerksSound /\ HandlersSound
  BY DEF ServiceInv
<1>2. /\ TypeInv' /\ handlers[h].pc = "leaves" /\ handlers[h] \in Handler
      /\ Reply(h, handlers[h].err, handlers[h].value) /\ UNCHANGED raftVars
  <2>1. TypeInv' /\ LeaveDoes(h, handlers[h].server, handlers[h].index)
    BY <1>1, TypesLeave
  <2> QED BY <2>1 DEF LeaveDoes
<1>3. UNCHANGED <<log, chosen, values>>
  BY <1>2 DEF raftVars
<1>4. handlers[h].value \in Value /\ handlers[h] # NoHandler
  BY <1>2, HandlerFields
<1>5. handlers[h].err = "OK" =>
        Executed(Len(chosen), handlers[h].clerk, handlers[h].op.RequestId)
  BY <1>2, AnswerIsChosen
<1> QED BY <1>2, <1>3, <1>4, <1>5, RequestReply

\* Everything a handler does but Start, Get's and PutAppend's answers.
LEMMA RequestWaits ==
    ASSUME ServiceInv, RequestInv, NEW h \in CallId, MakeWaitCh(h) \/ Notified(h) \/ TimedOut(h)
    PROVE  RequestInv'
<1>1. TypeInv /\ HandlersSound /\ HandlerTypes
  BY DEF ServiceInv, TypeInv
<1>2. /\ TypeInv' /\ handlers[h].pc \in {"started", "waits"}
      /\ UNCHANGED <<raftVars, clerkVars>>
      /\ \E g \in Handler : /\ handlers' = [handlers EXCEPT ![h] = g]
                            /\ g.clerk = handlers[h].clerk /\ g.op = handlers[h].op
  <2>1. CASE MakeWaitCh(h)
    <3>1. TypeInv' /\ MakeWaitChDoes(h, handlers[h].server, handlers[h].index)
      BY <1>1, <2>1, TypesMakeWaitCh
    <3> QED BY <3>1 DEF MakeWaitChDoes
  <2>2. CASE Notified(h)
    <3>1. TypeInv' /\ NotifiedDoes(h, handlers[h].ch)
      BY <1>1, <2>2, TypesNotified
    <3> QED BY <3>1 DEF NotifiedDoes
  <2>3. CASE TimedOut(h)
    BY <1>1, <2>3, TypesTimedOut
  <2> QED BY <2>1, <2>2, <2>3
<1>3. handlers[h] # NoHandler
  BY <1>1, <1>2, RunningHandler
<1>4. HandlersServe
  BY <1>1, <1>2, <1>3, OneServes
<1>5. UNCHANGED <<log, chosen, values, RequestId, op>>
  BY <1>2 DEF raftVars, clerkVars
<1> QED BY <1>1, <1>2, <1>4, <1>5, RequestStill

LEMMA StrongInit ==
    ASSUME Init
    PROVE  Inv
<1>1. ServiceInv /\ RaftInv
  BY BaseInit
<1>2. Len(<<>>) = 0 /\ Len(chosen) = 0 /\ chosen = <<>>
  BY DEF Init
<1>3. RequestInv
  <2>1. RequestsMade /\ ReturnedChosen
    BY <1>2 DEF Init, RequestsMade, ReturnedChosen
  <2>2. ChosenInOrder /\ ValuesTrue
    <3>1. \A n : ~(n \in 1 .. 0)
      BY SMTT(10)
    <3> QED BY <1>2, <3>1 DEF ChosenInOrder, ValuesTrue
  <2> QED BY <2>1, <2>2 DEF RequestInv
<1>4. DeliveryInv
  <2>1. \A i \in Server : Delivery(i)
    BY SMTT(10), <1>2 DEF Init, Delivery
  <2>2. StateTrue(<<>>, [c \in Clerk |-> -1], 0)
    BY SMTT(10), <1>2 DEF StateTrue, ValueAt, Executed
  <2>3. StatesTrue
    BY <2>2 DEF Init, StatesTrue
  <2> QED BY <2>1, <2>3 DEF DeliveryInv
<1>5. AnswerInv
  <2>1. \A h \in CallId : handlers[h].pc = "none"
    BY NoHandlerIdle DEF Init
  <2>2. ChannelsTrue
    BY DEF Init, ChannelsTrue
  <2> QED BY <2>1, <2>2 DEF AnswerInv, StartedBy, SharedBy, NotifiedBy, AnsweredBy
<1> QED BY <1>1, <1>3, <1>4, <1>5 DEF Inv

\* Elections, replication and commitment.
LEMMA StrongRaft ==
    ASSUME Inv, ServiceInv', RaftInv', NEW i \in Server, NEW j \in Server,
           Elect(i) \/ Choose(i) \/ StepDown(i, j) \/ Follow(i, j) \/ InstallSnapshot(i, j)
    PROVE  Inv'
<1>1. /\ ServiceInv /\ RaftInv /\ RequestInv /\ DeliveryInv /\ AnswerInv
      /\ TypeInv /\ TypeInv' /\ LogsBounded
  BY DEF Inv, ServiceInv
<1>2. CASE Elect(i) \/ StepDown(i, j) \/ Follow(i, j)
  <2>1. RequestInv' /\ AnswerInv'
    BY <1>1, <1>2, RequestLeader, AnswerLeader
  <2>2. UNCHANGED <<chosen, values, applyVars, stateVars>>
    BY <1>2 DEF Elect, StepDown, Follow
  <2>3. DeliveryInv'
    BY <1>1, <2>2, GrowsSame, DeliveryKept
  <2> QED BY <2>1, <2>3 DEF Inv
<1>3. CASE Choose(i)
  <2>1. RequestInv' /\ AnswerInv'
    BY <1>1, <1>3, RequestChoose, AnswerChoose
  <2>2. UNCHANGED <<applyVars, stateVars>>
    BY <1>3 DEF Choose
  <2>3. DeliveryInv'
    BY <1>1, <1>3, <2>2, GrowsChoose, DeliveryKept
  <2> QED BY <2>1, <2>3 DEF Inv
<1>4. CASE InstallSnapshot(i, j)
  <2>1. RequestInv' /\ AnswerInv' /\ DeliveryInv'
    BY <1>1, <1>4, RequestInstall, AnswerInstall, DeliveryInstall
  <2> QED BY <2>1 DEF Inv
<1> QED BY <1>2, <1>3, <1>4

\* The appliers, and the restart of a server.
LEMMA StrongAppliers ==
    ASSUME Ordered, Inv, ServiceInv', RaftInv', NEW i \in Server,
           \/ apply(i) \/ ApplyCommand(i) \/ Restart(i)
           \/ \E s \in installing[i] : ApplySnapshot(i, s)
    PROVE  Inv'
<1>1. /\ ServiceInv /\ RaftInv /\ RequestInv /\ DeliveryInv /\ AnswerInv /\ TypeInv /\ TypeInv'
  BY DEF Inv, ServiceInv
<1>2. DeliveryInv'
  BY <1>1, DeliveryApply, DeliveryCommand, DeliverySnapshot, DeliveryRestart
<1>3. AnswerInv'
  BY <1>1, AnswerApply, AnswerCommand, AnswerRestart
<1>4. UNCHANGED <<log, chosen, values, RequestId, op>>
  BY DEF apply, ApplyCommand, ApplySnapshot, Restart, raftVars, clerkVars
<1>5. HandlersServe
  <2>1. CASE Restart(i)
    BY <1>1, <2>1, TypesRestart DEF HandlersServe
  <2>2. CASE ~Restart(i)
    <3>1. UNCHANGED handlers
      BY <2>2 DEF apply, ApplyCommand, ApplySnapshot
    <3> QED BY <3>1 DEF HandlersServe
  <2> QED BY <2>1, <2>2
<1>6. RequestInv'
  BY <1>1, <1>4, <1>5, RequestStill
<1> QED BY <1>2, <1>3, <1>6 DEF Inv

LEMMA StrongClerks ==
    ASSUME Inv, ServiceInv', RaftInv', NEW c \in Clerk,
           (\E type \in OpType : Call(c, type)) \/ Retry(c) \/ CallFails(c)
    PROVE  Inv'
<1>1. /\ ServiceInv /\ RequestInv /\ DeliveryInv /\ AnswerInv /\ TypeInv /\ TypeInv'
  BY DEF Inv, ServiceInv
<1>2. UNCHANGED <<raftVars, applyVars, stateVars>>
  BY DEF Call, Retry, CallFails
<1>3. DeliveryInv'
  BY <1>1, <1>2, GrowsSame, DeliveryKept DEF raftVars
<1>4. AnswerInv'
  BY <1>1, AnswerSend, AnswerFails
<1>5. CASE (\E type \in OpType : Call(c, type)) \/ Retry(c)
  BY <1>1, <1>3, <1>4, <1>5, RequestSend DEF Inv
<1>6. CASE CallFails(c)
  <2>1. UNCHANGED <<handlers, log, chosen, values, RequestId, op>>
    BY <1>1, <1>6, TypesFails DEF raftVars
  <2>2. HandlersServe
    BY <2>1 DEF HandlersServe
  <2>3. RequestInv'
    BY <1>1, <2>1, <2>2, RequestStill
  <2> QED BY <1>3, <1>4, <2>3 DEF Inv
<1> QED BY <1>5, <1>6

LEMMA StrongHandlers ==
    ASSUME Inv, ServiceInv', RaftInv', NEW h \in CallId,
           \/ CheckRequest(h) \/ Start(h) \/ MakeWaitCh(h)
           \/ Notified(h) \/ TimedOut(h) \/ Leave(h)
    PROVE  Inv'
<1>1. /\ ServiceInv /\ RaftInv /\ RequestInv /\ DeliveryInv /\ AnswerInv /\ TypeInv /\ TypeInv'
  BY DEF Inv, ServiceInv
<1>2. UNCHANGED <<chosen, values, applyVars, stateVars>>
  BY DEF CheckRequest, Start, MakeWaitCh, Notified, TimedOut, Leave, raftVars
<1>3. DeliveryInv'
  BY <1>1, <1>2, GrowsSame, DeliveryKept
<1>4. AnswerInv'
  BY <1>1, AnswerCheck, AnswerStart, AnswerMakeWaitCh, AnswerNotified, AnswerTimedOut,
     AnswerLeave
<1>5. RequestInv'
  BY <1>1, RequestCheck, RequestStart, RequestWaits, RequestLeave
<1> QED BY <1>3, <1>4, <1>5 DEF Inv

LEMMA StrongSame ==
    ASSUME Inv, ServiceInv', RaftInv', UNCHANGED vars
    PROVE  Inv'
<1>1. /\ ServiceInv /\ RequestInv /\ DeliveryInv /\ AnswerInv /\ TypeInv /\ TypeInv'
  BY DEF Inv, ServiceInv
<1>2. UNCHANGED <<raftVars, applyVars, stateVars, waitVars, handlers, clerkVars, calls>>
  BY DEF vars, raftVars, applyVars, stateVars, waitVars, clerkVars
<1>3. UNCHANGED <<term, isLeader, log, chosen, values, lastApplied, RequestId, op>>
  BY DEF vars
<1>4. DeliveryInv'
  BY <1>1, <1>2, <1>3, GrowsSame, DeliveryKept
<1>5. RequestInv'
  <2>1. HandlersServe
    BY <1>2 DEF HandlersServe
  <2> QED BY <1>1, <1>3, <2>1, RequestStill
<1>6. AnswerInv'
  <2>1. \A i \in Server : lastApplied[i] <= lastApplied'[i]
    BY SMTT(30), <1>1, <1>3, KVAssumption DEF TypeInv, ApplyTypes
  <2> QED BY <1>1, <1>2, <1>3, <2>1, RaftSame, GrowsSame, AnswerRaft
<1> QED BY <1>4, <1>5, <1>6 DEF Inv

LEMMA StrongNext ==
    ASSUME Ordered, Inv, [Next]_vars
    PROVE  Inv'
<1>1. ServiceInv' /\ RaftInv'
  BY BaseNext DEF Inv
<1>2. ASSUME NEW i \in Server,
             \/ Elect(i) \/ Choose(i) \/ apply(i) \/ ApplyCommand(i) \/ Restart(i)
             \/ \E s \in installing[i] : ApplySnapshot(i, s)
             \/ \E j \in Server :
                  StepDown(i, j) \/ Follow(i, j) \/ InstallSnapshot(i, j)
      PROVE  Inv'
  BY <1>1, <1>2, StrongRaft, StrongAppliers
<1>3. ASSUME NEW c \in Clerk,
             (\E type \in OpType : Call(c, type)) \/ Retry(c) \/ CallFails(c)
      PROVE  Inv'
  BY <1>1, <1>3, StrongClerks
<1>4. ASSUME NEW h \in CallId, \/ CheckRequest(h) \/ Start(h) \/ MakeWaitCh(h)
                               \/ Notified(h) \/ TimedOut(h) \/ Leave(h)
      PROVE  Inv'
  BY <1>1, <1>4, StrongHandlers
<1>5. CASE UNCHANGED vars
  BY <1>1, <1>5, StrongSame
<1> QED BY <1>2, <1>3, <1>4, <1>5 DEF Next

LEMMA OrderedInvariant ==
    ASSUME Ordered
    PROVE  Spec => []Inv
<1>1. Init => Inv
  BY StrongInit
<1>2. Inv /\ [Next]_vars => Inv'
  BY StrongNext
<1> QED BY <1>1, <1>2, PTL DEF Spec

\* Where applyCh hands messages over in index order, the applier of every
\* server has executed exactly the chosen log up to the index it was last
\* handed, each request once: through the snapshots of encodeState and
\* InstallSnapshot, restarts, and requests that were started more than once.
THEOREM AppliesLog ==
    ASSUME Ordered
    PROVE  Spec => []AppliesTheLog
<1>1. Inv => AppliesTheLog
  BY DEF Inv, DeliveryInv, StatesTrue, StateTrue, AppliesTheLog
<1> QED BY <1>1, OrderedInvariant, PTL

-----------------------------------------------------------------------------
(* The service implements one store *)

LEMMA StoreInit ==
    ASSUME Init
    PROVE  Store!Init
<1>1. Len(chosen) = 0 /\ \A c \in Clerk : op[c] = Idle
  BY DEF Init
<1>2. Took = [c \in Clerk |-> FALSE] /\ Seen = [c \in Clerk |-> {}]
  BY <1>1 DEF Took, Seen
<1> QED BY <1>1, <1>2 DEF Init, Store!Init, ValueAt

LEMMA OneChanges ==
    ASSUME NEW D, NEW c \in D, NEW v, NEW f, NEW g, f = [d \in D |-> f[d]],
           g = [d \in D |-> g[d]], g[c] = v, \A d \in D : d # c => g[d] = f[d]
    PROVE  g = [f EXCEPT ![c] = v]
  OBVIOUS

LEMMA StoreSame ==
    ASSUME UNCHANGED <<op, got, since, chosen, values>>
    PROVE  UNCHANGED Store!vars
<1>1. Took' = Took
  BY DEF Took, Executed
<1>2. ValueAt(Len(chosen))' = ValueAt(Len(chosen))
  BY DEF ValueAt
<1>3. Seen' = Seen
  BY DEF Seen, ValueAt
<1> QED BY <1>1, <1>2, <1>3 DEF Store!vars

\* The clerks that do not call or return in a step that chooses nothing.
LEMMA OthersSame ==
    ASSUME UNCHANGED <<chosen, values>>, NEW d \in Clerk, op'[d] = op[d], since'[d] = since[d]
    PROVE  Took'[d] = Took[d] /\ Seen'[d] = Seen[d]
<1>1. Took'[d] = Took[d]
  BY DEF Took, Executed
<1>2. Seen'[d] = Seen[d]
  BY DEF Seen, ValueAt
<1> QED BY <1>1, <1>2

\* A new request of a clerk is not among the chosen ones.
LEMMA StoreCall ==
    ASSUME Inv, NEW c \in Clerk, (\E type \in OpType : Call(c, type)) \/ Retry(c)
    PROVE  [Store!Next]_(Store!vars)
<1>1. TypeInv /\ LogsBounded /\ ClerksSound /\ HandlersSound /\ RequestsMade
  BY DEF Inv, ServiceInv, RequestInv
<1>2. PICK o \in Operation : /\ o.RequestId = RequestId[c] /\ op' = [op EXCEPT ![c] = o]
                             /\ op[c] = Idle \/ op[c] = o
  <2>1. TypeInv' /\ SendDoes(c, calls + 1)
    BY <1>1, TypesSend
  <2> QED BY <2>1 DEF SendDoes
<1>3. /\ op[c] = Idle => since' = [since EXCEPT ![c] = Len(chosen)]
      /\ op[c] # Idle => UNCHANGED since
      /\ UNCHANGED <<chosen, values, got>>
  <2>1. TypeInv' /\ SendDoes(c, calls + 1)
    BY <1>1, TypesSend
  <2> QED BY <2>1 DEF SendDoes, raftVars
<1>4. op \in [Clerk -> Operation \cup {Idle}] /\ since \in [Clerk -> 0 .. MaxCalls] /\ o # Idle
  BY <1>1, <1>2, OperationFields DEF TypeInv, ClerkTypes
<1>5. CASE op[c] # Idle
  <2>1. UNCHANGED <<op, since>>
    BY <1>2, <1>3, <1>4, <1>5
  <2> QED BY <1>3, <2>1, StoreSame
<1>6. CASE op[c] = Idle
  <2>1. Took[c] = FALSE
    BY <1>6 DEF Took
  <2>2. ~Executed(Len(chosen), c, RequestId[c])
    <3> SUFFICES ASSUME NEW m \in 1 .. Len(chosen), chosen[m].ClientId = c,
                        chosen[m].RequestId = RequestId[c]
                 PROVE  FALSE
      BY DEF Executed
    <3>1. Made(c, chosen[m].OpType, RequestId[c])
      BY <1>1 DEF RequestsMade
    <3>2. RequestId[c] \in Nat
      BY <1>1, TypedEach DEF EachTyped
    <3> QED BY SMTT(10), <1>6, <3>1, <3>2 DEF Made
  <2>3. op'[c] = o /\ since'[c] = Len(chosen)
    BY <1>2, <1>3, <1>4, <1>6
  <2>4. Took'[c] = FALSE
    BY <1>2, <1>3, <2>2, <2>3 DEF Took, Executed
  <2>5. Seen'[c] = {ValueAt(Len(chosen))}
    <3>1. Len(chosen) \in Nat
      BY <1>1, SeqLength DEF TypeInv, RaftTypes
    <3>2. Len(chosen) .. Len(chosen) = {Len(chosen)}
      BY SMTT(10), <3>1
    <3>3. Seen'[c] = {ValueAt(n) : n \in Len(chosen) .. Len(chosen)}
      BY <1>3, <1>4, <2>3 DEF Seen, ValueAt
    <3> QED BY <3>2, <3>3
  <2>6. \A d \in Clerk : d # c => op'[d] = op[d] /\ since'[d] = since[d]
    BY <1>2, <1>3, <1>4, <1>6
  <2>7. \A d \in Clerk : d # c => Took'[d] = Took[d] /\ Seen'[d] = Seen[d]
    BY <1>3, <2>6, OthersSame
  <2>8. Took' = Took
    BY <2>1, <2>4, <2>7 DEF Took
  <2>9. Seen' = [Seen EXCEPT ![c] = {ValueAt(Len(chosen))}]
    BY <2>5, <2>7 DEF Seen
  <2>10. ValueAt(Len(chosen))' = ValueAt(Len(chosen))
    BY <1>3 DEF ValueAt
  <2>11. Store!Call(c, o)
    BY <1>2, <1>3, <1>6, <2>8, <2>9, <2>10 DEF Store!Call
  <2> QED BY <2>11 DEF Store!Next
<1> QED BY <1>5, <1>6

\* What the key holds, and whether request r of clerk c was chosen.
Current == ValueAt(Len(chosen))
IsChosen(c, r) == Executed(Len(chosen), c, r)

\* Entry e is chosen, after which the key holds this value.
Extends(e, value) ==
    /\ e \in Entry /\ value = Current' /\ UNCHANGED <<op, got, since>>
    /\ value = IF IsChosen(e.ClientId, e.RequestId) THEN Current ELSE Written(e, Current)
    /\ \A c, r : IsChosen(c, r)' <=> IsChosen(c, r) \/ (e.ClientId = c /\ e.RequestId = r)
    /\ \A c \in Clerk : Seen'[c] = IF op[c] = Idle THEN {} ELSE Seen[c] \cup {value}

\* What Choose adds to the history.
LEMMA ChooseHistory ==
    ASSUME Inv, NEW i \in Server, Choose(i), NEW e, e = log[i][Len(chosen) + 1],
           NEW value, value = Current'
    PROVE  Extends(e, value)
<1>1. TypeInv /\ LogsBounded /\ ClerksSound
  BY DEF Inv, ServiceInv
<1>2. PICK n \in Nat : n = Len(chosen) /\ n = Len(values)
  BY <1>1, SeqLength DEF TypeInv, RaftTypes, LogsBounded
<1>3. /\ e \in Entry /\ Len(chosen') = n + 1 /\ chosen'[n + 1] = e
      /\ \A m \in 1 .. n : chosen'[m] = chosen[m]
  BY SMTT(10), <1>1, <1>2, TypesChoose
<1>4. UNCHANGED <<op, got, since>>
  BY DEF Choose, clerkVars
<1>5. value = values'[n + 1] /\ Current = ValueAt(n) /\ \A c, r : IsChosen(c, r) <=> Executed(n, c, r)
  BY SMTT(30), <1>2, <1>3 DEF Current, ValueAt, IsChosen
<1>6. value = IF Executed(n, e.ClientId, e.RequestId)
              THEN ValueAt(n) ELSE Written(e, ValueAt(n))
  <2>1. PICK v : /\ v = IF Executed(n, e.ClientId, e.RequestId)
                        THEN ValueAt(n) ELSE Written(e, ValueAt(n))
                 /\ values' = Append(values, v)
    BY <1>2 DEF Choose, RecordChosen
  <2>2. ValueAt(n) \in Value
    <3>1. CASE n = 0
      BY SMTT(30), <3>1 DEF ValueAt, Value
    <3>2. CASE n # 0
      <4>1. values[n] \in Value
        BY SMTT(30), <1>1, <1>2, <3>2, SeqElement DEF TypeInv, RaftTypes
      <4> QED BY <3>2, <4>1 DEF ValueAt
    <3> QED BY <3>1, <3>2
  <2>3. v \in Value /\ values \in Seq(Value)
    BY <1>1, <1>3, <2>1, <2>2, WrittenType DEF TypeInv, RaftTypes
  <2>4. values'[n + 1] = v
    BY SMTT(30), <1>2, <2>1, <2>3, SeqAppend
  <2> QED BY <1>5, <2>1, <2>4
<1>7. ASSUME NEW c, NEW r
      PROVE  IsChosen(c, r)' <=> Executed(n, c, r) \/ (e.ClientId = c /\ e.RequestId = r)
  <2>1. 1 .. (n + 1) = (1 .. n) \cup {n + 1}
    BY SMTT(30), <1>2
  <2> QED BY <1>3, <2>1 DEF IsChosen, Executed
<1>8. ASSUME NEW c \in Clerk
      PROVE  Seen'[c] = IF op[c] = Idle THEN {} ELSE Seen[c] \cup {value}
  <2>1. CASE op[c] = Idle
    BY <1>4, <2>1 DEF Seen
  <2>2. CASE op[c] # Idle
    <3>1. since[c] \in Nat /\ since[c] <= n
      BY <1>1, <1>2, TypedEach DEF EachTyped, ClerksSound
    <3>2. \A m \in since[c] .. n : ValueAt(m)' = ValueAt(m)
      BY SMTT(30), <1>1, <1>2, <3>1, GrowsChoose, HistoryKept
    <3>3. since[c] .. (n + 1) = (since[c] .. n) \cup {n + 1}
      BY SMTT(30), <1>2, <3>1
    <3>4. Seen[c] = {ValueAt(m) : m \in since[c] .. n}
      BY <1>2, <2>2 DEF Seen
    <3>5. Seen'[c] = {ValueAt(m)' : m \in since[c] .. (n + 1)}
      BY <1>3, <1>4, <2>2 DEF Seen, ValueAt
    <3>6. value = ValueAt(n + 1)'
      BY SMTT(30), <1>2, <1>5 DEF ValueAt
    <3> QED BY <2>2, <3>2, <3>3, <3>4, <3>5, <3>6
  <2> QED BY <2>1, <2>2
<1> QED BY <1>3, <1>4, <1>5, <1>6, <1>7, <1>8 DEF Extends

\* The first entry of a request is where it takes effect; the others, which a
\* clerk's retries have left in the log, change nothing.
LEMMA StoreChoose ==
    ASSUME Inv, NEW i \in Server, Choose(i)
    PROVE  [Store!Next]_(Store!vars)
<1>1. TypeInv /\ ClerksSound /\ RequestsMade /\ ReturnedChosen /\ LogsBounded
  BY DEF Inv, ServiceInv, RequestInv
<1>2. PICK e : e = log[i][Len(chosen) + 1]
  OBVIOUS
<1>3. PICK value : value = Current'
  OBVIOUS
<1>4. Extends(e, value)
  BY <1>2, <1>3, ChooseHistory
<1>5. /\ e \in Entry /\ UNCHANGED <<op, got, since>>
      /\ value = IF IsChosen(e.ClientId, e.RequestId) THEN Current ELSE Written(e, Current)
      /\ \A c, r : IsChosen(c, r)' <=> IsChosen(c, r) \/ (e.ClientId = c /\ e.RequestId = r)
      /\ \A c \in Clerk : Seen'[c] = IF op[c] = Idle THEN {} ELSE Seen[c] \cup {value}
  BY <1>4 DEF Extends
<1>6. PICK c \in Clerk : c = e.ClientId
  BY <1>5, EntryFields
<1>7. PICK r \in Nat : r = e.RequestId
  BY <1>5, EntryFields
<1>8. \A d \in Clerk : Took'[d] <=> op[d] # Idle /\ IsChosen(d, op[d].RequestId)'
  BY <1>5 DEF Took, IsChosen
<1>9. CASE IsChosen(c, r)
  <2>1. Took' = Took
    BY <1>5, <1>6, <1>7, <1>8, <1>9 DEF Took, IsChosen
  <2>2. value = Current
    BY <1>5, <1>6, <1>7, <1>9
  <2>3. ASSUME NEW d \in Clerk
        PROVE  Seen'[d] = Seen[d]
    <3>1. Len(chosen) \in Nat /\ since[d] \in Nat /\ since[d] <= Len(chosen)
      BY <1>1, TypedEach DEF EachTyped, ClerksSound
    <3>2. Len(chosen) \in since[d] .. Len(chosen)
      BY SMTT(30), <3>1
    <3>3. op[d] # Idle => value \in Seen[d]
      BY <2>2, <3>2 DEF Seen, Current
    <3>4. op[d] = Idle => Seen[d] = {}
      BY DEF Seen
    <3>5. Seen'[d] = IF op[d] = Idle THEN {} ELSE Seen[d] \cup {value}
      BY <1>5
    <3> QED BY <3>3, <3>4, <3>5
  <2>4. Seen' = Seen
    BY <2>3 DEF Seen
  <2> QED BY <1>3, <1>5, <2>1, <2>2, <2>4 DEF Store!vars, Current
<1>10. CASE ~IsChosen(c, r)
  <2>1. op[c] # Idle /\ op[c].RequestId = r /\ op[c].OpType = e.OpType
    <3>1. Len(chosen) + 1 \in 1 .. Len(log[i])
      <4>1. /\ Len(chosen) \in Nat /\ Len(log[i]) \in Nat /\ Len(chosen) + 1 <= Len(log[i])
        BY <1>1, SeqLength, TypesChoose DEF TypeInv, RaftTypes
      <4> QED BY SMTT(30), <4>1
    <3>2. Made(c, e.OpType, r)
      BY <1>1, <1>2, <1>6, <1>7, <3>1 DEF RequestsMade
    <3>3. ~(r < RequestId[c])
      <4>1. RequestId[c] \in Nat
        BY <1>1, TypedEach DEF EachTyped
      <4> QED BY SMTT(10), <1>1, <1>7, <1>10, <4>1 DEF ReturnedChosen, IsChosen
    <3> QED BY <3>2, <3>3 DEF Made
  <2>2. ~Took[c] /\ Took'[c]
    BY <1>5, <1>6, <1>7, <1>8, <1>10, <2>1 DEF Took, IsChosen
  <2>3. Took' = [Took EXCEPT ![c] = TRUE]
    <3>1. \A d \in Clerk : d # c => Took'[d] = Took[d]
      BY <1>5, <1>6, <1>8 DEF Took, IsChosen
    <3>2. Took'[c] = TRUE
      BY <2>2 DEF Took
    <3> QED BY <3>1, <3>2 DEF Took
  <2>4. value = Store!Written(c, op[c], Current)
    BY <1>5, <1>6, <1>7, <1>10, <2>1 DEF Written, Store!Written
  <2>5. Seen' = [d \in Clerk |-> IF op[d] = Idle THEN {} ELSE Seen[d] \cup {value}]
    BY <1>5 DEF Seen
  <2>6. Store!TakeEffect(c)
    BY <1>3, <1>5, <2>1, <2>2, <2>3, <2>4, <2>5 DEF Store!TakeEffect, Current
  <2> QED BY <2>6 DEF Store!Next
<1> QED BY <1>9, <1>10

\* A clerk returns on OK, with what its request saw; on an error, or when it
\* does not wait for the call any more, nothing happens at the store.
LEMMA StoreReply ==
    ASSUME ServiceInv, NEW h \in CallId, handlers[h] # NoHandler, NEW err,
           NEW value \in Value, Reply(h, err, value), UNCHANGED <<chosen, values>>,
           (err = "OK" /\ call[handlers[h].clerk] = h) =>
               /\ Executed(Len(chosen), handlers[h].clerk, handlers[h].op.RequestId)
               /\ handlers[h].op.OpType = "Get" =>
                    \E n \in since[handlers[h].clerk] .. Len(chosen) : value = ValueAt(n)
    PROVE  [Store!Next]_(Store!vars)
<1>1. PICK c : c = handlers[h].clerk
  OBVIOUS
<1>2. TypeInv /\ ClerksSound /\ HandlersSound
  BY DEF ServiceInv
<1>3. /\ c \in Clerk /\ UNCHANGED since
      /\ call[c] # h => UNCHANGED clerkVars
      /\ call[c] = h => handlers[h].op = op[c] /\ op[c] \in Operation
      /\ call[c] = h /\ err = "OK" =>
           /\ op' = [op EXCEPT ![c] = Idle]
           /\ got' = IF op[c].OpType = "Get" THEN [got EXCEPT ![c] = value] ELSE got
      /\ call[c] = h /\ err # "OK" => UNCHANGED <<RequestId, op, got>>
  <2>1. ReplyDoes(h, err, value, c)
    BY <1>1, <1>2, ReplyEffect
  <2> QED BY <2>1 DEF ReplyDoes
<1>4. CASE call[c] # h \/ err # "OK"
  <2>1. UNCHANGED <<op, got, since>>
    BY <1>3, <1>4 DEF clerkVars
  <2> QED BY <2>1, StoreSame
<1>5. CASE call[c] = h /\ err = "OK"
  <2>1. op \in [Clerk -> Operation \cup {Idle}] /\ op[c] # Idle
    BY <1>2, <1>3, <1>5, OperationFields DEF TypeInv, ClerkTypes
  <2>2. op'[c] = Idle /\ \A d \in Clerk : d # c => op'[d] = op[d] /\ since'[d] = since[d]
    BY <1>3, <1>5, <2>1
  <2>3. \A d \in Clerk : d # c => Took'[d] = Took[d] /\ Seen'[d] = Seen[d]
    BY <2>2, OthersSame
  <2>4. Took' = [Took EXCEPT ![c] = FALSE] /\ Seen' = [Seen EXCEPT ![c] = {}]
    <3>1. Took'[c] = FALSE /\ Seen'[c] = {}
      BY <1>3, <2>2 DEF Took, Seen
    <3>2. /\ Took = [d \in Clerk |-> Took[d]] /\ Took' = [d \in Clerk |-> Took'[d]]
          /\ Seen = [d \in Clerk |-> Seen[d]] /\ Seen' = [d \in Clerk |-> Seen'[d]]
      BY DEF Took, Seen
    <3> QED BY <1>3, <2>3, <3>1, <3>2, OneChanges
  <2>5. Took[c]
    BY <1>1, <1>3, <1>5, <2>1 DEF Took
  <2>6. op[c].OpType = "Get" => value \in Seen[c]
    BY <1>1, <1>3, <1>5, <2>1 DEF Seen
  <2>7. ValueAt(Len(chosen))' = ValueAt(Len(chosen))
    BY DEF ValueAt
  <2>8. Store!Return(c)
    BY <1>3, <1>5, <2>1, <2>4, <2>5, <2>6, <2>7 DEF Store!Return
  <2> QED BY <1>3, <2>8 DEF Store!Next
<1> QED BY <1>4, <1>5

\* The answers of PutAppend and Get are returns; the rest is not seen.
LEMMA StoreHandlers ==
    ASSUME Inv, NEW h \in CallId,
           \/ CheckRequest(h) \/ Start(h) \/ MakeWaitCh(h)
           \/ Notified(h) \/ TimedOut(h) \/ Leave(h)
    PROVE  [Store!Next]_(Store!vars)
<1>1. /\ ServiceInv /\ AnswerInv /\ TypeInv /\ ClerksSound /\ HandlersSound /\ LogsBounded
      /\ LeadersSound /\ StatesTrue
  BY DEF Inv, ServiceInv, RaftInv, DeliveryInv
<1>2. UNCHANGED <<chosen, values>>
  BY DEF CheckRequest, Start, MakeWaitCh, Notified, TimedOut, Leave, raftVars
<1>3. ASSUME UNCHANGED clerkVars
      PROVE  UNCHANGED Store!vars
  BY <1>2, <1>3, StoreSame DEF clerkVars
<1>4. <<>> \in Value
  BY SMTT(30) DEF Value
<1>5. CASE CheckRequest(h)
  <2>1. /\ handlers[h].pc = "sent" /\ handlers[h].op.OpType # "Get"
        /\ \/ /\ isInvalidRequest(handlers[h].server, handlers[h].clerk,
                                  handlers[h].op.RequestId)
              /\ Reply(h, "OK", <<>>)
           \/ UNCHANGED clerkVars
    BY <1>1, <1>5, TypesCheck
  <2>2. handlers[h] # NoHandler
    BY <1>1, <2>1, RunningHandler
  <2>3. CASE isInvalidRequest(handlers[h].server, handlers[h].clerk, handlers[h].op.RequestId)
             /\ Reply(h, "OK", <<>>)
    <3>1. Executed(Len(chosen), handlers[h].clerk, handlers[h].op.RequestId)
      BY <1>1, <2>1, <2>3, InvalidIsChosen
    <3> QED BY <1>1, <1>2, <1>4, <2>1, <2>2, <2>3, <3>1, StoreReply
  <2> QED BY <1>3, <2>1, <2>3
<1>6. CASE Start(h)
  <2>1. PICK i : i = handlers[h].server
    OBVIOUS
  <2>2. /\ handlers[h] \in Handler
        /\ Reply(h, "ErrWrongLeader", <<>>) \/ UNCHANGED clerkVars
    <3>1. TypeInv' /\ StartDoes(h, handlers[h].server)
      BY <1>1, <1>6, <2>1, TypesStart
    <3> QED BY <3>1 DEF StartDoes
  <2>3. handlers[h] # NoHandler
    BY <2>2, HandlerFields
  <2>4. CASE Reply(h, "ErrWrongLeader", <<>>)
    BY <1>1, <1>2, <1>4, <2>3, <2>4, StoreReply
  <2> QED BY <1>3, <2>2, <2>4
<1>7. CASE MakeWaitCh(h) \/ Notified(h) \/ TimedOut(h)
  <2>1. UNCHANGED clerkVars
    BY <1>7 DEF MakeWaitCh, Notified, TimedOut
  <2> QED BY <1>3, <2>1
<1>8. CASE Leave(h)
  <2>1. /\ handlers[h].pc = "leaves" /\ handlers[h] \in Handler
        /\ Reply(h, handlers[h].err, handlers[h].value)
    <3>1. TypeInv' /\ LeaveDoes(h, handlers[h].server, handlers[h].index)
      BY <1>1, <1>8, TypesLeave
    <3> QED BY <3>1 DEF LeaveDoes
  <2>2. handlers[h] # NoHandler /\ handlers[h].value \in Value
    BY <2>1, HandlerFields
  <2>3. (handlers[h].err = "OK" /\ call[handlers[h].clerk] = h) =>
          /\ Executed(Len(chosen), handlers[h].clerk, handlers[h].op.RequestId)
          /\ handlers[h].op.OpType = "Get" =>
               \E n \in since[handlers[h].clerk] .. Len(chosen) : handlers[h].value = ValueAt(n)
    BY <1>1, <2>1, AnswerIsChosen
  <2> QED BY <1>1, <1>2, <2>1, <2>2, <2>3, StoreReply
<1> QED BY <1>5, <1>6, <1>7, <1>8

LEMMA StoreNext ==
    ASSUME Inv, [Next]_vars
    PROVE  [Store!Next]_(Store!vars)
<1>1. ASSUME NEW i \in Server, Choose(i)
      PROVE  [Store!Next]_(Store!vars)
  BY <1>1, StoreChoose
<1>2. ASSUME NEW i \in Server,
             \/ Elect(i) \/ apply(i) \/ ApplyCommand(i) \/ Restart(i)
             \/ \E s \in installing[i] : ApplySnapshot(i, s)
             \/ \E j \in Server :
                  StepDown(i, j) \/ Follow(i, j) \/ InstallSnapshot(i, j)
      PROVE  [Store!Next]_(Store!vars)
  <2>1. UNCHANGED <<op, got, since, chosen, values>>
    BY <1>2 DEF Elect, apply, ApplyCommand, Restart, ApplySnapshot, StepDown, Follow,
                InstallSnapshot, raftVars, clerkVars
  <2> QED BY <2>1, StoreSame
<1>3. ASSUME NEW c \in Clerk, (\E type \in OpType : Call(c, type)) \/ Retry(c)
      PROVE  [Store!Next]_(Store!vars)
  BY <1>3, StoreCall
<1>4. ASSUME NEW c \in Clerk, CallFails(c)
      PROVE  [Store!Next]_(Store!vars)
  <2>1. UNCHANGED <<op, got, since, chosen, values>>
    BY <1>4 DEF CallFails, raftVars
  <2> QED BY <2>1, StoreSame
<1>5. ASSUME NEW h \in CallId, \/ CheckRequest(h) \/ Start(h) \/ MakeWaitCh(h)
                               \/ Notified(h) \/ TimedOut(h) \/ Leave(h)
      PROVE  [Store!Next]_(Store!vars)
  BY <1>5, StoreHandlers
<1>6. CASE UNCHANGED vars
  <2>1. UNCHANGED <<op, got, since, chosen, values>>
    BY <1>6 DEF vars
  <2> QED BY <2>1, StoreSame
<1> QED BY <1>1, <1>2, <1>3, <1>4, <1>5, <1>6 DEF Next

\* Where applyCh hands messages over in index order, the service is
\* linearizable for any number of servers, clerks, retries, leader changes,
\* snapshots and restarts: each Put and Append takes effect once between the
\* clerk's call and its return, and a Get returns a value the key had between
\* the two.
THEOREM ServiceLinearizable ==
    ASSUME Ordered
    PROVE  Spec => Linearizable
<1>1. Init => Store!Init
  BY StoreInit
<1>2. Inv /\ [Next]_vars => [Store!Next]_(Store!vars)
  BY StoreNext
<1> QED BY <1>1, <1>2, OrderedInvariant, PTL DEF Spec, Linearizable, Store!Spec
=============================================================================
