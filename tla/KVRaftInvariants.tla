-------------------------- MODULE KVRaftInvariants --------------------------
(***************************************************************************)
(* The inductive invariants of KVRaft: what connects the clerks, the       *)
(* handlers, their channels, the logs and the appliers of src/kvraft.      *)
(***************************************************************************)
EXTENDS KVRaft

\* A snapshot on its way from InstallSnapshot to the applier.
Installed == [index : CallId, state : State]

RaftTypes ==
    /\ term \in [Server -> 0 .. MaxTerm] /\ isLeader \in [Server -> BOOLEAN]
    /\ log \in [Server -> Seq(Entry)] /\ chosen \in Seq(Entry) /\ values \in Seq(Value)

ApplyTypes ==
    /\ lastApplied \in [Server -> 0 .. MaxCalls]
    /\ firstIndex \in [Server -> 0 .. MaxCalls]
    /\ snapshot \in [Server -> State] /\ batch \in [Server -> Seq(CallId)]
    /\ installing \in [Server -> SUBSET Installed]

StateTypes ==
    /\ KVDB \in [Server -> Value] /\ LastRequestMap \in [Server -> RequestMap]
    /\ lastIncludedIndex \in [Server -> 0 .. MaxCalls]
    /\ delivered \in [Server -> 0 .. MaxCalls]

WaitTypes ==
    /\ waitChMap \in [Server -> [CallId -> 0 .. MaxCalls]]
    /\ buffered \in [CallId -> Seq(Value)]
    /\ \A ch \in CallId : Len(buffered[ch]) <= 1

HandlerTypes == handlers \in [CallId -> Handler \cup {NoHandler}]

ClerkTypes ==
    /\ RequestId \in [Clerk -> 0 .. MaxRequests] /\ LeaderId \in [Clerk -> Server]
    /\ op \in [Clerk -> Operation \cup {Idle}]
    /\ call \in [Clerk -> 0 .. MaxCalls] /\ since \in [Clerk -> 0 .. MaxCalls]
    /\ got \in [Clerk -> Value]

TypeInv ==
    /\ RaftTypes /\ ApplyTypes /\ StateTypes /\ WaitTypes /\ HandlerTypes /\ ClerkTypes
    /\ calls \in 0 .. MaxCalls /\ kills \in 0 .. MaxKills

-----------------------------------------------------------------------------
(* Logs and appliers *)

LogsBounded ==
    /\ \A i \in Server : Len(log[i]) <= MaxCalls
    /\ Len(chosen) <= MaxCalls /\ Len(values) = Len(chosen)

\* The indexes apply() has copied go up, as far as lastApplied.
BatchesInOrder ==
    \A i \in Server :
        /\ lastApplied[i] <= Len(chosen) /\ firstIndex[i] <= lastApplied[i]
        /\ \A n \in 1 .. Len(batch[i]) : batch[i][n] <= lastApplied[i]
        /\ \A m, n \in 1 .. Len(batch[i]) : m < n => batch[i][m] < batch[i][n]

-----------------------------------------------------------------------------
(* Clerks and handlers *)

ClerksSound ==
    \A c \in Clerk :
        /\ op[c] # Idle => op[c].RequestId = RequestId[c]
        /\ call[c] # 0 => op[c] # Idle
        /\ call[c] <= calls /\ since[c] <= Len(chosen)

HandlersSound ==
    \A h \in CallId :
        /\ h > calls => handlers[h] = NoHandler
        /\ handlers[h] # NoHandler =>
             /\ call[handlers[h].clerk] = h => handlers[h].op = op[handlers[h].clerk]
             /\ handlers[h].pc \in {"started", "waits", "leaves"} =>
                  handlers[h].index # 0 /\ handlers[h].term # 0
             /\ handlers[h].pc = "waits" => handlers[h].ch # 0
             /\ handlers[h].pc = "leaves" => handlers[h].err \in {"OK", "ErrWrongLeader"}

-----------------------------------------------------------------------------
(* Channels *)

\* The channel in the map is that of a handler which has not left.
ChannelsOwned ==
    \A i \in Server, k \in CallId : waitChMap[i][k] # 0 =>
        LET h == handlers[waitChMap[i][k]]
        IN h.server = i /\ h.index = k /\ h.pc \in {"waits", "leaves"}

\* Nothing is in a channel before its handler makes it.
ChannelsFresh ==
    \A h \in CallId :
        (h > calls \/ handlers[h].pc \in {"sent", "checked", "started"}) =>
            buffered[h] = <<>>

\* A channel in the map that holds something is that of an index which was
\* applied, and is not going to be applied again.
ChannelsHaveRoom ==
    \A i \in Server, k \in CallId :
        (waitChMap[i][k] # 0 /\ buffered[waitChMap[i][k]] # <<>>) =>
            k <= lastApplied[i] /\ \A n \in 1 .. Len(batch[i]) : batch[i][n] # k

ServiceInv ==
    /\ TypeInv /\ LogsBounded /\ BatchesInOrder /\ ClerksSound /\ HandlersSound
    /\ ChannelsOwned /\ ChannelsFresh /\ ChannelsHaveRoom

-----------------------------------------------------------------------------
(* Leaders and their logs *)

\* The log of server i holds the first n chosen entries.
Holds(i, n) == n <= Len(log[i]) /\ \A m \in 1 .. n : log[i][m] = chosen[m]

LeadersSound ==
    /\ \A i, j \in Server : isLeader[i] /\ isLeader[j] /\ term[i] = term[j] => i = j
    /\ \A i \in Server : isLeader[i] => term[i] # 0
    /\ \A i \in Server : \A n \in 1 .. Len(log[i]) : log[i][n].Term <= term[i]
    /\ \A n \in 1 .. Len(chosen) : \E i \in Server : chosen[n].Term <= term[i]

\* A leader has every entry of its term.
LeadersHaveTheirs ==
    \A i \in Server : isLeader[i] =>
        /\ \A j \in Server : \A n \in 1 .. Len(log[j]) :
             log[j][n].Term = term[i] => n <= Len(log[i])
        /\ \A n \in 1 .. Len(chosen) : chosen[n].Term = term[i] => n <= Len(log[i])

LeaderHoldsChosen == \A i \in Server : IsNewest(i) => Holds(i, Len(chosen))

AppliedIsHeld == \A i \in Server : Holds(i, lastApplied[i])

RaftInv == LeadersSound /\ LeadersHaveTheirs /\ LeaderHoldsChosen /\ AppliedIsHeld

-----------------------------------------------------------------------------
(* Requests *)

\* Request r of clerk c was made, as an operation of this type.
Made(c, type, r) ==
    \/ r < RequestId[c]
    \/ op[c] # Idle /\ op[c].RequestId = r /\ op[c].OpType = type

RequestsMade ==
    /\ \A h \in CallId : handlers[h] # NoHandler =>
         Made(handlers[h].clerk, handlers[h].op.OpType, handlers[h].op.RequestId)
    /\ \A i \in Server : \A n \in 1 .. Len(log[i]) :
         Made(log[i][n].ClientId, log[i][n].OpType, log[i][n].RequestId)
    /\ \A n \in 1 .. Len(chosen) :
         Made(chosen[n].ClientId, chosen[n].OpType, chosen[n].RequestId)

\* A request that returned was chosen.
ReturnedChosen ==
    \A c \in Clerk : \A r \in 0 .. (RequestId[c] - 1) : Executed(Len(chosen), c, r)

\* The first entries of a clerk's requests are chosen in the order of its calls.
ChosenInOrder ==
    \A m \in 1 .. Len(chosen) : \A r \in 0 .. (chosen[m].RequestId - 1) :
        Executed(m - 1, chosen[m].ClientId, r)

\* The history records what the key holds.
ValuesTrue ==
    \A n \in 1 .. Len(chosen) :
        LET e == chosen[n]
        IN values[n] = IF Executed(n - 1, e.ClientId, e.RequestId)
                       THEN ValueAt(n - 1) ELSE Written(e, ValueAt(n - 1))

RequestInv == RequestsMade /\ ReturnedChosen /\ ChosenInOrder /\ ValuesTrue

-----------------------------------------------------------------------------
(* Delivery, when applyCh hands messages over in order *)

\* What is on its way to the applier of server i begins after what it has got,
\* leaves no gap but for what a snapshot covers, and ends at lastApplied.
Delivery(i) ==
    /\ lastIncludedIndex[i] <= delivered[i] /\ delivered[i] <= lastApplied[i]
    /\ \A n \in 1 .. Len(batch[i]) :
         /\ delivered[i] < batch[i][n]
         /\ \/ batch[i][n] - 1 = delivered[i]
            \/ n > 1 /\ batch[i][n] - 1 = batch[i][n - 1]
            \/ \E s \in installing[i] : s.index = batch[i][n] - 1
    /\ \A s \in installing[i] :
         /\ delivered[i] < s.index /\ s.index <= lastApplied[i]
         /\ \A n \in 1 .. Len(batch[i]) : batch[i][n] # s.index
    /\ \A r, s \in installing[i] : r.index = s.index => r = s
    /\ \/ lastApplied[i] = delivered[i]
       \/ batch[i] # <<>> /\ batch[i][Len(batch[i])] = lastApplied[i]
       \/ \E s \in installing[i] : s.index = lastApplied[i]

\* The state of the service after the first n chosen entries.
StateTrue(db, map, n) ==
    /\ n <= Len(chosen) /\ db = ValueAt(n)
    /\ \A c \in Clerk : \A r \in 0 .. (MaxRequests - 1) :
         r <= map[c] <=> Executed(n, c, r)

StatesTrue ==
    \A i \in Server :
        /\ StateTrue(KVDB[i], LastRequestMap[i], delivered[i])
        /\ StateTrue(snapshot[i].KVDB, snapshot[i].LastRequestMap, firstIndex[i])
        /\ \A s \in installing[i] :
             StateTrue(s.state.KVDB, s.state.LastRequestMap, s.index)

DeliveryInv == StatesTrue /\ \A i \in Server : Delivery(i)

-----------------------------------------------------------------------------
(* Answers *)

\* The entry that handler h has started.
EntryOf(h) ==
    [ClientId |-> handlers[h].clerk, OpType |-> handlers[h].op.OpType,
     RequestId |-> handlers[h].op.RequestId, Term |-> handlers[h].term]

\* The entry of a handler is in the log as long as its server leads the term,
\* and was not among those chosen before the clerk called.
StartedBy(h) ==
    handlers[h].pc \in {"started", "waits", "leaves"} =>
        /\ StillLeader(h) => /\ handlers[h].index <= Len(log[handlers[h].server])
                             /\ log[handlers[h].server][handlers[h].index] = EntryOf(h)
        /\ handlers[h].term <= term[handlers[h].server]
        /\ (call[handlers[h].clerk] = h /\ handlers[h].index <= since[handlers[h].clerk])
             => chosen[handlers[h].index].Term # handlers[h].term

\* A handler that waits on a channel made by another waits for the same index.
SharedBy(h) ==
    handlers[h].pc = "waits" =>
        LET owner == handlers[handlers[h].ch]
        IN /\ handlers[h].ch <= calls
           /\ owner # NoHandler =>
                /\ owner.pc \in {"waits", "leaves"}
                /\ owner.server = handlers[h].server /\ owner.index = handlers[h].index

\* The channel a handler waits on holds the value before its entry, which was
\* applied.
NotifiedBy(h) ==
    (handlers[h].pc = "waits" /\ buffered[handlers[h].ch] # <<>>) =>
        /\ handlers[h].index <= lastApplied[handlers[h].server]
        /\ Head(buffered[handlers[h].ch]) = ValueAt(handlers[h].index - 1)

\* A handler that is going to answer OK has its entry chosen after the call.
AnsweredBy(h) ==
    (handlers[h].pc = "leaves" /\ handlers[h].err = "OK") =>
        /\ handlers[h].index <= Len(chosen) /\ chosen[handlers[h].index] = EntryOf(h)
        /\ handlers[h].value = ValueAt(handlers[h].index - 1)
        /\ call[handlers[h].clerk] = h => handlers[h].index > since[handlers[h].clerk]

\* The channel in the map holds the value before the entry of its index.
ChannelsTrue ==
    \A i \in Server, k \in CallId :
        (waitChMap[i][k] # 0 /\ buffered[waitChMap[i][k]] # <<>>) =>
            Head(buffered[waitChMap[i][k]]) = ValueAt(k - 1)

AnswerInv ==
    /\ \A h \in CallId : StartedBy(h) /\ SharedBy(h) /\ NotifiedBy(h) /\ AnsweredBy(h)
    /\ ChannelsTrue

Inv == ServiceInv /\ RaftInv /\ RequestInv /\ DeliveryInv /\ AnswerInv
=============================================================================
