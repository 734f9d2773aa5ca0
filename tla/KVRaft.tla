------------------------------- MODULE KVRaft -------------------------------
(***************************************************************************)
(* The replicated key/value service of src/kvraft: the clerks' retry       *)
(* loops, the RPC handlers that wait for their log index to be applied,    *)
(* and the applier of every server, fed by Raft's apply() goroutine and by *)
(* InstallSnapshot.                                                        *)
(*                                                                         *)
(* Raft itself is abstracted to what the service sees of it: a leader per  *)
(* term whose log contains what is chosen, followers that copy its log, a  *)
(* chosen log that only grows, and servers that learn how far it goes      *)
(* (module Raft has the protocol behind it).  rf.log is kept whole; what a *)
(* snapshot covers is told by firstIndex.                                  *)
(***************************************************************************)
EXTENDS Integers, Sequences

CONSTANTS
    N,            \* the servers are 0 .. N-1
    Clerk,        \* the clerks
    None,         \* no clerk
    OpType,       \* what clients call: some of "Get", "Put" and "Append"
    MaxRequests,  \* bound: operations a clerk calls
    MaxCalls,     \* bound: RPCs sent by all clerks
    MaxTerm,      \* bound: terms
    MaxKills,     \* bound: restarts of servers
    MaxSnapshot,  \* bound: the applier snapshots up to this index
    Ordered       \* whether applyCh hands messages over in index order

ASSUME KVAssumption ==
    /\ OpType \subseteq {"Get", "Put", "Append"}
    /\ N \in Nat \ {0} /\ MaxRequests \in Nat /\ MaxCalls \in Nat
    /\ MaxTerm \in Nat /\ MaxKills \in Nat /\ MaxSnapshot \in Nat
    /\ Ordered \in BOOLEAN

Server == 0 .. (N - 1)
Operation == [OpType : OpType, RequestId : 0 .. (MaxRequests - 1)]
Idle == [OpType |-> "None", RequestId |-> 0]

IsPrefix(s, t) == Len(s) <= Len(t) /\ \A n \in 1 .. Len(s) : s[n] = t[n]

\* Calls, and the channels made for them, are numbered; every call adds at
\* most one log entry, so the numbers also bound the log indexes.
CallId == 1 .. MaxCalls
NoHandler == [server |-> -1, clerk |-> None, op |-> Idle, pc |-> "none",
              index |-> 0, term |-> 0, ch |-> 0, err |-> "", value |-> <<>>]

VARIABLES
    term, isLeader,         \* what GetState returns
    log,                    \* the log of a server: Op and term of each entry
    chosen,                 \* the entries that are committed
    lastApplied,            \* the index apply() has copied up to
    firstIndex,             \* the index the persisted snapshot reaches
    snapshot,               \* the service state in that snapshot
    batch,                  \* what apply() has copied and not yet sent
    installing,             \* snapshots InstallSnapshot is about to send
    KVDB, LastRequestMap, lastIncludedIndex,    \* fields of KVServer
    waitChMap,              \* log index -> channel
    buffered,               \* channel -> the Op in its buffer
    handlers,               \* the RPC handlers that run: call -> handler
    RequestId, LeaderId,    \* fields of Clerk
    op,                     \* the operation a clerk is in
    call,                   \* the RPC it waits for
    since,                  \* history: how much was chosen when it called
    got,                    \* history: what its last Get returned
    calls, kills,           \* RPCs and kills so far (for the bounds)
    delivered,              \* history: the index a server's state reaches
    values                  \* history: what the key holds after each chosen entry

raftVars == <<term, isLeader, log, chosen, values>>
applyVars == <<lastApplied, firstIndex, snapshot, batch, installing>>
stateVars == <<KVDB, LastRequestMap, lastIncludedIndex, delivered>>
waitVars == <<waitChMap, buffered>>
clerkVars == <<RequestId, LeaderId, op, call, since, got>>
vars == <<term, isLeader, log, chosen, lastApplied, firstIndex,
          snapshot, batch, installing, KVDB, LastRequestMap,
          lastIncludedIndex, waitChMap, buffered, handlers, RequestId,
          LeaderId, op, call, since, got, calls, kills, delivered, values>>

-----------------------------------------------------------------------------
(* What the service sees of Raft *)

\* The leader of the newest term.
IsNewest(i) == isLeader[i] /\ \A j \in Server : term[j] <= term[i]

\* A server whose log holds what is chosen wins an election, in the term
\* after the newest one.
Elect(i) ==
    /\ ~isLeader[i] /\ IsPrefix(chosen, log[i])
    /\ \E t \in 1 .. MaxTerm :
         /\ \A j \in Server : term[j] < t
         /\ \E j \in Server : term[j] = t - 1
         /\ term' = [term EXCEPT ![i] = t]
    /\ isLeader' = [isLeader EXCEPT ![i] = TRUE]
    /\ UNCHANGED <<log, chosen, values, applyVars, stateVars, waitVars,
                   handlers, clerkVars, calls, kills>>

\* A leader hears of a newer term.
StepDown(i, j) ==
    /\ isLeader[i] /\ term[j] > term[i]
    /\ term' = [term EXCEPT ![i] = term[j]]
    /\ isLeader' = [isLeader EXCEPT ![i] = FALSE]
    /\ UNCHANGED <<log, chosen, values, applyVars, stateVars, waitVars,
                   handlers, clerkVars, calls, kills>>

\* AppendEntries of the newest leader i brings server j its log.
Follow(j, i) ==
    /\ IsNewest(i) /\ i # j /\ log[j] # log[i]
    /\ IsPrefix(SubSeq(log[i], 1, firstIndex[i]), log[j])
    /\ log' = [log EXCEPT ![j] = log[i]]
    /\ term' = [term EXCEPT ![j] = term[i]]
    /\ isLeader' = [isLeader EXCEPT ![j] = FALSE]
    /\ UNCHANGED <<chosen, values, applyVars, stateVars, waitVars,
                   handlers, clerkVars, calls, kills>>

\* What the key holds after Op e.
Written(e, value) ==
    LET request == <<e.ClientId, e.RequestId>>
    IN CASE e.OpType = "Put" -> <<request>>
         [] e.OpType = "Append" -> Append(value, request)
         [] OTHER -> value

\* Request r of clerk c is among the first n chosen entries.
Executed(n, c, r) ==
    \E m \in 1 .. n : chosen[m].ClientId = c /\ chosen[m].RequestId = r

\* The value of the key after the first n chosen entries, if every request
\* counts once: where it first appears.
ValueAt(n) == IF n = 0 THEN <<>> ELSE values[n]

RecordChosen(e) ==
    LET value == ValueAt(Len(chosen))
    IN values' = Append(values, IF Executed(Len(chosen), e.ClientId, e.RequestId)
                                THEN value ELSE Written(e, value))

\* The newest leader commits, which takes an entry of its own term.  The
\* entries before that one are chosen with it, one step each.
Choose(i) ==
    /\ IsNewest(i) /\ IsPrefix(chosen, log[i])
    /\ \E n \in (Len(chosen) + 1) .. Len(log[i]) : log[i][n].Term = term[i]
    /\ chosen' = Append(chosen, log[i][Len(chosen) + 1])
    /\ RecordChosen(log[i][Len(chosen) + 1])
    /\ UNCHANGED <<term, isLeader, log, applyVars, stateVars,
                   waitVars, handlers, clerkVars, calls, kills>>

\* apply(): under the lock it copies everything committed and not applied,
\* and counts it as applied; then it sends the copies one by one.  How far a
\* server knows the chosen log (its commitIndex) is settled in this step.
apply(i) ==
    /\ batch[i] = <<>>
    /\ \E commit \in (lastApplied[i] + 1) .. Len(chosen) :
         /\ IsPrefix(SubSeq(chosen, 1, commit), log[i])
         /\ batch' = [batch EXCEPT ![i] =
               [n \in 1 .. (commit - lastApplied[i]) |-> lastApplied[i] + n]]
         /\ lastApplied' = [lastApplied EXCEPT ![i] = commit]
    /\ UNCHANGED <<raftVars, firstIndex, snapshot, installing, stateVars,
                   waitVars, handlers, clerkVars, calls, kills>>

\* InstallSnapshot of the newest leader i at server j, up to the unlock: what
\* it sends on applyCh afterwards is in `installing`.
InstallSnapshot(j, i) ==
    /\ IsNewest(i) /\ i # j /\ lastApplied[j] < firstIndex[i]
    /\ log' = [log EXCEPT ![j] = SubSeq(log[i], 1, firstIndex[i])
                                 \o SubSeq(@, firstIndex[i] + 1, Len(@))]
    /\ term' = [term EXCEPT ![j] = term[i]]
    /\ isLeader' = [isLeader EXCEPT ![j] = FALSE]
    /\ firstIndex' = [firstIndex EXCEPT ![j] = firstIndex[i]]
    /\ snapshot' = [snapshot EXCEPT ![j] = snapshot[i]]
    /\ lastApplied' = [lastApplied EXCEPT ![j] = firstIndex[i]]
    /\ installing' = [installing EXCEPT ![j] = @ \cup
                        {[index |-> firstIndex[i], state |-> snapshot[i]]}]
    /\ UNCHANGED <<chosen, values, batch, stateVars, waitVars, handlers, clerkVars,
                   calls, kills>>

-----------------------------------------------------------------------------
(* The state machine *)

\* Mutant of isInvalidRequest: a clerk that is not in the map reads as 0.
isInvalidRequestNotOk(i, c, request) ==
    request <= IF LastRequestMap[i][c] = -1 THEN 0 ELSE LastRequestMap[i][c]

\* A clerk that is not in the map is -1 here.
isInvalidRequest(i, c, request) == request <= LastRequestMap[i][c]

\* A Put or Append that was executed before is ignored.
Ignored(i, e) == e.OpType # "Get" /\ isInvalidRequest(i, e.ClientId, e.RequestId)

execute(i, e) ==
    IF Ignored(i, e) THEN UNCHANGED <<KVDB, LastRequestMap>>
    ELSE /\ KVDB' = [KVDB EXCEPT ![i] = Written(e, @)]
         /\ LastRequestMap' = [LastRequestMap EXCEPT
                ![i][e.ClientId] = IF @ < e.RequestId THEN e.RequestId ELSE @]

\* The channel that waits for Op e at index k, when the server is still the
\* leader of the term of that entry.
Waiting(i, k, e) == isLeader[i] /\ e.Term = term[i] /\ waitChMap[i][k] # 0

\* Mutant of HasRoom: the channel has no buffer, so a send needs a receiver.
HasRoomUnbuffered(ch) ==
    \E h \in CallId : handlers[h].ch = ch /\ handlers[h].pc = "waits"

\* A channel buffers one Op.
HasRoom(ch) == buffered[ch] = <<>>

\* The send blocks while the channel has no room.
notifyWaitCh(i, k, e) ==
    IF Waiting(i, k, e)
    THEN /\ HasRoom(waitChMap[i][k])
         /\ buffered' = [buffered EXCEPT ![waitChMap[i][k]] = <<KVDB[i]>>]
    ELSE UNCHANGED buffered

\* Mutant of encodeState: the snapshot does not say what was executed.
encodeStateKVDBOnly(i) ==
    [KVDB |-> KVDB[i], LastRequestMap |-> [c \in Clerk |-> -1]]

\* Mutant of encodeState: the snapshot does not hold the values.
encodeStateMapOnly(i) == [KVDB |-> <<>>, LastRequestMap |-> LastRequestMap[i]]

encodeState(i) == [KVDB |-> KVDB[i], LastRequestMap |-> LastRequestMap[i]]

\* RaftStateSize() reaches maxraftstate at some point: then rf.Snapshot.
MaybeSnapshot(i, k) ==
    \/ UNCHANGED <<firstIndex, snapshot>>
    \/ /\ k > firstIndex[i] /\ k <= MaxSnapshot
       /\ firstIndex' = [firstIndex EXCEPT ![i] = k]
       /\ snapshot' = [snapshot EXCEPT ![i] = encodeState(i)']

\* The applier receives the next command of apply()'s batch.
ApplyCommand(i) ==
    /\ batch[i] # <<>>
    /\ Ordered => \A s \in installing[i] : s.index >= Head(batch[i])
    /\ batch' = [batch EXCEPT ![i] = Tail(@)]
    /\ LET k == Head(batch[i])
       IN IF k <= lastIncludedIndex[i]
          THEN UNCHANGED <<stateVars, buffered, firstIndex, snapshot>>
          ELSE /\ execute(i, chosen[k])
               /\ notifyWaitCh(i, k, chosen[k])
               /\ MaybeSnapshot(i, k)
               /\ lastIncludedIndex' = [lastIncludedIndex EXCEPT ![i] = k]
               /\ delivered' = [delivered EXCEPT ![i] = k]
    /\ UNCHANGED <<raftVars, lastApplied, installing, waitChMap, handlers,
                   clerkVars, calls, kills>>

\* The applier receives a snapshot.  The message has no CommandIndex, so
\* lastIncludedIndex becomes 0.
ApplySnapshot(i, s) ==
    /\ s \in installing[i]
    /\ Ordered => /\ \A n \in 1 .. Len(batch[i]) : batch[i][n] > s.index
                  /\ \A r \in installing[i] : r.index >= s.index
    /\ installing' = [installing EXCEPT ![i] = @ \ {s}]
    /\ IF s.index <= lastIncludedIndex[i] THEN UNCHANGED stateVars
       ELSE /\ KVDB' = [KVDB EXCEPT ![i] = s.state.KVDB]
            /\ LastRequestMap' = [LastRequestMap EXCEPT ![i] = s.state.LastRequestMap]
            /\ lastIncludedIndex' = [lastIncludedIndex EXCEPT ![i] = 0]
            /\ delivered' = [delivered EXCEPT ![i] = s.index]
    /\ UNCHANGED <<raftVars, lastApplied, firstIndex, snapshot, batch, waitVars,
                   handlers, clerkVars, calls, kills>>

\* Kill() and StartKVServer(): everything volatile is lost.  The handlers
\* that run in the killed server never answer.
Restart(i) ==
    /\ kills < MaxKills /\ kills' = kills + 1
    /\ isLeader' = [isLeader EXCEPT ![i] = FALSE]
    /\ lastApplied' = [lastApplied EXCEPT ![i] = firstIndex[i]]
    /\ batch' = [batch EXCEPT ![i] = <<>>]
    /\ installing' = [installing EXCEPT ![i] = {}]
    /\ KVDB' = [KVDB EXCEPT ![i] = snapshot[i].KVDB]
    /\ LastRequestMap' = [LastRequestMap EXCEPT ![i] = snapshot[i].LastRequestMap]
    /\ lastIncludedIndex' = [lastIncludedIndex EXCEPT ![i] = 0]
    /\ delivered' = [delivered EXCEPT ![i] = firstIndex[i]]
    /\ waitChMap' = [waitChMap EXCEPT ![i] = [k \in DOMAIN @ |-> 0]]
    /\ handlers' = [h \in DOMAIN handlers |->
                      IF handlers[h].server = i /\ handlers[h].pc # "sent"
                      THEN NoHandler ELSE handlers[h]]
    /\ UNCHANGED <<term, log, chosen, values, firstIndex, snapshot, buffered,
                   clerkVars, calls>>

-----------------------------------------------------------------------------
(* The clerks *)

\* The clerk sends request o to the server it takes for the leader.
SendTo(c, o) ==
    /\ calls < MaxCalls /\ calls' = calls + 1
    /\ call' = [call EXCEPT ![c] = calls + 1]
    /\ handlers' = [handlers EXCEPT ![calls + 1] =
          [NoHandler EXCEPT !.server = LeaderId[c], !.clerk = c,
                            !.op = o, !.pc = "sent"]]

\* A client calls Get, Put or Append of a clerk.
Call(c, type) ==
    /\ op[c] = Idle /\ RequestId[c] < MaxRequests
    /\ op' = [op EXCEPT ![c] = [OpType |-> type, RequestId |-> RequestId[c]]]
    /\ SendTo(c, op'[c])
    /\ since' = [since EXCEPT ![c] = Len(chosen)]
    /\ UNCHANGED <<raftVars, applyVars, stateVars, waitVars, RequestId,
                   LeaderId, got, kills>>

\* The loop of the clerk goes round: it sends the same request again.
Retry(c) ==
    /\ op[c] # Idle /\ call[c] = 0
    /\ SendTo(c, op[c])
    /\ UNCHANGED <<raftVars, applyVars, stateVars, waitVars, RequestId,
                   LeaderId, op, since, got, kills>>

\* Mutant of NextServer: the modulus is missing.
NextServerUnbounded(c) == LeaderId[c] + 1

NextServer(c) == (LeaderId[c] + 1) % N

\* The call fails: its request or its reply was lost, or took too long.  (A
\* call that the bound does not let the clerk repeat is not given up.)
CallFails(c) ==
    /\ call[c] # 0 /\ calls < MaxCalls
    /\ call' = [call EXCEPT ![c] = 0]
    /\ LeaderId' = [LeaderId EXCEPT ![c] = NextServer(c)]
    /\ UNCHANGED <<raftVars, applyVars, stateVars, waitVars, handlers,
                   RequestId, op, since, got, calls, kills>>

\* Handler h returns; its reply reaches the clerk if that still waits for it.
\* On ErrWrongLeader the clerk tries the next server, on OK it returns.
Reply(h, err, value) ==
    LET c == handlers[h].clerk
    IN /\ handlers' = [handlers EXCEPT ![h] = NoHandler]
       /\ IF call[c] # h THEN UNCHANGED clerkVars
          ELSE /\ call' = [call EXCEPT ![c] = 0]
               /\ IF err = "OK"
                  THEN /\ RequestId' = [RequestId EXCEPT ![c] = @ + 1]
                       /\ op' = [op EXCEPT ![c] = Idle]
                       /\ got' = IF op[c].OpType = "Get"
                                 THEN [got EXCEPT ![c] = value] ELSE got
                       /\ UNCHANGED <<LeaderId, since>>
                  ELSE /\ LeaderId' = [LeaderId EXCEPT ![c] = NextServer(c)]
                       /\ UNCHANGED <<RequestId, op, since, got>>

-----------------------------------------------------------------------------
(* The RPC handlers Get and PutAppend *)

\* PutAppend first looks whether the request was executed already.
CheckRequest(h) ==
    /\ handlers[h].pc = "sent" /\ handlers[h].op.OpType # "Get"
    /\ IF isInvalidRequest(handlers[h].server, handlers[h].clerk,
                           handlers[h].op.RequestId)
       THEN Reply(h, "OK", <<>>)
       ELSE /\ handlers' = [handlers EXCEPT ![h].pc = "checked"]
            /\ UNCHANGED clerkVars
    /\ UNCHANGED <<raftVars, applyVars, stateVars, waitVars, calls, kills>>

\* kv.rf.Start(op): only a leader takes it.  (The guard on the length of the
\* log excludes nothing, since a call is started once.)
Start(h) ==
    LET i == handlers[h].server
        entry == [ClientId |-> handlers[h].clerk, OpType |-> handlers[h].op.OpType,
                  RequestId |-> handlers[h].op.RequestId, Term |-> term[i]]
    IN /\ \/ handlers[h].pc = "checked"
          \/ handlers[h].pc = "sent" /\ handlers[h].op.OpType = "Get"
       /\ IF isLeader[i]
          THEN /\ Len(log[i]) < MaxCalls
               /\ log' = [log EXCEPT ![i] = Append(@, entry)]
               /\ handlers' = [handlers EXCEPT
                     ![h] = [@ EXCEPT !.pc = "started", !.term = term[i],
                                      !.index = Len(log[i]) + 1]]
               /\ UNCHANGED clerkVars
          ELSE Reply(h, "ErrWrongLeader", <<>>) /\ UNCHANGED log
       /\ UNCHANGED <<term, isLeader, chosen, values, applyVars, stateVars,
                      waitVars, calls, kills>>

\* The handler takes the channel of its index, or makes one.
MakeWaitCh(h) ==
    LET i == handlers[h].server
        k == handlers[h].index
        ch == IF waitChMap[i][k] = 0 THEN h ELSE waitChMap[i][k]
    IN /\ handlers[h].pc = "started"
       /\ waitChMap' = [waitChMap EXCEPT ![i][k] = ch]
       /\ handlers' = [handlers EXCEPT ![h] = [@ EXCEPT !.pc = "waits", !.ch = ch]]
       /\ UNCHANGED <<raftVars, applyVars, stateVars, buffered, clerkVars,
                      calls, kills>>

\* The leader and term the entry was started under are still those.
StillLeader(h) ==
    isLeader[handlers[h].server] /\ term[handlers[h].server] = handlers[h].term

\* What the handler will answer, once it has removed its channel.
Answers(h, err, value) ==
    handlers' = [handlers EXCEPT ![h] =
                    [@ EXCEPT !.pc = "leaves", !.err = err, !.value = value]]

\* The applier's notification arrives.
Notified(h) ==
    LET ch == handlers[h].ch
    IN /\ handlers[h].pc = "waits" /\ buffered[ch] # <<>>
       /\ buffered' = [buffered EXCEPT ![ch] = <<>>]
       /\ Answers(h, IF StillLeader(h) THEN "OK" ELSE "ErrWrongLeader",
                  Head(buffered[ch]))
       /\ UNCHANGED <<raftVars, applyVars, stateVars, waitChMap, clerkVars,
                      calls, kills>>

\* ExecuteTimeout passes first.
TimedOut(h) ==
    /\ handlers[h].pc = "waits"
    /\ Answers(h, "ErrWrongLeader", <<>>)
    /\ UNCHANGED <<raftVars, applyVars, stateVars, waitVars, clerkVars,
                   calls, kills>>

\* The handler deletes the channel of its index, whoever waits on it, and
\* returns.
Leave(h) ==
    /\ handlers[h].pc = "leaves"
    /\ waitChMap' = [waitChMap EXCEPT ![handlers[h].server][handlers[h].index] = 0]
    /\ Reply(h, handlers[h].err, handlers[h].value)
    /\ UNCHANGED <<raftVars, applyVars, stateVars, buffered, calls, kills>>

-----------------------------------------------------------------------------
Init ==
    /\ term = [i \in Server |-> 0] /\ isLeader = [i \in Server |-> FALSE]
    /\ log = [i \in Server |-> <<>>] /\ chosen = <<>> /\ values = <<>>
    /\ lastApplied = [i \in Server |-> 0]
    /\ firstIndex = [i \in Server |-> 0]
    /\ snapshot = [i \in Server |-> [KVDB |-> <<>>,
                                     LastRequestMap |-> [c \in Clerk |-> -1]]]
    /\ batch = [i \in Server |-> <<>>] /\ installing = [i \in Server |-> {}]
    /\ KVDB = [i \in Server |-> <<>>]
    /\ LastRequestMap = [i \in Server |-> [c \in Clerk |-> -1]]
    /\ lastIncludedIndex = [i \in Server |-> 0]
    /\ delivered = [i \in Server |-> 0]
    /\ waitChMap = [i \in Server |-> [k \in CallId |-> 0]]
    /\ buffered = [ch \in CallId |-> <<>>]
    /\ handlers = [h \in CallId |-> NoHandler]
    /\ RequestId = [c \in Clerk |-> 0] /\ LeaderId = [c \in Clerk |-> 0]
    /\ op = [c \in Clerk |-> Idle] /\ call = [c \in Clerk |-> 0]
    /\ since = [c \in Clerk |-> 0] /\ got = [c \in Clerk |-> <<>>]
    /\ calls = 0 /\ kills = 0

Next ==
    \/ \E i \in Server :
         \/ Elect(i) \/ Choose(i) \/ apply(i)
         \/ ApplyCommand(i) \/ Restart(i)
         \/ \E s \in installing[i] : ApplySnapshot(i, s)
         \/ \E j \in Server :
              StepDown(i, j) \/ Follow(i, j) \/ InstallSnapshot(i, j)
    \/ \E c \in Clerk :
         \/ \E type \in OpType : Call(c, type)
         \/ Retry(c) \/ CallFails(c)
    \/ \E h \in CallId :
         \/ CheckRequest(h) \/ Start(h) \/ MakeWaitCh(h)
         \/ Notified(h) \/ TimedOut(h) \/ Leave(h)

Spec == Init /\ [][Next]_vars

-----------------------------------------------------------------------------
(* Properties *)

Entry == [ClientId : Clerk, OpType : OpType, RequestId : 0 .. (MaxRequests - 1),
          Term : 1 .. MaxTerm]
Value == Seq(Clerk \X (0 .. (MaxRequests - 1)))
RequestMap == [Clerk -> -1 .. (MaxRequests - 1)]
State == [KVDB : Value, LastRequestMap : RequestMap]
Handler == [server : Server, clerk : Clerk, op : Operation, index : 0 .. MaxCalls,
            pc : {"sent", "checked", "started", "waits", "leaves"},
            term : 0 .. MaxTerm, ch : 0 .. MaxCalls,
            err : {"", "OK", "ErrWrongLeader"}, value : Value]

\* The variables keep their types: the clerks' LeaderId is always a server,
\* and channels hold one value at most.
TypeOK ==
    /\ term \in [Server -> 0 .. MaxTerm] /\ isLeader \in [Server -> BOOLEAN]
    /\ log \in [Server -> Seq(Entry)] /\ chosen \in Seq(Entry) /\ values \in Seq(Value)
    /\ lastApplied \in [Server -> 0 .. MaxCalls]
    /\ firstIndex \in [Server -> 0 .. MaxCalls]
    /\ snapshot \in [Server -> State]
    /\ batch \in [Server -> Seq(CallId)]
    /\ \A i \in Server : installing[i] \subseteq [index : CallId, state : State]
    /\ KVDB \in [Server -> Value] /\ LastRequestMap \in [Server -> RequestMap]
    /\ lastIncludedIndex \in [Server -> 0 .. MaxCalls]
    /\ delivered \in [Server -> 0 .. MaxCalls]
    /\ waitChMap \in [Server -> [CallId -> 0 .. MaxCalls]]
    /\ \A ch \in CallId : buffered[ch] \in Seq(Value) /\ Len(buffered[ch]) <= 1
    /\ handlers \in [CallId -> Handler \cup {NoHandler}]
    /\ RequestId \in [Clerk -> 0 .. MaxRequests]
    /\ LeaderId \in [Clerk -> Server]
    /\ op \in [Clerk -> Operation \cup {Idle}]
    /\ call \in [Clerk -> 0 .. MaxCalls] /\ since \in [Clerk -> 0 .. MaxCalls]
    /\ got \in [Clerk -> Value]
    /\ calls \in 0 .. MaxCalls /\ kills \in 0 .. MaxKills

\* The applier of every server has executed exactly the chosen log up to the
\* index it was last handed, each request once, through snapshots, restarts
\* and retried requests.
AppliesTheLog ==
    \A i \in Server : KVDB[i] = ValueAt(delivered[i])

\* The applier never blocks in notifyWaitCh, where it holds kv.mu: a channel
\* it is about to send to has room.
NotifyNeverBlocks ==
    \A i \in Server :
        (batch[i] # <<>> /\ Head(batch[i]) > lastIncludedIndex[i]) =>
            LET k == Head(batch[i])
            IN Waiting(i, k, chosen[k]) => HasRoom(waitChMap[i][k])

\* Which of the operations in progress took effect.
Took == [c \in Clerk |-> op[c] # Idle /\ Executed(Len(chosen), c, op[c].RequestId)]

\* The values the key has had since a clerk made its call.
Seen == [c \in Clerk |-> IF op[c] = Idle THEN {}
                         ELSE {ValueAt(n) : n \in since[c] .. Len(chosen)}]

\* The service is linearizable: it implements one store whose Puts and
\* Appends take effect once between call and return, with Gets that return a
\* value of that time (the clerks' retries, the duplicate filter and the
\* term check of the handlers are what makes it so).
Store == INSTANCE KVStore WITH
    store <- ValueAt(Len(chosen)), pending <- op, effect <- Took, seen <- Seen

Linearizable == Store!Spec
=============================================================================
