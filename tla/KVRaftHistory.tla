--------------------------- MODULE KVRaftHistory ----------------------------
(***************************************************************************)
(* What each step of KVRaft changes: the types it keeps and, where applyCh *)
(* hands messages over in order, the history of the chosen log, the        *)
(* requests in it and the answers the handlers give.                       *)
(***************************************************************************)
EXTENDS KVRaftInvariants, TLAPS

\* The back ends a leaf that names none is given to, in this order.
USE ZenonT(3), SMTT(10), ZenonT(15), SMTT(30)

-----------------------------------------------------------------------------
(* Operators *)

\* Sequences, by index.
LEMMA SeqElement ==
    ASSUME NEW S, NEW s \in Seq(S), NEW n \in 1 .. Len(s)
    PROVE  s[n] \in S
  BY SMT

LEMMA SeqLength ==
    ASSUME NEW S, NEW s \in Seq(S)
    PROVE  Len(s) \in Nat /\ DOMAIN s = 1 .. Len(s)
  BY SMT

LEMMA SeqConcat ==
    ASSUME NEW S, NEW s \in Seq(S), NEW t \in Seq(S)
    PROVE  /\ s \o t \in Seq(S)
           /\ Len(s \o t) = Len(s) + Len(t)
           /\ \A n \in 1 .. (Len(s) + Len(t)) :
                (s \o t)[n] = IF n <= Len(s) THEN s[n] ELSE t[n - Len(s)]
  BY SMT

LEMMA SeqSlice ==
    ASSUME NEW S, NEW s \in Seq(S), NEW m \in Int, NEW n \in Int,
           \A k \in m .. n : s[k] \in S
    PROVE  /\ SubSeq(s, m, n) \in Seq(S)
           /\ Len(SubSeq(s, m, n)) = IF m <= n THEN n - m + 1 ELSE 0
           /\ \A k \in 1 .. n - m + 1 : SubSeq(s, m, n)[k] = s[m + k - 1]
  BY SMT

LEMMA SeqSliceEmpty ==
    ASSUME NEW S, NEW s \in Seq(S), NEW m \in Int, NEW n \in Int, n < m
    PROVE  SubSeq(s, m, n) = <<>>
  BY SMT

LEMMA SeqHeadTail ==
    ASSUME NEW S, NEW s \in Seq(S), s # <<>>
    PROVE  /\ Head(s) \in S /\ Tail(s) \in Seq(S)
           /\ Len(Tail(s)) = Len(s) - 1
           /\ \A n \in 1 .. Len(Tail(s)) : Tail(s)[n] = s[n + 1]
  BY SMT

LEMMA SeqAppend ==
    ASSUME NEW S, NEW s \in Seq(S), NEW e \in S
    PROVE  /\ Append(s, e) \in Seq(S)
           /\ Append(s, e) # <<>>
           /\ Len(Append(s, e)) = Len(s) + 1
           /\ \A n \in 1 .. Len(s) : Append(s, e)[n] = s[n]
           /\ Append(s, e)[Len(s) + 1] = e
  BY SMT

\* Indexes.
LEMMA Before == \A k \in Nat \ {0} : k - 1 \in Nat /\ \A m \in Nat : k <= m => k - 1 <= m
  BY SMT

LEMMA AtMost == \A k, m, n \in Nat : k <= m /\ m <= n => k <= n
  BY SMT

LEMMA Within == \A k \in Nat \ {0}, m \in Nat : k <= m => k \in 1 .. m
  BY SMT

LEMMA SelfAndNext == \A n \in Nat : n <= n /\ n <= n + 1
  BY SMT

-----------------------------------------------------------------------------
(* Types *)

LEMMA SameRaftTypes == RaftTypes /\ UNCHANGED raftVars => RaftTypes'
BY DEF RaftTypes, raftVars

LEMMA SameApplyTypes == ApplyTypes /\ UNCHANGED applyVars => ApplyTypes'
BY DEF ApplyTypes, applyVars

LEMMA SameStateTypes == StateTypes /\ UNCHANGED stateVars => StateTypes'
BY DEF StateTypes, stateVars

LEMMA SameWaitTypes == WaitTypes /\ UNCHANGED waitVars => WaitTypes'
BY DEF WaitTypes, waitVars

LEMMA SameClerkTypes == ClerkTypes /\ UNCHANGED clerkVars => ClerkTypes'
BY DEF ClerkTypes, clerkVars

\* TypeInv for one server, one clerk and one index at a time.
EachTyped ==
    /\ Len(chosen) \in Nat /\ calls \in Nat /\ 0 <= calls
    /\ \A i \in Server :
         /\ term[i] \in Nat /\ Len(log[i]) \in Nat /\ lastApplied[i] \in Nat
         /\ firstIndex[i] \in Nat /\ lastIncludedIndex[i] \in Nat /\ delivered[i] \in Nat
         /\ batch[i] \in Seq(CallId)
         /\ \A n \in 1 .. Len(batch[i]) : batch[i][n] \in Nat
         /\ installing[i] \subseteq Installed
         /\ \A s \in installing[i] : s.index \in Nat
    /\ \A c \in Clerk : RequestId[c] \in Nat /\ call[c] \in Nat /\ since[c] \in Nat

LEMMA CallIds ==
    /\ \A n \in CallId : n \in Nat \ {0} /\ n \in Nat /\ n # 0 /\ n \in 0 .. MaxCalls
    /\ \A n \in 0 .. MaxCalls : n \in Nat /\ (n # 0 => n \in CallId)
  BY SMTT(10), KVAssumption DEF CallId

LEMMA ClerkNumbers ==
    ClerkTypes => \A c \in Clerk : RequestId[c] \in Nat /\ call[c] \in Nat /\ since[c] \in Nat
<1>1. \A n \in 0 .. MaxRequests : n \in Nat
  BY SMTT(10), KVAssumption
<1> QED BY <1>1, CallIds DEF ClerkTypes

LEMMA ClerkNumbersNext ==
    ClerkTypes' => \A c \in Clerk : RequestId'[c] \in Nat /\ call'[c] \in Nat /\ since'[c] \in Nat
<1>1. \A n \in 0 .. MaxRequests : n \in Nat
  BY SMTT(10), KVAssumption
<1> QED BY <1>1, CallIds DEF ClerkTypes

LEMMA TypedEach == TypeInv => EachTyped
<1> SUFFICES ASSUME TypeInv
             PROVE  EachTyped
  OBVIOUS
<1>1. calls \in Nat /\ 0 <= calls
  BY SMTT(10), KVAssumption DEF TypeInv
<1>2. \A n \in 0 .. MaxTerm : n \in Nat
  BY SMTT(10), KVAssumption
<1>3. Len(chosen) \in Nat /\ \A i \in Server : Len(log[i]) \in Nat
  BY SMTT(10) DEF TypeInv, RaftTypes
<1>4. \A i \in Server : term[i] \in Nat /\ lastApplied[i] \in Nat /\ firstIndex[i] \in Nat
  BY <1>2, CallIds DEF TypeInv, RaftTypes, ApplyTypes
<1>5. \A i \in Server : lastIncludedIndex[i] \in Nat /\ delivered[i] \in Nat
  BY CallIds DEF TypeInv, StateTypes
<1>6. \A i \in Server : batch[i] \in Seq(CallId) /\ installing[i] \subseteq Installed
  BY DEF TypeInv, ApplyTypes
<1>7. \A i \in Server : \A n \in 1 .. Len(batch[i]) : batch[i][n] \in Nat
  BY <1>6, SeqElement, CallIds
<1>8. \A i \in Server : \A s \in installing[i] : s.index \in Nat
  BY <1>6, CallIds DEF Installed
<1>9. \A c \in Clerk : RequestId[c] \in Nat /\ call[c] \in Nat /\ since[c] \in Nat
  BY ClerkNumbers DEF TypeInv
<1> QED BY <1>1, <1>3, <1>4, <1>5, <1>6, <1>7, <1>8, <1>9 DEF EachTyped

LEMMA TypedEachNext == TypeInv' => EachTyped'
  BY TypedEach, PTL

LEMMA HandlerFields ==
    ASSUME NEW h \in Handler
    PROVE  /\ h.server \in Server /\ h.clerk \in Clerk /\ h.op \in Operation
           /\ h.index \in 0 .. MaxCalls /\ h.term \in 0 .. MaxTerm /\ h.ch \in 0 .. MaxCalls
           /\ h.pc \in {"sent", "checked", "started", "waits", "leaves"}
           /\ h.value \in Value /\ h # NoHandler
<1>1. /\ h.server \in Server /\ h.clerk \in Clerk /\ h.op \in Operation
      /\ h.index \in 0 .. MaxCalls /\ h.term \in 0 .. MaxTerm /\ h.ch \in 0 .. MaxCalls
      /\ h.pc \in {"sent", "checked", "started", "waits", "leaves"} /\ h.value \in Value
  BY DEF Handler
<1>2. NoHandler.pc = "none"
  BY DEF NoHandler
<1> QED BY <1>1, <1>2

LEMMA NoHandlerIdle == NoHandler.pc = "none" /\ NoHandler.ch = 0 /\ NoHandler.err = ""
BY DEF NoHandler

LEMMA OperationFields ==
    ASSUME NEW o \in Operation
    PROVE  /\ o.OpType \in OpType /\ o.RequestId \in 0 .. (MaxRequests - 1)
           /\ o.RequestId \in Nat /\ MaxRequests \in Nat /\ o # Idle
BY SMTT(10), KVAssumption DEF Operation, Idle

LEMMA WrittenType ==
    ASSUME NEW e \in Entry, NEW value \in Value
    PROVE  Written(e, value) \in Value
<1>1. <<e.ClientId, e.RequestId>> \in Clerk \X (0 .. (MaxRequests - 1))
  BY DEF Entry
<1> DEFINE request == <<e.ClientId, e.RequestId>>
<1> HIDE DEF request
<1>2. <<request>> \in Value /\ Append(value, request) \in Value
  BY SMTT(10), <1>1 DEF Value, request
<1>3. Written(e, value) \in {<<request>>, Append(value, request), value}
  BY DEF Written, request
<1> QED BY <1>2, <1>3

LEMMA NextServerType ==
    ASSUME ClerkTypes, NEW c \in Clerk
    PROVE  NextServer(c) \in Server
<1>1. N \in Nat /\ N > 0 /\ LeaderId[c] + 1 \in Nat
  BY SMTT(10), KVAssumption DEF ClerkTypes, Server
<1> QED BY SMTT(10), <1>1 DEF NextServer, Server

\* What the return of a handler does.
ReplyDoes(h, err, value, c) ==
    /\ c \in Clerk /\ handlers[h] \in Handler
    /\ handlers' = [handlers EXCEPT ![h] = NoHandler] /\ UNCHANGED since
    /\ call[c] # h => UNCHANGED clerkVars
    /\ call[c] = h => /\ handlers[h].op = op[c] /\ op[c] \in Operation
                      /\ op[c].RequestId = RequestId[c]
                      /\ call' = [call EXCEPT ![c] = 0]
    /\ call[c] = h /\ err = "OK" =>
         /\ RequestId' = [RequestId EXCEPT ![c] = RequestId[c] + 1]
         /\ op' = [op EXCEPT ![c] = Idle] /\ UNCHANGED LeaderId
         /\ got' = IF op[c].OpType = "Get" THEN [got EXCEPT ![c] = value] ELSE got
    /\ call[c] = h /\ err # "OK" =>
         /\ LeaderId' = [LeaderId EXCEPT ![c] = NextServer(c)]
         /\ UNCHANGED <<RequestId, op, got>>

LEMMA ReplyEffect ==
    ASSUME TypeInv, ClerksSound, HandlersSound, NEW h \in CallId, handlers[h] # NoHandler,
           NEW err, NEW value \in Value, Reply(h, err, value), NEW c, c = handlers[h].clerk
    PROVE  ReplyDoes(h, err, value, c)
<1>1. handlers[h] \in Handler
  BY DEF TypeInv, HandlerTypes
<1>2. c \in Clerk /\ handlers[h].op \in Operation
  BY <1>1, HandlerFields
<1>3. call[c] = h => /\ handlers[h].op = op[c] /\ op[c] \in Operation
                     /\ op[c].RequestId = RequestId[c]
  <2>1. call[c] = h => handlers[h].op = op[c]
    BY DEF HandlersSound
  <2>2. op[c] # Idle => op[c].RequestId = RequestId[c]
    BY <1>2 DEF ClerksSound
  <2> QED BY <1>2, <2>1, <2>2, OperationFields
<1>4. /\ handlers' = [handlers EXCEPT ![h] = NoHandler]
      /\ IF call[c] # h THEN UNCHANGED clerkVars
         ELSE /\ call' = [call EXCEPT ![c] = 0]
              /\ IF err = "OK"
                 THEN /\ RequestId' = [RequestId EXCEPT ![c] = @ + 1]
                      /\ op' = [op EXCEPT ![c] = Idle]
                      /\ got' = IF op[c].OpType = "Get"
                                THEN [got EXCEPT ![c] = value] ELSE got
                      /\ UNCHANGED <<LeaderId, since>>
                 ELSE /\ LeaderId' = [LeaderId EXCEPT ![c] = NextServer(c)]
                      /\ UNCHANGED <<RequestId, op, since, got>>
  BY DEF Reply
<1>5. UNCHANGED since
  BY <1>4 DEF clerkVars
<1> QED BY <1>1, <1>2, <1>3, <1>4, <1>5 DEF ReplyDoes

LEMMA ReplyTypes ==
    ASSUME TypeInv, ClerksSound, HandlersSound, NEW h \in CallId, handlers[h] # NoHandler,
           NEW err, NEW value \in Value, Reply(h, err, value)
    PROVE  HandlerTypes' /\ ClerkTypes'
<1>0. PICK c : c = handlers[h].clerk
  OBVIOUS
<1>1. ReplyDoes(h, err, value, c)
  BY <1>0, ReplyEffect
<1>2. HandlerTypes'
  <2>1. handlers \in [CallId -> Handler \cup {NoHandler}]
    BY DEF TypeInv, HandlerTypes
  <2> QED BY <1>1, <2>1 DEF HandlerTypes, ReplyDoes
<1>3. ClerkTypes
  BY DEF TypeInv
<1>4. CASE call[c] # h
  <2>1. UNCHANGED clerkVars
    BY <1>1, <1>4 DEF ReplyDoes
  <2> QED BY <1>2, <1>3, <2>1, SameClerkTypes
<1>5. CASE call[c] = h
  <2>1. /\ op[c] \in Operation /\ op[c].RequestId = RequestId[c] /\ UNCHANGED since
        /\ call' = [call EXCEPT ![c] = 0]
    BY <1>1, <1>5 DEF ReplyDoes
  <2>2. call' \in [Clerk -> 0 .. MaxCalls] /\ since' \in [Clerk -> 0 .. MaxCalls]
    <3>1. call \in [Clerk -> 0 .. MaxCalls] /\ since \in [Clerk -> 0 .. MaxCalls]
      BY <1>3 DEF ClerkTypes
    <3>2. 0 \in 0 .. MaxCalls
      BY SMTT(10), KVAssumption
    <3> QED BY <2>1, <3>1, <3>2
  <2>3. CASE err = "OK"
    <3>1. /\ RequestId' = [RequestId EXCEPT ![c] = RequestId[c] + 1]
          /\ op' = [op EXCEPT ![c] = Idle] /\ UNCHANGED LeaderId
          /\ got' = IF op[c].OpType = "Get" THEN [got EXCEPT ![c] = value] ELSE got
      BY <1>1, <1>5, <2>3 DEF ReplyDoes
    <3>2. RequestId[c] + 1 \in 0 .. MaxRequests
      BY SMTT(10), <2>1, OperationFields
    <3>3. RequestId' \in [Clerk -> 0 .. MaxRequests] /\ op' \in [Clerk -> Operation \cup {Idle}]
      BY <1>3, <3>1, <3>2 DEF ClerkTypes
    <3>4. LeaderId' \in [Clerk -> Server] /\ got' \in [Clerk -> Value]
      BY <1>3, <3>1 DEF ClerkTypes
    <3> QED BY <1>2, <2>2, <3>3, <3>4 DEF ClerkTypes
  <2>4. CASE err # "OK"
    <3>1. /\ LeaderId' = [LeaderId EXCEPT ![c] = NextServer(c)]
          /\ UNCHANGED <<RequestId, op, got>>
      BY <1>1, <1>5, <2>4 DEF ReplyDoes
    <3>2. LeaderId' \in [Clerk -> Server]
      BY <1>1, <1>3, <3>1, NextServerType DEF ClerkTypes, ReplyDoes
    <3> QED BY <1>2, <1>3, <2>2, <3>1, <3>2 DEF ClerkTypes
  <2> QED BY <2>3, <2>4
<1> QED BY <1>4, <1>5

\* The types RaftInv is about.
LEMMA LogElements ==
    ASSUME RaftTypes, NEW i \in Server
    PROVE  /\ log[i] \in Seq(Entry) /\ Len(log[i]) \in Nat /\ Len(chosen) \in Nat
           /\ term[i] \in Nat /\ chosen \in Seq(Entry)
           /\ \A n \in 1 .. Len(log[i]) : log[i][n] \in Entry /\ log[i][n].Term \in Nat
           /\ \A n \in 1 .. Len(chosen) : chosen[n] \in Entry /\ chosen[n].Term \in Nat
<1>1. log[i] \in Seq(Entry) /\ chosen \in Seq(Entry) /\ term[i] \in 0 .. MaxTerm
  BY DEF RaftTypes
<1>2. \A e \in Entry : e.Term \in Nat
  <2>1. \A e \in Entry : e.Term \in 1 .. MaxTerm
    BY DEF Entry
  <2> QED BY SMTT(10), <2>1, KVAssumption
<1>3. Len(log[i]) \in Nat /\ Len(chosen) \in Nat
  BY <1>1, SeqLength
<1>4. \A n \in 1 .. Len(log[i]) : log[i][n] \in Entry
  BY <1>1, SeqElement
<1>5. \A n \in 1 .. Len(chosen) : chosen[n] \in Entry
  BY <1>1, SeqElement
<1>6. term[i] \in Nat
  BY SMTT(10), <1>1, KVAssumption
<1> QED BY <1>1, <1>2, <1>3, <1>4, <1>5, <1>6

-----------------------------------------------------------------------------
(* The steps of Raft and of the appliers keep the types *)

LEMMA TypesLeader ==
    ASSUME TypeInv, NEW i \in Server, NEW j \in Server,
           Elect(i) \/ StepDown(i, j) \/ Follow(i, j)
    PROVE  TypeInv'
<1>1. /\ RaftTypes /\ UNCHANGED <<applyVars, stateVars, waitVars, handlers, clerkVars>>
      /\ UNCHANGED <<calls, kills, chosen, values>>
  BY DEF TypeInv, Elect, StepDown, Follow
<1>2. RaftTypes'
  <2>1. CASE Elect(i)
    BY SMTT(10), <1>1, <2>1, KVAssumption DEF RaftTypes, Elect
  <2>2. CASE StepDown(i, j)
    BY <1>1, <2>2 DEF RaftTypes, StepDown
  <2>3. CASE Follow(i, j)
    BY <1>1, <2>3 DEF RaftTypes, Follow
  <2> QED BY <2>1, <2>2, <2>3
<1>3. HandlerTypes'
  BY <1>1 DEF TypeInv, HandlerTypes
<1> QED BY <1>1, <1>2, <1>3, SameApplyTypes, SameStateTypes, SameWaitTypes, SameClerkTypes
        DEF TypeInv

LEMMA TypesChoose ==
    ASSUME TypeInv, LogsBounded, NEW i \in Server, Choose(i)
    PROVE  /\ TypeInv' /\ Len(chosen') = Len(chosen) + 1 /\ Len(values') = Len(chosen')
           /\ Len(chosen) + 1 <= Len(log[i])
           /\ chosen'[Len(chosen) + 1] = log[i][Len(chosen) + 1]
           /\ log[i][Len(chosen) + 1] \in Entry
           /\ \A n \in 1 .. Len(chosen) : chosen'[n] = chosen[n] /\ values'[n] = values[n]
<1> DEFINE e == log[i][Len(chosen) + 1]
           v == ValueAt(Len(chosen))
           w == IF Executed(Len(chosen), e.ClientId, e.RequestId) THEN v ELSE Written(e, v)
<1>1. /\ RaftTypes /\ UNCHANGED <<applyVars, stateVars, waitVars, handlers, clerkVars>>
      /\ UNCHANGED <<calls, kills, term, isLeader, log>>
      /\ chosen' = Append(chosen, e) /\ values' = Append(values, w)
      /\ \E n \in (Len(chosen) + 1) .. Len(log[i]) : log[i][n].Term = term[i]
  BY DEF TypeInv, Choose, RecordChosen
<1>2. /\ chosen \in Seq(Entry) /\ values \in Seq(Value) /\ log[i] \in Seq(Entry)
      /\ Len(values) = Len(chosen) /\ Len(chosen) \in Nat /\ Len(log[i]) \in Nat
  BY SMTT(10), <1>1 DEF RaftTypes, LogsBounded
<1>3. Len(chosen) + 1 <= Len(log[i])
  BY SMTT(10), <1>1, <1>2
<1>4. e \in Entry
  BY SMTT(10), <1>2, <1>3
<1>5. v \in Value
  BY SMTT(10), <1>2 DEF ValueAt, Value
<1>6. w \in Value
  BY <1>4, <1>5, WrittenType
<1> HIDE DEF e, v, w
<1>7. /\ chosen' \in Seq(Entry) /\ values' \in Seq(Value)
      /\ Len(chosen') = Len(chosen) + 1 /\ Len(values') = Len(values) + 1
      /\ chosen'[Len(chosen) + 1] = e
      /\ \A n \in 1 .. Len(chosen) : chosen'[n] = chosen[n] /\ values'[n] = values[n]
  BY SMTT(10), <1>1, <1>2, <1>4, <1>6, SeqAppend
<1>8. RaftTypes' /\ HandlerTypes'
  BY <1>1, <1>7 DEF RaftTypes, HandlerTypes, TypeInv
<1>9. TypeInv'
  BY <1>1, <1>8, SameApplyTypes, SameStateTypes, SameWaitTypes, SameClerkTypes DEF TypeInv
<1> QED BY <1>2, <1>3, <1>4, <1>7, <1>9 DEF e

LEMMA TypesApply ==
    ASSUME TypeInv, LogsBounded, NEW i \in Server, apply(i)
    PROVE  /\ TypeInv' /\ UNCHANGED <<raftVars, firstIndex, snapshot, installing>>
           /\ batch[i] = <<>> /\ lastApplied[i] < lastApplied'[i]
           /\ lastApplied'[i] <= Len(chosen)
           /\ IsPrefix(SubSeq(chosen, 1, lastApplied'[i]), log[i])
           /\ Len(batch'[i]) = lastApplied'[i] - lastApplied[i]
           /\ \A n \in 1 .. Len(batch'[i]) : batch'[i][n] = lastApplied[i] + n
           /\ \A j \in Server : j # i => /\ lastApplied'[j] = lastApplied[j]
                                         /\ batch'[j] = batch[j]
<1>1. /\ ApplyTypes /\ RaftTypes /\ calls \in 0 .. MaxCalls /\ batch[i] = <<>>
      /\ UNCHANGED <<raftVars, stateVars, waitVars, handlers, clerkVars>>
      /\ UNCHANGED <<calls, kills, firstIndex, snapshot, installing>>
  BY DEF TypeInv, apply
<1>2. PICK commit \in (lastApplied[i] + 1) .. Len(chosen) :
         /\ IsPrefix(SubSeq(chosen, 1, commit), log[i])
         /\ batch' = [batch EXCEPT ![i] =
               [n \in 1 .. (commit - lastApplied[i]) |-> lastApplied[i] + n]]
         /\ lastApplied' = [lastApplied EXCEPT ![i] = commit]
  BY DEF apply
<1> DEFINE l == lastApplied[i]
           b == [n \in 1 .. (commit - l) |-> l + n]
<1>3. l \in Nat /\ Len(chosen) \in Nat /\ Len(chosen) <= MaxCalls /\ MaxCalls \in Nat
  BY SMTT(10), <1>1, KVAssumption DEF ApplyTypes, RaftTypes, LogsBounded
<1>4. commit \in 0 .. MaxCalls /\ l < commit /\ commit <= Len(chosen) /\ commit - l \in Nat
  BY SMTT(10), <1>2, <1>3
<1>5. b \in Seq(CallId) /\ Len(b) = commit - l /\ \A n \in 1 .. Len(b) : b[n] = l + n
  <2>1. \A n \in 1 .. (commit - l) : l + n \in CallId
    BY SMTT(30), <1>3, <1>4 DEF CallId
  <2>2. b \in [1 .. (commit - l) -> CallId]
    BY <2>1
  <2>3. b \in Seq(CallId)
    BY SMTT(10), <1>4, <2>2, SeqLength
  <2>4. Len(b) = commit - l
    BY SMTT(10), <1>4, <2>3, SeqLength
  <2> QED BY <2>3, <2>4
<1>6. lastApplied' = [lastApplied EXCEPT ![i] = commit] /\ batch' = [batch EXCEPT ![i] = b]
  BY <1>2
<1> HIDE DEF b
<1>7. /\ lastApplied' \in [Server -> 0 .. MaxCalls] /\ batch' \in [Server -> Seq(CallId)]
      /\ lastApplied'[i] = commit /\ batch'[i] = b
      /\ \A j \in Server : j # i => lastApplied'[j] = lastApplied[j] /\ batch'[j] = batch[j]
  BY <1>1, <1>4, <1>5, <1>6 DEF ApplyTypes
<1>8. ApplyTypes' /\ HandlerTypes'
  BY <1>1, <1>7 DEF ApplyTypes, HandlerTypes, TypeInv
<1>9. TypeInv'
  BY <1>1, <1>8, SameRaftTypes, SameStateTypes, SameWaitTypes, SameClerkTypes DEF TypeInv
<1> QED BY <1>1, <1>2, <1>4, <1>5, <1>7, <1>9

\* The log after InstallSnapshot: the leader's up to the snapshot, then its own.
Spliced(s, t, f) == SubSeq(s, 1, f) \o SubSeq(t, f + 1, Len(t))

LEMMA InstalledLog ==
    ASSUME NEW S, NEW s \in Seq(S), NEW t \in Seq(S), NEW f \in Nat, f <= Len(s)
    PROVE  /\ Spliced(s, t, f) \in Seq(S)
           /\ Len(Spliced(s, t, f)) = IF f <= Len(t) THEN Len(t) ELSE f
           /\ \A n \in 1 .. Len(Spliced(s, t, f)) :
                Spliced(s, t, f)[n] = IF n <= f THEN s[n] ELSE t[n]
<1> DEFINE a == SubSeq(s, 1, f)
           b == SubSeq(t, f + 1, Len(t))
<1>1. /\ a \in Seq(S) /\ Len(a) = f /\ \A n \in 1 .. f : a[n] = s[n]
  <2>1. Len(s) \in Nat
    BY SeqLength
  <2>2. \A n \in 1 .. f : s[n] \in S
    BY SMTT(10), <2>1, SeqElement
  <2> QED BY SMTT(10), <2>1, <2>2, SeqSlice
<1>2. /\ b \in Seq(S) /\ Len(b) = IF f <= Len(t) THEN Len(t) - f ELSE 0
      /\ \A n \in 1 .. Len(b) : b[n] = t[f + n]
  <2>1. Len(t) \in Nat
    BY SeqLength
  <2>2. CASE f + 1 <= Len(t)
    BY SMTT(10), <2>1, <2>2, SeqSlice
  <2>3. CASE ~(f + 1 <= Len(t))
    <3>1. b = <<>>
      BY SMTT(10), <2>1, <2>3, SeqSliceEmpty
    <3> QED BY SMTT(10), <2>1, <2>3, <3>1
  <2> QED BY <2>2, <2>3
<1> HIDE DEF a, b
<1>3. /\ a \o b \in Seq(S) /\ Len(a \o b) = Len(a) + Len(b)
      /\ \A n \in 1 .. (Len(a) + Len(b)) :
           (a \o b)[n] = IF n <= Len(a) THEN a[n] ELSE b[n - Len(a)]
  BY ZenonT(30), <1>1, <1>2, SeqConcat
<1>4. Len(t) \in Nat
  BY SeqLength
<1>5. Len(a \o b) = IF f <= Len(t) THEN Len(t) ELSE f
  BY SMTT(10), <1>1, <1>2, <1>3, <1>4
<1>6. ASSUME NEW n \in 1 .. Len(a \o b)
      PROVE  (a \o b)[n] = IF n <= f THEN s[n] ELSE t[n]
  <2>1. CASE n <= f
    BY SMTT(10), <1>1, <1>2, <1>3, <1>6, <2>1
  <2>2. CASE ~(n <= f)
    <3>1. n - f \in 1 .. Len(b) /\ f + (n - f) = n
      BY SMTT(10), <1>1, <1>2, <1>3, <1>4, <1>6, <2>2
    <3> QED BY <1>1, <1>2, <1>3, <1>6, <2>2, <3>1
  <2> QED BY <2>1, <2>2
<1>7. Spliced(s, t, f) = a \o b
  BY DEF Spliced, a, b
<1> QED BY <1>3, <1>5, <1>6, <1>7

\* What InstallSnapshot changes.
InstallDoes(j, i, f) ==
    /\ IsNewest(i) /\ i # j /\ f \in CallId /\ lastApplied[j] < f
    /\ f <= Len(log[i]) /\ f <= Len(chosen)
    /\ Len(log'[j]) = IF f <= Len(log[j]) THEN Len(log[j]) ELSE f
    /\ \A n \in 1 .. Len(log'[j]) :
         log'[j][n] = IF n <= f THEN log[i][n] ELSE log[j][n]
    /\ \A k \in Server : k # j => log'[k] = log[k]
    /\ term' = [term EXCEPT ![j] = term[i]]
    /\ isLeader' = [isLeader EXCEPT ![j] = FALSE]
    /\ firstIndex' = [firstIndex EXCEPT ![j] = f]
    /\ snapshot' = [snapshot EXCEPT ![j] = snapshot[i]]
    /\ lastApplied' = [lastApplied EXCEPT ![j] = f]
    /\ installing' = [installing EXCEPT ![j] = installing[j] \cup
                        {[index |-> f, state |-> snapshot[i]]}]
    /\ UNCHANGED <<chosen, values, batch, stateVars, waitVars, handlers, clerkVars,
                   calls, kills>>

LEMMA TypesInstall ==
    ASSUME TypeInv, LogsBounded, BatchesInOrder, AppliedIsHeld, NEW j \in Server,
           NEW i \in Server, InstallSnapshot(j, i), NEW f, f = firstIndex[i]
    PROVE  TypeInv' /\ InstallDoes(j, i, f)
<1>1. /\ IsNewest(i) /\ i # j /\ lastApplied[j] < f
      /\ log' = [log EXCEPT ![j] = SubSeq(log[i], 1, f) \o SubSeq(@, f + 1, Len(@))]
      /\ term' = [term EXCEPT ![j] = term[i]]
      /\ isLeader' = [isLeader EXCEPT ![j] = FALSE]
      /\ firstIndex' = [firstIndex EXCEPT ![j] = f]
      /\ snapshot' = [snapshot EXCEPT ![j] = snapshot[i]]
      /\ lastApplied' = [lastApplied EXCEPT ![j] = f]
      /\ installing' = [installing EXCEPT ![j] = installing[j] \cup
                          {[index |-> f, state |-> snapshot[i]]}]
      /\ UNCHANGED <<chosen, values, batch, stateVars, waitVars, handlers, clerkVars,
                     calls, kills>>
  BY DEF InstallSnapshot
<1>2. RaftTypes /\ ApplyTypes
  BY DEF TypeInv
<1>3. /\ log[i] \in Seq(Entry) /\ log[j] \in Seq(Entry) /\ log \in [Server -> Seq(Entry)]
      /\ Len(chosen) \in Nat
  BY SMTT(10), <1>2 DEF RaftTypes
<1>4. f \in 0 .. MaxCalls /\ lastApplied[j] \in Nat /\ lastApplied[i] \in Nat
  BY SMTT(10), <1>2, KVAssumption DEF ApplyTypes
<1>5. f \in CallId /\ f \in Nat
  BY SMTT(10), <1>1, <1>4, KVAssumption DEF CallId
<1>6. f <= Len(log[i]) /\ f <= Len(chosen)
  <2>1. f <= lastApplied[i] /\ lastApplied[i] <= Len(chosen) /\ lastApplied[i] <= Len(log[i])
    BY DEF BatchesInOrder, AppliedIsHeld, Holds
  <2>2. Len(log[i]) \in Nat
    BY SMTT(10), <1>3
  <2> QED BY SMTT(10), <1>3, <1>4, <1>5, <2>1, <2>2
<1>0. PICK r : r = Spliced(log[i], log[j], f)
  OBVIOUS
<1>7. /\ r \in Seq(Entry) /\ Len(r) = IF f <= Len(log[j]) THEN Len(log[j]) ELSE f
      /\ \A n \in 1 .. Len(r) : r[n] = IF n <= f THEN log[i][n] ELSE log[j][n]
  <2>1. PICK s \in Seq(Entry), t \in Seq(Entry) : s = log[i] /\ t = log[j]
    BY <1>3
  <2>2. f \in Nat /\ f <= Len(s) /\ r = Spliced(s, t, f)
    BY <1>0, <1>5, <1>6, <2>1
  <2>3. /\ r \in Seq(Entry) /\ Len(r) = IF f <= Len(t) THEN Len(t) ELSE f
        /\ \A n \in 1 .. Len(r) : r[n] = IF n <= f THEN s[n] ELSE t[n]
    BY <2>2, InstalledLog
  <2> QED BY <2>1, <2>3
<1>8. log' = [log EXCEPT ![j] = r]
  BY <1>0, <1>1 DEF Spliced
<1>9. log' \in [Server -> Seq(Entry)] /\ log'[j] = r /\ \A k \in Server : k # j => log'[k] = log[k]
  BY <1>3, <1>7, <1>8
<1>10. RaftTypes'
  BY <1>1, <1>2, <1>9 DEF RaftTypes
<1>11. ApplyTypes'
  <2>1. [index |-> f, state |-> snapshot[i]] \in Installed
    BY <1>2, <1>5 DEF Installed, ApplyTypes
  <2> QED BY <1>1, <1>2, <1>4, <2>1 DEF ApplyTypes
<1>12. HandlerTypes'
  BY <1>1 DEF TypeInv, HandlerTypes
<1>13. TypeInv'
  BY <1>1, <1>10, <1>11, <1>12, SameStateTypes, SameWaitTypes, SameClerkTypes DEF TypeInv
<1> QED BY <1>1, <1>5, <1>6, <1>7, <1>9, <1>13 DEF InstallDoes

LEMMA ExecuteTypes ==
    ASSUME StateTypes, NEW i \in Server, NEW e \in Entry, execute(i, e)
    PROVE  KVDB' \in [Server -> Value] /\ LastRequestMap' \in [Server -> RequestMap]
<1>1. KVDB \in [Server -> Value] /\ LastRequestMap \in [Server -> RequestMap]
  BY DEF StateTypes
<1>2. e.ClientId \in Clerk /\ e.RequestId \in -1 .. (MaxRequests - 1)
  <2>1. e.ClientId \in Clerk /\ e.RequestId \in 0 .. (MaxRequests - 1)
    BY DEF Entry
  <2> QED BY SMTT(10), <2>1, KVAssumption
<1>3. CASE Ignored(i, e)
  BY <1>1, <1>3 DEF execute
<1>4. CASE ~Ignored(i, e)
  <2> DEFINE r == IF LastRequestMap[i][e.ClientId] < e.RequestId THEN e.RequestId
                  ELSE LastRequestMap[i][e.ClientId]
  <2>1. /\ KVDB' = [KVDB EXCEPT ![i] = Written(e, KVDB[i])]
        /\ LastRequestMap' = [LastRequestMap EXCEPT ![i] =
                                [LastRequestMap[i] EXCEPT ![e.ClientId] = r]]
    BY <1>1, <1>4 DEF execute
  <2>2. Written(e, KVDB[i]) \in Value
    BY <1>1, WrittenType
  <2>3. LastRequestMap[i] \in RequestMap
    BY <1>1
  <2>4. r \in -1 .. (MaxRequests - 1)
    BY <1>2, <2>3 DEF RequestMap
  <2> HIDE DEF r
  <2>5. [LastRequestMap[i] EXCEPT ![e.ClientId] = r] \in RequestMap
    BY <2>3, <2>4 DEF RequestMap
  <2> QED BY <1>1, <2>1, <2>2, <2>5
<1> QED BY <1>3, <1>4

\* What the applier does with the next command.
CommandDoes(i, k) ==
    /\ k \in CallId /\ k <= lastApplied[i] /\ k <= Len(chosen)
    /\ chosen[k] \in Entry /\ k = batch[i][1] /\ Len(batch[i]) \in Nat \ {0}
    /\ Len(batch'[i]) = Len(batch[i]) - 1
    /\ \A n \in 1 .. Len(batch'[i]) : batch'[i][n] = batch[i][n + 1]
    /\ \A j \in Server : j # i => batch'[j] = batch[j]
    /\ UNCHANGED <<raftVars, lastApplied, installing, waitChMap, handlers,
                   clerkVars, calls, kills>>
    /\ \/ UNCHANGED buffered
       \/ /\ Waiting(i, k, chosen[k]) /\ k > lastIncludedIndex[i]
          /\ waitChMap[i][k] \in CallId /\ buffered[waitChMap[i][k]] = <<>>
          /\ buffered' = [buffered EXCEPT ![waitChMap[i][k]] = <<KVDB[i]>>]
    /\ \/ UNCHANGED <<firstIndex, snapshot>>
       \/ /\ firstIndex' = [firstIndex EXCEPT ![i] = k] /\ k > lastIncludedIndex[i]
          /\ snapshot' = [snapshot EXCEPT ![i] =
               [KVDB |-> KVDB'[i], LastRequestMap |-> LastRequestMap'[i]]]
    /\ k <= lastIncludedIndex[i] => UNCHANGED stateVars
    /\ k > lastIncludedIndex[i] =>
         /\ execute(i, chosen[k])
         /\ lastIncludedIndex' = [lastIncludedIndex EXCEPT ![i] = k]
         /\ delivered' = [delivered EXCEPT ![i] = k]

LEMMA TypesCommand ==
    ASSUME TypeInv, BatchesInOrder, NEW i \in Server, ApplyCommand(i),
           NEW k, k = Head(batch[i])
    PROVE  TypeInv' /\ CommandDoes(i, k)
<1>1. /\ RaftTypes /\ ApplyTypes /\ StateTypes /\ WaitTypes
      /\ calls \in 0 .. MaxCalls /\ kills \in 0 .. MaxKills
  BY DEF TypeInv
<1>2. /\ batch[i] # <<>> /\ batch' = [batch EXCEPT ![i] = Tail(batch[i])]
      /\ UNCHANGED <<raftVars, lastApplied, installing, waitChMap, handlers,
                     clerkVars, calls, kills>>
  BY DEF ApplyCommand
<1>3. batch \in [Server -> Seq(CallId)] /\ batch[i] \in Seq(CallId)
  BY <1>1 DEF ApplyTypes
<1>4. /\ k = batch[i][1] /\ k \in CallId /\ Len(batch[i]) \in Nat \ {0}
      /\ Tail(batch[i]) \in Seq(CallId) /\ Len(Tail(batch[i])) = Len(batch[i]) - 1
      /\ \A n \in 1 .. Len(Tail(batch[i])) : Tail(batch[i])[n] = batch[i][n + 1]
  BY SMTT(10), <1>2, <1>3, SeqHeadTail
<1>5. /\ batch' \in [Server -> Seq(CallId)] /\ batch'[i] = Tail(batch[i])
      /\ \A j \in Server : j # i => batch'[j] = batch[j]
  BY <1>2, <1>3, <1>4
<1>6. k <= lastApplied[i] /\ lastApplied[i] <= Len(chosen) /\ lastApplied[i] \in Nat
  BY SMTT(10), <1>1, <1>4 DEF BatchesInOrder, ApplyTypes
<1>7. chosen \in Seq(Entry) /\ Len(chosen) \in Nat
  BY SMTT(10), <1>1 DEF RaftTypes
<1>8. k <= Len(chosen) /\ chosen[k] \in Entry /\ k \in 0 .. MaxCalls
  BY SMTT(10), <1>4, <1>6, <1>7 DEF CallId
<1>9. lastIncludedIndex[i] \in 0 .. MaxCalls
  BY <1>1 DEF StateTypes
<1>10. CASE k <= lastIncludedIndex[i]
  <2>1. UNCHANGED <<stateVars, buffered, firstIndex, snapshot>>
    BY <1>10 DEF ApplyCommand
  <2>2. ApplyTypes' /\ WaitTypes' /\ HandlerTypes'
    BY <1>1, <1>2, <1>5, <2>1 DEF ApplyTypes, WaitTypes, HandlerTypes, TypeInv
  <2>3. TypeInv'
    BY <1>1, <1>2, <2>1, <2>2, SameRaftTypes, SameStateTypes, SameClerkTypes DEF TypeInv
  <2>4. ~(k > lastIncludedIndex[i])
    BY SMTT(10), <1>8, <1>9, <1>10
  <2> QED BY <1>2, <1>4, <1>5, <1>6, <1>8, <2>1, <2>3, <2>4 DEF CommandDoes
<1>11. CASE k > lastIncludedIndex[i]
  <2>1. /\ execute(i, chosen[k]) /\ notifyWaitCh(i, k, chosen[k]) /\ MaybeSnapshot(i, k)
        /\ lastIncludedIndex' = [lastIncludedIndex EXCEPT ![i] = k]
        /\ delivered' = [delivered EXCEPT ![i] = k]
    <3>1. ~(k <= lastIncludedIndex[i])
      BY SMTT(10), <1>8, <1>9, <1>11
    <3> QED BY <3>1 DEF ApplyCommand
  <2>2. KVDB' \in [Server -> Value] /\ LastRequestMap' \in [Server -> RequestMap]
    BY <1>1, <1>8, <2>1, ExecuteTypes
  <2>3. StateTypes'
    BY <1>1, <1>8, <2>1, <2>2 DEF StateTypes
  <2>4. \/ UNCHANGED buffered
        \/ /\ Waiting(i, k, chosen[k]) /\ waitChMap[i][k] \in CallId
           /\ buffered[waitChMap[i][k]] = <<>>
           /\ buffered' = [buffered EXCEPT ![waitChMap[i][k]] = <<KVDB[i]>>]
    <3>1. waitChMap[i][k] \in 0 .. MaxCalls
      BY <1>1, <1>4 DEF WaitTypes
    <3>2. waitChMap[i][k] # 0 => waitChMap[i][k] \in CallId
      BY SMTT(10), <3>1, KVAssumption DEF CallId
    <3> QED BY <2>1, <3>2 DEF notifyWaitCh, HasRoom, Waiting
  <2>5. WaitTypes'
    <3>1. <<KVDB[i]>> \in Seq(Value) /\ Len(<<KVDB[i]>>) <= 1
      BY SMTT(10), <1>1 DEF StateTypes
    <3>2. UNCHANGED waitChMap
      BY <1>2
    <3> QED BY <1>1, <2>4, <3>1, <3>2 DEF WaitTypes
  <2>6. \/ UNCHANGED <<firstIndex, snapshot>>
        \/ /\ firstIndex' = [firstIndex EXCEPT ![i] = k]
           /\ snapshot' = [snapshot EXCEPT ![i] =
                [KVDB |-> KVDB'[i], LastRequestMap |-> LastRequestMap'[i]]]
    BY <2>1 DEF MaybeSnapshot, encodeState
  <2>7. ApplyTypes'
    <3>1. [KVDB |-> KVDB'[i], LastRequestMap |-> LastRequestMap'[i]] \in State
      BY <2>2 DEF State
    <3>2. firstIndex' \in [Server -> 0 .. MaxCalls] /\ snapshot' \in [Server -> State]
      BY ZenonT(30), <1>1, <1>8, <2>6, <3>1 DEF ApplyTypes
    <3> QED BY <1>1, <1>2, <1>5, <3>2 DEF ApplyTypes
  <2>8. HandlerTypes'
    BY <1>2 DEF TypeInv, HandlerTypes
  <2>9. TypeInv'
    BY <1>1, <1>2, <2>3, <2>5, <2>7, <2>8, SameRaftTypes, SameClerkTypes DEF TypeInv
  <2>10. ~(k <= lastIncludedIndex[i])
    BY SMTT(10), <1>8, <1>9, <1>11
  <2> QED BY <1>2, <1>4, <1>5, <1>6, <1>8, <1>11, <2>1, <2>4, <2>6, <2>9, <2>10
         DEF CommandDoes
<1>12. k <= lastIncludedIndex[i] \/ k > lastIncludedIndex[i]
  BY SMTT(10), <1>8, <1>9
<1> QED BY <1>10, <1>11, <1>12

LEMMA TypesSnapshot ==
    ASSUME TypeInv, NEW i \in Server, NEW s \in installing[i], ApplySnapshot(i, s)
    PROVE  /\ TypeInv' /\ s \in Installed
           /\ installing' = [installing EXCEPT ![i] = installing[i] \ {s}]
           /\ UNCHANGED <<raftVars, lastApplied, firstIndex, snapshot, batch, waitVars,
                          handlers, clerkVars, calls, kills>>
           /\ s.index <= lastIncludedIndex[i] => UNCHANGED stateVars
           /\ s.index > lastIncludedIndex[i] =>
                /\ KVDB' = [KVDB EXCEPT ![i] = s.state.KVDB]
                /\ LastRequestMap' = [LastRequestMap EXCEPT ![i] = s.state.LastRequestMap]
                /\ lastIncludedIndex' = [lastIncludedIndex EXCEPT ![i] = 0]
                /\ delivered' = [delivered EXCEPT ![i] = s.index]
<1>1. ApplyTypes /\ StateTypes
  BY DEF TypeInv
<1>2. /\ installing' = [installing EXCEPT ![i] = installing[i] \ {s}]
      /\ UNCHANGED <<raftVars, lastApplied, firstIndex, snapshot, batch, waitVars,
                     handlers, clerkVars, calls, kills>>
  BY DEF ApplySnapshot
<1>3. s \in Installed
  BY <1>1 DEF ApplyTypes
<1>4. /\ s.index \in CallId /\ s.index \in 0 .. MaxCalls /\ lastIncludedIndex[i] \in 0 .. MaxCalls
      /\ s.state.KVDB \in Value /\ s.state.LastRequestMap \in RequestMap
  <2>1. s.index \in CallId /\ s.state \in State
    BY <1>3 DEF Installed
  <2>2. s.state.KVDB \in Value /\ s.state.LastRequestMap \in RequestMap
    BY <2>1 DEF State
  <2>3. lastIncludedIndex[i] \in 0 .. MaxCalls
    BY <1>1 DEF StateTypes
  <2> QED BY SMTT(10), <2>1, <2>2, <2>3 DEF CallId
<1>5. s.index <= lastIncludedIndex[i] => UNCHANGED stateVars
  BY DEF ApplySnapshot
<1>6. s.index > lastIncludedIndex[i] =>
        /\ KVDB' = [KVDB EXCEPT ![i] = s.state.KVDB]
        /\ LastRequestMap' = [LastRequestMap EXCEPT ![i] = s.state.LastRequestMap]
        /\ lastIncludedIndex' = [lastIncludedIndex EXCEPT ![i] = 0]
        /\ delivered' = [delivered EXCEPT ![i] = s.index]
  <2>1. s.index > lastIncludedIndex[i] => ~(s.index <= lastIncludedIndex[i])
    BY SMTT(10), <1>4
  <2> QED BY <2>1 DEF ApplySnapshot
<1>7. StateTypes'
  <2>1. CASE s.index <= lastIncludedIndex[i]
    BY <1>1, <1>5, <2>1, SameStateTypes
  <2>2. CASE s.index > lastIncludedIndex[i]
    <3>1. 0 \in 0 .. MaxCalls
      BY SMTT(10), KVAssumption
    <3> QED BY SMTT(10), <1>1, <1>4, <1>6, <2>2, <3>1 DEF StateTypes
  <2>3. s.index <= lastIncludedIndex[i] \/ s.index > lastIncludedIndex[i]
    BY SMTT(10), <1>4
  <2> QED BY <2>1, <2>2, <2>3
<1>8. ApplyTypes' /\ HandlerTypes'
  BY <1>1, <1>2 DEF ApplyTypes, HandlerTypes, TypeInv
<1>9. TypeInv'
  BY <1>2, <1>7, <1>8, SameRaftTypes, SameWaitTypes, SameClerkTypes DEF TypeInv
<1> QED BY <1>2, <1>3, <1>5, <1>6, <1>9

\* What a restart leaves: the snapshot, and requests that have not arrived.
LEMMA TypesRestart ==
    ASSUME TypeInv, NEW i \in Server, Restart(i)
    PROVE  /\ TypeInv' /\ UNCHANGED <<term, log, chosen, values, firstIndex, snapshot,
                                      buffered, clerkVars, calls>>
           /\ isLeader' = [isLeader EXCEPT ![i] = FALSE]
           /\ lastApplied' = [lastApplied EXCEPT ![i] = firstIndex[i]]
           /\ batch' = [batch EXCEPT ![i] = <<>>]
           /\ installing' = [installing EXCEPT ![i] = {}]
           /\ KVDB' = [KVDB EXCEPT ![i] = snapshot[i].KVDB]
           /\ LastRequestMap' = [LastRequestMap EXCEPT ![i] = snapshot[i].LastRequestMap]
           /\ lastIncludedIndex' = [lastIncludedIndex EXCEPT ![i] = 0]
           /\ delivered' = [delivered EXCEPT ![i] = firstIndex[i]]
           /\ \A k \in CallId : waitChMap'[i][k] = 0
           /\ \A j \in Server : j # i => waitChMap'[j] = waitChMap[j]
           /\ \A h \in CallId :
                handlers'[h] = IF handlers[h].server = i /\ handlers[h].pc # "sent"
                               THEN NoHandler ELSE handlers[h]
<1>1. /\ RaftTypes /\ ApplyTypes /\ StateTypes /\ WaitTypes /\ HandlerTypes /\ ClerkTypes
      /\ calls \in 0 .. MaxCalls /\ kills \in 0 .. MaxKills
  BY DEF TypeInv
<1>2. /\ UNCHANGED <<term, log, chosen, values, firstIndex, snapshot, buffered, clerkVars, calls>>
      /\ kills < MaxKills /\ kills' = kills + 1
      /\ isLeader' = [isLeader EXCEPT ![i] = FALSE]
      /\ lastApplied' = [lastApplied EXCEPT ![i] = firstIndex[i]]
      /\ batch' = [batch EXCEPT ![i] = <<>>]
      /\ installing' = [installing EXCEPT ![i] = {}]
      /\ KVDB' = [KVDB EXCEPT ![i] = snapshot[i].KVDB]
      /\ LastRequestMap' = [LastRequestMap EXCEPT ![i] = snapshot[i].LastRequestMap]
      /\ lastIncludedIndex' = [lastIncludedIndex EXCEPT ![i] = 0]
      /\ delivered' = [delivered EXCEPT ![i] = firstIndex[i]]
      /\ waitChMap' = [waitChMap EXCEPT ![i] = [k \in DOMAIN waitChMap[i] |-> 0]]
      /\ handlers' = [h \in DOMAIN handlers |->
                        IF handlers[h].server = i /\ handlers[h].pc # "sent"
                        THEN NoHandler ELSE handlers[h]]
  BY DEF Restart
<1>3. 0 \in 0 .. MaxCalls
  BY SMTT(10), KVAssumption
<1>4. RaftTypes'
  BY <1>1, <1>2 DEF RaftTypes
<1>5. ApplyTypes'
  <2>1. <<>> \in Seq(CallId)
    BY SMTT(10)
  <2> QED BY <1>1, <1>2, <2>1 DEF ApplyTypes
<1>6. StateTypes'
  <2>1. snapshot[i].KVDB \in Value /\ snapshot[i].LastRequestMap \in RequestMap
    BY <1>1 DEF ApplyTypes, State
  <2>2. firstIndex[i] \in 0 .. MaxCalls
    BY <1>1 DEF ApplyTypes
  <2> QED BY <1>1, <1>2, <1>3, <2>1, <2>2 DEF StateTypes
<1>7. /\ waitChMap' \in [Server -> [CallId -> 0 .. MaxCalls]]
      /\ \A k \in CallId : waitChMap'[i][k] = 0
      /\ \A j \in Server : j # i => waitChMap'[j] = waitChMap[j]
  <2>1. waitChMap \in [Server -> [CallId -> 0 .. MaxCalls]] /\ DOMAIN waitChMap[i] = CallId
    BY <1>1 DEF WaitTypes
  <2>2. [k \in DOMAIN waitChMap[i] |-> 0] \in [CallId -> 0 .. MaxCalls]
    BY <1>3, <2>1
  <2> QED BY <1>2, <2>1, <2>2
<1>8. WaitTypes'
  BY <1>1, <1>2, <1>7 DEF WaitTypes
<1>9. /\ handlers' \in [CallId -> Handler \cup {NoHandler}]
      /\ \A h \in CallId :
           handlers'[h] = IF handlers[h].server = i /\ handlers[h].pc # "sent"
                          THEN NoHandler ELSE handlers[h]
  <2>1. handlers \in [CallId -> Handler \cup {NoHandler}] /\ DOMAIN handlers = CallId
    BY <1>1 DEF HandlerTypes
  <2>2. \A h \in CallId : handlers'[h] = IF handlers[h].server = i /\ handlers[h].pc # "sent"
                                         THEN NoHandler ELSE handlers[h]
    BY <1>2, <2>1
  <2> QED BY <1>2, <2>1, <2>2
<1>10. kills' \in 0 .. MaxKills /\ calls' \in 0 .. MaxCalls
  BY SMTT(10), <1>1, <1>2, KVAssumption
<1>11. HandlerTypes' /\ ClerkTypes'
  BY <1>1, <1>2, <1>9, SameClerkTypes DEF HandlerTypes
<1>12. TypeInv'
  BY <1>4, <1>5, <1>6, <1>8, <1>10, <1>11 DEF TypeInv
<1> QED BY <1>2, <1>7, <1>9, <1>12

-----------------------------------------------------------------------------
(* The steps of the clerks and of the handlers keep the types *)

\* What becomes of the record of a handler from one step to the next.
SentTo(i, c, o) == [NoHandler EXCEPT !.server = i, !.clerk = c, !.op = o, !.pc = "sent"]
StartedAt(h, t, n) == [h EXCEPT !.pc = "started", !.term = t, !.index = n]
WaitingOn(h, ch) == [h EXCEPT !.pc = "waits", !.ch = ch]
LeavingWith(h, err, value) == [h EXCEPT !.pc = "leaves", !.err = err, !.value = value]

LEMMA SentHandler ==
    ASSUME NEW i \in Server, NEW c \in Clerk, NEW o \in Operation, NEW g, g = SentTo(i, c, o)
    PROVE  /\ g \in Handler
           /\ g.server = i /\ g.clerk = c /\ g.op = o /\ g.pc = "sent"
<1> DEFINE Shape == [server : Server \cup {-1}, clerk : Clerk \cup {None},
                   op : Operation \cup {Idle}, index : 0 .. MaxCalls,
                   pc : {"sent", "checked", "started", "waits", "leaves", "none"},
                   term : 0 .. MaxTerm, ch : 0 .. MaxCalls,
                   err : {"", "OK", "ErrWrongLeader"}, value : Value]
<1>1. 0 \in 0 .. MaxCalls /\ 0 \in 0 .. MaxTerm /\ <<>> \in Value
  BY SMT, KVAssumption DEF Value
<1>2. NoHandler \in Shape
  BY ZenonT(20), <1>1 DEF NoHandler
<1>3. g \in Handler
  BY Zenon, <1>2 DEF Handler, SentTo
<1>4. g.server = i /\ g.clerk = c /\ g.op = o /\ g.pc = "sent"
  BY SMT DEF NoHandler, SentTo
<1> QED BY <1>3, <1>4

LEMMA CheckedHandler ==
    ASSUME NEW h \in Handler
    PROVE  \E g \in Handler :
             /\ g = [h EXCEPT !.pc = "checked"] /\ g.pc = "checked"
             /\ g.server = h.server /\ g.clerk = h.clerk /\ g.op = h.op /\ g.err = h.err
<1> DEFINE g == [h EXCEPT !.pc = "checked"]
<1>1. g \in Handler
  BY DEF Handler
<1>2. /\ g.pc = "checked"
      /\ g.server = h.server /\ g.clerk = h.clerk /\ g.op = h.op /\ g.err = h.err
  BY DEF Handler
<1> QED BY <1>1, <1>2

LEMMA StartedHandler ==
    ASSUME NEW h \in Handler, NEW n \in 0 .. MaxCalls, NEW t \in 0 .. MaxTerm, NEW g, g = StartedAt(h, t, n)
    PROVE  /\ g \in Handler
           /\ g.pc = "started" /\ g.term = t /\ g.index = n
           /\ g.server = h.server /\ g.clerk = h.clerk /\ g.op = h.op
<1>1. g \in Handler
  BY DEF Handler, StartedAt
<1> QED BY <1>1 DEF Handler, StartedAt

LEMMA WaitingHandler ==
    ASSUME NEW h \in Handler, NEW ch \in 0 .. MaxCalls, NEW g, g = WaitingOn(h, ch)
    PROVE  /\ g \in Handler
           /\ g.pc = "waits" /\ g.ch = ch
           /\ g.server = h.server /\ g.clerk = h.clerk /\ g.op = h.op
           /\ g.index = h.index /\ g.term = h.term
<1>1. g \in Handler
  BY DEF Handler, WaitingOn
<1> QED BY <1>1 DEF Handler, WaitingOn

LEMMA LeavingHandler ==
    ASSUME NEW h \in Handler, NEW err \in {"OK", "ErrWrongLeader"},
           NEW value \in Value, NEW g, g = LeavingWith(h, err, value)
    PROVE  /\ g \in Handler
           /\ g.pc = "leaves" /\ g.err = err /\ g.value = value
           /\ g.server = h.server /\ g.clerk = h.clerk /\ g.op = h.op
           /\ g.index = h.index /\ g.term = h.term
<1>1. g \in Handler
  BY DEF Handler, LeavingWith
<1> QED BY <1>1 DEF Handler, LeavingWith

LEMMA OneHandlerChanges ==
    ASSUME HandlerTypes, NEW h \in CallId, NEW g \in Handler \cup {NoHandler},
           handlers' = [handlers EXCEPT ![h] = g]
    PROVE  /\ HandlerTypes' /\ handlers'[h] = g
           /\ \A x \in CallId : x # h => handlers'[x] = handlers[x]
BY DEF HandlerTypes

\* What a call of a clerk, or its retry, does.
SendDoes(c, n) ==
    /\ n \in CallId /\ calls' = n /\ handlers[n] = NoHandler
    /\ \E o \in Operation, g \in Handler :
         /\ o.RequestId = RequestId[c] /\ op' = [op EXCEPT ![c] = o]
         /\ op[c] = Idle \/ op[c] = o
         /\ handlers' = [handlers EXCEPT ![n] = g]
         /\ g.server = LeaderId[c] /\ g.clerk = c /\ g.op = o /\ g.pc = "sent"
    /\ call' = [call EXCEPT ![c] = n]
    /\ op[c] = Idle => since' = [since EXCEPT ![c] = Len(chosen)]
    /\ op[c] # Idle => UNCHANGED since
    /\ UNCHANGED <<raftVars, applyVars, stateVars, waitVars, RequestId,
                   LeaderId, got, kills>>

LEMMA TypesSend ==
    ASSUME TypeInv, LogsBounded, ClerksSound, HandlersSound, NEW c \in Clerk,
           (\E type \in OpType : Call(c, type)) \/ Retry(c), NEW n, n = calls + 1
    PROVE  TypeInv' /\ SendDoes(c, n)
<1>1. /\ ClerkTypes /\ HandlerTypes /\ RaftTypes
      /\ calls \in 0 .. MaxCalls /\ kills \in 0 .. MaxKills
  BY DEF TypeInv
<1>2. PICK o :
        /\ op' = [op EXCEPT ![c] = o] /\ o \in Operation /\ o.RequestId = RequestId[c]
        /\ op[c] = Idle \/ op[c] = o
        /\ calls < MaxCalls /\ calls' = calls + 1 /\ call' = [call EXCEPT ![c] = calls + 1]
        /\ handlers' = [handlers EXCEPT ![calls + 1] =
              [NoHandler EXCEPT !.server = LeaderId[c], !.clerk = c, !.op = o, !.pc = "sent"]]
  <2>1. ASSUME NEW type \in OpType, Call(c, type)
        PROVE  /\ op' = [op EXCEPT ![c] = op'[c]] /\ op'[c] \in Operation
               /\ op'[c].RequestId = RequestId[c] /\ op[c] = Idle /\ SendTo(c, op'[c])
    <3>1. /\ op' = [op EXCEPT ![c] = [OpType |-> type, RequestId |-> RequestId[c]]]
          /\ op[c] = Idle /\ RequestId[c] < MaxRequests /\ SendTo(c, op'[c])
      BY <2>1 DEF Call
    <3>2. op'[c] = [OpType |-> type, RequestId |-> RequestId[c]]
      BY <1>1, <3>1 DEF ClerkTypes
    <3>3. RequestId[c] \in 0 .. (MaxRequests - 1)
      BY SMTT(10), <1>1, <3>1, KVAssumption DEF ClerkTypes
    <3>4. op'[c] \in Operation /\ op'[c].RequestId = RequestId[c]
      BY SMTT(10), <3>2, <3>3 DEF Operation
    <3> QED BY <3>1, <3>2, <3>4
  <2>2. ASSUME Retry(c)
        PROVE  /\ op' = [op EXCEPT ![c] = op'[c]] /\ op'[c] \in Operation
               /\ op'[c].RequestId = RequestId[c] /\ op[c] = op'[c] /\ SendTo(c, op'[c])
    <3>1. op' = op /\ op[c] # Idle /\ SendTo(c, op[c])
      BY <2>2 DEF Retry
    <3>2. op'[c] = op[c] /\ op[c] \in Operation /\ op' = [op EXCEPT ![c] = op[c]]
      BY <1>1, <3>1 DEF ClerkTypes
    <3>3. op[c].RequestId = RequestId[c]
      BY <3>1 DEF ClerksSound
    <3> QED BY <3>1, <3>2, <3>3
  <2>3. /\ op' = [op EXCEPT ![c] = op'[c]] /\ op'[c] \in Operation
        /\ op'[c].RequestId = RequestId[c] /\ (op[c] = Idle \/ op[c] = op'[c])
        /\ SendTo(c, op'[c])
    BY <2>1, <2>2
  <2> QED BY <2>3 DEF SendTo
<1>3. n \in CallId /\ calls' \in 0 .. MaxCalls /\ n \in 0 .. MaxCalls
  BY SMTT(10), <1>1, <1>2, KVAssumption DEF CallId
<1>4. LeaderId[c] \in Server
  BY <1>1 DEF ClerkTypes
<1>5. PICK g : g = SentTo(LeaderId[c], c, o)
  OBVIOUS
<1>51. /\ g \in Handler
       /\ g.server = LeaderId[c] /\ g.clerk = c /\ g.op = o /\ g.pc = "sent"
  BY SMTT(10), <1>2, <1>4, <1>5, SentHandler
<1>6. handlers' = [handlers EXCEPT ![n] = g] /\ call' = [call EXCEPT ![c] = n] /\ calls' = n
  BY <1>2, <1>5 DEF SentTo
<1>7. HandlerTypes'
  BY <1>1, <1>3, <1>51, <1>6, OneHandlerChanges
<1>8. handlers[n] = NoHandler
  <2>1. n > calls
    BY SMTT(10), <1>1
  <2> QED BY <1>3, <2>1 DEF HandlersSound
<1>9. /\ op[c] = Idle => since' = [since EXCEPT ![c] = Len(chosen)]
      /\ op[c] # Idle => UNCHANGED since
      /\ UNCHANGED <<raftVars, applyVars, stateVars, waitVars, RequestId, LeaderId, got, kills>>
  BY DEF Call, Retry
<1>10. ClerkTypes'
  <2>1. Len(chosen) \in 0 .. MaxCalls
    BY SMTT(10), <1>1, KVAssumption DEF LogsBounded, RaftTypes
  <2>2. since' \in [Clerk -> 0 .. MaxCalls]
    BY <1>1, <1>9, <2>1 DEF ClerkTypes
  <2>3. call' \in [Clerk -> 0 .. MaxCalls] /\ op' \in [Clerk -> Operation \cup {Idle}]
    BY <1>1, <1>2, <1>3, <1>6 DEF ClerkTypes
  <2> QED BY <1>1, <1>9, <2>2, <2>3 DEF ClerkTypes
<1>11. TypeInv'
  BY <1>1, <1>3, <1>7, <1>9, <1>10, SameRaftTypes, SameApplyTypes, SameStateTypes,
     SameWaitTypes DEF TypeInv
<1> QED BY <1>2, <1>3, <1>51, <1>6, <1>8, <1>9, <1>11 DEF SendDoes

LEMMA TypesFails ==
    ASSUME TypeInv, NEW c \in Clerk, CallFails(c)
    PROVE  /\ TypeInv' /\ call' = [call EXCEPT ![c] = 0]
           /\ UNCHANGED <<raftVars, applyVars, stateVars, waitVars, handlers,
                          RequestId, op, since, got, calls, kills>>
<1>1. ClerkTypes /\ HandlerTypes
  BY DEF TypeInv
<1>2. /\ call' = [call EXCEPT ![c] = 0] /\ LeaderId' = [LeaderId EXCEPT ![c] = NextServer(c)]
      /\ UNCHANGED <<raftVars, applyVars, stateVars, waitVars, handlers,
                     RequestId, op, since, got, calls, kills>>
  BY DEF CallFails
<1>3. LeaderId' \in [Clerk -> Server]
  BY <1>1, <1>2, NextServerType DEF ClerkTypes
<1>4. call' \in [Clerk -> 0 .. MaxCalls]
  <2>1. 0 \in 0 .. MaxCalls
    BY SMTT(10), KVAssumption
  <2> QED BY <1>1, <1>2, <2>1 DEF ClerkTypes
<1>5. ClerkTypes'
  BY <1>1, <1>2, <1>3, <1>4 DEF ClerkTypes
<1>6. HandlerTypes'
  BY <1>1, <1>2 DEF HandlerTypes
<1>7. TypeInv'
  BY <1>2, <1>5, <1>6, SameRaftTypes, SameApplyTypes, SameStateTypes, SameWaitTypes
     DEF TypeInv
<1> QED BY <1>2, <1>7

\* A handler that exists, and its fields.
LEMMA RunningHandler ==
    ASSUME TypeInv, NEW h \in CallId, handlers[h].pc # "none"
    PROVE  /\ handlers[h] \in Handler /\ handlers[h] # NoHandler
           /\ handlers[h].server \in Server /\ handlers[h].clerk \in Clerk
           /\ handlers[h].op \in Operation /\ handlers[h].index \in 0 .. MaxCalls
           /\ handlers[h].ch \in 0 .. MaxCalls /\ handlers[h].value \in Value
<1>1. handlers[h] \in Handler
  BY NoHandlerIdle DEF TypeInv, HandlerTypes
<1> QED BY <1>1, HandlerFields

\* PutAppend goes on, or answers a request that was executed.
LEMMA TypesCheck ==
    ASSUME TypeInv, ClerksSound, HandlersSound, NEW h \in CallId, CheckRequest(h)
    PROVE  /\ TypeInv' /\ handlers[h].pc = "sent" /\ handlers[h].op.OpType # "Get"
           /\ UNCHANGED <<raftVars, applyVars, stateVars, waitVars, calls, kills>>
           /\ \/ /\ isInvalidRequest(handlers[h].server, handlers[h].clerk,
                                     handlers[h].op.RequestId)
                 /\ Reply(h, "OK", <<>>)
              \/ /\ UNCHANGED clerkVars
                 /\ \E g \in Handler :
                      /\ handlers' = [handlers EXCEPT ![h] = g] /\ g.pc = "checked"
                      /\ g.server = handlers[h].server /\ g.clerk = handlers[h].clerk
                      /\ g.op = handlers[h].op
<1>1. /\ handlers[h].pc = "sent" /\ handlers[h].op.OpType # "Get"
      /\ UNCHANGED <<raftVars, applyVars, stateVars, waitVars, calls, kills>>
      /\ \/ /\ isInvalidRequest(handlers[h].server, handlers[h].clerk,
                                handlers[h].op.RequestId)
            /\ Reply(h, "OK", <<>>)
         \/ /\ UNCHANGED clerkVars
            /\ handlers' = [handlers EXCEPT ![h].pc = "checked"]
  BY DEF CheckRequest
<1>2. handlers[h] \in Handler /\ handlers[h] # NoHandler
  BY <1>1, RunningHandler
<1>3. HandlerTypes /\ ClerkTypes
  BY DEF TypeInv
<1>4. CASE /\ isInvalidRequest(handlers[h].server, handlers[h].clerk,
                             handlers[h].op.RequestId)
           /\ Reply(h, "OK", <<>>)
  <2>1. <<>> \in Value
    BY SMTT(10) DEF Value
  <2>2. HandlerTypes' /\ ClerkTypes'
    BY <1>2, <1>4, <2>1, ReplyTypes
  <2>3. TypeInv'
    BY <1>1, <2>2, SameRaftTypes, SameApplyTypes, SameStateTypes, SameWaitTypes DEF TypeInv
  <2> QED BY <1>1, <1>4, <2>3
<1>5. CASE /\ UNCHANGED clerkVars
           /\ handlers' = [handlers EXCEPT ![h].pc = "checked"]
  <2>1. PICK g \in Handler :
          /\ g = [handlers[h] EXCEPT !.pc = "checked"] /\ g.pc = "checked"
          /\ g.server = handlers[h].server /\ g.clerk = handlers[h].clerk
          /\ g.op = handlers[h].op
    BY <1>2, CheckedHandler
  <2>2. handlers' = [handlers EXCEPT ![h] = g]
    BY <1>5, <2>1
  <2>3. HandlerTypes'
    BY <1>3, <2>2, OneHandlerChanges
  <2>4. TypeInv'
    BY <1>1, <1>5, <2>3, SameRaftTypes, SameApplyTypes, SameStateTypes, SameWaitTypes,
       SameClerkTypes DEF TypeInv
  <2> QED BY <1>1, <1>5, <2>1, <2>2, <2>4
<1> QED BY <1>1, <1>4, <1>5

\* A leader appends the entry of a handler that has passed its check.
StartDoes(h, i) ==
    /\ i \in Server /\ handlers[h] \in Handler
    /\ handlers[h].pc \in {"sent", "checked"}
    /\ UNCHANGED <<term, isLeader, chosen, values, applyVars, stateVars,
                   waitVars, calls, kills>>
    /\ \/ ~isLeader[i] /\ Reply(h, "ErrWrongLeader", <<>>) /\ UNCHANGED log
       \/ /\ isLeader[i] /\ UNCHANGED clerkVars
          /\ \E g \in Handler, e \in Entry :
               /\ handlers' = [handlers EXCEPT ![h] = g] /\ g.pc = "started"
               /\ g.server = i /\ g.clerk = handlers[h].clerk
               /\ g.op = handlers[h].op /\ g.term = term[i] /\ g.term # 0
               /\ g.index = Len(log[i]) + 1 /\ g.index \in CallId
               /\ log' = [log EXCEPT ![i] = Append(log[i], e)]
               /\ e.ClientId = g.clerk /\ e.OpType = g.op.OpType
               /\ e.RequestId = g.op.RequestId /\ e.Term = term[i]
               /\ e = [ClientId |-> g.clerk, OpType |-> g.op.OpType,
                       RequestId |-> g.op.RequestId, Term |-> g.term]

LEMMA TypesStart ==
    ASSUME TypeInv, LogsBounded, ClerksSound, HandlersSound, LeadersSound,
           NEW h \in CallId, Start(h), NEW i, i = handlers[h].server
    PROVE  TypeInv' /\ StartDoes(h, i)
<1>0. PICK e : e = [ClientId |-> handlers[h].clerk, OpType |-> handlers[h].op.OpType,
                    RequestId |-> handlers[h].op.RequestId, Term |-> term[i]]
  OBVIOUS
<1>1. /\ handlers[h].pc \in {"sent", "checked"}
      /\ UNCHANGED <<term, isLeader, chosen, values, applyVars, stateVars,
                     waitVars, calls, kills>>
      /\ \/ ~isLeader[i] /\ Reply(h, "ErrWrongLeader", <<>>) /\ UNCHANGED log
         \/ /\ isLeader[i] /\ UNCHANGED clerkVars /\ Len(log[i]) < MaxCalls
            /\ log' = [log EXCEPT ![i] = Append(log[i], e)]
            /\ handlers' = [handlers EXCEPT
                  ![h] = [handlers[h] EXCEPT !.pc = "started", !.term = term[i],
                                             !.index = Len(log[i]) + 1]]
  BY <1>0 DEF Start
<1>2. /\ handlers[h] \in Handler /\ handlers[h] # NoHandler /\ i \in Server
      /\ handlers[h].clerk \in Clerk /\ handlers[h].op \in Operation
  BY <1>1, RunningHandler
<1>3. /\ RaftTypes /\ HandlerTypes /\ ClerkTypes /\ calls \in 0 .. MaxCalls
      /\ kills \in 0 .. MaxKills
  BY DEF TypeInv
<1>4. CASE ~isLeader[i] /\ Reply(h, "ErrWrongLeader", <<>>) /\ UNCHANGED log
  <2>1. <<>> \in Value
    BY SMTT(10) DEF Value
  <2>2. HandlerTypes' /\ ClerkTypes'
    BY <1>2, <1>4, <2>1, ReplyTypes
  <2>3. UNCHANGED raftVars
    BY <1>1, <1>4 DEF raftVars
  <2>4. TypeInv'
    BY <1>1, <2>2, <2>3, SameRaftTypes, SameApplyTypes, SameStateTypes, SameWaitTypes
       DEF TypeInv
  <2> QED BY <1>1, <1>2, <1>4, <2>4 DEF StartDoes
<1>5. CASE /\ isLeader[i] /\ UNCHANGED clerkVars /\ Len(log[i]) < MaxCalls
           /\ log' = [log EXCEPT ![i] = Append(log[i], e)]
           /\ handlers' = [handlers EXCEPT
                 ![h] = [handlers[h] EXCEPT !.pc = "started", !.term = term[i],
                                            !.index = Len(log[i]) + 1]]
  <2>3. log[i] \in Seq(Entry) /\ Len(log[i]) \in Nat /\ term[i] \in 0 .. MaxTerm
    BY SMTT(10), <1>2, <1>3 DEF RaftTypes
  <2>4. Len(log[i]) + 1 \in CallId /\ Len(log[i]) + 1 \in 0 .. MaxCalls
    <3>1. Len(log[i]) < MaxCalls
      BY <1>5
    <3> QED BY SMTT(10), <2>3, <3>1, KVAssumption DEF CallId
  <2>5. term[i] # 0 /\ term[i] \in 1 .. MaxTerm
    <3>1. term[i] # 0
      BY <1>2, <1>5 DEF LeadersSound
    <3> QED BY SMTT(10), <2>3, <3>1, KVAssumption
  <2>6. PICK g : g = StartedAt(handlers[h], term[i], Len(log[i]) + 1)
    OBVIOUS
  <2>61. /\ g \in Handler
         /\ g.pc = "started" /\ g.term = term[i] /\ g.index = Len(log[i]) + 1
         /\ g.server = handlers[h].server /\ g.clerk = handlers[h].clerk
         /\ g.op = handlers[h].op
    BY SMTT(10), <1>2, <2>3, <2>4, <2>6, StartedHandler
  <2>7. handlers' = [handlers EXCEPT ![h] = g]
    BY <1>5, <2>6 DEF StartedAt
  <2>8. /\ e \in Entry /\ e.ClientId = handlers[h].clerk /\ e.OpType = handlers[h].op.OpType
        /\ e.RequestId = handlers[h].op.RequestId /\ e.Term = term[i]
    <3>1. /\ handlers[h].op.OpType \in OpType
          /\ handlers[h].op.RequestId \in 0 .. (MaxRequests - 1)
      BY <1>2, OperationFields
    <3> QED BY <1>0, <1>2, <2>5, <3>1 DEF Entry
  <2>9. HandlerTypes'
    BY <1>3, <2>61, <2>7, OneHandlerChanges
  <2>10. RaftTypes'
    <3>1. Append(log[i], e) \in Seq(Entry)
      BY <2>3, <2>8, SeqAppend
    <3> QED BY <1>1, <1>3, <1>5, <3>1 DEF RaftTypes
  <2>11. TypeInv'
    BY <1>1, <1>3, <1>5, <2>9, <2>10, SameApplyTypes, SameStateTypes, SameWaitTypes,
       SameClerkTypes DEF TypeInv
  <2>12. e = [ClientId |-> g.clerk, OpType |-> g.op.OpType,
              RequestId |-> g.op.RequestId, Term |-> g.term]
    BY <1>0, <2>61
  <2>13. /\ g.server = i /\ e.ClientId = g.clerk /\ e.OpType = g.op.OpType
         /\ e.RequestId = g.op.RequestId /\ g.term # 0 /\ g.index \in CallId
    BY <2>4, <2>5, <2>61, <2>8
  <2> QED BY ZenonT(30), <1>1, <1>2, <1>5, <2>61, <2>7, <2>8, <2>11, <2>12, <2>13
         DEF StartDoes
<1> QED BY <1>1, <1>4, <1>5

\* What MakeWaitCh changes.
MakeWaitChDoes(h, i, k) ==
    /\ i \in Server /\ k \in CallId /\ handlers[h].pc = "started"
    /\ handlers[h] \in Handler
    /\ UNCHANGED <<raftVars, applyVars, stateVars, buffered, clerkVars, calls, kills>>
    /\ \E g \in Handler, ch \in CallId :
         /\ ch = IF waitChMap[i][k] = 0 THEN h ELSE waitChMap[i][k]
         /\ waitChMap'[i][k] = ch
         /\ \A x \in CallId : x # k => waitChMap'[i][x] = waitChMap[i][x]
         /\ \A j \in Server : j # i => waitChMap'[j] = waitChMap[j]
         /\ handlers' = [handlers EXCEPT ![h] = g] /\ g.pc = "waits" /\ g.ch = ch
         /\ g.server = i /\ g.clerk = handlers[h].clerk /\ g.op = handlers[h].op
         /\ g.index = k /\ g.term = handlers[h].term

LEMMA TypesMakeWaitCh ==
    ASSUME TypeInv, HandlersSound, NEW h \in CallId, MakeWaitCh(h),
           NEW i, i = handlers[h].server, NEW k, k = handlers[h].index
    PROVE  TypeInv' /\ MakeWaitChDoes(h, i, k)
<1>0. PICK ch : ch = IF waitChMap[i][k] = 0 THEN h ELSE waitChMap[i][k]
  OBVIOUS
<1>1. /\ handlers[h].pc = "started" /\ waitChMap' = [waitChMap EXCEPT ![i][k] = ch]
      /\ handlers' = [handlers EXCEPT ![h] = [handlers[h] EXCEPT !.pc = "waits", !.ch = ch]]
      /\ UNCHANGED <<raftVars, applyVars, stateVars, buffered, clerkVars, calls, kills>>
  BY <1>0 DEF MakeWaitCh
<1>2. /\ handlers[h] \in Handler /\ handlers[h] # NoHandler /\ i \in Server
      /\ k \in 0 .. MaxCalls
  BY <1>1, RunningHandler
<1>3. k \in CallId
  <2>1. k # 0
    BY <1>1, <1>2 DEF HandlersSound
  <2> QED BY SMTT(10), <1>2, <2>1, KVAssumption DEF CallId
<1>4. WaitTypes /\ HandlerTypes
  BY DEF TypeInv
<1>5. ch \in CallId /\ ch \in 0 .. MaxCalls
  <2>1. waitChMap[i][k] \in 0 .. MaxCalls
    BY <1>2, <1>3, <1>4 DEF WaitTypes
  <2> QED BY SMTT(10), <1>0, <2>1, KVAssumption DEF CallId
<1>6. PICK g : g = WaitingOn(handlers[h], ch)
  OBVIOUS
<1>61. /\ g \in Handler /\ g.pc = "waits" /\ g.ch = ch
        /\ g.server = handlers[h].server /\ g.clerk = handlers[h].clerk
        /\ g.op = handlers[h].op /\ g.index = handlers[h].index /\ g.term = handlers[h].term
  BY SMTT(10), <1>2, <1>5, <1>6, WaitingHandler
<1>7. handlers' = [handlers EXCEPT ![h] = g]
  BY <1>1, <1>6 DEF WaitingOn
<1>8. HandlerTypes'
  BY <1>4, <1>61, <1>7, OneHandlerChanges
<1>9. /\ waitChMap' \in [Server -> [CallId -> 0 .. MaxCalls]] /\ waitChMap'[i][k] = ch
      /\ \A x \in CallId : x # k => waitChMap'[i][x] = waitChMap[i][x]
      /\ \A j \in Server : j # i => waitChMap'[j] = waitChMap[j]
  <2>1. waitChMap \in [Server -> [CallId -> 0 .. MaxCalls]]
    BY <1>4 DEF WaitTypes
  <2> QED BY <1>1, <1>2, <1>3, <1>5, <2>1
<1>10. WaitTypes'
  BY <1>1, <1>4, <1>9 DEF WaitTypes
<1>11. TypeInv'
  BY <1>1, <1>8, <1>10, SameRaftTypes, SameApplyTypes, SameStateTypes, SameClerkTypes
     DEF TypeInv
<1> QED BY <1>0, <1>1, <1>2, <1>3, <1>5, <1>61, <1>7, <1>9, <1>11 DEF MakeWaitChDoes

\* What Notified changes.
NotifiedDoes(h, ch) ==
    /\ handlers[h].pc = "waits" /\ handlers[h] \in Handler
    /\ ch \in CallId /\ buffered[ch] # <<>> /\ Head(buffered[ch]) \in Value
    /\ buffered' = [buffered EXCEPT ![ch] = <<>>]
    /\ UNCHANGED <<raftVars, applyVars, stateVars, waitChMap, clerkVars, calls, kills>>
    /\ \E g \in Handler :
         /\ handlers' = [handlers EXCEPT ![h] = g] /\ g.pc = "leaves"
         /\ g.err = IF StillLeader(h) THEN "OK" ELSE "ErrWrongLeader"
         /\ g.value = Head(buffered[ch]) /\ g.server = handlers[h].server
         /\ g.clerk = handlers[h].clerk /\ g.op = handlers[h].op
         /\ g.index = handlers[h].index /\ g.term = handlers[h].term

LEMMA TypesNotified ==
    ASSUME TypeInv, HandlersSound, NEW h \in CallId, Notified(h),
           NEW ch, ch = handlers[h].ch
    PROVE  TypeInv' /\ NotifiedDoes(h, ch)
<1>0. PICK err \in {"OK", "ErrWrongLeader"} :
        err = IF StillLeader(h) THEN "OK" ELSE "ErrWrongLeader"
  OBVIOUS
<1>1. /\ handlers[h].pc = "waits" /\ buffered[ch] # <<>>
      /\ buffered' = [buffered EXCEPT ![ch] = <<>>]
      /\ handlers' = [handlers EXCEPT ![h] = [handlers[h] EXCEPT !.pc = "leaves", !.err = err,
                                                !.value = Head(buffered[ch])]]
      /\ UNCHANGED <<raftVars, applyVars, stateVars, waitChMap, clerkVars, calls, kills>>
  BY <1>0 DEF Notified, Answers
<1>2. handlers[h] \in Handler /\ handlers[h] # NoHandler /\ ch \in 0 .. MaxCalls
  BY <1>1, RunningHandler
<1>3. ch \in CallId
  <2>1. ch # 0
    BY <1>1, <1>2 DEF HandlersSound
  <2> QED BY SMTT(10), <1>2, <2>1, KVAssumption DEF CallId
<1>4. WaitTypes /\ HandlerTypes
  BY DEF TypeInv
<1>5. Head(buffered[ch]) \in Value
  <2>1. buffered[ch] \in Seq(Value)
    BY <1>3, <1>4 DEF WaitTypes
  <2> QED BY <1>1, <2>1, SeqHeadTail
<1>6. PICK v \in Value : v = Head(buffered[ch])
  BY <1>5
<1>7. PICK g : g = LeavingWith(handlers[h], err, v)
  OBVIOUS
<1>71. /\ g \in Handler /\ g.pc = "leaves" /\ g.err = err /\ g.value = v
        /\ g.server = handlers[h].server /\ g.clerk = handlers[h].clerk
        /\ g.op = handlers[h].op /\ g.index = handlers[h].index /\ g.term = handlers[h].term
  BY SMTT(10), <1>2, <1>7, LeavingHandler
<1>8. handlers' = [handlers EXCEPT ![h] = g]
  BY <1>1, <1>6, <1>7 DEF LeavingWith
<1>9. HandlerTypes'
  BY <1>4, <1>71, <1>8, OneHandlerChanges
<1>10. WaitTypes'
  <2>1. <<>> \in Seq(Value) /\ Len(<<>>) <= 1
    BY SMTT(10)
  <2>2. \A x \in CallId : buffered'[x] = IF x = ch THEN <<>> ELSE buffered[x]
    BY <1>1, <1>4 DEF WaitTypes
  <2>3. buffered' \in [CallId -> Seq(Value)] /\ UNCHANGED waitChMap
    BY <1>1, <1>4, <2>1 DEF WaitTypes
  <2>4. \A x \in CallId : Len(buffered'[x]) <= 1
    BY <1>4, <2>1, <2>2 DEF WaitTypes
  <2> QED BY <1>4, <2>3, <2>4 DEF WaitTypes
<1>11. TypeInv'
  BY <1>1, <1>9, <1>10, SameRaftTypes, SameApplyTypes, SameStateTypes, SameClerkTypes
     DEF TypeInv
<1> QED BY <1>0, <1>1, <1>2, <1>3, <1>5, <1>6, <1>71, <1>8, <1>11 DEF NotifiedDoes

LEMMA TypesTimedOut ==
    ASSUME TypeInv, NEW h \in CallId, TimedOut(h)
    PROVE  /\ TypeInv' /\ handlers[h].pc = "waits" /\ handlers[h] \in Handler
           /\ UNCHANGED <<raftVars, applyVars, stateVars, waitVars, clerkVars, calls, kills>>
           /\ \E g \in Handler :
                /\ handlers' = [handlers EXCEPT ![h] = g] /\ g.pc = "leaves"
                /\ g.err = "ErrWrongLeader" /\ g.server = handlers[h].server
                /\ g.clerk = handlers[h].clerk /\ g.op = handlers[h].op
                /\ g.index = handlers[h].index /\ g.term = handlers[h].term
<1>1. /\ handlers[h].pc = "waits"
      /\ handlers' = [handlers EXCEPT ![h] = [handlers[h] EXCEPT !.pc = "leaves",
                                       !.err = "ErrWrongLeader", !.value = <<>>]]
      /\ UNCHANGED <<raftVars, applyVars, stateVars, waitVars, clerkVars, calls, kills>>
  BY DEF TimedOut, Answers
<1>2. handlers[h] \in Handler
  BY <1>1, RunningHandler
<1>3. HandlerTypes
  BY DEF TypeInv
<1>4. <<>> \in Value
  BY SMTT(10) DEF Value
<1>5. PICK g : g = LeavingWith(handlers[h], "ErrWrongLeader", <<>>)
  OBVIOUS
<1>51. /\ g \in Handler /\ g.pc = "leaves" /\ g.err = "ErrWrongLeader" /\ g.value = <<>>
        /\ g.server = handlers[h].server /\ g.clerk = handlers[h].clerk
        /\ g.op = handlers[h].op /\ g.index = handlers[h].index /\ g.term = handlers[h].term
  BY SMTT(10), <1>2, <1>4, <1>5, LeavingHandler
<1>6. handlers' = [handlers EXCEPT ![h] = g]
  BY <1>1, <1>5 DEF LeavingWith
<1>7. HandlerTypes'
  BY <1>3, <1>51, <1>6, OneHandlerChanges
<1>8. TypeInv'
  BY <1>1, <1>7, SameRaftTypes, SameApplyTypes, SameStateTypes, SameWaitTypes, SameClerkTypes
     DEF TypeInv
<1> QED BY <1>1, <1>2, <1>51, <1>6, <1>8

\* What Leave changes.
LeaveDoes(h, i, k) ==
    /\ i \in Server /\ k \in CallId /\ handlers[h].pc = "leaves"
    /\ handlers[h] \in Handler /\ Reply(h, handlers[h].err, handlers[h].value)
    /\ UNCHANGED <<raftVars, applyVars, stateVars, buffered, calls, kills>>
    /\ waitChMap'[i][k] = 0
    /\ \A x \in CallId : x # k => waitChMap'[i][x] = waitChMap[i][x]
    /\ \A j \in Server : j # i => waitChMap'[j] = waitChMap[j]

LEMMA TypesLeave ==
    ASSUME TypeInv, ClerksSound, HandlersSound, NEW h \in CallId, Leave(h),
           NEW i, i = handlers[h].server, NEW k, k = handlers[h].index
    PROVE  TypeInv' /\ LeaveDoes(h, i, k)
<1>1. /\ handlers[h].pc = "leaves" /\ waitChMap' = [waitChMap EXCEPT ![i][k] = 0]
      /\ Reply(h, handlers[h].err, handlers[h].value)
      /\ UNCHANGED <<raftVars, applyVars, stateVars, buffered, calls, kills>>
  BY DEF Leave
<1>2. /\ handlers[h] \in Handler /\ handlers[h] # NoHandler /\ i \in Server
      /\ k \in 0 .. MaxCalls /\ handlers[h].value \in Value
  BY <1>1, RunningHandler
<1>3. k \in CallId
  <2>1. k # 0
    BY <1>1, <1>2 DEF HandlersSound
  <2> QED BY SMTT(10), <1>2, <2>1, KVAssumption DEF CallId
<1>4. WaitTypes
  BY DEF TypeInv
<1>5. HandlerTypes' /\ ClerkTypes'
  BY <1>1, <1>2, ReplyTypes
<1>6. /\ waitChMap' \in [Server -> [CallId -> 0 .. MaxCalls]] /\ waitChMap'[i][k] = 0
      /\ \A x \in CallId : x # k => waitChMap'[i][x] = waitChMap[i][x]
      /\ \A j \in Server : j # i => waitChMap'[j] = waitChMap[j]
  <2>1. waitChMap \in [Server -> [CallId -> 0 .. MaxCalls]] /\ 0 \in 0 .. MaxCalls
    BY SMTT(10), <1>4, KVAssumption DEF WaitTypes
  <2> QED BY <1>1, <1>2, <1>3, <2>1
<1>7. WaitTypes'
  BY <1>1, <1>4, <1>6 DEF WaitTypes
<1>8. TypeInv'
  BY <1>1, <1>5, <1>7, SameRaftTypes, SameApplyTypes, SameStateTypes DEF TypeInv
<1> QED BY <1>1, <1>2, <1>3, <1>6, <1>8 DEF LeaveDoes

-----------------------------------------------------------------------------
(* The history of the chosen log *)

\* The chosen log, and what the key held after each entry, only grow.
ChosenGrows ==
    /\ Len(chosen) \in Nat /\ Len(chosen') \in Nat /\ Len(chosen) <= Len(chosen')
    /\ \A n \in 1 .. Len(chosen) : chosen'[n] = chosen[n] /\ values'[n] = values[n]

LEMMA GrowsSame ==
    ASSUME TypeInv, UNCHANGED <<chosen, values>>
    PROVE  ChosenGrows
<1>1. Len(chosen) \in Nat
  BY SeqLength DEF TypeInv, RaftTypes
<1> QED BY SMTT(10), <1>1 DEF ChosenGrows

LEMMA GrowsChoose ==
    ASSUME TypeInv, LogsBounded, NEW i \in Server, Choose(i)
    PROVE  ChosenGrows
<1>1. Len(chosen) \in Nat
  BY SeqLength DEF TypeInv, RaftTypes
<1> QED BY SMTT(10), <1>1, TypesChoose DEF ChosenGrows

LEMMA HistoryKept ==
    ASSUME ChosenGrows, NEW n \in Nat, n <= Len(chosen)
    PROVE  /\ ValueAt(n)' = ValueAt(n)
           /\ \A c, r : Executed(n, c, r)' <=> Executed(n, c, r)
<1>1. \A m \in 1 .. n : chosen'[m] = chosen[m] /\ values'[m] = values[m]
  BY SMTT(10) DEF ChosenGrows
<1>2. ValueAt(n)' = ValueAt(n)
  BY SMTT(10), <1>1 DEF ValueAt
<1>3. ASSUME NEW c, NEW r PROVE Executed(n, c, r)' <=> Executed(n, c, r)
  BY <1>1 DEF Executed
<1> QED BY <1>2, <1>3

LEMMA StateTrueKept ==
    ASSUME ChosenGrows, NEW db, NEW map, NEW n \in Nat, StateTrue(db, map, n)
    PROVE  StateTrue(db, map, n)'
<1>1. n <= Len(chosen) /\ n <= Len(chosen')
  BY SMTT(10) DEF StateTrue, ChosenGrows
<1>2. ValueAt(n)' = ValueAt(n) /\ \A c, r : Executed(n, c, r)' <=> Executed(n, c, r)
  BY <1>1, HistoryKept
<1> QED BY <1>1, <1>2 DEF StateTrue

\* More entries were executed than before, none fewer.
LEMMA ExecutedGrows ==
    ASSUME ChosenGrows, NEW n \in Nat, n <= Len(chosen), NEW m \in Nat, n <= m,
           NEW c, NEW r, Executed(n, c, r)
    PROVE  Executed(m, c, r)'
<1>1. PICK x \in 1 .. n : chosen[x].ClientId = c /\ chosen[x].RequestId = r
  BY DEF Executed
<1>2. x \in 1 .. Len(chosen) /\ x \in 1 .. m /\ chosen'[x] = chosen[x]
  BY SMTT(10), <1>1 DEF ChosenGrows
<1> QED BY <1>1, <1>2 DEF Executed

-----------------------------------------------------------------------------
(* Delivery *)

LEMMA StatesStep ==
    ASSUME TypeInv', StatesTrue, ChosenGrows, NEW i \in Server,
           \A j \in Server : j # i =>
               /\ KVDB'[j] = KVDB[j] /\ LastRequestMap'[j] = LastRequestMap[j]
               /\ delivered'[j] = delivered[j] /\ snapshot'[j] = snapshot[j]
               /\ firstIndex'[j] = firstIndex[j] /\ installing'[j] = installing[j],
           StateTrue(KVDB'[i], LastRequestMap'[i], delivered'[i]),
           StateTrue(snapshot'[i].KVDB, snapshot'[i].LastRequestMap, firstIndex'[i]),
           \A s \in installing'[i] : StateTrue(s.state.KVDB, s.state.LastRequestMap, s.index)
    PROVE  StatesTrue'
<1> SUFFICES ASSUME NEW j \in Server
             PROVE  /\ StateTrue(KVDB[j], LastRequestMap[j], delivered[j])'
                    /\ StateTrue(snapshot[j].KVDB, snapshot[j].LastRequestMap, firstIndex[j])'
                    /\ \A s \in installing'[j] :
                         StateTrue(s.state.KVDB, s.state.LastRequestMap, s.index)'
  BY DEF StatesTrue
<1>1. /\ StateTrue(KVDB'[j], LastRequestMap'[j], delivered'[j])
      /\ StateTrue(snapshot'[j].KVDB, snapshot'[j].LastRequestMap, firstIndex'[j])
      /\ \A s \in installing'[j] : StateTrue(s.state.KVDB, s.state.LastRequestMap, s.index)
  BY DEF StatesTrue
<1>2. delivered'[j] \in Nat /\ firstIndex'[j] \in Nat /\ installing'[j] \subseteq Installed
  BY TypedEachNext DEF EachTyped, TypeInv, ApplyTypes
<1>3. StateTrue(KVDB[j], LastRequestMap[j], delivered[j])'
  <2>1. PICK db, map, n : db = KVDB'[j] /\ map = LastRequestMap'[j] /\ n = delivered'[j]
    OBVIOUS
  <2>2. StateTrue(db, map, n)'
    BY <1>1, <1>2, <2>1, StateTrueKept
  <2> QED BY <2>1, <2>2 DEF StateTrue
<1>4. StateTrue(snapshot[j].KVDB, snapshot[j].LastRequestMap, firstIndex[j])'
  <2>1. PICK db, map, n : /\ db = snapshot'[j].KVDB /\ map = snapshot'[j].LastRequestMap
                          /\ n = firstIndex'[j]
    OBVIOUS
  <2>2. StateTrue(db, map, n)'
    BY <1>1, <1>2, <2>1, StateTrueKept
  <2> QED BY <2>1, <2>2 DEF StateTrue
<1>5. ASSUME NEW s \in installing'[j]
      PROVE  StateTrue(s.state.KVDB, s.state.LastRequestMap, s.index)'
  <2>1. PICK db, map, n : db = s.state.KVDB /\ map = s.state.LastRequestMap /\ n = s.index
    OBVIOUS
  <2>2. n \in Nat
    BY <1>2, <2>1, CallIds DEF Installed
  <2>3. StateTrue(db, map, n)'
    BY <1>1, <2>1, <2>2, StateTrueKept
  <2> QED BY <2>1, <2>3
<1> QED BY <1>3, <1>4, <1>5

LEMMA DeliverySame ==
    ASSUME NEW j, Delivery(j), lastIncludedIndex'[j] = lastIncludedIndex[j],
           delivered'[j] = delivered[j], lastApplied'[j] = lastApplied[j],
           batch'[j] = batch[j], installing'[j] = installing[j]
    PROVE  Delivery(j)'
  BY SMTT(10) DEF Delivery

\* Steps that leave the appliers and what is on its way to them alone.
LEMMA DeliveryKept ==
    ASSUME TypeInv, TypeInv', DeliveryInv, ChosenGrows, UNCHANGED <<applyVars, stateVars>>
    PROVE  DeliveryInv'
<1>1. UNCHANGED <<lastApplied, firstIndex, snapshot, batch, installing,
                  KVDB, LastRequestMap, lastIncludedIndex, delivered>>
  BY DEF applyVars, stateVars
<1>2. 0 \in Server
  BY SMTT(10), KVAssumption DEF Server
<1>3. StatesTrue'
  <2>1. StatesTrue
    BY DEF DeliveryInv
  <2> QED BY <1>1, <1>2, <2>1, StatesStep DEF StatesTrue
<1>4. \A j \in Server : Delivery(j)'
  BY <1>1, DeliverySame DEF DeliveryInv
<1> QED BY <1>3, <1>4 DEF DeliveryInv

LEMMA DeliveryApply ==
    ASSUME ServiceInv, DeliveryInv, NEW i \in Server, apply(i)
    PROVE  DeliveryInv'
<1>1. TypeInv /\ LogsBounded /\ StatesTrue /\ \A j \in Server : Delivery(j)
  BY DEF ServiceInv, DeliveryInv
<1>2. /\ TypeInv' /\ UNCHANGED <<raftVars, firstIndex, snapshot, installing>>
      /\ batch[i] = <<>> /\ lastApplied[i] < lastApplied'[i]
      /\ Len(batch'[i]) = lastApplied'[i] - lastApplied[i]
      /\ \A n \in 1 .. Len(batch'[i]) : batch'[i][n] = lastApplied[i] + n
      /\ \A j \in Server : j # i => lastApplied'[j] = lastApplied[j] /\ batch'[j] = batch[j]
  BY <1>1, TypesApply
<1>3. UNCHANGED stateVars
  BY DEF apply
<1>4. UNCHANGED <<chosen, values, KVDB, LastRequestMap, lastIncludedIndex, delivered>>
  BY <1>2, <1>3 DEF raftVars, stateVars
<1>5. StatesTrue'
  <2>1. ChosenGrows
    BY <1>1, <1>4, GrowsSame
  <2> QED BY <1>1, <1>2, <1>4, <2>1, StatesStep DEF StatesTrue
<1>6. Delivery(i)'
  <2>1. /\ lastApplied[i] \in Nat /\ lastApplied'[i] \in Nat /\ delivered[i] \in Nat
        /\ lastIncludedIndex[i] \in Nat /\ batch'[i] \in Seq(CallId)
        /\ installing[i] \subseteq Installed
    BY <1>1, <1>2, TypedEach, TypedEachNext DEF EachTyped
  <2>2. PICK l, m, d, b : l = lastApplied[i] /\ m = lastApplied'[i] /\ d = delivered[i]
                          /\ b = batch'[i]
    OBVIOUS
  <2>3. /\ lastIncludedIndex[i] <= d /\ d <= l
        /\ \A s \in installing[i] : d < s.index /\ s.index <= l
        /\ \A r, s \in installing[i] : r.index = s.index => r = s
        /\ l = d \/ \E s \in installing[i] : s.index = l
    BY <1>1, <1>2, <2>2 DEF Delivery
  <2>4. Len(b) = m - l /\ l < m /\ \A n \in 1 .. Len(b) : b[n] = l + n
    BY <1>2, <2>2
  <2>5. \A s \in installing[i] : s.index \in Nat
    BY <2>1, CallIds DEF Installed
  <2>6. \A n \in 1 .. Len(b) :
          /\ d < b[n]
          /\ \/ b[n] - 1 = d
             \/ n > 1 /\ b[n] - 1 = b[n - 1]
             \/ \E s \in installing[i] : s.index = b[n] - 1
    <3> SUFFICES ASSUME NEW n \in 1 .. Len(b)
                 PROVE  /\ d < b[n]
                        /\ \/ b[n] - 1 = d
                           \/ n > 1 /\ b[n] - 1 = b[n - 1]
                           \/ \E s \in installing[i] : s.index = b[n] - 1
      OBVIOUS
    <3>1. b[n] = l + n /\ d < b[n]
      BY SMTT(10), <2>1, <2>2, <2>3, <2>4
    <3>2. CASE n = 1
      <4>1. b[n] - 1 = l
        BY SMTT(10), <2>1, <2>2, <3>1, <3>2
      <4> QED BY <2>3, <3>1, <4>1
    <3>3. CASE n # 1
      <4>1. n > 1 /\ n - 1 \in 1 .. Len(b)
        BY SMTT(10), <2>1, <2>2, <2>4, <3>3
      <4>2. b[n - 1] = l + (n - 1)
        BY <2>4, <4>1
      <4>3. b[n] - 1 = b[n - 1]
        BY SMTT(30), <2>1, <2>2, <3>1, <4>2
      <4> QED BY <3>1, <4>1, <4>3
    <3> QED BY <3>2, <3>3
  <2>7. \A s \in installing[i] :
          d < s.index /\ s.index <= m /\ \A n \in 1 .. Len(b) : b[n] # s.index
    <3>1. \A n \in 1 .. Len(b) : b[n] \in Nat /\ b[n] > l
      BY SMTT(10), <2>1, <2>2, <2>4
    <3>2. l \in Nat /\ m \in Nat /\ l < m
      BY <2>1, <2>2, <2>4
    <3> QED BY SMTT(10), <2>3, <2>5, <3>1, <3>2
  <2>8. b # <<>> /\ b[Len(b)] = m
    <3>1. Len(b) = m - l /\ l < m /\ l \in Nat /\ m \in Nat
      BY <2>1, <2>2, <2>4
    <3>2. Len(b) \in 1 .. Len(b) /\ Len(b) # 0
      BY SMTT(10), <3>1
    <3>3. b[Len(b)] = l + Len(b)
      BY <2>4, <3>2
    <3> QED BY SMTT(10), <3>1, <3>2, <3>3
  <2>9. lastIncludedIndex[i] <= d /\ d <= m
    BY SMTT(10), <2>1, <2>2, <2>3, <2>4
  <2> QED BY <1>2, <1>4, <2>2, <2>3, <2>6, <2>7, <2>8, <2>9 DEF Delivery
<1>7. \A j \in Server : j # i => Delivery(j)'
  BY <1>1, <1>2, <1>4, DeliverySame
<1> QED BY <1>5, <1>6, <1>7 DEF DeliveryInv

LEMMA DeliveryInstall ==
    ASSUME ServiceInv, RaftInv, DeliveryInv, NEW j \in Server, NEW i \in Server,
           InstallSnapshot(j, i)
    PROVE  DeliveryInv'
<1>1. /\ TypeInv /\ LogsBounded /\ BatchesInOrder /\ AppliedIsHeld
      /\ StatesTrue /\ \A k \in Server : Delivery(k)
  BY DEF ServiceInv, RaftInv, DeliveryInv
<1>2. PICK f, new : f = firstIndex[i] /\ new = [index |-> f, state |-> snapshot[i]]
  OBVIOUS
<1>3. /\ TypeInv' /\ f \in CallId /\ lastApplied[j] < f
      /\ firstIndex' = [firstIndex EXCEPT ![j] = f]
      /\ snapshot' = [snapshot EXCEPT ![j] = snapshot[i]]
      /\ lastApplied' = [lastApplied EXCEPT ![j] = f]
      /\ installing' = [installing EXCEPT ![j] = installing[j] \cup {new}]
      /\ UNCHANGED <<chosen, values, batch, stateVars>>
  <2>1. TypeInv' /\ InstallDoes(j, i, f)
    BY <1>1, <1>2, TypesInstall
  <2> QED BY <1>2, <2>1 DEF InstallDoes
<1>4. UNCHANGED <<KVDB, LastRequestMap, lastIncludedIndex, delivered>>
  BY <1>3 DEF stateVars
<1>5. /\ firstIndex'[j] = f /\ snapshot'[j] = snapshot[i] /\ lastApplied'[j] = f
      /\ installing'[j] = installing[j] \cup {new}
      /\ \A k \in Server : k # j =>
           /\ firstIndex'[k] = firstIndex[k] /\ snapshot'[k] = snapshot[k]
           /\ lastApplied'[k] = lastApplied[k] /\ installing'[k] = installing[k]
  BY <1>1, <1>3 DEF TypeInv, ApplyTypes
<1>6. StatesTrue'
  <2>1. ChosenGrows
    BY <1>1, <1>3, GrowsSame
  <2>2. StateTrue(KVDB'[j], LastRequestMap'[j], delivered'[j])
    BY <1>1, <1>4 DEF StatesTrue
  <2>3. StateTrue(snapshot'[j].KVDB, snapshot'[j].LastRequestMap, firstIndex'[j])
    BY <1>1, <1>2, <1>5 DEF StatesTrue
  <2>4. StateTrue(new.state.KVDB, new.state.LastRequestMap, new.index)
    BY <1>1, <1>2 DEF StatesTrue
  <2>5. \A s \in installing'[j] : StateTrue(s.state.KVDB, s.state.LastRequestMap, s.index)
    BY <1>1, <1>5, <2>4 DEF StatesTrue
  <2> QED BY <1>1, <1>3, <1>4, <1>5, <2>1, <2>2, <2>3, <2>5, StatesStep
<1>7. Delivery(j)'
  <2>1. /\ lastApplied[j] \in Nat /\ delivered[j] \in Nat /\ lastIncludedIndex[j] \in Nat
        /\ batch[j] \in Seq(CallId) /\ installing[j] \subseteq Installed /\ f \in Nat
    BY <1>1, <1>3, TypedEach, CallIds DEF EachTyped
  <2>2. /\ \A s \in installing[j] : s.index \in Nat
        /\ \A n \in 1 .. Len(batch[j]) : batch[j][n] \in Nat /\ batch[j][n] <= lastApplied[j]
    <3>1. \A n \in 1 .. Len(batch[j]) : batch[j][n] \in CallId
      BY <2>1, SeqElement
    <3> QED BY <1>1, TypedEach DEF EachTyped, BatchesInOrder
  <2>3. new.index = f /\ Delivery(j)
    BY <1>1, <1>2
  <2>4. lastIncludedIndex[j] <= delivered[j] /\ delivered[j] <= f
    BY SMTT(10), <1>3, <2>1, <2>3 DEF Delivery
  <2>5. \A n \in 1 .. Len(batch[j]) :
          /\ delivered[j] < batch[j][n]
          /\ \/ batch[j][n] - 1 = delivered[j]
             \/ n > 1 /\ batch[j][n] - 1 = batch[j][n - 1]
             \/ \E s \in installing[j] \cup {new} : s.index = batch[j][n] - 1
    BY <2>3 DEF Delivery
  <2>6. \A s \in installing[j] \cup {new} :
          /\ delivered[j] < s.index /\ s.index <= f
          /\ \A n \in 1 .. Len(batch[j]) : batch[j][n] # s.index
    BY SMTT(10), <1>3, <2>1, <2>2, <2>3 DEF Delivery
  <2>7. \A r, s \in installing[j] \cup {new} : r.index = s.index => r = s
    <3>1. \A s \in installing[j] : s.index < f
      BY SMTT(10), <1>3, <2>1, <2>2, <2>3 DEF Delivery
    <3>2. \A r, s \in installing[j] : r.index = s.index => r = s
      BY <2>3 DEF Delivery
    <3> QED BY SMTT(10), <2>1, <2>2, <2>3, <3>1, <3>2
  <2>8. \E s \in installing[j] \cup {new} : s.index = f
    BY <2>3
  <2> QED BY SMTT(10), <1>3, <1>4, <1>5, <2>4, <2>5, <2>6, <2>7, <2>8 DEF Delivery
<1>8. \A k \in Server : k # j => Delivery(k)'
  BY <1>1, <1>3, <1>4, <1>5, DeliverySame
<1> QED BY <1>6, <1>7, <1>8 DEF DeliveryInv

LEMMA ExecutedNext ==
    ASSUME NEW k \in Nat \ {0}, NEW c, NEW r
    PROVE  Executed(k, c, r) <=> \/ Executed(k - 1, c, r)
                                 \/ chosen[k].ClientId = c /\ chosen[k].RequestId = r
<1>1. \A m : m \in 1 .. k <=> m \in 1 .. (k - 1) \/ m = k
  BY SMTT(10)
<1> QED BY <1>1 DEF Executed

LEMMA ExecuteEffect ==
    ASSUME StateTypes, NEW i \in Server, NEW e \in Entry, execute(i, e)
    PROVE  /\ \A j \in Server : j # i => /\ KVDB'[j] = KVDB[j]
                                         /\ LastRequestMap'[j] = LastRequestMap[j]
           /\ Ignored(i, e) => KVDB'[i] = KVDB[i] /\ LastRequestMap'[i] = LastRequestMap[i]
           /\ ~Ignored(i, e) =>
                /\ KVDB'[i] = Written(e, KVDB[i])
                /\ \A c \in Clerk : c # e.ClientId =>
                     LastRequestMap'[i][c] = LastRequestMap[i][c]
                /\ LastRequestMap'[i][e.ClientId] =
                     IF LastRequestMap[i][e.ClientId] < e.RequestId THEN e.RequestId
                     ELSE LastRequestMap[i][e.ClientId]
<1>1. KVDB \in [Server -> Value] /\ LastRequestMap \in [Server -> RequestMap]
  BY DEF StateTypes
<1>2. CASE Ignored(i, e)
  BY <1>2 DEF execute
<1>3. CASE ~Ignored(i, e)
  <2>1. PICK r : r = IF LastRequestMap[i][e.ClientId] < e.RequestId THEN e.RequestId
                     ELSE LastRequestMap[i][e.ClientId]
    OBVIOUS
  <2>2. /\ KVDB' = [KVDB EXCEPT ![i] = Written(e, KVDB[i])]
        /\ LastRequestMap' = [LastRequestMap EXCEPT ![i] =
                                [LastRequestMap[i] EXCEPT ![e.ClientId] = r]]
    BY <1>1, <1>3, <2>1 DEF execute
  <2>3. LastRequestMap[i] \in [Clerk -> -1 .. (MaxRequests - 1)] /\ e.ClientId \in Clerk
    BY <1>1 DEF RequestMap, Entry
  <2>4. LastRequestMap'[i] = [LastRequestMap[i] EXCEPT ![e.ClientId] = r]
    BY <1>1, <2>2
  <2> QED BY <1>1, <1>3, <2>1, <2>2, <2>3, <2>4
<1> QED BY <1>2, <1>3

\* The applier executes the next chosen entry: its state is that after it.
LEMMA ExecuteTrue ==
    ASSUME TypeInv, LogsBounded, ChosenInOrder, ValuesTrue, NEW i \in Server,
           NEW k \in 1 .. Len(chosen), execute(i, chosen[k]),
           StateTrue(KVDB[i], LastRequestMap[i], k - 1)
    PROVE  StateTrue(KVDB'[i], LastRequestMap'[i], k)
<1>1. PICK e \in Entry : e = chosen[k]
  BY SeqElement DEF TypeInv, RaftTypes
<1>2. PICK map, new, c, q : /\ map = LastRequestMap[i] /\ new = LastRequestMap'[i]
                            /\ c = e.ClientId /\ q = e.RequestId
  OBVIOUS
<1>3. c \in Clerk /\ q \in 0 .. (MaxRequests - 1) /\ k \in Nat \ {0} /\ Len(chosen) \in Nat
  BY SMTT(10), <1>2, SeqLength DEF Entry, TypeInv, RaftTypes
<1>4. StateTypes /\ map \in [Clerk -> -1 .. (MaxRequests - 1)]
  BY <1>2 DEF TypeInv, StateTypes, RequestMap
<1>5. /\ Ignored(i, e) => KVDB'[i] = KVDB[i] /\ new = map
      /\ ~Ignored(i, e) =>
           /\ KVDB'[i] = Written(e, KVDB[i])
           /\ \A d \in Clerk : d # c => new[d] = map[d]
           /\ new[c] = IF map[c] < q THEN q ELSE map[c]
  BY <1>1, <1>2, <1>4, ExecuteEffect
<1>6. KVDB[i] = ValueAt(k - 1) /\ \A d \in Clerk : \A r \in 0 .. (MaxRequests - 1) :
                                    r <= map[d] <=> Executed(k - 1, d, r)
  BY <1>2 DEF StateTrue
<1>7. \A r \in 0 .. (q - 1) : Executed(k - 1, c, r)
  BY <1>1, <1>2, <1>3 DEF ChosenInOrder
<1>8. \A d, r : Executed(k, d, r) <=> Executed(k - 1, d, r) \/ (d = c /\ r = q)
  BY <1>1, <1>2, <1>3, ExecutedNext
<1>9. Ignored(i, e) <=> e.OpType # "Get" /\ q <= map[c]
  BY <1>2 DEF Ignored, isInvalidRequest
<1>10. KVDB'[i] = ValueAt(k)
  <2>1. ValueAt(k) = values[k]
    BY <1>3 DEF ValueAt
  <2>2. values[k] = IF Executed(k - 1, c, q) THEN ValueAt(k - 1) ELSE Written(e, ValueAt(k - 1))
    BY <1>1, <1>2 DEF ValuesTrue
  <2>3. Executed(k - 1, c, q) <=> q <= map[c]
    BY <1>3, <1>6
  <2>4. CASE Ignored(i, e)
    BY <1>5, <1>6, <1>9, <2>1, <2>2, <2>3, <2>4
  <2>5. CASE ~Ignored(i, e) /\ e.OpType = "Get"
    <3>1. Written(e, KVDB[i]) = KVDB[i]
      BY <2>5 DEF Written
    <3> QED BY <1>5, <1>6, <2>1, <2>2, <2>5, <3>1
  <2>6. CASE ~Ignored(i, e) /\ e.OpType # "Get"
    BY <1>5, <1>6, <1>9, <2>1, <2>2, <2>3, <2>6
  <2> QED BY <2>4, <2>5, <2>6
<1>11. ASSUME NEW d \in Clerk, NEW r \in 0 .. (MaxRequests - 1)
       PROVE  r <= new[d] <=> Executed(k, d, r)
  <2>1. r <= map[d] <=> Executed(k - 1, d, r)
    BY <1>6
  <2>2. Executed(k, d, r) <=> Executed(k - 1, d, r) \/ (d = c /\ r = q)
    BY <1>8
  <2>3. CASE Ignored(i, e)
    BY <1>5, <1>9, <2>1, <2>2, <2>3
  <2>4. CASE ~Ignored(i, e) /\ d # c
    BY <1>5, <2>1, <2>2, <2>4
  <2>5. CASE ~Ignored(i, e) /\ d = c
    <3>1. new[d] = IF map[d] < q THEN q ELSE map[d]
      BY <1>5, <2>5
    <3>2. map[d] \in Int /\ q \in Int /\ r \in Int /\ MaxRequests \in Int
      BY SMTT(10), <1>3, <1>4, KVAssumption
    <3>3. r < q => Executed(k - 1, d, r)
      BY SMTT(10), <1>7, <2>5, <3>2
    <3>4. r <= new[d] <=> r <= map[d] \/ r < q \/ r = q
      BY SMTT(10), <3>1, <3>2
    <3> QED BY <2>1, <2>2, <2>5, <3>3, <3>4
  <2> QED BY <2>3, <2>4, <2>5
<1>12. k <= Len(chosen)
  BY SMTT(10), <1>3
<1> QED BY <1>2, <1>10, <1>11, <1>12 DEF StateTrue

\* applyCh hands over the command after the last one the applier got.
LEMMA NextInOrder ==
    ASSUME Ordered, ServiceInv, DeliveryInv, NEW i \in Server, ApplyCommand(i),
           NEW k, k = Head(batch[i])
    PROVE  /\ k - 1 = delivered[i] /\ k > lastIncludedIndex[i] /\ k > delivered[i]
           /\ \A s \in installing[i] : s.index > k
<1>1. TypeInv /\ BatchesInOrder /\ Delivery(i)
  BY DEF ServiceInv, DeliveryInv
<1>2. k \in CallId /\ k = batch[i][1] /\ 1 \in 1 .. Len(batch[i])
  <2>1. TypeInv' /\ CommandDoes(i, k)
    BY <1>1, TypesCommand
  <2>2. k \in CallId /\ k = batch[i][1] /\ Len(batch[i]) \in Nat \ {0}
    BY <2>1 DEF CommandDoes
  <2> QED BY SMTT(10), <2>2
<1>3. /\ delivered[i] \in Nat /\ lastIncludedIndex[i] \in Nat /\ k \in Nat
      /\ \A s \in installing[i] : s.index \in Nat
  BY <1>1, <1>2, TypedEach, CallIds DEF EachTyped
<1>4. \A s \in installing[i] : s.index >= k /\ k # s.index
  <2>1. \A s \in installing[i] : s.index >= k
    BY DEF ApplyCommand
  <2>2. \A s \in installing[i] : \A n \in 1 .. Len(batch[i]) : batch[i][n] # s.index
    BY <1>1 DEF Delivery
  <2> QED BY <1>2, <2>1, <2>2
<1>5. delivered[i] < k /\ (k - 1 = delivered[i] \/ \E s \in installing[i] : s.index = k - 1)
  <2>1. /\ delivered[i] < batch[i][1]
        /\ \/ batch[i][1] - 1 = delivered[i]
           \/ 1 > 1 /\ batch[i][1] - 1 = batch[i][1 - 1]
           \/ \E s \in installing[i] : s.index = batch[i][1] - 1
    BY <1>1, <1>2 DEF Delivery
  <2>2. ~(1 > 1)
    BY SMTT(10)
  <2> QED BY <1>2, <2>1, <2>2
<1>6. k - 1 = delivered[i]
  BY SMTT(10), <1>3, <1>4, <1>5
<1>7. lastIncludedIndex[i] <= delivered[i]
  BY <1>1 DEF Delivery
<1> QED BY SMTT(10), <1>3, <1>4, <1>5, <1>6, <1>7

LEMMA DeliveryCommand ==
    ASSUME Ordered, ServiceInv, RequestInv, DeliveryInv, NEW i \in Server, ApplyCommand(i)
    PROVE  DeliveryInv'
<1>1. /\ TypeInv /\ LogsBounded /\ BatchesInOrder /\ ChosenInOrder /\ ValuesTrue
      /\ StatesTrue /\ \A j \in Server : Delivery(j)
  BY DEF ServiceInv, RequestInv, DeliveryInv
<1>2. PICK k : k = Head(batch[i])
  OBVIOUS
<1>3. /\ k - 1 = delivered[i] /\ k > lastIncludedIndex[i] /\ k > delivered[i]
      /\ \A s \in installing[i] : s.index > k
  BY <1>2, NextInOrder
<1>31. TypeInv' /\ CommandDoes(i, k)
  BY <1>1, <1>2, TypesCommand
<1>4. /\ TypeInv' /\ k \in CallId /\ k <= lastApplied[i] /\ k <= Len(chosen)
      /\ k = batch[i][1] /\ Len(batch[i]) \in Nat \ {0}
      /\ Len(batch'[i]) = Len(batch[i]) - 1
      /\ \A n \in 1 .. Len(batch'[i]) : batch'[i][n] = batch[i][n + 1]
      /\ \A j \in Server : j # i => batch'[j] = batch[j]
      /\ UNCHANGED <<raftVars, lastApplied, installing>>
  BY <1>31 DEF CommandDoes
<1>5. /\ execute(i, chosen[k]) /\ chosen[k] \in Entry
      /\ lastIncludedIndex' = [lastIncludedIndex EXCEPT ![i] = k]
      /\ delivered' = [delivered EXCEPT ![i] = k]
  BY <1>3, <1>31 DEF CommandDoes
<1>6. \/ UNCHANGED <<firstIndex, snapshot>>
      \/ /\ firstIndex' = [firstIndex EXCEPT ![i] = k]
         /\ snapshot' = [snapshot EXCEPT ![i] =
              [KVDB |-> KVDB'[i], LastRequestMap |-> LastRequestMap'[i]]]
  BY <1>31 DEF CommandDoes
<1>7. /\ delivered'[i] = k /\ lastIncludedIndex'[i] = k
      /\ \A j \in Server : j # i => /\ delivered'[j] = delivered[j]
                                    /\ lastIncludedIndex'[j] = lastIncludedIndex[j]
  BY <1>1, <1>5 DEF TypeInv, StateTypes
<1>8. /\ k \in Nat /\ lastApplied[i] \in Nat /\ delivered[i] \in Nat /\ batch[i] \in Seq(CallId)
      /\ batch'[i] \in Seq(CallId) /\ \A s \in installing[i] : s.index \in Nat
  BY <1>1, <1>4, TypedEach, TypedEachNext, CallIds DEF EachTyped
<1>9. StatesTrue'
  <2>1. ChosenGrows
    BY <1>1, <1>4, GrowsSame DEF raftVars
  <2>2. StateTrue(KVDB'[i], LastRequestMap'[i], k)
    <3>1. k \in 1 .. Len(chosen)
      <4>1. k \in CallId /\ k <= Len(chosen) /\ Len(chosen) \in Nat
        BY <1>1, <1>4, TypedEach DEF EachTyped
      <4> QED BY SMTT(10), <4>1 DEF CallId
    <3>2. StateTrue(KVDB[i], LastRequestMap[i], k - 1)
      BY <1>1, <1>3 DEF StatesTrue
    <3> QED BY <1>1, <1>5, <3>1, <3>2, ExecuteTrue
  <2>3. StateTrue(snapshot'[i].KVDB, snapshot'[i].LastRequestMap, firstIndex'[i])
    <3>1. CASE UNCHANGED <<firstIndex, snapshot>>
      BY <1>1, <3>1 DEF StatesTrue
    <3>2. CASE /\ firstIndex' = [firstIndex EXCEPT ![i] = k]
               /\ snapshot' = [snapshot EXCEPT ![i] =
                    [KVDB |-> KVDB'[i], LastRequestMap |-> LastRequestMap'[i]]]
      <4>1. /\ firstIndex'[i] = k /\ snapshot'[i].KVDB = KVDB'[i]
            /\ snapshot'[i].LastRequestMap = LastRequestMap'[i]
        BY <1>1, <3>2 DEF TypeInv, ApplyTypes
      <4> QED BY <2>2, <4>1
    <3> QED BY <1>6, <3>1, <3>2
  <2>4. \A j \in Server : j # i =>
          /\ KVDB'[j] = KVDB[j] /\ LastRequestMap'[j] = LastRequestMap[j]
          /\ snapshot'[j] = snapshot[j] /\ firstIndex'[j] = firstIndex[j]
    <3>1. StateTypes /\ ApplyTypes
      BY <1>1 DEF TypeInv
    <3>2. \A j \in Server : j # i => /\ KVDB'[j] = KVDB[j]
                                     /\ LastRequestMap'[j] = LastRequestMap[j]
      BY <1>5, <3>1, ExecuteEffect
    <3>3. \A j \in Server : j # i => snapshot'[j] = snapshot[j] /\ firstIndex'[j] = firstIndex[j]
      BY <1>6, <3>1 DEF ApplyTypes
    <3> QED BY <3>2, <3>3
  <2>5. \A s \in installing'[i] : StateTrue(s.state.KVDB, s.state.LastRequestMap, s.index)
    BY <1>1, <1>4 DEF StatesTrue
  <2> QED BY <1>1, <1>4, <1>7, <2>1, <2>2, <2>3, <2>4, <2>5, StatesStep
<1>10. Delivery(i)'
  <2>1. PICK b, c : b = batch[i] /\ c = batch'[i]
    OBVIOUS
  <2>2. /\ Len(b) \in Nat \ {0} /\ Len(c) = Len(b) - 1 /\ b[1] = k
        /\ \A n \in 1 .. Len(c) : c[n] = b[n + 1]
        /\ \A n \in 1 .. Len(b) : b[n] \in Nat
    <3>1. \A n \in 1 .. Len(b) : b[n] \in CallId
      BY <1>8, <2>1, SeqElement
    <3>2. \A n \in 1 .. Len(b) : b[n] \in Nat
      BY <3>1, CallIds
    <3> QED BY <1>4, <2>1, <3>2
  <2>3. \A n \in 1 .. Len(b) : n > 1 => k < b[n]
    BY SMTT(10), <1>1, <2>1, <2>2 DEF BatchesInOrder
  <2>4. ASSUME NEW n \in 1 .. Len(c)
        PROVE  /\ k < c[n]
               /\ \/ c[n] - 1 = k
                  \/ n > 1 /\ c[n] - 1 = c[n - 1]
                  \/ \E s \in installing[i] : s.index = c[n] - 1
    <3>1. n + 1 \in 1 .. Len(b) /\ n + 1 > 1 /\ c[n] = b[n + 1] /\ c[n] \in Nat /\ k < c[n]
      BY SMTT(10), <2>2, <2>3
    <3>2. \/ c[n] - 1 = delivered[i]
          \/ c[n] - 1 = b[n]
          \/ \E s \in installing[i] : s.index = c[n] - 1
      <4>1. \/ b[n + 1] - 1 = delivered[i]
            \/ b[n + 1] - 1 = b[(n + 1) - 1]
            \/ \E s \in installing[i] : s.index = b[n + 1] - 1
        BY SMTT(10), <1>1, <2>1, <3>1 DEF Delivery
      <4>2. (n + 1) - 1 = n
        BY SMTT(10), <2>2
      <4> QED BY <3>1, <4>1, <4>2
    <3>3. c[n] - 1 # delivered[i]
      BY SMTT(10), <1>3, <1>8, <3>1
    <3>4. CASE n = 1
      BY <2>2, <3>1, <3>2, <3>3, <3>4
    <3>5. CASE n # 1
      <4>1. n > 1 /\ n - 1 \in 1 .. Len(c) /\ (n - 1) + 1 = n
        BY SMTT(10), <2>2, <3>5
      <4>2. c[n - 1] = b[n]
        BY <2>2, <4>1
      <4> QED BY <3>1, <3>2, <3>3, <4>1, <4>2
    <3> QED BY <3>4, <3>5
  <2>5. \A s \in installing[i] :
          /\ k < s.index /\ s.index <= lastApplied[i]
          /\ \A n \in 1 .. Len(c) : c[n] # s.index
    <3>1. \A n \in 1 .. Len(c) : n + 1 \in 1 .. Len(b)
      BY SMTT(10), <2>2
    <3>2. \A s \in installing[i] : /\ s.index <= lastApplied[i]
                                   /\ \A n \in 1 .. Len(b) : b[n] # s.index
      BY <1>1, <2>1 DEF Delivery
    <3> QED BY <1>3, <1>8, <2>2, <3>1, <3>2
  <2>6. \/ lastApplied[i] = k
        \/ c # <<>> /\ c[Len(c)] = lastApplied[i]
        \/ \E s \in installing[i] : s.index = lastApplied[i]
    <3>1. \/ b[Len(b)] = lastApplied[i]
          \/ \E s \in installing[i] : s.index = lastApplied[i]
      <4>1. lastApplied[i] # delivered[i]
        BY SMTT(30), <1>3, <1>4, <1>8
      <4> QED BY <1>1, <2>1, <4>1 DEF Delivery
    <3>2. CASE Len(b) = 1
      BY <2>2, <3>1, <3>2
    <3>3. CASE Len(b) # 1
      <4>1. Len(c) \in 1 .. Len(c) /\ Len(c) + 1 = Len(b) /\ Len(c) # 0
        BY SMTT(10), <2>2, <3>3
      <4>2. c[Len(c)] = b[Len(b)] /\ c # <<>>
        BY SMTT(10), <2>2, <4>1
      <4> QED BY <3>1, <4>2
    <3> QED BY <3>2, <3>3
  <2>7. \A r, s \in installing[i] : r.index = s.index => r = s
    BY <1>1 DEF Delivery
  <2>8. k <= k
    BY SMTT(10), <1>8
  <2> QED BY SMTT(10), <1>4, <1>7, <2>1, <2>4, <2>5, <2>6, <2>7, <2>8 DEF Delivery
<1>11. \A j \in Server : j # i => Delivery(j)'
  BY <1>1, <1>4, <1>7, DeliverySame
<1> QED BY <1>9, <1>10, <1>11 DEF DeliveryInv

LEMMA DeliverySnapshot ==
    ASSUME Ordered, ServiceInv, DeliveryInv, NEW i \in Server, NEW s \in installing[i],
           ApplySnapshot(i, s)
    PROVE  DeliveryInv'
<1>1. /\ TypeInv /\ BatchesInOrder /\ StatesTrue /\ \A j \in Server : Delivery(j)
  BY DEF ServiceInv, DeliveryInv
<1>2. /\ TypeInv' /\ s \in Installed
      /\ installing' = [installing EXCEPT ![i] = installing[i] \ {s}]
      /\ UNCHANGED <<raftVars, lastApplied, firstIndex, snapshot, batch>>
  BY <1>1, TypesSnapshot
<1>3. /\ delivered[i] \in Nat /\ lastIncludedIndex[i] \in Nat /\ lastApplied[i] \in Nat
      /\ \A r \in installing[i] : r.index \in Nat
      /\ \A n \in 1 .. Len(batch[i]) : batch[i][n] \in Nat
  <2>1. batch[i] \in Seq(CallId) /\ installing[i] \subseteq Installed
    BY <1>1 DEF TypeInv, ApplyTypes
  <2>2. \A n \in 1 .. Len(batch[i]) : batch[i][n] \in CallId
    BY <2>1, SeqElement
  <2> QED BY <1>1, <2>2, TypedEach, CallIds DEF EachTyped
<1>4. PICK x : x = s.index
  OBVIOUS
<1>5. /\ \A n \in 1 .. Len(batch[i]) : batch[i][n] > x
      /\ \A r \in installing[i] : r.index >= x
  BY <1>4 DEF ApplySnapshot
<1>6. delivered[i] < x /\ x <= lastApplied[i] /\ x > lastIncludedIndex[i] /\ x \in Nat
  <2>1. /\ lastIncludedIndex[i] <= delivered[i] /\ delivered[i] < s.index
        /\ s.index <= lastApplied[i]
    BY <1>1 DEF Delivery
  <2> QED BY SMTT(10), <1>3, <1>4, <2>1
<1>7. /\ KVDB' = [KVDB EXCEPT ![i] = s.state.KVDB]
      /\ LastRequestMap' = [LastRequestMap EXCEPT ![i] = s.state.LastRequestMap]
      /\ lastIncludedIndex' = [lastIncludedIndex EXCEPT ![i] = 0]
      /\ delivered' = [delivered EXCEPT ![i] = x]
  BY <1>1, <1>4, <1>6, TypesSnapshot
<1>8. /\ KVDB'[i] = s.state.KVDB /\ LastRequestMap'[i] = s.state.LastRequestMap
      /\ lastIncludedIndex'[i] = 0 /\ delivered'[i] = x
      /\ installing'[i] = installing[i] \ {s}
      /\ \A j \in Server : j # i =>
           /\ KVDB'[j] = KVDB[j] /\ LastRequestMap'[j] = LastRequestMap[j]
           /\ lastIncludedIndex'[j] = lastIncludedIndex[j] /\ delivered'[j] = delivered[j]
           /\ installing'[j] = installing[j]
  BY <1>1, <1>2, <1>7 DEF TypeInv, StateTypes, ApplyTypes
<1>9. StatesTrue'
  <2>1. ChosenGrows
    BY <1>1, <1>2, GrowsSame DEF raftVars
  <2>2. StateTrue(KVDB'[i], LastRequestMap'[i], delivered'[i])
    BY <1>1, <1>4, <1>8 DEF StatesTrue
  <2>3. StateTrue(snapshot'[i].KVDB, snapshot'[i].LastRequestMap, firstIndex'[i])
    BY <1>1, <1>2 DEF StatesTrue
  <2>4. \A r \in installing'[i] : StateTrue(r.state.KVDB, r.state.LastRequestMap, r.index)
    BY <1>1, <1>8 DEF StatesTrue
  <2> QED BY <1>1, <1>2, <1>8, <2>1, <2>2, <2>3, <2>4, StatesStep
<1>10. Delivery(i)'
  <2>1. Delivery(i)
    BY <1>1
  <2>2. ASSUME NEW n \in 1 .. Len(batch[i])
        PROVE  /\ x < batch[i][n]
               /\ \/ batch[i][n] - 1 = x
                  \/ n > 1 /\ batch[i][n] - 1 = batch[i][n - 1]
                  \/ \E r \in installing[i] \ {s} : r.index = batch[i][n] - 1
    <3>1. x < batch[i][n] /\ batch[i][n] - 1 # delivered[i]
      BY SMTT(30), <1>3, <1>5, <1>6
    <3>2. \/ n > 1 /\ batch[i][n] - 1 = batch[i][n - 1]
          \/ \E r \in installing[i] : r.index = batch[i][n] - 1
      BY <2>1, <3>1 DEF Delivery
    <3> QED BY <1>4, <3>1, <3>2
  <2>3. ASSUME NEW r \in installing[i] \ {s}
        PROVE  /\ x < r.index /\ r.index <= lastApplied[i]
               /\ \A n \in 1 .. Len(batch[i]) : batch[i][n] # r.index
    <3>1. r.index # x
      BY <1>4, <2>1 DEF Delivery
    <3>2. x < r.index
      BY SMTT(10), <1>3, <1>5, <1>6, <3>1
    <3> QED BY <2>1, <3>2 DEF Delivery
  <2>4. \A r, q \in installing[i] \ {s} : r.index = q.index => r = q
    BY <2>1 DEF Delivery
  <2>5. \/ lastApplied[i] = x
        \/ batch[i] # <<>> /\ batch[i][Len(batch[i])] = lastApplied[i]
        \/ \E r \in installing[i] \ {s} : r.index = lastApplied[i]
    <3>1. lastApplied[i] # delivered[i]
      BY SMTT(10), <1>3, <1>6
    <3> QED BY <1>4, <2>1, <3>1 DEF Delivery
  <2>6. 0 <= x /\ x <= lastApplied[i]
    BY SMTT(10), <1>6
  <2>7. batch' = batch /\ lastApplied' = lastApplied
    BY <1>2
  <2>8. lastIncludedIndex'[i] <= delivered'[i] /\ delivered'[i] <= lastApplied'[i]
    BY <1>8, <2>6, <2>7
  <2>9. \A n \in 1 .. Len(batch'[i]) :
          /\ delivered'[i] < batch'[i][n]
          /\ \/ batch'[i][n] - 1 = delivered'[i]
             \/ n > 1 /\ batch'[i][n] - 1 = batch'[i][n - 1]
             \/ \E r \in installing'[i] : r.index = batch'[i][n] - 1
    BY <1>8, <2>2, <2>7
  <2>10. \A r \in installing'[i] :
           /\ delivered'[i] < r.index /\ r.index <= lastApplied'[i]
           /\ \A n \in 1 .. Len(batch'[i]) : batch'[i][n] # r.index
    BY <1>8, <2>3, <2>7
  <2>11. \/ lastApplied'[i] = delivered'[i]
         \/ batch'[i] # <<>> /\ batch'[i][Len(batch'[i])] = lastApplied'[i]
         \/ \E r \in installing'[i] : r.index = lastApplied'[i]
    BY <1>8, <2>5, <2>7
  <2>12. \A r, q \in installing'[i] : r.index = q.index => r = q
    BY <1>8, <2>4
  <2> QED BY <2>8, <2>9, <2>10, <2>11, <2>12 DEF Delivery
<1>11. \A j \in Server : j # i => Delivery(j)'
  BY <1>1, <1>2, <1>8, DeliverySame
<1> QED BY <1>9, <1>10, <1>11 DEF DeliveryInv

LEMMA DeliveryRestart ==
    ASSUME ServiceInv, DeliveryInv, NEW i \in Server, Restart(i)
    PROVE  DeliveryInv'
<1>1. TypeInv /\ StatesTrue /\ \A j \in Server : Delivery(j)
  BY DEF ServiceInv, DeliveryInv
<1>2. /\ TypeInv' /\ UNCHANGED <<chosen, values, firstIndex, snapshot>>
      /\ lastApplied' = [lastApplied EXCEPT ![i] = firstIndex[i]]
      /\ batch' = [batch EXCEPT ![i] = <<>>]
      /\ installing' = [installing EXCEPT ![i] = {}]
      /\ KVDB' = [KVDB EXCEPT ![i] = snapshot[i].KVDB]
      /\ LastRequestMap' = [LastRequestMap EXCEPT ![i] = snapshot[i].LastRequestMap]
      /\ lastIncludedIndex' = [lastIncludedIndex EXCEPT ![i] = 0]
      /\ delivered' = [delivered EXCEPT ![i] = firstIndex[i]]
  BY <1>1, TypesRestart
<1>3. /\ lastApplied'[i] = firstIndex[i] /\ batch'[i] = <<>> /\ installing'[i] = {}
      /\ KVDB'[i] = snapshot[i].KVDB /\ LastRequestMap'[i] = snapshot[i].LastRequestMap
      /\ lastIncludedIndex'[i] = 0 /\ delivered'[i] = firstIndex[i]
      /\ \A j \in Server : j # i =>
           /\ lastApplied'[j] = lastApplied[j] /\ batch'[j] = batch[j]
           /\ installing'[j] = installing[j] /\ KVDB'[j] = KVDB[j]
           /\ LastRequestMap'[j] = LastRequestMap[j] /\ delivered'[j] = delivered[j]
           /\ lastIncludedIndex'[j] = lastIncludedIndex[j]
  BY <1>1, <1>2 DEF TypeInv, StateTypes, ApplyTypes
<1>4. StatesTrue'
  <2>1. ChosenGrows
    BY <1>1, <1>2, GrowsSame
  <2>2. StateTrue(KVDB'[i], LastRequestMap'[i], delivered'[i])
    BY <1>1, <1>3 DEF StatesTrue
  <2>3. StateTrue(snapshot'[i].KVDB, snapshot'[i].LastRequestMap, firstIndex'[i])
    BY <1>1, <1>2 DEF StatesTrue
  <2> QED BY <1>1, <1>2, <1>3, <2>1, <2>2, <2>3, StatesStep
<1>5. Delivery(i)'
  <2>1. firstIndex[i] \in Nat /\ Len(<<>>) = 0
    <3>1. Len(<<>>) = 0
      BY SMTT(10)
    <3> QED BY <1>1, <3>1, TypedEach DEF EachTyped
  <2> QED BY SMTT(10), <1>3, <2>1 DEF Delivery
<1>6. \A j \in Server : j # i => Delivery(j)'
  BY <1>1, <1>3, DeliverySame
<1> QED BY <1>4, <1>5, <1>6 DEF DeliveryInv

-----------------------------------------------------------------------------
(* Requests *)

\* A clerk stays in its operation or has returned from it.
ClerksMove ==
    \A c \in Clerk :
        /\ RequestId[c] <= RequestId'[c]
        /\ op[c] = Idle \/ op'[c] = op[c] \/ op[c].RequestId < RequestId'[c]

\* A request whose call has returned was chosen.
ReturnsChosen ==
    \A c \in Clerk :
        \/ RequestId'[c] = RequestId[c]
        \/ /\ RequestId'[c] = RequestId[c] + 1
           /\ Executed(Len(chosen), c, RequestId[c])

\* Every handler that runs served the same request before.
HandlersServe ==
    \A h \in CallId : handlers'[h] # NoHandler =>
        /\ handlers[h] # NoHandler
        /\ handlers'[h].clerk = handlers[h].clerk /\ handlers'[h].op = handlers[h].op

LEMMA MadeKept ==
    ASSUME ClerkTypes, ClerkTypes', ClerksMove, NEW c \in Clerk, NEW type, NEW r \in Nat,
           Made(c, type, r)
    PROVE  Made(c, type, r)'
<1>1. /\ RequestId[c] \in Nat /\ RequestId'[c] \in Nat /\ RequestId[c] <= RequestId'[c]
      /\ op[c] = Idle \/ op'[c] = op[c] \/ op[c].RequestId < RequestId'[c]
  BY ClerkNumbers, ClerkNumbersNext DEF ClerksMove
<1>2. CASE r < RequestId[c]
  BY SMTT(10), <1>1, <1>2 DEF Made
<1>3. CASE op[c] # Idle /\ op[c].RequestId = r /\ op[c].OpType = type
  BY <1>1, <1>3 DEF Made
<1> QED BY <1>2, <1>3 DEF Made

LEMMA EntryFields ==
    ASSUME NEW e \in Entry
    PROVE  e.ClientId \in Clerk /\ e.RequestId \in Nat /\ e.RequestId \in 0 .. (MaxRequests - 1)
  BY SMTT(10), KVAssumption DEF Entry

LEMMA EntryMadeKept ==
    ASSUME ClerkTypes, ClerkTypes', ClerksMove, NEW e \in Entry,
           Made(e.ClientId, e.OpType, e.RequestId)
    PROVE  Made(e.ClientId, e.OpType, e.RequestId)'
<1>1. PICK c, type, r : c = e.ClientId /\ type = e.OpType /\ r = e.RequestId
  OBVIOUS
<1>2. c \in Clerk /\ r \in Nat
  BY <1>1, EntryFields
<1>3. Made(c, type, r)'
  BY <1>1, <1>2, MadeKept
<1> QED BY <1>1, <1>3

LEMMA HandlerMadeKept ==
    ASSUME ClerkTypes, ClerkTypes', ClerksMove, NEW g \in Handler,
           Made(g.clerk, g.op.OpType, g.op.RequestId)
    PROVE  Made(g.clerk, g.op.OpType, g.op.RequestId)'
<1>1. PICK c, type, r : c = g.clerk /\ type = g.op.OpType /\ r = g.op.RequestId
  OBVIOUS
<1>2. c \in Clerk /\ g.op \in Operation
  BY <1>1, HandlerFields
<1>3. r \in Nat
  BY <1>1, <1>2, OperationFields
<1>4. Made(c, type, r)'
  BY <1>1, <1>2, <1>3, MadeKept
<1> QED BY <1>1, <1>4

\* Handlers, logs and the chosen log hold requests that were made.
LEMMA RequestsKept ==
    ASSUME TypeInv, TypeInv', RequestsMade, ClerksMove,
           \A h \in CallId : handlers'[h] # NoHandler =>
               \/ /\ handlers[h] # NoHandler
                  /\ handlers'[h].clerk = handlers[h].clerk /\ handlers'[h].op = handlers[h].op
               \/ Made(handlers[h].clerk, handlers[h].op.OpType, handlers[h].op.RequestId)',
           \A i \in Server : \A n \in 1 .. Len(log'[i]) :
               \/ \E j \in Server : n \in 1 .. Len(log[j]) /\ log'[i][n] = log[j][n]
               \/ Made(log[i][n].ClientId, log[i][n].OpType, log[i][n].RequestId)',
           \A n \in 1 .. Len(chosen') :
               \/ n \in 1 .. Len(chosen) /\ chosen'[n] = chosen[n]
               \/ \E j \in Server : n \in 1 .. Len(log[j]) /\ chosen'[n] = log[j][n]
    PROVE  RequestsMade'
<1>1. ClerkTypes /\ ClerkTypes' /\ RaftTypes /\ HandlerTypes
  BY DEF TypeInv
<1>2. ASSUME NEW h \in CallId, handlers'[h] # NoHandler
      PROVE  Made(handlers[h].clerk, handlers[h].op.OpType, handlers[h].op.RequestId)'
  <2>1. CASE /\ handlers[h] # NoHandler
             /\ handlers'[h].clerk = handlers[h].clerk /\ handlers'[h].op = handlers[h].op
    <3>1. PICK g \in Handler : g = handlers[h]
      BY <1>1, <2>1 DEF HandlerTypes
    <3>2. Made(g.clerk, g.op.OpType, g.op.RequestId)
      BY <2>1, <3>1 DEF RequestsMade
    <3>3. Made(g.clerk, g.op.OpType, g.op.RequestId)'
      BY <1>1, <3>2, HandlerMadeKept
    <3> QED BY <2>1, <3>1, <3>3 DEF Made
  <2> QED BY <1>2, <2>1
<1>3. \A j \in Server : \A n \in 1 .. Len(log[j]) :
        /\ log[j][n] \in Entry
        /\ Made(log[j][n].ClientId, log[j][n].OpType, log[j][n].RequestId)
  BY <1>1, LogElements DEF RequestsMade
<1>4. ASSUME NEW i \in Server, NEW n \in 1 .. Len(log'[i])
      PROVE  Made(log[i][n].ClientId, log[i][n].OpType, log[i][n].RequestId)'
  <2>1. CASE \E j \in Server : n \in 1 .. Len(log[j]) /\ log'[i][n] = log[j][n]
    <3>1. PICK e \in Entry : log'[i][n] = e /\ Made(e.ClientId, e.OpType, e.RequestId)
      BY <1>3, <2>1
    <3>2. Made(e.ClientId, e.OpType, e.RequestId)'
      BY <1>1, <3>1, EntryMadeKept
    <3> QED BY <3>1, <3>2 DEF Made
  <2> QED BY <2>1
<1>5. ASSUME NEW n \in 1 .. Len(chosen')
      PROVE  Made(chosen[n].ClientId, chosen[n].OpType, chosen[n].RequestId)'
  <2>1. \A m \in 1 .. Len(chosen) :
          /\ chosen[m] \in Entry
          /\ Made(chosen[m].ClientId, chosen[m].OpType, chosen[m].RequestId)
    BY <1>1, SeqElement DEF RaftTypes, RequestsMade
  <2>2. PICK e \in Entry : chosen'[n] = e /\ Made(e.ClientId, e.OpType, e.RequestId)
    BY <1>3, <2>1
  <2>3. Made(e.ClientId, e.OpType, e.RequestId)'
    BY <1>1, <2>2, EntryMadeKept
  <2> QED BY <2>2, <2>3 DEF Made
<1> QED BY <1>2, <1>4, <1>5 DEF RequestsMade

LEMMA ReturnedKept ==
    ASSUME TypeInv, TypeInv', ReturnedChosen, ReturnsChosen, ChosenGrows
    PROVE  ReturnedChosen'
<1> SUFFICES ASSUME NEW c \in Clerk, NEW r \in 0 .. (RequestId'[c] - 1)
             PROVE  Executed(Len(chosen), c, r)'
  BY DEF ReturnedChosen
<1>1. RequestId[c] \in Nat /\ RequestId'[c] \in Nat
  BY TypedEach, TypedEachNext DEF EachTyped
<1>2. Executed(Len(chosen), c, r)
  <2>1. CASE r < RequestId[c]
    BY SMTT(10), <1>1, <2>1 DEF ReturnedChosen
  <2>2. CASE r >= RequestId[c]
    BY SMTT(10), <1>1, <2>2 DEF ReturnsChosen
  <2> QED BY SMTT(10), <1>1, <2>1, <2>2
<1>3. PICK n, m : n = Len(chosen) /\ m = Len(chosen')
  OBVIOUS
<1>4. n \in Nat /\ m \in Nat /\ n <= m
  BY <1>3 DEF ChosenGrows
<1>5. Executed(m, c, r)'
  BY SMTT(10), <1>2, <1>3, <1>4, ExecutedGrows
<1> QED BY <1>3, <1>5 DEF Executed

LEMMA OneServes ==
    ASSUME HandlerTypes, NEW h \in CallId, NEW g \in Handler \cup {NoHandler},
           handlers' = [handlers EXCEPT ![h] = g],
           g # NoHandler => /\ handlers[h] # NoHandler
                            /\ g.clerk = handlers[h].clerk /\ g.op = handlers[h].op
    PROVE  HandlersServe
  BY OneHandlerChanges DEF HandlersServe

LEMMA RequestsSame ==
    ASSUME UNCHANGED <<RequestId, op>>, TypeInv
    PROVE  ClerksMove /\ ReturnsChosen
<1>1. \A c \in Clerk : RequestId[c] \in Nat
  BY TypedEach DEF EachTyped
<1> QED BY SMTT(10), <1>1 DEF ClerksMove, ReturnsChosen

\* Steps that choose nothing.
LEMMA RequestUnchosen ==
    ASSUME TypeInv, TypeInv', RequestInv, UNCHANGED <<chosen, values>>, ClerksMove,
           ReturnsChosen, RequestsMade'
    PROVE  RequestInv'
<1>1. ReturnedChosen'
  BY GrowsSame, ReturnedKept DEF RequestInv
<1>2. ChosenInOrder' /\ ValuesTrue'
  BY SMTT(10) DEF RequestInv, ChosenInOrder, ValuesTrue, Executed, ValueAt
<1> QED BY <1>1, <1>2 DEF RequestInv

LEMMA RequestServes ==
    ASSUME TypeInv, TypeInv', RequestInv, UNCHANGED <<chosen, values>>, ClerksMove,
           ReturnsChosen, HandlersServe,
           \A i \in Server : \A n \in 1 .. Len(log'[i]) :
               \E j \in Server : n \in 1 .. Len(log[j]) /\ log'[i][n] = log[j][n]
    PROVE  RequestInv'
<1>1. \A n \in 1 .. Len(chosen') : n \in 1 .. Len(chosen) /\ chosen'[n] = chosen[n]
  OBVIOUS
<1>2. RequestsMade
  BY DEF RequestInv
<1>3. RequestsMade'
  BY <1>1, <1>2, RequestsKept DEF HandlersServe
<1> QED BY <1>3, RequestUnchosen

\* A reply of OK for a request that was chosen.
LEMMA RequestReply ==
    ASSUME ServiceInv, TypeInv', RequestInv, UNCHANGED <<log, chosen, values>>,
           NEW h \in CallId, handlers[h] # NoHandler, NEW err, NEW value \in Value,
           Reply(h, err, value),
           (err = "OK" /\ call[handlers[h].clerk] = h) =>
               Executed(Len(chosen), handlers[h].clerk, handlers[h].op.RequestId)
    PROVE  RequestInv'
<1>1. TypeInv /\ ClerksSound /\ HandlersSound
  BY DEF ServiceInv
<1>2. PICK c : c = handlers[h].clerk
  OBVIOUS
<1>3. /\ c \in Clerk /\ handlers[h] \in Handler
      /\ handlers' = [handlers EXCEPT ![h] = NoHandler]
      /\ call[c] # h => UNCHANGED clerkVars
      /\ call[c] = h => /\ handlers[h].op = op[c] /\ op[c] \in Operation
                        /\ op[c].RequestId = RequestId[c]
      /\ call[c] = h /\ err = "OK" =>
           /\ RequestId' = [RequestId EXCEPT ![c] = RequestId[c] + 1]
           /\ op' = [op EXCEPT ![c] = Idle]
      /\ call[c] = h /\ err # "OK" => UNCHANGED <<RequestId, op>>
  <2>1. ReplyDoes(h, err, value, c)
    BY <1>1, <1>2, ReplyEffect
  <2> QED BY <2>1 DEF ReplyDoes
<1>4. HandlersServe
  BY <1>1, <1>3, OneServes DEF TypeInv
<1>5. ClerksMove /\ ReturnsChosen
  <2>1. CASE call[c] # h \/ err # "OK"
    <3>1. UNCHANGED <<RequestId, op>>
      BY <1>3, <2>1 DEF clerkVars
    <3> QED BY <1>1, <3>1, RequestsSame
  <2>2. CASE call[c] = h /\ err = "OK"
    <3>1. /\ RequestId \in [Clerk -> 0 .. MaxRequests]
          /\ op \in [Clerk -> Operation \cup {Idle}] /\ MaxRequests \in Nat
      BY <1>1, KVAssumption DEF TypeInv, ClerkTypes
    <3>2. /\ RequestId'[c] = RequestId[c] + 1 /\ RequestId[c] \in Nat
          /\ op[c].RequestId = RequestId[c]
          /\ \A d \in Clerk : d # c => RequestId'[d] = RequestId[d] /\ op'[d] = op[d]
      BY SMTT(30), <1>3, <2>2, <3>1
    <3>3. Executed(Len(chosen), c, RequestId[c])
      BY <1>2, <1>3, <2>2
    <3>4. \A d \in Clerk : RequestId[d] \in Nat
      BY SMTT(30), <3>1
    <3>5. ClerksMove
      <4>1. /\ \A d \in Clerk : RequestId[d] <= RequestId'[d]
            /\ op[c].RequestId < RequestId'[c]
        BY SMTT(10), <3>2, <3>4
      <4> QED BY <3>2, <4>1 DEF ClerksMove
    <3>6. ReturnsChosen
      BY <3>2, <3>3 DEF ReturnsChosen
    <3> QED BY <3>5, <3>6
  <2> QED BY <2>1, <2>2
<1>6. \A i \in Server : \A n \in 1 .. Len(log'[i]) :
        \E j \in Server : n \in 1 .. Len(log[j]) /\ log'[i][n] = log[j][n]
  OBVIOUS
<1> QED BY <1>1, <1>4, <1>5, <1>6, RequestServes

LEMMA RequestSend ==
    ASSUME ServiceInv, RequestInv, NEW c \in Clerk,
           (\E type \in OpType : Call(c, type)) \/ Retry(c)
    PROVE  RequestInv'
<1>1. TypeInv /\ LogsBounded /\ ClerksSound /\ HandlersSound
  BY DEF ServiceInv
<1>2. PICK n : n = calls + 1
  OBVIOUS
<1>3. /\ TypeInv' /\ n \in CallId /\ UNCHANGED <<raftVars, RequestId>>
      /\ \E o \in Operation, g \in Handler :
           /\ o.RequestId = RequestId[c] /\ op' = [op EXCEPT ![c] = o]
           /\ op[c] = Idle \/ op[c] = o
           /\ handlers' = [handlers EXCEPT ![n] = g]
           /\ g.server = LeaderId[c] /\ g.clerk = c /\ g.op = o /\ g.pc = "sent"
  <2>1. TypeInv' /\ SendDoes(c, n)
    BY <1>1, <1>2, TypesSend
  <2> QED BY <2>1 DEF SendDoes
<1>4. PICK o \in Operation, g \in Handler :
        /\ o.RequestId = RequestId[c] /\ op' = [op EXCEPT ![c] = o]
        /\ op[c] = Idle \/ op[c] = o
        /\ handlers' = [handlers EXCEPT ![n] = g] /\ g.clerk = c /\ g.op = o
  BY <1>3
<1>5. UNCHANGED <<log, chosen, values>> /\ ClerkTypes /\ HandlerTypes
  BY <1>1, <1>3 DEF raftVars, TypeInv
<1>6. op'[c] = o /\ \A d \in Clerk : d # c => op'[d] = op[d]
  BY <1>4, <1>5 DEF ClerkTypes
<1>7. ClerksMove /\ ReturnsChosen
  <2>1. \A d \in Clerk : RequestId[d] \in Nat
    BY <1>1, TypedEach DEF EachTyped
  <2>2. \A d \in Clerk : RequestId[d] <= RequestId'[d] /\ RequestId'[d] = RequestId[d]
    BY SMTT(10), <1>3, <2>1
  <2> QED BY <1>4, <1>6, <2>2 DEF ClerksMove, ReturnsChosen
<1>8. handlers'[n] = g /\ \A x \in CallId : x # n => handlers'[x] = handlers[x]
  BY ZenonT(30), <1>3, <1>4, <1>5, OneHandlerChanges
<1>9. Made(c, o.OpType, o.RequestId)'
  <2>1. o # Idle
    BY OperationFields
  <2> QED BY <1>6, <2>1 DEF Made
<1>10. RequestsMade'
  <2>1. RequestsMade
    BY DEF RequestInv
  <2>2. ASSUME NEW h \in CallId, handlers'[h] # NoHandler
        PROVE  \/ /\ handlers[h] # NoHandler
                  /\ handlers'[h].clerk = handlers[h].clerk /\ handlers'[h].op = handlers[h].op
               \/ Made(handlers[h].clerk, handlers[h].op.OpType, handlers[h].op.RequestId)'
    <3>1. CASE h = n
      BY <1>4, <1>8, <1>9, <3>1 DEF Made
    <3> QED BY <1>8, <2>2, <3>1
  <2> QED BY <1>1, <1>3, <1>5, <1>7, <2>1, <2>2, RequestsKept
<1> QED BY <1>1, <1>3, <1>5, <1>7, <1>10, RequestUnchosen

LEMMA RequestStart ==
    ASSUME ServiceInv, RaftInv, RequestInv, NEW h \in CallId, Start(h)
    PROVE  RequestInv'
<1>1. TypeInv /\ LogsBounded /\ ClerksSound /\ HandlersSound /\ LeadersSound /\ RequestsMade
  BY DEF ServiceInv, RaftInv, RequestInv
<1>2. PICK i : i = handlers[h].server
  OBVIOUS
<1>3. /\ TypeInv' /\ i \in Server /\ handlers[h] \in Handler
      /\ UNCHANGED <<term, isLeader, chosen, values>>
      /\ \/ ~isLeader[i] /\ Reply(h, "ErrWrongLeader", <<>>) /\ UNCHANGED log
         \/ /\ isLeader[i] /\ UNCHANGED clerkVars
            /\ \E g \in Handler, e \in Entry :
                 /\ handlers' = [handlers EXCEPT ![h] = g] /\ g.clerk = handlers[h].clerk
                 /\ g.op = handlers[h].op
                 /\ log' = [log EXCEPT ![i] = Append(log[i], e)]
                 /\ e.ClientId = g.clerk /\ e.OpType = g.op.OpType
                 /\ e.RequestId = g.op.RequestId
  <2>1. TypeInv' /\ StartDoes(h, i)
    BY <1>1, <1>2, TypesStart
  <2> QED BY <2>1 DEF StartDoes
<1>4. handlers[h] # NoHandler /\ <<>> \in Value
  <2>1. <<>> \in Value
    BY SMTT(10) DEF Value
  <2> QED BY <1>3, <2>1, HandlerFields
<1>5. CASE Reply(h, "ErrWrongLeader", <<>>) /\ UNCHANGED log
  <2>1. PICK err : err = "ErrWrongLeader"
    OBVIOUS
  <2>2. err # "OK" /\ Reply(h, err, <<>>)
    BY <1>5, <2>1
  <2> QED BY <1>3, <1>4, <1>5, <2>2, RequestReply
<1>6. CASE /\ UNCHANGED clerkVars
           /\ \E g \in Handler, e \in Entry :
                /\ handlers' = [handlers EXCEPT ![h] = g] /\ g.clerk = handlers[h].clerk
                /\ g.op = handlers[h].op
                /\ log' = [log EXCEPT ![i] = Append(log[i], e)]
                /\ e.ClientId = g.clerk /\ e.OpType = g.op.OpType
                /\ e.RequestId = g.op.RequestId
  <2>1. PICK g \in Handler, e \in Entry :
          /\ handlers' = [handlers EXCEPT ![h] = g] /\ g.clerk = handlers[h].clerk
          /\ g.op = handlers[h].op
          /\ log' = [log EXCEPT ![i] = Append(log[i], e)]
          /\ e.ClientId = g.clerk /\ e.OpType = g.op.OpType
          /\ e.RequestId = g.op.RequestId
    BY <1>6
  <2>2. UNCHANGED <<RequestId, op>>
    BY <1>6 DEF clerkVars
  <2>3. ClerksMove /\ ReturnsChosen
    BY <1>1, <2>2, RequestsSame
  <2>4. HandlersServe
    BY <1>1, <1>4, <2>1, OneServes DEF TypeInv
  <2>5. Made(e.ClientId, e.OpType, e.RequestId)
    BY <1>1, <1>4, <2>1 DEF RequestsMade
  <2>6. Made(e.ClientId, e.OpType, e.RequestId)'
    BY <1>1, <1>3, <2>3, <2>5, EntryMadeKept DEF TypeInv
  <2>7. /\ log'[i] = Append(log[i], e) /\ log[i] \in Seq(Entry)
        /\ \A j \in Server : j # i => log'[j] = log[j]
    BY <1>1, <1>3, <2>1 DEF TypeInv, RaftTypes
  <2>8. /\ Len(log[i]) \in Nat /\ Len(log'[i]) = Len(log[i]) + 1
        /\ log'[i][Len(log[i]) + 1] = e
        /\ \A n \in 1 .. Len(log[i]) : log'[i][n] = log[i][n]
    BY SMTT(10), <2>7, SeqAppend, SeqLength
  <2>9. ASSUME NEW j \in Server, NEW n \in 1 .. Len(log'[j])
        PROVE  \/ \E k \in Server : n \in 1 .. Len(log[k]) /\ log'[j][n] = log[k][n]
               \/ Made(log[j][n].ClientId, log[j][n].OpType, log[j][n].RequestId)'
    <3>1. CASE j = i /\ n = Len(log[i]) + 1
      BY <2>6, <2>8, <3>1 DEF Made
    <3>2. CASE ~(j = i /\ n = Len(log[i]) + 1)
      <4>1. n \in 1 .. Len(log[j]) /\ log'[j][n] = log[j][n]
        BY SMTT(30), <2>7, <2>8, <3>2
      <4> QED BY <4>1
    <3> QED BY <3>1, <3>2
  <2>10. RequestsMade'
    BY <1>1, <1>3, <2>3, <2>4, <2>9, RequestsKept DEF HandlersServe
  <2> QED BY <1>1, <1>3, <2>3, <2>10, RequestUnchosen
<1> QED BY <1>3, <1>5, <1>6

LEMMA RequestLeader ==
    ASSUME ServiceInv, ServiceInv', RequestInv, NEW i \in Server, NEW j \in Server,
           Elect(i) \/ StepDown(i, j) \/ Follow(i, j)
    PROVE  RequestInv'
<1>1. TypeInv /\ TypeInv'
  BY DEF ServiceInv
<1>2. UNCHANGED <<chosen, values, handlers, clerkVars>>
  BY DEF Elect, StepDown, Follow
<1>3. ClerksMove /\ ReturnsChosen /\ HandlersServe
  BY <1>1, <1>2, RequestsSame DEF clerkVars, HandlersServe
<1>4. \A k \in Server : log'[k] = log[k] \/ log'[k] = log[j]
  BY <1>1 DEF TypeInv, RaftTypes, Elect, StepDown, Follow
<1> QED BY <1>1, <1>2, <1>3, <1>4, RequestServes

LEMMA RequestInstall ==
    ASSUME ServiceInv, RaftInv, RequestInv, NEW j \in Server, NEW i \in Server,
           InstallSnapshot(j, i)
    PROVE  RequestInv'
<1>1. TypeInv /\ LogsBounded /\ BatchesInOrder /\ AppliedIsHeld
  BY DEF ServiceInv, RaftInv
<1>2. PICK f : f = firstIndex[i]
  OBVIOUS
<1>3. /\ TypeInv' /\ f \in CallId /\ f <= Len(log[i])
      /\ Len(log'[j]) = IF f <= Len(log[j]) THEN Len(log[j]) ELSE f
      /\ \A n \in 1 .. Len(log'[j]) :
           log'[j][n] = IF n <= f THEN log[i][n] ELSE log[j][n]
      /\ \A k \in Server : k # j => log'[k] = log[k]
      /\ UNCHANGED <<chosen, values, handlers, clerkVars>>
  <2>1. TypeInv' /\ InstallDoes(j, i, f)
    BY <1>1, <1>2, TypesInstall
  <2> QED BY <2>1 DEF InstallDoes
<1>4. ClerksMove /\ ReturnsChosen /\ HandlersServe
  BY <1>1, <1>3, RequestsSame DEF clerkVars, HandlersServe
<1>5. Len(log[i]) \in Nat /\ Len(log[j]) \in Nat /\ f \in Nat
  BY <1>1, <1>3, TypedEach, CallIds DEF EachTyped
<1>6. ASSUME NEW k \in Server, NEW n \in 1 .. Len(log'[k])
      PROVE  \E x \in Server : n \in 1 .. Len(log[x]) /\ log'[k][n] = log[x][n]
  <2>1. CASE k = j /\ n <= f
    <3>1. n \in 1 .. Len(log[i]) /\ log'[k][n] = log[i][n]
      BY SMTT(10), <1>3, <1>5, <2>1
    <3> QED BY <3>1
  <2>2. CASE k = j /\ ~(n <= f)
    <3>1. n \in 1 .. Len(log[j]) /\ log'[k][n] = log[j][n]
      BY SMTT(30), <1>3, <1>5, <2>2
    <3> QED BY <3>1
  <2>3. CASE k # j
    BY <1>3, <2>3
  <2> QED BY <2>1, <2>2, <2>3
<1> QED BY <1>1, <1>3, <1>4, <1>6, RequestServes

LEMMA RequestChoose ==
    ASSUME ServiceInv, RequestInv, NEW i \in Server, Choose(i)
    PROVE  RequestInv'
<1>1. /\ TypeInv /\ LogsBounded /\ ClerksSound /\ RequestsMade /\ ReturnedChosen
      /\ ChosenInOrder /\ ValuesTrue
  BY DEF ServiceInv, RequestInv
<1>2. PICK n, e : n = Len(chosen) /\ e = log[i][Len(chosen) + 1]
  OBVIOUS
<1>3. /\ TypeInv' /\ Len(chosen') = n + 1 /\ n + 1 <= Len(log[i]) /\ e \in Entry
      /\ chosen'[n + 1] = e
      /\ \A m \in 1 .. n : chosen'[m] = chosen[m] /\ values'[m] = values[m]
  BY <1>1, <1>2, TypesChoose
<1>4. UNCHANGED <<log, handlers, RequestId, op>> /\ RecordChosen(e)
  BY <1>2 DEF Choose, clerkVars
<1>5. ChosenGrows /\ ClerksMove /\ ReturnsChosen
  BY <1>1, <1>4, GrowsChoose, RequestsSame
<1>6. n \in Nat /\ n + 1 \in 1 .. Len(log[i])
  BY SMTT(30), <1>1, <1>2, <1>3, LogElements DEF TypeInv
<1>7. RequestsMade'
  <2>1. \A m \in 1 .. Len(chosen') :
          \/ m \in 1 .. Len(chosen) /\ chosen'[m] = chosen[m]
          \/ \E j \in Server : m \in 1 .. Len(log[j]) /\ chosen'[m] = log[j][m]
    BY SMTT(10), <1>2, <1>3, <1>6
  <2> QED BY <1>1, <1>3, <1>4, <1>5, <2>1, RequestsKept
<1>8. ReturnedChosen'
  BY <1>1, <1>3, <1>5, ReturnedKept
<1>9. /\ \A m \in 0 .. n : ValueAt(m)' = ValueAt(m)
      /\ \A m \in 0 .. n : \A c, r : Executed(m, c, r)' <=> Executed(m, c, r)
  BY SMTT(10), <1>2, <1>5, <1>6, HistoryKept
<1>10. ChosenInOrder'
  <2> SUFFICES ASSUME NEW m \in 1 .. (n + 1), NEW d, d = chosen'[m],
                      NEW r \in 0 .. (d.RequestId - 1)
               PROVE  Executed(m - 1, d.ClientId, r)'
    BY <1>3 DEF ChosenInOrder
  <2>1. CASE m \in 1 .. n
    <3>1. Executed(m - 1, d.ClientId, r)
      BY <1>1, <1>2, <1>3, <2>1 DEF ChosenInOrder
    <3>2. PICK k, c : k = m - 1 /\ c = d.ClientId
      OBVIOUS
    <3>3. Executed(k, c, r)'
      BY SMTT(10), <1>6, <1>9, <2>1, <3>1, <3>2
    <3> QED BY <3>2, <3>3
  <2>2. CASE m = n + 1
    <3>1. PICK c, q : c = e.ClientId /\ q = e.RequestId
      OBVIOUS
    <3>2. c \in Clerk /\ q \in Nat /\ RequestId[c] \in Nat
      BY <1>1, <1>3, <3>1, EntryFields, TypedEach DEF EachTyped
    <3>3. q <= RequestId[c]
      <4>1. Made(c, e.OpType, q)
        BY <1>1, <1>2, <1>6, <3>1 DEF RequestsMade
      <4>2. q < RequestId[c] \/ q = RequestId[c]
        BY <1>1, <3>2, <4>1 DEF Made, ClerksSound
      <4> QED BY SMTT(10), <3>2, <4>2
    <3>4. r \in 0 .. (RequestId[c] - 1)
      BY SMTT(30), <1>3, <2>2, <3>1, <3>2, <3>3
    <3>5. Executed(n, c, r)
      BY <1>1, <1>2, <3>2, <3>4 DEF ReturnedChosen
    <3>6. Executed(n, c, r)'
      BY SMTT(10), <1>6, <1>9, <3>5
    <3>7. m - 1 = n /\ d.ClientId = c
      BY SMTT(30), <1>3, <1>6, <2>2, <3>1
    <3> QED BY <3>6, <3>7
  <2> QED BY SMTT(10), <1>6, <2>1, <2>2
<1>11. ValuesTrue'
  <2> SUFFICES ASSUME NEW m \in 1 .. (n + 1), NEW d, d = chosen'[m]
               PROVE  values'[m] = IF Executed(m - 1, d.ClientId, d.RequestId)'
                                   THEN ValueAt(m - 1)' ELSE Written(d, ValueAt(m - 1)')
    BY <1>3 DEF ValuesTrue, Written
  <2>1. PICK k, v, c, r : k = m - 1 /\ v = ValueAt(m - 1) /\ c = d.ClientId /\ r = d.RequestId
    OBVIOUS
  <2>2. k \in 0 .. n /\ v = ValueAt(k)
    BY SMTT(10), <1>6, <2>1
  <2>3. ValueAt(k)' = v /\ (Executed(k, c, r)' <=> Executed(k, c, r))
    BY <1>9, <2>2
  <2>4. values'[m] = IF Executed(k, c, r) THEN v ELSE Written(d, v)
    <3>1. CASE m \in 1 .. n
      BY <1>1, <1>2, <1>3, <2>1, <3>1 DEF ValuesTrue
    <3>2. CASE m = n + 1
      <4>1. k = n /\ d = e
        BY SMTT(30), <1>3, <1>6, <2>1, <3>2
      <4>2. values' = Append(values, IF Executed(n, c, r) THEN v ELSE Written(e, v))
        BY <1>2, <1>4, <2>1, <2>2, <4>1 DEF RecordChosen
      <4>3. values \in Seq(Value) /\ Len(values) = n
        BY <1>1, <1>2 DEF TypeInv, RaftTypes, LogsBounded
      <4>4. values'[n + 1] = IF Executed(n, c, r) THEN v ELSE Written(e, v)
        BY SMTT(10), <4>2, <4>3
      <4> QED BY <3>2, <4>1, <4>4
    <3> QED BY SMTT(30), <1>6, <3>1, <3>2
  <2> QED BY <2>1, <2>3, <2>4
<1> QED BY <1>7, <1>8, <1>10, <1>11 DEF RequestInv

-----------------------------------------------------------------------------
(* Answers *)

\* Terms only go up, and the log of a leader only grows.
RaftMoves ==
    \A i \in Server :
        /\ term[i] <= term'[i]
        /\ isLeader'[i] /\ term'[i] = term[i] =>
             /\ isLeader[i] /\ Len(log[i]) <= Len(log'[i])
             /\ \A n \in 1 .. Len(log[i]) : log'[i][n] = log[i][n]

\* A clerk waits for the same call, for none, or for a new one.
CallsMove ==
    /\ calls <= calls'
    /\ \A c \in Clerk : \/ call'[c] = call[c] /\ since'[c] = since[c]
                        \/ call'[c] = 0 \/ call'[c] > calls

\* Handler h does not start its entry in this step.
KeepsEntry(h) ==
    handlers'[h].pc \in {"started", "waits", "leaves"} =>
        /\ handlers[h].pc \in {"started", "waits", "leaves"}
        /\ handlers'[h].server = handlers[h].server /\ handlers'[h].clerk = handlers[h].clerk
        /\ handlers'[h].op = handlers[h].op /\ handlers'[h].index = handlers[h].index
        /\ handlers'[h].term = handlers[h].term

\* Nor does it begin to wait or get its answer.
Keeps(h) ==
    /\ KeepsEntry(h)
    /\ handlers'[h].pc = "waits" => handlers'[h] = handlers[h]
    /\ handlers'[h].pc = "leaves" /\ handlers'[h].err = "OK" => handlers'[h] = handlers[h]

\* A handler that has made a channel keeps its index until it is gone.
OwnersKeep ==
    \A y \in CallId : (y <= calls /\ handlers'[y] # NoHandler) =>
        /\ handlers[y] # NoHandler
        /\ handlers[y].pc \in {"waits", "leaves"} =>
             /\ handlers'[y].pc \in {"waits", "leaves"}
             /\ handlers'[y].server = handlers[y].server
             /\ handlers'[y].index = handlers[y].index

LEMMA HandlerRuns ==
    ASSUME TypeInv, HandlersSound, NEW h \in CallId,
           handlers[h].pc \in {"started", "waits", "leaves"}
    PROVE  /\ handlers[h] \in Handler /\ h \in Nat \ {0} /\ h <= calls /\ calls \in Nat
           /\ handlers[h].server \in Server /\ handlers[h].clerk \in Clerk
           /\ handlers[h].op \in Operation /\ handlers[h].index \in CallId
           /\ handlers[h].index \in Nat \ {0} /\ handlers[h].term \in Nat
<1>1. /\ handlers[h] \in Handler /\ handlers[h] # NoHandler /\ handlers[h].server \in Server
      /\ handlers[h].clerk \in Clerk /\ handlers[h].op \in Operation
      /\ handlers[h].index \in 0 .. MaxCalls
  BY RunningHandler
<1>2. handlers[h].term \in Nat
  BY SMTT(10), <1>1, HandlerFields, KVAssumption
<1>3. h \in Nat \ {0} /\ calls \in Nat
  BY TypedEach, CallIds DEF EachTyped
<1>4. h <= calls /\ handlers[h].index # 0
  BY SMTT(10), <1>1, <1>3 DEF HandlersSound
<1> QED BY SMTT(10), <1>1, <1>2, <1>3, <1>4, KVAssumption DEF CallId

LEMMA CallKept ==
    ASSUME TypeInv, HandlersSound, CallsMove, NEW h \in CallId,
           handlers[h].pc \in {"started", "waits", "leaves"}, NEW c \in Clerk, call'[c] = h
    PROVE  call[c] = h /\ since'[c] = since[c]
<1>1. h \in Nat \ {0} /\ h <= calls /\ calls \in Nat
  BY HandlerRuns
<1> QED BY SMTT(10), <1>1 DEF CallsMove

LEMMA StartedKept ==
    ASSUME ServiceInv, TypeInv', RaftMoves, CallsMove, ChosenGrows, NEW h \in CallId,
           StartedBy(h), KeepsEntry(h)
    PROVE  StartedBy(h)'
<1> SUFFICES ASSUME handlers'[h].pc \in {"started", "waits", "leaves"}
             PROVE  StartedBy(h)'
  BY DEF StartedBy
<1>1. /\ TypeInv /\ ClerksSound /\ HandlersSound
      /\ handlers[h].pc \in {"started", "waits", "leaves"}
  BY DEF ServiceInv, KeepsEntry
<1>2. PICK i \in Server, c \in Clerk, k \in Nat \ {0}, t \in Nat :
        i = handlers[h].server /\ c = handlers[h].clerk /\ k = handlers[h].index
        /\ t = handlers[h].term
  BY <1>1, HandlerRuns
<1>3. /\ i = handlers'[h].server /\ c = handlers'[h].clerk /\ k = handlers'[h].index
      /\ t = handlers'[h].term /\ handlers'[h].op = handlers[h].op
  BY <1>2 DEF KeepsEntry
<1>4. EntryOf(h)' = EntryOf(h)
  BY <1>2, <1>3 DEF EntryOf
<1>5. term[i] \in Nat /\ term'[i] \in Nat /\ Len(log[i]) \in Nat /\ Len(log'[i]) \in Nat
  <2>1. RaftTypes /\ RaftTypes'
    BY <1>1 DEF TypeInv
  <2> QED BY <1>1, TypedEach, TypedEachNext DEF EachTyped
<1>6. /\ t <= term[i] /\ term[i] <= term'[i]
      /\ isLeader[i] /\ term[i] = t => k <= Len(log[i]) /\ log[i][k] = EntryOf(h)
      /\ call[c] = h /\ k <= since[c] => chosen[k].Term # t
  BY <1>1, <1>2 DEF StartedBy, StillLeader, RaftMoves
<1>7. t <= term'[i]
  BY <1>5, <1>6, AtMost
<1>8. ASSUME isLeader'[i], term'[i] = t
      PROVE  k <= Len(log'[i]) /\ log'[i][k] = EntryOf(h)
  <2>1. term'[i] = term[i] /\ term[i] = t
    BY SMTT(10), <1>5, <1>6, <1>8
  <2>2. isLeader[i] /\ Len(log[i]) <= Len(log'[i])
        /\ \A n \in 1 .. Len(log[i]) : log'[i][n] = log[i][n]
    BY <1>8, <2>1 DEF RaftMoves
  <2>3. k <= Len(log[i]) /\ log[i][k] = EntryOf(h)
    BY <1>6, <2>1, <2>2
  <2> QED BY SMTT(30), <1>5, <2>2, <2>3
<1>9. ASSUME call'[c] = h, k <= since'[c]
      PROVE  chosen'[k].Term # t
  <2>1. call[c] = h /\ since'[c] = since[c]
    BY <1>1, <1>9, CallKept
  <2>2. since[c] <= Len(chosen) /\ since[c] \in Nat /\ Len(chosen) \in Nat
    BY <1>1, TypedEach DEF ClerksSound, EachTyped
  <2>3. chosen'[k] = chosen[k]
    BY SMTT(10), <1>9, <2>1, <2>2 DEF ChosenGrows
  <2> QED BY <1>6, <1>9, <2>1, <2>3
<1> QED BY <1>3, <1>4, <1>7, <1>8, <1>9 DEF StartedBy, StillLeader

LEMMA SharedKept ==
    ASSUME ServiceInv, TypeInv', NEW h \in CallId, SharedBy(h), Keeps(h), OwnersKeep,
           calls <= calls'
    PROVE  SharedBy(h)'
<1> SUFFICES ASSUME handlers'[h].pc = "waits"
             PROVE  SharedBy(h)'
  BY DEF SharedBy
<1>1. handlers'[h] = handlers[h] /\ handlers[h].pc = "waits" /\ TypeInv /\ HandlersSound
  BY DEF Keeps, ServiceInv
<1>2. PICK y \in CallId : y = handlers[h].ch
  <2>1. handlers[h].ch \in 0 .. MaxCalls /\ handlers[h] # NoHandler
    BY <1>1, RunningHandler
  <2>2. handlers[h].ch # 0
    BY <1>1, <2>1 DEF HandlersSound
  <2> QED BY <2>1, <2>2, CallIds
<1>3. y <= calls /\ calls \in Nat /\ calls' \in Nat /\ y \in Nat
  BY <1>1, <1>2, TypedEach, TypedEachNext, CallIds DEF SharedBy, EachTyped
<1>4. handlers'[y] # NoHandler =>
        /\ handlers'[y].pc \in {"waits", "leaves"}
        /\ handlers'[y].server = handlers[h].server /\ handlers'[y].index = handlers[h].index
  BY <1>1, <1>2, <1>3 DEF SharedBy, OwnersKeep
<1>5. y <= calls'
  BY SMTT(30), <1>3
<1> QED BY <1>1, <1>2, <1>4, <1>5 DEF SharedBy

LEMMA NotifiedKept ==
    ASSUME ServiceInv, TypeInv', NEW h \in CallId, NotifiedBy(h), Keeps(h), ChosenGrows,
           handlers'[h].pc = "waits" =>
               /\ lastApplied[handlers[h].server] <= lastApplied'[handlers[h].server]
               /\ \/ buffered'[handlers[h].ch] = buffered[handlers[h].ch]
                  \/ buffered'[handlers[h].ch] = <<>>
    PROVE  NotifiedBy(h)'
<1> SUFFICES ASSUME handlers'[h].pc = "waits", buffered'[handlers'[h].ch] # <<>>
             PROVE  NotifiedBy(h)'
  BY DEF NotifiedBy
<1>1. /\ handlers'[h] = handlers[h] /\ handlers[h].pc = "waits"
      /\ TypeInv /\ HandlersSound /\ BatchesInOrder
  BY DEF Keeps, ServiceInv
<1>2. PICK i \in Server, k \in Nat \ {0} : i = handlers[h].server /\ k = handlers[h].index
  BY <1>1, HandlerRuns
<1>3. PICK y : y = handlers[h].ch
  OBVIOUS
<1>4. /\ lastApplied[i] \in Nat /\ lastApplied'[i] \in Nat /\ lastApplied[i] <= lastApplied'[i]
      /\ buffered'[y] = buffered[y] /\ Len(chosen) \in Nat /\ lastApplied[i] <= Len(chosen)
  BY <1>1, <1>2, <1>3, TypedEach, TypedEachNext DEF BatchesInOrder, EachTyped
<1>5. k <= lastApplied[i] /\ Head(buffered[y]) = ValueAt(k - 1)
  BY <1>1, <1>2, <1>3, <1>4 DEF NotifiedBy
<1>6. PICK n \in Nat : n = k - 1
  BY <1>2, Before
<1>7. ValueAt(n)' = ValueAt(n)
  <2>1. k <= Len(chosen)
    BY <1>2, <1>4, <1>5, AtMost
  <2>2. n <= Len(chosen)
    BY <1>2, <1>4, <1>6, <2>1, Before
  <2> QED BY <2>2, HistoryKept
<1>8. k <= lastApplied'[i]
  BY <1>2, <1>4, <1>5, AtMost
<1>9. Head(buffered'[y]) = ValueAt(k - 1)'
  BY <1>4, <1>5, <1>6, <1>7
<1> QED BY <1>1, <1>2, <1>3, <1>8, <1>9 DEF NotifiedBy, ValueAt

LEMMA AnsweredKept ==
    ASSUME ServiceInv, TypeInv', CallsMove, ChosenGrows, NEW h \in CallId,
           AnsweredBy(h), Keeps(h)
    PROVE  AnsweredBy(h)'
<1> SUFFICES ASSUME handlers'[h].pc = "leaves", handlers'[h].err = "OK"
             PROVE  AnsweredBy(h)'
  BY DEF AnsweredBy
<1>1. /\ handlers'[h] = handlers[h] /\ handlers[h].pc = "leaves" /\ handlers[h].err = "OK"
      /\ TypeInv /\ HandlersSound
  BY DEF Keeps, ServiceInv
<1>2. PICK c \in Clerk, k \in Nat \ {0} : c = handlers[h].clerk /\ k = handlers[h].index
  BY <1>1, HandlerRuns
<1>3. /\ k <= Len(chosen) /\ chosen[k] = EntryOf(h) /\ handlers[h].value = ValueAt(k - 1)
      /\ call[c] = h => k > since[c]
  BY <1>1, <1>2 DEF AnsweredBy
<1>4. PICK n \in Nat : n = k - 1
  BY <1>2, Before
<1>5. /\ k <= Len(chosen') /\ chosen'[k] = chosen[k] /\ n <= Len(chosen)
  <2>1. Len(chosen) \in Nat
    BY <1>1, TypedEach DEF EachTyped
  <2> QED BY SMTT(10), <1>2, <1>3, <1>4, <2>1 DEF ChosenGrows
<1>6. ValueAt(n)' = ValueAt(n)
  BY <1>5, HistoryKept
<1>7. EntryOf(h)' = EntryOf(h)
  BY <1>1 DEF EntryOf
<1>8. call'[c] = h => k > since'[c]
  BY <1>1, <1>3, CallKept
<1>9. handlers'[h].value = ValueAt(k - 1)'
  BY <1>1, <1>3, <1>4, <1>6
<1> QED BY <1>1, <1>2, <1>3, <1>5, <1>7, <1>8, <1>9 DEF AnsweredBy, ValueAt

LEMMA ChannelsTrueKept ==
    ASSUME ServiceInv, ChannelsTrue, ChosenGrows, NEW i \in Server, NEW k \in CallId,
           waitChMap'[i][k] # 0, buffered'[waitChMap'[i][k]] # <<>>,
           waitChMap'[i][k] = waitChMap[i][k],
           buffered'[waitChMap[i][k]] = buffered[waitChMap[i][k]]
    PROVE  Head(buffered'[waitChMap'[i][k]]) = ValueAt(k - 1)'
<1>1. TypeInv /\ BatchesInOrder /\ ChannelsHaveRoom
  BY DEF ServiceInv
<1>2. /\ Head(buffered[waitChMap[i][k]]) = ValueAt(k - 1) /\ k <= lastApplied[i]
  BY <1>1 DEF ChannelsTrue, ChannelsHaveRoom
<1>3. k \in Nat \ {0} /\ lastApplied[i] \in Nat /\ lastApplied[i] <= Len(chosen)
      /\ Len(chosen) \in Nat
  BY <1>1, TypedEach, CallIds DEF BatchesInOrder, EachTyped
<1>4. PICK n \in Nat : n = k - 1
  BY <1>3, Before
<1>5. ValueAt(n)' = ValueAt(n)
  <2>1. k <= Len(chosen)
    BY <1>2, <1>3, AtMost
  <2>2. n <= Len(chosen)
    BY <1>3, <1>4, <2>1, Before
  <2> QED BY <2>2, HistoryKept
<1> QED BY <1>2, <1>4, <1>5

\* Steps in which most handlers keep what they have, and nobody is notified.
LEMMA AnswerKept ==
    ASSUME ServiceInv, TypeInv', AnswerInv, RaftMoves, CallsMove, ChosenGrows, OwnersKeep,
           \A h \in CallId :
               Keeps(h) \/ (StartedBy(h) /\ SharedBy(h) /\ NotifiedBy(h) /\ AnsweredBy(h))',
           \A h \in CallId : handlers'[h].pc = "waits" =>
               lastApplied[handlers[h].server] <= lastApplied'[handlers[h].server],
           \A ch \in CallId : buffered'[ch] = buffered[ch] \/ buffered'[ch] = <<>>,
           \A i \in Server, k \in CallId : waitChMap'[i][k] # 0 =>
               waitChMap'[i][k] = waitChMap[i][k] \/ buffered'[waitChMap'[i][k]] = <<>>
    PROVE  AnswerInv'
<1>1. TypeInv /\ HandlersSound /\ ChannelsTrue
  BY DEF ServiceInv, AnswerInv
<1>2. ASSUME NEW h \in CallId
      PROVE  (StartedBy(h) /\ SharedBy(h) /\ NotifiedBy(h) /\ AnsweredBy(h))'
  <2> SUFFICES ASSUME Keeps(h)
               PROVE  (StartedBy(h) /\ SharedBy(h) /\ NotifiedBy(h) /\ AnsweredBy(h))'
    OBVIOUS
  <2>1. StartedBy(h) /\ SharedBy(h) /\ NotifiedBy(h) /\ AnsweredBy(h) /\ KeepsEntry(h)
    BY DEF AnswerInv, Keeps
  <2>2. StartedBy(h)' /\ AnsweredBy(h)'
    BY <2>1, StartedKept, AnsweredKept
  <2>3. SharedBy(h)'
    BY <2>1, SharedKept DEF CallsMove
  <2>4. handlers'[h].pc = "waits" => \/ buffered'[handlers[h].ch] = buffered[handlers[h].ch]
                                     \/ buffered'[handlers[h].ch] = <<>>
    <3> SUFFICES ASSUME handlers'[h].pc = "waits"
                 PROVE  handlers[h].ch \in CallId
      OBVIOUS
    <3>1. handlers[h].pc = "waits"
      BY <2>1 DEF Keeps
    <3>2. handlers[h].ch \in 0 .. MaxCalls /\ handlers[h] # NoHandler
      BY <1>1, <3>1, RunningHandler
    <3>3. handlers[h].ch # 0
      BY <1>1, <3>1, <3>2 DEF HandlersSound
    <3> QED BY <3>2, <3>3, CallIds
  <2>5. NotifiedBy(h)'
    BY <2>1, <2>4, NotifiedKept
  <2> QED BY <2>2, <2>3, <2>5
<1>3. ASSUME NEW i \in Server, NEW k \in CallId,
             waitChMap'[i][k] # 0, buffered'[waitChMap'[i][k]] # <<>>
      PROVE  Head(buffered'[waitChMap'[i][k]]) = ValueAt(k - 1)'
  <2>1. waitChMap'[i][k] = waitChMap[i][k] /\ waitChMap[i][k] \in 0 .. MaxCalls
    BY <1>1, <1>3 DEF TypeInv, WaitTypes
  <2>2. waitChMap[i][k] \in CallId
    BY <1>3, <2>1, CallIds
  <2>3. buffered'[waitChMap[i][k]] = buffered[waitChMap[i][k]]
    BY <1>3, <2>1, <2>2
  <2> QED BY <1>1, <1>3, <2>1, <2>3, ChannelsTrueKept
<1>4. ChannelsTrue'
  BY <1>3 DEF ChannelsTrue, ValueAt
<1> QED BY <1>2, <1>4 DEF AnswerInv

LEMMA RaftSame ==
    ASSUME TypeInv, UNCHANGED <<term, isLeader, log>>
    PROVE  RaftMoves
<1>1. \A i \in Server : term[i] \in Nat /\ Len(log[i]) \in Nat
  BY LogElements DEF TypeInv
<1> QED BY SMTT(30), <1>1 DEF RaftMoves

LEMMA CallsSame ==
    ASSUME TypeInv, UNCHANGED <<calls, call, since>>
    PROVE  CallsMove
  BY SMTT(10), KVAssumption DEF TypeInv, CallsMove

LEMMA HandlersSame ==
    ASSUME UNCHANGED handlers
    PROVE  OwnersKeep /\ \A h \in CallId : Keeps(h)
  BY DEF OwnersKeep, Keeps, KeepsEntry

\* Steps of Raft and of the applier.
LEMMA AnswerRaft ==
    ASSUME ServiceInv, TypeInv', AnswerInv, RaftMoves, ChosenGrows,
           UNCHANGED <<handlers, waitVars, clerkVars, calls>>,
           \A i \in Server : lastApplied[i] <= lastApplied'[i]
    PROVE  AnswerInv'
<1>1. UNCHANGED <<waitChMap, buffered, call, since, calls>> /\ TypeInv /\ HandlersSound
  BY DEF waitVars, clerkVars, ServiceInv
<1>2. CallsMove /\ OwnersKeep /\ \A h \in CallId : Keeps(h)
  BY <1>1, CallsSame, HandlersSame
<1>3. \A h \in CallId : handlers'[h].pc = "waits" => handlers[h].server \in Server
  BY <1>1, HandlerRuns
<1> QED BY <1>1, <1>2, <1>3, AnswerKept
=============================================================================
