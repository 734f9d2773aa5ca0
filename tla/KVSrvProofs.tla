---------------------------- MODULE KVSrvProofs ------------------------------
(***************************************************************************)
(* The server of src/kvsrv and its clerks are linearizable and keep no     *)
(* answer too long, for any number of clerks and operations and whatever   *)
(* replies are lost.                                                       *)
(***************************************************************************)
EXTENDS KVSrv, TLAPS

\* The back ends a leaf that names none is given to, in this order.
USE ZenonT(10), SMTT(10), ZenonT(30), SMTT(30)

-----------------------------------------------------------------------------
(* The inductive invariant *)

\* Every Put and Append in progress has an Id of its own, and a Get has none.
IdsUnique ==
    /\ id <= calls
    /\ \A c \in Clerk : /\ op[c].RequestId <= id
                        /\ op[c].RequestId = 0 <=> op[c].OpType \in {"None", "Get"}
    /\ \A c, d \in Clerk :
         (op[c].RequestId = op[d].RequestId /\ op[c].RequestId # 0) => c = d

\* What is on the wire fits what the clerk waits for: only Put and Append reach
\* the loop of Finish, a request of theirs that is answered is known until
\* Finish has removed it, and the answer of a Get is a value it has seen.
WireFits ==
    \A c \in Clerk :
        /\ op[c] = Idle <=> wire[c] = "none"
        /\ pc[c] = "finish" => op[c].OpType \in {"Put", "Append"}
        /\ (pc[c] = "call" /\ wire[c] = "answered" /\ op[c].OpType # "Get") =>
             /\ op[c].RequestId \in DOMAIN request
             /\ answer[c] = request[op[c].RequestId]
        /\ (pc[c] = "finish" /\ wire[c] = "answered") =>
             op[c].RequestId \notin DOMAIN request
        /\ (wire[c] = "answered" /\ op[c].OpType = "Get") => answer[c] \in seen[c]

\* The histories: `seen` holds the value of now, and an Append's answer in
\* kv.request is the value the key had when it was executed.
HistoryTrue ==
    /\ seen \in [Clerk -> SUBSET Value]
    /\ \A c \in Clerk :
         /\ op[c] # Idle => data \in seen[c]
         /\ (op[c].OpType = "Append" /\ op[c].RequestId \in DOMAIN request) =>
              request[op[c].RequestId] = before[c]

Inv ==
    /\ TypeOK /\ IdsUnique /\ WireFits /\ HistoryTrue
    /\ RequestsAreForgotten /\ AppendAnswersOldValue

-----------------------------------------------------------------------------
(* Every step keeps it *)

LEMMA InvInit ==
    ASSUME Init
    PROVE  Inv
<1>1. <<>> \in Value /\ DOMAIN request = {}
  BY SMTT(10) DEF Value, Init
<1>2. TypeOK
  BY SMTT(10), <1>1, KVSrvAssumption DEF Init, TypeOK
<1>3. IdsUnique /\ WireFits
  BY SMTT(10) DEF Init, IdsUnique, WireFits, Idle
<1>4. HistoryTrue
  BY DEF Init, HistoryTrue, Idle
<1>5. RequestsAreForgotten /\ AppendAnswersOldValue
  BY <1>1 DEF Init, RequestsAreForgotten, AppendAnswersOldValue, Idle
<1> QED BY <1>2, <1>3, <1>4, <1>5 DEF Inv

LEMMA InvCall ==
    ASSUME Inv, NEW c \in Clerk, NEW type \in {"Get", "Put", "Append"},
           Call(c, type)
    PROVE  Inv'
<1>1. /\ op' = [op EXCEPT ![c] = op'[c]]
      /\ op'[c] = [OpType |-> type, RequestId |-> IF type = "Get" THEN 0 ELSE id + 1]
      /\ op'[c] \in Operation /\ op'[c] # Idle
      /\ op[c] = Idle
  BY SMTT(10), KVSrvAssumption DEF Inv, TypeOK, IdsUnique, Call, Operation, Idle
<1>2. /\ id \in Nat /\ calls \in Nat /\ id' \in id .. id + 1 /\ id' <= calls'
      /\ calls' = calls + 1 /\ calls' <= MaxCalls
      /\ type # "Get" => id' = id + 1
  BY SMTT(10), KVSrvAssumption DEF Inv, TypeOK, IdsUnique, Call
<1>3. TypeOK'
  BY SMTT(10), <1>1, <1>2, KVSrvAssumption DEF Inv, TypeOK, Call
<1>4. IdsUnique'
  BY SMTT(10), <1>1, <1>2 DEF Inv, TypeOK, IdsUnique, Operation, Idle
<1>5. /\ wire' = [wire EXCEPT ![c] = "sent"]
      /\ seen' = [seen EXCEPT ![c] = {data}]
      /\ UNCHANGED <<data, request, pc, answer, reply, before>>
  BY DEF Call
<1>6. WireFits'
  BY SMTT(10), <1>1, <1>5 DEF Inv, TypeOK, WireFits, Idle
<1>7. op'[c].RequestId \notin DOMAIN request
  BY SMTT(10), <1>1, <1>2 DEF Inv, TypeOK
<1>8. HistoryTrue'
  BY SMTT(10), <1>1, <1>5, <1>7 DEF Inv, TypeOK, HistoryTrue, Idle
<1>9. RequestsAreForgotten'
  BY SMTT(10), <1>1, <1>5 DEF Inv, TypeOK, RequestsAreForgotten, Idle
<1>10. AppendAnswersOldValue'
  BY SMTT(10), <1>1, <1>5 DEF Inv, TypeOK, AppendAnswersOldValue, WireFits, Idle
<1> QED BY <1>3, <1>4, <1>6, <1>8, <1>9, <1>10 DEF Inv

\* A handler that leaves the store alone only touches the wire of its clerk.
LEMMA InvGet ==
    ASSUME Inv, NEW c \in Clerk, Get(c)
    PROVE  Inv'
<1>1. /\ wire' = [wire EXCEPT ![c] = "answered"]
      /\ answer' = [answer EXCEPT ![c] = data]
      /\ UNCHANGED <<data, request, id, op, pc, reply, seen, before, got, calls>>
      /\ op[c].OpType = "Get" /\ pc[c] = "call" /\ wire[c] = "sent"
  BY DEF Get, Answer, Arrives
<1>2. TypeOK'
  BY <1>1 DEF Inv, TypeOK
<1>3. WireFits'
  BY <1>1 DEF Inv, TypeOK, WireFits, HistoryTrue, Idle
<1>4. IdsUnique' /\ HistoryTrue'
  BY <1>1 DEF Inv, IdsUnique, HistoryTrue
<1>5. RequestsAreForgotten' /\ AppendAnswersOldValue'
  BY <1>1 DEF Inv, RequestsAreForgotten, AppendAnswersOldValue
<1> QED BY <1>2, <1>3, <1>4, <1>5 DEF Inv

LEMMA InvLoseReply ==
    ASSUME Inv, NEW c \in Clerk, LoseReply(c)
    PROVE  Inv'
<1>1. /\ wire[c] = "answered" /\ wire' = [wire EXCEPT ![c] = "sent"]
      /\ UNCHANGED <<data, request, id, op, pc, answer, reply, seen, before, got,
                     calls>>
  BY DEF LoseReply
<1>2. TypeOK' /\ WireFits'
  BY <1>1 DEF Inv, TypeOK, WireFits, Idle
<1>3. IdsUnique' /\ HistoryTrue'
  BY <1>1 DEF Inv, IdsUnique, HistoryTrue
<1>4. RequestsAreForgotten' /\ AppendAnswersOldValue'
  BY <1>1 DEF Inv, RequestsAreForgotten, AppendAnswersOldValue
<1> QED BY <1>2, <1>3, <1>4 DEF Inv

\* A copy of a Put or Append that is known already.
LEMMA InvRepeated ==
    ASSUME Inv, NEW c \in Clerk, Arrives(c, "Put") \/ Arrives(c, "Append"),
           Repeated(c), UNCHANGED <<id, op, pc, reply, got, calls>>
    PROVE  Inv'
<1>1. /\ wire' = [wire EXCEPT ![c] = "answered"]
      /\ answer' = [answer EXCEPT ![c] = request[op[c].RequestId]]
      /\ UNCHANGED <<data, request, id, op, pc, reply, seen, before, got, calls>>
      /\ op[c].OpType \in {"Put", "Append"} /\ pc[c] = "call" /\ wire[c] = "sent"
      /\ op[c].RequestId \in DOMAIN request
  BY DEF Repeated, Answer, Arrives
<1>2. TypeOK'
  BY <1>1 DEF Inv, TypeOK
<1>3. WireFits'
  BY SMTT(10), <1>1 DEF Inv, TypeOK, WireFits, Idle
<1>4. IdsUnique' /\ HistoryTrue'
  BY SMTT(10), <1>1 DEF Inv, IdsUnique, HistoryTrue
<1>5. RequestsAreForgotten' /\ AppendAnswersOldValue'
  BY SMTT(10), <1>1 DEF Inv, RequestsAreForgotten, AppendAnswersOldValue
<1> QED BY <1>2, <1>3, <1>4, <1>5 DEF Inv

\* The first copy of a Put or Append.
LEMMA InvExecuted ==
    ASSUME Inv, NEW c \in Clerk, Arrives(c, "Put") \/ Arrives(c, "Append"),
           NEW new \in Value, NEW value \in Value, Executed(c, new, value),
           op[c].OpType = "Append" => value = data,
           UNCHANGED <<id, op, pc, reply, got, calls>>
    PROVE  Inv'
<1> DEFINE k == op[c].RequestId
<1>1. /\ wire' = [wire EXCEPT ![c] = "answered"]
      /\ answer' = [answer EXCEPT ![c] = value]
      /\ data' = new /\ before' = [before EXCEPT ![c] = data]
      /\ seen' = [d \in Clerk |-> IF op[d] = Idle THEN {} ELSE seen[d] \cup {new}]
      /\ UNCHANGED <<id, op, pc, reply, got, calls>>
      /\ op[c].OpType \in {"Put", "Append"} /\ pc[c] = "call" /\ wire[c] = "sent"
  BY DEF Executed, Answer, Arrives
<1>2. /\ DOMAIN request' = DOMAIN request \cup {k}
      /\ request'[k] = value
      /\ \A j \in DOMAIN request : request'[j] = request[j]
      /\ k \notin DOMAIN request
  BY DEF Executed, Remember
<1>3. k \in 1 .. id
  BY SMTT(10), <1>1 DEF Inv, TypeOK, IdsUnique, Operation, Idle
<1>4. /\ op[c] # Idle
      /\ \A d \in Clerk : d # c => op[d].RequestId # k
  BY SMTT(10), <1>1, <1>3 DEF Inv, TypeOK, IdsUnique, Idle
<1> HIDE DEF k
<1>5. seen' \in [Clerk -> SUBSET Value]
  BY <1>1 DEF Inv, HistoryTrue
<1>6. TypeOK'
  BY <1>1, <1>2, <1>3, <1>5 DEF Inv, TypeOK
<1>7. IdsUnique'
  BY SMTT(10), <1>1 DEF Inv, IdsUnique
<1>8. WireFits'
  <2> SUFFICES ASSUME NEW d \in Clerk
               PROVE  WireFits!(d)'
    BY DEF WireFits
  <2>1. CASE d = c
    BY <1>1, <1>2, <1>4, <2>1 DEF Inv, TypeOK, WireFits, k
  <2>2. CASE d # c
    BY SMTT(10), <1>1, <1>2, <1>4, <2>2 DEF Inv, TypeOK, WireFits, HistoryTrue, Idle
  <2> QED BY <2>1, <2>2
<1>9. HistoryTrue'
  <2> SUFFICES ASSUME NEW d \in Clerk
               PROVE  /\ op[d] # Idle => data' \in seen'[d]
                      /\ (op[d].OpType = "Append" /\ op[d].RequestId \in DOMAIN request') =>
                           request'[op[d].RequestId] = before'[d]
    BY <1>1, <1>5 DEF HistoryTrue
  <2>1. op[d] # Idle => data' \in seen'[d]
    BY <1>1
  <2>2. CASE d = c
    BY <1>1, <1>2, <2>1, <2>2 DEF Inv, TypeOK, k
  <2>3. CASE d # c
    BY <1>1, <1>2, <1>4, <2>1, <2>3 DEF Inv, TypeOK, HistoryTrue
  <2> QED BY <2>2, <2>3
<1>10. RequestsAreForgotten'
  BY SMTT(10), <1>1, <1>2 DEF Inv, RequestsAreForgotten, k
<1>11. AppendAnswersOldValue'
  BY <1>1 DEF Inv, TypeOK, AppendAnswersOldValue
<1> QED BY <1>6, <1>7, <1>8, <1>9, <1>10, <1>11 DEF Inv

\* The values a Put and an Append make.
LEMMA WrittenValues ==
    ASSUME Inv, NEW c \in Clerk, op[c].OpType \in {"Put", "Append"}
    PROVE  <<Written(c)>> \in Value /\ Append(data, Written(c)) \in Value
<1>1. op[c].RequestId \in 1 .. MaxCalls
  BY SMTT(10), KVSrvAssumption DEF Inv, TypeOK, IdsUnique, Operation, Idle
<1>2. Written(c) \in Clerk \X (1 .. MaxCalls)
  BY <1>1 DEF Written
<1> QED BY SMTT(10), <1>2 DEF Value, Inv, TypeOK

LEMMA InvPut ==
    ASSUME Inv, NEW c \in Clerk, Put(c)
    PROVE  Inv'
<1>1. Arrives(c, "Put") /\ UNCHANGED <<id, op, pc, reply, got, calls>>
  BY DEF Put
<1>2. op[c].OpType = "Put"
  BY <1>1 DEF Arrives
<1>3. <<Written(c)>> \in Value
  BY <1>2, WrittenValues
<1>4. CASE Repeated(c)
  BY <1>1, <1>4, InvRepeated
<1>5. CASE Executed(c, <<Written(c)>>, <<Written(c)>>)
  BY <1>1, <1>2, <1>3, <1>5, InvExecuted
<1> QED BY <1>4, <1>5 DEF Put

LEMMA InvAppend ==
    ASSUME Inv, NEW c \in Clerk, AppendValue(c)
    PROVE  Inv'
<1>1. Arrives(c, "Append") /\ UNCHANGED <<id, op, pc, reply, got, calls>>
  BY DEF AppendValue
<1>2. Append(data, Written(c)) \in Value /\ data \in Value
  BY <1>1, WrittenValues DEF Arrives, Inv, TypeOK
<1>3. CASE Repeated(c)
  BY <1>1, <1>3, InvRepeated
<1>4. CASE Executed(c, Append(data, Written(c)), data)
  BY <1>1, <1>2, <1>4, InvExecuted
<1> QED BY <1>3, <1>4 DEF AppendValue

LEMMA InvFinish ==
    ASSUME Inv, NEW c \in Clerk, Finish(c)
    PROVE  Inv'
<1> DEFINE k == op[c].RequestId
<1>1. /\ wire' = [wire EXCEPT ![c] = "answered"]
      /\ answer' = [answer EXCEPT ![c] = <<>>]
      /\ UNCHANGED <<data, id, op, pc, reply, seen, before, got, calls>>
      /\ pc[c] = "finish" /\ wire[c] = "sent"
  BY DEF Finish, Answer
<1>2. /\ DOMAIN request' = DOMAIN request \ {k}
      /\ \A j \in DOMAIN request \ {k} : request'[j] = request[j]
  BY DEF Finish, Forget, Restrict
<1>3. k # 0 /\ \A d \in Clerk : d # c => op[d].RequestId # k
  BY <1>1 DEF Inv, WireFits, IdsUnique
<1> HIDE DEF k
<1>4. <<>> \in Value
  BY SMTT(10) DEF Value
<1>5. TypeOK'
  BY <1>1, <1>2, <1>4 DEF Inv, TypeOK
<1>6. IdsUnique'
  BY <1>1 DEF Inv, IdsUnique
<1>7. WireFits'
  <2> SUFFICES ASSUME NEW d \in Clerk
               PROVE  WireFits!(d)'
    BY DEF WireFits
  <2>1. CASE d = c
    BY <1>1, <1>2, <2>1 DEF Inv, TypeOK, WireFits, k, Idle
  <2>2. CASE d # c
    BY <1>1, <1>2, <1>3, <2>2 DEF Inv, TypeOK, WireFits
  <2> QED BY <2>1, <2>2
<1>8. HistoryTrue'
  BY <1>1, <1>2 DEF Inv, HistoryTrue
<1>9. RequestsAreForgotten' /\ AppendAnswersOldValue'
  BY <1>1, <1>2 DEF Inv, RequestsAreForgotten, AppendAnswersOldValue
<1> QED BY <1>5, <1>6, <1>7, <1>8, <1>9 DEF Inv

\* A Put or Append that has its answer goes on to Finish.
LEMMA InvAnswered ==
    ASSUME Inv, NEW c \in Clerk, Receive(c), op[c].OpType # "Get", pc[c] = "call"
    PROVE  Inv'
<1>1. /\ wire[c] = "answered" /\ wire' = [wire EXCEPT ![c] = "sent"]
      /\ reply' = [reply EXCEPT ![c] = answer[c]]
      /\ pc' = [pc EXCEPT ![c] = "finish"]
      /\ UNCHANGED <<data, request, id, op, answer, seen, before, got, calls>>
  BY DEF Receive
<1>2. op[c].OpType \in {"Put", "Append"}
  BY SMTT(10), <1>1 DEF Inv, TypeOK, WireFits, Operation, Idle
<1>3. TypeOK' /\ WireFits'
  BY <1>1, <1>2 DEF Inv, TypeOK, WireFits, Idle
<1>4. IdsUnique' /\ HistoryTrue'
  BY <1>1 DEF Inv, IdsUnique, HistoryTrue
<1>5. RequestsAreForgotten'
  BY <1>1 DEF Inv, RequestsAreForgotten
<1>6. AppendAnswersOldValue'
  BY <1>1 DEF Inv, TypeOK, AppendAnswersOldValue, WireFits, HistoryTrue
<1> QED BY <1>3, <1>4, <1>5, <1>6 DEF Inv

\* The clerk returns to its caller.
LEMMA InvReturn ==
    ASSUME Inv, NEW c \in Clerk, Return(c), wire[c] = "answered",
           op[c].OpType = "Get" \/ pc[c] = "finish",
           got' \in [Clerk -> Value],
           UNCHANGED <<data, request, id, answer, reply, before, calls>>
    PROVE  Inv'
<1>1. /\ op' = [op EXCEPT ![c] = Idle]
      /\ pc' = [pc EXCEPT ![c] = "call"]
      /\ wire' = [wire EXCEPT ![c] = "none"]
      /\ seen' = [seen EXCEPT ![c] = {}]
  BY DEF Return
<1>2. op[c].RequestId \notin DOMAIN request
  BY SMTT(10) DEF Inv, TypeOK, IdsUnique, WireFits
<1>3. TypeOK'
  BY <1>1 DEF Inv, TypeOK, HistoryTrue
<1>4. IdsUnique'
  BY SMTT(10), <1>1 DEF Inv, TypeOK, IdsUnique, Idle
<1>5. WireFits' /\ HistoryTrue'
  BY SMTT(10), <1>1 DEF Inv, TypeOK, WireFits, HistoryTrue, Idle
<1>6. RequestsAreForgotten'
  BY SMTT(10), <1>1, <1>2 DEF Inv, TypeOK, RequestsAreForgotten
<1>7. AppendAnswersOldValue'
  BY <1>1 DEF Inv, TypeOK, AppendAnswersOldValue
<1> QED BY <1>3, <1>4, <1>5, <1>6, <1>7 DEF Inv

LEMMA InvReceive ==
    ASSUME Inv, NEW c \in Clerk, Receive(c)
    PROVE  Inv'
<1>1. /\ UNCHANGED <<data, request, id, answer, before, calls>>
      /\ wire[c] = "answered"
  BY DEF Receive
<1>2. CASE op[c].OpType # "Get" /\ pc[c] = "call"
  BY <1>2, InvAnswered
<1>3. CASE op[c].OpType = "Get" \/ pc[c] = "finish"
  <2>1. Return(c) /\ UNCHANGED reply /\ got' \in [Clerk -> Value]
    BY <1>3 DEF Receive, Inv, TypeOK
  <2> QED BY <1>1, <1>3, <2>1, InvReturn
<1> QED BY <1>2, <1>3 DEF Inv, TypeOK

LEMMA InvNext ==
    ASSUME Inv, [Next]_vars
    PROVE  Inv'
<1>1. ASSUME NEW c \in Clerk, NEW type \in {"Get", "Put", "Append"}, Call(c, type)
      PROVE  Inv'
  BY <1>1, InvCall
<1>2. ASSUME NEW c \in Clerk, Get(c) \/ Put(c) \/ AppendValue(c) \/ Finish(c)
      PROVE  Inv'
  BY <1>2, InvGet, InvPut, InvAppend, InvFinish
<1>3. ASSUME NEW c \in Clerk, Receive(c) \/ LoseReply(c)
      PROVE  Inv'
  BY <1>3, InvReceive, InvLoseReply
<1>4. CASE UNCHANGED vars
  BY SMTT(10), <1>4 DEF vars, Inv, TypeOK, IdsUnique, WireFits, HistoryTrue,
              RequestsAreForgotten, AppendAnswersOldValue
<1> QED BY <1>1, <1>2, <1>3, <1>4 DEF Next

\* Inv holds always: a request that was answered once is in kv.request until its
\* clerk calls Finish, so a repeated copy changes nothing (processReq).
THEOREM InvHolds == Spec => []Inv
<1>1. Init => Inv
  BY InvInit
<1>2. Inv /\ [Next]_vars => Inv'
  BY InvNext
<1> QED BY <1>1, <1>2, PTL DEF Spec

-----------------------------------------------------------------------------
(* What it shows *)

\* The variables of the server and the clerks keep their types; in particular
\* kv.request only has keys that are Ids given out.
THEOREM TypeCorrect == Spec => []TypeOK
<1>1. Inv => TypeOK
  BY DEF Inv
<1> QED BY <1>1, InvHolds, PTL

\* No answer stays in kv.request when its clerk has returned: every retry of a
\* request, and every retry of Finish, comes before that.
THEOREM ForgetsRequests == Spec => []RequestsAreForgotten
<1>1. Inv => RequestsAreForgotten
  BY DEF Inv
<1> QED BY <1>1, InvHolds, PTL

\* Append answers the value before it, on the first copy and on every repeated
\* one.
THEOREM AnswersOldValue == Spec => []AppendAnswersOldValue
<1>1. Inv => AppendAnswersOldValue
  BY DEF Inv
<1> QED BY <1>1, InvHolds, PTL

-----------------------------------------------------------------------------
(* The refinement of the store *)

\* Whether the operation of clerk c took effect, and the function of it that
\* the refinement mapping is.
Took(c) == op[c] # Idle /\ (pc[c] = "finish" \/ op[c].RequestId \in DOMAIN request)
Effect == [c \in Clerk |-> Took(c)]

LEMMA RefinedInit ==
    ASSUME Init
    PROVE  Store!Init
<1>1. Effect = [c \in Clerk |-> FALSE]
  BY DEF Init, Effect, Took
<1> QED BY <1>1 DEF Init, Store!Init, Effect, Took

LEMMA RefinedCall ==
    ASSUME Inv, NEW c \in Clerk, NEW type \in {"Get", "Put", "Append"},
           Call(c, type)
    PROVE  Store!Next
<1>1. /\ op'[c] \in Operation /\ op[c] = Idle
      /\ op' = [op EXCEPT ![c] = op'[c]]
      /\ seen' = [seen EXCEPT ![c] = {data}]
      /\ UNCHANGED <<data, request, pc, got>>
  BY SMTT(10), KVSrvAssumption DEF Inv, TypeOK, IdsUnique, Call, Operation, Idle
<1>2. op'[c].RequestId \notin DOMAIN request /\ pc[c] = "call"
  BY SMTT(10), KVSrvAssumption DEF Inv, TypeOK, WireFits, Call, Idle
<1>3. ASSUME NEW d \in Clerk
      PROVE  Took(d)' = Took(d)
  <2>1. CASE d = c
    BY <1>1, <1>2, <2>1 DEF Took
  <2>2. CASE d # c
    BY <1>1, <2>2 DEF Took, Inv, TypeOK
  <2> QED BY <2>1, <2>2
<1>4. Effect' = Effect
  BY <1>3 DEF Effect
<1>5. Store!Call(c, op'[c])
  BY <1>1, <1>4 DEF Store!Call, Effect, Took
<1> QED BY <1>1, <1>5 DEF Store!Next

LEMMA RefinedExecuted ==
    ASSUME Inv, NEW c \in Clerk, Arrives(c, "Put") \/ Arrives(c, "Append"),
           NEW new, NEW value, Executed(c, new, value),
           new = Store!Written(c, op[c], data),
           UNCHANGED <<id, op, pc, reply, got, calls>>
    PROVE  Store!Next
<1> DEFINE k == op[c].RequestId
<1>1. /\ op[c] # Idle /\ pc[c] = "call"
      /\ k # 0 /\ \A d \in Clerk : d # c => op[d].RequestId # k
  BY SMTT(10) DEF Inv, IdsUnique, Arrives, Idle
<1>2. /\ DOMAIN request' = DOMAIN request \cup {k} /\ k \notin DOMAIN request
      /\ data' = new
      /\ seen' = [d \in Clerk |-> IF op[d] = Idle THEN {} ELSE seen[d] \cup {new}]
  BY DEF Executed, Remember
<1>3. ~Took(c) /\ Took(c)'
  BY <1>1, <1>2 DEF Took
<1>4. ASSUME NEW d \in Clerk, d # c
      PROVE  Took(d)' = Took(d)
  BY <1>1, <1>2, <1>4 DEF Took
<1>5. Effect' = [Effect EXCEPT ![c] = TRUE]
  BY <1>3, <1>4 DEF Effect, Took
<1>6. Store!TakeEffect(c)
  BY <1>1, <1>2, <1>3, <1>5 DEF Store!TakeEffect, Effect, Took
<1> QED BY <1>6 DEF Store!Next

\* Get, Finish, a repeated request and a reply that is lost change nothing of
\* the store, nor does a Put or Append when it goes on to Finish.
LEMMA RefinedStutter ==
    ASSUME Inv, NEW c \in Clerk,
           \/ Get(c) \/ Finish(c) \/ LoseReply(c)
           \/ Repeated(c) /\ UNCHANGED <<id, op, pc, reply, got, calls>>
           \/ Receive(c) /\ op[c].OpType # "Get" /\ pc[c] = "call"
    PROVE  UNCHANGED Store!vars
<1>1. UNCHANGED <<data, op, seen, got>>
  BY DEF Get, Finish, LoseReply, Repeated, Receive
<1>2. ASSUME NEW d \in Clerk
      PROVE  Took(d)' = Took(d)
  <2>1. CASE Get(c) \/ LoseReply(c) \/
             (Repeated(c) /\ UNCHANGED <<id, op, pc, reply, got, calls>>)
    BY <2>1 DEF Get, LoseReply, Repeated, Took
  <2>2. CASE Finish(c)
    <3>1. /\ UNCHANGED <<op, pc>> /\ pc[c] = "finish"
          /\ DOMAIN request' = DOMAIN request \ {op[c].RequestId}
      BY <2>2 DEF Finish, Forget, Restrict
    <3>2. d # c => op[d].RequestId # op[c].RequestId
      BY <3>1 DEF Inv, IdsUnique, WireFits
    <3> QED BY SMTT(10), <3>1, <3>2 DEF Took
  <2>3. CASE Receive(c) /\ op[c].OpType # "Get" /\ pc[c] = "call"
    BY <2>3 DEF Receive, Inv, TypeOK, WireFits, Took
  <2> QED BY <2>1, <2>2, <2>3
<1>3. Effect' = Effect
  BY <1>2 DEF Effect
<1> QED BY <1>1, <1>3 DEF Store!vars, Effect, Took

LEMMA RefinedReturn ==
    ASSUME Inv, NEW c \in Clerk, Receive(c), op[c].OpType = "Get" \/ pc[c] = "finish"
    PROVE  Store!Next
<1>1. /\ op[c] # Idle /\ Return(c) /\ wire[c] = "answered"
      /\ UNCHANGED <<data, request>>
  BY DEF Receive, Inv, WireFits, Idle
<1>2. /\ op' = [op EXCEPT ![c] = Idle] /\ pc' = [pc EXCEPT ![c] = "call"]
      /\ seen' = [seen EXCEPT ![c] = {}]
  BY <1>1 DEF Return
<1>3. ASSUME NEW d \in Clerk, d # c
      PROVE  Took(d)' = Took(d)
  BY <1>1, <1>2, <1>3 DEF Took, Inv, TypeOK
<1>4. ~Took(c)'
  BY <1>2 DEF Took, Inv, TypeOK
<1>5. Effect' = [Effect EXCEPT ![c] = FALSE]
  BY <1>3, <1>4 DEF Effect, Took
<1>6. CASE op[c].OpType = "Get"
  <2>1. got' = [got EXCEPT ![c] = answer[c]] /\ answer[c] \in seen[c]
    BY <1>1, <1>6 DEF Receive, Inv, WireFits
  <2> QED BY <1>1, <1>2, <1>5, <1>6, <2>1 DEF Store!Next, Store!Return, Effect, Took
<1>7. CASE op[c].OpType # "Get"
  <2>1. pc[c] = "finish" /\ UNCHANGED got /\ Effect[c]
    BY <1>1, <1>7 DEF Receive, Effect, Took
  <2> QED BY <1>1, <1>2, <1>5, <1>7, <2>1 DEF Store!Next, Store!Return, Effect, Took
<1> QED BY <1>6, <1>7

LEMMA RefinedNext ==
    ASSUME Inv, [Next]_vars
    PROVE  [Store!Next]_(Store!vars)
<1>1. ASSUME NEW c \in Clerk, NEW type \in {"Get", "Put", "Append"}, Call(c, type)
      PROVE  Store!Next
  BY <1>1, RefinedCall
<1>2. ASSUME NEW c \in Clerk, Put(c)
      PROVE  [Store!Next]_(Store!vars)
  <2>1. /\ Arrives(c, "Put") /\ UNCHANGED <<id, op, pc, reply, got, calls>>
        /\ <<Written(c)>> = Store!Written(c, op[c], data)
    BY <1>2 DEF Put, Arrives, Written, Store!Written
  <2> QED BY <1>2, <2>1, RefinedExecuted, RefinedStutter DEF Put
<1>3. ASSUME NEW c \in Clerk, AppendValue(c)
      PROVE  [Store!Next]_(Store!vars)
  <2>1. /\ Arrives(c, "Append") /\ UNCHANGED <<id, op, pc, reply, got, calls>>
        /\ Append(data, Written(c)) = Store!Written(c, op[c], data)
    BY <1>3 DEF AppendValue, Arrives, Written, Store!Written
  <2> QED BY <1>3, <2>1, RefinedExecuted, RefinedStutter DEF AppendValue
<1>4. ASSUME NEW c \in Clerk, Get(c) \/ Finish(c) \/ LoseReply(c)
      PROVE  UNCHANGED Store!vars
  BY <1>4, RefinedStutter
<1>5. ASSUME NEW c \in Clerk, Receive(c)
      PROVE  [Store!Next]_(Store!vars)
  <2>1. CASE op[c].OpType = "Get" \/ pc[c] = "finish"
    BY <1>5, <2>1, RefinedReturn
  <2>2. CASE op[c].OpType # "Get" /\ pc[c] # "finish"
    BY <1>5, <2>2, RefinedStutter DEF Receive
  <2> QED BY <2>1, <2>2
<1>6. CASE UNCHANGED vars
  BY <1>6 DEF vars, Store!vars
<1> QED BY <1>1, <1>2, <1>3, <1>4, <1>5, <1>6 DEF Next

\* The server with its table of answers, and clerks that send every request
\* until it is answered, implement one store in which each Put and Append
\* takes effect exactly once between its call and its return, and a Get
\* returns a value the key had in that time.
THEOREM ServerLinearizable == Spec => Linearizable
<1>1. Init => Store!Init
  BY RefinedInit
<1>2. Inv /\ [Next]_vars => [Store!Next]_(Store!vars)
  BY RefinedNext
<1> QED BY <1>1, <1>2, InvHolds, PTL DEF Spec, Linearizable, Store!Spec
=============================================================================
