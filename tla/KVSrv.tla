------------------------------- MODULE KVSrv --------------------------------
(***************************************************************************)
(* The single key/value server of src/kvsrv and its clerks, over labrpc's  *)
(* network, which loses requests and replies.                              *)
(*                                                                         *)
(* The server answers a repeated Put or Append from `request`, by the Id   *)
(* of the operation; the clerk has the entry removed by Finish once it has *)
(* its answer.  Keys do not interact, so `data` is the value of one key:   *)
(* the sequence of the Ids that wrote it.  A lost request changes nothing  *)
(* (Call returns false, and the clerk's loop sends it again), so it is no  *)
(* step of the model.                                                      *)
(***************************************************************************)
EXTENDS Integers, Sequences, Functions

CONSTANTS
    Clerk,    \* the clerks
    MaxCalls  \* bound: operations called

ASSUME KVSrvAssumption == MaxCalls \in Nat

Idle == [OpType |-> "None", RequestId |-> 0]
Operation == [OpType : {"Get", "Put", "Append"}, RequestId : 0 .. MaxCalls]
Value == Seq(Clerk \X (1 .. MaxCalls))

VARIABLES
    data,      \* kv.data of the key
    request,   \* kv.request: Id -> the answer
    id,        \* the counter all clerks take their Ids from
    op,        \* the operation a clerk is in
    pc,        \* the loop it is in: "call", or "finish" when it has its answer
    wire,      \* its RPC: "sent", or "answered" by the handler
    answer,    \* the reply on its way to the clerk
    reply,     \* the reply the clerk has received
    seen,      \* history: the values of the key since the operation was called
    before,    \* history: the value of the key when the operation was executed
    got,       \* history: what its last Get returned
    calls      \* operations called so far (for the bound)

vars == <<data, request, id, op, pc, wire, answer, reply, seen, before, got,
          calls>>

Init ==
    /\ data = <<>> /\ request = <<>> /\ id = 0
    /\ op = [c \in Clerk |-> Idle]
    /\ pc = [c \in Clerk |-> "call"] /\ wire = [c \in Clerk |-> "none"]
    /\ answer = [c \in Clerk |-> <<>>] /\ reply = [c \in Clerk |-> <<>>]
    /\ seen = [c \in Clerk |-> {}] /\ before = [c \in Clerk |-> <<>>]
    /\ got = [c \in Clerk |-> <<>>] /\ calls = 0

-----------------------------------------------------------------------------
(* The clerk *)

\* Get, Put or Append is called; the latter two take the next Id.
Call(c, type) ==
    /\ op[c] = Idle /\ calls < MaxCalls
    /\ calls' = calls + 1
    /\ id' = IF type = "Get" THEN id ELSE id + 1
    /\ op' = [op EXCEPT ![c] = [OpType |-> type,
                                RequestId |-> IF type = "Get" THEN 0 ELSE id']]
    /\ wire' = [wire EXCEPT ![c] = "sent"]
    /\ seen' = [seen EXCEPT ![c] = {data}]
    /\ UNCHANGED <<data, request, pc, answer, reply, before, got>>

Return(c) ==
    /\ op' = [op EXCEPT ![c] = Idle]
    /\ pc' = [pc EXCEPT ![c] = "call"]
    /\ wire' = [wire EXCEPT ![c] = "none"]
    /\ seen' = [seen EXCEPT ![c] = {}]

\* The reply arrives.  Get returns it; Put and Append go on to Finish, and
\* return when that is answered.
Receive(c) ==
    /\ wire[c] = "answered"
    /\ \/ /\ op[c].OpType = "Get"
          /\ got' = [got EXCEPT ![c] = answer[c]]
          /\ Return(c) /\ UNCHANGED reply
       \/ /\ op[c].OpType # "Get" /\ pc[c] = "call"
          /\ reply' = [reply EXCEPT ![c] = answer[c]]
          /\ pc' = [pc EXCEPT ![c] = "finish"]
          /\ wire' = [wire EXCEPT ![c] = "sent"]
          /\ UNCHANGED <<op, seen, got>>
       \/ /\ pc[c] = "finish"
          /\ Return(c) /\ UNCHANGED <<reply, got>>
    /\ UNCHANGED <<data, request, id, answer, before, calls>>

\* The reply is lost: Call returns false and the loop sends the request again.
LoseReply(c) ==
    /\ wire[c] = "answered"
    /\ wire' = [wire EXCEPT ![c] = "sent"]
    /\ UNCHANGED <<data, request, id, op, pc, answer, reply, seen, before, got,
                   calls>>

-----------------------------------------------------------------------------
(* The server; every handler runs under kv.mu *)

Arrives(c, type) == wire[c] = "sent" /\ pc[c] = "call" /\ op[c].OpType = type

Answer(c, value) ==
    /\ wire' = [wire EXCEPT ![c] = "answered"]
    /\ answer' = [answer EXCEPT ![c] = value]

Get(c) ==
    /\ Arrives(c, "Get")
    /\ Answer(c, data)
    /\ UNCHANGED <<data, request, id, op, pc, reply, seen, before, got, calls>>

\* Mutant of Repeated: a known Id is answered with the value of now.
RepeatedNow(c) ==
    /\ op[c].RequestId \in DOMAIN request
    /\ Answer(c, data)
    /\ UNCHANGED <<data, request, seen, before>>

\* Put and Append: an Id that is known is answered as before.
Repeated(c) ==
    /\ op[c].RequestId \in DOMAIN request
    /\ Answer(c, request[op[c].RequestId])
    /\ UNCHANGED <<data, request, seen, before>>

\* Mutant of Remember: nothing is stored, so every copy of a request is new.
RememberNothing(c, value) == UNCHANGED request

\* Mutant of Remember: the answer is stored under the Id that comes next.
RememberNextId(c, value) ==
    request' = [k \in DOMAIN request \cup {op[c].RequestId + 1} |->
                   IF k = op[c].RequestId + 1 THEN value ELSE request[k]]

Remember(c, value) ==
    request' = [k \in DOMAIN request \cup {op[c].RequestId} |->
                   IF k = op[c].RequestId THEN value ELSE request[k]]

\* The first copy of a request makes `new` the value, and answers `value`.
Executed(c, new, value) ==
    /\ op[c].RequestId \notin DOMAIN request
    /\ data' = new
    /\ Remember(c, value) /\ Answer(c, value)
    /\ seen' = [d \in Clerk |-> IF op[d] = Idle THEN {} ELSE seen[d] \cup {new}]
    /\ before' = [before EXCEPT ![c] = data]

Written(c) == <<c, op[c].RequestId>>

Put(c) ==
    /\ Arrives(c, "Put")
    /\ Repeated(c) \/ Executed(c, <<Written(c)>>, <<Written(c)>>)
    /\ UNCHANGED <<id, op, pc, reply, got, calls>>

AppendValue(c) ==
    /\ Arrives(c, "Append")
    /\ Repeated(c) \/ Executed(c, Append(data, Written(c)), data)
    /\ UNCHANGED <<id, op, pc, reply, got, calls>>

\* Mutant of Forget: Finish does not delete.
ForgetNothing(c) == UNCHANGED request

Forget(c) == request' = Restrict(request, DOMAIN request \ {op[c].RequestId})

\* Mutant of Finish: only an Id that is still known is answered.
FinishKnown(c) ==
    /\ wire[c] = "sent" /\ pc[c] = "finish"
    /\ op[c].RequestId \in DOMAIN request
    /\ Forget(c) /\ Answer(c, <<>>)
    /\ UNCHANGED <<data, id, op, pc, reply, seen, before, got, calls>>

Finish(c) ==
    /\ wire[c] = "sent" /\ pc[c] = "finish"
    /\ Forget(c) /\ Answer(c, <<>>)
    /\ UNCHANGED <<data, id, op, pc, reply, seen, before, got, calls>>

-----------------------------------------------------------------------------
Serve(c) == Get(c) \/ Put(c) \/ AppendValue(c) \/ Finish(c)

Next ==
    \E c \in Clerk :
        \/ \E type \in {"Get", "Put", "Append"} : Call(c, type)
        \/ Get(c) \/ Put(c) \/ AppendValue(c) \/ Finish(c)
        \/ Receive(c) \/ LoseReply(c)

\* The server runs every request that reaches it, and labrpc, which drops
\* each reply with some probability below one, does not lose all of them.
Fairness == \A c \in Clerk : WF_vars(Serve(c)) /\ SF_vars(Receive(c))

Spec == Init /\ [][Next]_vars /\ Fairness

-----------------------------------------------------------------------------
(* Properties *)

\* The variables keep their types.
TypeOK ==
    /\ data \in Value /\ id \in 0 .. MaxCalls
    /\ DOMAIN request \subseteq 1 .. id
    /\ \A k \in DOMAIN request : request[k] \in Value
    /\ op \in [Clerk -> Operation \cup {Idle}]
    /\ pc \in [Clerk -> {"call", "finish"}]
    /\ wire \in [Clerk -> {"none", "sent", "answered"}]
    /\ answer \in [Clerk -> Value] /\ reply \in [Clerk -> Value]
    /\ \A c \in Clerk : seen[c] \subseteq Value
    /\ before \in [Clerk -> Value] /\ got \in [Clerk -> Value]
    /\ calls \in 0 .. MaxCalls

\* kv.request holds no answer longer than its clerk is in the operation: when
\* Put or Append has returned, Finish has removed it.
RequestsAreForgotten ==
    \A k \in DOMAIN request : \E c \in Clerk : op[c].RequestId = k

\* Append answers the value the key had just before this very append, however
\* many times its request was sent and whatever other clerks wrote since.
AppendAnswersOldValue ==
    \A c \in Clerk :
        (op[c].OpType = "Append" /\ pc[c] = "finish") => reply[c] = before[c]

\* The server and its clerks implement one store whose Puts and Appends take
\* effect once: repeated requests are answered from kv.request.
Store == INSTANCE KVStore WITH
    store <- data,
    pending <- op,
    effect <- [c \in Clerk |-> op[c] # Idle /\
                  (pc[c] = "finish" \/ op[c].RequestId \in DOMAIN request)]

Linearizable == Store!Spec

\* Every operation of a clerk returns: the loops of Get, PutAppend and its
\* Finish end once a reply gets through.
OperationsReturn == \A c \in Clerk : op[c] # Idle ~> op[c] = Idle
=============================================================================
