------------------------------ MODULE KVStore -------------------------------
(***************************************************************************)
(* What the replicated key/value service of src/kvraft promises to its     *)
(* clerks, as if there were one store: every Put and Append takes effect   *)
(* once, at one moment between the call and its return, and a Get returns  *)
(* a value the store had at such a moment.                                 *)
(*                                                                         *)
(* Keys do not interact, so the store is the value of one key.  A value is *)
(* the sequence of the requests that wrote it: Put starts a new one and    *)
(* Append adds to its end.                                                 *)
(***************************************************************************)
EXTENDS Sequences

CONSTANTS
    Clerk,
    Operation,  \* the operations: records with OpType and RequestId
    Idle        \* no operation

VARIABLES
    store,    \* the value of the key
    pending,  \* the operation a clerk waits for, or Idle
    effect,   \* whether that operation took effect
    seen,     \* the values the store has had since it was called
    got       \* what the last Get of a clerk returned

vars == <<store, pending, effect, seen, got>>

\* What the key holds after an operation of clerk c.
Written(c, op, value) ==
    LET request == <<c, op.RequestId>>
    IN CASE op.OpType = "Put" -> <<request>>
         [] op.OpType = "Append" -> Append(value, request)
         [] OTHER -> value

Init ==
    /\ store = <<>>
    /\ pending = [c \in Clerk |-> Idle]
    /\ effect = [c \in Clerk |-> FALSE]
    /\ seen = [c \in Clerk |-> {}]
    /\ got = [c \in Clerk |-> <<>>]

Call(c, op) ==
    /\ pending[c] = Idle
    /\ pending' = [pending EXCEPT ![c] = op]
    /\ seen' = [seen EXCEPT ![c] = {store}]
    /\ UNCHANGED <<store, effect, got>>

\* The moment at which a called operation takes effect.
TakeEffect(c) ==
    /\ pending[c] # Idle /\ ~effect[c]
    /\ effect' = [effect EXCEPT ![c] = TRUE]
    /\ store' = Written(c, pending[c], store)
    /\ seen' = [d \in Clerk |-> IF pending[d] = Idle THEN {}
                                ELSE seen[d] \cup {store'}]
    /\ UNCHANGED <<pending, got>>

\* A Put or Append returns after it took effect, a Get with a value seen.
Return(c) ==
    /\ pending[c] # Idle
    /\ IF pending[c].OpType = "Get"
       THEN \E value \in seen[c] : got' = [got EXCEPT ![c] = value]
       ELSE effect[c] /\ UNCHANGED got
    /\ pending' = [pending EXCEPT ![c] = Idle]
    /\ effect' = [effect EXCEPT ![c] = FALSE]
    /\ seen' = [seen EXCEPT ![c] = {}]
    /\ UNCHANGED store

Next ==
    \E c \in Clerk :
        (\E op \in Operation : Call(c, op)) \/ TakeEffect(c) \/ Return(c)

Spec == Init /\ [][Next]_vars
=============================================================================
