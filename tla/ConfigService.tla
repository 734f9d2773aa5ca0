--------------------------- MODULE ConfigService ----------------------------
(***************************************************************************)
(* What the shard controller of src/shardctrler promises to its clerks, as *)
(* if there were one copy of the configurations: every Join, Leave and     *)
(* Move makes one configuration, at one moment between the call and its    *)
(* return, and Query returns what it asks for as it was at such a moment,  *)
(* or the empty configuration.                                             *)
(***************************************************************************)
EXTENDS Integers, Sequences

CONSTANTS
    Clerk, Request, Idle,  \* a request is a record with an OpType
    NoConfig,              \* configuration 0, and the empty answer
    Made(_, _),            \* the configuration a request makes after another one
    Found(_, _)            \* what a Query finds in a sequence of configurations

VARIABLES
    configs,  \* the configurations
    pending,  \* the request a clerk waits for, or Idle
    called,   \* how many configurations there were when it was called
    effect,   \* whether it made its configuration
    got       \* what the last Query of a clerk returned

vars == <<configs, pending, called, effect, got>>

Init ==
    /\ configs = <<NoConfig>>
    /\ pending = [c \in Clerk |-> Idle] /\ called = [c \in Clerk |-> 0]
    /\ effect = [c \in Clerk |-> FALSE] /\ got = [c \in Clerk |-> NoConfig]

Call(c, request) ==
    /\ pending[c] = Idle
    /\ pending' = [pending EXCEPT ![c] = request]
    /\ called' = [called EXCEPT ![c] = Len(configs)]
    /\ UNCHANGED <<configs, effect, got>>

\* The moment at which a Join, Leave or Move takes effect.
TakeEffect(c) ==
    /\ pending[c] # Idle /\ pending[c].OpType # "Query" /\ ~effect[c]
    /\ configs' = Append(configs, Made(configs[Len(configs)], pending[c]))
    /\ effect' = [effect EXCEPT ![c] = TRUE]
    /\ UNCHANGED <<pending, called, got>>

Return(c) ==
    /\ pending[c] # Idle
    /\ IF pending[c].OpType = "Query"
       THEN \E n \in called[c] .. Len(configs) :
              \E answer \in {Found(SubSeq(configs, 1, n), pending[c]), NoConfig} :
                got' = [got EXCEPT ![c] = answer]
       ELSE effect[c] /\ UNCHANGED got
    /\ pending' = [pending EXCEPT ![c] = Idle]
    /\ called' = [called EXCEPT ![c] = 0]
    /\ effect' = [effect EXCEPT ![c] = FALSE]
    /\ UNCHANGED configs

Next ==
    \E c \in Clerk :
        (\E request \in Request : Call(c, request)) \/ TakeEffect(c) \/ Return(c)

Spec == Init /\ [][Next]_vars
=============================================================================
