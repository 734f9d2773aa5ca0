------------------------------ MODULE MCKVSrv -------------------------------
(***************************************************************************)
(* The test of src/kvsrv on a small instance: the server and its clerks,   *)
(* and the checker that judges a history of operations.  The two share no  *)
(* state, and the test calls the checker when no client runs: a behaviour  *)
(* is one of the clients and the server, or one of the checker on some     *)
(* history of three operations, linearizable or not.                       *)
(***************************************************************************)
EXTENDS KVSrv

CONSTANT WordSize

VARIABLES
    history, verbose, timeout, l, search, results, kill, main, result, partials

checkerVars == <<history, verbose, timeout, l, search, results, kill, main,
                 result, partials>>

\* Operation k writes the value k, and returns at time 2k.
At(k, call, kind, key, output) ==
    [Input |-> [Op |-> kind, Key |-> key, Value |-> k], Output |-> output,
     Call |-> call, Return |-> 2 * k]

\* Two writers, the first perhaps on a key of its own, and a reader that answers
\* what the writers can leave in some order, or what only a wrong server can; or
\* a writer and two readers.
\* The second is called before or after the first returns (time 2); the third
\* before that, at the very same time, after it, or when both have returned.
MCHistories ==
    {<< At(1, 1, h[1], h[2], <<>>), At(2, second, h[3], 1, <<>>),
        At(3, third, h[4], 1, output) >> :
        h \in { <<1, 1, 1, 0>>, <<1, 1, 2, 0>>, <<2, 1, 2, 3>>, <<2, 2, 1, 0>>,
               <<1, 1, 0, 0>> },
        second \in {1, 3}, third \in {1, 2, 3, 5},
        output \in { <<>>, <<1>>, <<2>>, <<1, 2>>, <<2, 1>> }}

Checker == INSTANCE Porcupine WITH Histories <- MCHistories

TestInit == Init /\ Checker!Init

TestNext ==
    \/ main.at = "uncalled" /\ Next /\ UNCHANGED checkerVars
    \/ calls = 0 /\ Checker!Next /\ UNCHANGED vars

TestSpec == TestInit /\ [][TestNext]_<<vars, checkerVars>> /\ Fairness

\* checkOperations answers Ok only for linearizable histories, Illegal only for
\* others, Unknown only if there is a timeout; the partial linearizations of a
\* verbose check without a timeout are the longest there are.
VerdictIsRight == Checker!VerdictIsRight
=============================================================================
