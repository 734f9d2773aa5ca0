----------------------------- MODULE Porcupine ------------------------------
(***************************************************************************)
(* The linearizability checker of src/porcupine with the model of          *)
(* src/models/kv.go, by which the tests of kvsrv and kvraft judge the      *)
(* operations their clients made.                                          *)
(*                                                                         *)
(* checkParallel runs one goroutine per key and collects their answers     *)
(* until all have come or the timeout fires.  A goroutine (checkSingle)    *)
(* searches for an order of the operations of its key: an iteration of its *)
(* loop is an action.  A string is the sequence of the values it was put   *)
(* together from; a key is a number.                                       *)
(***************************************************************************)
EXTENDS Integers, Sequences, SequencesExt, Bitwise

CONSTANTS
    Histories,  \* the histories to check: sequences of Operations
    WordSize    \* bits in a word of a bitset (64 in the code)

Nil == -1
Head0 == 0      \* headEntry; the other nodes are the positions of the entries

VARIABLES
    history,    \* the operations to check
    verbose,    \* CheckOperationsVerbose: the partial linearizations are wanted
    timeout,    \* whether a timeout is given
    l,          \* for each partition, its entries
    search,     \* for each partition, the variables of its checkSingle
    results,    \* the channel: the partitions whose answer is in it
    kill,       \* the flag that ends every search
    main,       \* checkParallel: where it is, count, ok, timedOut
    result,     \* the verdict
    partials    \* for each partition, info.partialLinearizations

vars == <<history, verbose, timeout, l, search, results, kill, main, result,
          partials>>

-----------------------------------------------------------------------------
(* The sequential model of one key, models/kv.go *)

Get == 0
Put == 1
AppendOnly == 2
AppendReturn == 3

\* Whether the operation may answer `output` when the value is `state`.
StepOk(state, input, output) ==
    input.Op \in {Get, AppendReturn} => output = state

StepState(state, input) ==
    CASE input.Op = Get -> state
      [] input.Op = Put -> <<input.Value>>
      [] OTHER -> Append(state, input.Value)

\* The operations of each key, in the order of the keys.
Partition(ops) ==
    LET keys == SetToSortSeq({ops[k].Input.Key : k \in DOMAIN ops}, <)
    IN  [i \in DOMAIN keys |->
            SelectSeq(ops, LAMBDA o : o.Input.Key = keys[i])]

-----------------------------------------------------------------------------
(* Entries *)

Less(a, b) ==
    \/ a.time < b.time
    \/ a.time = b.time /\ a.kind = "call" /\ b.kind = "return"

makeEntries(ops) ==
    LET pair(k) ==
            << [kind |-> "call", value |-> ops[k].Input, id |-> k - 1,
                time |-> ops[k].Call],
               [kind |-> "return", value |-> ops[k].Output, id |-> k - 1,
                time |-> ops[k].Return] >>
    IN  SortSeq(FlattenSeq([k \in DOMAIN ops |-> pair(k)]), Less)

\* Ids become 0, 1, ... in the order in which they are first met.
renumber(events) ==
    LET first(k) == \A j \in 1 .. k - 1 : events[j].Id # events[k].Id
        firsts == {k \in DOMAIN events : first(k)}
        met(k) == CHOOSE j \in firsts : events[j].Id = events[k].Id
    IN  [k \in DOMAIN events |->
            [events[k] EXCEPT !.Id = Cardinality({j \in firsts : j < met(k)})]]

convertEntries(events) ==
    [k \in DOMAIN events |->
        [kind |-> events[k].Kind, value |-> events[k].Value,
         id |-> events[k].Id, time |-> k - 1]]

checkOperations(ops) ==
    LET partitions == Partition(ops)
    IN  [i \in DOMAIN partitions |-> makeEntries(partitions[i])]

\* KvModel has no PartitionEvent: fillDefault makes the events one partition.
checkEvents(events) == << convertEntries(renumber(events)) >>

-----------------------------------------------------------------------------
(* The doubly linked list of a partition's entries *)

makeLinkedEntries(entries) ==
    LET n == Len(entries)
    IN  [next |-> [k \in Head0 .. n |-> IF k = n THEN Nil ELSE k + 1],
         prev |-> [k \in Head0 .. n |-> k - 1]]

IsCall(entries, k) == entries[k].kind = "call"

Match(entries, k) ==
    CHOOSE j \in DOMAIN entries : ~IsCall(entries, j) /\ entries[j].id = entries[k].id

unlink(list, k) ==
    [next |-> [list.next EXCEPT ![list.prev[k]] = list.next[k]],
     prev |-> IF list.next[k] = Nil THEN list.prev
              ELSE [list.prev EXCEPT ![list.next[k]] = list.prev[k]]]

relink(list, k) ==
    [next |-> [list.next EXCEPT ![list.prev[k]] = k],
     prev |-> IF list.next[k] = Nil THEN list.prev
              ELSE [list.prev EXCEPT ![list.next[k]] = k]]

\* A call and its return leave the list, and come back.
lift(list, call, return) == unlink(unlink(list, call), return)

unlift(list, call, return) == relink(relink(list, return), call)

-----------------------------------------------------------------------------
(* The set of linearized operations, bitset.go *)

newBitset(n) ==
    [w \in 1 .. (n \div WordSize) + (IF n % WordSize # 0 THEN 1 ELSE 0) |-> 0]

major(pos) == pos \div WordSize + 1
bit(pos) == 2 ^ (pos % WordSize)

set(b, pos) == [b EXCEPT ![major(pos)] = @ | bit(pos)]

clear(b, pos) == [b EXCEPT ![major(pos)] = @ & (2 ^ WordSize - 1 - bit(pos))]

popcnt(b) ==
    Cardinality({<<w, k>> \in (1 .. Len(b)) \X (0 .. WordSize - 1) :
                    (b[w] \div 2 ^ k) % 2 = 1})

hash(b) == FoldLeft(LAMBDA h, word : h ^^ word, popcnt(b), b)

cacheContains(cache, linearized, state) ==
    \E e \in cache : /\ e.hash = hash(linearized)
                     /\ e.linearized = linearized /\ e.state = state

-----------------------------------------------------------------------------
(* The search in one partition, checkSingle *)

Start(entries) ==
    LET n == Len(entries) \div 2
    IN  [at |-> "search", entry |-> 1, list |-> makeLinkedEntries(entries),
         linearized |-> newBitset(n), cache |-> {}, calls |-> <<>>,
         state |-> <<>>, longest |-> [id \in 0 .. n - 1 |-> <<>>],
         found |-> FALSE]

Unfinished(i) == search[i].at = "search" /\ search[i].list.next[Head0] # Nil

Iterating(i) == Unfinished(i) /\ ~kill

Unmoved == UNCHANGED <<history, verbose, timeout, l, main, result, partials>>

\* What the call at hand would lead to.
Linearized(i) == set(search[i].linearized, l[i][search[i].entry].id)
NewState(i) == StepState(search[i].state, l[i][search[i].entry].value)

MayLinearize(i) ==
    LET s == search[i]
    IN  /\ StepOk(s.state, l[i][s.entry].value, l[i][Match(l[i], s.entry)].value)
        /\ ~cacheContains(s.cache, Linearized(i), NewState(i))

\* The call at hand is the next of the order; the search goes on at the first
\* entry left.
Linearize(i) ==
    /\ Iterating(i) /\ IsCall(l[i], search[i].entry) /\ MayLinearize(i)
    /\ LET s == search[i]
           list == lift(s.list, s.entry, Match(l[i], s.entry))
       IN  search' = [search EXCEPT ![i] =
               [s EXCEPT !.cache = @ \cup {[hash |-> hash(Linearized(i)),
                                            linearized |-> Linearized(i),
                                            state |-> NewState(i)]},
                         !.calls = Append(@, [entry |-> s.entry, state |-> s.state]),
                         !.state = NewState(i),
                         !.linearized = Linearized(i),
                         !.list = list,
                         !.entry = list.next[Head0]]]
    /\ Unmoved /\ UNCHANGED <<results, kill>>

\* The call at hand cannot be the next, or leads where the search has been.
Pass(i) ==
    /\ Iterating(i) /\ IsCall(l[i], search[i].entry) /\ ~MayLinearize(i)
    /\ search' = [search EXCEPT ![i].entry = search[i].list.next[@]]
    /\ Unmoved /\ UNCHANGED <<results, kill>>

Ids(i) == [k \in DOMAIN search[i].calls |-> l[i][search[i].calls[k].entry].id]

\* The order found so far, for the operations in it that had a shorter one.
Longest(i) ==
    LET s == search[i]
    IN  [id \in DOMAIN s.longest |->
            IF verbose /\ id \in Range(Ids(i)) /\ Len(s.calls) > Len(s.longest[id])
            THEN Ids(i) ELSE s.longest[id]]

\* At a return of a call that is not in the order, the last call of the order
\* is taken back, and the search goes on behind it.
Backtrack(i) ==
    /\ Iterating(i) /\ ~IsCall(l[i], search[i].entry) /\ search[i].calls # <<>>
    /\ LET s == search[i]
           top == Last(s.calls)
           list == unlift(s.list, top.entry, Match(l[i], top.entry))
       IN  search' = [search EXCEPT ![i] =
               [s EXCEPT !.longest = Longest(i),
                         !.state = top.state,
                         !.linearized = clear(@, l[i][top.entry].id),
                         !.calls = Front(@),
                         !.list = list,
                         !.entry = list.next[top.entry]]]
    /\ Unmoved /\ UNCHANGED <<results, kill>>

\* checkSingle returns, and its goroutine sends the answer.
Send(i, found, longest) ==
    /\ search' = [search EXCEPT ![i].at = "sent", ![i].found = found,
                                ![i].longest = longest]
    /\ results' = results \cup {i}
    /\ Unmoved /\ UNCHANGED kill

\* No call is left to take back.
Exhausted(i) ==
    /\ Iterating(i) /\ ~IsCall(l[i], search[i].entry) /\ search[i].calls = <<>>
    /\ Send(i, FALSE, search[i].longest)

Killed(i) == Unfinished(i) /\ kill /\ Send(i, FALSE, search[i].longest)

Complete(i) ==
    /\ search[i].at = "search" /\ search[i].list.next[Head0] = Nil
    /\ Send(i, TRUE, [id \in DOMAIN search[i].longest |-> Ids(i)])

-----------------------------------------------------------------------------
(* checkParallel *)

Collecting == main.at = "select"

\* An answer is received; the first failure ends the check unless the partial
\* linearizations are wanted.
ReceiveResult(i) ==
    /\ Collecting /\ i \in results
    /\ results' = results \ {i}
    /\ LET ok == main.ok /\ search[i].found
           stop == ~ok /\ ~verbose
           all == main.count + 1 >= Len(l)
       IN  /\ main' = [main EXCEPT !.count = @ + 1, !.ok = ok,
                                   !.at = IF stop \/ all THEN "left" ELSE @]
           /\ kill' = (kill \/ stop)
    /\ UNCHANGED <<history, verbose, timeout, l, search, result, partials>>

Timeout ==
    /\ Collecting /\ timeout
    /\ main' = [main EXCEPT !.timedOut = TRUE, !.at = "left"]
    /\ kill' = TRUE
    /\ UNCHANGED <<history, verbose, timeout, l, search, results, result,
                   partials>>

\* Mutant of Drain: an answer that comes after the loop counts as well.
DrainCounting(i) ==
    /\ main.at = "left" /\ verbose /\ main.count < Len(l) /\ i \in results
    /\ results' = results \ {i}
    /\ main' = [main EXCEPT !.count = @ + 1, !.ok = @ /\ search[i].found]
    /\ UNCHANGED <<history, verbose, timeout, l, search, kill, result, partials>>

\* The answers of the other goroutines are waited for, and thrown away.
Drain(i) ==
    /\ main.at = "left" /\ verbose /\ main.count < Len(l) /\ i \in results
    /\ results' = results \ {i}
    /\ main' = [main EXCEPT !.count = @ + 1]
    /\ UNCHANGED <<history, verbose, timeout, l, search, kill, result, partials>>

Conclude ==
    /\ main.at = "left" /\ (verbose => main.count >= Len(l))
    /\ main' = [main EXCEPT !.at = "returned"]
    /\ result' = CASE ~main.ok -> "Illegal"
                   [] main.ok /\ main.timedOut -> "Unknown"
                   [] OTHER -> "Ok"
    /\ partials' = [i \in DOMAIN l |->
                       IF verbose THEN Range(search[i].longest) \ {<<>>} ELSE {}]
    /\ UNCHANGED <<history, verbose, timeout, l, search, results, kill>>

-----------------------------------------------------------------------------
\* The events of a history, with Ids of the caller's choice.
Events(ops) ==
    LET entries == makeEntries(ops)
    IN  [k \in DOMAIN entries |->
            [Kind |-> entries[k].kind, Value |-> entries[k].value,
             Id |-> 2 * (Len(ops) - entries[k].id)]]

Init ==
    /\ history = <<>> /\ verbose = FALSE /\ timeout = FALSE
    /\ l = <<>> /\ search = <<>> /\ results = {} /\ kill = FALSE
    /\ main = [at |-> "uncalled", count |-> 0, ok |-> TRUE, timedOut |-> FALSE]
    /\ result = "None" /\ partials = <<>>

\* The checker is called on operations, or on those of one key as events, and
\* starts a goroutine for every partition.
Check(ops, info, limited) ==
    /\ main.at = "uncalled"
    /\ history' = ops /\ verbose' = info /\ timeout' = limited
    /\ \/ l' = checkOperations(ops)
       \/ Len(Partition(ops)) = 1 /\ l' = checkEvents(Events(ops))
    /\ search' = [i \in DOMAIN l' |-> Start(l'[i])]
    /\ main' = [main EXCEPT !.at = "select"]
    /\ UNCHANGED <<results, kill, result, partials>>

Next ==
    \/ \E ops \in Histories, info, limited \in BOOLEAN : Check(ops, info, limited)
    \/ \E i \in DOMAIN l :
          \/ Linearize(i) \/ Pass(i) \/ Backtrack(i)
          \/ Exhausted(i) \/ Killed(i) \/ Complete(i)
          \/ ReceiveResult(i) \/ Drain(i)
    \/ Timeout \/ Conclude

-----------------------------------------------------------------------------
(* The reference: what it means that a history is linearizable *)

\* Operation a returned before b was called.
Precedes(ops, a, b) == ops[a].Return < ops[b].Call

\* The value of the key after the operations of `order`; its answers play no
\* part in it.
ValueAfter(ops, order) ==
    FoldLeft(LAMBDA state, k : StepState(state, ops[k].Input), <<>>, order)

\* The operations of `order` can have happened in that order, before all others.
IsLinearPrefix(ops, order) ==
    \A k \in DOMAIN order :
        /\ \A a \in DOMAIN ops : Precedes(ops, a, order[k]) =>
              a \in {order[j] : j \in 1 .. k - 1}
        /\ LET op == ops[order[k]]
               same(a) == ops[a].Input.Key = op.Input.Key
           IN  StepOk(ValueAfter(ops, SelectSeq(SubSeq(order, 1, k - 1), same)),
                      op.Input, op.Output)

LinearPrefixes(ops) ==
    {order \in SetToAllKPermutations(DOMAIN ops) :
        IsLinearPrefix(ops, order)}

LinearizableHistory(ops) == \E order \in LinearPrefixes(ops) : Len(order) = Len(ops)

\* For every operation of some linearizable prefix, a longest one it is in, and
\* no order that is not a linearizable prefix.
AreLongest(ops, orders) ==
    LET prefixes == LinearPrefixes(ops)
        number(order) == [k \in DOMAIN order |-> order[k] + 1]
    IN  /\ \A order \in orders : number(order) \in prefixes
        /\ \A p \in prefixes : \A a \in Range(p) :
              \E order \in orders :
                  a \in Range(number(order)) /\ Len(order) >= Len(p)

\* The verdict is right: CheckOperations answers Ok only for a history that is
\* linearizable over all its keys, Illegal only for one that is not, whatever
\* goroutines were killed half-way, and Unknown only when a timeout was given.
\* Without a timeout the verbose check returns, for every operation that has
\* one, the longest linearizable prefix of its key it is in (checker.go:185).
VerdictIsRight ==
    /\ result = "Ok" => LinearizableHistory(history)
    /\ result = "Illegal" => ~LinearizableHistory(history)
    /\ result = "Unknown" => timeout
    /\ (result # "None" /\ verbose /\ ~main.timedOut
          /\ l = checkOperations(history)) =>
          \A i \in DOMAIN l : AreLongest(Partition(history)[i], partials[i])
=============================================================================
