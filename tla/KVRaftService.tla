--------------------------- MODULE KVRaftService ----------------------------
(***************************************************************************)
(* The steps of KVRaft keep the leaders, the clerks, the handlers and      *)
(* their channels sound.                                                   *)
(***************************************************************************)
EXTENDS KVRaftHistory

\* The back ends a leaf that names none is given to, in this order.
USE ZenonT(3), SMTT(10), ZenonT(15), SMTT(30)

-----------------------------------------------------------------------------
(* Leaders and their logs *)

LEMMA SameRaftInv ==
    RaftInv /\ UNCHANGED <<term, isLeader, log, chosen, lastApplied>> => RaftInv'
BY SMTT(10) DEF RaftInv, LeadersSound, LeadersHaveTheirs, LeaderHoldsChosen, AppliedIsHeld, IsNewest,
       Holds

\* Servers that stop leading, and terms that go up, elect nobody.
LEMMA NoLeaderMade ==
    ASSUME RaftTypes, RaftTypes', RaftInv, UNCHANGED chosen,
           \A k \in Server : /\ term[k] <= term'[k]
                             /\ isLeader'[k] => /\ isLeader[k] /\ term'[k] = term[k]
                                                /\ log'[k] = log[k]
    PROVE  /\ LeaderHoldsChosen'
           /\ \A i, j \in Server : isLeader'[i] /\ isLeader'[j] /\ term'[i] = term'[j] => i = j
           /\ \A i \in Server : isLeader'[i] => term'[i] # 0
           /\ \A n \in 1 .. Len(chosen) : \E i \in Server : chosen[n].Term <= term'[i]
<1>1. ASSUME NEW i \in Server, isLeader'[i], \A j \in Server : term'[j] <= term'[i]
      PROVE  Holds(i, Len(chosen))'
  <2>1. isLeader[i] /\ term'[i] = term[i] /\ log'[i] = log[i]
    BY <1>1
  <2>2. ASSUME NEW j \in Server
        PROVE  term[j] <= term[i]
    <3>1. term[j] <= term'[j] /\ term'[j] <= term'[i]
      BY <1>1
    <3>2. term[j] \in Nat /\ term'[j] \in Nat /\ term[i] \in Nat
      BY SMTT(10), KVAssumption DEF RaftTypes
    <3> QED BY SMTT(10), <2>1, <3>1, <3>2
  <2>3. Holds(i, Len(chosen))
    BY <2>1, <2>2 DEF RaftInv, LeaderHoldsChosen, IsNewest
  <2> QED BY <2>1, <2>3 DEF Holds
<1>2. LeaderHoldsChosen'
  BY <1>1 DEF LeaderHoldsChosen, IsNewest
<1>3. /\ \A i, j \in Server : isLeader'[i] /\ isLeader'[j] /\ term'[i] = term'[j] => i = j
      /\ \A i \in Server : isLeader'[i] => term'[i] # 0
  BY DEF RaftInv, LeadersSound
<1>4. ASSUME NEW n \in 1 .. Len(chosen)
      PROVE  \E i \in Server : chosen[n].Term <= term'[i]
  <2>1. PICK i \in Server : chosen[n].Term <= term[i]
    BY DEF RaftInv, LeadersSound
  <2>2. chosen[n].Term \in Nat /\ term[i] \in Nat /\ term'[i] \in Nat
    BY SMTT(10), LogElements, KVAssumption DEF RaftTypes
  <2>3. term[i] <= term'[i]
    OBVIOUS
  <2>4. chosen[n].Term <= term'[i]
    BY SMTT(10), <2>1, <2>2, <2>3
  <2> QED BY <2>4
<1> QED BY <1>2, <1>3, <1>4

LEMMA RaftElect ==
    ASSUME TypeInv, TypeInv', RaftInv, NEW i \in Server, Elect(i)
    PROVE  RaftInv'
<1>1. RaftTypes /\ RaftTypes'
  BY DEF TypeInv
<1>2. PICK t \in 1 .. MaxTerm : (\A j \in Server : term[j] < t) /\ term' = [term EXCEPT ![i] = t]
  BY DEF Elect
<1>3. /\ isLeader' = [isLeader EXCEPT ![i] = TRUE] /\ term' = [term EXCEPT ![i] = t]
      /\ IsPrefix(chosen, log[i]) /\ UNCHANGED <<log, chosen, lastApplied>>
  BY <1>2 DEF Elect, applyVars
<1>4. t \in Nat /\ t # 0 /\ \A j \in Server : term[j] < t /\ term[j] \in Nat
  BY SMTT(10), <1>1, <1>2, LogElements
<1>5. /\ term'[i] = t /\ \A k \in Server : k # i => term'[k] = term[k]
      /\ isLeader'[i] /\ \A k \in Server : k # i => isLeader'[k] = isLeader[k]
  BY <1>1, <1>3 DEF RaftTypes
<1>6. LeadersSound /\ LeadersHaveTheirs /\ LeaderHoldsChosen /\ AppliedIsHeld
  BY DEF RaftInv
<1>7. \A j \in Server : \A n \in 1 .. Len(log[j]) : log[j][n].Term < t
  <2> SUFFICES ASSUME NEW j \in Server, NEW n \in 1 .. Len(log[j])
               PROVE  log[j][n].Term < t
    OBVIOUS
  <2>1. log[j][n].Term <= term[j] /\ log[j][n].Term \in Nat
    BY <1>1, <1>6, LogElements DEF LeadersSound
  <2> QED BY SMTT(10), <1>4, <2>1
<1>8. \A n \in 1 .. Len(chosen) : chosen[n].Term < t
  <2> SUFFICES ASSUME NEW n \in 1 .. Len(chosen)
               PROVE  chosen[n].Term < t
    OBVIOUS
  <2>1. PICK j \in Server : chosen[n].Term <= term[j]
    BY <1>6 DEF LeadersSound
  <2>2. chosen[n].Term \in Nat
    BY <1>1, LogElements
  <2> QED BY SMTT(10), <1>4, <2>1, <2>2
<1>9. LeadersSound'
  <2>1. ASSUME NEW k \in Server, NEW j \in Server, isLeader'[k], isLeader'[j],
               term'[k] = term'[j]
        PROVE  k = j
    BY SMTT(10), <1>4, <1>5, <1>6, <2>1 DEF LeadersSound
  <2>2. ASSUME NEW k \in Server, isLeader'[k]
        PROVE  term'[k] # 0
    BY <1>4, <1>5, <1>6, <2>2 DEF LeadersSound
  <2>3. ASSUME NEW k \in Server, NEW n \in 1 .. Len(log[k])
        PROVE  log[k][n].Term <= term'[k]
    <3>1. log[k][n].Term < t /\ log[k][n].Term <= term[k] /\ log[k][n].Term \in Nat
      BY <1>1, <1>6, <1>7, LogElements DEF LeadersSound
    <3> QED BY SMTT(10), <1>4, <1>5, <3>1
  <2>4. ASSUME NEW n \in 1 .. Len(chosen)
        PROVE  \E k \in Server : chosen[n].Term <= term'[k]
    <3>1. chosen[n].Term < t /\ chosen[n].Term \in Nat
      BY <1>1, <1>8, LogElements
    <3>2. chosen[n].Term <= term'[i]
      BY SMTT(10), <1>4, <1>5, <3>1
    <3> QED BY <3>2
  <2>5. UNCHANGED <<log, chosen>>
    BY <1>3
  <2> QED BY <2>1, <2>2, <2>3, <2>4, <2>5 DEF LeadersSound
<1>10. LeadersHaveTheirs'
  <2> SUFFICES ASSUME NEW k \in Server, isLeader'[k]
               PROVE  /\ \A j \in Server : \A n \in 1 .. Len(log[j]) :
                           log[j][n].Term = term'[k] => n <= Len(log[k])
                      /\ \A n \in 1 .. Len(chosen) :
                           chosen[n].Term = term'[k] => n <= Len(log[k])
    BY <1>3 DEF LeadersHaveTheirs
  <2>1. CASE k = i
    <3>1. \A j \in Server : \A n \in 1 .. Len(log[j]) : log[j][n].Term # t
      <4> SUFFICES ASSUME NEW j \in Server, NEW n \in 1 .. Len(log[j])
                   PROVE  log[j][n].Term # t
        OBVIOUS
      <4>1. log[j][n].Term < t /\ log[j][n].Term \in Nat
        BY <1>1, <1>7, LogElements
      <4> QED BY SMTT(10), <1>4, <4>1
    <3>2. \A n \in 1 .. Len(chosen) : chosen[n].Term # t
      <4> SUFFICES ASSUME NEW n \in 1 .. Len(chosen)
                   PROVE  chosen[n].Term # t
        OBVIOUS
      <4>1. chosen[n].Term < t /\ chosen[n].Term \in Nat
        BY <1>1, <1>8, LogElements
      <4> QED BY SMTT(10), <1>4, <4>1
    <3> QED BY <1>5, <2>1, <3>1, <3>2, Zenon
  <2>2. CASE k # i
    <3>1. isLeader[k] /\ term'[k] = term[k]
      BY <1>5, <2>2
    <3> QED BY <1>6, <3>1, Zenon DEF LeadersHaveTheirs
  <2> QED BY <2>1, <2>2
<1>11. LeaderHoldsChosen'
  <2> SUFFICES ASSUME NEW k \in Server, IsNewest(k)'
               PROVE  Holds(k, Len(chosen))
    BY <1>3 DEF LeaderHoldsChosen, Holds
  <2>1. k = i
    <3>1. term'[i] <= term'[k]
      BY DEF IsNewest
    <3> QED BY SMTT(10), <1>4, <1>5, <3>1
  <2>2. log[i] \in Seq(Entry) /\ chosen \in Seq(Entry)
    BY <1>1, LogElements
  <2> QED BY <1>3, <2>1, <2>2 DEF Holds, IsPrefix
<1>12. AppliedIsHeld'
  BY <1>3, <1>6 DEF AppliedIsHeld, Holds
<1> QED BY <1>9, <1>10, <1>11, <1>12 DEF RaftInv

LEMMA RaftStepDown ==
    ASSUME TypeInv, TypeInv', RaftInv, NEW i \in Server, NEW j \in Server, StepDown(i, j)
    PROVE  RaftInv'
<1>1. RaftTypes /\ RaftTypes'
  BY DEF TypeInv
<1>2. /\ term' = [term EXCEPT ![i] = term[j]] /\ isLeader' = [isLeader EXCEPT ![i] = FALSE]
      /\ term[j] > term[i] /\ UNCHANGED <<log, chosen, lastApplied>>
  BY DEF StepDown, applyVars
<1>3. \A k \in Server : /\ term[k] <= term'[k] /\ term[k] \in Nat /\ term'[k] \in Nat
                        /\ isLeader'[k] => isLeader[k] /\ term'[k] = term[k]
  <2>1. \A k \in Server : term[k] \in Nat
    BY <1>1, LogElements
  <2> QED BY SMTT(10), <1>1, <1>2, <2>1 DEF RaftTypes
<1>4. UNCHANGED chosen /\ \A k \in Server : log'[k] = log[k]
  BY <1>2
<1>5. /\ LeaderHoldsChosen'
      /\ \A k, l \in Server : isLeader'[k] /\ isLeader'[l] /\ term'[k] = term'[l] => k = l
      /\ \A k \in Server : isLeader'[k] => term'[k] # 0
      /\ \A n \in 1 .. Len(chosen) : \E k \in Server : chosen[n].Term <= term'[k]
  BY <1>1, <1>3, <1>4, NoLeaderMade
<1>6. LeadersSound /\ LeadersHaveTheirs /\ AppliedIsHeld
  BY DEF RaftInv
<1>7. ASSUME NEW k \in Server, NEW n \in 1 .. Len(log[k])
      PROVE  log[k][n].Term <= term'[k]
  <2>1. log[k][n].Term <= term[k] /\ log[k][n].Term \in Nat
    BY <1>1, <1>6, LogElements DEF LeadersSound
  <2> QED BY SMTT(10), <1>3, <2>1
<1>8. LeadersSound'
  BY <1>2, <1>5, <1>7 DEF LeadersSound
<1>9. LeadersHaveTheirs'
  BY <1>2, <1>3, <1>6 DEF LeadersHaveTheirs
<1>10. AppliedIsHeld'
  BY <1>2, <1>6 DEF AppliedIsHeld, Holds
<1> QED BY <1>5, <1>8, <1>9, <1>10 DEF RaftInv

\* Server j takes over entries of the newest leader i: all of its log, or what
\* a snapshot covers.
LEMMA RaftTakeOver ==
    ASSUME RaftTypes, RaftTypes', RaftInv, NEW i \in Server, NEW j \in Server,
           IsNewest(i), i # j, UNCHANGED chosen,
           term' = [term EXCEPT ![j] = term[i]], isLeader' = [isLeader EXCEPT ![j] = FALSE],
           \A k \in Server : k # j => log'[k] = log[k],
           \A n \in 1 .. Len(log'[j]) :
             \/ n <= Len(log[i]) /\ log'[j][n] = log[i][n]
             \/ n <= Len(log[j]) /\ log'[j][n] = log[j][n]
    PROVE  LeadersSound' /\ LeadersHaveTheirs' /\ LeaderHoldsChosen'
<1>1. \A k \in Server : term[k] \in Nat /\ term[k] <= term[i]
  BY LogElements DEF IsNewest
<1>2. /\ term'[j] = term[i] /\ \A k \in Server : k # j => term'[k] = term[k]
      /\ ~isLeader'[j] /\ \A k \in Server : k # j => isLeader'[k] = isLeader[k]
  BY DEF RaftTypes
<1>3. \A k \in Server : /\ term[k] <= term'[k]
                        /\ isLeader'[k] => /\ isLeader[k] /\ term'[k] = term[k]
                                           /\ log'[k] = log[k]
  BY SMTT(10), <1>1, <1>2
<1>4. /\ LeaderHoldsChosen'
      /\ \A k, l \in Server : isLeader'[k] /\ isLeader'[l] /\ term'[k] = term'[l] => k = l
      /\ \A k \in Server : isLeader'[k] => term'[k] # 0
      /\ \A n \in 1 .. Len(chosen) : \E k \in Server : chosen[n].Term <= term'[k]
  BY <1>3, NoLeaderMade
<1>5. LeadersSound /\ LeadersHaveTheirs
  BY DEF RaftInv
<1>6. \A n \in 1 .. Len(log'[j]) :
        \/ n \in 1 .. Len(log[i]) /\ log'[j][n] = log[i][n]
        \/ n \in 1 .. Len(log[j]) /\ log'[j][n] = log[j][n]
  <2>1. Len(log[i]) \in Nat /\ Len(log[j]) \in Nat /\ Len(log'[j]) \in Nat
    BY SMTT(10), LogElements DEF RaftTypes
  <2> QED BY SMTT(10), <2>1
<1>7. ASSUME NEW k \in Server, NEW n \in 1 .. Len(log'[k])
      PROVE  log'[k][n].Term <= term'[k]
  <2>1. CASE k # j
    BY <1>2, <1>5, <1>7, <2>1 DEF LeadersSound
  <2>2. CASE k = j
    <3>1. CASE n \in 1 .. Len(log[i]) /\ log'[j][n] = log[i][n]
      BY <1>2, <1>5, <2>2, <3>1 DEF LeadersSound
    <3>2. CASE n \in 1 .. Len(log[j]) /\ log'[j][n] = log[j][n]
      <4>1. log[j][n].Term <= term[j] /\ log[j][n].Term \in Nat
        BY <1>5, <3>2, LogElements DEF LeadersSound
      <4> QED BY SMTT(10), <1>1, <1>2, <2>2, <3>2, <4>1
    <3> QED BY <1>6, <1>7, <2>2, <3>1, <3>2
  <2> QED BY <2>1, <2>2
<1>8. LeadersSound'
  BY <1>4, <1>7 DEF LeadersSound
<1>9. LeadersHaveTheirs'
  <2> SUFFICES ASSUME NEW k \in Server, isLeader'[k]
               PROVE  /\ \A l \in Server : \A n \in 1 .. Len(log'[l]) :
                           log'[l][n].Term = term'[k] => n <= Len(log'[k])
                      /\ \A n \in 1 .. Len(chosen') :
                           chosen'[n].Term = term'[k] => n <= Len(log'[k])
    BY DEF LeadersHaveTheirs
  <2>1. isLeader[k] /\ term'[k] = term[k] /\ log'[k] = log[k]
    BY <1>3
  <2>2. /\ \A l \in Server : \A n \in 1 .. Len(log[l]) :
             log[l][n].Term = term[k] => n <= Len(log[k])
        /\ \A n \in 1 .. Len(chosen) : chosen[n].Term = term[k] => n <= Len(log[k])
    BY <1>5, <2>1 DEF LeadersHaveTheirs
  <2>3. ASSUME NEW l \in Server, NEW n \in 1 .. Len(log'[l]), log'[l][n].Term = term[k]
        PROVE  n <= Len(log[k])
    <3>1. CASE l # j
      BY <2>2, <2>3, <3>1
    <3>2. CASE l = j
      BY <1>6, <2>2, <2>3, <3>2
    <3> QED BY <3>1, <3>2
  <2> QED BY <2>1, <2>2, <2>3
<1> QED BY <1>4, <1>8, <1>9

LEMMA RaftFollow ==
    ASSUME TypeInv, TypeInv', BatchesInOrder, RaftInv, NEW j \in Server, NEW i \in Server,
           Follow(j, i)
    PROVE  RaftInv'
<1>1. RaftTypes /\ RaftTypes'
  BY DEF TypeInv
<1>2. /\ IsNewest(i) /\ i # j /\ log' = [log EXCEPT ![j] = log[i]]
      /\ term' = [term EXCEPT ![j] = term[i]] /\ isLeader' = [isLeader EXCEPT ![j] = FALSE]
      /\ UNCHANGED <<chosen, lastApplied>>
  BY DEF Follow, applyVars
<1>3. log'[j] = log[i] /\ \A k \in Server : k # j => log'[k] = log[k]
  BY <1>1, <1>2 DEF RaftTypes
<1>4. \A n \in 1 .. Len(log'[j]) : n <= Len(log[i]) /\ log'[j][n] = log[i][n]
  <2>1. Len(log[i]) \in Nat
    BY <1>1, LogElements
  <2> QED BY SMTT(10), <1>3, <2>1
<1>5. LeadersSound' /\ LeadersHaveTheirs' /\ LeaderHoldsChosen'
  BY <1>1, <1>2, <1>3, <1>4, RaftTakeOver
<1>6. AppliedIsHeld'
  <2> SUFFICES ASSUME NEW k \in Server
               PROVE  Holds(k, lastApplied[k])'
    BY DEF AppliedIsHeld
  <2>1. CASE k # j
    BY SMTT(10), <1>2, <1>3, <2>1 DEF RaftInv, AppliedIsHeld, Holds
  <2>2. CASE k = j
    <3>1. Holds(i, Len(chosen))
      BY <1>2 DEF RaftInv, LeaderHoldsChosen
    <3>2. lastApplied[j] <= Len(chosen)
      BY DEF BatchesInOrder
    <3>3. lastApplied[j] \in Nat /\ Len(chosen) \in Nat /\ Len(log[i]) \in Nat
      BY <1>1, TypedEach DEF EachTyped
    <3>4. Holds(i, lastApplied[j])
      BY SMTT(10), <3>1, <3>2, <3>3 DEF Holds
    <3> QED BY SMTT(10), <1>2, <1>3, <2>2, <3>4 DEF Holds
  <2> QED BY <2>1, <2>2
<1> QED BY <1>5, <1>6 DEF RaftInv

LEMMA RaftInstall ==
    ASSUME TypeInv, LogsBounded, BatchesInOrder, RaftInv, NEW j \in Server, NEW i \in Server,
           InstallSnapshot(j, i)
    PROVE  RaftInv'
<1>0. PICK f : f = firstIndex[i]
  OBVIOUS
<1>1. AppliedIsHeld
  BY DEF RaftInv
<1>2. /\ TypeInv' /\ IsNewest(i) /\ i # j /\ f \in CallId
      /\ f <= Len(log[i]) /\ f <= Len(chosen)
      /\ Len(log'[j]) = IF f <= Len(log[j]) THEN Len(log[j]) ELSE f
      /\ \A n \in 1 .. Len(log'[j]) :
           log'[j][n] = IF n <= f THEN log[i][n] ELSE log[j][n]
      /\ \A k \in Server : k # j => log'[k] = log[k]
      /\ term' = [term EXCEPT ![j] = term[i]]
      /\ isLeader' = [isLeader EXCEPT ![j] = FALSE]
      /\ lastApplied' = [lastApplied EXCEPT ![j] = f] /\ UNCHANGED chosen
  <2>1. TypeInv' /\ InstallDoes(j, i, f)
    BY <1>0, <1>1, TypesInstall
  <2> QED BY <2>1 DEF InstallDoes
<1>3. RaftTypes /\ RaftTypes' /\ ApplyTypes
  BY <1>2 DEF TypeInv
<1>4. /\ Len(log[i]) \in Nat /\ Len(log[j]) \in Nat /\ Len(log'[j]) \in Nat /\ f \in Nat
      /\ Len(chosen) \in Nat
  BY SMTT(10), <1>2, <1>3, LogElements DEF RaftTypes, CallId
<1>5. \A n \in 1 .. Len(log'[j]) :
        \/ n <= Len(log[i]) /\ log'[j][n] = log[i][n]
        \/ n <= Len(log[j]) /\ log'[j][n] = log[j][n]
  <2> SUFFICES ASSUME NEW n \in 1 .. Len(log'[j])
               PROVE  \/ n <= Len(log[i]) /\ log'[j][n] = log[i][n]
                      \/ n <= Len(log[j]) /\ log'[j][n] = log[j][n]
    OBVIOUS
  <2>1. CASE n <= f
    BY SMTT(10), <1>2, <1>4, <2>1
  <2>2. CASE ~(n <= f)
    <3>1. log'[j][n] = log[j][n]
      BY <1>2, <2>2
    <3>2. n <= Len(log[j])
      BY SMTT(10), <1>2, <1>4, <2>2
    <3> QED BY <3>1, <3>2
  <2> QED BY <2>1, <2>2
<1>6. LeadersSound' /\ LeadersHaveTheirs' /\ LeaderHoldsChosen'
  BY <1>2, <1>3, <1>5, RaftTakeOver
<1>7. AppliedIsHeld'
  <2> SUFFICES ASSUME NEW k \in Server
               PROVE  Holds(k, lastApplied[k])'
    BY DEF AppliedIsHeld
  <2>1. lastApplied'[j] = f /\ (k # j => lastApplied'[k] = lastApplied[k])
    BY <1>2, <1>3 DEF ApplyTypes
  <2>2. CASE k # j
    BY SMTT(10), <1>1, <1>2, <2>1, <2>2 DEF AppliedIsHeld, Holds
  <2>3. CASE k = j
    <3>1. Holds(i, lastApplied[i]) /\ f <= lastApplied[i] /\ lastApplied[i] \in Nat
      BY SMTT(10), <1>0, <1>1, <1>3, KVAssumption DEF AppliedIsHeld, BatchesInOrder, ApplyTypes
    <3>2. \A n \in 1 .. f : log[i][n] = chosen[n]
      BY SMTT(10), <1>4, <3>1 DEF Holds
    <3>3. f <= Len(log'[j])
      BY SMTT(10), <1>2, <1>4
    <3>4. \A n \in 1 .. f : log'[j][n] = chosen'[n]
      <4> SUFFICES ASSUME NEW n \in 1 .. f
                   PROVE  log'[j][n] = chosen'[n]
        OBVIOUS
      <4>1. n \in 1 .. Len(log'[j]) /\ n <= f
        BY SMTT(10), <1>4, <3>3
      <4>2. log'[j][n] = log[i][n]
        BY <1>2, <4>1
      <4> QED BY <1>2, <3>2, <4>2
    <3> QED BY <2>1, <2>3, <3>3, <3>4 DEF Holds
  <2> QED BY <2>2, <2>3
<1> QED BY <1>6, <1>7 DEF RaftInv

LEMMA RaftChoose ==
    ASSUME TypeInv, LogsBounded, BatchesInOrder, RaftInv, NEW i \in Server, Choose(i)
    PROVE  RaftInv'
<1> DEFINE n == Len(chosen) + 1
<1>1. /\ TypeInv' /\ Len(chosen') = n /\ n <= Len(log[i])
      /\ chosen'[n] = log[i][n] /\ \A m \in 1 .. Len(chosen) : chosen'[m] = chosen[m]
  BY TypesChoose
<1>2. /\ IsNewest(i) /\ UNCHANGED <<term, isLeader, log, lastApplied>>
      /\ IsPrefix(chosen, log[i])
  BY DEF Choose, applyVars
<1>3. RaftTypes /\ ApplyTypes
  BY DEF TypeInv
<1>4. /\ Len(log[i]) \in Nat /\ Len(chosen) \in Nat /\ log[i] \in Seq(Entry)
      /\ chosen \in Seq(Entry)
  BY <1>3, LogElements
<1>5. n \in 1 .. Len(log[i]) /\ \A m \in 1 .. n : m \in 1 .. Len(chosen) \/ m = n
  BY SMTT(10), <1>1, <1>4
<1> HIDE DEF n
<1>6. LeadersSound /\ LeadersHaveTheirs /\ LeaderHoldsChosen /\ AppliedIsHeld
  BY DEF RaftInv
<1>7. LeadersSound'
  <2>1. ASSUME NEW m \in 1 .. Len(chosen')
        PROVE  \E k \in Server : chosen'[m].Term <= term[k]
    <3>1. CASE m \in 1 .. Len(chosen)
      BY <1>1, <1>6, <3>1 DEF LeadersSound
    <3>2. CASE m = n
      BY <1>1, <1>5, <1>6, <3>2 DEF LeadersSound
    <3> QED BY <1>1, <1>5, <2>1, <3>1, <3>2
  <2> QED BY <1>2, <1>6, <2>1 DEF LeadersSound
<1>8. LeadersHaveTheirs'
  <2>1. ASSUME NEW k \in Server, isLeader[k], NEW m \in 1 .. Len(chosen'),
               chosen'[m].Term = term[k]
        PROVE  m <= Len(log[k])
    <3>1. CASE m \in 1 .. Len(chosen)
      BY <1>1, <1>6, <2>1, <3>1 DEF LeadersHaveTheirs
    <3>2. CASE m = n
      BY <1>1, <1>5, <1>6, <2>1, <3>2 DEF LeadersHaveTheirs
    <3> QED BY <1>1, <1>5, <2>1, <3>1, <3>2
  <2> QED BY <1>2, <1>6, <2>1 DEF LeadersHaveTheirs
<1>9. LeaderHoldsChosen'
  <2> SUFFICES ASSUME NEW k \in Server, IsNewest(k)
               PROVE  Holds(k, Len(chosen))'
    BY <1>2 DEF LeaderHoldsChosen, IsNewest
  <2>1. k = i
    <3>1. isLeader[k] /\ isLeader[i] /\ term[k] <= term[i] /\ term[i] <= term[k]
      BY <1>2 DEF IsNewest
    <3>2. term[k] = term[i]
      BY SMTT(10), <1>3, <3>1, LogElements
    <3> QED BY <1>6, <3>1, <3>2 DEF LeadersSound
  <2>2. \A m \in 1 .. Len(chosen) : chosen[m] = log[i][m]
    BY <1>2, <1>4 DEF IsPrefix
  <2>3. \A m \in 1 .. n : log[i][m] = chosen'[m]
    BY <1>1, <1>5, <2>2
  <2> QED BY <1>1, <1>2, <2>1, <2>3 DEF Holds
<1>10. AppliedIsHeld'
  <2> SUFFICES ASSUME NEW k \in Server
               PROVE  Holds(k, lastApplied[k])'
    BY DEF AppliedIsHeld
  <2>1. lastApplied[k] <= Len(chosen) /\ lastApplied[k] \in Nat
    BY SMTT(10), <1>3, KVAssumption DEF BatchesInOrder, ApplyTypes
  <2>2. \A m \in 1 .. lastApplied[k] : chosen'[m] = chosen[m]
    BY SMTT(10), <1>1, <1>4, <2>1
  <2>3. Holds(k, lastApplied[k])
    BY <1>6 DEF AppliedIsHeld
  <2> QED BY <1>2, <2>2, <2>3 DEF Holds
<1> QED BY <1>7, <1>8, <1>9, <1>10 DEF RaftInv

\* The applied prefix moves on in what the server holds.
LEMMA RaftApplied ==
    ASSUME RaftInv, UNCHANGED <<term, isLeader, log, chosen>>,
           \A k \in Server : Holds(k, lastApplied'[k])
    PROVE  RaftInv'
BY DEF RaftInv, LeadersSound, LeadersHaveTheirs, LeaderHoldsChosen, AppliedIsHeld, IsNewest,
       Holds

LEMMA RaftApply ==
    ASSUME TypeInv, LogsBounded, RaftInv, NEW i \in Server, apply(i)
    PROVE  RaftInv'
<1>1. /\ UNCHANGED raftVars /\ TypeInv' /\ lastApplied'[i] <= Len(chosen)
      /\ IsPrefix(SubSeq(chosen, 1, lastApplied'[i]), log[i])
      /\ \A j \in Server : j # i => lastApplied'[j] = lastApplied[j]
  BY TypesApply
<1>2. RaftTypes /\ ApplyTypes'
  BY <1>1 DEF TypeInv
<1>3. PICK l : l = lastApplied'[i]
  OBVIOUS
<1>4. l \in Nat /\ l <= Len(chosen)
  BY SMTT(10), <1>1, <1>2, <1>3, KVAssumption DEF ApplyTypes
<1>5. /\ log[i] \in Seq(Entry) /\ chosen \in Seq(Entry) /\ Len(chosen) \in Nat
      /\ \A m \in 1 .. Len(chosen) : chosen[m] \in Entry
  BY <1>2, LogElements
<1>6. /\ SubSeq(chosen, 1, l) \in Seq(Entry) /\ Len(SubSeq(chosen, 1, l)) = l
      /\ \A m \in 1 .. l : SubSeq(chosen, 1, l)[m] = chosen[m]
  <2>1. \A m \in 1 .. l : chosen[m] \in Entry
    BY SMTT(10), <1>4, <1>5
  <2> QED BY SMTT(10), <1>4, <1>5, <2>1, SeqSlice
<1>7. Holds(i, l)
  <2> DEFINE p == SubSeq(chosen, 1, l)
  <2>1. IsPrefix(p, log[i])
    BY <1>1, <1>3
  <2>2. p \in Seq(Entry) /\ Len(p) = l /\ \A m \in 1 .. l : p[m] = chosen[m]
    BY <1>6
  <2> HIDE DEF p
  <2>3. Len(p) <= Len(log[i]) /\ \A m \in 1 .. Len(p) : p[m] = log[i][m]
    BY <1>5, <2>1, <2>2 DEF IsPrefix
  <2> QED BY <2>2, <2>3 DEF Holds
<1>8. \A k \in Server : Holds(k, lastApplied'[k])
  BY <1>1, <1>3, <1>7 DEF RaftInv, AppliedIsHeld
<1> QED BY <1>1, <1>8, RaftApplied DEF raftVars

LEMMA RaftRestart ==
    ASSUME TypeInv, BatchesInOrder, RaftInv, NEW i \in Server, Restart(i)
    PROVE  RaftInv'
<1>1. /\ TypeInv' /\ UNCHANGED <<term, log, chosen>>
      /\ isLeader' = [isLeader EXCEPT ![i] = FALSE]
      /\ lastApplied' = [lastApplied EXCEPT ![i] = firstIndex[i]]
  BY TypesRestart
<1>2. RaftTypes /\ ApplyTypes /\ RaftTypes'
  BY <1>1 DEF TypeInv
<1>3. \A k \in Server : isLeader'[k] => isLeader[k]
  BY <1>1, <1>2 DEF RaftTypes
<1>4. \A k \in Server : /\ term[k] <= term'[k] /\ term'[k] = term[k] /\ log'[k] = log[k]
                        /\ isLeader'[k] => isLeader[k]
  BY SMTT(10), <1>1, <1>2, <1>3, LogElements
<1>5. LeaderHoldsChosen'
  BY <1>1, <1>2, <1>4, NoLeaderMade
<1>6. LeadersSound' /\ LeadersHaveTheirs'
  BY <1>1, <1>3 DEF RaftInv, LeadersSound, LeadersHaveTheirs
<1>7. AppliedIsHeld'
  <2> SUFFICES ASSUME NEW k \in Server
               PROVE  Holds(k, lastApplied[k])'
    BY DEF AppliedIsHeld
  <2>1. Holds(k, lastApplied[k]) /\ firstIndex[k] <= lastApplied[k]
    BY DEF RaftInv, AppliedIsHeld, BatchesInOrder
  <2>2. lastApplied'[k] = lastApplied[k] \/ lastApplied'[k] = firstIndex[k]
    BY <1>1, <1>2 DEF ApplyTypes
  <2>3. firstIndex[k] \in Nat /\ lastApplied[k] \in Nat /\ Len(log[k]) \in Nat
    BY SMTT(10), <1>2, LogElements, KVAssumption DEF ApplyTypes
  <2>4. Holds(k, firstIndex[k])
    BY SMTT(10), <2>1, <2>3 DEF Holds
  <2> QED BY <1>1, <2>1, <2>2, <2>4 DEF Holds
<1> QED BY <1>5, <1>6, <1>7 DEF RaftInv

LEMMA RaftStart ==
    ASSUME TypeInv, LogsBounded, ClerksSound, HandlersSound, RaftInv, NEW h \in CallId, Start(h)
    PROVE  RaftInv'
<1>0. PICK i : i = handlers[h].server
  OBVIOUS
<1>1. LeadersSound /\ LeadersHaveTheirs /\ LeaderHoldsChosen /\ AppliedIsHeld
  BY DEF RaftInv
<1>2. i \in Server /\ UNCHANGED <<term, isLeader, chosen, lastApplied>>
  <2>1. TypeInv' /\ StartDoes(h, i)
    BY <1>0, <1>1, TypesStart
  <2> QED BY <2>1 DEF StartDoes, applyVars
<1>3. CASE UNCHANGED log
  BY <1>2, <1>3, SameRaftInv
<1>4. CASE isLeader[i] /\ \E e \in Entry : e.Term = term[i]
                             /\ log' = [log EXCEPT ![i] = Append(log[i], e)]
  <2>1. PICK e \in Entry : e.Term = term[i] /\ log' = [log EXCEPT ![i] = Append(log[i], e)]
    BY <1>4
  <2>2. RaftTypes
    BY DEF TypeInv
  <2>3. /\ log'[i] = Append(log[i], e) /\ \A k \in Server : k # i => log'[k] = log[k]
    BY <1>2, <2>1, <2>2 DEF RaftTypes
  <2>4. \A k \in Server : log[k] \in Seq(Entry) /\ Len(log[k]) \in Nat /\ term[k] \in Nat
    BY <2>2, LogElements
  <2>5. /\ Len(log'[i]) = Len(log[i]) + 1 /\ log'[i][Len(log[i]) + 1] = e
        /\ \A n \in 1 .. Len(log[i]) : log'[i][n] = log[i][n]
    BY SMTT(10), <1>2, <2>3, <2>4, SeqAppend
  <2>6. \A k \in Server : /\ Len(log[k]) <= Len(log'[k])
                          /\ \A n \in 1 .. Len(log[k]) : log'[k][n] = log[k][n]
    BY SMTT(10), <2>3, <2>4, <2>5
  <2>7. ASSUME NEW k \in Server, NEW n \in 1 .. Len(log'[k])
        PROVE  \/ n \in 1 .. Len(log[k]) /\ log'[k][n] = log[k][n]
               \/ k = i /\ n = Len(log[i]) + 1 /\ log'[k][n].Term = term[i]
    <3>1. CASE k = i
      <4>1. n \in 1 .. Len(log[i]) \/ n = Len(log[i]) + 1
        BY SMTT(10), <2>4, <2>5, <2>7, <3>1
      <4> QED BY <2>1, <2>5, <3>1, <4>1
    <3>2. CASE k # i
      BY <2>3, <2>7, <3>2
    <3> QED BY <3>1, <3>2
  <2>8. LeadersSound'
    <3>1. ASSUME NEW k \in Server, NEW n \in 1 .. Len(log'[k])
          PROVE  log'[k][n].Term <= term[k]
      <4>1. CASE n \in 1 .. Len(log[k]) /\ log'[k][n] = log[k][n]
        BY <1>1, <4>1 DEF LeadersSound
      <4>2. CASE k = i /\ log'[k][n].Term = term[i]
        BY SMTT(10), <2>4, <4>2
      <4> QED BY <2>7, <3>1, <4>1, <4>2
    <3> QED BY <1>1, <1>2, <3>1 DEF LeadersSound
  <2>9. LeadersHaveTheirs'
    <3> SUFFICES ASSUME NEW k \in Server, isLeader[k]
                 PROVE  /\ \A j \in Server : \A n \in 1 .. Len(log'[j]) :
                             log'[j][n].Term = term[k] => n <= Len(log'[k])
                        /\ \A n \in 1 .. Len(chosen) :
                             chosen[n].Term = term[k] => n <= Len(log'[k])
      BY <1>2 DEF LeadersHaveTheirs
    <3>1. /\ \A j \in Server : \A n \in 1 .. Len(log[j]) :
               log[j][n].Term = term[k] => n <= Len(log[k])
          /\ \A n \in 1 .. Len(chosen) : chosen[n].Term = term[k] => n <= Len(log[k])
      BY <1>1 DEF LeadersHaveTheirs
    <3>2. Len(log[k]) \in Nat /\ Len(log'[k]) \in Nat /\ Len(log[k]) <= Len(log'[k])
      BY SMTT(10), <2>3, <2>4, <2>5, <2>6
    <3>3. ASSUME NEW j \in Server, NEW n \in 1 .. Len(log'[j]), log'[j][n].Term = term[k]
          PROVE  n <= Len(log'[k])
      <4>1. CASE n \in 1 .. Len(log[j]) /\ log'[j][n] = log[j][n]
        <5>1. n <= Len(log[k])
          BY <3>1, <3>3, <4>1
        <5> QED BY SMTT(10), <3>2, <4>1, <5>1
      <4>2. CASE j = i /\ n = Len(log[i]) + 1 /\ log'[j][n].Term = term[i]
        <5>1. k = i
          BY <1>1, <1>2, <1>4, <3>3, <4>2 DEF LeadersSound
        <5> QED BY SMTT(10), <2>4, <2>5, <4>2, <5>1
      <4> QED BY <2>7, <3>3, <4>1, <4>2
    <3>4. ASSUME NEW n \in 1 .. Len(chosen), chosen[n].Term = term[k]
          PROVE  n <= Len(log'[k])
      <4>1. n <= Len(log[k]) /\ n \in Nat
        BY SMTT(10), <3>1, <3>4
      <4> QED BY SMTT(10), <3>2, <4>1
    <3> QED BY <3>3, <3>4
  <2>10. ASSUME NEW k \in Server, NEW m \in Nat, Holds(k, m)
         PROVE  m <= Len(log'[k]) /\ \A n \in 1 .. m : log'[k][n] = chosen[n]
    <3>1. m <= Len(log[k]) /\ \A n \in 1 .. m : log[k][n] = chosen[n]
      BY <2>10 DEF Holds
    <3>2. Len(log[k]) \in Nat /\ Len(log'[k]) \in Nat /\ Len(log[k]) <= Len(log'[k])
      BY SMTT(10), <2>3, <2>4, <2>5, <2>6
    <3> QED BY SMTT(10), <2>6, <3>1, <3>2
  <2>11. LeaderHoldsChosen' /\ AppliedIsHeld'
    <3>1. Len(chosen) \in Nat /\ \A k \in Server : lastApplied[k] \in Nat
      BY SMTT(10), <2>2, LogElements, KVAssumption, <1>2 DEF TypeInv, ApplyTypes
    <3>2. \A k \in Server : IsNewest(k) => Holds(k, Len(chosen))
      BY <1>1 DEF LeaderHoldsChosen
    <3>3. \A k \in Server : Holds(k, lastApplied[k])
      BY <1>1 DEF AppliedIsHeld
    <3>4. LeaderHoldsChosen'
      BY <1>2, <2>10, <3>1, <3>2 DEF LeaderHoldsChosen, IsNewest, Holds
    <3>5. AppliedIsHeld'
      BY <1>2, <2>10, <3>1, <3>3 DEF AppliedIsHeld, Holds
    <3> QED BY <3>4, <3>5
  <2> QED BY <2>8, <2>9, <2>11 DEF RaftInv
<1>5. \/ UNCHANGED log
      \/ isLeader[i] /\ \E e \in Entry : e.Term = term[i]
                          /\ log' = [log EXCEPT ![i] = Append(log[i], e)]
  <2>1. TypeInv' /\ StartDoes(h, i)
    BY <1>0, <1>1, TypesStart
  <2> QED BY <2>1 DEF StartDoes
<1> QED BY <1>3, <1>4, <1>5

-----------------------------------------------------------------------------
(* Logs, clerks, handlers and channels: what a step leaves alone *)

LEMMA SameBatches ==
    BatchesInOrder /\ UNCHANGED <<lastApplied, chosen, firstIndex, batch>> => BatchesInOrder'
BY DEF BatchesInOrder

LEMMA SameClerks ==
    ClerksSound /\ UNCHANGED <<op, RequestId, call, since, chosen, calls>> => ClerksSound'
BY DEF ClerksSound

LEMMA SameHandlers == HandlersSound /\ UNCHANGED <<handlers, calls, call, op>> => HandlersSound'
BY DEF HandlersSound

LEMMA SameOwned == ChannelsOwned /\ UNCHANGED <<waitChMap, handlers>> => ChannelsOwned'
BY SMTT(10) DEF ChannelsOwned

LEMMA SameFresh == ChannelsFresh /\ UNCHANGED <<calls, handlers, buffered>> => ChannelsFresh'
BY DEF ChannelsFresh

LEMMA SameRoom ==
    ChannelsHaveRoom /\ UNCHANGED <<waitChMap, buffered, lastApplied, batch>> =>
        ChannelsHaveRoom'
BY DEF ChannelsHaveRoom

LEMMA SameBounds == LogsBounded /\ UNCHANGED <<log, chosen, values>> => LogsBounded'
BY DEF LogsBounded

LEMMA OneHandlerSound ==
    ASSUME HandlerTypes, HandlersSound, NEW h \in CallId, handlers[h] # NoHandler,
           NEW g \in Handler, handlers' = [handlers EXCEPT ![h] = g],
           UNCHANGED <<calls, call, op>>, g.clerk = handlers[h].clerk, g.op = handlers[h].op,
           g.pc \in {"started", "waits", "leaves"} => g.index # 0 /\ g.term # 0,
           g.pc = "waits" => g.ch # 0,
           g.pc = "leaves" => g.err \in {"OK", "ErrWrongLeader"}
    PROVE  HandlersSound'
<1>1. handlers'[h] = g /\ \A x \in CallId : x # h => handlers'[x] = handlers[x]
  BY OneHandlerChanges
<1> SUFFICES ASSUME NEW x \in CallId
             PROVE  /\ x > calls' => handlers'[x] = NoHandler
                    /\ handlers'[x] # NoHandler =>
                         /\ call'[handlers'[x].clerk] = x =>
                              handlers'[x].op = op'[handlers'[x].clerk]
                         /\ handlers'[x].pc \in {"started", "waits", "leaves"} =>
                              handlers'[x].index # 0 /\ handlers'[x].term # 0
                         /\ handlers'[x].pc = "waits" => handlers'[x].ch # 0
                         /\ handlers'[x].pc = "leaves" =>
                              handlers'[x].err \in {"OK", "ErrWrongLeader"}
  BY DEF HandlersSound
<1>2. CASE x = h
  <2>1. ~(h > calls) /\ (call[handlers[h].clerk] = h => handlers[h].op = op[handlers[h].clerk])
    BY DEF HandlersSound
  <2> QED BY SMTT(10), <1>1, <1>2, <2>1
<1>3. CASE x # h
  BY SMTT(10), <1>1, <1>3 DEF HandlersSound
<1> QED BY <1>2, <1>3

\* A handler that owns no channel changes.
LEMMA OwnedByOthers ==
    ASSUME WaitTypes, ChannelsOwned, NEW h \in CallId, UNCHANGED waitChMap,
           handlers[h].pc \notin {"waits", "leaves"},
           \A x \in CallId : x # h => handlers'[x] = handlers[x]
    PROVE  ChannelsOwned'
<1> SUFFICES ASSUME NEW i \in Server, NEW k \in CallId, waitChMap[i][k] # 0
             PROVE  LET g == handlers'[waitChMap[i][k]]
                    IN g.server = i /\ g.index = k /\ g.pc \in {"waits", "leaves"}
  BY SMTT(10) DEF ChannelsOwned
<1>1. PICK x : x = waitChMap[i][k]
  OBVIOUS
<1>2. x \in CallId
  <2>1. x \in 0 .. MaxCalls
    BY <1>1 DEF WaitTypes
  <2> QED BY <1>1, <2>1, CallIds
<1>3. handlers[x].server = i /\ handlers[x].index = k /\ handlers[x].pc \in {"waits", "leaves"}
  BY SMTT(10), <1>1 DEF ChannelsOwned
<1>4. handlers'[x] = handlers[x]
  BY <1>2, <1>3
<1> QED BY <1>1, <1>3, <1>4

LEMMA FreshKept ==
    ASSUME ChannelsFresh, UNCHANGED <<buffered, calls>>,
           \A x \in CallId : handlers'[x].pc \in {"sent", "checked", "started"} =>
                                handlers[x].pc \in {"sent", "checked", "started"}
    PROVE  ChannelsFresh'
BY DEF ChannelsFresh

\* The return of a handler leaves the clerks and the other handlers sound.
LEMMA ReplySound ==
    ASSUME TypeInv, ClerksSound, HandlersSound, NEW h \in CallId, handlers[h] # NoHandler,
           NEW err, NEW value \in Value, Reply(h, err, value), UNCHANGED <<chosen, calls>>
    PROVE  /\ ClerksSound' /\ HandlersSound' /\ handlers'[h] = NoHandler
           /\ \A x \in CallId : x # h => handlers'[x] = handlers[x]
<1>0. PICK c : c = handlers[h].clerk
  OBVIOUS
<1>1. /\ c \in Clerk /\ handlers' = [handlers EXCEPT ![h] = NoHandler] /\ UNCHANGED since
      /\ call[c] # h => UNCHANGED clerkVars
      /\ call[c] = h => /\ call' = [call EXCEPT ![c] = 0] /\ op[c].RequestId = RequestId[c]
      /\ call[c] = h /\ err = "OK" =>
           /\ RequestId' = [RequestId EXCEPT ![c] = RequestId[c] + 1]
           /\ op' = [op EXCEPT ![c] = Idle]
      /\ call[c] = h /\ err # "OK" => UNCHANGED <<RequestId, op>>
  <2>1. ReplyDoes(h, err, value, c)
    BY <1>0, ReplyEffect
  <2> QED BY <2>1 DEF ReplyDoes
<1>2. HandlerTypes /\ ClerkTypes
  BY DEF TypeInv
<1>3. handlers'[h] = NoHandler /\ \A x \in CallId : x # h => handlers'[x] = handlers[x]
  BY <1>1, <1>2, OneHandlerChanges
<1>4. \A d \in Clerk :
        \/ /\ call'[d] = call[d] /\ op'[d] = op[d] /\ RequestId'[d] = RequestId[d]
        \/ /\ call'[d] = 0 /\ (op'[d] = Idle \/ (op'[d] = op[d] /\ RequestId'[d] = RequestId[d]))
  <2> SUFFICES ASSUME NEW d \in Clerk
               PROVE  \/ /\ call'[d] = call[d] /\ op'[d] = op[d] /\ RequestId'[d] = RequestId[d]
                      \/ /\ call'[d] = 0
                         /\ \/ op'[d] = Idle
                            \/ op'[d] = op[d] /\ RequestId'[d] = RequestId[d]
    BY Zenon
  <2>1. CASE call[c] # h
    BY <1>1, <2>1 DEF clerkVars
  <2>2. CASE call[c] = h /\ err = "OK"
    BY <1>1, <1>2, <2>2 DEF ClerkTypes
  <2>3. CASE call[c] = h /\ err # "OK"
    BY <1>1, <1>2, <2>3 DEF ClerkTypes
  <2> QED BY <2>1, <2>2, <2>3
<1>5. ClerksSound'
  <2> SUFFICES ASSUME NEW d \in Clerk
               PROVE  /\ op'[d] # Idle => op'[d].RequestId = RequestId'[d]
                      /\ call'[d] # 0 => op'[d] # Idle
                      /\ call'[d] <= calls /\ since'[d] <= Len(chosen')
    BY DEF ClerksSound
  <2>1. /\ op[d] # Idle => op[d].RequestId = RequestId[d]
        /\ call[d] # 0 => op[d] # Idle
        /\ call[d] <= calls /\ since[d] <= Len(chosen)
    BY DEF ClerksSound
  <2>2. 0 <= calls
    BY TypedEach DEF EachTyped
  <2> QED BY <1>1, <1>4, <2>1, <2>2
<1>6. HandlersSound'
  <2> SUFFICES ASSUME NEW x \in CallId
               PROVE  /\ x > calls' => handlers'[x] = NoHandler
                      /\ handlers'[x] # NoHandler =>
                           /\ call'[handlers'[x].clerk] = x =>
                                handlers'[x].op = op'[handlers'[x].clerk]
                           /\ handlers'[x].pc \in {"started", "waits", "leaves"} =>
                                handlers'[x].index # 0 /\ handlers'[x].term # 0
                           /\ handlers'[x].pc = "waits" => handlers'[x].ch # 0
                           /\ handlers'[x].pc = "leaves" =>
                                handlers'[x].err \in {"OK", "ErrWrongLeader"}
    BY DEF HandlersSound
  <2>1. CASE x = h
    BY <1>3, <2>1
  <2>2. CASE x # h /\ handlers[x] = NoHandler
    BY <1>3, <2>2
  <2>3. CASE x # h /\ handlers[x] # NoHandler
    <3>1. PICK d : d = handlers[x].clerk
      OBVIOUS
    <3>2. d \in Clerk /\ x # 0
      BY SMTT(10), <1>2, <2>3, <3>1, HandlerFields DEF HandlerTypes, CallId
    <3>3. call'[d] = x => call[d] = x /\ op'[d] = op[d]
      BY <1>4, <3>2
    <3>4. handlers'[x] = handlers[x]
      BY <1>3, <2>3
    <3>5. /\ x > calls => handlers[x] = NoHandler
          /\ call[d] = x => handlers[x].op = op[d]
          /\ handlers[x].pc \in {"started", "waits", "leaves"} =>
               handlers[x].index # 0 /\ handlers[x].term # 0
          /\ handlers[x].pc = "waits" => handlers[x].ch # 0
          /\ handlers[x].pc = "leaves" => handlers[x].err \in {"OK", "ErrWrongLeader"}
      BY <2>3, <3>1 DEF HandlersSound
    <3> QED BY <3>1, <3>3, <3>4, <3>5
  <2> QED BY <2>1, <2>2, <2>3
<1> QED BY <1>3, <1>5, <1>6

-----------------------------------------------------------------------------
(* Every step keeps ServiceInv *)

\* A step of Raft that the service does not see.
LEMMA ServiceRaft ==
    ASSUME ServiceInv, TypeInv', LogsBounded',
           UNCHANGED <<applyVars, stateVars, waitVars, handlers, clerkVars, calls, kills>>,
           Len(chosen) <= Len(chosen')
    PROVE  ServiceInv'
<1>1. /\ BatchesInOrder /\ ClerksSound /\ HandlersSound /\ ChannelsOwned /\ ChannelsFresh
      /\ ChannelsHaveRoom /\ TypeInv
  BY DEF ServiceInv
<1>2. Len(chosen) \in Nat /\ Len(chosen') \in Nat
  BY <1>1, TypedEach, TypedEachNext DEF EachTyped
<1>3. BatchesInOrder'
  <2> SUFFICES ASSUME NEW i \in Server
               PROVE  lastApplied[i] <= Len(chosen')
    BY <1>1 DEF BatchesInOrder, applyVars
  <2>1. lastApplied[i] \in Nat /\ lastApplied[i] <= Len(chosen)
    BY <1>1, TypedEach DEF EachTyped, BatchesInOrder
  <2> QED BY SMTT(10), <1>2, <2>1
<1>4. ClerksSound'
  <2> SUFFICES ASSUME NEW c \in Clerk
               PROVE  since[c] <= Len(chosen')
    BY <1>1 DEF ClerksSound, clerkVars
  <2>1. since[c] \in Nat /\ since[c] <= Len(chosen)
    BY <1>1, TypedEach DEF EachTyped, ClerksSound
  <2> QED BY SMTT(10), <1>2, <2>1
<1>5. HandlersSound' /\ ChannelsOwned' /\ ChannelsFresh' /\ ChannelsHaveRoom'
  BY <1>1, SameHandlers, SameOwned, SameFresh, SameRoom DEF applyVars, waitVars, clerkVars
<1> QED BY <1>3, <1>4, <1>5 DEF ServiceInv

LEMMA ServiceLeader ==
    ASSUME ServiceInv, NEW i \in Server, NEW j \in Server,
           Elect(i) \/ StepDown(i, j) \/ Follow(i, j)
    PROVE  ServiceInv'
<1>1. TypeInv /\ LogsBounded
  BY DEF ServiceInv
<1>2. TypeInv'
  BY <1>1, TypesLeader
<1>3. UNCHANGED <<applyVars, stateVars, waitVars, handlers, clerkVars, calls, kills, chosen, values>>
  BY DEF Elect, StepDown, Follow
<1>4. \A k \in Server : \E l \in Server : log'[k] = log[l]
  <2>1. CASE UNCHANGED log
    BY <2>1
  <2>2. CASE Follow(i, j)
    BY <1>1, <2>2 DEF Follow, TypeInv, RaftTypes
  <2> QED BY <2>1, <2>2 DEF Elect, StepDown
<1>6. LogsBounded'
  BY <1>1, <1>3, <1>4 DEF LogsBounded
<1>7. Len(chosen) <= Len(chosen')
  BY SMTT(10), <1>1, <1>3 DEF TypeInv, RaftTypes
<1> QED BY <1>2, <1>3, <1>6, <1>7, ServiceRaft

LEMMA ServiceChoose ==
    ASSUME ServiceInv, NEW i \in Server, Choose(i)
    PROVE  ServiceInv'
<1>1. TypeInv /\ LogsBounded
  BY DEF ServiceInv
<1>2. /\ TypeInv' /\ Len(chosen') = Len(chosen) + 1 /\ Len(values') = Len(chosen')
      /\ Len(chosen) + 1 <= Len(log[i])
  BY <1>1, TypesChoose
<1>3. /\ UNCHANGED <<applyVars, stateVars, waitVars, handlers, clerkVars, calls, kills>>
      /\ UNCHANGED log
  BY DEF Choose
<1>4. \A k \in Server : Len(log[k]) \in Nat /\ Len(chosen) \in Nat
  BY <1>1, TypedEach DEF EachTyped
<1>7. LogsBounded'
  <2>1. Len(chosen') <= MaxCalls
    BY SMTT(10), <1>1, <1>2, <1>4, KVAssumption DEF LogsBounded
  <2> QED BY <1>1, <1>2, <1>3, <2>1 DEF LogsBounded
<1>8. Len(chosen) <= Len(chosen')
  BY SMTT(10), <1>2, <1>4
<1> QED BY <1>2, <1>3, <1>7, <1>8, ServiceRaft

LEMMA ServiceApply ==
    ASSUME ServiceInv, NEW i \in Server, apply(i)
    PROVE  ServiceInv'
<1>1. /\ TypeInv /\ LogsBounded /\ BatchesInOrder /\ ClerksSound /\ HandlersSound
      /\ ChannelsOwned /\ ChannelsFresh /\ ChannelsHaveRoom
  BY DEF ServiceInv
<1>2. /\ TypeInv' /\ UNCHANGED <<raftVars, firstIndex, snapshot, installing>>
      /\ batch[i] = <<>> /\ lastApplied[i] < lastApplied'[i]
      /\ lastApplied'[i] <= Len(chosen)
      /\ Len(batch'[i]) = lastApplied'[i] - lastApplied[i]
      /\ \A n \in 1 .. Len(batch'[i]) : batch'[i][n] = lastApplied[i] + n
      /\ \A j \in Server : j # i => lastApplied'[j] = lastApplied[j] /\ batch'[j] = batch[j]
  BY <1>1, TypesApply
<1>3. UNCHANGED <<waitVars, handlers, clerkVars, calls, log, chosen, values>>
  BY <1>2 DEF apply, raftVars
<1>4. \A j \in Server : lastApplied[j] \in Nat /\ lastApplied'[j] \in Nat /\ firstIndex[j] \in Nat
  BY <1>1, <1>2, TypedEach, TypedEachNext DEF EachTyped
<1>5. LogsBounded'
  BY <1>1, <1>2, <1>3, SameBounds
<1>6. BatchesInOrder'
  <2> SUFFICES ASSUME NEW j \in Server
               PROVE  /\ lastApplied'[j] <= Len(chosen) /\ firstIndex[j] <= lastApplied'[j]
                      /\ \A n \in 1 .. Len(batch'[j]) : batch'[j][n] <= lastApplied'[j]
                      /\ \A m, n \in 1 .. Len(batch'[j]) : m < n => batch'[j][m] < batch'[j][n]
    BY <1>2, <1>3 DEF BatchesInOrder
  <2>1. CASE j # i
    BY <1>1, <1>2, <2>1 DEF BatchesInOrder
  <2>2. CASE j = i
    <3>1. firstIndex[i] <= lastApplied[i]
      BY <1>1 DEF BatchesInOrder
    <3> QED BY SMTT(30), <1>2, <1>4, <2>2, <3>1
  <2> QED BY <2>1, <2>2
<1>7. ClerksSound' /\ HandlersSound' /\ ChannelsOwned' /\ ChannelsFresh'
  BY <1>1, <1>3, SameClerks, SameHandlers, SameOwned, SameFresh DEF waitVars, clerkVars
<1>8. ChannelsHaveRoom'
  <2> SUFFICES ASSUME NEW j \in Server, NEW k \in CallId, waitChMap[j][k] # 0,
                      buffered[waitChMap[j][k]] # <<>>
               PROVE  /\ k <= lastApplied'[j]
                      /\ \A n \in 1 .. Len(batch'[j]) : batch'[j][n] # k
    BY <1>3 DEF ChannelsHaveRoom, waitVars
  <2>1. k <= lastApplied[j] /\ \A n \in 1 .. Len(batch[j]) : batch[j][n] # k
    BY <1>1 DEF ChannelsHaveRoom
  <2>2. CASE j # i
    BY <1>2, <2>1, <2>2
  <2>3. CASE j = i
    <3>1. k \in Nat
      BY SMTT(10) DEF CallId
    <3> QED BY <1>2, <1>4, <2>1, <2>3, <3>1
  <2> QED BY <2>2, <2>3
<1> QED BY <1>2, <1>5, <1>6, <1>7, <1>8 DEF ServiceInv

LEMMA ServiceInstall ==
    ASSUME ServiceInv, RaftInv, NEW j \in Server, NEW i \in Server, InstallSnapshot(j, i)
    PROVE  ServiceInv'
<1>0. PICK f : f = firstIndex[i]
  OBVIOUS
<1>1. /\ TypeInv /\ LogsBounded /\ BatchesInOrder /\ ClerksSound /\ HandlersSound
      /\ ChannelsOwned /\ ChannelsFresh /\ ChannelsHaveRoom /\ AppliedIsHeld
  BY DEF ServiceInv, RaftInv
<1>2. /\ TypeInv' /\ f \in CallId /\ lastApplied[j] < f
      /\ f <= Len(log[i]) /\ f <= Len(chosen)
      /\ Len(log'[j]) = IF f <= Len(log[j]) THEN Len(log[j]) ELSE f
      /\ \A k \in Server : k # j => log'[k] = log[k]
      /\ firstIndex' = [firstIndex EXCEPT ![j] = f]
      /\ lastApplied' = [lastApplied EXCEPT ![j] = f]
      /\ UNCHANGED <<chosen, values, batch, waitVars, handlers, clerkVars, calls>>
  <2>1. TypeInv' /\ InstallDoes(j, i, f)
    BY <1>0, <1>1, TypesInstall
  <2> QED BY <2>1 DEF InstallDoes
<1>3. /\ firstIndex'[j] = f /\ lastApplied'[j] = f /\ f \in Nat
      /\ \A k \in Server : k # j => /\ firstIndex'[k] = firstIndex[k]
                                    /\ lastApplied'[k] = lastApplied[k]
  <2>1. /\ firstIndex \in [Server -> 0 .. MaxCalls]
        /\ lastApplied \in [Server -> 0 .. MaxCalls]
    BY <1>1 DEF TypeInv, ApplyTypes
  <2> QED BY <1>2, <2>1, CallIds
<1>4. \A k \in Server : Len(log[k]) \in Nat /\ lastApplied[k] \in Nat
  BY <1>1, TypedEach DEF EachTyped
<1>5. LogsBounded'
  <2>1. ASSUME NEW k \in Server
        PROVE  Len(log'[k]) <= MaxCalls
    <3>1. CASE k # j
      BY <1>1, <1>2, <3>1 DEF LogsBounded
    <3>2. CASE k = j
      BY SMTT(10), <1>1, <1>2, <1>3, <3>2 DEF LogsBounded, CallId
    <3> QED BY <3>1, <3>2
  <2> QED BY <1>1, <1>2, <2>1 DEF LogsBounded
<1>6. BatchesInOrder'
  <2> SUFFICES ASSUME NEW k \in Server
               PROVE  /\ lastApplied'[k] <= Len(chosen) /\ firstIndex'[k] <= lastApplied'[k]
                      /\ \A n \in 1 .. Len(batch[k]) : batch[k][n] <= lastApplied'[k]
                      /\ \A m, n \in 1 .. Len(batch[k]) : m < n => batch[k][m] < batch[k][n]
    BY <1>2 DEF BatchesInOrder
  <2>1. /\ lastApplied[k] <= Len(chosen) /\ firstIndex[k] <= lastApplied[k]
        /\ \A n \in 1 .. Len(batch[k]) : batch[k][n] <= lastApplied[k]
        /\ \A m, n \in 1 .. Len(batch[k]) : m < n => batch[k][m] < batch[k][n]
    BY <1>1 DEF BatchesInOrder
  <2>2. CASE k # j
    BY <1>3, <2>1, <2>2
  <2>3. CASE k = j
    <3>1. \A n \in 1 .. Len(batch[j]) : batch[j][n] \in Nat
      <4>1. batch[j] \in Seq(CallId)
        BY <1>1 DEF TypeInv, ApplyTypes
      <4>2. \A n \in 1 .. Len(batch[j]) : batch[j][n] \in CallId
        BY <4>1, SeqElement
      <4> QED BY SMTT(10), <4>2 DEF CallId
    <3>2. /\ f <= Len(chosen) /\ f <= f
          /\ \A n \in 1 .. Len(batch[j]) : batch[j][n] <= f
      <4>1. lastApplied[j] < f /\ f <= Len(chosen) /\ lastApplied[j] \in Nat /\ f \in Nat
        BY <1>2, <1>3, <1>4
      <4> QED BY SMTT(10), <2>1, <2>3, <3>1, <4>1
    <3> QED BY <1>3, <2>1, <2>3, <3>2
  <2> QED BY <2>2, <2>3
<1>7. ClerksSound' /\ HandlersSound' /\ ChannelsOwned' /\ ChannelsFresh'
  BY <1>1, <1>2, SameClerks, SameHandlers, SameOwned, SameFresh DEF waitVars, clerkVars
<1>8. ChannelsHaveRoom'
  <2> SUFFICES ASSUME NEW l \in Server, NEW k \in CallId, waitChMap[l][k] # 0,
                      buffered[waitChMap[l][k]] # <<>>
               PROVE  /\ k <= lastApplied'[l]
                      /\ \A n \in 1 .. Len(batch[l]) : batch[l][n] # k
    <3>1. batch' = batch /\ waitChMap' = waitChMap /\ buffered' = buffered
      BY <1>2 DEF waitVars
    <3> QED BY <3>1 DEF ChannelsHaveRoom
  <2>1. k <= lastApplied[l] /\ \A n \in 1 .. Len(batch[l]) : batch[l][n] # k
    BY <1>1 DEF ChannelsHaveRoom
  <2>2. k <= lastApplied'[l]
    <3>1. lastApplied[j] < f /\ f \in Nat /\ k \in Nat
      BY <1>2, <1>3, CallIds
    <3> QED BY SMTT(10), <1>3, <1>4, <2>1, <3>1
  <2> QED BY <2>1, <2>2
<1> QED BY <1>2, <1>5, <1>6, <1>7, <1>8 DEF ServiceInv

LEMMA ServiceCommand ==
    ASSUME ServiceInv, NEW i \in Server, ApplyCommand(i)
    PROVE  ServiceInv'
<1>0. PICK k : k = Head(batch[i])
  OBVIOUS
<1>1. /\ TypeInv /\ LogsBounded /\ BatchesInOrder /\ ClerksSound /\ HandlersSound
      /\ ChannelsOwned /\ ChannelsFresh /\ ChannelsHaveRoom
  BY DEF ServiceInv
<1>2. /\ TypeInv' /\ k \in CallId /\ k <= lastApplied[i] /\ k = batch[i][1]
      /\ Len(batch[i]) \in Nat \ {0} /\ Len(batch'[i]) = Len(batch[i]) - 1
      /\ \A n \in 1 .. Len(batch'[i]) : batch'[i][n] = batch[i][n + 1]
      /\ \A j \in Server : j # i => batch'[j] = batch[j]
      /\ UNCHANGED <<raftVars, lastApplied, waitChMap, handlers, clerkVars, calls>>
      /\ \/ UNCHANGED buffered
         \/ /\ Waiting(i, k, chosen[k]) /\ waitChMap[i][k] \in CallId
            /\ buffered' = [buffered EXCEPT ![waitChMap[i][k]] = <<KVDB[i]>>]
      /\ UNCHANGED firstIndex \/ firstIndex' = [firstIndex EXCEPT ![i] = k]
  <2>1. TypeInv' /\ CommandDoes(i, k)
    BY <1>0, <1>1, TypesCommand
  <2> QED BY <2>1 DEF CommandDoes
<1>3. WaitTypes /\ ApplyTypes
  BY <1>1 DEF TypeInv
<1>4. UNCHANGED <<log, chosen, values, op, RequestId, call, since>>
  BY <1>2 DEF raftVars, clerkVars
<1>5. LogsBounded'
  BY <1>1, <1>2, <1>4, SameBounds
<1>6. \A n \in 1 .. Len(batch'[i]) : n + 1 \in 1 .. Len(batch[i]) /\ 1 < n + 1
  BY SMTT(10), <1>2
<1>7. BatchesInOrder'
  <2> SUFFICES ASSUME NEW j \in Server
               PROVE  /\ lastApplied[j] <= Len(chosen) /\ firstIndex'[j] <= lastApplied[j]
                      /\ \A n \in 1 .. Len(batch'[j]) : batch'[j][n] <= lastApplied[j]
                      /\ \A m, n \in 1 .. Len(batch'[j]) : m < n => batch'[j][m] < batch'[j][n]
    BY <1>2, <1>4 DEF BatchesInOrder
  <2>1. /\ lastApplied[j] <= Len(chosen) /\ firstIndex[j] <= lastApplied[j]
        /\ \A n \in 1 .. Len(batch[j]) : batch[j][n] <= lastApplied[j]
        /\ \A m, n \in 1 .. Len(batch[j]) : m < n => batch[j][m] < batch[j][n]
    BY <1>1 DEF BatchesInOrder
  <2>2. firstIndex'[j] = firstIndex[j] \/ (j = i /\ firstIndex'[j] = k)
    BY <1>2, <1>3 DEF ApplyTypes
  <2>3. firstIndex'[j] <= lastApplied[j]
    BY <1>2, <2>1, <2>2
  <2>4. CASE j # i
    BY <1>2, <2>1, <2>3, <2>4
  <2>5. CASE j = i
    <3>1. ASSUME NEW m \in 1 .. Len(batch'[i]), NEW n \in 1 .. Len(batch'[i]), m < n
          PROVE  batch'[i][m] < batch'[i][n]
      <4>1. m + 1 \in 1 .. Len(batch[i]) /\ n + 1 \in 1 .. Len(batch[i]) /\ m + 1 < n + 1
        BY SMTT(10), <1>2, <1>6, <3>1
      <4>2. batch[i][m + 1] < batch[i][n + 1]
        BY <2>1, <2>5, <4>1
      <4> QED BY <1>2, <4>2
    <3>2. \A n \in 1 .. Len(batch'[i]) : batch'[i][n] <= lastApplied[i]
      BY <1>2, <1>6, <2>1, <2>5
    <3> QED BY <2>1, <2>3, <2>5, <3>1, <3>2
  <2> QED BY <2>4, <2>5
<1>8. ClerksSound' /\ HandlersSound' /\ ChannelsOwned'
  BY <1>1, <1>2, <1>4, SameClerks, SameHandlers, SameOwned
<1>9. ASSUME NEW ch, ch = waitChMap[i][k], ch # 0
      PROVE  handlers[ch].server = i /\ handlers[ch].index = k /\ handlers[ch].pc \in {"waits", "leaves"}
  BY ZenonT(30), <1>1, <1>2, <1>9 DEF ChannelsOwned
<1>10. \A ch \in CallId : \/ buffered'[ch] = buffered[ch]
                          \/ ch = waitChMap[i][k] /\ ch # 0
  BY <1>2, <1>3 DEF WaitTypes, Waiting
<1>11. ChannelsFresh'
  <2> SUFFICES ASSUME NEW ch \in CallId,
                      ch > calls \/ handlers[ch].pc \in {"sent", "checked", "started"}
               PROVE  buffered'[ch] = <<>>
    BY <1>2 DEF ChannelsFresh
  <2>1. buffered[ch] = <<>>
    BY <1>1 DEF ChannelsFresh
  <2>2. ch # waitChMap[i][k] \/ ch = 0
    <3>1. handlers[ch].pc \notin {"waits", "leaves"}
      BY <1>1, NoHandlerIdle DEF HandlersSound
    <3> QED BY <1>9, <3>1
  <2> QED BY <1>10, <2>1, <2>2
<1>12. ChannelsHaveRoom'
  <2> SUFFICES ASSUME NEW j \in Server, NEW x \in CallId, waitChMap[j][x] # 0,
                      buffered'[waitChMap[j][x]] # <<>>
               PROVE  /\ x <= lastApplied[j]
                      /\ \A n \in 1 .. Len(batch'[j]) : batch'[j][n] # x
    BY <1>2 DEF ChannelsHaveRoom
  <2>0. PICK y : y = waitChMap[j][x]
    OBVIOUS
  <2>1. y \in CallId
    <3>1. y \in 0 .. MaxCalls
      BY <1>3, <2>0 DEF WaitTypes
    <3> QED BY <2>0, <3>1, CallIds
  <2>2. CASE buffered[y] # <<>>
    <3>1. x <= lastApplied[j] /\ \A n \in 1 .. Len(batch[j]) : batch[j][n] # x
      BY <1>1, <2>0, <2>2 DEF ChannelsHaveRoom
    <3>2. ASSUME NEW n \in 1 .. Len(batch'[j])
          PROVE  batch'[j][n] # x
      <4>1. CASE j # i
        BY <1>2, <3>1, <4>1
      <4>2. CASE j = i
        <5>1. n + 1 \in 1 .. Len(batch[i]) /\ batch'[i][n] = batch[i][n + 1]
          BY <1>2, <1>6, <4>2
        <5> QED BY <3>1, <4>2, <5>1
      <4> QED BY <4>1, <4>2
    <3> QED BY <3>1, <3>2
  <2>3. CASE buffered[y] = <<>>
    <3>1. y = waitChMap[i][k] /\ y # 0
      BY <1>10, <2>0, <2>1, <2>3
    <3>2. handlers[y].server = i /\ handlers[y].index = k
      BY <1>9, <3>1
    <3>3. handlers[y].server = j /\ handlers[y].index = x
      BY <1>1, <2>0 DEF ChannelsOwned
    <3>4. \A n \in 1 .. Len(batch'[i]) : batch[i][1] < batch[i][n + 1]
      <4>1. 1 \in 1 .. Len(batch[i])
        BY SMTT(30), <1>2
      <4> QED BY <1>1, <1>6, <4>1 DEF BatchesInOrder
    <3>5. \A n \in 1 .. Len(batch'[i]) : batch[i][n + 1] \in CallId
      BY <1>3, <1>6, SeqElement DEF ApplyTypes
    <3>6. \A n \in 1 .. Len(batch'[i]) : batch'[i][n] # k
      BY SMTT(10), <1>2, <3>4, <3>5 DEF CallId
    <3> QED BY <1>2, <3>2, <3>3, <3>6
  <2> QED BY <2>2, <2>3
<1> QED BY <1>2, <1>5, <1>7, <1>8, <1>11, <1>12 DEF ServiceInv

LEMMA ServiceSnapshot ==
    ASSUME ServiceInv, NEW i \in Server, NEW s \in installing[i], ApplySnapshot(i, s)
    PROVE  ServiceInv'
<1>1. /\ TypeInv /\ LogsBounded /\ BatchesInOrder /\ ClerksSound /\ HandlersSound
      /\ ChannelsOwned /\ ChannelsFresh /\ ChannelsHaveRoom
  BY DEF ServiceInv
<1>2. TypeInv' /\ UNCHANGED <<raftVars, lastApplied, firstIndex, batch, waitVars, handlers,
                              clerkVars, calls>>
  BY <1>1, TypesSnapshot
<1>3. UNCHANGED <<log, chosen, values, op, RequestId, call, since, waitChMap, buffered>>
  BY <1>2 DEF raftVars, waitVars, clerkVars
<1>4. LogsBounded'
  BY <1>1, <1>2, <1>3, SameBounds
<1> QED BY <1>1, <1>2, <1>3, <1>4, SameBatches, SameClerks, SameHandlers, SameOwned,
           SameFresh, SameRoom DEF ServiceInv

LEMMA ServiceRestart ==
    ASSUME ServiceInv, NEW i \in Server, Restart(i)
    PROVE  ServiceInv'
<1>1. /\ TypeInv /\ LogsBounded /\ BatchesInOrder /\ ClerksSound /\ HandlersSound
      /\ ChannelsOwned /\ ChannelsFresh /\ ChannelsHaveRoom
  BY DEF ServiceInv
<1>2. /\ TypeInv' /\ UNCHANGED <<log, chosen, values, firstIndex, buffered, clerkVars, calls>>
      /\ lastApplied' = [lastApplied EXCEPT ![i] = firstIndex[i]]
      /\ batch' = [batch EXCEPT ![i] = <<>>]
      /\ \A k \in CallId : waitChMap'[i][k] = 0
      /\ \A j \in Server : j # i => waitChMap'[j] = waitChMap[j]
      /\ \A h \in CallId : handlers'[h] = IF handlers[h].server = i /\ handlers[h].pc # "sent"
                                          THEN NoHandler ELSE handlers[h]
  BY <1>1, TypesRestart
<1>3. WaitTypes /\ ApplyTypes /\ UNCHANGED <<op, RequestId, call, since>>
  BY <1>1, <1>2 DEF TypeInv, clerkVars
<1>4. /\ lastApplied'[i] = firstIndex[i] /\ batch'[i] = <<>>
      /\ \A j \in Server : j # i => lastApplied'[j] = lastApplied[j] /\ batch'[j] = batch[j]
  BY <1>2, <1>3 DEF ApplyTypes
<1>5. \A x \in CallId : handlers'[x] = NoHandler \/ handlers'[x] = handlers[x]
  BY <1>2
<1>6. LogsBounded'
  BY <1>1, <1>2, SameBounds
<1>7. BatchesInOrder'
  <2> SUFFICES ASSUME NEW j \in Server
               PROVE  /\ lastApplied'[j] <= Len(chosen) /\ firstIndex[j] <= lastApplied'[j]
                      /\ \A n \in 1 .. Len(batch'[j]) : batch'[j][n] <= lastApplied'[j]
                      /\ \A m, n \in 1 .. Len(batch'[j]) : m < n => batch'[j][m] < batch'[j][n]
    BY <1>2 DEF BatchesInOrder
  <2>1. CASE j # i
    BY <1>1, <1>4, <2>1 DEF BatchesInOrder
  <2>2. CASE j = i
    <3>1. /\ lastApplied[i] <= Len(chosen) /\ firstIndex[i] <= lastApplied[i]
          /\ lastApplied[i] \in Nat /\ firstIndex[i] \in Nat /\ Len(chosen) \in Nat
      BY <1>1, TypedEach DEF EachTyped, BatchesInOrder
    <3> QED BY SMTT(10), <1>4, <2>2, <3>1
  <2> QED BY <2>1, <2>2
<1>8. ClerksSound'
  BY <1>1, <1>2, <1>3, SameClerks
<1>9. HandlersSound'
  BY SMTT(10), <1>1, <1>2, <1>3, <1>5 DEF HandlersSound
<1>10. ChannelsOwned'
  <2> SUFFICES ASSUME NEW j \in Server, NEW k \in CallId, waitChMap'[j][k] # 0
               PROVE  LET h == handlers'[waitChMap'[j][k]]
                      IN h.server = j /\ h.index = k /\ h.pc \in {"waits", "leaves"}
    BY DEF ChannelsOwned
  <2>1. j # i /\ waitChMap'[j] = waitChMap[j]
    BY <1>2
  <2>2. PICK y : y = waitChMap[j][k]
    OBVIOUS
  <2>3. handlers[y].server = j /\ handlers[y].index = k /\ handlers[y].pc \in {"waits", "leaves"}
    BY SMTT(10), <1>1, <2>1, <2>2 DEF ChannelsOwned
  <2>4. y \in CallId
    <3>1. y \in 0 .. MaxCalls
      BY <1>3, <2>2 DEF WaitTypes
    <3> QED BY <2>1, <2>2, <3>1, CallIds
  <2>5. handlers'[y] = handlers[y]
    BY <1>2, <2>1, <2>3, <2>4
  <2> QED BY <2>1, <2>2, <2>3, <2>5
<1>11. ChannelsFresh'
  <2>1. \A x \in CallId : handlers'[x].pc \in {"sent", "checked", "started"} =>
                            handlers[x].pc \in {"sent", "checked", "started"}
    BY <1>5, NoHandlerIdle
  <2> QED BY <1>1, <1>2, <2>1, FreshKept
<1>12. ChannelsHaveRoom'
  <2> SUFFICES ASSUME NEW j \in Server, NEW k \in CallId, waitChMap'[j][k] # 0,
                      buffered[waitChMap'[j][k]] # <<>>
               PROVE  /\ k <= lastApplied'[j]
                      /\ \A n \in 1 .. Len(batch'[j]) : batch'[j][n] # k
    BY SMTT(10), <1>2 DEF ChannelsHaveRoom
  <2>1. j # i /\ waitChMap'[j] = waitChMap[j]
    BY <1>2
  <2> QED BY SMTT(10), <1>1, <1>4, <2>1 DEF ChannelsHaveRoom
<1> QED BY <1>2, <1>6, <1>7, <1>8, <1>9, <1>10, <1>11, <1>12 DEF ServiceInv

\* A call to a server: a new handler, which owns no channel.
LEMMA ServiceSend ==
    ASSUME ServiceInv, NEW c \in Clerk, (\E type \in OpType : Call(c, type)) \/ Retry(c)
    PROVE  ServiceInv'
<1>0. PICK n : n = calls + 1
  OBVIOUS
<1>1. /\ TypeInv /\ LogsBounded /\ BatchesInOrder /\ ClerksSound /\ HandlersSound
      /\ ChannelsOwned /\ ChannelsFresh /\ ChannelsHaveRoom
  BY DEF ServiceInv
<1>2. /\ TypeInv' /\ n \in CallId /\ calls' = n /\ handlers[n] = NoHandler
      /\ \E o \in Operation, g \in Handler :
           /\ o.RequestId = RequestId[c] /\ op' = [op EXCEPT ![c] = o]
           /\ handlers' = [handlers EXCEPT ![n] = g]
           /\ g.clerk = c /\ g.op = o /\ g.pc = "sent"
      /\ call' = [call EXCEPT ![c] = n]
      /\ op[c] = Idle => since' = [since EXCEPT ![c] = Len(chosen)]
      /\ op[c] # Idle => UNCHANGED since
      /\ UNCHANGED <<raftVars, applyVars, waitVars, RequestId>>
  <2>1. TypeInv' /\ SendDoes(c, n)
    BY <1>0, <1>1, TypesSend
  <2> QED BY <2>1 DEF SendDoes
<1>3. PICK o \in Operation, g \in Handler :
        /\ o.RequestId = RequestId[c] /\ op' = [op EXCEPT ![c] = o]
        /\ handlers' = [handlers EXCEPT ![n] = g]
        /\ g.clerk = c /\ g.op = o /\ g.pc = "sent"
  BY <1>2
<1>4. /\ HandlerTypes /\ ClerkTypes /\ WaitTypes /\ calls \in Nat /\ n \in Nat
      /\ Len(chosen) \in Nat
  BY <1>1, <1>2, TypedEach, CallIds DEF EachTyped, TypeInv
<1>5. handlers'[n] = g /\ \A x \in CallId : x # n => handlers'[x] = handlers[x]
  BY <1>2, <1>3, <1>4, OneHandlerChanges
<1>6. /\ op'[c] = o /\ call'[c] = n /\ o # Idle
      /\ \A d \in Clerk : d # c => op'[d] = op[d] /\ call'[d] = call[d]
  BY <1>2, <1>3, <1>4, OperationFields DEF ClerkTypes
<1>7. \A d \in Clerk : since'[d] = since[d] \/ since'[d] = Len(chosen)
  BY <1>2, <1>4 DEF ClerkTypes
<1>8. UNCHANGED <<log, chosen, values, lastApplied, firstIndex, batch, waitChMap, buffered>>
  BY <1>2 DEF raftVars, applyVars, waitVars
<1>9. LogsBounded' /\ BatchesInOrder' /\ ChannelsHaveRoom'
  BY <1>1, <1>8, SameBounds, SameBatches, SameRoom
<1>10. ClerksSound'
  <2> SUFFICES ASSUME NEW d \in Clerk
               PROVE  /\ op'[d] # Idle => op'[d].RequestId = RequestId[d]
                      /\ call'[d] # 0 => op'[d] # Idle
                      /\ call'[d] <= n /\ since'[d] <= Len(chosen)
    BY <1>2, <1>8 DEF ClerksSound
  <2>1. /\ op[d] # Idle => op[d].RequestId = RequestId[d]
        /\ call[d] # 0 => op[d] # Idle
        /\ call[d] <= calls /\ since[d] <= Len(chosen) /\ call[d] \in Nat
    BY <1>1, TypedEach DEF EachTyped, ClerksSound
  <2>2. since'[d] <= Len(chosen)
    BY SMTT(10), <1>4, <1>7, <2>1
  <2>3. call[d] <= n /\ n <= n
    BY SMTT(10), <1>0, <1>4, <2>1
  <2>4. CASE d = c
    BY <1>3, <1>6, <2>2, <2>3, <2>4
  <2>5. CASE d # c
    BY <1>6, <2>1, <2>2, <2>3, <2>5
  <2> QED BY <2>4, <2>5
<1>11. HandlersSound'
  <2> SUFFICES ASSUME NEW x \in CallId
               PROVE  /\ x > n => handlers'[x] = NoHandler
                      /\ handlers'[x] # NoHandler =>
                           /\ call'[handlers'[x].clerk] = x =>
                                handlers'[x].op = op'[handlers'[x].clerk]
                           /\ handlers'[x].pc \in {"started", "waits", "leaves"} =>
                                handlers'[x].index # 0 /\ handlers'[x].term # 0
                           /\ handlers'[x].pc = "waits" => handlers'[x].ch # 0
                           /\ handlers'[x].pc = "leaves" =>
                                handlers'[x].err \in {"OK", "ErrWrongLeader"}
    BY <1>2 DEF HandlersSound
  <2>1. CASE x = n
    <3>1. ~(x > n)
      BY SMTT(30), <1>4, <2>1
    <3> QED BY ZenonT(30), <1>3, <1>5, <1>6, <2>1, <3>1
  <2>2. CASE x # n
    <3>1. handlers'[x] = handlers[x]
      BY <1>5, <2>2
    <3>2. x > n => x > calls
      BY SMTT(10), <1>0, <1>4 DEF CallId
    <3>3. /\ x > calls => handlers[x] = NoHandler
          /\ handlers[x] # NoHandler =>
               /\ call[handlers[x].clerk] = x => handlers[x].op = op[handlers[x].clerk]
               /\ handlers[x].pc \in {"started", "waits", "leaves"} =>
                    handlers[x].index # 0 /\ handlers[x].term # 0
               /\ handlers[x].pc = "waits" => handlers[x].ch # 0
               /\ handlers[x].pc = "leaves" => handlers[x].err \in {"OK", "ErrWrongLeader"}
      BY <1>1 DEF HandlersSound
    <3>4. ASSUME handlers[x] # NoHandler, call'[handlers[x].clerk] = x
          PROVE  handlers[x].op = op'[handlers[x].clerk]
      <4>1. handlers[x].clerk \in Clerk
        BY <1>4, <3>4, HandlerFields DEF HandlerTypes
      <4>2. handlers[x].clerk # c
        BY <1>6, <2>2, <3>4
      <4> QED BY <1>6, <3>3, <3>4, <4>1, <4>2
    <3> QED BY <3>1, <3>2, <3>3, <3>4
  <2> QED BY <2>1, <2>2
<1>12. ChannelsOwned'
  BY <1>1, <1>2, <1>4, <1>5, <1>8, OwnedByOthers, NoHandlerIdle
<1>13. ChannelsFresh'
  <2> SUFFICES ASSUME NEW x \in CallId,
                      x > n \/ handlers'[x].pc \in {"sent", "checked", "started"}
               PROVE  buffered[x] = <<>>
    BY <1>2, <1>8 DEF ChannelsFresh
  <2>1. CASE x > calls
    BY <1>1, <2>1 DEF ChannelsFresh
  <2>2. CASE ~(x > calls)
    <3>1. x # n /\ ~(x > n)
      BY SMTT(10), <1>0, <1>4, <2>2 DEF CallId
    <3> QED BY <1>1, <1>5, <3>1 DEF ChannelsFresh
  <2> QED BY <2>1, <2>2
<1> QED BY <1>2, <1>9, <1>10, <1>11, <1>12, <1>13 DEF ServiceInv

LEMMA ServiceFails ==
    ASSUME ServiceInv, NEW c \in Clerk, CallFails(c)
    PROVE  ServiceInv'
<1>1. /\ TypeInv /\ LogsBounded /\ BatchesInOrder /\ ClerksSound /\ HandlersSound
      /\ ChannelsOwned /\ ChannelsFresh /\ ChannelsHaveRoom
  BY DEF ServiceInv
<1>2. /\ TypeInv' /\ call' = [call EXCEPT ![c] = 0]
      /\ UNCHANGED <<raftVars, applyVars, waitVars, handlers, RequestId, op, since, calls>>
  BY <1>1, TypesFails
<1>3. \A d \in Clerk : call'[d] = 0 \/ call'[d] = call[d]
  BY <1>1, <1>2 DEF TypeInv, ClerkTypes
<1>4. /\ UNCHANGED <<log, chosen, values, lastApplied, firstIndex, batch, waitChMap, buffered>>
      /\ 0 <= calls
  BY SMTT(30), <1>1, <1>2 DEF TypeInv, raftVars, applyVars, waitVars
<1>5. LogsBounded' /\ BatchesInOrder' /\ ChannelsHaveRoom' /\ ChannelsOwned' /\ ChannelsFresh'
  BY <1>1, <1>2, <1>4, SameBounds, SameBatches, SameRoom, SameOwned, SameFresh
<1>6. ClerksSound'
  BY <1>1, <1>2, <1>3, <1>4 DEF ClerksSound
<1>7. HandlersSound'
  <2>1. \A x \in CallId : handlers[x] # NoHandler => handlers[x].clerk \in Clerk /\ x # 0
    BY SMTT(10), <1>1, HandlerFields DEF TypeInv, HandlerTypes, CallId
  <2> QED BY SMTT(10), <1>1, <1>2, <1>3, <2>1 DEF HandlersSound
<1> QED BY <1>2, <1>5, <1>6, <1>7 DEF ServiceInv

\* A handler that owns no channel returns.
LEMMA ServiceReply ==
    ASSUME ServiceInv, TypeInv', NEW h \in CallId, handlers[h].pc \in {"sent", "checked"},
           NEW err, Reply(h, err, <<>>),
           UNCHANGED <<raftVars, applyVars, waitVars, calls>>
    PROVE  ServiceInv'
<1>1. /\ TypeInv /\ LogsBounded /\ BatchesInOrder /\ ClerksSound /\ HandlersSound
      /\ ChannelsOwned /\ ChannelsFresh /\ ChannelsHaveRoom
  BY DEF ServiceInv
<1>2. UNCHANGED <<log, chosen, values, lastApplied, firstIndex, batch, waitChMap, buffered, calls>>
  BY DEF raftVars, applyVars, waitVars
<1>3. <<>> \in Value /\ handlers[h] # NoHandler /\ WaitTypes
  BY SMTT(30), <1>1, RunningHandler DEF Value, TypeInv
<1>4. /\ ClerksSound' /\ HandlersSound' /\ handlers'[h] = NoHandler
      /\ \A x \in CallId : x # h => handlers'[x] = handlers[x]
  BY <1>1, <1>2, <1>3, ReplySound
<1>5. ChannelsOwned'
  BY <1>1, <1>2, <1>3, <1>4, OwnedByOthers
<1>6. ChannelsFresh'
  <2>1. \A x \in CallId : handlers'[x].pc \in {"sent", "checked", "started"} =>
                            handlers[x].pc \in {"sent", "checked", "started"}
    BY <1>4, NoHandlerIdle
  <2> QED BY <1>1, <1>2, <2>1, FreshKept
<1> QED BY <1>1, <1>2, <1>4, <1>5, <1>6, SameBounds, SameBatches, SameRoom DEF ServiceInv

\* A handler that owns no channel goes on.
LEMMA ServiceStep ==
    ASSUME ServiceInv, TypeInv', LogsBounded', NEW h \in CallId, NEW g \in Handler,
           handlers[h].pc \in {"sent", "checked"},
           handlers' = [handlers EXCEPT ![h] = g],
           g.clerk = handlers[h].clerk, g.op = handlers[h].op, g.pc \in {"checked", "started"},
           g.pc = "started" => g.index # 0 /\ g.term # 0,
           UNCHANGED <<chosen, applyVars, waitVars, clerkVars, calls>>
    PROVE  ServiceInv'
<1>1. /\ TypeInv /\ BatchesInOrder /\ ClerksSound /\ HandlersSound
      /\ ChannelsOwned /\ ChannelsFresh /\ ChannelsHaveRoom
  BY DEF ServiceInv
<1>2. UNCHANGED <<chosen, lastApplied, firstIndex, batch, waitChMap, buffered, calls, call, op,
                  RequestId, since>>
  BY DEF applyVars, waitVars, clerkVars
<1>3. WaitTypes /\ HandlerTypes /\ handlers[h] # NoHandler
  BY <1>1, RunningHandler DEF TypeInv
<1>4. handlers'[h] = g /\ \A x \in CallId : x # h => handlers'[x] = handlers[x]
  BY <1>3, OneHandlerChanges
<1>5. HandlersSound'
  BY <1>1, <1>2, <1>3, OneHandlerSound
<1>6. ChannelsOwned'
  BY <1>1, <1>2, <1>3, <1>4, OwnedByOthers
<1>7. ChannelsFresh'
  <2>1. \A x \in CallId : handlers'[x].pc \in {"sent", "checked", "started"} =>
                            handlers[x].pc \in {"sent", "checked", "started"}
    BY <1>4
  <2> QED BY <1>1, <1>2, <2>1, FreshKept
<1> QED BY <1>1, <1>2, <1>5, <1>6, <1>7, SameBatches, SameClerks, SameRoom DEF ServiceInv

LEMMA ServiceCheck ==
    ASSUME ServiceInv, NEW h \in CallId, CheckRequest(h)
    PROVE  ServiceInv'
<1>1. TypeInv /\ LogsBounded /\ ClerksSound /\ HandlersSound
  BY DEF ServiceInv
<1>2. /\ TypeInv' /\ handlers[h].pc = "sent"
      /\ UNCHANGED <<raftVars, applyVars, waitVars, calls>>
      /\ \/ Reply(h, "OK", <<>>)
         \/ /\ UNCHANGED clerkVars
            /\ \E g \in Handler :
                 /\ handlers' = [handlers EXCEPT ![h] = g] /\ g.pc = "checked"
                 /\ g.clerk = handlers[h].clerk /\ g.op = handlers[h].op
  BY <1>1, TypesCheck
<1>3. CASE Reply(h, "OK", <<>>)
  BY <1>2, <1>3, ServiceReply
<1>4. CASE /\ UNCHANGED clerkVars
           /\ \E g \in Handler :
                /\ handlers' = [handlers EXCEPT ![h] = g] /\ g.pc = "checked"
                /\ g.clerk = handlers[h].clerk /\ g.op = handlers[h].op
  <2>1. PICK g \in Handler :
          /\ handlers' = [handlers EXCEPT ![h] = g] /\ g.pc = "checked"
          /\ g.clerk = handlers[h].clerk /\ g.op = handlers[h].op
    BY <1>4
  <2>2. LogsBounded' /\ UNCHANGED chosen
    BY <1>1, <1>2, SameBounds DEF raftVars
  <2>3. g.pc # "started"
    BY <2>1
  <2> QED BY <1>2, <1>4, <2>1, <2>2, <2>3, ServiceStep
<1> QED BY <1>2, <1>3, <1>4

LEMMA ServiceStart ==
    ASSUME ServiceInv, RaftInv, NEW h \in CallId, Start(h)
    PROVE  ServiceInv'
<1>0. PICK i : i = handlers[h].server
  OBVIOUS
<1>1. TypeInv /\ LogsBounded /\ ClerksSound /\ HandlersSound /\ LeadersSound
  BY DEF ServiceInv, RaftInv
<1>2. /\ TypeInv' /\ i \in Server /\ handlers[h].pc \in {"sent", "checked"}
      /\ UNCHANGED <<term, isLeader, chosen, values, applyVars, waitVars, calls>>
      /\ \/ Reply(h, "ErrWrongLeader", <<>>) /\ UNCHANGED log
         \/ /\ UNCHANGED clerkVars
            /\ \E g \in Handler, e \in Entry :
                 /\ handlers' = [handlers EXCEPT ![h] = g] /\ g.pc = "started"
                 /\ g.clerk = handlers[h].clerk /\ g.op = handlers[h].op /\ g.term # 0
                 /\ g.index = Len(log[i]) + 1 /\ g.index \in CallId
                 /\ log' = [log EXCEPT ![i] = Append(log[i], e)]
  <2>1. TypeInv' /\ StartDoes(h, i)
    BY <1>0, <1>1, TypesStart
  <2> QED BY <2>1 DEF StartDoes
<1>3. CASE Reply(h, "ErrWrongLeader", <<>>) /\ UNCHANGED log
  <2>1. UNCHANGED raftVars
    BY <1>2, <1>3 DEF raftVars
  <2> QED BY <1>2, <1>3, <2>1, ServiceReply
<1>4. CASE /\ UNCHANGED clerkVars
           /\ \E g \in Handler, e \in Entry :
                /\ handlers' = [handlers EXCEPT ![h] = g] /\ g.pc = "started"
                /\ g.clerk = handlers[h].clerk /\ g.op = handlers[h].op /\ g.term # 0
                /\ g.index = Len(log[i]) + 1 /\ g.index \in CallId
                /\ log' = [log EXCEPT ![i] = Append(log[i], e)]
  <2>1. PICK g \in Handler, e \in Entry :
          /\ handlers' = [handlers EXCEPT ![h] = g] /\ g.pc = "started"
          /\ g.clerk = handlers[h].clerk /\ g.op = handlers[h].op /\ g.term # 0
          /\ g.index = Len(log[i]) + 1 /\ g.index \in CallId
          /\ log' = [log EXCEPT ![i] = Append(log[i], e)]
    BY <1>4
  <2>2. log \in [Server -> Seq(Entry)] /\ log[i] \in Seq(Entry)
    BY <1>1, <1>2 DEF TypeInv, RaftTypes
  <2>3. Len(Append(log[i], e)) = Len(log[i]) + 1
    BY SMTT(10), <2>2, SeqAppend
  <2>4. Len(Append(log[i], e)) <= MaxCalls
    BY SMTT(10), <2>1, <2>3 DEF CallId
  <2>5. \A k \in Server : Len(log'[k]) <= MaxCalls
    <3>1. \A k \in Server : log'[k] = log[k] \/ log'[k] = Append(log[i], e)
      BY <2>1, <2>2
    <3> QED BY <1>1, <2>4, <3>1 DEF LogsBounded
  <2>6. LogsBounded'
    BY <1>1, <1>2, <2>5 DEF LogsBounded
  <2>7. g.index # 0
    BY SMTT(30), <2>1 DEF CallId
  <2> QED BY <1>2, <1>4, <2>1, <2>6, <2>7, ServiceStep
<1> QED BY <1>2, <1>3, <1>4

LEMMA ServiceMakeWaitCh ==
    ASSUME ServiceInv, NEW h \in CallId, MakeWaitCh(h)
    PROVE  ServiceInv'
<1>0. PICK i, k : i = handlers[h].server /\ k = handlers[h].index
  OBVIOUS
<1>1. /\ TypeInv /\ LogsBounded /\ BatchesInOrder /\ ClerksSound /\ HandlersSound
      /\ ChannelsOwned /\ ChannelsFresh /\ ChannelsHaveRoom
  BY DEF ServiceInv
<1>2. /\ TypeInv' /\ i \in Server /\ k \in CallId /\ handlers[h].pc = "started"
      /\ UNCHANGED <<raftVars, applyVars, buffered, clerkVars, calls>>
      /\ \E g \in Handler, ch \in CallId :
           /\ ch = IF waitChMap[i][k] = 0 THEN h ELSE waitChMap[i][k]
           /\ waitChMap'[i][k] = ch
           /\ \A x \in CallId : x # k => waitChMap'[i][x] = waitChMap[i][x]
           /\ \A j \in Server : j # i => waitChMap'[j] = waitChMap[j]
           /\ handlers' = [handlers EXCEPT ![h] = g] /\ g.pc = "waits" /\ g.ch = ch
           /\ g.server = i /\ g.clerk = handlers[h].clerk /\ g.op = handlers[h].op
           /\ g.index = k /\ g.term = handlers[h].term
  <2>1. TypeInv' /\ MakeWaitChDoes(h, i, k)
    BY <1>0, <1>1, TypesMakeWaitCh
  <2> QED BY <2>1 DEF MakeWaitChDoes
<1>3. PICK g \in Handler, ch \in CallId :
        /\ ch = IF waitChMap[i][k] = 0 THEN h ELSE waitChMap[i][k]
        /\ waitChMap'[i][k] = ch
        /\ \A x \in CallId : x # k => waitChMap'[i][x] = waitChMap[i][x]
        /\ \A j \in Server : j # i => waitChMap'[j] = waitChMap[j]
        /\ handlers' = [handlers EXCEPT ![h] = g] /\ g.pc = "waits" /\ g.ch = ch
        /\ g.server = i /\ g.clerk = handlers[h].clerk /\ g.op = handlers[h].op
        /\ g.index = k /\ g.term = handlers[h].term
  BY <1>2
<1>4. WaitTypes /\ HandlerTypes /\ handlers[h] # NoHandler
  BY <1>1, <1>2, RunningHandler DEF TypeInv
<1>5. handlers'[h] = g /\ \A x \in CallId : x # h => handlers'[x] = handlers[x]
  BY ZenonT(30), <1>3, <1>4, OneHandlerChanges
<1>6. UNCHANGED <<log, chosen, values, lastApplied, firstIndex, batch, buffered, calls, call, op,
                  RequestId, since>>
  BY <1>2 DEF raftVars, applyVars, clerkVars
<1>7. HandlersSound'
  <2>1. handlers[h].index # 0 /\ handlers[h].term # 0
    BY <1>1, <1>2, <1>4 DEF HandlersSound
  <2>2. g.ch # 0 /\ g.index # 0 /\ g.term # 0 /\ g.pc # "leaves"
    <3>1. ch # 0 /\ "waits" # "leaves"
      BY CallIds
    <3> QED BY <1>0, <1>3, <2>1, <3>1
  <2> QED BY <1>1, <1>3, <1>4, <1>6, <2>2, OneHandlerSound
<1>8. \A j \in Server, x \in CallId :
        \/ waitChMap'[j][x] = waitChMap[j][x]
        \/ j = i /\ x = k /\ waitChMap'[j][x] = h /\ waitChMap[j][x] = 0
  BY <1>3
<1>9. ChannelsOwned'
  <2> SUFFICES ASSUME NEW j \in Server, NEW x \in CallId, waitChMap'[j][x] # 0
               PROVE  LET o == handlers'[waitChMap'[j][x]]
                      IN o.server = j /\ o.index = x /\ o.pc \in {"waits", "leaves"}
    BY DEF ChannelsOwned
  <2>1. CASE waitChMap'[j][x] = waitChMap[j][x]
    <3>1. PICK y : y = waitChMap[j][x]
      OBVIOUS
    <3>2. handlers[y].server = j /\ handlers[y].index = x /\ handlers[y].pc \in {"waits", "leaves"}
      BY <1>1, <2>1, <3>1 DEF ChannelsOwned
    <3>3. y \in CallId
      <4>1. y \in 0 .. MaxCalls
        BY <1>4, <3>1 DEF WaitTypes
      <4> QED BY <2>1, <3>1, <4>1, CallIds
    <3>4. handlers'[y] = handlers[y]
      BY <1>2, <1>5, <3>2, <3>3
    <3> QED BY <2>1, <3>1, <3>2, <3>4
  <2>2. CASE j = i /\ x = k /\ waitChMap'[j][x] = h
    BY SMTT(10), <1>3, <1>5, <2>2
  <2> QED BY <1>8, <2>1, <2>2
<1>10. ChannelsFresh'
  <2>1. \A x \in CallId : handlers'[x].pc \in {"sent", "checked", "started"} =>
                            handlers[x].pc \in {"sent", "checked", "started"}
    BY <1>3, <1>5
  <2> QED BY <1>1, <1>6, <2>1, FreshKept
<1>11. ChannelsHaveRoom'
  <2> SUFFICES ASSUME NEW j \in Server, NEW x \in CallId, waitChMap'[j][x] # 0,
                      buffered[waitChMap'[j][x]] # <<>>
               PROVE  /\ x <= lastApplied[j]
                      /\ \A n \in 1 .. Len(batch[j]) : batch[j][n] # x
    BY <1>6 DEF ChannelsHaveRoom
  <2>1. buffered[h] = <<>>
    BY <1>1, <1>2 DEF ChannelsFresh
  <2>2. waitChMap'[j][x] = waitChMap[j][x]
    BY <1>8, <2>1
  <2> QED BY <1>1, <2>2 DEF ChannelsHaveRoom
<1> QED BY <1>1, <1>2, <1>6, <1>7, <1>9, <1>10, <1>11, SameBounds, SameBatches, SameClerks
        DEF ServiceInv

\* A handler that waits is about to leave: the channels stay where they are.
LEMMA ServiceAnswers ==
    ASSUME ServiceInv, TypeInv', NEW h \in CallId, NEW g \in Handler,
           handlers[h].pc = "waits", handlers' = [handlers EXCEPT ![h] = g],
           g.pc = "leaves", g.err \in {"OK", "ErrWrongLeader"},
           g.server = handlers[h].server, g.clerk = handlers[h].clerk,
           g.op = handlers[h].op, g.index = handlers[h].index, g.term = handlers[h].term,
           UNCHANGED <<raftVars, applyVars, waitChMap, clerkVars, calls>>,
           \A x \in CallId : buffered'[x] = buffered[x] \/ buffered'[x] = <<>>
    PROVE  ServiceInv'
<1>1. /\ TypeInv /\ LogsBounded /\ BatchesInOrder /\ ClerksSound /\ HandlersSound
      /\ ChannelsOwned /\ ChannelsFresh /\ ChannelsHaveRoom
  BY DEF ServiceInv
<1>2. UNCHANGED <<log, chosen, values, lastApplied, firstIndex, batch, waitChMap, calls, call, op,
                  RequestId, since>>
  BY DEF raftVars, applyVars, clerkVars
<1>3. WaitTypes /\ HandlerTypes /\ handlers[h] # NoHandler
  BY <1>1, RunningHandler DEF TypeInv
<1>4. handlers'[h] = g /\ \A x \in CallId : x # h => handlers'[x] = handlers[x]
  BY <1>3, OneHandlerChanges
<1>5. HandlersSound'
  <2>1. handlers[h].index # 0 /\ handlers[h].term # 0
    BY <1>1, <1>3 DEF HandlersSound
  <2>2. g.pc # "waits" /\ g.index # 0 /\ g.term # 0
    BY <2>1
  <2> QED BY <1>1, <1>2, <1>3, <2>2, OneHandlerSound
<1>6. \A j \in Server, x \in CallId : waitChMap[j][x] # 0 => waitChMap[j][x] \in CallId
  <2>1. \A j \in Server, x \in CallId : waitChMap[j][x] \in 0 .. MaxCalls
    BY <1>3 DEF WaitTypes
  <2> QED BY <2>1, CallIds
<1>7. ChannelsOwned'
  <2> SUFFICES ASSUME NEW j \in Server, NEW x \in CallId, waitChMap[j][x] # 0
               PROVE  LET o == handlers'[waitChMap[j][x]]
                      IN o.server = j /\ o.index = x /\ o.pc \in {"waits", "leaves"}
    BY SMTT(10), <1>2 DEF ChannelsOwned
  <2>1. PICK y \in CallId : y = waitChMap[j][x]
    BY <1>6
  <2>2. handlers[y].server = j /\ handlers[y].index = x /\ handlers[y].pc \in {"waits", "leaves"}
    BY <1>1, <2>1 DEF ChannelsOwned
  <2>3. CASE y = h
    BY SMTT(10), <1>4, <2>1, <2>2, <2>3
  <2>4. CASE y # h
    BY <1>4, <2>1, <2>2, <2>4
  <2> QED BY <2>3, <2>4
<1>8. ChannelsFresh'
  <2>1. \A x \in CallId : handlers'[x].pc \in {"sent", "checked", "started"} =>
                            handlers[x].pc \in {"sent", "checked", "started"}
    BY <1>4
  <2> QED BY <1>1, <1>2, <2>1 DEF ChannelsFresh
<1>9. ChannelsHaveRoom'
  <2> SUFFICES ASSUME NEW j \in Server, NEW x \in CallId, waitChMap[j][x] # 0,
                      buffered'[waitChMap[j][x]] # <<>>
               PROVE  /\ x <= lastApplied[j]
                      /\ \A n \in 1 .. Len(batch[j]) : batch[j][n] # x
    BY <1>2 DEF ChannelsHaveRoom
  <2>1. buffered[waitChMap[j][x]] # <<>>
    BY <1>6
  <2> QED BY <1>1, <2>1 DEF ChannelsHaveRoom
<1> QED BY <1>1, <1>2, <1>5, <1>7, <1>8, <1>9, SameBounds, SameBatches, SameClerks
        DEF ServiceInv

LEMMA ServiceNotified ==
    ASSUME ServiceInv, NEW h \in CallId, Notified(h)
    PROVE  ServiceInv'
<1>0. PICK ch : ch = handlers[h].ch
  OBVIOUS
<1>1. TypeInv /\ HandlersSound
  BY DEF ServiceInv
<1>2. /\ TypeInv' /\ handlers[h].pc = "waits" /\ buffered' = [buffered EXCEPT ![ch] = <<>>]
      /\ UNCHANGED <<raftVars, applyVars, waitChMap, clerkVars, calls>>
      /\ \E g \in Handler :
           /\ handlers' = [handlers EXCEPT ![h] = g] /\ g.pc = "leaves"
           /\ g.err = IF StillLeader(h) THEN "OK" ELSE "ErrWrongLeader"
           /\ g.server = handlers[h].server
           /\ g.clerk = handlers[h].clerk /\ g.op = handlers[h].op
           /\ g.index = handlers[h].index /\ g.term = handlers[h].term
  <2>1. TypeInv' /\ NotifiedDoes(h, ch)
    BY <1>0, <1>1, TypesNotified
  <2> QED BY <2>1 DEF NotifiedDoes
<1>3. PICK g \in Handler :
        /\ handlers' = [handlers EXCEPT ![h] = g] /\ g.pc = "leaves"
        /\ g.err \in {"OK", "ErrWrongLeader"} /\ g.server = handlers[h].server
        /\ g.clerk = handlers[h].clerk /\ g.op = handlers[h].op
        /\ g.index = handlers[h].index /\ g.term = handlers[h].term
  BY <1>2
<1>4. \A x \in CallId : buffered'[x] = buffered[x] \/ buffered'[x] = <<>>
  BY <1>1, <1>2 DEF TypeInv, WaitTypes
<1> QED BY <1>2, <1>3, <1>4, ServiceAnswers

LEMMA ServiceTimedOut ==
    ASSUME ServiceInv, NEW h \in CallId, TimedOut(h)
    PROVE  ServiceInv'
<1>1. TypeInv
  BY DEF ServiceInv
<1>2. /\ TypeInv' /\ handlers[h].pc = "waits"
      /\ UNCHANGED <<raftVars, applyVars, waitVars, clerkVars, calls>>
      /\ \E g \in Handler :
           /\ handlers' = [handlers EXCEPT ![h] = g] /\ g.pc = "leaves"
           /\ g.err = "ErrWrongLeader" /\ g.server = handlers[h].server
           /\ g.clerk = handlers[h].clerk /\ g.op = handlers[h].op
           /\ g.index = handlers[h].index /\ g.term = handlers[h].term
  BY <1>1, TypesTimedOut
<1>3. PICK g \in Handler :
        /\ handlers' = [handlers EXCEPT ![h] = g] /\ g.pc = "leaves"
        /\ g.err \in {"OK", "ErrWrongLeader"} /\ g.server = handlers[h].server
        /\ g.clerk = handlers[h].clerk /\ g.op = handlers[h].op
        /\ g.index = handlers[h].index /\ g.term = handlers[h].term
  BY <1>2
<1>4. UNCHANGED waitChMap /\ \A x \in CallId : buffered'[x] = buffered[x]
  BY <1>2 DEF waitVars
<1> QED BY <1>2, <1>3, <1>4, ServiceAnswers

LEMMA ServiceLeave ==
    ASSUME ServiceInv, NEW h \in CallId, Leave(h)
    PROVE  ServiceInv'
<1>0. PICK i, k : i = handlers[h].server /\ k = handlers[h].index
  OBVIOUS
<1>1. /\ TypeInv /\ LogsBounded /\ BatchesInOrder /\ ClerksSound /\ HandlersSound
      /\ ChannelsOwned /\ ChannelsFresh /\ ChannelsHaveRoom
  BY DEF ServiceInv
<1>2. /\ TypeInv' /\ i \in Server /\ k \in CallId /\ handlers[h].pc = "leaves"
      /\ handlers[h] \in Handler /\ Reply(h, handlers[h].err, handlers[h].value)
      /\ UNCHANGED <<raftVars, applyVars, buffered, calls>>
      /\ waitChMap'[i][k] = 0
      /\ \A x \in CallId : x # k => waitChMap'[i][x] = waitChMap[i][x]
      /\ \A j \in Server : j # i => waitChMap'[j] = waitChMap[j]
  <2>1. TypeInv' /\ LeaveDoes(h, i, k)
    BY <1>0, <1>1, TypesLeave
  <2> QED BY <2>1 DEF LeaveDoes
<1>3. UNCHANGED <<log, chosen, values, lastApplied, firstIndex, batch, buffered, calls>>
  BY <1>2 DEF raftVars, applyVars
<1>4. WaitTypes /\ handlers[h] # NoHandler /\ handlers[h].value \in Value
  BY <1>1, <1>2, HandlerFields DEF TypeInv
<1>5. PICK err, value : err = handlers[h].err /\ value = handlers[h].value
  OBVIOUS
<1>6. /\ ClerksSound' /\ HandlersSound' /\ handlers'[h] = NoHandler
      /\ \A x \in CallId : x # h => handlers'[x] = handlers[x]
  <2>1. Reply(h, err, value) /\ value \in Value
    BY <1>2, <1>4, <1>5
  <2> QED BY <1>1, <1>3, <1>4, <2>1, ReplySound
<1>7. \A j \in Server, x \in CallId :
        waitChMap'[j][x] # 0 => waitChMap'[j][x] = waitChMap[j][x] /\ ~(j = i /\ x = k)
  BY <1>2
<1>8. ChannelsOwned'
  <2> SUFFICES ASSUME NEW j \in Server, NEW x \in CallId, waitChMap'[j][x] # 0
               PROVE  LET o == handlers'[waitChMap'[j][x]]
                      IN o.server = j /\ o.index = x /\ o.pc \in {"waits", "leaves"}
    BY DEF ChannelsOwned
  <2>1. waitChMap'[j][x] = waitChMap[j][x] /\ ~(j = i /\ x = k)
    BY <1>7
  <2>2. PICK y : y = waitChMap[j][x]
    OBVIOUS
  <2>3. handlers[y].server = j /\ handlers[y].index = x /\ handlers[y].pc \in {"waits", "leaves"}
    BY <1>1, <2>1, <2>2 DEF ChannelsOwned
  <2>4. y \in CallId
    <3>1. y \in 0 .. MaxCalls
      BY <1>4, <2>2 DEF WaitTypes
    <3> QED BY <2>1, <2>2, <3>1, CallIds
  <2>5. handlers'[y] = handlers[y]
    BY <1>0, <1>6, <2>1, <2>3, <2>4
  <2> QED BY <2>1, <2>2, <2>3, <2>5
<1>9. ChannelsFresh'
  <2>1. \A x \in CallId : handlers'[x].pc \in {"sent", "checked", "started"} =>
                            handlers[x].pc \in {"sent", "checked", "started"}
    BY <1>6, NoHandlerIdle
  <2> QED BY <1>1, <1>3, <2>1, FreshKept
<1>10. ChannelsHaveRoom'
  BY SMTT(10), <1>1, <1>3, <1>7 DEF ChannelsHaveRoom
<1> QED BY <1>1, <1>2, <1>3, <1>6, <1>8, <1>9, <1>10, SameBounds, SameBatches DEF ServiceInv

-----------------------------------------------------------------------------
(* All steps *)

LEMMA BaseInit ==
    ASSUME Init
    PROVE  ServiceInv /\ RaftInv
<1>1. <<>> \in Seq(Entry) /\ <<>> \in Value /\ <<>> \in Seq(Value) /\ <<>> \in Seq(CallId)
      /\ Len(<<>>) = 0
  BY SMTT(30) DEF Value
<1>2. 0 \in Server /\ Server \subseteq Nat
  BY SMTT(10), KVAssumption DEF Server
<1>3. TypeInv
  <2>1. RaftTypes
    BY SMTT(10), <1>1, KVAssumption DEF Init, RaftTypes
  <2>2. [c \in Clerk |-> -1] \in RequestMap
    BY SMTT(10), KVAssumption DEF RequestMap
  <2>3. [KVDB |-> <<>>, LastRequestMap |-> [c \in Clerk |-> -1]] \in State
    BY <1>1, <2>2 DEF State
  <2>4. ApplyTypes
    BY SMTT(10), <1>1, <2>3, KVAssumption DEF Init, ApplyTypes
  <2>5. StateTypes
    BY SMTT(10), <1>1, <2>2, KVAssumption DEF Init, StateTypes
  <2>6. WaitTypes
    BY SMTT(10), <1>1, KVAssumption DEF Init, WaitTypes
  <2>7. HandlerTypes
    BY DEF Init, HandlerTypes
  <2>8. ClerkTypes
    BY SMTT(10), <1>1, <1>2, KVAssumption DEF Init, ClerkTypes
  <2> QED BY SMTT(10), <2>1, <2>4, <2>5, <2>6, <2>7, <2>8, KVAssumption DEF Init, TypeInv
<1>4. LogsBounded /\ BatchesInOrder
  <2>1. /\ log = [i \in Server |-> <<>>] /\ chosen = <<>> /\ values = <<>>
        /\ lastApplied = [i \in Server |-> 0] /\ firstIndex = [i \in Server |-> 0]
        /\ batch = [i \in Server |-> <<>>]
    BY DEF Init
  <2>2. 0 <= MaxCalls /\ 0 <= 0 /\ \A n : ~(n \in 1 .. 0)
    BY SMTT(10), KVAssumption
  <2> QED BY <1>1, <2>1, <2>2 DEF LogsBounded, BatchesInOrder
<1>5. ClerksSound /\ HandlersSound
  BY SMTT(10), <1>1 DEF Init, ClerksSound, HandlersSound
<1>6. ChannelsOwned /\ ChannelsFresh /\ ChannelsHaveRoom
  BY DEF Init, ChannelsOwned, ChannelsFresh, ChannelsHaveRoom
<1>7. RaftInv
  BY SMTT(10), <1>1 DEF Init, RaftInv, LeadersSound, LeadersHaveTheirs, LeaderHoldsChosen, AppliedIsHeld,
              IsNewest, Holds
<1> QED BY <1>3, <1>4, <1>5, <1>6, <1>7 DEF ServiceInv

LEMMA BaseSame ==
    ASSUME ServiceInv, RaftInv, UNCHANGED vars
    PROVE  ServiceInv' /\ RaftInv'
<1>1. UNCHANGED <<raftVars, applyVars, stateVars, waitVars, handlers, clerkVars, calls, kills>>
  BY DEF vars, raftVars, applyVars, stateVars, waitVars, clerkVars
<1>2. TypeInv'
  BY <1>1, SameRaftTypes, SameApplyTypes, SameStateTypes, SameWaitTypes, SameClerkTypes
  DEF ServiceInv, TypeInv, HandlerTypes
<1>3. LogsBounded' /\ Len(chosen) <= Len(chosen') /\ RaftInv'
  <2>1. UNCHANGED <<log, chosen, values, term, isLeader, lastApplied>>
    BY <1>1 DEF raftVars, applyVars
  <2>2. LogsBounded' /\ RaftInv'
    BY <2>1, SameBounds, SameRaftInv DEF ServiceInv
  <2>3. Len(chosen) \in Nat
    BY SeqLength DEF ServiceInv, TypeInv, RaftTypes
  <2> QED BY SMTT(10), <2>1, <2>2, <2>3
<1> QED BY <1>1, <1>2, <1>3, ServiceRaft

LEMMA BaseServers ==
    ASSUME ServiceInv, RaftInv, NEW i \in Server, NEW j \in Server,
           \/ Elect(i) \/ Choose(i) \/ apply(i) \/ ApplyCommand(i) \/ Restart(i)
           \/ \E s \in installing[i] : ApplySnapshot(i, s)
           \/ StepDown(i, j) \/ Follow(i, j) \/ InstallSnapshot(i, j)
    PROVE  ServiceInv' /\ RaftInv'
<1>1. /\ TypeInv /\ LogsBounded /\ BatchesInOrder
  BY DEF ServiceInv
<1>2. CASE Elect(i)
  <2>1. ServiceInv' /\ TypeInv'
    BY <1>2, ServiceLeader DEF ServiceInv
  <2> QED BY <1>1, <1>2, <2>1, RaftElect
<1>3. CASE StepDown(i, j)
  <2>1. ServiceInv' /\ TypeInv'
    BY <1>3, ServiceLeader DEF ServiceInv
  <2> QED BY <1>1, <1>3, <2>1, RaftStepDown
<1>4. CASE Follow(i, j)
  <2>1. ServiceInv' /\ TypeInv'
    BY <1>4, ServiceLeader DEF ServiceInv
  <2> QED BY <1>1, <1>4, <2>1, RaftFollow
<1>5. CASE Choose(i)
  BY <1>1, <1>5, ServiceChoose, RaftChoose
<1>6. CASE apply(i)
  BY <1>1, <1>6, ServiceApply, RaftApply
<1>7. CASE InstallSnapshot(i, j)
  BY <1>1, <1>7, ServiceInstall, RaftInstall
<1>8. CASE Restart(i)
  BY <1>1, <1>8, ServiceRestart, RaftRestart
<1>9. CASE ApplyCommand(i)
  <2>1. UNCHANGED <<term, isLeader, log, chosen, lastApplied>>
    BY <1>9 DEF ApplyCommand, raftVars
  <2> QED BY <1>9, <2>1, ServiceCommand, SameRaftInv
<1>10. CASE \E s \in installing[i] : ApplySnapshot(i, s)
  <2>1. PICK s \in installing[i] : ApplySnapshot(i, s)
    BY <1>10
  <2>2. UNCHANGED <<term, isLeader, log, chosen, lastApplied>>
    BY <2>1 DEF ApplySnapshot, raftVars
  <2> QED BY <2>1, <2>2, ServiceSnapshot, SameRaftInv
<1> QED BY <1>2, <1>3, <1>4, <1>5, <1>6, <1>7, <1>8, <1>9, <1>10

LEMMA BaseClerks ==
    ASSUME ServiceInv, RaftInv, NEW c \in Clerk,
           (\E type \in OpType : Call(c, type)) \/ Retry(c) \/ CallFails(c)
    PROVE  ServiceInv' /\ RaftInv'
<1>1. ServiceInv'
  BY ServiceSend, ServiceFails
<1>2. UNCHANGED <<raftVars, applyVars>>
  BY DEF Call, Retry, CallFails
<1>3. UNCHANGED <<term, isLeader, log, chosen, lastApplied>>
  BY <1>2 DEF raftVars, applyVars
<1> QED BY <1>1, <1>3, SameRaftInv

LEMMA BaseHandlers ==
    ASSUME ServiceInv, RaftInv, NEW h \in CallId,
           \/ CheckRequest(h) \/ Start(h) \/ MakeWaitCh(h)
           \/ Notified(h) \/ TimedOut(h) \/ Leave(h)
    PROVE  ServiceInv' /\ RaftInv'
<1>1. ServiceInv'
  BY ServiceCheck, ServiceStart, ServiceMakeWaitCh, ServiceNotified, ServiceTimedOut,
     ServiceLeave
<1>2. CASE Start(h)
  BY <1>1, <1>2, RaftStart DEF ServiceInv
<1>3. CASE CheckRequest(h) \/ MakeWaitCh(h) \/ Notified(h) \/ TimedOut(h) \/ Leave(h)
  <2>1. UNCHANGED <<raftVars, applyVars>>
    BY <1>3 DEF CheckRequest, MakeWaitCh, Notified, TimedOut, Leave
  <2>2. UNCHANGED <<term, isLeader, log, chosen, lastApplied>>
    BY <2>1 DEF raftVars, applyVars
  <2> QED BY <1>1, <2>2, SameRaftInv
<1> QED BY <1>2, <1>3

LEMMA BaseNext ==
    ASSUME ServiceInv, RaftInv, [Next]_vars
    PROVE  ServiceInv' /\ RaftInv'
<1>1. 0 \in Server
  BY SMTT(10), KVAssumption DEF Server
<1>2. CASE \E i \in Server : \/ Elect(i) \/ Choose(i) \/ apply(i)
                             \/ ApplyCommand(i) \/ Restart(i)
                             \/ \E s \in installing[i] : ApplySnapshot(i, s)
                             \/ \E j \in Server :
                                  StepDown(i, j) \/ Follow(i, j) \/ InstallSnapshot(i, j)
  BY <1>1, <1>2, BaseServers
<1>3. CASE \E c \in Clerk :
             (\E type \in OpType : Call(c, type)) \/ Retry(c) \/ CallFails(c)
  BY <1>3, BaseClerks
<1>4. CASE \E h \in CallId : \/ CheckRequest(h) \/ Start(h) \/ MakeWaitCh(h)
                             \/ Notified(h) \/ TimedOut(h) \/ Leave(h)
  BY <1>4, BaseHandlers
<1> QED BY <1>2, <1>3, <1>4, BaseSame DEF Next
=============================================================================
