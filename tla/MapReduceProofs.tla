-------------------------- MODULE MapReduceProofs ----------------------------
(***************************************************************************)
(* The master of src/mr hands out reduce tasks only when all map tasks are *)
(* finished, and stops only when every output file is complete: for any    *)
(* number of workers, tasks and crashes, as long as a worker that lives    *)
(* reports within ten seconds.  A reduce worker finds its files if no      *)
(* worker dies while it deletes them.                                      *)
(***************************************************************************)
EXTENDS MapReduce, TLAPS, FiniteSetTheorems

\* The back ends a leaf that names none is given to, in this order.
USE ZenonT(10), SMTT(10), ZenonT(30), SMTT(30)

-----------------------------------------------------------------------------
(* The inductive invariants *)

Finished(tasklog) == {t \in DOMAIN tasklog : tasklog[t] = 2}

AtMap(w) == pc[w] \in {"map", "mapped"}
AtReduce(w) == pc[w] \in {"reduce", "delete", "reduced"}

\* The counters of the master are the numbers of tasks its logs call finished.
CountersTrue ==
    /\ mapfinished = Cardinality(Finished(maptasklog))
    /\ reducefinished = Cardinality(Finished(reducetasklog))

\* The task of a worker waits for it, and for no other worker.
TasksExclusive ==
    /\ \A w \in Worker : AtMap(w) =>
         task[w] \in MapTask /\ maptasklog[task[w]] = 1 /\ next[w] \in ReduceTask
    /\ \A w \in Worker : AtReduce(w) =>
         task[w] \in ReduceTask /\ reducetasklog[task[w]] = 1 /\ next[w] \in MapTask
    /\ \A v, w \in Worker : (task[v] = task[w] /\ v # w) =>
         ~(AtMap(v) /\ AtMap(w)) /\ ~(AtReduce(v) /\ AtReduce(w))

\* A task whose worker has renamed its result has a complete output file.
OutputComplete ==
    /\ \A w \in Worker : pc[w] \in {"delete", "reduced"} => out[task[w]] = MapTask
    /\ \A t \in ReduceTask : reducetasklog[t] = 2 => out[t] = MapTask

MasterInv == TypeOK /\ CountersTrue /\ TasksExclusive /\ ReduceAfterMaps /\ OutputComplete

\* Some worker has begun to delete the files of reduce task y.
Deleting(y) == \E w \in Worker : pc[w] \in {"delete", "reduced"} /\ task[w] = y

\* The files of map task x are there: what its worker has renamed so far, and
\* all of them once it is finished, but for the reduce tasks that are through
\* with theirs.
FilesKept ==
    /\ \A w \in Worker :
         /\ pc[w] = "map" => \A y \in 0 .. (next[w] - 1) : <<task[w], y>> \in files
         /\ pc[w] = "mapped" => \A y \in ReduceTask : <<task[w], y>> \in files
         /\ pc[w] = "delete" => \A x \in next[w] .. (nMap - 1) : <<x, task[w]>> \in files
    /\ \A x \in MapTask, y \in ReduceTask :
         (maptasklog[x] = 2 /\ reducetasklog[y] # 2 /\ ~Deleting(y)) => <<x, y>> \in files

FilesInv == MasterInv /\ FilesKept

-----------------------------------------------------------------------------
(* Counting finished tasks *)

LEMMA Tasks ==
    /\ IsFiniteSet(MapTask) /\ Cardinality(MapTask) = nMap /\ 0 \in MapTask
    /\ IsFiniteSet(ReduceTask) /\ Cardinality(ReduceTask) = nReduce /\ 0 \in ReduceTask
<1>1. nMap - 1 \in Int /\ nReduce - 1 \in Int /\ 0 \in Int
  BY SMTT(10), MapReduceAssumption
<1> QED BY SMTT(10), SMTT(30), <1>1, FS_Interval, MapReduceAssumption DEF MapTask, ReduceTask

\* A log has at most as many finished tasks as there are tasks, and as many only
\* if all are finished.
LEMMA CountBound ==
    ASSUME NEW S, IsFiniteSet(S), NEW tasklog \in [S -> 0 .. 2]
    PROVE  /\ Cardinality(Finished(tasklog)) \in 0 .. Cardinality(S)
           /\ IsFiniteSet(Finished(tasklog))
           /\ Cardinality(Finished(tasklog)) = Cardinality(S) => \A t \in S : tasklog[t] = 2
<1>1. Finished(tasklog) \in SUBSET S
  BY DEF Finished
<1>2. /\ IsFiniteSet(Finished(tasklog))
      /\ Cardinality(Finished(tasklog)) <= Cardinality(S)
      /\ Cardinality(S) = Cardinality(Finished(tasklog)) => S = Finished(tasklog)
  BY <1>1, FS_Subset
<1>3. Cardinality(Finished(tasklog)) \in Nat /\ Cardinality(S) \in Nat
  BY <1>2, FS_CardinalityType
<1>4. Cardinality(Finished(tasklog)) = Cardinality(S) => \A t \in S : tasklog[t] = 2
  BY <1>2 DEF Finished
<1> QED BY SMTT(10), <1>2, <1>3, <1>4

\* A task that waited and finishes adds one.
LEMMA CountOne ==
    ASSUME NEW S, IsFiniteSet(S), NEW tasklog \in [S -> 0 .. 2],
           NEW t \in S, tasklog[t] # 2
    PROVE  Cardinality(Finished([tasklog EXCEPT ![t] = 2])) =
               Cardinality(Finished(tasklog)) + 1
<1>1. /\ Finished([tasklog EXCEPT ![t] = 2]) = Finished(tasklog) \cup {t}
      /\ t \notin Finished(tasklog)
  BY DEF Finished
<1>2. IsFiniteSet(Finished(tasklog))
  BY CountBound
<1> QED BY <1>1, <1>2, FS_AddElement

\* The map phase is over only when every map task is finished.
LEMMA AllMapsFinished ==
    ASSUME TypeOK, CountersTrue, mapfinished = nMap
    PROVE  \A t \in MapTask : maptasklog[t] = 2
BY ZenonT(30), CountBound, Tasks DEF TypeOK, CountersTrue

-----------------------------------------------------------------------------
(* Every step keeps the invariant of the master *)

LEMMA MasterInit ==
    ASSUME Init
    PROVE  MasterInv
<1>1. 0 \in MapTask /\ 0 \in ReduceTask
  BY SMTT(10), MapReduceAssumption DEF MapTask, ReduceTask
<1>2. TypeOK
  BY SMTT(10), <1>1, MapReduceAssumption DEF Init, TypeOK
<1>3. Finished(maptasklog) = {} /\ Finished(reducetasklog) = {}
  BY SMTT(10) DEF Init, Finished
<1>4. CountersTrue
  BY <1>3, FS_EmptySet DEF CountersTrue, Init
<1> QED BY SMTT(10), <1>2, <1>4 DEF Init, MasterInv, TasksExclusive, AtMap, AtReduce,
                         ReduceAfterMaps, OutputComplete

LEMMA MasterAllocateMap ==
    ASSUME MasterInv, NEW w \in Worker, pc[w] = "ask", AllocateMap(w),
           UNCHANGED <<files, out, crashes>>
    PROVE  MasterInv'
<1>1. PICK t \in MapTask : /\ maptasklog[t] = 0
                           /\ maptasklog' = [maptasklog EXCEPT ![t] = 1]
                           /\ mapTimers' = mapTimers \cup {t}
                           /\ Begin(w, "map", t)
  BY DEF AllocateMap, FirstFree, MasterInv, TypeOK
<1>2. /\ pc' = [pc EXCEPT ![w] = "map"] /\ task' = [task EXCEPT ![w] = t]
      /\ next' = [next EXCEPT ![w] = 0]
      /\ UNCHANGED <<mapfinished, reducefinished, reducetasklog, reduceTimers,
                     files, out, crashes>>
  BY <1>1 DEF AllocateMap, Begin
<1>3. 0 \in ReduceTask /\ 0 \in MapTask
  BY SMTT(10), MapReduceAssumption DEF ReduceTask, MapTask
<1>4. TypeOK'
  BY SMTT(10), <1>1, <1>2, <1>3 DEF MasterInv, TypeOK
<1>5. CountersTrue'
  <2>1. Finished(maptasklog') = Finished(maptasklog)
    BY SMTT(10), <1>1 DEF MasterInv, TypeOK, Finished
  <2> QED BY <1>2, <2>1 DEF MasterInv, CountersTrue
<1>6. TasksExclusive'
  BY SMTT(10), <1>1, <1>2, <1>3 DEF MasterInv, TypeOK, TasksExclusive, AtMap, AtReduce
<1>7. ReduceAfterMaps'
  BY SMTT(10), <1>1, <1>2 DEF MasterInv, TypeOK, ReduceAfterMaps
<1>8. OutputComplete'
  BY <1>2 DEF MasterInv, TypeOK, OutputComplete
<1> QED BY <1>4, <1>5, <1>6, <1>7, <1>8 DEF MasterInv

LEMMA MasterAllocateReduce ==
    ASSUME MasterInv, NEW w \in Worker, pc[w] = "ask", AllocateReduce(w),
           UNCHANGED <<files, out, crashes>>
    PROVE  MasterInv'
<1>1. PICK t \in ReduceTask : /\ reducetasklog[t] = 0
                              /\ reducetasklog' = [reducetasklog EXCEPT ![t] = 1]
                              /\ reduceTimers' = reduceTimers \cup {t}
                              /\ Begin(w, "reduce", t)
  BY DEF AllocateReduce, FirstFree, MasterInv, TypeOK
<1>2. /\ pc' = [pc EXCEPT ![w] = "reduce"] /\ task' = [task EXCEPT ![w] = t]
      /\ next' = [next EXCEPT ![w] = 0]
      /\ UNCHANGED <<mapfinished, maptasklog, reducefinished, mapTimers,
                     files, out, crashes>>
  BY <1>1 DEF AllocateReduce, Begin
<1>3. 0 \in MapTask
  BY SMTT(10), MapReduceAssumption DEF MapTask
<1>4. TypeOK'
  BY SMTT(10), <1>1, <1>2, <1>3 DEF MasterInv, TypeOK
<1>5. CountersTrue'
  <2>1. Finished(reducetasklog') = Finished(reducetasklog)
    BY SMTT(10), <1>1 DEF MasterInv, TypeOK, Finished
  <2> QED BY <1>2, <2>1 DEF MasterInv, CountersTrue
<1>6. TasksExclusive'
  BY SMTT(10), <1>1, <1>2, <1>3 DEF MasterInv, TypeOK, TasksExclusive, AtMap, AtReduce
<1>7. ReduceAfterMaps'
  BY <1>2, AllMapsFinished DEF MasterInv, ReduceAfterMaps, AllocateReduce, MapsFinished
<1>8. OutputComplete'
  BY SMTT(10), <1>1, <1>2 DEF MasterInv, TypeOK, OutputComplete
<1> QED BY <1>4, <1>5, <1>6, <1>7, <1>8 DEF MasterInv

\* A worker that ends holds no task any more.
LEMMA MasterExit ==
    ASSUME MasterInv, NEW w \in Worker, pc' = [pc EXCEPT ![w] = "exit"],
           crashes' \in 0 .. MaxCrashes,
           UNCHANGED <<masterVars, task, next, files, out>>
    PROVE  MasterInv'
<1>1. TypeOK'
  BY DEF MasterInv, TypeOK, masterVars
<1>2. TasksExclusive'
  BY SMTT(10) DEF MasterInv, TypeOK, TasksExclusive, AtMap, AtReduce, masterVars
<1>3. CountersTrue' /\ ReduceAfterMaps'
  BY DEF MasterInv, CountersTrue, ReduceAfterMaps, masterVars
<1>4. OutputComplete'
  BY DEF MasterInv, TypeOK, OutputComplete, masterVars
<1> QED BY <1>1, <1>2, <1>3, <1>4 DEF MasterInv

LEMMA MasterReceiveFinishedMap ==
    ASSUME MasterInv, NEW w \in Worker, ReceiveFinishedMap(w)
    PROVE  MasterInv'
<1> DEFINE t == task[w]
<1>1. /\ mapfinished' = mapfinished + 1
      /\ maptasklog' = [maptasklog EXCEPT ![t] = 2]
      /\ pc' = [pc EXCEPT ![w] = "ask"]
      /\ UNCHANGED <<reducefinished, reducetasklog, mapTimers, reduceTimers, task,
                     next, files, out, crashes>>
  BY DEF ReceiveFinishedMap
<1>2. /\ t \in MapTask /\ maptasklog[t] = 1 /\ AtMap(w)
  BY DEF ReceiveFinishedMap, MasterInv, TasksExclusive, AtMap
<1>3. maptasklog' \in [MapTask -> 0 .. 2]
  BY SMTT(10), <1>1, <1>2 DEF MasterInv, TypeOK
<1>4. CountersTrue'
  <2>1. Cardinality(Finished(maptasklog')) = mapfinished + 1
    <3>1. maptasklog \in [MapTask -> 0 .. 2] /\ maptasklog[t] # 2
      BY SMTT(10), <1>2 DEF MasterInv, TypeOK
    <3> QED BY <1>1, <1>2, <3>1, CountOne, Tasks DEF MasterInv, CountersTrue
  <2> QED BY <1>1, <2>1 DEF MasterInv, CountersTrue
<1>5. mapfinished' \in 0 .. nMap
  BY <1>3, <1>4, CountBound, Tasks DEF CountersTrue
<1>6. TypeOK'
  BY <1>1, <1>3, <1>5 DEF MasterInv, TypeOK
<1> HIDE DEF t
<1>7. TasksExclusive'
  BY SMTT(10), <1>1, <1>2 DEF MasterInv, TypeOK, TasksExclusive, AtMap, AtReduce, t
<1>8. ReduceAfterMaps'
  BY <1>1, <1>2 DEF MasterInv, TypeOK, ReduceAfterMaps
<1>9. OutputComplete'
  BY <1>1 DEF MasterInv, TypeOK, OutputComplete
<1> QED BY <1>4, <1>6, <1>7, <1>8, <1>9 DEF MasterInv

LEMMA MasterReceiveFinishedReduce ==
    ASSUME MasterInv, NEW w \in Worker, ReceiveFinishedReduce(w)
    PROVE  MasterInv'
<1> DEFINE t == task[w]
<1>1. /\ reducefinished' = reducefinished + 1
      /\ reducetasklog' = [reducetasklog EXCEPT ![t] = 2]
      /\ pc' = [pc EXCEPT ![w] = "ask"] /\ pc[w] = "reduced"
      /\ UNCHANGED <<mapfinished, maptasklog, mapTimers, reduceTimers, task,
                     next, files, out, crashes>>
  BY DEF ReceiveFinishedReduce
<1>2. /\ t \in ReduceTask /\ reducetasklog[t] = 1 /\ AtReduce(w) /\ out[t] = MapTask
  BY <1>1 DEF MasterInv, TasksExclusive, AtReduce, OutputComplete
<1>3. reducetasklog' \in [ReduceTask -> 0 .. 2]
  BY SMTT(10), <1>1, <1>2 DEF MasterInv, TypeOK
<1>4. CountersTrue'
  <2>1. Cardinality(Finished(reducetasklog')) = reducefinished + 1
    <3>1. reducetasklog \in [ReduceTask -> 0 .. 2] /\ reducetasklog[t] # 2
      BY SMTT(10), <1>2 DEF MasterInv, TypeOK
    <3> QED BY <1>1, <1>2, <3>1, CountOne, Tasks DEF MasterInv, CountersTrue
  <2> QED BY <1>1, <2>1 DEF MasterInv, CountersTrue
<1>5. reducefinished' \in 0 .. nReduce
  BY <1>3, <1>4, CountBound, Tasks DEF CountersTrue
<1>6. TypeOK'
  BY <1>1, <1>3, <1>5 DEF MasterInv, TypeOK
<1> HIDE DEF t
<1>7. TasksExclusive'
  BY SMTT(10), <1>1, <1>2 DEF MasterInv, TypeOK, TasksExclusive, AtMap, AtReduce, t
<1>8. ReduceAfterMaps'
  BY <1>1, <1>2 DEF MasterInv, TypeOK, ReduceAfterMaps
<1>9. OutputComplete'
  BY <1>1, <1>2 DEF MasterInv, TypeOK, OutputComplete
<1> QED BY <1>4, <1>6, <1>7, <1>8, <1>9 DEF MasterInv

\* No worker is at a task whose timer fires: it has reported, or it has died.
LEMMA MasterMapTimeout ==
    ASSUME ~Slow, MasterInv, NEW t \in MapTask, MapTimeout(t)
    PROVE  MasterInv'
<1>1. /\ \A w \in Worker : AtMap(w) => task[w] # t
      /\ maptasklog' = [maptasklog EXCEPT ![t] = TakeBack(@)]
      /\ mapTimers' \subseteq mapTimers
      /\ UNCHANGED <<mapfinished, reducefinished, reducetasklog, reduceTimers,
                     pc, task, next, files, out, crashes>>
  BY DEF MapTimeout, AtMap, workerVars
<1>2. /\ maptasklog' \in [MapTask -> 0 .. 2]
      /\ \A u \in MapTask : maptasklog[u] = 2 <=> maptasklog'[u] = 2
      /\ \A u \in MapTask : u # t => maptasklog'[u] = maptasklog[u]
  BY SMTT(10), <1>1 DEF MasterInv, TypeOK, TakeBack
<1>3. TypeOK'
  BY <1>1, <1>2 DEF MasterInv, TypeOK
<1>4. CountersTrue'
  <2>1. Finished(maptasklog') = Finished(maptasklog)
    BY <1>2 DEF MasterInv, TypeOK, Finished
  <2> QED BY <1>1, <2>1 DEF MasterInv, CountersTrue
<1>5. TasksExclusive'
  BY <1>1, <1>2 DEF MasterInv, TypeOK, TasksExclusive, AtMap, AtReduce
<1>6. ReduceAfterMaps' /\ OutputComplete'
  BY <1>1, <1>2 DEF MasterInv, ReduceAfterMaps, OutputComplete
<1> QED BY <1>3, <1>4, <1>5, <1>6 DEF MasterInv

LEMMA MasterReduceTimeout ==
    ASSUME ~Slow, MasterInv, NEW t \in ReduceTask, ReduceTimeout(t)
    PROVE  MasterInv'
<1>1. /\ \A w \in Worker : AtReduce(w) => task[w] # t
      /\ reducetasklog' = [reducetasklog EXCEPT ![t] = TakeBack(@)]
      /\ reduceTimers' \subseteq reduceTimers
      /\ UNCHANGED <<mapfinished, maptasklog, reducefinished, mapTimers,
                     pc, task, next, files, out, crashes>>
  BY DEF ReduceTimeout, AtReduce, workerVars
<1>2. /\ reducetasklog' \in [ReduceTask -> 0 .. 2]
      /\ \A u \in ReduceTask : reducetasklog[u] = 2 <=> reducetasklog'[u] = 2
      /\ \A u \in ReduceTask : u # t => reducetasklog'[u] = reducetasklog[u]
      /\ reducetasklog[t] = 0 => reducetasklog'[t] = 0
  BY SMTT(10), <1>1 DEF MasterInv, TypeOK, TakeBack
<1>3. TypeOK'
  BY <1>1, <1>2 DEF MasterInv, TypeOK
<1>4. CountersTrue'
  <2>1. Finished(reducetasklog') = Finished(reducetasklog)
    BY <1>2 DEF MasterInv, TypeOK, Finished
  <2> QED BY <1>1, <2>1 DEF MasterInv, CountersTrue
<1>5. TasksExclusive'
  BY <1>1, <1>2 DEF MasterInv, TypeOK, TasksExclusive, AtMap, AtReduce
<1>6. ReduceAfterMaps' /\ OutputComplete'
  BY <1>1, <1>2 DEF MasterInv, ReduceAfterMaps, OutputComplete
<1> QED BY <1>3, <1>4, <1>5, <1>6 DEF MasterInv

LEMMA MasterWriteBucket ==
    ASSUME MasterInv, NEW w \in Worker, WriteBucket(w)
    PROVE  MasterInv'
<1>1. /\ pc[w] = "map" /\ files' = files \cup {<<task[w], next[w]>>}
      /\ UNCHANGED <<mapfinished, maptasklog, reducefinished, reducetasklog,
                     mapTimers, reduceTimers, task, out, crashes>>
  BY DEF WriteBucket, masterVars
<1>2. task[w] \in MapTask /\ next[w] \in ReduceTask
  BY <1>1 DEF MasterInv, TasksExclusive, AtMap
<1>3. /\ next' \in [Worker -> MapTask \cup ReduceTask] /\ next'[w] \in ReduceTask
      /\ \A v \in Worker : v # w => next'[v] = next[v]
      /\ pc' \in [Worker -> {"ask", "map", "mapped", "reduce", "delete", "reduced",
                             "exit"}]
      /\ pc'[w] \in {"map", "mapped"} /\ \A v \in Worker : v # w => pc'[v] = pc[v]
  <2>1. CASE next[w] + 1 < nReduce
    <3>1. /\ next' = [next EXCEPT ![w] = next[w] + 1] /\ UNCHANGED pc
          /\ next[w] + 1 \in ReduceTask
      BY SMTT(10), <1>2, <2>1, MapReduceAssumption DEF WriteBucket, ReduceTask
    <3> QED BY <1>1, <3>1 DEF MasterInv, TypeOK
  <2>2. CASE ~(next[w] + 1 < nReduce)
    <3>1. UNCHANGED next /\ pc' = [pc EXCEPT ![w] = "mapped"]
      BY <2>2 DEF WriteBucket
    <3> QED BY <1>2, <3>1 DEF MasterInv, TypeOK
  <2> QED BY <2>1, <2>2
<1>4. TypeOK'
  BY SMTT(10), <1>1, <1>2, <1>3 DEF MasterInv, TypeOK
<1>5. CountersTrue' /\ ReduceAfterMaps'
  BY <1>1 DEF MasterInv, CountersTrue, ReduceAfterMaps
<1>6. TasksExclusive'
  BY SMTT(10), <1>1, <1>3 DEF MasterInv, TasksExclusive, AtMap, AtReduce
<1>7. OutputComplete'
  BY <1>1, <1>3 DEF MasterInv, OutputComplete
<1> QED BY <1>4, <1>5, <1>6, <1>7 DEF MasterInv

\* What a reduce worker may do to its own state and its own output file.
LEMMA MasterReduceStep ==
    ASSUME MasterInv, NEW w \in Worker, pc[w] \in {"reduce", "delete"},
           UNCHANGED <<masterVars, task, crashes>>, files' \subseteq files,
           next'[w] \in MapTask, next' = [next EXCEPT ![w] = next'[w]],
           pc'[w] \in {"reduce", "delete", "reduced"}, pc' = [pc EXCEPT ![w] = pc'[w]],
           out' \in [ReduceTask -> SUBSET MapTask],
           \A t \in ReduceTask : out'[t] = out[t] \/ out'[t] = MapTask,
           pc'[w] \in {"delete", "reduced"} => out'[task[w]] = MapTask
    PROVE  MasterInv'
<1>1. UNCHANGED <<mapfinished, maptasklog, reducefinished, reducetasklog, mapTimers,
                  reduceTimers, task, crashes>>
  BY DEF masterVars
<1>2. \A v \in Worker : v # w => pc'[v] = pc[v] /\ next'[v] = next[v]
  BY DEF MasterInv, TypeOK
<1>3. TypeOK'
  BY <1>1 DEF MasterInv, TypeOK
<1>4. CountersTrue' /\ ReduceAfterMaps'
  BY <1>1 DEF MasterInv, CountersTrue, ReduceAfterMaps
<1>5. TasksExclusive'
  BY SMTT(10), <1>1, <1>2 DEF MasterInv, TasksExclusive, AtMap, AtReduce
<1>6. OutputComplete'
  BY SMTT(10), <1>1, <1>2 DEF MasterInv, OutputComplete, TasksExclusive, AtReduce
<1> QED BY <1>3, <1>4, <1>5, <1>6 DEF MasterInv

LEMMA MasterReadFile ==
    ASSUME MasterInv, NEW w \in Worker, ReadFile(w)
    PROVE  MasterInv'
<1>1. pc[w] = "reduce" /\ UNCHANGED <<masterVars, task, files, crashes>>
  BY DEF ReadFile
<1>2. task[w] \in ReduceTask /\ next[w] \in MapTask
  BY <1>1 DEF MasterInv, TasksExclusive, AtReduce
<1>3. CASE <<next[w], task[w]>> \notin files
  BY <1>1, <1>3, MasterExit DEF ReadFile, MasterInv, TypeOK
<1>4. CASE <<next[w], task[w]>> \in files /\ next[w] + 1 < nMap
  <2>1. /\ next' = [next EXCEPT ![w] = @ + 1] /\ UNCHANGED <<pc, out>>
        /\ next[w] + 1 \in MapTask
    BY SMTT(10), <1>2, <1>4, MapReduceAssumption DEF ReadFile, MapTask
  <2> QED BY <1>1, <2>1, MasterReduceStep DEF MasterInv, TypeOK
<1>5. CASE <<next[w], task[w]>> \in files /\ ~(next[w] + 1 < nMap)
  <2>1. 0 .. next[w] = MapTask
    BY SMTT(10), <1>2, <1>5, MapReduceAssumption DEF MapTask
  <2>2. /\ out' = [out EXCEPT ![task[w]] = MapTask]
        /\ pc' = [pc EXCEPT ![w] = "delete"] /\ next' = [next EXCEPT ![w] = 0]
    BY <1>5, <2>1 DEF ReadFile
  <2> QED BY <1>1, <1>2, <2>2, Tasks, MasterReduceStep DEF MasterInv, TypeOK
<1> QED BY <1>3, <1>4, <1>5

LEMMA MasterDeleteFile ==
    ASSUME MasterInv, NEW w \in Worker, DeleteFile(w)
    PROVE  MasterInv'
<1>1. pc[w] = "delete" /\ UNCHANGED <<masterVars, task, out, crashes>>
  BY DEF DeleteFile
<1>2. /\ task[w] \in ReduceTask /\ next[w] \in MapTask
      /\ out[task[w]] = MapTask
  BY <1>1 DEF MasterInv, TasksExclusive, AtReduce, OutputComplete
<1>3. CASE <<next[w], task[w]>> \notin files
  BY <1>1, <1>3, MasterExit DEF DeleteFile, MasterInv, TypeOK
<1>4. CASE <<next[w], task[w]>> \in files /\ next[w] + 1 < nMap
  <2>1. /\ next' = [next EXCEPT ![w] = @ + 1] /\ UNCHANGED pc
        /\ files' \subseteq files /\ next[w] + 1 \in MapTask
    BY SMTT(10), <1>2, <1>4, MapReduceAssumption DEF DeleteFile, MapTask
  <2> QED BY <1>1, <1>2, <2>1, MasterReduceStep DEF MasterInv, TypeOK
<1>5. CASE <<next[w], task[w]>> \in files /\ ~(next[w] + 1 < nMap)
  <2>1. /\ pc' = [pc EXCEPT ![w] = "reduced"] /\ UNCHANGED next
        /\ files' \subseteq files
    BY <1>5 DEF DeleteFile
  <2> QED BY <1>1, <1>2, <2>1, MasterReduceStep DEF MasterInv, TypeOK
<1> QED BY <1>3, <1>4, <1>5

LEMMA MasterNext ==
    ASSUME ~Slow, MasterInv, [Next]_vars
    PROVE  MasterInv'
<1>1. ASSUME NEW w \in Worker, AllocateTask(w)
      PROVE  MasterInv'
  <2>1. pc[w] = "ask" /\ UNCHANGED <<files, out, crashes>>
    BY <1>1 DEF AllocateTask
  <2>2. CASE AllocateNothing(w)
    BY <2>1, <2>2, MasterExit DEF AllocateNothing, MasterInv, TypeOK
  <2> QED BY <1>1, <2>1, <2>2, MasterAllocateMap, MasterAllocateReduce DEF AllocateTask
<1>2. ASSUME NEW w \in Worker, ReceiveFinishedMap(w) \/ ReceiveFinishedReduce(w)
      PROVE  MasterInv'
  BY <1>2, MasterReceiveFinishedMap, MasterReceiveFinishedReduce
<1>3. ASSUME NEW w \in Worker, WriteBucket(w) \/ ReadFile(w) \/ DeleteFile(w)
      PROVE  MasterInv'
  BY <1>3, MasterWriteBucket, MasterReadFile, MasterDeleteFile
<1>4. ASSUME NEW w \in Worker, Crash(w)
      PROVE  MasterInv'
  <2>1. crashes' \in 0 .. MaxCrashes
    BY SMTT(10), <1>4, MapReduceAssumption DEF Crash, MasterInv, TypeOK
  <2> QED BY <1>4, <2>1, MasterExit DEF Crash
<1>5. ASSUME NEW t \in MapTask, MapTimeout(t)
      PROVE  MasterInv'
  BY <1>5, MasterMapTimeout
<1>6. ASSUME NEW t \in ReduceTask, ReduceTimeout(t)
      PROVE  MasterInv'
  BY <1>6, MasterReduceTimeout
<1>7. CASE UNCHANGED vars
  BY <1>7 DEF vars, MasterInv, TypeOK, CountersTrue, TasksExclusive, AtMap, AtReduce,
              ReduceAfterMaps, OutputComplete
<1> QED BY <1>1, <1>2, <1>3, <1>4, <1>5, <1>6, <1>7 DEF Next

\* With no report later than ten seconds, AllocateTask and ReceiveFinishedMap and
\* ReceiveFinishedReduce keep the master's log of tasks and its counters equal
\* to what the workers have done.
THEOREM MasterHolds ==
    ASSUME ~Slow
    PROVE  Spec => []MasterInv
<1>1. Init => MasterInv
  BY MasterInit
<1>2. MasterInv /\ [Next]_vars => MasterInv'
  BY MasterNext
<1> QED BY <1>1, <1>2, PTL DEF Spec

-----------------------------------------------------------------------------
(* What it shows *)

\* The counters mapfinished and reducefinished, which AllocateTask and Done
\* compare with equality, never pass the numbers of tasks, and the other
\* variables keep their types.
THEOREM TypeCorrect ==
    ASSUME ~Slow
    PROVE  Spec => []TypeOK
<1>1. MasterInv => TypeOK
  BY DEF MasterInv
<1> QED BY <1>1, MasterHolds, PTL

\* AllocateTask hands out no reduce task before the last map task is finished,
\* whichever workers crash.
THEOREM MapsComeFirst ==
    ASSUME ~Slow
    PROVE  Spec => []ReduceAfterMaps
<1>1. MasterInv => ReduceAfterMaps
  BY DEF MasterInv
<1> QED BY <1>1, MasterHolds, PTL

\* When Done() is true, every mr-out-Y is there and made from all map tasks.
THEOREM DoneMeansComplete ==
    ASSUME ~Slow
    PROVE  Spec => []DoneIsComplete
<1>1. MasterInv => DoneIsComplete
  <2> SUFFICES ASSUME MasterInv, reducefinished = nReduce, NEW t \in ReduceTask
               PROVE  out[t] = MapTask
    BY DEF DoneIsComplete, Done
  <2>1. reducetasklog \in [ReduceTask -> 0 .. 2]
    BY DEF MasterInv, TypeOK
  <2>2. Cardinality(Finished(reducetasklog)) = Cardinality(ReduceTask)
    BY Tasks DEF MasterInv, CountersTrue
  <2>3. reducetasklog[t] = 2
    BY <2>1, <2>2, CountBound, Tasks
  <2> QED BY <2>3 DEF MasterInv, OutputComplete
<1> QED BY <1>1, MasterHolds, PTL

-----------------------------------------------------------------------------
(* The files of the map tasks *)

LEMMA FilesAllocateMap ==
    ASSUME FilesInv, NEW w \in Worker, pc[w] = "ask", AllocateMap(w),
           UNCHANGED <<files, out, crashes>>
    PROVE  FilesKept'
<1>1. PICK t \in MapTask : maptasklog' = [maptasklog EXCEPT ![t] = 1] /\ Begin(w, "map", t)
  BY DEF AllocateMap, FirstFree, FilesInv, MasterInv, TypeOK
<1>2. /\ pc' = [pc EXCEPT ![w] = "map"] /\ next' = [next EXCEPT ![w] = 0]
      /\ \A v \in Worker : v # w => pc'[v] = pc[v] /\ next'[v] = next[v] /\ task'[v] = task[v]
      /\ pc'[w] = "map" /\ next'[w] = 0 /\ UNCHANGED <<reducetasklog, files>>
      /\ \A x \in MapTask : maptasklog'[x] = 2 => maptasklog[x] = 2
  BY SMTT(10), <1>1 DEF AllocateMap, Begin, FilesInv, MasterInv, TypeOK
<1>3. \A y \in ReduceTask : Deleting(y) => Deleting(y)'
  BY <1>2 DEF Deleting
<1> QED BY SMTT(10), <1>2, <1>3 DEF FilesInv, FilesKept

LEMMA FilesAllocateReduce ==
    ASSUME FilesInv, NEW w \in Worker, pc[w] = "ask", AllocateReduce(w),
           UNCHANGED <<files, out, crashes>>
    PROVE  FilesKept'
<1>1. PICK t \in ReduceTask : /\ reducetasklog[t] = 0
                              /\ reducetasklog' = [reducetasklog EXCEPT ![t] = 1]
                              /\ Begin(w, "reduce", t)
  BY DEF AllocateReduce, FirstFree, FilesInv, MasterInv, TypeOK
<1>2. /\ \A v \in Worker : v # w => pc'[v] = pc[v] /\ next'[v] = next[v] /\ task'[v] = task[v]
      /\ pc'[w] = "reduce" /\ UNCHANGED <<maptasklog, files>>
      /\ \A y \in ReduceTask : reducetasklog'[y] # 2 => reducetasklog[y] # 2
  BY SMTT(10), <1>1 DEF AllocateReduce, Begin, FilesInv, MasterInv, TypeOK
<1>3. \A y \in ReduceTask : Deleting(y) => Deleting(y)'
  BY <1>2 DEF Deleting
<1> QED BY <1>2, <1>3 DEF FilesInv, FilesKept

\* A worker that ends before it deletes files leaves them as they are.
LEMMA FilesExit ==
    ASSUME FilesInv, NEW w \in Worker, pc[w] \notin {"delete", "reduced"},
           pc' = [pc EXCEPT ![w] = "exit"],
           UNCHANGED <<masterVars, task, next, files, out>>
    PROVE  FilesKept'
<1>1. /\ \A v \in Worker : v # w => pc'[v] = pc[v]
      /\ pc'[w] = "exit" /\ UNCHANGED <<maptasklog, reducetasklog, files, task, next>>
  BY DEF FilesInv, MasterInv, TypeOK, masterVars
<1>2. \A y \in ReduceTask : Deleting(y) => Deleting(y)'
  BY <1>1 DEF Deleting
<1> QED BY <1>1, <1>2 DEF FilesInv, FilesKept

LEMMA FilesReceiveFinishedMap ==
    ASSUME FilesInv, NEW w \in Worker, ReceiveFinishedMap(w)
    PROVE  FilesKept'
<1>1. /\ \A v \in Worker : v # w => pc'[v] = pc[v]
      /\ pc[w] = "mapped" /\ pc'[w] = "ask"
      /\ UNCHANGED <<reducetasklog, files, task, next>>
      /\ \A x \in MapTask : maptasklog'[x] = 2 => maptasklog[x] = 2 \/ x = task[w]
  BY DEF ReceiveFinishedMap, FilesInv, MasterInv, TypeOK
<1>2. \A y \in ReduceTask : Deleting(y) => Deleting(y)'
  BY <1>1 DEF Deleting
<1> QED BY <1>1, <1>2 DEF FilesInv, FilesKept

LEMMA FilesReceiveFinishedReduce ==
    ASSUME FilesInv, NEW w \in Worker, ReceiveFinishedReduce(w)
    PROVE  FilesKept'
<1>1. /\ \A v \in Worker : v # w => pc'[v] = pc[v]
      /\ pc[w] = "reduced" /\ pc'[w] = "ask"
      /\ UNCHANGED <<maptasklog, files, task, next>>
      /\ \A y \in ReduceTask : reducetasklog'[y] # 2 => reducetasklog[y] # 2 /\ y # task[w]
  BY DEF ReceiveFinishedReduce, FilesInv, MasterInv, TypeOK
<1>2. \A y \in ReduceTask : Deleting(y) /\ y # task[w] => Deleting(y)'
  BY <1>1 DEF Deleting
<1> QED BY <1>1, <1>2 DEF FilesInv, FilesKept

\* A timer that fires, and a step of something else, finish no task.
LEMMA FilesTimeout ==
    ASSUME FilesInv,
           \/ \E t \in MapTask : MapTimeout(t)
           \/ \E t \in ReduceTask : ReduceTimeout(t)
           \/ UNCHANGED vars
    PROVE  FilesKept'
<1>1. /\ UNCHANGED <<pc, task, next, files>>
      /\ \A x \in MapTask : maptasklog'[x] = 2 => maptasklog[x] = 2
      /\ \A y \in ReduceTask : reducetasklog'[y] # 2 => reducetasklog[y] # 2
  BY SMTT(10) DEF MapTimeout, ReduceTimeout, TakeBack, workerVars, vars, FilesInv, MasterInv, TypeOK
<1>2. \A y \in ReduceTask : Deleting(y) => Deleting(y)'
  BY <1>1 DEF Deleting
<1> QED BY <1>1, <1>2 DEF FilesInv, FilesKept

LEMMA FilesWriteBucket ==
    ASSUME FilesInv, NEW w \in Worker, WriteBucket(w)
    PROVE  FilesKept'
<1>1. /\ pc[w] = "map" /\ files' = files \cup {<<task[w], next[w]>>}
      /\ UNCHANGED <<maptasklog, reducetasklog, task>>
      /\ next[w] \in ReduceTask
  BY DEF WriteBucket, masterVars, FilesInv, MasterInv, TasksExclusive, AtMap
<1>2. \A y \in 0 .. next[w] : <<task[w], y>> \in files'
  BY SMTT(10), <1>1 DEF FilesInv, FilesKept, ReduceTask
<1>3. /\ \A v \in Worker : v # w => pc'[v] = pc[v] /\ next'[v] = next[v]
      /\ \/ pc'[w] = "map" /\ next'[w] = next[w] + 1
         \/ pc'[w] = "mapped" /\ ReduceTask = 0 .. next[w]
  <2>1. CASE next[w] + 1 < nReduce
    <3>1. UNCHANGED pc /\ next' = [next EXCEPT ![w] = next[w] + 1]
      BY <2>1 DEF WriteBucket
    <3> QED BY <1>1, <3>1 DEF FilesInv, MasterInv, TypeOK
  <2>2. CASE ~(next[w] + 1 < nReduce)
    <3>1. ReduceTask = 0 .. next[w]
      BY SMTT(10), <1>1, <2>2, MapReduceAssumption DEF ReduceTask
    <3> QED BY <2>2, <3>1 DEF WriteBucket, FilesInv, MasterInv, TypeOK
  <2> QED BY <2>1, <2>2
<1>4. \A y \in ReduceTask : Deleting(y) => Deleting(y)'
  BY <1>1, <1>3 DEF Deleting
<1>5. ASSUME NEW v \in Worker
      PROVE  /\ pc'[v] = "map" => \A y \in 0 .. (next'[v] - 1) : <<task[v], y>> \in files'
             /\ pc'[v] = "mapped" => \A y \in ReduceTask : <<task[v], y>> \in files'
             /\ pc'[v] = "delete" => \A x \in next'[v] .. (nMap - 1) : <<x, task[v]>> \in files'
  <2>1. CASE v = w
    <3>1. next[w] \in Int
      BY SMTT(10), <1>1, MapReduceAssumption DEF ReduceTask
    <3>2. CASE pc'[w] = "map" /\ next'[w] = next[w] + 1
      BY SMTT(10), <1>2, <2>1, <3>1, <3>2
    <3>3. CASE pc'[w] = "mapped" /\ ReduceTask = 0 .. next[w]
      BY <1>2, <2>1, <3>3
    <3> QED BY <1>3, <3>2, <3>3
  <2>2. CASE v # w
    BY <1>1, <1>3, <2>2 DEF FilesInv, FilesKept
  <2> QED BY <2>1, <2>2
<1> QED BY <1>1, <1>4, <1>5 DEF FilesInv, FilesKept

\* Only one worker is at a reduce task, and no map worker is left to write.
LEMMA ReducesAlone ==
    ASSUME MasterInv, NEW w \in Worker, AtReduce(w)
    PROVE  /\ task[w] \in ReduceTask /\ next[w] \in MapTask
           /\ reducetasklog[task[w]] = 1
           /\ \A x \in MapTask : maptasklog[x] = 2
           /\ \A v \in Worker : ~AtMap(v)
           /\ \A v \in Worker : AtReduce(v) /\ v # w => task[v] # task[w]
BY SMTT(10) DEF MasterInv, TasksExclusive, ReduceAfterMaps

\* When the last file is read, all of them are there for DeleteFile.
LEMMA FilesReadFile ==
    ASSUME FilesInv, NEW w \in Worker, ReadFile(w)
    PROVE  FilesKept'
<1>1. /\ pc[w] = "reduce" /\ UNCHANGED <<maptasklog, reducetasklog, task, files>>
      /\ AtReduce(w)
  BY DEF ReadFile, masterVars, AtReduce
<1>2. CASE <<next[w], task[w]>> \notin files
  BY <1>1, <1>2, FilesExit DEF ReadFile
<1>3. CASE <<next[w], task[w]>> \in files
  <2>1. /\ \A v \in Worker : v # w => pc'[v] = pc[v] /\ next'[v] = next[v]
        /\ pc'[w] = "reduce" \/ (pc'[w] = "delete" /\ next'[w] = 0)
    BY <1>1, <1>3 DEF ReadFile, FilesInv, MasterInv, TypeOK
  <2>2. ~Deleting(task[w])
    BY <1>1, ReducesAlone DEF Deleting, AtReduce, FilesInv
  <2>3. \A x \in MapTask : <<x, task[w]>> \in files
    BY SMTT(10), <1>1, <2>2, ReducesAlone DEF FilesInv, FilesKept
  <2>4. \A y \in ReduceTask : Deleting(y) => Deleting(y)'
    BY <1>1, <2>1 DEF Deleting
  <2> QED BY <1>1, <2>1, <2>3, <2>4 DEF FilesInv, FilesKept, MapTask
<1> QED BY <1>2, <1>3

LEMMA FilesDeleteFile ==
    ASSUME FilesInv, NEW w \in Worker, DeleteFile(w)
    PROVE  FilesKept'
<1>1. /\ pc[w] = "delete" /\ UNCHANGED <<maptasklog, reducetasklog, task>>
      /\ AtReduce(w)
  BY DEF DeleteFile, masterVars, AtReduce
<1>2. next[w] \in MapTask /\ next[w] \in next[w] .. (nMap - 1)
  BY SMTT(10), <1>1, ReducesAlone, MapReduceAssumption DEF MapTask, FilesInv
<1>3. <<next[w], task[w]>> \in files
  BY <1>1, <1>2 DEF FilesInv, FilesKept
<1>4. /\ files' = files \ {<<next[w], task[w]>>}
      /\ \A v \in Worker : v # w => pc'[v] = pc[v] /\ next'[v] = next[v]
      /\ pc'[w] = "reduced" \/ (pc'[w] = "delete" /\ next'[w] = next[w] + 1)
  <2>1. CASE next[w] + 1 < nMap
    BY <1>3, <2>1 DEF DeleteFile, FilesInv, MasterInv, TypeOK
  <2>2. CASE ~(next[w] + 1 < nMap)
    BY <1>3, <2>2 DEF DeleteFile, FilesInv, MasterInv, TypeOK
  <2> QED BY <2>1, <2>2
<1>5. ASSUME NEW x \in MapTask, NEW y \in ReduceTask,
             maptasklog[x] = 2, reducetasklog[y] # 2, ~Deleting(y)'
      PROVE  <<x, y>> \in files'
  <2>1. y # task[w] /\ ~Deleting(y)
    BY <1>1, <1>4, <1>5 DEF Deleting
  <2>2. <<x, y>> \in files
    BY <1>5, <2>1 DEF FilesInv, FilesKept
  <2> QED BY <1>4, <2>1, <2>2
<1>6. ASSUME NEW v \in Worker
      PROVE  /\ pc'[v] \notin {"map", "mapped"}
             /\ pc'[v] = "delete" => \A x \in next'[v] .. (nMap - 1) : <<x, task[v]>> \in files'
  <2>1. CASE v = w
    <3>1. next[w] \in Int
      BY SMTT(10), <1>2 DEF MapTask
    <3>2. \A x \in next[w] .. (nMap - 1) : <<x, task[w]>> \in files
      BY <1>1 DEF FilesInv, FilesKept
    <3> QED BY SMTT(10), <1>4, <2>1, <3>1, <3>2
  <2>2. CASE v # w
    <3>1. ~AtMap(v) /\ (AtReduce(v) => task[v] # task[w])
      BY <1>1, <2>2, ReducesAlone DEF FilesInv
    <3> QED BY <1>4, <2>2, <3>1 DEF FilesInv, FilesKept, AtMap, AtReduce
  <2> QED BY <2>1, <2>2
<1> QED BY <1>1, <1>5, <1>6 DEF FilesKept

LEMMA FilesNext ==
    ASSUME ~Slow, ~CrashDeleting, FilesInv, [Next]_vars
    PROVE  FilesInv'
<1>1. MasterInv'
  BY MasterNext DEF FilesInv
<1>2. ASSUME NEW w \in Worker, AllocateTask(w)
      PROVE  FilesKept'
  <2>1. pc[w] = "ask" /\ UNCHANGED <<files, out, crashes>>
    BY <1>2 DEF AllocateTask
  <2>2. CASE AllocateNothing(w)
    BY <2>1, <2>2, FilesExit DEF AllocateNothing
  <2> QED BY <1>2, <2>1, <2>2, FilesAllocateMap, FilesAllocateReduce DEF AllocateTask
<1>3. ASSUME NEW w \in Worker, ReceiveFinishedMap(w) \/ ReceiveFinishedReduce(w)
      PROVE  FilesKept'
  BY <1>3, FilesReceiveFinishedMap, FilesReceiveFinishedReduce
<1>4. ASSUME NEW w \in Worker, WriteBucket(w) \/ ReadFile(w) \/ DeleteFile(w)
      PROVE  FilesKept'
  BY <1>4, FilesWriteBucket, FilesReadFile, FilesDeleteFile
<1>5. ASSUME NEW w \in Worker, Crash(w)
      PROVE  FilesKept'
  <2>1. /\ pc[w] \notin {"delete", "reduced"} /\ pc' = [pc EXCEPT ![w] = "exit"]
        /\ UNCHANGED <<masterVars, task, next, files, out>>
    BY <1>5 DEF Crash
  <2> QED BY <2>1, FilesExit
<1> QED BY <1>1, <1>2, <1>3, <1>4, <1>5, FilesTimeout DEF Next, FilesInv

\* A reduce worker can open every file it still has to read, provided that no
\* worker dies between its first Remove and its report.
THEOREM ReduceFindsFiles ==
    ASSUME ~Slow, ~CrashDeleting
    PROVE  Spec => []FilesAreThere
<1>1. Init => FilesInv
  BY SMTT(10), MasterInit DEF Init, FilesInv, FilesKept
<1>2. FilesInv /\ [Next]_vars => FilesInv'
  BY FilesNext
<1>3. FilesInv => FilesAreThere
  <2> SUFFICES ASSUME FilesInv, NEW w \in Worker, pc[w] = "reduce",
                      NEW x \in next[w] .. (nMap - 1)
               PROVE  <<x, task[w]>> \in files
    BY DEF FilesAreThere
  <2>1. AtReduce(w)
    BY DEF AtReduce
  <2>2. x \in MapTask
    BY SMTT(10), <2>1, ReducesAlone DEF FilesInv, MapTask
  <2>3. ~Deleting(task[w])
    BY <2>1, ReducesAlone DEF Deleting, AtReduce, FilesInv
  <2> QED BY SMTT(10), <2>1, <2>2, <2>3, ReducesAlone DEF FilesInv, FilesKept
<1> QED BY <1>1, <1>2, <1>3, PTL DEF Spec
=============================================================================
