----------------------------- MODULE MapReduce ------------------------------
(***************************************************************************)
(* The master and the workers of src/mr.  The master hands out map tasks,  *)
(* then reduce tasks, and takes a task back when its worker has not        *)
(* reported within ten seconds; workers write and read the intermediate    *)
(* files mr-X-Y and may crash at any step.                                 *)
(*                                                                         *)
(* Map and reduce functions are deterministic, so a file's content is told *)
(* by its name, and an output file by the set of map tasks it was made     *)
(* from.  Files are written under a temporary name and renamed, which is   *)
(* one step.                                                               *)
(***************************************************************************)
EXTENDS Integers, FiniteSets

CONSTANTS
    Worker,       \* the worker processes
    nMap,         \* map tasks are 0 .. nMap-1
    nReduce,      \* reduce tasks are 0 .. nReduce-1
    MaxCrashes,   \* bound: workers that crash
    Slow,         \* whether a worker may take longer than ten seconds
    CrashDeleting \* whether a worker may crash while it deletes files

ASSUME MapReduceAssumption ==
    /\ nMap \in Nat \ {0} /\ nReduce \in Nat \ {0}
    /\ MaxCrashes \in Nat /\ Slow \in BOOLEAN /\ CrashDeleting \in BOOLEAN

MapTask == 0 .. (nMap - 1)
ReduceTask == 0 .. (nReduce - 1)

VARIABLES
    mapfinished, maptasklog,          \* fields of Master: a task is
    reducefinished, reducetasklog,    \* 0 not allocated, 1 waiting, 2 finished
    mapTimers, reduceTimers,          \* the tasks with a sleeping goroutine
    pc,          \* where a worker is
    task,        \* its task
    next,        \* the loop variable of its task
    files,       \* the intermediate files <<X, Y>> that exist
    out,         \* the map tasks in mr-out-Y; {} when there is no such file
    crashes

masterVars == <<mapfinished, maptasklog, reducefinished, reducetasklog,
                mapTimers, reduceTimers>>
workerVars == <<pc, task, next>>
vars == <<mapfinished, maptasklog, reducefinished, reducetasklog, mapTimers,
          reduceTimers, pc, task, next, files, out, crashes>>

\* MakeMaster, and workers that are about to ask for a task.
Init ==
    /\ mapfinished = 0 /\ maptasklog = [t \in MapTask |-> 0]
    /\ reducefinished = 0 /\ reducetasklog = [t \in ReduceTask |-> 0]
    /\ mapTimers = {} /\ reduceTimers = {}
    /\ pc = [w \in Worker |-> "ask"] /\ task = [w \in Worker |-> 0]
    /\ next = [w \in Worker |-> 0]
    /\ files = {} /\ out = [t \in ReduceTask |-> {}]
    /\ crashes = 0

-----------------------------------------------------------------------------
(* The master; every handler runs under m.mu *)

\* The first task that is not allocated.
FirstFree(tasklog) ==
    {t \in DOMAIN tasklog : tasklog[t] = 0 /\ \A u \in 0 .. (t - 1) : tasklog[u] # 0}

Begin(w, where, t) ==
    /\ pc' = [pc EXCEPT ![w] = where]
    /\ task' = [task EXCEPT ![w] = t]
    /\ next' = [next EXCEPT ![w] = 0]

AllocateMap(w) ==
    /\ mapfinished < nMap
    /\ \E t \in FirstFree(maptasklog) :
         /\ maptasklog' = [maptasklog EXCEPT ![t] = 1]
         /\ mapTimers' = mapTimers \cup {t}
         /\ Begin(w, "map", t)
    /\ UNCHANGED <<mapfinished, reducefinished, reducetasklog, reduceTimers>>

\* Mutant of MapsFinished: a map task that is handed out counts.
MapsAllocated == \A t \in MapTask : maptasklog[t] # 0

MapsFinished == mapfinished = nMap

AllocateReduce(w) ==
    /\ MapsFinished /\ reducefinished < nReduce
    /\ \E t \in FirstFree(reducetasklog) :
         /\ reducetasklog' = [reducetasklog EXCEPT ![t] = 1]
         /\ reduceTimers' = reduceTimers \cup {t}
         /\ Begin(w, "reduce", t)
    /\ UNCHANGED <<mapfinished, maptasklog, reducefinished, mapTimers>>

\* Tasktype 3: neither phase has a task left, and the worker ends.  (Tasktype
\* 2, to wait and ask again, changes nothing.)
AllocateNothing(w) ==
    /\ mapfinished >= nMap /\ ~(MapsFinished /\ reducefinished < nReduce)
    /\ pc' = [pc EXCEPT ![w] = "exit"]
    /\ UNCHANGED <<masterVars, task, next>>

AllocateTask(w) ==
    /\ pc[w] = "ask"
    /\ AllocateMap(w) \/ AllocateReduce(w) \/ AllocateNothing(w)
    /\ UNCHANGED <<files, out, crashes>>

ReceiveFinishedMap(w) ==
    /\ pc[w] = "mapped"
    /\ mapfinished' = mapfinished + 1
    /\ maptasklog' = [maptasklog EXCEPT ![task[w]] = 2]
    /\ pc' = [pc EXCEPT ![w] = "ask"]
    /\ UNCHANGED <<reducefinished, reducetasklog, mapTimers, reduceTimers, task,
                   next, files, out, crashes>>

ReceiveFinishedReduce(w) ==
    /\ pc[w] = "reduced"
    /\ reducefinished' = reducefinished + 1
    /\ reducetasklog' = [reducetasklog EXCEPT ![task[w]] = 2]
    /\ pc' = [pc EXCEPT ![w] = "ask"]
    /\ UNCHANGED <<mapfinished, maptasklog, mapTimers, reduceTimers, task, next,
                   files, out, crashes>>

\* Mutant of TakeBack: the task is taken back though it is finished.
TakeBackAnyway(state) == 0

\* Mutant of TakeBack: nothing is taken back.
TakeBackNever(state) == state

\* A task that still waits when its timer fires is to be handed out again.
TakeBack(state) == IF state = 1 THEN 0 ELSE state

\* Unless workers are slow, the ones at a task report within ten seconds.
MapTimeout(t) ==
    /\ t \in mapTimers
    /\ Slow \/ \A w \in Worker : pc[w] \in {"map", "mapped"} => task[w] # t
    /\ mapTimers' = mapTimers \ {t}
    /\ maptasklog' = [maptasklog EXCEPT ![t] = TakeBack(@)]
    /\ UNCHANGED <<mapfinished, reducefinished, reducetasklog, reduceTimers,
                   workerVars, files, out, crashes>>

ReduceTimeout(t) ==
    /\ t \in reduceTimers
    /\ Slow \/ \A w \in Worker :
                 pc[w] \in {"reduce", "delete", "reduced"} => task[w] # t
    /\ reduceTimers' = reduceTimers \ {t}
    /\ reducetasklog' = [reducetasklog EXCEPT ![t] = TakeBack(@)]
    /\ UNCHANGED <<mapfinished, maptasklog, reducefinished, mapTimers,
                   workerVars, files, out, crashes>>

\* Mutant of Done: the map tasks are counted.
DoneMaps == mapfinished = nMap

Done == reducefinished = nReduce

-----------------------------------------------------------------------------
(* The worker *)

\* A map task renames its buckets to mr-X-Y, one after the other.
WriteBucket(w) ==
    /\ pc[w] = "map"
    /\ files' = files \cup {<<task[w], next[w]>>}
    /\ IF next[w] + 1 < nReduce
       THEN next' = [next EXCEPT ![w] = @ + 1] /\ UNCHANGED pc
       ELSE pc' = [pc EXCEPT ![w] = "mapped"] /\ UNCHANGED next
    /\ UNCHANGED <<masterVars, task, out, crashes>>

\* A reduce task reads mr-X-Y for every X, and ends the worker when one cannot
\* be opened; after the last it renames its result to mr-out-Y.
ReadFile(w) ==
    /\ pc[w] = "reduce"
    /\ IF <<next[w], task[w]>> \notin files
       THEN pc' = [pc EXCEPT ![w] = "exit"] /\ UNCHANGED <<next, out>>
       ELSE IF next[w] + 1 < nMap
       THEN next' = [next EXCEPT ![w] = @ + 1] /\ UNCHANGED <<pc, out>>
       ELSE /\ out' = [out EXCEPT ![task[w]] = 0 .. next[w]]
            /\ pc' = [pc EXCEPT ![w] = "delete"]
            /\ next' = [next EXCEPT ![w] = 0]
    /\ UNCHANGED <<masterVars, task, files, crashes>>

\* Then it deletes the files it has read, and ends the worker when one is not
\* there.
DeleteFile(w) ==
    /\ pc[w] = "delete"
    /\ IF <<next[w], task[w]>> \notin files
       THEN pc' = [pc EXCEPT ![w] = "exit"] /\ UNCHANGED <<next, files>>
       ELSE /\ files' = files \ {<<next[w], task[w]>>}
            /\ IF next[w] + 1 < nMap
               THEN next' = [next EXCEPT ![w] = @ + 1] /\ UNCHANGED pc
               ELSE pc' = [pc EXCEPT ![w] = "reduced"] /\ UNCHANGED next
    /\ UNCHANGED <<masterVars, task, out, crashes>>

\* A worker process dies.  When it has begun to delete the files of its task
\* and has not reported yet, nobody can do that task again: CrashDeleting
\* says whether that is considered.
Crash(w) ==
    /\ crashes < MaxCrashes /\ pc[w] # "exit"
    /\ pc[w] \in {"delete", "reduced"} => CrashDeleting
    /\ crashes' = crashes + 1
    /\ pc' = [pc EXCEPT ![w] = "exit"]
    /\ UNCHANGED <<masterVars, task, next, files, out>>

-----------------------------------------------------------------------------
Step(w) ==
    \/ AllocateTask(w) \/ ReceiveFinishedMap(w) \/ ReceiveFinishedReduce(w)
    \/ WriteBucket(w) \/ ReadFile(w) \/ DeleteFile(w)

Next ==
    \/ \E w \in Worker :
         \/ AllocateTask(w) \/ ReceiveFinishedMap(w) \/ ReceiveFinishedReduce(w)
         \/ WriteBucket(w) \/ ReadFile(w) \/ DeleteFile(w) \/ Crash(w)
    \/ \E t \in MapTask : MapTimeout(t)
    \/ \E t \in ReduceTask : ReduceTimeout(t)

\* Every process and every sleeping goroutine goes on while it can.
Fairness ==
    /\ \A w \in Worker : WF_vars(Step(w))
    /\ \A t \in MapTask : WF_vars(MapTimeout(t))
    /\ \A t \in ReduceTask : WF_vars(ReduceTimeout(t))

Spec == Init /\ [][Next]_vars /\ Fairness

-----------------------------------------------------------------------------
(* Properties *)

\* The variables keep their types, and the counters of the master stay within
\* the number of tasks (AllocateTask and Done compare them with equality).
TypeOK ==
    /\ mapfinished \in 0 .. nMap /\ maptasklog \in [MapTask -> 0 .. 2]
    /\ reducefinished \in 0 .. nReduce /\ reducetasklog \in [ReduceTask -> 0 .. 2]
    /\ mapTimers \subseteq MapTask /\ reduceTimers \subseteq ReduceTask
    /\ pc \in [Worker -> {"ask", "map", "mapped", "reduce", "delete", "reduced",
                          "exit"}]
    /\ task \in [Worker -> MapTask \cup ReduceTask]
    /\ next \in [Worker -> MapTask \cup ReduceTask]
    /\ files \subseteq MapTask \X ReduceTask
    /\ out \in [ReduceTask -> SUBSET MapTask]
    /\ crashes \in 0 .. MaxCrashes

\* AllocateTask hands out a reduce task only when every map task is finished.
ReduceAfterMaps ==
    (\E t \in ReduceTask : reducetasklog[t] # 0) =>
        \A t \in MapTask : maptasklog[t] = 2

\* A reduce worker finds every file it still has to read: no crash before its
\* rename leaves a map task finished without its files, and no other worker
\* has deleted them.
FilesAreThere ==
    \A w \in Worker : pc[w] = "reduce" =>
        \A x \in next[w] .. (nMap - 1) : <<x, task[w]>> \in files

\* When Done() tells the master to stop, every output file is there and was
\* made from all map tasks.
DoneIsComplete == Done => \A t \in ReduceTask : out[t] = MapTask

\* The job is done in the end when one worker is left: the timers hand the
\* tasks of crashed workers out again.
JobFinishes == <>Done
=============================================================================
