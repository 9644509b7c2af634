---------------------------- MODULE AsyncPoolProofs ----------------------------
(*****************************************************************************)
(* Safety of AsyncPool for any set of workers and tasks: types, no thread    *)
(* after stop(), one handler a task, and a graceful stop() that drains.      *)
(* The invariant has five parts; each is preserved because of others.        *)
(*****************************************************************************)
EXTENDS AsyncPool, FiniteSetTheorems, TLAPS

\* The queue holds every task that is ready, once, and no other.
ReadyOnce ==
    /\ \A i \in 1..Len(readyQ) : task[readyQ[i]] = "ready"
    /\ \A i, j \in 1..Len(readyQ) : readyQ[i] = readyQ[j] => i = j
    /\ \A t \in Tasks :
           task[t] = "ready" => \E i \in 1..Len(readyQ) : readyQ[i] = t

\* A task that is running has one worker, and a worker's task is running.
BusyOnce ==
    /\ \A w \in Workers : job[w] # NoTask => task[job[w]] = "running"
    /\ \A w, v \in Workers : job[w] # NoTask /\ job[w] = job[v] => w = v
    /\ \A t \in Tasks : task[t] = "running" => \E w \in Workers : job[w] = t

\* No thread leaves run() before the io_context has stopped, and that does not
\* stop on its own while a task is unfinished.
StopInv ==
    /\ owner = "idle" => guard /\ ~stopped
    /\ \A w \in Workers : worker[w] = "exited" => stopped
    /\ owner = "join" => ~guard
    /\ owner = "join" => \A t \in owed : t \in Unfinished \/ task[t] = "done"
    /\ owner = "join" /\ ~hard /\ stopped => \A t \in owed : task[t] = "done"

PoolInv == TypeOK /\ QuietAfterStop /\ ReadyOnce /\ BusyOnce /\ StopInv

-------------------------------------------------------------------------------
\* The initial state of a pool, before start().
LEMMA PoolInit == Init => PoolInv
<1> SUFFICES ASSUME Init PROVE PoolInv
    OBVIOUS
<1>1. TypeOK
  <2>1. /\ job \in [Workers -> Tasks \union {NoTask}]
        /\ \A w \in Workers : (worker[w] = "busy") <=> (job[w] # NoTask)
        BY DEF Init
  <2>2. /\ worker \in [Workers -> WorkerLocs] /\ task \in [Tasks -> TaskLocs]
        /\ owner \in OwnerLocs
        BY DEF Init, WorkerLocs, TaskLocs, OwnerLocs
  <2>3. readyQ \in Seq(Tasks)
        BY DEF Init
  <2>4. /\ owed \subseteq Tasks /\ cancelled \subseteq Tasks
        /\ running \in BOOLEAN /\ guard \in BOOLEAN /\ stopped \in BOOLEAN
        /\ hard \in BOOLEAN
        BY DEF Init
  <2> QED
      BY <2>1, <2>2, <2>3, <2>4 DEF TypeOK
<1>2. QuietAfterStop /\ BusyOnce
      BY DEF Init, QuietAfterStop, BusyOnce
<1>3. ReadyOnce
      BY DEF Init, ReadyOnce
<1>4. StopInv
      BY DEF Init, StopInv
<1> QED
    BY <1>1, <1>2, <1>3, <1>4 DEF PoolInv

\* Types: a worker is busy exactly while it has a job, also when start() makes
\* new threads, for the old ones are gone by then.
LEMMA TypeStep == TypeOK /\ QuietAfterStop /\ [Next]_vars => TypeOK'
<1> SUFFICES ASSUME TypeOK, QuietAfterStop, [Next]_vars PROVE TypeOK'
    OBVIOUS
<1> USE NoTaskAssumption DEF TypeOK, WorkerLocs, TaskLocs, OwnerLocs, Unfinished
<1>1. CASE Start
      BY <1>1 DEF Start, QuietAfterStop
<1>2. ASSUME NEW force \in BOOLEAN, Stop(force) PROVE TypeOK'
      BY <1>2 DEF Stop
<1>3. CASE Rearm
      BY <1>3 DEF Rearm, AllOut
<1>4. CASE Destroy
      BY <1>4 DEF Destroy, DestroyTasks
<1>5. CASE DestroyRunning
      BY <1>5 DEF DestroyRunning
<1>6. CASE DestroyJoined
  <2>1. \A w \in Workers : job[w] = NoTask /\ worker'[w] = "none"
        BY <1>6 DEF DestroyJoined, AllOut
  <2>2. task' \in [Tasks -> TaskLocs] /\ readyQ' \in Seq(Tasks)
        BY <1>6 DEF DestroyJoined, DestroyTasks
  <2>3. worker' \in [Workers -> WorkerLocs] /\ job' = job
        BY <1>6 DEF DestroyJoined
  <2> QED
      BY <1>6, <2>1, <2>2, <2>3 DEF DestroyJoined
<1>7. ASSUME NEW t \in Tasks, Spawn(t) PROVE TypeOK'
      BY <1>7 DEF Spawn, pool
<1>8. ASSUME NEW t \in Tasks, Complete(t) PROVE TypeOK'
      BY <1>8 DEF Complete, pool
<1>9. ASSUME NEW w \in Workers, RunHandler(w) PROVE TypeOK'
  <2>1. Head(readyQ) \in Tasks /\ Tail(readyQ) \in Seq(Tasks)
        BY <1>9 DEF RunHandler
  <2> QED
        BY <2>1, <1>9 DEF RunHandler, pool
<1>10. ASSUME NEW w \in Workers, Suspend(w) PROVE TypeOK'
      BY <1>10 DEF Suspend, pool
<1>11. ASSUME NEW w \in Workers, Finish(w) PROVE TypeOK'
      BY <1>11 DEF Finish, EndTask, pool
<1>12. ASSUME NEW w \in Workers, Crash(w) PROVE TypeOK'
      BY <1>12 DEF Crash, EndTask, pool
<1>13. ASSUME NEW w \in Workers, Leave(w) PROVE TypeOK'
      BY <1>13 DEF Leave, pool
<1>14. CASE UNCHANGED vars
      BY <1>14 DEF vars
<1> QED
    BY <1>1, <1>2, <1>3, <1>4, <1>5, <1>6, <1>7, <1>8, <1>9, <1>10, <1>11, <1>12,
       <1>13, <1>14 DEF Next, OwnerCall, OwnerReturn, WorkerStep

\* A thread is made by start() alone, and every way out of a running pool goes
\* through a join.
LEMMA QuietStep == TypeOK /\ QuietAfterStop /\ [Next]_vars => QuietAfterStop'
<1> SUFFICES ASSUME TypeOK, QuietAfterStop, [Next]_vars PROVE QuietAfterStop'
    OBVIOUS
<1> USE DEF TypeOK, QuietAfterStop
<1>1. CASE OwnerCall
      BY <1>1 DEF OwnerCall, Start, Stop, Destroy, DestroyRunning
<1>2. CASE OwnerReturn
      BY <1>2 DEF OwnerReturn, Rearm, DestroyJoined, AllOut
<1>3. ASSUME NEW t \in Tasks, Spawn(t) \/ Complete(t) PROVE QuietAfterStop'
      BY <1>3 DEF Spawn, Complete, pool
<1>4. ASSUME NEW w \in Workers, WorkerStep(w) PROVE QuietAfterStop'
      BY <1>4 DEF WorkerStep, RunHandler, Suspend, Finish, Crash, EndTask, Leave, pool
<1>5. CASE UNCHANGED vars
      BY <1>5 DEF vars
<1> QED
    BY <1>1, <1>2, <1>3, <1>4, <1>5 DEF Next

\* The queue.  A handler enters it at the end when its task becomes ready, and
\* leaves it at the front when it starts to run.
LEMMA ReadyAppended ==
    ASSUME TypeOK, ReadyOnce, NEW t \in Tasks, task[t] # "ready",
           task' = [task EXCEPT ![t] = "ready"], readyQ' = Append(readyQ, t)
    PROVE  ReadyOnce'
<1> USE DEF TypeOK, ReadyOnce
<1>1. /\ Len(readyQ') = Len(readyQ) + 1 /\ Len(readyQ) \in Nat
      /\ readyQ'[Len(readyQ) + 1] = t
      /\ \A i \in 1..Len(readyQ) : readyQ'[i] = readyQ[i] /\ readyQ[i] \in Tasks
      OBVIOUS
<1>2. \A i \in 1..Len(readyQ) : readyQ[i] # t
      OBVIOUS
<1>3. \A i \in 1..Len(readyQ') : task'[readyQ'[i]] = "ready"
      BY <1>1, <1>2
<1>4. \A i, j \in 1..Len(readyQ') : readyQ'[i] = readyQ'[j] => i = j
      BY <1>1, <1>2
<1>5. ASSUME NEW u \in Tasks, task'[u] = "ready"
      PROVE  \E i \in 1..Len(readyQ') : readyQ'[i] = u
  <2>1. CASE u = t
        BY <1>1, <2>1
  <2>2. CASE u # t
        BY <1>1, <1>5, <2>2
  <2> QED
      BY <2>1, <2>2
<1> QED
    BY <1>3, <1>4, <1>5

LEMMA ReadyTaken ==
    ASSUME TypeOK, ReadyOnce, readyQ # <<>>, readyQ' = Tail(readyQ),
           task' = [task EXCEPT ![Head(readyQ)] = "running"]
    PROVE  ReadyOnce'
<1> USE DEF TypeOK, ReadyOnce
<1>1. /\ Len(readyQ) \in Nat \ {0} /\ Len(readyQ') = Len(readyQ) - 1
      /\ Head(readyQ) = readyQ[1] /\ readyQ[1] \in Tasks
      /\ \A i \in 1..Len(readyQ') : readyQ'[i] = readyQ[i + 1]
      /\ \A i \in 1..Len(readyQ) : readyQ[i] \in Tasks
      OBVIOUS
<1>2. \A i \in 1..Len(readyQ') : i + 1 \in 1..Len(readyQ) /\ readyQ'[i] # readyQ[1]
      BY <1>1
<1>3. \A i \in 1..Len(readyQ') : task'[readyQ'[i]] = "ready"
      BY <1>1, <1>2
<1>4. \A i, j \in 1..Len(readyQ') : readyQ'[i] = readyQ'[j] => i = j
      BY <1>1, <1>2
<1>5. ASSUME NEW u \in Tasks, task'[u] = "ready"
      PROVE  \E i \in 1..Len(readyQ') : readyQ'[i] = u
  <2>1. task[u] = "ready" /\ u # readyQ[1]
        BY <1>1, <1>5
  <2>2. PICK i \in 1..Len(readyQ) : readyQ[i] = u
        BY <2>1
  <2>3. i - 1 \in 1..Len(readyQ') /\ readyQ'[i - 1] = u
        BY <1>1, <2>1, <2>2
  <2> QED
      BY <2>3
<1> QED
    BY <1>3, <1>4, <1>5

\* A worker's step ends or suspends a task that was running: the queue is as
\* it was.
LEMMA ReadyUntouched ==
    ASSUME TypeOK, ReadyOnce, NEW t \in Tasks, task[t] # "ready",
           NEW loc \in TaskLocs, loc # "ready",
           task' = [task EXCEPT ![t] = loc], readyQ' = readyQ
    PROVE  ReadyOnce'
BY DEF TypeOK, ReadyOnce

\* A busy worker has a task, and it is running.
LEMMA BusyHasTask ==
    ASSUME TypeOK, BusyOnce, NEW w \in Workers, worker[w] = "busy"
    PROVE  job[w] \in Tasks /\ task[job[w]] = "running"
BY DEF TypeOK, BusyOnce

LEMMA ReadyStep == TypeOK /\ BusyOnce /\ ReadyOnce /\ [Next]_vars => ReadyOnce'
<1> SUFFICES ASSUME TypeOK, BusyOnce, ReadyOnce, [Next]_vars PROVE ReadyOnce'
    OBVIOUS
<1>1. CASE UNCHANGED <<task, readyQ>>
      BY <1>1 DEF ReadyOnce
<1>2. CASE DestroyTasks
      BY <1>2 DEF DestroyTasks, ReadyOnce, Unfinished, TypeOK
<1>3. ASSUME NEW t \in Tasks, Spawn(t) \/ Complete(t) PROVE ReadyOnce'
      BY <1>3, ReadyAppended DEF Spawn, Complete
<1>4. ASSUME NEW w \in Workers, RunHandler(w) PROVE ReadyOnce'
      BY <1>4, ReadyTaken DEF RunHandler
<1>5. ASSUME NEW w \in Workers, Suspend(w) PROVE ReadyOnce'
  <2>1. job[w] \in Tasks /\ task[job[w]] = "running"
        BY <1>5, BusyHasTask DEF Suspend
  <2> QED
      BY <1>5, <2>1, ReadyUntouched DEF Suspend, TaskLocs
<1>6. ASSUME NEW w \in Workers, Finish(w) \/ Crash(w) PROVE ReadyOnce'
  <2>1. job[w] \in Tasks /\ task[job[w]] = "running"
        BY <1>6, BusyHasTask DEF Finish, Crash, EndTask
  <2> QED
      BY <1>6, <2>1, ReadyUntouched DEF Finish, Crash, EndTask, pool, TaskLocs
<1> QED
    BY <1>1, <1>2, <1>3, <1>4, <1>5, <1>6
    DEF Next, OwnerCall, OwnerReturn, WorkerStep, Start, Stop, Rearm, Destroy,
        DestroyRunning, DestroyJoined, Leave, vars

\* The jobs.  A worker takes a task that is ready, so no other has it, and
\* lets go of it when it is no longer running.
LEMMA BusyTaken ==
    ASSUME TypeOK, BusyOnce, NEW w \in Workers, worker[w] = "run",
           NEW t \in Tasks, task[t] = "ready",
           job' = [job EXCEPT ![w] = t], task' = [task EXCEPT ![t] = "running"]
    PROVE  BusyOnce'
<1> USE NoTaskAssumption DEF TypeOK, BusyOnce
<1>1. job[w] = NoTask /\ \A v \in Workers : job[v] # t
      OBVIOUS
<1>2. \A v \in Workers : job'[v] # NoTask => task'[job'[v]] = "running"
      BY <1>1
<1>3. \A u, v \in Workers : job'[u] # NoTask /\ job'[u] = job'[v] => u = v
      BY <1>1
<1>4. \A u \in Tasks : task'[u] = "running" => \E v \in Workers : job'[v] = u
      BY <1>1
<1> QED
    BY <1>2, <1>3, <1>4

LEMMA BusyReleased ==
    ASSUME TypeOK, BusyOnce, NEW w \in Workers, worker[w] = "busy",
           NEW loc \in TaskLocs, loc # "running",
           job' = [job EXCEPT ![w] = NoTask], task' = [task EXCEPT ![job[w]] = loc]
    PROVE  BusyOnce'
<1> USE NoTaskAssumption DEF TypeOK, BusyOnce
<1>1. job[w] \in Tasks /\ \A v \in Workers \ {w} : job[v] # job[w]
      OBVIOUS
<1>2. \A v \in Workers : job'[v] # NoTask => task'[job'[v]] = "running"
      BY <1>1
<1>3. \A u, v \in Workers : job'[u] # NoTask /\ job'[u] = job'[v] => u = v
      BY <1>1
<1>4. \A u \in Tasks : task'[u] = "running" => \E v \in Workers : job'[v] = u
      BY <1>1
<1> QED
    BY <1>2, <1>3, <1>4

\* A task that is not running and does not begin to run has no worker.
LEMMA BusyUntouched ==
    ASSUME TypeOK, BusyOnce, NEW t \in Tasks, task[t] # "running",
           task' = [task EXCEPT ![t] = "ready"], job' = job
    PROVE  BusyOnce'
BY NoTaskAssumption DEF TypeOK, BusyOnce

\* The destructor finds no worker with a job.
LEMMA BusyDestroyed ==
    ASSUME TypeOK, \A w \in Workers : job[w] = NoTask, DestroyTasks, job' = job
    PROVE  BusyOnce'
BY DEF TypeOK, BusyOnce, DestroyTasks, Unfinished, TaskLocs

LEMMA BusyStep ==
    TypeOK /\ QuietAfterStop /\ ReadyOnce /\ BusyOnce /\ [Next]_vars => BusyOnce'
<1> SUFFICES ASSUME TypeOK, QuietAfterStop, ReadyOnce, BusyOnce, [Next]_vars
             PROVE  BusyOnce'
    OBVIOUS
<1>1. CASE UNCHANGED <<task, job>>
      BY <1>1 DEF BusyOnce
<1>2. CASE Destroy
      BY <1>2, BusyDestroyed DEF Destroy, QuietAfterStop
<1>3. CASE DestroyJoined
      BY <1>3, BusyDestroyed DEF DestroyJoined, AllOut, TypeOK
<1>4. ASSUME NEW t \in Tasks, Spawn(t) \/ Complete(t) PROVE BusyOnce'
      BY <1>4, BusyUntouched DEF Spawn, Complete
<1>5. ASSUME NEW w \in Workers, RunHandler(w) PROVE BusyOnce'
  <2>1. Head(readyQ) \in Tasks /\ task[Head(readyQ)] = "ready"
        BY <1>5 DEF RunHandler, TypeOK, ReadyOnce
  <2> QED
      BY <1>5, <2>1, BusyTaken DEF RunHandler
<1>6. ASSUME NEW w \in Workers, Suspend(w) PROVE BusyOnce'
      BY <1>6, BusyReleased DEF Suspend, TaskLocs
<1>7. ASSUME NEW w \in Workers, Finish(w) \/ Crash(w) PROVE BusyOnce'
      BY <1>7, BusyReleased DEF Finish, Crash, EndTask, pool, TaskLocs
<1> QED
    BY <1>1, <1>2, <1>3, <1>4, <1>5, <1>6, <1>7
    DEF Next, OwnerCall, OwnerReturn, WorkerStep, Start, Stop, Rearm,
        DestroyRunning, Leave, vars

-------------------------------------------------------------------------------
\* The end.  A task that stop() owes is unfinished until it is done, and once
\* the io_context has stopped on its own nothing is unfinished.
LEMMA OwedStays ==
    ASSUME TypeOK, ReadyOnce, BusyOnce, [Next]_vars, owner = "join",
           owner' = "join", NEW t \in Tasks
    PROVE  /\ task[t] = "done" => task'[t] = "done"
           /\ t \in Unfinished => t \in Unfinished' \/ task'[t] = "done"
<1> USE DEF TypeOK, Unfinished
<1>1. CASE UNCHANGED task
      BY <1>1
<1>2. ASSUME NEW u \in Tasks, Spawn(u) \/ Complete(u)
      PROVE  /\ task[t] = "done" => task'[t] = "done"
             /\ t \in Unfinished => t \in Unfinished' \/ task'[t] = "done"
      BY <1>2 DEF Spawn, Complete
<1>3. ASSUME NEW w \in Workers, RunHandler(w)
      PROVE  /\ task[t] = "done" => task'[t] = "done"
             /\ t \in Unfinished => t \in Unfinished' \/ task'[t] = "done"
  <2>1. Head(readyQ) \in Tasks /\ task[Head(readyQ)] = "ready"
        BY <1>3 DEF RunHandler, ReadyOnce
  <2> QED
      BY <1>3, <2>1 DEF RunHandler
<1>4. ASSUME NEW w \in Workers, Suspend(w) \/ Finish(w) \/ Crash(w)
      PROVE  /\ task[t] = "done" => task'[t] = "done"
             /\ t \in Unfinished => t \in Unfinished' \/ task'[t] = "done"
  <2>1. job[w] \in Tasks /\ task[job[w]] = "running"
        BY <1>4, BusyHasTask DEF Suspend, Finish, Crash, EndTask
  <2> QED
      BY <1>4, <2>1 DEF Suspend, Finish, Crash, EndTask
<1> QED
    BY <1>1, <1>2, <1>3, <1>4
    DEF Next, OwnerCall, OwnerReturn, WorkerStep, Start, Stop, Rearm, Destroy,
        DestroyRunning, DestroyJoined, Leave, vars

LEMMA StopStep ==
    TypeOK /\ QuietAfterStop /\ ReadyOnce /\ BusyOnce /\ StopInv /\ [Next]_vars =>
        StopInv'
<1> SUFFICES ASSUME TypeOK, QuietAfterStop, ReadyOnce, BusyOnce, StopInv, [Next]_vars
             PROVE  StopInv'
    OBVIOUS
<1> USE DEF TypeOK
<1>1. CASE OwnerCall
  <2>1. CASE Start
        BY <2>1 DEF Start, StopInv
  <2>2. ASSUME NEW force \in BOOLEAN, Stop(force) PROVE StopInv'
        BY <2>2 DEF Stop, StopInv, Unfinished
  <2>3. CASE Destroy
        BY <2>3 DEF Destroy, StopInv
  <2>4. CASE DestroyRunning
        BY <2>4 DEF DestroyRunning, StopInv
  <2> QED
      BY <1>1, <2>1, <2>2, <2>3, <2>4 DEF OwnerCall
<1>2. CASE OwnerReturn
      BY <1>2 DEF OwnerReturn, Rearm, DestroyJoined, StopInv
<1>3. ASSUME UNCHANGED pool, StopInv,
             stopped => stopped',
             \A w \in Workers : worker'[w] = "exited" =>
                 worker[w] = "exited" \/ stopped,
             stopped' /\ ~stopped => ~guard /\ Unfinished' = {}
      PROVE  StopInv'
  <2>1. CASE owner # "join"
        BY <1>3, <2>1 DEF pool, StopInv
  <2>2. CASE owner = "join"
    <3>1. \A t \in owed : t \in Unfinished' \/ task'[t] = "done"
          BY <1>3, <2>2, OwedStays DEF pool, StopInv
    <3>2. ~hard /\ stopped' => \A t \in owed : task'[t] = "done"
          BY <1>3, <2>2, <3>1, OwedStays DEF pool, StopInv
    <3> QED
        BY <1>3, <2>2, <3>1, <3>2 DEF pool, StopInv
  <2> QED
      BY <2>1, <2>2
<1>4. ASSUME NEW t \in Tasks, Spawn(t) \/ Complete(t) PROVE StopInv'
      BY <1>3, <1>4 DEF Spawn, Complete
<1>5. ASSUME NEW w \in Workers, RunHandler(w) \/ Suspend(w) \/ Leave(w)
      PROVE  StopInv'
      BY <1>3, <1>5 DEF RunHandler, Suspend, Leave
<1>6. ASSUME NEW w \in Workers, Finish(w) \/ Crash(w) PROVE StopInv'
  <2>1. job[w] \in Tasks /\ UNCHANGED pool
        BY <1>6, BusyHasTask DEF Finish, Crash, EndTask
  <2>2. ~guard /\ Unfinished = {job[w]} => Unfinished' = {}
        BY <1>6, <2>1 DEF Finish, Crash, EndTask, Unfinished
  <2>3. \A v \in Workers : worker'[v] = "exited" => worker[v] = "exited"
        BY <1>6 DEF Finish, Crash, EndTask
  <2> QED
      BY <1>3, <1>6, <2>1, <2>2, <2>3 DEF Finish, Crash, EndTask
<1>7. CASE UNCHANGED vars
      BY <1>3, <1>7 DEF vars, pool
<1> QED
    BY <1>1, <1>2, <1>4, <1>5, <1>6, <1>7 DEF Next, WorkerStep

-------------------------------------------------------------------------------
LEMMA PoolStep == PoolInv /\ [Next]_vars => PoolInv'
BY TypeStep, QuietStep, ReadyStep, BusyStep, StopStep DEF PoolInv

THEOREM PoolInvariant == Spec => []PoolInv
BY PoolInit, PoolStep, PTL DEF Spec

\* Every variable of the pool keeps its type, for any workers and tasks: above
\* all a worker is inside a handler exactly while it has one (start, run()).
THEOREM PoolTypes == Spec => []TypeOK
<1>1. PoolInv => TypeOK
      BY DEF PoolInv
<1> QED
    BY PoolInvariant, <1>1, PTL

\* When stop() or the destructor has returned, no worker thread is left
\* (async_pool.cpp:27-37 and 58-78).
THEOREM PoolQuiet == Spec => []QuietAfterStop
<1>1. PoolInv => QuietAfterStop
      BY DEF PoolInv
<1> QED
    BY PoolInvariant, <1>1, PTL

\* A graceful stop() does not return before what it owes is done, whatever is
\* spawned meanwhile and whoever throws (async_pool.cpp:61-70).
THEOREM PoolDrains == Spec => []GracefulStopDrains
<1>1. PoolInv => GracefulStopDrains
      BY DEF PoolInv, StopInv, GracefulStopDrains
<1> QED
    BY PoolInvariant, <1>1, PTL

\* Counting: a set with one element at most has the cardinality its being
\* empty or not says.
LEMMA CountOne ==
    ASSUME NEW S, \A x, y \in S : x = y
    PROVE  Cardinality(S) = IF S = {} THEN 0 ELSE 1
<1>1. CASE S = {}
      BY <1>1, FS_EmptySet
<1>2. CASE S # {}
  <2>1. PICK x : S = {x}
        BY <1>2
  <2> QED
      BY <1>2, <2>1, FS_Singleton
<1> QED
    BY <1>1, <1>2

\* Every unfinished task has exactly one handler over any number of starts and
\* stops: none is run by two workers, none is lost.
THEOREM PoolHandlers == Spec => []OneHandlerPerTask
<1>1. PoolInv => OneHandlerPerTask
  <2> SUFFICES ASSUME PoolInv, NEW t \in Tasks
               PROVE  /\ Cardinality({i \in DOMAIN readyQ : readyQ[i] = t})
                            = (IF task[t] = "ready" THEN 1 ELSE 0)
                      /\ Cardinality({w \in Workers : job[w] = t})
                            = (IF task[t] = "running" THEN 1 ELSE 0)
      BY DEF OneHandlerPerTask
  <2> DEFINE queued == {i \in DOMAIN readyQ : readyQ[i] = t}
             busy == {w \in Workers : job[w] = t}
  <2>1. DOMAIN readyQ = 1..Len(readyQ)
        BY DEF PoolInv, TypeOK
  <2>2. /\ \A i, j \in queued : i = j
        /\ queued = {} <=> task[t] # "ready"
        BY <2>1 DEF PoolInv, ReadyOnce
  <2>3. /\ \A w, v \in busy : w = v
        /\ busy = {} <=> task[t] # "running"
        BY NoTaskAssumption DEF PoolInv, BusyOnce
  <2>4. Cardinality(queued) = IF queued = {} THEN 0 ELSE 1
        BY <2>2, CountOne
  <2>5. Cardinality(busy) = IF busy = {} THEN 0 ELSE 1
        BY <2>3, CountOne
  <2> QED
      BY <2>2, <2>3, <2>4, <2>5
<1> QED
    BY PoolInvariant, <1>1, PTL
===============================================================================
