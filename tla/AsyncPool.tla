------------------------------- MODULE AsyncPool -------------------------------
(*****************************************************************************)
(* sps::net::AsyncPool (src/src/net/async_pool.{hpp,cpp}): one io_context    *)
(* run by a fixed set of worker threads.  One owner thread calls start(),    *)
(* stop(force) and the destructor; any thread may spawn a coroutine, at any  *)
(* moment, also while stop() waits in join().                                *)
(*                                                                           *)
(* A task is a coroutine (or a plain handler) from spawn to completion.  It  *)
(* alternates between the queue of ready handlers, a worker, and a wait for  *)
(* a timer or a socket.  The io_context counts its outstanding work: the     *)
(* guard and every unfinished task.  When the count drops to zero it stops   *)
(* itself, and once stopped every run() returns, until restart().            *)
(*****************************************************************************)
EXTENDS Naturals, Sequences, FiniteSets

CONSTANTS
    Workers,    \* the worker threads, thread_count_ of them
    Tasks,      \* the coroutines and handlers a client may spawn
    Throwing,   \* plain handlers that end in an exception
    NoTask      \* a worker's job between two handlers

\* resolve_thread_count(): at least one worker
ASSUME WorkersAssumption == Workers # {}
ASSUME ThrowingAssumption == Throwing \subseteq Tasks
ASSUME NoTaskAssumption == NoTask \notin Tasks

VARIABLES
    running,    \* running_
    guard,      \* guard_ holds the io_context's work
    stopped,    \* io_.stopped()
    worker,     \* where each thread is with respect to io_.run()
    job,        \* the task whose handler a worker executes
    task,       \* where each task is
    readyQ,     \* handlers ready to run, in order
    owner,      \* where the owner is in start(), stop() or the destructor
    hard,       \* the stop in progress, or the last one, was stop(true)
    owed,       \* tasks that were unfinished when stop() was called
    cancelled   \* tasks a hard stop left unfinished when it returned

vars == <<running, guard, stopped, worker, job, task, readyQ, owner, hard, owed,
          cancelled>>
pool == <<running, guard, owner, hard, owed, cancelled>>

WorkerLocs == {"none", "run", "busy", "exited", "crashed"}
TaskLocs == {"new", "ready", "running", "waiting", "done", "destroyed"}
OwnerLocs == {"idle", "join", "dtor_join", "dead"}

Unfinished == {t \in Tasks : task[t] \in {"ready", "running", "waiting"}}
AllOut == \A w \in Workers : worker[w] \in {"exited", "crashed"}

Init ==
    /\ running = FALSE /\ guard = TRUE /\ stopped = FALSE
    /\ worker = [w \in Workers |-> "none"]
    /\ job = [w \in Workers |-> NoTask]
    /\ task = [t \in Tasks |-> "new"]
    /\ readyQ = <<>>
    /\ owner = "idle" /\ hard = FALSE
    /\ owed = {} /\ cancelled = {}

-------------------------------------------------------------------------------
(* The owner.                                                                *)

\* Mutant: a pool that still runs gets a second set of threads.
StartTwice ==
    /\ owner = "idle"
    /\ running' = TRUE
    /\ worker' = [w \in Workers |-> "run"]
    /\ job' = [w \in Workers |-> NoTask]
    /\ UNCHANGED <<guard, stopped, task, readyQ, owner, hard, owed, cancelled>>

\* start(): a no-op on a running pool.
Start ==
    /\ owner = "idle" /\ ~running
    /\ running' = TRUE
    /\ worker' = [w \in Workers |-> "run"]
    /\ UNCHANGED <<guard, stopped, job, task, readyQ, owner, hard, owed,
                   cancelled>>

\* Mutant: a graceful stop() stops the io_context as well.
StopAlwaysHard(force) ==
    /\ owner = "idle" /\ running
    /\ guard' = FALSE
    /\ stopped' = TRUE
    /\ owner' = "join" /\ hard' = force
    /\ owed' = Unfinished
    /\ UNCHANGED <<running, worker, job, task, readyQ, cancelled>>

\* Mutant: the guard is kept, so that run() never runs out of work.
StopKeepsGuard(force) ==
    /\ owner = "idle" /\ running
    /\ stopped' = (stopped \/ force)
    /\ owner' = "join" /\ hard' = force
    /\ owed' = Unfinished
    /\ UNCHANGED <<running, guard, worker, job, task, readyQ, cancelled>>

\* stop(force) up to join(): the guard goes, and with it the last work when
\* nothing is unfinished; a hard stop stops the io_context too.
Stop(force) ==
    /\ owner = "idle" /\ running
    /\ guard' = FALSE
    /\ stopped' = (stopped \/ force \/ Unfinished = {})
    /\ owner' = "join" /\ hard' = force
    /\ owed' = Unfinished
    /\ UNCHANGED <<running, worker, job, task, readyQ, cancelled>>

\* Mutant: stop() goes on without waiting for its threads.
RearmWithoutJoin ==
    /\ owner = "join"
    /\ stopped' = FALSE /\ guard' = TRUE /\ running' = FALSE
    /\ owner' = "idle"
    /\ cancelled' = IF hard THEN cancelled \union Unfinished ELSE cancelled
    /\ UNCHANGED <<worker, job, task, readyQ, hard, owed>>

\* Mutant: the io_context is not restarted.
RearmStopped ==
    /\ owner = "join" /\ AllOut
    /\ worker' = [w \in Workers |-> "none"]
    /\ guard' = TRUE /\ running' = FALSE
    /\ owner' = "idle"
    /\ cancelled' = IF hard THEN cancelled \union Unfinished ELSE cancelled
    /\ UNCHANGED <<stopped, job, task, readyQ, hard, owed>>

\* The rest of stop(): every thread has been joined; restart() and a new guard
\* make the pool ready for the next start().
Rearm ==
    /\ owner = "join" /\ AllOut
    /\ worker' = [w \in Workers |-> "none"]
    /\ stopped' = FALSE /\ guard' = TRUE /\ running' = FALSE
    /\ owner' = "idle"
    /\ cancelled' = IF hard THEN cancelled \union Unfinished ELSE cancelled
    /\ UNCHANGED <<job, task, readyQ, hard, owed>>

\* ~io_context destroys what never finished.
DestroyTasks ==
    /\ task' = [t \in Tasks |-> IF t \in Unfinished THEN "destroyed"
                                ELSE task[t]]
    /\ readyQ' = <<>>

\* ~AsyncPool() of a pool that does not run returns at once ...
Destroy ==
    /\ owner = "idle" /\ ~running
    /\ owner' = "dead"
    /\ DestroyTasks
    /\ UNCHANGED <<running, guard, stopped, worker, job, hard, owed, cancelled>>

\* ... of a running one it stops hard ...
DestroyRunning ==
    /\ owner = "idle" /\ running
    /\ guard' = FALSE /\ stopped' = TRUE
    /\ owner' = "dtor_join" /\ hard' = TRUE
    /\ UNCHANGED <<running, worker, job, task, readyQ, owed, cancelled>>

\* ... and joins.
DestroyJoined ==
    /\ owner = "dtor_join" /\ AllOut
    /\ worker' = [w \in Workers |-> "none"]
    /\ running' = FALSE
    /\ owner' = "dead"
    /\ DestroyTasks
    /\ UNCHANGED <<guard, stopped, job, hard, owed, cancelled>>

-------------------------------------------------------------------------------
(* Clients and worker threads.                                               *)

\* spawn(): the io_context takes the coroutine whatever the pool's state.
Spawn(t) ==
    /\ owner # "dead"
    /\ task[t] = "new"
    /\ task' = [task EXCEPT ![t] = "ready"]
    /\ readyQ' = Append(readyQ, t)
    /\ UNCHANGED <<pool, stopped, worker, job>>

\* run() takes the next ready handler.
RunHandler(w) ==
    /\ worker[w] = "run" /\ ~stopped /\ readyQ # <<>>
    /\ worker' = [worker EXCEPT ![w] = "busy"]
    /\ job' = [job EXCEPT ![w] = Head(readyQ)]
    /\ task' = [task EXCEPT ![Head(readyQ)] = "running"]
    /\ readyQ' = Tail(readyQ)
    /\ UNCHANGED <<pool, stopped>>

\* The handler returns; its task waits for a timer or a socket.
Suspend(w) ==
    /\ worker[w] = "busy" /\ job[w] \notin Throwing
    /\ worker' = [worker EXCEPT ![w] = "run"]
    /\ job' = [job EXCEPT ![w] = NoTask]
    /\ task' = [task EXCEPT ![job[w]] = "waiting"]
    /\ UNCHANGED <<pool, stopped, readyQ>>

\* The handler returns or throws, and its task is over.  The last piece of
\* outstanding work stops the io_context.
EndTask(w, next) ==
    /\ worker[w] = "busy"
    /\ worker' = [worker EXCEPT ![w] = next]
    /\ job' = [job EXCEPT ![w] = NoTask]
    /\ task' = [task EXCEPT ![job[w]] = "done"]
    /\ stopped' = (stopped \/ (~guard /\ Unfinished = {job[w]}))
    /\ UNCHANGED <<pool, readyQ>>

Finish(w) == job[w] \notin Throwing /\ EndTask(w, "run")

\* Mutant: the exception is not caught, and the thread never ends its task.
CrashLosesTask(w) ==
    /\ worker[w] = "busy" /\ job[w] \in Throwing
    /\ worker' = [worker EXCEPT ![w] = "crashed"]
    /\ UNCHANGED <<pool, stopped, job, task, readyQ>>

\* The worker's catch logs the exception and the thread ends.
Crash(w) == job[w] \in Throwing /\ EndTask(w, "crashed")

\* A timer expires or a socket is ready: a thread in run() finds out.
Complete(t) ==
    /\ task[t] = "waiting" /\ ~stopped
    /\ \E w \in Workers : worker[w] = "run"
    /\ task' = [task EXCEPT ![t] = "ready"]
    /\ readyQ' = Append(readyQ, t)
    /\ UNCHANGED <<pool, stopped, worker, job>>

\* run() returns once the io_context has stopped.
Leave(w) ==
    /\ worker[w] = "run" /\ stopped
    /\ worker' = [worker EXCEPT ![w] = "exited"]
    /\ UNCHANGED <<pool, stopped, job, task, readyQ>>

OwnerCall ==
    Start \/ (\E force \in BOOLEAN : Stop(force)) \/ Destroy \/ DestroyRunning

OwnerReturn == Rearm \/ DestroyJoined

WorkerStep(w) ==
    RunHandler(w) \/ Suspend(w) \/ Finish(w) \/ Crash(w) \/ Leave(w)

Next ==
    \/ OwnerCall \/ OwnerReturn
    \/ \E t \in Tasks : Spawn(t) \/ Complete(t)
    \/ \E w \in Workers : WorkerStep(w)

Spec == Init /\ [][Next]_vars

\* Threads run, what a task waits for happens, and no task waits for ever more
\* events: the owner's calls and the spawns are the program's to make or not.
FairSpec ==
    /\ Spec
    /\ WF_vars(OwnerReturn)
    /\ \A t \in Tasks : SF_vars(Complete(t))
    /\ \A w \in Workers : WF_vars(WorkerStep(w)) /\ SF_vars(Finish(w))

-------------------------------------------------------------------------------
(* Properties.                                                               *)

TypeOK ==
    /\ running \in BOOLEAN /\ guard \in BOOLEAN /\ stopped \in BOOLEAN
    /\ worker \in [Workers -> WorkerLocs]
    /\ job \in [Workers -> Tasks \union {NoTask}]
    /\ \A w \in Workers : (worker[w] = "busy") <=> (job[w] # NoTask)
    /\ task \in [Tasks -> TaskLocs]
    /\ readyQ \in Seq(Tasks)
    /\ owner \in OwnerLocs /\ hard \in BOOLEAN
    /\ owed \subseteq Tasks /\ cancelled \subseteq Tasks

\* When stop() or the destructor has returned no worker thread exists any more:
\* a scan may destroy what its coroutines refer to (scan_controller.cpp:133).
QuietAfterStop ==
    (owner = "dead" \/ (owner = "idle" /\ ~running)) =>
        \A w \in Workers : worker[w] = "none" /\ job[w] = NoTask

\* A graceful stop() does not return before everything that was unfinished
\* when it was called has finished, unless exceptions killed every worker.
GracefulStopDrains ==
    owner = "join" /\ ~hard /\ AllOut /\ (\E w \in Workers : worker[w] = "exited")
        => \A t \in owed : task[t] = "done"

\* Every unfinished task has exactly one handler, waiting, queued or running:
\* none is run by two workers and none is forgotten over stop and restart.
OneHandlerPerTask ==
    \A t \in Tasks :
        LET queued == Cardinality({i \in DOMAIN readyQ : readyQ[i] = t})
            busy == Cardinality({w \in Workers : job[w] = t})
        IN  /\ queued = (IF task[t] = "ready" THEN 1 ELSE 0)
            /\ busy = (IF task[t] = "running" THEN 1 ELSE 0)

\* A stop() always returns: nothing keeps run() alive but unfinished tasks.
StopReturns == owner \in {"join", "dtor_join"} ~> owner \in {"idle", "dead"}

\* On a running pool with a worker left, every task that is spawned is run to
\* its end, also one spawned before start() or left over by an earlier stop().
SpawnedTasksFinish ==
    \A t \in Tasks :
        t \in Unfinished ~>
            \/ task[t] = "done"
            \/ owner # "idle" \/ ~running
            \/ \A w \in Workers : worker[w] = "crashed"

\* What async_pool.hpp:10 says: a hard stop cancels the handlers that wait.
HardStopCancels == \A t \in cancelled : task[t] \notin {"running", "done"}
===============================================================================
