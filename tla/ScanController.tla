---------------------------- MODULE ScanController ----------------------------
(*****************************************************************************)
(* sps::gui::ScanController (src/src/gui/views/scan_controller.cpp) with its *)
(* sps::net::QtBridge (src/src/net/qt_bridge.cpp): the UI thread that owns   *)
(* the controller, the worker thread of the current scan, the coroutines it  *)
(* has spawned, and the queue of events on their way to the UI thread.       *)
(*                                                                           *)
(* A coroutine is the state of its future.  The pool is the one of module    *)
(* AsyncPool, taken at what that module shows: a graceful stop() returns     *)
(* when every coroutine has ended, the destructor ends what is left.         *)
(*****************************************************************************)
EXTENDS Naturals, Sequences

CONSTANTS
    MaxPorts,   \* bound: ports of one scan
    MaxScans,   \* bound: scans accepted
    Rates,      \* arguments of setRate()
    Timeouts    \* arguments of setTimeout()

ASSUME BoundsAssumption == MaxPorts \in Nat /\ MaxScans \in Nat
ASSUME SettingsAssumption == Rates \subseteq Nat /\ Timeouts \subseteq Nat

VARIABLES
    running,    \* running_
    cancel,     \* cancel_
    rate,       \* rate_
    timeout,    \* timeout_
    ui,         \* where the UI thread is in startScan() or the destructor
    worker,     \* where the worker thread is in runScan()
    sizes,      \* ports of every accepted scan
    asked,      \* the settings when the last scan was accepted
    limiter,    \* rate_ as read for the limiter's arguments
    futs,       \* futures of the spawned coroutines
    used,       \* the timeout each of them was given
    done,       \* ports whose progress has been posted
    queue,      \* events posted to the UI thread
    cut,        \* scans cancelled or ended by an exception
    heard       \* what the listeners have heard

vars == <<running, cancel, rate, timeout, ui, worker, sizes, asked, limiter,
          futs, used, done, queue, cut, heard>>
flags == <<running, cancel>>
settings == <<rate, timeout>>
scan == <<limiter, futs, used, done>>

Scan == Len(sizes)
Pending == {i \in DOMAIN futs : futs[i] = "pending"}
Event(kind, arg) == [kind |-> kind, arg |-> arg]

Init ==
    /\ running = FALSE /\ cancel = FALSE
    /\ rate \in Rates \ {0} /\ timeout \in Timeouts \ {0}
    /\ ui = "idle" /\ worker = "none"
    /\ sizes = <<>> /\ asked = [rate |-> rate, timeout |-> timeout]
    /\ limiter = <<>> /\ futs = <<>> /\ used = <<>> /\ done = 0
    /\ queue = <<>> /\ cut = {}
    /\ heard = [finished |-> 0, done |-> 0, shown |-> 0]

-------------------------------------------------------------------------------
(* The UI thread.                                                            *)

\* Mutant: a rate of 0 is taken.
SetRateUnchecked(r) ==
    /\ ui = "idle"
    /\ rate' = r
    /\ UNCHANGED <<flags, timeout, ui, worker, sizes, asked, scan, queue, cut,
                   heard>>

\* setRate() and setTimeout() take positive values, at any time.
SetRate(r) ==
    /\ ui = "idle" /\ r > 0
    /\ rate' = r
    /\ UNCHANGED <<flags, timeout, ui, worker, sizes, asked, scan, queue, cut,
                   heard>>

SetTimeout(t) ==
    /\ ui = "idle" /\ t > 0
    /\ timeout' = t
    /\ UNCHANGED <<flags, rate, ui, worker, sizes, asked, scan, queue, cut,
                   heard>>

\* Mutant: the flag of an earlier cancelScan() stays up.
StartScanKeepsCancel(n) ==
    /\ ui = "idle" /\ ~running /\ Scan < MaxScans
    /\ running' = TRUE
    /\ ui' = "join"
    /\ sizes' = Append(sizes, n)
    /\ asked' = [rate |-> rate, timeout |-> timeout]
    /\ UNCHANGED <<cancel, settings, worker, scan, queue, cut, heard>>

\* Mutant: the scan in progress does not keep a second one out.
StartScanOverlaps(n) ==
    /\ ui = "idle" /\ Scan < MaxScans
    /\ running' = TRUE /\ cancel' = FALSE
    /\ ui' = "join"
    /\ sizes' = Append(sizes, n)
    /\ asked' = [rate |-> rate, timeout |-> timeout]
    /\ UNCHANGED <<settings, worker, scan, queue, cut, heard>>

\* startScan() up to the join of the last worker.  While a scan is running it
\* returns after a scanError, and changes nothing.
StartScan(n) ==
    /\ ui = "idle" /\ ~running /\ Scan < MaxScans
    /\ running' = TRUE /\ cancel' = FALSE
    /\ ui' = "join"
    /\ sizes' = Append(sizes, n)
    /\ asked' = [rate |-> rate, timeout |-> timeout]
    /\ UNCHANGED <<settings, worker, scan, queue, cut, heard>>

\* The rest of startScan(): the last worker has ended, a new one is created.
Launch ==
    /\ ui = "join" /\ worker \in {"none", "ended"}
    /\ ui' = "idle" /\ worker' = "open"
    /\ limiter' = <<>> /\ futs' = <<>> /\ used' = <<>> /\ done' = 0
    /\ UNCHANGED <<flags, settings, sizes, asked, queue, cut, heard>>

CancelScan ==
    /\ ui = "idle"
    /\ cancel' = TRUE
    /\ cut' = cut \union {Scan}
    /\ UNCHANGED <<running, settings, ui, worker, sizes, asked, scan, queue,
                   heard>>

\* ~ScanController(): the scan is cancelled ...
Destroy ==
    /\ ui = "idle"
    /\ cancel' = TRUE
    /\ cut' = cut \union {Scan}
    /\ ui' = "dtor"
    /\ UNCHANGED <<running, settings, worker, sizes, asked, scan, queue, heard>>

\* ... the worker joined, and with the bridge go the events it has posted.
Destroyed ==
    /\ ui = "dtor" /\ worker \in {"none", "ended"}
    /\ ui' = "gone"
    /\ queue' = <<>>
    /\ UNCHANGED <<flags, settings, worker, sizes, asked, scan, cut, heard>>

\* The event loop emits the signal of the next event.
Deliver ==
    /\ ui = "idle" /\ queue # <<>>
    /\ queue' = Tail(queue)
    /\ heard' =
           CASE Head(queue).kind = "result" ->
                    [heard EXCEPT !.shown = Head(queue).arg]
             [] Head(queue).kind = "progress" ->
                    [heard EXCEPT !.done = Head(queue).arg, !.shown = 0]
             [] Head(queue).kind = "finished" ->
                    [heard EXCEPT !.finished = @ + 1, !.done = 0, !.shown = 0]
             [] OTHER -> heard
    /\ UNCHANGED <<flags, settings, ui, worker, sizes, asked, scan, cut>>

-------------------------------------------------------------------------------
(* The worker thread: runScan().                                             *)

OpenPool ==
    /\ worker = "open" /\ worker' = "rate"
    /\ UNCHANGED <<flags, settings, ui, sizes, asked, scan, queue, cut, heard>>

\* The limiter's three arguments each read rate_, which setRate() may write
\* between two of the reads.
ReadRate ==
    /\ worker = "rate"
    /\ limiter' = Append(limiter, rate)
    /\ worker' = IF Len(limiter') = 3 THEN "spawn" ELSE "rate"
    /\ UNCHANGED <<flags, settings, ui, sizes, asked, futs, used, done, queue,
                   cut, heard>>

\* if (cancel_) break; for the next port ...
NextPort ==
    /\ worker = "spawn" /\ ~cancel /\ Len(futs) < sizes[Scan]
    /\ worker' = "port"
    /\ UNCHANGED <<flags, settings, ui, sizes, asked, scan, queue, cut, heard>>

\* ... co_spawn(scan_one(..., timeout_, ...)).
SpawnScan ==
    /\ worker = "port" /\ worker' = "spawn"
    /\ futs' = Append(futs, "pending")
    /\ used' = Append(used, timeout)
    /\ UNCHANGED <<flags, settings, ui, sizes, asked, limiter, done, queue, cut,
                   heard>>

Spawned ==
    /\ worker = "spawn" /\ (cancel \/ Len(futs) = sizes[Scan])
    /\ worker' = "collect"
    /\ UNCHANGED <<flags, settings, ui, sizes, asked, scan, queue, cut, heard>>

\* A coroutine ends: scan_one() returns or throws.
Settle(i) ==
    /\ i \in Pending
    /\ \E outcome \in {"value", "exception"} :
           futs' = [futs EXCEPT ![i] = outcome]
    /\ UNCHANGED <<flags, settings, ui, worker, sizes, asked, limiter, used,
                   done, queue, cut, heard>>

\* if (cancel_) break; for the next future ...
NextFuture ==
    /\ worker = "collect" /\ ~cancel /\ done < Len(futs)
    /\ worker' = "get"
    /\ UNCHANGED <<flags, settings, ui, sizes, asked, scan, queue, cut, heard>>

\* Mutant: a future that holds an exception is not collected.
CollectValue ==
    /\ worker = "get" /\ worker' = "count"
    /\ futs[done + 1] = "value"
    /\ queue' = Append(queue, Event("result", done + 1))
    /\ UNCHANGED <<flags, settings, ui, sizes, asked, scan, cut, heard>>

\* ... f.get() waits for it, whatever cancelScan() says by then: its result is
\* posted if it has one ...
Collect ==
    /\ worker = "get" /\ worker' = "count"
    /\ done + 1 \notin Pending
    /\ queue' = IF futs[done + 1] = "value"
                THEN Append(queue, Event("result", done + 1)) ELSE queue
    /\ UNCHANGED <<flags, settings, ui, sizes, asked, scan, cut, heard>>

\* ... and then the progress that counts it.  No other thread posts in between,
\* but an exception may end the scan there.
PostProgress ==
    /\ worker = "count" /\ worker' = "collect"
    /\ queue' = Append(queue, Event("progress", done + 1))
    /\ done' = done + 1
    /\ UNCHANGED <<flags, settings, ui, sizes, asked, limiter, futs, used, cut,
                   heard>>

Collected ==
    /\ worker = "collect" /\ (cancel \/ done = Len(futs))
    /\ worker' = "stop"
    /\ UNCHANGED <<flags, settings, ui, sizes, asked, scan, queue, cut, heard>>

\* Mutant: stop() does not wait for the coroutines.
StopPoolAtOnce ==
    /\ worker = "stop" /\ worker' = "finish"
    /\ UNCHANGED <<flags, settings, ui, sizes, asked, scan, queue, cut, heard>>

\* pool.stop(): graceful.
StopPool ==
    /\ worker = "stop" /\ Pending = {}
    /\ worker' = "finish"
    /\ UNCHANGED <<flags, settings, ui, sizes, asked, scan, queue, cut, heard>>

\* Where runScan() is in its try block and before the orderly stop.
Trying == {"open", "rate", "spawn", "port", "collect", "get", "count"}

\* An exception (no thread, no memory) leaves the try block.  The futures and
\* the limiter are destroyed first, while the coroutines go on ...
Unwind ==
    /\ worker \in Trying
    /\ worker' = "unwind"
    /\ cut' = cut \union {Scan}
    /\ UNCHANGED <<flags, settings, ui, sizes, asked, scan, queue, heard>>

Abandoned == [i \in DOMAIN futs |-> IF i \in Pending THEN "abandoned"
                                    ELSE futs[i]]

\* Mutant: the catch returns before postFinished().
CatchSilently ==
    /\ worker = "unwind" /\ worker' = "clear"
    /\ futs' = Abandoned
    /\ queue' = Append(queue, Event("error", 0))
    /\ UNCHANGED <<flags, settings, ui, sizes, asked, limiter, used, done, cut,
                   heard>>

\* ... until the pool's destructor ends them, and the catch emits scanError.
Catch ==
    /\ worker = "unwind" /\ worker' = "finish"
    /\ futs' = Abandoned
    /\ queue' = Append(queue, Event("error", 0))
    /\ UNCHANGED <<flags, settings, ui, sizes, asked, limiter, used, done, cut,
                   heard>>

PostFinished ==
    /\ worker = "finish" /\ worker' = "clear"
    /\ queue' = Append(queue, Event("finished", 0))
    /\ UNCHANGED <<flags, settings, ui, sizes, asked, scan, cut, heard>>

ClearRunning ==
    /\ worker = "clear" /\ worker' = "leave"
    /\ running' = FALSE
    /\ UNCHANGED <<cancel, settings, ui, sizes, asked, scan, queue, cut, heard>>

EndThread ==
    /\ worker = "leave" /\ worker' = "ended"
    /\ UNCHANGED <<flags, settings, ui, sizes, asked, scan, queue, cut, heard>>

UiCall ==
    \/ \E n \in 0..MaxPorts : StartScan(n)
    \/ \E r \in Rates : SetRate(r)
    \/ \E t \in Timeouts : SetTimeout(t)
    \/ CancelScan \/ Destroy

UiReturn == Launch \/ Destroyed

RunScan ==
    \/ OpenPool \/ ReadRate \/ NextPort \/ SpawnScan \/ Spawned
    \/ NextFuture \/ Collect \/ PostProgress \/ Collected \/ StopPool \/ Catch
    \/ PostFinished \/ ClearRunning \/ EndThread

Next ==
    \/ UiCall \/ UiReturn \/ Deliver \/ RunScan \/ Unwind
    \/ \E i \in 1..MaxPorts : Settle(i)

Spec == Init /\ [][Next]_vars

\* Both threads run, the event loop delivers what it has, and every coroutine
\* ends.  Calls and exceptions need not come.
FairSpec ==
    /\ Spec
    /\ WF_vars(UiReturn) /\ WF_vars(Deliver) /\ WF_vars(RunScan)
    /\ \A i \in 1..MaxPorts : WF_vars(Settle(i))

-------------------------------------------------------------------------------
(* Properties.                                                               *)

TypeOK ==
    /\ running \in BOOLEAN /\ cancel \in BOOLEAN
    /\ rate \in Rates \ {0} /\ timeout \in Timeouts \ {0}
    /\ ui \in {"idle", "join", "dtor", "gone"}
    /\ worker \in Trying \union {"none", "stop", "unwind", "finish", "clear",
                                 "leave", "ended"}
    /\ sizes \in Seq(0..MaxPorts) /\ Scan <= MaxScans
    /\ asked \in [rate : Rates, timeout : Timeouts]
    /\ limiter \in Seq(Rates \ {0}) /\ Len(limiter) <= 3
    /\ futs \in Seq({"pending", "value", "exception", "abandoned"})
    /\ used \in Seq(Timeouts \ {0}) /\ Len(used) = Len(futs)
    /\ done \in 0..Len(futs)
    /\ queue \in Seq([kind : {"result", "progress", "finished", "error"},
                      arg : 0..MaxPorts])
    /\ cut \subseteq 0..MaxScans
    /\ heard \in [finished : 0..MaxScans, done : 0..MaxPorts,
              shown : 0..MaxPorts]

\* However the scan ended, no coroutine of it is left when its end is
\* announced: not on the probes and databases of the controller, which it refers
\* to, and, where no exception ended the scan, not on the limiter either, which
\* goes with runScan() (scan_controller.cpp:76-136).
NoneLeftBehind ==
    worker \in {"none", "finish", "clear", "leave", "ended"} => Pending = {}

\* The join in startScan() never makes the UI thread wait for a scan: the
\* worker it joins has nothing left to do but to return.
StartNeverWaits == ui = "join" => worker \in {"none", "leave", "ended"}

\* Every accepted scan is heard to finish, whatever fails in it, unless the
\* controller is destroyed first.
ScanFinishes ==
    \A k \in 1..MaxScans :
        Scan >= k ~> heard.finished >= k \/ ui \in {"dtor", "gone"}

\* startScan() and the destructor return, the latter in the middle of a scan.
CallsReturn == ui \in {"join", "dtor"} ~> ui \in {"idle", "gone"}

\* What scan_controller.hpp:42 says: the options a scan runs with are the ones
\* set before startScan().
OptionsSetBeforeStart ==
    ui = "idle" /\ worker # "none" =>
        /\ \A i \in DOMAIN limiter : limiter[i] = asked.rate
        /\ \A i \in DOMAIN used : used[i] = asked.timeout
===============================================================================
