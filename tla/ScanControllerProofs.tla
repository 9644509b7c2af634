------------------------- MODULE ScanControllerProofs -------------------------
(*****************************************************************************)
(* Safety of ScanController for any number of ports and scans and any        *)
(* settings: types, no coroutine left at the end of a scan, a startScan()    *)
(* that never waits for one, and the refinement of ScanSession.              *)
(*                                                                           *)
(* The refinement rests on what is on its way: the events in the queue lead, *)
(* one legal step of a session after the other, from what has been heard to  *)
(* what the worker thread has posted.                                        *)
(*****************************************************************************)
EXTENDS MCScanController, SequenceTheorems, TLAPS

\* From the launch of the worker thread to its last event.
Busy == Trying \union {"stop", "unwind", "finish"}

\* Where the two threads are, and what they have done by then.
ControlInv ==
    /\ running <=> ui = "join" \/ worker \in Busy \union {"clear"}
    /\ ui = "join" => worker \in {"none", "leave", "ended"}
    /\ ui = "join" \/ worker \in Busy => Scan > 0
    /\ cancel => Scan \in cut
    /\ worker = "open" => limiter = <<>>
    /\ worker = "rate" => Len(limiter) < 3

\* How far the scan at hand is.
CountsInv ==
    /\ worker \in Busy => Len(futs) <= sizes[Scan]
    /\ worker = "port" => Len(futs) < sizes[Scan]
    /\ worker \in {"get", "count"} => done < Len(futs)
    /\ worker \in {"collect", "get", "count"} => Len(futs) = sizes[Scan] \/ Scan \in cut
    /\ worker \in {"stop", "finish"} => done = sizes[Scan] \/ Scan \in cut
    /\ worker = "unwind" => Scan \in cut

Heard == [finished : 0..MaxScans, done : 0..MaxPorts, shown : 0..MaxPorts]

\* An event of a session that has been heard up to s takes it to t.
Leads(s, e, t) ==
    /\ s.finished < Scan
    /\ \/ /\ e.kind = "result"
          /\ s.shown = 0 /\ s.done < sizes[s.finished + 1]
          /\ e.arg = s.done + 1
          /\ t = [finished |-> s.finished, done |-> s.done, shown |-> e.arg]
       \/ /\ e.kind = "progress"
          /\ s.done < sizes[s.finished + 1]
          /\ e.arg = s.done + 1
          /\ t = [finished |-> s.finished, done |-> e.arg, shown |-> 0]
       \/ /\ e.kind = "finished"
          /\ s.done = sizes[s.finished + 1] \/ s.finished + 1 \in cut
          /\ t = [finished |-> s.finished + 1, done |-> 0, shown |-> 0]
       \/ e.kind = "error" /\ t = s

\* What will have been heard when the queue is empty, if the last result posted
\* without its progress is the one of port n, or of none if n is 0: one may be
\* between the two, and where an exception ended the scan there.
Posted(n) ==
    [finished |-> IF ui = "join" \/ worker \in Busy THEN Scan - 1 ELSE Scan,
     done |-> IF worker \in Busy THEN done ELSE 0,
     shown |-> n]

Uncounted ==
    IF worker \in {"count", "unwind", "finish"} /\ done < sizes[Scan]
    THEN {0, done + 1} ELSE {0}

\* From s, the events of q lead to t; h is what has been heard after each.
Runs(h, q, s, t) ==
    /\ h \in [0..Len(q) -> Heard]
    /\ h[0] = s
    /\ \A i \in 1..Len(q) : Leads(h[i - 1], q[i], h[i])
    /\ h[Len(q)] = t

EventsInOrder ==
    ui # "gone" => \E n \in Uncounted : \E h : Runs(h, queue, heard, Posted(n))

ControllerInv ==
    /\ TypeOK
    /\ ControlInv
    /\ CountsInv
    /\ NoneLeftBehind
    /\ EventsInOrder

-------------------------------------------------------------------------------
(* Types and control.                                                        *)

USE BoundsAssumption, SettingsAssumption

\* The worker has nothing to do, no scan has been accepted, nothing is posted.
LEMMA ControllerInit == Init => ControllerInv
<1> SUFFICES ASSUME Init PROVE ControllerInv
    OBVIOUS
<1>1. Scan = 0 /\ Len(queue) = 0 /\ Pending = {}
      BY DEF Init, Scan, Pending
<1>2. TypeOK
  <2>1. /\ sizes \in Seq(0..MaxPorts) /\ limiter \in Seq(Rates \ {0})
        /\ futs \in Seq({"pending", "value", "exception", "abandoned"})
        /\ used \in Seq(Timeouts \ {0})
        /\ queue \in Seq([kind : {"result", "progress", "finished", "error"},
                          arg : 0..MaxPorts])
        /\ Len(limiter) = 0 /\ Len(futs) = 0 /\ Len(used) = 0
        BY DEF Init
  <2>2. heard \in [finished : 0..MaxScans, done : 0..MaxPorts,
                   shown : 0..MaxPorts]
        BY DEF Init
  <2>3. /\ done \in 0..Len(futs) /\ cut \subseteq 0..MaxScans
        /\ asked \in [rate : Rates, timeout : Timeouts]
        BY <2>1 DEF Init
  <2>4. Scan <= MaxScans /\ Len(limiter) <= 3 /\ Len(used) = Len(futs)
        BY <1>1, <2>1
  <2> QED
      BY <2>1, <2>2, <2>3, <2>4 DEF Init, TypeOK
<1>3. ControlInv /\ CountsInv /\ NoneLeftBehind
      BY <1>1 DEF Init, ControlInv, CountsInv, NoneLeftBehind, Busy, Trying
<1>4. EventsInOrder
  <2>1. Runs([i \in 0..0 |-> heard], queue, heard, Posted(0))
        BY <1>1 DEF Init, Runs, Heard, Posted, Busy, Trying
  <2> QED
      BY <2>1 DEF EventsInOrder, Uncounted
<1> QED
    BY <1>2, <1>3, <1>4 DEF ControllerInv

\* While a scan is at hand its size is known, and bounds what is posted of it.
LEMMA SizeType ==
    ASSUME TypeOK, ControlInv, worker \in Busy
    PROVE  Scan \in 1..MaxScans /\ sizes[Scan] \in 0..MaxPorts
BY DEF TypeOK, ControlInv, Scan

LEMMA PendingType == TypeOK => Pending \subseteq DOMAIN futs
BY DEF Pending

\* A coroutine that ends, and the pool's destructor, leave the futures as they
\* are but for what they hold.
LEMMA FutsType ==
    ASSUME TypeOK
    PROVE  /\ \A i \in Pending, o \in {"value", "exception"} :
                  LET f == [futs EXCEPT ![i] = o]
                  IN  /\ f \in Seq({"pending", "value", "exception", "abandoned"})
                      /\ Len(f) = Len(futs)
           /\ Abandoned \in Seq({"pending", "value", "exception", "abandoned"})
           /\ Len(Abandoned) = Len(futs)
           /\ \A i \in DOMAIN Abandoned : Abandoned[i] # "pending"
<1> DEFINE Held == {"pending", "value", "exception", "abandoned"}
<1>1. futs \in Seq(Held)
      BY DEF TypeOK
<1>2. ASSUME NEW i \in Pending, NEW o \in {"value", "exception"}
      PROVE  [futs EXCEPT ![i] = o] \in Seq(Held)
             /\ Len([futs EXCEPT ![i] = o]) = Len(futs)
      BY <1>1, <1>2, ExceptSeq DEF Pending
<1>3. /\ Abandoned \in Seq(Held) /\ Len(Abandoned) = Len(futs)
      /\ \A i \in DOMAIN Abandoned : Abandoned[i] # "pending"
      BY <1>1 DEF Abandoned, Pending
<1> QED
    BY <1>2, <1>3

LEMMA HeardUpdates ==
    ASSUME NEW r \in Heard, NEW n
    PROVE  /\ [r EXCEPT !.done = n, !.shown = 0] =
                  [finished |-> r.finished, done |-> n, shown |-> 0]
           /\ [r EXCEPT !.finished = n, !.done = 0, !.shown = 0] =
                  [finished |-> n, done |-> 0, shown |-> 0]
<1> DEFINE x == [r EXCEPT !.done = n, !.shown = 0]
           y == [r EXCEPT !.finished = n, !.done = 0, !.shown = 0]
<1>1. /\ x \in [finished : 0..MaxScans, done : {n}, shown : {0}]
      /\ x.finished = r.finished /\ x.done = n /\ x.shown = 0
      BY DEF Heard
<1>2. /\ y \in [finished : {n}, done : {0}, shown : {0}]
      /\ y.finished = n /\ y.done = 0 /\ y.shown = 0
      BY DEF Heard
<1> HIDE DEF x, y
<1>3. /\ x = [finished |-> r.finished, done |-> n, shown |-> 0]
      /\ y = [finished |-> n, done |-> 0, shown |-> 0]
      BY <1>1, <1>2
<1> QED
    BY <1>3 DEF x, y

\* The event loop takes the step its next event stands for.
LEMMA DeliverHears ==
    ASSUME heard \in Heard, Deliver, NEW t, Leads(heard, Head(queue), t)
    PROVE  heard' = t
<1>1. heard = [finished |-> heard.finished, done |-> heard.done,
               shown |-> heard.shown]
      BY DEF Heard
<1>2. CASE Head(queue).kind = "result"
      BY <1>1, <1>2 DEF Deliver, Leads
<1>3. CASE Head(queue).kind = "progress"
      BY <1>1, <1>3, HeardUpdates DEF Deliver, Leads
<1>4. CASE Head(queue).kind = "finished"
  <2>1. heard' = [heard EXCEPT !.finished = heard.finished + 1, !.done = 0,
                              !.shown = 0]
        BY <1>4 DEF Deliver
  <2>2. heard' = [finished |-> heard.finished + 1, done |-> 0, shown |-> 0]
        BY <2>1, HeardUpdates
  <2> QED
      BY <1>4, <2>2 DEF Leads
<1>5. CASE Head(queue).kind = "error"
      BY <1>5 DEF Deliver, Leads
<1> QED
    BY <1>2, <1>3, <1>4, <1>5 DEF Leads

\* Types: a scan posts no port it does not have, and no event of a scan that
\* has not been accepted is on its way.
LEMMA TypeStep == ControllerInv /\ [Next]_vars => TypeOK'
<1> SUFFICES ASSUME ControllerInv, [Next]_vars PROVE TypeOK'
    OBVIOUS
<1>0. TypeOK /\ ControlInv /\ CountsInv /\ EventsInOrder
      BY DEF ControllerInv
<1> USE <1>0
<1>s. Scan \in 0..MaxScans
      BY DEF TypeOK, Scan
<1>1. ASSUME NEW n \in 0..MaxPorts, StartScan(n) PROVE TypeOK'
  <2>1. sizes' \in Seq(0..MaxPorts) /\ Len(sizes') = Len(sizes) + 1
        BY <1>1 DEF TypeOK, StartScan
  <2>2. Scan' <= MaxScans /\ asked' \in [rate : Rates, timeout : Timeouts]
        BY <1>1, <2>1 DEF TypeOK, StartScan, Scan
  <2> QED
      BY <1>1, <2>1, <2>2 DEF TypeOK, StartScan, settings, scan
<1>2. ASSUME NEW r \in Rates, SetRate(r) PROVE TypeOK'
      BY <1>2 DEF TypeOK, SetRate, Scan, flags, scan
<1>3. ASSUME NEW t \in Timeouts, SetTimeout(t) PROVE TypeOK'
      BY <1>3 DEF TypeOK, SetTimeout, Scan, flags, scan
<1>4. CASE CancelScan \/ Destroy
      BY <1>4, <1>s DEF TypeOK, CancelScan, Destroy, Scan, settings, scan
<1>5. CASE Launch
  <2>1. /\ limiter' \in Seq(Rates \ {0}) /\ used' \in Seq(Timeouts \ {0})
        /\ futs' \in Seq({"pending", "value", "exception", "abandoned"})
        /\ Len(limiter') = 0 /\ Len(futs') = 0 /\ Len(used') = 0 /\ done' = 0
        BY <1>5 DEF Launch
  <2> QED
      BY <1>5, <2>1 DEF TypeOK, Launch, Scan, flags, settings, Trying
<1>6. CASE Destroyed
  <2>1. queue' \in Seq([kind : {"result", "progress", "finished", "error"},
                        arg : 0..MaxPorts])
        BY <1>6 DEF Destroyed
  <2> QED
      BY <1>6, <2>1 DEF TypeOK, Destroyed, Scan, flags, settings, scan
<1>7. CASE Deliver
  <2>1. PICK n \in Uncounted : \E h : Runs(h, queue, heard, Posted(n))
        BY <1>7 DEF Deliver, EventsInOrder
  <2>h. PICK h : Runs(h, queue, heard, Posted(n))
        BY <2>1
  <2>2. Len(queue) \in Nat \ {0} /\ Head(queue) = queue[1]
        BY <1>7 DEF Deliver, TypeOK
  <2>3. Leads(heard, Head(queue), h[1]) /\ h[1] \in Heard
        BY <2>h, <2>2 DEF Runs
  <2>4. heard' = h[1]
        BY <1>7, <2>3, DeliverHears DEF TypeOK, Heard
  <2>5. queue' \in Seq([kind : {"result", "progress", "finished", "error"},
                        arg : 0..MaxPorts])
        BY <1>7 DEF Deliver, TypeOK
  <2> QED
      BY <1>7, <2>3, <2>4, <2>5
         DEF TypeOK, Deliver, Heard, Scan, flags, settings, scan
<1>8. CASE OpenPool \/ NextPort \/ Spawned \/ NextFuture \/ Collected \/ StopPool
           \/ ClearRunning \/ EndThread
      BY <1>8 DEF TypeOK, OpenPool, NextPort, Spawned, NextFuture, Collected,
                  StopPool, ClearRunning, EndThread, Trying, Scan, flags,
                  settings, scan
<1>9. CASE ReadRate
  <2>1. /\ limiter' \in Seq(Rates \ {0})
        /\ Len(limiter') <= 3
        BY <1>9 DEF ReadRate, TypeOK, ControlInv
  <2> QED
      BY <1>9, <2>1 DEF TypeOK, ReadRate, Scan, flags, settings, Trying
<1>10. CASE SpawnScan
  <2>1. /\ futs' \in Seq({"pending", "value", "exception", "abandoned"})
        /\ used' \in Seq(Timeouts \ {0})
        /\ Len(used') = Len(futs') /\ Len(futs') = Len(futs) + 1
        BY <1>10 DEF SpawnScan, TypeOK
  <2> QED
      BY <1>10, <2>1 DEF TypeOK, SpawnScan, Scan, flags, settings, Trying
<1>11. CASE Collect \/ PostProgress
  <2>1. worker \in Busy /\ done + 1 \in 0..Len(futs) /\ done + 1 \in 0..MaxPorts
    <3>1. worker \in {"get", "count"} /\ worker \in Busy
          BY <1>11 DEF Collect, PostProgress, Busy, Trying
    <3>2. /\ done \in Nat /\ Len(futs) \in Nat /\ done < Len(futs)
          /\ Len(futs) <= sizes[Scan]
          BY <3>1 DEF CountsInv, TypeOK
    <3>3. sizes[Scan] \in 0..MaxPorts
          BY <3>1, SizeType
    <3> QED
        BY <3>1, <3>2, <3>3
  <2> DEFINE Events == [kind : {"result", "progress", "finished", "error"},
                        arg : 0..MaxPorts]
  <2>2. /\ Event("result", done + 1) \in Events
        /\ Event("progress", done + 1) \in Events
        BY <2>1 DEF Event
  <2>3. queue' \in Seq(Events)
    <3>1. queue \in Seq(Events)
          BY DEF TypeOK
    <3> HIDE DEF Events
    <3> QED
        BY <1>11, <2>2, <3>1 DEF Collect, PostProgress
  <2>4. CASE Collect
        BY <2>3, <2>4 DEF TypeOK, Collect, Scan, flags, settings, scan, Trying
  <2>5. CASE PostProgress
        BY <2>1, <2>3, <2>5
           DEF TypeOK, PostProgress, Scan, flags, settings, Trying
  <2> QED
      BY <1>11, <2>4, <2>5
<1>12. CASE Unwind
      BY <1>12, <1>s DEF TypeOK, Unwind, Scan, flags, settings, scan
<1>13. CASE Catch
  <2>1. /\ futs' \in Seq({"pending", "value", "exception", "abandoned"})
        /\ Len(futs') = Len(futs)
        BY <1>13, FutsType DEF Catch
  <2>2. queue' \in Seq([kind : {"result", "progress", "finished", "error"},
                        arg : 0..MaxPorts])
        BY <1>13 DEF Catch, TypeOK, Event
  <2> QED
      BY <1>13, <2>1, <2>2 DEF TypeOK, Catch, Scan, flags, settings
<1>14. CASE PostFinished
  <2>1. queue' \in Seq([kind : {"result", "progress", "finished", "error"},
                        arg : 0..MaxPorts])
        BY <1>14 DEF PostFinished, TypeOK, Event
  <2> QED
      BY <1>14, <2>1 DEF TypeOK, PostFinished, Scan, flags, settings, scan
<1>15. ASSUME NEW i \in 1..MaxPorts, Settle(i) PROVE TypeOK'
  <2>1. /\ futs' \in Seq({"pending", "value", "exception", "abandoned"})
        /\ Len(futs') = Len(futs)
        BY <1>15, FutsType DEF Settle
  <2> QED
      BY <1>15, <2>1 DEF TypeOK, Settle, Scan, flags, settings
<1>16. CASE UNCHANGED vars
      BY <1>16 DEF TypeOK, vars, Scan
<1> QED
    BY <1>1, <1>2, <1>3, <1>4, <1>5, <1>6, <1>7, <1>8, <1>9, <1>10, <1>11,
       <1>12, <1>13, <1>14, <1>15, <1>16 DEF Next, UiCall, UiReturn, RunScan

\* Control: the flag is up from startScan() until the worker has posted its
\* last event, so what a later startScan() joins is a worker about to return.
LEMMA ControlStep == ControllerInv /\ [Next]_vars => ControlInv'
<1> SUFFICES ASSUME ControllerInv, [Next]_vars PROVE ControlInv'
    OBVIOUS
<1>0. TypeOK /\ ControlInv
      BY DEF ControllerInv
<1> USE <1>0 DEF ControlInv, Busy, Trying, Scan
<1>s. Len(sizes) \in Nat
      BY DEF TypeOK
<1>1. ASSUME NEW n \in 0..MaxPorts, StartScan(n) PROVE ControlInv'
  <2>1. Len(sizes') = Len(sizes) + 1
        BY <1>1 DEF TypeOK, StartScan
  <2> QED
      BY <1>1, <1>s, <2>1 DEF StartScan, scan, TypeOK
<1>2. CASE (\E r \in Rates : SetRate(r)) \/ (\E t \in Timeouts : SetTimeout(t))
      BY <1>2 DEF SetRate, SetTimeout, flags, scan
<1>3. CASE CancelScan \/ Destroy
      BY <1>3 DEF CancelScan, Destroy, scan
<1>4. CASE Launch \/ Destroyed
      BY <1>4 DEF Launch, Destroyed, flags, scan
<1>5. CASE Deliver
      BY <1>5 DEF Deliver, flags, scan
<1>6. CASE OpenPool \/ NextPort \/ Spawned \/ NextFuture \/ Collected \/ StopPool
           \/ ClearRunning \/ EndThread
      BY <1>6 DEF OpenPool, NextPort, Spawned, NextFuture, Collected, StopPool,
                  ClearRunning, EndThread, flags, scan
<1>7. CASE ReadRate
  <2>1. Len(limiter') = Len(limiter) + 1 /\ Len(limiter) \in Nat
        BY <1>7 DEF ReadRate, TypeOK
  <2> QED
      BY <1>7, <2>1 DEF ReadRate, flags
<1>8. CASE SpawnScan \/ Collect \/ PostProgress \/ PostFinished \/ Catch
      BY <1>8 DEF SpawnScan, Collect, PostProgress, PostFinished, Catch, flags, scan
<1>9. CASE Unwind
      BY <1>9 DEF Unwind, flags, scan
<1>10. ASSUME NEW i \in 1..MaxPorts, Settle(i) PROVE ControlInv'
      BY <1>10 DEF Settle, flags
<1>11. CASE UNCHANGED vars
      BY <1>11 DEF vars
<1> QED
    BY <1>1, <1>2, <1>3, <1>4, <1>5, <1>6, <1>7, <1>8, <1>9, <1>10, <1>11
       DEF Next, UiCall, UiReturn, RunScan

\* Counts: a scan stops short of its last port only when it has been cut.
LEMMA CountsStep == ControllerInv /\ [Next]_vars => CountsInv'
<1> SUFFICES ASSUME ControllerInv, [Next]_vars PROVE CountsInv'
    OBVIOUS
<1>0. TypeOK /\ ControlInv /\ CountsInv
      BY DEF ControllerInv
<1> USE <1>0 DEF CountsInv, Busy, Trying
<1>s. /\ worker \in Busy => sizes[Scan] \in Nat
      /\ Len(futs) \in Nat /\ done \in 0..Len(futs)
      BY SizeType DEF TypeOK
<1>1. ASSUME NEW n \in 0..MaxPorts, StartScan(n) PROVE CountsInv'
      BY <1>1 DEF StartScan, ControlInv, scan
<1>2. CASE (\E r \in Rates : SetRate(r)) \/ (\E t \in Timeouts : SetTimeout(t))
      BY <1>2 DEF SetRate, SetTimeout, flags, scan, Scan
<1>3. CASE CancelScan \/ Destroy
      BY <1>3 DEF CancelScan, Destroy, scan, Scan
<1>4. CASE Launch
  <2>1. Len(futs') = 0 /\ sizes' = sizes
        BY <1>4 DEF Launch
  <2>2. sizes[Scan] \in 0..MaxPorts
    <3>1. sizes \in Seq(0..MaxPorts) /\ Len(sizes) > 0
          BY <1>4 DEF Launch, TypeOK, ControlInv, Scan
    <3> QED
        BY <3>1 DEF Scan
  <2> QED
      BY <1>4, <2>1, <2>2 DEF Launch, Scan
<1>5. CASE Destroyed \/ Deliver
      BY <1>5 DEF Destroyed, Deliver, flags, scan, Scan
<1>6. CASE OpenPool \/ ReadRate \/ NextPort \/ NextFuture \/ StopPool
           \/ ClearRunning \/ EndThread \/ PostFinished
      BY <1>6, <1>s DEF OpenPool, ReadRate, NextPort, NextFuture, StopPool,
                  ClearRunning, EndThread, PostFinished, flags, scan, Scan
<1>7. CASE SpawnScan
  <2>1. Len(futs') = Len(futs) + 1
        BY <1>7 DEF SpawnScan, TypeOK
  <2> QED
      BY <1>7, <1>s, <2>1 DEF SpawnScan, Scan
<1>8. CASE Spawned \/ Collected
      BY <1>8, <1>s DEF Spawned, Collected, ControlInv, flags, scan, Scan
<1>9. CASE Collect \/ PostProgress
      BY <1>9, <1>s DEF Collect, PostProgress, scan, Scan
<1>10. CASE Unwind
      BY <1>10 DEF Unwind, scan, Scan
<1>11. CASE Catch
  <2>1. Len(futs') = Len(futs)
        BY <1>11, FutsType DEF Catch
  <2> QED
      BY <1>11, <2>1 DEF Catch, Scan
<1>12. ASSUME NEW i \in 1..MaxPorts, Settle(i) PROVE CountsInv'
  <2>1. Len(futs') = Len(futs)
        BY <1>12, FutsType DEF Settle
  <2> QED
      BY <1>12, <2>1 DEF Settle, Scan
<1>13. CASE UNCHANGED vars
      BY <1>13 DEF vars, Scan
<1> QED
    BY <1>1, <1>2, <1>3, <1>4, <1>5, <1>6, <1>7, <1>8, <1>9, <1>10, <1>11,
       <1>12, <1>13 DEF Next, UiCall, UiReturn, RunScan

\* Coroutines: the graceful stop waits for them, the destructor ends them.
LEMMA NoneLeftStep == ControllerInv /\ [Next]_vars => NoneLeftBehind'
<1> SUFFICES ASSUME ControllerInv, [Next]_vars PROVE NoneLeftBehind'
    OBVIOUS
<1>0. TypeOK /\ NoneLeftBehind
      BY DEF ControllerInv
<1> USE <1>0 DEF NoneLeftBehind, Pending
<1>1. CASE UiCall \/ Deliver
      BY <1>1 DEF UiCall, StartScan, SetRate, SetTimeout, CancelScan, Destroy,
                  Deliver, scan
<1>2. CASE UiReturn
      BY <1>2 DEF UiReturn, Launch, Destroyed, scan
<1>3. CASE Catch
      BY <1>3, FutsType DEF Catch
<1>4. CASE OpenPool \/ ReadRate \/ NextPort \/ SpawnScan \/ Spawned \/ NextFuture
           \/ Collect \/ PostProgress \/ Collected \/ StopPool \/ PostFinished
           \/ ClearRunning \/ EndThread \/ Unwind
      BY <1>4 DEF OpenPool, ReadRate, NextPort, SpawnScan, Spawned, NextFuture,
                  Collect, PostProgress, Collected, StopPool, PostFinished,
                  ClearRunning, EndThread, Unwind, scan
<1>5. ASSUME NEW i \in 1..MaxPorts, Settle(i) PROVE NoneLeftBehind'
      BY <1>5, FutsType DEF Settle, TypeOK
<1>6. CASE UNCHANGED vars
      BY <1>6 DEF vars
<1> QED
    BY <1>1, <1>2, <1>3, <1>4, <1>5, <1>6 DEF Next, RunScan

-------------------------------------------------------------------------------
(* What is on its way.                                                       *)

\* A legal step of the session stays one as scans are accepted and cut.
LEMMA LeadsOn ==
    ASSUME TypeOK, NEW s \in Heard, NEW e, NEW t, Leads(s, e, t),
           cut \subseteq cut',
           sizes' = sizes \/ \E n \in 0..MaxPorts : sizes' = Append(sizes, n)
    PROVE  Leads(s, e, t)'
<1>1. /\ Scan \in Nat /\ Scan' \in Nat /\ Scan <= Scan'
      /\ \A i \in 1..Scan : sizes'[i] = sizes[i]
  <2>1. sizes \in Seq(0..MaxPorts)
        BY DEF TypeOK
  <2>2. ASSUME NEW n \in 0..MaxPorts, sizes' = Append(sizes, n)
        PROVE  /\ Len(sizes') = Len(sizes) + 1
               /\ \A i \in 1..Len(sizes) : sizes'[i] = sizes[i]
        BY <2>1, <2>2
  <2> QED
      BY <2>1, <2>2 DEF Scan
<1>2. s.finished + 1 \in 1..Scan /\ s.finished < Scan'
      BY <1>1 DEF Leads, Heard
<1> QED
    BY <1>1, <1>2 DEF Leads

\* What was on its way, with what has been heard or posted since, still is.
LEMMA RunsOn ==
    ASSUME TypeOK, NEW S, NEW h, NEW q \in Seq(S), NEW s, NEW t, Runs(h, q, s, t),
           cut \subseteq cut',
           sizes' = sizes \/ \E n \in 0..MaxPorts : sizes' = Append(sizes, n),
           queue' = q, heard' = s, NEW n \in Uncounted', Posted(n)' = t
    PROVE  EventsInOrder'
<1>1. Len(q) \in Nat
      OBVIOUS
<1>2. ASSUME NEW i \in 1..Len(q) PROVE Leads(h[i - 1], q[i], h[i])'
  <2>1. h[i - 1] \in Heard /\ Leads(h[i - 1], q[i], h[i])
        BY <1>1 DEF Runs
  <2> QED
      BY <2>1, LeadsOn
<1>3. Runs(h, queue, heard, Posted(n))'
      BY <1>2 DEF Runs, Heard
<1> QED
    BY <1>3 DEF EventsInOrder

LEMMA RunGrows ==
    ASSUME NEW S, NEW h, NEW q \in Seq(S), NEW s, NEW t, Runs(h, q, s, t),
           NEW e \in S, NEW u \in Heard, Leads(t, e, u)
    PROVE  \E g : Runs(g, Append(q, e), s, u)
<1> DEFINE g == [i \in 0..(Len(q) + 1) |-> IF i <= Len(q) THEN h[i] ELSE u]
<1>1. /\ Len(q) \in Nat /\ Len(Append(q, e)) = Len(q) + 1
      /\ \A i \in 1..Len(q) : Append(q, e)[i] = q[i]
      /\ Append(q, e)[Len(q) + 1] = e
      OBVIOUS
<1>2. g \in [0..(Len(q) + 1) -> Heard] /\ g[0] = s /\ g[Len(q) + 1] = u
      BY <1>1 DEF Runs
<1>3. ASSUME NEW i \in 1..(Len(q) + 1)
      PROVE  Leads(g[i - 1], Append(q, e)[i], g[i])
  <2>1. CASE i \in 1..Len(q)
    <3>1. g[i - 1] = h[i - 1] /\ g[i] = h[i]
          BY <1>1, <2>1
    <3> QED
        BY <1>1, <2>1, <3>1 DEF Runs
  <2>2. CASE i = Len(q) + 1
    <3>1. g[i - 1] = t /\ g[i] = u
          BY <1>1, <2>2 DEF Runs
    <3> QED
        BY <1>1, <2>2, <3>1
  <2> QED
      BY <1>1, <2>1, <2>2
<1> HIDE DEF g
<1>4. Runs(g, Append(q, e), s, u)
      BY <1>1, <1>2, <1>3 DEF Runs
<1> QED
    BY <1>4

LEMMA RunShrinks ==
    ASSUME NEW S, NEW h, NEW q \in Seq(S), q # <<>>, NEW s, NEW t,
           Runs(h, q, s, t)
    PROVE  /\ Leads(s, Head(q), h[1])
           /\ \E g : Runs(g, Tail(q), h[1], t)
<1> DEFINE g == [i \in 0..(Len(q) - 1) |-> h[i + 1]]
<1>1. /\ Len(q) \in Nat \ {0} /\ Len(Tail(q)) = Len(q) - 1 /\ Head(q) = q[1]
      /\ \A i \in 1..(Len(q) - 1) : Tail(q)[i] = q[i + 1]
      OBVIOUS
<1>2. g \in [0..(Len(q) - 1) -> Heard] /\ g[0] = h[1] /\ g[Len(q) - 1] = t
      BY <1>1 DEF Runs
<1>3. ASSUME NEW i \in 1..(Len(q) - 1)
      PROVE  Leads(g[i - 1], Tail(q)[i], g[i])
  <2>1. g[i - 1] = h[i] /\ g[i] = h[i + 1] /\ i + 1 \in 1..Len(q)
        BY <1>1
  <2>2. Leads(h[(i + 1) - 1], q[i + 1], h[i + 1]) /\ (i + 1) - 1 = i
        BY <2>1 DEF Runs
  <2> QED
      BY <1>1, <2>1, <2>2
<1> HIDE DEF g
<1>4. Runs(g, Tail(q), h[1], t)
      BY <1>1, <1>2, <1>3 DEF Runs
<1>5. Leads(h[1 - 1], q[1], h[1]) /\ 1 - 1 = 0 /\ h[0] = s
      BY <1>1 DEF Runs
<1> QED
    BY <1>1, <1>4, <1>5

\* Posting events and hearing them both move along a legal run of the session.
LEMMA OrderStep == ControllerInv /\ [Next]_vars => EventsInOrder'
<1> SUFFICES ASSUME ControllerInv, [Next]_vars, ui' # "gone"
             PROVE  EventsInOrder'
    BY DEF EventsInOrder
<1>0. TypeOK /\ ControlInv /\ CountsInv /\ EventsInOrder
      BY DEF ControllerInv
<1> USE <1>0
<1> DEFINE Events == [kind : {"result", "progress", "finished", "error"},
                      arg : 0..MaxPorts]
<1>u. ui # "gone"
      BY DEF Next, UiCall, UiReturn, RunScan, StartScan, SetRate, SetTimeout,
             CancelScan, Destroy, Launch, Destroyed, Deliver, OpenPool, ReadRate,
             NextPort, SpawnScan, Spawned, NextFuture, Collect, PostProgress,
             Collected, StopPool, Catch, PostFinished, ClearRunning, EndThread, Unwind,
             Settle, vars
<1>n. PICK n \in Uncounted : \E h : Runs(h, queue, heard, Posted(n))
      BY <1>u DEF EventsInOrder
<1>h. PICK h : Runs(h, queue, heard, Posted(n))
      BY <1>n
<1>t. queue \in Seq(Events) /\ Scan \in 0..MaxScans /\ done \in 0..Len(futs)
      /\ Len(futs) \in Nat /\ heard \in Heard
      BY DEF TypeOK, Scan, Heard
<1>q. ASSUME UNCHANGED <<queue, heard>>, cut \subseteq cut',
             sizes' = sizes \/ \E k \in 0..MaxPorts : sizes' = Append(sizes, k),
             n \in Uncounted', Posted(n)' = Posted(n)
      PROVE  EventsInOrder'
      BY <1>h, <1>t, <1>q, RunsOn
<1>1. ASSUME NEW k \in 0..MaxPorts, StartScan(k) PROVE EventsInOrder'
  <2>1. Len(sizes') = Len(sizes) + 1 /\ Len(sizes) \in Nat
        BY <1>1 DEF TypeOK, StartScan
  <2>2. n \in Uncounted' /\ Posted(n)' = Posted(n)
        BY <1>1, <1>n, <2>1
           DEF StartScan, Uncounted, Posted, ControlInv, Scan, Busy, Trying, scan
  <2> QED
      BY <1>1, <1>q, <2>2 DEF StartScan
<1>2. CASE \/ \E r \in Rates : SetRate(r)
           \/ \E t \in Timeouts : SetTimeout(t)
           \/ CancelScan \/ Destroy
  <2>1. n \in Uncounted' /\ Posted(n)' = Posted(n)
        BY <1>2, <1>n DEF SetRate, SetTimeout, CancelScan, Destroy, Uncounted,
                          Posted, Scan, scan
  <2> QED
      BY <1>2, <1>q, <2>1 DEF SetRate, SetTimeout, CancelScan, Destroy
<1>3. CASE Launch
  <2>1. n \in Uncounted' /\ Posted(n)' = Posted(n)
        BY <1>3, <1>n DEF Launch, Uncounted, Posted, Scan, Busy, Trying
  <2> QED
      BY <1>3, <1>q, <2>1 DEF Launch
<1>4. CASE Deliver
  <2>1. /\ Leads(heard, Head(queue), h[1])
        /\ \E g : Runs(g, Tail(queue), h[1], Posted(n))
        BY <1>4, <1>h, <1>t, RunShrinks DEF Deliver
  <2>2. PICK g : Runs(g, Tail(queue), h[1], Posted(n))
        BY <2>1
  <2>3. heard' = h[1]
        BY <1>4, <1>t, <2>1, DeliverHears
  <2>4. queue' = Tail(queue) /\ Tail(queue) \in Seq(Events)
        BY <1>4, <1>t DEF Deliver
  <2>5. n \in Uncounted' /\ Posted(n)' = Posted(n) /\ UNCHANGED <<sizes, cut>>
        BY <1>4, <1>n DEF Deliver, Uncounted, Posted, Scan, scan
  <2> QED
      BY <2>2, <2>3, <2>4, <2>5, RunsOn
<1>5. CASE \/ OpenPool \/ ReadRate \/ NextPort \/ SpawnScan \/ Spawned
           \/ NextFuture \/ Collected \/ StopPool \/ ClearRunning \/ EndThread
           \/ Unwind
  <2>1. n \in Uncounted' /\ Posted(n)' = Posted(n)
        BY <1>5, <1>n
           DEF OpenPool, ReadRate, NextPort, SpawnScan, Spawned, NextFuture,
               Collected, StopPool, ClearRunning, EndThread, Unwind, Uncounted,
               Posted, Scan, Busy, Trying, scan
  <2> QED
      BY <1>5, <1>q, <2>1
         DEF OpenPool, ReadRate, NextPort, SpawnScan, Spawned, NextFuture,
             Collected, StopPool, ClearRunning, EndThread, Unwind
<1>6. CASE Collect
  <2> DEFINE result == Event("result", done + 1)
  <2>k. PICK k : k = done + 1
        OBVIOUS
  <2>1. /\ worker \in Busy /\ Scan \in 1..MaxScans /\ sizes[Scan] \in 0..MaxPorts
        /\ done < Len(futs) /\ Len(futs) <= sizes[Scan]
        BY <1>6, SizeType DEF Collect, CountsInv, Busy, Trying
  <2>2. /\ n = 0 /\ Posted(n) = [finished |-> Scan - 1, done |-> done, shown |-> 0]
        /\ Posted(n)' = Posted(n) /\ n \in Uncounted'
        /\ Posted(k)' = [finished |-> Scan - 1, done |-> done, shown |-> k]
        /\ k \in Uncounted'
        BY <1>6, <1>n, <1>t, <2>1, <2>k
           DEF Collect, Uncounted, Posted, Scan, Busy, Trying, scan
  <2>3. UNCHANGED <<sizes, cut, heard>>
        BY <1>6 DEF Collect
  <2>4. CASE futs[done + 1] = "value"
    <3>1. result \in Events /\ Posted(k)' \in Heard
          BY <1>t, <2>1, <2>2, <2>k DEF Event, Heard
    <3>2. Leads(Posted(n), result, Posted(k)')
          BY <1>t, <2>1, <2>2, <2>k DEF Leads, Event
    <3>3. queue' = Append(queue, result) /\ queue' \in Seq(Events)
          BY <1>6, <1>t, <2>4, <3>1 DEF Collect
    <3> HIDE DEF result
    <3>4. PICK g : Runs(g, Append(queue, result), heard, Posted(k)')
          BY <1>h, <1>t, <3>1, <3>2, RunGrows
    <3> QED
        BY <2>2, <2>3, <3>3, <3>4, RunsOn
  <2>5. CASE futs[done + 1] # "value"
    <3>1. queue' = queue
          BY <1>6, <2>5 DEF Collect
    <3> QED
        BY <1>q, <2>2, <2>3, <3>1
  <2> QED
      BY <2>4, <2>5
<1>7. CASE PostProgress
  <2> DEFINE progress == Event("progress", done + 1)
  <2>1. /\ worker \in Busy /\ Scan \in 1..MaxScans /\ sizes[Scan] \in 0..MaxPorts
        /\ done < Len(futs) /\ Len(futs) <= sizes[Scan]
        BY <1>7, SizeType DEF PostProgress, CountsInv, Busy, Trying
  <2>2. /\ Posted(n) = [finished |-> Scan - 1, done |-> done, shown |-> n]
        /\ Posted(0)' = [finished |-> Scan - 1, done |-> done + 1, shown |-> 0]
        /\ 0 \in Uncounted'
        BY <1>7, <2>1 DEF PostProgress, Uncounted, Posted, Scan, Busy, Trying
  <2>3. progress \in Events /\ Posted(0)' \in Heard
        BY <1>t, <2>1, <2>2 DEF Event, Heard
  <2>4. Leads(Posted(n), progress, Posted(0)')
        BY <1>t, <2>1, <2>2 DEF Leads, Event
  <2>5. /\ queue' = Append(queue, progress) /\ queue' \in Seq(Events)
        /\ UNCHANGED <<sizes, cut, heard>>
        BY <1>7, <1>t, <2>3 DEF PostProgress
  <2> HIDE DEF progress
  <2>6. PICK g : Runs(g, Append(queue, progress), heard, Posted(0)')
        BY <1>h, <1>t, <2>3, <2>4, RunGrows
  <2> QED
      BY <2>2, <2>5, <2>6, RunsOn
<1>8. CASE PostFinished
  <2>1. /\ worker \in Busy /\ Scan \in 1..MaxScans /\ sizes[Scan] \in 0..MaxPorts
        /\ done = sizes[Scan] \/ Scan \in cut
        BY <1>8, SizeType DEF PostFinished, CountsInv, Busy
  <2>2. /\ Posted(n) = [finished |-> Scan - 1, done |-> done, shown |-> n]
        /\ Posted(0)' = [finished |-> Scan, done |-> 0, shown |-> 0]
        /\ 0 \in Uncounted'
        BY <1>8, <2>1
           DEF PostFinished, ControlInv, Uncounted, Posted, Scan, Busy, Trying
  <2>3. Leads(Posted(n), Event("finished", 0), Posted(0)')
        BY <2>1, <2>2 DEF Leads, Event
  <2>4. Event("finished", 0) \in Events /\ Posted(0)' \in Heard
        BY <2>1, <2>2 DEF Event, Heard
  <2>5. PICK g : Runs(g, Append(queue, Event("finished", 0)), heard, Posted(0)')
        BY <1>h, <1>t, <2>3, <2>4, RunGrows
  <2>6. /\ queue' = Append(queue, Event("finished", 0)) /\ queue' \in Seq(Events)
        /\ UNCHANGED <<sizes, cut, heard>>
        BY <1>8, <1>t, <2>4 DEF PostFinished
  <2> QED
      BY <2>2, <2>5, <2>6, RunsOn
<1>12. CASE Catch
  <2>1. worker \in Busy /\ Scan \in 1..MaxScans /\ sizes[Scan] \in 0..MaxPorts
        BY <1>12, SizeType DEF Catch, Busy
  <2>2. /\ Posted(n) = [finished |-> Scan - 1, done |-> done, shown |-> n]
        /\ Posted(n)' = Posted(n) /\ n \in Uncounted' /\ n \in 0..MaxPorts
        BY <1>12, <1>n, <1>t, <2>1
           DEF Catch, Uncounted, Posted, Scan, Busy, Trying
  <2>3. Leads(Posted(n), Event("error", 0), Posted(n))
        BY <2>1, <2>2 DEF Leads, Event
  <2>4. Event("error", 0) \in Events /\ Posted(n) \in Heard
        BY <1>12, <1>t, <2>1, <2>2 DEF Event, Heard, CountsInv
  <2>5. PICK g : Runs(g, Append(queue, Event("error", 0)), heard, Posted(n))
        BY <1>h, <1>t, <2>3, <2>4, RunGrows
  <2>6. /\ queue' = Append(queue, Event("error", 0)) /\ queue' \in Seq(Events)
        /\ UNCHANGED <<sizes, cut, heard>>
        BY <1>12, <1>t, <2>4 DEF Catch
  <2> QED
      BY <2>2, <2>5, <2>6, RunsOn
<1>9. ASSUME NEW i \in 1..MaxPorts, Settle(i) PROVE EventsInOrder'
  <2>1. n \in Uncounted' /\ Posted(n)' = Posted(n)
        BY <1>9, <1>n DEF Settle, Uncounted, Posted, Scan
  <2> QED
      BY <1>9, <1>q, <2>1 DEF Settle
<1>10. CASE UNCHANGED vars
  <2>1. n \in Uncounted' /\ Posted(n)' = Posted(n)
        BY <1>10, <1>n DEF vars, Uncounted, Posted, Scan
  <2> QED
      BY <1>10, <1>q, <2>1 DEF vars
<1>11. ~Destroyed
      BY DEF Destroyed
<1> QED
    BY <1>1, <1>2, <1>3, <1>4, <1>5, <1>6, <1>7, <1>8, <1>9, <1>10, <1>11,
       <1>12
       DEF Next, UiCall, UiReturn, RunScan

-------------------------------------------------------------------------------
(* The theorems.                                                             *)

\* The inductive invariant of the controller, its bridge and its worker: where
\* the two threads can be, how far the scan is, who is still running, and that
\* the queue leads from what has been heard to what the worker has posted
\* (scan_controller.cpp:55-139, qt_bridge.cpp).
THEOREM ControllerInvariant == Spec => []ControllerInv
<1>1. ControllerInv /\ [Next]_vars => ControllerInv'
      BY TypeStep, ControlStep, CountsStep, NoneLeftStep, OrderStep
         DEF ControllerInv
<1> QED
    BY <1>1, ControllerInit, PTL DEF Spec

\* Every variable keeps its type for any number of ports and scans: no port
\* beyond the scan's is posted, no scan beyond those accepted is heard.
THEOREM ControllerTypes == Spec => []TypeOK
BY ControllerInvariant, PTL DEF ControllerInv

\* No coroutine of a scan is left when its end is announced.
THEOREM NoCoroutineLeft == Spec => []NoneLeftBehind
BY ControllerInvariant, PTL DEF ControllerInv

\* The join in startScan() is with a worker that has nothing left to do.
THEOREM StartsAtOnce == Spec => []StartNeverWaits
<1>1. ControllerInv => StartNeverWaits
      BY DEF ControllerInv, ControlInv, StartNeverWaits
<1> QED
    BY <1>1, ControllerInvariant, PTL

\* An event delivered is a step of the session, or the error of one that says
\* nothing of its progress.
LEMMA DeliverRefines ==
    ASSUME ControllerInv, Deliver
    PROVE  Session!Next \/ UNCHANGED Session!sessionVars
<1>1. TypeOK /\ ui = "idle" /\ ui' = "idle" /\ queue # <<>> /\ UNCHANGED <<sizes, cut>>
      BY DEF ControllerInv, Deliver
<1>2. PICK n \in Uncounted : \E h : Runs(h, queue, heard, Posted(n))
      BY <1>1 DEF ControllerInv, EventsInOrder
<1>h. PICK h : Runs(h, queue, heard, Posted(n))
      BY <1>2
<1>3. Leads(heard, Head(queue), h[1]) /\ heard \in Heard
      BY <1>1, <1>h, RunShrinks DEF TypeOK, Heard
<1>4. Leads(heard, Head(queue), heard')
      BY <1>3, DeliverHears
<1>5. CASE Head(queue).kind = "result"
      BY <1>1, <1>3, <1>4, <1>5
         DEF Leads, Scan, Session!Next, Session!HearResult, Session!Hearing,
             Session!Size
<1>6. CASE Head(queue).kind = "progress"
      BY <1>1, <1>3, <1>4, <1>6
         DEF Leads, Scan, Session!Next, Session!HearProgress, Session!Hearing,
             Session!Size
<1>7. CASE Head(queue).kind = "finished"
      BY <1>1, <1>3, <1>4, <1>7
         DEF Leads, Scan, Session!Next, Session!HearFinished, Session!Hearing,
             Session!Size
<1>8. CASE Head(queue).kind = "error"
      BY <1>1, <1>4, <1>8 DEF Leads, Session!sessionVars
<1> QED
    BY <1>4, <1>5, <1>6, <1>7, <1>8 DEF Leads

\* What the listeners of the controller hear is a ScanSession, for any number
\* of ports and scans: nothing is heard out of order or twice, and a scan that
\* was not cut is heard to its last port before it is heard to finish.
THEOREM ControllerRefinesSession == Spec => IsScanSession
<1>1. Init => Session!Init
      BY DEF Init, Session!Init
<1>2. ControllerInv /\ [Next]_vars => [Session!Next]_(Session!sessionVars)
  <2> SUFFICES ASSUME ControllerInv, [Next]_vars
               PROVE  Session!Next \/ UNCHANGED Session!sessionVars
      OBVIOUS
  <2> USE DEF Session!sessionVars
  <2>1. ASSUME NEW n \in 0..MaxPorts, StartScan(n) PROVE Session!Accept
        BY <2>1 DEF StartScan, Session!Accept
  <2>2. CASE CancelScan
        BY <2>2 DEF CancelScan, Session!Next, Session!Cut, Scan
  <2>3. CASE Unwind
        BY <2>3 DEF Unwind, Session!Next, Session!Cut, Scan
  <2>4. CASE Destroy
        BY <2>4 DEF Destroy, Session!Next, Session!Cut, Scan
  <2>5. CASE Destroyed
        BY <2>5 DEF Destroyed, Session!Next, Session!Close
  <2>6. CASE Deliver
        BY <2>6, DeliverRefines
  <2>7. CASE \/ \E r \in Rates : SetRate(r)
             \/ \E t \in Timeouts : SetTimeout(t)
             \/ Launch \/ OpenPool \/ ReadRate \/ NextPort \/ SpawnScan \/ Spawned
             \/ NextFuture \/ Collect \/ PostProgress \/ Collected \/ StopPool
             \/ Catch \/ PostFinished \/ ClearRunning \/ EndThread
             \/ \E i \in 1..MaxPorts : Settle(i)
        BY <2>7 DEF SetRate, SetTimeout, Launch, OpenPool, ReadRate, NextPort,
                    SpawnScan, Spawned, NextFuture, Collect, PostProgress,
                    Collected, StopPool, Catch, PostFinished, ClearRunning,
                    EndThread, Settle
  <2>8. CASE UNCHANGED vars
        BY <2>8 DEF vars
  <2> QED
      BY <2>1, <2>2, <2>3, <2>4, <2>5, <2>6, <2>7, <2>8
         DEF Next, UiCall, UiReturn, RunScan, Session!Next
<1> QED
    BY <1>1, <1>2, ControllerInvariant, PTL DEF Spec, IsScanSession, Session!Spec
===============================================================================
