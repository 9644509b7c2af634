----------------------------- MODULE ScanSession ------------------------------
(*****************************************************************************)
(* What the listeners of a ScanController are promised: the signals          *)
(* resultReady, progressChanged and scanFinished as they reach the UI        *)
(* thread, for every scan startScan() has accepted.                          *)
(*                                                                           *)
(* Scans are heard one after the other and in the order they were accepted.  *)
(* Within a scan the ports are heard in their order: perhaps a result, then  *)
(* the progress that counts it.  A scan finishes once, after the progress of *)
(* its last port unless it was cut short.  Nothing is heard of a controller  *)
(* that is gone.                                                             *)
(*****************************************************************************)
EXTENDS Naturals, Sequences

CONSTANT MaxPorts

VARIABLES
    accepted,   \* sizes of the scans accepted so far, in order
    cut,        \* the scans cancelled or ended by an exception
    finished,   \* scans whose scanFinished has been heard
    done,       \* last progress heard of the next one
    shown,      \* the port whose result was heard after that, or 0
    closed      \* the controller is gone

sessionVars == <<accepted, cut, finished, done, shown, closed>>

Init ==
    /\ accepted = <<>> /\ cut = {}
    /\ finished = 0 /\ done = 0 /\ shown = 0 /\ closed = FALSE

Accept ==
    /\ ~closed
    /\ \E n \in 0..MaxPorts : accepted' = Append(accepted, n)
    /\ UNCHANGED <<cut, finished, done, shown, closed>>

\* Any accepted scan may be cut, but only while it is the last one.
Cut ==
    /\ cut' = cut \union {Len(accepted)}
    /\ UNCHANGED <<accepted, finished, done, shown, closed>>

Hearing == ~closed /\ finished < Len(accepted)
Size == accepted[finished + 1]

HearResult ==
    /\ Hearing /\ shown = 0 /\ done < Size
    /\ shown' = done + 1
    /\ UNCHANGED <<accepted, cut, finished, done, closed>>

HearProgress ==
    /\ Hearing /\ done < Size
    /\ done' = done + 1
    /\ shown' = 0
    /\ UNCHANGED <<accepted, cut, finished, closed>>

HearFinished ==
    /\ Hearing
    /\ done = Size \/ finished + 1 \in cut
    /\ finished' = finished + 1
    /\ done' = 0 /\ shown' = 0
    /\ UNCHANGED <<accepted, cut, closed>>

Close ==
    /\ closed' = TRUE
    /\ UNCHANGED <<accepted, cut, finished, done, shown>>

Next == Accept \/ Cut \/ HearResult \/ HearProgress \/ HearFinished \/ Close

Spec == Init /\ [][Next]_sessionVars
===============================================================================
