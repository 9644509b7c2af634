--------------------------- MODULE MCScanController ---------------------------
(* The controller's events as its listeners hear them, as a ScanSession.     *)
EXTENDS ScanController

Session == INSTANCE ScanSession WITH
    accepted <- sizes, cut <- cut, finished <- heard.finished,
    done <- heard.done, shown <- heard.shown, closed <- (ui = "gone")

\* Listeners hear a ScanSession: complete and in order whatever the threads
\* interleave, scan after scan, and short only where it was cancelled or an
\* exception ended it (scan_controller.cpp:94-137, qt_bridge.cpp:16-35).
IsScanSession == Session!Spec
===============================================================================
