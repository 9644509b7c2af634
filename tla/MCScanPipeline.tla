---------------------------- MODULE MCScanPipeline ----------------------------
(* One port and the shapes of probe that differ for it: a probe for other    *)
(* ports, one that sends before it reads, one that only listens, and the TLS *)
(* probe, which registry.cpp puts last.                                      *)
EXTENDS ScanPipeline

MCProbes == << [tls |-> FALSE, hinted |-> FALSE, sends |-> TRUE],
               [tls |-> FALSE, hinted |-> TRUE,  sends |-> TRUE],
               [tls |-> FALSE, hinted |-> TRUE,  sends |-> FALSE],
               [tls |-> TRUE,  hinted |-> TRUE,  sends |-> TRUE] >>
===============================================================================
