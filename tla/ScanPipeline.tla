----------------------------- MODULE ScanPipeline -----------------------------
(*****************************************************************************)
(* sps::scan::scan_one (src/src/scan/scan_pipeline.cpp) for one target port: *)
(* a token from the limiter, the connect scan (core/scanner.cpp), a second   *)
(* connection, the probes with their reads and writes (probes/banner_io.cpp, *)
(* probes/probe_engine.cpp, probes/tls_probe.cpp), the CVE lookup.           *)
(*                                                                           *)
(* The coroutine is one process; resolver, kernel, timers and the peer are   *)
(* the environment, and every co_await ends in every way it can.  connect,   *)
(* banner reads and writes race a timer; the loser is cancelled, and the     *)
(* race is over only when both operations have completed: a resolver cannot  *)
(* be cancelled and is waited for.  The second connection and the reads of   *)
(* the TLS handshake race no timer.                                          *)
(*****************************************************************************)
EXTENDS Naturals, Sequences, FiniteSets

CONSTANTS
    Probes,      \* the probe list: [tls, hinted, sends], as for this port
    BannerCap,   \* kMaxBannerBytes, in reads
    MaxFlights   \* bound: messages a TLS handshake takes from the peer

ASSUME ProbesAssumption ==
    Probes \in Seq([tls : BOOLEAN, hinted : BOOLEAN, sends : BOOLEAN])
ASSUME BoundsAssumption == BannerCap \in Nat \ {0} /\ MaxFlights \in Nat \ {0}

VARIABLES
    withProbes,  \* probes != nullptr
    withCves,    \* cves && !cves->empty()
    pc,          \* where the coroutine is
    attempt,     \* the connect operation of connect_scan()
    winner,      \* which operation of its race completed first
    firstOpen,   \* its socket is connected
    state,       \* base.state
    reports,     \* calls of limiter.on_response(): one entry each, was_loss
    sockOpen,    \* scan_one()'s own socket is connected
    used,        \* a probe has talked on it
    probe,       \* index of the current probe
    banner,      \* reads appended to its banner
    flights,     \* messages its TLS handshake took from the peer
    service,     \* index of the probe that matched, 0 for none
    version,     \* it matched with a version
    cves,        \* base.cves was looked up
    expired      \* timers that expired

vars == <<withProbes, withCves, pc, attempt, winner, firstOpen, state, reports,
          sockOpen, used, probe, banner, flights, service, version, cves,
          expired>>
config == <<withProbes, withCves>>
race == <<attempt, winner, firstOpen>>
conn == <<sockOpen, used>>
talk == <<banner, flights>>
result == <<service, version, cves>>

Pcs == {"acquire", "race", "resolve", "connect", "select", "write", "read",
        "match", "handshake", "tls_write", "tls_read", "matched", "unmatched",
        "reconnect", "lookup", "returned", "failed"}

Init ==
    /\ withProbes \in BOOLEAN /\ withCves \in BOOLEAN
    /\ pc = "acquire"
    /\ attempt = "none" /\ winner = "none" /\ firstOpen = FALSE
    /\ state = "unknown" /\ reports = <<>>
    /\ sockOpen = FALSE /\ used = FALSE
    /\ probe = 1 /\ banner = 0 /\ flights = 0
    /\ service = 0 /\ version = FALSE /\ cves = FALSE
    /\ expired = 0

Goto(from, to) == pc = from /\ pc' = to

-------------------------------------------------------------------------------
(* The token and the connect scan.                                           *)

\* co_await limiter.acquire(); both operations of the race are started.
Acquired ==
    /\ Goto("acquire", "race")
    /\ attempt' = "resolving"
    /\ UNCHANGED <<config, winner, firstOpen, state, reports, conn, probe, talk,
                   result, expired>>

First(who) == IF winner = "none" THEN who ELSE winner

\* The resolver answers.  A connect that has lost by then goes no further.
Resolved(ok) ==
    /\ pc = "race" /\ attempt = "resolving"
    /\ IF ok /\ winner = "none"
       THEN attempt' = "connecting" /\ UNCHANGED winner
       ELSE attempt' = "failed" /\ winner' = First("connect")
    /\ UNCHANGED <<config, pc, firstOpen, state, reports, conn, probe, talk,
                   result, expired>>

\* The kernel answers before the timer.
Connected(ok) ==
    /\ pc = "race" /\ attempt = "connecting" /\ winner = "none"
    /\ attempt' = IF ok THEN "ok" ELSE "failed"
    /\ firstOpen' = ok
    /\ winner' = "connect"
    /\ UNCHANGED <<config, pc, state, reports, conn, probe, talk, result,
                   expired>>

\* The timer expires first: the connect is cancelled, or completes too late
\* to count.  A resolver goes on.
ConnectTimeout ==
    /\ pc = "race" /\ winner = "none"
    /\ winner' = "timer"
    /\ IF attempt = "connecting"
       THEN \E late \in BOOLEAN :
               /\ attempt' = IF late THEN "ok" ELSE "failed"
               /\ firstOpen' = late
       ELSE UNCHANGED <<attempt, firstOpen>>
    /\ expired' = expired + 1
    /\ UNCHANGED <<config, pc, state, reports, conn, probe, talk, result>>

PortState ==
    IF winner = "timer" THEN "Filtered"
    ELSE IF attempt = "ok" THEN "Open" ELSE "Closed"

\* Mutant: the connected socket is kept.
ConnectScannedOpen ==
    /\ pc = "race" /\ winner # "none" /\ attempt \in {"ok", "failed"}
    /\ state' = PortState
    /\ reports' = Append(reports, state' = "Filtered")
    /\ pc' = IF state' = "Open" /\ withProbes THEN "resolve" ELSE "returned"
    /\ UNCHANGED <<config, race, conn, probe, talk, result, expired>>

\* connect_scan() returns and scan_one() reports to the limiter: the first
\* socket is closed whoever won.
ConnectScanned ==
    /\ pc = "race" /\ winner # "none" /\ attempt \in {"ok", "failed"}
    /\ state' = PortState
    /\ firstOpen' = FALSE
    /\ reports' = Append(reports, state' = "Filtered")
    /\ pc' = IF state' = "Open" /\ withProbes THEN "resolve" ELSE "returned"
    /\ UNCHANGED <<config, attempt, winner, conn, probe, talk, result, expired>>

-------------------------------------------------------------------------------
(* The second connection and the choice of probes.                           *)

Resolve2(ok) ==
    /\ Goto("resolve", IF ok THEN "connect" ELSE "returned")
    /\ UNCHANGED <<config, race, state, reports, conn, probe, talk, result,
                   expired>>

Connect2(ok) ==
    /\ Goto("connect", IF ok THEN "select" ELSE "returned")
    /\ sockOpen' = ok
    /\ UNCHANGED <<config, race, state, reports, used, probe, talk, result,
                   expired>>

Exhausted == probe > Len(Probes)

\* A probe for other ports is passed over.
SkipProbe ==
    /\ pc = "select" /\ ~Exhausted /\ ~Probes[probe].hinted
    /\ probe' = probe + 1
    /\ UNCHANGED <<config, pc, race, state, reports, conn, talk, result, expired>>

BeginProbe ==
    /\ pc = "select" /\ ~Exhausted /\ Probes[probe].hinted
    /\ pc' = IF Probes[probe].tls THEN "handshake"
             ELSE IF Probes[probe].sends THEN "write" ELSE "read"
    /\ used' = TRUE
    /\ banner' = 0 /\ flights' = 0
    /\ UNCHANGED <<config, race, state, reports, sockOpen, probe, result,
                   expired>>

NoProbeLeft ==
    /\ Exhausted /\ Goto("select", "lookup")
    /\ sockOpen' = FALSE
    /\ UNCHANGED <<config, race, state, reports, used, probe, talk, result,
                   expired>>

-------------------------------------------------------------------------------
(* JsonProbe::identify: write_all, read_until_quiet, the regular expressions *)

Written(ok) ==
    /\ Goto("write", IF ok THEN "read" ELSE "unmatched")
    /\ UNCHANGED <<config, race, state, reports, conn, probe, talk, result,
                   expired>>

WriteTimeout ==
    /\ Goto("write", "unmatched")
    /\ expired' = expired + 1
    /\ UNCHANGED <<config, race, state, reports, conn, probe, talk, result>>

\* Mutant: a full banner does not end the read.
ReadSomeUncapped ==
    /\ pc = "read"
    /\ banner' = banner + 1
    /\ pc' = "read"
    /\ UNCHANGED <<config, race, state, reports, conn, probe, flights, result,
                   expired>>

\* Bytes arrive; a full banner ends the read.
ReadSome ==
    /\ pc = "read"
    /\ banner' = banner + 1
    /\ pc' = IF banner' = BannerCap THEN "match" ELSE "read"
    /\ UNCHANGED <<config, race, state, reports, conn, probe, flights, result,
                   expired>>

AfterRead == IF banner > 0 THEN "match" ELSE "unmatched"

\* The peer closes or the read fails.
ReadEnd ==
    /\ Goto("read", AfterRead)
    /\ UNCHANGED <<config, race, state, reports, conn, probe, talk, result,
                   expired>>

\* Mutant: the timer of a silent peer is started again.
ReadTimeoutRetries ==
    /\ Goto("read", IF banner > 0 THEN "match" ELSE "read")
    /\ expired < 9
    /\ expired' = expired + 1
    /\ UNCHANGED <<config, race, state, reports, conn, probe, talk, result>>

ReadTimeout ==
    /\ Goto("read", AfterRead)
    /\ expired' = expired + 1
    /\ UNCHANGED <<config, race, state, reports, conn, probe, talk, result>>

\* One of the rules matches, with or without a version ...
RuleMatches(v) ==
    /\ Goto("match", "matched")
    /\ service' = probe /\ version' = v
    /\ UNCHANGED <<config, race, state, reports, conn, probe, talk, cves,
                   expired>>

\* ... or none does ...
NoRuleMatches ==
    /\ Goto("match", "unmatched")
    /\ UNCHANGED <<config, race, state, reports, conn, probe, talk, result,
                   expired>>

\* ... or regex_search throws, and the future of scan_one() with it.
MatchThrows ==
    /\ Goto("match", "failed")
    /\ sockOpen' = FALSE
    /\ UNCHANGED <<config, race, state, reports, used, probe, talk, result,
                   expired>>

-------------------------------------------------------------------------------
(* TlsProbe::identify: drive_handshake                                       *)

\* SSL_do_handshake() has what it needs ...
HandshakeDone ==
    /\ flights > 0
    /\ Goto("handshake", "matched")
    /\ service' = probe /\ version' = TRUE
    /\ UNCHANGED <<config, race, state, reports, conn, probe, talk, cves,
                   expired>>

\* ... or fails with nothing left to send ...
HandshakeFails ==
    /\ flights > 0
    /\ Goto("handshake", "unmatched")
    /\ UNCHANGED <<config, race, state, reports, conn, probe, talk, result,
                   expired>>

\* ... or has bytes to send, or wants to read.
HandshakeWants ==
    /\ flights < MaxFlights
    /\ \E pending \in {"tls_write", "tls_read"} :
           /\ flights = 0 => pending = "tls_write"
           /\ Goto("handshake", pending)
    /\ UNCHANGED <<config, race, state, reports, conn, probe, talk, result,
                   expired>>

\* The bytes are sent and the handshake wants to read; or they cannot be sent,
\* or were the alert of a handshake that has failed.
TlsWritten(ok) ==
    /\ Goto("tls_write", IF ok THEN "tls_read" ELSE "unmatched")
    /\ UNCHANGED <<config, race, state, reports, conn, probe, talk, result,
                   expired>>

TlsWriteTimeout ==
    /\ Goto("tls_write", "unmatched")
    /\ expired' = expired + 1
    /\ UNCHANGED <<config, race, state, reports, conn, probe, talk, result>>

\* The peer's next message; no timer runs while it is waited for.
TlsRead ==
    /\ Goto("tls_read", "handshake")
    /\ flights' = flights + 1
    /\ UNCHANGED <<config, race, state, reports, conn, probe, banner, result,
                   expired>>

TlsReadEnd ==
    /\ Goto("tls_read", "unmatched")
    /\ UNCHANGED <<config, race, state, reports, conn, probe, talk, result,
                   expired>>

-------------------------------------------------------------------------------
(* After a probe.                                                            *)

\* base.service is filled in; break; sock.close()
Matched ==
    /\ Goto("matched", "lookup")
    /\ sockOpen' = FALSE
    /\ UNCHANGED <<config, race, state, reports, used, probe, talk, result,
                   expired>>

\* Mutant: the next probe goes on with the old connection.
UnmatchedReuses ==
    /\ Goto("unmatched", "select")
    /\ probe' = probe + 1
    /\ UNCHANGED <<config, race, state, reports, conn, talk, result, expired>>

\* sock.close(); sock = socket(exec)
Unmatched ==
    /\ Goto("unmatched", "reconnect")
    /\ sockOpen' = FALSE /\ used' = FALSE
    /\ UNCHANGED <<config, race, state, reports, probe, talk, result, expired>>

\* Mutant: the same probe is tried again on the new connection.
ReconnectRepeats(ok) ==
    /\ Goto("reconnect", IF ok THEN "select" ELSE "lookup")
    /\ sockOpen' = ok
    /\ UNCHANGED <<config, race, state, reports, used, probe, talk, result,
                   expired>>

\* A connection for the next probe, also after the last one.
Reconnect(ok) ==
    /\ Goto("reconnect", IF ok THEN "select" ELSE "lookup")
    /\ sockOpen' = ok
    /\ probe' = IF ok THEN probe + 1 ELSE probe
    /\ UNCHANGED <<config, race, state, reports, used, talk, result, expired>>

\* The CVE lookup needs a database, a service and a version; co_return base.
Lookup ==
    /\ Goto("lookup", "returned")
    /\ cves' = (withCves /\ service # 0 /\ version)
    /\ UNCHANGED <<config, race, state, reports, conn, probe, talk, service,
                   version, expired>>

Over == pc \in {"returned", "failed"}

ConnectScan ==
    \/ Acquired \/ ConnectTimeout \/ ConnectScanned
    \/ \E ok \in BOOLEAN : Resolved(ok) \/ Connected(ok)

ProbeLoop ==
    \/ SkipProbe \/ BeginProbe \/ NoProbeLeft \/ Matched \/ Unmatched \/ Lookup
    \/ \E ok \in BOOLEAN : Resolve2(ok) \/ Connect2(ok) \/ Reconnect(ok)

Identify ==
    \/ WriteTimeout \/ ReadEnd \/ ReadTimeout \/ NoRuleMatches
    \/ MatchThrows \/ HandshakeDone \/ HandshakeFails \/ HandshakeWants
    \/ TlsWriteTimeout
    \/ \E ok \in BOOLEAN : Written(ok) \/ TlsWritten(ok) \/ RuleMatches(ok)

Peer == TlsRead \/ TlsReadEnd

Next == ConnectScan \/ ProbeLoop \/ Identify \/ ReadSome \/ Peer

Spec == Init /\ [][Next]_vars

\* The coroutine runs, timers expire, and resolver and kernel answer every
\* request sooner or later.  Nothing is asked of the peer.
FairSpec == Spec /\ WF_vars(ConnectScan) /\ WF_vars(ProbeLoop) /\ WF_vars(Identify)

\* With a peer that answers a TLS client or closes the connection.
FairPeerSpec == FairSpec /\ WF_vars(Peer)

-------------------------------------------------------------------------------
(* Properties.                                                               *)

TypeOK ==
    /\ withProbes \in BOOLEAN /\ withCves \in BOOLEAN
    /\ pc \in Pcs
    /\ attempt \in {"none", "resolving", "connecting", "ok", "failed"}
    /\ winner \in {"none", "connect", "timer"}
    /\ firstOpen \in BOOLEAN
    /\ state \in {"unknown", "Open", "Closed", "Filtered"}
    /\ reports \in Seq(BOOLEAN) /\ Len(reports) <= 1
    /\ sockOpen \in BOOLEAN /\ used \in BOOLEAN
    /\ probe \in 1..(Len(Probes) + 1)
    /\ banner \in 0..BannerCap /\ flights \in 0..MaxFlights
    /\ service \in 0..Len(Probes) /\ version \in BOOLEAN /\ cves \in BOOLEAN
    /\ expired \in Nat

\* A scan never holds two connections to its target, and none once it is over,
\* however it ends: a port that times out while its connection completes, a
\* probe that throws, a peer that refuses the next connection.
ConnectionsClosed ==
    /\ ~(firstOpen /\ sockOpen)
    /\ Over => ~firstOpen /\ ~sockOpen

\* A probe starts on a connection no other probe has written to or read from.
ProbesDoNotMix == pc = "select" /\ ~Exhausted => sockOpen /\ ~used

\* The price of a scan in timeouts: one for a port that does not answer, and
\* for an open port one at most for every probe begun on it, whatever was
\* written and read, and none for the connections in between.
TimeoutBudget ==
    LET begun == {i \in 1..Len(Probes) :
                     /\ Probes[i].hinted
                     /\ i < probe \/ (i = probe /\ pc # "select")}
    IN  expired <= IF state = "Open" THEN Cardinality(begun) ELSE 1

\* Every scan comes to an end, so the futures the collector waits for are set:
\* no connection, probe or handshake can hold a scan for ever.
ScanEnds == <>Over
===============================================================================
