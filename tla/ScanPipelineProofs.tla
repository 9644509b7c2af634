-------------------------- MODULE ScanPipelineProofs --------------------------
(*****************************************************************************)
(* Safety of ScanPipeline for any list of probes and any size of banners and *)
(* handshakes: types, connections that are closed, probes that have one each *)
(* to themselves, and the number of timeouts a scan can cost.                *)
(*****************************************************************************)
EXTENDS ScanPipeline, FiniteSetTheorems, TLAPS

USE BoundsAssumption

LEMMA ListLength == Len(Probes) \in Nat
BY ProbesAssumption

\* Where the connect scan is not over, where a probe has been begun, and where
\* it may still run into a timeout.
Scanning == {"acquire", "race"}
Exchange == {"write", "read", "handshake", "tls_write", "tls_read"}
Begun == Exchange \union {"match", "matched", "unmatched", "reconnect"}

\* The connect scan: nothing is reported before it is over, and only a timer
\* that has won costs a timeout.
ScanInv ==
    /\ pc \in Scanning => state = "unknown" /\ reports = <<>> /\ probe = 1
    /\ pc \in Scanning => expired = IF winner = "timer" THEN 1 ELSE 0
    /\ pc \notin Scanning => state # "unknown"
    /\ pc \notin Scanning \union {"returned"} => state = "Open"
    /\ state # "Open" => expired <= 1

\* The connections: which of them is open where.
ConnInv ==
    /\ firstOpen => pc = "race"
    /\ sockOpen => pc \in (Begun \ {"reconnect"}) \union {"select"}
    /\ pc = "select" => sockOpen
    /\ pc \in {"acquire", "race", "resolve", "connect", "select", "reconnect"} =>
           ~used

\* The probe that has been begun, and what it has read.
ProbeInv ==
    /\ pc \in Begun => probe <= Len(Probes) /\ Probes[probe].hinted
    /\ pc \in {"write", "read"} => banner < BannerCap
    /\ pc \in {"tls_write", "tls_read"} => flights < MaxFlights

\* The probes for this port among the first p.
Hinted(p) == {i \in 1..Len(Probes) : Probes[i].hinted /\ i <= p}

\* A probe has cost its timeout, if any, when it is through with the peer.
Through ==
    IF pc \in Exchange \union {"resolve", "connect", "select"} THEN probe - 1
    ELSE probe
BudgetInv == state = "Open" => expired <= Cardinality(Hinted(Through))

PipelineInv == TypeOK /\ ScanInv /\ ConnInv /\ ProbeInv /\ BudgetInv

-------------------------------------------------------------------------------
LEMMA PipelineInit == Init => PipelineInv
<1> SUFFICES ASSUME Init PROVE PipelineInv
    OBVIOUS
<1>1. reports \in Seq(BOOLEAN) /\ Len(reports) = 0
      BY DEF Init
<1>2. TypeOK
  <2>1. /\ probe \in 1..(Len(Probes) + 1) /\ service \in 0..Len(Probes)
        /\ banner \in 0..BannerCap /\ flights \in 0..MaxFlights
        BY ListLength DEF Init
  <2>2. /\ pc \in Pcs /\ attempt = "none" /\ winner = "none"
        /\ state = "unknown" /\ expired \in Nat
        BY DEF Init, Pcs
  <2>3. /\ withProbes \in BOOLEAN /\ withCves \in BOOLEAN
        /\ firstOpen \in BOOLEAN /\ sockOpen \in BOOLEAN /\ used \in BOOLEAN
        /\ version \in BOOLEAN /\ cves \in BOOLEAN
        BY DEF Init
  <2> QED
      BY <1>1, <2>1, <2>2, <2>3 DEF TypeOK
<1>3. ScanInv /\ ConnInv /\ ProbeInv /\ BudgetInv
      BY DEF Init, ScanInv, ConnInv, ProbeInv, BudgetInv, Scanning, Begun,
             Exchange
<1> QED
    BY <1>2, <1>3 DEF PipelineInv

\* Types: one report a scan, no banner above its cap, no probe past the list.
LEMMA TypeStep == PipelineInv /\ [Next]_vars => TypeOK'
<1> SUFFICES ASSUME PipelineInv, [Next]_vars PROVE TypeOK'
    OBVIOUS
<1>0. TypeOK /\ ScanInv /\ ProbeInv
      BY DEF PipelineInv
<1> USE <1>0, ListLength DEF TypeOK, Pcs, Goto
<1>1. CASE ConnectScan
  <2>1. CASE Acquired
        BY <2>1 DEF Acquired, config, conn, talk, result
  <2>2. CASE ConnectTimeout
        BY <2>2 DEF ConnectTimeout, config, conn, talk, result
  <2>3. CASE ConnectScanned
    <3>1. /\ state' \in {"Open", "Closed", "Filtered"} /\ pc' \in Pcs
          /\ reports' \in Seq(BOOLEAN) /\ Len(reports') = 1
          BY <2>3 DEF ConnectScanned, PortState, ScanInv, Scanning
    <3>2. Len(reports') <= 1
          BY <3>1
    <3> QED
        BY <2>3, <3>1, <3>2 DEF ConnectScanned, config, conn, talk, result
  <2>4. ASSUME NEW ok \in BOOLEAN, Resolved(ok) PROVE TypeOK'
        BY <2>4 DEF Resolved, First, config, conn, talk, result
  <2>5. ASSUME NEW ok \in BOOLEAN, Connected(ok) PROVE TypeOK'
        BY <2>5 DEF Connected, config, conn, talk, result
  <2> QED
      BY <1>1, <2>1, <2>2, <2>3, <2>4, <2>5 DEF ConnectScan
<1>2. CASE ProbeLoop
  <2>1. CASE SkipProbe
        BY <2>1 DEF SkipProbe, Exhausted, config, race, conn, talk, result
  <2>7. CASE NoProbeLeft
    <3>1. pc' \in Pcs /\ sockOpen' \in BOOLEAN
          BY <2>7 DEF NoProbeLeft
    <3>2. UNCHANGED <<config, race, state, reports, used, probe, talk, result,
                      expired>>
          BY <2>7 DEF NoProbeLeft
    <3> QED
        BY <3>1, <3>2 DEF config, race, talk, result
  <2>5. CASE BeginProbe
        BY <2>5 DEF BeginProbe, config, race, conn, talk, result
  <2>2. CASE Matched
    <3>1. pc' \in Pcs /\ sockOpen' \in BOOLEAN
          BY <2>2 DEF Matched
    <3>2. UNCHANGED <<config, race, state, reports, used, probe, talk, result,
                      expired>>
          BY <2>2 DEF Matched
    <3> QED
        BY <3>1, <3>2 DEF config, race, talk, result
  <2>8. CASE Unmatched
    <3>1. pc' \in Pcs /\ sockOpen' \in BOOLEAN /\ used' \in BOOLEAN
          BY <2>8 DEF Unmatched
    <3>2. UNCHANGED <<config, race, state, reports, probe, talk, result, expired>>
          BY <2>8 DEF Unmatched
    <3> QED
        BY <3>1, <3>2 DEF config, race, talk, result
  <2>6. CASE Lookup
    <3>1. cves' \in BOOLEAN
          BY <2>6 DEF Lookup
    <3> QED
        BY <2>6, <3>1 DEF Lookup, config, race, conn, talk
  <2>3. ASSUME NEW ok \in BOOLEAN, Resolve2(ok) \/ Connect2(ok) PROVE TypeOK'
        BY <2>3 DEF Resolve2, Connect2, config, race, conn, talk, result
  <2>4. ASSUME NEW ok \in BOOLEAN, Reconnect(ok) PROVE TypeOK'
        BY <2>4 DEF Reconnect, ProbeInv, Begun, config, race, conn, talk, result
  <2> QED
      BY <1>2, <2>1, <2>2, <2>3, <2>4, <2>5, <2>6, <2>7, <2>8
         DEF ProbeLoop
<1>3. CASE Identify
  <2>1. CASE WriteTimeout \/ ReadTimeout \/ TlsWriteTimeout
        BY <2>1 DEF WriteTimeout, ReadTimeout, AfterRead, TlsWriteTimeout, config,
                    race, conn, talk, result
  <2>2. CASE ReadEnd \/ NoRuleMatches
        BY <2>2 DEF ReadEnd, AfterRead, NoRuleMatches, config, race, conn, talk,
                    result
  <2>7. CASE MatchThrows
    <3>1. pc' \in Pcs /\ sockOpen' \in BOOLEAN
          BY <2>7 DEF MatchThrows
    <3>2. UNCHANGED <<config, race, state, reports, used, probe, talk, result,
                      expired>>
          BY <2>7 DEF MatchThrows
    <3> QED
        BY <3>1, <3>2 DEF config, race, talk, result
  <2>6. CASE HandshakeFails \/ HandshakeWants
        BY <2>6 DEF HandshakeFails, HandshakeWants, config, race, conn, talk,
                    result
  <2>3. CASE HandshakeDone
        BY <2>3 DEF HandshakeDone, ProbeInv, Begun, Exchange, config, race, conn,
                    talk
  <2>4. ASSUME NEW ok \in BOOLEAN, Written(ok) \/ TlsWritten(ok) PROVE TypeOK'
        BY <2>4 DEF Written, TlsWritten, config, race, conn, talk, result
  <2>5. ASSUME NEW ok \in BOOLEAN, RuleMatches(ok) PROVE TypeOK'
        BY <2>5 DEF RuleMatches, ProbeInv, Begun, config, race, conn, talk
  <2> QED
      BY <1>3, <2>1, <2>2, <2>3, <2>4, <2>5, <2>6, <2>7 DEF Identify
<1>4. CASE ReadSome \/ Peer
      BY <1>4 DEF ReadSome, Peer, TlsRead, TlsReadEnd, ProbeInv, config, race,
                  conn, talk, result
<1>5. CASE UNCHANGED vars
      BY <1>5 DEF vars
<1> QED
    BY <1>1, <1>2, <1>3, <1>4, <1>5 DEF Next

\* The connect scan: a port whose timer has won is not open.
LEMMA ScanStep == PipelineInv /\ [Next]_vars => ScanInv'
<1> SUFFICES ASSUME PipelineInv, [Next]_vars PROVE ScanInv'
    OBVIOUS
<1>0. TypeOK /\ ScanInv
      BY DEF PipelineInv
<1> USE <1>0 DEF TypeOK, ScanInv, Scanning, Goto
<1>1. CASE ConnectScan
      BY <1>1 DEF ConnectScan, Acquired, ConnectTimeout, ConnectScanned, PortState,
                  Resolved, Connected, First, config, race, conn, talk, result
<1>2. CASE ProbeLoop
      BY <1>2 DEF ProbeLoop, SkipProbe, BeginProbe, NoProbeLeft, Matched, Unmatched,
                  Lookup, Resolve2, Connect2, Reconnect, config, race, conn, talk,
                  result
<1>3. CASE Identify
      BY <1>3 DEF Identify, WriteTimeout, ReadEnd, ReadTimeout, AfterRead,
                  NoRuleMatches, MatchThrows, HandshakeDone, HandshakeFails,
                  HandshakeWants, TlsWriteTimeout, Written, TlsWritten,
                  RuleMatches, config, race, conn, talk, result
<1>4. CASE ReadSome \/ Peer
      BY <1>4 DEF ReadSome, Peer, TlsRead, TlsReadEnd, config, race, conn, talk,
                  result
<1>5. CASE UNCHANGED vars
      BY <1>5 DEF vars
<1> QED
    BY <1>1, <1>2, <1>3, <1>4, <1>5 DEF Next

\* The connections: every way out of the connect scan closes the first one,
\* every way out of a probe the second.
LEMMA ConnStep == PipelineInv /\ [Next]_vars => ConnInv'
<1> SUFFICES ASSUME PipelineInv, [Next]_vars PROVE ConnInv'
    OBVIOUS
<1>0. TypeOK /\ ConnInv
      BY DEF PipelineInv
<1> USE <1>0 DEF TypeOK, ConnInv, Begun, Exchange, Goto
<1>1. CASE ConnectScan
      BY <1>1 DEF ConnectScan, Acquired, ConnectTimeout, ConnectScanned, PortState,
                  Resolved, Connected, First, config, race, conn, talk, result
<1>2. CASE ProbeLoop
      BY <1>2 DEF ProbeLoop, SkipProbe, BeginProbe, NoProbeLeft, Matched, Unmatched,
                  Lookup, Resolve2, Connect2, Reconnect, config, race, conn, talk,
                  result
<1>3. CASE Identify
      BY <1>3 DEF Identify, WriteTimeout, ReadEnd, ReadTimeout, AfterRead,
                  NoRuleMatches, MatchThrows, HandshakeDone, HandshakeFails,
                  HandshakeWants, TlsWriteTimeout, Written, TlsWritten,
                  RuleMatches, config, race, conn, talk, result
<1>4. CASE ReadSome \/ Peer
      BY <1>4 DEF ReadSome, Peer, TlsRead, TlsReadEnd, config, race, conn, talk,
                  result
<1>5. CASE UNCHANGED vars
      BY <1>5 DEF vars
<1> QED
    BY <1>1, <1>2, <1>3, <1>4, <1>5 DEF Next

\* The probe: none is begun past the end of the list or for other ports.
LEMMA ProbeStep == PipelineInv /\ [Next]_vars => ProbeInv'
<1> SUFFICES ASSUME PipelineInv, [Next]_vars PROVE ProbeInv'
    OBVIOUS
<1>0. TypeOK /\ ProbeInv
      BY DEF PipelineInv
<1> USE <1>0, ListLength DEF TypeOK, ProbeInv, Begun, Exchange, Goto
<1>1. CASE ConnectScan
      BY <1>1 DEF ConnectScan, Acquired, ConnectTimeout, ConnectScanned, PortState,
                  Resolved, Connected, First, config, race, conn, talk, result
<1>2. CASE ProbeLoop
      BY <1>2 DEF ProbeLoop, SkipProbe, BeginProbe, NoProbeLeft, Matched, Unmatched,
                  Lookup, Resolve2, Connect2, Reconnect, Exhausted, config, race,
                  conn, talk, result
<1>3. CASE Identify
  <2>1. CASE WriteTimeout \/ ReadEnd \/ ReadTimeout \/ NoRuleMatches \/ MatchThrows
        BY <2>1 DEF WriteTimeout, ReadEnd, ReadTimeout, AfterRead, NoRuleMatches,
                    MatchThrows, config, race, conn, talk, result
  <2>2. CASE HandshakeDone \/ HandshakeFails \/ HandshakeWants \/ TlsWriteTimeout
        BY <2>2 DEF HandshakeDone, HandshakeFails, HandshakeWants,
                    TlsWriteTimeout, config, race, conn, talk, result
  <2>3. ASSUME NEW ok \in BOOLEAN, Written(ok) PROVE ProbeInv'
        BY <2>3 DEF Written, config, race, conn, talk, result
  <2>4. ASSUME NEW ok \in BOOLEAN, TlsWritten(ok) PROVE ProbeInv'
        BY <2>4 DEF TlsWritten, config, race, conn, talk, result
  <2>5. ASSUME NEW ok \in BOOLEAN, RuleMatches(ok) PROVE ProbeInv'
        BY <2>5 DEF RuleMatches, config, race, conn, talk
  <2> QED
      BY <1>3, <2>1, <2>2, <2>3, <2>4, <2>5 DEF Identify
<1>4. CASE ReadSome \/ Peer
      BY <1>4 DEF ReadSome, Peer, TlsRead, TlsReadEnd, config, race, conn, talk,
                  result
<1>5. CASE UNCHANGED vars
      BY <1>5 DEF vars
<1> QED
    BY <1>1, <1>2, <1>3, <1>4, <1>5 DEF Next

-------------------------------------------------------------------------------
(* Timeouts.                                                                 *)

\* One probe more counts once if it is for this port, else not at all.
LEMMA ProbeCounts ==
    ASSUME NEW p \in Nat
    PROVE  /\ IsFiniteSet(Hinted(p)) /\ Cardinality(Hinted(p)) \in Nat
           /\ p \in 1..Len(Probes) => Cardinality(Hinted(p)) =
                  Cardinality(Hinted(p - 1)) + IF Probes[p].hinted THEN 1 ELSE 0
           /\ p > 0 => Cardinality(Hinted(p - 1)) <= Cardinality(Hinted(p))
<1>1. IsFiniteSet(1..Len(Probes))
      BY ListLength, FS_Interval
<1>2. \A q : Hinted(q) \subseteq 1..Len(Probes)
      BY DEF Hinted
<1>3. \A q : IsFiniteSet(Hinted(q))
      BY <1>1, <1>2, FS_Subset
<1>4. ASSUME p \in 1..Len(Probes), Probes[p].hinted
      PROVE  Cardinality(Hinted(p)) = Cardinality(Hinted(p - 1)) + 1
  <2>1. Hinted(p) = Hinted(p - 1) \union {p} /\ p \notin Hinted(p - 1)
        BY <1>4, ListLength DEF Hinted
  <2> QED
      BY <1>3, <2>1, FS_AddElement
<1>5. ASSUME p \in 1..Len(Probes), ~Probes[p].hinted
      PROVE  Hinted(p) = Hinted(p - 1)
      BY <1>5, ListLength DEF Hinted
<1>6. ASSUME p > 0 PROVE Hinted(p - 1) \subseteq Hinted(p)
      BY <1>6, ListLength DEF Hinted
<1> QED
    BY <1>3, <1>4, <1>5, <1>6, FS_CardinalityType, FS_Subset

\* The budget: an expired timer ends the exchange it was started for.
LEMMA BudgetStep == PipelineInv /\ [Next]_vars => BudgetInv'
<1> SUFFICES ASSUME PipelineInv, [Next]_vars PROVE BudgetInv'
    OBVIOUS
<1>0. TypeOK /\ ScanInv /\ ProbeInv /\ BudgetInv
      BY DEF PipelineInv
<1> DEFINE Price(p) == Cardinality(Hinted(p))
<1>c. /\ probe \in 1..(Len(Probes) + 1) /\ expired \in Nat
      /\ Price(probe - 1) \in Nat /\ Price(probe) \in Nat
      /\ Price(probe + 1) \in Nat
      /\ Price(probe - 1) <= Price(probe) /\ Price(probe) <= Price(probe + 1)
      /\ probe <= Len(Probes) =>
             Price(probe) = Price(probe - 1) + IF Probes[probe].hinted THEN 1 ELSE 0
  <2>1. /\ probe \in 1..(Len(Probes) + 1) /\ expired \in Nat
        /\ probe \in Nat \ {0} /\ probe - 1 \in Nat /\ probe + 1 \in Nat \ {0}
        /\ (probe + 1) - 1 = probe
        BY <1>0, ListLength DEF TypeOK
  <2>2. /\ Price(probe - 1) \in Nat /\ Price(probe) \in Nat
        /\ Price(probe + 1) \in Nat
        BY <2>1, ProbeCounts
  <2>3. Price(probe - 1) <= Price(probe)
        BY <2>1, ProbeCounts
  <2>4. Price((probe + 1) - 1) <= Price(probe + 1)
        BY <2>1, ProbeCounts
  <2>5. probe \in 1..Len(Probes) =>
            Price(probe) = Price(probe - 1) + IF Probes[probe].hinted THEN 1 ELSE 0
        BY <2>1, ProbeCounts
  <2> HIDE DEF Price
  <2> QED
      BY <2>1, <2>2, <2>3, <2>4, <2>5, ListLength
<1>b. state = "Open" => expired <= Price(Through)
      BY <1>0 DEF BudgetInv
<1> HIDE DEF Price
<1> SUFFICES ASSUME state' = "Open" PROVE expired' <= Price(Through')
    BY DEF BudgetInv, Price
<1> USE <1>0, <1>c, <1>b DEF Through, Exchange, Goto
<1>1. CASE ConnectScan
  <2>1. CASE ConnectScanned
        BY <2>1 DEF ConnectScanned, PortState, ScanInv, Scanning
  <2>2. CASE \/ Acquired \/ ConnectTimeout
             \/ \E ok \in BOOLEAN : Resolved(ok) \/ Connected(ok)
        BY <2>2 DEF Acquired, ConnectTimeout, Resolved, Connected, ScanInv, Scanning
  <2> QED
      BY <1>1, <2>1, <2>2 DEF ConnectScan
<1>2. CASE ProbeLoop
  <2>1. CASE SkipProbe
        BY <2>1 DEF SkipProbe, Exhausted
  <2>2. CASE BeginProbe
        BY <2>2 DEF BeginProbe
  <2>3. CASE NoProbeLeft \/ Matched \/ Unmatched \/ Lookup
        BY <2>3 DEF NoProbeLeft, Matched, Unmatched, Lookup
  <2>4. ASSUME NEW ok \in BOOLEAN, Resolve2(ok) \/ Connect2(ok)
        PROVE  expired' <= Price(Through')
        BY <2>4 DEF Resolve2, Connect2
  <2>5. ASSUME NEW ok \in BOOLEAN, Reconnect(ok)
        PROVE  expired' <= Price(Through')
        BY <2>5 DEF Reconnect
  <2> QED
      BY <1>2, <2>1, <2>2, <2>3, <2>4, <2>5 DEF ProbeLoop
<1>3. CASE Identify
  <2>1. CASE WriteTimeout \/ ReadTimeout \/ TlsWriteTimeout
        BY <2>1, SMTT(30)
           DEF WriteTimeout, ReadTimeout, AfterRead, TlsWriteTimeout, ProbeInv,
                    Begun
  <2>2. CASE ReadEnd \/ NoRuleMatches \/ MatchThrows
        BY <2>2 DEF ReadEnd, AfterRead, NoRuleMatches, MatchThrows
  <2>3. CASE HandshakeDone \/ HandshakeFails \/ HandshakeWants
        BY <2>3 DEF HandshakeDone, HandshakeFails, HandshakeWants
  <2>4. ASSUME NEW ok \in BOOLEAN, Written(ok) \/ TlsWritten(ok) \/ RuleMatches(ok)
        PROVE  expired' <= Price(Through')
        BY <2>4 DEF Written, TlsWritten, RuleMatches
  <2> QED
      BY <1>3, <2>1, <2>2, <2>3, <2>4 DEF Identify
<1>4. CASE ReadSome \/ Peer
      BY <1>4 DEF ReadSome, Peer, TlsRead, TlsReadEnd
<1>5. CASE UNCHANGED vars
      BY <1>5 DEF vars
<1> QED
    BY <1>1, <1>2, <1>3, <1>4, <1>5 DEF Next

-------------------------------------------------------------------------------
(* The theorems.                                                             *)

\* The inductive invariant of scan_one(): how the connect scan ended, which
\* connection is open where, which probe has been begun, and what it has cost
\* (scanner.cpp:44-80, scan_pipeline.cpp:27-90).
THEOREM PipelineInvariant == Spec => []PipelineInv
<1>1. PipelineInv /\ [Next]_vars => PipelineInv'
      BY TypeStep, ScanStep, ConnStep, ProbeStep, BudgetStep DEF PipelineInv
<1> QED
    BY <1>1, PipelineInit, PTL DEF Spec

\* Every variable keeps its type for any probes: a scan reports once at most,
\* and no banner outgrows its cap.
THEOREM PipelineTypes == Spec => []TypeOK
BY PipelineInvariant, PTL DEF PipelineInv

\* A scan holds one connection at a time, and none when it is over, also when
\* the timer and the connection, or a probe and an exception, come together.
THEOREM PipelineCloses == Spec => []ConnectionsClosed
<1>1. PipelineInv => ConnectionsClosed
      BY DEF PipelineInv, ConnInv, ConnectionsClosed, Over, Begun, Exchange
<1> QED
    BY <1>1, PipelineInvariant, PTL

\* Every probe starts on a connection of its own.
THEOREM PipelineSeparates == Spec => []ProbesDoNotMix
<1>1. PipelineInv => ProbesDoNotMix
      BY DEF PipelineInv, ConnInv, ProbesDoNotMix
<1> QED
    BY <1>1, PipelineInvariant, PTL

\* For any list of probes, a scan costs one timeout for a port that does not
\* answer, and for an open one no more than it begins probes.
THEOREM PipelinePrice == Spec => []TimeoutBudget
<1>1. ASSUME PipelineInv PROVE TimeoutBudget
  <2> DEFINE begun == {i \in 1..Len(Probes) :
                          /\ Probes[i].hinted
                          /\ i < probe \/ (i = probe /\ pc # "select")}
  <2>1. TypeOK /\ ScanInv /\ BudgetInv /\ probe \in Nat \ {0} /\ expired \in Nat
        BY <1>1, ListLength DEF PipelineInv, TypeOK
  <2>2. begun = Hinted(IF pc = "select" THEN probe - 1 ELSE probe)
        BY <2>1, ListLength DEF Hinted
  <2>3. /\ Cardinality(Hinted(probe - 1)) <= Cardinality(Hinted(probe))
        /\ Cardinality(Hinted(probe)) \in Nat
        /\ Cardinality(Hinted(probe - 1)) \in Nat
        BY <2>1, ProbeCounts
  <2>4. state = "Open" => expired <= Cardinality(begun)
    <3> HIDE DEF begun
    <3> QED
        BY <2>1, <2>2, <2>3 DEF BudgetInv, Through, Exchange
  <2>5. state # "Open" => expired <= 1
        BY <2>1 DEF ScanInv
  <2> QED
      BY <2>4, <2>5 DEF TimeoutBudget
<1> QED
    BY <1>1, PipelineInvariant, PTL
===============================================================================
