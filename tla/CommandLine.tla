----------------------------- MODULE CommandLine ------------------------------
(*****************************************************************************)
(* spscan (src/src/main.cpp): one run of the command line tool, from its     *)
(* arguments to its report.                                                  *)
(*                                                                           *)
(* The scan of a port is a coroutine, the state of its future: module        *)
(* ScanPipeline has its connections and timeouts, here it ends with one of   *)
(* the rows they can give, or with an exception.  The pool is the one of     *)
(* module AsyncPool, whose graceful stop() waits for what is unfinished.     *)
(*****************************************************************************)
EXTENDS CdnLookup, VulnLookup, ProbeRules, TlsFingerprint, Reports

CONSTANTS
    Invocations,  \* command lines, with the contents of the files they name
    Captures,     \* what a regular expression captures of a banner
    Banners,      \* and the rest of it
    TlsServers    \* what TLS servers do: their ServerHellos and session

\* What CLI11 leaves of a command line.
ASSUME InvocationsAssumption ==
    \A given \in Invocations :
        /\ {"parser", "target", "consent", "ports", "top", "rate", "max_rate",
            "cve_db", "epss_db", "cdn_db", "probes_db"} \subseteq DOMAIN given
        /\ given.target \in Address /\ given.consent \in BOOLEAN
        /\ given.ports \in Seq(Seq(Int)) /\ given.top \in Nat
        /\ given.rate \in Int /\ given.max_rate \in Int
        /\ given.cve_db \in Seq(CveItem) /\ given.epss_db \in Seq(EpssLine)
        /\ given.cdn_db \in Seq(CdnRange(STRING))
        /\ given.probes_db \in Seq(Rule)

\* What services say is text: what is captured, the rest of a banner, and what
\* OpenSSL calls a version and a cipher.  A handshake has a ServerHello.
ASSUME ServicesAssumption ==
    /\ Captures \subseteq Text /\ Banners \subseteq Text
    /\ \A server \in TlsServers :
           /\ server.session.version \in Word /\ server.session.suite \in Word
           /\ server.hellos \in Seq(ServerHello) /\ server.hellos # <<>>
           /\ server.session.certificate \in Certificate

MaxPort == 65535

\* A port and a CVSS score are written with digits, which mean nothing to a
\* format.
ASSUME NumbersAssumption ==
    /\ \A n \in 0..MaxPort : PlainWord(ToString(n))
    /\ \A given \in Invocations : \A item \in Range(given.cve_db) :
           PlainWord(ToString(item.cvss))

VARIABLES
    args,     \* the arguments: given, then parsed
    pc,       \* where main() is
    cves,     \* entries of the CVE database
    probes,   \* the probes, TLS last
    ranges,   \* the CDN database
    scores,   \* the EPSS database
    futs,     \* the coroutines: pending, or what they ended with
    collected,  \* how many of them have been collected
    results,  \* the rows they gave
    written,  \* what was given to the report file, and whether it took it
    exit      \* the exit code

databases == <<cves, probes, ranges, scores>>
collection == <<collected, results>>
vars == <<args, pc, databases, futs, collection, written, exit>>

NotGiven == 0     \* --top-ports
Aborted == 134    \* std::terminate()
Running == -1

Goto(from, to) == pc = from /\ pc' = to

Ends(from, code) == Goto(from, "ended") /\ exit' = code

\* A future, and the TLS server that was talked to.
NoPeer == [hellos |-> <<>>]
Pending == [ends |-> "pending", row |-> <<>>, peer |-> NoPeer]
Ended(row, peer) == [ends |-> "value", row |-> row, peer |-> peer]
Thrown == [ends |-> "exception", row |-> <<>>, peer |-> NoPeer]

NotWritten == [text |-> <<>>, taken |-> "nothing"]

Init ==
    /\ args \in {[given EXCEPT !.ports = [spec |-> @, numbers |-> <<>>]] :
                    given \in Invocations}
    /\ pc = "parse" /\ exit = Running
    /\ cves = <<>> /\ probes = <<>> /\ ranges = <<>> /\ scores = {}
    /\ futs = <<>> /\ collected = 0 /\ results = <<>> /\ written = NotWritten

-------------------------------------------------------------------------------
(* main(): the arguments and the scope of the target.                        *)

\* CLI11 refuses the arguments, or has printed the help and calls that 0:
\* main() then ends with 2.
RefuseArguments ==
    /\ args.parser # "parsed"
    /\ Ends("parse", IF args.parser = "help" THEN 2 ELSE 106)
    /\ UNCHANGED <<args, databases, futs, collection, written>>

Ports ==
    IF args.top > 0 THEN top_n_ports(args.top)
    ELSE expand_port_spec(args.ports.spec)

RefusePorts ==
    /\ args.parser = "parsed" /\ Ports = <<>>
    /\ Ends("parse", 2)
    /\ UNCHANGED <<args, databases, futs, collection, written>>

\* A cap below the starting rate is raised to it.
Parse ==
    /\ args.parser = "parsed" /\ Ports # <<>>
    /\ Goto("parse", "scope")
    /\ args' = [args EXCEPT !.ports.numbers = Ports,
                            !.max_rate = IF @ < args.rate THEN args.rate ELSE @]
    /\ UNCHANGED <<databases, futs, collection, written, exit>>

Allowed == check_scope(args.target, args.consent) = "Allowed"

RefuseScope ==
    /\ ~Allowed
    /\ Ends("scope", 3)
    /\ UNCHANGED <<args, databases, futs, collection, written>>

CheckScope ==
    /\ Allowed
    /\ Goto("scope", "load")
    /\ UNCHANGED <<args, databases, futs, collection, written, exit>>

-------------------------------------------------------------------------------
(* run(): the databases.                                                     *)

\* Nobody catches what CveDb::load() throws.
LoadFails ==
    /\ LoadThrows(args.cve_db)
    /\ Ends("load", Aborted)
    /\ UNCHANGED <<args, databases, futs, collection, written>>

\* A database that is not named is an empty one, or the one built in.
Load ==
    /\ ~LoadThrows(args.cve_db)
    /\ Goto("load", "spawn")
    /\ cves' = load_from_string(args.cve_db)
    /\ probes' = default_probes(args.probes_db)
    /\ ranges' = LoadRanges(args.cdn_db)
    /\ scores' = parse_epss(args.epss_db)
    /\ UNCHANGED <<args, futs, collection, written, exit>>

-------------------------------------------------------------------------------
(* run(): the scan.                                                          *)

Host == <<"target">>

Port(i) == args.ports.numbers[i]

Row(i, state, service, version, banner) ==
    [host |-> Host, port |-> Port(i), state |-> state, service |-> service,
     version |-> version, banner |-> banner, ja4s |-> <<>>, ja4x |-> <<>>,
     cdn |-> "", cves |-> <<>>]

\* scan_one() of a port nothing is found out about: not open, not probed, or
\* no probe recognises what is there.
Bare(i) ==
    {Ended(Row(i, state, <<>>, <<>>, <<>>), NoPeer) :
        state \in {"open", "closed", "filtered"}}

\* The CVEs of what was found are looked up at the end of scan_one().
LookedUp(row) ==
    [row EXCEPT !.cves = lookup_cves(cves, row.service, row.version)]

\* What a match makes of a banner.
Identified(i, match, capture, rest) ==
    LET groups == <<Append(capture, "..."), capture>>
    IN  LookedUp(Row(i, "open", apply_template(match.service, groups),
                     apply_template(match.version, groups), capture \o rest))

\* A probe for the port recognises the banner, by any of its matches.
Recognised(i) ==
    LET hinted == {n \in DOMAIN probes : Hinted(probes[n], Port(i))}
        matches == UNION {Range(probes[n].matches) : n \in hinted}
    IN  {Ended(Identified(i, match, capture, rest), NoPeer) :
            match \in matches, capture \in Captures, rest \in Banners}

\* The handshake with a TLS server succeeds.
Handshaken(i) ==
    {LET version == <<server.session.version, "/", server.session.suite>>
         hellos == [n \in DOMAIN server.hellos |-> Encoded(server.hellos[n])]
         prints == fill_fingerprints(hellos, server.session)
         row == [Row(i, "open", <<"tls">>, version, version)
                    EXCEPT !.ja4s = <<prints.ja4s>>, !.ja4x = prints.ja4x]
     IN  Ended(LookedUp(row), server) :
        server \in IF Hinted(TlsProbe, Port(i)) THEN TlsServers ELSE {}}

Found(i) ==
    Bare(i) \union
    IF args.no_probe THEN {} ELSE Recognised(i) \union Handshaken(i)

Spawn ==
    /\ pc = "spawn" /\ Len(futs) < Len(args.ports.numbers)
    /\ futs' = Append(futs, Pending)
    /\ UNCHANGED <<args, pc, databases, collection, written, exit>>

Spawned ==
    /\ Len(futs) = Len(args.ports.numbers)
    /\ Goto("spawn", "collect")
    /\ UNCHANGED <<args, databases, futs, collection, written, exit>>

\* The coroutines end in any order.
Settle(i) ==
    /\ i \in DOMAIN futs /\ futs[i].ends = "pending" /\ pc # "ended"
    /\ \E outcome \in Found(i) \union {Thrown} :
           futs' = [futs EXCEPT ![i] = outcome]
    /\ UNCHANGED <<args, pc, databases, collection, written, exit>>

\* for (auto& f : futs): an exception leaves no row.
Collect ==
    /\ pc = "collect" /\ collected < Len(futs)
    /\ futs[collected + 1].ends # "pending"
    /\ collected' = collected + 1
    /\ LET fut == futs[collected + 1]
           Scored(row) ==
               [row EXCEPT !.cdn = lookup(ranges, args.target),
                           !.cves = [k \in DOMAIN @ |->
                                        Augmented(@[k], scores)]]
       IN  results' = IF fut.ends = "exception" THEN results
                      ELSE Append(results, Scored(fut.row))
    /\ UNCHANGED <<args, pc, databases, futs, written, exit>>

\* pool.stop() has nothing left to wait for.
Collected ==
    /\ collected = Len(futs)
    /\ Goto("collect", "report")
    /\ UNCHANGED <<args, databases, futs, collection, written, exit>>

-------------------------------------------------------------------------------
(* run(): the report.                                                        *)

\* Without a report the open ports are printed.
PrintPorts ==
    /\ args.report = "none"
    /\ Ends("report", 0)
    /\ UNCHANGED <<args, databases, futs, collection, written>>

\* Nobody catches what to_json() throws.
DumpFails ==
    /\ args.report = "json" /\ NotUtf8(results)
    /\ Ends("report", Aborted)
    /\ UNCHANGED <<args, databases, futs, collection, written>>

Body ==
    CASE args.report = "json" -> to_json(results)
      [] args.report = "csv" -> to_csv(results)
      [] args.report = "html" -> to_html(results)

\* write_to_file(): the standard output takes the report.  A file takes it, or
\* is found not to; what is still buffered at that point can be lost when the
\* file is closed, and then nobody is told.
WriteReport ==
    /\ args.report # "none" /\ ~(args.report = "json" /\ NotUtf8(results))
    /\ \E taken \in {"all", "refused", "lost"} :
           /\ taken = "all" \/ args.to_file
           /\ written' = [text |-> Body, taken |-> taken]
           /\ Ends("report", IF taken = "refused" THEN 2 ELSE 0)
    /\ UNCHANGED <<args, databases, futs, collection>>

Next ==
    \/ RefuseArguments \/ RefusePorts \/ Parse \/ RefuseScope \/ CheckScope
    \/ LoadFails \/ Load \/ Spawn \/ Spawned
    \/ \E i \in DOMAIN futs : Settle(i)
    \/ Collect \/ Collected \/ PrintPorts \/ DumpFails \/ WriteReport

Spec == Init /\ [][Next]_vars

-------------------------------------------------------------------------------
(* Properties.                                                               *)

\* A run scans the ports that were asked for and no others, each once and in
\* order, and refuses only specifications that are malformed or empty; it scans
\* what is internal or consented to, with a cap no lower than its rate; and
\* every scan that gave a row is in the results, in the same order, whatever
\* order the scans ended in (args.cpp:33-64,127-138, main.cpp:97-127,173-179).
ScansWhatWasAsked ==
    LET pieces == Range(args.ports.spec)
        Between(piece) ==
            UNION {piece[i]..piece[k] : i, k \in DOMAIN piece}
        malformed == \E piece \in pieces :
                         \/ Len(piece) > 2
                         \/ \E i \in DOMAIN piece :
                                piece[i] < 1 \/ piece[i] > 65535
        asked == UNION {Between(piece) : piece \in pieces}
        numbers == args.ports.numbers
        gave == {i \in 1..collected : futs[i].ends = "value"}
    IN  /\ futs # <<>> =>
               /\ Internal(args.target) \/ args.consent
               /\ args.max_rate >= args.rate
               /\ IF args.top > 0
                  THEN Range(numbers) = {kTopPorts[i] :
                           i \in {k \in DOMAIN kTopPorts : k <= args.top}}
                  ELSE /\ ~malformed /\ Range(numbers) = asked
                       /\ \A i, k \in DOMAIN numbers :
                              i < k => numbers[i] < numbers[k]
        /\ exit = 2 /\ futs = <<>> =>
               args.parser # "parsed" \/ malformed \/ asked = {}
        /\ Len(results) = Cardinality(gave)
        /\ \A i \in gave :
               results[Cardinality({k \in gave : k <= i})].port = numbers[i]

\* Every row is labelled with the provider of the first range that has the
\* target in it, down to a prefix of 0 bits and up to one of 32, and a file
\* without a usable range stands for the ranges built in
\* (cdn_lookup.cpp:106-122,159-168, main.cpp:66-72,115).
CdnLabelled ==
    LET Usable(r) == r.provider # NoProvider /\ r.base.family = 4
                     /\ r.prefix \in 0..32
        file == IF \E r \in Range(args.cdn_db) : Usable(r) THEN args.cdn_db
                ELSE kDefaultDb
        hits == {i \in DOMAIN file : Usable(file[i])
                                     /\ InCidr(args.target, file[i])}
        label == IF hits = {} THEN ""
                 ELSE file[CHOOSE i \in hits : \A k \in hits : i <= k].provider
    IN  \A k \in DOMAIN results : results[k].cdn = label

\* A row has the CVEs of the database whose service is the row's, however the
\* two are spelled, and whose version occurs in the row's: all of them and no
\* others.  Each has the probability of the first line of the EPSS file that
\* gives one for it, or none (cve_lookup.cpp:22-25,67-95, epss_lookup.cpp:54-88,
\* main.cpp:116-122).
FindingsScored ==
    LET Same(a, b) == to_lower(to_upper(a)) = to_lower(to_upper(b))
        Occurs(part, text) == \E i, k \in 0..Len(text) :
                                  i < k /\ part = SubSeq(text, i + 1, k)
        Of(r, item) == /\ item.id # <<>> /\ r.service # <<>>
                       /\ Same(item.service, r.service)
                       /\ Occurs(item.prefix, r.version)
        Naming(id) == {i \in DOMAIN args.epss_db :
                          LET line == args.epss_db[i]
                          IN  /\ looks_like_cve(line)
                              /\ Len(line.fields) >= 3 /\ line.epss # Junk
                              /\ Same(line.fields[1], id)}
        Probability(id) ==
            IF Naming(id) = {} THEN 0
            ELSE args.epss_db[CHOOSE i \in Naming(id) :
                                  \A k \in Naming(id) : i <= k].epss
    IN  \A r \in Range(results) :
            /\ {<<c.cve_id, c.cvss>> : c \in Range(r.cves)}
                 = {<<item.id, item.cvss>> :
                       item \in {item \in Range(args.cve_db) : Of(r, item)}}
            /\ \A c \in Range(r.cves) : c.epss = Probability(c.cve_id)

\* The fingerprint of a TLS server is that of the ServerHello it settled on,
\* not of a HelloRetryRequest before it, and tells all of its extensions but
\* GREASE in their order, how many there are (99 at most) and the version they
\* select; the certificate's gives all OIDs that fit.  Only a row that was found
\* by a handshake has them.  (A ServerHello without extensions is left aside:
\* ja4_server.cpp:77 has no input for it.)  (tls_probe.cpp:43-57,101-135,
\* ja4_server.cpp:74-153.)
FingerprintsOfHandshake ==
    \A i \in DOMAIN futs :
        LET r == futs[i].row
            hellos == futs[i].peer.hellos
            session == futs[i].peer.session
            sent == hellos[Len(hellos)].extensions
            selects == {k \in DOMAIN sent : sent[k][1] = 43}
            shown == Kept(sent, {k \in DOMAIN sent : ~is_grease(sent[k][1])})
            Fitting(oids) ==
                Cardinality({k \in DOMAIN oids : oids[k].length \in 1..127})
        IN  /\ futs[i].ends = "value" /\ hellos = <<>> =>
                   r.ja4s = <<>> /\ r.ja4x = <<>>
            /\ hellos # <<>> =>
                   /\ r.service = <<"tls">> /\ Len(r.ja4s) = 1
                   /\ sent # <<>> =>
                          /\ r.ja4s[1].extensions
                                = [k \in DOMAIN shown |-> shown[k][1]]
                          /\ r.ja4s[1].count
                                = IF Len(shown) > 99 THEN 99 ELSE Len(shown)
                          /\ r.ja4s[1].version
                                = IF selects = {} THEN "12" ELSE "13"
                          /\ r.ja4s[1].cipher = session.cipher
                   /\ [n \in 1..3 |-> Len(r.ja4x[n])]
                        = <<Fitting(session.certificate.issuer),
                            Fitting(session.certificate.subject),
                            Fitting(session.certificate.extensions)>>

\* When a run ends well and its report was taken, whoever reads the report gets
\* a record for every row, whatever the services said of themselves: their
\* texts as they were and the CVE with the highest CVSS, or none when no CVE
\* has one above 0 (writers.cpp:26-54,92-149, main.cpp:149-160).
ReportFaithful ==
    LET Tells(cells, r) ==
            /\ SubSeq(cells, 1, 5)
                 = <<r.host, <<ToString(r.port)>>, <<r.state>>, r.service,
                     r.version>>
            /\ \/ /\ cells[6] = <<>> /\ cells[7] = <<ToString(0)>>
                  /\ \A c \in Range(r.cves) : c.cvss <= 0
               \/ \E c \in Range(r.cves) :
                      /\ cells[6] = c.cve_id /\ cells[7] = <<ToString(c.cvss)>>
                      /\ \A d \in Range(r.cves) : d.cvss <= c.cvss
        Table(rows) ==
            /\ Len(rows) = Len(results) + 1
            /\ \A k \in DOMAIN results : Tells(rows[k + 1], results[k])
    IN  exit = 0 /\ written.taken = "all" =>
            /\ args.report = "csv" => Table(ReadCsv(written.text))
            /\ args.report = "html" => Table(ReadHtml(written.text))
            /\ args.report = "json" =>
                   /\ DOMAIN written.text = DOMAIN results
                   /\ \A k \in DOMAIN results :
                          written.text[k].banner = results[k].banner

\* What writers.hpp:3 says: the same results are output in several formats.
\* Whatever has been collected can be reported as JSON.
OutputAsJson ==
    args.report = "json" /\ futs # <<>> /\ collected = Len(futs) =>
        exit # Aborted
===============================================================================
