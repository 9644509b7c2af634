----------------------------- MODULE MCCommandLine -----------------------------
(* Command lines, files and services for TLC.                                *)
EXTENDS CommandLine

LOCAL Item(service, prefix, id, cvss) ==
    [service |-> <<service>>, prefix |-> prefix, id |-> id, cvss |-> cvss,
     typed |-> TRUE]

\* Two CVEs of one version and one of another, under services spelled in two
\* ways, and an item without an identifier.
LOCAL MCCves ==
    <<Item("SSH", <<"7.4">>, <<"CVE", "-1">>, 53),
      Item("ssh", <<"OpenSSH_", "7.4">>, <<"Cve", "-2">>, 98),
      Item("ssh", <<"9.5">>, <<"CVE", "-3">>, 59),
      Item("ssh", <<"7.4">>, <<>>, 100)>>

LOCAL Line(fields, epss, percentile) ==
    [fields |-> fields, epss |-> epss, percentile |-> percentile]

\* A comment, the header, a line without a number, and two of one CVE.
LOCAL MCEpss ==
    <<Line(<<<<"#model">>>>, Junk, Junk),
      Line(<<<<"cve">>, <<"epss">>, <<"percentile">>>>, Junk, Junk),
      Line(<<<<"CVE", "-1">>, <<"?">>, <<"0.5">>>>, Junk, 50000),
      Line(<<<<"cve", "-2">>, <<"0.9">>, <<"?">>>>, 90000, Junk),
      Line(<<<<"CVE", "-1">>, <<"0.2">>, <<"0.6">>>>, 20000, 60000),
      Line(<<<<"CVE", "-1">>, <<"0.3">>, <<"0.7">>>>, 30000, 70000)>>

LOCAL Range4(base, prefix, provider) ==
    [base |-> base, prefix |-> prefix, provider |-> provider]

\* Ranges that cannot be used, one at each end of the prefixes, and one between.
LOCAL MCCdn ==
    <<Range4(NoAddress, 8, "none"), Range4(Loopback, 33, "none"),
      Range4(Loopback, Junk, "none"), Range4(Loopback, 32, NoProvider),
      Range4(V4(127, 0, 0, 2), 32, "one"),
      Range4(V4(127, 128, 0, 9), 9, "half"),
      Range4(V4(10, 0, 0, 0), 0, "all")>>

\* A rule with ports out of range, which is for all then, and templates with
\* text and a group that is not there; and rules that are none.
LOCAL MCMatch == [valid |-> TRUE, service |-> <<"SSH">>,
                  version |-> <<"v", "$1", "$9">>]
LOCAL MCProbe == [name |-> "any", ports |-> <<0, 65536, Junk>>, send |-> "hex",
                  matches |-> <<[MCMatch EXCEPT !.valid = FALSE], MCMatch>>]
LOCAL MCProbes ==
    <<[MCProbe EXCEPT !.send = "bad hex"], [MCProbe EXCEPT !.name = ""],
      MCProbe, [MCProbe EXCEPT !.matches = <<>>]>>

MCCaptures == {<<"OpenSSH_", "7.4", "p1">>, <<"a", ",", Quote, "<", "&">>}
MCBanners == {<<"0xff">>, <<"\r", "\n">>}

LOCAL Session(cipher, alpn) ==
    [version |-> "TLS", suite |-> "suite", cipher |-> cipher, alpn |-> alpn,
     certificate |-> [issuer |-> <<[oid |-> "CN", length |-> 7]>>,
                      subject |-> <<[oid |-> "O", length |-> 8],
                                    [oid |-> "long", length |-> 130],
                                    [oid |-> "CN", length |-> 7]>>,
                      extensions |-> <<>>]]

LOCAL Hello(sid, extensions) ==
    [legacy |-> 771, sid |-> sid, cipher |-> 4865, extensions |-> extensions]

\* TLS 1.3 after a HelloRetryRequest, TLS 1.2 with a protocol selected, and TLS
\* 1.2 without extensions.
MCTlsServers ==
    {[hellos |-> <<Hello(32, <<<<43, <<3, 4>>>>, <<44, <<0, 1, 9>>>>,
                               <<51, <<0, 29>>>>>>),
                   Hello(32, <<<<51, <<0, 29, 0, 1, 5>>>>,
                               <<43, <<3, 4>>>>>>)>>,
      session |-> Session(4865, <<"h", "2">>)],
     [hellos |-> <<Hello(0, <<<<65281, <<0>>>>, <<2570, <<43>>>>,
                             <<23, <<>>>>>>)>>,
      session |-> Session(49199, <<>>)],
     [hellos |-> <<Hello(0, <<>>)>>, session |-> Session(47, <<>>)]}

LOCAL Given ==
    [parser |-> "parsed", target |-> Loopback, consent |-> FALSE,
     ports |-> <<<<22>>>>, top |-> 0, rate |-> 200, max_rate |-> 100,
     report |-> "none", to_file |-> FALSE, cve_db |-> <<>>, probes_db |-> <<>>,
     cdn_db |-> <<>>, epss_db |-> <<>>, no_probe |-> FALSE]

LOCAL Refused ==
    {[Given EXCEPT !.parser = "help"], [Given EXCEPT !.parser = "error"],
     [Given EXCEPT !.ports = <<<<22>>, <<80, 90, 100>>>>],
     [Given EXCEPT !.ports = <<<<0, 1>>>>],
     [Given EXCEPT !.ports = <<<<>>>>],
     [Given EXCEPT !.target = NoAddress],
     [Given EXCEPT !.target = V4(1, 1, 1, 1)],
     [Given EXCEPT !.cve_db = <<[MCCves[1] EXCEPT !.typed = FALSE]>>]}

LOCAL Scans ==
    {\* Ranges either way round, overlapping, up to the last port.
     [Given EXCEPT !.ports = <<<<65535, 65534>>, <<>>, <<65534>>>>,
                   !.no_probe = TRUE, !.cdn_db = MCCdn],
     [Given EXCEPT !.top = 3, !.no_probe = TRUE, !.report = "csv"],
     \* Outside, behind a CDN of the ranges built in.
     [Given EXCEPT !.target = V4(172, 71, 255, 1), !.consent = TRUE,
                   !.no_probe = TRUE, !.report = "html", !.to_file = TRUE],
     [Given EXCEPT !.target = V6(253, 0, 1), !.cdn_db = MCCdn],
     [Given EXCEPT !.target = V4(127, 0, 0, 2), !.cdn_db = MCCdn],
     [Given EXCEPT !.ports = <<<<443>>, <<8443>>>>, !.report = "json"],
     [Given EXCEPT !.ports = <<<<8443, 8442>>, <<443>>>>, !.report = "csv"],
     [Given EXCEPT !.ports = <<<<3306>>>>, !.report = "json"]}
    \union
    {[Given EXCEPT !.ports = <<<<22>>, <<80>>>>, !.cve_db = MCCves,
                   !.epss_db = MCEpss, !.report = format, !.to_file = TRUE] :
        format \in {"none", "json", "csv", "html"}}
    \union
    {[Given EXCEPT !.ports = <<<<9>>>>, !.probes_db = MCProbes,
                   !.cve_db = MCCves, !.epss_db = MCEpss, !.report = format] :
        format \in {"csv", "html"}}

MCInvocations == Refused \union Scans

MCBinary == {[Given EXCEPT !.ports = <<<<3306>>>>, !.report = "json"]}
===============================================================================
