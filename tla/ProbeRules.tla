------------------------------ MODULE ProbeRules -------------------------------
(*****************************************************************************)
(* sps::probes::ProbeDatabase and default_probes() (src/src/probes/          *)
(* probe_engine.cpp and registry.cpp): the rules of the probes, from a file  *)
(* or the ones built in.  A rule of a file has a name ("" when it is no      *)
(* string), ports (Junk when they are no positive numbers), what it sends    *)
(* ("bad hex" has an odd length or other characters) and matches (none when  *)
(* there is no such list).  A match has a regular expression that is valid   *)
(* or not and templates, which are texts with the words "$0".."$9".          *)
(*****************************************************************************)
EXTENDS PortSpec, ScanResult, SequencesExt

Match == [valid : BOOLEAN, service : Text, version : Text]
Rule == [name : STRING, ports : Seq(Int), send : STRING, matches : Seq(Match)]

MatchOf(service, version) ==
    [valid |-> TRUE, service |-> <<service>>, version |-> version]

NoRequest == ""  \* the service speaks first

RuleOf(name, ports, send, matches) ==
    [name |-> name, ports |-> ports, send |-> send, matches |-> matches]

\* The versions are what is captured: the software of an SSH, FTP, SMTP or
\* MySQL greeting, the Server header of an HTTP answer.
Captured(service) == MatchOf(service, <<"$1">>)
Unversioned(service) == MatchOf(service, <<>>)

kDefaultRules ==
    <<RuleOf("ssh", <<22, 2222>>, NoRequest, <<Captured("ssh")>>),
      RuleOf("ftp", <<21>>, NoRequest,
             <<Captured("ftp"), Unversioned("ftp")>>),
      RuleOf("smtp", <<25, 465, 587>>, NoRequest,
             <<Captured("smtp"), Unversioned("smtp")>>),
      RuleOf("http", <<80, 8080, 8000, 8888>>, "OPTIONS",
             <<Captured("http"), Unversioned("http")>>),
      RuleOf("redis", <<6379>>, "PING", <<Unversioned("redis")>>),
      RuleOf("mysql", <<3306>>, NoRequest, <<Captured("mysql")>>),
      RuleOf("postgresql", <<5432>>, "hex", <<Unversioned("postgresql")>>),
      RuleOf("mongodb", <<27017>>, "hex", <<Unversioned("mongodb")>>)>>

decode_hex(send) == send # "bad hex"

\* A match without a valid regular expression is left out.
parse_match(match) == match.valid

\* Ports out of range are left out; a rule that has no match left is no rule.
parse_probe(rule) ==
    [rule EXCEPT
        !.ports = Kept(@, {i \in DOMAIN @ : parse_uint16(@[i])}),
        !.matches = Kept(@, {i \in DOMAIN @ : parse_match(@[i])})]

Parses(rule) ==
    /\ rule.name # "" /\ decode_hex(rule.send)
    /\ \E i \in DOMAIN rule.matches : parse_match(rule.matches[i])

parse_rules(file) ==
    LET kept == Kept(file, {i \in DOMAIN file : Parses(file[i])})
    IN  [i \in DOMAIN kept |-> parse_probe(kept[i])]

TlsProbe == RuleOf("tls", <<443, 8443, 465, 993, 995>>, NoRequest, <<>>)

\* The rules of the file, or those built in when it has none (or cannot be
\* read, or is no such JSON), and TLS behind them.
default_probes(file) ==
    LET rules == parse_rules(file)
    IN  Append(IF rules = <<>> THEN parse_rules(kDefaultRules) ELSE rules,
               TlsProbe)

\* A probe without ports is tried on every port.
Hinted(rule, port) == rule.ports = <<>> \/ Contains(rule.ports, port)

kGroups == <<"$0", "$1", "$2", "$3", "$4", "$5", "$6", "$7", "$8", "$9">>

\* A group the regular expression does not have leaves nothing behind.
Expanded(word, groups) ==
    LET named == {n \in DOMAIN kGroups : kGroups[n] = word}
        n == CHOOSE n \in named : TRUE
    IN  IF named = {} THEN <<word>>
        ELSE IF n > Len(groups) THEN <<>> ELSE groups[n]

apply_template(template, groups) ==
    FlattenSeq([i \in DOMAIN template |-> Expanded(template[i], groups)])
===============================================================================
