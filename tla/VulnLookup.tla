------------------------------ MODULE VulnLookup -------------------------------
(*****************************************************************************)
(* sps::fp::CveDb and sps::fp::EpssDb (src/src/fp/cve_lookup.cpp and         *)
(* epss_lookup.cpp).  A text is a sequence of words; a CVE file a sequence   *)
(* of items [service, prefix, id, cvss, typed], an EPSS file one of lines    *)
(* [fields, epss, percentile], where a number is Junk when it is unreadable. *)
(*****************************************************************************)
EXTENDS PortSpec, ScanResult

CveItem == [service : Text, prefix : Text, id : Text, cvss : Int,
            typed : BOOLEAN]
EpssLine == [fields : Seq(Text), epss : Int, percentile : Int]

\* The words that come with capitals and without.
tolower(word) ==
    IF word \in {"Ssh", "SSH"} THEN "ssh"
    ELSE IF word \in {"Cve", "CVE"} THEN "cve" ELSE word

toupper(word) ==
    IF word \in {"ssh", "Ssh"} THEN "SSH"
    ELSE IF word \in {"cve", "Cve"} THEN "CVE" ELSE word

to_lower(text) == [i \in DOMAIN text |-> tolower(text[i])]
to_upper(text) == [i \in DOMAIN text |-> toupper(text[i])]

\* Mutant: the version has to begin with the prefix.
version_begins(version, prefix) ==
    /\ prefix # <<>> /\ Len(prefix) <= Len(version)
    /\ SubSeq(version, 1, Len(prefix)) = prefix

\* The prefix occurs somewhere in the version.
version_matches(version, prefix) ==
    /\ prefix # <<>>
    /\ \E n \in 0..(Len(version) - Len(prefix)) :
           SubSeq(version, n + 1, n + Len(prefix)) = prefix

\* An item with a field of the wrong type makes load() throw: nothing of the
\* file is used then, and nobody catches it.
LoadThrows(file) == \E i \in DOMAIN file : ~file[i].typed

\* Items without an identifier or a prefix are left out.
load_from_string(file) ==
    LET kept == Kept(file, {i \in DOMAIN file : file[i].id # <<>>
                                                /\ file[i].prefix # <<>>})
    IN  [i \in DOMAIN kept |->
            [kept[i] EXCEPT !.service = to_lower(@)]]

\* CveDb::lookup(): the entries that match, in the order of the file.
lookup_cves(entries, service, version) ==
    LET Matches(e) == e.service = to_lower(service)
                      /\ version_matches(version, e.prefix)
        hits == Kept(entries, {i \in DOMAIN entries : Matches(entries[i])})
    IN  IF service = <<>> \/ version = <<>> THEN <<>>
        ELSE [i \in DOMAIN hits |->
                 CveInfo(hits[i].id, hits[i].cvss,
                         severity_from_cvss(hits[i].cvss), 0, 0, FALSE)]

looks_like_cve(line) ==
    line.fields # <<>> /\ Len(line.fields[1]) > 1
    /\ to_upper(line.fields[1])[1] = "CVE"

\* A line counts when it names a CVE and has a second and a third field, the
\* second of them a number.
Scores(line) ==
    looks_like_cve(line) /\ Len(line.fields) > 2 /\ line.epss # Junk

\* What the file says of a CVE on one of its lines.
Score(line) ==
    [cve |-> to_upper(line.fields[1]), epss |-> line.epss,
     percentile |-> IF line.percentile = Junk THEN 0 ELSE line.percentile]

SameCve(a, b) == to_upper(a.fields[1]) = to_upper(b.fields[1])

\* Mutant: a later line replaces an earlier one.
parse_epss_replacing(lines) ==
    LET scored == {i \in DOMAIN lines : Scores(lines[i])}
    IN  {Score(lines[i]) : i \in {i \in scored : \A k \in scored :
                                     SameCve(lines[k], lines[i]) => k <= i}}

\* EpssDb::parse(): the first line that counts of every CVE.  A percentile that
\* is no number is taken for 0.
parse_epss(lines) ==
    LET scored == {i \in DOMAIN lines : Scores(lines[i])}
    IN  {Score(lines[i]) : i \in {i \in scored : \A k \in scored :
                                     SameCve(lines[k], lines[i]) => i <= k}}

\* EpssDb::lookup(), and what run() makes of it.
Augmented(cve, scores) ==
    LET hits == {e \in scores : e.cve = to_upper(cve.cve_id)}
        e == IF hits = {} THEN [epss |-> 0, percentile |-> 0]
             ELSE CHOOSE hit \in hits : TRUE
    IN  [cve EXCEPT !.epss = e.epss, !.percentile = e.percentile]
===============================================================================
