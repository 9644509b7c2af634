------------------------------ MODULE ScanResult ------------------------------
(*****************************************************************************)
(* sps::core::ScanResult (src/src/core/result.hpp): a row of a scan and the  *)
(* scores derived from its CVEs.  A row is a record with a sequence "cves";  *)
(* a CVSS score is in tenths, an EPSS probability and a percentile in units  *)
(* of 0.00001 (they have five decimals), and a risk (CVSS x EPSS) in         *)
(* millionths.                                                               *)
(*****************************************************************************)
EXTENDS Integers, Sequences

\* Texts are sequences of words.  A character that means something to a format
\* is a word of its own, so none spells one in HTML.
Entities == {"&amp;", "&lt;", "&gt;", "&quot;", "&#39;"}
Word == STRING \ Entities
Text == Seq(Word)

Severity == {"Critical", "High", "Medium", "Low", "None"}

severity_from_cvss(cvss) ==
    CASE cvss >= 90        -> "Critical"
      [] cvss \in 70..89   -> "High"
      [] cvss \in 40..69   -> "Medium"
      [] cvss \in 1..39    -> "Low"
      [] OTHER             -> "None"

CveInfo(id, cvss, severity, epss, percentile, verified) ==
    [cve_id |-> id, cvss |-> cvss, severity |-> severity, epss |-> epss,
     percentile |-> percentile, verified |-> verified]

Cves(r) == {r.cves[i] : i \in DOMAIN r.cves}
Greatest(S) == CHOOSE n \in S : \A k \in S : k <= n

\* A row has a list of CVEs, each with its scores.
IsRow(r) ==
    /\ Len(r.cves) \in Nat /\ DOMAIN r.cves = 1..Len(r.cves)
    /\ \A c \in Cves(r) :
           c.cvss \in Int /\ c.epss \in Int /\ c.percentile \in Int

risk(c) == c.cvss * c.epss

\* The greatest of the scores, 0 when there is none.
max_cvss(r) == Greatest({0} \union {c.cvss : c \in Cves(r)})
max_epss(r) == Greatest({0} \union {c.epss : c \in Cves(r)})
max_percentile(r) == Greatest({0} \union {c.percentile : c \in Cves(r)})

\* Mutant: the greatest CVSS times the greatest EPSS, of different CVEs.
max_risk_of_maxima(r) == max_cvss(r) * max_epss(r)

\* The risk of the riskiest CVE.
max_risk(r) == Greatest({0} \union {risk(c) : c \in Cves(r)})

has_verified_cve(r) == \E c \in Cves(r) : c.verified
===============================================================================
