----------------------------- MODULE ReportWriters -----------------------------
(*****************************************************************************)
(* The exports of the main window (src/src/report/json_writer.cpp,           *)
(* csv_writer.cpp, html_writer.cpp).  Of the fields of a row that are copied *)
(* alike, its banner stands for the texts and its state and service for the  *)
(* others.  A number in a file is a word, in units of its last digit.  A CSV *)
(* or HTML file is the texts of its records, one after the other.            *)
(*****************************************************************************)
EXTENDS Reports

verified_cve_count(r) ==
    Cardinality({k \in DOMAIN r.cves : r.cves[k].verified})

InState(rows, state) ==
    Cardinality({i \in DOMAIN rows : rows[i].state = state})

Summary(rows) ==
    LET cves[n \in 0..Len(rows)] ==
            IF n = 0 THEN 0 ELSE cves[n - 1] + Len(rows[n].cves)
    IN  [total |-> Len(rows), open |-> InState(rows, "Open"),
         closed |-> InState(rows, "Closed"),
         filtered |-> InState(rows, "Filtered"), cves |-> cves[Len(rows)]]

\* How many units n is, to the nearest.  Halfway between two the code rounds the
\* double it has for n, which may be on either side.
InUnits(n, unit) ==
    CHOOSE m \in {n \div unit, n \div unit + 1} :
        2 * (n - unit * m) <= unit /\ 2 * (unit * m - n) <= unit

\* What a stream writes by default: six significant digits, which a risk of 1.0
\* and more (up to 10.0) exceeds.  The other scores do not.
SixDigits(n) == IF n < 1000000 THEN n ELSE 10 * InUnits(n, 10)

\* "ctl" is any other control character: it becomes a space.
Escaped == {Quote, "\\", "\f", "\n", "\r", "\t"}

JsonEscape(c) ==
    CASE c = Quote -> "\\\""
      [] c = "\\" -> "\\\\"
      [] c = "\f" -> "\\f"
      [] c = "\n" -> "\\n"
      [] c = "\r" -> "\\r"
      [] c = "\t" -> "\\t"
      [] c = "ctl" -> " "
      [] OTHER -> c

json_escape(text) == [i \in DOMAIN text |-> JsonEscape(text[i])]

JsonWriter(rows) ==
    [summary |-> Summary(rows),
     results |-> [i \in DOMAIN rows |->
        LET r == rows[i] IN
        [state |-> r.state, service |-> json_escape(<<r.service>>),
         banner |-> json_escape(r.banner),
         cves |-> [k \in DOMAIN r.cves |->
            [id |-> json_escape(r.cves[k].cve_id), cvss |-> r.cves[k].cvss,
             severity |-> r.cves[k].severity, epss |-> r.cves[k].epss,
             percentile |-> r.cves[k].percentile,
             risk |-> SixDigits(risk(r.cves[k])),
             verified |-> r.cves[k].verified]],
         cve_count |-> Len(r.cves), max_cvss |-> max_cvss(r),
         max_epss |-> max_epss(r), max_risk |-> SixDigits(max_risk(r)),
         verified |-> verified_cve_count(r)]]]

Number(n) == <<ToString(n)>>

\* Mutant: line breaks do not make quotes necessary.
csv_escape_line(text) ==
    IF Contains(text, ",") \/ Contains(text, Quote) THEN escape_csv_field(text)
    ELSE text

csv_escape(text) == escape_csv_field(text)

\* The scores of a CVE, behind its identifier, to six decimals.
Scores(c) ==
    <<c.severity>> \o Number(c.cvss) \o Number(c.epss) \o Number(c.percentile)
    \o Number(risk(c)) \o <<ToString(c.verified)>>

\* All CVEs in one field.
cve_list(cves) ==
    FlattenSeq([k \in DOMAIN cves |->
        (IF k > 1 THEN <<"; ">> ELSE <<>>)
        \o cves[k].cve_id \o Scores(cves[k])])

\* The columns of scores have two decimals.
CsvWriter(rows) ==
    <<CsvLine(<<<<"State">>, <<"Service">>, <<"Banner_Raw">>, <<"CVE_Count">>,
                <<"Max_CVSS">>, <<"Max_EPSS">>, <<"Max_Risk">>,
                <<"Verified_CVE_Count">>, <<"CVEs">>>>)>>
    \o [i \in DOMAIN rows |->
        LET r == rows[i] IN
        CsvLine(<<<<r.state>>, csv_escape(<<r.service>>), csv_escape(r.banner),
                  Number(Len(r.cves)), Number(max_cvss(r)),
                  Number(InUnits(max_epss(r), 1000)),
                  Number(InUnits(max_risk(r), 10000)),
                  Number(verified_cve_count(r)),
                  csv_escape(cve_list(r.cves))>>)]

\* static_cast<int>(epss * 100): the doubles for these, times a hundred, are
\* just short of the whole number.
FallShort == {29000, 57000, 58000}

Percent(n) ==
    Number(IF n \in FallShort THEN n \div 1000 - 1 ELSE n \div 1000)

\* The scores of a CVE on the page.
Rated(c) ==
    <<c.severity>> \o Number(c.cvss) \o Percent(c.epss) \o Percent(c.percentile)
    \o Number(SixDigits(risk(c))) \o <<ToString(c.verified)>>

\* A summary, a table, and the details of every row.  The risk in the table is
\* the highest CVSS times the highest EPSS.
HtmlWriter(rows) ==
    LET total == Summary(rows)
        InTable(r) ==
            HtmlRow(<<<<r.state>>, escape_html(<<r.service>>),
                      Number(max_cvss(r)), Percent(max_epss(r)),
                      Number(SixDigits(max_cvss(r) * max_epss(r)))>>)
        InDetails(r) ==
            HtmlRow(<<escape_html(<<r.service>>), <<r.state>>,
                      escape_html(r.banner)>>
                    \o [k \in DOMAIN r.cves |->
                           escape_html(r.cves[k].cve_id) \o Rated(r.cves[k])])
    IN  <<HtmlRow(<<Number(total.total), Number(total.open),
                    Number(total.closed), Number(total.filtered),
                    Number(total.cves)>>)>>
        \o [i \in DOMAIN rows |-> InTable(rows[i])]
        \o [i \in DOMAIN rows |-> InDetails(rows[i])]

-------------------------------------------------------------------------------

\* What a reader of JSON accepts between quotes: neither a quote, a backslash or
\* a control character without an escape, nor an octet that is not UTF-8.
IsJson(text) == Range(text) \intersect (Escaped \union {"ctl", "0xff"}) = {}

\* What he makes of a text he accepts.
JsonUnescaped(text) ==
    LET Of(c) == IF \E d \in Escaped : JsonEscape(d) = c
                 THEN CHOOSE d \in Escaped : JsonEscape(d) = c ELSE c
    IN  [i \in DOMAIN text |-> Of(text[i])]

\* A text as JSON can tell it: a control character without an escape is lost.
Blanked(text) ==
    [i \in DOMAIN text |-> IF text[i] = "ctl" THEN " " ELSE text[i]]

\* A text of single characters, and of words without any that is escaped: none
\* is itself what an entity or an escape is written as.
Legible(text) ==
    /\ text \in Seq(Range(text))
    /\ \A w \in Range(text) :
           w \notin Entities /\ \A c \in Escaped : w # JsonEscape(c)

Apart(n, m) == IF n < m THEN m - n ELSE n - m

\* A risk told to six digits, and what it may be told as in hundredths.
IsToSixDigits(told, n) == 200000 * Apart(told, n) <= n

Hundredths(n) ==
    {m \in {n \div 10000, n \div 10000 + 1} : 2 * Apart(10000 * m, n) <= 10000}

\* The texts of a row.
Texts(r) == {<<r.service>>, r.banner} \union {c.cve_id : c \in Cves(r)}

IsUtf8(r) == \A text \in Texts(r) : ~Contains(text, "0xff")

\* The scales of CVSS and EPSS: up to 10.0, and up to 1.
Certain == 100000
EpssScale == 0..Certain
CvssScale == 0..100

InScale(c) ==
    c.cvss \in CvssScale /\ c.epss \in EpssScale /\ c.percentile \in EpssScale

\* What a row holds, as far as it is written.
IsWritable(r) ==
    /\ r.state \in {"Open", "Closed", "Filtered"}
    /\ \A text \in Texts(r) : Legible(text)
    /\ \A c \in Cves(r) : /\ c.severity \in Severity /\ c.verified \in BOOLEAN
                          /\ InScale(c)
===============================================================================
