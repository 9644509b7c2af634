-------------------------------- MODULE Reports --------------------------------
(*****************************************************************************)
(* The reports of the command line (src/src/report/writers.cpp), and readers *)
(* to compare them with what was to be reported.  A text is a sequence of    *)
(* words and characters; the characters that mean something to a format are  *)
(* on their own, and "0xff" is an octet that is not UTF-8 where it stands.   *)
(*****************************************************************************)
EXTENDS ScanResult, SequencesExt

Quote == "\""

\* Mutant: quotes within a field are not doubled.
escape_csv_undoubled(text) ==
    IF \E i \in DOMAIN text : text[i] \in {",", Quote, "\n", "\r"}
    THEN <<Quote>> \o text \o <<Quote>>
    ELSE text

escape_csv_field(text) ==
    LET Doubled(c) == IF c = Quote THEN <<Quote, Quote>> ELSE <<c>>
    IN  IF \E i \in DOMAIN text : text[i] \in {",", Quote, "\n", "\r"}
        THEN <<Quote>> \o FlattenSeq([i \in DOMAIN text |-> Doubled(text[i])])
             \o <<Quote>>
        ELSE text

Special == {"&", "<", ">", Quote, "'"}

Entity(c) ==
    CASE c = "&" -> "&amp;"
      [] c = "<" -> "&lt;"
      [] c = ">" -> "&gt;"
      [] c = Quote -> "&quot;"
      [] c = "'" -> "&#39;"
      [] OTHER -> c

escape_html(text) == [i \in DOMAIN text |-> Entity(text[i])]

\* A word that means nothing to a format.
PlainWord(w) == w \notin Special \union Entities \union {",", "\n"}

\* The text of a line of fields.
CsvLine(fields) ==
    FlattenSeq([i \in DOMAIN fields |->
        fields[i] \o IF i = Len(fields) THEN <<"\n">> ELSE <<",">>])

Tag(name) == <<"<", name, ">">>

HtmlRow(cells) ==
    Tag("tr")
    \o FlattenSeq([i \in DOMAIN cells |-> Tag("td") \o cells[i] \o Tag("/td")])
    \o Tag("/tr")

\* The first of the CVEs with the highest CVSS, if that is not 0.
TopCve(cves) ==
    LET none == [cve_id |-> <<>>, cvss |-> 0]
        best[n \in 0..Len(cves)] ==
            IF n = 0 THEN none
            ELSE IF cves[n].cvss > best[n - 1].cvss THEN cves[n]
            ELSE best[n - 1]
    IN  best[Len(cves)]

\* Every format shows these, as numbers or as texts.
Headings ==
    <<<<"host">>, <<"port">>, <<"state">>, <<"service">>, <<"version">>,
      <<"top_cve">>, <<"top_cvss">>>>

Cells(r, format) ==
    LET top == TopCve(r.cves)
        Escape(text) == IF format = "csv" THEN escape_csv_field(text)
                        ELSE escape_html(text)
    IN  <<Escape(r.host), <<ToString(r.port)>>, <<r.state>>,
          Escape(r.service), Escape(r.version), Escape(top.cve_id),
          <<ToString(top.cvss)>>>>

to_csv(results) ==
    CsvLine(Headings)
    \o FlattenSeq([i \in DOMAIN results |->
           CsvLine(Cells(results[i], "csv"))])

to_html(results) ==
    HtmlRow(Headings)
    \o FlattenSeq([i \in DOMAIN results |->
           HtmlRow(Cells(results[i], "html"))])

\* dump() throws at a string that is not UTF-8.
NotUtf8(results) ==
    \E r \in Range(results) :
        \E text \in {r.service, r.version, r.banner} : Contains(text, "0xff")

\* The library quotes and escapes every string.
to_json(results) ==
    [i \in DOMAIN results |->
        LET r == results[i] IN
        [host |-> r.host, port |-> r.port, state |-> r.state,
         service |-> r.service, version |-> r.version, banner |-> r.banner,
         ja4s |-> r.ja4s, ja4x |-> r.ja4x, cdn |-> r.cdn,
         cves |-> [k \in DOMAIN r.cves |->
                      [id |-> r.cves[k].cve_id, cvss |-> r.cves[k].cvss,
                       epss |-> r.cves[k].epss,
                       percentile |-> r.cves[k].percentile,
                       risk |-> risk(r.cves[k]),
                       verified |-> r.cves[k].verified]]]]

-------------------------------------------------------------------------------

\* How a CSV text is read (RFC 4180): rows of fields.  A quote begins a quoted
\* field or ends one, and two of them in a quoted field are one.
CsvStart == [rows |-> <<>>, row |-> <<>>, field |-> <<>>, in |-> "plain"]

CsvStep(s, c) ==
    CASE s.in # "quoted" /\ c = "," ->
             [s EXCEPT !.row = Append(@, s.field), !.field = <<>>,
                       !.in = "plain"]
      [] s.in # "quoted" /\ c = "\n" ->
             [CsvStart EXCEPT !.rows = Append(s.rows, Append(s.row, s.field))]
      [] s.in = "plain" /\ c = Quote /\ s.field = <<>> ->
             [s EXCEPT !.in = "quoted"]
      [] s.in = "quoted" /\ c = Quote -> [s EXCEPT !.in = "closing"]
      [] s.in = "closing" /\ c = Quote ->
             [s EXCEPT !.in = "quoted", !.field = Append(@, c)]
      [] OTHER -> [s EXCEPT !.field = Append(@, c)]

ReadCsv(text) ==
    LET read[n \in 0..Len(text)] ==
            IF n = 0 THEN CsvStart ELSE CsvStep(read[n - 1], text[n])
    IN  read[Len(text)].rows

\* How a page is read: rows of the texts of their cells.  A "<" begins a tag.
Unescaped(c) ==
    IF \E d \in Special : Entity(d) = c
    THEN CHOOSE d \in Special : Entity(d) = c ELSE c

HtmlStart == [rows |-> <<>>, row |-> <<>>, cell |-> <<>>, in |-> "text"]

HtmlStep(s, c) ==
    CASE c = "<" -> [s EXCEPT !.in = "tag"]
      [] c = ">" -> [s EXCEPT !.in = "text"]
      [] s.in = "tag" /\ c = "/td" ->
             [s EXCEPT !.row = Append(@, s.cell), !.cell = <<>>]
      [] s.in = "tag" /\ c = "/tr" ->
             [s EXCEPT !.rows = Append(@, s.row), !.row = <<>>]
      [] s.in = "tag" /\ c \notin {"<", ">", "/td", "/tr"} -> s
      [] OTHER -> [s EXCEPT !.cell = Append(@, Unescaped(c))]

ReadHtml(page) ==
    LET read[n \in 0..Len(page)] ==
            IF n = 0 THEN HtmlStart ELSE HtmlStep(read[n - 1], page[n])
    IN  read[Len(page)].rows
===============================================================================
