----------------------------- MODULE MCMainWindow -----------------------------
(* Rows, requests and settings for TLC.                                      *)
EXTENDS MainWindow

\* A port whose riskiest CVE does not have its highest CVSS, whose risk has more
\* digits than a file keeps, and whose banner is full of special characters; and
\* one at the point of the chart of a demonstration row, whose banner is not
\* UTF-8.
MCFound ==
    {[state |-> "Open", service |-> "http",
      banner |-> <<"status", ",", Quote, "\n", "<", "&", "\\", "ctl">>,
      cves |-> <<CveInfo(<<"A">>, 98, "Critical", 2000, 58000, FALSE),
                 CveInfo(<<"B">>, 41, "Medium", 90123, 99000, TRUE)>>],
     [RequiredProbes[4] EXCEPT !.banner = <<"status", "0xff">>]}

MCForms ==
    {Request(V4(172, 64, 0, 1), TRUE, <<<<443>>>>),
     Request(V4(172, 64, 0, 1), FALSE, <<<<443>>>>),
     Request(Loopback, TRUE, <<<<80>>, <<Junk, 8>>>>)}

\* A rate that cannot be used and a timeout beyond what the dialog holds.
MCSaved == {[rate |-> 0, timeout |-> 40000, theme |-> "Light"]}
MCChosen == {[rate |-> 10, timeout |-> 500, theme |-> "Dark"]}
===============================================================================
