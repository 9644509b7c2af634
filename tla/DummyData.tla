------------------------------ MODULE DummyData -------------------------------
(*****************************************************************************)
(* sps::test::make_dummy_results() (src/src/gui/views/dummy_data.hpp): the   *)
(* demonstration rows every main window starts with.  Each is an open port   *)
(* with one CVE.                                                             *)
(*****************************************************************************)
EXTENDS ScanResult

\* Banners are one line or the first lines of an answer.
Line == <<"greeting">>
Lines == <<"status", "\r", "\n", "Server">>

\* The EPSS probability and the percentile are given in hundredths.
Row(service, banner, id, cvss, severity, epss, percentile, verified) ==
    [state |-> "Open", service |-> service, banner |-> banner,
     cves |-> <<CveInfo(<<id>>, cvss, severity, 1000 * epss, 1000 * percentile,
                        verified)>>]

RequiredProbes ==
    <<Row("ssh",  Line, "CVE-2020-15778", 78, "High",     18, 86, FALSE),
      Row("ftp",  Line, "CVE-2021-3618",  53, "Medium",    8, 66, FALSE),
      Row("smtp", Line, "CVE-2019-3462",  37, "Low",       3, 42, FALSE),
      Row("http", Lines, "CVE-2021-41773", 98, "Critical", 92, 99, TRUE),
      Row("tls",  Lines, "CVE-2021-23017", 94, "Critical",  4, 55, FALSE)>>

ExtraSamples ==
    <<Row("http",  Lines, "CVE-2021-28164", 59, "Medium",  14, 80, FALSE),
      Row("tls",   Lines, "CVE-2020-1938",  98, "Critical", 33, 91, TRUE),
      Row("ssh",   Line, "CVE-2018-15599", 53, "Medium",   6, 61, FALSE),
      Row("ftp",   Line, "CVE-2015-3306",  65, "Medium",  22, 88, FALSE),
      Row("redis", Lines, "CVE-2022-0543", 100, "Critical", 41, 93, TRUE)>>

make_dummy_results == RequiredProbes \o ExtraSamples
===============================================================================
