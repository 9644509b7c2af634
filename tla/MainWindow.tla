------------------------------ MODULE MainWindow ------------------------------
(*****************************************************************************)
(* sps::gui::MainWindow (src/src/gui/views/main_window.cpp) with its table   *)
(* model, chart, details panel, dialogs and export menu, on the UI thread.   *)
(*                                                                           *)
(* The window drives a ScanController.  What it hears of it is a ScanSession *)
(* (module ScanController implements one), what it reads of it is running_,  *)
(* which the worker thread clears once it has posted its last event.  A      *)
(* dialog runs an event loop of its own: while it is up the user reaches     *)
(* nothing below it, and events keep arriving.                               *)
(*****************************************************************************)
EXTENDS DummyData, PortSpec, ScopeGuard, ReportWriters

CONSTANTS
    MaxPorts,   \* bound: ports of a scan; more are asked for, so many scanned
    MaxScans,   \* bound: scans accepted in one life of the window
    Found,      \* the rows scans find
    Forms,      \* what the user may leave in the scan dialog
    Saved,      \* settings on disk when the program is first started
    Chosen,     \* settings the user may leave in the settings dialog
    Clicks,     \* positions of the table, and points, the user clicks on
    Columns     \* columns the user sorts by

ASSUME BoundsAssumption == MaxPorts \in Nat \ {0} /\ MaxScans \in Nat
ASSUME FoundAssumption == \A r \in Found : IsRow(r) /\ IsWritable(r)

VARIABLES
    accepted, cut, finished, done, shown, closed,  \* of the ScanSession
    scanning,   \* running_ of the controller
    warned,     \* scans whose scanError has been heard
    asked,      \* target and consent of the last request accepted
    table,      \* the rows, their order on screen, the sorting, the selection
    unseen,     \* how many rows have come since the last scanFinished
    points,     \* point_map_ of the chart, by row
    details,    \* what the details panel shows
    status,     \* the message of the status bar
    modal,      \* the dialogs that are up, innermost last
    form,       \* what the scan dialog holds, the default when it is not up
    stored,     \* the settings on disk
    inForce     \* rate_ and timeout_ of the controller, and the theme

Session == INSTANCE ScanSession

session == <<accepted, cut, finished, done, shown, closed>>
controller == <<scanning, warned, asked>>
panels == <<points, details>>
contents == <<table, unseen, panels>>
dialogs == <<modal, form>>
settings == <<stored, inForce>>

vars == <<session, controller, contents, status, dialogs, settings>>

-------------------------------------------------------------------------------
(* The table: ResultModel below a QSortFilterProxyModel.                     *)

\* data() for Qt::UserRole, which the table sorts by; columns without a value
\* for it compare equal.
SortKey(r, column) ==
    CASE column = "CVSS" -> max_cvss(r)
      [] column = "EPSS" -> max_epss(r)
      [] column = "Percentile" -> max_percentile(r)
      [] column = "Risk" -> max_risk(r)
      [] column = "Verified" -> IF has_verified_cve(r) THEN 1 ELSE 0
      [] OTHER -> 0

\* One key comes before another; equal keys do not.
Before(key, other, by) == IF by.descending THEN key > other ELSE key < other

\* A row is put behind those it does not come before.
Placed(order, i, rs, by) ==
    LET key == SortKey(rs[i], by.column)
        ahead == Cardinality({n \in DOMAIN order :
                     ~Before(key, SortKey(rs[order[n]], by.column), by)})
    IN  InsertAt(order, ahead + 1, i)

\* The stable sort of the proxy: a row keeps its place among its equals.
Sorted(order, rs, by) ==
    LET keyed == {<<SortKey(rs[order[n]], by.column), n>> : n \in DOMAIN order}
        Ahead(k) == {other \in keyed : \/ Before(other[1], k[1], by)
                                       \/ other[1] = k[1] /\ other[2] < k[2]}
    IN  [p \in DOMAIN order |->
            order[(CHOOSE k \in keyed : Cardinality(Ahead(k)) = p - 1)[2]]]

RiskFirst == [column |-> "Risk", descending |-> TRUE]

-------------------------------------------------------------------------------
(* The chart and the details panel.                                          *)

Charted(r) ==
    r.service \in {"ssh", "http", "tls", "ftp", "smtp"} /\ r.cves # <<>>

\* The points, by the index of their row.
updateData(rs) ==
    [i \in {k \in DOMAIN rs : Charted(rs[k])} |->
        [epss |-> max_epss(rs[i]), cvss |-> max_cvss(rs[i])]]

\* The row of the first of the points nearest to where the user clicked.  The
\* chart hands over a point of its own, so the least distance is none.
on_scatter_clicked(at) ==
    LET nearest == {i \in DOMAIN points : points[i] = at}
    IN  CHOOSE i \in nearest : \A k \in nearest : i <= k

\* What showResult() lays out: the service, the risk score, and of every CVE
\* its scores and whether it is verified.
Details(r) ==
    [service |-> r.service, risk |-> max_risk(r),
     cves |-> [i \in DOMAIN r.cves |->
                  <<r.cves[i].cvss, r.cves[i].epss, r.cves[i].percentile,
                    risk(r.cves[i]), r.cves[i].verified>>]]

NoDetails == [service |-> "", risk |-> 0, cves |-> <<>>]

-------------------------------------------------------------------------------
(* Settings.                                                                 *)

Themes == {"Dark", "Light"}

SettingsType == [rate : Int, timeout : Int, theme : Themes]

\* What the dialog's fields can hold.
InDialog(s) == s.rate \in 1..10000 /\ s.timeout \in 100..30000

ASSUME SavedAssumption == \A s \in Saved : s \in SettingsType
ASSUME ChosenAssumption == \A s \in Chosen : s \in SettingsType /\ InDialog(s)

Within(n, low, high) == IF n < low THEN low ELSE IF n > high THEN high ELSE n

\* The dialog opened on settings and left as it is.
Untouched(s) ==
    [s EXCEPT !.rate = Within(@, 1, 10000), !.timeout = Within(@, 100, 30000)]

\* Mutant: whatever is on disk is used.
AppliedUnchecked(s, before) == s

\* setRate() and setTimeout() keep what they have when told 0 or less.
Applied(s, before) ==
    [rate |-> IF s.rate > 0 THEN s.rate ELSE before.rate,
     timeout |-> IF s.timeout > 0 THEN s.timeout ELSE before.timeout,
     theme |-> s.theme]

ControllerDefaults == [rate |-> 100, timeout |-> 1000]

-------------------------------------------------------------------------------
(* The program is started and stopped.                                       *)

Request(target, consent, ports) ==
    [target |-> target, consent |-> consent, ports |-> ports]

ASSUME FormsAssumption ==
    \A f \in Forms : /\ f.target \in Address /\ f.consent \in BOOLEAN
                    /\ f.ports \in Seq(Seq(Int))

Scope(request) == [target |-> request.target, consent |-> request.consent]

DefaultForm ==
    Request(Loopback, FALSE, <<<<22>>, <<80>>, <<443>>, <<8080>>, <<8443>>>>)

DemoRequest ==
    Request(Loopback, FALSE, <<<<21>>, <<22>>, <<25>>, <<80>>, <<110>>,
                               <<143>>, <<443>>, <<587>>, <<993>>, <<8080>>>>)

\* load_dummy_data()
NewTable ==
    LET rows == make_dummy_results
    IN  [rows |-> rows, sort |-> RiskFirst, current |-> 0,
         order |-> Sorted([i \in DOMAIN rows |-> i], rows, RiskFirst)]

Init ==
    /\ Session!Init
    /\ scanning = FALSE /\ warned = {} /\ asked = Scope(DemoRequest)
    /\ table = NewTable /\ unseen = 0
    /\ points = updateData(NewTable.rows) /\ details = NoDetails
    /\ status = "brief"
    /\ modal = <<>> /\ form = DefaultForm
    /\ stored \in Saved /\ inForce = Applied(stored, ControllerDefaults)

Quit ==
    /\ ~closed /\ modal = <<>>
    /\ Session!Close
    /\ scanning' = FALSE
    /\ UNCHANGED <<warned, asked, contents, status, dialogs, settings>>

\* The next start finds the settings on disk.
Relaunch ==
    /\ closed /\ closed' = FALSE
    /\ accepted' = <<>> /\ cut' = {} /\ finished' = 0 /\ done' = 0 /\ shown' = 0
    /\ scanning' = FALSE /\ warned' = {} /\ asked' = Scope(DemoRequest)
    /\ table' = NewTable /\ unseen' = 0
    /\ points' = updateData(NewTable.rows) /\ details' = NoDetails
    /\ status' = "brief"
    /\ modal' = <<>> /\ form' = DefaultForm
    /\ inForce' = Applied(stored, ControllerDefaults)
    /\ UNCHANGED stored

-------------------------------------------------------------------------------
(* The controller and its signals.                                           *)

\* The worker thread of the last scan has posted its last event.
WorkerEnds ==
    /\ scanning /\ scanning' = FALSE
    /\ UNCHANGED <<session, warned, asked, contents, status, dialogs, settings>>

\* An exception ends it early; its scanError is on the way.
WorkerFails ==
    /\ scanning /\ finished < Len(accepted) /\ Len(accepted) \notin cut
    /\ Session!Cut
    /\ UNCHANGED <<controller, contents, status, dialogs, settings>>

\* Events are delivered as they were posted: after the error comes the end.
Heard == finished + 1
BeforeError == Heard \notin warned
ErrorSeen == Heard \in cut => Heard \in warned

\* Mutant: the row is inserted before the others.
PrependResult ==
    \E r \in Found :
        LET rows == <<r>> \o table.rows
        IN  table' = [table EXCEPT !.rows = rows,
                          !.order = Sorted([i \in DOMAIN rows |-> i], rows,
                                           table.sort)]

\* appendResult(): the row is the last of the model, and takes its place in
\* the table.
AppendResult ==
    \E r \in Found :
        LET rows == Append(table.rows, r)
        IN  table' = [table EXCEPT !.rows = rows,
                          !.order = Placed(@, Len(rows), rows, table.sort)]

HearResult ==
    /\ BeforeError /\ Session!HearResult
    /\ AppendResult
    /\ unseen' = unseen + 1
    /\ UNCHANGED <<controller, panels, status, dialogs, settings>>

HearProgress ==
    /\ BeforeError /\ Session!HearProgress
    /\ status' = "scanning"
    /\ UNCHANGED <<controller, contents, dialogs, settings>>

\* The slot opens a message box and waits for it.
HearError ==
    /\ Session!Hearing /\ ~ErrorSeen
    /\ warned' = warned \union {Heard}
    /\ modal' = Append(modal, "scan error")
    /\ UNCHANGED <<session, scanning, asked, contents, status, form, settings>>

\* Mutant: only the chart is told.
HearFinishedSilently ==
    /\ ErrorSeen /\ Session!HearFinished
    /\ points' = updateData(table.rows)
    /\ unseen' = 0
    /\ UNCHANGED <<controller, table, details, status, dialogs, settings>>

HearFinished ==
    /\ ErrorSeen /\ Session!HearFinished
    /\ points' = updateData(table.rows)
    /\ unseen' = 0
    /\ status' = "brief"
    /\ UNCHANGED <<controller, table, details, dialogs, settings>>

-------------------------------------------------------------------------------
(* The user.  The main window has his attention when no dialog is up, else   *)
(* the innermost dialog has.                                                 *)

Ready == ~closed /\ modal = <<>>
At(dialog) == ~closed /\ modal # <<>> /\ Last(modal) = dialog

Ports(request) == Len(expand_port_spec(request.ports))

\* startScan() after the message that announces it; a controller at work
\* refuses by a scanError.
Start(request) ==
    /\ Len(accepted) < MaxScans
    /\ status' = "starting"
    /\ IF scanning
       THEN /\ modal' = Append(Front(modal), "scan error")
            /\ UNCHANGED <<session, controller>>
       ELSE /\ Session!Accept
            /\ accepted' = Append(accepted, Within(Ports(request), 1, MaxPorts))
            /\ scanning' = TRUE /\ asked' = Scope(request)
            /\ modal' = <<>>
            /\ UNCHANGED warned
    /\ form' = DefaultForm
    /\ UNCHANGED <<contents, settings>>

\* Mutant: a scan in progress is left to the controller to refuse.
StartDemoScanUnchecked == Ready /\ Start(DemoRequest)

StartDemoScan ==
    /\ Ready /\ ~scanning
    /\ Start(DemoRequest)

OpenScanDialog ==
    /\ Ready /\ ~scanning
    /\ modal' = <<"scan">>
    /\ UNCHANGED <<session, controller, contents, status, form, settings>>

\* Both menu items say so when a scan is in progress.
AlreadyScanning ==
    /\ Ready /\ scanning
    /\ modal' = <<"busy">>
    /\ UNCHANGED <<session, controller, contents, status, form, settings>>

EditForm ==
    /\ At("scan")
    /\ form' \in Forms
    /\ UNCHANGED <<session, controller, contents, status, modal, settings>>

Acceptable(request) ==
    /\ Ports(request) > 0
    /\ check_scope(request.target, request.consent) = "Allowed"

\* ScanDialog::accept(), and what open_scan_dialog() does after it.
AcceptForm ==
    /\ At("scan") /\ Acceptable(form)
    /\ Start(form)

RejectForm ==
    /\ At("scan") /\ ~Acceptable(form)
    /\ modal' = Append(modal, "invalid input")
    /\ UNCHANGED <<session, controller, contents, status, form, settings>>

OpenSettings ==
    /\ Ready
    /\ modal' = <<"settings">>
    /\ UNCHANGED <<session, controller, contents, status, form, settings>>

\* Mutant: the settings are applied and not saved.
AcceptSettingsUnsaved ==
    /\ At("settings")
    /\ \E s \in Chosen \union {Untouched(stored)} :
           inForce' = Applied(s, inForce)
    /\ status' = "brief" /\ modal' = Front(modal)
    /\ UNCHANGED <<session, controller, contents, form, stored>>

AcceptSettings ==
    /\ At("settings")
    /\ \E s \in Chosen \union {Untouched(stored)} :
           stored' = s /\ inForce' = Applied(s, inForce)
    /\ status' = "brief" /\ modal' = Front(modal)
    /\ UNCHANGED <<session, controller, contents, form>>

\* exportResults(): a menu of formats, a file dialog, the file written from
\* the rows of that moment, and a box that says whether it could be.
OpenExport ==
    /\ Ready
    /\ modal' = <<"format">>
    /\ UNCHANGED <<session, controller, contents, status, form, settings>>

PickFormat ==
    /\ At("format")
    /\ modal' = Append(Front(modal), "file")
    /\ UNCHANGED <<session, controller, contents, status, form, settings>>

\* What is written, by the format picked: the rows in the order of the model.
Written ==
    [html |-> HtmlWriter(table.rows), json |-> JsonWriter(table.rows),
     csv |-> CsvWriter(table.rows)]

Export ==
    /\ At("file")
    /\ modal' = Append(Front(modal), "exported")
    /\ UNCHANGED <<session, controller, contents, status, form, settings>>

\* The file cannot be opened: the writer throws, and a box says so.
ExportFails ==
    /\ At("file")
    /\ modal' = Append(Front(modal), "export error")
    /\ UNCHANGED <<session, controller, contents, status, form, settings>>

Cancel ==
    /\ \E dialog \in {"scan", "settings", "format", "file"} : At(dialog)
    /\ modal' = Front(modal) /\ form' = DefaultForm
    /\ UNCHANGED <<session, controller, contents, status, settings>>

Boxes == {"busy", "invalid input", "exported", "export error", "scan error"}

\* With the box of a scanError goes the message that was behind it.
CloseBox ==
    /\ \E box \in Boxes : At(box)
    /\ modal' = Front(modal)
    /\ status' = IF Last(modal) = "scan error" THEN "" ELSE status
    /\ UNCHANGED <<session, controller, contents, form, settings>>

\* "Loaded", "Scan complete" and "Settings updated" have a timeout.
MessageExpires ==
    /\ ~closed /\ status = "brief"
    /\ status' = ""
    /\ UNCHANGED <<session, controller, contents, dialogs, settings>>

\* A click on a column: again turns the order round, another one ascends.
SortBy(column) ==
    /\ Ready
    /\ LET by == IF table.sort.column = column
                 THEN [table.sort EXCEPT !.descending = ~@]
                 ELSE [column |-> column, descending |-> FALSE]
       IN  table' = [table EXCEPT !.sort = by,
                                  !.order = Sorted(@, table.rows, by)]
    /\ UNCHANGED <<session, controller, unseen, panels, status, dialogs,
                    settings>>

\* Mutant: the position in the table is taken for the row of the model.
SelectRowUnmapped(position) ==
    /\ Ready /\ position \in DOMAIN table.order
    /\ table.order[position] # table.current
    /\ table' = [table EXCEPT !.current = table.order[position]]
    /\ details' = Details(table.rows[position])
    /\ UNCHANGED <<session, controller, unseen, points, status, dialogs,
                    settings>>

\* on_row_selected(), for a row that was not selected before.
SelectRow(position) ==
    /\ Ready /\ position \in DOMAIN table.order
    /\ table.order[position] # table.current
    /\ table' = [table EXCEPT !.current = table.order[position]]
    /\ details' = Details(table.rows[table.order[position]])
    /\ UNCHANGED <<session, controller, unseen, points, status, dialogs,
                    settings>>

\* pointClicked: the details of the row, and the row selected in the table.
ClickPoint(i) ==
    /\ Ready /\ i \in DOMAIN points
    /\ LET row == on_scatter_clicked(points[i])
       IN  /\ details' = Details(table.rows[row])
           /\ table' = [table EXCEPT !.current = row]
    /\ UNCHANGED <<session, controller, unseen, points, status, dialogs,
                    settings>>

Hear == HearResult \/ HearProgress \/ HearError \/ HearFinished

ScanDialog == StartDemoScan \/ OpenScanDialog \/ AlreadyScanning
              \/ EditForm \/ AcceptForm \/ RejectForm

OtherDialog == OpenSettings \/ AcceptSettings \/ OpenExport \/ PickFormat
               \/ Export \/ ExportFails \/ Cancel \/ CloseBox

Browse ==
    \/ \E column \in Columns : SortBy(column)
    \/ \E position \in Clicks : SelectRow(position) \/ ClickPoint(position)

Next == Hear \/ WorkerEnds \/ WorkerFails \/ ScanDialog \/ OtherDialog
        \/ MessageExpires \/ Browse \/ Quit \/ Relaunch

Spec == Init /\ [][Next]_vars

-------------------------------------------------------------------------------
(* Properties.                                                               *)

Dialogs == {"scan", "settings", "format", "file"} \union Boxes

TypeOK ==
    /\ accepted \in Seq(1..MaxPorts) /\ Len(accepted) <= MaxScans
    /\ finished \in 0..Len(accepted) /\ warned \subseteq cut
    /\ cut \subseteq 1..Len(accepted) /\ scanning \in BOOLEAN
    /\ Len(table.order) = Len(table.rows)
    /\ Range(table.order) = DOMAIN table.rows
    /\ table.current \in {0} \union DOMAIN table.rows
    /\ unseen \in 0..(Len(table.rows) - Len(make_dummy_results))
    /\ status \in {"starting", "scanning", "brief", ""}
    /\ modal \in Seq(Dialogs)
    /\ stored \in SettingsType
    /\ inForce \in SettingsType /\ inForce.rate > 0 /\ inForce.timeout > 0

\* The chart is drawn when a scan finishes and keeps the indices of the rows of
\* that moment, while rows of the next scan arrive.  Every point still lies on
\* its row, and every row of the scans heard to finish that belongs on the
\* chart is on it, whatever ended them (main_window.cpp:177-182,
\* charts_panel.cpp:85-101).
ChartShowsRows ==
    /\ \A i \in DOMAIN points :
           LET r == table.rows[i]
           IN  Charted(r) /\ points[i].cvss = max_cvss(r)
                          /\ points[i].epss = max_epss(r)
    /\ \A i \in 1..(Len(table.rows) - unseen) :
           Charted(table.rows[i]) => i \in DOMAIN points

\* The details are those of the row selected, by whichever way the user came to
\* it and however the table is sorted by then (main_window.cpp:162-166,257-261).
DetailsOfSelection ==
    details = IF table.current = 0 THEN NoDetails
              ELSE Details(table.rows[table.current])

\* The messages that announce a scan have no timeout: when the last scan
\* accepted has been heard to finish, none is left on the status bar, whatever
\* dialogs were open when the events came (main_window.cpp:172-187,218-245).
StatusSettles ==
    ~closed /\ status \in {"starting", "scanning"} => finished < Len(accepted)

\* While the table is sorted by falling risk, as it is at the start, no row is
\* right above one with a riskier CVE, also as rows arrive in mid-scan: risk is
\* CVSS times EPSS of one CVE (result.hpp:97-105, result_model.cpp:104-106).
RiskiestFirst ==
    table.sort = RiskFirst =>
        \A k \in 1..(Len(table.order) - 1) :
            LET above == table.rows[table.order[k]].cves
                below == table.rows[table.order[k + 1]].cves
            IN  \A j \in DOMAIN below : below[j].cvss * below[j].epss > 0 =>
                    \E i \in DOMAIN above : risk(above[i]) >= risk(below[j])

\* The controller works with the settings on disk, after a restart as before
\* it, unless what is on disk cannot be used (main_window.cpp:97-102,226-234).
SettingsInForce ==
    /\ stored.rate > 0 => inForce.rate = stored.rate
    /\ stored.timeout > 0 => inForce.timeout = stored.timeout
    /\ inForce.theme = stored.theme

\* startScan() checks nothing: what the window asks it to scan is internal, or
\* the user has consented to it (scan_dialog.cpp:72-84, docs/ETHICS.md:7-20).
ScansInScope == Internal(asked.target) \/ asked.consent

\* The window never has a scan refused: when it says that one is starting the
\* controller takes it, although the check is made before the dialog runs its
\* event loop (main_window.cpp:210-221,239-246).
StartsAreAccepted ==
    [][status # "starting" /\ status' = "starting" => accepted' # accepted]_vars

\* The files that can be written have every row of the table: the totals add
\* up, and of each row a reader gets the banner as it was and the risk of its
\* riskiest CVE, in CSV to two decimals and in JSON to six digits.  The JSON file
\* can be read if the texts of all rows are UTF-8, less the control characters
\* that have no escape; the page shows those texts that are.
FilesTellRows ==
    LET rows == table.rows
        json == Written.json
        AllRead(file, Read(_)) ==
            FlattenSeq([i \in DOMAIN file |-> Read(file[i])])
        csv == AllRead(Written.csv, ReadCsv)
        html == AllRead(Written.html, ReadHtml)
        Risks(r) == {0} \union {c.cvss * c.epss : c \in Range(r.cves)}
        Highest(r) == CHOOSE n \in Risks(r) : \A m \in Risks(r) : m <= n
        Strings(result) == {result.service, result.banner}
                           \union {cve.id : cve \in Range(result.cves)}
    IN  /\ (\A r \in Range(rows) : IsUtf8(r)) =>
               /\ Len(json.results) = Len(rows)
               /\ json.summary.total = Len(rows)
               /\ json.summary.open + json.summary.closed
                      + json.summary.filtered = Len(rows)
               /\ \A i \in DOMAIN rows :
                      LET told == json.results[i] IN
                      /\ \A text \in Strings(told) : IsJson(text)
                      /\ JsonUnescaped(told.banner) = Blanked(rows[i].banner)
                      /\ IsToSixDigits(told.max_risk, Highest(rows[i]))
        /\ Len(csv) = Len(rows) + 1 /\ Len(html) = 2 * Len(rows) + 1
        /\ html[1][1] = <<ToString(Len(rows))>>
        /\ \A i \in DOMAIN rows :
               LET r == rows[i] IN
               /\ Len(csv[i + 1]) = Len(csv[1])
               /\ csv[i + 1][3] = r.banner
               /\ \E m \in Hundredths(Highest(r)) :
                      csv[i + 1][7] = <<ToString(m)>>
               /\ IsUtf8(r) => html[1 + Len(rows) + i][3] = r.banner

\* An export tells of every row of the table at that time, although rows keep
\* arriving while its dialogs are up, and whatever a service sends
\* (export_actions.cpp:17-80, json_writer.cpp:29-131, csv_writer.cpp:12-100).
\* In the table of the HTML file the risk may be higher
\* (html_writer.cpp:106-108) and the EPSS is cut to whole percents.
ExportFaithful == [][Export => FilesTellRows]_vars
===============================================================================
