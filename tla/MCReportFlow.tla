---------------------------- MODULE MCReportFlow ----------------------------
(* ReportFlow for TLC.                                                        *)
EXTENDS ReportFlow

\* The lean backend in any host, and the drain over a spool of approved reports.
WithoutForeignReports ==
    [transport : {"lean"}, captureFirst : BOOLEAN, native : BOOLEAN, edits : BOOLEAN]
    \cup [transport : {"tor"}, captureFirst : {FALSE}, native : {FALSE}, edits : BOOLEAN]

\* The drain over such a spool with the crash monitor armed beside it.
DrainWithMonitor ==
    [transport : {"tor"}, captureFirst : {FALSE}, native : {TRUE}, edits : {TRUE}]

\* A host that sends what into_edited_report returns.
EditingHost ==
    [transport : {"lean"}, captureFirst : {TRUE}, native : {FALSE}, edits : {TRUE}]

\* The span nowhere, in the fields of which no private span is to arrive, and everywhere.
MCSpans == {{}, {"body"}, {"other"}, Previewed}
TitleOnly == {{"title"}}
=============================================================================
