----------------------------- MODULE ViaReport -----------------------------
(***************************************************************************)
(* The document via writes: tables of rows of cells, as HTML for a browser *)
(* or as JSON for vkconfig.  The functions of via print it piece by piece; *)
(* a script is the sequence of pieces a function prints, and a report is   *)
(* what the pieces printed so far amount to: the elements that are open,   *)
(* and whether what is written can still become a document.                *)
(*                                                                         *)
(* Every row has two cells here: only the first one differs from the next, *)
(* in the comma before it.  Cells have no text: the code writes it as it   *)
(* is (via_system.cpp:1516-1521), so that whether a newline or a quote in  *)
(* it breaks the JSON is not known here.                                   *)
(***************************************************************************)
EXTENDS Naturals, Sequences, SequencesExt

Formats == {"html", "json"}

Row == <<"row">>
OpenRow == <<"open row">>                 \* a row that is never ended
Table(rows) == <<"table">> \o rows \o <<"end table">>

\* An element that is open, and whether it has a member yet.
Element(kind) == [kind |-> kind, filled |-> FALSE]

(***************************************************************************)
(* The counters decide in JSON whether a comma comes first: only whether   *)
(* they are zero matters.                                                  *)
(***************************************************************************)
StartOutput(format) ==
    [format |-> format, open |-> <<Element("document")>>,
     tables |-> FALSE, rows |-> FALSE, cols |-> FALSE, good |-> TRUE]

Innermost(report) == IF report.open = << >> THEN Element("nothing") ELSE Last(report.open)

Parent == [table |-> "document", text |-> "document", row |-> "table", cell |-> "row"]

(***************************************************************************)
(* A member of the innermost element.  HTML: it belongs there.  JSON: any  *)
(* object takes it, and there is a comma if and only if it is not first.   *)
(***************************************************************************)
Member(report, kind, comma) ==
    [report EXCEPT
        !.good = @ /\ report.open # << >>
                   /\ IF report.format = "html" THEN Innermost(report).kind = Parent[kind]
                      ELSE comma = Innermost(report).filled,
        !.open = IF @ = << >> THEN @ ELSE [@ EXCEPT ![Len(@)].filled = TRUE]]

Begin(report, kind, comma) ==
    LET r == Member(report, kind, comma) IN [r EXCEPT !.open = Append(@, Element(kind))]

\* An HTML tag ends the element it names, a brace of JSON the innermost one.
End(report, kind) ==
    [report EXCEPT
        !.good = @ /\ report.open # << >>
                   /\ (report.format = "html" => Innermost(report).kind = kind),
        !.open = IF @ = << >> THEN @ ELSE Front(@)]

PrintStandardText(report) ==
    [Member(report, "text", report.tables) EXCEPT !.tables = TRUE]

PrintBeginTable(report) ==
    [Begin(report, "table", report.tables) EXCEPT !.tables = TRUE, !.rows = FALSE]

PrintBeginTableRow(report) ==
    [Begin(report, "row", report.rows) EXCEPT !.rows = TRUE, !.cols = FALSE]

\* Slip: the counter of the columns is not advanced.
PrintTableElement_noCount(report) == Member(report, "cell", report.cols)
PrintTableElement(report) ==
    [Member(report, "cell", report.cols) EXCEPT !.cols = TRUE]

PrintEndTableRow(report) == End(report, "row")
PrintEndTable(report) == End(report, "table")
EndOutput(report) == End(report, "document")

OpenRowPrinted(report) == PrintTableElement(PrintTableElement(PrintBeginTableRow(report)))

Printed(report, piece) ==
    CASE piece = "text" -> PrintStandardText(report)
      [] piece = "table" -> PrintBeginTable(report)
      [] piece = "row" -> PrintEndTableRow(OpenRowPrinted(report))
      [] piece = "open row" -> OpenRowPrinted(report)
      [] piece = "end row" -> PrintEndTableRow(report)
      [] piece = "end table" -> PrintEndTable(report)

Written(report, script) == FoldLeft(Printed, report, script)

\* The document is complete and nothing in it is out of place.
WellFormed(report) == report.good /\ report.open = << >>
=============================================================================
