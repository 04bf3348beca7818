------------------------------- MODULE Form8949 -------------------------------
(***************************************************************************)
(* The figures of the tax forms: the rows a disposal's lines become          *)
(* (build_lines, _apply_dispose, DisposalRow), Form 8949's boxes, Schedule D *)
(* and the activity report, over the lines of Consume's last disposal.       *)
(*                                                                         *)
(* The forms add up what a year holds, so one disposal of several lines shows *)
(* what could go wrong with them.  A date is a day's number, and a year is   *)
(* the same number of days each time (relativedelta's leap day is left out). *)
(***************************************************************************)
EXTENDS Consume

CONSTANTS
    AcquiredOn,     \* the day each lot was acquired
    Dates,          \* the days a disposal may be made on
    Year            \* days

ASSUME DatesAssumption ==
    AcquiredOn \in [Lots -> Nat] /\ Dates \subseteq Nat /\ Year \in Nat

-----------------------------------------------------------------------------
(* Rows                                                                     *)

\* Long the day after the anniversary.
HoldingPeriod(acquired, disposed) == IF disposed > acquired + Year THEN "long" ELSE "short"

\* Slip: the sign of the loss is kept.
MutAdjustment(gain, related) == IF related /\ gain < 0 THEN gain ELSE 0

\* Section 267: the loss of a sale to a related party is disallowed, line by line; a
\* line without an adjustment has NULL, which the forms add as 0.
Adjustment(gain, related) == IF related /\ gain < 0 THEN -gain ELSE 0

\* lot_disposals' column default; nothing in the code stores another covered_status.
Covered == "no-1099-da"

Rows(lines, date, related) ==
    {LET gain == lines[n].proceeds - lines[n].basis IN
     [line |-> n, proceeds |-> lines[n].proceeds, basis |-> lines[n].basis,
      adjustment |-> Adjustment(gain, related), covered |-> Covered,
      holding |-> HoldingPeriod(AcquiredOn[lines[n].lot], date)] : n \in DOMAIN lines}

GainLossNet(row) == row.proceeds - row.basis + row.adjustment

-----------------------------------------------------------------------------
(* Forms                                                                    *)

ShortBox == [s \in {"covered-basis-reported", "covered-basis-not-reported", "no-1099-da"} |->
                CASE s = "covered-basis-reported" -> "A"
                  [] s = "covered-basis-not-reported" -> "B"
                  [] OTHER -> "C"]
LongBox  == [s \in DOMAIN ShortBox |->
                CASE s = "covered-basis-reported" -> "D"
                  [] s = "covered-basis-not-reported" -> "E"
                  [] OTHER -> "F"]

BoxFor(row) == IF row.holding = "short" THEN ShortBox[row.covered] ELSE LongBox[row.covered]

\* build_8949: all six boxes, empty ones with zeros.
Build8949(rows) ==
    [box \in {"A", "B", "C", "D", "E", "F"} |->
        LET own == {r \in rows : BoxFor(r) = box} IN
        [rows |-> Cardinality(own),
         proceeds |-> MapThenSumSet(LAMBDA r : r.proceeds, own),
         basis |-> MapThenSumSet(LAMBDA r : r.basis, own),
         adjustment |-> MapThenSumSet(LAMBDA r : r.adjustment, own),
         net |-> MapThenSumSet(GainLossNet, own)]]

\* Slip: the last box is left out.
MutScheduleD(form) ==
    LET net(boxes) == MapThenSumSet(LAMBDA b : form[b].net, boxes)
        short == net({"A", "B", "C"})
        long  == net({"D", "E"})
    IN [short |-> short, long |-> long, total |-> short + long]

\* Schedule D adds up the boxes and never looks at the ledger.
ScheduleD(form) ==
    LET net(boxes) == MapThenSumSet(LAMBDA b : form[b].net, boxes)
        short == net({"A", "B", "C"})
        long  == net({"D", "E", "F"})
    IN [short |-> short, long |-> long, total |-> short + long]

\* The activity report adds up the rows on its own.
ActivityReport(rows) ==
    [proceeds |-> MapThenSumSet(LAMBDA r : r.proceeds, rows),
     basis    |-> MapThenSumSet(LAMBDA r : r.basis, rows),
     gain     |-> MapThenSumSet(GainLossNet, rows)]

-----------------------------------------------------------------------------
(* Properties                                                               *)

Sold == result # None /\ result.lines # <<>>

\* form_8949.py:11: "the anti-drift invariant: Schedule D total == sum of 8949 box
\* totals".  The forms and the activity report, which are added up along different ways,
\* agree to the last step, on any day: no line falls between the boxes, none is counted
\* twice or has a negative share of the proceeds, and what Schedule D taxes is what came
\* in, to the last step, less what it cost, plus what was disallowed.
FormsAgree ==
    Sold => \A date \in Dates, related \in BOOLEAN :
        LET rows   == Rows(result.lines, date, related)
            form   == Build8949(rows)
            report == ActivityReport(rows)
            disallowed == MapThenSumSet(LAMBDA r : r.adjustment, rows)
        IN /\ ScheduleD(form).total = report.gain
           /\ ScheduleD(form).total = result.call.proceeds - report.basis + disallowed
           /\ MapThenSumSet(LAMBDA b : form[b].proceeds, DOMAIN form) = report.proceeds
           /\ \A row \in rows : row.proceeds >= 0

\* reconcile.py:144: "Related-party disposal 267 loss disallowed -- col(h) = $0".  Sold to
\* a related party, the same lines show no loss in any box and keep every gain: one
\* line's loss is not set off against another's gain, and the difference between the two
\* forms is exactly what was disallowed.
LossesDisallowed ==
    Sold => \A date \in Dates :
        LET outside == Build8949(Rows(result.lines, date, FALSE))
            related == Build8949(Rows(result.lines, date, TRUE))
        IN \A b \in DOMAIN related :
            /\ related[b].net >= 0 /\ related[b].net >= outside[b].net
            /\ related[b].net = outside[b].net + related[b].adjustment
            /\ related[b].rows = outside[b].rows
=============================================================================
