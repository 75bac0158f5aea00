----------------------------- MODULE MeterFile ------------------------------
(***************************************************************************)
(* The import of a meter file: rows of a table become records of what was  *)
(* taken from the grid and given to it, each row being used, ignored or    *)
(* skipped with a reason.  Times are ends of readings on a grid of         *)
(* quarter-hours; a file whose times are off the grid is refused.          *)
(***************************************************************************)
EXTENDS Integers, FiniteSets, Functions

CONSTANTS
    HourSlots,  \* quarter-hours in an hour
    Missing,    \* an empty field
    Invalid     \* a date or a value that cannot be read

ASSUME HourAssumption == HourSlots \in Nat \ {0}
ASSUME MissingAssumption == Missing \notin Int

QuarterHour == 1

Total(S, value(_)) == SumFunction([x \in S |-> value(x)])

\* A row: its line, the end of the reading, the kind of energy, the value.
Consumption(row) == row.kind = "consumption"
Export(row) == row.kind = "export"

\* Rows with an empty field, and rows of energy neither taken nor given.
Incomplete(rows) == {r \in rows : Missing \in {r.end, r.kind, r.kwh}}
EnergyRows(rows) == {r \in rows \ Incomplete(rows) : Consumption(r) \/ Export(r)}
IgnoredRows(rows) == rows \ (Incomplete(rows) \union EnergyRows(rows))

ValidRows(rows) == {r \in EnergyRows(rows) : r.kwh # Invalid /\ r.kwh >= 0}
DatedRows(rows) == {r \in ValidRows(rows) : r.end # Invalid}

\* The row was there before: import and export of one moment may be equal.
Repeats(r, q) == q.line < r.line /\ q.end = r.end /\ q.kwh = r.kwh /\ Export(q) = Export(r)

\* The rows that count, of repeated ones the first.
Readings(rows) ==
    {r \in DatedRows(rows) : \A q \in DatedRows(rows) : ~Repeats(r, q)}

Ends(rows) == {r.end : r \in Readings(rows)}

\* The distances between consecutive ends.
Steps(ends) ==
    {p[2] - p[1] :
        p \in {q \in ends \X ends : q[1] < q[2] /\ \A u \in ends : u <= q[1] \/ u >= q[2]}}

\* detect_resolution_minutes: the resolutions a file may be read with, one or none.
Resolutions(ends) ==
    LET steps == Steps(ends)
    IN  {r \in {QuarterHour, HourSlots} :
            IF QuarterHour \in steps THEN r = QuarterHour
            ELSE r = HourSlots /\ \A s \in steps : s % HourSlots = 0}

MeterFileAccepted(rows) ==
    /\ \E r \in ValidRows(rows) : Consumption(r)
    /\ DatedRows(rows) # {}
    /\ Resolutions(Ends(rows)) # {}

Resolution(rows) == CHOOSE r \in Resolutions(Ends(rows)) : TRUE

\* One record for the start of each reading, import and export together.
Records(rows) ==
    LET at(t, Kind(_)) ==
            Total({r \in Readings(rows) : r.end = t /\ Kind(r)}, LAMBDA r : r.kwh)
    IN  {[start |-> t - Resolution(rows), used |-> at(t, Consumption), exported |-> at(t, Export)] :
            t \in Ends(rows)}

\* The import report kept with the results; skipped rows have a reason.
Report(rows) ==
    LET skipped == Incomplete(rows) \union (EnergyRows(rows) \ Readings(rows))
    IN  [total |-> Cardinality(rows),
         ignored |-> Cardinality(IgnoredRows(rows)),
         imported |-> Cardinality(Readings(rows)),
         skipped |-> Cardinality(skipped),
         resolution |-> Resolution(rows),
         gridImport |-> Total(Records(rows), LAMBDA r : r.used),
         gridExport |-> Total(Records(rows), LAMBDA r : r.exported)]
=============================================================================
