---------------------------- MODULE MCUsageViews ----------------------------
(***************************************************************************)
(* UsageViews for TLC: three files, a car charger and solar panels, three  *)
(* days of two quarter-hours.  Five device files and three meter files     *)
(* that overlap in all ways that matter: the same device twice, a device   *)
(* in one file only, production against consumption of another file, gaps, *)
(* and prices missing at the time of one import.                           *)
(***************************************************************************)
EXTENDS UsageViews

CONSTANTS ev, pv

MCFiles == 1 .. 3
MCDevices == {ev, pv}

Use(ds, ts) == [device : ds, slot : ts]
Span(s, e) == [start |-> s, end |-> e]
Energies(e, p) == [d \in MCDevices |-> IF d = ev THEN e ELSE -p]

Charger == [devices |-> {ev}, period |-> Span(0, 4), usage |-> Use({ev}, {1, 2})]
Both == [devices |-> {ev, pv}, period |-> Span(0, 4), usage |-> Use({ev}, {1}) \union Use({pv}, {1, 2})]
Panels == [devices |-> {pv}, period |-> Span(2, 4), usage |-> Use({pv}, {2})]
ShortCharger == [devices |-> {ev}, period |-> Span(1, 3), usage |-> Use({ev}, {1})]
LongPanels == [devices |-> {pv}, period |-> Span(1, 6), usage |-> Use({pv}, {1, 4})]
Hourly == [devices |-> {}, period |-> Span(0, 4), usage |-> {}]
WithGap == [devices |-> {}, period |-> Span(1, 5), usage |-> {}]
LastDays == [devices |-> {}, period |-> Span(3, 6), usage |-> {}]

MCContents == {Charger, Both, Panels, ShortCharger, LongPanels, Hourly, WithGap, LastDays}

MeterRow(line, end, kind, kwh) == [line |-> line, end |-> end, kind |-> kind, kwh |-> kwh]
Take(line, end, kwh) == MeterRow(line, end, "consumption", kwh)
Give(line, end, kwh) == MeterRow(line, end, "export", kwh)

\* By the quarter, with a reading repeated and an import equal to an export.
LastDaysRows == {Take(1, 4, 4), Give(2, 5, 2), Take(3, 5, 2), Take(4, 6, 6), Take(5, 6, 6)}
\* By the hour, two readings for one hour.
HourlyRows == {Take(1, 2, 8), Take(2, 2, 4), Take(3, 4, 2), Give(4, 4, 6)}
\* With a gap, and rows that bring nothing.
WithGapRows ==
    {Take(1, 2, 3), Take(2, 4, 1), Give(3, 4, 1), Take(4, 5, 2), Take(5, 3, -1),
     Take(6, 3, Invalid), Take(7, Invalid, 9), MeterRow(8, 3, "reactive", 7), MeterRow(9, 3, Missing, 7)}
\* Refused: nothing taken from the grid, and readings neither by the quarter nor the hour.
ExportRows == {Give(1, 2, 3)}
UnevenRows == {Take(1, 2, 3), Take(2, 5, 3)}

Import(content, kwh, records, flat, known) ==
    [content |-> content, kwh |-> kwh, rows |-> records,
     flat |-> [s \in 0 .. 1 |-> flat + s], known |-> known]
MeterImport(content, records, flat, known) == Import(content, Energies(0, 0), records, flat, known)
DeviceImport(content, kwh, flat, known) == Import(content, kwh, {}, flat, known)

MCImports ==
    {DeviceImport(Charger, Energies(4, 0), 1, [t \in 0 .. 3 |-> 10 + t]),
     DeviceImport(Both, Energies(5, 7), 2, [t \in 0 .. 1 |-> 20 + t]),
     DeviceImport(Panels, Energies(0, 3), 3, [t \in {3} |-> 30 + t]),
     DeviceImport(ShortCharger, Energies(2, 0), 4, [t \in {1, 3} |-> 40 + t]),
     DeviceImport(LongPanels, Energies(0, 2), 5, [t \in {1, 4, 5} |-> 60 + t]),
     MeterImport(LastDays, LastDaysRows, 3, [t \in {2, 4} |-> 70 + t]),
     MeterImport(Hourly, HourlyRows, 1, [t \in 0 .. 3 |-> 10 + t]),
     MeterImport(WithGap, WithGapRows, 2, [t \in {3} |-> 50 + t]),
     MeterImport(Hourly, ExportRows, 1, << >>),
     MeterImport(Hourly, UnevenRows, 1, << >>)}
=============================================================================
