----------------------------- MODULE UsageViews -----------------------------
(***************************************************************************)
(* What the user is shown of the files of DeviceFlags: the data of one     *)
(* file, of all files of a kind, and the use of devices by group with the  *)
(* rest of the house.  An upload stores the numbers it computed; the views *)
(* put them together with rows, flags and links that later uploads and     *)
(* deletions have changed.  A view is an operator on the tables.           *)
(*                                                                         *)
(* Energy is in whole units, time in quarter-hours of local time, and      *)
(* rounding to 6 decimals is the identity on them.                         *)
(***************************************************************************)
EXTENDS DeviceFlags, MeterFile, FiniteSets, FiniteSetsExt, Functions

CONSTANTS
    SlotsPerDay,
    Imports,    \* what a file may bring, with the prices stored at that time
    NoPrice,    \* a quarter-hour without a price
    NotSaved    \* a file whose contents are not in the database

ASSUME SlotsPerDayAssumption == SlotsPerDay \in Nat \ {0}
ASSUME DevicesAssumption == IsFiniteSet(Devices)

VARIABLE
    saved    \* per file: energy of the rows, energy_readings, stored results

viewVars == <<vars, saved>>

Day(t) == t \div SlotsPerDay
SlotOfDay(t) == t % SlotsPerDay
Max0(x) == IF x > 0 THEN x ELSE 0
DaysOf(series) == {Day(t) : t \in DOMAIN series}

----------------------------------------------------------------------------
(* An upload: what is computed from the parsed file and stored.            *)

\* _quarter_hours: a record split evenly over its quarter-hours.
QuarterHours(i) ==
    LET share(r, k) == [slot |-> r.start + k,
                        used |-> r.used \div Resolution(i.rows),
                        exported |-> r.exported \div Resolution(i.rows)]
    IN  UNION {{share(r, k) : k \in 0 .. (Resolution(i.rows) - 1)} : r \in Records(i.rows)}

\* quarter_hour_readings: grouped by quarter-hour.
MeterReadings(i) ==
    LET parts == QuarterHours(i)
    IN  [t \in {q.slot : q \in parts} |->
            LET here == {q \in parts : q.slot = t}
            IN  [used |-> Total(here, LAMBDA q : q.used),
                 exported |-> Total(here, LAMBDA q : q.exported)]]

\* DevicesParser: the balance of the devices in every quarter-hour of the
\* period, split into import and export.
Balance(i, t) == Total({u \in i.content.usage : u.slot = t}, LAMBDA u : i.kwh[u.device])
DeviceReadings(i) ==
    [t \in i.content.period.start .. (i.content.period.end - 1) |->
        [used |-> Max0(Balance(i, t)), exported |-> Max0(-Balance(i, t))]]

\* DynamicMarketPricing.slot_prices: whole days of prices, those stored at the
\* moment of the import.
SlotPrices(i, days) ==
    [day \in days |-> [s \in 0 .. (SlotsPerDay - 1) |->
        LET t == day * SlotsPerDay + s
        IN  IF t \in DOMAIN i.known THEN i.known[t] ELSE NoPrice]]

Source(i) == IF i.content.devices = {} THEN "meter" ELSE "devices"
Accepted(i) == Source(i) = "meter" => MeterFileAccepted(i.rows)

\* The end of the period taken for the last day of the data.
EndOfPeriod(usage) == Day(Max(DOMAIN usage) + 1)

\* statistics.data_end of summarize_usage
LastDay(usage) == Max(DaysOf(usage))

\* _price_column and _price_lookup
PriceAt(byDay, t) ==
    IF Day(t) \in DOMAIN byDay THEN byDay[Day(t)][SlotOfDay(t)] ELSE NoPrice

\* _tariff_cost: what is priced, scaled to the use without a price.
EstimatedCost(series, byDay) ==
    LET priced == {t \in DOMAIN series : PriceAt(byDay, t) # NoPrice}
        use(t) == series[t]
        cost == Total(priced, LAMBDA t : series[t] * PriceAt(byDay, t))
        covered == Total(priced, use)
    IN  IF priced = {} THEN NoPrice
        ELSE IF priced # DOMAIN series /\ covered > 0
             THEN (cost * Total(DOMAIN series, use)) \div covered
             ELSE cost
FlatCost(series, flat) == Total(DOMAIN series, LAMBDA t : series[t] * flat[SlotOfDay(t)])

\* _empty_results
EmptyResults ==
    [totalUsage |-> 0, estimatedCost |-> 0, flatCost |-> 0, records |-> 0,
     start |-> Missing, end |-> Missing, incomplete |-> {}]

\* summarize_usage: totals and statistics of a series; the charts are left out.
\* Records are not counted without a resolution, nor the actions of devices.
Summarize(usage, byDay, flat, resolution) ==
    LET slotsOf(day) == {t \in DOMAIN usage : Day(t) = day}
    IN  IF DOMAIN usage = {} THEN EmptyResults
        ELSE [totalUsage |-> Total(DOMAIN usage, LAMBDA t : usage[t]),
              estimatedCost |-> EstimatedCost(usage, byDay),
              flatCost |-> FlatCost(usage, flat),
              records |-> IF resolution = Missing THEN Missing
                          ELSE Cardinality(DOMAIN usage) \div resolution,
              start |-> Min(DaysOf(usage)),
              end |-> LastDay(usage),
              incomplete |-> {day \in DaysOf(usage) : Cardinality(slotsOf(day)) < SlotsPerDay}]

\* calculate: the results stored with a file; its records are counted in the file.
Results(i, usage, resolution) ==
    LET byDay == SlotPrices(i, DaysOf(usage))
        summary == Summarize(usage, byDay, i.flat, resolution)
    IN  [usage |-> usage, byDay |-> byDay, flat |-> i.flat, resolution |-> resolution,
         report |-> IF Source(i) = "meter" THEN Report(i.rows) ELSE Missing,
         summary |-> IF Source(i) = "meter"
                     THEN [summary EXCEPT !.records = Cardinality(Records(i.rows))]
                     ELSE summary]

\* _period: declared in a device file, measured in a meter file.
PeriodOf(i, readings) ==
    IF Source(i) = "devices" THEN i.content.period
    ELSE [start |-> Min(DOMAIN readings), end |-> Max(DOMAIN readings) + 1]

\* process_upload: what a file leaves in the database.
Stores(i) ==
    LET readings == IF Source(i) = "meter" THEN MeterReadings(i) ELSE DeviceReadings(i)
        usage == [t \in DOMAIN readings |-> readings[t].used]
        resolution == IF Source(i) = "meter" THEN Resolution(i.rows) ELSE Missing
        results == Results(i, usage, resolution)
    IN  [source |-> Source(i), kwh |-> i.kwh, readings |-> readings,
         results |-> results,
         start |-> results.summary.start, end |-> results.summary.end, rows |-> i.rows]

\* What the files of an instance may bring; a meter file has the period of its
\* readings, and energy is counted in a unit that lets them split evenly.
ASSUME ImportsAssumption ==
    \A i \in Imports :
        /\ i.content \in Contents
        /\ i.kwh \in [Devices -> Int]
        /\ i.flat \in [0 .. (SlotsPerDay - 1) -> Int]
        /\ \A t \in DOMAIN i.known : i.known[t] \in Int
        /\ IsFiniteSet(i.rows)
        /\ \A r \in i.rows : r.line \in Int /\ {r.end, r.kwh} \subseteq Int \union {Missing, Invalid}
        /\ \A r, q \in i.rows : r.line = q.line => r = q
        /\ Source(i) = "meter" /\ Accepted(i) =>
              /\ PeriodOf(i, MeterReadings(i)) = i.content.period
              /\ \A r \in Readings(i.rows) : r.kwh % Resolution(i.rows) = 0
ASSUME NotSavedAssumption == \A i \in Imports : Accepted(i) => Stores(i) # NotSaved

----------------------------------------------------------------------------
ViewInit == Init /\ saved = [f \in Files |-> NotSaved]

SaveImport(f, i) ==
    /\ Accepted(i)
    /\ SaveContents(f, i.content)
    /\ saved' = [saved EXCEPT ![f] = Stores(i)]

Delete(f) ==
    /\ DeleteFile(f)
    /\ saved' = [saved EXCEPT ![f] = NotSaved]

ViewNext ==
    \E f \in Files :
        \/ CreateFile(f) /\ UNCHANGED saved
        \/ MarkFailed(f) /\ UNCHANGED saved
        \/ \E i \in Imports : SaveImport(f, i)
        \/ SaveSimulation(f) /\ UNCHANGED saved
        \/ LoseUpload(f) /\ UNCHANGED saved
        \/ Delete(f)

ViewSpec == ViewInit /\ [][ViewNext]_viewVars

----------------------------------------------------------------------------
(* Which files a view reads.                                               *)

\* An error answer, which has no days.
Refused == {}

\* list_completed_by_user_id
Completed(source) ==
    {f \in Files : status[f] = "completed" /\ saved[f].source = source}

Usage(f) == saved[f].results.usage
PricesOf(f) == saved[f].results.byDay

\* The files whose simulation has a usage series; the others are skipped.
MergedOf(source) == Completed(source) \intersect simulations

\* _resolve_range: a missing end of the range is the end of the data.
ResolveRange(start, end, from, to) ==
    LET first == IF from = Missing THEN start ELSE from
        last == IF to = Missing THEN end ELSE to
    IN  IF first > last \/ first < start \/ last > end THEN Refused ELSE first .. last

\* _aggregate_summary
Summary(source) ==
    [start |-> Min({saved[f].start : f \in Completed(source)}),
     end |-> Max({saved[f].end : f \in Completed(source)})]

----------------------------------------------------------------------------
(* Merging.                                                                *)

\* From nothing, each file added to what the older ones gave.
OldestFirst(add(_, _), files) ==
    MapThenFoldSet(LAMBDA f, merged : add(merged, f), <<>>, LAMBDA f : f, Max, files)

\* dict.update
Updated(old, new) ==
    [x \in DOMAIN old \union DOMAIN new |-> IF x \in DOMAIN new THEN new[x] ELSE old[x]]

\* merge_usage: a newer reading replaces an older one, a gap replaces nothing.
MergeUsage(files) ==
    OldestFirst(LAMBDA merged, f : Updated(merged, Usage(f)), files)

\* device_coverage
Covering(files) ==
    [t \in UNION {DOMAIN Usage(f) : f \in files} |->
        {f \in files : t \in DOMAIN Usage(f)}]

\* The sum of the imports of single devices.
ImportOfEachDevice(rs, t) ==
    Total({r \in rs : r.slot = t}, LAMBDA r : Max0(saved[r.file].kwh[r.device]))

\* merged_grid_import in one quarter-hour: production covers consumption first.
GridImport(rs, t) ==
    Max0(Total({r \in rs : r.slot = t}, LAMBDA r : saved[r.file].kwh[r.device]))

\* device_usage_series: zero where a file covers the quarter-hour without use.
DeviceSeries(files) ==
    LET current == {r \in rows \ superseded : r.file \in files}
        covered == DOMAIN Covering(files)
    IN  [t \in covered \union {r.slot : r \in current} |-> GridImport(current, t)]

\* An older file keeps what it has before a newer one claims it.
ContributionOfOldest(files, f) ==
    LET covering == Covering(files)
    IN  {t \in DOMAIN covering :
            /\ f \in covering[t]
            /\ links[f] \ UNION {links[g] : g \in {h \in covering[t] : h < f}} # {}}

\* device_contributions: the quarter-hours in which a file has a device that
\* no newer file covering them has.
Contribution(files, f) ==
    LET covering == Covering(files)
    IN  {t \in DOMAIN covering :
            /\ f \in covering[t]
            /\ links[f] \ UNION {links[g] : g \in {h \in covering[t] : h > f}} # {}}

\* The newer day of prices taken as a whole.
NewerDay(old, new) == new

\* A known price replaces an older one, an unknown price replaces nothing.
KnownPrices(old, new) ==
    [s \in DOMAIN new |-> IF new[s] # NoPrice THEN new[s] ELSE old[s]]

\* merge_slot_prices for the dynamic tariff
MergePrices(files) ==
    LET unknown == [s \in 0 .. (SlotsPerDay - 1) |-> NoPrice]
        addFile(merged, f) ==
            Updated(merged,
                    [day \in DOMAIN PricesOf(f) |->
                        KnownPrices(IF day \in DOMAIN merged THEN merged[day] ELSE unknown,
                                    PricesOf(f)[day])])
    IN  OldestFirst(addFile, files)

\* merge_slot_prices for the others
MergeFlat(files) == saved[Max(files)].results.flat

\* The merged series of get_all_files_data
AllFilesSeries(source) ==
    IF source = "devices" THEN DeviceSeries(MergedOf(source)) ELSE MergeUsage(MergedOf(source))

\* calculate_for_range
ForRange(results, days) ==
    Summarize(Restrict(results.usage, {t \in DOMAIN results.usage : Day(t) \in days}),
              results.byDay, results.flat, results.resolution)

\* get_file_data: the days of an answer, and what it says of them.
FileDays(f, from, to) ==
    IF status[f] = "completed" /\ f \in simulations
    THEN ResolveRange(saved[f].start, saved[f].end, from, to)
    ELSE Refused
FileData(f, days) == ForRange(saved[f].results, days)

\* get_all_files_data
MergedResults(source) ==
    LET files == MergedOf(source)
        resolutions == {saved[f].results.resolution : f \in files}
    IN  [usage |-> AllFilesSeries(source), byDay |-> MergePrices(files), flat |-> MergeFlat(files),
         resolution |-> IF Cardinality(resolutions) = 1
                        THEN CHOOSE r \in resolutions : TRUE ELSE Missing]
AllFilesDays(source, from, to) ==
    IF MergedOf(source) = {} THEN Refused
    ELSE LET days == DaysOf(AllFilesSeries(source))
         IN  ResolveRange(Min(days), Max(days), from, to)
AllFilesData(source, days) == ForRange(MergedResults(source), days)

----------------------------------------------------------------------------
(* DeviceUsageService.get_usage                                            *)

\* _source and slot_usage: flagged rows belong to the view of their own file.
AllDeviceFiles == [files |-> MergedOf("devices"), current |-> TRUE]
OneFile(f) == [files |-> {f}, current |-> FALSE]
Sources == (IF AllDeviceFiles.files = {} THEN {} ELSE {AllDeviceFiles})
               \union {OneFile(f) : f \in MergedOf("devices")}

\* _range, which the device view keeps for itself.
UsageRange(src, from, to) ==
    LET covered == DaysOf(Covering(src.files))
        first == IF from = Missing THEN Min(covered) ELSE from
        last == IF to = Missing THEN Max(covered) ELSE to
    IN  IF \/ covered = {}
           \/ first > last
           \/ first < Min(covered) \/ last > Max(covered)
        THEN Refused ELSE first .. last

SlotUsage(src, days) ==
    {r \in rows : /\ r.file \in src.files
                  /\ Day(r.slot) \in days
                  /\ src.current => r \notin superseded}

Kwh(r) == saved[r.file].kwh[r.device]

\* _matches and the loop over the rows
Consumed(rs, chosen) == {r \in rs : r.device \in chosen /\ Kwh(r) >= 0}
Produced(rs, chosen) == {r \in rs : r.device \in chosen /\ Kwh(r) < 0}
GroupsKwh(rs, chosen) == Total(Consumed(rs, chosen), Kwh)
ProductionKwh(rs, chosen) == Total(Produced(rs, chosen), LAMBDA r : -Kwh(r))
GroupsCost(rs, chosen, byDay) ==
    Total({r \in Consumed(rs, chosen) : PriceAt(byDay, r.slot) # NoPrice},
          LAMBDA r : Kwh(r) * PriceAt(byDay, r.slot))
MissingPriceSlots(rs, chosen, byDay) ==
    {r \in Consumed(rs, chosen) : PriceAt(byDay, r.slot) = NoPrice /\ Kwh(r) > 0}
GroupsFlatCost(rs, chosen, flat) ==
    Total(Consumed(rs, chosen), LAMBDA r : Kwh(r) * flat[SlotOfDay(r.slot)])

\* The balance of the devices the filter lets through.
NetOfChosen(rs, chosen, t) == Total({r \in rs : r.slot = t /\ r.device \in chosen}, Kwh)

\* device_net, added up before the filter.
DeviceNet(rs, chosen, t) == Total({r \in rs : r.slot = t}, Kwh)

\* _meter_files: all of them or one.
MeterFiles == {{f} : f \in Completed("meter")} \union ({Completed("meter")} \ {{}})

\* merged_for_files: DISTINCT ON the time, the newest upload first.
NewestReading(files, t) == Max({f \in files : t \in DOMAIN saved[f].readings})

MergedReadings(files, days) ==
    [t \in {s \in UNION {DOMAIN saved[f].readings : f \in files} : Day(s) \in days} |->
        saved[NewestReading(files, t)].readings[t]]

\* The quarter-hours of _rest_of_house: those with a reading, on days that
\* both the meter and the devices have.
RestSlots(src, meter, days) ==
    {t \in DOMAIN MergedReadings(meter, days) : Day(t) \in DaysOf(Covering(src.files))}

MeterNet(meter, days, t) ==
    LET reading == MergedReadings(meter, days)[t] IN reading.used - reading.exported

RestOfHouse(src, chosen, meter, days) ==
    LET rs == SlotUsage(src, days)
    IN  Total(RestSlots(src, meter, days),
              LAMBDA t : Max0(MeterNet(meter, days, t) - DeviceNet(rs, chosen, t)))

----------------------------------------------------------------------------
(* Properties.                                                             *)

AllDays == UNION {DaysOf(Usage(f)) : f \in {g \in Files : saved[g] # NotSaved}}

\* What the rows of a meter file say: every different reading once.
TakenFromGrid(rs) ==
    Total({<<r.end, r.kwh>> : r \in {q \in rs : q.kind = "consumption"}}, LAMBDA p : p[2])
GivenToGrid(rs) ==
    Total({<<r.end, r.kwh>> : r \in {q \in rs : q.kind = "export"}}, LAMBDA p : p[2])

MeterViewIsItsImport(f) ==
    LET rs == {r \in saved[f].rows : /\ Missing \notin {r.end, r.kind, r.kwh}
                                     /\ Invalid \notin {r.end, r.kwh} /\ r.kwh >= 0}
        report == saved[f].results.report
        readings == saved[f].readings
    IN  /\ TakenFromGrid(rs) = report.gridImport
        /\ TakenFromGrid(rs) = Total(DOMAIN readings, LAMBDA t : readings[t].used)
        /\ GivenToGrid(rs) = report.gridExport
        /\ GivenToGrid(rs) = Total(DOMAIN readings, LAMBDA t : readings[t].exported)
        /\ report.total = report.imported + report.ignored + report.skipped

DeviceViewIsItsImport(f) ==
    LET rs == SlotUsage(OneFile(f), AllDays)
        own == saved[f].results
        summary == own.summary
    IN  /\ {r.slot : r \in rs} \subseteq DOMAIN own.usage
        /\ \A t \in DOMAIN own.usage : own.usage[t] = GridImport(rs, t)
        /\ Produced(rs, Devices) = {} /\ GroupsKwh(rs, Devices) > 0 =>
              /\ MissingPriceSlots(rs, Devices, own.byDay) = {} =>
                    GroupsCost(rs, Devices, own.byDay) = summary.estimatedCost
              /\ GroupsFlatCost(rs, Devices, own.flat) = summary.flatCost

\* Whatever came after it, a file shows what it brought.  The rows of a device
\* file are changed by the uploads and deletions of other files, its stored
\* results are not: its device view still adds up to the usage its own view
\* shows, and the groups cost what the dashboard says, "tak jak koszt pliku na
\* Dashboardzie" (device_usage_service.py), unless production covers some of
\* the use or the view counts missing prices.  A meter file keeps the energy of
\* its valid rows, repeated ones once, in three places, and every row is
\* imported, ignored or skipped.
FileViewIsItsImport ==
    /\ \A f \in MergedOf("devices") : DeviceViewIsItsImport(f)
    /\ \A f \in Completed("meter") : MeterViewIsItsImport(f)

\* What the newest file with a device says of it in a quarter-hour.
NewestKwh(d, t) ==
    LET having == {f \in MergedOf("devices") : d \in links[f] /\ Within(period[f], t)}
    IN  IF having = {} THEN 0
        ELSE LET f == Max(having)
             IN  IF [file |-> f, device |-> d, slot |-> t] \in rows THEN saved[f].kwh[d] ELSE 0

NoFileWithoutSimulation(source) == Completed(source) \subseteq simulations

\* "Wszystkie pliki urzadzen": in every quarter-hour that some file covers the
\* import is the balance of all devices, each as the newest file that has it
\* and covers the quarter-hour says, production first covering the use of
\* devices known from other files.  The series comes from flags and rows kept
\* in the database and from coverage kept in the stored results.
SeriesFollowsNewestFile ==
    NoFileWithoutSimulation("devices") =>
        LET files == MergedOf("devices")
            series == DeviceSeries(files)
        IN  /\ DOMAIN series = DOMAIN Covering(files)
            /\ \A t \in DOMAIN series : series[t] = Max0(Total(Devices, LAMBDA d : NewestKwh(d, t)))

\* The list of files under "all files" says how many quarter-hours come from
\* each.  It is computed from device sets and stored series, not from the
\* flags; both must tell the same story: a file with an unflagged row in a
\* quarter-hour contributes there, and where it contributes and all its
\* devices run, one of its rows is unflagged.
ContributionsFollowFlags ==
    NoFileWithoutSimulation("devices") =>
        LET files == MergedOf("devices")
        IN  \A f \in files :
                LET used == Contribution(files, f)
                    here(t) == {r \in rows : r.file = f /\ r.slot = t}
                IN  /\ \A r \in rows \ superseded : r.file = f => r.slot \in used
                    /\ \A t \in used :
                          {r.device : r \in here(t)} = links[f] => ~(here(t) \subseteq superseded)

\* Devices chosen by a filter, all the others, and the rest of the house make
\* up the meter: what a filter hides does not reappear as the rest, and where
\* the devices use more than the meter shows, the rest is nothing.
TheHouseAddsUp ==
    \A src \in Sources :
        LET covered == DaysOf(Covering(src.files))
            ranges == {UsageRange(src, Missing, Missing)} \union {UsageRange(src, d, d) : d \in covered}
        IN  \A days \in ranges, meter \in MeterFiles \union {{}}, chosen \in SUBSET Devices :
                LET rs == SlotUsage(src, days)
                    measured == RestSlots(src, meter, days)
                    net(t) == DeviceNet(rs, Devices, t)
                IN  GroupsKwh(rs, chosen) + GroupsKwh(rs, Devices \ chosen)
                        - ProductionKwh(rs, chosen) - ProductionKwh(rs, Devices \ chosen)
                        + RestOfHouse(src, chosen, meter, days)
                    = Total(measured, LAMBDA t : Max({MeterNet(meter, days, t), net(t)}))
                        + Total({r.slot : r \in rs} \ measured, net)

\* Merging never loses a price: a quarter-hour priced at the import of some
\* merged file is priced in the merged list, by the newest file that knows it,
\* also where a newer file covers the day without prices.
PricedStaysPriced ==
    \A source \in {"meter", "devices"} :
        LET files == MergedOf(source)
            merged == MergePrices(files)
            knowing(t) == {f \in files : PriceAt(PricesOf(f), t) # NoPrice}
        IN  \A f \in files : \A t \in DOMAIN Usage(f) :
                knowing(t) # {} =>
                    PriceAt(merged, t) = PriceAt(PricesOf(Max(knowing(t))), t)

\* Days a user may ask for.
AskedDays == AllDays \union {Missing}

AllFilesRangeIsAnswered(source) ==
    LET listed == Summary(source)
        days == listed.start .. listed.end
    IN  /\ AllFilesDays(source, Missing, Missing) = days
        /\ DaysOf(AllFilesSeries(source)) \subseteq days
        /\ \A f \in MergedOf(source) : MergedOf(source) = {f} =>
              AllFilesData(source, days) = FileData(f, days)

FileRangeIsAnswered(f) ==
    LET days == saved[f].start .. saved[f].end
        whole == saved[f].results.summary
    IN  /\ FileDays(f, saved[f].start, saved[f].end) = days
        /\ FileData(f, days) = whole
        /\ \A day \in days :
              LET before == FileData(f, FileDays(f, Missing, day))
                  after == FileData(f, days \ FileDays(f, Missing, day))
              IN  /\ before.totalUsage + after.totalUsage = whole.totalUsage
                  /\ before.flatCost + after.flatCost = whole.flatCost

\* The list of files offers a range of dates for each file and for "all files".
\* The dashboard answers all of it and has nothing outside it, and the device
\* view, which finds its range by itself, accepts what the dashboard accepts.
\* Asked for the whole range of a file the dashboard computes again what the
\* import stored, "te same kwoty co przy imporcie" (calculation_service.py), and
\* parts of the range add up to it; the view of all files made of one file is
\* the view of that file.
ListedRangeIsAnswered ==
    /\ \A source \in {"meter", "devices"} :
          Completed(source) # {} /\ NoFileWithoutSimulation(source) => AllFilesRangeIsAnswered(source)
    /\ \A f \in MergedOf("meter") \union MergedOf("devices") : FileRangeIsAnswered(f)
    /\ \A from, to \in AskedDays :
          /\ \A f \in MergedOf("devices") :
                UsageRange(OneFile(f), from, to) = FileDays(f, from, to)
          /\ UsageRange(AllDeviceFiles, from, to) = AllFilesDays("devices", from, to)
=============================================================================
