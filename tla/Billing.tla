------------------------------- MODULE Billing -------------------------------
(***************************************************************************)
(* The bill of one meter file in every tariff: readings are put into       *)
(* billing cycles, balanced with the energy given to the grid (net         *)
(* metering or net billing), charged by the rates of each day and settled  *)
(* (new_calculations_service, pv_service, tariff_engine).                  *)
(*                                                                         *)
(* A step is one cycle of one tariff: the loop over tariffs works on a     *)
(* copy of the details, and a tariff that fails is left out.               *)
(*                                                                         *)
(* Days are numbered from the first day of the calendar. Energy is in      *)
(* tenths of a unit, as the factor of net metering is 0.8 or 0.7.          *)
(***************************************************************************)
EXTENDS Integers, Sequences, FiniteSets, FiniteSetsExt, SequencesExt

CONSTANTS
    MonthLengths,  \* lengths of the months of the calendar, a sequence
    ValidityMonths, \* months that a credit lives beyond its cycle ("a year")
    BillingStart,  \* first day of a billing period: [m |-> month, d |-> day]
    CycleMonths,   \* length of a billing cycle
    FileDays,      \* days of the file
    Intervals,     \* quarter-hours of a day: pairs of hour and quarter
    Patterns,      \* what the meter may read on a day: [Intervals -> readings]
    Tariffs,       \* tariffs with rates, in the order of the loop
    ZoneOf,        \* ZoneOf[t][hour], 1 is the dearest zone
    Definitions,   \* Definitions[t]: sequence of [from, to, rates]
    Periods,       \* regulatory periods: sequence of [from, to, vat]
    Dynamic,       \* the tariff that is charged by the market price
    KFactor,       \* tenths of the surplus that net metering gives back
    PriceTables,   \* possible market prices by hour
    NoPrice        \* an hour without a price

ASSUME BillingAssumption ==
    /\ MonthLengths \in Seq(Nat \ {0})
    /\ BillingStart \in [m : DOMAIN MonthLengths, d : Nat \ {0}]
    /\ CycleMonths \in Nat \ {0} /\ ValidityMonths \in Nat
    /\ KFactor \in 0..10

ASSUME DataAssumption ==
    /\ FileDays \subseteq Nat \ {0} /\ IsFiniteSet(FileDays)
    /\ Intervals \subseteq Nat \X Nat /\ IsFiniteSet(Intervals)
    /\ \A p \in Patterns : p = << >> \/ p \in [Intervals -> [used : Nat, exported : Nat]]
    /\ NoPrice \notin Int
    /\ \A p \in PriceTables, x \in Intervals : p[x[1]] \in Int \cup {NoPrice}

ASSUME RatesAssumption ==
    /\ Tariffs \in Seq(Range(Tariffs))
    /\ \A t \in Range(Tariffs) :
           /\ \A x \in Intervals : ZoneOf[t][x[1]] \in Nat
           /\ Definitions[t] \in Seq([from : Int, to : Int, rates : Seq(Nat)])
    /\ Periods \in Seq([from : Int, to : Int, vat : Nat])

VARIABLES
    readings,  \* readings[d]: pattern of day d
    pv,        \* mode of the installation in the profile
    prices,    \* market price of each hour
    phase,
    turn,      \* index of the tariff at work
    cyc,       \* index of the cycle at work
    details,   \* details[n]: energy of cycle n in the copy of this tariff
    store,     \* credits of net metering, oldest first
    ledger,    \* which credit paid how much in which cycle
    deposit,   \* money for surplus in net billing
    bill,      \* charged cycles of this tariff
    results    \* results[t]: the finished bill, or that there is none

vars == <<readings, pv, prices, phase, turn, cyc, details, store, ledger,
          deposit, bill, results>>

Pending == [state |-> "pending"]
Failed == [state |-> "error"]

Sum(f(_), S) == SumFunction([x \in S |-> f(x)])
\* The members of a finite set of numbers in increasing order.
InOrder(S) == [i \in 1..Cardinality(S) |->
                  CHOOSE x \in S : Cardinality({y \in S : y < x}) = i - 1]

-----------------------------------------------------------------------------
(* Calendar and cycles *)

\* The days of the months before m, and the first day of m.
DaysBefore(m) == UNION {{i} \X (1..MonthLengths[i]) : i \in 1..(m - 1)}
MonthStart == [m \in 1..(Len(MonthLengths) + 1) |-> 1 + Cardinality(DaysBefore(m))]
DayNo(date) == MonthStart[date.m] + date.d - 1
DateOf(n) == LET m == Max({i \in DOMAIN MonthLengths : MonthStart[i] <= n})
             IN [m |-> m, d |-> n - MonthStart[m] + 1]

\* A month that is too short takes its last day.
AddMonths(date, k) ==
    [m |-> date.m + k, d |-> Min({date.d, MonthLengths[date.m + k]})]

\* The calendar reaches from the cycle before the file to the last deadline.
ASSUME CalendarAssumption ==
    \A day \in FileDays :
        /\ DateOf(day).m >= 2 * CycleMonths
        /\ DateOf(day).m + CycleMonths + ValidityMonths <= Len(MonthLengths)

\* Mutants: the cycle of a month, also before its day; a cycle that ends a day late;
\* expiry a cycle late; empty credits that stay; the cheapest zone first; one copy
\* of the details for all tariffs; the rates of the first day for the whole cycle.
CycleOfMonth(day) ==
    DayNo(AddMonths(BillingStart,
        ((DateOf(day).m - BillingStart.m) \div CycleMonths) * CycleMonths))
CycleStart(day) ==
    LET periods == (DateOf(day).m - BillingStart.m) \div CycleMonths
        candidate == AddMonths(BillingStart, periods * CycleMonths)
    IN DayNo(IF DayNo(candidate) > day THEN AddMonths(candidate, -CycleMonths)
                                       ELSE candidate)

LateCycleEnd(start) == DayNo(AddMonths(DateOf(start), CycleMonths))
CycleEnd(start) == DayNo(AddMonths(DateOf(start), CycleMonths)) - 1

Deadline(start) == DayNo(AddMonths(DateOf(start), CycleMonths + ValidityMonths))

ReadDays == {d \in FileDays : readings[d] /= << >>}
FirstDay == Min(ReadDays)
LastDay == Max(ReadDays)
CycleStarts == InOrder({CycleStart(d) : d \in ReadDays})
DaysOfCycle(start) == {d \in ReadDays : CycleStart(d) = start}

Moments(start) == DaysOfCycle(start) \X Intervals
Used(x) == 10 * readings[x[1]][x[2]].used
Exported(x) == 10 * readings[x[1]][x[2]].exported
Hour(x) == x[2][1]
Price(x) == prices[Hour(x)]

\* Definitions that hold for a day of the file, each at its place, and the tariffs
\* that have one.
ListForPeriod(t) ==
    Restrict(Definitions[t], {i \in DOMAIN Definitions[t] :
                                  /\ Definitions[t][i].from <= LastDay
                                  /\ Definitions[t][i].to >= FirstDay})
Offered == LET places == InOrder({i \in DOMAIN Tariffs : ListForPeriod(Tariffs[i]) /= << >>})
           IN [n \in DOMAIN places |-> Tariffs[places[n]]]

\* Only readings that took energy become records of the cycle.
UsedRecords(start) ==
    [kind |-> "records",
     by |-> [x \in {x \in Moments(start) : Used(x) > 0} |-> Used(x)]]

Tariff == Offered[turn]
Zones(t) == {ZoneOf[t][x[1]] : x \in Intervals}
\* The use of a quarter-hour in the details at work.
RecordedUse(x) ==
    IF details[cyc].kind = "records" /\ x \in DOMAIN details[cyc].by
    THEN details[cyc].by[x] ELSE 0

-----------------------------------------------------------------------------
(* Net metering *)

\* Balance of each hour of each day of the cycle.
HourBalance(start, used) ==
    [h \in {<<x[1], Hour(x)>> : x \in Moments(start)} |->
        Sum(LAMBDA x : used[x] - Exported(x),
            {x \in Moments(start) : x[1] = h[1] /\ Hour(x) = h[2]})]

CheapZonesFirst(left, zones) ==
    LET others(z) == Sum(LAMBDA y : zones[y], {y \in DOMAIN zones : y > z})
        paid(z) == Min({zones[z], Max({0, left - others(z)})})
    IN [left |-> left - Sum(paid, DOMAIN zones),
        zones |-> [z \in DOMAIN zones |-> zones[z] - paid(z)]]

\* Energy `left` pays for the zones, each with what the dearer ones leave.
CoverZones(left, zones) ==
    LET dearer(z) == Sum(LAMBDA y : zones[y], {y \in DOMAIN zones : y < z})
        paid(z) == Min({zones[z], Max({0, left - dearer(z)})})
    IN [left |-> left - Sum(paid, DOMAIN zones),
        zones |-> [z \in DOMAIN zones |-> zones[z] - paid(z)]]

LateExpiry(start) ==
    LET alive == {i \in DOMAIN store : Deadline(store[i].cycle) >= start}
    IN IF alive = {} THEN << >> ELSE SubSeq(store, Min(alive), Len(store))
NotExpired(start) ==
    LET alive == {i \in DOMAIN store : Deadline(store[i].cycle) > start}
    IN IF alive = {} THEN << >> ELSE SubSeq(store, Min(alive), Len(store))

\* Credits pay in their order; an empty one leaves the store.
TakeCredits(credits, zones) ==
    FoldLeft(LAMBDA acc, p :
                 LET covered == CoverZones(p.kwh, acc.zones)
                 IN [zones |-> covered.zones,
                     store |-> IF covered.left > 0
                               THEN Append(acc.store, [p EXCEPT !.kwh = covered.left])
                               ELSE acc.store,
                     paid |-> acc.paid \cup
                                  {[from |-> p.cycle, kwh |-> p.kwh - covered.left]}],
             [zones |-> zones, store |-> << >>, paid |-> {}], credits)

NetMetering(t, start) ==
    LET balance == HourBalance(start, [x \in Moments(start) |-> RecordedUse(x)])
        surplus == Sum(LAMBDA h : (KFactor * (0 - balance[h])) \div 10,
                       {h \in DOMAIN balance : balance[h] < 0})
        needed == [z \in Zones(t) |->
                      Sum(LAMBDA h : balance[h],
                          {h \in DOMAIN balance :
                              balance[h] > 0 /\ ZoneOf[t][h[2]] = z})]
        own == CoverZones(surplus, needed)
        kept == NotExpired(start)
        taken == TakeCredits(kept, own.zones)
    IN IF own.left > 0
       THEN [zones |-> own.zones, paid |-> {},
             store |-> Append(kept, [kwh |-> own.left, cycle |-> start])]
       ELSE taken

-----------------------------------------------------------------------------
(* Net billing *)

\* Quarter-hours with records and what is left of them.
Balance(x) == RecordedUse(x) - Exported(x)
Surplus(start) == {x \in Moments(start) : Balance(x) < 0}
NetRecords(start) ==
    [kind |-> "records",
     by |-> [x \in {x \in Moments(start) : /\ RecordedUse(x) + Exported(x) > 0
                                           /\ Balance(x) >= 0} |-> Balance(x)]]
MoneyForSurplus(start) ==
    Sum(LAMBDA x : (0 - Balance(x)) * Max({Price(x), 0}), Surplus(start))

-----------------------------------------------------------------------------
(* Rates and charges *)

Covers(item, day) == item.from <= day /\ day <= item.to
CoveringIndexes(items, day) == {i \in DOMAIN items : Covers(items[i], day)}

\* Days of the cycle in the period of the file.
BilledDays(start) ==
    Max({start, FirstDay})..Min({CycleEnd(start), LastDay})

OneSegment(t, days) ==
    IF days = {} THEN {}
    ELSE {[def |-> Min(CoveringIndexes(ListForPeriod(t), Min(days))),
           period |-> Min(CoveringIndexes(Periods, Min(days))), days |-> days]}

\* Days with the same rates and the same regulatory period.
Segments(t, days) ==
    LET key(d) == <<Min(CoveringIndexes(ListForPeriod(t), d)),
                    Min(CoveringIndexes(Periods, d))>>
    IN {[def |-> k[1], period |-> k[2], days |-> {d \in days : key(d) = k}] :
            k \in {key(d) : d \in days}}

\* The energy of a cycle, weighed by the segment and zone it falls in. Records
\* fall in the segment of their day; energy that was balanced by zones is divided
\* as the use before balancing was, or by days.
SplitEnergy(energy, segments, start, weight) ==
    IF energy.kind = "records"
    THEN Sum(LAMBDA s : Sum(LAMBDA x : energy.by[x] * weight[s][ZoneOf[Tariff][Hour(x)]],
                            {x \in DOMAIN energy.by : x[1] \in s.days}), segments)
    ELSE LET raw(s, z) == Sum(Used, {x \in Moments(start) :
                                        x[1] \in s.days /\ ZoneOf[Tariff][Hour(x)] = z})
             known(z) == \E s \in segments : raw(s, z) > 0
             share(s, z) == IF known(z) THEN raw(s, z) ELSE Cardinality(s.days)
         IN Sum(LAMBDA z : (energy.by[z] *
                                Sum(LAMBDA s : share(s, z) * weight[s][z], segments))
                           \div Sum(LAMBDA s : share(s, z), segments),
                DOMAIN energy.by)

\* What the energy costs with tax: the rate of its zone, in the dynamic tariff the
\* market price and the margin. (Other amounts by kWh follow the same energy.)
ActiveEnergyGross(energy, segments, start) ==
    LET tax(s) == 100 + Periods[s.period].vat
        rate == [s \in segments |->
                    [z \in Zones(Tariff) |-> tax(s) * ListForPeriod(Tariff)[s.def].rates[z]]]
        market(s) == Sum(LAMBDA x : energy.by[x] * Price(x) * tax(s),
                         {x \in DOMAIN energy.by : x[1] \in s.days})
    IN SplitEnergy(energy, segments, start, rate)
       + IF Tariff = Dynamic THEN Sum(market, segments) ELSE 0

\* What makes a tariff fail: rates of other zones, days without rates, readings
\* beyond the days of their cycle, no price, and energy without times in the
\* dynamic tariff - also no energy.
Recorded(energy) == IF energy.kind = "records" THEN DOMAIN energy.by ELSE {}
CannotCharge(t, energy, start) ==
    \/ \E def \in Range(ListForPeriod(t)) : DOMAIN def.rates /= Zones(t)
    \/ \E d \in BilledDays(start) : CoveringIndexes(ListForPeriod(t), d) = {}
    \/ \E x \in Recorded(energy) : x[1] \notin BilledDays(start)
    \/ /\ t = Dynamic
       /\ \/ Recorded(energy) = {}
          \/ \E x \in Recorded(energy) : Price(x) = NoPrice

-----------------------------------------------------------------------------
Init ==
    /\ readings \in [FileDays -> Patterns]
    /\ pv \in {"none", "net_metering", "net_billing"}
    /\ prices \in PriceTables
    /\ phase = "details" /\ turn = 1 /\ cyc = 1
    /\ details = << >> /\ store = << >> /\ ledger = {} /\ deposit = 0
    /\ bill = << >>
    /\ results = [t \in Range(Tariffs) |-> Pending]

\* compute_calculation_details and the checks before the loop: without
\* readings or rates, or with a day without regulatory fees, there is no bill.
Prepare ==
    /\ phase = "details"
    /\ phase' = IF \/ ReadDays = {} \/ Offered = << >>
                   \/ \E d \in FirstDay..LastDay : CoveringIndexes(Periods, d) = {}
                THEN "refused" ELSE "next"
    /\ UNCHANGED <<readings, pv, prices, turn, cyc, details, store, ledger,
                   deposit, bill, results>>

SharedDetails == IF turn = 1 THEN [n \in DOMAIN CycleStarts |-> UsedRecords(CycleStarts[n])]
                 ELSE details
CopyOfDetails == [n \in DOMAIN CycleStarts |-> UsedRecords(CycleStarts[n])]

\* Each tariff starts from a copy of the details.
NextTariff ==
    /\ phase = "next" /\ turn \in DOMAIN Offered
    /\ details' = CopyOfDetails
    /\ phase' = IF pv = "none" THEN "charge" ELSE "balance"
    /\ cyc' = 1 /\ store' = << >> /\ ledger' = {} /\ deposit' = 0 /\ bill' = << >>
    /\ UNCHANGED <<readings, pv, prices, turn, results>>

\* A tariff that fails is noted and the loop goes on.
Fail ==
    /\ results' = [results EXCEPT ![Tariff] = Failed]
    /\ turn' = turn + 1 /\ phase' = "next"
    /\ UNCHANGED <<readings, pv, prices, cyc, details, store, ledger, deposit, bill>>

AdvanceBalancing ==
    /\ phase' = IF cyc = Len(CycleStarts) THEN "charge" ELSE "balance"
    /\ cyc' = IF cyc = Len(CycleStarts) THEN 1 ELSE cyc + 1

BalanceMetering ==
    /\ phase = "balance" /\ pv = "net_metering"
    /\ LET start == CycleStarts[cyc]
           balanced == NetMetering(Tariff, start)
       IN /\ details' = [details EXCEPT ![cyc] = [kind |-> "zones", by |-> balanced.zones]]
          /\ store' = balanced.store
          /\ ledger' = ledger \cup
                 {[from |-> p.from, to |-> start, kwh |-> p.kwh] :
                     p \in {p \in balanced.paid : p.kwh > 0}}
    /\ AdvanceBalancing
    /\ UNCHANGED <<readings, pv, prices, turn, deposit, bill, results>>

BalanceBilling ==
    /\ phase = "balance" /\ pv = "net_billing"
    /\ \A x \in Surplus(CycleStarts[cyc]) : Price(x) /= NoPrice
    /\ details' = [details EXCEPT ![cyc] = NetRecords(CycleStarts[cyc])]
    /\ deposit' = deposit + MoneyForSurplus(CycleStarts[cyc])
    /\ AdvanceBalancing
    /\ UNCHANGED <<readings, pv, prices, turn, store, ledger, bill, results>>

BalanceFails ==
    /\ phase = "balance" /\ pv = "net_billing"
    /\ \E x \in Surplus(CycleStarts[cyc]) : Price(x) = NoPrice
    /\ Fail

ChargeCycle ==
    /\ phase = "charge" /\ cyc <= Len(CycleStarts)
    /\ LET start == CycleStarts[cyc]
           days == BilledDays(start)
           segments == Segments(Tariff, days)
           energy == details[cyc]
       IN /\ ~CannotCharge(Tariff, energy, start)
          /\ bill' = IF days = {} THEN bill
                     ELSE Append(bill, [start |-> start, days |-> days,
                              energy |-> SplitEnergy(energy, segments, start,
                                                     [s \in segments |-> [z \in Zones(Tariff) |-> 1]]),
                              active |-> ActiveEnergyGross(energy, segments, start)])
    /\ cyc' = cyc + 1
    /\ UNCHANGED <<readings, pv, prices, phase, turn, details, store, ledger,
                   deposit, results>>

ChargeFails ==
    /\ phase = "charge" /\ cyc <= Len(CycleStarts)
    /\ CannotCharge(Tariff, details[cyc], CycleStarts[cyc])
    /\ Fail

\* The deposit pays for energy only, at most what the energy costs.
Settle ==
    /\ phase = "charge" /\ cyc > Len(CycleStarts)
    /\ LET active == Sum(LAMBDA i : bill[i].active, DOMAIN bill)
       IN results' = [results EXCEPT ![Tariff] =
              [state |-> "done", cycles |-> bill, zones |-> details,
               ledger |-> ledger, store |-> store, deposit |-> deposit,
               payable |-> active - Min({100 * deposit, active})]]
    /\ turn' = turn + 1 /\ phase' = "next"
    /\ UNCHANGED <<readings, pv, prices, cyc, details, store, ledger, deposit, bill>>

\* After the loop: an answer, or a refusal when every tariff failed.
Answer ==
    /\ phase = "next" /\ turn > Len(Offered)
    /\ phase' = IF \A t \in Range(Offered) : results[t] = Failed
                THEN "refused" ELSE "answered"
    /\ UNCHANGED <<readings, pv, prices, turn, cyc, details, store, ledger,
                   deposit, bill, results>>

Next == \/ Prepare \/ NextTariff
        \/ BalanceMetering \/ BalanceBilling \/ BalanceFails
        \/ ChargeCycle \/ ChargeFails \/ Settle \/ Answer

Spec == Init /\ [][Next]_vars

-----------------------------------------------------------------------------
(* Properties *)

Credits == [kwh : Nat \ {0}, cycle : Nat]

TypeOK ==
    /\ phase \in {"details", "next", "balance", "charge", "answered", "refused"}
    /\ turn \in 1..(Len(Tariffs) + 1) /\ cyc \in Nat
    /\ store \in Seq(Credits) /\ deposit \in Nat
    /\ \A t \in DOMAIN results : results[t].state \in {"pending", "error", "done"}

Done == {t \in DOMAIN results : results[t].state = "done"}

\* The case of EachDayBilledOnce and RefusalsHaveAReason: cycles begin on a day that
\* every month has. (The code clamps other days, and cycles may then overlap.)
BillingDayInEveryMonth ==
    \A i \in DOMAIN MonthLengths : BillingStart.d <= MonthLengths[i]

\* The monthly fees of a cycle are divided by its days, for the days from the
\* first to the last of the file. Every day with a reading is in one cycle of the
\* bill, so no day pays twice and no reading is free of fees.
EachDayBilledOnce ==
    \A t \in Done : \A d \in ReadDays :
        Cardinality({i \in DOMAIN results[t].cycles :
                        d \in results[t].cycles[i].days}) = 1

PaidFrom(t, s) == Sum(LAMBDA e : e.kwh, {e \in results[t].ledger : e.from = s})

MeasuredUse(s) == [x \in Moments(s) |-> Used(x)]

\* What a cycle has to pay before balancing with energy of other hours.
Needed(s) == IF pv = "none" THEN Sum(Used, Moments(s))
             ELSE IF pv = "net_billing"
             THEN Sum(LAMBDA x : Max({0, Used(x) - Exported(x)}), Moments(s))
             ELSE LET b == HourBalance(s, MeasuredUse(s))
                  IN Sum(LAMBDA h : Max({0, b[h]}), DOMAIN b)
Given(s) == IF pv /= "net_metering" THEN 0
            ELSE LET b == HourBalance(s, MeasuredUse(s))
                 IN Sum(LAMBDA h : (KFactor * Max({0, -b[h]})) \div 10, DOMAIN b)

\* No energy is lost or invented between the readings and the bill, in any tariff
\* and whatever tariffs were counted before it on the same details: what a cycle
\* pays is what it needed less its own surplus and less the credits of the ledger.
EnergyIsWhole ==
    \A t \in Done : \A i \in DOMAIN results[t].cycles :
        LET c == results[t].cycles[i]
        IN c.energy = Max({0, Needed(c.start) - Given(c.start)})
                      - Sum(LAMBDA e : e.kwh, {e \in results[t].ledger : e.to = c.start})

\* A credit pays only later cycles, until its deadline, never more than the surplus
\* it stands for, and no younger credit pays while an older one is still good.
CreditsInTime ==
    \A t \in Done :
        /\ \A e \in results[t].ledger : e.from < e.to /\ e.to < Deadline(e.from)
        /\ \A e \in results[t].ledger :
               PaidFrom(t, e.from) <= Max({0, Given(e.from) - Needed(e.from)})
        /\ \A e \in results[t].ledger : \A i \in DOMAIN CycleStarts :
               LET s == CycleStarts[i]
               IN s < e.from /\ e.to < Deadline(s) =>
                      Sum(LAMBDA x : x.kwh, {x \in results[t].ledger :
                                                x.from = s /\ x.to <= e.to})
                      = Max({0, Given(s) - Needed(s)})

\* A cheaper zone is paid by the sun only when the dearer ones need nothing more.
DearestZoneFirst ==
    pv = "net_metering" =>
        \A t \in Done : \A i \in DOMAIN CycleStarts :
            LET left == results[t].zones[i].by
                b == HourBalance(CycleStarts[i], MeasuredUse(CycleStarts[i]))
                full(z) == Sum(LAMBDA h : Max({0, b[h]}),
                               {h \in DOMAIN b : ZoneOf[t][h[2]] = z})
            IN \A y, z \in Zones(t) : y < z /\ left[z] < full(z) => left[y] = 0

\* The energy of a file costs what its quarter-hours cost at the rates and the tax
\* of their own days, less the worth of the surplus, however the days fall into
\* cycles and segments. (Net metering has no price of a single quarter-hour.)
EnergyCostsItsRate ==
    pv /= "net_metering" =>
        \A t \in Done :
            LET moments == ReadDays \X Intervals
                taken(x) == IF pv = "none" THEN Used(x) ELSE Used(x) - Exported(x)
                rates(d) == ListForPeriod(t)[Min(CoveringIndexes(ListForPeriod(t), d))].rates
                cost(x) == (100 + Periods[Min(CoveringIndexes(Periods, x[1]))].vat)
                           * taken(x) * (rates(x[1])[ZoneOf[t][Hour(x)]]
                                         + IF t = Dynamic THEN Price(x) ELSE 0)
                active == Sum(cost, {x \in moments : taken(x) > 0})
                surplus == Sum(LAMBDA x : (0 - taken(x)) * Price(x),
                               {x \in moments : taken(x) < 0 /\ Price(x) > 0})
            IN results[t].payable = active - Min({100 * surplus, active})

\* What a tariff cannot be charged without.
DataIsMissing(t) ==
    \/ \E i \in DOMAIN ListForPeriod(t) : DOMAIN ListForPeriod(t)[i].rates /= Zones(t)
    \/ \E d \in FirstDay..LastDay : CoveringIndexes(ListForPeriod(t), d) = {}
    \/ t = Dynamic /\ pv = "net_metering"
    \/ \E x \in ReadDays \X Intervals : /\ Price(x) = NoPrice
                                        /\ Used(x) + Exported(x) > 0

\* A tariff is left out of the comparison only when its rates or the prices of
\* the market do not cover the file; the readings of a file are never outside it.
\* (The code also refuses a cycle without energy to charge in the dynamic tariff.)
RefusalsHaveAReason ==
    \A t \in DOMAIN results :
        results[t] = Failed =>
            \/ DataIsMissing(t)
            \/ /\ t = Dynamic
               /\ \E i \in DOMAIN CycleStarts :
                      \A x \in Moments(CycleStarts[i]) :
                          \/ Used(x) = 0
                          \/ pv = "net_billing" /\ Used(x) < Exported(x)
=============================================================================
