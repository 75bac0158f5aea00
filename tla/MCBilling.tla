------------------------------ MODULE MCBilling ------------------------------
(* Values for Billing: months of two and three days, cycles of one month,    *)
(* a "year" of two months, a file of five days in four months.               *)
EXTENDS Billing, TLC

CONSTANTS zoned, dynamic, ended

MCMonthLengths == <<3, 2, 3, 2, 3, 3, 3, 3>>
MCBillingStart == [m |-> 2, d |-> 2]
MCFileDays == {6, 7, 9, 10, 12}
MCIntervals == {<<1, 1>>, <<1, 2>>, <<2, 1>>}

R(u, e) == [used |-> u, exported |-> e]
Day(a, b, c) == <<1, 1>> :> a @@ <<1, 2>> :> b @@ <<2, 1>> :> c
Sunny == Day(R(0, 3), R(1, 1), R(1, 0))
Cloudy == Day(R(1, 0), R(0, 0), R(2, 1))
MCPatterns == {Sunny, Cloudy, << >>}

MCTariffs == <<ended, zoned, dynamic>>
MCZoneOf == zoned :> <<1, 2>> @@ dynamic :> <<1, 1>> @@ ended :> <<1, 1>>
MCDefinitions ==
    ended :> << [from |-> 1, to |-> 8, rates |-> <<4>>] >>
    @@ zoned :> << [from |-> 1, to |-> 8, rates |-> <<5, 3>>],
                [from |-> 9, to |-> 20, rates |-> <<6, 3>>] >>
    @@ dynamic :> << [from |-> 1, to |-> 20, rates |-> <<1>>] >>
MCPeriods == << [from |-> 1, to |-> 10, vat |-> 23], [from |-> 11, to |-> 20, vat |-> 8] >>
MCPriceTables == {<<-3, 5>>, <<NoPrice, 2>>}
=============================================================================
