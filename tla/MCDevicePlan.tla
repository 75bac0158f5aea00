--------------------------- MODULE MCDevicePlan ---------------------------
(* Two days of six quarter-hours, the second with a repeated hour, one day more *)
(* on the clock, ten devices; houses planned and houses read from a meter.      *)
EXTENDS DevicePlanProperties

Window(from, to) == [from |-> from, to |-> to]
Device(type, mode, power, window, shift, programs) ==
    [type |-> type, producer |-> type = "pv_inverter", mode |-> mode, power |-> power,
     window |-> window, shift |-> shift, programs |-> programs]
MCCatalogue ==
    [washer |-> Device("washing_machine", "shiftable", None, Window(1, 5), None, [cotton |-> <<2, 1>>]),
     dryer |-> Device("tumble_dryer", "shiftable", None, Window(1, 6), None, [dry |-> <<2>>]),
     dishwasher |-> Device("dishwasher", "shiftable", None, Window(4, 2), 1, [eco |-> <<1, 2>>]),
     heat_pump |-> Device("heat_pump", "shiftable", 3, None, 1, << >>),
     ev |-> Device("ev_charger", "interruptible", 3, Window(3, 2), None, << >>),
     fridge |-> Device("fridge", "fixed", 1, None, None, << >>),
     light |-> Device("light", "fixed", 1, None, None, << >>),
     hob |-> Device("induction_hob", "fixed", 2, None, None, << >>),
     pv |-> Device("pv_inverter", "fixed", 3, None, None, << >>),
     rest |-> Device("other", "fixed", 1, None, None, << >>)]
MCRank ==
    [dishwasher |-> 1, ev |-> 2, fridge |-> 3, heat_pump |-> 4, hob |-> 5, light |-> 6,
     pv |-> 7, rest |-> 8, dryer |-> 9, washer |-> 10]
MCLocal ==
    [i \in 1..6 |-> [day |-> 1, time |-> i - 1]]
    \o <<[day |-> 2, time |-> 0], [day |-> 2, time |-> 1], [day |-> 2, time |-> 1]>>
    \o [i \in 1..4 |-> [day |-> 2, time |-> i + 1]]
    \o [i \in 1..6 |-> [day |-> 3, time |-> i - 1]]
MCDraws ==
    [appliances |-> {None, 4}, wash |-> {None, 1}, dishes |-> {4}, heat_pump |-> {2}, ev |-> {3}]
Quiet == [s \in 1..13 |-> IF s % 3 = 0 THEN 2 ELSE 0]
Lively == <<2, 3, 4, 4, 3, 1, 1, 0, 2, 5, 3, 5, 2>>
MCMeters == {Quiet, Lively}
\* Cheap at noon and in the early morning; and the same with the prices after the
\* second midnight missing.
Price(s) == CASE s \in {3, 4, 8, 9} -> 1 [] s \in {2, 10} -> 2 [] s \in 13..19 -> 3 [] OTHER -> 4
MCPriceTables == {[s \in 1..19 |-> Price(s)], [s \in 1..11 |-> 5 - Price(s)]}
===========================================================================
