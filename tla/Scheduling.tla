----------------------------- MODULE Scheduling -----------------------------
(***************************************************************************)
(* The schedule of the devices (services/scheduling): actions that may be  *)
(* moved are placed greedily at the cheapest allowed start, group by group *)
(* and pass by pass, in a plan that keeps the busy slots of the devices    *)
(* and the load of the house as it goes.                                   *)
(***************************************************************************)
EXTENDS DeviceFile

CONSTANTS
    MaxPasses,       \* MAX_PASSES
    MaxSlotsInDay,   \* MAX_SLOTS_IN_DAY
    DryerAfterWash   \* slots between a wash and the dryer that belongs to it

ASSUME SchedulingAssumption ==
    /\ MaxPasses \in Nat \ {0, 1} /\ MaxSlotsInDay \in Nat /\ DryerAfterWash \in Nat
    /\ None \notin {"other_day", "outside_window", "device_busy", "missing_prices", "grid_limit"}

VARIABLES
    items,    \* actions to schedule
    prices,   \* price of every slot that has one
    limit,    \* energy the house may take in a slot, or None
    order,    \* groups that may be moved, in the order of their turns
    reserve,  \* groups that wait keep their original place
    offset,   \* shift of every group, in slots
    placed,   \* groups that are in the plan
    busy,     \* slots in which a device works
    load,     \* energy in every slot
    reason,   \* why a group is a conflict, or None
    turn,     \* place of the group that is next in this pass
    changed,  \* a group moved in this pass
    pass

planVars == <<items, prices, limit, order, reserve, offset, placed, busy, load, reason,
              turn, changed, pass>>
inputVars == <<items, prices, limit>>

-----------------------------------------------------------------------------
(* The actions to schedule.                                                   *)

\* The actions of a file that start on these days.
RecordsForFile(doc, days) == {a \in Range(doc.actions) : Local[a.start].day \in days}

\* Actions come by the identifiers of their devices, then by start.
Comes(i, j) ==
    \/ Rank[i.device] < Rank[j.device]
    \/ Rank[i.device] = Rank[j.device] /\ i.start < j.start

\* A dryer follows its wash, the first of those before it: it is in its group.
ScheduleAction(doc, taken, a) ==
    LET OfType(type) == {b \in taken : doc.devices[b.device].type = type}
        washes == {w \in OfType("washing_machine") :
                      a \in OfType("tumble_dryer") /\ a.start - w.end \in 0..DryerAfterWash}
        first == CHOOSE w \in washes : \A v \in washes \ {w} : Comes(w, v)
    IN [id |-> a.id, device |-> a.device, start |-> a.start,
        use |-> SlotsOf(a, doc),
        movable |-> doc.devices[a.device].mode = "shiftable",
        window |-> doc.devices[a.device].window,
        shift |-> doc.devices[a.device].shift,
        group |-> IF washes = {} THEN a.id ELSE first.id]

\* Production is left out.
ActionsFromDevices(doc, records) ==
    LET taken == {a \in records : a.energy >= 0}
    IN {ScheduleAction(doc, taken, a) : a \in taken}

WindowContains(window, time) ==
    CASE window.from = window.to -> TRUE
      [] window.from < window.to -> window.from <= time /\ time < window.to
      [] OTHER -> time >= window.from \/ time < window.to
\* Slots before the first day have no clock here: a start there is another day.
InWindow(window, slot) == slot \in DOMAIN Local /\ WindowContains(window, Local[slot].time)

Members(g) == {i \in items : i.group = g}
Used(i, o) == (i.start + o)..(i.start + o + Len(i.use) - 1)
UseAt(i, o, slot) == IF slot \in Used(i, o) THEN i.use[slot - i.start - o + 1] ELSE 0

GroupSlots(g, o) == UNION {Used(i, o) : i \in Members(g)}
DeviceSlots(g, o, device) == UNION {Used(i, o) : i \in {i \in Members(g) : i.device = device}}
GroupUse(g, o, slot) == SumFunction([i \in Members(g) |-> UseAt(i, o, slot)])

ItemCost(i, o) == SumFunction([s \in Used(i, o) |-> prices[s] * UseAt(i, o, s)])
Cost(g, o) == SumFunction([i \in Members(g) |-> ItemCost(i, o)])

Of(all, g) == {i \in all : i.group = g}
MayBeMoved(all, table, g) ==
    \A i \in Of(all, g) : i.movable /\ Used(i, 0) \subseteq DOMAIN table
FirstOf(all, g) == CHOOSE i \in Of(all, g) : \A j \in Of(all, g) \ {i} : Comes(i, j)
EnergyOf(all, g) == SumFunction([i \in Of(all, g) |-> Total(i.use)])

\* Groups with all members movable and priced, the largest energy first, then by the
\* start of the first action; devices come by their identifiers, so of a wash and its
\* dryer the dryer is the first.
Key(all, g) == <<0 - EnergyOf(all, g), FirstOf(all, g).start, FirstOf(all, g).id, g>>
KeyBefore(k, l) == \E n \in 1..3 : k[n] < l[n] /\ \A m \in 1..(n - 1) : k[m] = l[m]
Keys(all, table) == {Key(all, g) : g \in {g \in {i.group : i \in all} : MayBeMoved(all, table, g)}}
Order(all, table) ==
    LET sorted == Ordered(Keys(all, table), KeyBefore)
    IN [n \in DOMAIN sorted |-> sorted[n][4]]

\* Within the allowed shift, and in the same occurrence of the window.
Offsets(g) ==
    LET most == Min({MaxSlotsInDay} \cup {i.shift : i \in {i \in Members(g) : i.shift /= None}})
        held == {i \in Members(g) : i.window /= None /\ InWindow(i.window, i.start)}
    IN {o \in -most..most :
           \A i \in held : \A p \in Min({0, o})..Max({0, o}) : InWindow(i.window, i.start + p)}

\* Mutant: only the start of an action is looked for in its window.
RejectionOfStart(g, o, busyNow, loadNow) ==
    CASE \E i \in Members(g) : \/ i.start + o \notin DOMAIN Local
                               \/ Local[i.start + o].day /= Local[i.start].day -> "other_day"
      [] \E i \in Members(g) : i.window /= None /\ ~InWindow(i.window, i.start + o) -> "outside_window"
      [] \E i \in Members(g) : Used(i, o) \cap busyNow[i.device] /= {} -> "device_busy"
      [] ~(GroupSlots(g, o) \subseteq DOMAIN prices) -> "missing_prices"
      [] OTHER -> None

\* Why the group cannot be there, the group itself being out of the plan.
Rejection(g, o, busyNow, loadNow) ==
    CASE \E i \in Members(g) : \/ i.start + o \notin DOMAIN Local
                               \/ Local[i.start + o].day /= Local[i.start].day -> "other_day"
      [] \E i \in Members(g) : i.window /= None /\
             \E s \in Used(i, o) : ~InWindow(i.window, s) -> "outside_window"
      [] \E i \in Members(g) : Used(i, o) \cap busyNow[i.device] /= {} -> "device_busy"
      [] ~(GroupSlots(g, o) \subseteq DOMAIN prices) -> "missing_prices"
      [] limit /= None /\ \E s \in GroupSlots(g, o) :
             loadNow[s] + GroupUse(g, o, s) > limit -> "grid_limit"
      [] OTHER -> None

-----------------------------------------------------------------------------
(* The plan: groups that are not to be moved are placed at once, and when     *)
(* places are reserved all the others as well.                                *)

BusyWithout(g) ==
    [d \in DOMAIN busy |-> IF g \in placed THEN busy[d] \ DeviceSlots(g, offset[g], d) ELSE busy[d]]
\* Mutant: the load of a group stays in the plan when the group leaves it.
LoadKept(g) == load

LoadWithout(g) ==
    [s \in DOMAIN load |-> IF g \in placed THEN load[s] - GroupUse(g, offset[g], s) ELSE load[s]]

Arrange(newItems, newPrices, newLimit, reserved) ==
    /\ items' = newItems /\ prices' = newPrices /\ limit' = newLimit /\ reserve' = reserved
    /\ LET groups == {i.group : i \in newItems}
           of(g) == {i \in newItems : i.group = g}
           priced(g) == \A i \in of(g) : Used(i, 0) \subseteq DOMAIN newPrices
           movable == Order(newItems, newPrices)
           first == IF reserved THEN groups ELSE groups \ Range(movable)
           there == {i \in newItems : i.group \in first}
       IN /\ order' = movable
          /\ offset' = [g \in groups |-> 0]
          /\ placed' = first
          /\ reason' = [g \in groups |-> IF priced(g) THEN None ELSE "missing_prices"]
          /\ busy' = [d \in {i.device : i \in newItems} |->
                         UNION {Used(i, 0) : i \in {i \in there : i.device = d}}]
          /\ load' = [s \in DOMAIN Local |-> SumFunction([i \in there |-> UseAt(i, 0, s)])]
    /\ turn' = 1 /\ changed' = FALSE /\ pass' = 1

Place(g, o, why) ==
    /\ LET free == BusyWithout(g)
           rest == LoadWithout(g)
       IN /\ busy' = [d \in DOMAIN busy |-> free[d] \cup DeviceSlots(g, o, d)]
          /\ load' = [s \in DOMAIN load |-> rest[s] + GroupUse(g, o, s)]
    /\ placed' = placed \cup {g}
    /\ offset' = [offset EXCEPT ![g] = o]
    /\ reason' = [reason EXCEPT ![g] = why]
    /\ changed' = (changed \/ o /= offset[g])
    /\ turn' = turn + 1
    /\ UNCHANGED <<inputVars, order, reserve, pass>>

Distance(o) == Max({o, -o})
Options(g) ==
    LET busyNow == BusyWithout(g)
        loadNow == LoadWithout(g)
    IN {o \in Offsets(g) : Rejection(g, o, busyNow, loadNow) = None}
\* Mutant: of the nearest starts the cheapest.
NearestFirst(g, options) ==
    LET near == {o \in options : \A p \in options : Distance(o) <= Distance(p)}
        cost == [o \in near |-> Cost(g, o)]
    IN Min({o \in near : \A p \in near : cost[o] <= cost[p]})

\* Of equally cheap starts the nearest to the original, and then the earlier.
Cheapest(g, options) ==
    LET cost == [o \in options |-> Cost(g, o)]
        cheap == {o \in options : cost[o] = Min({cost[p] : p \in options})}
        near == {o \in cheap : \A p \in cheap : Distance(o) <= Distance(p)}
    IN Min(near)

Group == order[turn]
InPass == turn \in DOMAIN order

Improve ==
    /\ InPass
    /\ LET options == Options(Group)
       IN options /= {} /\ Place(Group, Cheapest(Group, options), None)

NoPlaceLeft(g) ==
    \/ \E i \in Members(g) : Used(i, offset[g]) \cap BusyWithout(g)[i.device] /= {}
    \/ Rejection(g, offset[g], BusyWithout(g), LoadWithout(g)) = "grid_limit"

Stay ==
    /\ InPass
    /\ reserve \/ ~NoPlaceLeft(Group)
    /\ Options(Group) = {}
    /\ Place(Group, offset[Group],
             Rejection(Group, offset[Group], BusyWithout(Group), LoadWithout(Group)))

\* A group took the place of another that has nowhere else to go: once more from
\* the start, with the original places reserved.
StartAgain ==
    /\ InPass
    /\ ~reserve /\ NoPlaceLeft(Group)
    /\ Options(Group) = {}
    /\ Arrange(items, prices, limit, TRUE)

AnotherPass ==
    /\ ~InPass /\ changed /\ pass < MaxPasses
    /\ pass' = pass + 1 /\ turn' = 1 /\ changed' = FALSE
    /\ UNCHANGED <<inputVars, order, reserve, offset, placed, busy, load, reason>>

\* Mutant: one pass.
OnePass == ~InPass

Arranged == ~InPass /\ (~changed \/ pass = MaxPasses)

ScheduleNext == Improve \/ Stay \/ StartAgain \/ AnotherPass

-----------------------------------------------------------------------------
(* The answer; costs count the actions that had a price where they were.      *)

Status(i) ==
    IF reason[i.group] /= None THEN "conflict" ELSE IF offset[i.group] /= 0 THEN "moved" ELSE "unchanged"
HasCost(i) == Used(i, 0) \subseteq DOMAIN prices
=============================================================================
