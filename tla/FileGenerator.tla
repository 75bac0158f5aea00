---------------------------- MODULE FileGenerator ----------------------------
(***************************************************************************)
(* The script that makes device files (generate_devices_file): either from *)
(* a plan of the days of a house, or by dividing the readings of a meter   *)
(* among the devices. What the script draws is chosen from Draws.          *)
(***************************************************************************)
EXTENDS DeviceFile

CONSTANTS
    Days,       \* days of the file
    GridLimit,  \* limit of the connection in a slot
    Draws,      \* Draws[step]: what may be drawn on a day, None for nothing
    Meters,     \* readings a meter may have: [Period -> energy]
    Other       \* the device that takes what no other takes

\* The clock of the file: days come in order, and each has the times that the script
\* asks for.
ClockAssumption ==
    /\ \A s, r \in DOMAIN Local : s < r => Local[s].day <= Local[r].day
    /\ \A s \in Period : Local[s].day \in 1..Days
    /\ \A day \in 1..Days :
           /\ \A times \in {0, 2} : \A d \in {day, day + 1} : Showing(d, times) /= {}
           /\ \A step \in DOMAIN Draws : \A times \in Draws[step] \ {None} : Showing(day, times) /= {}
ASSUME GeneratorAssumption ==
    /\ Days \in Nat /\ GridLimit \in Nat /\ Meters \subseteq [Period -> Nat]
    /\ {"appliances", "wash", "dishes", "heat_pump", "ev"} \subseteq DOMAIN Draws
    /\ ClockAssumption

\* The devices of the script: their programs, and powers that the jobs keep to.
WithProfiles == {"fridge", "light", "hob", "heat_pump", "ev", "pv"}
ASSUME CatalogueAssumption ==
    /\ DOMAIN Catalogue \subseteq DOMAIN Rank
    /\ WithProfiles \cup {"washer", "dryer", "dishwasher", Other} \subseteq DOMAIN Catalogue
    /\ Other \notin WithProfiles \cup {"washer", "dryer", "dishwasher"}
    /\ \A name \in DOMAIN Catalogue :
           LET device == Catalogue[name]
           IN /\ DOMAIN device = {"type", "producer", "mode", "power", "window", "shift", "programs"}
              /\ DeviceFollowsSchema(device)
              /\ device.producer = (name = "pv")
              /\ (device.type = "ev_charger") = (name = "ev")
              /\ name \in WithProfiles \cup {Other} => DOMAIN device.programs = {}
              /\ \A p \in DOMAIN device.programs : \A i \in DOMAIN device.programs[p] :
                     /\ device.programs[p][i] >= 0
                     /\ device.power /= None => device.programs[p][i] <= device.power
    /\ None \notin {"cotton", "dry", "eco"}
    /\ "cotton" \in DOMAIN Catalogue["washer"].programs
    /\ "dry" \in DOMAIN Catalogue["dryer"].programs
    /\ "eco" \in DOMAIN Catalogue["dishwasher"].programs
    /\ Catalogue["hob"].power >= 2 /\ Catalogue["heat_pump"].power >= 2
    /\ Catalogue["ev"].power >= 3 /\ Catalogue["pv"].power >= 3
ASSUME ProgramsAssumption ==
    \A name \in DOMAIN Catalogue : DOMAIN Catalogue[name].programs \subseteq STRING

VARIABLES
    meter,      \* readings to divide, None when the file comes from a plan
    made,       \* devices of the file
    job,        \* index of the job at work
    washEnd,    \* end of the wash of this day
    remaining,  \* what the devices have not taken of the meter
    filled,     \* constant use by device and slot
    actions     \* actions so far

generatorVars == <<meter, made, job, washEnd, remaining, filled, actions>>

\* The jobs in the order of the loops.
HouseDay == <<"always_on", "appliances", "wash", "dryer", "dishes", "heat_pump", "ev", "pv">>
MeterDay == <<"wash", "dryer", "dishes", "ev", "heat_pump", "heat_pump">>
EveryDay(steps) ==
    LET n == Len(steps)
    IN [j \in 1..(Days * n) |-> [day |-> ((j - 1) \div n) + 1,
                                 step |-> steps[((j - 1) % n) + 1]]]
Jobs == IF meter = None THEN EveryDay(HouseDay)
        ELSE EveryDay(<<"always_on">>) \o EveryDay(MeterDay) \o EveryDay(<<"fill", "spikes">>)

At_(step) == job \in DOMAIN Jobs /\ Jobs[job].step = step
Day == Jobs[job].day
Profile(device, program) == Catalogue[device].programs[program]
Same(value, n) == [i \in 1..n |-> value]

Busy(device) == UNION {Slots(a) : a \in {a \in actions : a.device = device}}
Load(slot) ==
    SumFunction([a \in {a \in actions : slot \in Slots(a)} |-> Max({0, a.use[slot - a.start + 1]})])

New(device, program, start, use, profile, plugged, deadline) ==
    [device |-> device, program |-> program, start |-> start, end |-> start + Len(use),
     energy |-> Total(use), use |-> use, profile |-> profile,
     plugged |-> plugged, deadline |-> deadline]

-----------------------------------------------------------------------------
(* The plan of a house: an action starts at the drawn time or later, when the *)
(* device is free and the connection has the power.                           *)

\* Mutant: only the device is looked at, not the power of the connection.
DeviceIsFree(device, begin, use) == (begin..(begin + Len(use) - 1)) \cap Busy(device) = {}

Fits(device, begin, use) ==
    /\ (begin..(begin + Len(use) - 1)) \cap Busy(device) = {}
    /\ \A i \in DOMAIN use : use[i] <= 0 \/ Load(begin + i - 1) + use[i] <= GridLimit

Begins(device, start, use, maxDelay, deadline) ==
    {b \in start..(start + maxDelay) :
        /\ device \in DOMAIN made
        /\ b + Len(use) - 1 <= PeriodSlots
        /\ deadline /= None => b + Len(use) <= deadline
        /\ Fits(device, b, use)}

Add(device, program, start, use, profile, maxDelay, plugged, deadline) ==
    LET begins == Begins(device, start, use, maxDelay, deadline)
    IN IF begins = {} THEN {}
       ELSE {New(device, program, Min(begins), use, profile, plugged, deadline)}

Step(added, newWashEnd) ==
    /\ actions' = actions \cup added
    /\ washEnd' = newWashEnd
    /\ job' = job + 1
    /\ UNCHANGED <<meter, made, remaining, filled>>

AlwaysOn ==
    /\ meter = None /\ At_("always_on")
    /\ LET slots == At(Day + 1, 0) - At(Day, 0)
       IN Step(Add("fridge", None, At(Day, 0), Same(1, slots), << >>, 0, None, None), None)

Appliances ==
    /\ meter = None /\ At_("appliances")
    /\ \E d \in Draws["appliances"] :
           Step(IF d = None THEN {}
                ELSE Add("hob", None, At(Day, d), Same(2, 1), << >>, 2, None, None), None)

\* The dryer starts a quarter-hour after the end of the wash.
Wash ==
    /\ meter = None /\ At_("wash")
    /\ \E d \in Draws["wash"] :
           LET wash == IF d = None THEN {}
                       ELSE Add("washer", "cotton", At(Day, d), Profile("washer", "cotton"),
                                << >>, 2, None, None)
           IN Step(wash, IF wash = {} THEN None ELSE (CHOOSE a \in wash : TRUE).end)

Dryer ==
    /\ meter = None /\ At_("dryer")
    /\ \E drawn \in BOOLEAN :
           Step(IF washEnd = None \/ ~drawn THEN {}
                ELSE Add("dryer", "dry", washEnd + 1, Profile("dryer", "dry"),
                         << >>, 1, None, None), None)

Dishes ==
    /\ meter = None /\ At_("dishes")
    /\ \E d \in Draws["dishes"] \ {None} :
           Step(Add("dishwasher", "eco", At(Day, d), Profile("dishwasher", "eco"),
                    << >>, 1, None, None), None)

HeatPump ==
    /\ meter = None /\ At_("heat_pump")
    /\ \E d \in Draws["heat_pump"] \ {None} :
           Step(Add("heat_pump", None, At(Day, d), Same(2, 2), << >>, 1, None, None), None)

\* A session may wait for power until the car must be ready the next day.
Ev ==
    /\ meter = None /\ At_("ev")
    /\ \E d \in Draws["ev"], wait \in {0, 1} :
           Step(IF d = None THEN {}
                ELSE Add("ev", None, At(Day, d) + wait, Same(3, 2), << >>, DayTimes,
                         At(Day, d), At(Day + 1, 2)), None)

Pv ==
    /\ meter = None /\ At_("pv")
    /\ Step(Add("pv", None, At(Day, 2), <<-2, -3>>, <<-2, -3>>, 0, None, None), None)

-----------------------------------------------------------------------------
(* The readings of a meter: a device takes what it uses from the reading.    *)

Span(day, from, to) ==
    {s \in Period : At(day, from) <= s /\ s < At(day, to)}

Take(device, program, first, use, profile, plugged, deadline) ==
    /\ actions' = actions \cup {New(device, program, first, use, profile, plugged, deadline)}
    /\ remaining' = [s \in Period |->
           IF s \in first..(first + Len(use) - 1) THEN remaining[s] - use[s - first + 1]
                                                  ELSE remaining[s]]

Energy(first, n) == SumFunctionOnSet(remaining, first..(first + n - 1))

\* Mutant: room for the energy of the program, not for every slot of its profile.
RoomsByEnergy(device, use, window) ==
    {s \in window :
        /\ device \in DOMAIN made
        /\ s + Len(use) - 1 <= PeriodSlots
        /\ (s..(s + Len(use) - 1)) \cap Busy(device) = {}
        /\ Energy(s, Len(use)) >= Total(use)}

\* A program goes where the meter has room for all of it and shows most.
Rooms(device, use, window) ==
    {s \in window :
        /\ device \in DOMAIN made
        /\ s + Len(use) - 1 <= PeriodSlots
        /\ (s..(s + Len(use) - 1)) \cap Busy(device) = {}
        /\ \A i \in DOMAIN use : remaining[s + i - 1] >= use[i]}
BestRoom(rooms, n) ==
    Min({s \in rooms : \A r \in rooms : Energy(r, n) <= Energy(s, n)})

TakeProgram(device, program, window, drawn) ==
    LET use == Profile(device, program)
        rooms == Rooms(device, use, window)
    IN IF drawn /\ rooms /= {}
       THEN /\ Take(device, program, BestRoom(rooms, Len(use)), use, << >>, None, None)
            /\ washEnd' = BestRoom(rooms, Len(use)) + Len(use)
       ELSE washEnd' = None /\ UNCHANGED <<actions, remaining>>

MeterWash ==
    /\ meter /= None /\ At_("wash")
    /\ \E drawn \in BOOLEAN : TakeProgram("washer", "cotton", Span(Day, 1, DayTimes - 1), drawn)
    /\ job' = job + 1 /\ UNCHANGED <<meter, made, filled>>

MeterDryer ==
    /\ meter /= None /\ At_("dryer")
    /\ \E drawn \in BOOLEAN :
           TakeProgram("dryer", "dry",
                       IF washEnd = None THEN {} ELSE Period \cap (washEnd..(washEnd + 2)), drawn)
    /\ job' = job + 1 /\ UNCHANGED <<meter, made, filled>>

MeterDishes ==
    /\ meter /= None /\ At_("dishes")
    /\ TakeProgram("dishwasher", "eco", Span(Day, DayTimes - 2, DayTimes + 2), TRUE)
    /\ job' = job + 1 /\ UNCHANGED <<meter, made, filled>>

\* Runs of slots with at least the threshold, longest first up to `most`, that take
\* most of the meter; a device never takes more than its power.
Stretches(window, threshold, least, most) ==
    LET good == {s \in window : remaining[s] >= threshold}
        run(s) == {t \in good : \A u \in Min({s, t})..Max({s, t}) : u \in good}
    IN {<<s, Min({most, Cardinality(run(s))})>> :
            s \in {s \in good : /\ Cardinality(run(s)) >= least
                                /\ s + Min({most, Cardinality(run(s))}) - 1 <= Max(run(s))}}
Run(device, window, threshold, least, most, minimum, ready) ==
    LET cap == Catalogue[device].power
        use(x) == [i \in 1..x[2] |-> Min({cap, remaining[x[1] + i - 1]})]
        free == {x \in Stretches(window, threshold, least, most) :
                    /\ device \in DOMAIN made
                    /\ (x[1]..(x[1] + x[2] - 1)) \cap Busy(device) = {}
                    /\ Total(use(x)) >= minimum}
        best == {x \in free : \A y \in free : Total(use(y)) <= Total(use(x))}
        x == CHOOSE x \in best : \A y \in best : x[1] <= y[1]
    IN /\ IF free = {} THEN UNCHANGED <<actions, remaining>>
          ELSE Take(device, None, x[1], use(x), use(x), IF ready = None THEN None ELSE x[1],
                    IF ready = None THEN None ELSE Max({x[1] + x[2], ready}))
       /\ job' = job + 1 /\ washEnd' = None
       /\ UNCHANGED <<meter, made, filled>>

\* The car is plugged in when the session starts and must be ready in the morning.
MeterEv ==
    /\ meter /= None /\ At_("ev")
    /\ Run("ev", Span(Day, DayTimes - 3, DayTimes + 2), 2, 2, 3, 5, At(Day + 1, 2))

MeterHeatPump ==
    /\ meter /= None /\ At_("heat_pump")
    /\ Run("heat_pump", Span(Day, 0, DayTimes), 1, 2, 4, 3, None)

MeterSpikes ==
    /\ meter /= None /\ At_("spikes")
    /\ Run("hob", Span(Day, 0, DayTimes), 2, 1, 1, 2, None)

Fill(device, slots, value) ==
    LET taken(s) == IF device \in DOMAIN made /\ s \in slots
                    THEN Min({value, Catalogue[device].power - filled[device][s], remaining[s]})
                    ELSE 0
    IN /\ filled' = [filled EXCEPT ![device] = [s \in Period |-> @[s] + taken(s)]]
       /\ remaining' = [s \in Period |-> remaining[s] - taken(s)]
       /\ job' = job + 1 /\ washEnd' = None
       /\ UNCHANGED <<meter, made, actions>>

MeterAlwaysOn ==
    /\ meter /= None /\ At_("always_on")
    /\ Fill("fridge", Span(Day, 0, DayTimes), 1)

\* Lights and other constant use of the evening.
MeterFill ==
    /\ meter /= None /\ At_("fill")
    /\ Fill("light", Span(Day, DayTimes - 2, DayTimes), 1)

\* Constant use becomes actions inside a day, and what remains belongs to Other.
SameDay(s, t) == Local[s].day = Local[t].day
FilledRuns(device) ==
    LET on(s) == s \in Period /\ filled[device][s] > 0
    IN {x \in Period \X Period :
            /\ x[1] <= x[2] /\ SameDay(x[1], x[2])
            /\ \A s \in x[1]..x[2] : on(s)
            /\ ~(on(x[1] - 1) /\ SameDay(x[1] - 1, x[1]))
            /\ ~(on(x[2] + 1) /\ SameDay(x[2] + 1, x[2]))}
Values(f, first, last) == [i \in 1..(last - first + 1) |-> f[first + i - 1]]
Finish ==
    /\ job = Len(Jobs) + 1
    /\ LET constant == UNION {{New(d, None, x[1], Values(filled[d], x[1], x[2]),
                                   Values(filled[d], x[1], x[2]), None, None) :
                                  x \in FilledRuns(d)} : d \in DOMAIN filled}
           days == {{s \in Period : Local[s].day = d} : d \in 1..Days}
           rest == {New(Other, None, Min(slots), Values(remaining, Min(slots), Max(slots)),
                        Values(remaining, Min(slots), Max(slots)), None, None) :
                       slots \in {slots \in days : \E s \in slots : remaining[s] > 0}}
       IN IF meter = None THEN UNCHANGED <<actions, remaining, made>>
          ELSE /\ actions' = actions \cup constant \cup rest
               /\ made' = [made EXCEPT ![Other].power = Max({remaining[s] : s \in Period} \cup {1})]
               /\ remaining' = [s \in Period |-> 0]
    /\ job' = job + 1
    /\ UNCHANGED <<meter, washEnd, filled>>

Finished == job = Len(Jobs) + 2

\* The file: actions in the order of their starts, numbered from 1.
Earlier(a, b) ==
    a.start < b.start \/ (a.start = b.start /\ Rank[a.device] < Rank[b.device])
BuildDocument ==
    LET order == Ordered(actions, Earlier)
    IN [devices |-> made,
        actions |-> [i \in DOMAIN order |->
            [id |-> i, device |-> order[i].device, program |-> order[i].program,
             start |-> order[i].start, end |-> order[i].end, energy |-> order[i].energy,
             profile |-> order[i].profile, plugged |-> order[i].plugged,
             deadline |-> order[i].deadline]]]

\* The standard set of devices has no car, heat pump or ventilation; a file from a
\* meter has no installation, and the device for the rest.
FullOnly == {"ev", "heat_pump"}
GeneratorInit ==
    /\ meter \in {None} \cup Meters
    /\ \E full, pv \in BOOLEAN :
           /\ meter /= None => ~pv
           /\ made = [d \in (DOMAIN Catalogue
                             \ ((IF full THEN {} ELSE FullOnly)
                                \cup (IF pv THEN {} ELSE {"pv"})
                                \cup (IF meter = None THEN {Other} ELSE {})))
                      |-> Catalogue[d]]
    /\ job = 1 /\ washEnd = None /\ actions = {}
    /\ remaining = IF meter = None THEN [s \in Period |-> 0] ELSE meter
    /\ filled = [d \in {"fridge", "light"} |-> [s \in Period |-> 0]]

GeneratorNext ==
    \/ AlwaysOn \/ Appliances \/ Wash \/ Dryer \/ Dishes \/ HeatPump \/ Ev \/ Pv
    \/ MeterAlwaysOn \/ MeterWash \/ MeterDryer \/ MeterDishes \/ MeterEv
    \/ MeterHeatPump \/ MeterFill \/ MeterSpikes \/ Finish
=============================================================================
