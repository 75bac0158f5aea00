----------------------------- MODULE DeviceFile -----------------------------
(***************************************************************************)
(* The device file: devices with their actions in quarter-hours, the rules *)
(* of the validator and the series of grid import that an accepted file    *)
(* becomes (device_validation, parsers/devices).                           *)
(*                                                                         *)
(* A slot is a quarter-hour in UTC, numbered from the start of the period. *)
(* The clock of the house is Local: a day, a time, and an hour may repeat. *)
(***************************************************************************)
EXTENDS Integers, Sequences, FiniteSets, FiniteSetsExt, SequencesExt

CONSTANTS
    Catalogue,    \* device -> [type, producer, mode, power, window, shift, programs]
    Rank,         \* order of the identifiers of devices: a number of each
    Local,        \* Local[slot]: [day, time]
    DayTimes,     \* quarter-hours on the clock of a day
    PeriodSlots,  \* slots of the file
    None

ASSUME DeviceFileAssumption ==
    /\ Local \in Seq([day : Nat, time : Nat]) /\ PeriodSlots \in 1..Len(Local)
    /\ DayTimes \in Nat \ {0} /\ None \notin Int
    /\ Rank \in [DOMAIN Rank -> Int] /\ \A d, e \in DOMAIN Rank : Rank[d] = Rank[e] => d = e

Period == 1..PeriodSlots
Total(profile) == SumFunction(profile)

\* The n-th element of an ordered set has n - 1 before it.
Ordered(S, before(_, _)) ==
    [n \in 1..Cardinality(S) |->
        CHOOSE x \in S : Cardinality({y \in S : before(y, x)}) = n - 1]

\* `times` quarter-hours after midnight on the clock; of a repeated hour the first.
Showing(day, times) ==
    {s \in DOMAIN Local :
        Local[s] = [day |-> day + times \div DayTimes, time |-> times % DayTimes]}
At(day, times) == Min(Showing(day, times))

Slots(a) == a.start..(a.end - 1)

\* The profile of an action: its own, that of its program, or equal parts.
ActionProfile(a, device) ==
    IF a.profile /= << >> THEN a.profile
    ELSE IF a.program \in DOMAIN device.programs THEN device.programs[a.program]
    ELSE [i \in 1..(a.end - a.start) |-> a.energy \div (a.end - a.start)]

-----------------------------------------------------------------------------
(* What the validator finds: first the structure of the file, as its schema   *)
(* asks for it, then the rules about what it says. Rules about what an        *)
(* earlier rule refused already are not applied to the action.                *)

ActionsOfSchema ==
    [id : Int, device : DOMAIN Rank, program : STRING \cup {None}, start : Int, end : Int,
     energy : Int, profile : Seq(Int), plugged : Int \cup {None}, deadline : Int \cup {None}]

DeviceFollowsSchema(device) ==
    /\ device.mode \in {"fixed", "shiftable", "interruptible"}
    /\ device.power \in (Nat \ {0}) \cup {None}
    /\ device.shift \in Nat \cup {None} /\ device.window \in [from : Nat, to : Nat] \cup {None}
    /\ \A p \in DOMAIN device.programs : device.programs[p] \in Seq(Int) \ {<< >>}
    /\ device.mode = "fixed" => device.window = None /\ DOMAIN device.programs = {}
    /\ device.mode /= "shiftable" => device.shift = None
    /\ device.power = None => DOMAIN device.programs /= {}

FollowsSchema(doc) ==
    /\ DOMAIN doc.devices \subseteq DOMAIN Rank
    /\ \A d \in DOMAIN doc.devices : DeviceFollowsSchema(doc.devices[d])
    /\ doc.actions \in Seq(ActionsOfSchema)

Placed(doc) ==
    {a \in Range(doc.actions) : /\ a.device \in DOMAIN doc.devices
                                /\ 1 <= a.start /\ a.start < a.end
                                /\ a.end <= PeriodSlots + 1}

ProgramFits(a, device) ==
    IF DOMAIN device.programs = {} THEN a.program = None
                                   ELSE a.program \in DOMAIN device.programs

Counted(doc) ==
    {a \in Placed(doc) :
        LET device == doc.devices[a.device]
        IN ProgramFits(a, device) /\ Len(ActionProfile(a, device)) = a.end - a.start}

SessionFits(a) ==
    /\ a.deadline /= None
    /\ (IF a.plugged = None THEN a.start ELSE a.plugged) <= a.start
    /\ a.end <= a.deadline

\* Mutant: the stated energy is not compared with the profile.
ActionWithoutTotal(a, device) ==
    /\ (a.energy < 0) = device.producer
    /\ IF device.type = "ev_charger" THEN SessionFits(a) ELSE a.plugged = None /\ a.deadline = None

ActionIsRight(a, device) ==
    LET profile == ActionProfile(a, device)
    IN /\ (a.energy < 0) = device.producer
       /\ Total(profile) = a.energy
       /\ device.power /= None =>
              \A i \in DOMAIN profile : profile[i] \in -device.power..device.power
       /\ IF device.type = "ev_charger" THEN SessionFits(a)
          ELSE a.plugged = None /\ a.deadline = None

GridLoad(doc, slot) ==
    SumFunction([a \in {a \in Counted(doc) : slot \in Slots(a)} |->
                    Max({0, ActionProfile(a, doc.devices[a.device])[slot - a.start + 1]})])

\* Parsers leave the limit of the connection out, tools set it.
ValidateDocument(doc, limit) ==
    /\ FollowsSchema(doc)
    /\ \A i, j \in DOMAIN doc.actions : i /= j => doc.actions[i].id /= doc.actions[j].id
    /\ Range(doc.actions) = Counted(doc)
    /\ \A a \in Counted(doc) : ActionIsRight(a, doc.devices[a.device])
    /\ \A a, b \in Counted(doc) :
           a /= b /\ a.device = b.device => Slots(a) \cap Slots(b) = {}
    /\ limit /= None => \A s \in Period : GridLoad(doc, s) <= limit

-----------------------------------------------------------------------------
(* An accepted file: records of the devices and the series of its period.    *)

SlotsOf(a, doc) == ActionProfile(a, doc.devices[a.device])

GridBalance(doc) ==
    [s \in Period |->
        SumFunction([a \in {a \in Range(doc.actions) : s \in Slots(a)} |->
                        SlotsOf(a, doc)[s - a.start + 1]])]
GridSeries(doc) ==
    LET balance == GridBalance(doc)
    IN [s \in Period |-> [imported |-> Max({0, balance[s]}),
                          exported |-> Max({0, 0 - balance[s]})]]
=============================================================================
