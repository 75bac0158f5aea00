---------------------------- MODULE DeviceDriver ----------------------------
(***************************************************************************)
(* One device of the smart home: smart-home-hub/device/driver.py behind     *)
(* device/api.py.  Its handlers are async without an await, so each request *)
(* is one step.  Time is what ticks say; a command takes effect at the time *)
(* of the last tick, before the first one at the time of the first.         *)
(*                                                                          *)
(* The unit of time is a part of a quarter-hour (Parts of them make one),   *)
(* and energy counts what a unit of time consumes, so that the division in  *)
(* the code is exact here and its rounding to six places is left out.       *)
(***************************************************************************)
EXTENDS Integers, Sequences

CONSTANTS
    Configs,     \* of each configuration: its programs, {} for a device only on or off
    Profile,     \* of each program: energy per unit of time in each quarter
    Power,       \* signed power of a device without programs
    Parts,       \* units of time in a quarter-hour
    NoProgram, NoAction, Never,
    MaxTime,     \* bound: the times of ticks
    MaxEvents    \* bound: the events of a device since its start

Programs == UNION Configs
Program == Programs \union {NoProgram}
Time == 0 .. MaxTime

\* Action: one the device does, or one that will start with the first tick.
Action == [program : Program, started : Time \union {Never}, kwh : Int]

ASSUME ProgramsAssumption ==
    /\ NoProgram \notin Programs
    /\ Profile \in [Programs -> Seq(Int)]
    /\ \A p \in Programs : Profile[p] # <<>>
ASSUME PowerAssumption == Power \in Int
ASSUME PartsAssumption == Parts \in Nat \ {0}
ASSUME NoActionAssumption == NoAction \notin Action
ASSUME NeverAssumption == Never \notin Nat /\ MaxTime \in Nat /\ MaxEvents \in Nat

VARIABLES
    programs,  \* config.programs
    state,     \* "off", "idle" or "running"
    simTime,   \* _sim_time
    action,    \* _action
    total,     \* total_kwh
    events,    \* _events: what the next step of time will report
    told,      \* all that ticks have answered: the events and the energy
    heard,     \* the part of it that reached the hub
    confirmed  \* the time of the last tick whose answer the hub got

driver == <<programs, state, simTime, action, total, events>>
driverVars == <<driver, told, heard, confirmed>>

StartOf(p, at) == [type |-> "device_started", at |-> at, program |-> p]
Finish(a, at, stopped) ==
    [type |-> "device_finished", at |-> at, program |-> a.program,
     started |-> a.started, kwh |-> a.kwh, interrupted |-> stopped]

Nothing == [events |-> <<>>, kwh |-> 0]

----------------------------------------------------------------------------
Duration(p) == Parts * Len(Profile[p])
ProgramRunning == action # NoAction /\ action.program # NoProgram

\* The sums of the first members of a sequence of numbers, and of all of it.
Sums(s) == LET f[n \in 0 .. Len(s)] == IF n = 0 THEN 0 ELSE f[n - 1] + s[n] IN f
Sum(s) == Sums(s)[Len(s)]

\* Whole quarters only, the energy inside a quarter left for its end.
WholeQuarters(p, elapsed) ==
    LET quarter == elapsed \div Parts
    IN  IF quarter >= Len(Profile[p]) THEN Parts * Sum(Profile[p])
        ELSE Parts * Sum(SubSeq(Profile[p], 1, quarter))

\* _profile_energy
ProfileEnergy(p, elapsed) ==
    LET quarter == elapsed \div Parts
    IN  IF quarter >= Len(Profile[p]) THEN Parts * Sum(Profile[p])
        ELSE Parts * Sum(SubSeq(Profile[p], 1, quarter))
                + Profile[p][quarter + 1] * (elapsed % Parts)

DriverInit ==
    /\ programs \in Configs
    /\ state = "off" /\ simTime = Never /\ action = NoAction /\ total = 0 /\ events = <<>>
    /\ told = Nothing /\ heard = Nothing /\ confirmed = Never

\* _begin_action
Begin(p) ==
    /\ action' = [program |-> p, started |-> simTime, kwh |-> 0]
    /\ events' = IF simTime = Never THEN events ELSE Append(events, StartOf(p, simTime))

\* A turn_on that does not see that the device is already running.
BeginAgain ==
    /\ ~ProgramRunning
    /\ state' = IF programs # {} THEN "idle" ELSE "running"
    /\ IF programs # {} THEN UNCHANGED <<action, events>> ELSE Begin(NoProgram)
    /\ UNCHANGED <<programs, simTime, total, told, heard, confirmed>>

\* turn_on: refused (409) while a program runs, nothing to do when running.
TurnOn ==
    /\ ~ProgramRunning /\ state # "running"
    /\ state' = IF programs # {} THEN "idle" ELSE "running"
    /\ IF programs # {} THEN UNCHANGED <<action, events>> ELSE Begin(NoProgram)
    /\ UNCHANGED <<programs, simTime, total, told, heard, confirmed>>

\* _finish_action: the events after action a ends.
Finished(a, at, stopped) ==
    IF a.started = Never THEN events ELSE Append(events, Finish(a, at, stopped))

\* turn_off
TurnOff ==
    /\ state' = "off"
    /\ action' = NoAction
    /\ events' = IF action = NoAction THEN events ELSE Finished(action, simTime, ProgramRunning)
    /\ UNCHANGED <<programs, simTime, total, told, heard, confirmed>>

\* start_program: refused (409) while another runs, and for unknown programs.
StartProgram(p) ==
    /\ p \in programs /\ ~ProgramRunning
    /\ state' = "running"
    /\ Begin(p)
    /\ UNCHANGED <<programs, simTime, total, told, heard, confirmed>>

\* _power_kw: the quarter of the running program whose power is shown.
PowerQuarter == (IF action.started = Never THEN 0 ELSE simTime - action.started) \div Parts

----------------------------------------------------------------------------
(* tick                                                                    *)

\* What the tick at `now` answers, and whether the answer reaches the hub.
Answer(reply, now) ==
    /\ told' = [events |-> told.events \o reply.events, kwh |-> told.kwh + reply.kwh]
    /\ \/ /\ heard' = [events |-> heard.events \o reply.events, kwh |-> heard.kwh + reply.kwh]
          /\ confirmed' = now
       \/ UNCHANGED <<heard, confirmed>>

\* A tick repeated at the same time changes nothing and reports nothing.
RepeatTick(now) ==
    /\ now = simTime
    /\ Answer(Nothing, now)
    /\ UNCHANGED driver

\* The first tick is only the beginning of time: actions start, no energy.
FirstTick(now) ==
    LET first == IF action = NoAction THEN <<>> ELSE <<StartOf(action.program, now)>>
    IN  /\ simTime = Never
        /\ simTime' = now
        /\ action' = IF action = NoAction THEN NoAction ELSE [action EXCEPT !.started = now]
        /\ events' = <<>>
        /\ Answer([events |-> events \o first, kwh |-> 0], now)
        /\ UNCHANGED <<programs, state, total>>

\* A program is over only after its end, not at it.
OverPastEnd(now) == now > action.started + Duration(action.program)

\* Whether the program's end has come.
Over(now) == now >= action.started + Duration(action.program)

\* The energy from the last tick to `now`.
StepEnergy(now) ==
    IF action = NoAction THEN 0
    ELSE IF action.program = NoProgram THEN Power * (now - simTime)
    ELSE LET ends == action.started + Duration(action.program)
             end == IF now < ends THEN now ELSE ends
         IN  ProfileEnergy(action.program, end - action.started)
                - ProfileEnergy(action.program, simTime - action.started)

\* A later tick, of any step; a program may end inside it.
Tick(now) ==
    LET kwh == StepEnergy(now)
        worked == [action EXCEPT !.kwh = @ + kwh]
        over == ProgramRunning /\ Over(now)
    IN  /\ simTime # Never /\ now > simTime
        /\ simTime' = now
        /\ total' = total + kwh
        /\ state' = IF over THEN "idle" ELSE state
        /\ action' = IF over \/ action = NoAction THEN NoAction ELSE worked
        /\ events' = <<>>
        /\ Answer([events |-> IF over
                              THEN Finished(worked, action.started + Duration(action.program), FALSE)
                              ELSE events,
                   kwh |-> kwh], now)
        /\ UNCHANGED programs

\* The hub starts the process of the device again, after a failure or with a
\* changed configuration: it remembers nothing.
Restart ==
    /\ programs' \in Configs
    /\ state' = "off" /\ simTime' = Never /\ action' = NoAction /\ total' = 0 /\ events' = <<>>
    /\ told' = Nothing /\ heard' = Nothing /\ confirmed' = Never

----------------------------------------------------------------------------
AllEvents == told.events \o events

\* A command or a tick adds one event at most.
Room == Len(AllEvents) < MaxEvents

DriverNext ==
    \/ Room /\ TurnOn
    \/ Room /\ TurnOff
    \/ Room /\ \E p \in programs : StartProgram(p)
    \/ \E now \in 0 .. MaxTime :
          \/ RepeatTick(now)
          \/ Room /\ FirstTick(now)
          \/ Room /\ Tick(now)
    \/ Restart

DriverSpec == DriverInit /\ [][DriverNext]_driverVars

----------------------------------------------------------------------------
(* Properties.                                                             *)

StartEvent == [type : {"device_started"}, at : Time, program : Program]
FinishEvent == [type : {"device_finished"}, at : Time, program : Program,
                started : Time, kwh : Int, interrupted : BOOLEAN]

\* The driver's fields; an event always carries the times it is about.
DriverTypeOK ==
    /\ programs \in Configs
    /\ state \in {"off", "idle", "running"}
    /\ simTime \in Time \union {Never}
    /\ action = NoAction \/ action \in Action
    /\ total \in Int
    /\ \A i \in 1 .. Len(AllEvents) : AllEvents[i] \in StartEvent \union FinishEvent
    /\ heard.kwh \in Int /\ told.kwh \in Int
    /\ confirmed \in Time \union {Never}

\* power_kw indexes the profile of the running program: after any commands
\* and ticks of any step the index lies in the profile, so that status, and
\* the tick itself, can answer.
PowerIsReadable ==
    ProgramRunning => PowerQuarter < Len(Profile[action.program])

\* The events, told and waiting, are the life of the device: actions one after
\* the other, each with one start and one finish that names it, in the order
\* of time, and the last one open exactly while the device runs.
EventsTellTheActions ==
    /\ state = "running" <=> action # NoAction
    /\ \A i \in 1 .. Len(AllEvents) :
          LET e == AllEvents[i]
          IN  /\ e.type = IF i % 2 = 1 THEN "device_started" ELSE "device_finished"
              /\ i > 1 => AllEvents[i - 1].at <= e.at
              /\ i % 2 = 0 => /\ e.started = AllEvents[i - 1].at
                              /\ e.program = AllEvents[i - 1].program
    /\ Len(AllEvents) % 2 = 1 <=> action # NoAction /\ action.started # Never
    /\ Len(AllEvents) % 2 = 1 => AllEvents[Len(AllEvents)] = StartOf(action.program, action.started)

\* The energy of a program or of a device that is on, in `elapsed` units of
\* time, unit by unit.
Work(p, elapsed) ==
    IF p = NoProgram THEN Power * elapsed
    ELSE Sum([u \in 1 .. (IF elapsed < Duration(p) THEN elapsed ELSE Duration(p)) |->
                Profile[p][((u - 1) \div Parts) + 1]])

\* The energy of each event, none of a start, and that of the action under way.
EnergyOf(es) == [i \in 1 .. Len(es) |-> IF es[i].type = "device_finished" THEN es[i].kwh ELSE 0]
OpenWork == IF action # NoAction /\ action.started # Never
            THEN Work(action.program, simTime - action.started) ELSE 0

\* "Krok ticka jest dowolny" (docs/smart-home-api.md): whatever the steps of
\* the ticks, a finished action has the energy of its time, a program that
\* was not interrupted ends after its duration, and the energy told by ticks
\* is the total, which is that of the actions.
EnergyFollowsEvents ==
    /\ \A i \in 1 .. Len(AllEvents) :
          LET e == AllEvents[i]
          IN  e.type = "device_finished" =>
                /\ e.kwh = Work(e.program, e.at - e.started)
                /\ e.program # NoProgram /\ ~e.interrupted =>
                      e.at = e.started + Duration(e.program)
    /\ total = Sum(EnergyOf(AllEvents)) + OpenWork
    /\ told.kwh = total

----------------------------------------------------------------------------
\* "Tick ze sim_time rownym ostatniemu niczego nie zmienia, dzieki czemu hub
\* moze go bezpiecznie ponowic" (docs/smart-home-api.md): once the hub has the
\* answer to the last tick, it has all that was told.
RetryIsSafe == confirmed = simTime => heard = told
=============================================================================
