# Energy Advisor in TLA+

TLA+ models of the Energy Advisor: its backend (`src/backend`), its web frontend
(`src/frontend`) and the smart home hub (`src/smart-home-hub`). Each module is
translated from the code it names; TLC checks it on small instances, and TLAPS proves
the theorems of the `…Proofs` modules for all instances. `PROJECT.json` maps every
definition to its lines, and lists the runs, mutants, findings, hazards and theorems.

Contents: the system · the modules and the code · the runs, their bounds and fairness
· the proofs · what the runs found · what the models showed beside the runs · what is
not modelled · the plan.

## The system

A user uploads files: meter readings, or the planned use of home devices. The backend
merges them, calculates what the energy costs under each tariff, plans devices into
cheap hours and keeps dynamic market prices up to date. The hub runs one process per
device of a simulated home.

| component | code | state | operations | what makes it hard |
|---|---|---|---|---|
| Device files and flags | `services/upload_service.py`, `energy_file_service.py`, `repositories/device_repository.py` | files, devices of the home, links, quarter-hour rows, the flag `superseded` of each row, simulations | upload in three transactions, failure, deletion | flags kept by increments along two paths; a file's place in the order is fixed before it is saved; requests lost between commits |
| Concurrent requests on them | the same | what each transaction has locked, read and written | the statements of an upload and of a deletion | READ COMMITTED, row locks taken for another purpose, deadlocks, reads made before a wait |
| Device files | `parsers/devices.py`, `parsers/device_validation.py`, `scripts/generate_devices_file.py` | actions placed so far, what is left of the meter | generation, edits by the user, validation, the series | rules that tie actions to devices and to each other; one meter shared by all devices |
| Meter files | `parsers/formats.py`, `reading.py` | none | rows to records, report | repeated, invalid and ignored rows; the resolution |
| Usage views | `services/calculation_service.py`, `device_usage_service.py`, `energy_file_service.py` | results stored at import, beside tables that go on changing | the view of a file, of all files, of devices and the rest of the house | stored numbers against recomputed ones; gaps against zeros; overlap of files |
| Scheduling | `services/scheduling.py` | the plan: offsets, busy slots, load | placement of groups of actions, pass by pass | greedy order, groups that come and go, the ends of windows |
| Tariffs and PV | `services/new_calculations_service.py`, `tariff_engine.py`, `tariff_zones.py`, `pv_service.py` | energy by cycle, stored credits, deposit, within one calculation | balancing, charging, settlement | clamped dates, rates that change in a cycle, order and expiry of credits, a tariff that fails |
| Price synchronisation | `services/price_sync_service.py`, `core/locks.py`, `workers/`, `providers/prices/` | prices, rows of runs, advisory lock | gap filling, ranges, backfills | worker, API and command line at once; days published in part or again; crashes |
| Sessions | `services/auth_service.py`, `repositories/user_repository.py`, `frontend/src/api/client.js` | token rows, tokens of the browser | login, rotation, logout | tabs that rotate the same token, lost answers |
| Device driver | `smart-home-hub/device/` | one running action, simulated time, energy, events not yet told | commands, ticks of any step | commands before the first tick, programs that end inside a step, answers that are lost |
| Hub supervisor | `smart-home-hub/hub/` | registry, ports, `state.json`, processes, restarts | registry request, health check, start, stop | processes that hang, die or boot slowly; parallel tasks under one lock; a crash before the registry is written |
| Hub client | `clients/hub_client.py` | none | requests with retries | called by nothing yet |
| Endpoints, price history, profiles | `api/v1/`, `services/dynamic_price_service.py`, `user_service.py` | single rows | reads and single-row writes | nothing over several steps |
| Web pages | `frontend/src/pages`, `context`, `components` | selection, what is loaded | loading after a change of selection | answers that come late |
| Migrations, seeds, scripts | `alembic/`, `calculations_seed.py` | none | run by hand | — |

How they meet: requests share the PostgreSQL tables and nothing else; the worker and
the API share the advisory lock and the price tables; the hub talks HTTP to its
processes; the browser's tabs share `localStorage`. An upload stores what the views
read later, and a device file goes from the generator through the user's editor and the
import to the schedule.

What makes each correct:

- **Flags.** A quarter-hour of a device belongs to the newest file that has the device
  and covers it, after any sequence of requests, and no quarter-hour counts twice.
- **Concurrent uploads.** They end as uploads one after another, and they end.
- **Device files.** What the generator writes the import accepts; the devices of a meter
  add up to it; series and actions have the same energy.
- **Views.** The views of one file, of all files and of devices agree with each other
  whatever was uploaded or deleted since, and every range the list offers has an answer.
- **Scheduling.** No two actions of a device in one slot, every action inside its window
  and day, the limit kept where something moved, nothing left to save at the end.
- **Billing.** Each day is billed once, each unit of surplus is used, expired or still
  stored, once; energy costs the rate of its own day and zone.
- **Prices.** No gap after a success, no older price over a newer one, true statuses.
- **Sessions.** A tab is logged out only when the session has ended.
- **Driver.** Events are complete actions in order, with the energy of their time.
- **Supervisor.** No stray process, stable ports, the registered configuration, and
  every device comes back or is given up.

The hazards in `PROJECT.json` name the lines where these can go wrong, with the
properties that would notice.

## The modules and the code

### DeviceFlags, NewestWins

`DeviceFlags` is the database between transactions; each action is one committed
transaction. `CreateFile`, `SaveContents` and `SaveSimulation` are the three commits of
`process_upload`, `MarkFailed` its handler, `LoseUpload` a request that ends with no
further commit, `DeleteFile` is `delete_file` with its cascades. `Refresh` is
`refresh_superseded`, `CoverOlder` is `_cover_older_files`, and `HasNewerFile` chooses
between them. Files are numbered in upload order; quarter-hours are integers. `Contents`
are files that passed `device_validation.py`, of which the model takes that usage lies
in the period and in the file's devices. Left out: program rows and device settings,
upserts in the same transactions that no flag depends on.

`NewestWins` is the abstract specification, with no flags at all: the contents of the
files, and the rows that count, chosen anew after each change. `Merge` in `DeviceFlags`
is the refinement mapping: the contents of completed files, and the unflagged rows.

### UploadTx, DeleteTx

`UploadTx` opens the second transaction of an upload into statements. The committed
tables keep the names of `DeviceFlags` (`Serial`); `parsed`, `held`, `older`, `marked`
and `restored` are what the open transaction of each file has and no other sees. The
row locks come from the upsert of `device_instances`; `WaitsFor` and `Deadlocked` are
PostgreSQL's. `Commit` publishes everything at once. `UploadsAreSerial == Serial!Spec`
says that `UploadTx` implements `DeviceFlags`.

`DeleteTx` adds `delete_file`, statement by statement, beside running uploads. It is
used by the run that shows what concurrent deletions break.

### MeterFile, UsageViews

`MeterFile` is the import of a meter file without its text: a row has a line, the end of
its reading, a kind of energy and a value, any of which may be missing or unreadable.
`Incomplete`, `IgnoredRows`, `ValidRows`, `DatedRows` and `Repeats` are what is ignored,
skipped or taken; `Resolutions` is `detect_resolution_minutes`; `MeterFileAccepted` are
the refusals; `Records` and `Report` what the import makes of the rest.

`UsageViews` extends `DeviceFlags`: `SaveImport` is `SaveContents` together with what
`process_upload` computes from the file (`Stores`: readings, the results of `calculate`,
the summary of the list), and `Delete` forgets it. Everything a view does is an operator
on these tables: `Summarize` and `ForRange` (`summarize_usage`, `calculate_for_range`),
`FileData` and `AllFilesData`, `MergeUsage`, `DeviceSeries`, `Contribution`,
`MergePrices`, and of `DeviceUsageService` the source, range, filter, costs, production
and rest of the house. A refused request is the empty set of days.

### DeviceFile, FileGenerator, Scheduling, DevicePlan

`DeviceFile` has the clock (`Local`, with an hour that comes twice), the rules of
`device_validation.py` about devices and actions (`ValidateDocument`) and the series an
accepted file gets (`GridSeries`).

`FileGenerator` is the script, a job of a day at a time. From a plan of a house
(`AlwaysOn` .. `Pv`) an action starts at the time drawn or later, when its device is free
and the connection has the power. From a meter (`MeterAlwaysOn` .. `MeterSpikes`) devices
take from `remaining`, and `Finish` gives what is left to `Other`. What the script draws
at random is chosen from `Draws`. The script does not call the validator of the backend
on what it writes; `GeneratedFileIsValid` is therefore worth checking.

`Scheduling` is `scheduling.py`: the `items` made of actions (`ActionsFromDevices`, with
a dryer in the group of its wash), and a plan kept as groups come and go (`busy`, `load`
against `placed` and `offset`). A step is the turn of one group: `Improve` moves it to
the cheapest start allowed (`Offsets`, `Rejection`, `Cheapest`), `Stay` leaves it,
`StartAgain` is the restart with reserved places, `AnotherPass` the next pass.

`DevicePlan` composes them along the way of a file: `Generate`, `WriteFile`, `Edit` by
the user, `Import`, `AskForSchedule` with a range of days, a table of prices and a limit,
`Schedule`, `Answer`. Its properties are in `DevicePlanProperties`.

### Billing

One calculation: `readings` of a meter, the installation of the profile and the market
prices are chosen at the start, and a step is one cycle of one tariff. `Prepare` makes
the cycles, `NextTariff` copies the details, `BalanceMetering` and `BalanceBilling` are
`pv_service`, with `store` the queue of credits and `ledger` a history of who paid for
what, `ChargeCycle` is `tariff_engine` and `Settle` the end of a tariff. `BalanceFails`
and `ChargeFails` are the errors after which the loop goes on with the next tariff.
Energy is in tenths, so that the factors 0.8 and 0.7 stay integers.

### PriceSync

Each element of `Syncs` is a thread that synchronises: a job of the worker, a request,
a backfill. `SyncMissing` and `SyncRange` choose the days *before* the lock is taken, as
the code does; `Acquire` .. `Unlock` are `_run` and `_run_locked`. `published` is what
the provider answers now: a day is published in part, in full or with corrections, by
`Publish`. `stored` remembers from which publication a price is. `FetchFails`,
`WriteFails`, `CommitFails` and `Crash` are the faults.

### Sessions

One user, the row of `tokens`, and the tabs of one browser. On the server `Validate`,
`Find`, `Insert`, `Update`, `Reload` and `Delete` are the statements of refresh, login
and logout, which those of other requests come between. In a tab `reqs` are the requests
of `apiClient` and `promise` is `refreshPromise`; `PageUnauthorized`, `HearTokens`,
`HearRefused` and `HearLogout` are its interceptors, on a `localStorage` (`stored`,
`user`) that the tabs share. `Break` is a connection that breaks, after which the server
may go on or not. `answered` is a history.

### DeviceDriver

One `DeviceDriver`. `TurnOn`, `TurnOff`, `StartProgram` are the commands, `RepeatTick`,
`FirstTick`, `Tick` the branches of `tick`, `Restart` a new process with a configuration
of `Configs`. Time is in units of `1/Parts` of a quarter-hour, so that a tick may end
inside a quarter; energy is counted in units of power times time, without rounding.
`told` is all that ticks answered, `heard` what reached the hub: an answer may be lost.

### HubSupervisor

`devices` is the registry of `ManagedDevice`s, `stored` is `state.json`, `procs` the
processes of the system with their phase. `task` is who holds the lock and `jobs` what
its parallel per-device tasks still wait for: a step is the code between two awaits.
`PutDevices`, `ApplyChanges`, `UpdateRunning`, `SaveState`, `AnswerRequest` are
`apply_registry`; `CheckHealth`, `CheckDevice`, `HealthChecked` the health loop;
`KillStuck`, `StopEnds`, `Spawn`, `WaitEnds` are `_stop_process` and `_start_device`,
shared by both. `Boot`, `Exit`, `Fault`, `Recover` are what processes do by themselves.
The end of the hub takes its processes with it, as the end of its container does.

## The runs

| run | module | result | question |
|---|---|---|---|
| `device_flags` | MCDeviceFlags | holds | Are the flags right after any sequence of uploads, late saves, failures and deletions? |
| `upload_tx` | MCUploadTx | holds | Do concurrent uploads end, as if one after another? |
| `delete_counts_twice` | MCDeleteTx | violated | The same with a deletion: does a quarter-hour count once? |
| `usage_views` | MCUsageViews | holds | Do the views agree with each other and with what was imported, after any uploads and deletions? |
| `device_plan` | MCDevicePlan | holds | Are generated files valid, accepted files consistent, and schedules within their rules? |
| `billing` | MCBilling | holds | Do energy, credits, costs and days of every bill add up? |
| `price_sync` | MCPriceSync | holds | Statuses, gaps, order of prices and the lock, with threads at once. |
| `sessions` | MCSessions | holds | Does a refresh that fails end only a session that is over, and is no token refreshed twice? |
| `live_session` | MCSessions | violated | ... also for a request that joined the refresh of an older token? |
| `device_driver` | MCDeviceDriver | holds | Are events and energy right for any commands and ticks? |
| `driver_retry` | MCDeviceDriver | violated | Is a tick safe to repeat? |
| `hub` | MCHubSupervisor | holds | Are processes, ports and configurations right, and do devices come back? |

### Bounds

- `device_flags`: three files, two devices, periods in two quarter-hours, contents with
  energy everywhere or nowhere, and a meter file. Three files are what it takes to have
  a row covered by two others, or uncovered by one deletion and still covered by the
  third; two devices to have a file whose devices are partly in another. Symmetry over
  devices, which no definition tells apart.
- `upload_tx`: three concurrent uploads of four contents: each device alone, both, none;
  two in opposite order deadlock, the third overlaps.
- `delete_counts_twice`: three files of one device, one of them deleted.
- `usage_views`: three files out of ten imports, a consumer and a producer, three days of
  two quarter-hours, an hour of two. The five device files overlap in every way the views
  tell apart (one device twice, a device in one file only, production against the use of
  another file, prices missing at one import); the meter files read by the quarter and by
  the hour, with gaps, with repeated, invalid and ignored rows; two more are refused.
- `device_plan`: two days of six quarter-hours, the second with an hour that comes twice,
  and a third on the clock; ten devices, one for each way a device is treated; houses
  planned from draws and two meters; one edit of a file, of its third or fourth action;
  ranges of days, two tables of prices (one ends inside the second day), and no limit or
  one that binds. `MaxPasses` is the code's bound; three suffice for the passes to end by
  themselves and for a conflict to be repaired.
- `billing`: months of two and three days, cycles of one month, credits that live two
  months beyond theirs, five days in four cycles, each sunny, cloudy or without readings;
  three installations; a tariff whose rates end inside the file, one whose rates change
  inside a cycle, and the dynamic one; a change of tax; prices negative or missing. The
  billing period starts on the second day, which every month has (see below).
- `price_sync`: two days of two quarters, published in part and then in full with a
  correction; two synchronisations of any kind; one fault or crash; midnight. With
  `CatchupDays` 0 the window is today and tomorrow, so it moves at midnight.
- `sessions`: two tabs, each with one request of a page and a logout, two calls to `/auth`
  at once, two tokens after the first, two ids for rows; symmetry over tabs, calls, pages
  and rows, which are compared only for equality. `OneRow` stops where two logins have
  inserted a row each. `live_session` has two requests in a tab, as the finding needs.
- `device_driver`: a device that gives energy without programs, or one with programs of
  one and two quarters; quarters of two units; times to 7 and five events, enough for a
  program to be replaced, jumped over and started again.
- `hub`: two ports and three devices, so that ports are given away and may not suffice;
  three requests; one restart allowed; one fault and one crash or stop of the hub.

The bounds `MaxTime`, `MaxEvents`, `MaxRequests`, `MaxFaults`, `MaxCrashes`, `Pids`,
`MaxSyncs`, `MaxToken`, `Calls` and `RowIds` cap counters in guards only. Where they, the
end of all files or the end of a calculation leave nothing to do, the cfg turns the
deadlock check off: the system then waits for requests, or has answered.

### Fairness

Safety is checked without it. Liveness assumes:

- `UploadTx`: weak fairness of what an upload does next, as its thread is scheduled,
  and of `AbortDeadlocked`, as the server's detector runs after `deadlock_timeout`. No
  fairness of failures.
- `HubSupervisor`: weak fairness of the event loop's steps (every await there ends by
  an answer or a timeout), and of booting and of ending when told to, for each process.
  A process that hangs need not recover: the kill after the timeout is a step.
- `PriceSync`: weak fairness of each thread. Its requests end after
  `HTTP_TIMEOUT_SECONDS`, and the lock is only tried, never waited for.

The other specifications state no fairness. What they model either waits for a user
(`Sessions`, `DeviceFlags`, `UsageViews`, `DeviceDriver`) or is one calculation whose
steps are counted by a loop (`Billing`, `DevicePlan`); the restart of the schedule
happens once, as reserved places rule it out afterwards.

### Mutants

Each property of a passing run has a mutant in `PROJECT.json`: a definition replaced by
one with a plausible bug (an inclusive end, a dropped guard, a lock that is not
released), under which TLC must find the property violated. The mutated forms stand in
the modules just before the definitions they replace.

## The proofs

Each theorem holds for any values of the constants that satisfy the assumptions of its
module: any number of files, devices, threads, tabs, requests, slots of time. A proof of
`Spec => []P` goes through an inductive invariant `IInv` that TLC checked before it was
proved; `NextInv` has one step per action.

| module | theorem | property |
|---|---|---|
| `DeviceFlagsProofs` | `TypesHold` | `TypeOK` |
| | `FlagsAreRight` | `FlagsFollowNewestFile` |
| | `HomeIsExact` | `HomeIsDevicesOfFiles` |
| | `NoDoubleCounting` | `NoQuarterCountedTwice` |
| | `UploadOnlyCovers` | `UploadOnlyCoversOlderRows` |
| | `FlagsImplementMerging` | `MergesByNewestFile` (refinement) |
| `UploadTxProofs` | `TypesHold` | `TypeOK` |
| | `FlagsOfOneUpload` | `UpdatesNeverMeet` |
| | `ConcurrentUploadsAreSerial` | `UploadsAreSerial` (refinement) |
| | `FlagsAreRightConcurrently` | `FlagsFollowNewestFile` of the committed tables |
| `PriceSyncProofs` | `LockIsExclusive` | `TypeOK` |
| | `StatusesAreTrue` | `StatusIsTrue` |
| | `NoGapAfterSuccess` | `GapsAreFilled` |
| | `NoOlderPrice` | `PricesNeverGoBack` (of steps) |
| `SessionsProofs` | `TokensAreSentOnce` | `NoTokenSentTwice` |
| | `RefusalIsFinal` | `OwnTokenEndsDeadSession`, given `[]OneRow` |
| `SmartHomeProofs` | `HubTypes` | `TypeOK` of `HubSupervisor` |
| | `ProcessesAreNotLost` | `NoStrayProcess` |
| | `AnsweredPortsAreKept` | `AnsweredPortIsKept` |
| | `RegisteredConfigsRun` | `ProcessHasRegisteredConfig` |
| | `DriverTypes` | `DriverTypeOK` |
| | `PowerCanBeRead` | `PowerIsReadable` |
| | `EventsAreTheActions` | `EventsTellTheActions` |
| | `StepsDoNotMatter` | `EnergyFollowsEvents` |
| `DevicePlanProofs` | `PlanInvariant` | `IInv` |
| | `PlanIsThatOfItsGroups` | `PlanIsItsGroups` |
| | `MovesKeepRules` | `MovesKeepTheRules` |
| | `NothingIsLeftToSave` | `NothingLeftToSave`, while no use is negative |
| | `MovesKeepLimit` | `MovesKeepTheLimit`, while no use is negative |
| | `SeriesIsThatOfTheActions` | `SeriesIsTheActions` |
| | `GeneratorKeepsItsInvariant` | `FileInv` |
| | `GeneratedFilesAreValid` | `GeneratedFileIsValid` |
| | `DevicesAddUpToTheMeter` | `SumsToMeter` |
| `UsageViewsProofs` | `FilesKeepWhatTheyBrought` | `ViewIInv` |
| | `FileShowsItsImport` | `FileViewIsItsImport` |
| | `SeriesIsThatOfTheNewest` | `SeriesFollowsNewestFile` |
| | `ListAgreesWithFlags` | `ContributionsFollowFlags` |
| | `HouseIsWhole` | `TheHouseAddsUp` |
| | `KnownPriceIsShown` | `PricedStaysPriced` |
| | `ListedRangeAnswers` | `ListedRangeIsAnswered` |
| `BillingProofs` | `WorkFollowsReadings` | `Work` |
| | `DaysAreBilledOnce` | `EachDayBilledOnce`, given `BillingDayInEveryMonth` |
| | `RefusalsAreExplained` | `RefusalsHaveAReason`, given `BillingDayInEveryMonth` |
| | `CreditsAreKept` | `BooksBalance` |
| | `DearestZonesArePaidFirst` | `DearestZoneFirst` |
| | `CreditsPayInTime` | `CreditsInTime` |
| | `BillsAreWhole` | `EnergyIsWhole` |
| | `MoneyIsCounted` | `MoneyAddsUp` |
| | `EnergyCostsTheRateOfItsDay` | `EnergyCostsItsRate` |

### The arguments

**DeviceFlags.** `FlagsFollowNewestFile` is not inductive by itself. `IInv` adds
`RowsInTheirFile` (a row lies in a device and in the period of its file) and
`DevicesOfCompletedFiles` (a file that is not completed has no devices and no period).
The first is what makes the shortcut of `_cover_older_files` right: it marks all rows of
an older file whose devices are all in the new one without looking at each row's device.
The second gives that a file is saved once, into tables that have nothing of it.
`RefreshIsExact` and `CoverOlderIsExact` say what the two paths do to one row;
`SaveCovers` says how a save changes which rows are covered, and `SaveFlags` and
`DeleteFlags` put them together. That quarter-hours never count twice follows from the
rule, as upload order is total. `FlagsImplementMerging` maps each step to a step or a
stutter of `NewestWins`.

**UploadTx.** `IInv` is that of `DeviceFlags` on the committed tables, with `TxInv(f)`
for each open transaction and `LocksAreApart`. `TxInv` says what a transaction may rely
on after each statement: past the upsert it holds the locks of all its devices; a row of
an older file that it has to cover is covered or in a file still to come; `marked` and
`restored` are the rows of `ToCover`, `ToRestore` and `ToMark` done so far. What the transaction read long ago is
still true at its commit because another upload that would change it must hold a lock of
the same device. At the commit these sets add up to `SaveForFile` of `DeviceFlags`, as
one step; every other statement is a stutter.

**PriceSync.** A price that is in the table is not newer than the publication
(`StoredIsPublished`), nor is what a thread saw (`SeenIsPublished`). The answer that is
about to be written is at least as new as every price of its day (`AnswerIsNewest`),
because the lock was held since before it was fetched: that is `PricesNeverGoBack`. For
the statuses, `DaysAreAccounted` says that each requested day is still to do, or was
seen as nothing, or was saved and has all quarters of what was seen, or failed. A day
outside `requested` was complete when it was left out, and publications only grow.

**Sessions.** `OneRefresh` ties `refreshPromise` to the one refresh of a tab under way;
`TokensAreIssued`, `NewIsUnheard` and `StoredIsUnanswered` say where a token may be: in
a call not yet heard, in `localStorage`, or used up. For `RefusalIsFinal`, `TokenIsGone`
says that once a refresh has found its row no other row has its token, and after it has
written or was refused no row has. With two rows it does not hold: a refresh
that `first()` compares with one row is refused while the other row has its token, and
once a logout has deleted the first row that token is accepted again. Hence the hypothesis
`[]OneRow`, which is the constraint of the run and is not enforced by the code (see
"What the models showed").

**DeviceDriver.** `ActionIsUnderWay` says that the action at work started when the last
event says, is not past the end of its program, and has the energy of its time;
`EventsAreOfThePast` that nothing is dated later than the simulated time. The energy of
a step is that of the units of time in it (`EnergyIsWork`), whatever quarters the step
cuts: `_profile_energy` adds quarter by quarter, the property unit by unit. This is the
one induction, over units of time, done with a set of numbers that has 0 and is closed
under successor (`Induct`), and `Sum` is a recursive function for that reason.

**HubSupervisor.** No invariant of the registry alone is kept: while a device is stopped
its entry forgets the process, which lives until it has seen the signal, and while a
request removes devices its new ones have ports that no entry has yet. `ProcessesAreKnown`
adds that a process may be known by the job of its device instead (`AwaitedBy`);
`StoppedIsForgotten` and `DevicesKnowTheirOwn` that nobody else knows of it; `OneTask`
which jobs there are under which holder of the lock; `NewPortsAreFree` that the ports of
a request under way are free of one another and of all devices kept; `ConfigArrives`
that a process has the registered configuration unless a job of the current request
will replace it or send the new one; `AnswersAreStored` that what was answered is in
`state.json`, from which a hub that crashed starts again.

**DevicePlan.** `IInv` says of the plan at work that `load` and `busy` are those of the
groups placed so far (`PlanIs`), that turns are taken in their order (`PlacedInTurn`), and
that every turn done chose an offset allowed, cheapest and within the limit
(`TurnsAreCheapest`, `TurnsAreInLimit`). What keeps the last two is `OptionsShrink`: a group
that enters the plan only takes places away, so what was cheapest at an earlier turn is
still cheapest. From the second pass on all groups are placed, and a move lowers the load
everywhere but in the new place. Both need that no group gives energy back. The accepted
file does not say so: the validator looks at the sign of the energy of an action and not at
its profile, whose numbers the schema takes with any sign; a profile with both signs can
make room for others in a quarter-hour that was full. Hence `UsesArePositive` as the
hypothesis of `NothingIsLeftToSave` and `MovesKeepLimit`. Sums over finite sets are the
library's, unfolded by a bijection with numbers (`SumIs`); `SumByColumns` exchanges the two
sums for the series.

The generator has an invariant of its own, `GeneratorInv`, kept by each of its seventeen
steps whatever is drawn. The script and the validator say the same things in different
words, at different times, and the invariant is what connects them:

- `Made`: each action is right for the device it is of as the file will describe it. It
  carries the energies of its slots (`use`), which the file may leave out; `RightFor` says
  that the validator will find them again, from the profile, from the program, or from
  equal parts of the energy. The device of the rest has no power until `Finish` sets it, so
  until then it must have no actions (`MeterTyped`).
- `MadeActionsInv`: no device is used twice at once. For what `Finish` makes of the
  constant use this rests on `RunsAreApart`: runs that end where the use or the day ends do
  not meet.
- `HouseInv`: a planned house keeps to its connection. An action that comes later may only
  take what is left in all its slots (`AddIsRight`).
- `MeterInv`: in every slot, what actions use, what constant use has taken and what remains
  add up to the reading; constant use and the rest are never negative. Constant use and the rest cover
  exactly the slots in which they are (`RunAround`, `CoverTakes`), so `Finish` moves both
  into actions without loss.

Until the file is edited it is the list of these actions in order (`Written`): each has its
line and no two share one (`ActionsHaveLines`), as two of one device never start together
and devices are ordered. The sums over the lines, in the validator and in the series, are
then those over the actions (`SumOfLines`, `SumsOfFile`).

**UsageViews.** A view reads what an upload stored long ago beside rows and flags that
later requests changed. `ViewIInv` is `IInv` of `DeviceFlags` (every step of `UsageViews`
is a step of it, `ViewStepsAreSteps`) with `FilesKeepImports`: a completed file has in all
tables, rows and links included, what one import brought; and the tables are finite. The
six properties are then facts about the operators of the views in any such state.

- A row counts in the merged series iff its file is the newest that has its device there
  (`CurrentIsOfNewest`), so the sum over unflagged rows is a sum over devices; the same rule
  gives what the list says of contributions.
- The house adds up by quarter-hours (`SumByKey`), after its rows are split into chosen and
  other devices, used and produced.
- A merge of files, oldest first, is a recursion over the set of files; `NewestPrices` and
  `NewestUsage` say what it gives without one, and `MergedAreNewest` and
  `MergedUsageIsNewest` that it does.
- A file's rows are the balance of its import (`OwnBalance`), and without production cost by
  row is cost by quarter-hour (`OwnCost`), so the estimate needs no scaling. For a meter
  file, rows that repeat give the same pairs as the first of them (`PairsAreReadings`), each
  reading is in one record, and readings lie at least a resolution apart (`EndsLieApart`):
  no two records share a quarter-hour (`PlacesLieApart`), and their energy is spread over
  quarter-hours without loss (`RecordsAreSpread`). The number of quarter-hours divided by
  the resolution is then the number of records (`MeterRecordsCount`), which the import
  counted in the file.
- The days of a series are those between the dates of the list because both are the least and
  the greatest day of the stored series (`DaysOfFilesAre`); totals of a range are sums over
  the quarter-hours in it (`SummaryTotals`).

The lemmas on sums are those of `DevicePlanProofs`, stated for functions (`SumOver`).

**Billing.** The loop carries what it found long before: details made at the start, credits
stored cycles ago, a deposit. Three invariants say what each of them is worth at any step.

- `Work`: the details of a cycle are still those of its readings, balanced or not
  (`Prepared`, `Balancing`, `Charging`), and the lines of the bill are the cycles charged.
  `DaysAreBilledOnce` needs the calendar besides: every reading lies from the start of its
  cycle to the day before the next start (`CyclesCover`), and two starts are never less than
  a cycle apart (`CyclesAreApart`). With a day that some month lacks, neither holds.
- `BooksBalance`: of each surplus, what is in the store and what the ledger paid add up to
  it until its deadline (`CreditsAddUp`); an older credit is empty or expired before a
  younger one pays (`OldestFirst`); what a cycle needed is in its zones or in the ledger
  (`ZonesPaid`). `TakeCredits` is a fold over the queue; `TakeStepsExist` and
  `CreditsAreTakenInTurn` say what it gives: each credit pays the least of what it has and
  what is left, in turn. The charging of a zone in `CoverZones` is written by the dearer zones
  before it, so no fold is left there.
- `MoneyAddsUp`: the bill so far costs what the moments of its cycles cost, and the deposit is
  what their surplus is worth, up to the cycle at work (`Upto`).

A bill is cut by segments of equal rates and taxes, the properties go moment by moment. A
moment is in one segment (`Apart`, `OfSegment`), so a sum by segments is a sum by moments
(`SumBySegment`, with `SumByKey`), with rate and tax those of its own day.

Facts about sums and folds are inductions over numbers, over the parts of a finite set and
over the elements of one (`Induct`, `InductByPart`, `InductByElement`). They are stated with
a set that is closed instead of a predicate, as no prover can instantiate a theorem with an
operator as its parameter, and rest on the well-founded order of the numbers.

### What is assumed

- `DeviceFlags`, `UploadTx`: files are numbers in upload order, `NoPeriod` is no period,
  and `ContentsAssumption`, what the validator checks of parsed files.
- `PriceSync`: days are numbers without gaps, as dates are; a publication corrects and
  completes the one before and takes no quarter back. The second is about the provider.
- `Sessions`: `None` is no token, tab or call; tokens are issued as numbers, so that no
  two are equal (in the code two tokens issued within one second would be).
- `DeviceDriver`: programs have profiles of numbers, at least one, and a quarter-hour
  has at least one unit; `NoAction` is no action.
- `HubSupervisor`: requests are sequences of devices and configurations; there are
  devices, ports and process numbers. A system out of process numbers is outside the
  model: `Spawn` then waits.
- `DevicePlan`: `None` is neither a number nor a reason of a conflict; `Rank` orders the
  devices; the clock of the slots is a sequence of days and times, and the period lies in
  it; a schedule has more than one pass; prices are numbers of slots of the clock, limits
  are numbers or `None`. For the generator: days come in order, every slot of the period is
  of a day of the file, and the clock shows each time that the script asks for
  (`ClockAssumption`; a time in the hour that is skipped in spring is kept out); a meter has
  a reading in every slot, none negative. `CatalogueAssumption` is what the list of devices
  in the script has: the devices that the jobs name, with the programs they name, devices
  that follow the schema, one that produces and one that is a charger, and powers no lower
  than programs and jobs ask for. Names of programs are strings (`ProgramsAssumption`).

- `UsageViews`: the home has finitely many devices, a day at least one quarter-hour and an
  hour too; a file has finitely many rows, of different lines, whose fields are numbers,
  missing or unreadable; `Missing` is no number, and stored data is not `NotSaved`; prices
  and rates are numbers; a meter file's period is that of its readings, and its energy is
  counted in a unit in which an hourly reading splits evenly over its quarter-hours, as in
  the code up to rounding.
- `Billing`: months have days, a cycle has months and the factor of the network is at most 1
  (`BillingAssumption`); the numbers of days and hours are finite, readings are not negative,
  and a price is a number or missing (`DataAssumption`); tariffs are different, their rates
  and the taxes are lists with ranges of days (`RatesAssumption`); the calendar reaches from
  before the first cycle of the file to the deadline of its last credit
  (`CalendarAssumption`): a model has finitely many months where the code has `date`.
  `BillingDayInEveryMonth` is the hypothesis of two theorems and not an assumption: the
  others hold for any billing day. The code clamps a day that a month lacks, and then days
  are billed twice or not at all (see "What the models showed").

### What is only model-checked

Liveness (`EveryUploadEnds`, `LockIsFreed`, `DeviceComesBackOrFails`), which is beyond
the prover; and the runs that expect a violation, as a counterexample needs no proof. Every
invariant and every action property of the other runs has its theorem.

## What the runs found

- `delete_counts_twice`: a deletion restores rows that an upload still open covers; after
  both commits two current rows share a quarter-hour.
- `driver_retry`: the answer to a tick takes the events and energy with it; the repeated
  tick has neither.
- `live_session`: a request whose 401 comes after another tab stored new tokens, but which
  joins the refresh of the older token, ends a session the server accepts.

## What the models showed beside the runs

Behaviour a reader of the code may not expect. Properties are stated so that they hold
with it; where a bound or a constraint keeps it out, the bound is named.

Files and flags

- An upload lost between its second and third commit hides older rows, as its flags are
  set, and is itself skipped by the views, as it has no simulation. Properties of all
  files assume that there is none (`NoFileWithoutSimulation`).
- A file deleted while its contents are being saved leaves its devices in the home.
- The settings of a device are those of the upload that was *saved* last; for usage the
  file *uploaded* last wins.

Views

- The records of an hourly file are counted as quarter-hours divided by four, so a range
  that cuts an hour at midnight may tell one fewer.
- When only quarter-hours without use have a price, the estimated cost is 0, not unknown.
- Two equal readings of the autumn hour that comes twice count as one, repeated row.

Schedule

- When only one of a wash and its dryer has prices, both are conflicts for missing prices,
  and the one that has them stays in the sums of costs; docs/scheduling.md:61 leaves
  actions with this conflict out of them.
- Choosing days leaves out the actions of the day before, also one that works past
  midnight: its device is free in the plan.
- A group in conflict outside its window is put back without a look at the limit; the
  next pass moves those that no longer fit.
- Each group's move is the cheapest at its turn; the whole may still end dearer than the
  original where an earlier group took the slots a later one had.

Billing

- A billing period that starts on the 29th to 31st: the start of a cycle is computed from
  a date that a short month has clamped (new_calculations_service.py:290). Days may lie in
  two cycles, or a reading beyond the end of its cycle, which is refused
  (tariff_engine.py:338). `BillingStart` keeps this out.
- A cycle without energy refuses the whole dynamic tariff (tariff_engine.py:239); in a
  zoned tariff it pays its fixed fees (test_tariff_engine.py:184).
- A negative energy cost makes the amount taken from the deposit negative
  (tariff_engine.py:422).

Prices and hub

- A row of a synchronisation stays `running` when its process is killed; the properties
  speak of runs that ended.
- A backfill takes and releases the lock for each chunk, so a daily job that comes between
  ends it; what is missing is filled by the next one.
- `OSError` while a process is started ends the health loop, as does a device whose
  process is `None` after it (supervisor.py:140, 171, 185-189).
- A command holds a `ManagedDevice` without the lock (supervisor.py:118): its port may
  belong to another device when the request is sent.

Sessions

- Two logins of a new user at once insert two rows of `tokens`; `first()` then takes
  either. `OneRow` keeps this out.
- When the answer to a refresh is lost, the browser holds a token the server has replaced,
  and the next refresh logs the user out. `OwnTokenEndsDeadSession` allows it: that token
  is no longer accepted.
- The answer to a refresh that comes after a logout stores tokens again, without a user.
- A logout sent before a rotation is repeated with its old body and does not delete the
  newer row, while the browser forgets its tokens.

## What is not modelled

- The text of files: encodings, separators, formats of dates and numbers, JSON schema.
- Energy as floating point: rounding and tolerances are left out; the models are exact.
- Charts and their labels, and counts shown beside them.
- Fees that are one multiplication each (fixed fees by days, the power fee, the lookup by
  threshold), and the real hours of the zones, which are a constant of `Billing`.
- The inside of PostgreSQL: `UploadTx` and `DeleteTx` take statements, snapshots, row
  locks and deadlocks as its manual has them. The two updates of a deletion start when
  the rows they change are free; an update that waits with an old snapshot is left out.
- Start errors of processes, and commands of the hub on their way to a device.
- The loss of the lock's connection alone, or of the database, in `PriceSync`.
- RCEm prices: nothing calls `upsert_rcem_many`.
- Registration, passwords, sign-in with Google, the expiry of refresh tokens after days.
- The hub client, which nothing calls; single-row reads and writes; rendering;
  migrations and seeds.

## The plan

1. `DeviceFlags`, `NewestWins`, `UploadTx`, `DeleteTx`, `DeviceDriver`, `HubSupervisor`,
   `PriceSync`, `Sessions` — done, proved except `DeleteTx`.
2. `DeviceFile`, `FileGenerator`, `Scheduling` and `DevicePlan`, `MeterFile`, `UsageViews`
   and `Billing` — done and proved.
3. Commands and start errors in `HubSupervisor`; the fees of `Billing`.
