--------------------------- MODULE HubSupervisor ---------------------------
(***************************************************************************)
(* The supervisor of the smart home hub: smart-home-hub/hub/supervisor.py,  *)
(* with hub/state.py and the lifespan of hub/api.py.  It keeps one process  *)
(* per device of the registry, each on a port of its own, restarts those    *)
(* that fail and writes the registry with its ports to a file.              *)
(*                                                                          *)
(* A registry request and a health check each hold the lock for as long as  *)
(* they run; in it they work on their devices in parallel.  A step here is  *)
(* the code between two awaits of one device's task, or what a process of   *)
(* the system does on its own.  Requests that only read, and commands,      *)
(* which are forwarded to the process, change nothing of this state.  Errors *)
(* of the system when it starts a process are left out.                     *)
(***************************************************************************)
EXTENDS Integers, FiniteSets, Sequences, Functions

CONSTANTS
    Devices, Ports,
    Requests,      \* registry requests: sequences of [device, works, name]
    MaxRestarts,   \* settings.max_restarts
    Pids, NoPid,
    MaxRequests, MaxFaults, MaxCrashes   \* bounds of a behaviour

ASSUME PortsAssumption == Ports \subseteq Nat /\ IsFiniteSet(Ports)
ASSUME RequestsAssumption ==
    \A r \in Requests : r \in Seq([device : Devices, works : STRING, name : STRING])
                            /\ \A i, j \in 1 .. Len(r) : r[i].device = r[j].device => i = j
ASSUME LimitsAssumption ==
    /\ {MaxRestarts, MaxRequests, MaxFaults, MaxCrashes} \subseteq Nat
    /\ Pids \subseteq Nat /\ NoPid \notin Pids

VARIABLES
    hub,       \* "down", or "up" from the start of the lifespan to the end
    devices,   \* the registry: of a device, its ManagedDevice
    stored,    \* state.json: of a device, its config and port
    procs,     \* the processes of devices: [device, port, config, phase]
    task,      \* what runs: [name, request, ports]
    jobs,      \* what is left of it, by device: [step, old, goal]
    loop,      \* "running" or "dead": run_health_loop
    promised,  \* of a device, the port a registry request answered
    count      \* requests, faults and crashes so far

vars == <<hub, devices, stored, procs, task, jobs, loop, promised, count>>

----------------------------------------------------------------------------
None == [x \in {} |-> x]      \* no registry, no processes, no jobs
Idle == [name |-> "none", request |-> <<>>, ports |-> None]

Put(f, d, v) == [x \in DOMAIN f \union {d} |-> IF x = d THEN v ELSE f[x]]
Without(f, S) == Restrict(f, DOMAIN f \ S)

Live(pid) == pid \in DOMAIN procs
ConfigIn(r, d) == LET i == CHOOSE i \in 1 .. Len(r) : r[i].device = d
                  IN  [works |-> r[i].works, name |-> r[i].name]
DevicesIn(r) == {r[i].device : i \in 1 .. Len(r)}

Managed(config, port) ==
    [config |-> config, port |-> port, process |-> NoPid, restarts |-> 0, failed |-> FALSE]

\* _is_healthy: the process that listens on the port answers for the device.
Healthy(d) == \E pid \in DOMAIN procs :
    procs[pid].port = devices[d].port /\ procs[pid].phase = "up" /\ procs[pid].device = d

\* terminate: a process that hangs does not see it.
Signalled(p) == [p EXCEPT !.phase = IF @ \in {"hung", "stuck"} THEN "stuck" ELSE "ending"]

\* A _stop_process that forgets the processes it is to stop.
ForgetProcesses(S) == UNCHANGED procs

\* The first part of _stop_process for the devices S: every process that
\* still runs is told to end.
Terminate(S) ==
    procs' = [pid \in DOMAIN procs |->
                IF \E d \in S : devices[d].process = pid THEN Signalled(procs[pid]) ELSE procs[pid]]

StopJob(d, goal) == [step |-> "stop", old |-> devices[d].process, goal |-> goal]
SpawnJob == [step |-> "stop", old |-> NoPid, goal |-> "start"]
Job(step) == [step |-> step, old |-> NoPid, goal |-> "start"]

Init ==
    /\ hub = "down" /\ devices = None /\ stored = None /\ procs = None
    /\ task = Idle /\ jobs = None /\ loop = "dead" /\ promised = None
    /\ count = [requests |-> 0, faults |-> 0, crashes |-> 0]

----------------------------------------------------------------------------
(* The hub as a whole: lifespan, start and stop.                           *)

Start ==
    /\ hub = "down"
    /\ hub' = "up"
    /\ devices' = [d \in DOMAIN stored |-> Managed(stored[d].config, stored[d].port)]
    /\ jobs' = [d \in DOMAIN stored |-> SpawnJob]
    /\ task' = [Idle EXCEPT !.name = "start"]
    /\ UNCHANGED <<stored, procs, loop, promised, count>>

\* The lifespan goes on to serve requests and starts the health loop.
Started ==
    /\ task.name = "start" /\ jobs = None
    /\ task' = Idle
    /\ loop' = "running"
    /\ UNCHANGED <<hub, devices, stored, procs, jobs, promised, count>>

\* The hub is told to stop: requests are finished first, a health check is
\* cancelled where it waits, and then every device is stopped.
Stop ==
    /\ hub = "up" /\ count.crashes < MaxCrashes
    /\ task.name \in {"none", "health"} /\ loop = "running"
    /\ count' = [count EXCEPT !.crashes = @ + 1]
    /\ task' = [Idle EXCEPT !.name = "stop"]
    /\ jobs' = [d \in DOMAIN devices |-> StopJob(d, "end")]
    /\ devices' = [d \in DOMAIN devices |-> [devices[d] EXCEPT !.process = NoPid]]
    /\ Terminate(DOMAIN devices)
    /\ loop' = "dead"
    /\ UNCHANGED <<hub, stored, promised>>

\* The hub ends, and the container and the processes in it with it.
Gone ==
    /\ hub' = "down" /\ devices' = None /\ procs' = None
    /\ task' = Idle /\ jobs' = None /\ loop' = "dead"
    /\ UNCHANGED <<stored, promised>>

Stopped == task.name = "stop" /\ jobs = None /\ Gone /\ UNCHANGED count

Crash ==
    /\ hub = "up" /\ count.crashes < MaxCrashes
    /\ Gone
    /\ count' = [count EXCEPT !.crashes = @ + 1]

----------------------------------------------------------------------------
(* apply_registry                                                          *)

\* _allocate_ports: the first free ones, in the order of the request; there
\* are none when they do not suffice.
AllocatePorts(r, added, used) ==
    {ports \in [added -> Ports \ used] :
        /\ \A i, j \in 1 .. Len(r) :
              i < j /\ {r[i].device, r[j].device} \subseteq added =>
                  ports[r[i].device] < ports[r[j].device]
        /\ \A d \in added, free \in (Ports \ used) \ Range(ports) : ports[d] < free}

\* The request gets the lock; when the ports do not suffice it is refused and
\* nothing changes.  The removed devices are stopped first.
PutDevices(r) ==
    LET removed == DOMAIN devices \ DevicesIn(r)
        added == DevicesIn(r) \ DOMAIN devices
        used == {devices[d].port : d \in DOMAIN devices \ removed}
    IN  /\ hub = "up" /\ task = Idle /\ count.requests < MaxRequests
        /\ count' = [count EXCEPT !.requests = @ + 1]
        /\ \E ports \in AllocatePorts(r, added, used) :
              task' = [name |-> "remove", request |-> r, ports |-> ports]
        /\ jobs' = [d \in removed |-> StopJob(d, "end")]
        /\ devices' = [d \in DOMAIN devices |->
                         IF d \in removed THEN [devices[d] EXCEPT !.process = NoPid] ELSE devices[d]]
        /\ Terminate(removed)
        /\ UNCHANGED <<hub, stored, loop, promised>>

\* A comparison of configurations that takes every change for an edit.
NeverRestart(old, new) == FALSE

\* A change of other fields than the name needs a restart.
RequiresRestart(old, new) == old.works # new.works

Changed(d, r) == devices[d].config # ConfigIn(r, d)

\* The removed devices have stopped: the rest of the request, _apply_change
\* of the devices that stay and _start_device of the added ones.
ApplyChanges ==
    LET r == task.request
        kept == DOMAIN devices \intersect DevicesIn(r)
        changed == {d \in kept : Changed(d, r)}
        restarted == {d \in changed : RequiresRestart(devices[d].config, ConfigIn(r, d))}
        device(d) ==
            IF d \in kept
            THEN [config |-> ConfigIn(r, d), port |-> devices[d].port,
                  process |-> IF d \in restarted THEN NoPid ELSE devices[d].process,
                  restarts |-> IF d \in restarted THEN 0 ELSE devices[d].restarts,
                  failed |-> devices[d].failed /\ d \notin restarted]
            ELSE Managed(ConfigIn(r, d), task.ports[d])
        job(d) == IF d \in restarted THEN StopJob(d, "start")
                  ELSE IF d \in changed THEN Job("update") ELSE SpawnJob
    IN  /\ task.name = "remove" /\ jobs = None
        /\ task' = [task EXCEPT !.name = "change"]
        /\ devices' = [d \in DevicesIn(r) |-> device(d)]
        /\ jobs' = [d \in DevicesIn(r) \ (kept \ changed) |-> job(d)]
        /\ Terminate(restarted)
        /\ promised' = Restrict(promised, DOMAIN promised \intersect DevicesIn(r))
        /\ UNCHANGED <<hub, stored, loop, count>>

\* _update_running_config: PUT /config, and a restart when it is not answered.
UpdateRunning(d) ==
    /\ d \in DOMAIN jobs /\ jobs[d].step = "update"
    /\ \/ /\ Healthy(d)
          /\ procs' = [pid \in DOMAIN procs |->
                         IF procs[pid].port = devices[d].port
                         THEN [procs[pid] EXCEPT !.config.name = devices[d].config.name]
                         ELSE procs[pid]]
          /\ jobs' = Without(jobs, {d})
          /\ UNCHANGED devices
       \/ /\ ~Healthy(d)
          /\ devices' = [devices EXCEPT ![d] = Managed(@.config, @.port)]
          /\ jobs' = [jobs EXCEPT ![d] = StopJob(d, "start")]
          /\ Terminate({d})
    /\ UNCHANGED <<hub, stored, task, loop, promised, count>>

\* A request that is answered without being written to the file.
AnswerUnsaved ==
    /\ task.name = "change" /\ jobs = None
    /\ task' = [task EXCEPT !.name = "answer"]
    /\ UNCHANGED <<hub, devices, stored, procs, jobs, loop, promised, count>>

\* _save_state
SaveState ==
    /\ task.name = "change" /\ jobs = None
    /\ stored' = [d \in DOMAIN devices |-> [config |-> devices[d].config, port |-> devices[d].port]]
    /\ task' = [task EXCEPT !.name = "answer"]
    /\ UNCHANGED <<hub, devices, procs, jobs, loop, promised, count>>

\* The lock is released and the ports are answered.
AnswerRequest ==
    /\ task.name = "answer"
    /\ promised' = [d \in DOMAIN devices |-> devices[d].port]
    /\ task' = Idle
    /\ UNCHANGED <<hub, devices, stored, procs, jobs, loop, count>>

----------------------------------------------------------------------------
(* The health check.                                                       *)

Checked == {d \in DOMAIN devices : ~devices[d].failed}

\* check_health gets the lock.
CheckHealth ==
    /\ hub = "up" /\ task = Idle /\ loop = "running"
    /\ \A d \in Checked : devices[d].process # NoPid
    /\ task' = [Idle EXCEPT !.name = "health"]
    /\ jobs' = [d \in Checked |-> Job("check")]
    /\ UNCHANGED <<hub, devices, stored, procs, loop, promised, count>>

\* A check that never counts the restarts of a device.
UncountedRestart(d) ==
    /\ devices' = [devices EXCEPT ![d].process = NoPid]
    /\ jobs' = [jobs EXCEPT ![d] = StopJob(d, "start")]

\* _check_device of one that does not answer: another restart, or the end.
RestartOrFail(d) ==
    IF devices[d].restarts >= MaxRestarts
    THEN /\ devices' = [devices EXCEPT ![d].failed = TRUE, ![d].process = NoPid]
         /\ jobs' = [jobs EXCEPT ![d] = StopJob(d, "end")]
    ELSE /\ devices' = [devices EXCEPT ![d].restarts = @ + 1, ![d].process = NoPid]
         /\ jobs' = [jobs EXCEPT ![d] = StopJob(d, "start")]

CheckDevice(d) ==
    /\ d \in DOMAIN jobs /\ jobs[d].step = "check"
    /\ \/ /\ Live(devices[d].process) /\ Healthy(d)
          /\ devices' = [devices EXCEPT ![d].restarts = 0]
          /\ jobs' = Without(jobs, {d})
          /\ UNCHANGED procs
       \/ /\ ~(Live(devices[d].process) /\ Healthy(d))
          /\ RestartOrFail(d)
          /\ Terminate({d})
    /\ UNCHANGED <<hub, stored, task, loop, promised, count>>

HealthChecked ==
    /\ task.name = "health" /\ jobs = None
    /\ task' = Idle
    /\ UNCHANGED <<hub, devices, stored, procs, jobs, loop, promised, count>>

----------------------------------------------------------------------------
(* _stop_process and _start_device of one device.                          *)

\* The wait for a process that hangs runs out, and it is killed.
KillStuck(d) ==
    /\ d \in DOMAIN jobs /\ jobs[d].step = "stop"
    /\ Live(jobs[d].old) /\ procs[jobs[d].old].phase = "stuck"
    /\ procs' = Without(procs, {jobs[d].old})
    /\ UNCHANGED <<hub, devices, stored, task, jobs, loop, promised, count>>

\* The old process has ended and there is nothing to start.
StopEnds(d) ==
    /\ d \in DOMAIN jobs /\ jobs[d].step = "stop" /\ jobs[d].goal = "end"
    /\ ~Live(jobs[d].old)
    /\ jobs' = Without(jobs, {d})
    /\ UNCHANGED <<hub, devices, stored, procs, task, loop, promised, count>>

\* The system gives no number again that the hub still refers to.
FreePids == Pids \ (DOMAIN procs \union {devices[d].process : d \in DOMAIN devices}
                                 \union {jobs[d].old : d \in DOMAIN jobs})

\* The old process has ended: the configuration is written, and a new process
\* started with it.
Spawn(d) ==
    /\ d \in DOMAIN jobs /\ jobs[d].step = "stop" /\ jobs[d].goal = "start"
    /\ ~Live(jobs[d].old)
    /\ \E pid \in FreePids :
          /\ \A other \in FreePids : pid <= other
          /\ devices' = [devices EXCEPT ![d].process = pid]
          /\ procs' = Put(procs, pid, [device |-> d, port |-> devices[d].port,
                                       config |-> devices[d].config, phase |-> "booting"])
    /\ jobs' = [jobs EXCEPT ![d] = Job("await")]
    /\ UNCHANGED <<hub, stored, task, loop, promised, count>>

\* _wait_until_healthy ends, with an answer, without a process or too late:
\* there is a warning at most.
WaitEnds(d) ==
    /\ d \in DOMAIN jobs /\ jobs[d].step = "await"
    /\ jobs' = Without(jobs, {d})
    /\ UNCHANGED <<hub, devices, stored, procs, task, loop, promised, count>>

----------------------------------------------------------------------------
(* The processes.                                                          *)

\* A process starts to listen on its port; when another does, it ends.
Boot(pid) ==
    /\ Live(pid) /\ procs[pid].phase = "booting"
    /\ procs' = IF \E other \in DOMAIN procs \ {pid} :
                      procs[other].port = procs[pid].port /\ procs[other].phase # "booting"
                THEN Without(procs, {pid})
                ELSE [procs EXCEPT ![pid].phase = "up"]
    /\ UNCHANGED <<hub, devices, stored, task, jobs, loop, promised, count>>

Exit(pid) ==
    /\ Live(pid) /\ procs[pid].phase = "ending"
    /\ procs' = Without(procs, {pid})
    /\ UNCHANGED <<hub, devices, stored, task, jobs, loop, promised, count>>

\* A process ends on its own, or stops to answer.
Fault(pid) ==
    /\ Live(pid) /\ count.faults < MaxFaults
    /\ count' = [count EXCEPT !.faults = @ + 1]
    /\ \/ procs' = Without(procs, {pid})
       \/ procs[pid].phase = "up" /\ procs' = [procs EXCEPT ![pid].phase = "hung"]
    /\ UNCHANGED <<hub, devices, stored, task, jobs, loop, promised>>

\* It answers again; a signal that waited ends it.
Recover(pid) ==
    /\ Live(pid) /\ procs[pid].phase \in {"hung", "stuck"}
    /\ procs' = [procs EXCEPT ![pid].phase = IF @ = "hung" THEN "up" ELSE "ending"]
    /\ UNCHANGED <<hub, devices, stored, task, jobs, loop, promised, count>>

----------------------------------------------------------------------------
HubStep ==
    \/ Start \/ Started \/ Stopped
    \/ ApplyChanges \/ SaveState \/ AnswerRequest
    \/ CheckHealth \/ HealthChecked
    \/ \E d \in Devices : \/ UpdateRunning(d) \/ CheckDevice(d) \/ KillStuck(d)
                          \/ StopEnds(d) \/ Spawn(d) \/ WaitEnds(d)

Next ==
    \/ HubStep
    \/ Stop \/ Crash
    \/ \E r \in Requests : PutDevices(r)
    \/ \E pid \in Pids : Boot(pid) \/ Exit(pid) \/ Fault(pid) \/ Recover(pid)

\* The event loop of the hub goes on, timeouts included, and the system runs
\* the processes; nothing says that faults happen or end.
Fairness ==
    /\ WF_vars(HubStep)
    /\ \A pid \in Pids : WF_vars(Boot(pid)) /\ WF_vars(Exit(pid))

Spec == Init /\ [][Next]_vars /\ Fairness

----------------------------------------------------------------------------
(* Properties.                                                             *)

Config == [works : STRING, name : STRING]

\* What the hub and the system keep.
TypeOK ==
    /\ hub \in {"down", "up"} /\ loop \in {"running", "dead"}
    /\ DOMAIN devices \subseteq Devices /\ DOMAIN jobs \subseteq DOMAIN devices
    /\ \A d \in DOMAIN devices :
          /\ devices[d].port \in Ports /\ devices[d].restarts \in 0 .. MaxRestarts
          /\ devices[d].process \in Pids \union {NoPid} /\ devices[d].failed \in BOOLEAN
    /\ \A d \in DOMAIN stored : stored[d].port \in Ports
    /\ DOMAIN procs \subseteq Pids
    /\ \A pid \in DOMAIN procs :
          procs[pid].phase \in {"booting", "up", "hung", "stuck", "ending"}

\* A process that runs is that of its device in the registry, on the port of
\* that device, or it was told to end; and no two processes meet on a port,
\* although ports of removed devices are given away and restarts overlap with
\* faults: the second would not get it and count as failed.
NoStrayProcess ==
    \A pid \in DOMAIN procs :
        LET p == procs[pid]
        IN  /\ \/ p.device \in DOMAIN devices /\ devices[p.device].process = pid
                     /\ devices[p.device].port = p.port
               \/ p.phase \in {"stuck", "ending"}
            /\ task.name # "stop" =>
                  \A other \in DOMAIN procs \ {pid} : procs[other].port # p.port

\* "Port jest staly dla danego device_id" (docs/smart-home-api.md): a port that
\* a request has answered is that of its device, in the registry and in the
\* file a restart reads, until a request comes without the device; and no two
\* devices have the same.
AnsweredPortIsKept ==
    /\ \A d \in DOMAIN promised :
          /\ d \in DOMAIN stored /\ stored[d].port = promised[d]
          /\ d \in DOMAIN devices => devices[d].port = promised[d]
    /\ IsInjective([d \in DOMAIN devices |-> devices[d].port])
    /\ IsInjective([d \in DOMAIN stored |-> stored[d].port])

\* Whenever the lock is free, every process has the configuration of the
\* registry, however often it was edited, restarted or sent PUT /config.
ProcessHasRegisteredConfig ==
    task = Idle => \A d \in DOMAIN devices :
        LET pid == devices[d].process
        IN  Live(pid) => procs[pid].config = devices[d].config

Up(d) == Live(devices[d].process) /\ procs[devices[d].process].phase = "up"

\* The health loop brings back a device that does not answer, or gives it up
\* as failed after its restarts, as long as the hub runs and has the device.
DeviceComesBackOrFails ==
    \A d \in Devices :
        (hub = "up" /\ d \in DOMAIN devices /\ ~Up(d))
            ~> \/ hub = "down" \/ d \notin DOMAIN devices
               \/ devices[d].failed \/ Up(d)

=============================================================================
