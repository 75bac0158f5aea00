-------------------------- MODULE SmartHomeProofs ---------------------------
(***************************************************************************)
(* What the two programs of the smart home promise, for any devices: the   *)
(* supervisor of its processes, ports and configurations (HubSupervisor),  *)
(* and the driver in each process of its events and energy (DeviceDriver). *)
(* They share no state; what is asked of both is told in the README.       *)
(*                                                                         *)
(* Supervisor.  No invariant of the registry alone is kept by its steps:   *)
(* while a device is stopped its entry forgets the process, which lives on *)
(* until it has seen the signal, and while a request removes devices its   *)
(* new ones have ports that no entry has yet.  The inductive invariant     *)
(* says who knows of them meanwhile: the job of the device, and the task   *)
(* that holds the lock.                                                    *)
(*                                                                         *)
(* Driver.  The events and the energy cannot be followed without the       *)
(* action under way: it started when the last event says, a program is not *)
(* past its end, and its energy so far is that of the time since its       *)
(* start.  The rest is about the profile: the quarters that                *)
(* _profile_energy adds up are the units of time one by one, which is an   *)
(* induction over them.                                                    *)
(***************************************************************************)
EXTENDS HubSupervisor, DeviceDriver, SequenceTheorems, WellFoundedInduction, TLAPS

----------------------------------------------------------------------------
(* The supervisor.                                                         *)

ManagedDevice == [config : Config, port : Ports, process : Pids \union {NoPid},
                  restarts : 0 .. MaxRestarts, failed : BOOLEAN]
Process == [device : Devices, port : Ports, config : Config,
            phase : {"booting", "up", "hung", "stuck", "ending"}]
DeviceJob == [step : {"stop", "update", "check", "await"}, old : Pids \union {NoPid},
              goal : {"start", "end"}]

Typed ==
    /\ hub \in {"down", "up"} /\ loop \in {"running", "dead"}
    /\ DOMAIN devices \subseteq Devices /\ devices \in [DOMAIN devices -> ManagedDevice]
    /\ DOMAIN stored \subseteq Devices
    /\ stored \in [DOMAIN stored -> [config : Config, port : Ports]]
    /\ DOMAIN procs \subseteq Pids /\ procs \in [DOMAIN procs -> Process]
    /\ DOMAIN jobs \subseteq DOMAIN devices /\ jobs \in [DOMAIN jobs -> DeviceJob]
    /\ task = [name |-> task.name, request |-> task.request, ports |-> task.ports]

\* What runs when: nothing before the start and after the end, no job without
\* the lock, and only the end of processes before a request goes on and when
\* the hub stops.
OneTask ==
    /\ hub = "down" => task.name = "none" /\ DOMAIN devices = {} /\ DOMAIN procs = {}
    /\ task.name \in {"none", "answer"} => DOMAIN jobs = {}
    /\ task.name \in {"remove", "stop"} =>
          \A d \in DOMAIN jobs : jobs[d].step = "stop" /\ jobs[d].goal = "end"
    /\ task.name = "stop" => \A d \in DOMAIN devices : devices[d].process = NoPid

\* A request that has its ports: they are free, those of its new devices, and
\* the devices that it does not name have been told to end.
NewPortsAreFree ==
    task.name = "remove" =>
        LET added == DevicesIn(task.request) \ DOMAIN devices
            kept == DevicesIn(task.request) \intersect DOMAIN devices
        IN  /\ task.request \in Requests
            /\ task.ports \in [added -> Ports] /\ IsInjective(task.ports)
            /\ \A d \in added, e \in kept : task.ports[d] # devices[e].port
            /\ \A d \in DOMAIN devices \ kept : devices[d].process = NoPid

\* The device that is to be stopped has forgotten its process.
StoppedIsForgotten ==
    \A d \in DOMAIN jobs : jobs[d].step = "stop" => devices[d].process = NoPid

\* The job of a device waits for its process.
AwaitedBy(d, pid) == d \in DOMAIN jobs /\ jobs[d].step = "stop" /\ jobs[d].old = pid

\* Every process has a device, which still knows it or waits for its end.
IsKnown(pid) ==
    LET d == procs[pid].device
    IN  /\ d \in DOMAIN devices /\ devices[d].port = procs[pid].port
        /\ \/ devices[d].process = pid
           \/ /\ procs[pid].phase \in {"stuck", "ending"}
              /\ task.name = "stop" \/ AwaitedBy(d, pid)

ProcessesAreKnown == \A pid \in DOMAIN procs : IsKnown(pid)

\* And a device knows only a process of its own.
DevicesKnowTheirOwn ==
    \A d \in DOMAIN devices :
        devices[d].process \in DOMAIN procs => procs[devices[d].process].device = d

\* A process has the configuration of its device, or it will be sent what
\* differs, which needs no restart.
HasItsConfig(d) ==
    devices[d].process \in DOMAIN procs =>
        \/ procs[devices[d].process].config = devices[d].config
        \/ /\ d \in DOMAIN jobs /\ jobs[d].step = "update"
           /\ procs[devices[d].process].config.works = devices[d].config.works

ConfigArrives == \A d \in DOMAIN devices : HasItsConfig(d)

\* A running hub has every device it has answered, and what it is about to
\* answer is in the file.
AnswersAreStored ==
    /\ hub = "up" => DOMAIN promised \subseteq DOMAIN devices
    /\ task.name = "answer" => /\ DOMAIN stored = DOMAIN devices
                               /\ \A d \in DOMAIN devices : stored[d].port = devices[d].port

IInv ==
    /\ Typed
    /\ OneTask
    /\ NewPortsAreFree
    /\ StoppedIsForgotten
    /\ ProcessesAreKnown
    /\ DevicesKnowTheirOwn
    /\ ConfigArrives
    /\ AnswersAreStored
    /\ AnsweredPortIsKept

----------------------------------------------------------------------------
(* Functions.                                                              *)

LEMMA WithoutIs ==
    ASSUME NEW f, NEW S
    PROVE  /\ DOMAIN Without(f, S) = DOMAIN f \ S
           /\ \A x \in DOMAIN f \ S : Without(f, S)[x] = f[x]
BY DEF Without, Restrict

LEMMA PutIs ==
    ASSUME NEW f, NEW d, NEW v
    PROVE  /\ DOMAIN Put(f, d, v) = DOMAIN f \union {d} /\ Put(f, d, v)[d] = v
           /\ \A x \in DOMAIN f \ {d} : Put(f, d, v)[x] = f[x]
BY DEF Put

----------------------------------------------------------------------------
(* The steps.                                                              *)

\* A process ends: nothing else has changed.
LEMMA ProcessEnds ==
    ASSUME IInv, NEW pid \in Pids, procs' = Without(procs, {pid}),
           UNCHANGED <<hub, devices, stored, task, jobs, loop, promised>>
    PROVE  IInv'
<1> USE DEF IInv
<1>1. /\ DOMAIN procs' = DOMAIN procs \ {pid}
      /\ \A x \in DOMAIN procs' : procs'[x] = procs[x] /\ procs'[x] \in Process
      /\ procs' = [x \in DOMAIN procs' |-> procs'[x]]
  <2>1. /\ DOMAIN procs' = DOMAIN procs \ {pid}
        /\ \A x \in DOMAIN procs' : procs'[x] = procs[x]
    BY DEF Without, Restrict
  <2>2. \A x \in DOMAIN procs : procs[x] \in Process
    BY DEF Typed
  <2>3. procs' = [x \in DOMAIN procs' |-> procs'[x]]
    BY DEF Without, Restrict
  <2> QED BY <2>1, <2>2, <2>3
<1>2. Typed'
  <2>1. procs' \in [DOMAIN procs' -> Process] /\ DOMAIN procs' \subseteq Pids
    BY <1>1 DEF Typed
  <2> QED BY <2>1 DEF Typed
<1>3. OneTask' /\ NewPortsAreFree' /\ StoppedIsForgotten'
  <2>1. OneTask'
    BY <1>1 DEF OneTask
  <2>2. NewPortsAreFree'
    BY <1>1 DEF NewPortsAreFree
  <2>3. StoppedIsForgotten'
    BY <1>1 DEF StoppedIsForgotten
  <2> QED BY <2>1, <2>2, <2>3
<1>4. ProcessesAreKnown'
  <2>1. \A e, x : AwaitedBy(e, x) => AwaitedBy(e, x)'
    BY <1>1 DEF AwaitedBy
  <2> QED BY <1>1, <2>1, ZenonT(30) DEF ProcessesAreKnown, IsKnown
<1>5. DevicesKnowTheirOwn' /\ ConfigArrives'
  <2>1. DevicesKnowTheirOwn'
    BY <1>1 DEF DevicesKnowTheirOwn
  <2>2. ConfigArrives'
    BY <1>1 DEF ConfigArrives, HasItsConfig
  <2> QED BY <2>1, <2>2
<1>6. AnswersAreStored' /\ AnsweredPortIsKept'
  <2>1. AnswersAreStored'
    BY DEF AnswersAreStored
  <2>2. AnsweredPortIsKept'
    BY DEF AnsweredPortIsKept
  <2> QED BY <2>1, <2>2
<1> QED BY <1>2, <1>3, <1>4, <1>5, <1>6

\* A process goes on in another phase; one that was told to end stays so.
LEMMA PhaseChanges ==
    ASSUME IInv, NEW pid \in DOMAIN procs,
           NEW phase \in {"booting", "up", "hung", "stuck", "ending"},
           procs[pid].phase \in {"stuck", "ending"} => phase \in {"stuck", "ending"},
           procs' = [procs EXCEPT ![pid].phase = phase],
           UNCHANGED <<hub, devices, stored, task, jobs, loop, promised>>
    PROVE  IInv'
<1> USE DEF IInv
<1>1. /\ DOMAIN procs' = DOMAIN procs /\ procs' \in [DOMAIN procs -> Process]
      /\ \A x \in DOMAIN procs :
            /\ procs'[x].device = procs[x].device /\ procs'[x].port = procs[x].port
            /\ procs'[x].config = procs[x].config
            /\ procs[x].phase \in {"stuck", "ending"} => procs'[x].phase \in {"stuck", "ending"}
  BY DEF Typed, Process
<1>2. Typed'
  BY <1>1 DEF Typed
<1>3. OneTask' /\ NewPortsAreFree' /\ StoppedIsForgotten'
  <2>1. OneTask'
    BY <1>1 DEF OneTask
  <2>2. NewPortsAreFree'
    BY <1>1 DEF NewPortsAreFree
  <2>3. StoppedIsForgotten'
    BY <1>1 DEF StoppedIsForgotten
  <2> QED BY <2>1, <2>2, <2>3
<1>4. ProcessesAreKnown'
  BY <1>1 DEF ProcessesAreKnown, IsKnown, AwaitedBy
<1>5. DevicesKnowTheirOwn' /\ ConfigArrives'
  <2>1. DevicesKnowTheirOwn'
    BY <1>1 DEF DevicesKnowTheirOwn
  <2>2. ConfigArrives'
    BY <1>1 DEF ConfigArrives, HasItsConfig
  <2> QED BY <2>1, <2>2
<1>6. AnswersAreStored' /\ AnsweredPortIsKept'
  <2>1. AnswersAreStored'
    BY DEF AnswersAreStored
  <2>2. AnsweredPortIsKept'
    BY DEF AnsweredPortIsKept
  <2> QED BY <2>1, <2>2
<1> QED BY <1>2, <1>3, <1>4, <1>5, <1>6

\* A job is done: its device waits for nothing and has nothing to be sent.
LEMMA JobEnds ==
    ASSUME IInv, NEW d \in DOMAIN jobs, jobs' = Without(jobs, {d}), jobs[d].step # "update",
           jobs[d].step = "stop" => jobs[d].old \notin DOMAIN procs,
           UNCHANGED <<hub, devices, stored, procs, task, loop, promised>>
    PROVE  IInv'
<1> USE DEF IInv
<1>1. /\ DOMAIN jobs' = DOMAIN jobs \ {d}
      /\ \A x \in DOMAIN jobs' : jobs'[x] = jobs[x] /\ jobs'[x] \in DeviceJob
      /\ jobs' = [x \in DOMAIN jobs' |-> jobs'[x]]
  <2>1. /\ DOMAIN jobs' = DOMAIN jobs \ {d}
        /\ \A x \in DOMAIN jobs' : jobs'[x] = jobs[x]
    BY DEF Without, Restrict
  <2>2. \A x \in DOMAIN jobs : jobs[x] \in DeviceJob
    BY DEF Typed
  <2>3. jobs' = [x \in DOMAIN jobs' |-> jobs'[x]]
    BY DEF Without, Restrict
  <2> QED BY <2>1, <2>2, <2>3
<1>2. Typed'
  <2>1. jobs' \in [DOMAIN jobs' -> DeviceJob] /\ DOMAIN jobs' \subseteq DOMAIN devices
    BY <1>1 DEF Typed
  <2> QED BY <2>1 DEF Typed
<1>3. OneTask' /\ NewPortsAreFree' /\ StoppedIsForgotten'
  <2>1. OneTask'
    BY <1>1 DEF OneTask
  <2>2. NewPortsAreFree'
    BY <1>1 DEF NewPortsAreFree
  <2>3. StoppedIsForgotten'
    BY <1>1 DEF StoppedIsForgotten
  <2> QED BY <2>1, <2>2, <2>3
<1>4. ProcessesAreKnown'
  <2>1. \A e, pid : pid \in DOMAIN procs /\ AwaitedBy(e, pid) => AwaitedBy(e, pid)'
    BY <1>1 DEF AwaitedBy
  <2> QED BY <2>1 DEF ProcessesAreKnown, IsKnown
<1>5. DevicesKnowTheirOwn' /\ ConfigArrives'
  <2>1. DevicesKnowTheirOwn'
    BY <1>1 DEF DevicesKnowTheirOwn
  <2>2. ConfigArrives'
    BY <1>1, ZenonT(30) DEF ConfigArrives, HasItsConfig
  <2> QED BY <2>1, <2>2
<1>6. AnswersAreStored' /\ AnsweredPortIsKept'
  <2>1. AnswersAreStored'
    BY DEF AnswersAreStored
  <2>2. AnsweredPortIsKept'
    BY DEF AnsweredPortIsKept
  <2> QED BY <2>1, <2>2
<1> QED BY <1>2, <1>3, <1>4, <1>5, <1>6

\* Nothing runs when the hub is down.
LEMMA GoneInv == IInv /\ Gone => IInv'
<1> SUFFICES ASSUME IInv, Gone PROVE IInv'
  OBVIOUS
<1>1. /\ hub' = "down" /\ DOMAIN devices' = {} /\ DOMAIN procs' = {} /\ DOMAIN jobs' = {}
      /\ devices' \in [{} -> ManagedDevice] /\ procs' \in [{} -> Process]
      /\ jobs' \in [{} -> DeviceJob]
      /\ task' = [name |-> "none", request |-> <<>>, ports |-> None] /\ loop' = "dead"
      /\ stored' = stored /\ promised' = promised
  BY DEF Gone, None, Idle
<1>2. Typed'
  BY <1>1 DEF IInv, Typed
<1>3. OneTask' /\ NewPortsAreFree' /\ StoppedIsForgotten' /\ ProcessesAreKnown'
  <2>1. OneTask'
    BY <1>1 DEF OneTask
  <2>2. NewPortsAreFree'
    BY <1>1 DEF NewPortsAreFree
  <2>3. StoppedIsForgotten'
    BY <1>1 DEF StoppedIsForgotten
  <2>4. ProcessesAreKnown'
    BY <1>1 DEF ProcessesAreKnown, IsKnown
  <2> QED BY <2>1, <2>2, <2>3, <2>4
<1>4. DevicesKnowTheirOwn' /\ ConfigArrives' /\ AnswersAreStored'
  <2>1. DevicesKnowTheirOwn'
    BY <1>1 DEF DevicesKnowTheirOwn
  <2>2. ConfigArrives'
    BY <1>1 DEF ConfigArrives, HasItsConfig
  <2>3. AnswersAreStored'
    BY <1>1 DEF AnswersAreStored
  <2> QED BY <2>1, <2>2, <2>3
<1>5. AnsweredPortIsKept'
  <2>1. /\ \A d \in DOMAIN promised : d \in DOMAIN stored /\ stored[d].port = promised[d]
        /\ IsInjective([d \in DOMAIN stored |-> stored[d].port])
    BY DEF IInv, AnsweredPortIsKept
  <2>2. IsInjective([d \in DOMAIN devices' |-> devices'[d].port])
    BY <1>1 DEF IsInjective
  <2>3. [d \in DOMAIN stored' |-> stored'[d].port] = [d \in DOMAIN stored |-> stored[d].port]
    BY <1>1
  <2>4. \A d \in DOMAIN promised' :
            /\ d \in DOMAIN stored' /\ stored'[d].port = promised'[d]
            /\ d \in DOMAIN devices' => devices'[d].port = promised'[d]
    BY <1>1, <2>1
  <2>5. IsInjective([d \in DOMAIN stored' |-> stored'[d].port])
    BY <2>1, <2>3
  <2> QED BY <2>2, <2>4, <2>5 DEF AnsweredPortIsKept
<1> QED BY <1>2, <1>3, <1>4, <1>5 DEF IInv

LEMMA KillStuckInv ==
    ASSUME IInv, NEW d \in Devices, KillStuck(d)
    PROVE  IInv'
<1>1. PICK pid \in Pids : pid = jobs[d].old
  BY DEF IInv, Typed, KillStuck, Live
<1> QED BY <1>1, ProcessEnds DEF KillStuck

LEMMA StopEndsInv ==
    ASSUME IInv, NEW d \in Devices, StopEnds(d)
    PROVE  IInv'
BY JobEnds DEF StopEnds, Live

LEMMA WaitEndsInv ==
    ASSUME IInv, NEW d \in Devices, WaitEnds(d)
    PROVE  IInv'
BY JobEnds DEF WaitEnds

LEMMA ExitInv ==
    ASSUME IInv, NEW pid \in Pids, Exit(pid)
    PROVE  IInv'
BY ProcessEnds DEF Exit

LEMMA BootInv ==
    ASSUME IInv, NEW pid \in Pids, Boot(pid)
    PROVE  IInv'
<1>1. CASE procs' = Without(procs, {pid})
  BY <1>1, ProcessEnds DEF Boot
<1>2. CASE procs' = [procs EXCEPT ![pid].phase = "up"]
  BY <1>2, PhaseChanges DEF Boot, Live
<1> QED BY <1>1, <1>2 DEF Boot

LEMMA FaultInv ==
    ASSUME IInv, NEW pid \in Pids, Fault(pid)
    PROVE  IInv'
<1>1. CASE procs' = Without(procs, {pid})
  BY <1>1, ProcessEnds DEF Fault
<1>2. CASE procs[pid].phase = "up" /\ procs' = [procs EXCEPT ![pid].phase = "hung"]
  BY <1>2, PhaseChanges DEF Fault, Live
<1> QED BY <1>1, <1>2 DEF Fault

LEMMA RecoverInv ==
    ASSUME IInv, NEW pid \in Pids, Recover(pid)
    PROVE  IInv'
<1>1. /\ pid \in DOMAIN procs
      /\ procs' = [procs EXCEPT ![pid].phase = IF procs[pid].phase = "hung" THEN "up" ELSE "ending"]
      /\ procs[pid].phase \in {"hung", "stuck"}
  BY DEF Recover, Live
<1>2. CASE procs[pid].phase = "hung"
  <2>1. procs' = [procs EXCEPT ![pid].phase = "up"]
    BY <1>1, <1>2
  <2> QED BY <1>1, <1>2, <2>1, PhaseChanges DEF Recover
<1>3. CASE procs[pid].phase # "hung"
  <2>1. procs' = [procs EXCEPT ![pid].phase = "ending"]
    BY <1>1, <1>3
  <2> QED BY <1>1, <1>3, <2>1, PhaseChanges DEF Recover
<1> QED BY <1>2, <1>3

LEMMA CrashInv == IInv /\ Crash => IInv'
BY GoneInv DEF Crash

LEMMA StoppedInv == IInv /\ Stopped => IInv'
BY GoneInv DEF Stopped

LEMMA SaveStateInv == IInv /\ SaveState => IInv'
<1> SUFFICES ASSUME IInv, SaveState PROVE IInv'
  OBVIOUS
<1> USE DEF IInv
<1>1. /\ task.name = "change" /\ DOMAIN jobs = {}
      /\ task' = [name |-> "answer", request |-> task.request, ports |-> task.ports]
      /\ UNCHANGED <<hub, devices, procs, jobs, loop, promised>>
  BY DEF SaveState, Typed, None
<1>2. /\ DOMAIN stored' = DOMAIN devices
      /\ \A d \in DOMAIN devices : stored'[d].port = devices[d].port
      /\ stored' \in [DOMAIN devices -> [config : Config, port : Ports]]
  BY DEF SaveState, Typed, ManagedDevice
<1>3. Typed'
  BY <1>1, <1>2 DEF Typed
<1>4. OneTask' /\ NewPortsAreFree' /\ StoppedIsForgotten'
  <2>1. OneTask'
    BY <1>1 DEF OneTask
  <2>2. NewPortsAreFree'
    BY <1>1 DEF NewPortsAreFree
  <2>3. StoppedIsForgotten'
    BY <1>1 DEF StoppedIsForgotten
  <2> QED BY <2>1, <2>2, <2>3
<1>5. ProcessesAreKnown' /\ DevicesKnowTheirOwn' /\ ConfigArrives'
  <2>1. ProcessesAreKnown'
    BY <1>1 DEF ProcessesAreKnown, IsKnown, AwaitedBy
  <2>2. DevicesKnowTheirOwn'
    BY <1>1 DEF DevicesKnowTheirOwn
  <2>3. ConfigArrives'
    BY <1>1 DEF ConfigArrives, HasItsConfig
  <2> QED BY <2>1, <2>2, <2>3
<1>6. DOMAIN promised \subseteq DOMAIN devices
  BY <1>1 DEF OneTask, AnswersAreStored, Typed
<1>7. AnswersAreStored'
  BY <1>1, <1>2, <1>6 DEF AnswersAreStored
<1>8. AnsweredPortIsKept'
  <2>1. \A d \in DOMAIN promised : d \in DOMAIN stored' /\ stored'[d].port = promised[d]
    BY <1>2, <1>6 DEF AnsweredPortIsKept
  <2>2. [d \in DOMAIN stored' |-> stored'[d].port] = [d \in DOMAIN devices |-> devices[d].port]
    BY <1>2
  <2> QED BY <1>1, <2>1, <2>2 DEF AnsweredPortIsKept
<1> QED BY <1>3, <1>4, <1>5, <1>7, <1>8

\* The ports of the registry and of the file are as they were.
LEMMA PortsStay ==
    ASSUME AnsweredPortIsKept, DOMAIN devices' = DOMAIN devices,
           \A d \in DOMAIN devices : devices'[d].port = devices[d].port,
           UNCHANGED <<stored, promised>>
    PROVE  AnsweredPortIsKept'
<1>1. [d \in DOMAIN devices' |-> devices'[d].port] = [d \in DOMAIN devices |-> devices[d].port]
  OBVIOUS
<1>2. [d \in DOMAIN stored' |-> stored'[d].port] = [d \in DOMAIN stored |-> stored[d].port]
  OBVIOUS
<1>3. \A d \in DOMAIN promised' :
          /\ d \in DOMAIN stored' /\ stored'[d].port = promised'[d]
          /\ d \in DOMAIN devices' => devices'[d].port = promised'[d]
  BY DEF AnsweredPortIsKept
<1>4. /\ IsInjective([d \in DOMAIN devices' |-> devices'[d].port])
      /\ IsInjective([d \in DOMAIN stored' |-> stored'[d].port])
  BY <1>1, <1>2 DEF AnsweredPortIsKept
<1> QED BY <1>3, <1>4 DEF AnsweredPortIsKept

\* Different devices have different ports.
LEMMA PortsDiffer ==
    AnsweredPortIsKept =>
        \A d, e \in DOMAIN devices : devices[d].port = devices[e].port => d = e
BY DEF AnsweredPortIsKept, IsInjective

\* The processes of the devices S see the signal, sooner or later.
LEMMA TerminateDoes ==
    ASSUME Typed, NEW S, Terminate(S)
    PROVE  /\ DOMAIN procs' = DOMAIN procs /\ procs' \in [DOMAIN procs -> Process]
           /\ \A pid \in DOMAIN procs :
                 /\ procs'[pid].device = procs[pid].device /\ procs'[pid].port = procs[pid].port
                 /\ procs'[pid].config = procs[pid].config
                 /\ procs[pid].phase \in {"stuck", "ending"} \/ (\E d \in S : devices[d].process = pid)
                       => procs'[pid].phase \in {"stuck", "ending"}
<1>1. \A p \in Process : /\ Signalled(p) \in Process /\ Signalled(p).device = p.device
                         /\ Signalled(p).port = p.port /\ Signalled(p).config = p.config
                         /\ Signalled(p).phase \in {"stuck", "ending"}
  BY DEF Process, Signalled
<1>2. /\ DOMAIN procs' = DOMAIN procs
      /\ procs' = [pid \in DOMAIN procs |-> procs'[pid]]
      /\ \A pid \in DOMAIN procs :
            /\ procs[pid] \in Process
            /\ procs'[pid] = IF \E d \in S : devices[d].process = pid
                             THEN Signalled(procs[pid]) ELSE procs[pid]
  BY DEF Terminate, Typed
<1>3. \A pid \in DOMAIN procs : procs'[pid] \in Process
  BY <1>1, <1>2
<1>4. procs' \in [DOMAIN procs -> Process]
  BY <1>2, <1>3
<1> QED BY <1>1, <1>2, <1>4

\* The lock is released, whatever was answered.
LEMMA LockIsFree ==
    ASSUME IInv, DOMAIN jobs = {}, task.name # "stop", task' = Idle,
           loop' \in {"running", "dead"}, UNCHANGED <<hub, devices, stored, procs, jobs>>,
           AnsweredPortIsKept', DOMAIN promised' \subseteq DOMAIN devices
    PROVE  IInv'
<1> USE DEF IInv
<1>1. task' = [name |-> "none", request |-> <<>>, ports |-> None]
  BY DEF Idle
<1>2. Typed'
  BY <1>1 DEF Typed
<1>3. OneTask' /\ NewPortsAreFree' /\ StoppedIsForgotten'
  <2>1. OneTask'
    BY <1>1 DEF OneTask
  <2>2. NewPortsAreFree'
    BY <1>1 DEF NewPortsAreFree
  <2>3. StoppedIsForgotten'
    BY <1>1 DEF StoppedIsForgotten
  <2> QED BY <2>1, <2>2, <2>3
<1>4. ProcessesAreKnown'
  BY <1>1 DEF ProcessesAreKnown, IsKnown, AwaitedBy
<1>5. DevicesKnowTheirOwn' /\ ConfigArrives'
  <2>1. DevicesKnowTheirOwn'
    BY DEF DevicesKnowTheirOwn
  <2>2. ConfigArrives'
    BY DEF ConfigArrives, HasItsConfig
  <2> QED BY <2>1, <2>2
<1>6. AnswersAreStored'
  BY <1>1 DEF AnswersAreStored
<1> QED BY <1>2, <1>3, <1>4, <1>5, <1>6

LEMMA StartedInv == IInv /\ Started => IInv'
<1> SUFFICES ASSUME IInv, Started PROVE IInv'
  OBVIOUS
<1>1. /\ task.name = "start" /\ DOMAIN jobs = {} /\ loop' = "running" /\ task' = Idle
      /\ UNCHANGED <<hub, devices, stored, procs, jobs, promised>>
  BY DEF Started, None
<1>2. AnsweredPortIsKept' /\ DOMAIN promised' \subseteq DOMAIN devices
  BY <1>1, PortsStay DEF IInv, AnswersAreStored, OneTask, Typed
<1> QED BY <1>1, <1>2, LockIsFree

LEMMA HealthCheckedInv == IInv /\ HealthChecked => IInv'
<1> SUFFICES ASSUME IInv, HealthChecked PROVE IInv'
  OBVIOUS
<1>1. /\ task.name = "health" /\ DOMAIN jobs = {} /\ task' = Idle
      /\ UNCHANGED <<hub, devices, stored, procs, jobs, loop, promised>>
  BY DEF HealthChecked, None
<1>2. AnsweredPortIsKept' /\ DOMAIN promised' \subseteq DOMAIN devices
  BY <1>1, PortsStay DEF IInv, AnswersAreStored, OneTask, Typed
<1>3. loop' \in {"running", "dead"}
  BY <1>1 DEF IInv, Typed
<1> QED BY <1>1, <1>2, <1>3, LockIsFree

LEMMA AnswerRequestInv == IInv /\ AnswerRequest => IInv'
<1> SUFFICES ASSUME IInv, AnswerRequest PROVE IInv'
  OBVIOUS
<1> USE DEF IInv
<1>1. /\ task.name = "answer" /\ task' = Idle
      /\ promised' = [d \in DOMAIN devices |-> devices[d].port]
      /\ UNCHANGED <<hub, devices, stored, procs, jobs, loop>>
  BY DEF AnswerRequest
<1>2. /\ DOMAIN jobs = {} /\ DOMAIN stored = DOMAIN devices
      /\ \A d \in DOMAIN devices : stored[d].port = devices[d].port
  BY <1>1 DEF OneTask, AnswersAreStored
<1>3. /\ [d \in DOMAIN devices' |-> devices'[d].port] = [d \in DOMAIN devices |-> devices[d].port]
      /\ [d \in DOMAIN stored' |-> stored'[d].port] = [d \in DOMAIN stored |-> stored[d].port]
  BY <1>1
<1>4. \A d \in DOMAIN promised' :
          /\ d \in DOMAIN stored' /\ stored'[d].port = promised'[d]
          /\ d \in DOMAIN devices' => devices'[d].port = promised'[d]
  BY <1>1, <1>2
<1>5. AnsweredPortIsKept' /\ DOMAIN promised' \subseteq DOMAIN devices
  BY <1>1, <1>3, <1>4 DEF AnsweredPortIsKept
<1>6. loop' \in {"running", "dead"}
  BY <1>1 DEF Typed
<1> QED BY <1>1, <1>2, <1>5, <1>6, LockIsFree

LEMMA CheckHealthInv == IInv /\ CheckHealth => IInv'
<1> SUFFICES ASSUME IInv, CheckHealth PROVE IInv'
  OBVIOUS
<1> USE DEF IInv
<1>1. /\ hub = "up" /\ DOMAIN jobs = {}
      /\ task' = [name |-> "health", request |-> <<>>, ports |-> None]
      /\ UNCHANGED <<hub, devices, stored, procs, loop, promised>>
      /\ DOMAIN jobs' \subseteq DOMAIN devices /\ jobs' \in [DOMAIN jobs' -> DeviceJob]
      /\ \A d \in DOMAIN jobs' : jobs'[d].step = "check"
      /\ task.name = "none"
  BY DEF CheckHealth, Idle, OneTask, Checked, Job, DeviceJob
<1>2. Typed'
  BY <1>1 DEF Typed
<1>3. OneTask' /\ NewPortsAreFree' /\ StoppedIsForgotten'
  <2>1. OneTask'
    BY <1>1 DEF OneTask
  <2>2. NewPortsAreFree'
    BY <1>1 DEF NewPortsAreFree
  <2>3. StoppedIsForgotten'
    BY <1>1 DEF StoppedIsForgotten
  <2> QED BY <2>1, <2>2, <2>3
<1>4. ProcessesAreKnown'
  BY <1>1 DEF ProcessesAreKnown, IsKnown, AwaitedBy
<1>5. DevicesKnowTheirOwn' /\ ConfigArrives'
  <2>1. DevicesKnowTheirOwn'
    BY <1>1 DEF DevicesKnowTheirOwn
  <2>2. ConfigArrives'
    BY <1>1 DEF ConfigArrives, HasItsConfig
  <2> QED BY <2>1, <2>2
<1>6. AnswersAreStored' /\ AnsweredPortIsKept'
  BY <1>1, PortsStay DEF AnswersAreStored
<1> QED BY <1>2, <1>3, <1>4, <1>5, <1>6

LEMMA StartInv == IInv /\ Start => IInv'
<1> SUFFICES ASSUME IInv, Start PROVE IInv'
  OBVIOUS
<1> USE DEF IInv
<1>1. /\ hub' = "up" /\ DOMAIN procs = {} /\ UNCHANGED <<stored, procs, loop, promised>>
      /\ task' = [name |-> "start", request |-> <<>>, ports |-> None]
  BY DEF Start, Idle, OneTask
<1>2. /\ DOMAIN devices' = DOMAIN stored /\ DOMAIN jobs' = DOMAIN stored
      /\ devices' \in [DOMAIN stored -> ManagedDevice] /\ jobs' \in [DOMAIN stored -> DeviceJob]
      /\ \A d \in DOMAIN stored : devices'[d].process = NoPid /\ devices'[d].port = stored[d].port
      /\ 0 \in 0 .. MaxRestarts
  <2>1. 0 \in 0 .. MaxRestarts
    BY LimitsAssumption
  <2>2. \A d \in DOMAIN stored : Managed(stored[d].config, stored[d].port) \in ManagedDevice
    BY <2>1 DEF Typed, Managed, ManagedDevice
  <2>3. SpawnJob \in DeviceJob
    BY DEF SpawnJob, DeviceJob
  <2> QED BY <2>1, <2>2, <2>3 DEF Start, Managed
<1>3. Typed'
  BY <1>1, <1>2 DEF Typed
<1>4. OneTask' /\ NewPortsAreFree' /\ StoppedIsForgotten' /\ ProcessesAreKnown'
  <2>1. OneTask'
    BY <1>1, <1>2 DEF OneTask
  <2>2. NewPortsAreFree'
    BY <1>1, <1>2 DEF NewPortsAreFree
  <2>3. StoppedIsForgotten'
    BY <1>1, <1>2 DEF StoppedIsForgotten
  <2>4. ProcessesAreKnown'
    BY <1>1, <1>2 DEF ProcessesAreKnown, IsKnown
  <2> QED BY <2>1, <2>2, <2>3, <2>4
<1>5. DevicesKnowTheirOwn' /\ ConfigArrives'
  <2>1. DevicesKnowTheirOwn'
    BY <1>1, <1>2 DEF DevicesKnowTheirOwn
  <2>2. ConfigArrives'
    BY <1>1, <1>2 DEF ConfigArrives, HasItsConfig
  <2> QED BY <2>1, <2>2
<1>6. AnswersAreStored'
  BY <1>1, <1>2 DEF AnswersAreStored, AnsweredPortIsKept
<1>7. AnsweredPortIsKept'
  <2>1. /\ [d \in DOMAIN devices' |-> devices'[d].port] = [d \in DOMAIN stored |-> stored[d].port]
        /\ [d \in DOMAIN stored' |-> stored'[d].port] = [d \in DOMAIN stored |-> stored[d].port]
    BY <1>1, <1>2
  <2>2. \A d \in DOMAIN promised' :
            /\ d \in DOMAIN stored' /\ stored'[d].port = promised'[d]
            /\ d \in DOMAIN devices' => devices'[d].port = promised'[d]
    BY <1>1, <1>2 DEF AnsweredPortIsKept
  <2> QED BY <2>1, <2>2 DEF AnsweredPortIsKept
<1> QED BY <1>3, <1>4, <1>5, <1>6, <1>7

LEMMA StopInv == IInv /\ Stop => IInv'
<1> SUFFICES ASSUME IInv, Stop PROVE IInv'
  OBVIOUS
<1> USE DEF IInv
<1>1. /\ hub = "up" /\ UNCHANGED <<hub, stored, promised>> /\ loop' = "dead"
      /\ task' = [name |-> "stop", request |-> <<>>, ports |-> None]
  BY DEF Stop, Idle
<1>2. /\ DOMAIN procs' = DOMAIN procs /\ procs' \in [DOMAIN procs -> Process]
      /\ \A pid \in DOMAIN procs :
            /\ procs'[pid].device = procs[pid].device /\ procs'[pid].port = procs[pid].port
            /\ procs[pid].phase \in {"stuck", "ending"} \/ (\E d \in DOMAIN devices : devices[d].process = pid)
                  => procs'[pid].phase \in {"stuck", "ending"}
  BY TerminateDoes DEF Stop
<1>3. /\ DOMAIN devices' = DOMAIN devices /\ DOMAIN jobs' = DOMAIN devices
      /\ devices' \in [DOMAIN devices -> ManagedDevice] /\ jobs' \in [DOMAIN devices -> DeviceJob]
      /\ \A d \in DOMAIN devices : /\ devices'[d].process = NoPid
                                   /\ devices'[d].port = devices[d].port
                                   /\ jobs'[d].step = "stop" /\ jobs'[d].goal = "end"
  <2>1. /\ devices' = [d \in DOMAIN devices |-> [devices[d] EXCEPT !.process = NoPid]]
        /\ jobs' = [d \in DOMAIN devices |-> StopJob(d, "end")]
        /\ \A d \in DOMAIN devices : devices[d] \in ManagedDevice
    BY DEF Stop, Typed
  <2>2. ASSUME NEW d \in DOMAIN devices
        PROVE  /\ devices'[d] \in ManagedDevice /\ devices'[d].process = NoPid
               /\ devices'[d].port = devices[d].port
    BY <2>1 DEF ManagedDevice
  <2>3. ASSUME NEW d \in DOMAIN devices
        PROVE  /\ jobs'[d] \in DeviceJob /\ jobs'[d].step = "stop" /\ jobs'[d].goal = "end"
    BY <2>1 DEF ManagedDevice, DeviceJob, StopJob
  <2>4. DOMAIN devices' = DOMAIN devices /\ DOMAIN jobs' = DOMAIN devices
    BY <2>1
  <2>5. devices' \in [DOMAIN devices -> ManagedDevice] /\ jobs' \in [DOMAIN devices -> DeviceJob]
    BY <2>1, <2>2, <2>3
  <2> QED BY <2>2, <2>3, <2>4, <2>5
<1>4. Typed'
  BY <1>1, <1>2, <1>3 DEF Typed
<1>5. OneTask' /\ NewPortsAreFree' /\ StoppedIsForgotten'
  <2>1. OneTask'
    BY <1>1, <1>3 DEF OneTask
  <2>2. NewPortsAreFree'
    BY <1>1, <1>3 DEF NewPortsAreFree
  <2>3. StoppedIsForgotten'
    BY <1>1, <1>3 DEF StoppedIsForgotten
  <2> QED BY <2>1, <2>2, <2>3
<1>6. ProcessesAreKnown'
  BY <1>1, <1>2, <1>3 DEF ProcessesAreKnown, IsKnown
<1>7. NoPid \notin DOMAIN procs
  BY LimitsAssumption DEF Typed
<1>8. DevicesKnowTheirOwn' /\ ConfigArrives'
  <2>1. DevicesKnowTheirOwn'
    BY <1>2, <1>3, <1>7 DEF DevicesKnowTheirOwn
  <2>2. ConfigArrives'
    BY <1>2, <1>3, <1>7 DEF ConfigArrives, HasItsConfig
  <2> QED BY <2>1, <2>2
<1>9. AnswersAreStored'
  BY <1>1, <1>3 DEF AnswersAreStored
<1>10. AnsweredPortIsKept'
  BY <1>1, <1>3, PortsStay
<1> QED BY <1>4, <1>5, <1>6, <1>8, <1>9, <1>10

\* A job stops the process of its device, which forgets it.
LEMMA DeviceIsStopped ==
    ASSUME IInv, NEW d \in DOMAIN jobs, jobs[d].step \in {"check", "update"},
           DOMAIN devices' = DOMAIN devices, devices' \in [DOMAIN devices -> ManagedDevice],
           \A e \in DOMAIN devices : /\ devices'[e].port = devices[e].port
                                     /\ devices'[e].config = devices[e].config
                                     /\ e # d => devices'[e] = devices[e],
           devices'[d].process = NoPid,
           NEW goal \in {"start", "end"}, jobs' = [jobs EXCEPT ![d] = StopJob(d, goal)],
           Terminate({d}), UNCHANGED <<hub, stored, task, loop, promised>>
    PROVE  IInv'
<1> USE DEF IInv
<1>1. /\ DOMAIN procs' = DOMAIN procs /\ procs' \in [DOMAIN procs -> Process]
      /\ \A pid \in DOMAIN procs :
            /\ procs'[pid].device = procs[pid].device /\ procs'[pid].port = procs[pid].port
            /\ procs'[pid].config = procs[pid].config
            /\ procs[pid].phase \in {"stuck", "ending"} => procs'[pid].phase \in {"stuck", "ending"}
            /\ devices[d].process = pid => procs'[pid].phase \in {"stuck", "ending"}
  BY TerminateDoes
<1>2. d \in DOMAIN devices /\ devices[d] \in ManagedDevice
  BY DEF Typed
<1>3. /\ DOMAIN jobs' = DOMAIN jobs /\ jobs' \in [DOMAIN jobs -> DeviceJob]
      /\ jobs'[d].step = "stop" /\ jobs'[d].old = devices[d].process
      /\ \A e \in DOMAIN jobs : e # d => jobs'[e] = jobs[e]
  <2>1. /\ StopJob(d, goal) \in DeviceJob
        /\ StopJob(d, goal).step = "stop" /\ StopJob(d, goal).old = devices[d].process
    BY <1>2 DEF StopJob, DeviceJob, ManagedDevice
  <2> QED BY <2>1 DEF Typed
<1>4. Typed'
  BY <1>1, <1>3 DEF Typed
<1>5. task.name \notin {"none", "answer", "remove", "stop"}
  BY DEF OneTask
<1>6. OneTask' /\ NewPortsAreFree'
  <2>1. OneTask'
    BY <1>1, <1>3, <1>5 DEF OneTask
  <2>2. NewPortsAreFree'
    BY <1>1, <1>3, <1>5 DEF NewPortsAreFree
  <2> QED BY <2>1, <2>2
<1>7. StoppedIsForgotten'
  BY <1>3 DEF StoppedIsForgotten, Typed
<1>8. ProcessesAreKnown'
  <2> SUFFICES ASSUME NEW pid \in DOMAIN procs PROVE IsKnown(pid)'
    BY <1>1 DEF ProcessesAreKnown
  <2> DEFINE e == procs[pid].device
  <2>1. /\ e \in DOMAIN devices /\ devices[e].port = procs[pid].port
        /\ \/ devices[e].process = pid
           \/ procs[pid].phase \in {"stuck", "ending"} /\ AwaitedBy(e, pid)
    BY <1>5 DEF ProcessesAreKnown, IsKnown
  <2>2. CASE e = d
    BY <1>1, <1>3, <2>1, <2>2 DEF AwaitedBy, IsKnown
  <2>3. CASE e # d
    BY <1>1, <1>3, <2>1, <2>3 DEF AwaitedBy, IsKnown
  <2> QED BY <2>2, <2>3
<1>9. NoPid \notin DOMAIN procs
  BY LimitsAssumption DEF Typed
<1>10. DevicesKnowTheirOwn'
  BY <1>1, <1>9 DEF DevicesKnowTheirOwn
<1>11. ConfigArrives'
  BY <1>1, <1>3, <1>9 DEF ConfigArrives, HasItsConfig
<1>12. AnswersAreStored'
  BY DEF AnswersAreStored
<1>13. AnsweredPortIsKept'
  BY PortsStay
<1> QED BY <1>4, <1>6, <1>7, <1>8, <1>10, <1>11, <1>12, <1>13

LEMMA CheckDeviceInv ==
    ASSUME IInv, NEW d \in Devices, CheckDevice(d)
    PROVE  IInv'
<1>1. /\ d \in DOMAIN jobs /\ jobs[d].step = "check" /\ d \in DOMAIN devices
      /\ devices \in [DOMAIN devices -> ManagedDevice] /\ devices[d] \in ManagedDevice
      /\ UNCHANGED <<hub, stored, task, loop, promised>>
  BY DEF IInv, Typed, CheckDevice
<1>2. CASE /\ devices' = [devices EXCEPT ![d].restarts = 0]
           /\ jobs' = Without(jobs, {d}) /\ UNCHANGED procs
  <2> USE DEF IInv
  <2>1. /\ DOMAIN devices' = DOMAIN devices /\ devices' \in [DOMAIN devices -> ManagedDevice]
        /\ \A e \in DOMAIN devices : /\ devices'[e].port = devices[e].port
                                     /\ devices'[e].config = devices[e].config
                                     /\ devices'[e].process = devices[e].process
    <3>1. 0 \in 0 .. MaxRestarts
      BY LimitsAssumption
    <3> QED BY <1>1, <1>2, <3>1 DEF ManagedDevice
  <2>2. /\ DOMAIN jobs' = DOMAIN jobs \ {d} /\ jobs' \in [DOMAIN jobs' -> DeviceJob]
        /\ \A e \in DOMAIN jobs \ {d} : jobs'[e] = jobs[e]
    BY <1>2 DEF Without, Restrict, Typed
  <2>3. Typed'
    BY <1>1, <1>2, <2>1, <2>2 DEF Typed
  <2>4. task.name \notin {"none", "answer", "remove", "stop"}
    BY <1>1 DEF OneTask
  <2>5. OneTask' /\ NewPortsAreFree'
    <3>1. OneTask'
      BY <1>1, <1>2, <2>1, <2>2, <2>4 DEF OneTask
    <3>2. NewPortsAreFree'
      BY <1>1, <1>2, <2>1, <2>2, <2>4 DEF NewPortsAreFree
    <3> QED BY <3>1, <3>2
  <2>6. StoppedIsForgotten'
    BY <2>1, <2>2 DEF StoppedIsForgotten, Typed
  <2>7. ProcessesAreKnown'
    <3>1. \A e, pid : AwaitedBy(e, pid) => AwaitedBy(e, pid)'
      BY <1>1, <2>2 DEF AwaitedBy
    <3> QED BY <1>1, <1>2, <2>1, <3>1 DEF ProcessesAreKnown, IsKnown
  <2>8. DevicesKnowTheirOwn'
    BY <1>2, <2>1 DEF DevicesKnowTheirOwn
  <2>9. ConfigArrives'
    <3>1. \A e \in DOMAIN jobs : jobs[e].step = "update" => e \in DOMAIN jobs' /\ jobs'[e] = jobs[e]
      BY <1>1, <2>2
    <3> SUFFICES ASSUME NEW e \in DOMAIN devices
                 PROVE  HasItsConfig(e)'
      BY <2>1 DEF ConfigArrives
    <3> QED BY <1>2, <2>1, <3>1 DEF ConfigArrives, HasItsConfig
  <2>10. AnswersAreStored' /\ AnsweredPortIsKept'
    BY <1>1, <2>1, PortsStay DEF AnswersAreStored
  <2> QED BY <2>3, <2>5, <2>6, <2>7, <2>8, <2>9, <2>10
<1>3. CASE RestartOrFail(d) /\ Terminate({d})
  <2>1. CASE /\ devices' = [devices EXCEPT ![d].failed = TRUE, ![d].process = NoPid]
             /\ jobs' = [jobs EXCEPT ![d] = StopJob(d, "end")]
    <3>1. /\ DOMAIN devices' = DOMAIN devices /\ devices' \in [DOMAIN devices -> ManagedDevice]
          /\ \A e \in DOMAIN devices : /\ devices'[e].port = devices[e].port
                                       /\ devices'[e].config = devices[e].config
                                       /\ e # d => devices'[e] = devices[e]
          /\ devices'[d].process = NoPid
      BY <1>1, <2>1 DEF ManagedDevice
    <3> QED BY <1>1, <1>3, <2>1, <3>1, DeviceIsStopped
  <2>2. CASE /\ devices[d].restarts < MaxRestarts
             /\ devices' = [devices EXCEPT ![d].restarts = @ + 1, ![d].process = NoPid]
             /\ jobs' = [jobs EXCEPT ![d] = StopJob(d, "start")]
    <3>1. devices[d].restarts + 1 \in 0 .. MaxRestarts
      BY <1>1, <2>2, LimitsAssumption DEF ManagedDevice
    <3>2. /\ DOMAIN devices' = DOMAIN devices /\ devices' \in [DOMAIN devices -> ManagedDevice]
          /\ \A e \in DOMAIN devices : /\ devices'[e].port = devices[e].port
                                       /\ devices'[e].config = devices[e].config
                                       /\ e # d => devices'[e] = devices[e]
          /\ devices'[d].process = NoPid
      BY <1>1, <2>2, <3>1 DEF ManagedDevice
    <3> QED BY <1>1, <1>3, <2>2, <3>2, DeviceIsStopped
  <2>3. devices[d].restarts >= MaxRestarts \/ devices[d].restarts < MaxRestarts
    BY <1>1, LimitsAssumption DEF ManagedDevice
  <2>4. CASE devices[d].restarts >= MaxRestarts
    BY <1>3, <2>1, <2>4 DEF RestartOrFail
  <2>5. CASE devices[d].restarts < MaxRestarts
    <3>1. ~(devices[d].restarts >= MaxRestarts)
      BY <1>1, <2>5, LimitsAssumption DEF ManagedDevice
    <3> QED BY <1>3, <2>2, <2>5, <3>1 DEF RestartOrFail
  <2> QED BY <2>3, <2>4, <2>5
<1> QED BY <1>2, <1>3 DEF CheckDevice

LEMMA UpdateRunningInv ==
    ASSUME IInv, NEW d \in Devices, UpdateRunning(d)
    PROVE  IInv'
<1>1. /\ d \in DOMAIN jobs /\ jobs[d].step = "update" /\ d \in DOMAIN devices
      /\ devices \in [DOMAIN devices -> ManagedDevice] /\ devices[d] \in ManagedDevice
      /\ UNCHANGED <<hub, stored, task, loop, promised>>
  BY DEF IInv, Typed, UpdateRunning
<1>2. CASE /\ devices' = [devices EXCEPT ![d] = Managed(devices[d].config, devices[d].port)]
           /\ jobs' = [jobs EXCEPT ![d] = StopJob(d, "start")] /\ Terminate({d})
  <2>1. Managed(devices[d].config, devices[d].port) \in ManagedDevice
    <3>1. 0 \in 0 .. MaxRestarts
      BY LimitsAssumption
    <3> QED BY <1>1, <3>1 DEF Managed, ManagedDevice
  <2>2. /\ DOMAIN devices' = DOMAIN devices /\ devices' \in [DOMAIN devices -> ManagedDevice]
        /\ \A e \in DOMAIN devices : /\ devices'[e].port = devices[e].port
                                     /\ devices'[e].config = devices[e].config
                                     /\ e # d => devices'[e] = devices[e]
        /\ devices'[d].process = NoPid
    BY <1>1, <1>2, <2>1 DEF Managed
  <2> QED BY <1>1, <1>2, <2>2, DeviceIsStopped
<1>3. CASE /\ procs' = [pid \in DOMAIN procs |->
                          IF procs[pid].port = devices[d].port
                          THEN [procs[pid] EXCEPT !.config.name = devices[d].config.name]
                          ELSE procs[pid]]
           /\ jobs' = Without(jobs, {d}) /\ UNCHANGED devices
  <2> USE DEF IInv
  <2>1. /\ DOMAIN procs' = DOMAIN procs /\ procs' \in [DOMAIN procs -> Process]
        /\ \A pid \in DOMAIN procs :
              /\ procs'[pid].device = procs[pid].device /\ procs'[pid].port = procs[pid].port
              /\ procs'[pid].phase = procs[pid].phase
              /\ procs[pid].port # devices[d].port => procs'[pid] = procs[pid]
              /\ procs[pid].port = devices[d].port =>
                    procs'[pid].config = [works |-> procs[pid].config.works,
                                          name |-> devices[d].config.name]
    <3>1. \A p \in Process, n \in STRING :
              LET q == [p EXCEPT !.config.name = n]
              IN  /\ q \in Process /\ q.device = p.device /\ q.port = p.port /\ q.phase = p.phase
                  /\ q.config = [works |-> p.config.works, name |-> n]
      BY DEF Process, Config
    <3>2. devices[d].config.name \in STRING /\ \A pid \in DOMAIN procs : procs[pid] \in Process
      BY <1>1 DEF ManagedDevice, Config, Typed
    <3>3. DOMAIN procs' = DOMAIN procs /\ procs' = [pid \in DOMAIN procs |-> procs'[pid]]
      BY <1>3
    <3>4. \A pid \in DOMAIN procs : procs'[pid] \in Process
      BY <1>3, <3>1, <3>2
    <3>5. procs' \in [DOMAIN procs -> Process]
      BY <3>3, <3>4
    <3> QED BY <1>3, <3>1, <3>2, <3>3, <3>5
  <2>2. /\ DOMAIN jobs' = DOMAIN jobs \ {d} /\ jobs' \in [DOMAIN jobs' -> DeviceJob]
        /\ \A e \in DOMAIN jobs \ {d} : jobs'[e] = jobs[e]
    BY <1>3 DEF Without, Restrict, Typed
  <2>3. Typed'
    BY <1>1, <1>3, <2>1, <2>2 DEF Typed
  <2>4. task.name \notin {"none", "answer", "remove", "stop"}
    BY <1>1 DEF OneTask
  <2>5. OneTask' /\ NewPortsAreFree' /\ StoppedIsForgotten'
    <3>1. OneTask'
      BY <1>1, <1>3, <2>1, <2>2, <2>4 DEF OneTask
    <3>2. NewPortsAreFree'
      BY <1>1, <1>3, <2>1, <2>2, <2>4 DEF NewPortsAreFree
    <3>3. StoppedIsForgotten'
      BY <1>1, <1>3, <2>1, <2>2, <2>4, ZenonT(30) DEF StoppedIsForgotten
    <3> QED BY <3>1, <3>2, <3>3
  <2>6. ProcessesAreKnown'
    <3>1. \A e, pid : AwaitedBy(e, pid) => AwaitedBy(e, pid)'
      BY <1>1, <2>2 DEF AwaitedBy
    <3> QED BY <1>1, <1>3, <2>1, <3>1 DEF ProcessesAreKnown, IsKnown
  <2>7. DevicesKnowTheirOwn'
    BY <1>3, <2>1 DEF DevicesKnowTheirOwn
  <2>8. ConfigArrives'
    <3> SUFFICES ASSUME NEW e \in DOMAIN devices, devices[e].process \in DOMAIN procs
                 PROVE  HasItsConfig(e)'
      BY <1>3, <2>1 DEF ConfigArrives, HasItsConfig
    <3> DEFINE pid == devices[e].process
    <3>1. /\ procs[pid].device = e /\ procs[pid].port = devices[e].port
          /\ \/ procs[pid].config = devices[e].config
             \/ /\ e \in DOMAIN jobs /\ jobs[e].step = "update"
                /\ procs[pid].config.works = devices[e].config.works
      BY DEF DevicesKnowTheirOwn, ProcessesAreKnown, IsKnown, ConfigArrives, HasItsConfig
    <3>2. CASE e = d
      <4>1. procs'[pid].config = [works |-> devices[d].config.works, name |-> devices[d].config.name]
        BY <2>1, <3>1, <3>2
      <4>2. devices[d].config = [works |-> devices[d].config.works, name |-> devices[d].config.name]
        BY <1>1 DEF ManagedDevice, Config
      <4> QED BY <1>3, <3>2, <4>1, <4>2 DEF HasItsConfig
    <3>3. CASE e # d
      <4>1. devices[e].port # devices[d].port
        BY <1>1, <3>3, PortsDiffer
      <4> QED BY <1>3, <2>1, <2>2, <3>1, <3>3, <4>1 DEF HasItsConfig
    <3> QED BY <3>2, <3>3
  <2>9. AnswersAreStored' /\ AnsweredPortIsKept'
    BY <1>1, <1>3, PortsStay DEF AnswersAreStored
  <2> QED BY <2>3, <2>5, <2>6, <2>7, <2>8, <2>9
<1> QED BY <1>2, <1>3 DEF UpdateRunning

LEMMA SpawnInv ==
    ASSUME IInv, NEW d \in Devices, Spawn(d)
    PROVE  IInv'
<1> USE DEF IInv
<1>1. /\ d \in DOMAIN jobs /\ jobs[d].step = "stop" /\ jobs[d].goal = "start"
      /\ jobs[d].old \notin DOMAIN procs
      /\ d \in DOMAIN devices /\ devices[d] \in ManagedDevice /\ devices[d].process = NoPid
      /\ jobs' = [jobs EXCEPT ![d] = Job("await")]
      /\ UNCHANGED <<hub, stored, task, loop, promised>>
  BY DEF Typed, Spawn, Live, StoppedIsForgotten
<1> DEFINE new(pid) == [device |-> d, port |-> devices[d].port,
                        config |-> devices[d].config, phase |-> "booting"]
<1>2. PICK pid \in FreePids : /\ devices' = [devices EXCEPT ![d].process = pid]
                              /\ procs' = Put(procs, pid, new(pid))
  BY DEF Spawn
<1>3. /\ pid \in Pids /\ pid \notin DOMAIN procs
      /\ \A e \in DOMAIN devices : devices[e].process # pid
      /\ NoPid \notin DOMAIN procs
  BY LimitsAssumption DEF FreePids, Typed
<1>4. /\ DOMAIN devices' = DOMAIN devices /\ devices' \in [DOMAIN devices -> ManagedDevice]
      /\ \A e \in DOMAIN devices : /\ devices'[e].port = devices[e].port
                                   /\ devices'[e].config = devices[e].config
                                   /\ e # d => devices'[e].process = devices[e].process
      /\ devices'[d].process = pid
  BY <1>1, <1>2, <1>3 DEF Typed, ManagedDevice
<1>5. /\ DOMAIN procs' = DOMAIN procs \union {pid} /\ procs' \in [DOMAIN procs' -> Process]
      /\ procs'[pid].device = d /\ procs'[pid].port = devices[d].port
      /\ procs'[pid].config = devices[d].config
      /\ \A x \in DOMAIN procs : procs'[x] = procs[x]
  <2>1. new(pid) \in Process
    BY <1>1 DEF Process, ManagedDevice
  <2>2. \A x \in DOMAIN procs : procs[x] \in Process
    BY DEF Typed
  <2>3. /\ DOMAIN procs' = DOMAIN procs \union {pid} /\ procs'[pid] = new(pid)
        /\ \A x \in DOMAIN procs : procs'[x] = procs[x]
        /\ procs' = [x \in DOMAIN procs' |-> procs'[x]]
    BY <1>2, <1>3 DEF Put
  <2>4. \A x \in DOMAIN procs' : procs'[x] \in Process
    BY <2>1, <2>2, <2>3
  <2>5. procs' \in [DOMAIN procs' -> Process]
    BY <2>3, <2>4
  <2> QED BY <2>3, <2>5
<1>6. /\ DOMAIN jobs' = DOMAIN jobs /\ jobs' \in [DOMAIN jobs -> DeviceJob]
      /\ jobs'[d].step = "await" /\ \A e \in DOMAIN jobs : e # d => jobs'[e] = jobs[e]
  <2>1. Job("await") \in DeviceJob /\ Job("await").step = "await"
    BY DEF Job, DeviceJob
  <2> QED BY <1>1, <2>1 DEF Typed
<1>7. Typed'
  BY <1>1, <1>3, <1>4, <1>5, <1>6 DEF Typed
<1>8. task.name \notin {"none", "answer", "remove", "stop"} /\ hub # "down"
  BY <1>1 DEF OneTask
<1>9. OneTask' /\ NewPortsAreFree'
  <2>1. OneTask'
    BY <1>1, <1>8 DEF OneTask
  <2>2. NewPortsAreFree'
    BY <1>1, <1>8 DEF NewPortsAreFree
  <2> QED BY <2>1, <2>2
<1>10. StoppedIsForgotten'
  BY <1>1, <1>4, <1>6 DEF StoppedIsForgotten, Typed
<1>11. ProcessesAreKnown'
  <2> SUFFICES ASSUME NEW x \in DOMAIN procs' PROVE IsKnown(x)'
    BY DEF ProcessesAreKnown
  <2>1. CASE x = pid
    BY <1>1, <1>4, <1>5, <2>1 DEF IsKnown
  <2>2. CASE x # pid
    <3>1. x \in DOMAIN procs /\ procs'[x] = procs[x]
      BY <1>5, <2>2
    <3>2. /\ procs[x].device \in DOMAIN devices /\ devices[procs[x].device].port = procs[x].port
          /\ \/ devices[procs[x].device].process = x
             \/ procs[x].phase \in {"stuck", "ending"} /\ AwaitedBy(procs[x].device, x)
      BY <1>8, <3>1 DEF ProcessesAreKnown, IsKnown
    <3>3. procs[x].device # d
      BY <1>1, <1>3, <3>1, <3>2 DEF AwaitedBy
    <3> QED BY <1>4, <1>6, <3>1, <3>2, <3>3 DEF AwaitedBy, IsKnown
  <2> QED BY <2>1, <2>2
<1>12. DevicesKnowTheirOwn'
  BY <1>3, <1>4, <1>5 DEF DevicesKnowTheirOwn
<1>13. ConfigArrives'
  <2> SUFFICES ASSUME NEW e \in DOMAIN devices PROVE HasItsConfig(e)'
    BY <1>4 DEF ConfigArrives
  <2>1. CASE e = d
    BY <1>4, <1>5, <2>1 DEF HasItsConfig
  <2>2. CASE e # d
    BY <1>3, <1>4, <1>5, <1>6, <2>2 DEF ConfigArrives, HasItsConfig
  <2> QED BY <2>1, <2>2
<1>14. AnswersAreStored' /\ AnsweredPortIsKept'
  BY <1>1, <1>4, PortsStay DEF AnswersAreStored
<1> QED BY <1>7, <1>9, <1>10, <1>11, <1>12, <1>13, <1>14

\* The items of a request.
LEMMA RequestIs ==
    ASSUME NEW r \in Requests
    PROVE  /\ Len(r) \in Nat /\ DevicesIn(r) \subseteq Devices
           /\ \A d \in DevicesIn(r) : ConfigIn(r, d) \in Config
<1> DEFINE Item == [device : Devices, works : STRING, name : STRING]
<1>1. r \in Seq(Item)
  BY RequestsAssumption
<1>2. Len(r) \in Nat /\ \A i \in 1 .. Len(r) : r[i] \in Item
  <2> HIDE DEF Item
  <2> QED BY <1>1
<1>3. DevicesIn(r) \subseteq Devices
  BY <1>2 DEF DevicesIn
<1>4. ASSUME NEW d \in DevicesIn(r) PROVE ConfigIn(r, d) \in Config
  <2> DEFINE i == CHOOSE i \in 1 .. Len(r) : r[i].device = d
  <2>1. i \in 1 .. Len(r)
    BY <1>4 DEF DevicesIn
  <2> HIDE DEF i
  <2>2. r[i].works \in STRING /\ r[i].name \in STRING
    BY <1>2, <2>1
  <2> QED BY <2>2 DEF ConfigIn, Config, i
<1> QED BY <1>2, <1>3, <1>4

\* The ports of the new devices are free ones and each has its own.
LEMMA AllocatedPorts ==
    ASSUME NEW r \in Requests, NEW added \in SUBSET DevicesIn(r), NEW used,
           NEW ports \in AllocatePorts(r, added, used)
    PROVE  ports \in [added -> Ports \ used] /\ IsInjective(ports)
<1>1. /\ ports \in [added -> Ports \ used]
      /\ \A i, j \in 1 .. Len(r) :
            i < j /\ {r[i].device, r[j].device} \subseteq added =>
                ports[r[i].device] < ports[r[j].device]
  BY DEF AllocatePorts
<1>2. \A d \in added : ports[d] \in Nat
  BY <1>1, PortsAssumption
<1>3. ASSUME NEW d \in added, NEW e \in added, d # e PROVE ports[d] # ports[e]
  <2>1. PICK i \in 1 .. Len(r), j \in 1 .. Len(r) : r[i].device = d /\ r[j].device = e
    BY DEF DevicesIn
  <2>2. i < j \/ j < i
    BY <1>3, <2>1, RequestIs
  <2>3. ports[d] < ports[e] \/ ports[e] < ports[d]
    BY <1>1, <2>1, <2>2
  <2> QED BY <1>2, <2>3
<1> QED BY <1>1, <1>3 DEF IsInjective

LEMMA PutDevicesInv ==
    ASSUME IInv, NEW r \in Requests, PutDevices(r)
    PROVE  IInv'
<1> USE DEF IInv
<1> DEFINE removed == DOMAIN devices \ DevicesIn(r)
           added == DevicesIn(r) \ DOMAIN devices
           used == {devices[d].port : d \in DOMAIN devices \ removed}
<1>1. /\ hub = "up" /\ task = Idle /\ task.name = "none" /\ DOMAIN jobs = {}
      /\ Terminate(removed) /\ UNCHANGED <<hub, stored, loop, promised>>
  BY DEF PutDevices, Idle, OneTask
<1>2. PICK ports \in AllocatePorts(r, added, used) :
            task' = [name |-> "remove", request |-> r, ports |-> ports]
  BY DEF PutDevices
<1>3. ports \in [added -> Ports \ used] /\ IsInjective(ports)
  BY AllocatedPorts
<1>4. /\ DOMAIN devices' = DOMAIN devices /\ devices' \in [DOMAIN devices -> ManagedDevice]
      /\ \A d \in DOMAIN devices :
            /\ devices'[d].port = devices[d].port /\ devices'[d].config = devices[d].config
            /\ devices'[d].process = IF d \in removed THEN NoPid ELSE devices[d].process
  BY DEF PutDevices, Typed, ManagedDevice
<1>5. /\ DOMAIN jobs' = removed /\ jobs' \in [removed -> DeviceJob]
      /\ \A d \in removed : /\ jobs'[d].step = "stop" /\ jobs'[d].goal = "end"
                            /\ jobs'[d].old = devices[d].process
  BY DEF PutDevices, Typed, ManagedDevice, StopJob, DeviceJob
<1>6. /\ DOMAIN procs' = DOMAIN procs /\ procs' \in [DOMAIN procs -> Process]
      /\ \A pid \in DOMAIN procs :
            /\ procs'[pid].device = procs[pid].device /\ procs'[pid].port = procs[pid].port
            /\ procs'[pid].config = procs[pid].config
            /\ (\E d \in removed : devices[d].process = pid) => procs'[pid].phase \in {"stuck", "ending"}
  BY <1>1, TerminateDoes
<1> HIDE DEF added, removed, used
<1>7. removed \subseteq DOMAIN devices
  BY DEF removed
<1>8. Typed'
  BY <1>1, <1>2, <1>4, <1>5, <1>6, <1>7 DEF Typed
<1>9. OneTask' /\ StoppedIsForgotten'
  <2>1. OneTask'
    BY <1>1, <1>2, <1>4, <1>5, <1>7 DEF OneTask
  <2>2. StoppedIsForgotten'
    BY <1>1, <1>2, <1>4, <1>5, <1>7 DEF StoppedIsForgotten
  <2> QED BY <2>1, <2>2
<1>10. NewPortsAreFree'
  <2> DEFINE kept == DevicesIn(r) \intersect DOMAIN devices
  <2>1. /\ added = DevicesIn(r) \ DOMAIN devices' /\ kept = DevicesIn(r) \intersect DOMAIN devices'
        /\ DOMAIN devices' \ kept = removed
    BY <1>4 DEF added, removed
  <2>2. ports \in [added -> Ports] /\ \A d \in added : ports[d] \notin used
    BY <1>3
  <2>3. \A e \in kept : devices'[e].port \in used
    BY <1>4 DEF used, removed
  <2>4. \A d \in removed : devices'[d].process = NoPid
    BY <1>4, <1>7
  <2> HIDE DEF kept
  <2>5. /\ task'.request = r /\ task'.ports = ports
        /\ \A d \in added, e \in kept : ports[d] # devices'[e].port
    BY <1>2, <2>2, <2>3
  <2> QED BY <1>3, <2>1, <2>2, <2>4, <2>5 DEF NewPortsAreFree
<1>11. ProcessesAreKnown'
  <2>1. \A pid \in DOMAIN procs :
            /\ procs[pid].device \in DOMAIN devices
            /\ devices[procs[pid].device].port = procs[pid].port
            /\ devices[procs[pid].device].process = pid
    BY <1>1 DEF ProcessesAreKnown, IsKnown, AwaitedBy
  <2>2. \A pid \in DOMAIN procs, d \in removed :
            devices[d].process = pid => AwaitedBy(d, pid)'
    BY <1>5 DEF AwaitedBy
  <2> QED BY <1>4, <1>6, <2>1, <2>2 DEF ProcessesAreKnown, IsKnown
<1>12. NoPid \notin DOMAIN procs
  BY LimitsAssumption DEF Typed
<1>13. DevicesKnowTheirOwn'
  BY <1>4, <1>6, <1>12 DEF DevicesKnowTheirOwn
<1>14. ConfigArrives'
  <2> SUFFICES ASSUME NEW e \in DOMAIN devices PROVE HasItsConfig(e)'
    BY <1>4 DEF ConfigArrives
  <2> QED BY <1>1, <1>4, <1>6, <1>12 DEF ConfigArrives, HasItsConfig
<1>15. AnswersAreStored' /\ AnsweredPortIsKept'
  BY <1>1, <1>2, <1>4, PortsStay DEF AnswersAreStored
<1> QED BY <1>8, <1>9, <1>10, <1>11, <1>13, <1>14, <1>15

LEMMA ApplyChangesInv == IInv /\ ApplyChanges => IInv'
<1> SUFFICES ASSUME IInv, ApplyChanges PROVE IInv'
  OBVIOUS
<1> USE DEF IInv
<1> DEFINE r == task.request
           kept == DOMAIN devices \intersect DevicesIn(r)
           changed == {d \in kept : Changed(d, r)}
           restarted == {d \in changed : RequiresRestart(devices[d].config, ConfigIn(r, d))}
           device(d) ==
               IF d \in kept
               THEN [config |-> ConfigIn(r, d), port |-> devices[d].port,
                     process |-> IF d \in restarted THEN NoPid ELSE devices[d].process,
                     restarts |-> IF d \in restarted THEN 0 ELSE devices[d].restarts,
                     failed |-> devices[d].failed /\ d \notin restarted]
               ELSE Managed(ConfigIn(r, d), task.ports[d])
           job(d) == IF d \in restarted THEN StopJob(d, "start")
                     ELSE IF d \in changed THEN Job("update") ELSE SpawnJob
<1>1. /\ task.name = "remove" /\ DOMAIN jobs = {}
      /\ task' = [name |-> "change", request |-> r, ports |-> task.ports]
      /\ devices' = [d \in DevicesIn(r) |-> device(d)]
      /\ jobs' = [d \in DevicesIn(r) \ (kept \ changed) |-> job(d)]
      /\ Terminate(restarted)
      /\ promised' = Restrict(promised, DOMAIN promised \intersect DevicesIn(r))
      /\ UNCHANGED <<hub, stored, loop>>
  BY DEF ApplyChanges, None, Typed
<1>2. /\ r \in Requests /\ DevicesIn(r) \subseteq Devices
      /\ \A d \in DevicesIn(r) : ConfigIn(r, d) \in Config
      /\ task.ports \in [DevicesIn(r) \ DOMAIN devices -> Ports] /\ IsInjective(task.ports)
      /\ \A d \in DevicesIn(r) \ DOMAIN devices, e \in kept : task.ports[d] # devices[e].port
      /\ \A d \in DOMAIN devices \ kept : devices[d].process = NoPid
  <2>1. r \in Requests
    BY <1>1 DEF NewPortsAreFree
  <2>2. /\ task.ports \in [DevicesIn(r) \ DOMAIN devices -> Ports] /\ IsInjective(task.ports)
        /\ \A d \in DevicesIn(r) \ DOMAIN devices, e \in kept : task.ports[d] # devices[e].port
        /\ \A d \in DOMAIN devices \ kept : devices[d].process = NoPid
    BY <1>1 DEF NewPortsAreFree
  <2> QED BY <2>1, <2>2, RequestIs
<1>3. /\ \A d \in kept : devices[d] \in ManagedDevice
      /\ 0 \in 0 .. MaxRestarts /\ NoPid \notin DOMAIN procs
      /\ kept \subseteq DOMAIN devices /\ kept \subseteq DevicesIn(r)
      /\ restarted \subseteq kept /\ changed \subseteq kept
  BY LimitsAssumption DEF Typed
<1>4. \A d \in DevicesIn(r) : device(d) \in ManagedDevice
  <2> SUFFICES ASSUME NEW d \in DevicesIn(r) PROVE device(d) \in ManagedDevice
    OBVIOUS
  <2>1. CASE d \in kept
    <3>1. devices[d] \in ManagedDevice /\ ConfigIn(r, d) \in Config
      BY <1>2, <1>3, <2>1
    <3> HIDE DEF kept, restarted, r
    <3> QED BY <1>3, <2>1, <3>1 DEF ManagedDevice
  <2>2. CASE d \notin kept
    <3>1. task.ports[d] \in Ports /\ ConfigIn(r, d) \in Config
      BY <1>2, <2>2
    <3> HIDE DEF kept, restarted, r
    <3> QED BY <1>3, <2>2, <3>1 DEF Managed, ManagedDevice
  <2> QED BY <2>1, <2>2
<1>5. \A d \in DevicesIn(r) \ (kept \ changed) : job(d) \in DeviceJob
  <2> SUFFICES ASSUME NEW d \in DevicesIn(r) \ (kept \ changed) PROVE job(d) \in DeviceJob
    OBVIOUS
  <2>1. CASE d \in restarted
    <3>1. devices[d].process \in Pids \union {NoPid}
      BY <1>3, <2>1 DEF ManagedDevice
    <3> HIDE DEF restarted
    <3> QED BY <2>1, <3>1 DEF StopJob, DeviceJob
  <2>2. CASE d \notin restarted
    <3> HIDE DEF restarted, changed
    <3> QED BY <2>2 DEF Job, SpawnJob, DeviceJob
  <2> QED BY <2>1, <2>2
<1>6. /\ DOMAIN devices' = DevicesIn(r) /\ devices' \in [DevicesIn(r) -> ManagedDevice]
      /\ \A d \in kept : /\ devices'[d].port = devices[d].port
                         /\ devices'[d].config = ConfigIn(r, d)
                         /\ devices'[d].process = IF d \in restarted THEN NoPid ELSE devices[d].process
      /\ \A d \in DevicesIn(r) \ kept : /\ devices'[d].port = task.ports[d]
                                        /\ devices'[d].process = NoPid
  <2>1. devices' \in [DevicesIn(r) -> ManagedDevice] /\ DOMAIN devices' = DevicesIn(r)
    BY <1>1, <1>4
  <2>2. \A d \in DevicesIn(r) : devices'[d] = device(d)
    BY <1>1
  <2> HIDE DEF kept, restarted, changed, r
  <2>3. \A d \in kept : /\ device(d).port = devices[d].port
                        /\ device(d).config = ConfigIn(r, d)
                        /\ device(d).process = IF d \in restarted THEN NoPid ELSE devices[d].process
    OBVIOUS
  <2>4. \A d \in DevicesIn(r) \ kept : device(d).port = task.ports[d] /\ device(d).process = NoPid
    BY DEF Managed
  <2> HIDE DEF device
  <2> QED BY <1>3, <2>1, <2>2, <2>3, <2>4
<1>7. /\ DOMAIN jobs' = DevicesIn(r) \ (kept \ changed) /\ jobs' \in [DOMAIN jobs' -> DeviceJob]
      /\ \A d \in restarted : jobs'[d].step = "stop" /\ jobs'[d].old = devices[d].process
      /\ \A d \in changed \ restarted : jobs'[d].step = "update"
  <2>1. DOMAIN jobs' = DevicesIn(r) \ (kept \ changed) /\ jobs' \in [DOMAIN jobs' -> DeviceJob]
    BY <1>1, <1>5
  <2>2. restarted \subseteq changed /\ changed \subseteq DOMAIN jobs'
    BY <1>3, <2>1
  <2>3. \A d \in DOMAIN jobs' : jobs'[d] = job(d)
    BY <1>1
  <2> HIDE DEF kept, restarted, changed, r
  <2>4. /\ \A d \in restarted : job(d).step = "stop" /\ job(d).old = devices[d].process
        /\ \A d \in changed \ restarted : job(d).step = "update"
    BY DEF StopJob, Job
  <2> HIDE DEF job
  <2> QED BY <2>1, <2>2, <2>3, <2>4
<1>8. /\ DOMAIN procs' = DOMAIN procs /\ procs' \in [DOMAIN procs -> Process]
      /\ \A pid \in DOMAIN procs :
            /\ procs'[pid].device = procs[pid].device /\ procs'[pid].port = procs[pid].port
            /\ procs'[pid].config = procs[pid].config
            /\ (\E d \in restarted : devices[d].process = pid) => procs'[pid].phase \in {"stuck", "ending"}
  <2> HIDE DEF restarted
  <2> QED BY <1>1, TerminateDoes
<1>9. \A d \in kept \ restarted : devices[d].config.works = ConfigIn(r, d).works
  BY DEF Changed, RequiresRestart
<1>10. \A d \in kept \ changed : devices[d].config = ConfigIn(r, d)
  BY DEF Changed
<1>11. restarted \subseteq changed
  OBVIOUS
<1> HIDE DEF r, device, job, changed, restarted
<1>12. Typed'
  BY <1>1, <1>2, <1>6, <1>7, <1>8 DEF Typed
<1>13. hub # "down"
  BY <1>1 DEF OneTask
<1>14. OneTask' /\ NewPortsAreFree'
  <2>1. OneTask'
    BY <1>1, <1>13 DEF OneTask
  <2>2. NewPortsAreFree'
    BY <1>1, <1>13 DEF NewPortsAreFree
  <2> QED BY <2>1, <2>2
<1>15. StoppedIsForgotten'
  BY <1>3, <1>6, <1>7, <1>11 DEF StoppedIsForgotten
<1>16. ProcessesAreKnown'
  <2> SUFFICES ASSUME NEW pid \in DOMAIN procs PROVE IsKnown(pid)'
    BY <1>8 DEF ProcessesAreKnown
  <2> DEFINE e == procs[pid].device
  <2>1. e \in DOMAIN devices /\ devices[e].port = procs[pid].port /\ devices[e].process = pid
    BY <1>1 DEF ProcessesAreKnown, IsKnown, AwaitedBy
  <2>2. e \in kept
    BY <1>2, <1>3, <2>1
  <2>3. CASE e \in restarted
    BY <1>3, <1>6, <1>7, <1>8, <1>11, <2>1, <2>2, <2>3 DEF IsKnown, AwaitedBy
  <2>4. CASE e \notin restarted
    BY <1>3, <1>6, <1>8, <2>1, <2>2, <2>4 DEF IsKnown
  <2> QED BY <2>3, <2>4
<1>17. DevicesKnowTheirOwn'
  BY <1>3, <1>6, <1>8 DEF DevicesKnowTheirOwn
<1>18. ConfigArrives'
  <2> SUFFICES ASSUME NEW e \in DevicesIn(r), devices'[e].process \in DOMAIN procs
               PROVE  HasItsConfig(e)'
    BY <1>6, <1>8 DEF ConfigArrives, HasItsConfig
  <2>1. e \in kept /\ e \notin restarted /\ devices'[e].process = devices[e].process
    BY <1>3, <1>6
  <2>2. procs[devices[e].process].config = devices[e].config
    BY <1>1, <1>3, <2>1 DEF ConfigArrives, HasItsConfig
  <2>3. CASE e \in changed
    BY <1>3, <1>6, <1>7, <1>8, <1>9, <2>1, <2>2, <2>3 DEF HasItsConfig
  <2>4. CASE e \notin changed
    BY <1>3, <1>6, <1>8, <1>10, <2>1, <2>2, <2>4 DEF HasItsConfig
  <2> QED BY <2>3, <2>4
<1>19. /\ DOMAIN promised' \subseteq DevicesIn(r) \intersect DOMAIN promised
       /\ \A d \in DOMAIN promised' : promised'[d] = promised[d]
  BY <1>1 DEF Restrict
<1>20. AnswersAreStored'
  BY <1>1, <1>6, <1>19 DEF AnswersAreStored
<1>21. AnsweredPortIsKept'
  <2>1. \A d \in DOMAIN promised' :
            /\ d \in DOMAIN stored' /\ stored'[d].port = promised'[d]
            /\ d \in DOMAIN devices' => devices'[d].port = promised'[d]
    <3> SUFFICES ASSUME NEW d \in DOMAIN promised'
                 PROVE  /\ d \in DOMAIN stored /\ stored[d].port = promised'[d]
                        /\ devices'[d].port = promised'[d]
      BY <1>1
    <3>1. d \in DOMAIN promised /\ d \in kept /\ promised'[d] = promised[d]
      <4>1. DOMAIN promised \subseteq DOMAIN devices
        BY <1>13 DEF AnswersAreStored, Typed
      <4> QED BY <1>19, <4>1
    <3>2. devices'[d].port = devices[d].port
      BY <1>6, <3>1
    <3> QED BY <1>3, <3>1, <3>2 DEF AnsweredPortIsKept
  <2>2. IsInjective([d \in DOMAIN devices' |-> devices'[d].port])
    <3> SUFFICES ASSUME NEW d \in DevicesIn(r), NEW e \in DevicesIn(r),
                        devices'[d].port = devices'[e].port
                 PROVE  d = e
      BY <1>6 DEF IsInjective
    <3>1. CASE d \in kept /\ e \in kept
      BY <1>3, <1>6, <3>1, PortsDiffer
    <3>2. CASE d \notin kept /\ e \notin kept
      BY <1>2, <1>6, <3>2 DEF IsInjective
    <3>3. \A x \in kept, y \in DevicesIn(r) \ kept : devices'[x].port # devices'[y].port
      BY <1>2, <1>6
    <3> QED BY <3>1, <3>2, <3>3
  <2>3. [d \in DOMAIN stored' |-> stored'[d].port] = [d \in DOMAIN stored |-> stored[d].port]
    BY <1>1
  <2> QED BY <2>1, <2>2, <2>3 DEF AnsweredPortIsKept
<1> QED BY <1>12, <1>14, <1>15, <1>16, <1>17, <1>18, <1>20, <1>21

\* A hub that has never been started.
LEMMA InitInv == Init => IInv
<1> SUFFICES ASSUME Init PROVE IInv
  OBVIOUS
<1>1. /\ hub = "down" /\ loop = "dead"
      /\ DOMAIN devices = {} /\ DOMAIN stored = {} /\ DOMAIN procs = {} /\ DOMAIN jobs = {}
      /\ DOMAIN promised = {}
      /\ devices \in [{} -> ManagedDevice] /\ procs \in [{} -> Process] /\ jobs \in [{} -> DeviceJob]
      /\ stored \in [{} -> [config : Config, port : Ports]]
      /\ task = [name |-> "none", request |-> <<>>, ports |-> None]
  BY DEF Init, None, Idle
<1>2. Typed
  BY <1>1 DEF Typed
<1>3. OneTask /\ NewPortsAreFree /\ StoppedIsForgotten /\ ProcessesAreKnown
  BY <1>1 DEF OneTask, NewPortsAreFree, StoppedIsForgotten, ProcessesAreKnown
<1>4. DevicesKnowTheirOwn /\ ConfigArrives /\ AnswersAreStored
  BY <1>1 DEF DevicesKnowTheirOwn, ConfigArrives, AnswersAreStored
<1>5. AnsweredPortIsKept
  BY <1>1 DEF AnsweredPortIsKept, IsInjective
<1> QED BY <1>2, <1>3, <1>4, <1>5 DEF IInv

LEMMA UnchangedInv == IInv /\ UNCHANGED vars => IInv'
<1> SUFFICES ASSUME IInv, UNCHANGED vars PROVE IInv'
  OBVIOUS
<1>1. UNCHANGED <<hub, devices, stored, procs, task, jobs, loop, promised>>
  BY DEF vars
<1> USE DEF IInv
<1>2. Typed' /\ OneTask' /\ NewPortsAreFree' /\ StoppedIsForgotten'
  BY <1>1 DEF Typed, OneTask, NewPortsAreFree, StoppedIsForgotten
<1>3. ProcessesAreKnown' /\ DevicesKnowTheirOwn' /\ ConfigArrives'
  <2>1. ProcessesAreKnown'
    BY <1>1 DEF ProcessesAreKnown, IsKnown, AwaitedBy
  <2>2. DevicesKnowTheirOwn'
    BY <1>1 DEF DevicesKnowTheirOwn
  <2>3. ConfigArrives'
    BY <1>1 DEF ConfigArrives, HasItsConfig
  <2> QED BY <2>1, <2>2, <2>3
<1>4. AnswersAreStored' /\ AnsweredPortIsKept'
  BY <1>1 DEF AnswersAreStored, AnsweredPortIsKept
<1> QED BY <1>2, <1>3, <1>4

LEMMA NextInv == IInv /\ [Next]_vars => IInv'
<1> SUFFICES ASSUME IInv, [Next]_vars PROVE IInv'
  OBVIOUS
<1>1. CASE HubStep
  <2>1. ASSUME NEW d \in Devices,
               \/ UpdateRunning(d) \/ CheckDevice(d) \/ KillStuck(d)
               \/ StopEnds(d) \/ Spawn(d) \/ WaitEnds(d)
        PROVE  IInv'
    BY <2>1, UpdateRunningInv, CheckDeviceInv, KillStuckInv, StopEndsInv, SpawnInv, WaitEndsInv
  <2>2. Start \/ Started \/ Stopped => IInv'
    BY StartInv, StartedInv, StoppedInv
  <2>3. ApplyChanges \/ SaveState \/ AnswerRequest => IInv'
    BY ApplyChangesInv, SaveStateInv, AnswerRequestInv
  <2>4. CheckHealth \/ HealthChecked => IInv'
    BY CheckHealthInv, HealthCheckedInv
  <2> QED BY <1>1, <2>1, <2>2, <2>3, <2>4 DEF HubStep
<1>2. CASE Stop \/ Crash
  BY <1>2, StopInv, CrashInv
<1>3. ASSUME NEW r \in Requests, PutDevices(r) PROVE IInv'
  BY <1>3, PutDevicesInv
<1>4. ASSUME NEW pid \in Pids, Boot(pid) \/ Exit(pid) \/ Fault(pid) \/ Recover(pid)
      PROVE  IInv'
  BY <1>4, BootInv, ExitInv, FaultInv, RecoverInv
<1>5. CASE UNCHANGED vars
  BY <1>5, UnchangedInv
<1> QED BY <1>1, <1>2, <1>3, <1>4, <1>5 DEF Next

LEMMA Invariance == Spec => []IInv
<1>1. Init => IInv
  BY InitInv
<1>2. IInv /\ [Next]_vars => IInv'
  BY NextInv
<1> QED BY <1>1, <1>2, PTL DEF Spec

----------------------------------------------------------------------------
(* The theorems.                                                           *)

\* The hub, the file and the system keep what they are said to keep.
THEOREM HubTypes == Spec => []TypeOK
<1>1. IInv => TypeOK
  BY DEF IInv, Typed, TypeOK, ManagedDevice, Process
<1> QED BY <1>1, Invariance, PTL

\* However requests, restarts, faults and crashes meet, a process that runs is
\* that of its device, on its port, or was told to end; and no two processes
\* meet on a port, unless the hub itself is ending.
THEOREM ProcessesAreNotLost == Spec => []NoStrayProcess
<1>1. IInv => NoStrayProcess
  <2> SUFFICES ASSUME IInv, NEW pid \in DOMAIN procs
               PROVE  /\ \/ /\ procs[pid].device \in DOMAIN devices
                            /\ devices[procs[pid].device].process = pid
                            /\ devices[procs[pid].device].port = procs[pid].port
                         \/ procs[pid].phase \in {"stuck", "ending"}
                      /\ task.name # "stop" =>
                            \A other \in DOMAIN procs \ {pid} : procs[other].port # procs[pid].port
    BY DEF NoStrayProcess
  <2> USE DEF IInv
  <2>1. \A x \in DOMAIN procs :
            LET d == procs[x].device
            IN  /\ d \in DOMAIN devices /\ devices[d].port = procs[x].port
                /\ \/ devices[d].process = x
                   \/ /\ procs[x].phase \in {"stuck", "ending"}
                      /\ task.name = "stop" \/ AwaitedBy(d, x)
    BY DEF ProcessesAreKnown, IsKnown
  <2>2. ASSUME task.name # "stop", NEW other \in DOMAIN procs \ {pid},
               procs[other].port = procs[pid].port
        PROVE  FALSE
    <3> DEFINE d == procs[pid].device
    <3>1. procs[other].device = d
      BY <2>1, <2>2, PortsDiffer
    <3>2. /\ devices[d].process = pid \/ AwaitedBy(d, pid)
          /\ devices[d].process = other \/ AwaitedBy(d, other)
      BY <2>1, <2>2, <3>1
    <3>3. \A x : AwaitedBy(d, x) => devices[d].process = NoPid /\ jobs[d].old = x
      BY DEF AwaitedBy, StoppedIsForgotten
    <3>4. NoPid \notin DOMAIN procs
      BY LimitsAssumption DEF Typed
    <3> QED BY <2>2, <3>2, <3>3, <3>4
  <2> QED BY <2>1, <2>2
<1> QED BY <1>1, Invariance, PTL

\* A port that was answered stays that of its device, across restarts and
\* crashes of the hub, and no two devices have the same.
THEOREM AnsweredPortsAreKept == Spec => []AnsweredPortIsKept
<1>1. IInv => AnsweredPortIsKept
  BY DEF IInv
<1> QED BY <1>1, Invariance, PTL

\* Whenever nothing holds the lock, every process runs with the configuration
\* of the registry.
THEOREM RegisteredConfigsRun == Spec => []ProcessHasRegisteredConfig
<1>1. IInv => ProcessHasRegisteredConfig
  BY DEF IInv, OneTask, ConfigArrives, HasItsConfig, ProcessHasRegisteredConfig, Live, Idle
<1> QED BY <1>1, Invariance, PTL

----------------------------------------------------------------------------
(* The driver.                                                             *)

Event == StartEvent \union FinishEvent

DriverTyped ==
    /\ programs \in Configs
    /\ state \in {"off", "idle", "running"}
    /\ simTime \in Time \union {Never}
    /\ action = NoAction \/ action \in Action
    /\ total \in Int
    /\ events \in Seq(Event) /\ told.events \in Seq(Event)
    /\ told.kwh \in Int /\ heard.kwh \in Int
    /\ confirmed \in Time \union {Never}

\* The action under way is one of the configuration, it has started unless time
\* has not, a program is not past its end, and its energy is that of its time.
ActionIsUnderWay ==
    action # NoAction =>
        /\ IF action.program = NoProgram THEN programs = {} ELSE action.program \in programs
        /\ simTime = Never <=> action.started = Never
        /\ IF action.started = Never THEN action.kwh = 0
           ELSE /\ action.started <= simTime
                /\ action.program # NoProgram =>
                      simTime < action.started + Duration(action.program)
                /\ action.kwh = Work(action.program, simTime - action.started)

\* Nothing is told of the future, and nothing before there is time.
EventsAreOfThePast ==
    \A i \in 1 .. Len(AllEvents) : simTime # Never /\ AllEvents[i].at <= simTime

DriverIInv ==
    /\ DriverTyped
    /\ ActionIsUnderWay
    /\ EventsAreOfThePast
    /\ EventsTellTheActions
    /\ EnergyFollowsEvents

----------------------------------------------------------------------------
(* Numbers.                                                                *)

\* A set of numbers that has 0, and with each number the next, has them all.
LEMMA Induct ==
    ASSUME NEW S, 0 \in S, \A n \in Nat : n \in S => n + 1 \in S
    PROVE  \A n \in Nat : n \in S
<1> SUFFICES ASSUME NEW n \in Nat, n \notin S PROVE FALSE
  OBVIOUS
<1> DEFINE R == {ss \in Nat \X Nat : ss[1] < ss[2]}
           Out == {m \in Nat : m \notin S}
<1>1. IsWellFoundedOn(R, Nat)
  <2>1. R = OpToRel(<, Nat)
    BY Zenon DEF OpToRel
  <2> QED BY <2>1, NatLessThanWellFounded
<1>2. Out \subseteq Nat /\ n \in Out
  OBVIOUS
<1>3. PICK m \in Out : \A k \in Out : ~(<<k, m>> \in R)
  <2> HIDE DEF R, Out
  <2> QED BY <1>1, <1>2, WFMin
<1>4. \A k \in Nat : k < m => k \in S
  BY <1>3
<1>5. m # 0 /\ m - 1 \in Nat /\ m - 1 < m /\ (m - 1) + 1 = m
  OBVIOUS
<1> QED BY <1>4, <1>5

\* The quotient and the rest of a division, and how a number has only one of each.
LEMMA Division ==
    ASSUME NEW a \in Nat, NEW b \in Nat \ {0}
    PROVE  /\ a \div b \in Nat /\ a % b \in 0 .. (b - 1)
           /\ a = b * (a \div b) + (a % b)
OBVIOUS

LEMMA DivisionIs ==
    ASSUME NEW b \in Nat \ {0}, NEW q \in Nat, NEW r \in 0 .. (b - 1)
    PROVE  (b * q + r) \div b = q /\ (b * q + r) % b = r
OBVIOUS

\* Products of whole numbers.
LEMMA Products ==
    /\ \A a, b \in Int : a * b \in Int /\ a * b = b * a /\ a * 0 = 0 /\ a * (b + 1) = a * b + a
    /\ \A a, b, c \in Int : a * (b + c) = a * b + a * c /\ a * (b - c) = a * b - a * c
OBVIOUS

\* A quotient is less than a number when the product is.
LEMMA QuotientIsLess ==
    ASSUME NEW a \in Nat, NEW b \in Nat \ {0}, NEW c \in Nat
    PROVE  a \div b < c <=> a < b * c
BY Division

\* The sums of a sequence are what their definition says.
LEMMA SumsAre ==
    ASSUME NEW s \in Seq(Int)
    PROVE  /\ Sums(s) \in [0 .. Len(s) -> Int] /\ Sums(s)[0] = 0
           /\ \A n \in 1 .. Len(s) : Sums(s)[n] = Sums(s)[n - 1] + s[n]
<1> DEFINE N == Len(s)
           Adds(f, n) == \A m \in 0 .. n : f[m] = IF m = 0 THEN 0 ELSE f[m - 1] + s[m]
           HasSums(n) == \E f \in [0 .. n -> Int] : Adds(f, n)
           S == {n \in Nat : n <= N => HasSums(n)}
<1>1. N \in Nat /\ \A n \in 1 .. N : s[n] \in Int
  OBVIOUS
<1>2. 0 \in S
  <2> DEFINE f == [m \in 0 .. 0 |-> 0]
  <2>1. f \in [0 .. 0 -> Int] /\ Adds(f, 0)
    OBVIOUS
  <2> QED BY <2>1
<1>3. \A n \in Nat : n \in S => n + 1 \in S
  <2> HIDE DEF HasSums
  <2> SUFFICES ASSUME NEW n \in Nat, HasSums(n), n + 1 <= N
               PROVE  HasSums(n + 1)
    BY <1>1
  <2> USE DEF HasSums
  <2>1. PICK f \in [0 .. n -> Int] : Adds(f, n)
    BY <1>1
  <2> DEFINE g == [m \in 0 .. (n + 1) |-> IF m = n + 1 THEN f[n] + s[n + 1] ELSE f[m]]
  <2>2. f[n] \in Int /\ s[n + 1] \in Int
    BY <1>1
  <2>3. g \in [0 .. (n + 1) -> Int]
    BY <2>2
  <2>4. Adds(g, n + 1)
    <3> SUFFICES ASSUME NEW m \in 0 .. (n + 1)
                 PROVE  g[m] = IF m = 0 THEN 0 ELSE g[m - 1] + s[m]
      OBVIOUS
    <3>1. CASE m = n + 1
      BY <3>1
    <3>2. CASE m # n + 1
      <4>1. m \in 0 .. n /\ (m # 0 => m - 1 \in 0 .. n)
        BY <3>2
      <4> QED BY <2>1, <4>1
    <3> QED BY <3>1, <3>2
  <2> HIDE DEF g
  <2> QED BY <2>3, <2>4
<1>4. PICK f \in [0 .. N -> Int] : Adds(f, N)
  <2> HIDE DEF S
  <2>1. N \in S
    BY <1>1, <1>2, <1>3, Induct
  <2> QED BY <1>1, <2>1 DEF S
<1>5. f = [n \in 0 .. N |-> IF n = 0 THEN 0 ELSE f[n - 1] + s[n]]
  BY <1>4
<1> DEFINE F == Sums(s)
<1>6. F = [n \in 0 .. N |-> IF n = 0 THEN 0 ELSE F[n - 1] + s[n]]
  BY <1>5 DEF Sums
<1> HIDE DEF F
<1>7. /\ F[0] = 0 /\ \A n \in 1 .. N : F[n] = F[n - 1] + s[n]
  BY <1>1, <1>6, SMTT(30)
<1> DEFINE T == {n \in Nat : n <= N => F[n] \in Int}
<1>8. 0 \in T /\ \A n \in Nat : n \in T => n + 1 \in T
  <2>1. ASSUME NEW n \in Nat, n \in T, n + 1 <= N PROVE F[n + 1] \in Int
    <3>1. n + 1 \in 1 .. N /\ (n + 1) - 1 = n /\ F[n] \in Int
      BY <1>1, <2>1
    <3> QED BY <1>1, <1>7, <3>1, SMTT(30)
  <2> QED BY <1>7, <2>1
<1>9. \A n \in 0 .. N : F[n] \in Int
  <2> HIDE DEF T
  <2>1. \A n \in Nat : n \in T
    BY <1>8, Induct
  <2> QED BY <1>1, <2>1 DEF T
<1> QED BY <1>6, <1>7, <1>9 DEF F

\* The sums of sequences that begin alike are alike as long as they do.
LEMMA SumsOfPrefix ==
    ASSUME NEW s \in Seq(Int), NEW t \in Seq(Int), NEW k \in Nat, k <= Len(s), k <= Len(t),
           \A i \in 1 .. k : s[i] = t[i]
    PROVE  Sums(s)[k] = Sums(t)[k]
<1> DEFINE S == {n \in Nat : n <= k => Sums(s)[n] = Sums(t)[n]}
<1>1. 0 \in S
  BY SumsAre
<1>2. ASSUME NEW n \in Nat, n \in S, n + 1 <= k PROVE Sums(s)[n + 1] = Sums(t)[n + 1]
  <2>1. n + 1 \in 1 .. Len(s) /\ n + 1 \in 1 .. Len(t) /\ n + 1 \in 1 .. k /\ (n + 1) - 1 = n
    BY <1>2
  <2>2. /\ Sums(s)[n + 1] = Sums(s)[(n + 1) - 1] + s[n + 1]
        /\ Sums(t)[n + 1] = Sums(t)[(n + 1) - 1] + t[n + 1]
    BY <2>1, SumsAre
  <2> QED BY <1>2, <2>1, <2>2
<1>3. \A n \in Nat : n \in S => n + 1 \in S
  BY <1>2
<1> HIDE DEF S
<1>4. k \in S
  BY <1>1, <1>3, Induct
<1> QED BY <1>4 DEF S

\* Nothing sums up to 0, and one more member adds itself.
LEMMA SumOfNothing == Sum(<<>>) = 0
BY SumsAre, <<>> \in Seq(Int), Len(<<>>) = 0 DEF Sum

LEMMA SumOfAppend ==
    ASSUME NEW s \in Seq(Int), NEW x \in Int
    PROVE  Sum(Append(s, x)) = Sum(s) + x /\ Sum(s) \in Int
<1> DEFINE t == Append(s, x)
           n == Len(s)
<1>1. /\ t \in Seq(Int) /\ Len(t) = n + 1 /\ n \in Nat /\ t[n + 1] = x
      /\ \A i \in 1 .. n : t[i] = s[i]
  OBVIOUS
<1> HIDE DEF t
<1>2. Sums(t)[n + 1] = Sums(t)[n] + x /\ Sums(s)[n] \in Int
  <2>1. n + 1 \in 1 .. Len(t) /\ (n + 1) - 1 = n /\ n \in 0 .. Len(s)
    BY <1>1
  <2>2. \A i \in 1 .. Len(t) : Sums(t)[i] = Sums(t)[i - 1] + t[i]
    BY <1>1, SumsAre
  <2>3. \A i \in 0 .. Len(s) : Sums(s)[i] \in Int
    BY SumsAre
  <2> QED BY <1>1, <2>1, <2>2, <2>3
<1>3. Sums(t)[n] = Sums(s)[n]
  <2>1. n <= Len(s) /\ n <= Len(t)
    BY <1>1
  <2> QED BY <1>1, <2>1, SumsOfPrefix
<1> QED BY <1>1, <1>2, <1>3 DEF Sum, t

----------------------------------------------------------------------------
(* The energy of a program.                                                *)

\* The profile of a program, its quarters and its length.
LEMMA ProgramHasQuarters ==
    ASSUME NEW p \in Programs
    PROVE  /\ Profile[p] \in Seq(Int) /\ Len(Profile[p]) \in Nat \ {0}
           /\ Duration(p) \in Nat \ {0} /\ Duration(p) = Parts * Len(Profile[p])
<1>1. Profile[p] \in Seq(Int) /\ Profile[p] # <<>>
  BY ProgramsAssumption
<1>2. Len(Profile[p]) \in Nat \ {0}
  BY <1>1
<1>3. \A a \in Nat \ {0}, b \in Nat \ {0} : a * b \in Nat \ {0}
  OBVIOUS
<1> QED BY <1>1, <1>2, <1>3, PartsAssumption DEF Duration

\* What each unit of time of a program consumes.
Units(p) == [u \in 1 .. Duration(p) |-> Profile[p][((u - 1) \div Parts) + 1]]

LEMMA UnitsAreNumbers ==
    ASSUME NEW p \in Programs
    PROVE  /\ Units(p) \in Seq(Int) /\ Len(Units(p)) = Duration(p)
           /\ \A e \in Nat : e < Duration(p) =>
                 /\ e \div Parts \in 0 .. (Len(Profile[p]) - 1)
                 /\ Units(p)[e + 1] = Profile[p][(e \div Parts) + 1]
<1> DEFINE L == Len(Profile[p])
<1>1. L \in Nat \ {0} /\ Profile[p] \in Seq(Int) /\ Duration(p) \in Nat /\ Duration(p) = Parts * L
  BY ProgramHasQuarters
<1>2. \A e \in Nat : e < Duration(p) => e \div Parts \in 0 .. (L - 1)
  <2> SUFFICES ASSUME NEW e \in Nat, e < Duration(p)
               PROVE  e \div Parts \in 0 .. (L - 1)
    OBVIOUS
  <2> HIDE DEF L
  <2>1. e \div Parts < L /\ e \div Parts \in Nat
    BY <1>1, PartsAssumption, QuotientIsLess, Division
  <2> QED BY <1>1, <2>1
<1>3. \A i \in 1 .. L : Profile[p][i] \in Int
  BY <1>1
<1> HIDE DEF L
<1>4. \A u \in 1 .. Duration(p) : Profile[p][((u - 1) \div Parts) + 1] \in Int
  <2> SUFFICES ASSUME NEW u \in 1 .. Duration(p)
               PROVE  Profile[p][((u - 1) \div Parts) + 1] \in Int
    OBVIOUS
  <2>1. u - 1 \in Nat /\ u - 1 < Duration(p)
    BY <1>1
  <2>2. (u - 1) \div Parts \in 0 .. (L - 1)
    BY <1>2, <2>1
  <2>3. ((u - 1) \div Parts) + 1 \in 1 .. L
    BY <1>1, <2>2
  <2> QED BY <1>3, <2>3
<1>5. Units(p) \in Seq(Int) /\ Len(Units(p)) = Duration(p)
  BY <1>1, <1>4 DEF Units
<1>6. \A e \in Nat : e < Duration(p) => Units(p)[e + 1] = Profile[p][(e \div Parts) + 1]
  <2> SUFFICES ASSUME NEW e \in Nat, e < Duration(p)
               PROVE  Units(p)[e + 1] = Profile[p][(e \div Parts) + 1]
    OBVIOUS
  <2>1. e + 1 \in 1 .. Duration(p) /\ (e + 1) - 1 = e
    BY <1>1
  <2> QED BY <2>1 DEF Units
<1> QED BY <1>2, <1>5, <1>6 DEF L

\* Quarter by quarter, and inside a quarter in proportion: the same as unit by
\* unit.
LEMMA QuartersAreUnits ==
    ASSUME NEW p \in Programs, NEW e \in Nat, e < Duration(p)
    PROVE  Sums(Units(p))[e] =
             Parts * Sums(Profile[p])[e \div Parts] + Profile[p][(e \div Parts) + 1] * (e % Parts)
<1> DEFINE U == Units(p)
           s == Profile[p]
           D == Duration(p)
           Quarterly(n) == Parts * Sums(s)[n \div Parts] + s[(n \div Parts) + 1] * (n % Parts)
           S == {n \in Nat : n < D => Sums(U)[n] = Quarterly(n)}
<1>1. /\ U \in Seq(Int) /\ Len(U) = D /\ D \in Nat \ {0} /\ s \in Seq(Int)
      /\ Parts \in Nat \ {0}
      /\ \A n \in Nat : n < D => n \div Parts \in 0 .. (Len(s) - 1) /\ U[n + 1] = s[(n \div Parts) + 1]
  BY UnitsAreNumbers, ProgramHasQuarters, PartsAssumption
<1> HIDE DEF U, s, D
<1>2. /\ Sums(U)[0] = 0 /\ Sums(s)[0] = 0
      /\ \A n \in 1 .. D : Sums(U)[n] = Sums(U)[n - 1] + U[n]
      /\ \A n \in 1 .. Len(s) : Sums(s)[n] = Sums(s)[n - 1] + s[n]
      /\ \A n \in 0 .. Len(s) : Sums(s)[n] \in Int
      /\ \A n \in 1 .. Len(s) : s[n] \in Int
      /\ Len(s) \in Nat
  <2>1. Sums(U)[0] = 0 /\ \A n \in 1 .. D : Sums(U)[n] = Sums(U)[n - 1] + U[n]
    BY <1>1, SumsAre
  <2>2. /\ Sums(s)[0] = 0 /\ Sums(s) \in [0 .. Len(s) -> Int]
        /\ \A n \in 1 .. Len(s) : Sums(s)[n] = Sums(s)[n - 1] + s[n]
    BY <1>1, SumsAre
  <2>3. Len(s) \in Nat /\ \A n \in 1 .. Len(s) : s[n] \in Int
    BY <1>1
  <2> QED BY <2>1, <2>2, <2>3
<1>3. 0 \in S
  <2>1. 0 \div Parts = 0 /\ 0 % Parts = 0
    BY <1>1
  <2>2. 1 \in 1 .. Len(s)
    BY <1>1, <1>2, <2>1
  <2>3. s[1] \in Int
    BY <1>2, <2>2
  <2>4. Quarterly(0) = 0
    <3>1. Quarterly(0) = Parts * 0 + s[1] * 0
      BY <1>2, <2>1
    <3>2. Parts * 0 = 0 /\ s[1] * 0 = 0
      BY <1>1, <2>3, Products
    <3> HIDE DEF Quarterly
    <3> QED BY <3>1, <3>2
  <2>5. Sums(U)[0] = 0
    BY <1>2
  <2>6. Sums(U)[0] = Quarterly(0)
    BY <2>4, <2>5
  <2> HIDE DEF Quarterly
  <2> QED BY <2>6
<1>4. ASSUME NEW n \in Nat, Sums(U)[n] = Quarterly(n), n + 1 < D
      PROVE  Sums(U)[n + 1] = Quarterly(n + 1)
  <2> DEFINE q == n \div Parts
             r == n % Parts
             x == s[q + 1]
  <2>1. /\ q \in Nat /\ r \in 0 .. (Parts - 1) /\ n = Parts * q + r
    BY <1>1, Division
  <2>2. q \in 0 .. (Len(s) - 1) /\ U[n + 1] = x /\ (n + 1) \div Parts \in 0 .. (Len(s) - 1)
    <3>1. n < D /\ n + 1 \in Nat
      BY <1>1, <1>4
    <3> QED BY <1>1, <1>4, <3>1
  <2>3. Sums(U)[n + 1] = Sums(U)[n] + x
    <3>1. n + 1 \in 1 .. D /\ (n + 1) - 1 = n
      BY <1>1, <1>4
    <3> QED BY <1>2, <2>2, <3>1
  <2>4. x \in Int /\ Sums(s)[q] \in Int /\ Sums(s)[q + 1] = Sums(s)[q] + x
    <3>1. q + 1 \in 1 .. Len(s) /\ (q + 1) - 1 = q /\ q \in 0 .. Len(s)
      BY <1>2, <2>1, <2>2
    <3> QED BY <1>2, <3>1
  <2>5. Sums(U)[n] = Parts * Sums(s)[q] + x * r
    BY <1>4
  <2> HIDE DEF q, r, x
  <2>6. CASE r + 1 < Parts
    <3>1. (n + 1) \div Parts = q /\ (n + 1) % Parts = r + 1
      <4>1. n + 1 = Parts * q + (r + 1) /\ r + 1 \in 0 .. (Parts - 1)
        <5>1. Parts * q \in Int
          BY <1>1, <2>1, Products
        <5> QED BY <1>1, <2>1, <2>6, <5>1
      <4>2. (Parts * q + (r + 1)) \div Parts = q /\ (Parts * q + (r + 1)) % Parts = r + 1
        BY <1>1, <2>1, <4>1, DivisionIs
      <4> QED BY <4>1, <4>2
    <3>2. Quarterly(n + 1) = Parts * Sums(s)[q] + x * (r + 1)
      BY <3>1 DEF x
    <3>3. x * (r + 1) = x * r + x
      BY <2>1, <2>4, Products
    <3>4. x * r \in Int /\ Parts * Sums(s)[q] \in Int
      BY <1>1, <2>1, <2>4, Products, SMTT(30)
    <3> QED BY <2>3, <2>4, <2>5, <3>2, <3>3, <3>4
  <2>7. CASE r + 1 = Parts
    <3>1. (n + 1) \div Parts = q + 1 /\ (n + 1) % Parts = 0
      <4>1. Parts * (q + 1) = Parts * q + Parts
        BY <1>1, <2>1, Products
      <4>2. n + 1 = Parts * (q + 1) + 0 /\ 0 \in 0 .. (Parts - 1) /\ q + 1 \in Nat
        <5>1. Parts * q \in Int /\ Parts * (q + 1) \in Int
          BY <1>1, <2>1, Products
        <5> QED BY <1>1, <2>1, <2>7, <4>1, <5>1
      <4>3. (Parts * (q + 1) + 0) \div Parts = q + 1 /\ (Parts * (q + 1) + 0) % Parts = 0
        BY <1>1, <4>2, DivisionIs
      <4> QED BY <4>2, <4>3
    <3>2. s[(q + 1) + 1] \in Int
      <4>1. (q + 1) + 1 \in 1 .. Len(s)
        BY <1>2, <2>1, <2>2, <3>1
      <4> QED BY <1>2, <4>1
    <3>3. Quarterly(n + 1) = Parts * (Sums(s)[q] + x)
      <4>1. Quarterly(n + 1) = Parts * Sums(s)[q + 1] + s[(q + 1) + 1] * 0
        BY <3>1
      <4>2. s[(q + 1) + 1] * 0 = 0 /\ Parts * (Sums(s)[q] + x) \in Int
        <5>1. Sums(s)[q] + x \in Int /\ Parts \in Int
          BY <2>4, PartsAssumption
        <5>2. Parts * (Sums(s)[q] + x) \in Int
          BY <5>1, Products
        <5>3. s[(q + 1) + 1] * 0 = 0
          BY <3>2, Products
        <5> QED BY <5>2, <5>3
      <4> QED BY <2>4, <4>1, <4>2
    <3>4. Parts * (Sums(s)[q] + x) = Parts * Sums(s)[q] + Parts * x /\ Parts * x = x * r + x
      <4>1. Parts * x = x * (r + 1)
        <5>1. Parts \in Int /\ Parts * x = x * Parts
          BY <1>1, <2>4, Products
        <5> QED BY <2>7, <5>1
      <4>2. x * (r + 1) = x * r + x
        BY <2>1, <2>4, Products
      <4>3. Parts * (Sums(s)[q] + x) = Parts * Sums(s)[q] + Parts * x
        BY <2>4, Products, PartsAssumption
      <4> QED BY <4>1, <4>2, <4>3
    <3>5. x * r \in Int /\ Parts * Sums(s)[q] \in Int
      BY <1>1, <2>1, <2>4, Products, SMTT(30)
    <3> QED BY <2>3, <2>4, <2>5, <3>3, <3>4, <3>5
  <2> QED BY <1>1, <2>1, <2>6, <2>7
<1>5. \A n \in Nat : n \in S => n + 1 \in S
  <2> HIDE DEF Quarterly
  <2>1. \A n \in Nat : n + 1 < D => n < D
    BY <1>1
  <2> QED BY <1>4, <2>1
<1> HIDE DEF S
<1>6. e \in S
  BY <1>3, <1>5, Induct
<1> QED BY <1>6 DEF S, U, s, D

\* The units of a whole program are its whole quarters.
LEMMA WholeProgram ==
    ASSUME NEW p \in Programs
    PROVE  Sum(Units(p)) = Parts * Sum(Profile[p])
<1> DEFINE s == Profile[p]
           L == Len(s)
           D == Duration(p)
<1>1. /\ s \in Seq(Int) /\ L \in Nat \ {0} /\ D \in Nat \ {0} /\ D = Parts * L /\ Parts \in Nat \ {0}
      /\ Units(p) \in Seq(Int) /\ Len(Units(p)) = D
  BY ProgramHasQuarters, UnitsAreNumbers, PartsAssumption
<1>2. (D - 1) \div Parts = L - 1 /\ (D - 1) % Parts = Parts - 1
  <2>1. Parts * (L - 1) = Parts * L - Parts * 1 /\ Parts * 1 = Parts /\ Parts * (L - 1) \in Int
    <3>1. Parts \in Int /\ L \in Int /\ 1 \in Int /\ L - 1 \in Int
      BY <1>1
    <3> HIDE DEF L
    <3>2. Parts * (L - 1) = Parts * L - Parts * 1
      BY <3>1, Products
    <3>3. Parts * (L - 1) \in Int
      BY <3>1, Products
    <3> QED BY <3>1, <3>2, <3>3
  <2> HIDE DEF L, D
  <2>2. D - 1 = Parts * (L - 1) + (Parts - 1) /\ L - 1 \in Nat /\ Parts - 1 \in 0 .. (Parts - 1)
    BY <1>1, <2>1
  <2>3. /\ (Parts * (L - 1) + (Parts - 1)) \div Parts = L - 1
        /\ (Parts * (L - 1) + (Parts - 1)) % Parts = Parts - 1
    BY <1>1, <2>2, DivisionIs
  <2> QED BY <2>2, <2>3
<1>3. Units(p)[D] = s[L] /\ s[L] \in Int
  <2>1. D - 1 \in Nat /\ D - 1 < D /\ (D - 1) + 1 = D /\ (L - 1) + 1 = L /\ L \in 1 .. Len(s)
    BY <1>1
  <2>2. Units(p)[(D - 1) + 1] = s[((D - 1) \div Parts) + 1]
    BY <2>1, UnitsAreNumbers
  <2>3. s[L] \in Int
    <3> HIDE DEF s
    <3> QED BY <1>1
  <2> QED BY <1>2, <2>1, <2>2, <2>3
<1>4. Sums(Units(p))[D] = Sums(Units(p))[D - 1] + s[L]
  <2>1. D \in 1 .. Len(Units(p))
    BY <1>1
  <2> QED BY <1>1, <1>3, <2>1, SumsAre
<1>5. Sums(Units(p))[D - 1] = Parts * Sums(s)[L - 1] + s[L] * (Parts - 1)
  <2>1. D - 1 \in Nat /\ D - 1 < D /\ (L - 1) + 1 = L
    BY <1>1
  <2>2. Sums(Units(p))[D - 1] = Parts * Sums(s)[(D - 1) \div Parts]
                                  + s[((D - 1) \div Parts) + 1] * ((D - 1) % Parts)
    BY <2>1, QuartersAreUnits
  <2> QED BY <1>2, <2>1, <2>2
<1>6. Sums(s)[L] = Sums(s)[L - 1] + s[L] /\ Sums(s)[L - 1] \in Int
  <2>1. L \in 1 .. Len(s) /\ L - 1 \in 0 .. Len(s)
    BY <1>1
  <2> QED BY <1>1, <2>1, SumsAre
<1> DEFINE a == Sums(s)[L - 1]
           x == s[L]
<1>7. a \in Int /\ x \in Int
  BY <1>3, <1>6
<1> HIDE DEF a, x
<1>8. Parts * a + x * (Parts - 1) + x = Parts * (a + x)
  <2>1. x * ((Parts - 1) + 1) = x * (Parts - 1) + x /\ x * Parts = Parts * x
    BY <1>7, Products, PartsAssumption
  <2>2. Parts * (a + x) = Parts * a + Parts * x
    BY <1>7, Products, PartsAssumption
  <2>3. (Parts - 1) + 1 = Parts /\ Parts * a \in Int /\ x * (Parts - 1) \in Int
    BY <1>7, Products, PartsAssumption
  <2> QED BY <1>7, <2>1, <2>2, <2>3
<1>9. Sum(Units(p)) = Sums(Units(p))[D] /\ Sum(s) = a + x
  BY <1>1, <1>6 DEF Sum, a, x
<1>10. Sums(Units(p))[D] = Parts * a + x * (Parts - 1) + x
  BY <1>4, <1>5 DEF a, x
<1> QED BY <1>8, <1>9, <1>10

\* _profile_energy gives, for any time since the start of a program, what its
\* units of time consume one by one; a device without programs has its power.
LEMMA EnergyIsWork ==
    ASSUME NEW p \in Programs, NEW e \in Nat
    PROVE  ProfileEnergy(p, e) = Work(p, e) /\ Work(p, e) \in Int
<1> DEFINE s == Profile[p]
           D == Duration(p)
           m == IF e < D THEN e ELSE D
           W == [u \in 1 .. m |-> Profile[p][((u - 1) \div Parts) + 1]]
           q == e \div Parts
<1>1. /\ s \in Seq(Int) /\ Len(s) \in Nat \ {0} /\ D \in Nat \ {0} /\ D = Parts * Len(s)
      /\ Parts \in Nat \ {0} /\ Units(p) \in Seq(Int) /\ Len(Units(p)) = D
  BY ProgramHasQuarters, UnitsAreNumbers, PartsAssumption
<1>2. p # NoProgram
  BY ProgramsAssumption
<1>3. m \in 0 .. D /\ m \in Nat
  BY <1>1
<1>4. W \in Seq(Int) /\ Len(W) = m /\ \A u \in 1 .. m : W[u] = Units(p)[u]
  <2> HIDE DEF m, D
  <2>1. \A u \in 1 .. m : W[u] = Units(p)[u]
    BY <1>1, <1>3 DEF Units, D
  <2>2. \A u \in 1 .. m : W[u] \in Int
    <3>1. \A u \in 1 .. m : u \in 1 .. D
      BY <1>1, <1>3
    <3>2. \A u \in 1 .. D : Units(p)[u] \in Int
      BY <1>1
    <3> HIDE DEF W
    <3> QED BY <2>1, <3>1, <3>2
  <2> QED BY <1>3, <2>1, <2>2
<1>5. Work(p, e) = Sums(W)[m]
  BY <1>2, <1>4 DEF Work, Sum
<1> HIDE DEF W, m, D
<1>6. Work(p, e) = Sums(Units(p))[m] /\ Work(p, e) \in Int
  <2>1. m <= Len(W) /\ m <= Len(Units(p)) /\ m \in 0 .. Len(W)
    BY <1>1, <1>3, <1>4
  <2>2. Sums(W)[m] = Sums(Units(p))[m]
    BY <1>1, <1>3, <1>4, <2>1, SumsOfPrefix
  <2>3. Sums(W)[m] \in Int
    BY <1>4, <2>1, SumsAre
  <2> QED BY <1>5, <2>2, <2>3
<1>7. q < Len(s) <=> e < D
  BY <1>1, QuotientIsLess
<1>8. q \in Nat /\ Len(s) \in Nat
  BY <1>1, Division
<1>9. CASE e < D
  <2> DEFINE t == SubSeq(s, 1, q)
  <2>1. q <= Len(s) /\ q < Len(s)
    BY <1>7, <1>8, <1>9
  <2>2. t \in Seq(Int) /\ Len(t) = q /\ \A i \in 1 .. q : t[i] = s[i]
    <3>1. \A i \in 1 .. q : s[i] \in Int
      BY <1>1, <1>8, <2>1
    <3> HIDE DEF q
    <3> QED BY <1>1, <1>8, <2>1, <3>1
  <2> HIDE DEF t
  <2>3. Sum(t) = Sums(s)[q]
    <3>1. q <= Len(t)
      BY <1>8, <2>2
    <3>2. Sums(t)[q] = Sums(s)[q]
      BY <1>1, <1>8, <2>1, <2>2, <3>1, SumsOfPrefix
    <3> QED BY <2>2, <3>2 DEF Sum
  <2>4. ProfileEnergy(p, e) = Parts * Sum(t) + s[q + 1] * (e % Parts)
    BY <1>8, <2>1 DEF ProfileEnergy, t
  <2>5. Sums(Units(p))[e] = Parts * Sums(s)[q] + s[q + 1] * (e % Parts)
    BY <1>9, QuartersAreUnits DEF D
  <2> QED BY <1>6, <1>9, <2>3, <2>4, <2>5 DEF m
<1>10. CASE ~(e < D)
  <2>1. ProfileEnergy(p, e) = Parts * Sum(s)
    BY <1>7, <1>8, <1>10 DEF ProfileEnergy
  <2>2. Work(p, e) = Sum(Units(p))
    BY <1>1, <1>6, <1>10 DEF m, Sum
  <2> QED BY <1>6, <2>1, <2>2, WholeProgram
<1> QED BY <1>9, <1>10

LEMMA WorkIsNumber ==
    ASSUME NEW p \in Program, NEW e \in Nat
    PROVE  Work(p, e) \in Int /\ Work(p, 0) = 0
<1>1. CASE p = NoProgram
  BY <1>1, Products, PowerAssumption DEF Work
<1>2. CASE p # NoProgram
  <2>1. p \in Programs /\ Duration(p) \in Nat \ {0}
    BY <1>2, ProgramHasQuarters DEF Program
  <2>2. [u \in 1 .. 0 |-> Profile[p][((u - 1) \div Parts) + 1]] = <<>>
    OBVIOUS
  <2>3. Work(p, 0) = Sum(<<>>)
    BY <1>2, <2>1, <2>2 DEF Work
  <2> QED BY <2>1, <2>3, EnergyIsWork, SumOfNothing
<1> QED BY <1>1, <1>2

----------------------------------------------------------------------------
(* Events.                                                                 *)

\* An event at the end of what waits is one at the end of all.
LEMMA Concatenation ==
    ASSUME NEW S, NEW s \in Seq(S), NEW t \in Seq(S), NEW e \in S
    PROVE  /\ s \o Append(t, e) = Append(s \o t, e) /\ s \o t \in Seq(S)
           /\ (s \o t) \o <<>> = s \o t /\ s \o <<>> = s
           /\ <<>> \o t = t /\ t \o <<e>> = Append(t, e)
OBVIOUS

LEMMA OneEventMore ==
    ASSUME DriverTyped, NEW e, e \in Event, events' = Append(events, e), told' = told
    PROVE  AllEvents' = Append(AllEvents, e)
<1>1. told.events \in Seq(Event) /\ events \in Seq(Event)
  BY DEF DriverTyped
<1>2. \A s, t \in Seq(Event) : s \o Append(t, e) = Append(s \o t, e)
  BY Concatenation
<1> QED BY <1>1, <1>2 DEF AllEvents

\* The energy of the events with one more.
LEMMA EnergyOfAppend ==
    ASSUME NEW es \in Seq(Event), NEW e \in Event
    PROVE  /\ Sum(EnergyOf(es)) \in Int
           /\ Sum(EnergyOf(Append(es, e))) =
                 Sum(EnergyOf(es)) + (IF e.type = "device_finished" THEN e.kwh ELSE 0)
<1> DEFINE x == IF e.type = "device_finished" THEN e.kwh ELSE 0
           energy(f) == IF f.type = "device_finished" THEN f.kwh ELSE 0
<1>1. \A f \in Event : energy(f) \in Int
  BY DEF Event, StartEvent, FinishEvent
<1>2. x \in Int
  BY <1>1
<1>3. EnergyOf(es) \in Seq(Int)
  <2>1. \A i \in 1 .. Len(es) : es[i] \in Event
    OBVIOUS
  <2>2. EnergyOf(es) = [i \in 1 .. Len(es) |-> energy(es[i])] /\ Len(es) \in Nat
    BY DEF EnergyOf
  <2> HIDE DEF energy
  <2> QED BY <1>1, <2>1, <2>2
<1>4. EnergyOf(Append(es, e)) = Append(EnergyOf(es), x)
  <2> HIDE DEF x
  <2> DEFINE s == EnergyOf(Append(es, e))
             t == Append(EnergyOf(es), x)
  <2>1. /\ Append(es, e) \in Seq(Event) /\ Len(Append(es, e)) = Len(es) + 1 /\ Len(es) \in Nat
        /\ \A i \in 1 .. Len(es) : Append(es, e)[i] = es[i]
        /\ Append(es, e)[Len(es) + 1] = e
    BY AppendProperties
  <2>2. /\ t \in Seq(Int) /\ Len(EnergyOf(es)) = Len(es) /\ Len(t) = Len(es) + 1
        /\ \A i \in 1 .. Len(es) : t[i] = EnergyOf(es)[i]
        /\ t[Len(es) + 1] = x
    <3>1. Len(EnergyOf(es)) = Len(es)
      BY <2>1 DEF EnergyOf
    <3> QED BY <1>2, <1>3, <3>1, AppendProperties
  <2>3. /\ Len(s) = Len(es) + 1
        /\ \A i \in 1 .. Len(es) : s[i] = EnergyOf(es)[i]
        /\ s[Len(es) + 1] = x
        /\ s = [i \in 1 .. (Len(es) + 1) |-> s[i]]
    BY <2>1 DEF EnergyOf, x
  <2> HIDE DEF s, t
  <2>4. \A i \in 1 .. (Len(es) + 1) : s[i] = t[i]
    <3>1. \A i \in 1 .. (Len(es) + 1) : i \in 1 .. Len(es) \/ i = Len(es) + 1
      BY <2>1
    <3> QED BY <2>2, <2>3, <3>1
  <2>5. t = [i \in 1 .. (Len(es) + 1) |-> t[i]]
    BY <2>1, <2>2, SeqDef
  <2>6. s = t
    BY <2>3, <2>4, <2>5
  <2> QED BY <2>6 DEF s, t
<1> HIDE DEF x
<1> QED BY <1>2, <1>3, <1>4, SumOfAppend DEF x

\* What that says of the action under way and its times.
ActionHasStarted ==
    action # NoAction =>
        /\ action.program \in Program /\ action.kwh \in Int
        /\ action.program # NoProgram => /\ action.program \in Programs
                                         /\ Duration(action.program) \in Nat \ {0}
        /\ action.started # Never =>
              /\ simTime \in Time /\ action.started \in Time
              /\ simTime \in Nat /\ action.started \in Nat /\ simTime - action.started \in Nat

LEMMA StartedAction == DriverTyped /\ ActionIsUnderWay => ActionHasStarted
<1> SUFFICES ASSUME DriverTyped, ActionIsUnderWay, action # NoAction
             PROVE  /\ action.program \in Program /\ action.kwh \in Int
                    /\ action.program # NoProgram => /\ action.program \in Programs
                                                     /\ Duration(action.program) \in Nat \ {0}
                    /\ action.started # Never =>
                          /\ simTime \in Time /\ action.started \in Time
                          /\ simTime \in Nat /\ action.started \in Nat
                          /\ simTime - action.started \in Nat
  BY DEF ActionHasStarted
<1>1. /\ action.program \in Program /\ action.kwh \in Int
      /\ action.started \in Time \union {Never} /\ simTime \in Time \union {Never}
      /\ Time \subseteq Nat
  BY NeverAssumption DEF DriverTyped, Action, Time
<1>2. action.program # NoProgram => /\ action.program \in Programs
                                    /\ Duration(action.program) \in Nat \ {0}
  BY <1>1, ProgramHasQuarters DEF Program
<1>3. action.started # Never => simTime # Never /\ action.started <= simTime
  BY DEF ActionIsUnderWay
<1>4. action.started # Never => /\ simTime \in Nat /\ action.started \in Nat
                                /\ simTime - action.started \in Nat
  <2> SUFFICES ASSUME action.started # Never
               PROVE  simTime \in Nat /\ action.started \in Nat /\ simTime - action.started \in Nat
    OBVIOUS
  <2>1. simTime \in Nat /\ action.started \in Nat
    BY <1>1, <1>3
  <2> QED BY <1>3, <2>1
<1> QED BY <1>1, <1>2, <1>3, <1>4

LEMMA EventsAre ==
    DriverTyped => /\ AllEvents \in Seq(Event) /\ Len(AllEvents) \in Nat
             /\ \A i \in 1 .. Len(AllEvents) : AllEvents[i] \in Event /\ AllEvents[i].at \in Time
<1> SUFFICES ASSUME DriverTyped
             PROVE  /\ AllEvents \in Seq(Event) /\ Len(AllEvents) \in Nat
                    /\ \A i \in 1 .. Len(AllEvents) : AllEvents[i] \in Event /\ AllEvents[i].at \in Time
  OBVIOUS
<1>1. AllEvents \in Seq(Event)
  BY DEF AllEvents, DriverTyped
<1>2. \A e \in Event : e.at \in Time
  BY DEF Event, StartEvent, FinishEvent
<1> QED BY <1>1, <1>2

\* What a step that adds no event has to keep.
LEMMA NothingTold ==
    ASSUME DriverIInv, DriverTyped', AllEvents' = AllEvents, ActionIsUnderWay',
           (state = "running" <=> action # NoAction)',
           simTime # Never => simTime' # Never /\ simTime <= simTime',
           (action # NoAction /\ action.started # Never)' <=> action # NoAction /\ action.started # Never,
           action # NoAction /\ action.started # Never =>
               action'.program = action.program /\ action'.started = action.started,
           total' = total + (OpenWork' - OpenWork), told'.kwh = told.kwh + (total' - total)
    PROVE  DriverIInv'
<1> USE DEF DriverIInv
<1> DEFINE es == AllEvents
<1>1. es \in Seq(Event) /\ Len(es) \in Nat /\ \A i \in 1 .. Len(es) : es[i] \in Event /\ es[i].at \in Time
  BY EventsAre
<1>2. EventsAreOfThePast'
  <2>1. simTime # Never => simTime \in Nat /\ simTime' \in Nat
    BY NeverAssumption DEF DriverTyped, Time
  <2> HIDE DEF es
  <2>2. (\A i \in 1 .. Len(es) : simTime # Never /\ es[i].at <= simTime)
    BY DEF EventsAreOfThePast, es
  <2>3. (\A i \in 1 .. Len(es) : simTime' # Never /\ es[i].at <= simTime')
    BY <1>1, <2>1, <2>2 DEF Time
  <2> QED BY <2>3 DEF EventsAreOfThePast, es
<1>3. EventsTellTheActions'
  <2>1. action # NoAction /\ action.started # Never =>
            StartOf(action'.program, action'.started) = StartOf(action.program, action.started)
    OBVIOUS
  <2> QED BY <2>1 DEF EventsTellTheActions
<1>4. EnergyFollowsEvents'
  <2>1. OpenWork \in Int /\ OpenWork' \in Int
    <3>1. action # NoAction /\ action.started # Never =>
              action.program \in Program /\ simTime - action.started \in Nat
      BY StartedAction DEF ActionHasStarted
    <3>2. (action # NoAction /\ action.started # Never)' =>
              action'.program \in Program /\ simTime' - action'.started \in Nat
      <4>1. ActionHasStarted'
        BY StartedAction, PTL
      <4> QED BY <4>1 DEF ActionHasStarted
    <3> QED BY <3>1, <3>2, WorkIsNumber DEF OpenWork
  <2>2. Sum(EnergyOf(es)) \in Int
    <3>1. StartOf(NoProgram, 0) \in Event
      BY NeverAssumption DEF StartOf, Event, StartEvent, Time, Program
    <3> QED BY <1>1, <3>1, EnergyOfAppend
  <2>3. total = Sum(EnergyOf(es)) + OpenWork /\ told.kwh = total
    BY DEF EnergyFollowsEvents
  <2>4. total' = Sum(EnergyOf(es)) + OpenWork' /\ told'.kwh = total'
    <3> HIDE DEF es
    <3> QED BY <2>1, <2>2, <2>3
  <2> QED BY <2>4 DEF EnergyFollowsEvents
<1> QED BY <1>2, <1>3, <1>4

\* One more event, in the order of time, of the kind whose turn it is.
LEMMA OneMoreEvent ==
    ASSUME DriverIInv, NEW e \in Event, AllEvents' = Append(AllEvents, e), simTime' \in Time,
           simTime = Never \/ simTime <= e.at, e.at <= simTime',
           e.type = IF Len(AllEvents) % 2 = 0 THEN "device_started" ELSE "device_finished",
           Len(AllEvents) % 2 = 1 =>
               e.started = AllEvents[Len(AllEvents)].at /\ e.program = AllEvents[Len(AllEvents)].program
    PROVE  /\ Len(AllEvents') = Len(AllEvents) + 1 /\ AllEvents'[Len(AllEvents')] = e
           /\ (Len(AllEvents)) % 2 = 0 <=> (Len(AllEvents')) % 2 = 1
           /\ \A i \in 1 .. Len(AllEvents) : AllEvents'[i] = AllEvents[i]
           /\ EventsAreOfThePast'
           /\ \A i \in 1 .. Len(AllEvents') :
                 LET f == AllEvents'[i]
                 IN  /\ f.type = IF i % 2 = 1 THEN "device_started" ELSE "device_finished"
                     /\ i > 1 => AllEvents'[i - 1].at <= f.at
                     /\ i % 2 = 0 => /\ f.started = AllEvents'[i - 1].at
                                     /\ f.program = AllEvents'[i - 1].program
<1> DEFINE es == AllEvents
           N == Len(es)
           fs == AllEvents'
<1>1. /\ es \in Seq(Event) /\ N \in Nat
      /\ \A i \in 1 .. N : es[i] \in Event /\ es[i].at \in Time
  BY EventsAre DEF DriverIInv
<1>2. e.at \in Nat /\ simTime' \in Nat /\ simTime' # Never /\ Time \subseteq Nat
  BY NeverAssumption DEF Event, StartEvent, FinishEvent, Time
<1>3. \A i \in 1 .. N : simTime # Never /\ es[i].at <= simTime /\ simTime \in Nat
  BY <1>2 DEF DriverIInv, EventsAreOfThePast, DriverTyped
<1>4. \A i \in 1 .. N :
          LET f == es[i]
          IN  /\ f.type = IF i % 2 = 1 THEN "device_started" ELSE "device_finished"
              /\ i > 1 => es[i - 1].at <= f.at
              /\ i % 2 = 0 => f.started = es[i - 1].at /\ f.program = es[i - 1].program
  BY DEF DriverIInv, EventsTellTheActions
<1>5. /\ Len(fs) = N + 1 /\ fs[N + 1] = e
      /\ \A i \in 1 .. N : fs[i] = es[i]
  BY <1>1, AppendProperties
<1> HIDE DEF es, fs, N
<1>6. N % 2 = 0 <=> (N + 1) % 2 = 1
  BY <1>1
<1>7. \A i \in 1 .. N : es[i].at <= simTime' /\ es[i].at <= e.at
  <2> SUFFICES ASSUME NEW i \in 1 .. N
               PROVE  es[i].at <= simTime' /\ es[i].at <= e.at
    OBVIOUS
  <2>1. es[i].at \in Nat /\ simTime \in Nat /\ es[i].at <= simTime /\ simTime <= e.at
    BY <1>1, <1>2, <1>3
  <2> QED BY <1>2, <2>1
<1>8. \A i \in 1 .. (N + 1) : i \in 1 .. N \/ i = N + 1
  BY <1>1
<1>9. \A i \in 1 .. (N + 1) : simTime' # Never /\ fs[i].at <= simTime'
  BY <1>2, <1>5, <1>7, <1>8
<1>10. ASSUME NEW i \in 1 .. (N + 1)
       PROVE  /\ fs[i].type = IF i % 2 = 1 THEN "device_started" ELSE "device_finished"
              /\ i > 1 => fs[i - 1].at <= fs[i].at
              /\ i % 2 = 0 => /\ fs[i].started = fs[i - 1].at
                              /\ fs[i].program = fs[i - 1].program
  <2>1. CASE i \in 1 .. N
    <3>1. i > 1 => i - 1 \in 1 .. N
      BY <1>1, <2>1
    <3>2. i % 2 = 0 => i > 1
      BY <1>1, <2>1
    <3> QED BY <1>4, <1>5, <2>1, <3>1, <3>2
  <2>2. CASE i = N + 1
    <3>1. i - 1 = N /\ (i > 1 => N \in 1 .. N) /\ ((N + 1) % 2 = 0 => N % 2 = 1 /\ N \in 1 .. N)
      BY <1>1, <2>2
    <3>2. e.type = IF i % 2 = 1 THEN "device_started" ELSE "device_finished"
      BY <1>6, <2>2 DEF N, es
    <3>3. i > 1 => fs[i - 1].at <= fs[i].at
      BY <1>5, <1>7, <2>2, <3>1
    <3>4. i % 2 = 0 => e.started = es[N].at /\ e.program = es[N].program
      BY <2>2, <3>1 DEF N, es
    <3> QED BY <1>5, <2>2, <3>1, <3>2, <3>3, <3>4
  <2> QED BY <1>8, <2>1, <2>2
<1>11. EventsAreOfThePast'
  BY <1>5, <1>9 DEF EventsAreOfThePast, fs
<1> QED BY <1>5, <1>6, <1>10, <1>11 DEF fs, es, N

\* An action starts.
LEMMA StartTold ==
    ASSUME DriverIInv, DriverTyped', NEW p \in Program, NEW at \in Time,
           AllEvents' = Append(AllEvents, StartOf(p, at)), simTime \in {Never, at}, simTime' = at,
           action = NoAction \/ action.started = Never,
           action' # NoAction, action'.program = p, action'.started = at,
           ActionIsUnderWay', (state = "running")', total' = total, told'.kwh = told.kwh
    PROVE  DriverIInv'
<1> USE DEF DriverIInv
<1> DEFINE e == StartOf(p, at)
           es == AllEvents
<1>1. e \in Event /\ e.at = at /\ e.type = "device_started"
  BY DEF StartOf, Event, StartEvent
<1>2. es \in Seq(Event) /\ Len(es) \in Nat /\ Len(es) % 2 = 0
  <2>1. es \in Seq(Event) /\ Len(es) \in Nat
    BY EventsAre
  <2>2. ~(Len(es) % 2 = 1)
    BY DEF EventsTellTheActions
  <2> HIDE DEF es
  <2> QED BY <2>1, <2>2
<1>3. at \in Nat /\ at # Never
  BY NeverAssumption DEF Time
<1>4. /\ Len(AllEvents') = Len(es) + 1 /\ AllEvents'[Len(AllEvents')] = e
      /\ Len(AllEvents') % 2 = 1
      /\ \A i \in 1 .. Len(es) : AllEvents'[i] = es[i]
      /\ EventsAreOfThePast'
      /\ \A i \in 1 .. Len(AllEvents') :
            LET f == AllEvents'[i]
            IN  /\ f.type = IF i % 2 = 1 THEN "device_started" ELSE "device_finished"
                /\ i > 1 => AllEvents'[i - 1].at <= f.at
                /\ i % 2 = 0 => /\ f.started = AllEvents'[i - 1].at
                                /\ f.program = AllEvents'[i - 1].program
  <2>1. e.type = IF Len(AllEvents) % 2 = 0 THEN "device_started" ELSE "device_finished"
    BY <1>1, <1>2
  <2>2. (simTime = Never \/ simTime <= e.at) /\ e.at <= simTime' /\ simTime' \in Time
    BY <1>1, <1>3
  <2>3. Len(AllEvents) % 2 # 1
    BY <1>2
  <2> HIDE DEF e
  <2>4. AllEvents' = Append(AllEvents, e)
    BY DEF e
  <2> QED BY <1>1, <1>2, <2>1, <2>2, <2>3, <2>4, OneMoreEvent
<1>5. EventsTellTheActions'
  BY <1>3, <1>4 DEF EventsTellTheActions
<1>6. EnergyFollowsEvents'
  <2>1. OpenWork = 0 /\ OpenWork' = 0
    <3>1. at - at = 0 /\ Work(p, 0) = 0
      BY <1>3, WorkIsNumber
    <3> QED BY <1>3, <3>1 DEF OpenWork
  <2>2. Sum(EnergyOf(AllEvents')) = Sum(EnergyOf(es)) /\ Sum(EnergyOf(es)) \in Int
    <3> HIDE DEF e, es
    <3>1. AllEvents' = Append(es, e)
      BY DEF e, es
    <3> QED BY <1>1, <1>2, <3>1, EnergyOfAppend
  <2>3. total' = Sum(EnergyOf(AllEvents')) + OpenWork' /\ told'.kwh = total'
    BY <2>1, <2>2 DEF EnergyFollowsEvents
  <2>4. ASSUME NEW i \in 1 .. Len(AllEvents'), AllEvents'[i].type = "device_finished"
        PROVE  /\ AllEvents'[i].kwh = Work(AllEvents'[i].program, AllEvents'[i].at - AllEvents'[i].started)
               /\ AllEvents'[i].program # NoProgram /\ ~AllEvents'[i].interrupted =>
                     AllEvents'[i].at = AllEvents'[i].started + Duration(AllEvents'[i].program)
    <3>1. i \in 1 .. Len(es) /\ AllEvents'[i] = es[i]
      <4> HIDE DEF es
      <4> QED BY <1>1, <1>2, <1>4, <2>4
    <3> QED BY <2>4, <3>1 DEF EnergyFollowsEvents
  <2> QED BY <2>3, <2>4 DEF EnergyFollowsEvents
<1> QED BY <1>4, <1>5, <1>6

\* The action under way ends.
LEMMA FinishTold ==
    ASSUME DriverIInv, DriverTyped', action # NoAction, action.started # Never,
           NEW at \in Time, NEW kwh \in Int, NEW stopped \in BOOLEAN, NEW e,
           e = [type |-> "device_finished", at |-> at, program |-> action.program,
                started |-> action.started, kwh |-> kwh, interrupted |-> stopped],
           AllEvents' = Append(AllEvents, e), simTime <= at, at <= simTime', simTime' \in Time,
           kwh = Work(action.program, at - action.started),
           action.program # NoProgram /\ ~stopped => at = action.started + Duration(action.program),
           action' = NoAction, (state # "running")',
           total' = total + (kwh - OpenWork), told'.kwh = told.kwh + (kwh - OpenWork)
    PROVE  DriverIInv'
<1> USE DEF DriverIInv
<1> DEFINE es == AllEvents
           N == Len(es)
<1>1. /\ action.program \in Program /\ action.started \in Time
      /\ simTime \in Nat /\ action.started \in Nat /\ simTime - action.started \in Nat
  BY StartedAction DEF ActionHasStarted
<1>2. e \in Event /\ e.at = at /\ e.type = "device_finished" /\ e.program = action.program
      /\ e.started = action.started /\ e.kwh = kwh /\ e.interrupted = stopped
  BY <1>1 DEF Event, FinishEvent
<1>3. /\ es \in Seq(Event) /\ N \in Nat /\ N % 2 = 1
      /\ es[N] = StartOf(action.program, action.started)
  <2>1. es \in Seq(Event) /\ N \in Nat
    BY EventsAre
  <2>2. N % 2 = 1 /\ es[N] = StartOf(action.program, action.started)
    BY DEF EventsTellTheActions
  <2> QED BY <2>1, <2>2
<1> HIDE DEF N
<1>4. /\ Len(AllEvents') = N + 1 /\ AllEvents'[N + 1] = e
      /\ Len(AllEvents') % 2 # 1
      /\ \A i \in 1 .. N : AllEvents'[i] = es[i]
      /\ EventsAreOfThePast'
      /\ \A i \in 1 .. Len(AllEvents') :
            LET f == AllEvents'[i]
            IN  /\ f.type = IF i % 2 = 1 THEN "device_started" ELSE "device_finished"
                /\ i > 1 => AllEvents'[i - 1].at <= f.at
                /\ i % 2 = 0 => /\ f.started = AllEvents'[i - 1].at
                                /\ f.program = AllEvents'[i - 1].program
  <2>1. e.type = IF Len(AllEvents) % 2 = 0 THEN "device_started" ELSE "device_finished"
    BY <1>2, <1>3 DEF N
  <2>2. e.started = AllEvents[Len(AllEvents)].at /\ e.program = AllEvents[Len(AllEvents)].program
    BY <1>2, <1>3 DEF N, StartOf
  <2>3. simTime <= e.at /\ e.at <= simTime'
    BY <1>2
  <2>4. Len(AllEvents) % 2 # 0
    BY <1>3 DEF N
  <2> QED BY <1>2, <2>1, <2>2, <2>3, <2>4, OneMoreEvent DEF N
<1>5. EventsTellTheActions'
  BY <1>4 DEF EventsTellTheActions
<1>6. EnergyFollowsEvents'
  <2>1. OpenWork' = 0 /\ OpenWork \in Int
    BY <1>1, WorkIsNumber DEF OpenWork
  <2>2. Sum(EnergyOf(AllEvents')) = Sum(EnergyOf(es)) + kwh /\ Sum(EnergyOf(es)) \in Int
    <3> HIDE DEF es
    <3>1. AllEvents' = Append(es, e)
      BY DEF es
    <3> QED BY <1>2, <1>3, <3>1, EnergyOfAppend
  <2>3. total = Sum(EnergyOf(es)) + OpenWork /\ told.kwh = total
    BY DEF EnergyFollowsEvents
  <2>4. total' = Sum(EnergyOf(AllEvents')) + OpenWork' /\ told'.kwh = total'
    <3> HIDE DEF es
    <3> QED BY <2>1, <2>2, <2>3
  <2>5. ASSUME NEW i \in 1 .. Len(AllEvents'), AllEvents'[i].type = "device_finished"
        PROVE  /\ AllEvents'[i].kwh = Work(AllEvents'[i].program, AllEvents'[i].at - AllEvents'[i].started)
               /\ AllEvents'[i].program # NoProgram /\ ~AllEvents'[i].interrupted =>
                     AllEvents'[i].at = AllEvents'[i].started + Duration(AllEvents'[i].program)
    <3>1. i \in 1 .. N \/ i = N + 1
      BY <1>3, <1>4, <2>5
    <3>2. CASE i = N + 1
      BY <1>2, <1>4, <3>2
    <3>3. CASE i \in 1 .. N
      BY <1>4, <2>5, <3>3 DEF EnergyFollowsEvents, N
    <3> QED BY <3>1, <3>2, <3>3
  <2> QED BY <2>4, <2>5 DEF EnergyFollowsEvents
<1>7. ActionIsUnderWay' /\ (state = "running" <=> action # NoAction)'
  BY DEF ActionIsUnderWay
<1> QED BY <1>4, <1>5, <1>6, <1>7

----------------------------------------------------------------------------
(* The steps.                                                              *)

\* A device that was just started has done nothing.
LEMMA DriverInitInv == DriverInit => DriverIInv
<1> SUFFICES ASSUME DriverInit PROVE DriverIInv
  OBVIOUS
<1> USE DEF DriverInit, Nothing
<1>1. DriverTyped
  BY DEF DriverTyped
<1>2. AllEvents = <<>> /\ Len(AllEvents) = 0 /\ 0 % 2 = 0
  BY DEF AllEvents
<1>3. ActionIsUnderWay /\ EventsAreOfThePast
  BY <1>2 DEF ActionIsUnderWay, EventsAreOfThePast
<1>4. EventsTellTheActions
  BY <1>2 DEF EventsTellTheActions
<1>5. EnergyFollowsEvents
  <2>1. EnergyOf(<<>>) = <<>>
    BY DEF EnergyOf
  <2>2. Sum(EnergyOf(AllEvents)) = 0 /\ OpenWork = 0
    BY <1>2, <2>1, SumOfNothing DEF OpenWork
  <2> QED BY <1>2, <2>2 DEF EnergyFollowsEvents
<1> QED BY <1>1, <1>3, <1>4, <1>5 DEF DriverIInv

\* An action begins on an idle device: told when there is time.
LEMMA BeginTold ==
    ASSUME DriverIInv, action = NoAction, NEW p \in Program,
           IF p = NoProgram THEN programs = {} ELSE p \in programs,
           Begin(p), state' = "running",
           UNCHANGED <<programs, simTime, total, told, heard, confirmed>>
    PROVE  DriverIInv'
<1> USE DEF Begin
<1>1. DriverTyped /\ ActionIsUnderWay /\ (state = "running" <=> action # NoAction)
  BY DEF DriverIInv, EventsTellTheActions
<1>2. action' # NoAction /\ action' \in Action /\ action'.program = p /\ action'.started = simTime
  BY <1>1, NoActionAssumption DEF DriverTyped, Action
<1>3. ActionIsUnderWay'
  <2>1. simTime # Never =>
            /\ simTime \in Nat /\ simTime - simTime = 0 /\ Work(p, 0) = 0
            /\ p # NoProgram => simTime < simTime + Duration(p)
    <3>1. simTime # Never => simTime \in Nat
      BY <1>1, NeverAssumption DEF DriverTyped, Time
    <3>2. p # NoProgram => Duration(p) \in Nat \ {0}
      BY ProgramHasQuarters DEF Program
    <3> QED BY <3>1, <3>2, WorkIsNumber
  <2> QED BY <1>2, <2>1 DEF ActionIsUnderWay
<1>4. CASE simTime = Never
  <2>1. DriverTyped'
    BY <1>1, <1>2, <1>4 DEF DriverTyped
  <2>2. AllEvents' = AllEvents
    BY <1>4 DEF AllEvents
  <2>3. OpenWork' = 0 /\ OpenWork = 0 /\ total \in Int /\ told.kwh \in Int
    BY <1>1, <1>2, <1>4 DEF OpenWork, DriverTyped
  <2> HIDE DEF Begin
  <2> QED BY <1>1, <1>2, <1>3, <1>4, <2>1, <2>2, <2>3, NothingTold
<1>5. CASE simTime # Never
  <2>1. StartOf(p, simTime) \in Event /\ simTime \in Time
    BY <1>1, <1>5 DEF DriverTyped, StartOf, Event, StartEvent
  <2>2. events' \in Seq(Event)
    BY <1>1, <1>5, <2>1 DEF DriverTyped
  <2>3. DriverTyped'
    BY <1>1, <1>2, <2>2 DEF DriverTyped
  <2>4. AllEvents' = Append(AllEvents, StartOf(p, simTime))
    <3>1. events' = Append(events, StartOf(p, simTime)) /\ told' = told
      BY <1>5
    <3> QED BY <1>1, <2>1, <3>1, OneEventMore
  <2>5. PICK at \in Time : at = simTime
    BY <2>1
  <2> HIDE DEF Begin
  <2> QED BY <1>1, <1>2, <1>3, <2>3, <2>4, <2>5, StartTold
<1> QED BY <1>4, <1>5

LEMMA TurnOnInv == DriverIInv /\ TurnOn => DriverIInv'
<1> SUFFICES ASSUME DriverIInv, TurnOn PROVE DriverIInv'
  OBVIOUS
<1>1. DriverTyped /\ action = NoAction
  BY DEF DriverIInv, EventsTellTheActions, TurnOn
<1>2. CASE programs = {}
  BY <1>1, <1>2, BeginTold DEF TurnOn, Program
<1>3. CASE programs # {}
  <2>1. state' = "idle" /\ UNCHANGED <<programs, simTime, action, total, events, told, heard, confirmed>>
    BY <1>3 DEF TurnOn
  <2>2. DriverTyped' /\ AllEvents' = AllEvents /\ ActionIsUnderWay' /\ OpenWork' = OpenWork /\ OpenWork = 0
    BY <1>1, <2>1 DEF DriverTyped, AllEvents, ActionIsUnderWay, OpenWork
  <2>3. simTime # Never => simTime <= simTime'
    BY <1>1, <2>1, NeverAssumption DEF DriverTyped, Time
  <2>4. total \in Int /\ told.kwh \in Int
    BY <1>1 DEF DriverTyped
  <2> QED BY <1>1, <2>1, <2>2, <2>3, <2>4, NothingTold
<1> QED BY <1>2, <1>3

LEMMA StartProgramInv ==
    ASSUME DriverIInv, NEW p \in programs, StartProgram(p)
    PROVE  DriverIInv'
<1>1. action = NoAction
  BY DEF DriverIInv, ActionIsUnderWay, StartProgram, ProgramRunning
<1>2. p \in Program /\ p # NoProgram
  BY ProgramsAssumption DEF DriverIInv, DriverTyped, Program, Programs
<1> QED BY <1>1, <1>2, BeginTold DEF StartProgram

LEMMA TurnOffInv == DriverIInv /\ TurnOff => DriverIInv'
<1> SUFFICES ASSUME DriverIInv, TurnOff PROVE DriverIInv'
  OBVIOUS
<1>1. /\ DriverTyped /\ ActionIsUnderWay /\ ActionHasStarted
      /\ total \in Int /\ told.kwh \in Int
      /\ simTime # Never => simTime \in Nat
  BY StartedAction, NeverAssumption DEF DriverIInv, DriverTyped, Time
<1>2. /\ state' = "off" /\ action' = NoAction
      /\ UNCHANGED <<programs, simTime, total, told, heard, confirmed>>
      /\ events' = IF action = NoAction THEN events ELSE Finished(action, simTime, ProgramRunning)
  BY DEF TurnOff
<1>3. OpenWork' = 0
  BY <1>2 DEF OpenWork
<1>4. CASE action = NoAction \/ action.started = Never
  <2>1. events' = events
    BY <1>2, <1>4 DEF Finished
  <2>2. DriverTyped' /\ AllEvents' = AllEvents /\ ActionIsUnderWay' /\ OpenWork = 0
    BY <1>1, <1>2, <1>4, <2>1 DEF DriverTyped, AllEvents, ActionIsUnderWay, OpenWork
  <2> QED BY <1>1, <1>2, <1>3, <1>4, <2>2, NothingTold
<1>5. CASE action # NoAction /\ action.started # Never
  <2> DEFINE w == action.kwh
             running == ProgramRunning
             e == [type |-> "device_finished", at |-> simTime, program |-> action.program,
                   started |-> action.started, kwh |-> w, interrupted |-> running]
  <2>1. /\ simTime \in Time /\ w \in Int /\ running \in BOOLEAN
        /\ w = Work(action.program, simTime - action.started) /\ OpenWork = w
        /\ action.program \in Program /\ action.started \in Time
    BY <1>1, <1>5 DEF ActionHasStarted, ActionIsUnderWay, OpenWork, ProgramRunning
  <2>2. e \in Event
    BY <2>1 DEF Event, FinishEvent
  <2>3. events' = Append(events, e)
    BY <1>2, <1>5 DEF Finished, Finish
  <2> HIDE DEF e
  <2>4. DriverTyped' /\ AllEvents' = Append(AllEvents, e)
    <3>1. AllEvents' = Append(AllEvents, e)
      BY <1>1, <1>2, <2>2, <2>3, OneEventMore
    <3>2. events' \in Seq(Event)
      BY <1>1, <2>2, <2>3 DEF DriverTyped
    <3> QED BY <1>1, <1>2, <3>1, <3>2 DEF DriverTyped
  <2>5. action.program # NoProgram /\ ~running => FALSE
    BY <1>5 DEF ProgramRunning
  <2> HIDE DEF w, running
  <2>6. PICK at \in Time, kwh \in Int, stopped \in BOOLEAN :
            at = simTime /\ kwh = w /\ stopped = running
    BY <2>1
  <2>7. e = [type |-> "device_finished", at |-> at, program |-> action.program,
             started |-> action.started, kwh |-> kwh, interrupted |-> stopped]
    BY <2>6 DEF e, w, running
  <2>8. /\ simTime <= at /\ at <= simTime' /\ simTime' \in Time
        /\ total' = total + (kwh - OpenWork) /\ told'.kwh = told.kwh + (kwh - OpenWork)
        /\ (state # "running")'
    BY <1>1, <1>2, <1>5, <2>1, <2>6 DEF ActionHasStarted
  <2>9. /\ kwh = Work(action.program, at - action.started)
        /\ action.program # NoProgram /\ ~stopped => at = action.started + Duration(action.program)
    BY <2>1, <2>5, <2>6
  <2> QED BY <1>2, <1>5, <2>4, <2>7, <2>8, <2>9, FinishTold
<1> QED BY <1>4, <1>5

\* What a tick tells is added to what was told, heard or not.
LEMMA AnswerTold ==
    ASSUME DriverTyped, NEW now \in Time, NEW es \in Seq(Event), NEW kwh \in Int,
           Answer([events |-> es, kwh |-> kwh], now)
    PROVE  /\ told'.events = told.events \o es /\ told'.events \in Seq(Event)
           /\ told'.kwh = told.kwh + kwh /\ told'.kwh \in Int /\ heard'.kwh \in Int
           /\ confirmed' \in Time \union {Never}
<1>1. told.events \in Seq(Event) /\ told.kwh \in Int /\ heard.kwh \in Int
  BY DEF DriverTyped
<1>2. told.events \o es \in Seq(Event)
  BY <1>1
<1>3. told'.events = told.events \o es /\ told'.kwh = told.kwh + kwh
  BY DEF Answer
<1>4. heard'.kwh \in Int
  BY <1>1 DEF Answer
<1> QED BY <1>1, <1>2, <1>3, <1>4 DEF Answer, DriverTyped

LEMMA RepeatTickInv ==
    ASSUME DriverIInv, NEW now \in Time, RepeatTick(now)
    PROVE  DriverIInv'
<1>1. DriverTyped /\ ActionIsUnderWay /\ (state = "running" <=> action # NoAction)
  BY DEF DriverIInv, EventsTellTheActions
<1>2. UNCHANGED <<programs, state, simTime, action, total, events>>
  BY DEF RepeatTick, driver
<1>3. /\ told'.events = told.events \o <<>> /\ told'.events \in Seq(Event)
      /\ told'.kwh = told.kwh + 0 /\ told'.kwh \in Int /\ heard'.kwh \in Int
      /\ confirmed' \in Time \union {Never}
  <2>1. <<>> \in Seq(Event) /\ 0 \in Int
    OBVIOUS
  <2> QED BY <1>1, <2>1, AnswerTold DEF RepeatTick, Nothing
<1>4. AllEvents' = AllEvents
  BY <1>1, <1>2, <1>3 DEF AllEvents, DriverTyped
<1>5. DriverTyped' /\ ActionIsUnderWay' /\ OpenWork' = OpenWork
  BY <1>1, <1>2, <1>3 DEF DriverTyped, ActionIsUnderWay, OpenWork
<1>6. OpenWork \in Int /\ total \in Int /\ told.kwh \in Int
  <2>1. ActionHasStarted
    BY <1>1, StartedAction
  <2> QED BY <1>1, <2>1, WorkIsNumber DEF OpenWork, ActionHasStarted, DriverTyped
<1>7. simTime # Never => simTime \in Nat
  BY <1>1, NeverAssumption DEF DriverTyped, Time
<1> QED BY <1>1, <1>2, <1>3, <1>4, <1>5, <1>6, <1>7, NothingTold

LEMMA FirstTickInv ==
    ASSUME DriverIInv, NEW now \in Time, FirstTick(now)
    PROVE  DriverIInv'
<1> DEFINE first == IF action = NoAction THEN <<>> ELSE <<StartOf(action.program, now)>>
<1>1. DriverTyped /\ ActionIsUnderWay /\ (state = "running" <=> action # NoAction) /\ ActionHasStarted
  BY StartedAction DEF DriverIInv, EventsTellTheActions
<1>2. /\ simTime = Never /\ simTime' = now /\ events' = <<>>
      /\ action' = IF action = NoAction THEN NoAction ELSE [action EXCEPT !.started = now]
      /\ Answer([events |-> events \o first, kwh |-> 0], now)
      /\ UNCHANGED <<programs, state, total>>
  BY DEF FirstTick
<1>3. events = <<>> /\ told.events = <<>> /\ AllEvents = <<>>
  <2>1. Len(AllEvents) \in Nat /\ told.events \in Seq(Event) /\ events \in Seq(Event)
    BY <1>1, EventsAre DEF DriverTyped
  <2>2. ~(1 \in 1 .. Len(AllEvents))
    BY <1>2 DEF DriverIInv, EventsAreOfThePast
  <2>3. Len(AllEvents) = 0
    BY <2>1, <2>2
  <2> QED BY <2>1, <2>3 DEF AllEvents
<1>4. now \in Nat /\ now # Never
  BY NeverAssumption DEF Time
<1>5. CASE action = NoAction
  <2>1. /\ told'.events = told.events \o <<>> /\ told'.events \in Seq(Event)
        /\ told'.kwh = told.kwh + 0 /\ told'.kwh \in Int /\ heard'.kwh \in Int
        /\ confirmed' \in Time \union {Never}
    <3>1. <<>> \in Seq(Event) /\ 0 \in Int /\ events \o first = <<>>
      BY <1>3, <1>5
    <3> QED BY <1>1, <1>2, <3>1, AnswerTold
  <2>2. AllEvents' = AllEvents
    BY <1>2, <1>3, <2>1 DEF AllEvents
  <2>3. DriverTyped' /\ ActionIsUnderWay' /\ OpenWork = 0 /\ OpenWork' = 0
    BY <1>1, <1>2, <1>5, <2>1 DEF DriverTyped, ActionIsUnderWay, OpenWork
  <2>4. total \in Int /\ told.kwh \in Int
    BY <1>1 DEF DriverTyped
  <2> HIDE DEF first
  <2> QED BY <1>1, <1>2, <1>4, <1>5, <2>1, <2>2, <2>3, <2>4, NothingTold
<1>6. CASE action # NoAction
  <2>1. /\ action.started = Never /\ action.kwh = 0 /\ action.program \in Program
        /\ action \in Action
    BY <1>1, <1>2, <1>6 DEF ActionIsUnderWay, ActionHasStarted, DriverTyped
  <2> DEFINE e == StartOf(action.program, now)
  <2>2. e \in Event
    BY <2>1 DEF StartOf, Event, StartEvent
  <2>3. /\ told'.events = told.events \o <<e>> /\ told'.events \in Seq(Event)
        /\ told'.kwh = told.kwh + 0 /\ told'.kwh \in Int /\ heard'.kwh \in Int
        /\ confirmed' \in Time \union {Never}
    <3>1. <<e>> \in Seq(Event) /\ 0 \in Int /\ events \o first = <<e>>
      BY <1>3, <1>6, <2>2
    <3> QED BY <1>1, <1>2, <3>1, AnswerTold
  <2>4. action' \in Action /\ action'.program = action.program /\ action'.started = now
        /\ action'.kwh = 0 /\ action' # NoAction
    <3>1. action' = [action EXCEPT !.started = now]
      BY <1>2, <1>6
    <3> QED BY <2>1, <3>1, NoActionAssumption DEF Action
  <2>5. DriverTyped'
    BY <1>1, <1>2, <2>3, <2>4 DEF DriverTyped
  <2>6. ActionIsUnderWay'
    <3>1. now - now = 0 /\ Work(action.program, 0) = 0
      BY <1>4, <2>1, WorkIsNumber
    <3>2. action.program # NoProgram => now < now + Duration(action.program)
      BY <1>1, <1>4, <1>6 DEF ActionHasStarted
    <3> QED BY <1>1, <1>2, <1>4, <1>6, <2>4, <3>1, <3>2 DEF ActionIsUnderWay
  <2>7. AllEvents' = Append(AllEvents, e)
    <3>1. told'.events = <<e>> /\ events' = <<>> /\ Append(AllEvents, e) = <<e>>
      BY <1>2, <1>3, <2>2, <2>3
    <3> HIDE DEF e
    <3> QED BY <2>2, <3>1 DEF AllEvents
  <2>8. PICK p \in Program, at \in Time : p = action.program /\ at = now
    BY <2>1
  <2>9. told'.kwh = told.kwh
    BY <1>1, <2>3 DEF DriverTyped
  <2> HIDE DEF first
  <2> QED BY <1>1, <1>2, <1>6, <2>1, <2>4, <2>5, <2>6, <2>7, <2>8, <2>9, StartTold
<1> QED BY <1>5, <1>6

\* The energy of a step is the work between its ends, or up to the end of the
\* program.
LEMMA StepEnergyIs ==
    ASSUME DriverTyped, ActionIsUnderWay, action # NoAction, action.started # Never,
           NEW now \in Time, simTime < now
    PROVE  LET p == action.program
               done == Work(p, simTime - action.started)
           IN  /\ done \in Int /\ now - action.started \in Nat
               /\ p = NoProgram \/ ~Over(now) =>
                     StepEnergy(now) = Work(p, now - action.started) - done
               /\ p # NoProgram /\ Over(now) =>
                     StepEnergy(now) = Work(p, Duration(p)) - done
<1> DEFINE p == action.program
           s == action.started
           old == simTime - s
           new == now - s
<1>1. /\ p \in Program /\ s \in Nat /\ simTime \in Nat /\ old \in Nat /\ now \in Nat
      /\ p # NoProgram => p \in Programs /\ Duration(p) \in Nat \ {0}
  BY StartedAction, NeverAssumption DEF ActionHasStarted, Time
<1>2. new \in Nat /\ now - simTime \in Nat /\ new = old + (now - simTime)
  BY <1>1
<1>3. Work(p, old) \in Int
  BY <1>1, WorkIsNumber
<1>4. CASE p = NoProgram
  <2>1. StepEnergy(now) = Power * (now - simTime) /\ Work(p, new) = Power * new /\ Work(p, old) = Power * old
    BY <1>4 DEF StepEnergy, Work
  <2>2. Power * new = Power * old + Power * (now - simTime)
    <3>1. old \in Int /\ now - simTime \in Int /\ Power \in Int
      BY <1>1, <1>2, PowerAssumption
    <3>2. Power * (old + (now - simTime)) = Power * old + Power * (now - simTime)
      <4> HIDE DEF old
      <4> QED BY <3>1, Products
    <3> QED BY <1>2, <3>2
  <2>3. Power * old \in Int /\ Power * (now - simTime) \in Int
    <3>1. old \in Int /\ now - simTime \in Int /\ Power \in Int
      BY <1>1, <1>2, PowerAssumption
    <3> HIDE DEF old
    <3> QED BY <3>1, Products
  <2> HIDE DEF old, new
  <2>4. StepEnergy(now) = Work(p, new) - Work(p, old)
    BY <2>1, <2>2, <2>3
  <2> QED BY <1>2, <1>3, <1>4, <2>4 DEF old, new
<1>5. CASE p # NoProgram
  <2>1. /\ \A e \in Nat : ProfileEnergy(p, e) = Work(p, e)
        /\ Duration(p) \in Nat
    BY <1>1, <1>5, EnergyIsWork
  <2>2. StepEnergy(now) = LET ends == s + Duration(p)
                              end == IF now < ends THEN now ELSE ends
                          IN  ProfileEnergy(p, end - s) - ProfileEnergy(p, old)
    BY <1>5 DEF StepEnergy
  <2>3. CASE Over(now)
    <3>1. ~(now < s + Duration(p)) /\ (s + Duration(p)) - s = Duration(p)
      BY <1>1, <2>1, <2>3 DEF Over
    <3>2. StepEnergy(now) = Work(p, Duration(p)) - Work(p, old)
      BY <1>1, <2>1, <2>2, <3>1
    <3> QED BY <1>2, <1>3, <1>5, <2>3, <3>2
  <2>4. CASE ~Over(now)
    <3>1. now < s + Duration(p)
      BY <1>1, <2>1, <2>4 DEF Over
    <3>2. StepEnergy(now) = Work(p, new) - Work(p, old)
      BY <1>1, <1>2, <2>1, <2>2, <3>1
    <3> QED BY <1>2, <1>3, <1>5, <2>4, <3>2
  <2> QED BY <2>3, <2>4
<1> QED BY <1>4, <1>5

\* A tick inside an action: it goes on, with more energy.
LEMMA GoOnInv ==
    ASSUME DriverIInv, NEW now \in Time, Tick(now), action # NoAction, ~(ProgramRunning /\ Over(now))
    PROVE  DriverIInv'
<1> DEFINE p == action.program
           kwh == StepEnergy(now)
<1>1. /\ DriverTyped /\ ActionIsUnderWay /\ (state = "running" <=> action # NoAction) /\ ActionHasStarted
      /\ total = Sum(EnergyOf(AllEvents)) + OpenWork
  BY StartedAction DEF DriverIInv, EventsTellTheActions, EnergyFollowsEvents
<1>2. /\ simTime # Never /\ now > simTime /\ simTime' = now /\ total' = total + kwh
      /\ state' = state /\ action' = [action EXCEPT !.kwh = @ + kwh] /\ events' = <<>>
      /\ Answer([events |-> events, kwh |-> kwh], now) /\ programs' = programs
  BY DEF Tick
<1>3. /\ action.started # Never /\ action \in Action /\ p \in Program
      /\ action.started <= simTime /\ action.kwh = Work(p, simTime - action.started)
      /\ simTime \in Nat /\ action.started \in Nat /\ now \in Nat /\ now # Never
      /\ total \in Int /\ told.kwh \in Int
  BY <1>1, <1>2, NeverAssumption DEF ActionIsUnderWay, DriverTyped, ActionHasStarted, Time
<1>4. /\ Work(p, simTime - action.started) \in Int
      /\ Work(p, now - action.started) \in Int
      /\ kwh = Work(p, now - action.started) - Work(p, simTime - action.started)
      /\ p # NoProgram => ~Over(now)
  <2>1. p = NoProgram \/ ~Over(now)
    BY DEF ProgramRunning
  <2>2. now - action.started \in Nat
    BY <1>2, <1>3
  <2>3. Work(p, now - action.started) \in Int
    BY <1>3, <2>2, WorkIsNumber
  <2> HIDE DEF p
  <2>4. /\ Work(p, simTime - action.started) \in Int
        /\ kwh = Work(p, now - action.started) - Work(p, simTime - action.started)
    BY <1>1, <1>2, <1>3, <2>1, StepEnergyIs DEF p
  <2> QED BY <2>1, <2>3, <2>4
<1>5. kwh \in Int
  BY <1>4
<1> HIDE DEF kwh
<1>6. /\ action' \in Action /\ action' # NoAction /\ action'.program = p
      /\ action'.started = action.started /\ action'.kwh = Work(p, now - action.started)
  <2>1. /\ action' = [action EXCEPT !.kwh = @ + kwh] /\ DOMAIN action' = DOMAIN action
        /\ action \in [program : Program, started : Time \union {Never}, kwh : Int]
    BY <1>2, <1>3 DEF Action
  <2>2. /\ action'.kwh = action.kwh + kwh
        /\ action'.started = action.started /\ action'.program = action.program
    BY <2>1
  <2>3. action.kwh + kwh = Work(p, now - action.started) /\ action.kwh + kwh \in Int
    BY <1>3, <1>4, <1>5
  <2>4. action' \in [program : Program, started : Time \union {Never}, kwh : Int]
    BY <2>1, <2>2, <2>3
  <2>5. action' \in Action /\ action' # NoAction
    BY <1>2, <2>4, NoActionAssumption DEF Action
  <2> QED BY <1>2, <2>2, <2>3, <2>5
<1>7. /\ told'.events = told.events \o events /\ told'.events \in Seq(Event)
      /\ told'.kwh = told.kwh + kwh /\ told'.kwh \in Int /\ heard'.kwh \in Int
      /\ confirmed' \in Time \union {Never}
  BY <1>1, <1>2, <1>5, AnswerTold DEF DriverTyped
<1>8. AllEvents' = AllEvents
  <2>1. told'.events \o <<>> = told'.events
    BY <1>7
  <2> QED BY <1>2, <1>7, <2>1 DEF AllEvents
<1>9. DriverTyped'
  BY <1>1, <1>2, <1>3, <1>5, <1>6, <1>7 DEF DriverTyped
<1>10. ActionIsUnderWay'
  <2>1. p # NoProgram => now < action.started + Duration(p)
    BY <1>1, <1>3, <1>4 DEF Over, ActionHasStarted
  <2> QED BY <1>1, <1>2, <1>3, <1>6, <2>1 DEF ActionIsUnderWay
<1>11. OpenWork' = OpenWork + kwh /\ OpenWork \in Int
  <2>1. OpenWork = Work(p, simTime - action.started) /\ OpenWork' = Work(p, now - action.started)
    BY <1>2, <1>3, <1>6 DEF OpenWork
  <2> QED BY <1>4, <2>1
<1>12. /\ total' = total + (OpenWork' - OpenWork) /\ told'.kwh = told.kwh + (total' - total)
       /\ simTime # Never => simTime' # Never /\ simTime <= simTime'
  BY <1>2, <1>3, <1>5, <1>7, <1>11
<1> QED BY <1>1, <1>2, <1>3, <1>6, <1>8, <1>9, <1>10, <1>12, NothingTold

\* A tick at which a program has come to its end.
LEMMA EndInv ==
    ASSUME DriverIInv, NEW now \in Time, Tick(now), ProgramRunning, Over(now)
    PROVE  DriverIInv'
<1> DEFINE p == action.program
           kwh == StepEnergy(now)
           ends == action.started + Duration(p)
           worked == [action EXCEPT !.kwh = @ + kwh]
           all == action.kwh + kwh
           e == [type |-> "device_finished", at |-> ends, program |-> p,
                 started |-> action.started, kwh |-> all, interrupted |-> FALSE]
<1>1. DriverTyped /\ ActionIsUnderWay /\ ActionHasStarted /\ action # NoAction /\ p # NoProgram
  BY StartedAction DEF DriverIInv, ProgramRunning
<1>2. /\ simTime # Never /\ now > simTime /\ simTime' = now /\ total' = total + kwh
      /\ state' = "idle" /\ action' = NoAction /\ events' = <<>>
      /\ Answer([events |-> Finished(worked, ends, FALSE), kwh |-> kwh], now)
      /\ programs' = programs
  BY DEF Tick
<1>3. /\ action.started # Never /\ action \in Action /\ p \in Program
      /\ simTime < ends /\ action.kwh = Work(p, simTime - action.started)
      /\ simTime \in Nat /\ action.started \in Nat /\ action.started \in Time
      /\ now \in Nat /\ now # Never /\ Duration(p) \in Nat
      /\ total \in Int /\ told.kwh \in Int
  BY <1>1, <1>2, NeverAssumption DEF ActionIsUnderWay, DriverTyped, ActionHasStarted, Time
<1>4. ends <= now /\ ends \in Time /\ ends - action.started = Duration(p)
  BY <1>3, NeverAssumption DEF Over, Time
<1>5. /\ Work(p, simTime - action.started) \in Int /\ Work(p, Duration(p)) \in Int
      /\ kwh = Work(p, Duration(p)) - Work(p, simTime - action.started)
  <2>1. Work(p, Duration(p)) \in Int
    BY <1>3, WorkIsNumber
  <2> HIDE DEF p
  <2>2. /\ Work(p, simTime - action.started) \in Int
        /\ kwh = Work(p, Duration(p)) - Work(p, simTime - action.started)
    BY <1>1, <1>2, <1>3, StepEnergyIs DEF p
  <2> QED BY <2>1, <2>2
<1>6. kwh \in Int /\ all \in Int /\ all = Work(p, ends - action.started)
  BY <1>3, <1>4, <1>5
<1> HIDE DEF kwh
<1>7. Finished(worked, ends, FALSE) = Append(events, e)
  <2>1. worked.started = action.started /\ worked.program = p /\ worked.kwh = all
    BY <1>3 DEF Action
  <2> QED BY <1>3, <2>1 DEF Finished, Finish
<1>8. e \in Event
  BY <1>3, <1>4, <1>6 DEF Event, FinishEvent
<1> HIDE DEF worked, ends, all, e
<1>9. Append(events, e) \in Seq(Event) /\ events \in Seq(Event) /\ told.events \in Seq(Event)
  BY <1>1, <1>8 DEF DriverTyped
<1>10. /\ told'.events = told.events \o Append(events, e) /\ told'.events \in Seq(Event)
       /\ told'.kwh = told.kwh + kwh /\ told'.kwh \in Int /\ heard'.kwh \in Int
       /\ confirmed' \in Time \union {Never}
  BY <1>1, <1>2, <1>6, <1>7, <1>9, AnswerTold
<1>11. AllEvents' = Append(AllEvents, e)
  <2>1. \A s, t \in Seq(Event) : s \o Append(t, e) = Append(s \o t, e)
    BY <1>8, Concatenation
  <2>2. told'.events \o <<>> = told'.events
    BY <1>10
  <2> QED BY <1>2, <1>9, <1>10, <2>1, <2>2 DEF AllEvents
<1>12. DriverTyped'
  <2>1. total' \in Int /\ events' \in Seq(Event)
    BY <1>2, <1>3, <1>6
  <2> QED BY <1>1, <1>2, <1>10, <2>1 DEF DriverTyped
<1>13. OpenWork = action.kwh /\ action.kwh \in Int
  BY <1>1, <1>3 DEF OpenWork, ActionHasStarted
<1>14. PICK at \in Time, work \in Int, stopped \in BOOLEAN : at = ends /\ work = all /\ stopped = FALSE
  BY <1>4, <1>6
<1>15. e = [type |-> "device_finished", at |-> at, program |-> action.program,
            started |-> action.started, kwh |-> work, interrupted |-> stopped]
  BY <1>14 DEF e
<1>16. /\ simTime <= at /\ at <= simTime' /\ simTime' \in Time
       /\ (state # "running")' /\ stopped = FALSE
       /\ at = action.started + Duration(action.program)
       /\ work = Work(action.program, at - action.started)
  <2>1. simTime <= ends /\ ends <= now /\ ends = action.started + Duration(action.program)
    BY <1>3, <1>4 DEF ends
  <2> QED BY <1>2, <1>6, <1>14, <2>1
<1>17. total' = total + (work - OpenWork) /\ told'.kwh = told.kwh + (work - OpenWork)
  <2>1. all = action.kwh + kwh
    BY <1>2 DEF all
  <2>2. work - OpenWork = kwh
    BY <1>6, <1>13, <1>14, <2>1
  <2> QED BY <1>2, <1>10, <2>2
<1> QED BY <1>1, <1>2, <1>3, <1>11, <1>12, <1>15, <1>16, <1>17, FinishTold

LEMMA TickInv ==
    ASSUME DriverIInv, NEW now \in Time, Tick(now)
    PROVE  DriverIInv'
<1>1. CASE action = NoAction
  <2>1. DriverTyped /\ (state = "running" <=> action # NoAction) /\ told.events \in Seq(Event)
        /\ events \in Seq(Event) /\ total \in Int /\ told.kwh \in Int
    BY DEF DriverIInv, DriverTyped, EventsTellTheActions
  <2>2. /\ simTime # Never /\ now > simTime /\ simTime' = now /\ total' = total + 0
        /\ state' = state /\ action' = NoAction /\ events' = <<>>
        /\ Answer([events |-> events, kwh |-> 0], now) /\ programs' = programs
    BY <1>1 DEF Tick, StepEnergy, ProgramRunning
  <2>3. /\ told'.events = told.events \o events /\ told'.events \in Seq(Event)
        /\ told'.kwh = told.kwh + 0 /\ told'.kwh \in Int /\ heard'.kwh \in Int
        /\ confirmed' \in Time \union {Never}
    <3>1. 0 \in Int
      OBVIOUS
    <3> QED BY <2>1, <2>2, <3>1, AnswerTold
  <2>4. AllEvents' = AllEvents
    BY <2>2, <2>3 DEF AllEvents
  <2>5. total' = total /\ told'.kwh = told.kwh
    BY <2>1, <2>2, <2>3
  <2>6. DriverTyped' /\ ActionIsUnderWay' /\ OpenWork' = 0 /\ OpenWork = 0
    BY <1>1, <2>1, <2>2, <2>3, <2>5 DEF DriverTyped, ActionIsUnderWay, OpenWork
  <2>7. now \in Nat /\ now # Never /\ simTime <= now
    <3>1. now \in Nat /\ simTime \in Nat
      BY <2>1, <2>2, NeverAssumption DEF DriverTyped, Time
    <3> QED BY <2>2, <3>1, NeverAssumption
  <2> QED BY <1>1, <2>1, <2>2, <2>4, <2>5, <2>6, <2>7, NothingTold
<1>2. CASE action # NoAction /\ ~(ProgramRunning /\ Over(now))
  BY <1>2, GoOnInv
<1>3. CASE ProgramRunning /\ Over(now)
  BY <1>3, EndInv
<1> QED BY <1>1, <1>2, <1>3

LEMMA RestartInv == Restart => DriverIInv'
<1>1. Restart => DriverInit'
  BY DEF Restart, DriverInit
<1>2. DriverInit' => DriverIInv'
  BY DriverInitInv, PTL
<1> QED BY <1>1, <1>2

LEMMA DriverNextInv == DriverIInv /\ [DriverNext]_driverVars => DriverIInv'
<1> SUFFICES ASSUME DriverIInv, [DriverNext]_driverVars PROVE DriverIInv'
  OBVIOUS
<1>1. CASE TurnOn
  BY <1>1, TurnOnInv
<1>2. CASE TurnOff
  BY <1>2, TurnOffInv
<1>3. ASSUME NEW p \in programs, StartProgram(p) PROVE DriverIInv'
  BY <1>3, StartProgramInv
<1>4. ASSUME NEW now \in 0 .. MaxTime, RepeatTick(now) PROVE DriverIInv'
  BY <1>4, RepeatTickInv DEF Time
<1>5. ASSUME NEW now \in 0 .. MaxTime, FirstTick(now) PROVE DriverIInv'
  BY <1>5, FirstTickInv DEF Time
<1>6. ASSUME NEW now \in 0 .. MaxTime, Tick(now) PROVE DriverIInv'
  BY <1>6, TickInv DEF Time
<1>7. CASE Restart
  BY <1>7, RestartInv
<1>8. CASE UNCHANGED driverVars
  <2>1. UNCHANGED <<programs, state, simTime, action, total, events, told, heard, confirmed>>
    BY <1>8 DEF driverVars, driver
  <2>2. DriverTyped' /\ ActionIsUnderWay'
    BY <2>1 DEF DriverIInv, DriverTyped, ActionIsUnderWay
  <2>3. AllEvents' = AllEvents /\ OpenWork' = OpenWork
    BY <2>1 DEF AllEvents, OpenWork
  <2> QED BY <2>1, <2>2, <2>3
          DEF DriverIInv, EventsAreOfThePast, EventsTellTheActions, EnergyFollowsEvents
<1> QED BY <1>1, <1>2, <1>3, <1>4, <1>5, <1>6, <1>7, <1>8 DEF DriverNext

LEMMA DriverInvariance == DriverSpec => []DriverIInv
<1>1. DriverInit => DriverIInv
  BY DriverInitInv
<1>2. DriverIInv /\ [DriverNext]_driverVars => DriverIInv'
  BY DriverNextInv
<1> QED BY <1>1, <1>2, PTL DEF DriverSpec

----------------------------------------------------------------------------
(* The theorems.                                                           *)

\* Every event has the times it is about, and the fields are what the driver
\* says they are.
THEOREM DriverTypes == DriverSpec => []DriverTypeOK
<1>1. DriverIInv => DriverTypeOK
  <2> SUFFICES ASSUME DriverIInv PROVE DriverTypeOK
    OBVIOUS
  <2>1. DriverTyped /\ \A i \in 1 .. Len(AllEvents) : AllEvents[i] \in Event
    BY EventsAre DEF DriverIInv
  <2> QED BY <2>1 DEF DriverTyped, DriverTypeOK, Event
<1> QED BY <1>1, DriverInvariance, PTL

\* power_kw never indexes the profile past its end: a running program is one
\* whose end the ticks have not passed.
THEOREM PowerCanBeRead == DriverSpec => []PowerIsReadable
<1>1. DriverIInv => PowerIsReadable
  <2> SUFFICES ASSUME DriverIInv, ProgramRunning
               PROVE  PowerQuarter < Len(Profile[action.program])
    BY DEF PowerIsReadable
  <2> DEFINE p == action.program
             elapsed == IF action.started = Never THEN 0 ELSE simTime - action.started
  <2>1. DriverTyped /\ ActionIsUnderWay /\ ActionHasStarted /\ action # NoAction /\ p # NoProgram
    BY StartedAction DEF DriverIInv, ProgramRunning
  <2>2. /\ p \in Programs /\ Duration(p) \in Nat \ {0} /\ Duration(p) = Parts * Len(Profile[p])
        /\ Len(Profile[p]) \in Nat /\ Parts \in Nat \ {0}
    BY <2>1, ProgramHasQuarters, PartsAssumption DEF ActionHasStarted
  <2>3. elapsed \in Nat /\ elapsed < Duration(p)
    BY <2>1, <2>2 DEF ActionHasStarted, ActionIsUnderWay
  <2> HIDE DEF elapsed, p
  <2>4. elapsed \div Parts < Len(Profile[p])
    BY <2>2, <2>3, QuotientIsLess
  <2> QED BY <2>4 DEF PowerQuarter, elapsed, p
<1> QED BY <1>1, DriverInvariance, PTL

\* Whatever commands and ticks a device gets, its events pair up start and
\* finish of one action after the other, in the order of time.
THEOREM EventsAreTheActions == DriverSpec => []EventsTellTheActions
<1>1. DriverIInv => EventsTellTheActions
  BY DEF DriverIInv
<1> QED BY <1>1, DriverInvariance, PTL

\* Whatever the steps of the ticks, finished actions have the energy of their
\* time, programs end after their duration, and the energy that ticks tell is
\* the total and that of the actions.
THEOREM StepsDoNotMatter == DriverSpec => []EnergyFollowsEvents
<1>1. DriverIInv => EnergyFollowsEvents
  BY DEF DriverIInv
<1> QED BY <1>1, DriverInvariance, PTL
=============================================================================
