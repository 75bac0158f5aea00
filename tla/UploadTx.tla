------------------------------ MODULE UploadTx ------------------------------
(***************************************************************************)
(* Uploads of one home running at the same time.  The second transaction   *)
(* of an upload is opened into its statements, run by PostgreSQL at READ    *)
(* COMMITTED: a statement sees what was committed before it and the writes  *)
(* of its own transaction.  What keeps uploads apart is the upsert of       *)
(* device_instances: ON CONFLICT DO UPDATE locks the row of every device of *)
(* the file, one after the other, until the transaction ends.               *)
(*                                                                          *)
(* status .. uploading are the committed tables of DeviceFlags.             *)
(***************************************************************************)
EXTENDS Integers

CONSTANTS Files, Devices, Contents, NoPeriod

VARIABLES status, period, home, links, rows, superseded, simulations, uploading

VARIABLES
    pc,       \* the statement each upload runs next
    parsed,   \* what parsing the file yielded
    held,     \* the device_instances rows its transaction has locked
    older,    \* the older files it still has to mark, with their devices
    marked,   \* the rows it has set superseded = true on
    restored  \* the rows it has set superseded = false on

tables == <<status, period, home, links, rows, superseded, simulations, uploading>>
transaction == <<pc, parsed, held, older, marked, restored>>
vars == <<tables, transaction>>

Serial == INSTANCE DeviceFlags

\* What DeviceFlags takes of files, periods and contents.
ASSUME FilesAssumption == Files \subseteq Nat
ASSUME NoPeriodAssumption == NoPeriod \notin Serial!Period
ASSUME ContentsAssumption ==
    \A c \in Contents :
        /\ c \in [devices : SUBSET Devices, period : Serial!Period,
                  usage : SUBSET [device : Devices, slot : Int]]
        /\ c.period.start < c.period.end
        /\ \A u \in c.usage : /\ u.device \in c.devices
                               /\ c.period.start <= u.slot
                               /\ u.slot < c.period.end

\* Before parsing, and after the contents are saved, no transaction is open.
Idle == "idle"
InTransaction == {"upsert", "check", "older", "cover", "restore", "mark", "commit"}

Empty == [devices |-> {}, period |-> NoPeriod, usage |-> {}]

----------------------------------------------------------------------------
(* What a statement of the transaction of f sees.                          *)

MyLinks(f) == [links EXCEPT ![f] = parsed[f].devices]
MyPeriod(f) == [period EXCEPT ![f] = parsed[f].period]
MyRows(f) == rows \union Serial!RowsOf(f, parsed[f])
MySuperseded(f) == (superseded \union marked[f]) \ restored[f]

Init ==
    /\ Serial!Init
    /\ pc = [f \in Files |-> Idle]
    /\ parsed = [f \in Files |-> Empty]
    /\ held = [f \in Files |-> {}]
    /\ older = [f \in Files |-> {}]
    /\ marked = [f \in Files |-> {}]
    /\ restored = [f \in Files |-> {}]

\* The end of the transaction of f, committed or not.
Release(f) ==
    /\ pc' = [pc EXCEPT ![f] = Idle]
    /\ parsed' = [parsed EXCEPT ![f] = Empty]
    /\ held' = [held EXCEPT ![f] = {}]
    /\ older' = [older EXCEPT ![f] = {}]
    /\ marked' = [marked EXCEPT ![f] = {}]
    /\ restored' = [restored EXCEPT ![f] = {}]

CreateFile(f) == Serial!CreateFile(f) /\ UNCHANGED transaction

\* parse_file and the calculation; a meter file has no devices to save.
Parse(f, c) ==
    /\ f \in uploading /\ status[f] = "processing" /\ pc[f] = Idle
    /\ pc' = [pc EXCEPT ![f] = IF c.devices = {} THEN "commit" ELSE "upsert"]
    /\ parsed' = [parsed EXCEPT ![f] = c]
    /\ UNCHANGED <<tables, held, older, marked, restored>>

Free(f, d) == \A g \in Files \ {f} : d \notin held[g]

\* ON CONFLICT DO NOTHING: the rows of other transactions are not waited for.
LockNothing(f, d) ==
    /\ pc[f] = "upsert" /\ d \in parsed[f].devices \ held[f]
    /\ held' = [held EXCEPT ![f] = @ \union {d}]
    /\ UNCHANGED <<tables, pc, parsed, older, marked, restored>>

\* One row of _upsert_instances, inserted or updated, and locked.
LockDevice(f, d) ==
    /\ pc[f] = "upsert" /\ d \in parsed[f].devices \ held[f]
    /\ Free(f, d)
    /\ held' = [held EXCEPT ![f] = @ \union {d}]
    /\ UNCHANGED <<tables, pc, parsed, older, marked, restored>>

\* Links, programs, actions and quarter-hours of the file, which no other
\* transaction sees.
InsertRows(f) ==
    /\ pc[f] = "upsert" /\ held[f] = parsed[f].devices
    /\ pc' = [pc EXCEPT ![f] = "check"]
    /\ UNCHANGED <<tables, parsed, held, older, marked, restored>>

\* _has_newer_file chooses between refresh_superseded and _cover_older_files.
CheckNewer(f) ==
    /\ pc[f] = "check"
    /\ pc' = [pc EXCEPT ![f] =
                 IF Serial!HasNewerFile(MyLinks(f), MyPeriod(f), f,
                                        parsed[f].devices, parsed[f].period)
                 THEN "restore" ELSE "older"]
    /\ UNCHANGED <<tables, parsed, held, older, marked, restored>>

\* The files before f, with the devices that their committed links name.
ReadOlder(f) ==
    /\ pc[f] = "older"
    /\ older' = [older EXCEPT ![f] =
                    {[file |-> g, devices |-> links[g]] :
                        g \in {h \in Files : h < f /\ links[h] \intersect parsed[f].devices # {}}}]
    /\ pc' = [pc EXCEPT ![f] = "cover"]
    /\ UNCHANGED <<tables, parsed, held, marked, restored>>

\* The test on each row's device left out for every older file.
CoverAllOf(f, o) ==
    {r \in MyRows(f) \ MySuperseded(f) :
        r.file = o.file /\ Serial!Within(parsed[f].period, r.slot)}

\* The UPDATE of _cover_older_files for one older file.
CoveredOf(f, o) ==
    {r \in MyRows(f) \ MySuperseded(f) :
        /\ r.file = o.file
        /\ Serial!Within(parsed[f].period, r.slot)
        /\ o.devices \subseteq parsed[f].devices \/ r.device \in o.devices \intersect parsed[f].devices}

CoverFile(f, o) ==
    /\ pc[f] = "cover" /\ o \in older[f]
    /\ marked' = [marked EXCEPT ![f] = @ \union CoveredOf(f, o)]
    /\ older' = [older EXCEPT ![f] = @ \ {o}]
    /\ UNCHANGED <<tables, pc, parsed, held, restored>>

CoverDone(f) ==
    /\ pc[f] = "cover" /\ older[f] = {}
    /\ pc' = [pc EXCEPT ![f] = "commit"]
    /\ UNCHANGED <<tables, parsed, held, older, marked, restored>>

\* The two updates of refresh_superseded.
CoveredNow(f, r) ==
    Serial!CoveredIn(MyLinks(f), MyPeriod(f), parsed[f].devices, parsed[f].period, r)

RestoreUncovered(f) ==
    /\ pc[f] = "restore"
    /\ restored' = [restored EXCEPT ![f] =
                       {r \in MySuperseded(f) : /\ r.device \in parsed[f].devices
                                                /\ Serial!Within(parsed[f].period, r.slot)
                                                /\ ~CoveredNow(f, r)}]
    /\ pc' = [pc EXCEPT ![f] = "mark"]
    /\ UNCHANGED <<tables, parsed, held, older, marked>>

MarkCovered(f) ==
    /\ pc[f] = "mark"
    /\ marked' = [marked EXCEPT ![f] = {r \in MyRows(f) \ MySuperseded(f) : CoveredNow(f, r)}]
    /\ pc' = [pc EXCEPT ![f] = "commit"]
    /\ UNCHANGED <<tables, parsed, held, older, restored>>

\* The commit that makes the file completed and its contents visible.
Commit(f) ==
    /\ pc[f] = "commit"
    /\ status' = [status EXCEPT ![f] = "completed"]
    /\ period' = MyPeriod(f)
    /\ home' = home \union parsed[f].devices
    /\ links' = MyLinks(f)
    /\ rows' = MyRows(f)
    /\ superseded' = MySuperseded(f)
    /\ UNCHANGED <<simulations, uploading>>
    /\ Release(f)

SaveSimulation(f) == Serial!SaveSimulation(f) /\ UNCHANGED transaction

\* A _mark_failed that forgets to roll back.
KeepLocks(f) ==
    /\ pc' = [pc EXCEPT ![f] = Idle]
    /\ UNCHANGED <<parsed, held, older, marked, restored>>

\* The rollback that _mark_failed starts with.
RollBack(f) == Release(f)

\* Any exception before the commit.
MarkFailed(f) == Serial!MarkFailed(f) /\ RollBack(f)

\* The server rolls back what a lost request had open.
LoseUpload(f) == Serial!LoseUpload(f) /\ Release(f)

\* Uploads that wait for each other's devices.  PostgreSQL aborts one of them,
\* which process_upload handles as any other exception.
WaitsFor(f, g) ==
    /\ f # g
    /\ pc[f] = "upsert" /\ (parsed[f].devices \ held[f]) \intersect held[g] # {}

Deadlocked(f) ==
    \E circle \in SUBSET Files :
        /\ f \in circle
        /\ \A g \in circle : /\ \E h \in circle : WaitsFor(g, h)
                             /\ \E h \in circle : WaitsFor(h, g)

AbortDeadlocked(f) == Deadlocked(f) /\ MarkFailed(f)

\* What request f does next when nothing fails.
Statement(f) ==
    \/ \E d \in Devices : LockDevice(f, d)
    \/ InsertRows(f)
    \/ CheckNewer(f)
    \/ ReadOlder(f)
    \/ \E o \in older[f] : CoverFile(f, o)
    \/ CoverDone(f)
    \/ RestoreUncovered(f)
    \/ MarkCovered(f)
    \/ Commit(f)

Next ==
    \E f \in Files :
        \/ CreateFile(f)
        \/ \E c \in Contents : Parse(f, c)
        \/ Statement(f)
        \/ SaveSimulation(f)
        \/ AbortDeadlocked(f)
        \/ MarkFailed(f)
        \/ LoseUpload(f)

\* A request that runs goes on: its thread and the server are scheduled, and
\* the server's deadlock detector breaks every circle of waits.
Fairness ==
    \A f \in Files :
        /\ WF_vars(\E c \in Contents : Parse(f, c))
        /\ WF_vars(Statement(f))
        /\ WF_vars(SaveSimulation(f))
        /\ WF_vars(AbortDeadlocked(f))

Spec == Init /\ [][Next]_vars /\ Fairness

----------------------------------------------------------------------------
(* Properties.                                                             *)

\* What a transaction holds is its own: devices and rows of its file, and
\* flags of rows it could see.
TypeOK ==
    /\ Serial!TypeOK
    /\ pc \in [Files -> InTransaction \union {Idle}]
    /\ \A f \in Files :
          /\ held[f] \subseteq parsed[f].devices
          /\ pc[f] = Idle => parsed[f] = Empty
          /\ pc[f] # Idle => f \in uploading /\ status[f] = "processing"
          /\ marked[f] \union restored[f] \subseteq MyRows(f)

\* Uploads at the same time end as uploads one after another do: each commit
\* is, on the committed tables, the whole of save_for_file at once, although
\* its statements read the tables at different moments.  With
\* DeviceFlags!FlagsFollowNewestFile this is the rule "Kwadrans urzadzenia
\* nalezy do najnowszego pliku" for concurrent uploads.
UploadsAreSerial == Serial!Spec

\* No two open transactions have changed the flag of the same row, so that no
\* UPDATE of flags ever waits or overwrites another.
UpdatesNeverMeet ==
    \A f, g \in Files :
        f # g => (marked[f] \union restored[f]) \intersect (marked[g] \union restored[g]) = {}

\* Every upload ends, also when uploads lock the same devices in opposite
\* orders: the one that fails rolls back before it writes its status, and so
\* frees the others.
EveryUploadEnds == \A f \in Files : f \in uploading ~> f \notin uploading
=============================================================================
