---------------------------- MODULE DeviceFlags ----------------------------
(***************************************************************************)
(* The device files of one home, as the database holds them between        *)
(* transactions: the files and their periods, the devices of the home, the *)
(* quarter-hour rows of every file and the flag `superseded` of each row.  *)
(*                                                                         *)
(* A request is one upload or one deletion.  An upload commits three       *)
(* transactions (the file row, its contents, its simulation) and may be    *)
(* lost between any two of them; a deletion commits one.  Every action     *)
(* below is one committed transaction; UploadTx.tla opens the transactions *)
(* and interleaves their statements.                                       *)
(***************************************************************************)
EXTENDS Integers

CONSTANTS
    Files,      \* uploads, numbered in upload order: (uploaded_at, id)
    Devices,    \* source_device_id of the devices a file may describe
    Contents,   \* what parsing a file may yield
    NoPeriod    \* period_start and period_end are NULL

Row == [file : Files, device : Devices, slot : Int]
Period == [start : Int, end : Int]

\* A file that passed device_validation.py: its actions lie on quarter-hours
\* inside the period, and those of one device do not overlap, so that a
\* device has at most one energy value in a quarter-hour.  A meter file is a
\* content without devices.
ASSUME FilesAssumption == Files \subseteq Nat
ASSUME NoPeriodAssumption == NoPeriod \notin Period
ASSUME ContentsAssumption ==
    \A c \in Contents :
        /\ c \in [devices : SUBSET Devices, period : Period,
                  usage : SUBSET [device : Devices, slot : Int]]
        /\ c.period.start < c.period.end
        /\ \A u \in c.usage : /\ u.device \in c.devices
                               /\ c.period.start <= u.slot
                               /\ u.slot < c.period.end

VARIABLES
    status,       \* energy_data_files.status; "none" before, "deleted" after
    period,       \* energy_data_files.period_start and period_end
    home,         \* device_instances
    links,        \* device_instance_files: the devices of each file
    rows,         \* device_slot_usage, each row with its action
    superseded,   \* the rows whose flag is true
    simulations,  \* the files with a row in simulations
    uploading     \* the files whose upload request is still running

vars == <<status, period, home, links, rows, superseded, simulations, uploading>>

Status == {"none", "processing", "completed", "failed", "deleted"}
Stored == {"processing", "completed", "failed"}

----------------------------------------------------------------------------
(* The queries.  Each takes the tables it reads, as its transaction sees   *)
(* them.                                                                   *)

Within(p, t) == p # NoPeriod /\ p.start <= t /\ t < p.end
Overlaps(p, q) == p # NoPeriod /\ p.start < q.end /\ q.start < p.end

\* _COVER_CTE for one row: a newer file with the row's device, whose period
\* clipped to the refreshed one holds the row's quarter-hour.
CoveredIn(lk, pd, ds, q, r) ==
    /\ r.device \in ds /\ r.device \in lk[r.file]
    /\ Within(q, r.slot)
    /\ \E newer \in Files :
          /\ newer > r.file
          /\ r.device \in lk[newer]
          /\ Overlaps(pd[newer], q)
          /\ Within(pd[newer], r.slot)

\* refresh_superseded: RESTORE_UNCOVERED, then MARK_COVERED.
Refresh(lk, pd, rs, sup, ds, q) ==
    {r \in sup : ~(r.device \in ds /\ Within(q, r.slot)) \/ CoveredIn(lk, pd, ds, q, r)}
        \union {r \in rs : CoveredIn(lk, pd, ds, q, r)}

\* The fast path with the test `file_devices <= new_devices` inverted.
CoverWholeOlderFiles(lk, f, rs, sup, ds, q) ==
    sup \union {r \in rs : /\ r.file < f
                           /\ lk[r.file] \intersect ds # {}
                           /\ Within(q, r.slot)}

\* The fast path with an inclusive end of the period.
CoverPastTheEnd(lk, f, rs, sup, ds, q) ==
    sup \union {r \in rs : /\ r.file < f
                           /\ r.device \in ds
                           /\ q.start <= r.slot /\ r.slot <= q.end}

\* _cover_older_files: the rows of older files inside the new file's period,
\* of every device when the new file has all the devices of the older one.
CoverOlder(lk, f, rs, sup, ds, q) ==
    sup \union {r \in rs : /\ r.file < f
                           /\ lk[r.file] \intersect ds # {}
                           /\ Within(q, r.slot)
                           /\ lk[r.file] \subseteq ds \/ r.device \in ds}

\* The slow path never taken.
NeverNewer(lk, pd, f, ds, q) == FALSE

\* NEWER_FILE_EXISTS
HasNewerFile(lk, pd, f, ds, q) ==
    \E newer \in Files : /\ newer > f
                         /\ lk[newer] \intersect ds # {}
                         /\ Overlaps(pd[newer], q)

\* The NOT EXISTS on other files left out.
EveryDeviceOf(f) == links[f]

\* The deletion of devices left out.
NoDeviceOf(f) == {}

\* delete_devices_only_in_file
DevicesOnlyIn(f) ==
    {d \in links[f] : \A g \in Files \ {f} : d \notin links[g]}

----------------------------------------------------------------------------
Init ==
    /\ status = [f \in Files |-> "none"]
    /\ period = [f \in Files |-> NoPeriod]
    /\ home = {}
    /\ links = [f \in Files |-> {}]
    /\ rows = {}
    /\ superseded = {}
    /\ simulations = {}
    /\ uploading = {}

\* The first commit of an upload.  Nothing ties the order of these commits to
\* uploaded_at, which the server's clock gives.
CreateFile(f) ==
    /\ status[f] = "none"
    /\ status' = [status EXCEPT ![f] = "processing"]
    /\ uploading' = uploading \union {f}
    /\ UNCHANGED <<period, home, links, rows, superseded, simulations>>

\* Parsing, the calculation or the save failed: rollback, status failed.
MarkFailed(f) ==
    /\ f \in uploading /\ status[f] = "processing"
    /\ status' = [status EXCEPT ![f] = "failed"]
    /\ uploading' = uploading \ {f}
    /\ UNCHANGED <<period, home, links, rows, superseded, simulations>>

\* The rows a content puts into device_slot_usage.
RowsOf(f, c) == {[file |-> f, device |-> u.device, slot |-> u.slot] : u \in c.usage}

\* save_for_file: devices, links, rows, and the flags along one of two paths.
SaveForFile(f, c) ==
    /\ home' = home \union c.devices
    /\ links' = [links EXCEPT ![f] = c.devices]
    /\ rows' = rows \union RowsOf(f, c)
    /\ superseded' =
          IF HasNewerFile(links', period', f, c.devices, c.period)
          THEN Refresh(links', period', rows', superseded, c.devices, c.period)
          ELSE CoverOlder(links', f, rows', superseded, c.devices, c.period)

\* The second commit: the period, all that save_for_file adds, and completed.
SaveContents(f, c) ==
    /\ f \in uploading /\ status[f] = "processing"
    /\ status' = [status EXCEPT ![f] = "completed"]
    /\ period' = [period EXCEPT ![f] = c.period]
    /\ SaveForFile(f, c)
    /\ UNCHANGED <<simulations, uploading>>

\* The third commit, with which the request ends.
SaveSimulation(f) ==
    /\ f \in uploading /\ status[f] = "completed"
    /\ simulations' = simulations \union {f}
    /\ uploading' = uploading \ {f}
    /\ UNCHANGED <<status, period, home, links, rows, superseded>>

\* The request ends with no further commit: the process stops, the connection
\* breaks, or the file was deleted under it and its foreign keys fail.
LoseUpload(f) ==
    /\ f \in uploading
    /\ uploading' = uploading \ {f}
    /\ UNCHANGED <<status, period, home, links, rows, superseded, simulations>>

\* delete_file: devices that no other file has leave the home, the file's rows
\* and simulation go with it (ON DELETE CASCADE), and the flags of its devices
\* are recomputed inside its period.
DeleteFile(f) ==
    LET ds == links[f]
        gone == DevicesOnlyIn(f)
        left == {r \in rows : r.file # f /\ r.device \notin gone}
        sup == superseded \intersect left
    IN  /\ status[f] \in Stored
        /\ status' = [status EXCEPT ![f] = "deleted"]
        /\ period' = [period EXCEPT ![f] = NoPeriod]
        /\ home' = home \ gone
        /\ links' = [g \in Files |-> IF g = f THEN {} ELSE links[g] \ gone]
        /\ rows' = left
        /\ superseded' = IF ds = {} THEN sup
                         ELSE Refresh(links', period', left, sup, ds, period[f])
        /\ simulations' = simulations \ {f}
        /\ UNCHANGED uploading

Next ==
    \E f \in Files :
        \/ CreateFile(f)
        \/ MarkFailed(f)
        \/ \E c \in Contents : SaveContents(f, c)
        \/ SaveSimulation(f)
        \/ LoseUpload(f)
        \/ DeleteFile(f)

Spec == Init /\ [][Next]_vars

----------------------------------------------------------------------------
(* Properties.                                                             *)

\* Every table holds what its columns allow, and a flag is a row's flag.
TypeOK ==
    /\ status \in [Files -> Status]
    /\ period \in [Files -> Period \union {NoPeriod}]
    /\ home \subseteq Devices
    /\ links \in [Files -> SUBSET Devices]
    /\ rows \subseteq Row
    /\ superseded \subseteq rows
    /\ simulations \subseteq Files
    /\ uploading \subseteq Files

\* A newer file has the row's device and its period holds the quarter-hour.
Covered(r) ==
    \E newer \in Files : /\ newer > r.file
                         /\ r.device \in links[newer]
                         /\ Within(period[newer], r.slot)

\* The rule of docs/device-usage.md and refresh_superseded: a quarter-hour of
\* a device belongs to the newest file that has the device and covers the
\* quarter-hour, and the rows of the other files are flagged.  The flags are
\* kept by increments, along two paths; this is what they must add up to
\* after any sequence of uploads, late saves and deletions.
FlagsFollowNewestFile == \A r \in rows : r \in superseded <=> Covered(r)

\* merged_grid_import sums the rows that are not flagged, so no quarter-hour
\* of a device may have two of them, whatever files were uploaded or deleted.
NoQuarterCountedTwice ==
    \A r, s \in rows \ superseded :
        r.device = s.device /\ r.slot = s.slot => r = s

\* "usuniecie ostatniego takiego pliku usuwa urzadzenie" (DeviceInstance.py):
\* a device is in the home exactly as long as some file has it.
HomeIsDevicesOfFiles == home = UNION {links[f] : f \in Files}

\* "Upload jedynie oznacza wiersze starszych plikow jako przykryte"
\* (docs/device-usage.md): saving a file flags existing rows of older files,
\* of its own devices and inside its period, and restores none.
UploadOnlyCoversOlderRows ==
    [][\A f \in Files, c \in Contents : SaveContents(f, c) =>
          /\ superseded \subseteq superseded'
          /\ \A r \in rows \intersect (superseded' \ superseded) :
                /\ r.file < f
                /\ r.device \in c.devices
                /\ Within(c.period, r.slot)]_vars

\* The files with their contents, and the rows that count, as NewestWins has
\* them.
Library ==
    [f \in Files |->
        IF status[f] = "completed"
        THEN [devices |-> links[f], period |-> period[f],
              usage |-> {[device |-> r.device, slot |-> r.slot] :
                            r \in {s \in rows : s.file = f}}]
        ELSE [devices |-> {}, period |-> NoPeriod, usage |-> {}]]

Merge == INSTANCE NewestWins WITH library <- Library, current <- rows \ superseded

\* The flags implement the merging rule: every save and every deletion has on
\* the rows that count the effect it has when they are chosen anew from the
\* contents of all files, and a deletion takes nothing from another file.
MergesByNewestFile == Merge!Spec

=============================================================================
