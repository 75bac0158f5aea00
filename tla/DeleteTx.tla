------------------------------ MODULE DeleteTx ------------------------------
(***************************************************************************)
(* Deletions of files while uploads run.  delete_file is one transaction    *)
(* whose statements, at READ COMMITTED, see the tables at different moments *)
(* and see nothing of the uploads that are still open.  It locks the rows   *)
(* that it deletes or updates, and waits for rows that another transaction  *)
(* has locked.                                                              *)
(*                                                                          *)
(* A statement that waits for a row goes on with the tables it saw when it  *)
(* began (only the row is read again); that is kept for the statement that  *)
(* deletes devices, where it matters, and left out for the two updates,     *)
(* which here begin when the rows they change are free.                     *)
(***************************************************************************)
EXTENDS UploadTx

CONSTANTS
    Deleted,  \* the files that the user asks to delete
    AllTime   \* from EARLIEST to LATEST

VARIABLE deletion  \* of each file: the state of its delete_file request

NoDeletion ==
    [pc |-> Idle, period |-> NoPeriod, devices |-> {}, alone |-> {}, gone |-> {},
     restored |-> {}, marked |-> {}]

deleteVars == <<vars, deletion>>

At(f, label) == deletion[f].pc = label
FileRowDeleted(f) == deletion[f].pc \in {"restore", "mark", "commit"}
DevicesDeleted(f) == IF deletion[f].pc \in {"file", "restore", "mark", "commit"}
                     THEN deletion[f].gone ELSE {}

----------------------------------------------------------------------------
(* What the deletion of f sees: the committed tables and its own changes.  *)

LeftLinks(f) ==
    [g \in Files |-> IF g = f /\ FileRowDeleted(f) THEN {}
                     ELSE links[g] \ DevicesDeleted(f)]
LeftPeriod(f) == IF FileRowDeleted(f) THEN [period EXCEPT ![f] = NoPeriod] ELSE period
LeftRows(f) ==
    {r \in rows : /\ ~(FileRowDeleted(f) /\ r.file = f)
                  /\ r.device \notin DevicesDeleted(f)}
LeftSuperseded(f) ==
    ((superseded \ deletion[f].restored) \union deletion[f].marked) \intersect LeftRows(f)

\* The rows that a deletion has deleted or updated, and that are locked by it.
LockedBy(f) == (rows \ LeftRows(f)) \union deletion[f].restored \union deletion[f].marked

\* The rows locked by anyone but the deletion of f, or but the upload of f.
LockedByUploads(f) == UNION {marked[g] \union restored[g] : g \in Files \ {f}}
LockedByDeletions(f) == UNION {LockedBy(g) : g \in Files \ {f}}

Changed(f, updates) == deletion' = [deletion EXCEPT ![f] = updates]

----------------------------------------------------------------------------
DeleteInit == Init /\ deletion = [f \in Files |-> NoDeletion]

\* _get_own_file, which loads the period of the file; one without a period
\* is refreshed in all time ...
ReadFile(f) ==
    /\ f \in Deleted /\ At(f, Idle) /\ status[f] \in Serial!Stored
    /\ Changed(f, [NoDeletion EXCEPT
                      !.pc = "devices",
                      !.period = IF period[f] = NoPeriod THEN AllTime ELSE period[f]])
    /\ UNCHANGED vars

\* ... and device_ids_by_file.
ReadDevices(f) ==
    /\ At(f, "devices")
    /\ Changed(f, [deletion[f] EXCEPT !.pc = "find", !.devices = links[f]])
    /\ UNCHANGED vars

\* delete_devices_only_in_file finds the devices, ...
FindDevices(f) ==
    /\ At(f, "find")
    /\ Changed(f, [deletion[f] EXCEPT !.pc = "gone", !.alone = Serial!DevicesOnlyIn(f)])
    /\ UNCHANGED vars

\* ... waits for those locked by an upload that has just updated them, and
\* deletes them with all that refers to them.
DeleteDevices(f) ==
    LET gone == deletion[f].alone \intersect home
    IN  /\ At(f, "gone")
        /\ \A d \in gone : \A g \in Files : d \notin held[g]
        /\ \A g \in Files \ {f} : gone \intersect DevicesDeleted(g) = {}
        /\ {r \in rows : r.device \in gone} \intersect LockedByDeletions(f) = {}
        /\ Changed(f, [deletion[f] EXCEPT !.pc = "file", !.gone = gone])
        /\ UNCHANGED vars

\* delete_without_commit, with its cascade.  An open upload of the file holds
\* its row: the deletion waits for the commit and then deletes what came with
\* it.  A file that is gone by now makes the request fail.
DeleteFileRow(f) ==
    /\ At(f, "file") /\ status[f] \in Serial!Stored /\ pc[f] = Idle
    /\ {r \in rows : r.file = f} \intersect (LockedByUploads(f) \union LockedByDeletions(f)) = {}
    /\ Changed(f, [deletion[f] EXCEPT
                      !.pc = IF deletion[f].devices = {} THEN "commit" ELSE "restore"])
    /\ UNCHANGED vars

\* refresh_superseded for the devices and the period that were read at first.
CoveredLeft(f, r) ==
    Serial!CoveredIn(LeftLinks(f), LeftPeriod(f), deletion[f].devices, deletion[f].period, r)

DeleteRestores(f) ==
    LET back == {r \in LeftSuperseded(f) : /\ r.device \in deletion[f].devices
                                           /\ Serial!Within(deletion[f].period, r.slot)
                                           /\ ~CoveredLeft(f, r)}
    IN  /\ At(f, "restore")
        /\ back \intersect (LockedByUploads(f) \union LockedByDeletions(f)) = {}
        /\ Changed(f, [deletion[f] EXCEPT !.pc = "mark", !.restored = back])
        /\ UNCHANGED vars

DeleteMarks(f) ==
    LET covered == {r \in LeftRows(f) \ LeftSuperseded(f) : CoveredLeft(f, r)}
    IN  /\ At(f, "mark")
        /\ covered \intersect (LockedByUploads(f) \union LockedByDeletions(f)) = {}
        /\ Changed(f, [deletion[f] EXCEPT !.pc = "commit", !.marked = covered])
        /\ UNCHANGED vars

CommitDeletion(f) ==
    /\ At(f, "commit")
    /\ status' = [status EXCEPT ![f] = "deleted"]
    /\ period' = LeftPeriod(f)
    /\ home' = home \ deletion[f].gone
    /\ links' = LeftLinks(f)
    /\ rows' = LeftRows(f)
    /\ superseded' = LeftSuperseded(f)
    /\ simulations' = simulations \ {f}
    /\ Changed(f, NoDeletion)
    /\ UNCHANGED <<uploading, transaction>>

\* 404 for the second of two deletions, or a connection that breaks.
AbortDeletion(f) ==
    /\ deletion[f].pc # Idle
    /\ Changed(f, NoDeletion)
    /\ UNCHANGED vars

----------------------------------------------------------------------------
(* Uploads wait for what deletions have locked.  A file that is deleted     *)
(* before its contents are saved fails its foreign keys, and the request    *)
(* ends without a status to write (LoseUpload).                             *)

UploadMayGoOn(f) ==
    /\ status[f] = "processing" /\ ~FileRowDeleted(f)
    /\ held'[f] \intersect UNION {DevicesDeleted(g) : g \in Files} = {}
    /\ ((marked'[f] \ marked[f]) \union (restored'[f] \ restored[f]))
           \intersect LockedByDeletions(f) = {}

DeleteNext ==
    \E f \in Files :
        \/ /\ \/ CreateFile(f) \/ LoseUpload(f)
              \/ ~FileRowDeleted(f) /\ (SaveSimulation(f) \/ MarkFailed(f))
              \/ (Statement(f) \/ \E c \in Contents : Parse(f, c)) /\ UploadMayGoOn(f)
           /\ UNCHANGED deletion
        \/ ReadFile(f) \/ ReadDevices(f) \/ FindDevices(f) \/ DeleteDevices(f)
        \/ DeleteFileRow(f) \/ DeleteRestores(f) \/ DeleteMarks(f)
        \/ CommitDeletion(f) \/ AbortDeletion(f)

DeleteSpec == DeleteInit /\ [][DeleteNext]_deleteVars

----------------------------------------------------------------------------
(* What the documents say of the tables, and concurrent requests break.    *)

\* "Kwadrans urzadzenia nalezy do najnowszego pliku": no quarter-hour of a
\* device has two current rows.
NoQuarterCountedTwice == Serial!NoQuarterCountedTwice

=============================================================================
