--------------------------- MODULE UploadTxProofs ---------------------------
(***************************************************************************)
(* Theorems about UploadTx, for any number of uploads at the same time and *)
(* any files they upload.  Proofs are those of DeviceFlags about the       *)
(* committed tables.                                                       *)
(***************************************************************************)
EXTENDS UploadTx, TLAPS

Proofs == INSTANCE DeviceFlagsProofs

Slow(f) == Serial!HasNewerFile(MyLinks(f), MyPeriod(f), f, parsed[f].devices, parsed[f].period)

\* What the two paths of save_for_file are to change.
ToCover(f) ==
    {r \in rows : /\ r.file < f
                  /\ r.device \in parsed[f].devices
                  /\ Serial!Within(parsed[f].period, r.slot)}

ToRestore(f) ==
    {r \in superseded : /\ r.device \in parsed[f].devices
                        /\ Serial!Within(parsed[f].period, r.slot)
                        /\ ~CoveredNow(f, r)}

ToMark(f) == {r \in MyRows(f) \ superseded : CoveredNow(f, r)}

----------------------------------------------------------------------------
\* A transaction is that of a running upload, and has the locks of all its
\* devices once it is past the upsert.
Transaction(f) ==
    /\ pc[f] = Idle => /\ parsed[f] = Empty
                       /\ held[f] = {} /\ older[f] = {} /\ marked[f] = {} /\ restored[f] = {}
    /\ pc[f] # Idle => parsed[f] \in Contents /\ f \in uploading /\ status[f] = "processing"
    /\ held[f] \subseteq parsed[f].devices
    /\ pc[f] \in InTransaction \ {"upsert"} => held[f] = parsed[f].devices
    /\ pc[f] \in {"upsert", "check", "older", "restore"} =>
          older[f] = {} /\ marked[f] = {} /\ restored[f] = {}

LocksAreApart == \A f, g \in Files : f # g => held[f] \intersect held[g] = {}

\* The path is still the right one, although other uploads were committed.
PathStays(f) ==
    /\ pc[f] \in {"older", "cover"} => ~Slow(f)
    /\ pc[f] \in {"restore", "mark"} => Slow(f)

\* _cover_older_files: a row to cover is covered or in a file still to come.
Covering(f) ==
    pc[f] = "cover" =>
        /\ restored[f] = {} /\ marked[f] \subseteq ToCover(f)
        /\ \A o \in older[f] : /\ o.file \in Files /\ o.file < f /\ o.devices = links[o.file]
                              /\ o.devices \intersect parsed[f].devices # {}
        /\ \A r \in ToCover(f) :
              \/ r \in superseded \union marked[f]
              \/ [file |-> r.file, devices |-> links[r.file]] \in older[f]

Restoring(f) == pc[f] = "mark" => marked[f] = {} /\ restored[f] = ToRestore(f)

\* Both paths end with the flags that one step of DeviceFlags gives.
FlagsAreReady(f) ==
    pc[f] = "commit" =>
        \/ /\ ~Slow(f) /\ restored[f] = {} /\ marked[f] \subseteq ToCover(f)
           /\ ToCover(f) \subseteq superseded \union marked[f]
        \/ Slow(f) /\ restored[f] = ToRestore(f) /\ marked[f] = ToMark(f)

TxInv(f) == Transaction(f) /\ PathStays(f) /\ Covering(f) /\ Restoring(f) /\ FlagsAreReady(f)

Shapes ==
    /\ pc \in [Files -> InTransaction \union {Idle}]
    /\ parsed = [f \in Files |-> parsed[f]] /\ held = [f \in Files |-> held[f]]
    /\ older = [f \in Files |-> older[f]] /\ marked = [f \in Files |-> marked[f]]
    /\ restored = [f \in Files |-> restored[f]]

IInv == Proofs!IInv /\ Shapes /\ LocksAreApart /\ \A f \in Files : TxInv(f)

----------------------------------------------------------------------------
(* The committed tables.                                                   *)

\* DeviceFlags and the module of its proofs define the same things.
LEMMA SameInit == Serial!Init <=> Proofs!Init
BY DEF Serial!Init, Proofs!Init

LEMMA SameNext == Serial!Next <=> Proofs!Next
<1>1. ASSUME NEW f \in Files
      PROVE  /\ Serial!CreateFile(f) <=> Proofs!CreateFile(f)
             /\ Serial!MarkFailed(f) <=> Proofs!MarkFailed(f)
             /\ Serial!SaveSimulation(f) <=> Proofs!SaveSimulation(f)
             /\ Serial!LoseUpload(f) <=> Proofs!LoseUpload(f)
  BY Zenon DEF Serial!CreateFile, Proofs!CreateFile, Serial!MarkFailed, Proofs!MarkFailed,
       Serial!SaveSimulation, Proofs!SaveSimulation, Serial!LoseUpload, Proofs!LoseUpload
<1>2. ASSUME NEW f \in Files, NEW c \in Contents
      PROVE  Serial!SaveContents(f, c) <=> Proofs!SaveContents(f, c)
  BY Zenon DEF Serial!SaveContents, Proofs!SaveContents, Serial!SaveForFile, Proofs!SaveForFile,
       Serial!RowsOf, Proofs!RowsOf, Serial!HasNewerFile, Proofs!HasNewerFile,
       Serial!Refresh, Proofs!Refresh, Serial!CoverOlder, Proofs!CoverOlder,
       Serial!CoveredIn, Proofs!CoveredIn, Serial!Overlaps, Proofs!Overlaps, Serial!Within, Proofs!Within
<1>3. ASSUME NEW f \in Files
      PROVE  Serial!DeleteFile(f) <=> Proofs!DeleteFile(f)
  BY Zenon DEF Serial!DeleteFile, Proofs!DeleteFile, Serial!DevicesOnlyIn, Proofs!DevicesOnlyIn,
       Serial!Stored, Proofs!Stored, Serial!Refresh, Proofs!Refresh,
       Serial!CoveredIn, Proofs!CoveredIn, Serial!Overlaps, Proofs!Overlaps, Serial!Within, Proofs!Within
<1>4. QED
  BY <1>1, <1>2, <1>3 DEF Serial!Next, Proofs!Next

\* A step of DeviceFlags keeps what its proofs say of the tables.
LEMMA TablesStep ==
    ASSUME Proofs!IInv, Serial!Next \/ UNCHANGED tables
    PROVE  Proofs!IInv'
<1>1. [Proofs!Next]_(Proofs!vars)
  BY SameNext DEF tables, Proofs!vars
<1>2. Proofs!IInv /\ [Proofs!Next]_(Proofs!vars) => Proofs!IInv'
  BY Proofs!NextInv, FilesAssumption, NoPeriodAssumption, ContentsAssumption, Zenon
     DEF Serial!Period, Proofs!Period
<1>3. QED
  BY <1>1, <1>2

\* What the proofs below need of it.
TablesAre ==
    /\ status \in [Files -> Serial!Status]
    /\ links \in [Files -> SUBSET Devices]
    /\ period \in [Files -> Serial!Period \union {NoPeriod}]
    /\ rows \subseteq Serial!Row /\ superseded \subseteq rows /\ uploading \subseteq Files
    /\ \A r \in rows : r.device \in links[r.file]
    /\ \A f \in Files : links[f] # {} => status[f] = "completed"

LEMMA TablesHold == Proofs!IInv => TablesAre
BY Zenon DEF TablesAre, Proofs!IInv, Proofs!TypeOK, Proofs!RowsInTheirFile, Proofs!DevicesOfCompletedFiles,
     Proofs!Status, Serial!Status, Proofs!Period, Serial!Period, Proofs!Row, Serial!Row

LEMMA ContentsAre ==
    ASSUME NEW f \in Files, NEW c \in Contents
    PROVE  /\ c.devices \subseteq Devices /\ c.period \in Serial!Period
           /\ Serial!RowsOf(f, c) \subseteq Serial!Row
           /\ \A r \in Serial!RowsOf(f, c) : r.file = f /\ r.device \in c.devices
<1>1. c \in [devices : SUBSET Devices, period : Serial!Period,
             usage : SUBSET [device : Devices, slot : Int]]
  BY ContentsAssumption
<1>2. \A u \in c.usage : u \in [device : Devices, slot : Int] /\ u.device \in c.devices
  BY <1>1, ContentsAssumption
<1>3. QED
  BY <1>1, <1>2 DEF Serial!RowsOf, Serial!Row

----------------------------------------------------------------------------
(* What other uploads leave to a transaction.                              *)

\* Of the devices that a transaction has locked, everything its statements
\* read is as it was.
TablesKeep(ds) ==
    /\ \A h \in Files : links'[h] \intersect ds = links[h] \intersect ds
    /\ \A h \in Files : links[h] \intersect ds # {} => links'[h] = links[h] /\ period'[h] = period[h]
    /\ \A r \in Serial!Row : r.device \in ds =>
          (r \in rows' <=> r \in rows) /\ (r \in superseded' <=> r \in superseded)

LEMMA SameTablesKeep ==
    ASSUME NEW ds, UNCHANGED <<period, links, rows, superseded>>
    PROVE  TablesKeep(ds)
BY DEF TablesKeep

LEMMA SlowIs ==
    ASSUME TablesAre, NEW f \in Files
    PROVE  Slow(f) <=> \E newer \in Files :
                          /\ newer > f /\ links[newer] \intersect parsed[f].devices # {}
                          /\ Serial!Overlaps(period[newer], parsed[f].period)
<1>1. \A newer \in Files : newer > f => /\ MyLinks(f)[newer] = links[newer]
                                       /\ MyPeriod(f)[newer] = period[newer]
  BY FilesAssumption DEF MyLinks, MyPeriod, TablesAre
<1>2. QED
  BY <1>1 DEF Slow, Serial!HasNewerFile

LEMMA SlowStays ==
    ASSUME TablesAre, TablesAre', NEW f \in Files, parsed'[f] = parsed[f],
           TablesKeep(parsed[f].devices)
    PROVE  Slow(f)' <=> Slow(f)
<1>1. Slow(f) <=> \E newer \in Files :
                     /\ newer > f /\ links[newer] \intersect parsed[f].devices # {}
                     /\ Serial!Overlaps(period[newer], parsed[f].period)
  BY SlowIs
<1>2. (Slow(f) <=> \E newer \in Files :
                     /\ newer > f /\ links[newer] \intersect parsed[f].devices # {}
                     /\ Serial!Overlaps(period[newer], parsed[f].period))'
  <2>1. \A newer \in Files : newer > f => /\ MyLinks(f)'[newer] = links'[newer]
                                         /\ MyPeriod(f)'[newer] = period'[newer]
    BY FilesAssumption DEF MyLinks, MyPeriod, TablesAre
  <2>2. QED
    BY <2>1 DEF Slow, Serial!HasNewerFile
<1>3. QED
  BY <1>1, <1>2 DEF TablesKeep, Serial!Overlaps

LEMMA CoveredStays ==
    ASSUME TablesAre, TablesAre', NEW f \in Files, parsed'[f] = parsed[f],
           TablesKeep(parsed[f].devices), NEW r \in Serial!Row
    PROVE  CoveredNow(f, r)' <=> CoveredNow(f, r)
<1> DEFINE ds == parsed[f].devices
<1>1. CASE r.device \notin ds
  BY <1>1 DEF CoveredNow, Serial!CoveredIn
<1>2. CASE r.device \in ds
  <2>1. \A h \in Files : r.device \in MyLinks(f)'[h] <=> r.device \in MyLinks(f)[h]
    BY <1>2 DEF TablesKeep, TablesAre, MyLinks
  <2>2. \A h \in Files : r.device \in MyLinks(f)[h] => MyPeriod(f)'[h] = MyPeriod(f)[h]
    BY <1>2 DEF TablesKeep, TablesAre, MyLinks, MyPeriod
  <2>3. r.file \in Files
    BY DEF Serial!Row
  <2>4. QED
    BY <2>1, <2>2, <2>3 DEF CoveredNow, Serial!CoveredIn, Serial!Overlaps, Serial!Within
<1>3. QED
  BY <1>1, <1>2

LEMMA TargetsStay ==
    ASSUME TablesAre, TablesAre', NEW f \in Files, parsed'[f] = parsed[f],
           TablesKeep(parsed[f].devices)
    PROVE  /\ ToCover(f)' = ToCover(f)
           /\ ToRestore(f)' = ToRestore(f)
           /\ parsed[f] \in Contents => ToMark(f)' = ToMark(f)
<1>1. \A r \in Serial!Row : r.device \in parsed[f].devices =>
         (r \in rows' <=> r \in rows) /\ (r \in superseded' <=> r \in superseded)
  BY DEF TablesKeep
<1>2. /\ rows \subseteq Serial!Row /\ superseded \subseteq Serial!Row
      /\ rows' \subseteq Serial!Row /\ superseded' \subseteq Serial!Row
  BY DEF TablesAre
<1>3. ToCover(f)' = ToCover(f)
  BY <1>1, <1>2 DEF ToCover, Serial!Within
<1>4. \A r \in Serial!Row : CoveredNow(f, r)' <=> CoveredNow(f, r)
  BY CoveredStays
<1>5. ToRestore(f)' = ToRestore(f)
  BY <1>1, <1>2, <1>4 DEF ToRestore, Serial!Within
<1>6. ASSUME parsed[f] \in Contents PROVE ToMark(f)' = ToMark(f)
  <2>1. Serial!RowsOf(f, parsed[f]) \subseteq Serial!Row
    BY <1>6, ContentsAre
  <2>2. \A r : CoveredNow(f, r) => r.device \in parsed[f].devices
    BY DEF CoveredNow, Serial!CoveredIn
  <2>3. /\ ToMark(f) = {r \in (rows \union Serial!RowsOf(f, parsed[f])) \ superseded : CoveredNow(f, r)}
        /\ ToMark(f)' = {r \in (rows' \union Serial!RowsOf(f, parsed[f])) \ superseded' : CoveredNow(f, r)'}
    BY DEF ToMark, MyRows, Serial!RowsOf
  <2>4. QED
    BY <1>1, <1>2, <1>4, <2>1, <2>2, <2>3
<1>7. QED
  BY <1>3, <1>5, <1>6

\* A transaction that takes no step keeps its invariant.
LEMMA OtherTx ==
    ASSUME TablesAre, TablesAre', NEW f \in Files, TxInv(f),
           pc'[f] = pc[f], parsed'[f] = parsed[f], held'[f] = held[f],
           older'[f] = older[f], marked'[f] = marked[f], restored'[f] = restored[f],
           f \in uploading => f \in uploading' /\ status'[f] = status[f],
           TablesKeep(held[f])
    PROVE  TxInv(f)'
<1>1. Transaction(f)'
  BY DEF TxInv, Transaction
<1>2. CASE pc[f] \in {Idle, "upsert"}
  BY <1>1, <1>2 DEF TxInv, PathStays, Covering, Restoring, FlagsAreReady, Idle
<1>3. CASE pc[f] \notin {Idle, "upsert"}
  <2>1. pc[f] \in InTransaction => held[f] = parsed[f].devices
    BY <1>3 DEF TxInv, Transaction
  <2>2. CASE pc[f] \notin InTransaction
    BY <1>1, <2>2 DEF TxInv, PathStays, Covering, Restoring, FlagsAreReady, InTransaction
  <2>3. CASE pc[f] \in InTransaction
    <3>1. TablesKeep(parsed[f].devices) /\ parsed[f] \in Contents
      BY <1>3, <2>1, <2>3 DEF TxInv, Transaction
    <3>2. /\ Slow(f)' <=> Slow(f)
          /\ ToCover(f)' = ToCover(f) /\ ToRestore(f)' = ToRestore(f) /\ ToMark(f)' = ToMark(f)
      BY <3>1, SlowStays, TargetsStay
    <3>3. PathStays(f)' /\ Restoring(f)'
      BY <3>2 DEF TxInv, PathStays, Restoring
    <3>4. \A r \in ToCover(f) : (r \in superseded' <=> r \in superseded) /\ links'[r.file] = links[r.file]
      BY <3>1 DEF ToCover, TablesKeep, TablesAre, Serial!Row
    <3>5. FlagsAreReady(f)'
      BY <3>2, <3>4 DEF TxInv, FlagsAreReady
    <3>6. Covering(f)'
      <4> SUFFICES ASSUME pc[f] = "cover" PROVE Covering(f)'
        BY DEF Covering
      <4>1. /\ restored[f] = {} /\ marked[f] \subseteq ToCover(f)
            /\ \A o \in older[f] : /\ o.file \in Files /\ o.file < f /\ o.devices = links[o.file]
                                  /\ o.devices \intersect parsed[f].devices # {}
            /\ \A r \in ToCover(f) :
                  \/ r \in superseded \union marked[f]
                  \/ [file |-> r.file, devices |-> links[r.file]] \in older[f]
        BY DEF TxInv, Covering
      <4>2. \A o \in older[f] : o.devices = links'[o.file]
        BY <3>1, <4>1 DEF TablesKeep
      <4>3. QED
        BY <3>2, <3>4, <4>1, <4>2 DEF Covering
    <3>7. QED
      BY <1>1, <3>3, <3>5, <3>6 DEF TxInv
  <2>4. QED
    BY <2>2, <2>3
<1>4. QED
  BY <1>2, <1>3

----------------------------------------------------------------------------
(* The statements.                                                         *)

TxStays(g) ==
    /\ pc'[g] = pc[g] /\ parsed'[g] = parsed[g] /\ held'[g] = held[g]
    /\ older'[g] = older[g] /\ marked'[g] = marked[g] /\ restored'[g] = restored[g]

\* A statement of one transaction changes no table.
LEMMA StatementInv ==
    ASSUME IInv, NEW f \in Files, UNCHANGED tables, Shapes',
           \A g \in Files \ {f} : TxStays(g),
           TxInv(f)', held'[f] = held[f] \/ LocksAreApart'
    PROVE  IInv'
<1>1. Proofs!IInv'
  BY TablesStep DEF IInv
<1>2. TablesAre /\ TablesAre'
  <2>1. TablesAre
    BY TablesHold DEF IInv
  <2>2. QED
    BY <2>1 DEF TablesAre, tables
<1>3. \A g \in Files \ {f} : TxInv(g)'
  BY <1>2, OtherTx, SameTablesKeep DEF IInv, TxStays, tables
<1>4. LocksAreApart'
  BY DEF IInv, LocksAreApart, TxStays
<1>5. QED
  BY <1>1, <1>3, <1>4 DEF IInv

\* What a statement of f that reads the tables starts from.
LEMMA BeforeStatement ==
    ASSUME IInv, NEW f \in Files, UNCHANGED <<tables, parsed>>
    PROVE  /\ TablesAre /\ TxInv(f) /\ Shapes
           /\ Slow(f)' <=> Slow(f)
           /\ ToCover(f)' = ToCover(f) /\ ToRestore(f)' = ToRestore(f)
           /\ parsed[f] \in Contents => ToMark(f)' = ToMark(f)
<1>1. TablesAre
  BY TablesHold DEF IInv
<1>2. TablesAre' /\ TablesKeep(parsed[f].devices)
  BY <1>1, SameTablesKeep DEF TablesAre, tables
<1>3. QED
  BY <1>1, <1>2, SlowStays, TargetsStay DEF IInv

LEMMA ParseInv ==
    ASSUME IInv, NEW f \in Files, NEW c \in Contents, Parse(f, c)
    PROVE  IInv'
<1>1. /\ f \in uploading /\ status[f] = "processing" /\ pc[f] = Idle
      /\ UNCHANGED <<tables, held, older, marked, restored>>
      /\ TablesAre /\ TxInv(f)
  BY TablesHold DEF IInv, Parse
<1>2. /\ pc' = [pc EXCEPT ![f] = IF c.devices = {} THEN "commit" ELSE "upsert"]
      /\ parsed' = [parsed EXCEPT ![f] = c]
  BY DEF Parse
<1>3. Shapes' /\ \A g \in Files \ {f} : TxStays(g)
  BY <1>1, <1>2 DEF IInv, Shapes, TxStays, InTransaction
<1>4. parsed'[f] = c /\ pc'[f] = IF c.devices = {} THEN "commit" ELSE "upsert"
  BY <1>2 DEF IInv, Shapes
<1>5. held[f] = {} /\ older[f] = {} /\ marked[f] = {} /\ restored[f] = {}
  BY <1>1 DEF TxInv, Transaction
<1>6. Transaction(f)'
  BY <1>1, <1>4, <1>5 DEF Transaction, InTransaction, Idle, tables
<1>7. PathStays(f)' /\ Covering(f)' /\ Restoring(f)'
  BY <1>4 DEF PathStays, Covering, Restoring
<1>8. FlagsAreReady(f)'
  <2> SUFFICES ASSUME c.devices = {} PROVE FlagsAreReady(f)'
    BY <1>4 DEF FlagsAreReady
  <2>1. parsed'[f].devices = {}
    BY <1>4
  <2>2. ~Slow(f)'
    BY <2>1 DEF Slow, Serial!HasNewerFile
  <2>3. ToCover(f)' = {}
    BY <2>1 DEF ToCover
  <2>4. QED
    BY <1>1, <1>5, <2>2, <2>3 DEF FlagsAreReady
<1>9. QED
  BY <1>1, <1>3, <1>6, <1>7, <1>8, StatementInv DEF TxInv

LEMMA LockDeviceInv ==
    ASSUME IInv, NEW f \in Files, NEW d \in Devices, LockDevice(f, d)
    PROVE  IInv'
<1>1. /\ pc[f] = "upsert" /\ d \in parsed[f].devices /\ Free(f, d)
      /\ held' = [held EXCEPT ![f] = @ \union {d}]
      /\ UNCHANGED <<tables, pc, parsed, older, marked, restored>>
  BY DEF LockDevice
<1>2. Shapes' /\ \A g \in Files \ {f} : TxStays(g)
  BY <1>1 DEF IInv, Shapes, TxStays
<1>3. held'[f] = held[f] \union {d}
  BY <1>1 DEF IInv, Shapes
<1>4. TxInv(f)'
  BY <1>1, <1>3 DEF IInv, TxInv, Transaction, PathStays, Covering, Restoring, FlagsAreReady,
       InTransaction, Idle, tables
<1>5. LocksAreApart'
  <2>1. \A g \in Files \ {f} : held'[g] = held[g] /\ d \notin held[g]
    BY <1>1, <1>2 DEF TxStays, Free
  <2>2. QED
    BY <1>3, <2>1 DEF IInv, LocksAreApart
<1>6. QED
  BY <1>1, <1>2, <1>4, <1>5, StatementInv

LEMMA InsertRowsInv ==
    ASSUME IInv, NEW f \in Files, InsertRows(f)
    PROVE  IInv'
<1>1. /\ pc[f] = "upsert" /\ held[f] = parsed[f].devices
      /\ pc' = [pc EXCEPT ![f] = "check"]
      /\ UNCHANGED <<tables, parsed, held, older, marked, restored>>
  BY DEF InsertRows
<1>2. Shapes' /\ \A g \in Files \ {f} : TxStays(g)
  BY <1>1 DEF IInv, Shapes, TxStays, InTransaction
<1>3. pc'[f] = "check"
  BY <1>1 DEF IInv, Shapes
<1>4. TxInv(f)'
  BY <1>1, <1>3 DEF IInv, TxInv, Transaction, PathStays, Covering, Restoring, FlagsAreReady,
       InTransaction, Idle, tables
<1>5. QED
  BY <1>1, <1>2, <1>4, StatementInv

LEMMA CheckNewerInv ==
    ASSUME IInv, NEW f \in Files, CheckNewer(f)
    PROVE  IInv'
<1>1. /\ pc[f] = "check"
      /\ pc' = [pc EXCEPT ![f] = IF Slow(f) THEN "restore" ELSE "older"]
      /\ UNCHANGED <<tables, parsed, held, older, marked, restored>>
  BY DEF CheckNewer, Slow
<1>2. Shapes' /\ \A g \in Files \ {f} : TxStays(g)
  BY <1>1 DEF IInv, Shapes, TxStays, InTransaction
<1>3. pc'[f] = IF Slow(f) THEN "restore" ELSE "older"
  BY <1>1 DEF IInv, Shapes
<1>4. TxInv(f) /\ (Slow(f)' <=> Slow(f))
  BY <1>1, BeforeStatement
<1>5. Transaction(f)'
  BY <1>1, <1>3, <1>4 DEF TxInv, Transaction, InTransaction, Idle, tables
<1>6. PathStays(f)' /\ Covering(f)' /\ Restoring(f)' /\ FlagsAreReady(f)'
  BY <1>3, <1>4 DEF PathStays, Covering, Restoring, FlagsAreReady
<1>7. QED
  BY <1>1, <1>2, <1>5, <1>6, StatementInv DEF TxInv

LEMMA ReadOlderInv ==
    ASSUME IInv, NEW f \in Files, ReadOlder(f)
    PROVE  IInv'
<1> DEFINE files == {h \in Files : h < f /\ links[h] \intersect parsed[f].devices # {}}
<1> DEFINE all == {[file |-> g, devices |-> links[g]] : g \in files}
<1>1. /\ pc[f] = "older"
      /\ pc' = [pc EXCEPT ![f] = "cover"] /\ older' = [older EXCEPT ![f] = all]
      /\ UNCHANGED <<tables, parsed, held, marked, restored>>
  BY DEF ReadOlder
<1>2. /\ TablesAre /\ TxInv(f) /\ (Slow(f)' <=> Slow(f)) /\ ToCover(f)' = ToCover(f)
  BY <1>1, BeforeStatement
<1>3. \A o \in all : /\ o.file \in Files /\ o.file < f /\ o.devices = links[o.file]
                     /\ o.devices \intersect parsed[f].devices # {}
  OBVIOUS
<1>4. \A r \in ToCover(f) : [file |-> r.file, devices |-> links[r.file]] \in all
  <2>1. \A r \in ToCover(f) : r.file \in files
    BY <1>2 DEF ToCover, TablesAre, Serial!Row
  <2>2. QED
    BY <2>1
<1> HIDE DEF all
<1>5. Shapes' /\ \A g \in Files \ {f} : TxStays(g)
  BY <1>1 DEF IInv, Shapes, TxStays, InTransaction
<1>6. pc'[f] = "cover" /\ older'[f] = all
  BY <1>1 DEF IInv, Shapes
<1>7. marked[f] = {} /\ restored[f] = {}
  BY <1>1, <1>2 DEF TxInv, Transaction
<1>8. Transaction(f)'
  BY <1>1, <1>2, <1>6 DEF TxInv, Transaction, InTransaction, Idle, tables
<1>9. Covering(f)'
  BY <1>1, <1>2, <1>3, <1>4, <1>6, <1>7 DEF Covering, tables
<1>10. PathStays(f)' /\ Restoring(f)' /\ FlagsAreReady(f)'
  BY <1>1, <1>2, <1>6 DEF TxInv, PathStays, Restoring, FlagsAreReady
<1>11. QED
  BY <1>1, <1>5, <1>8, <1>9, <1>10, StatementInv DEF TxInv

LEMMA CoverFileInv ==
    ASSUME IInv, NEW f \in Files, NEW o \in older[f], CoverFile(f, o)
    PROVE  IInv'
<1>1. /\ pc[f] = "cover"
      /\ marked' = [marked EXCEPT ![f] = @ \union CoveredOf(f, o)]
      /\ older' = [older EXCEPT ![f] = @ \ {o}]
      /\ UNCHANGED <<tables, pc, parsed, held, restored>>
  BY DEF CoverFile
<1>2. /\ TablesAre /\ TxInv(f) /\ (Slow(f)' <=> Slow(f)) /\ ToCover(f)' = ToCover(f)
      /\ parsed[f] \in Contents
  <2>1. TxInv(f)
    BY DEF IInv
  <2>2. QED
    BY <1>1, <2>1, BeforeStatement DEF TxInv, Transaction, Idle
<1>3. /\ restored[f] = {} /\ marked[f] \subseteq ToCover(f)
      /\ \A p \in older[f] : /\ p.file \in Files /\ p.file < f /\ p.devices = links[p.file]
                             /\ p.devices \intersect parsed[f].devices # {}
      /\ \A r \in ToCover(f) :
            \/ r \in superseded \union marked[f]
            \/ [file |-> r.file, devices |-> links[r.file]] \in older[f]
  BY <1>1, <1>2 DEF TxInv, Covering
<1>4. \A r \in MyRows(f) : r.file = o.file => r \in rows
  <2>1. \A r \in Serial!RowsOf(f, parsed[f]) : r.file = f
    BY <1>2, ContentsAre
  <2>2. o.file # f
    BY <1>3, FilesAssumption
  <2>3. QED
    BY <2>1, <2>2 DEF MyRows
<1>5. CoveredOf(f, o) \subseteq ToCover(f)
  <2> SUFFICES ASSUME NEW r \in CoveredOf(f, o) PROVE r \in ToCover(f)
    OBVIOUS
  <2>1. /\ r \in MyRows(f) /\ r.file = o.file /\ Serial!Within(parsed[f].period, r.slot)
        /\ o.devices \subseteq parsed[f].devices \/ r.device \in parsed[f].devices
    BY DEF CoveredOf
  <2>2. r \in rows /\ r.device \in o.devices
    BY <1>2, <1>3, <1>4, <2>1 DEF TablesAre
  <2>3. QED
    BY <1>3, <2>1, <2>2 DEF ToCover
<1>6. \A r \in ToCover(f) : r.file = o.file => r \in superseded \union marked[f] \union CoveredOf(f, o)
  <2> SUFFICES ASSUME NEW r \in ToCover(f), r.file = o.file, r \notin superseded \union marked[f]
               PROVE  r \in CoveredOf(f, o)
    OBVIOUS
  <2>1. /\ r \in rows /\ r.device \in parsed[f].devices /\ Serial!Within(parsed[f].period, r.slot)
        /\ r.device \in o.devices
    BY <1>2, <1>3 DEF ToCover, TablesAre
  <2>2. r \in MyRows(f) \ MySuperseded(f)
    BY <1>3, <2>1 DEF MyRows, MySuperseded
  <2>3. QED
    BY <2>1, <2>2 DEF CoveredOf
<1>7. Shapes' /\ \A g \in Files \ {f} : TxStays(g)
  BY <1>1 DEF IInv, Shapes, TxStays, InTransaction
<1>8. marked'[f] = marked[f] \union CoveredOf(f, o) /\ older'[f] = older[f] \ {o}
  BY <1>1 DEF IInv, Shapes
<1>9. Transaction(f)'
  BY <1>1, <1>2, <1>8 DEF TxInv, Transaction, InTransaction, Idle, tables
<1>10. Covering(f)'
  <2>1. ASSUME NEW r \in ToCover(f)
        PROVE  \/ r \in superseded \union marked'[f]
               \/ [file |-> r.file, devices |-> links[r.file]] \in older'[f]
    <3>1. CASE [file |-> r.file, devices |-> links[r.file]] = o
      BY <1>6, <1>8, <3>1
    <3>2. CASE [file |-> r.file, devices |-> links[r.file]] # o
      BY <1>3, <1>8, <3>2
    <3>3. QED
      BY <3>1, <3>2
  <2>2. QED
    BY <1>1, <1>2, <1>3, <1>5, <1>8, <2>1 DEF Covering, tables
<1>11. PathStays(f)' /\ Restoring(f)' /\ FlagsAreReady(f)'
  BY <1>1, <1>2 DEF TxInv, PathStays, Restoring, FlagsAreReady
<1>12. QED
  BY <1>1, <1>7, <1>9, <1>10, <1>11, StatementInv DEF TxInv

LEMMA CoverDoneInv ==
    ASSUME IInv, NEW f \in Files, CoverDone(f)
    PROVE  IInv'
<1>1. /\ pc[f] = "cover" /\ older[f] = {}
      /\ pc' = [pc EXCEPT ![f] = "commit"]
      /\ UNCHANGED <<tables, parsed, held, older, marked, restored>>
  BY DEF CoverDone
<1>2. /\ TxInv(f) /\ (Slow(f)' <=> Slow(f)) /\ ToCover(f)' = ToCover(f)
  BY <1>1, BeforeStatement
<1>3. Shapes' /\ \A g \in Files \ {f} : TxStays(g)
  BY <1>1 DEF IInv, Shapes, TxStays, InTransaction
<1>4. pc'[f] = "commit"
  BY <1>1 DEF IInv, Shapes
<1>5. Transaction(f)'
  BY <1>1, <1>2, <1>4 DEF TxInv, Transaction, InTransaction, Idle, tables
<1>6. FlagsAreReady(f)'
  BY <1>1, <1>2 DEF TxInv, PathStays, Covering, FlagsAreReady, tables
<1>7. PathStays(f)' /\ Restoring(f)' /\ Covering(f)'
  BY <1>4 DEF PathStays, Restoring, Covering
<1>8. QED
  BY <1>1, <1>3, <1>5, <1>6, <1>7, StatementInv DEF TxInv

LEMMA RestoreUncoveredInv ==
    ASSUME IInv, NEW f \in Files, RestoreUncovered(f)
    PROVE  IInv'
<1>1. /\ pc[f] = "restore" /\ pc' = [pc EXCEPT ![f] = "mark"]
      /\ UNCHANGED <<tables, parsed, held, older, marked>>
  BY DEF RestoreUncovered
<1>2. /\ TxInv(f) /\ (Slow(f)' <=> Slow(f)) /\ ToRestore(f)' = ToRestore(f)
  BY <1>1, BeforeStatement
<1>3. marked[f] = {} /\ restored[f] = {} /\ older[f] = {}
  BY <1>1, <1>2 DEF TxInv, Transaction
<1>4. restored' = [restored EXCEPT ![f] = ToRestore(f)]
  BY <1>3 DEF RestoreUncovered, MySuperseded, ToRestore
<1>5. Shapes' /\ \A g \in Files \ {f} : TxStays(g)
  BY <1>1, <1>4 DEF IInv, Shapes, TxStays, InTransaction
<1>6. pc'[f] = "mark" /\ restored'[f] = ToRestore(f)
  BY <1>1, <1>4 DEF IInv, Shapes
<1>7. Transaction(f)'
  BY <1>1, <1>2, <1>6 DEF TxInv, Transaction, InTransaction, Idle, tables
<1>8. PathStays(f)' /\ Restoring(f)' /\ Covering(f)' /\ FlagsAreReady(f)'
  BY <1>1, <1>2, <1>3, <1>6 DEF TxInv, PathStays, Restoring, Covering, FlagsAreReady
<1>9. QED
  BY <1>1, <1>5, <1>7, <1>8, StatementInv DEF TxInv

LEMMA MarkCoveredInv ==
    ASSUME IInv, NEW f \in Files, MarkCovered(f)
    PROVE  IInv'
<1>1. /\ pc[f] = "mark" /\ pc' = [pc EXCEPT ![f] = "commit"]
      /\ UNCHANGED <<tables, parsed, held, older, restored>>
  BY DEF MarkCovered
<1>2. /\ TxInv(f) /\ (Slow(f)' <=> Slow(f)) /\ ToRestore(f)' = ToRestore(f)
      /\ ToMark(f)' = ToMark(f)
  <2>1. parsed[f] \in Contents
    BY <1>1 DEF IInv, TxInv, Transaction, Idle
  <2>2. QED
    BY <1>1, <2>1, BeforeStatement
<1>3. marked[f] = {} /\ restored[f] = ToRestore(f) /\ Slow(f)
  BY <1>1, <1>2 DEF TxInv, Restoring, PathStays
<1>4. marked' = [marked EXCEPT ![f] = ToMark(f)]
  <2>1. {r \in MyRows(f) \ MySuperseded(f) : CoveredNow(f, r)} = ToMark(f)
    BY <1>3 DEF MySuperseded, ToMark, ToRestore
  <2>2. QED
    BY <2>1 DEF MarkCovered
<1>5. Shapes' /\ \A g \in Files \ {f} : TxStays(g)
  BY <1>1, <1>4 DEF IInv, Shapes, TxStays, InTransaction
<1>6. pc'[f] = "commit" /\ marked'[f] = ToMark(f)
  BY <1>1, <1>4 DEF IInv, Shapes
<1>7. Transaction(f)'
  BY <1>1, <1>2, <1>6 DEF TxInv, Transaction, InTransaction, Idle, tables
<1>8. PathStays(f)' /\ Restoring(f)' /\ Covering(f)' /\ FlagsAreReady(f)'
  BY <1>1, <1>2, <1>3, <1>6 DEF PathStays, Restoring, Covering, FlagsAreReady
<1>9. QED
  BY <1>1, <1>5, <1>7, <1>8, StatementInv DEF TxInv

----------------------------------------------------------------------------
(* The commit.                                                             *)

\* The fast path: the rows covered file by file are those that CoverOlder
\* covers at once.
LEMMA FastFlags ==
    ASSUME TablesAre, NEW f \in Files, parsed[f] \in Contents, status[f] = "processing",
           restored[f] = {}, marked[f] \subseteq ToCover(f),
           ToCover(f) \subseteq superseded \union marked[f]
    PROVE  MySuperseded(f) = Serial!CoverOlder(MyLinks(f), f, MyRows(f), superseded,
                                               parsed[f].devices, parsed[f].period)
<1> DEFINE flags == Serial!CoverOlder(MyLinks(f), f, MyRows(f), superseded,
                                      parsed[f].devices, parsed[f].period)
<1>1. MySuperseded(f) = superseded \union ToCover(f)
  BY DEF MySuperseded
<1>2. ASSUME NEW r \in MyRows(f), r.file < f PROVE r \in rows /\ MyLinks(f)[r.file] = links[r.file]
  <2>1. \A x \in Serial!RowsOf(f, parsed[f]) : x.file = f
    BY ContentsAre
  <2>2. f \in Nat
    BY FilesAssumption
  <2>3. r \in rows
    BY <1>2, <2>1, <2>2 DEF MyRows
  <2>4. QED
    BY <1>2, <2>2, <2>3 DEF MyLinks, TablesAre, Serial!Row
<1>3. flags = superseded \union
                 {r \in MyRows(f) : /\ r.file < f
                                    /\ MyLinks(f)[r.file] \intersect parsed[f].devices # {}
                                    /\ Serial!Within(parsed[f].period, r.slot)
                                    /\ \/ MyLinks(f)[r.file] \subseteq parsed[f].devices
                                       \/ r.device \in parsed[f].devices}
  BY DEF Serial!CoverOlder
<1>4. ASSUME NEW r \in MyRows(f), r.file < f
      PROVE  r \in ToCover(f) <=> /\ MyLinks(f)[r.file] \intersect parsed[f].devices # {}
                                  /\ Serial!Within(parsed[f].period, r.slot)
                                  /\ \/ MyLinks(f)[r.file] \subseteq parsed[f].devices
                                     \/ r.device \in parsed[f].devices
  BY <1>2, <1>4 DEF ToCover, TablesAre
<1>5. \A r \in ToCover(f) : r \in MyRows(f) /\ r.file < f
  BY DEF ToCover, MyRows
<1>6. QED
  BY <1>1, <1>3, <1>4, <1>5

\* The slow path: rows are restored and marked as Refresh does at once.
LEMMA SlowFlags ==
    ASSUME TablesAre, NEW f \in Files, restored[f] = ToRestore(f), marked[f] = ToMark(f)
    PROVE  MySuperseded(f) = Serial!Refresh(MyLinks(f), MyPeriod(f), MyRows(f), superseded,
                                            parsed[f].devices, parsed[f].period)
<1>1. superseded \subseteq MyRows(f)
  BY DEF TablesAre, MyRows
<1>2. MySuperseded(f) = (superseded \union ToMark(f)) \ ToRestore(f)
  BY DEF MySuperseded
<1>3. ToRestore(f) = {r \in superseded : /\ r.device \in parsed[f].devices
                                         /\ Serial!Within(parsed[f].period, r.slot)
                                         /\ ~CoveredNow(f, r)}
  BY DEF ToRestore
<1>4. ToMark(f) = {r \in MyRows(f) \ superseded : CoveredNow(f, r)}
  BY DEF ToMark
<1>5. Serial!Refresh(MyLinks(f), MyPeriod(f), MyRows(f), superseded, parsed[f].devices, parsed[f].period)
         = {r \in superseded : \/ ~(r.device \in parsed[f].devices /\ Serial!Within(parsed[f].period, r.slot))
                               \/ CoveredNow(f, r)}
              \union {r \in MyRows(f) : CoveredNow(f, r)}
  BY DEF Serial!Refresh, CoveredNow
<1>6. QED
  BY <1>1, <1>2, <1>3, <1>4, <1>5

\* On the tables a commit is save_for_file at once.
LEMMA CommitIsSave ==
    ASSUME IInv, NEW f \in Files, Commit(f)
    PROVE  parsed[f] \in Contents /\ Serial!SaveContents(f, parsed[f])
<1>1. /\ TablesAre /\ TxInv(f)
      /\ pc[f] = "commit"
      /\ parsed[f] \in Contents /\ f \in uploading /\ status[f] = "processing"
  BY TablesHold DEF IInv, TxInv, Transaction, Commit, Idle
<1>2. /\ links' = MyLinks(f) /\ period' = MyPeriod(f) /\ rows' = MyRows(f)
      /\ superseded' = MySuperseded(f)
  BY DEF Commit
<1>3. superseded' = IF Slow(f)
                    THEN Serial!Refresh(MyLinks(f), MyPeriod(f), MyRows(f), superseded,
                                        parsed[f].devices, parsed[f].period)
                    ELSE Serial!CoverOlder(MyLinks(f), f, MyRows(f), superseded,
                                           parsed[f].devices, parsed[f].period)
  BY <1>1, <1>2, FastFlags, SlowFlags DEF TxInv, FlagsAreReady
<1>4. superseded' = IF Serial!HasNewerFile(links', period', f, parsed[f].devices, parsed[f].period)
                    THEN Serial!Refresh(links', period', rows', superseded,
                                        parsed[f].devices, parsed[f].period)
                    ELSE Serial!CoverOlder(links', f, rows', superseded,
                                           parsed[f].devices, parsed[f].period)
  BY <1>2, <1>3 DEF Slow
<1>5. /\ links' = [links EXCEPT ![f] = parsed[f].devices]
      /\ period' = [period EXCEPT ![f] = parsed[f].period]
      /\ rows' = rows \union Serial!RowsOf(f, parsed[f])
  BY <1>2 DEF MyLinks, MyPeriod, MyRows
<1>6. Serial!SaveForFile(f, parsed[f])
  BY <1>4, <1>5 DEF Serial!SaveForFile, Commit
<1>7. QED
  BY <1>1, <1>5, <1>6 DEF Serial!SaveContents, Commit

\* After Release a transaction is over.
LEMMA ReleaseEnds ==
    ASSUME Shapes, NEW f \in Files, Release(f)
    PROVE  Shapes' /\ TxInv(f)' /\ held'[f] = {} /\ \A g \in Files \ {f} : TxStays(g)
<1>1. Shapes' /\ \A g \in Files \ {f} : TxStays(g)
  BY DEF Shapes, Release, TxStays
<1>2. /\ pc'[f] = Idle /\ parsed'[f] = Empty /\ held'[f] = {}
      /\ older'[f] = {} /\ marked'[f] = {} /\ restored'[f] = {}
  BY DEF Shapes, Release
<1>3. QED
  BY <1>1, <1>2 DEF TxInv, Transaction, PathStays, Covering, Restoring, FlagsAreReady, Idle, InTransaction

\* A commit leaves the devices of the other transactions as they were.
LEMMA CommitKeeps ==
    ASSUME IInv, NEW f \in Files, Commit(f), NEW g \in Files \ {f}
    PROVE  TablesKeep(held[g])
<1> DEFINE E == parsed[f].devices
<1>1. /\ TablesAre /\ TxInv(f) /\ pc[f] = "commit"
  BY TablesHold DEF IInv, Commit
<1>2. held[f] = E /\ parsed[f] \in Contents /\ status[f] = "processing"
  BY <1>1 DEF TxInv, Transaction, InTransaction, Idle
<1>3. held[g] \intersect E = {}
  BY <1>2 DEF IInv, LocksAreApart
<1>4. links[f] = {} /\ links' = [links EXCEPT ![f] = E] /\ period' = [period EXCEPT ![f] = parsed[f].period]
  BY <1>1, <1>2 DEF TablesAre, Commit, MyLinks, MyPeriod
<1>5. \A r \in Serial!RowsOf(f, parsed[f]) : r.device \in E
  BY <1>2, ContentsAre
<1>6. \A r \in marked[f] \union restored[f] : r.device \in E
  <2>1. \A r : CoveredNow(f, r) => r.device \in E
    BY DEF CoveredNow, Serial!CoveredIn
  <2>2. QED
    BY <1>1, <2>1 DEF TxInv, FlagsAreReady, ToCover, ToRestore, ToMark
<1>7. rows' = rows \union Serial!RowsOf(f, parsed[f])
      /\ superseded' = (superseded \union marked[f]) \ restored[f]
  BY DEF Commit, MyRows, MySuperseded
<1> HIDE DEF E
<1>8. \A r \in Serial!Row : r.device \in held[g] =>
         (r \in rows' <=> r \in rows) /\ (r \in superseded' <=> r \in superseded)
  BY <1>3, <1>5, <1>6, <1>7
<1>9. /\ \A h \in Files : links'[h] \intersect held[g] = links[h] \intersect held[g]
      /\ \A h \in Files : links[h] \intersect held[g] # {} => links'[h] = links[h] /\ period'[h] = period[h]
  BY <1>1, <1>3, <1>4 DEF TablesAre
<1>10. QED
  BY <1>8, <1>9 DEF TablesKeep

\* A step that ends, or begins, no more than the request of f.
LEMMA RequestStepInv ==
    ASSUME IInv, NEW f \in Files, Serial!Next,
           Shapes', TxInv(f)', held'[f] \subseteq held[f], \A g \in Files \ {f} : TxStays(g),
           \A g \in Files \ {f} : /\ g \in uploading => g \in uploading' /\ status'[g] = status[g]
                                  /\ TablesKeep(held[g])
    PROVE  IInv'
<1>1. Proofs!IInv /\ Proofs!IInv'
  BY TablesStep DEF IInv
<1>2. TablesAre /\ TablesAre'
  <2>1. (Proofs!IInv => TablesAre)'
    BY TablesHold, PTL
  <2>2. QED
    BY <1>1, <2>1, TablesHold
<1>3. \A g \in Files \ {f} : TxInv(g)'
  BY <1>2, OtherTx DEF IInv, TxStays
<1>4. LocksAreApart'
  BY DEF IInv, LocksAreApart, TxStays
<1>5. QED
  BY <1>1, <1>3, <1>4 DEF IInv

LEMMA CommitInv ==
    ASSUME IInv, NEW f \in Files, Commit(f)
    PROVE  IInv'
<1>1. Serial!Next
  BY CommitIsSave DEF Serial!Next
<1>2. Shapes' /\ TxInv(f)' /\ held'[f] = {} /\ \A g \in Files \ {f} : TxStays(g)
  BY ReleaseEnds DEF IInv, Commit
<1>3. \A g \in Files \ {f} : /\ g \in uploading => g \in uploading' /\ status'[g] = status[g]
                             /\ TablesKeep(held[g])
  <2>1. TablesAre
    BY TablesHold DEF IInv
  <2>2. QED
    BY <2>1, CommitKeeps DEF Commit, TablesAre
<1>4. QED
  BY <1>1, <1>2, <1>3, RequestStepInv

\* The steps that change only the status of f.
LEMMA StatusStepInv ==
    ASSUME IInv, NEW f \in Files,
           \/ CreateFile(f)
           \/ SaveSimulation(f)
           \/ MarkFailed(f)
           \/ LoseUpload(f)
    PROVE  Serial!Next /\ IInv'
<1>1. Serial!Next
  BY DEF Serial!Next, CreateFile, SaveSimulation, MarkFailed, LoseUpload
<1>2. TablesAre
  BY TablesHold DEF IInv
<1>3. UNCHANGED <<period, links, rows, superseded>>
  BY DEF CreateFile, Serial!CreateFile, SaveSimulation, Serial!SaveSimulation,
         MarkFailed, Serial!MarkFailed, LoseUpload, Serial!LoseUpload
<1>4. \A g \in Files \ {f} : /\ g \in uploading => g \in uploading' /\ status'[g] = status[g]
                             /\ TablesKeep(held[g])
  BY <1>2, <1>3, SameTablesKeep
     DEF TablesAre, CreateFile, Serial!CreateFile, SaveSimulation, Serial!SaveSimulation,
         MarkFailed, Serial!MarkFailed, LoseUpload, Serial!LoseUpload
<1>5. CASE MarkFailed(f) \/ LoseUpload(f)
  <2>1. Shapes' /\ TxInv(f)' /\ held'[f] = {} /\ \A g \in Files \ {f} : TxStays(g)
    BY <1>5, ReleaseEnds DEF IInv, MarkFailed, RollBack, LoseUpload
  <2>2. QED
    BY <1>1, <1>4, <2>1, RequestStepInv
<1>6. CASE CreateFile(f) \/ SaveSimulation(f)
  <2>1. UNCHANGED transaction
    BY <1>6 DEF CreateFile, SaveSimulation
  <2>2. Shapes' /\ \A g \in Files : TxStays(g)
    BY <2>1 DEF transaction, IInv, Shapes, TxStays
  <2>3. pc[f] = Idle
    BY <1>6 DEF IInv, TxInv, Transaction, CreateFile, Serial!CreateFile,
                SaveSimulation, Serial!SaveSimulation
  <2>4. TxInv(f)'
    BY <2>2, <2>3 DEF IInv, TxInv, Transaction, PathStays, Covering, Restoring, FlagsAreReady,
                      TxStays, Idle, InTransaction
  <2>5. QED
    BY <1>1, <1>4, <2>2, <2>4, RequestStepInv DEF TxStays
<1>7. QED
  BY <1>1, <1>5, <1>6

----------------------------------------------------------------------------
LEMMA InitInv == Init => IInv
<1> SUFFICES ASSUME Init PROVE IInv
  OBVIOUS
<1>1. Proofs!IInv
  <2>1. Proofs!Init => Proofs!IInv
    BY Proofs!InitInv, FilesAssumption, NoPeriodAssumption, ContentsAssumption, Zenon
       DEF Serial!Period, Proofs!Period
  <2>2. QED
    BY <2>1, SameInit DEF Init
<1>2. Shapes /\ LocksAreApart
  BY DEF Init, Shapes, LocksAreApart
<1>3. \A f \in Files : TxInv(f)
  BY DEF Init, TxInv, Transaction, PathStays, Covering, Restoring, FlagsAreReady, Idle, InTransaction
<1>4. QED
  BY <1>1, <1>2, <1>3 DEF IInv

LEMMA NextInv == IInv /\ [Next]_vars => IInv' /\ [Serial!Next]_tables
<1> SUFFICES ASSUME IInv, [Next]_vars PROVE IInv' /\ (Serial!Next \/ UNCHANGED tables)
  BY Zenon
<1>1. ASSUME NEW f \in Files, NEW c \in Contents, Parse(f, c)
      PROVE  IInv' /\ UNCHANGED tables
  BY <1>1, ParseInv DEF Parse
<1>2. ASSUME NEW f \in Files, NEW d \in Devices, LockDevice(f, d)
      PROVE  IInv' /\ UNCHANGED tables
  BY <1>2, LockDeviceInv DEF LockDevice
<1>3. ASSUME NEW f \in Files, InsertRows(f) \/ CheckNewer(f) \/ ReadOlder(f) \/ CoverDone(f)
      PROVE  IInv' /\ UNCHANGED tables
  BY <1>3, InsertRowsInv, CheckNewerInv, ReadOlderInv, CoverDoneInv
     DEF InsertRows, CheckNewer, ReadOlder, CoverDone
<1>4. ASSUME NEW f \in Files, NEW o \in older[f], CoverFile(f, o)
      PROVE  IInv' /\ UNCHANGED tables
  BY <1>4, CoverFileInv DEF CoverFile
<1>5. ASSUME NEW f \in Files, RestoreUncovered(f) \/ MarkCovered(f)
      PROVE  IInv' /\ UNCHANGED tables
  BY <1>5, RestoreUncoveredInv, MarkCoveredInv DEF RestoreUncovered, MarkCovered
<1>6. ASSUME NEW f \in Files, Commit(f)
      PROVE  IInv' /\ Serial!Next
  BY <1>6, CommitInv, CommitIsSave DEF Serial!Next
<1>7. ASSUME NEW f \in Files,
             CreateFile(f) \/ SaveSimulation(f) \/ AbortDeadlocked(f) \/ MarkFailed(f) \/ LoseUpload(f)
      PROVE  IInv' /\ Serial!Next
  BY <1>7, StatusStepInv DEF AbortDeadlocked
<1>8. CASE UNCHANGED vars
  <2>1. UNCHANGED tables /\ UNCHANGED transaction
    BY <1>8 DEF vars
  <2>2. TablesAre
    BY TablesHold DEF IInv
  <2>3. TablesAre'
    BY <2>1, <2>2 DEF TablesAre, tables
  <2>4. \A f \in Files : TxInv(f)'
    BY <2>1, <2>2, <2>3, OtherTx, SameTablesKeep DEF IInv, tables, transaction
  <2>5. QED
    BY <2>1, <2>4, TablesStep DEF IInv, Shapes, LocksAreApart, transaction
<1>9. QED
  BY <1>1, <1>2, <1>3, <1>4, <1>5, <1>6, <1>7, <1>8 DEF Next, Statement

LEMMA SpecInv == Spec => []IInv
BY InitInv, NextInv, PTL DEF Spec

----------------------------------------------------------------------------
(* The theorems.                                                           *)

\* What a transaction holds is its own, for any number of uploads at once.
THEOREM TypesHold == Spec => []TypeOK
<1>1. IInv => TypeOK
  <2> SUFFICES ASSUME IInv PROVE TypeOK
    OBVIOUS
  <2>1. Serial!TypeOK
    BY Zenon DEF IInv, Proofs!IInv, Proofs!TypeOK, Serial!TypeOK, Proofs!Status, Serial!Status,
         Proofs!Period, Serial!Period, Proofs!Row, Serial!Row
  <2>2. TablesAre
    BY TablesHold DEF IInv
  <2>3. ASSUME NEW f \in Files PROVE marked[f] \union restored[f] \subseteq MyRows(f)
    <3>1. TxInv(f) /\ pc[f] \in InTransaction \union {Idle}
      BY DEF IInv, Shapes
    <3>2. superseded \subseteq rows /\ rows \subseteq MyRows(f)
      BY <2>2 DEF TablesAre, MyRows
    <3>3. /\ ToCover(f) \subseteq MyRows(f) /\ ToRestore(f) \subseteq MyRows(f)
          /\ ToMark(f) \subseteq MyRows(f)
      BY <3>2 DEF ToCover, ToRestore, ToMark
    <3>4. QED
      BY <3>1, <3>3 DEF TxInv, Transaction, Covering, Restoring, FlagsAreReady, InTransaction
  <2>4. QED
    BY <2>1, <2>3 DEF IInv, Shapes, TxInv, Transaction, TypeOK
<1>2. QED
  BY <1>1, SpecInv, PTL

\* Two open transactions never change the flag of one row: the rows that an
\* upload changes lie in the devices that it has locked.
THEOREM FlagsOfOneUpload == Spec => []UpdatesNeverMeet
<1>1. IInv => UpdatesNeverMeet
  <2> SUFFICES ASSUME IInv PROVE UpdatesNeverMeet
    OBVIOUS
  <2>1. ASSUME NEW f \in Files PROVE \A r \in marked[f] \union restored[f] : r.device \in held[f]
    <3>1. TxInv(f) /\ pc[f] \in InTransaction \union {Idle}
      BY DEF IInv, Shapes
    <3>2. \A r : CoveredNow(f, r) => r.device \in parsed[f].devices
      BY DEF CoveredNow, Serial!CoveredIn
    <3>3. \A r \in ToCover(f) \union ToRestore(f) \union ToMark(f) : r.device \in parsed[f].devices
      BY <3>2 DEF ToCover, ToRestore, ToMark
    <3>4. QED
      BY <3>1, <3>3 DEF TxInv, Transaction, Covering, Restoring, FlagsAreReady, InTransaction
  <2>2. QED
    BY <2>1 DEF IInv, LocksAreApart, UpdatesNeverMeet
<1>2. QED
  BY <1>1, SpecInv, PTL

\* Uploads at the same time are, on the committed tables, uploads one after
\* another, each of which saves its whole contents in one step.
THEOREM ConcurrentUploadsAreSerial == Spec => UploadsAreSerial
<1>1. Init => Serial!Init
  BY DEF Init
<1>2. IInv /\ [Next]_vars => [Serial!Next]_(Serial!vars)
  BY NextInv DEF tables, Serial!vars
<1>3. QED
  BY <1>1, <1>2, SpecInv, PTL DEF Spec, UploadsAreSerial, Serial!Spec

\* So the rule of the newest file holds for concurrent uploads as well.
THEOREM FlagsAreRightConcurrently == Spec => []Serial!FlagsFollowNewestFile
<1>1. IInv => Serial!FlagsFollowNewestFile
  BY Zenon DEF IInv, Proofs!IInv, Proofs!FlagsFollowNewestFile, Serial!FlagsFollowNewestFile,
       Proofs!Covered, Serial!Covered, Proofs!Within, Serial!Within
<1>2. QED
  BY <1>1, SpecInv, PTL
=============================================================================
