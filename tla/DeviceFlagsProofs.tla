------------------------- MODULE DeviceFlagsProofs -------------------------
(***************************************************************************)
(* Theorems about DeviceFlags, for any set of files, devices and contents. *)
(***************************************************************************)
EXTENDS DeviceFlags, TLAPS

\* A row lies in a device and in the period of its file, ...
RowsInTheirFile ==
    \A r \in rows : /\ r.device \in links[r.file]
                    /\ Within(period[r.file], r.slot)

\* ... and only a completed file, which has a period, has devices.
DevicesOfCompletedFiles ==
    \A f \in Files : /\ status[f] = "completed" => period[f] \in Period
                     /\ links[f] # {} => status[f] = "completed"

IInv ==
    /\ TypeOK
    /\ RowsInTheirFile
    /\ DevicesOfCompletedFiles
    /\ FlagsFollowNewestFile
    /\ HomeIsDevicesOfFiles

\* Covered, over given tables.
CoveredBy(lk, pd, r) ==
    \E newer \in Files : /\ newer > r.file
                         /\ r.device \in lk[newer]
                         /\ Within(pd[newer], r.slot)

----------------------------------------------------------------------------
(* The queries.                                                            *)

\* A period that holds a quarter-hour of another one overlaps it.
LEMMA SharedQuarterOverlaps ==
    ASSUME NEW p \in Period \union {NoPeriod}, NEW q \in Period, NEW t \in Int,
           Within(p, t), Within(q, t)
    PROVE  Overlaps(p, q)
BY NoPeriodAssumption DEF Within, Overlaps, Period

\* refresh_superseded makes the flags of its devices inside its period right
\* and leaves the others alone.
LEMMA RefreshIsExact ==
    ASSUME NEW lk \in [Files -> SUBSET Devices],
           NEW pd \in [Files -> Period \union {NoPeriod}],
           NEW rs \in SUBSET Row, NEW sup \in SUBSET rs,
           NEW ds \in SUBSET Devices, NEW q \in Period,
           NEW r \in rs, r.device \in lk[r.file]
    PROVE  r \in Refresh(lk, pd, rs, sup, ds, q) <=>
              IF r.device \in ds /\ Within(q, r.slot)
              THEN CoveredBy(lk, pd, r)
              ELSE r \in sup
<1>1. r.slot \in Int /\ r.file \in Files
  BY DEF Row
<1>2. CASE r.device \in ds /\ Within(q, r.slot)
  <2>1. CoveredIn(lk, pd, ds, q, r) <=> CoveredBy(lk, pd, r)
    BY <1>1, <1>2, SharedQuarterOverlaps DEF CoveredIn, CoveredBy
  <2>2. QED
    BY <1>2, <2>1 DEF Refresh
<1>3. CASE ~(r.device \in ds /\ Within(q, r.slot))
  BY <1>3 DEF Refresh, CoveredIn
<1>4. QED
  BY <1>2, <1>3

\* A refresh adds no flag to anything that is not a row.
LEMMA RefreshKeepsRows ==
    ASSUME NEW lk, NEW pd, NEW rs, NEW sup \in SUBSET rs, NEW ds, NEW q
    PROVE  Refresh(lk, pd, rs, sup, ds, q) \subseteq rs
BY DEF Refresh

\* _cover_older_files flags the rows of older files that the new file covers:
\* the shortcut for files whose devices are all in the new one changes
\* nothing, because a row's device is a device of its file.
LEMMA CoverOlderIsExact ==
    ASSUME NEW lk \in [Files -> SUBSET Devices], NEW f \in Files,
           NEW rs \in SUBSET Row, NEW sup \in SUBSET rs,
           NEW ds \in SUBSET Devices, NEW q \in Period,
           NEW r \in rs, r.device \in lk[r.file]
    PROVE  r \in CoverOlder(lk, f, rs, sup, ds, q) <=>
              r \in sup \/ (r.file < f /\ r.device \in ds /\ Within(q, r.slot))
BY DEF CoverOlder

----------------------------------------------------------------------------
(* The inductive invariant.                                                *)

LEMMA InitInv == Init => IInv
BY DEF Init, IInv, TypeOK, Status, RowsInTheirFile, DevicesOfCompletedFiles,
       FlagsFollowNewestFile, HomeIsDevicesOfFiles

\* A step that leaves the tables of contents alone and takes no file out of
\* "completed" preserves the invariant.
LEMMA StatusStepInv ==
    ASSUME IInv,
           UNCHANGED <<period, home, links, rows, superseded>>,
           status' \in [Files -> Status],
           simulations' \subseteq Files, uploading' \subseteq Files,
           \A f \in Files : status'[f] = "completed" <=> status[f] = "completed"
    PROVE  IInv'
BY DEF IInv, TypeOK, RowsInTheirFile, DevicesOfCompletedFiles,
       FlagsFollowNewestFile, Covered, HomeIsDevicesOfFiles, Within

\* What a save does to the tables of contents: it only adds to file f, which
\* had nothing before.
LEMMA SaveAdds ==
    ASSUME IInv, NEW f \in Files, NEW c \in Contents, SaveContents(f, c)
    PROVE  /\ c.devices \subseteq Devices /\ c.period \in Period
           /\ links[f] = {} /\ \A r \in rows : r.file # f
           /\ links' = [links EXCEPT ![f] = c.devices]
           /\ period' = [period EXCEPT ![f] = c.period]
           /\ RowsOf(f, c) \subseteq Row
           /\ \A r \in RowsOf(f, c) : /\ r.file = f
                                      /\ r.device \in c.devices
                                      /\ Within(c.period, r.slot)
<1>1. c \in [devices : SUBSET Devices, period : Period,
             usage : SUBSET [device : Devices, slot : Int]]
  BY ContentsAssumption
<1>2. links[f] = {} /\ \A r \in rows : r.file # f
  BY DEF IInv, TypeOK, RowsInTheirFile, DevicesOfCompletedFiles, SaveContents, SaveForFile
<1>3. \A r \in RowsOf(f, c) : /\ r \in Row
                              /\ r.file = f
                              /\ r.device \in c.devices
                              /\ Within(c.period, r.slot)
  <2> SUFFICES ASSUME NEW u \in c.usage
               PROVE  LET r == [file |-> f, device |-> u.device, slot |-> u.slot]
                      IN  /\ r \in Row
                          /\ r.file = f
                          /\ r.device \in c.devices
                          /\ Within(c.period, r.slot)
    BY DEF RowsOf
  <2>1. u \in [device : Devices, slot : Int]
    BY <1>1
  <2>2. u.device \in c.devices /\ c.period.start <= u.slot /\ u.slot < c.period.end
    BY ContentsAssumption
  <2>3. c.period # NoPeriod
    BY <1>1, NoPeriodAssumption
  <2>4. QED
    BY <2>1, <2>2, <2>3 DEF Row, Within
<1>4. QED
  BY <1>1, <1>2, <1>3 DEF SaveContents, SaveForFile

\* The rows of a save are typed and lie in their files.
LEMMA SaveTables ==
    ASSUME IInv, NEW f \in Files, NEW c \in Contents, SaveContents(f, c)
    PROVE  /\ links' \in [Files -> SUBSET Devices]
           /\ period' \in [Files -> Period \union {NoPeriod}]
           /\ rows' = rows \union RowsOf(f, c)
           /\ rows' \subseteq Row
           /\ superseded \subseteq rows'
           /\ RowsInTheirFile'
<1> USE SaveAdds
<1>1. links' \in [Files -> SUBSET Devices] /\ period' \in [Files -> Period \union {NoPeriod}]
  BY DEF IInv, TypeOK
<1>2. rows' = rows \union RowsOf(f, c)
  BY DEF SaveContents, SaveForFile
<1>3. rows' \subseteq Row /\ superseded \subseteq rows'
  BY <1>2 DEF IInv, TypeOK
<1>4. ASSUME NEW r \in rows'
      PROVE  r.device \in links'[r.file] /\ Within(period'[r.file], r.slot)
  <2>1. CASE r \in RowsOf(f, c)
    BY <2>1 DEF IInv, TypeOK
  <2>2. CASE r \in rows
    <3>1. r.file \in Files /\ r.file # f
      BY <2>2 DEF IInv, TypeOK, Row
    <3>2. QED
      BY <2>2, <3>1 DEF IInv, TypeOK, RowsInTheirFile
  <2>3. QED
    BY <1>2, <2>1, <2>2
<1>5. QED
  BY <1>1, <1>2, <1>3, <1>4 DEF RowsInTheirFile

\* A row of another file is covered after the save when it was before, or by
\* the new file.
LEMMA SaveCovers ==
    ASSUME IInv, NEW f \in Files, NEW c \in Contents, SaveContents(f, c),
           NEW r \in rows
    PROVE  CoveredBy(links', period', r) <=>
              Covered(r) \/ (r.file < f /\ r.device \in c.devices /\ Within(c.period, r.slot))
<1> USE SaveAdds, FilesAssumption
<1>1. r.file \in Files
  BY DEF IInv, TypeOK, Row
<1>2. \A g \in Files \ {f} : links'[g] = links[g] /\ period'[g] = period[g]
  BY DEF IInv, TypeOK
<1>3. links'[f] = c.devices /\ period'[f] = c.period
  BY DEF IInv, TypeOK
<1>4. QED
  BY <1>1, <1>2, <1>3 DEF CoveredBy, Covered

\* The flags after a save, along both paths.
LEMMA SaveFlags ==
    ASSUME IInv, NEW f \in Files, NEW c \in Contents, SaveContents(f, c)
    PROVE  superseded' \subseteq rows' /\ FlagsFollowNewestFile'
<1> DEFINE slow == HasNewerFile(links', period', f, c.devices, c.period)
<1> USE SaveAdds, SaveTables, FilesAssumption
<1>1. superseded' \subseteq rows'
  <2>1. CASE slow
    BY <2>1, RefreshKeepsRows DEF SaveContents, SaveForFile
  <2>2. CASE ~slow
    BY <2>2 DEF SaveContents, SaveForFile, CoverOlder
  <2>3. QED
    BY <2>1, <2>2
<1>2. ASSUME NEW r \in rows'
      PROVE  r \in superseded' <=> CoveredBy(links', period', r)
  <2>0. r \in Row /\ r.device \in links'[r.file]
    BY DEF RowsInTheirFile
  <2>1. CASE slow
    <3>1. superseded' = Refresh(links', period', rows', superseded, c.devices, c.period)
      BY <2>1 DEF SaveContents, SaveForFile
    <3>2. r \in superseded' <=>
             IF r.device \in c.devices /\ Within(c.period, r.slot)
             THEN CoveredBy(links', period', r)
             ELSE r \in superseded
      BY <2>0, <3>1, RefreshIsExact
    <3>3. CASE r \in rows
      BY <3>2, <3>3, SaveCovers DEF IInv, FlagsFollowNewestFile
    <3>4. CASE r \in RowsOf(f, c)
      BY <3>2, <3>4
    <3>5. QED
      BY <3>3, <3>4
  <2>2. CASE ~slow
    <3>1. superseded' = CoverOlder(links', f, rows', superseded, c.devices, c.period)
      BY <2>2 DEF SaveContents, SaveForFile
    <3>2. r \in superseded' <=>
             r \in superseded \/ (r.file < f /\ r.device \in c.devices /\ Within(c.period, r.slot))
      BY <2>0, <3>1, CoverOlderIsExact
    <3>3. CASE r \in rows
      BY <3>2, <3>3, SaveCovers DEF IInv, FlagsFollowNewestFile
    <3>4. CASE r \in RowsOf(f, c)
      <4>1. r \notin superseded'
        BY <3>2, <3>4 DEF IInv, TypeOK
      <4>2. ASSUME NEW g \in Files, g > f, r.device \in links'[g], Within(period'[g], r.slot)
            PROVE  slow
        <5>1. Overlaps(period'[g], c.period)
          BY <2>0, <3>4, <4>2, SharedQuarterOverlaps DEF Row
        <5>2. QED
          BY <3>4, <4>2, <5>1 DEF HasNewerFile
      <4>3. QED
        BY <2>2, <3>4, <4>1, <4>2 DEF CoveredBy
    <3>5. QED
      BY <3>3, <3>4
  <2>3. QED
    BY <2>1, <2>2
<1>3. QED
  BY <1>1, <1>2 DEF FlagsFollowNewestFile, Covered, CoveredBy

LEMMA SaveContentsInv ==
    ASSUME IInv, NEW f \in Files, NEW c \in Contents, SaveContents(f, c)
    PROVE  IInv'
<1> USE SaveAdds, SaveTables
<1>1. TypeOK'
  BY SaveFlags DEF IInv, TypeOK, SaveContents, SaveForFile, Status
<1>2. DevicesOfCompletedFiles'
  <2>1. /\ status' = [status EXCEPT ![f] = "completed"]
        /\ links' = [links EXCEPT ![f] = c.devices]
        /\ period' = [period EXCEPT ![f] = c.period]
        /\ c.period \in Period
    BY DEF SaveContents, SaveForFile
  <2>2. QED
    BY <2>1 DEF IInv, TypeOK, DevicesOfCompletedFiles
<1>3. HomeIsDevicesOfFiles'
  <2>1. \A d : (\E g \in Files : d \in links'[g]) <=> (\E g \in Files : d \in links[g]) \/ d \in c.devices
    BY DEF IInv, TypeOK
  <2>2. QED
    BY <2>1 DEF IInv, HomeIsDevicesOfFiles, SaveContents, SaveForFile
<1>4. QED
  BY <1>1, <1>2, <1>3, SaveFlags DEF IInv

----------------------------------------------------------------------------
\* A deletion takes from the other files nothing that they do not keep.
LEMMA DeleteTables ==
    ASSUME IInv, NEW f \in Files, DeleteFile(f)
    PROVE  /\ links' \in [Files -> SUBSET Devices]
           /\ period' \in [Files -> Period \union {NoPeriod}]
           /\ links'[f] = {}
           /\ \A g \in Files \ {f} : links'[g] = links[g] /\ period'[g] = period[g]
           /\ rows' = {r \in rows : r.file # f}
<1>1. \A g \in Files \ {f} : links[g] \intersect DevicesOnlyIn(f) = {}
  BY DEF DevicesOnlyIn
<1>2. links' = [g \in Files |-> IF g = f THEN {} ELSE links[g] \ DevicesOnlyIn(f)]
  BY DEF DeleteFile
<1>3. \A g \in Files \ {f} : links'[g] = links[g]
  BY <1>1, <1>2
<1>4. links' \in [Files -> SUBSET Devices] /\ links'[f] = {}
  BY <1>2 DEF IInv, TypeOK
<1>5. /\ period' \in [Files -> Period \union {NoPeriod}]
      /\ \A g \in Files \ {f} : period'[g] = period[g]
  BY DEF IInv, TypeOK, DeleteFile
<1>6. rows' = {r \in rows : r.file # f}
  <2>1. rows' = {r \in rows : r.file # f /\ r.device \notin DevicesOnlyIn(f)}
    BY DEF DeleteFile
  <2>2. \A r \in rows : r.file # f => r.device \notin DevicesOnlyIn(f)
    BY <1>1 DEF IInv, TypeOK, RowsInTheirFile, Row
  <2>3. QED
    BY <2>1, <2>2
<1>7. QED
  BY <1>3, <1>4, <1>5, <1>6

LEMMA DeleteFlags ==
    ASSUME IInv, NEW f \in Files, DeleteFile(f)
    PROVE  superseded' \subseteq rows' /\ FlagsFollowNewestFile'
<1> DEFINE ds == links[f]
<1> DEFINE sup == superseded \intersect rows'
<1> USE DeleteTables
<1>1. superseded' = IF ds = {} THEN sup ELSE Refresh(links', period', rows', sup, ds, period[f])
  BY DEF DeleteFile
<1>2. superseded' \subseteq rows'
  BY <1>1, RefreshKeepsRows
<1>3. ASSUME NEW r \in rows'
      PROVE  r \in superseded' <=> CoveredBy(links', period', r)
  <2>1. /\ r \in rows /\ r \in Row /\ r.file \in Files \ {f}
        /\ r.device \in links'[r.file]
    BY DEF IInv, TypeOK, RowsInTheirFile, Row
  <2>2. CASE ds # {} /\ r.device \in ds /\ Within(period[f], r.slot)
    <3>1. period[f] \in Period /\ ds \in SUBSET Devices
      BY <2>2 DEF IInv, TypeOK, DevicesOfCompletedFiles
    <3>2. rows' \in SUBSET Row
      BY DEF IInv, TypeOK
    <3>3. QED
      BY <1>1, <2>1, <2>2, <3>1, <3>2, RefreshIsExact
  <2>3. CASE ~(ds # {} /\ r.device \in ds /\ Within(period[f], r.slot))
    <3>1. CoveredBy(links', period', r) <=> Covered(r)
      BY <2>1, <2>3 DEF CoveredBy, Covered
    <3>2. r \in superseded' <=> r \in superseded
      BY <1>1, <2>3 DEF Refresh, CoveredIn
    <3>3. QED
      BY <2>1, <3>1, <3>2 DEF IInv, FlagsFollowNewestFile
  <2>4. QED
    BY <2>2, <2>3
<1>4. QED
  BY <1>2, <1>3 DEF FlagsFollowNewestFile, Covered, CoveredBy

LEMMA DeleteFileInv ==
    ASSUME IInv, NEW f \in Files, DeleteFile(f)
    PROVE  IInv'
<1> USE DeleteTables
<1>1. TypeOK'
  BY DeleteFlags DEF IInv, TypeOK, DeleteFile, Status
<1>2. RowsInTheirFile'
  BY DEF IInv, TypeOK, RowsInTheirFile, Row
<1>3. DevicesOfCompletedFiles'
  BY DEF IInv, TypeOK, DevicesOfCompletedFiles, DeleteFile
<1>4. HomeIsDevicesOfFiles'
  <2>1. home' = home \ DevicesOnlyIn(f)
    BY DEF DeleteFile
  <2>2. \A d : (\E g \in Files : d \in links'[g]) <=>
                  (\E g \in Files : d \in links[g]) /\ d \notin DevicesOnlyIn(f)
    BY DEF DevicesOnlyIn
  <2>3. QED
    BY <2>1, <2>2 DEF IInv, HomeIsDevicesOfFiles
<1>5. QED
  BY <1>1, <1>2, <1>3, <1>4, DeleteFlags DEF IInv

----------------------------------------------------------------------------
LEMMA NextInv == IInv /\ [Next]_vars => IInv'
<1> SUFFICES ASSUME IInv, [Next]_vars PROVE IInv'
  OBVIOUS
<1>1. ASSUME NEW f \in Files, CreateFile(f) PROVE IInv'
  BY <1>1, StatusStepInv DEF CreateFile, IInv, TypeOK, Status
<1>2. ASSUME NEW f \in Files, MarkFailed(f) PROVE IInv'
  BY <1>2, StatusStepInv DEF MarkFailed, IInv, TypeOK, Status
<1>3. ASSUME NEW f \in Files, NEW c \in Contents, SaveContents(f, c) PROVE IInv'
  BY <1>3, SaveContentsInv
<1>4. ASSUME NEW f \in Files, SaveSimulation(f) PROVE IInv'
  BY <1>4, StatusStepInv DEF SaveSimulation, IInv, TypeOK
<1>5. ASSUME NEW f \in Files, LoseUpload(f) PROVE IInv'
  BY <1>5, StatusStepInv DEF LoseUpload, IInv, TypeOK
<1>6. ASSUME NEW f \in Files, DeleteFile(f) PROVE IInv'
  BY <1>6, DeleteFileInv
<1>7. CASE UNCHANGED vars
  BY <1>7, StatusStepInv DEF vars, IInv, TypeOK
<1>8. QED
  BY <1>1, <1>2, <1>3, <1>4, <1>5, <1>6, <1>7 DEF Next

LEMMA SpecInv == Spec => []IInv
BY InitInv, NextInv, PTL DEF Spec

\* Every table keeps its type, for any number of files, devices and contents.
THEOREM TypesHold == Spec => []TypeOK
<1>1. IInv => TypeOK
  BY DEF IInv
<1>2. QED
  BY <1>1, SpecInv, PTL

\* The flags follow the rule of refresh_superseded after any sequence of
\* uploads, late saves, failures and deletions.
THEOREM FlagsAreRight == Spec => []FlagsFollowNewestFile
<1>1. IInv => FlagsFollowNewestFile
  BY DEF IInv
<1>2. QED
  BY <1>1, SpecInv, PTL

\* The home holds the devices of its files and no other.
THEOREM HomeIsExact == Spec => []HomeIsDevicesOfFiles
<1>1. IInv => HomeIsDevicesOfFiles
  BY DEF IInv
<1>2. QED
  BY <1>1, SpecInv, PTL

\* Of two rows of one quarter-hour and device, the older is covered by the file
\* of the newer.
LEMMA FlagsExcludeDoubles == IInv => NoQuarterCountedTwice
<1> SUFFICES ASSUME IInv,
                    NEW r \in rows \ superseded, NEW s \in rows \ superseded,
                    r.device = s.device, r.slot = s.slot
             PROVE  r = s
  BY DEF NoQuarterCountedTwice
<1>1. ASSUME NEW x \in rows \ superseded, NEW y \in rows,
             x.device = y.device, x.slot = y.slot
      PROVE  ~(y.file > x.file)
  <2>1. y.file \in Files
    BY DEF IInv, TypeOK, Row
  <2>2. y.file > x.file => Covered(x)
    BY <1>1, <2>1 DEF IInv, RowsInTheirFile, Covered
  <2>3. QED
    BY <2>2 DEF IInv, FlagsFollowNewestFile
<1>2. r \in Row /\ s \in Row
  BY DEF IInv, TypeOK
<1>3. ~(r.file > s.file) /\ ~(s.file > r.file)
  BY <1>1
<1>4. r.file \in Nat /\ s.file \in Nat
  BY <1>2, FilesAssumption DEF Row
<1>5. r.file = s.file
  BY <1>3, <1>4
<1>6. QED
  BY <1>2, <1>5 DEF Row

\* No quarter-hour of a device is summed twice.
THEOREM NoDoubleCounting == Spec => []NoQuarterCountedTwice
BY FlagsExcludeDoubles, SpecInv, PTL

\* A save flags only rows of older files, of its devices and inside its
\* period, and restores none.
THEOREM UploadOnlyCovers == Spec => UploadOnlyCoversOlderRows
<1>1. ASSUME IInv, NEW f \in Files, NEW c \in Contents, SaveContents(f, c)
      PROVE  /\ superseded \subseteq superseded'
             /\ \A r \in rows \intersect (superseded' \ superseded) :
                   /\ r.file < f
                   /\ r.device \in c.devices
                   /\ Within(c.period, r.slot)
  <2>1. \A r \in rows :
           /\ r \in superseded <=> Covered(r)
           /\ r \in superseded' <=>
                 Covered(r) \/ (r.file < f /\ r.device \in c.devices /\ Within(c.period, r.slot))
    <3> SUFFICES ASSUME NEW r \in rows
                 PROVE  /\ r \in superseded <=> Covered(r)
                        /\ r \in superseded' <=>
                              \/ Covered(r)
                              \/ r.file < f /\ r.device \in c.devices /\ Within(c.period, r.slot)
      OBVIOUS
    <3>1. r \in superseded <=> Covered(r)
      BY <1>1 DEF IInv, FlagsFollowNewestFile
    <3>2. r \in rows'
      BY <1>1, SaveTables
    <3>3. r \in superseded' <=> CoveredBy(links', period', r)
      BY <1>1, <3>2, SaveFlags DEF FlagsFollowNewestFile, Covered, CoveredBy
    <3>4. QED
      BY <1>1, <3>1, <3>3, SaveCovers
  <2>2. superseded \subseteq rows
    BY <1>1 DEF IInv, TypeOK
  <2>3. QED
    BY <2>1, <2>2
<1>2. IInv /\ [Next]_vars =>
         [\A f \in Files, c \in Contents : SaveContents(f, c) =>
             /\ superseded \subseteq superseded'
             /\ \A r \in rows \intersect (superseded' \ superseded) :
                   /\ r.file < f
                   /\ r.device \in c.devices
                   /\ Within(c.period, r.slot)]_vars
  BY <1>1
<1>3. QED
  BY <1>2, SpecInv, PTL DEF Spec, UploadOnlyCoversOlderRows

----------------------------------------------------------------------------
(* The refinement of NewestWins.                                           *)

UsageOf(rs, f) == {[device |-> r.device, slot |-> r.slot] : r \in {s \in rs : s.file = f}}

LEMMA CoversAsLinks ==
    ASSUME IInv, NEW f \in Files, NEW d, NEW t
    PROVE  Merge!Covers(Library[f], d, t) <=> d \in links[f] /\ Within(period[f], t)
<1>1. CASE status[f] = "completed"
  <2>1. Library[f].devices = links[f] /\ Library[f].period = period[f]
    BY <1>1 DEF Library
  <2>2. period[f] # NoPeriod
    BY <1>1, NoPeriodAssumption DEF IInv, DevicesOfCompletedFiles
  <2>3. QED
    BY <2>1, <2>2 DEF Merge!Covers, Within
<1>2. CASE status[f] # "completed"
  <2>1. Library[f].devices = {} /\ links[f] = {}
    BY <1>2 DEF Library, IInv, DevicesOfCompletedFiles
  <2>2. QED
    BY <2>1 DEF Merge!Covers
<1>3. QED
  BY <1>1, <1>2

\* The files' energy in the library is the table of rows.
LEMMA EnergyIsRows ==
    ASSUME IInv PROVE Merge!EnergyRows(Library) = rows
<1>1. ASSUME NEW r \in rows PROVE r \in Merge!EnergyRows(Library)
  <2>1. r \in Row
    BY DEF IInv, TypeOK
  <2>2. r.file \in Files /\ r = [file |-> r.file, device |-> r.device, slot |-> r.slot]
    BY <2>1 DEF Row
  <2>3. status[r.file] = "completed"
    BY <2>2 DEF IInv, RowsInTheirFile, DevicesOfCompletedFiles
  <2>4. Library[r.file].usage = UsageOf(rows, r.file)
    BY <2>2, <2>3 DEF Library, UsageOf
  <2> DEFINE u == [device |-> r.device, slot |-> r.slot]
  <2>5. u \in Library[r.file].usage
    BY <2>4 DEF UsageOf
  <2>6. r = [file |-> r.file, device |-> u.device, slot |-> u.slot]
    BY <2>2
  <2>7. QED
    BY <2>2, <2>5, <2>6 DEF Merge!EnergyRows
<1>2. ASSUME NEW r \in Merge!EnergyRows(Library) PROVE r \in rows
  <2>0. PICK f \in Files : \E u \in Library[f].usage :
           r = [file |-> f, device |-> u.device, slot |-> u.slot]
    BY DEF Merge!EnergyRows
  <2>1. PICK u \in Library[f].usage :
           r = [file |-> f, device |-> u.device, slot |-> u.slot]
    BY <2>0
  <2>2. CASE status[f] = "completed"
    <3>1. Library[f].usage = UsageOf(rows, f)
      BY <2>2 DEF Library, UsageOf
    <3>2. PICK s \in rows : s.file = f /\ u = [device |-> s.device, slot |-> s.slot]
      BY <3>1 DEF UsageOf
    <3>3. s \in Row
      BY DEF IInv, TypeOK
    <3>4. r = s
      BY <2>1, <3>2, <3>3 DEF Row
    <3>5. QED
      BY <3>4
  <2>3. CASE status[f] # "completed"
    BY <2>3 DEF Library
  <2>4. QED
    BY <2>2, <2>3
<1>3. QED
  BY <1>1, <1>2

LEMMA CurrentIsMerged == IInv => rows \ superseded = Merge!Merged(Library)
<1> SUFFICES ASSUME IInv PROVE rows \ superseded = Merge!Merged(Library)
  OBVIOUS
<1>1. ASSUME NEW r \in rows
      PROVE  r \notin superseded <=> Merge!Owns(Library, r.file, r.device, r.slot)
  <2>1. r.file \in Files /\ r.file \in Nat
    BY FilesAssumption DEF IInv, TypeOK, Row
  <2>2. Merge!Covers(Library[r.file], r.device, r.slot)
    BY <2>1, CoversAsLinks DEF IInv, RowsInTheirFile
  <2>3. \A g \in Files : Merge!Covers(Library[g], r.device, r.slot) <=>
                            r.device \in links[g] /\ Within(period[g], r.slot)
    BY CoversAsLinks
  <2>4. \A g \in Files : ~(g > r.file) <=> g <= r.file
    BY <2>1, FilesAssumption
  <2>5. Merge!Owns(Library, r.file, r.device, r.slot) <=> ~Covered(r)
    BY <2>2, <2>3, <2>4 DEF Merge!Owns, Covered
  <2>6. QED
    BY <2>5 DEF IInv, FlagsFollowNewestFile
<1>2. QED
  BY <1>1, EnergyIsRows DEF Merge!Merged

\* Only the completed files, their devices, periods and rows matter to the
\* library.
LEMMA SameEntry ==
    ASSUME NEW g \in Files,
           status'[g] = "completed" <=> status[g] = "completed",
           links'[g] = links[g], period'[g] = period[g],
           {s \in rows' : s.file = g} = {s \in rows : s.file = g}
    PROVE  Library'[g] = Library[g]
BY DEF Library

\* Functions on Files that agree but at f.
LEMMA ExceptAtFile ==
    ASSUME NEW F, NEW G, F = [g \in Files |-> F[g]], G = [g \in Files |-> G[g]],
           NEW f \in Files, NEW x, G[f] = x,
           \A g \in Files \ {f} : G[g] = F[g]
    PROVE  G = [F EXCEPT ![f] = x]
OBVIOUS

LEMMA LibraryIsFunction ==
    /\ Library = [g \in Files |-> Library[g]]
    /\ Library' = [g \in Files |-> Library'[g]]
BY DEF Library

LEMMA NextCurrentIsMerged ==
    ASSUME IInv' PROVE (rows \ superseded)' = Merge!Merged(Library')
<1>1. (rows \ superseded = Merge!Merged(Library))'
  BY CurrentIsMerged, PTL
<1>2. QED
  BY <1>1

LEMMA SaveStores ==
    ASSUME IInv, IInv', NEW f \in Files, NEW c \in Contents, SaveContents(f, c)
    PROVE  Merge!Store(f, c)
<1> USE SaveAdds, SaveTables
<1>1. Library[f] = Merge!Nothing
  BY DEF Library, Merge!Nothing, SaveContents, SaveForFile
<1>2. ASSUME NEW g \in Files \ {f} PROVE Library'[g] = Library[g]
  <2>1. {s \in rows' : s.file = g} = {s \in rows : s.file = g}
    OBVIOUS
  <2>2. /\ status'[g] = "completed" <=> status[g] = "completed"
        /\ links'[g] = links[g] /\ period'[g] = period[g]
    BY DEF IInv, TypeOK, SaveContents, SaveForFile
  <2>3. QED
    BY <2>1, <2>2, SameEntry
<1>3. Library'[f] = c
  <2>1. c \in [devices : SUBSET Devices, period : Period,
               usage : SUBSET [device : Devices, slot : Int]]
    BY ContentsAssumption
  <2>2. status'[f] = "completed" /\ links'[f] = c.devices /\ period'[f] = c.period
    BY DEF IInv, TypeOK, SaveContents, SaveForFile
  <2>3. UsageOf(rows', f) = c.usage
    <3>1. \A s \in rows' : s.file = f <=> s \in RowsOf(f, c)
      OBVIOUS
    <3>2. \A u \in c.usage : u = [device |-> u.device, slot |-> u.slot]
      BY <2>1
    <3>3. ASSUME NEW u \in c.usage PROVE u \in UsageOf(rows', f)
      <4> DEFINE s == [file |-> f, device |-> u.device, slot |-> u.slot]
      <4>1. s \in RowsOf(f, c)
        BY DEF RowsOf
      <4>2. s \in rows' /\ s.file = f /\ u = [device |-> s.device, slot |-> s.slot]
        BY <3>2, <4>1
      <4>3. QED
        BY <4>2 DEF UsageOf
    <3>4. ASSUME NEW u \in UsageOf(rows', f) PROVE u \in c.usage
      <4>1. PICK s \in RowsOf(f, c) : u = [device |-> s.device, slot |-> s.slot]
        BY <3>1 DEF UsageOf
      <4>2. PICK v \in c.usage : s = [file |-> f, device |-> v.device, slot |-> v.slot]
        BY DEF RowsOf
      <4>3. s.device = v.device /\ s.slot = v.slot
        BY <4>2
      <4>4. v = [device |-> v.device, slot |-> v.slot]
        BY <3>2
      <4>5. u = v
        BY <4>1, <4>3, <4>4
      <4>6. QED
        BY <4>5
    <3>5. QED
      BY <3>3, <3>4, ZenonT(30)
  <2>4. Library'[f] = [devices |-> c.devices, period |-> c.period, usage |-> c.usage]
    BY <2>2, <2>3 DEF Library, UsageOf
  <2>5. QED
    BY <2>1, <2>4
<1>4. Library' = [Library EXCEPT ![f] = c]
  BY <1>2, <1>3, LibraryIsFunction, ExceptAtFile
<1>5. (rows \ superseded)' = Merge!Merged(Library')
  BY NextCurrentIsMerged
<1>6. QED
  BY <1>1, <1>4, <1>5 DEF Merge!Store

LEMMA DeleteRemoves ==
    ASSUME IInv, IInv', NEW f \in Files, DeleteFile(f)
    PROVE  Merge!Remove(f) \/ UNCHANGED <<Library, rows \ superseded>>
<1> USE DeleteTables
<1>1. ASSUME NEW g \in Files \ {f} PROVE Library'[g] = Library[g]
  <2>1. {s \in rows' : s.file = g} = {s \in rows : s.file = g}
    OBVIOUS
  <2>2. /\ status'[g] = "completed" <=> status[g] = "completed"
        /\ links'[g] = links[g] /\ period'[g] = period[g]
    BY DEF IInv, TypeOK, DeleteFile
  <2>3. QED
    BY <2>1, <2>2, SameEntry
<1>2. Library'[f] = Merge!Nothing
  BY DEF Library, Merge!Nothing, DeleteFile, IInv, TypeOK
<1>3. Library' = [Library EXCEPT ![f] = Merge!Nothing]
  BY <1>1, <1>2, LibraryIsFunction, ExceptAtFile
<1>4. (rows \ superseded)' = Merge!Merged(Library')
  BY NextCurrentIsMerged
<1>5. rows \ superseded = Merge!Merged(Library)
  BY CurrentIsMerged
<1>6. CASE Library[f] = Merge!Nothing
  <2>1. Library' = Library
    BY <1>3, <1>6, LibraryIsFunction
  <2>2. QED
    BY <1>4, <1>5, <2>1
<1>7. CASE Library[f] # Merge!Nothing
  BY <1>3, <1>4, <1>7 DEF Merge!Remove
<1>8. QED
  BY <1>6, <1>7

\* The other commits leave the library alone.
LEMMA StatusStepStutters ==
    ASSUME UNCHANGED <<period, home, links, rows, superseded>>,
           \A f \in Files : status'[f] = "completed" <=> status[f] = "completed"
    PROVE  UNCHANGED <<Library, rows \ superseded>>
BY DEF Library

\* The tables, with their flags kept by increments, implement the rule of
\* NewestWins: every commit of the requests is a Store, a Remove or a stutter.
THEOREM FlagsImplementMerging == Spec => MergesByNewestFile
<1>1. Init => Merge!Init
  BY DEF Init, Merge!Init, Library, Merge!Nothing
<1>2. IInv /\ IInv' /\ [Next]_vars => [Merge!Next]_<<Library, rows \ superseded>>
  <2> SUFFICES ASSUME IInv, IInv', [Next]_vars
               PROVE  Merge!Next \/ UNCHANGED <<Library, rows \ superseded>>
    OBVIOUS
  <2>1. ASSUME NEW f \in Files, CreateFile(f) \/ MarkFailed(f) \/ SaveSimulation(f) \/ LoseUpload(f)
        PROVE  UNCHANGED <<Library, rows \ superseded>>
    BY <2>1, StatusStepStutters
       DEF IInv, TypeOK, CreateFile, MarkFailed, SaveSimulation, LoseUpload
  <2>2. ASSUME NEW f \in Files, NEW c \in Contents, SaveContents(f, c)
        PROVE  Merge!Next
    BY <2>2, SaveStores DEF Merge!Next
  <2>3. ASSUME NEW f \in Files, DeleteFile(f)
        PROVE  Merge!Next \/ UNCHANGED <<Library, rows \ superseded>>
    BY <2>3, DeleteRemoves DEF Merge!Next
  <2>4. CASE UNCHANGED vars
    BY <2>4, StatusStepStutters DEF vars
  <2>5. QED
    BY <2>1, <2>2, <2>3, <2>4 DEF Next
<1>3. QED
  BY <1>1, <1>2, SpecInv, PTL DEF Spec, MergesByNewestFile, Merge!Spec
=============================================================================
