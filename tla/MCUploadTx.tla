----------------------------- MODULE MCUploadTx -----------------------------
(***************************************************************************)
(* UploadTx for TLC: three uploads at the same time, of one or both devices *)
(* over one or two quarter-hours, or of a meter file.                       *)
(***************************************************************************)
EXTENDS UploadTx

CONSTANTS d1, d2

MCFiles == 1 .. 3
MCDevices == {d1, d2}

Full(ds, first, last) ==
    [devices |-> ds, period |-> [start |-> first, end |-> last + 1],
     usage |-> [device : ds, slot : first .. last]]

MCContents ==
    {Full({d1}, 0, 1), Full({d2}, 1, 1), Full({d1, d2}, 1, 1), Full({}, 0, 0)}
=============================================================================
