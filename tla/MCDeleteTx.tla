----------------------------- MODULE MCDeleteTx -----------------------------
(***************************************************************************)
(* DeleteTx for TLC: three files of one or two devices, one of them without *)
(* energy in its period.                                                    *)
(***************************************************************************)
EXTENDS DeleteTx

CONSTANTS d1, d2

MCFiles == 1 .. 3
MCDevices == {d1, d2}

At0(ds, busy) ==
    [devices |-> ds, period |-> [start |-> 0, end |-> 1], usage |-> [device : busy, slot : {0}]]

MCDeleted == {2}
MCAllTime == [start |-> -9, end |-> 9]

MCContents == {At0({d1}, {d1}), At0({d1}, {})}
=============================================================================
