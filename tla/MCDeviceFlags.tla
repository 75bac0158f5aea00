--------------------------- MODULE MCDeviceFlags ---------------------------
(***************************************************************************)
(* DeviceFlags for TLC: three files, two devices, periods within two       *)
(* quarter-hours.  A device file describes one or both devices and has     *)
(* energy in each quarter-hour of its period or in none; a meter file has  *)
(* no devices.                                                             *)
(***************************************************************************)
EXTENDS DeviceFlags, TLC

CONSTANTS d1, d2

MCFiles == 1 .. 3
MCDevices == {d1, d2}
LastSlot == 2

MCPeriods == {p \in [start : 0 .. LastSlot, end : 0 .. LastSlot] : p.start < p.end}

DeviceContents ==
    UNION {{[devices |-> ds, period |-> p, usage |-> [device : ds, slot : busy]] :
               busy \in {{}, p.start .. (p.end - 1)}} :
              ds \in SUBSET MCDevices \ {{}}, p \in MCPeriods}

MeterContent ==
    [devices |-> {}, period |-> [start |-> 0, end |-> LastSlot], usage |-> {}]

MCContents == DeviceContents \union {MeterContent}

Symmetry == Permutations(MCDevices)
=============================================================================
