--------------------------- MODULE MCDeviceDriver ---------------------------
(***************************************************************************)
(* DeviceDriver for TLC: a device without programs that gives energy (a     *)
(* photovoltaic one), or one with a program of one quarter and a program of *)
(* two, quarters of two units of time.                                      *)
(***************************************************************************)
EXTENDS DeviceDriver

CONSTANTS short, long

MCConfigs == {{}, {short, long}}
MCProfile == [p \in {short, long} |-> IF p = short THEN <<2>> ELSE <<1, 3>>]
MCPower == -1
=============================================================================
