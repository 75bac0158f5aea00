-------------------------- MODULE MCHubSupervisor --------------------------
(***************************************************************************)
(* HubSupervisor for TLC: three devices for two ports; requests that add,   *)
(* remove, swap, edit and restart devices, and one with too many.           *)
(***************************************************************************)
EXTENDS HubSupervisor

CONSTANTS a, b, c

Item(d, w, n) == [device |-> d, works |-> w, name |-> n]

MCDevices == {a, b, c}
MCRequests ==
    {<<Item(a, "x", "m"), Item(b, "x", "m")>>, <<Item(a, "x", "n")>>, <<Item(a, "y", "m")>>,
     <<Item(b, "x", "m"), Item(c, "x", "m")>>,
     <<Item(a, "x", "m"), Item(b, "x", "m"), Item(c, "x", "m")>>}
=============================================================================
