---------------------------- MODULE MCPriceSync ----------------------------
(***************************************************************************)
(* PriceSync for TLC: a job of the worker and the API or the command line,  *)
(* two days of two quarters, published in part and then in full with the   *)
(* first price corrected.                                                   *)
(***************************************************************************)
EXTENDS PriceSync

CONSTANTS daily, manual, q1, q2

MCSyncs == {daily, manual}
MCJobs == {daily}
MCProcesses == {{daily}, {manual}}
MCDays == 1 .. 2
MCQuarters == {q1, q2}
MCPublications == <<{q1}, {q1, q2}>>
=============================================================================
