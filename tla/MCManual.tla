------------------------------ MODULE MCManual ------------------------------
(* Small instances of the manual commands: two processes on four numbers,   *)
(* and one process on five.                                                 *)
EXTENDS ManualLifecycle
=============================================================================
