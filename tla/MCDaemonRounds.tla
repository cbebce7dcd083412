--------------------------- MODULE MCDaemonRounds ---------------------------
(* Three names: a task, one ahead of it or arriving behind it, and one     *)
(* that keeps coming in a folder above or below.                           *)
EXTENDS DaemonRounds

CONSTANTS i1, i2, i3
=============================================================================
