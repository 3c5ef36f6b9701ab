------------------------------- MODULE MCLsm -------------------------------
(* One key, four puts, two compactors, merged files up to number 2 and one *)
(* restart: enough for two flushes, compactions of their output that wait  *)
(* for each other, a flush that takes the number of a merged file, an      *)
(* exception at any file operation and a crash between any two steps.      *)
EXTENDS Lsm
=============================================================================
