---------------------------- MODULE MCSemaphores ----------------------------
(***************************************************************************)
(* Instances of Semaphores for TLC: three slots and one left over, one     *)
(* user name, and processes created at the level of the shell.             *)
(***************************************************************************)
EXTENDS Semaphores
=============================================================================
