-------------------------------- MODULE MCPipes --------------------------------
(***************************************************************************)
(* Instances of Pipes for TLC: one pipe, a process at each end.            *)
(***************************************************************************)
EXTENDS Pipes
=============================================================================
