------------------------------- MODULE MCKernel --------------------------------
(***************************************************************************)
(* The heap and the locks of the semaphores share nothing that the models  *)
(* keep: one instance for TLC has both, the first state says which one is  *)
(* looked at, and the other stands still.                                  *)
(***************************************************************************)
EXTENDS Managers, SemLock, TLC

VARIABLE part

partvars == <<part, managersvars, lockvars>>

PartsInit ==
  /\ part \in {"heap", "locks"}
  /\ ManagersInit /\ LockInit
  /\ part = "locks" => \A size \in HeapSizes : heap_size <= size

HeapStep == part = "heap" /\ ManagersNext /\ UNCHANGED <<part, lockvars>>
LockStep == part = "locks" /\ LockNext /\ UNCHANGED <<part, managersvars>>

PartsSpec == PartsInit /\ [][HeapStep \/ LockStep]_partvars

\* The pointers are alike.
AnyPointer == Permutations(Pointers)
=============================================================================
