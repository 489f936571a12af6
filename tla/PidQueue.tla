-------------------------------- MODULE PidQueue ------------------------------
(***************************************************************************)
(* The queue of pids of a semaphore (Kernel/sem/sem.c), and the loop by    *)
(* which sem_remove_pid takes a dead process out of it.                    *)
(***************************************************************************)
EXTENDS Naturals, Sequences, FiniteSets

\* The entries that stay move down past those that go.
Staying(q, p) == {k \in 1..Len(q) : q[k] # p}
Compacted(q, p) ==
  LET S == Staying(q, p) IN
  [k \in 1..Cardinality(S) |->
     q[CHOOSE j \in S : Cardinality({i \in S : i <= j}) = k]]
=============================================================================
