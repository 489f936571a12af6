--------------------------------- MODULE TestPrio ---------------------------------
(***************************************************************************)
(* The command test_prio (Userland/shell/commands/test_prio.c): three      *)
(* times over it creates processes that count up to one global variable,   *)
(* the second time changing their priorities, the third blocking them      *)
(* first, and polls ps until none is left.  It can be run in the           *)
(* background, so two of them may share the variable.  The priorities      *)
(* decide who counts first; they are left out, and any order is possible.  *)
(***************************************************************************)
EXTENDS Integers

CONSTANTS
  Runs,              \* the processes that run the command, one after Ctrl+C or in the background
  TOTAL_PROCESSES,   \* 3
  MaxValue           \* bound of the model: the largest argument

ASSUME TestPrioAssumption == TOTAL_PROCESSES \in Nat \ {0} /\ MaxValue \in Nat \ {0}

VARIABLES
  max_value,
  run,           \* of each run: where it stands, its phase, i
  counter,       \* of each run and i: the process it created last, where its loop is
  overwritten    \* ghost: max_value was set again under a run

priovars == <<max_value, run, counter, overwritten>>

Indices == 1..TOTAL_PROCESSES
Gone    == [at |-> "gone", value |-> 0]
Working(r) == run[r].at \notin {"idle", "over"}

PrioInit ==
  /\ max_value = 0
  /\ run = [r \in Runs |-> [at |-> "idle", phase |-> 1, i |-> 1]]
  /\ counter = [r \in Runs |-> [i \in Indices |-> Gone]]
  /\ overwritten = FALSE

\* The argument is stored before it is looked at.
StartTestPrio(r, n) ==
  /\ run[r].at = "idle"
  /\ max_value' = n
  /\ run' = [run EXCEPT ![r].at = IF n = 0 THEN "over" ELSE "create"]
  /\ overwritten' = (overwritten \/ (max_value # n /\ \E q \in Runs : Working(q)))
  /\ UNCHANGED counter

-----------------------------------------------------------------------------
(* A phase: a loop over i that creates, in the third phase one that        *)
(* unblocks, and one that waits.                                           *)

LastIndex(r) == run[r].i = TOTAL_PROCESSES
Current(r) == counter[r][run[r].i]
\* The next turn of a loop begins at "first"; after the last one comes "after".
NextTurn(r, first, after) ==
  run' = [run EXCEPT ![r].at = IF LastIndex(r) THEN after ELSE first,
                     ![r].i  = IF LastIndex(r) THEN 1 ELSE @ + 1]

Blocks(r) == run[r].phase = 3
Created(r, c) ==
  /\ run[r].at = "create"
  /\ counter' = [counter EXCEPT ![r][run[r].i] = c]
  /\ IF Blocks(r) THEN run' = [run EXCEPT ![r].at = "block"] ELSE NextTurn(r, "create", "await")
  /\ UNCHANGED <<max_value, overwritten>>
CreateCounter(r) == Created(r, [at |-> "counting", value |-> 0])
\* create_process returns -1, a pid that block, unblock and ps do not know.
CreateCounterFails(r) == Created(r, Gone)

\* The process may be over before it is blocked.
BlockCounter(r) ==
  /\ run[r].at = "block"
  /\ counter' = [counter EXCEPT ![r][run[r].i].at = IF @ = "counting" THEN "blocked" ELSE @]
  /\ NextTurn(r, "create", "unblock")
  /\ UNCHANGED <<max_value, overwritten>>

\* Mutant: block and unblock are the same call.
UnblockedNot(c) == c
Unblocked(c) == IF c.at = "blocked" THEN [c EXCEPT !.at = "counting"] ELSE c
UnblockCounter(r) ==
  /\ run[r].at = "unblock"
  /\ counter' = [counter EXCEPT ![r][run[r].i] = Unblocked(@)]
  /\ NextTurn(r, "unblock", "await")
  /\ UNCHANGED <<max_value, overwritten>>

\* await_process, and the next phase after the last one.
AwaitProcess(r) ==
  /\ run[r].at = "await" /\ Current(r).at = "gone"
  /\ IF LastIndex(r) /\ run[r].phase < 3
       THEN run' = [run EXCEPT ![r] = [at |-> "create", phase |-> @.phase + 1, i |-> 1]]
       ELSE NextTurn(r, "await", "over")
  /\ UNCHANGED <<max_value, counter, overwritten>>

\* zero_to_max: the old value is compared, the global read anew each time.
\* A value beyond every argument stands for all of them.
ZeroToMax(r, i) ==
  /\ counter[r][i].at = "counting"
  /\ counter' = [counter EXCEPT ![r][i] =
       IF @.value = max_value THEN Gone
       ELSE [@ EXCEPT !.value = IF @ > MaxValue THEN @ ELSE @ + 1]]
  /\ UNCHANGED <<max_value, run, overwritten>>

RunStep(r) ==
  \/ CreateCounter(r) \/ CreateCounterFails(r) \/ BlockCounter(r)
  \/ UnblockCounter(r) \/ AwaitProcess(r)
PrioSystem == \E r \in Runs : RunStep(r) \/ \E i \in Indices : ZeroToMax(r, i)
PrioNext == PrioSystem \/ \E r \in Runs, n \in 0..MaxValue : StartTestPrio(r, n)

\* The CPU runs some ready process: each of them ends or waits after finitely
\* many steps, those of the highest priority too, as long as nothing was
\* overwritten.
PrioFairness == WF_priovars(PrioSystem)

PrioSpec == PrioInit /\ [][PrioNext]_priovars /\ PrioFairness

-----------------------------------------------------------------------------
\* Every run of the command ends, whichever processes could be created and however fast they
\* count, unless another run gives the shared variable another value meanwhile:
\* then a process that is past it counts on, and one of the highest priority
\* leaves nothing to any other process.
NoneWorking == \A r \in Runs : ~Working(r)
TestPrioEnds == []<>(NoneWorking \/ overwritten)
=============================================================================
