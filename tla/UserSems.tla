------------------------------- MODULE UserSems --------------------------------
(***************************************************************************)
(* One semaphore as a user program sees it.  Module Semaphores shows how   *)
(* the kernel keeps it over the scheduler; here a process that sem_wait    *)
(* puts to sleep goes on in the step that wakes it.  The programs keep     *)
(* their semaphore ids, so an entry that is closed is not reused.          *)
(***************************************************************************)
EXTENDS Integers, PidQueue

NoSemaphore == [active |-> FALSE, value |-> 0, users |-> 0, waiting |-> <<>>]

\* sem_open: a semaphore that exists keeps its value.
OpenedWith(s, v) ==
  IF s.active THEN [s EXCEPT !.users = @ + 1]
              ELSE [active |-> TRUE, value |-> v, users |-> 1, waiting |-> <<>>]

\* sem_close, and the processes it wakes.
ClosedOnce(s) ==
  IF ~s.active THEN s
  ELSE IF s.users = 1 THEN NoSemaphore ELSE [s EXCEPT !.users = @ - 1]
WokenByClose(s) == IF s.active /\ s.users = 1 THEN s.waiting ELSE <<>>

\* sem_wait returns at once: with the token, or with -1 that no program tests.
WaitReturns(s) == ~s.active \/ s.value > 0
TokenTaken(s) == IF s.active THEN [s EXCEPT !.value = @ - 1] ELSE s
WithWaiter(s, p) == [s EXCEPT !.waiting = Append(@, p)]

\* sem_post, and whom it tries to wake.  Mutants: the value grows in any case;
\* it does not when nobody waits.
AfterPostForWaiters(s) ==
  IF s.active /\ s.waiting # <<>> THEN [s EXCEPT !.waiting = Tail(@)] ELSE s
AfterPostAlways(s) ==
  IF ~s.active THEN s
  ELSE IF s.waiting # <<>> THEN [s EXCEPT !.waiting = Tail(@), !.value = @ + 1]
  ELSE [s EXCEPT !.value = @ + 1]
AfterPost(s) ==
  IF ~s.active THEN s
  ELSE IF s.waiting # <<>> THEN [s EXCEPT !.waiting = Tail(@)]
  ELSE [s EXCEPT !.value = @ + 1]
WokenByPost(s) == IF s.active /\ s.waiting # <<>> THEN {Head(s.waiting)} ELSE {}

\* sem_remove_pid, when p is killed.
WithoutWaiter(s, p) == [s EXCEPT !.waiting = Compacted(@, p)]
=============================================================================
