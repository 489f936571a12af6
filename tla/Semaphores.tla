------------------------------ MODULE Semaphores ------------------------------
(***************************************************************************)
(* The named semaphores (Kernel/sem/sem.c) and the system calls built on   *)
(* them: waitpid (wait_child) and the wake-ups of kill and exit, composed  *)
(* with the scheduler.  What module Scheduler leaves open, who is blocked  *)
(* and who is woken, is computed here from the semaphore table.            *)
(*                                                                         *)
(* A system call is one step, except where the code turns interrupts on:   *)
(* sem_wait halts in a loop until its process is no longer BLOCKED, and    *)
(* what follows the loop runs interruptibly.  The registry lock, which is  *)
(* free at every such point, is not modelled here.                         *)
(***************************************************************************)
EXTENDS Scheduler, Functions, PidQueue

CONSTANTS
  MAX_SEMS,       \* entries of sems
  MAX_BLOCKED,    \* entries of blocked_pids in each
  Names,          \* names user programs give to sem_open
  InitialValues,  \* and the initial values
  UserPriorities, \* the priorities processes are created with
  MaxValue,       \* bound of the model: value of a user semaphore
  MaxUsers,       \* bound of the model: users of a user semaphore
  MaxStray        \* bound of the model: queue entries of awake processes

ASSUME SemaphoresAssumption ==
  /\ MAX_SEMS \in Nat /\ MAX_SEMS >= 2
  /\ MAX_BLOCKED \in Nat /\ MAX_BLOCKED >= MAX_PROCESSES   \* 64 both
  /\ InitialValues \subseteq Nat
  /\ UserPriorities \subseteq Priorities
  /\ MaxValue \in Nat /\ MaxUsers \in Nat /\ MaxStray \in Nat

VARIABLES
  sems,     \* the table
  call,     \* where a process stands in sem_wait or wait_child
  children, \* pids each process has created and not waited for
  to_wake   \* pids sem_close still has to wake, with interrupts off

semvars == <<sems, call, children, to_wake>>
allvars == <<vars, semvars>>

SemIds == 1..MAX_SEMS
NoSem  == 0                                   \* sem_open's -1
NoName == <<"none", 0>>
WaitName(p) == <<"wait", p>>                  \* build_wait_sem_name
UserName(n) == <<"user", n>>

\* A destroyed semaphore keeps nothing that a later sem_open reads.
Inactive == [name |-> NoName, value |-> 0, users |-> 0, blocked |-> <<>>]

\* Where a process is: in user code; halted in the loop of sem_wait, called as
\* a system call or by wait_child; before the second sem_close of wait_child;
\* back in user code after the exit system call; halted by the trampoline.
At == {"user", "sem_wait", "wait_child", "closing", "exited", "halted"}
InUserCode == [at |-> "user", sem |-> NoSem, child |-> 0]
InLoop(s) == call[s].at \in {"sem_wait", "wait_child"}

-----------------------------------------------------------------------------
(* The table operations, on a table T.                                     *)

Active(T) == {i \in SemIds : T[i].name # NoName}
Named(T, name) == {i \in SemIds : T[i].name = name}
Least(S) == CHOOSE i \in S : \A j \in S : i <= j

\* sem_open: the id it returns and the table it leaves.
OpenId(T, name) ==
  IF Named(T, name) # {} THEN Least(Named(T, name))
  ELSE IF SemIds \ Active(T) # {} THEN Least(SemIds \ Active(T))
  ELSE NoSem

Opened(T, name, value) ==
  LET i == OpenId(T, name) IN
  IF i = NoSem THEN T
  ELSE IF i \in Active(T) THEN [T EXCEPT ![i].users = @ + 1]
  ELSE [T EXCEPT ![i] = [name |-> name, value |-> value, users |-> 1,
                         blocked |-> <<>>]]

\* sem_close: at the last user the semaphore goes and its waiters are woken.
\* Mutant: the users of a semaphore already destroyed are counted down too.
ClosedUnchecked(T, i) ==
  IF T[i].users = 1 THEN [T EXCEPT ![i] = Inactive] ELSE [T EXCEPT ![i].users = @ - 1]
Closed(T, i) ==
  IF i \notin Active(T) THEN T
  ELSE IF T[i].users = 1 THEN [T EXCEPT ![i] = Inactive]
  ELSE [T EXCEPT ![i].users = @ - 1]
LastUserWaiters(T, i) ==
  IF i \in Active(T) /\ T[i].users = 1 THEN T[i].blocked ELSE <<>>

\* sem_post: the first waiter leaves the queue, else the value grows.  Mutant:
\* the value grows in any case, as if the waiter still had to take the token.
PostedBarging(T, i) ==
  IF T[i].blocked # <<>>
    THEN [T EXCEPT ![i].blocked = Tail(@), ![i].value = @ + 1]
    ELSE [T EXCEPT ![i].value = @ + 1]
Posted(T, i) ==
  IF T[i].blocked # <<>> THEN [T EXCEPT ![i].blocked = Tail(@)]
                         ELSE [T EXCEPT ![i].value = @ + 1]

\* The part of sem_wait that finds value = 0; a full queue is not extended.
Queued(T, i, p) ==
  IF Len(T[i].blocked) < MAX_BLOCKED
    THEN [T EXCEPT ![i].blocked = Append(@, p)] ELSE T

\* sem_remove_pid.  Mutant: the pid stays where it was queued.
WithoutPidNever(T, p) == T
WithoutPid(T, p) ==
  [i \in SemIds |-> [T[i] EXCEPT !.blocked = Compacted(@, p)]]

\* get_process_by_pid on a live process, then unblock_process: the PCB that
\* leaves the BLOCKED state, if there is one.
SlotWoken(p) ==
  IF \E s \in Waiters : pid[s] = p
    THEN CHOOSE s \in Waiters : pid[s] = p ELSE NoProc

\* exit and kill open, post and close the wait semaphore of p.  When nothing
\* has that name, opening and closing a fresh one, or failing to, is no change.
DeathSems(p) == Named(sems, WaitName(p))
DeathPostedNever(p) == sems
DeathPosted(p) == IF DeathSems(p) = {} THEN sems
                                       ELSE Posted(sems, Least(DeathSems(p)))
DeathWakes(p) ==
  IF \E i \in DeathSems(p) : sems[i].blocked # <<>>
    THEN SlotWoken(Head(sems[Least(DeathSems(p))].blocked)) ELSE NoProc

\* What is kept on a stack goes with it.
CallsKept(c) == [s \in Slots |-> IF pid'[s] = 0 THEN InUserCode ELSE c[s]]
ChildrenKept(c) == [s \in Slots |-> IF pid'[s] = 0 THEN {} ELSE c[s]]

-----------------------------------------------------------------------------
\* main() creates idle and the shell, and with them their wait semaphores.
SemInit ==
  /\ Init
  /\ sems = [i \in SemIds |->
       IF i \in {1, 2} THEN [Inactive EXCEPT !.name = WaitName(i), !.users = 1]
                       ELSE Inactive]
  /\ call = [s \in Slots |-> InUserCode]
  /\ children = [s \in Slots |-> {}]
  /\ to_wake = <<>>

\* The running process is in user code and makes a system call.
SemSyscall ==
  /\ Syscall /\ to_wake = <<>>
  /\ call[current_process] = InUserCode

\* create_process opens the wait semaphore of the child, and ignores a failure.
Spawn(prio, fg) ==
  /\ SemSyscall
  /\ CreateProcess(prio, fg)
  /\ sems' = Opened(sems, WaitName(next_pid), 0)
  /\ children' = [children EXCEPT ![current_process] = @ \cup {next_pid}]
  /\ UNCHANGED <<call, to_wake>>

\* exit_current_process, and where its caller goes on.
Die(next) ==
  /\ ExitCurrent(DeathWakes(pid[current_process]))
  /\ sems' = DeathPosted(pid[current_process])
  /\ call' = [call EXCEPT ![current_process] = [InUserCode EXCEPT !.at = next]]
  /\ UNCHANGED <<children, to_wake>>

\* The exit system call.  The shell's loop has no end.
Exit ==
  /\ SemSyscall
  /\ current_process # Shell
  /\ Die("exited")
  /\ quantum' = 0

\* process_exit_trampoline, when the entry point returns: without exit, or in
\* what is left of its time after exit, which posts a second time.
Trampoline ==
  /\ Syscall /\ to_wake = <<>>
  /\ current_process # Shell
  /\ call[current_process].at \in {"user", "exited"}
  /\ Die("halted")
  /\ quantum' = quantum

\* What kill_process(pid[s]) does to the semaphores.
KillSems(s) ==
  /\ sems' = WithoutPid(DeathPosted(pid[s]), pid[s])
  /\ call' = CallsKept(call)
  /\ children' = ChildrenKept(children)

Kill(s) ==
  /\ SemSyscall
  /\ KillProcess(s, DeathWakes(pid[s]))
  /\ KillSems(s)
  /\ UNCHANGED to_wake

InterruptC ==
  /\ to_wake = <<>>
  /\ CtrlC
  /\ UNCHANGED semvars

ScanC ==
  /\ fg_scan # 0
  /\ IF Killable(fg_scan) /\ foreground[fg_scan]
       THEN CtrlCScan(DeathWakes(pid[fg_scan])) /\ KillSems(fg_scan)
       ELSE CtrlCScan(NoProc) /\ UNCHANGED <<sems, call, children>>
  /\ UNCHANGED to_wake

Tick ==
  /\ to_wake = <<>>
  /\ TimerTick
  /\ call' = CallsKept(call)
  /\ children' = ChildrenKept(children)
  /\ UNCHANGED <<sems, to_wake>>

SemOpen(name, value) ==
  /\ SemSyscall
  /\ \A i \in Named(sems, name) : sems[i].users < MaxUsers
  /\ sems' = Opened(sems, name, value)
  /\ UNCHANGED <<vars, call, children, to_wake>>

SemClose(i) ==
  /\ SemSyscall
  /\ sems' = Closed(sems, i)
  /\ to_wake' = LastUserWaiters(sems, i)
  /\ UNCHANGED <<vars, call, children>>

\* The loop of sem_close over the waiters of a semaphore it destroys.
WakeNext ==
  LET s == SlotWoken(Head(to_wake)) IN
  /\ to_wake # <<>>
  /\ IF s # NoProc THEN UnblockProcess(s) ELSE UNCHANGED vars
  /\ to_wake' = Tail(to_wake)
  /\ UNCHANGED <<sems, call, children>>

SemPost(i) ==
  /\ SemSyscall
  /\ sems[i].value < MaxValue
  /\ sems' = Posted(sems, i)
  /\ LET s == IF sems[i].blocked = <<>> THEN NoProc
                                        ELSE SlotWoken(Head(sems[i].blocked))
     IN IF s # NoProc THEN UnblockProcess(s) ELSE UNCHANGED vars
  /\ UNCHANGED <<call, children, to_wake>>

\* sem_wait on i of table T, which finds value = 0 and leaves the caller at c.
\* The halt yields at once, and again whenever another interrupt ends it.
WaitOn(T, i, c) ==
  LET me == current_process IN
  /\ T[i].value = 0
  /\ state[me] = "RUNNING"
  /\ sems' = Queued(T, i, pid[me])
  /\ BlockCurrent
  /\ call' = [call EXCEPT ![me] = c]

SemWaitTakes(i) ==
  /\ SemSyscall
  /\ sems[i].value > 0
  /\ sems' = [sems EXCEPT ![i].value = @ - 1]
  /\ UNCHANGED <<vars, call, children, to_wake>>

SemWaitBlocks(i) ==
  /\ SemSyscall
  /\ WaitOn(sems, i, [at |-> "sem_wait", sem |-> i, child |-> 0])
  /\ UNCHANGED <<children, to_wake>>

\* wait_child
Forget(p) == children' = [children EXCEPT ![current_process] = @ \ {p}]

WaitChildFails(p) ==
  /\ SemSyscall
  /\ OpenId(sems, WaitName(p)) = NoSem
  /\ Forget(p)
  /\ UNCHANGED <<vars, sems, call, to_wake>>

WaitChildBlocks(p) ==
  LET i == OpenId(sems, WaitName(p)) IN
  /\ SemSyscall
  /\ i # NoSem
  /\ WaitOn(Opened(sems, WaitName(p), 0), i, [at |-> "wait_child", sem |-> i, child |-> p])
  /\ UNCHANGED <<children, to_wake>>

\* sem_wait does not halt, and both sem_close follow in the same system call.
ClosedTwice(T, i) == Closed(Closed(T, i), i)
ReturnAtOnce(T, i, p) ==
  /\ sems' = ClosedTwice(T, i)
  /\ to_wake' = LastUserWaiters(T, i) \o LastUserWaiters(Closed(T, i), i)
  /\ Forget(p)
  /\ UNCHANGED <<vars, call>>

WaitChildReturns(p) ==
  LET i == OpenId(sems, WaitName(p))
      T == Opened(sems, WaitName(p), 0)
  IN
  /\ SemSyscall
  /\ i # NoSem
  /\ T[i].value > 0
  /\ ReturnAtOnce([T EXCEPT ![i].value = @ - 1], i, p)

\* The condition that ends the loop of sem_wait.  Mutant: any interrupt does.
AwakeAfterAnyInterrupt(s) == call[s].sem # NoSem
Awake(s) == state[s] # "BLOCKED"

\* The process has the CPU and finds that it is no longer BLOCKED: sem_wait
\* returns to user code, or to wait_child's calls of sem_close, one at a time.
LeaveWait ==
  LET me == current_process
      c  == call[me]
  IN
  /\ Syscall /\ to_wake = <<>>
  /\ Awake(me)
  /\ \/ /\ c.at = "sem_wait"
        /\ call' = [call EXCEPT ![me] = InUserCode]
        /\ UNCHANGED <<sems, children, to_wake>>
     \/ /\ c.at \in {"wait_child", "closing"}
        /\ sems' = Closed(sems, c.sem)
        /\ to_wake' = LastUserWaiters(sems, c.sem)
        /\ IF c.at = "wait_child"
             THEN /\ call' = [call EXCEPT ![me].at = "closing"]
                  /\ UNCHANGED children
             ELSE /\ call' = [call EXCEPT ![me] = InUserCode]
                  /\ Forget(c.child)
  /\ UNCHANGED vars

-----------------------------------------------------------------------------
(* A process killed, or blocked and woken, since the last tick still has    *)
(* the CPU but is not RUNNING.  When it waits, sem_wait queues it without    *)
(* blocking it and returns as if it had got the token.                      *)

AwakeEntries ==
  {e \in SemIds \X (1..MAX_BLOCKED) :
     /\ e[2] <= Len(sems[e[1]].blocked)
     /\ SlotWoken(sems[e[1]].blocked[e[2]]) = NoProc}

PassBy ==
  /\ SemSyscall
  /\ state[current_process] # "RUNNING"
  /\ Cardinality(AwakeEntries) < MaxStray

SemWaitPassesBy(i) ==
  /\ PassBy
  /\ sems[i].value = 0
  /\ sems' = Queued(sems, i, pid[current_process])
  /\ UNCHANGED <<vars, call, children, to_wake>>

WaitChildPassesBy(p) ==
  LET i == OpenId(sems, WaitName(p))
      T == Opened(sems, WaitName(p), 0)
  IN
  /\ PassBy
  /\ i # NoSem
  /\ T[i].value = 0
  /\ ReturnAtOnce(Queued(T, i, pid[current_process]), i, p)

-----------------------------------------------------------------------------
\* User programs wait on and post the semaphores opened under user names, and
\* wait for their own children, once.
UserSems == {i \in Active(sems) : sems[i].name \in {UserName(n) : n \in Names}}
OwnChildren == IF current_process = NoProc THEN {} ELSE children[current_process]

\* Every step but the two above.
TimelyNext ==
  \/ \E prio \in UserPriorities, fg \in BOOLEAN : Spawn(prio, fg)
  \/ Exit \/ Trampoline
  \/ \E s \in Slots : Kill(s)
  \/ InterruptC
  \/ ScanC
  \/ Tick
  \/ \E n \in Names, v \in InitialValues : SemOpen(UserName(n), v)
  \/ \E i \in UserSems :
       SemClose(i) \/ SemPost(i) \/ SemWaitTakes(i) \/ SemWaitBlocks(i)
  \/ WakeNext
  \/ \E p \in OwnChildren :
       WaitChildFails(p) \/ WaitChildBlocks(p) \/ WaitChildReturns(p)
  \/ LeaveWait

SemNext ==
  \/ TimelyNext
  \/ \E i \in UserSems : SemWaitPassesBy(i)
  \/ \E p \in OwnChildren : WaitChildPassesBy(p)

\* The code, with idle left alone (see Scheduler).
SemSpec == SemInit /\ [][SemNext /\ IdleSpared]_allvars

\* The same when, besides, a process that lost the CPU's favour since the last
\* tick neither waits nor is killed while it is queued.
CarefulSemSpec ==
  SemInit /\ [][TimelyNext /\ IdleSpared /\ WokenCurrentSurvives]_allvars

\* Ticks as in Scheduler; a process that has the CPU executes the kernel code
\* after its halt, and sem_close and kill_foreground_process end their loops.
SemFairness ==
  /\ SF_allvars(Tick)
  /\ SF_allvars(LeaveWait)
  /\ WF_allvars(WakeNext)
  /\ WF_allvars(ScanC)

FairSemSpec == CarefulSemSpec /\ SemFairness

-----------------------------------------------------------------------------
SemTypeOK ==
  /\ TypeOK
  /\ sems \in [SemIds -> [name : {NoName} \cup {WaitName(p) : p \in 1..MaxPid}
                                         \cup {UserName(n) : n \in Names},
                          value : Nat, users : Nat, blocked : Seq(1..MaxPid)]]
  /\ \A i \in SemIds : Len(sems[i].blocked) <= MAX_BLOCKED
  /\ call \in [Slots -> [at : At, sem : SemIds \cup {NoSem}, child : 0..MaxPid]]
  /\ children \in [Slots -> SUBSET (1..MaxPid)]
  /\ to_wake \in Seq(1..MaxPid)

\* The queue of a semaphore holds exactly the processes asleep on it, each
\* once: no lost wake-up, and no pid left behind by a process that was killed,
\* woken or has gone on.  While sem_close wakes the last waiters they are in
\* its list instead.
SleepersOn(i) == {s \in Slots : state[s] = "BLOCKED" /\ InLoop(s) /\ call[s].sem = i}
QueuedOn(i) == Range(sems[i].blocked)
SleepersExact ==
  /\ \A i \in SemIds :
       /\ IsInjective(sems[i].blocked)
       /\ QueuedOn(i) = {pid[s] : s \in SleepersOn(i)} \ Range(to_wake)
  /\ \A s \in Slots : state[s] = "BLOCKED" => InLoop(s)

\* Every entry of a queue belongs to a process that sleeps: sem_remove_pid is
\* there so that none is left orphaned.
NoOrphans == AwakeEntries = {}

\* sem_post hands the token over instead of leaving it for whoever comes first,
\* so a semaphore never has tokens and waiters at once.
NoTokenWhileWaiting ==
  \A i \in SemIds : sems[i].value > 0 => sems[i].blocked = <<>>

\* s, not killed then or before, returns from waitpid of the process in t.
ReturnsFrom(s, t) ==
  /\ pid[t] \in children[s] /\ pid[t] \notin children'[s]
  /\ state[s] # "KILLED" /\ pid'[s] # 0

\* waitpid returns only when the child is dead, as long as the wait semaphore of
\* the child exists: neither a stray interrupt, nor a semaphore left by another
\* process, nor a kill of somebody else ends the wait early.
WaitMeansDead ==
  [][\A s, t \in Slots :
       ReturnsFrom(s, t) /\ Named(sems, WaitName(pid[t])) # {}
         => state[t] = "KILLED"]_allvars

\* What process.c says of the second sem_close of wait_child: it gives back the
\* reference of create_process, so nobody else's semaphore goes, and no wait on
\* one that exists, or is opened by the wait itself, ends early.
WaitNotCutShort ==
  [][\A s, t \in Slots :
       ReturnsFrom(s, t) /\ OpenId(sems, WaitName(pid[t])) # NoSem
         => state[t] = "KILLED"]_allvars

\* A parent in waitpid on the semaphore create_process opened gets out once the
\* child is dead, however it died.
InWaitpid(s) == call[s].at \in {"wait_child", "closing"}
Dead(p) == \A t \in Slots : pid[t] = p => state[t] = "KILLED"
WaitEnds ==
  \A s \in Slots \ {Idle} :
    InWaitpid(s) /\ Dead(call[s].child) /\ sems[call[s].sem].users > 1
      ~> ~InWaitpid(s)
=============================================================================
