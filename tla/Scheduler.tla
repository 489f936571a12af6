------------------------------ MODULE Scheduler ------------------------------
(***************************************************************************)
(* The process table (Kernel/process/process.c) and the multi-level round  *)
(* robin scheduler (Kernel/scheduler/scheduler.c) of the x64 kernel.       *)
(*                                                                         *)
(* System calls enter through an interrupt gate, so a call made by the     *)
(* running process is one step; schedule() runs in the timer interrupt.    *)
(* Until that interrupt arrives the CPU stays with current_process, even   *)
(* when the process has just been blocked, killed or put back in a queue.  *)
(* What a semaphore or a pipe decides (who is blocked, who is woken) is an *)
(* input here; module Semaphores computes it.                              *)
(***************************************************************************)
EXTENDS Integers, Sequences, FiniteSets

CONSTANTS
  MAX_PROCESSES,     \* entries of process_table
  PRIORITY_LEVELS,   \* ready queues; 0 is the most urgent
  DEFAULT_PRIORITY,  \* used when create_process gets an invalid priority
  QUANTUM,           \* value schedule() gives quantum at a switch
  MaxPid             \* bound of the model: pids handed out, idle's and the shell's too

ASSUME ProcessesAssumption == MAX_PROCESSES \in Nat /\ MAX_PROCESSES >= 2
ASSUME PriorityAssumption ==
  /\ PRIORITY_LEVELS \in Nat /\ PRIORITY_LEVELS >= 1
  /\ DEFAULT_PRIORITY \in 0..(PRIORITY_LEVELS - 1)
ASSUME QuantumAssumption == QUANTUM \in Nat
ASSUME MaxPidAssumption == MaxPid \in Nat /\ MaxPid >= 2

VARIABLES
  pid,              \* pid of each PCB; 0 when its stack has been freed
  state,            \* READY, RUNNING, BLOCKED or KILLED
  priority,
  foreground,
  ready_queues,     \* for each priority the PCBs linked in its queue
  current_process,  \* the PCB whose stack the CPU runs on
  quantum,
  to_free,          \* a killed PCB whose stack is freed by the next tick
  next_pid,
  fg_scan           \* next entry kill_foreground_process looks at, 0 outside

pcbs  == <<pid, state, priority, foreground>>
vars  == <<pid, state, priority, foreground, ready_queues, current_process,
           quantum, to_free, next_pid, fg_scan>>

Slots      == 1..MAX_PROCESSES
NoProc     == 0                       \* the NULL PCB pointer
Priorities == 0..(PRIORITY_LEVELS - 1)
States     == {"READY", "RUNNING", "BLOCKED", "KILLED"}
Idle       == 1                       \* main creates idle first
Shell      == 2                       \* and then the shell
SHELL_PID  == 2

TypeOK ==
  /\ pid \in [Slots -> Nat]
  /\ state \in [Slots -> States]
  /\ priority \in [Slots -> Priorities]
  /\ foreground \in [Slots -> BOOLEAN]
  /\ ready_queues \in [Priorities -> Seq(Slots)]
  /\ current_process \in Slots \cup {NoProc}
  /\ quantum \in 0..QUANTUM
  /\ to_free \in Slots \cup {NoProc}
  /\ next_pid \in Nat
  /\ fg_scan \in 0..MAX_PROCESSES

-----------------------------------------------------------------------------
(* The linked lists of the ready queues.                                   *)

InQueue(q, s) == \E i \in 1..Len(q) : q[i] = s

\* Mutant: the last PCB of the list takes the place of the one removed.
UnlinkSwappingLast(q, s) ==
  IF InQueue(q, s)
    THEN LET k == CHOOSE i \in 1..Len(q) : q[i] = s
         IN  [i \in 1..(Len(q) - 1) |-> IF i = k THEN q[Len(q)] ELSE q[i]]
    ELSE q

\* remove_from_ready_queue: an unlinked PCB leaves the list as it is.
Unlink(q, s) ==
  IF InQueue(q, s)
    THEN LET k == CHOOSE i \in 1..Len(q) : q[i] = s
         IN  [i \in 1..(Len(q) - 1) |-> IF i < k THEN q[i] ELSE q[i + 1]]
    ELSE q

Dequeue(rq, s) == [rq EXCEPT ![priority[s]] = Unlink(@, s)]

\* Mutants of add_to_ready_queue: at the head; at a level of its own.
EnqueueAtHead(rq, s) == [rq EXCEPT ![priority[s]] = <<s>> \o @]
EnqueueAnyLevel(rq, s) == [rq EXCEPT ![DEFAULT_PRIORITY] = Append(@, s)]
Enqueue(rq, s) == [rq EXCEPT ![priority[s]] = Append(@, s)]

\* add_to_ready_queue applied to w by unblock_process, in a kill or an exit
\* that posts the wait semaphore of the dying process; w = NoProc: no waiter.
Waiters == {s \in Slots : state[s] = "BLOCKED"}
WokenState(w) == IF w = NoProc THEN state ELSE [state EXCEPT ![w] = "READY"]
WokenQueues(w) == IF w = NoProc THEN ready_queues ELSE Enqueue(ready_queues, w)

\* get_free_pcb
FreeSlots == {s \in Slots : state[s] = "KILLED" /\ pid[s] = 0}

\* Processes enter the kernel only while no Ctrl+C handler is running.  The
\* idle process only halts; before the first tick there is no process.
Syscall == fg_scan = 0 /\ current_process \notin {NoProc, Idle}

-----------------------------------------------------------------------------
\* main() just after enable_interrupts(): idle and the shell are queued.
Init ==
  /\ pid = [s \in Slots |-> IF s \in {Idle, Shell} THEN s ELSE 0]
  /\ state = [s \in Slots |-> IF s \in {Idle, Shell} THEN "READY" ELSE "KILLED"]
  /\ priority = [s \in Slots |-> IF s = Idle THEN PRIORITY_LEVELS - 1
                                             ELSE DEFAULT_PRIORITY]
  /\ foreground = [s \in Slots |-> s = Shell]
  /\ ready_queues = [p \in Priorities |->
       IF DEFAULT_PRIORITY = PRIORITY_LEVELS - 1
         THEN IF p = DEFAULT_PRIORITY THEN <<Idle, Shell>> ELSE <<>>
         ELSE IF p = PRIORITY_LEVELS - 1 THEN <<Idle>>
              ELSE IF p = DEFAULT_PRIORITY THEN <<Shell>> ELSE <<>>]
  /\ current_process = NoProc
  /\ quantum = 0
  /\ to_free = NoProc
  /\ next_pid = 3
  /\ fg_scan = 0

\* An invalid priority becomes the default one.
EffectivePriority(prio) == IF prio \in Priorities THEN prio ELSE DEFAULT_PRIORITY

\* create_process with room in the table and in the heap.  The model ends where
\* the code would link a PCB that still hangs in a queue: the lists it would
\* corrupt are no longer sequences (see WokenCurrentSurvives).
CreateProcess(prio, fg) ==
  LET p == EffectivePriority(prio) IN
  /\ Syscall
  /\ next_pid <= MaxPid
  /\ \E s \in FreeSlots :
       /\ \A t \in FreeSlots : s <= t
       /\ \A q \in Priorities : ~InQueue(ready_queues[q], s)
       /\ pid' = [pid EXCEPT ![s] = next_pid]
       /\ state' = [state EXCEPT ![s] = "READY"]
       /\ priority' = [priority EXCEPT ![s] = p]
       /\ foreground' = [foreground EXCEPT ![s] = fg]
       /\ ready_queues' = [ready_queues EXCEPT ![p] = Append(@, s)]
  /\ next_pid' = next_pid + 1
  /\ UNCHANGED <<current_process, quantum, to_free, fg_scan>>

\* exit_current_process: called by the exit system call, which then yields,
\* and by process_exit_trampoline when the entry point returns, which does not.
ExitCurrent(w) ==
  /\ Syscall
  /\ state' = [WokenState(w) EXCEPT ![current_process] = "KILLED"]
  /\ ready_queues' = WokenQueues(w)
  /\ quantum' \in {0, quantum}
  /\ UNCHANGED <<pid, priority, foreground, current_process, to_free,
                 next_pid, fg_scan>>

\* The CPU runs on the stack of current_process: the tick frees that one.
PidsAfterKillFreeingAll(s) == [pid EXCEPT ![s] = 0]
PidsAfterKill(s) == IF s = current_process THEN pid ELSE [pid EXCEPT ![s] = 0]

\* The body of kill_process on a live PCB s other than the shell's: wake the
\* waiter, then only mark s if the CPU runs on its stack, else unlink and free.
KillEffect(s, w) ==
  /\ state' = [WokenState(w) EXCEPT ![s] = "KILLED"]
  /\ ready_queues' = IF s # current_process /\ WokenState(w)[s] = "READY"
                       THEN Dequeue(WokenQueues(w), s)
                       ELSE WokenQueues(w)
  /\ pid' = PidsAfterKill(s)

Killable(s) == state[s] # "KILLED" /\ pid[s] \notin {0, SHELL_PID}

KillProcess(s, w) ==
  /\ Syscall
  /\ Killable(s)
  /\ KillEffect(s, w)
  /\ UNCHANGED <<priority, foreground, current_process, quantum, to_free,
                 next_pid, fg_scan>>

\* Ctrl+C: the keyboard interrupt runs kill_foreground_process over the table.
CtrlC ==
  /\ fg_scan = 0
  /\ fg_scan' = 1
  /\ UNCHANGED <<pid, state, priority, foreground, ready_queues,
                 current_process, quantum, to_free, next_pid>>

\* One iteration of its loop, with interrupts off until the last one.
CtrlCScan(w) ==
  /\ fg_scan # 0
  /\ IF Killable(fg_scan) /\ foreground[fg_scan]
       THEN KillEffect(fg_scan, w)
       ELSE w = NoProc /\ UNCHANGED <<pid, state, ready_queues>>
  /\ fg_scan' = IF fg_scan = MAX_PROCESSES THEN 0 ELSE fg_scan + 1
  /\ UNCHANGED <<priority, foreground, current_process, quantum, to_free,
                 next_pid>>

\* block_current_process, and syscall_block on a RUNNING process.  The latter,
\* sem_wait and the pipe operations also yield.
BlockCurrent ==
  /\ Syscall
  /\ state[current_process] = "RUNNING"
  /\ state' = [state EXCEPT ![current_process] = "BLOCKED"]
  /\ quantum' = 0
  /\ UNCHANGED <<pid, priority, foreground, ready_queues, current_process,
                 to_free, next_pid, fg_scan>>

\* syscall_block on a READY process.
BlockReady(s) ==
  /\ Syscall
  /\ state[s] = "READY"
  /\ ready_queues' = Dequeue(ready_queues, s)
  /\ state' = [state EXCEPT ![s] = "BLOCKED"]
  /\ UNCHANGED <<pid, priority, foreground, current_process, quantum, to_free,
                 next_pid, fg_scan>>

\* unblock_process, from syscall_unblock, sem_post, sem_close, pipe_notify.
UnblockProcess(s) ==
  /\ Syscall
  /\ state[s] = "BLOCKED"
  /\ state' = [state EXCEPT ![s] = "READY"]
  /\ ready_queues' = Enqueue(ready_queues, s)
  /\ UNCHANGED <<pid, priority, foreground, current_process, quantum, to_free,
                 next_pid, fg_scan>>

\* A READY process changes queues, going to the tail.  Mutant: it is looked
\* for in the queue of its new priority.
RenicedLookingInNewQueue(s, new) ==
  IF state[s] = "READY" /\ priority[s] # new
    THEN [ready_queues EXCEPT ![new] = Append(Unlink(@, s), s)]
    ELSE ready_queues
Reniced(s, new) ==
  IF state[s] = "READY" /\ priority[s] # new
    THEN [Dequeue(ready_queues, s) EXCEPT ![new] = Append(@, s)]
    ELSE ready_queues

\* set_process_priority
SetProcessPriority(s, new) ==
  /\ Syscall
  /\ state[s] # "KILLED"
  /\ priority' = [priority EXCEPT ![s] = new]
  /\ ready_queues' = Reniced(s, new)
  /\ UNCHANGED <<pid, state, foreground, current_process, quantum, to_free,
                 next_pid, fg_scan>>

YieldProcess ==
  /\ Syscall
  /\ quantum' = 0
  /\ UNCHANGED <<pid, state, priority, foreground, ready_queues,
                 current_process, to_free, next_pid, fg_scan>>

-----------------------------------------------------------------------------
(* schedule(), in the timer interrupt.                                     *)

CurrentIs(st) == current_process # NoProc /\ state[current_process] = st

\* The deferred PCB is freed on every tick, before anything else.
ReclaimedPidsNever == pid
ReclaimedPids == IF to_free = NoProc THEN pid ELSE [pid EXCEPT ![to_free] = 0]

\* The tables once a current process that can still run is queued again.
RequeuedState == IF CurrentIs("RUNNING")
                   THEN [state EXCEPT ![current_process] = "READY"] ELSE state
RequeuedQueues == IF CurrentIs("RUNNING")
                    THEN Enqueue(ready_queues, current_process)
                    ELSE ready_queues

\* Mutant: a killed process the CPU leaves is forgotten.
DeferredFreeNever == NoProc
DeferredFree == IF CurrentIs("KILLED") THEN current_process ELSE NoProc

Eligible(s) == RequeuedState[s] \notin {"KILLED", "BLOCKED"}
NoneEligible(q) == \A i \in 1..Len(q) : ~Eligible(q[i])

\* Killed PCBs dropped from the heads of the queues are freed on the way.
PidsWithout(dropped) ==
  [s \in Slots |-> IF s \in dropped /\ RequeuedState[s] = "KILLED"
                     THEN 0 ELSE ReclaimedPids[s]]

TickKeep ==
  /\ CurrentIs("RUNNING") /\ quantum > 0
  /\ pid' = ReclaimedPids
  /\ to_free' = NoProc
  /\ quantum' = quantum - 1
  /\ UNCHANGED <<state, priority, foreground, ready_queues, current_process,
                 next_pid, fg_scan>>

\* The first eligible entry, by level and then by position, gets the CPU; the
\* entries before it leave their queues.
TickSwitch ==
  /\ ~(CurrentIs("RUNNING") /\ quantum > 0)
  /\ \E p \in Priorities : \E i \in 1..Len(RequeuedQueues[p]) :
       LET q == RequeuedQueues[p] IN
       /\ Eligible(q[i])
       /\ \A j \in 1..(i - 1) : ~Eligible(q[j])
       /\ \A r \in 0..(p - 1) : NoneEligible(RequeuedQueues[r])
       /\ ready_queues' = [r \in Priorities |->
            IF r < p THEN <<>>
            ELSE IF r = p THEN SubSeq(q, i + 1, Len(q))
            ELSE RequeuedQueues[r]]
       /\ pid' = PidsWithout({s \in Slots :
            \/ \E j \in 1..(i - 1) : q[j] = s
            \/ \E r \in 0..(p - 1) : InQueue(RequeuedQueues[r], s)})
       /\ state' = [RequeuedState EXCEPT ![q[i]] = "RUNNING"]
       /\ current_process' = q[i]
  /\ to_free' = DeferredFree
  /\ quantum' = QUANTUM
  /\ UNCHANGED <<priority, foreground, next_pid, fg_scan>>

\* Nothing to run: every queue ends empty and the CPU stays where it was.
TickNoNext ==
  /\ ~CurrentIs("RUNNING")
  /\ \A p \in Priorities : NoneEligible(ready_queues[p])
  /\ ready_queues' = [p \in Priorities |-> <<>>]
  /\ pid' = PidsWithout({s \in Slots :
                          \E p \in Priorities : InQueue(ready_queues[p], s)})
  /\ to_free' = DeferredFree
  /\ UNCHANGED <<state, priority, foreground, current_process, quantum,
                 next_pid, fg_scan>>

TimerTick == fg_scan = 0 /\ (TickKeep \/ TickSwitch \/ TickNoNext)

-----------------------------------------------------------------------------
\* System calls and the keyboard interrupt.
NoTick ==
  \/ \E prio \in Priorities \cup {-1}, fg \in BOOLEAN : CreateProcess(prio, fg)
  \/ \E w \in Waiters \cup {NoProc} : ExitCurrent(w)
  \/ \E s \in Slots, w \in Waiters \cup {NoProc} : KillProcess(s, w)
  \/ CtrlC
  \/ \E w \in Waiters \cup {NoProc} : CtrlCScan(w)
  \/ BlockCurrent
  \/ \E s \in Slots : BlockReady(s) \/ UnblockProcess(s)
  \/ \E s \in Slots, new \in Priorities : SetProcessPriority(s, new)
  \/ YieldProcess

Next == NoTick \/ TimerTick

Spec == Init /\ [][Next]_vars

(***************************************************************************)
(* What callers must respect for the scheduler to keep its promises.  The  *)
(* code checks neither.                                                    *)
(***************************************************************************)

\* Only the shell is protected from kill and block; idle is not.
IdleSpared == state'[Idle] \notin {"BLOCKED", "KILLED"}

\* A process that blocked and was woken again before the next tick is both
\* current and queued: nobody kills it until that tick.  Ctrl+C kills several
\* processes at once and one kill may wake the next victim.
WokenCurrentSurvives ==
  /\ ~ /\ current_process # NoProc /\ state'[current_process] = "KILLED"
       /\ \E p \in Priorities : InQueue(ready_queues'[p], current_process)
  /\ ~ /\ fg_scan = 0 /\ fg_scan' = 1
       /\ current_process # NoProc
       /\ Killable(current_process) /\ foreground[current_process]
       /\ state[current_process] \in {"BLOCKED", "READY"}

CarefulNext == Next /\ IdleSpared /\ WokenCurrentSurvives
CarefulSpec == Init /\ [][CarefulNext]_vars

\* The timer interrupt is latched while interrupts are off and has priority
\* over the keyboard's; the loop of kill_foreground_process ends.
Fairness ==
  /\ SF_vars(TimerTick)
  /\ WF_vars(\E w \in Waiters \cup {NoProc} : CtrlCScan(w))

FairSpec == CarefulSpec /\ Fairness

-----------------------------------------------------------------------------
(* Safety.                                                                 *)

\* A PCB is READY exactly when it is linked, once, and in the queue of its own
\* priority: nice, kill and block never lose it, link it twice or leave it in
\* the queue of its old priority.
QueuesExact ==
  \A p \in Priorities :
    /\ \A i, j \in 1..Len(ready_queues[p]) :
         ready_queues[p][i] = ready_queues[p][j] => i = j
    /\ \A s \in Slots : InQueue(ready_queues[p], s)
                        <=> state[s] = "READY" /\ priority[s] = p

\* A PCB holds a stack while it is alive, and afterwards only until the tick
\* that frees it: as the process the CPU is still on, or in to_free.
StacksAccounted ==
  /\ \A s \in Slots :
       /\ pid[s] = 0 => state[s] = "KILLED"
       /\ state[s] = "KILLED" /\ pid[s] # 0 => s \in {current_process, to_free}
  /\ to_free # NoProc =>
       /\ state[to_free] = "KILLED" /\ pid[to_free] # 0
       /\ to_free # current_process

\* The process the CPU runs on has a stack, no other is RUNNING, and there is
\* always idle to choose.
CurrentAccounted ==
  /\ current_process # NoProc => pid[current_process] # 0
  /\ \A s \in Slots : state[s] = "RUNNING" => s = current_process
  /\ state[Idle] \in {"READY", "RUNNING"}

\* Signals and waits by pid reach the process they name.
PidsUnique ==
  \A s, t \in Slots :
    /\ pid[s] < next_pid
    /\ pid[s] # 0 /\ pid[s] = pid[t] => s = t

SlotsAccounted == StacksAccounted /\ CurrentAccounted /\ PidsUnique

\* A stack is freed only once its process is dead and the CPU has left it:
\* neither the stack schedule() runs on nor the one it returns to, and never
\* that of a new process in a slot some stale pointer still names.
StackInUseKept ==
  [][\A s \in Slots : pid[s] # 0 /\ pid'[s] = 0 =>
       /\ state'[s] = "KILLED"
       /\ s # current_process /\ s # current_process']_vars

\* When the CPU is given to a process, no process of a more urgent level is
\* left waiting in its queue.
MostUrgentFirst ==
  [][\A s, t \in Slots :
       /\ state'[s] = "RUNNING" /\ (state[s] # "RUNNING" \/ quantum' > quantum)
       /\ state'[t] = "READY"
       => priority'[s] <= priority'[t]]_vars

\* Two processes that stay queued at a level keep their order: kill, block and
\* nice of a third one, requeuing and dispatch never let one overtake the other.
NoOvertaking ==
  [][\A p \in Priorities : \A i, j \in 1..Len(ready_queues[p]) :
       i < j =>
         ~ \E k, l \in 1..Len(ready_queues'[p]) :
             /\ k < l
             /\ ready_queues'[p][k] = ready_queues[p][j]
             /\ ready_queues'[p][l] = ready_queues[p][i]
             /\ state'[ready_queues[p][i]] = "READY"]_vars

-----------------------------------------------------------------------------
(* Liveness.                                                               *)

\* Round robin serves the most urgent level: a process READY at priority 0 runs
\* eventually, unless it is blocked, killed or reniced meanwhile.
UrgentServed ==
  \A s \in Slots :
    (state[s] = "READY" /\ priority[s] = 0)
      ~> (state[s] # "READY" \/ priority[s] # 0)

\* The table does not leak: the slot of a killed process is free eventually,
\* the deferred release of the running one included.
KilledRecycled == \A s \in Slots : state[s] = "KILLED" ~> pid[s] = 0

=============================================================================
