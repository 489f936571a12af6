-------------------------------- MODULE SemLock --------------------------------
(***************************************************************************)
(* The locks of Kernel/sem/sem.c, access by access.  System calls and      *)
(* interrupt handlers run with interrupts masked, but two pieces of kernel *)
(* code do not: process_exit_trampoline, to which an entry point returns,  *)
(* whether it has called exit before and no tick came since, or not; and   *)
(* what follows the halt of waitpid.  A tick may take the CPU from them    *)
(* inside a section that a lock protects, and they may be killed there.    *)
(* Semaphores has each call on the table as one step; here it is the steps *)
(* between which an interrupt may come, for the semaphores of waitpid, on  *)
(* which both pieces of code work.                                         *)
(*                                                                         *)
(* A tick dispatches any process that is READY: nice may have given it any *)
(* priority.  The names of semaphores are what they name, without the      *)
(* buffers from mm_alloc that hold them.                                   *)
(***************************************************************************)
EXTENDS Integers, PidQueue

CONSTANTS
  MaxPid,      \* bound of the model: pids given out
  MAX_SEMS,    \* entries of sems
  Foreground,  \* the pids of processes created in the foreground
  Returning    \* the pids of processes whose entry point returns of itself

ASSUME SemLockAssumption ==
  /\ MaxPid \in Nat /\ MaxPid >= 2
  /\ MAX_SEMS \in Nat /\ MAX_SEMS >= 2
  /\ Foreground \subseteq 3..MaxPid /\ Returning \subseteq 3..MaxPid

Idle     == 1
Shell    == 2
Pids     == 1..MaxPid
Irq      == 0              \* the keyboard handler, and main() before all others
Contexts == Pids \cup {Irq}
SemIds   == 1..MAX_SEMS
Registry == 0              \* registry_lock; sems[i].lock is lock i
Locks    == SemIds \cup {Registry}

VARIABLES
  locks,      \* the locks that hold a 1
  sems,       \* the table: whose wait semaphore, 0 when not active
  state,      \* in the PCB, "none" until it is created
  children,   \* of each process, those it has not begun to wait for
  ctx,        \* what each context is doing
  current,    \* current_process
  victims,    \* the pids kill_foreground_process still has to look at
  next_pid

lockvars == <<locks, sems, state, children, ctx, current, victims, next_pid>>

\* A context: the system call, or the return from the entry point; where in it;
\* the process it is about; the semaphore it has opened; what it has loaded
\* last; whether interrupts are masked.
InUserCode == [call |-> "none", at |-> "user", pid |-> 0, sem |-> 0, seen |-> 0, masked |-> FALSE]
Starts(call, p, masked) == [InUserCode EXCEPT !.call = call, !.at = "open", !.pid = p, !.masked = masked]

Running  == IF victims # {} \/ ctx[Irq] # InUserCode THEN Irq ELSE current
Me       == ctx[Running]
Runs(at) == Me.at = at
Goes(f)  == ctx' = [ctx EXCEPT ![Running] = f]

Active == {i \in SemIds : sems[i].pid # 0}
Queued(i) == {sems[i].blocked[k] : k \in 1..Len(sems[i].blocked)}
NoEntry == [pid |-> 0, users |-> 0, value |-> 0, blocked |-> <<>>]
Fresh(p) == [NoEntry EXCEPT !.pid = p, !.users = 1]
Least(S) == CHOOSE i \in S : \A j \in S : i <= j

\* After main() and the first tick: idle and the shell have been created, and
\* the shell dispatched.
LockInit ==
  /\ locks = {}
  /\ sems = [i \in SemIds |-> IF i \in {Idle, Shell} THEN Fresh(i) ELSE NoEntry]
  /\ state = [p \in Pids |-> IF p = Idle THEN "READY" ELSE IF p = Shell THEN "RUNNING" ELSE "none"]
  /\ children = [c \in Contexts |-> IF c = Irq THEN {Idle, Shell} ELSE {}]
  /\ ctx = [c \in Contexts |-> InUserCode]
  /\ current = Shell
  /\ victims = {}
  /\ next_pid = 3

-----------------------------------------------------------------------------
(* Steps of the context that has the CPU.                                  *)

\* semLock: xchg until the lock was 0.  A context that finds a 1 stays where it
\* is, for ever if interrupts are masked.  Mutant: what the lock held is not
\* looked at.
TakesBlindly(l) == locks' = locks \cup {l}
Takes(l) == l \notin locks /\ locks' = locks \cup {l}

\* The search of sem_open.
Named(p)  == {i \in SemIds : sems[i].pid = p}
OpenId(p) == IF Named(p) # {} THEN Least(Named(p)) ELSE Least(SemIds \ Active)

\* sem_open, up to the load of users, and from there.  A new entry gets a lock
\* that is free.  Bound of the model: it goes as far as there is an entry for every
\* new name.  What happens when the table is full is in Semaphores.
OpenLoads ==
  LET i == OpenId(Me.pid) IN
  /\ Runs("open")
  /\ Named(Me.pid) # {} \/ SemIds \ Active # {}
  /\ Takes(Registry)
  /\ Goes([Me EXCEPT !.at = "opening", !.sem = i, !.seen = sems[i].users])
  /\ UNCHANGED <<sems, state, children, current, victims, next_pid>>

OpenStores ==
  LET i == Me.sem
      new == Me.seen = 0
  IN
  /\ Runs("opening")
  /\ sems' = [sems EXCEPT ![i] = IF new THEN Fresh(Me.pid) ELSE [sems[i] EXCEPT !.users = Me.seen + 1]]
  /\ locks' = locks \ (IF new THEN {Registry, i} ELSE {Registry})
  /\ children' = [children EXCEPT ![Running] =
       IF Me.call = "create" THEN @ \cup {Me.pid} ELSE IF Me.call = "wait" THEN @ \ {Me.pid} ELSE @]
  /\ Goes(IF Me.call = "create" THEN InUserCode
          ELSE [Me EXCEPT !.at = IF Me.call = "wait" THEN "wait" ELSE "post"])
  /\ UNCHANGED <<state, current, victims, next_pid>>

\* unblock_process for each pid in S.  Mutant: who has the CPU is not touched.
AwakenedOthers(S) == [p \in Pids |-> IF p \in S \ {current} /\ state[p] = "BLOCKED" THEN "READY" ELSE state[p]]
Awakened(S) == [p \in Pids |-> IF p \in S /\ state[p] = "BLOCKED" THEN "READY" ELSE state[p]]

\* sem_close: with the last user the semaphore goes and its waiters are woken.
CloseLoads ==
  /\ Runs("close")
  /\ Takes(Registry)
  /\ Goes([Me EXCEPT !.at = "closing", !.seen = sems[Me.sem].users])
  /\ UNCHANGED <<sems, state, children, current, victims, next_pid>>

\* Where its callers go on.  Mutant: wait_child closes once.
ClosedOnce == IF Me.call = "wait" THEN InUserCode ELSE
  [Me EXCEPT !.at = IF Me.call = "kill" THEN "remove" ELSE "die", !.seen = 0]
AfterClose ==
  CASE Me.call = "wait"   -> [Me EXCEPT !.call = "waited", !.at = "close", !.seen = 0]
    [] Me.call = "waited" -> InUserCode
    [] OTHER -> [Me EXCEPT !.at = IF Me.call = "kill" THEN "remove" ELSE "die", !.seen = 0]

CloseStores ==
  LET i == Me.sem IN
  /\ Runs("closing")
  /\ sems' = CASE Me.seen = 0 -> sems
               [] Me.seen = 1 -> [sems EXCEPT ![i] = NoEntry]
               [] OTHER       -> [sems EXCEPT ![i] = [sems[i] EXCEPT !.users = Me.seen - 1]]
  /\ state' = IF Me.seen = 1 THEN Awakened(Queued(i)) ELSE state
  /\ locks' = locks \ {Registry}
  /\ Goes(AfterClose)
  /\ UNCHANGED <<children, current, victims, next_pid>>

\* sem_post looks whether the semaphore is there before it takes the lock, and
\* wakes the process it took off the queue after it has released it.
PostLooks ==
  /\ Runs("post")
  /\ Goes([Me EXCEPT !.at = IF Me.sem \in Active THEN "posting" ELSE "close"])
  /\ UNCHANGED <<locks, sems, state, children, current, victims, next_pid>>

PostLoads ==
  /\ Runs("posting")
  /\ Takes(Me.sem)
  /\ LET q == sems[Me.sem].blocked IN Goes([Me EXCEPT !.at = "posted", !.seen = IF q = <<>> THEN 0 ELSE Head(q)])
  /\ UNCHANGED <<sems, state, children, current, victims, next_pid>>

PostStores ==
  LET i == Me.sem IN
  /\ Runs("posted")
  /\ sems' = [sems EXCEPT ![i] = IF Me.seen = 0 THEN [sems[i] EXCEPT !.value = @ + 1]
                                                ELSE [sems[i] EXCEPT !.blocked = Tail(@)]]
  /\ locks' = locks \ {i}
  /\ Goes([Me EXCEPT !.at = IF Me.seen = 0 THEN "close" ELSE "waking"])
  /\ UNCHANGED <<state, children, current, victims, next_pid>>

PostWakes ==
  /\ Runs("waking")
  /\ state' = Awakened({Me.seen})
  /\ Goes([Me EXCEPT !.at = "close"])
  /\ UNCHANGED <<locks, sems, children, current, victims, next_pid>>

\* sem_wait of wait_child, masked up to the halt, takes and releases its lock at
\* once.  The entry is active: the process has just opened it.  One that has the CPU
\* but is not RUNNING queues itself, is not blocked and goes on.
Waited(e) == IF e.value = 0 THEN [e EXCEPT !.blocked = Append(@, current)]
                            ELSE [e EXCEPT !.value = @ - 1]
Waits ==
  LET i      == Me.sem
      blocks == sems[i].value = 0 /\ state[current] = "RUNNING"
  IN
  /\ Runs("wait")
  /\ i \notin locks
  /\ sems' = [sems EXCEPT ![i] = Waited(sems[i])]
  /\ state' = IF blocks THEN [state EXCEPT ![current] = "BLOCKED"] ELSE state
  /\ Goes(IF blocks THEN [Me EXCEPT !.at = "halt", !.masked = FALSE] ELSE [Me EXCEPT !.at = "close"])
  /\ UNCHANGED <<locks, children, current, victims, next_pid>>

\* Behind the halt interrupts stay on.
HaltEnds ==
  /\ Runs("halt")
  /\ state[current] # "BLOCKED"
  /\ Goes([Me EXCEPT !.at = "close"])
  /\ UNCHANGED <<locks, sems, state, children, current, victims, next_pid>>

\* sem_remove_pid, masked, takes and releases the lock of each active entry.
RemoveFrom(i) ==
  /\ Runs("remove")
  /\ i \in Active /\ i > Me.seen /\ \A j \in Active : j > Me.seen => i <= j
  /\ i \notin locks
  /\ sems' = [sems EXCEPT ![i] = [sems[i] EXCEPT !.blocked = Compacted(@, Me.pid)]]
  /\ Goes([Me EXCEPT !.seen = i])
  /\ UNCHANGED <<locks, state, children, current, victims, next_pid>>

\* The rest of kill_process.
Buries ==
  /\ Runs("remove")
  /\ \A j \in Active : j <= Me.seen
  /\ state' = [state EXCEPT ![Me.pid] = "KILLED"]
  /\ Goes(InUserCode)
  /\ UNCHANGED <<locks, sems, children, current, victims, next_pid>>

\* The rest of exit_current_process.  After the exit system call the process is
\* in user code again until the tick, and may return from its entry point.
Dies ==
  /\ Runs("die")
  /\ state' = [state EXCEPT ![current] = "KILLED"]
  /\ Goes([InUserCode EXCEPT !.at = IF Me.call = "exit" THEN "exited" ELSE "halted"])
  /\ UNCHANGED <<locks, sems, children, current, victims, next_pid>>

-----------------------------------------------------------------------------
(* What a process in user code does, interrupts, and the scheduler.        *)

Calls(name, p) ==
  /\ Running = current /\ Me = InUserCode /\ current # Idle
  /\ Goes(Starts(name, p, TRUE))
  /\ UNCHANGED <<locks, sems, children, current, victims>>

Create ==
  /\ next_pid <= MaxPid
  /\ Calls("create", next_pid)
  /\ state' = [state EXCEPT ![next_pid] = "READY"]
  /\ next_pid' = next_pid + 1

Waitpid(p) == p \in children[current] /\ Calls("wait", p) /\ UNCHANGED <<state, next_pid>>

\* kill_process does nothing to the shell and to those who are dead.
Killable(p) == p < next_pid /\ p # Shell /\ state[p] # "KILLED"
Kill(p) == Killable(p) /\ Calls("kill", p) /\ UNCHANGED <<state, next_pid>>

Exit == current # Shell /\ Calls("exit", current) /\ UNCHANGED <<state, next_pid>>

\* The entry point returns to the trampoline: in what time is left after the exit
\* system call, which every entry of the repository that ends makes first; or of
\* itself, which the kernel provides for and none of them does.
Returns ==
  /\ Running = current /\ current \notin {Idle, Shell}
  /\ \/ Me = [InUserCode EXCEPT !.at = "exited"]
     \/ Me = InUserCode /\ current \in Returning
  /\ Goes(Starts("return", current, FALSE))
  /\ UNCHANGED <<locks, sems, state, children, current, victims, next_pid>>

\* schedule(): a process that is READY, or RUNNING, gets the CPU.
Tick(p) ==
  /\ Running = current /\ ~Me.masked
  /\ state[p] = "READY" \/ (p = current /\ state[p] = "RUNNING")
  /\ state' = [q \in Pids |-> IF q = p THEN "RUNNING"
                              ELSE IF q = current /\ state[q] = "RUNNING" THEN "READY" ELSE state[q]]
  /\ current' = p
  /\ UNCHANGED <<locks, sems, children, ctx, victims, next_pid>>

\* Ctrl+C, and the loop of kill_foreground_process.
CtrlC ==
  /\ Running = current /\ ~Me.masked
  /\ victims' = {p \in Foreground : p < next_pid}
  /\ UNCHANGED <<locks, sems, state, children, ctx, current, next_pid>>

NextVictim(p) ==
  /\ Running = Irq /\ Me = InUserCode
  /\ p \in victims /\ \A q \in victims : p <= q
  /\ victims' = victims \ {p}
  /\ IF Killable(p) THEN Goes(Starts("kill", p, TRUE)) ELSE UNCHANGED ctx
  /\ UNCHANGED <<locks, sems, state, children, current, next_pid>>

LockNext ==
  \/ OpenLoads \/ OpenStores \/ CloseLoads \/ CloseStores
  \/ PostLooks \/ PostLoads \/ PostStores \/ PostWakes
  \/ Waits \/ HaltEnds \/ Buries \/ Dies
  \/ Create \/ Exit \/ Returns \/ CtrlC
  \/ \E i \in SemIds : RemoveFrom(i)
  \/ \E p \in Pids : Waitpid(p) \/ Kill(p) \/ Tick(p) \/ NextVictim(p)

LockSpec == LockInit /\ [][LockNext]_lockvars

-----------------------------------------------------------------------------
Stops == {"user", "exited", "halted", "open", "opening", "post", "posting", "posted", "waking",
          "wait", "halt", "close", "closing", "remove", "die"}
Frames == [call : {"none", "create", "wait", "waited", "kill", "exit", "return"}, at : Stops,
           pid : Pids \cup {0}, sem : SemIds \cup {0}, seen : Nat, masked : BOOLEAN]
Entries == [pid : Pids \cup {0}, users : Nat, value : Nat, blocked : Seq(Pids)]

LockTypeOK ==
  /\ locks \subseteq Locks
  /\ sems \in [SemIds -> Entries]
  /\ state \in [Pids -> {"none", "READY", "RUNNING", "BLOCKED", "KILLED"}]
  /\ children \in [Contexts -> SUBSET Pids]
  /\ ctx \in [Contexts -> Frames]
  /\ current \in Pids /\ victims \subseteq Pids /\ next_pid \in 3..(MaxPid + 1)

Holds(c, l) ==
  \/ l = Registry /\ ctx[c].at \in {"opening", "closing"}
  \/ l = ctx[c].sem /\ ctx[c].at = "posted"

\* A lock is taken exactly while one context, and no more, is in a section it
\* protects, though entries of the table come and go with their locks.  Who is
\* interrupted there has returned from its entry point, or halted in its waitpid:
\* behind nobody else does anybody ever find a lock taken.
OneInside ==
  \A l \in Locks :
    /\ l \in locks <=> \E c \in Contexts : Holds(c, l)
    /\ \A c, d \in Contexts : Holds(c, l) /\ Holds(d, l) => c = d
    /\ \A c \in Contexts : Holds(c, l) /\ c # Running =>
         ctx[c].call \in {"return", "wait", "waited"} /\ ~ctx[c].masked

\* The references to a semaphore: one of each context between its sem_open and its
\* sem_close, and that of create_process, which whoever waits takes over.
Between(f, i) ==
  f.sem = i /\ f.at \in {"post", "posting", "posted", "waking", "wait", "halt", "close", "closing"}
References(i) ==
  {x \in Contexts \X {"opened", "waits", "parent"} :
     \/ x[2] = "opened" /\ Between(ctx[x[1]], i) /\ ctx[x[1]].call # "waited"
     \/ x[2] = "waits"  /\ Between(ctx[x[1]], i) /\ ctx[x[1]].call \in {"wait", "waited"}
     \/ x[2] = "parent" /\ sems[i].pid \in children[x[1]]}

\* users counts the references to a semaphore, those of the dead included, so it
\* is destroyed with the last one and not before.
UsersCounted == \A i \in SemIds : sems[i].users = Cardinality(References(i))

\* No wake-up is lost between sem_wait and sem_post: who sleeps is in the queue of
\* its semaphore, which has no token, or somebody has taken it off to wake it, or
\* is killing it.
SleepersQueued ==
  \A p \in Pids : state[p] = "BLOCKED" =>
    \/ p \in Queued(ctx[p].sem) /\ sems[ctx[p].sem].value = 0
    \/ \E c \in Contexts : ctx[c].at \in {"posted", "waking"} /\ ctx[c].seen = p
    \/ Runs("remove") /\ Me.pid = p

\* What process.c says of kill: it wakes who waits for the process with waitpid.
\* Nobody sleeps on for a process that is dead, unless that process still has the
\* CPU and is about to wake it.  It is so as long as every entry point exits before it
\* returns; one that returns of itself (Returning) may be killed between the steps of
\* the trampoline, which interrupts separate.
WaitersWoken ==
  \A p \in Pids :
    state[p] = "BLOCKED" /\ state[ctx[p].pid] = "KILLED" =>
      ctx[current].at = "waking" /\ ctx[current].seen = p
=============================================================================
