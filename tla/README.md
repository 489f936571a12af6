# A TLA+ model of the x64BareBones kernel

This directory holds a formal model of the operating system in
`src/x64BareBones`: TLA+ modules, TLC configurations that check them on small
instances, and TLAPS proofs. Paths below are relative to `src/x64BareBones`.

## 1. The system

A single-CPU, 64-bit teaching kernel with a user-space shell. There is one
address space and no privilege separation: a "process" is an entry point run on
a stack of its own. Two interrupts drive everything: IRQ0 (the timer, 1000 Hz)
runs `schedule()`, and IRQ1 (the keyboard) files key events and handles Ctrl+C.
System calls enter through an interrupt gate, so **they run with interrupts
disabled** except where the code turns them on by hand (`sti; hlt` in `sem_wait`,
`enable_interrupts` in the pipe operations and in keyboard reads, and everything
that `process_exit_trampoline` calls).

| component | state | operations | talks to |
|---|---|---|---|
| scheduler (`Kernel/scheduler`) | `ready_queues`, `current_process`, `quantum`, `to_free` | `add_to_ready_queue`, `remove_from_ready_queue`, `schedule`, `block_current_process`, `unblock_process`, `yield_process` | process table; heap (frees stacks) |
| process table (`Kernel/process`) | `process_table`, `next_pid`, `shell_pid` | create, exit, kill, nice, `kill_foreground_process`, `wait_child` | scheduler, semaphores (`wait_<pid>`), heap |
| semaphores (`Kernel/sem`) | `sems` (name, value, users, blocked pids, lock), `registry_lock` | open, close, wait, post, `sem_remove_pid` | scheduler |
| pipes (`Kernel/pipes`) | `pipes` (ring buffer, counters of open ends), `waiting_pipe` in each PCB | create, open, close, read, write, notify | scheduler |
| heap (`Kernel/memory`) | a buddy tree or a bitmap, chosen at build time | `mm_init`, `mm_alloc`, `mm_free`, `mm_state` | everybody |
| keyboard (`Kernel/drivers`) | ring of key events, modifier keys, Ctrl+C latch | IRQ1 handler, `getNextKey`, `clearKeyboardBuffer` | process table (Ctrl+C), `syscall_read` |
| system calls (`Kernel/syscall`) | none | 40 handlers | all of the above |
| exceptions (`Kernel/interrupts`) | `initial_userland_rsp` | dump, wait for Enter, go on as a shell; fatal ones halt | keyboard, shell |
| video console (`Kernel/drivers/video.c`) | cursor, size of the letters, the screen | print, newline, backspace, scroll, clear, resize, print at | `syscall_read` (echo), `syscall_write` |
| speaker (`Kernel/drivers/audio.c`) | gate and tone of PIT channel 2 | play, stop, beep | `sleep_ms` |
| shell (`Userland/shell`) | the line being read, `g_fg_cmd`, `g_bg_cmd`, `g_pipe_ctx`, `cr_last_*` | foreground, background (`&`) and piped lines; the search for a command | system calls |
| programs (`Userland/shell/commands`) | globals shared by the processes of a program | `cat`, `wc`, `filter`, `test_sync`, `test_prio`, `mvar`, Tron and others | system calls, pipes, semaphores |

What makes it hard:

* **The CPU stays with a process that has lost it.** Block, kill and exit only
  change `state`; the switch happens at the next tick. Until then a dead or
  sleeping process can execute, be woken, be killed, or call the kernel again.
* **Stacks are freed by others.** A killed process that has the CPU is freed by
  a later tick (`to_free`); everybody else at once. Slots are reused.
* **Wake-ups by pid.** Semaphore queues hold pids, not PCBs, and are repaired
  when a process is killed, but not when it exits.
* **Mixed interrupt discipline.** The same functions (`sem_open`, `mm_alloc`)
  run with interrupts off (system calls) and on (after a halt, in the
  trampoline).
* **Globals as arguments.** User space has one address space: the shell hands a
  child its command through a static buffer, a program hands its workers their
  arguments through globals, and all processes share cursor, keyboard and speaker.
* **Users meddle.** `kill`, `block`, `unblock` and Ctrl+C reach any process at any
  point of any program, and what it held (a token, an end of a pipe, a table entry,
  a sounding speaker) is not given back.

## 2. Modules

| module | contents |
|---|---|
| `Scheduler` | process table and scheduler: one action per operation, properties |
| `MCScheduler` | its instance for TLC |
| `SchedulerProofs` | inductive invariant and theorems about `Scheduler` |
| `Semaphores` | semaphores and waitpid, composed with `Scheduler` by EXTENDS |
| `PidQueue` | the queue of pids of a semaphore and the loop that takes a pid out |
| `PidQueueProofs` | lemmas about it, for the three modules of proofs that need them |
| `MCSemaphores` | its instances for TLC |
| `SemaphoreProofs` | that `Semaphores` uses `Scheduler`, its inductive invariant and theorems |
| `SemLock` | the locks of the semaphores, and what interrupts do between their accesses |
| `ByteChannel` | what a pipe promises about data: a bounded FIFO of bytes |
| `Pipes` | pipes over `Scheduler`, as the shell's `cmd1 \| cmd2` uses them; implements `ByteChannel` |
| `MCPipes` | its instances for TLC |
| `PipesProofs` | inductive invariant of `Pipes`, the refinement and the other theorems |
| `Allocator` | what `mm_alloc` and `mm_free` promise |
| `Buddy`, `Bitmap` | the two memory managers, each implements `Allocator` |
| `Managers` | the same calls on both |
| `MCKernel` | `Managers` and `SemLock` side by side, an instance for TLC |
| `KernelProofs` | inductive invariants of the two managers, their exactness and refinements, and of the locks of `SemLock` |
| `UserSems` | a semaphore as a user program sees it |
| `TestSync` | the command `test_sync` and what users do meanwhile |
| `Mvar` | the command `mvar` |
| `UserSemsProofs` | inductive invariants and theorems about `TestSync` and `Mvar` |
| `TestPrio` | the command `test_prio` |
| `Keyboard` | scancodes, ring, Ctrl+C latch, the three calls that read keys |
| `Console` | the text console and the echo of the line being typed |
| `Speaker` | the speaker, `sleep_ms`, beeps |
| `CommandLine` | what a line means and how a command is found: pure functions over all short lines |
| `Shell` | how the shell runs a line: contexts, creations, pipe, waits |
| `ShellProofs` | inductive invariants and theorems about `Shell`, `CommandLine` and `PipePrograms` |
| `PipePrograms` | `cat`, `wc`, `filter` and the read of a line from a pipe |
| `Subsequences` | what is left of a sequence where some of its elements are dropped, for the two before |
| `Tron` | rounds, matches, levels, the bot and the menus |
| `UserlandProofs` | inductive invariants and theorems about `Keyboard`, `Speaker`, `Tron` and `Console` |
| `Userland`, `MCUserland` | the ten parts above side by side; their instance for TLC |
| `Faults` | which process goes on on which stack after an exception |

### Scheduler

| variable | code |
|---|---|
| `pid`, `state`, `priority`, `foreground` | the fields of each PCB in `process_table`; `pid[s] = 0` also says that the slot has no stack, as `free_pcb_resources` clears both |
| `ready_queues` | the linked lists, as sequences of slots, head first |
| `current_process`, `quantum`, `to_free`, `next_pid` | the variables of that name |
| `fg_scan` | the loop index of `kill_foreground_process`; 0 outside the keyboard interrupt |

`NoProc` (0) is the NULL pointer. Slot 1 is idle and slot 2 the shell, as `main`
creates them; `Init` is the state when `main` enables interrupts.

System calls are one step, because nothing can interrupt them.
`TimerTick` is `schedule()` in its three outcomes: the current process keeps the
CPU (`TickKeep`), another gets it (`TickSwitch`), nothing can run (`TickNoNext`).
The Ctrl+C loop takes one step per table entry, but no other action is enabled in
between: the handler runs with interrupts off. Whom a kill or an exit wakes is a
parameter `w` of these actions: `Scheduler` allows any blocked process, so its
properties hold whatever the semaphores decide.

A linked list whose PCB is linked a second time is no longer a sequence. The
model stops there (last guard of `CreateProcess`) instead of inventing what the
corrupted list would look like; under the assumptions below that never happens
(`QueuesExact`).

**Assumptions.** The code protects only the shell from being killed or blocked.
Two things that it does not check make the kernel fail, and the properties are
stated for executions without them (`CarefulSpec`):

* `IdleSpared`: nobody kills or blocks idle. Otherwise a tick may find nothing to
  run; a dead process then stays on a stack that the next tick frees.
* `WokenCurrentSurvives`: a process that blocked and was woken before the next
  tick, so that it is both current and queued, is not killed and does not exit
  until that tick. Run `stack_freed` shows what happens otherwise.

### Semaphores

| variable | code |
|---|---|
| `sems` | the table; an entry whose `active` is 0 is `Inactive` (nothing of it is read again) |
| `call` | where a process stands in the calls that sleep: `sem_wait`'s halt loop, called directly or from `wait_child`; between the two `sem_close` of `wait_child`; after `exit` |
| `children` | the pids a process has created and not yet waited for (user-space knowledge, used to enumerate calls of waitpid) |
| `to_wake` | the rest of the loop of `sem_close` over the waiters; interrupts are off |

The module supplies the `w` that `Scheduler` leaves open: `Exit`, `Trampoline`,
`Kill` and `ScanC` open, post and close `wait_<pid>` and then remove the pid from
every queue, all in the step of the kill. A `sem_wait` that finds no token blocks
in one step (`SemWaitBlocks`) and leaves the halt loop in another (`LeaveWait`),
which is possible only when the process has the CPU and is not BLOCKED. In
`wait_child` each `sem_close` after the halt is a step of its own, as interrupts
are on there.

A process that has exited goes back to user code and into the trampoline if no
tick comes first, and posts its wait semaphore a second time: `Exit` followed by
`Trampoline`.

Programs use `sem_wait`, `sem_post` and `sem_close` on semaphores opened under
user names, and wait only for their own children, once each. Names are abstract;
the truncation of names of more than 31 characters is not modelled.

Three specifications:

* `SemSpec`: the code, with idle spared.
* `CarefulSemSpec`: besides, `WokenCurrentSurvives`, and a process that was killed
  or woken since the last tick does not call `sem_wait` or `waitpid` before it
  (`SemWaitPassesBy`, `WaitChildPassesBy` are left out). The runs `orphan_pids`
  and `stack_freed` show why both are needed.
* `FairSemSpec`: with fairness.

### SemLock

`Semaphores` has every call on the table as one step. Two pieces of code call it with
interrupts on, though: `process_exit_trampoline`, to which an entry point returns, and the two
`sem_close` of `wait_child` behind the halt. `SemLock` models the same calls by the accesses between which
a tick or Ctrl+C may fall, for the semaphores of waitpid, which these two work on.

| variable | code |
|---|---|
| `locks` | `registry_lock` and the `lock` of each entry, as the set of those that hold a 1 |
| `sems` | the table; the name of an entry is the pid it is about, 0 when it is not active |
| `ctx` | what each process is doing, and the keyboard handler (`Irq`): the call, where in it, the semaphore it has opened, what it has loaded last, whether interrupts are masked |
| `state`, `current`, `next_pid` | as in `Scheduler`, by pid |
| `children` | the processes each one has created and not yet begun to wait for |
| `victims` | the pids the loop of `kill_foreground_process` still has to look at |

`Running` is the context that has the CPU: the handler while it has work, or else the current
process. All steps but `Tick` and `CtrlC` are its own. An operation is split where it takes or
releases a lock, where it loads what it later stores, and before it wakes somebody; a call with
interrupts off goes through the same steps, and no other context has a step in between. `semLock` is
`Takes`: who finds the lock taken has no step until it is free, and with interrupts
off that is never (so the machine may stop, and the runs do not check for deadlock). `Tick` gives the
CPU to any READY process, since priorities can be anything. The names are without
the buffers from the heap that hold them.

A process comes to the trampoline in two ways (`Returns`). After `exit_process`, which every entry
point of the repository that ends calls before it returns, it goes back to user code and on into the
trampoline if no tick comes first; its wait semaphore was posted in the exit already. An
entry point may also return of itself: `create_process` puts the trampoline on its stack for
that, but no program of the repository does it. The constant `Returning` says which processes do.

### Pipes

| variable | code |
|---|---|
| `pipes` | the table; names are left out |
| `waiting_pipe` | the field of each PCB |
| `op` | where a process stands in `pipe_read`, `pipe_write`, `pipe_notify` or `pipe_close`: the bytes still to write and the pids `pipe_notify` has still to look at |
| `end` | which end of which pipe a process was created to use (`pipe_proc_a`, `pipe_proc_b`) |
| `launching` | `run_piped` between its `pipe_create` and its second `create_process` |

A step is what runs with interrupts off: one turn of the loop of `pipe_read` or
`pipe_write` (it takes the data, stores one byte, sleeps, or gives up). Interrupts
are on between two bytes of a write, and in the call of `pipe_notify` that follows a
transfer, so a tick or Ctrl+C may come between any two of those steps.
`pipe_notify` is a step for the snapshot of the process list and one for each pid;
when `pipe_close` calls it interrupts are off, and `Masked` keeps ticks and Ctrl+C
out. `Sleep` blocks only a RUNNING process, as `block_current_process` does: one
that was killed since the last tick goes round the loop until it comes.

The shell waits for both processes of a pipeline before it creates the next one.
Instead of its waitpid (module `Semaphores`) the model looks at their state, and lets
the turn of the shell stand for commands in the background, which may kill one of
the two (`PipeKill`). The snapshot that `get_process_list` takes is one step although
interrupts may be on: a process that is created meanwhile finds the data already in
the pipe and does not sleep. What a tick inside `unblock_process` does to the linked
list is not modelled here (see the plan, `ReadyList`).

Data: a ring of bytes per pipe. `RingIsChannel` says that the ring, its two positions
and its count implement `ByteChannel` (refinement mapping: `content[i]` is what
lies between the positions), for copies cut short anywhere.

### Buddy, Bitmap and Managers

| variable | code |
|---|---|
| `heap_size`, `total_size`, `levels`, `tree`, `used_mem` | the argument of `mm_init` and the fields of `buddy` |
| `total_blocks`, `bitmap`, `words`, `used_blocks` | `g_total_blocks`, the bits set in `g_bitmap`, the first word of each block of the heap, `g_used_blocks` |
| `held` | what each pointer of the callers refers to; `len` is the size of the block given |

`alloc_recursive` is a search from the left that splits FREE nodes on its way down.
A FREE node always has what is asked for below it, so the search never undoes a split
and its result is the least candidate of its level; `SplitTo` is what it leaves
behind. `update_parent` is a recursive function over the ancestors with its early
exit; the loop of `mm_free` merges up to the last ancestor whose siblings are FREE.

In `Bitmap` a caller writes over the whole of its block as soon as it gets it, so a
header that lay inside a block would be lost. Callers free what they hold, NULL,
addresses out of range or unaligned, and blocks already freed, as the unit tests do
(`FreeStray`). An address inside a block in use is not a call the bitmap manager can tell
from a good one, and is left out; the buddy manager can, but gets the same calls.

`Managers` makes the same calls to both: the project's README says they are
interchangeable. Calls are atomic, as they are in a system call.

### User programs: UserSems, TestSync, Mvar, TestPrio

`UserSems` is the semaphore at the level programs see: operations on one record
(`active`, `value`, `users`, `waiting`). A sleeper goes on in the step that wakes it;
how that comes about over the scheduler is the subject of `Semaphores`.

| variable | code |
|---|---|
| `g_global`, `sync_args`, `tsync_sem` | the shared variable, `g_n` and `g_use_sem`, the semaphore of that name |
| `worker`, `runner` | where each worker and the command stand (`at`), what is left of their loops, the local `aux` of `slowInc`, the pids created |
| `mvar_val`, `mvar_sems`, `mvar_n`, `mvar_pids` | the variable, `mvar_empty/full/mutex`, `n_writers` and `n_readers`, `writer_pids` and `reader_pids` |
| `party`, `mvar_cmd` | where the writers and readers stand; the command: which of its loops, `i`, the process it has created and not filed yet |
| `max_value`, `run`, `counter` | the global of `test_prio`; each run of it: phase and loop index; the processes it created |

`slowInc` is a read and a store with anything in between; its yield is the
interleaving. A worker starts by copying the arguments, so it may start before or
after another run of the command has replaced them. Only the command is in the
foreground: Ctrl+C kills it and leaves the workers. `budget` and `mvar_budget` bound
how often the commands are given and how often a user kills, unblocks or interrupts.
`net`, `fresh`, `disturbed`, `mvar_disturbed` and `overwritten` are ghosts: what the
variable should be, and whether a user has done what voids the promise (an unblock of
a sleeper; a second `test_sync` over workers of the first; a second `mvar` over an
unread value).

Each `mvar` asks for numbers of writers and readers of its own (`MvarArgs`); numbers out of
range are refused after they were stored, which processes of an earlier run may see. A run
creates its writers, then its readers; a creation that fails leaves a gap, and Ctrl+C
may end the command between any two. A process that looks its pid up before
the command has filed it finds no number and exits. Those of earlier runs go on beside
those of a new one: the semaphores, opened once more, keep their values. `party` has an
entry for each process there is room for, and one that is gone may be created again, with another
pid, so tables forget it.

### Keyboard

| variable | code |
|---|---|
| `mode` | `e0_prefix`, `ctrlPressed`, `ctrlC_latch` |
| `ring` | `buf`, `nextkey`, `lastkey`, `count` |
| `reader` | the call that reads (a line, a batch of `getchar`, the wait for Enter of an exception), where it stands in `getNextKey`, the text so far |
| `held`, `wire` | the keyboard: keys that are down, second byte of a two-byte code |

`getNextKey` runs with interrupts on, so each of its accesses is a step: `Fetch`,
`LoadNext`, `StoreNext`, `LoadCount`, `StoreCount`. An interrupt between them that
drops the oldest event, or comes between the load and the store of `count`, damages
the ring: the ghost `torn` records exactly those places (`Spoils`), and the
properties hold up to the first of them and again after the next
`clearKeyboardBuffer`. Keys repeat while they are held. Ctrl+C kills the child that
reads, which goes on until the next tick (`ReaderGone`).

### Console and Speaker

| variable | code |
|---|---|
| `con` | `cursor_x`, `cursor_y`, `g_scale`, the cells of the screen in units of the smallest glyph |
| `echo` | `syscall_read` between two keys, and inside `vdPrintCharStyled`: glyph drawn, cursor advanced, screen scrolled |
| `speaker` | bits of port 0x61 and the divisor of channel 2 |
| `sleeper` | each process in `sleep_ms`: the ticks that went by |

What a system call prints is one step, but `syscall_read` echoes with interrupts on, so
other processes print, clear or resize between its steps. `Place` says where the
i-th glyph of a line belongs, independently of the code that draws it.
`TimerOnIrq` counts for every sleeper whether its tone is the one that sounds.

### CommandLine, Shell and PipePrograms

`CommandLine` is the code of `shell_dispatch`, `simple_tokenize` and the binary
searches of `commandRead.c` as functions of a line; its only state is the line,
which grows by one character, so that the run visits every line of up to `MaxLine`
characters. Characters are numbers (two letters, blank, `&`, `|`).

| variable | code |
|---|---|
| `shell` | where `run_foreground`, `run_background` or `run_piped` stands, the pids it waits for |
| `given_to`, `context_pipe` | `g_fg_cmd`, `g_bg_cmd` and the two commands and the pipe id of `g_pipe_ctx` |
| `cr_last` | `cr_last_cmd_id`, and the buffer `cr_last_argv` points into |
| `child`, `pipes` | each process and where it stands in its dispatch and its command; open ends of each pipe |
| `program`, `stream`, `counted`, `output` | one of `cat`, `wc`, `filter`; what the pipe still brings; its results |

A child dispatches in six steps, each of which may be followed by a tick, since the
globals are read in one and used in another. The ghost `mixed` marks a child during
whose dispatch another one wrote them; `OwnCommand` says that nothing else makes a
child run another command.

Of a command the model keeps what it waits for. One that reads does so from the keyboard,
or from the pipe as the right side of `|`, to the end of its input. One that does not read runs to
its end (`CommandReturns`) or stays: `test_proc` loops until it is killed, `sem wait` sleeps
until somebody posts, `test_mm` and `tron` go on until keys tell them to end. Nothing but its user ends
a command that stays (`StayEnds`, which is not fair, or Ctrl+C).

`PipePrograms` enumerates every stream of up to `MaxStream`
characters and compares the output with a definition by the ends of lines.

### Tron

`at` is where `startGame` stands; `occ` the set of occupied places of the one-row
array; `player`, `intent`, `score`, `level` the variables of that name. A tick of
`play_Game` is one step: player 2 turns, moves and paints before player 1.
Coordinates are 16 bits wide, as in the code. Whether the bot swerves depends on the
clock and is left open.

### Userland

The ten parts share no variable. `Userland` puts them side by side: the variable
`part` is chosen in the first state and says which one moves (`Only`), so one run
checks ten models and its states are the sum of theirs. Most of the modules also have a
specification of their own (`SyncSpec`, `KbdSpec`, ...), which the proofs use.

### Faults

`proc` holds for each process what it does, the stack its PCB owns and the stack its
RSP is in; `initial_userland_rsp` is the variable of that name. A process that
faulted goes on as a shell and may create children, so shells nest.

### Fairness

* Timer ticks: `SF`. In the model the tick is disabled in the middle of the loops
  that run with interrupts off (`fg_scan # 0`, `to_wake # <<>>`, `Masked`), which may
  come again and again, so weak fairness would not do. In the machine IRQ0 is
  latched while interrupts are off and has the highest priority at the PIC.
* `CtrlCScan`, `WakeNext`: `WF`. Loops with interrupts off end.
* `LeaveWait`: `SF`. A process that gets the CPU again and again executes the
  instructions after its halt, although each tick may take the CPU away first.
* In `Pipes`, `SF` on the calls of each process: one that gets the CPU again and
  again goes on. That a program reads to the end of file, or ends its writes and
  closes, is not assumed: one may write for ever.
* `TestSync`, `TestPrio`, `Shell`: one `WF` on all steps of the part together: the CPU
  runs some ready process. Nothing is assumed about which; each process ends or
  waits after finitely many steps. Actions of users are never fair.
* The liveness properties of user space each say that something comes again and again
  (`[]<>`): that a run which stays is over, that the shell prompts, that no unread value is left.
* `Mvar`: `WF` for each process, whose loops never end: they have one priority, and
  the scheduler serves a level in turn (`UrgentServed`).

## 3. Runs

| run | instance | shows |
|---|---|---|
| `scheduler` | 4 slots, 2 priorities, `QUANTUM` 1, pids up to 4 | `QueuesExact`, `SlotsAccounted`, `StackInUseKept`, `MostUrgentFirst`, `NoOvertaking`, `UrgentServed`, `KilledRecycled` |
| `semaphores` | the same slots, `QUANTUM` 0, 4 semaphores, 1 user name | `SemTypeOK`, `SleepersExact`, `NoTokenWhileWaiting`, `WaitMeansDead` |
| `waitpid_ends` | without user names | `WaitEnds` |
| `pipes` | the same slots, 1 pipe of 2 bytes, writes of up to 2 bytes | `PipeTypeOK`, `SleepersNotified`, `RingIsChannel`, `CallsReturn` |
| `pipe_write_too_long` | writes of up to 3 bytes | violation of `CallsReturn` |
| `heap_and_locks` | 3 pointers, heaps of 63, 80 and 150 bytes, 6 sizes; pids up to 4, 4 semaphores, one process in the foreground, both may return of themselves | `ManagersTypeOK`, `AccountsExact`, `BuddySearchExact`, `BothAreAllocators`, `OneInside`, `UsersCounted`, `SleepersQueued` |
| `orphan_pids` | `SemSpec`, 5 semaphores | violation of `NoOrphans` |
| `stack_freed` | `SemSpec`, 5 semaphores | violation of `StackInUseKept` |
| `waitpid_reused_entry` | 3 semaphores | violation of `WaitNotCutShort` |
| `wake_up_lost` | `SemLock` alone, the same instance, where one process may return of itself | violation of `WaitersWoken` |
| `userland` | the ten parts of user space, see below | `NoLostUpdate`, `TestSyncEnds`, `ReadOnce`, `ValueHandedOn`, `TestPrioEnds`, `RingHoldsPending`, `LinesAreFresh`, `CtrlCOncePerPress`, `EchoShown`, `BeepHeard`, `LinesSplit`, `CommandsFound`, `OwnCommand`, `PipesKept`, `PromptReturns`, `PipeResults`, `BotSurvives` |
| `fault_stack` | 3 processes, 3 stacks | violation of `OwnStack` |

What the properties say:

* `SemTypeOK`, `PipeTypeOK`: types, those of the scheduler (`TypeOK`) included.
* `QueuesExact`: a PCB is READY exactly when it is linked once, in the queue of
  its priority.
* `SlotsAccounted`: a stack belongs to a live process or to one whose release is
  due, `current_process` has a stack, pids are unique, idle can run.
* `StackInUseKept`: no step frees the stack the CPU is on or goes to.
* `MostUrgentFirst`, `NoOvertaking`, `UrgentServed`: priority order at dispatch,
  FIFO order in a level, and round robin at the most urgent level. Lower levels
  may starve, as the project's README says; nothing is claimed about them.
* `KilledRecycled`: the slot of a killed process becomes free.
* `SleepersExact`: the queue of a semaphore is exactly the set of processes asleep
  on it. A lost wake-up, a pid left behind and a process asleep without being
  queued all violate it.
* `NoTokenWhileWaiting`: posts hand the token over.
* `SleepersNotified`: whoever sleeps on a pipe although its call could go on is still
  to be notified by a process on its way to `pipe_notify`.
* `CallsReturn`: reads and writes return, by data, end of file or broken pipe. Both
  properties except a pipe one of whose ends was left open by a process killed: nobody
  lowers its counter (`Deserted`).
* `BothAreAllocators`: each manager implements `Allocator`, that is,
  blocks are aligned, large enough, inside the heap, and disjoint from all others.
* `BuddySearchExact`: a search succeeds exactly when a block of that size is free, so
  merging is complete and no SPLIT or FULL mark is stale. `AccountsExact`: what either manager records is what callers hold, after any history.
  `ManagersTypeOK` says besides that the tree of the buddy manager and the heap behind
  it do not overlap.
* `WaitMeansDead`, `WaitEnds`: waitpid returns only when, and always when, the
  child is dead, on the semaphore that `create_process` opened. `WaitNotCutShort` asks
  this of every wait that has a semaphore, which does not hold: finding 4.
* `OneInside`: a lock is taken exactly while one context is in a section it protects,
  although `sem_open` gives an entry a free lock whatever it was, and only the trampoline and what
  follows a halt are ever interrupted with one. `UsersCounted`: `users` counts the contexts
  between their `sem_open` and `sem_close` and the reference that `create_process` leaves for the parent,
  also those of processes that died there. `SleepersQueued`: a sleeper is in the queue of its semaphore
  without a token beside it, or somebody has taken it off. `WaitersWoken` asks that this somebody still
  be there to wake it, which does not hold for an entry point that returns of itself: finding 1.
* `NoLostUpdate`: with its semaphore `test_sync` loses no operation, whoever is killed
  or interrupted; `TestSyncEnds`: the command prints its result, unless a user made it
  lose its token.
* `ReadOnce`: every value of `mvar` is read exactly once, whatever kills, failed creations and
  further runs with other numbers do, until a user unblocks a sleeper or gives the
  command over an unread value; `ValueHandedOn`: it is read in the end, while a reader is left.
* `TestPrioEnds`: every run of `test_prio` ends, however fast its processes count and
  whichever could not be created.
* `RingHoldsPending`: outside `getNextKey` the ring holds the latest events in order.
  `LinesAreFresh`: what a line says was typed while it was read, and 0 means Ctrl+D or
  Ctrl+C during that very call. `CtrlCOncePerPress`: a press interrupts once, however
  long it is held, and never fails to.
* `EchoShown`: the screen shows prompt and line over any number of wraps and scrolls
  and the cursor stands behind them. `BeepHeard`: a beep nobody interferes with is
  heard as long as asked, and ends in silence.
* `LinesSplit`: put together again, the commands of a line are the line.
  `CommandsFound`: a word finds a command exactly when it is its whole name and begins
  no other, in every sorted table.
* `OwnCommand`, `PipesKept`, `PromptReturns`: a child runs the command of its own line,
  no pipe outlives its line, and the prompt comes back; each with the exceptions that
  its comment names. For the prompt these are what waits for its user: a command in the
  foreground that reads the keyboard or stays, and a lone side of a pipe.
* `PipeResults`: `cat`, `wc` and `filter` give every line, count them, and drop vowels.
* `BotSurvives`: the bot of Tron loses only where no cell ahead or beside it was free.

**Bounds.** Two processes besides idle and the shell are enough for one process
to act on another while a third is current, for a slot to be reused (a pid is
spent on a process whose slot is taken by the next one when it dies early), for
two sleepers on one semaphore, and for a nested waitpid. Two priorities tell
"more urgent" from "less urgent". `QUANTUM` 1 has both kinds of tick; with 0 every
tick preempts, which is the most interleaved schedule. The scheduler's safety
properties were also checked once with 3 priorities and 5 pids, and the theorems
hold for all values. A pipe of two bytes is full, half full or empty, its positions
wrap, and two byte values tell any two contents apart; the shell uses one pipe at a time. Its
safety properties were also checked once with 6 pids, where a second pipeline reuses
the pipe and the slots of the first. A heap of 63 bytes is too small for the buddy
manager, one of 80 just holds a tree and four blocks, and one of 150 has eight blocks in
four levels, enough for three callers to fragment it in every way; pointers are
symmetric. `Addresses` bounds stray frees to block boundaries and their middles. `MaxWrite`, `MaxRead`, `MaxValue`, `MaxUsers`, `MaxPid` and `MaxStray` bound counters
that grow without limit in the code. `MAX_BLOCKED` is at least the number of
processes, as in the code (64 and 64).

In `userland`: one worker that adds and one that subtracts, up to two pairs asked for and two
operations in all, so a second run of `test_sync` can meet workers of the first, and one act
of meddling, enough for each of kill, unblock and Ctrl+C at every point; two runs of `mvar`, each with
two writers and a reader, one of each, or numbers that are refused (`MvarRuns`; `MAX_PARTY` is 2
where the code has 10), among room for two writers and a reader: writers and readers of a second run
meet those of the first, and creations fail; two runs of `test_prio` with two
processes each. A ring of two events that overflows, lines of one character, three
presses and two reads: enough for a second line to find what the first left behind and
for each key to fall inside each access. Screens of 4 by 3 cells with letters of size 1,
2 and 3 (as high as the screen, so that a scroll clears it), two prompts with two keys each and one use by another process: a line wraps
and scrolls; a larger instance (two prompts, four keys, two outputs; 3.0 million
states) was checked once. Two processes that use the speaker, three calls, a tone of 0 and one
below the minimum. Lines of up to five characters, every sorted table of up to three
names of up to two letters. Two lines given to the shell, three children, one pipe, one
Ctrl+C: a second command meets a background process of the first. Streams of up
to six characters with a buffer of three. A board of 5 by 3 cells, two levels, two
matches of three points.

In the part of `heap_and_locks` about `SemLock`, two processes besides idle and the shell may create, wait, kill, exit and return; one can be the
child of the other, and one of them is in the foreground. With them, two contexts can stand in
the trampoline or behind a halt at once, while a third, or the handler, makes a call with interrupts
off. `SemLock` goes as far as `sem_open` finds an entry for a new name (a full table is the subject
of `Semaphores`); with four entries for four pids it always does.

`TickNoNext` is never taken under `IdleSpared`: lemma `AlwaysANext` proves it.

## 4. Findings

1. **A wake-up is lost** (`wake_up_lost`), for an entry point that returns of itself. It comes to the
   trampoline, which `create_process` put on its stack, and calls `sem_open`, `sem_post` and `sem_close`
   with interrupts on. There `sem_post` has taken the parent off
   the queue and released the lock, but not yet called `unblock_process`, when Ctrl+C comes. It
   finds nobody in the queue and marks the process KILLED; the next tick takes the
   CPU from it for good. The parent sleeps in waitpid for ever. No program of the repository
   meets this: the processes the shell waits for (`shell.c:74-102`) and all others that end call
   `exit_process`, which posts and wakes with interrupts off, before they return. With
   `Returning = {}` in the same instance TLC finds no violation (232,218 states).
2. **Orphan pids** (`orphan_pids`). A process killed while it has the CPU (by
   itself or by Ctrl+C) still runs until the tick. If it calls `sem_wait`, its pid
   enters the queue after `sem_remove_pid` has run, and a later `sem_post` is spent
   on it.
3. **A stack in use is freed** (`stack_freed`). A parent halts in waitpid; Ctrl+C
   kills its child before the next tick, so the parent is queued while it is still
   current; it returns from waitpid and exits, and is marked KILLED
   while it is queued. The tick sets `to_free` to it, then meets it at the head of
   the queue and frees it on the spot, standing on its stack. One tick later
   `to_free` is freed again; if the slot has been reused, that is the stack of a
   new process.
4. **One wait ends another** (`waitpid_reused_entry`). Wait semaphores of background
   processes that nobody waits for are never closed, so the 32 entries run out, and
   children are created without one. waitpid of such a child returns at once when the
   table is still full. When an entry is free by then, the `sem_open` of `wait_child`
   creates a semaphore with a single user, the first `sem_close` destroys it, and the
   second, which interrupts may precede, meets an entry that is free or, by then, somebody
   else's. If another process has opened it to wait for a child of its own, it is
   destroyed under that waiter, and its waitpid returns with the child alive.
5. **A long write sleeps for ever** (`pipe_write_too_long`). `pipe_write` notifies
   only after its last byte. A write longer than the buffer fills it and blocks while
   the reader, which found the buffer empty before, is still asleep. `CallsReturn` holds
   for writes of up to `PIPE_BUF_SIZE` bytes and fails beyond; the commands in the
   repository stay below 4096.
6. **A process goes on on another one's stack** (`fault_stack`).
   `initial_userland_rsp` is saved at the first exception since boot and never again.
   The first command that faults goes on on its own stack; the next one goes on on that
   of the first, which has been released, or still runs a nested shell.

Seen while modelling; the properties make an exception for them where they meet them,
and no run shows them by itself:

* Locks do spin with interrupts off, though `sem.c` says they do not: Ctrl+C while a process that
  returned from its entry point has `registry_lock` makes the handler spin for it, the
  process never goes on, and the machine stops. After a tick there, the system call of another process does
  the same. In `SemLock` such a state has no step.
* A slice lasts six tick periods, where the project's README says five: `schedule()` tests `quantum > 0`
  before it decrements.
* `test_sync`: 32 pairs are 64 workers, more than the table holds besides the other
  processes; creations fail silently and the result is not 0 (the project's README says it
  always is). Ctrl+C leaves the workers running, and the next run resets the variable
  under them. A worker killed between wait and post takes the token with it.
* `mvar` given a second time empties the variable while `mvar_full` may still be 1. A number
  out of range is stored before it is refused: a process of the run before that looks itself up
  then finds no number, or reads beyond the table.
* `test_prio` twice at once: the second overwrites `max_value`, processes of the first are
  past it and count for ever, at the highest priority if it is their turn.
* Keyboard: with both Ctrls down, releasing one clears `ctrlPressed`; an interrupt
  between the load and the store of `count` in `getNextKey` loses an event; Ctrl+D in
  the middle of a line drops what was typed.
* Pipes: Ctrl+C and failed creations leave ends open: the pipe leaks, and a lone
  reader hangs until Ctrl+C. A line of exactly 255 characters counts twice in `wc`.
  `&` behind a pipe is ignored (as the project's README says).
* `cr_last_cmd_id` and `cr_last_argv` are shared by all children that dispatch.
* Console: a backspace at column 0 puts the cursor beyond the last column, and the next
  glyph is lost; one over a tabulator erases a cell of four; what another process prints
  between the advance of the cursor and the scroll falls off the screen.
* A process killed while it beeps leaves the speaker on.
* Tron: in a head-on race for one cell player 2 moves first and player 1 loses; after a
  tie the title names a level higher than the one played; returning to the menu
  calls `startGame` again without unwinding the stack.

## 5. Proofs

`SchedulerProofs` proves, for every number of slots, priorities, quantum and pids:

| theorem | statement |
|---|---|
| `TypeCorrect` | `CarefulSpec => []TypeOK` |
| `QueuesAlwaysExact` | `CarefulSpec => []QueuesExact` |
| `SlotsAlwaysAccounted` | `CarefulSpec => []SlotsAccounted` |
| `StacksInUseAlwaysKept` | `CarefulSpec => StackInUseKept` |
| `MostUrgentAlwaysFirst` | `CarefulSpec => MostUrgentFirst` |
| `NobodyEverOvertakes` | `CarefulSpec => NoOvertaking` |

The inductive invariant is `IInv == TypeOK /\ QueuesExact /\ SlotsAccounted`. The
parts need each other. That a kill of a queued process leaves no trace of it needs
`QueuesExact` (it was linked only once, where its priority says). That a dispatch
finds a live process with a stack needs both: what is queued is READY
(`QueuesExact`) and what is READY has a stack (`StacksAccounted`). That the deferred
release hits nobody else needs `to_free` to be dead, to keep its pid until then, and
to be different from `current_process`. `CurrentAccounted` keeps idle able to run,
so a killed current process is always left for another stack before it is freed.

The proof goes by action: one lemma `<Action>IInv` each, over lemmas on the lists
(`UnlinkResult`, `AppendResult`, `EnqueueExact`, `DequeueExact`, `WokenExact`,
`TailResult`, `RequeuedExact`). `QueuedEligible` shows that under `IInv` everything
queued may run, so `TickSwitch` takes the head of the first non-empty queue and
drops nothing. The action properties follow from `IInv` and the same lemmas.
`NobodyEverOvertakes` compares the queues before and after each step: whoever stands
behind another (`Ahead`) and was in that queue before was behind it before
(`NextAhead`), which the lemmas on lists give for a removal, an append and both together.
The assumptions used are the named ones of `Scheduler` (at least two slots, at
least one priority, the default one among them).

`UserSemsProofs` proves about `TestSync`, for any number of workers, pairs, operations and acts of
meddling:

| theorem | statement |
|---|---|
| `SyncInvariant` | `SyncSpec => []SyncInv` |
| `NoUpdateEverLost` | `SyncSpec => []NoLostUpdate` |
| `OneInCritical` | at most one worker is between wait and post, until disturbed |

`SyncInv` is the shape of the state and, until a user disturbs, six facts.
`CopyFresh` is what makes a store right: what the holder has read is still there. That
needs `OneToken`: the token is in the semaphore or with one worker. `OneToken`
holds only while the semaphore exists (`SemaphoreKept`): a `sem_wait` on a closed one
returns at once, with -1 that no program tests. The last close comes with the result,
when all workers the command owns are dead; `RunnerOwns` says that these are all that
live, so that nobody is left to wait or post. `FlagsAgree` keeps workers that use the
semaphore apart from those of a run that does not. The proof has one lemma per action
over lemmas on the operations of `UserSems`; its assumption is `TestSyncAssumption`
(adders and subtracters are different processes).

`UserSemsProofs` proves about `Mvar`, for any number of runs of the command, whatever numbers of writers
and readers each asks for, creations that fail, kills of processes and of the command:

| theorem | statement |
|---|---|
| `MvarInvariant` | `MvarSpec => []MvarInv` |
| `ValuesReadOnce` | `MvarSpec => []ReadOnce` |
| `OneAtTheVariable` | at most one process holds the token, until a user disturbs |

The argument is that of `TestSync` with two semaphores in place of one. Until a user
disturbs, there is at most one token in all (`OneMvarToken`): in `mvar_empty`, in `mvar_full`
or with a process. `TokenTells` ties it to the value: a token in `mvar_full` means unread,
one in `mvar_empty` read or none yet, one with a reader unread until it has read, and
likewise for a writer. That a post hands the token to somebody who sleeps on that semaphore
and not elsewhere is `QueuesTrue`, which holds always: kills take a pid out of every queue.
`SemaphoresFirst` says that no process runs before the semaphores exist. None of this asks which run a
process belongs to, how many there are of its kind, or what it found in the tables, and a run over an older one
keeps it, since the semaphores are opened again and not made anew. Two things end it: an unblock, after which a
process goes on without a token, and a run given over an unread value, which is gone while its token stays.

`SemaphoreProofs` proves, for any number of semaphores, names, users and values besides:

| theorem | statement |
|---|---|
| `SemaphoresUseScheduler` | `SemSpec => Spec`: every behaviour of `Semaphores` is one of `Scheduler` |
| `SemaphoresKeepTables` | `CarefulSemSpec` keeps `QueuesExact`, `SlotsAccounted`, `StackInUseKept`, `MostUrgentFirst` |
| `SemaphoresTypeCorrect` | `CarefulSemSpec => []SemTypeOK` |
| `QueuesHoldSleepers` | `CarefulSemSpec => []SleepersExact` |
| `TokensHandedOver` | `CarefulSemSpec => []NoTokenWhileWaiting` |
| `WaitpidReturnsAfterDeath` | `CarefulSemSpec => WaitMeansDead` |

The first two come from one lemma per action that the step is, seen from the scheduler,
one of its own with the processes to wake as parameter. The inductive invariant
`SemIInv` adds to `IInv` nine facts. `TableExact`: names are unique, a queue has no pid
twice, and none is left in a destroyed entry or beside a token. `SleepersListed`: a
queued pid is that of a process asleep there, and a sleeper is queued or among the pids
`sem_close` still has to wake. A queue thus never outgrows its array
(`QueueHasRoom`): it holds different pids of processes asleep, and `MAX_BLOCKED` is at least
the number of slots (`sem.h` and `process.h`: 64 both; this is an assumption of the
module). For `WaitMeansDead` one must know where a wake-up in waitpid can come from:
from a token, and only exit and kill leave one in a wait semaphore (`TokensFromDead`),
or from the end of the semaphore, and then no other of that name exists until the parent
is gone, because a child has one parent (`ChildrenOwned`) and a name is never used before the
process is created (`SemsOfCreated`). `WaitersNamed` says this of every process in
waitpid. The first attempt, without the hypothesis that the wait semaphore of the child
exists, was not inductive; TLC made a counterexample of the step that failed, and it is
finding 4.

`PipesProofs` proves, for any number of pipes, sizes of buffer and lengths of writes:

| theorem | statement |
|---|---|
| `PipesTypeCorrect` | `PipeSpec => []PipeTypeOK` |
| `PipesKeepTables` | `PipeSpec => [](QueuesExact /\ SlotsAccounted)` |
| `PipesKeepStacks` | `PipeSpec => StackInUseKept` |
| `PipesAreChannels` | `PipeSpec => RingIsChannel`: each ring implements `ByteChannel` |
| `NoPipeWakeUpLost` | `PipeSpec => []SleepersNotified` |

`PipesInv` consists of `RingInv` (types, and the writer's position is where the bytes end,
without which a stored byte would be read out of turn), the scheduler's `IInv`, and
what the programs of `run_piped` do with the pipe: who sleeps is in an operation and its
PCB says on which pipe (`SleepersMarked`), a process that has blocked and still has the CPU
is not woken before the tick (`CurrentStuck`, which makes the scheduler's assumption
`WokenCurrentSurvives` a fact here), an end that somebody has is open once and shared with
nobody (`EndsInv`). The refinement maps a ring to `Content`, its bytes from the reader's
position on; `StoredContent` and `TakenContent` say that a step on the ring appends to
it or takes its first bytes off.
`NoPipeWakeUpLost` looks at each step that makes a sleeper able to go on: whoever made
it (a byte stored or taken, an end closed) has the sleeper in the list it is to
notify, and keeps it there until it is awake.

`ShellProofs` proves, for any number of processes, pipes, lines and Ctrl+C, for lines and
streams of any length and any length of `argv`:

| theorem | statement |
|---|---|
| `ShellInvariant` | `ShellSpec => []ShellInv` |
| `CommandsAreOwn` | `ShellSpec => []OwnCommand` |
| `PipesAreKept` | `ShellSpec => []PipesKept` |
| `SearchFindsCommands` | in every sorted table the search finds a command exactly when the token is the whole name of one and begins no other |
| `CommandsAlwaysFound` | `LineSpec => []CommandsFound` |
| `LinesAlwaysSplit` | `LineSpec => []LinesSplit` |
| `PipesGiveResults` | `ProgSpec => []PipeResults` |

A child finds its command in globals of the shell. `ChildrenFollow` says, for each place
in the dispatch, which of them still hold its command; to keep it when the
shell writes one of them for the next line needs `ChildrenWaited` (whoever is alive and not
in the background is waited for, so at the prompt no one is left) and `SidesUnique` (a pipe has one child at each
end). `PipesDue` gives the counts of open ends exactly: an end of the pipe in use is open as
long as its child is alive or still to be created, every other one is closed, unless a
kill or a failed creation abandoned the pipe. `PipesKept` is what this says at the prompt.

The properties of `CommandLine` are about functions of a line, and its only invariant is that a
line is a sequence of characters. The search halves a range; `BoundCounts` shows, by the length of
the range, that where the names to skip come before all others it returns their number.
That they do in a sorted table is `CmpPrefixGrows` (going up a table, the comparison with a token only
goes from below over equal to above). `SearchFindsCommands` takes tables and tokens of any length;
`CommandsFound` those of its small `Tables`, with every line. The tokens are counted by
`TokensCounted`: a word begins where the character before is blank (`WordStarts`), each turn of the
loop takes the first of those that are left (`NextStart`), and it stops at the last entry
of `argv`. For `LinesSplit`, a line is cut in two at a time (`CutInTwo`), what is not blank
in a line is what is not blank in its parts (`NonBlankJoined`), and trimming drops
only blanks. `PipeResults` speaks of the end only. `ProgInv` says what holds in between: the
results are those of what has been read so far (`Taken`), and a read stops between two lines
unless it is at the end. The latter needs lines shorter than the buffer, as the property
supposes. `ReadTakesLine` shows that what has been read grows by a line, and `FilteredLine` and
`CountedLine` what that adds to the results.

`KernelProofs` proves about both memory managers, as they stand in `Managers`, for every size of
block, of heap and of request and any number of pointers:

| theorem | statement |
|---|---|
| `BitmapInvariant` | `ManagersSpec => []BitmapInv` |
| `BitsAreExact` | `ManagersSpec => []BitmapExact` |
| `BitmapFits` | `ManagersSpec => []M!BitmapTypeOK` |
| `BitmapImplementsAllocator` | `ManagersSpec => BitmapIsAllocator` |
| `BuddyInvariant` | `ManagersSpec => []BuddyInv` |
| `BuddyUsedAlwaysExact` | `ManagersSpec => []BuddyUsedExact` |
| `BuddySearchAlwaysExact` | `ManagersSpec => []BuddySearchExact` |
| `ManagersTypesHold` | `ManagersSpec => []ManagersTypeOK` |
| `BuddyImplementsAllocator` | `ManagersSpec => BuddyIsAllocator` |
| `AccountsAlwaysExact` | `ManagersSpec => []AccountsExact` |
| `BothImplementAllocator` | `ManagersSpec => BothAreAllocators` |

The assumption is `ManagersAssumption`: a block has some bytes, a power of two of them (16
in the code), and sizes are unsigned. That it is a power is needed for the buddy manager
only, whose blocks would otherwise not begin at multiples of the smallest one.

The bitmap manager keeps two things, bits and the headers in the heap, and callers hold
addresses. `HeadersTrue` says that the header before each address held has the length of
its block, `SpansApart` that the blocks with their headers do not meet, `BitsTrue` that
the bits are exactly those of these blocks. A release clears the bits that the header
tells, so it needs the first to be right and the second to hit nobody else. The search takes
the least block from which enough are clear. Two facts about the
callers are in the model's actions and the proof rests on them: whoever gets a block
overwrites the whole of it, and nothing but it, and callers free what they hold or what is
not in use. Writes beyond a block would lose headers. The refinement maps what callers hold to `held` of `Allocator`, and the heap past the
bitmap to `total`.

The buddy manager keeps one mark for each node of a tree, and the invariant is about
neighbours only: every node agrees with its two children (`Agrees`), being USED over two FREE
ones or else what `update_parent` would make of them. What the properties say about distant nodes
follows by going up or down level by level: below a FREE or a USED node all is FREE
(`FreeBelow`, `UsedBelow`), a node that is not FREE has one in use at or below it
(`SomeUsedBelow`), and so no node in use is above another one and blocks in use are apart
(`UsedApart`). `SplitMarks` and `MergeFrees` show that splitting down to a node and merging
up from it leave at most one node that disagrees, the parent of the one where they end, and
`UpdateRepairs` that the loop of `update_parent` may stop at the first ancestor that does not
change. The rest of the invariant (`HeldUsed`, and that `used_mem` counts the bytes of the USED
nodes) ties the tree to what callers hold. The places of blocks are powers of two: `Powers` proves
what they need (that 2^(n+1) is twice 2^n, which is a definition by recursion in the standard modules) from
the number of subsets of a finite set, and `ApartOrAbove` that two blocks either do not
meet or belong to a node and one above it.

`KernelProofs` proves about `SemLock`, for any number of processes and of entries of the table:

| theorem | statement |
|---|---|
| `LockInvariant` | `LockSpec => []LockInv` |
| `LockTypesHold` | `LockSpec => []LockTypeOK` |
| `NeverTwoInside` | `LockSpec => []OneInside` |
| `UsersAlwaysCounted` | `LockSpec => []UsersCounted` |
| `SleepersAlwaysQueued` | `LockSpec => []SleepersQueued` |

None of the three properties is inductive, and they need one another. A context stores what it
computed from a load before; that this is still so (`Loaded`) is because no other is in a section of
the same lock (`OneInside`). But `sem_open` writes a free lock into the entry it takes, without looking
whether it is held. What makes this right is that an entry is given out again only when its `users` is 0, and
whoever is in a section of its lock has a reference that `users` counts (`UsersCounted`), which in
turn needs that no store of `users` was based on a stale load. `SleepersQueued` rests on
both: a sleeper's own references keep its entry from being destroyed and given to
another name, and its place in the queue is lost only to one who has loaded it from there or is killing it. Who still has
a call on the way while the CPU is with somebody else must have interrupts on (`FramesTrue`: interrupts are
masked only in the context that has the CPU), so it has returned from its entry point or is behind the
halt of its waitpid; that is the third part of `OneInside`.
The rest of `LockInv` says who may own what: no two entries have one name, and an entry has a name exactly
as long as it has users (`NamesTrue`); no pid is used before it is given (`PidsGiven`); every child whose
parent has not begun to wait for it has a semaphore, with the parent's reference (`ChildrenTrue`);
and only a halted waitpid sleeps (`SleepersHalt`). There is a lemma `<Action>Keeps` for each action, over one
for its frames; `TakesStep`, `EntryStep`, `StoreStep`, `QuietStep` and `InterruptStep` say what steps of one kind
have in common: one that only takes a lock, one that changes an entry, and so on.

The assumption is `SemLockAssumption`: room for idle and the shell. The histories are those in which
`sem_open` has an entry for every new name, and this cannot be dropped: a child created while the
table is full has no semaphore, so when its parent later waits for it and there is room again, the second
`sem_close` of `wait_child` closes a reference that was never made, and if a tick between
the two has let another process open the entry, that one's.

`UserlandProofs` proves about four parts of user space that share no lemmas with others,
for any keys, ring, system calls, processes, tones, durations, boards, screens, sizes and outputs:

| theorem | statement |
|---|---|
| `KeyboardInvariant` | `KbdSpec => [](HandInv /\ RingInv)` |
| `RingAlwaysHoldsPending` | `KbdSpec => []RingHoldsPending` |
| `OneInterruptPerPress` | `KbdSpec => []CtrlCOncePerPress` |
| `LinesAlwaysFresh` | `KbdSpec => []LinesAreFresh` |
| `BeepsAreHeard` | `SpeakerSpec => BeepHeard` |
| `BotAlwaysSurvives` | `TronSpec => BotSurvives` |
| `ConsoleInvariant` | `ConSpec => []ConInv` |
| `EchoAlwaysShown` | `ConSpec => []EchoShown` |

Of Ctrl+C the handler has three bits, and the hand on the keyboard is ahead of it by the
byte on its way. `CtrlFollowed` compares the two with that byte taken into account
(`CtrlKnown`); that they differ when both Ctrls were down is the exception of the property.
`LatchFollows` says that while c repeats under Ctrl the latch is set, so that no repeat is a
second interrupt. For the ring, `First` and `Left` say where the pending events begin
and how many there are at each of the accesses of `getNextKey`, between which interrupts
store keys: `RingTrue` is then the same sentence everywhere, and `RingHoldsPending` its
special case outside. It holds until an interrupt comes in `getNextKey` where it spoils the
ring (`Spoils`), or a process dies there: `torn` is then set, and events may be lost or
repeated until the next clear.
For a line, `LineInv` says that its text is drawn, in order, from the events before the one
in hand. The assumption that a line holds more than its terminator (`LINE` is at least 2,
256 in the code) is needed: with `LINE` 1 a call would give a line nobody typed.

A beep is heard because no step of others goes unnoticed while its process sleeps: either
the speaker still has its tone and every tick was heard (`BeepSounds`), or it is not
alone any more. For the bot of Tron the hard case is tracking, which asks for the way to
the player and could ask to turn back; the turn would be ignored and the bot go straight
on, perhaps into a trail. `TrailBehind` excludes it: the cell behind the bot has its own
trail, or it stands where it was put, and then the player is ahead in the same row.

The line on the screen is an invariant of the glyphs one by one. `Place` says where the i-th one
belongs, in words that know no cursor: the rest of the first row, then whole rows. `PlaceNext` says
that the next place is where drawing a glyph, and wrapping where it must, leaves the cursor, and
`PlacesApart` that no later place covers an earlier one. The echo of one glyph then passes through
three states (`Stands`: so many glyphs shown and the cursor behind the last; `Half`: one more drawn,
the cursor not yet moved; `Below`: at the beginning of a row that may be beyond the screen), and
`DrawStep`, `AdvanceStep`, `ScrollStep` and `RuboutStep` say what leads from one to the next. A
scroll takes the places along with the cells, since `top`, the row of the prompt, scrolls too; what it
pushes off the screen is no longer asked for. `LineFollows` says this of the line as far as it
has been echoed. `CursorTrue` is about everybody who prints, at any time: the cursor is on the
screen unless a backspace at column 0 put it beyond the edge (`askew`), in which case the
line is no longer known to be shown. The assumption `ConsoleAssumption` is that the screen holds at least
one letter of each size that may be asked for (1024x768 against 32x64 in the code).

Two remarks on the prover. The library's induction principles cannot be used, but what they
are for can be had for one set at a time: a set of naturals that is not empty has a least element,
by the library's facts on well-founded relations. `LeastExists` of `SchedulerProofs` says
that, for loops that search, and `Counting` of `KernelProofs`, `ShellProofs` and `UserlandProofs` draws from
it that a set with 0 and the successor of each of its naturals has them all, for loops whose
steps a recursive function counts, as those of `update_parent`, of the searches and of
`simple_tokenize`. Functions that recur over two numbers take a pair, since the prover knows no functions of two
arguments. And where a definition of a model called an operator with an operator parameter
(`SelectSeq`), it was rewritten to say the same with sets (`LivePids`, `Compacted`,
`AtPlaces` of `Subsequences`), and where it called a fold as a recursive function (`PrintStr`,
`Shown`), since nothing can be proved about the former.

Only model-checked:

* liveness (`UrgentServed`, `KilledRecycled`, `WaitEnds`, `CallsReturn`, `TestSyncEnds`,
  `ValueHandedOn`, `PromptReturns`, `TestPrioEnds`): out of reach of the prover;
* `TestPrio`, which promises only that it ends.

## 6. Not modelled

* Pointers inside the ready lists, stack frames, argv, names. A tick inside the
  relinking that `pipe_notify` does with interrupts on is one of these.
* The exhaustion of the heap or of the process table, which makes
  `create_process` return without effect.
* A tick in the middle of `mm_alloc` or `mm_free`, possible when the trampoline
  calls them for the name of its semaphore; sizes near 2^64, for which the rounding of the bitmap
  manager wraps.
* A second command `mvar` while the first is in its loops, which takes one of them in the background. What
  the user does to end a command that stays (a key, a `sem post`, Ctrl+C) is not told apart.
* Named pipes (`pipe_open`), which no program of the repository uses, and two
  readers or two writers on one pipe.
* In `Semaphores` and `Pipes`: `unblock` as an administrative command on a sleeper
  (`TestSync` and `Mvar` have it), and semaphore calls on ids the caller never opened.
* Keyboard: Shift, Caps Lock and the table of characters; the snapshot of registers.
* Console: colours, back buffer, single pixels; an interrupt inside the drawing of one
  glyph.
* The composition of `Userland` with the kernel modules: its parts take from them what
  the properties there say (a wait ends with a token or the close, a dead child is
  noticed, a pipe delivers its bytes in order). Joined, a single pipeline would already
  have more states than can be enumerated.
* The clock chip (reads that an update may tear, a time zone applied to the hour but not
  to the date): it keeps no state here. Commands that only print or make one call;
  benchmarks; boot loader; unit tests of the kernel (read as documentation).
* Everything else that `PROJECT.json` lists as not modelled.

## 7. Plan

`ReadyList`: the pointers of the ready lists, and `add_to_ready_queue` called by
`pipe_notify` with interrupts on while a tick relinks the same queue.
