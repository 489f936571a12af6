--------------------------------- MODULE Pipes ---------------------------------
(***************************************************************************)
(* The pipes (Kernel/pipes/pipe.c) over the scheduler, used as the shell's *)
(* run_piped does: the shell creates a pipe and two processes, one writes  *)
(* to it and then closes that end, the other reads and then closes its.    *)
(*                                                                         *)
(* pipe_read and pipe_write look at the pipe with interrupts off and turn  *)
(* them on before they try again, after every byte written and before they *)
(* call pipe_notify, so each of these pieces is a step.  The wake-up of    *)
(* one process by pipe_notify is a step too, and so is its snapshot of the *)
(* process table.  The shell sleeps in waitpid until both processes are    *)
(* dead; meanwhile its turn here stands for other commands, which may kill *)
(* one of the two.                                                         *)
(***************************************************************************)
EXTENDS Scheduler, FiniteSetsExt

CONSTANTS
  MAX_PIPES,
  PIPE_BUF_SIZE,
  Bytes,          \* what a program may write
  MaxWrite,       \* bound of the model: bytes in one call of pipe_write
  MaxRead         \* and asked for by one call of pipe_read

ASSUME PipesAssumption ==
  /\ MAX_PIPES \in Nat /\ PIPE_BUF_SIZE \in Nat \ {0} /\ Bytes # {}
  /\ MaxWrite \in Nat \ {0} /\ MaxRead \in Nat \ {0}

VARIABLES
  pipes,         \* the table
  waiting_pipe,  \* of each PCB: the pipe it sleeps on, NoPipe if none
  op,            \* where a process stands in a pipe operation
  end,           \* the end of a pipe a process was created to use
  launching      \* the end the shell creates a process for next

pipevars == <<pipes, waiting_pipe, op, end, launching>>
allvars  == <<vars, pipevars>>

PipeIds == 1..MAX_PIPES
NoPipe  == 0                      \* -1 in the code
WRITE   == 1                      \* the values of side
READ    == 0
NoEnd   == <<NoPipe, READ>>
Ring    == 0..(PIPE_BUF_SIZE - 1)

FreePipe == [active |-> FALSE, buffer |-> [k \in Ring |-> CHOOSE b \in Bytes : TRUE],
             read_pos |-> 0, write_pos |-> 0, count |-> 0,
             write_open |-> 0, read_open |-> 0]

\* Where a process stands: in user code; in the loop of pipe_read, or of
\* pipe_write with left bytes to go; about to call pipe_notify after it moved
\* data; in its loop, with the entries of todo to look at; in that loop, called
\* by pipe_close with interrupts off.
Doing(at, left, todo) == [at |-> at, left |-> left, todo |-> todo]
InUser == Doing("user", 0, {})
At == {"user", "read", "write", "moved", "notify", "closing", "exited"}
Masked == \E s \in Slots : op[s].at = "closing"

me == current_process
PipeOf(s) == end[s][1]
Does(at, side) ==
  /\ Syscall /\ ~Masked
  /\ op[me].at \in at /\ end[me][2] = side /\ PipeOf(me) # NoPipe
  /\ op[me].at = "user" => pipes[PipeOf(me)].active
MyPipe == pipes[PipeOf(me)]

-----------------------------------------------------------------------------
(* The ring buffer.                                                        *)

Least(S) == CHOOSE x \in S : \A y \in S : x <= y

\* Mutant: it wraps one position before the end.
StepPosEarly(k, n) == (k + n) % (PIPE_BUF_SIZE - 1)
StepPos(k, n) == (k + n) % PIPE_BUF_SIZE

\* Mutant: one byte too many.
HasSpaceForOneMore(p) == p.count <= PIPE_BUF_SIZE
HasSpace(p) == p.count < PIPE_BUF_SIZE

Stored(p, b) ==
  [p EXCEPT !.buffer[p.write_pos] = b, !.write_pos = StepPos(@, 1), !.count = @ + 1]
Taken(p, n) == [p EXCEPT !.read_pos = StepPos(@, n), !.count = @ - n]

-----------------------------------------------------------------------------
PipeInit ==
  /\ Init
  /\ pipes = [i \in PipeIds |-> FreePipe]
  /\ waiting_pipe = [s \in Slots |-> NoPipe]
  /\ op = [s \in Slots |-> InUser]
  /\ end = [s \in Slots |-> NoEnd]
  /\ launching = NoEnd

\* run_piped: the shell's pipe, once the processes of the last one are dead.
PipeCreate ==
  LET Free == {i \in PipeIds : ~pipes[i].active} IN
  /\ Syscall /\ me = Shell /\ ~Masked
  /\ launching = NoEnd
  /\ \A s \in Slots \ {Idle, Shell} : state[s] = "KILLED"
  /\ Free # {}
  /\ pipes' = [pipes EXCEPT ![Least(Free)] =
       [FreePipe EXCEPT !.active = TRUE, !.buffer = pipes[Least(Free)].buffer,
                        !.write_open = 1, !.read_open = 1]]
  /\ launching' = <<Least(Free), WRITE>>
  /\ UNCHANGED <<vars, waiting_pipe, op, end>>

\* A process for each end in turn.
Spawn ==
  /\ me = Shell /\ ~Masked
  /\ launching # NoEnd
  /\ CreateProcess(DEFAULT_PRIORITY, TRUE)
  /\ end' = [end EXCEPT ![Least(FreeSlots)] = launching]
  /\ launching' = IF launching[2] = WRITE THEN <<launching[1], READ>> ELSE NoEnd
  /\ UNCHANGED <<pipes, waiting_pipe, op>>

\* No data, or no space: sleep.  A process that is not RUNNING, because it was
\* killed since the last tick, goes round the loop until the tick.
Sleep(at) ==
  /\ waiting_pipe' = [waiting_pipe EXCEPT ![me] = PipeOf(me)]
  /\ IF state[me] = "RUNNING" THEN BlockCurrent ELSE YieldProcess
  /\ op' = [op EXCEPT ![me] = at]
  /\ UNCHANGED <<pipes, end, launching>>

-----------------------------------------------------------------------------
(* pipe_read.                                                              *)

ReadTakes(n) ==
  /\ Does({"user", "read"}, READ)
  /\ n <= MyPipe.count
  /\ pipes' = [pipes EXCEPT ![PipeOf(me)] = Taken(@, n)]
  /\ op' = [op EXCEPT ![me] = Doing("moved", 0, {})]
  /\ UNCHANGED <<vars, waiting_pipe, end, launching>>

ReadBlocks ==
  /\ Does({"user", "read"}, READ)
  /\ MyPipe.count = 0 /\ MyPipe.write_open > 0
  /\ Sleep(Doing("read", 0, {}))

ReadEnds ==
  /\ Does({"read"}, READ)
  /\ MyPipe.count = 0 /\ MyPipe.write_open = 0
  /\ op' = [op EXCEPT ![me] = InUser]
  /\ UNCHANGED <<vars, pipes, waiting_pipe, end, launching>>

-----------------------------------------------------------------------------
(* pipe_write, of left bytes.                                              *)

Lengths == IF op[me].at = "user" THEN 1..MaxWrite ELSE {op[me].left}

WriteStores(b, left) ==
  /\ Does({"user", "write"}, WRITE)
  /\ left \in Lengths
  /\ MyPipe.read_open > 0 /\ HasSpace(MyPipe)
  /\ pipes' = [pipes EXCEPT ![PipeOf(me)] = Stored(@, b)]
  /\ op' = [op EXCEPT ![me] =
       IF left = 1 THEN Doing("moved", 0, {})
                   ELSE Doing("write", left - 1, {})]
  /\ UNCHANGED <<vars, waiting_pipe, end, launching>>

WriteBlocks(left) ==
  /\ Does({"user", "write"}, WRITE)
  /\ left \in Lengths
  /\ MyPipe.read_open > 0 /\ ~HasSpace(MyPipe)
  /\ Sleep(Doing("write", left, {}))

WriteBreaks ==
  /\ Does({"write"}, WRITE)
  /\ MyPipe.read_open = 0
  /\ op' = [op EXCEPT ![me] = InUser]
  /\ UNCHANGED <<vars, pipes, waiting_pipe, end, launching>>

-----------------------------------------------------------------------------
(* pipe_notify and pipe_close.                                             *)

\* get_process_list: the pids of the live PCBs, each at its place in the table.
\* Mutant: a buffer one entry too short.
LiveSlots == {s \in Slots : pid[s] > 0 /\ state[s] # "KILLED"}
LivePidsButLast == {<<s, pid[s]>> : s \in LiveSlots \ {Max(LiveSlots)}}
LivePids == {<<s, pid[s]>> : s \in LiveSlots}
FirstOf(todo) == CHOOSE e \in todo : \A f \in todo : e[1] <= f[1]

NotifyStarts ==
  /\ Syscall /\ ~Masked
  /\ op[me].at = "moved"
  /\ op' = [op EXCEPT ![me] = Doing("notify", 0, LivePids)]
  /\ UNCHANGED <<vars, pipes, waiting_pipe, end, launching>>

\* The PCB of a pid of the list, when it is asleep on pipe i.
AsleepOn(i, p) ==
  {s \in Slots : pid[s] = p /\ state[s] = "BLOCKED" /\ waiting_pipe[s] = i}

NotifyNext ==
  LET todo    == op[me].todo
      next    == FirstOf(todo)
      sleeper == AsleepOn(PipeOf(me), next[2])
  IN
  /\ Syscall
  /\ op[me].at \in {"notify", "closing"}
  /\ op' = [op EXCEPT ![me] =
              IF todo = {next} THEN InUser ELSE [@ EXCEPT !.todo = todo \ {next}]]
  /\ IF sleeper = {}
       THEN UNCHANGED <<vars, waiting_pipe>>
       ELSE \E s \in sleeper :
              /\ waiting_pipe' = [waiting_pipe EXCEPT ![s] = NoPipe]
              /\ UnblockProcess(s)
  /\ end' = IF op[me].at = "closing" /\ todo = {next}
              THEN [end EXCEPT ![me] = NoEnd] ELSE end
  /\ UNCHANGED <<pipes, launching>>

\* Mutant: a close that leaves no writer does not notify the readers.
CloseNotifiesReadersOnly(i, side) == side = READ
CloseNotifies(i, side) ==
  IF side = WRITE THEN pipes[i].write_open <= 1 ELSE pipes[i].read_open <= 1

EndClosed(p, side) ==
  LET w == IF side = WRITE /\ p.write_open > 0 THEN p.write_open - 1 ELSE p.write_open
      r == IF side = READ /\ p.read_open > 0 THEN p.read_open - 1 ELSE p.read_open
  IN  [p EXCEPT !.write_open = w, !.read_open = r, !.active = w > 0 \/ r > 0]

\* pipe_close, by the process that was created to use that end.
PipeClose ==
  LET i == PipeOf(me) IN
  /\ \E side \in {READ, WRITE} : Does({"user"}, side)
  /\ pipes' = [pipes EXCEPT ![i] = EndClosed(@, end[me][2])]
  /\ IF CloseNotifies(i, end[me][2])
       THEN /\ op' = [op EXCEPT ![me] = Doing("closing", 0, LivePids)]
            /\ UNCHANGED end
       ELSE /\ end' = [end EXCEPT ![me] = NoEnd]
            /\ UNCHANGED op
  /\ UNCHANGED <<vars, waiting_pipe, launching>>

-----------------------------------------------------------------------------
(* The rest of the kernel.                                                 *)

PipeExit ==
  /\ ~Masked
  /\ me # Shell
  /\ ExitCurrent(NoProc) /\ quantum' = 0
  /\ op[me].at = "user" /\ end[me] = NoEnd
  /\ op' = [op EXCEPT ![me].at = "exited"]
  /\ UNCHANGED <<pipes, waiting_pipe, end, launching>>

\* What belongs to a PCB ends when its stack is freed; its ends stay counted.
PcbsFreed ==
  /\ waiting_pipe' = [s \in Slots |-> IF pid'[s] = 0 THEN NoPipe ELSE waiting_pipe[s]]
  /\ op' = [s \in Slots |-> IF pid'[s] = 0 THEN InUser ELSE op[s]]
  /\ end' = [s \in Slots |-> IF pid'[s] = 0 THEN NoEnd ELSE end[s]]
  /\ UNCHANGED <<pipes, launching>>

InterruptC == ~Masked /\ CtrlC /\ UNCHANGED pipevars
ScanC == CtrlCScan(NoProc) /\ PcbsFreed
Tick == ~Masked /\ TimerTick /\ PcbsFreed
PipeKill(s) ==
  /\ me = Shell /\ ~Masked
  /\ KillProcess(s, NoProc) /\ PcbsFreed

Call ==
  \/ PipeCreate \/ Spawn
  \/ \E n \in 1..MaxRead : ReadTakes(n)
  \/ ReadBlocks \/ ReadEnds
  \/ \E left \in 1..MaxWrite :
       WriteBlocks(left) \/ \E b \in Bytes : WriteStores(b, left)
  \/ WriteBreaks
  \/ NotifyStarts \/ NotifyNext
  \/ PipeClose \/ PipeExit

PipeNext ==
  \/ Call
  \/ InterruptC \/ ScanC \/ Tick
  \/ \E s \in Slots \ {Idle} : PipeKill(s)

PipeSpec == PipeInit /\ [][PipeNext]_allvars

\* Ticks and Ctrl+C as in Scheduler.  A process that has the CPU goes on: its
\* program reads to the end of file or writes what it has, and then closes.
PipeFairness ==
  /\ SF_allvars(Tick)
  /\ WF_allvars(ScanC)
  /\ \A s \in Slots : SF_allvars(me = s /\ Call)

FairPipeSpec == PipeSpec /\ PipeFairness

-----------------------------------------------------------------------------
PipeTypeOK ==
  /\ TypeOK
  /\ pipes \in [PipeIds -> [active : BOOLEAN, buffer : [Ring -> Bytes],
                            read_pos : Ring, write_pos : Ring,
                            count : 0..PIPE_BUF_SIZE,
                            write_open : Nat, read_open : Nat]]
  /\ waiting_pipe \in [Slots -> PipeIds \cup {NoPipe}]
  /\ op \in [Slots -> [at : At, left : 0..MaxWrite, todo : SUBSET (Slots \X (1..MaxPid))]]
  /\ end \in [Slots -> (PipeIds \cup {NoPipe}) \X {READ, WRITE}]
  /\ launching \in (PipeIds \cup {NoPipe}) \X {READ, WRITE}

\* The bytes of a pipe come out as they went in, whatever interrupts the
\* copies: the ring of each pipe implements a channel.
Content(p) ==
  [k \in 1..p.count |-> p.buffer[(p.read_pos + k - 1) % PIPE_BUF_SIZE]]
Channel == INSTANCE ByteChannel WITH
             Pipes <- PipeIds, Capacity <- PIPE_BUF_SIZE,
             content <- [i \in PipeIds |-> Content(pipes[i])]
RingIsChannel == Channel!ChannelSpec

\* No lost wake-up.  If a process sleeps on a pipe although its call could go
\* on, some process that has changed the pipe has still to notify it; a writer
\* in the middle of a call has, once the call is done.
CouldGoOn(s) ==
  LET p == pipes[PipeOf(s)] IN
  IF op[s].at = "read" THEN p.count > 0 \/ p.write_open = 0
                       ELSE p.count < PIPE_BUF_SIZE \/ p.read_open = 0
WillNotify(t, s) ==
  /\ PipeOf(t) = PipeOf(s) /\ t # s
  /\ \/ op[t].at \in {"write", "moved"}
     \/ op[t].at \in {"notify", "closing"} /\ pid[s] \in {e[2] : e \in op[t].todo}
Manned(i, side) ==
  \/ \E s \in Slots : end[s] = <<i, side>> /\ state[s] # "KILLED"
  \/ launching # NoEnd /\ launching[1] = i /\ side = READ
  \/ launching = <<i, side>>
Deserted(i) ==
  \/ pipes[i].write_open > 0 /\ ~Manned(i, WRITE)
  \/ pipes[i].read_open > 0 /\ ~Manned(i, READ)
SleepersNotified ==
  \A s \in Slots :
    /\ state[s] = "BLOCKED" /\ op[s].at \in {"read", "write"} /\ CouldGoOn(s)
    => (\E t \in Slots : WillNotify(t, s)) \/ Deserted(PipeOf(s))

\* A call of pipe_read or pipe_write returns, by data, end of file or a broken
\* pipe, unless the process at the other end was killed without closing it.
Busy(s) == op[s].at \in {"read", "write"}
CallsReturn ==
  \A s \in Slots \ {Idle, Shell} :
    Busy(s) ~> (~Busy(s) \/ Deserted(PipeOf(s)))
=============================================================================
