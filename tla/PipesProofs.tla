------------------------------ MODULE PipesProofs ------------------------------
(***************************************************************************)
(* Proofs about Pipes for any number of processes and pipes and any buffer *)
(* size: a pipe is a channel, and no wake-up is lost.                      *)
(***************************************************************************)
EXTENDS Pipes, SchedulerProofs

-----------------------------------------------------------------------------
(* The inductive invariants.                                               *)

\* The writer's position is where the bytes of the ring end.
RingsExact ==
  \A i \in PipeIds : pipes[i].write_pos = StepPos(pipes[i].read_pos, pipes[i].count)
PidsBounded == next_pid <= MaxPid + 1 /\ \A s \in Slots : pid[s] <= MaxPid
RingInv == PipeTypeOK /\ PidsBounded /\ RingsExact

\* Idle and the shell are never killed and use no pipe.
Permanent ==
  /\ ~foreground[Idle] /\ end[Idle] = NoEnd
  /\ pid[Shell] = SHELL_PID /\ state[Shell] # "KILLED" /\ end[Shell] = NoEnd
\* Only a pipe operation blocks, and the PCB says on which pipe.
SleepersMarked ==
  \A s \in Slots : state[s] = "BLOCKED" =>
    Busy(s) /\ PipeOf(s) # NoPipe /\ waiting_pipe[s] = PipeOf(s)
\* A process that blocked and still has the CPU is not woken before the tick.
CurrentStuck ==
  current_process # NoProc =>
    /\ state[current_process] # "READY"
    /\ state[current_process] = "BLOCKED" => ~CouldGoOn(current_process)
\* pipe_close runs with interrupts off.
MaskedAlone ==
  \A s \in Slots : op[s].at = "closing" => s = current_process /\ fg_scan = 0

Open(i, side) == IF side = WRITE THEN pipes[i].write_open ELSE pipes[i].read_open
\* A process in an operation has the end it needs.
EndsFit ==
  /\ \A s \in Slots :
       /\ PipeOf(s) = NoPipe => end[s] = NoEnd
       /\ op[s].at \in At \ {"user", "exited"} => PipeOf(s) # NoPipe
       /\ op[s].at = "read" => end[s][2] = READ
       /\ op[s].at = "write" => end[s][2] = WRITE
       /\ pid[s] = 0 => end[s] = NoEnd /\ op[s].at = "user"
  /\ launching[1] = NoPipe => launching = NoEnd
\* An end of a pipe is open once for the process that has it or will have it.
EndsCounted ==
  /\ \A s \in Slots :
       PipeOf(s) # NoPipe /\ op[s].at # "closing" => Open(PipeOf(s), end[s][2]) = 1
  /\ launching[1] # NoPipe =>
       /\ Open(launching[1], READ) = 1
       /\ launching[2] = WRITE => Open(launching[1], WRITE) = 1
  /\ \A i \in PipeIds : ~pipes[i].active => Open(i, READ) = 0 /\ Open(i, WRITE) = 0
\* and nobody shares one.
EndsUnique ==
  /\ \A s, t \in Slots : PipeOf(s) # NoPipe /\ end[s] = end[t] => s = t
  /\ launching[1] # NoPipe =>
       \A s \in Slots : PipeOf(s) = launching[1] => launching[2] = READ /\ end[s][2] = WRITE

EndsInv == EndsFit /\ EndsCounted /\ EndsUnique
PipesInv ==
  /\ RingInv /\ IInv
  /\ Permanent /\ SleepersMarked /\ CurrentStuck /\ MaskedAlone
  /\ EndsInv

-----------------------------------------------------------------------------
(* The ring buffer.                                                        *)

PipeShapes ==
  [active : BOOLEAN, buffer : [Ring -> Bytes], read_pos : Ring, write_pos : Ring,
   count : 0..PIPE_BUF_SIZE, write_open : Nat, read_open : Nat]

\* A position moved by at most the size of the ring wraps at most once.
LEMMA StepPosResult ==
  ASSUME NEW k \in Ring, NEW n \in 0..PIPE_BUF_SIZE
  PROVE  /\ StepPos(k, n) = IF k + n < PIPE_BUF_SIZE THEN k + n ELSE k + n - PIPE_BUF_SIZE
         /\ StepPos(k, n) \in Ring
<1>1. PIPE_BUF_SIZE \in Nat \ {0} /\ k \in Nat /\ k < PIPE_BUF_SIZE
      /\ n \in Nat /\ n <= PIPE_BUF_SIZE
  BY PipesAssumption DEF Ring
<1>2. CASE k + n < PIPE_BUF_SIZE
  BY <1>1, <1>2 DEF StepPos, Ring
<1>3. CASE k + n >= PIPE_BUF_SIZE
  BY <1>1, <1>3 DEF StepPos, Ring
<1> QED
  BY <1>1, <1>2, <1>3

\* Two moves are one, and different short moves lead to different positions.
LEMMA StepPosMoves ==
  ASSUME NEW k \in Ring, NEW m \in Nat, NEW n \in Nat, m + n <= PIPE_BUF_SIZE
  PROVE  /\ StepPos(StepPos(k, m), n) = StepPos(k, m + n)
         /\ 0 < n /\ n < PIPE_BUF_SIZE => StepPos(k, m + n) # StepPos(k, m)
<1>1. /\ PIPE_BUF_SIZE \in Nat /\ k \in 0..(PIPE_BUF_SIZE - 1)
      /\ m \in 0..PIPE_BUF_SIZE /\ n \in 0..PIPE_BUF_SIZE /\ m + n \in 0..PIPE_BUF_SIZE
  BY PipesAssumption DEF Ring
<1>2. StepPos(k, m) = IF k + m < PIPE_BUF_SIZE THEN k + m ELSE k + m - PIPE_BUF_SIZE
  BY <1>1, StepPosResult
<1>3. StepPos(k, m + n) =
        IF k + (m + n) < PIPE_BUF_SIZE THEN k + (m + n) ELSE k + (m + n) - PIPE_BUF_SIZE
  BY <1>1, StepPosResult
<1>4. StepPos(k, m) \in Ring
  BY <1>1, StepPosResult
<1>5. StepPos(StepPos(k, m), n) =
        IF StepPos(k, m) + n < PIPE_BUF_SIZE
          THEN StepPos(k, m) + n ELSE StepPos(k, m) + n - PIPE_BUF_SIZE
  BY <1>1, <1>4, StepPosResult
<1> QED
  BY <1>1, <1>2, <1>3, <1>5

\* The content of a ring is a sequence of bytes, read from read_pos on.
LEMMA ContentResult ==
  ASSUME NEW p \in PipeShapes
  PROVE  /\ Content(p) \in Seq(Bytes) /\ Len(Content(p)) = p.count
         /\ \A k \in 1..p.count :
              /\ StepPos(p.read_pos, k - 1) \in Ring
              /\ Content(p)[k] = p.buffer[StepPos(p.read_pos, k - 1)]
<1>1. p.count \in Nat /\ p.count <= PIPE_BUF_SIZE /\ p.read_pos \in Ring
      /\ p.buffer \in [Ring -> Bytes] /\ PIPE_BUF_SIZE \in Nat
  BY PipesAssumption DEF PipeShapes
<1>2. ASSUME NEW k \in 1..p.count
      PROVE  /\ StepPos(p.read_pos, k - 1) \in Ring
             /\ (p.read_pos + k - 1) % PIPE_BUF_SIZE = StepPos(p.read_pos, k - 1)
  <2>1. k - 1 \in 0..PIPE_BUF_SIZE /\ p.read_pos + k - 1 = p.read_pos + (k - 1)
    BY <1>1 DEF Ring
  <2> QED
    BY <2>1, <1>1, StepPosResult DEF StepPos
<1>3. Content(p) = [k \in 1..p.count |-> p.buffer[StepPos(p.read_pos, k - 1)]]
  BY <1>2 DEF Content
<1> HIDE DEF Content
<1>4. \A k \in 1..p.count : p.buffer[StepPos(p.read_pos, k - 1)] \in Bytes
  BY <1>1, <1>2
<1> QED
  BY <1>1, <1>2, <1>3, <1>4

\* pipe_write appends a byte to the content ...
LEMMA StoredContent ==
  ASSUME NEW p \in PipeShapes, p.write_pos = StepPos(p.read_pos, p.count),
         HasSpace(p), NEW b \in Bytes
  PROVE  /\ Stored(p, b) \in PipeShapes
         /\ Stored(p, b).write_pos = StepPos(Stored(p, b).read_pos, Stored(p, b).count)
         /\ Content(Stored(p, b)) = Append(Content(p), b)
<1> DEFINE r == Stored(p, b)
<1>1. /\ PIPE_BUF_SIZE \in Nat \ {0} /\ p.count \in Nat /\ p.count < PIPE_BUF_SIZE
      /\ p.read_pos \in Ring /\ p.write_pos \in Ring /\ p.buffer \in [Ring -> Bytes]
  BY PipesAssumption DEF PipeShapes, HasSpace
<1>2. /\ r.read_pos = p.read_pos /\ r.count = p.count + 1
      /\ r.write_pos = StepPos(p.write_pos, 1)
      /\ r.buffer = [p.buffer EXCEPT ![p.write_pos] = b]
      /\ r = [p EXCEPT !.buffer = r.buffer, !.write_pos = r.write_pos, !.count = r.count]
  BY DEF Stored, PipeShapes
<1> HIDE DEF r
<1>3. r.write_pos \in Ring /\ r.write_pos = StepPos(r.read_pos, r.count)
  <2>1. 1 \in Nat /\ p.count + 1 <= PIPE_BUF_SIZE /\ 1 \in 0..PIPE_BUF_SIZE
    BY <1>1
  <2>2. StepPos(StepPos(p.read_pos, p.count), 1) = StepPos(p.read_pos, p.count + 1)
    BY <2>1, <1>1, StepPosMoves
  <2>3. StepPos(p.write_pos, 1) \in Ring
    BY <2>1, <1>1, StepPosResult
  <2> QED
    BY <2>2, <2>3, <1>2
<1>4. r \in PipeShapes
  <2>1. r.buffer \in [Ring -> Bytes] /\ r.count \in 0..PIPE_BUF_SIZE
    BY <1>1, <1>2
  <2> QED
    BY <2>1, <1>2, <1>3 DEF PipeShapes
<1>5. ASSUME NEW k \in 1..p.count  PROVE Content(r)[k] = Content(p)[k]
  <2>1. StepPos(p.read_pos, k - 1) # p.write_pos
    <3> DEFINE m == k - 1
               n == p.count - m
    <3>1. /\ m \in Nat /\ n \in Nat /\ m + n = p.count
          /\ 0 < n /\ n < PIPE_BUF_SIZE /\ m + n <= PIPE_BUF_SIZE
      BY <1>1
    <3> HIDE DEF m, n
    <3>2. StepPos(p.read_pos, m + n) # StepPos(p.read_pos, m)
      BY <3>1, <1>1, StepPosMoves
    <3> QED
      BY <3>1, <3>2, <1>1 DEF m
  <2>2. k \in 1..r.count
    BY <1>1, <1>2
  <2>3. /\ Content(r)[k] = r.buffer[StepPos(p.read_pos, k - 1)]
        /\ StepPos(p.read_pos, k - 1) \in Ring
    BY <2>2, <1>2, <1>4, ContentResult
  <2>4. Content(p)[k] = p.buffer[StepPos(p.read_pos, k - 1)]
    BY ContentResult
  <2> QED
    BY <2>1, <2>3, <2>4, <1>1, <1>2
<1>6. Content(r)[p.count + 1] = b
  <2>1. Content(r)[p.count + 1] = r.buffer[StepPos(p.read_pos, p.count)]
    <3>1. p.count + 1 \in 1..r.count /\ (p.count + 1) - 1 = p.count
      BY <1>1, <1>2
    <3> QED
      BY <3>1, <1>2, <1>4, ContentResult
  <2> QED
    BY <2>1, <1>1, <1>2
<1>7. /\ Content(r) \in Seq(Bytes) /\ Len(Content(r)) = p.count + 1
      /\ Content(p) \in Seq(Bytes) /\ Len(Content(p)) = p.count
  BY <1>2, <1>4, ContentResult
<1>8. Content(r) = Append(Content(p), b)
  BY <1>1, <1>5, <1>6, <1>7
<1> QED
  BY <1>3, <1>4, <1>8 DEF r

\* ... pipe_read takes the first ones off it.
LEMMA TakenContent ==
  ASSUME NEW p \in PipeShapes, p.write_pos = StepPos(p.read_pos, p.count),
         NEW n \in 1..p.count
  PROVE  /\ Taken(p, n) \in PipeShapes
         /\ Taken(p, n).write_pos = StepPos(Taken(p, n).read_pos, Taken(p, n).count)
         /\ Content(Taken(p, n)) = SubSeq(Content(p), n + 1, Len(Content(p)))
<1> DEFINE r == Taken(p, n)
<1>1. /\ PIPE_BUF_SIZE \in Nat \ {0} /\ p.count \in Nat /\ p.count <= PIPE_BUF_SIZE
      /\ p.read_pos \in Ring /\ p.buffer \in [Ring -> Bytes] /\ n \in 0..PIPE_BUF_SIZE
  BY PipesAssumption DEF PipeShapes
<1>2. /\ r.read_pos = StepPos(p.read_pos, n) /\ r.count = p.count - n
      /\ r.write_pos = p.write_pos /\ r.buffer = p.buffer
      /\ r = [p EXCEPT !.read_pos = r.read_pos, !.count = r.count]
  BY DEF Taken, PipeShapes
<1> HIDE DEF r
<1>3. r.read_pos \in Ring /\ r.count \in 0..PIPE_BUF_SIZE
  BY <1>1, <1>2, StepPosResult
<1>4. r \in PipeShapes
  BY <1>2, <1>3 DEF PipeShapes
<1>5. ASSUME NEW k \in 0..(p.count - n)
      PROVE  StepPos(r.read_pos, k) = StepPos(p.read_pos, n + k)
  <2>1. n \in Nat /\ k \in Nat /\ n + k <= PIPE_BUF_SIZE
    BY <1>1
  <2> QED
    BY <2>1, <1>1, <1>2, StepPosMoves
<1>6. r.write_pos = StepPos(r.read_pos, r.count)
  BY <1>1, <1>2, <1>5
<1>7. ASSUME NEW k \in 1..(p.count - n)  PROVE Content(r)[k] = Content(p)[n + k]
  <2>1. /\ Content(r)[k] = r.buffer[StepPos(r.read_pos, k - 1)]
        /\ Content(p)[n + k] = p.buffer[StepPos(p.read_pos, n + k - 1)]
    <3>1. k \in 1..r.count /\ n + k \in 1..p.count
      BY <1>1, <1>2
    <3> QED
      BY <3>1, <1>4, ContentResult
  <2>2. k - 1 \in 0..(p.count - n) /\ n + (k - 1) = n + k - 1
    BY <1>1
  <2> QED
    BY <2>1, <2>2, <1>2, <1>5
<1>8. /\ Content(r) \in Seq(Bytes) /\ Len(Content(r)) = p.count - n
      /\ Content(p) \in Seq(Bytes) /\ Len(Content(p)) = p.count
  BY <1>2, <1>4, ContentResult
<1>9. /\ SubSeq(Content(p), n + 1, p.count) \in Seq(Bytes)
      /\ Len(SubSeq(Content(p), n + 1, p.count)) = p.count - n
      /\ \A k \in 1..(p.count - n) :
           SubSeq(Content(p), n + 1, p.count)[k] = Content(p)[n + k]
  BY <1>1, <1>8
<1>10. Content(r) = SubSeq(Content(p), n + 1, p.count)
  <2> DEFINE u == Content(r)
             v == SubSeq(Content(p), n + 1, p.count)
  <2>1. /\ u \in Seq(Bytes) /\ v \in Seq(Bytes) /\ Len(u) = Len(v)
        /\ \A k \in 1..Len(u) : u[k] = v[k]
    BY <1>7, <1>8, <1>9
  <2> HIDE DEF u, v
  <2>2. u = v
    BY <2>1, SeqEqual
  <2> QED
    BY <2>2 DEF u, v
<1> QED
  BY <1>4, <1>6, <1>8, <1>10 DEF r

-----------------------------------------------------------------------------
(* What the guards of the actions say under the invariant.                 *)

OpShapes == [at : At, left : 0..MaxWrite, todo : SUBSET (Slots \X (1..MaxPid))]
EndShapes == (PipeIds \cup {NoPipe}) \X {READ, WRITE}

LEMMA Shapes ==
  ASSUME PipesInv
  PROVE  /\ pipes \in [PipeIds -> PipeShapes]
         /\ waiting_pipe \in [Slots -> PipeIds \cup {NoPipe}]
         /\ op \in [Slots -> OpShapes] /\ end \in [Slots -> EndShapes]
         /\ launching \in EndShapes
         /\ Idle \in Slots /\ Shell \in Slots /\ NoPipe \notin PipeIds /\ NoProc \notin Slots
BY PipesAssumption, ProcessesAssumption
   DEF PipesInv, RingInv, PipeTypeOK, PipeShapes, OpShapes, EndShapes, Slots, Idle, Shell,
       NoPipe, PipeIds, NoProc

\* A process that makes a system call has a stack and is not idle.
LEMMA CallerFacts ==
  ASSUME PipesInv, Syscall
  PROVE  /\ me \in Slots /\ me # Idle /\ me # NoProc /\ fg_scan = 0
         /\ pid[me] \in 1..MaxPid
         /\ state[me] # "READY"
BY ProcessesAssumption
   DEF PipesInv, RingInv, PidsBounded, IInv, TypeOK, Syscall, me, NoProc, SlotsAccounted,
       CurrentAccounted, CurrentStuck

\* One in a pipe operation has an end of an open pipe.
LEMMA DoesFacts ==
  ASSUME PipesInv, NEW at \in SUBSET At, NEW side, Does(at, side)
  PROVE  /\ me \in Slots /\ me \notin {NoProc, Idle, Shell} /\ Syscall /\ ~Masked
         /\ op[me].at \in at
         /\ PipeOf(me) \in PipeIds /\ end[me] = <<PipeOf(me), side>>
         /\ pipes[PipeOf(me)] \in PipeShapes
         /\ MyPipe.write_pos = StepPos(MyPipe.read_pos, MyPipe.count)
         /\ op[me].at # "closing" /\ Open(PipeOf(me), side) = 1
<1>1. /\ Syscall /\ ~Masked /\ op[me].at \in at /\ end[me][2] = side /\ PipeOf(me) # NoPipe
  BY DEF Does
<1>2. me \in Slots /\ me # NoProc /\ me # Idle
  BY <1>1, CallerFacts
<1>3. end[me] \in EndShapes /\ PipeOf(me) \in PipeIds
  BY <1>1, <1>2, Shapes DEF PipeOf, EndShapes
<1>4. end[me] = <<PipeOf(me), side>>
  BY <1>1, <1>3 DEF EndShapes, PipeOf
<1>5. me # Shell
  BY <1>1, <1>4 DEF PipesInv, Permanent, PipeOf, NoEnd
<1>6. op[me].at # "closing"
  BY <1>1, <1>2 DEF Masked
<1>7. Open(PipeOf(me), side) = 1
  BY <1>1, <1>2, <1>6 DEF PipesInv, EndsInv, EndsCounted
<1>8. /\ pipes[PipeOf(me)] \in PipeShapes
      /\ MyPipe.write_pos = StepPos(MyPipe.read_pos, MyPipe.count)
  BY <1>3, Shapes DEF PipesInv, RingInv, RingsExact, MyPipe
<1> QED
  BY <1>1, <1>2, <1>3, <1>4, <1>5, <1>6, <1>7, <1>8

\* A process that sleeps although it has the CPU can only look again.
LEMMA SleeperStuck ==
  ASSUME PipesInv, Syscall, state[me] = "BLOCKED"
  PROVE  /\ Busy(me) /\ ~CouldGoOn(me) /\ PipeOf(me) # NoPipe
         /\ op[me].at = "read" => MyPipe.count = 0 /\ MyPipe.write_open # 0
         /\ op[me].at = "write" => ~HasSpace(MyPipe) /\ MyPipe.read_open # 0
<1>1. me \in Slots /\ me # NoProc
  BY CallerFacts
<1>2. Busy(me) /\ ~CouldGoOn(me) /\ PipeOf(me) # NoPipe
  BY <1>1 DEF PipesInv, SleepersMarked, CurrentStuck, me
<1>3. PipeOf(me) \in PipeIds /\ pipes[PipeOf(me)] \in PipeShapes
  BY <1>1, <1>2, Shapes DEF PipeOf, EndShapes
<1> QED
  BY <1>2, <1>3 DEF CouldGoOn, HasSpace, MyPipe, PipeShapes, Busy

-----------------------------------------------------------------------------
(* The steps of a process in a pipe operation.                             *)

\* A step that moves the process that has the CPU and perhaps the content of
\* its pipe, but neither the scheduler nor the ends.
LEMMA OpStepInv ==
  ASSUME PipesInv, Syscall, ~Masked, state[me] # "BLOCKED",
         UNCHANGED <<vars, waiting_pipe, end, launching>>,
         NEW x \in OpShapes, op' = [op EXCEPT ![me] = x],
         x.at \in {"user", "write", "moved", "notify"},
         x.at # "user" => PipeOf(me) # NoPipe,
         x.at = "write" => end[me][2] = WRITE,
         pipes' \in [PipeIds -> PipeShapes], RingsExact',
         \A i \in PipeIds : /\ pipes'[i].active = pipes[i].active
                            /\ pipes'[i].write_open = pipes[i].write_open
                            /\ pipes'[i].read_open = pipes[i].read_open
  PROVE  PipesInv'
<1>1. /\ pid' = pid /\ state' = state /\ foreground' = foreground /\ fg_scan' = fg_scan
      /\ next_pid' = next_pid /\ current_process' = current_process
      /\ end' = end /\ waiting_pipe' = waiting_pipe /\ launching' = launching
  BY DEF vars
<1>2. me \in Slots /\ me # NoProc /\ pid[me] # 0
  BY CallerFacts
<1>3. /\ op' \in [Slots -> OpShapes] /\ op'[me] = x
      /\ \A s \in Slots \ {me} : op'[s] = op[s]
  BY <1>2, Shapes
<1>4. IInv'
  BY <1>1, UnchangedTablesIInv DEF PipesInv, vars, IInv, TypeOK
<1>5. RingInv'
  <2>1. PidsBounded'
    BY <1>1 DEF PipesInv, RingInv, PidsBounded
  <2> QED
    BY <1>1, <1>3, <1>4, <2>1, Shapes
       DEF IInv, RingInv, PipeTypeOK, PipeShapes, OpShapes, EndShapes
<1>6. Permanent'
  BY <1>1 DEF PipesInv, Permanent
<1>7. SleepersMarked'
  BY <1>1, <1>3 DEF PipesInv, SleepersMarked, Busy, PipeOf
<1>8. CurrentStuck'
  BY <1>1 DEF PipesInv, CurrentStuck, me
<1>9. MaskedAlone'
  BY <1>1, <1>3 DEF PipesInv, MaskedAlone, Masked
<1>10. EndsInv'
  <2>1. EndsFit'
    BY <1>1, <1>2, <1>3 DEF PipesInv, EndsInv, EndsFit, PipeOf
  <2>2. \A i \in PipeIds : \A side : Open(i, side)' = Open(i, side)
    BY DEF Open
  <2>3. EndsCounted'
    <3>1. \A s \in Slots : PipeOf(s) # NoPipe => PipeOf(s) \in PipeIds
      BY Shapes DEF PipeOf, EndShapes
    <3>2. launching[1] # NoPipe => launching[1] \in PipeIds
      BY Shapes DEF EndShapes
    <3>3. op[me].at # "closing"
      BY <1>2 DEF Masked
    <3> QED
      BY <1>1, <1>2, <1>3, <2>2, <3>1, <3>2, <3>3
         DEF PipesInv, EndsInv, EndsCounted, PipeOf
  <2>4. EndsUnique'
    BY <1>1 DEF PipesInv, EndsInv, EndsUnique, PipeOf
  <2> QED
    BY <2>1, <2>3, <2>4 DEF EndsInv
<1> QED
  BY <1>4, <1>5, <1>6, <1>7, <1>8, <1>9, <1>10 DEF PipesInv

\* Replacing one pipe by another with an exact ring keeps the table exact.
LEMMA PipeReplaced ==
  ASSUME PipesInv, NEW i \in PipeIds, NEW p \in PipeShapes,
         p.write_pos = StepPos(p.read_pos, p.count),
         pipes' = [pipes EXCEPT ![i] = p]
  PROVE  pipes' \in [PipeIds -> PipeShapes] /\ RingsExact'
BY Shapes DEF PipesInv, RingInv, RingsExact

LEMMA ReadTakesInv ==
  ASSUME PipesInv, NEW n \in 1..MaxRead, ReadTakes(n)
  PROVE  PipesInv'
<1> DEFINE p == MyPipe
           x == Doing("moved", 0, {})
<1>1. Does({"user", "read"}, READ)
  BY DEF ReadTakes
<1>2. /\ me \in Slots /\ Syscall /\ ~Masked /\ op[me].at \in {"user", "read"}
      /\ PipeOf(me) \in PipeIds /\ p \in PipeShapes
      /\ p.write_pos = StepPos(p.read_pos, p.count)
  BY <1>1, DoesFacts DEF At, MyPipe
<1>3. n \in 1..p.count
  BY <1>2 DEF ReadTakes, PipeShapes
<1>4. state[me] # "BLOCKED"
  BY <1>2, <1>3, SleeperStuck DEF Busy
<1>5. /\ Taken(p, n) \in PipeShapes
      /\ Taken(p, n).write_pos = StepPos(Taken(p, n).read_pos, Taken(p, n).count)
  BY <1>2, <1>3, TakenContent
<1>6. pipes' = [pipes EXCEPT ![PipeOf(me)] = Taken(p, n)]
  BY DEF ReadTakes, MyPipe
<1>7. pipes' \in [PipeIds -> PipeShapes] /\ RingsExact'
  BY <1>2, <1>5, <1>6, PipeReplaced
<1>8. \A i \in PipeIds : /\ pipes'[i].active = pipes[i].active
                         /\ pipes'[i].write_open = pipes[i].write_open
                         /\ pipes'[i].read_open = pipes[i].read_open
  BY <1>2, <1>6, Shapes DEF Taken, PipeShapes, MyPipe
<1>9. x \in OpShapes /\ x.at = "moved"
  BY PipesAssumption DEF InUser, Doing, OpShapes, At
<1>10. op' = [op EXCEPT ![me] = x] /\ UNCHANGED <<vars, waiting_pipe, end, launching>>
  BY DEF ReadTakes
<1>11. PipeOf(me) # NoPipe
  BY <1>2, Shapes
<1> HIDE DEF x
<1> QED
  BY <1>2, <1>4, <1>7, <1>8, <1>9, <1>10, <1>11, OpStepInv

LEMMA WriteStoresInv ==
  ASSUME PipesInv, NEW left \in 1..MaxWrite, NEW b \in Bytes, WriteStores(b, left)
  PROVE  PipesInv'
<1> DEFINE p == MyPipe
           x == IF left = 1 THEN Doing("moved", 0, {})
                            ELSE Doing("write", left - 1, {})
<1>1. Does({"user", "write"}, WRITE)
  BY DEF WriteStores
<1>2. /\ me \in Slots /\ Syscall /\ ~Masked /\ op[me].at \in {"user", "write"}
      /\ PipeOf(me) \in PipeIds /\ p \in PipeShapes /\ end[me] = <<PipeOf(me), WRITE>>
      /\ p.write_pos = StepPos(p.read_pos, p.count)
  BY <1>1, DoesFacts DEF At, MyPipe
<1>3. HasSpace(p)
  BY DEF WriteStores
<1>4. state[me] # "BLOCKED"
  BY <1>2, <1>3, SleeperStuck DEF Busy
<1>5. /\ Stored(p, b) \in PipeShapes
      /\ Stored(p, b).write_pos = StepPos(Stored(p, b).read_pos, Stored(p, b).count)
  BY <1>2, <1>3, StoredContent
<1>6. pipes' = [pipes EXCEPT ![PipeOf(me)] = Stored(p, b)]
  BY DEF WriteStores, MyPipe
<1>7. pipes' \in [PipeIds -> PipeShapes] /\ RingsExact'
  BY <1>2, <1>5, <1>6, PipeReplaced
<1>8. \A i \in PipeIds : /\ pipes'[i].active = pipes[i].active
                         /\ pipes'[i].write_open = pipes[i].write_open
                         /\ pipes'[i].read_open = pipes[i].read_open
  BY <1>2, <1>6, Shapes DEF Stored, PipeShapes, MyPipe
<1>9. x \in OpShapes /\ x.at \in {"write", "moved"}
  <2>1. left - 1 \in 0..MaxWrite /\ 0 \in 0..MaxWrite
    BY PipesAssumption
  <2> QED
    BY <2>1 DEF Doing, OpShapes, At
<1>10. op' = [op EXCEPT ![me] = x] /\ UNCHANGED <<vars, waiting_pipe, end, launching>>
  BY DEF WriteStores
<1>11. PipeOf(me) # NoPipe /\ end[me][2] = WRITE
  BY <1>2, Shapes
<1> HIDE DEF x
<1> QED
  BY <1>2, <1>4, <1>7, <1>8, <1>9, <1>10, <1>11, OpStepInv

\* The ends of a call that move no byte, and the snapshot of pipe_notify.
LEMMA InUserShape == InUser \in OpShapes /\ InUser.at = "user"
BY PipesAssumption DEF InUser, Doing, OpShapes, At

LEMMA CallEndsInv ==
  ASSUME PipesInv, ReadEnds \/ WriteBreaks
  PROVE  PipesInv'
<1>1. /\ me \in Slots /\ Syscall /\ ~Masked
      /\ op[me].at = "read" => MyPipe.write_open = 0
      /\ op[me].at = "write" => MyPipe.read_open = 0
      /\ op[me].at \in {"read", "write"}
  <2>1. CASE ReadEnds
    <3>1. Does({"read"}, READ) /\ MyPipe.write_open = 0
      BY <2>1 DEF ReadEnds
    <3> QED
      BY <3>1, DoesFacts DEF At
  <2>2. CASE WriteBreaks
    <3>1. Does({"write"}, WRITE) /\ MyPipe.read_open = 0
      BY <2>2 DEF WriteBreaks
    <3> QED
      BY <3>1, DoesFacts DEF At
  <2> QED
    BY <2>1, <2>2
<1>2. state[me] # "BLOCKED"
  BY <1>1, SleeperStuck
<1>3. /\ op' = [op EXCEPT ![me] = InUser]
      /\ UNCHANGED <<vars, pipes, waiting_pipe, end, launching>>
  BY DEF ReadEnds, WriteBreaks
<1>4. pipes' \in [PipeIds -> PipeShapes] /\ RingsExact'
  BY <1>3, Shapes DEF PipesInv, RingInv, RingsExact
<1> QED
  BY <1>1, <1>2, <1>3, <1>4, InUserShape, OpStepInv

LEMMA LivePidsShape ==
  ASSUME PipesInv
  PROVE  LivePids \in SUBSET (Slots \X (1..MaxPid))
<1>1. \A s \in LiveSlots : s \in Slots /\ pid[s] \in 1..MaxPid
  BY DEF LiveSlots, PipesInv, RingInv, PipeTypeOK, TypeOK, PidsBounded
<1> QED
  BY <1>1 DEF LivePids

LEMMA NotifyStartsInv ==
  ASSUME PipesInv, NotifyStarts
  PROVE  PipesInv'
<1> DEFINE x == Doing("notify", 0, LivePids)
<1>1. me \in Slots /\ Syscall /\ ~Masked /\ op[me].at = "moved"
  BY CallerFacts DEF NotifyStarts
<1>2. state[me] # "BLOCKED"
  BY <1>1, SleeperStuck DEF Busy
<1>3. /\ op' = [op EXCEPT ![me] = x]
      /\ UNCHANGED <<vars, pipes, waiting_pipe, end, launching>>
  BY DEF NotifyStarts
<1>4. pipes' \in [PipeIds -> PipeShapes] /\ RingsExact'
  BY <1>3, Shapes DEF PipesInv, RingInv, RingsExact
<1>5. x \in OpShapes /\ x.at = "notify"
  BY LivePidsShape, PipesAssumption DEF Doing, OpShapes, At
<1>6. PipeOf(me) # NoPipe
  BY <1>1 DEF PipesInv, EndsInv, EndsFit, At
<1> HIDE DEF x
<1> QED
  BY <1>1, <1>2, <1>3, <1>4, <1>5, <1>6, OpStepInv

\* A process goes to sleep, or goes round its loop once more.
LEMMA SleepInv ==
  ASSUME PipesInv, NEW x \in OpShapes, Sleep(x), Syscall, ~Masked,
         PipeOf(me) \in PipeIds, op[me].at # "closing",
         \/ x.at = "read" /\ end[me][2] = READ
            /\ MyPipe.count = 0 /\ MyPipe.write_open > 0
         \/ x.at = "write" /\ end[me][2] = WRITE
            /\ ~HasSpace(MyPipe) /\ MyPipe.read_open > 0
  PROVE  PipesInv'
<1>1. me \in Slots /\ me # NoProc /\ me # Idle /\ pid[me] \in 1..MaxPid /\ state[me] # "READY"
  BY CallerFacts
<1>2. /\ op' = [op EXCEPT ![me] = x]
      /\ waiting_pipe' = [waiting_pipe EXCEPT ![me] = PipeOf(me)]
      /\ UNCHANGED <<pipes, end, launching>>
      /\ BlockCurrent \/ YieldProcess
  BY DEF Sleep
<1>3. /\ UNCHANGED <<pid, foreground, current_process, next_pid, fg_scan>>
      /\ \A s \in Slots \ {me} : state'[s] = state[s]
      /\ \/ state'[me] = "BLOCKED"
         \/ state'[me] = state[me] /\ state[me] # "RUNNING"
  <2>1. state \in [Slots -> States] /\ me \in Slots
    BY <1>1 DEF PipesInv, IInv, TypeOK
  <2>2. CASE state[me] = "RUNNING"
    <3>1. BlockCurrent
      BY <2>2 DEF Sleep
    <3> QED
      BY <2>1, <3>1 DEF BlockCurrent, me
  <2>3. CASE state[me] # "RUNNING"
    BY <2>1, <2>3 DEF Sleep, YieldProcess, me
  <2> QED
    BY <2>2, <2>3
<1>4. /\ op' \in [Slots -> OpShapes] /\ op'[me] = x
      /\ \A s \in Slots \ {me} : op'[s] = op[s]
      /\ waiting_pipe' \in [Slots -> PipeIds \cup {NoPipe}]
      /\ waiting_pipe'[me] = PipeOf(me)
      /\ \A s \in Slots \ {me} : waiting_pipe'[s] = waiting_pipe[s]
  BY <1>1, <1>2, Shapes
<1>5. IInv'
  <2>1. CASE BlockCurrent
    <3>1. IdleSpared
      BY <1>1, <1>3, Shapes DEF IdleSpared, PipesInv, IInv, SlotsAccounted, CurrentAccounted
    <3> QED
      BY <2>1, <3>1, BlockCurrentIInv DEF PipesInv
  <2>2. CASE YieldProcess
    BY <2>2, QuantumAssumption, UnchangedTablesIInv DEF YieldProcess, PipesInv, IInv, TypeOK
  <2> QED
    BY <1>2, <2>1, <2>2
<1>6. RingInv'
  <2>1. PidsBounded' /\ RingsExact'
    BY <1>2, <1>3 DEF PipesInv, RingInv, PidsBounded, RingsExact
  <2> QED
    BY <1>2, <1>4, <1>5, <2>1, Shapes
       DEF IInv, RingInv, PipeTypeOK, PipeShapes, OpShapes, EndShapes
<1>7. Permanent'
  <2>1. state'[me] = "KILLED" => state[me] = "KILLED"
    BY <1>3
  <2> QED
    BY <1>2, <1>3, <2>1, Shapes DEF PipesInv, Permanent
<1>8. SleepersMarked'
  BY <1>2, <1>3, <1>4, Shapes DEF PipesInv, SleepersMarked, Busy, PipeOf
<1>9. CurrentStuck'
  <2>1. ~CouldGoOn(me)'
    <3>1. pipes[PipeOf(me)] \in PipeShapes
      BY Shapes
    <3> QED
      BY <1>1, <1>2, <1>3, <1>4, <3>1 DEF CouldGoOn, HasSpace, MyPipe, PipeOf, PipeShapes, me
  <2>2. state'[me] # "READY"
    BY <1>1, <1>3
  <2> QED
    BY <1>3, <2>1, <2>2 DEF CurrentStuck, me
<1>10. MaskedAlone'
  BY <1>3, <1>4 DEF PipesInv, MaskedAlone, Masked
<1>11. EndsInv'
  <2>1. EndsFit'
    BY <1>1, <1>2, <1>3, <1>4, Shapes DEF PipesInv, EndsInv, EndsFit, PipeOf
  <2>2. EndsCounted'
    BY <1>2, <1>4 DEF PipesInv, EndsInv, EndsCounted, PipeOf, Open
  <2>3. EndsUnique'
    BY <1>2 DEF PipesInv, EndsInv, EndsUnique, PipeOf
  <2> QED
    BY <2>1, <2>2, <2>3 DEF EndsInv
<1> QED
  BY <1>5, <1>6, <1>7, <1>8, <1>9, <1>10, <1>11 DEF PipesInv

LEMMA ReadBlocksInv ==
  ASSUME PipesInv, ReadBlocks
  PROVE  PipesInv'
<1> DEFINE x == Doing("read", 0, {})
<1>1. Does({"user", "read"}, READ) /\ Sleep(x) /\ MyPipe.count = 0 /\ MyPipe.write_open > 0
  BY DEF ReadBlocks
<1>2. /\ Syscall /\ ~Masked /\ PipeOf(me) \in PipeIds /\ op[me].at # "closing"
      /\ end[me] = <<PipeOf(me), READ>>
  BY <1>1, DoesFacts DEF At
<1>3. x \in OpShapes /\ x.at = "read"
  BY PipesAssumption DEF Doing, OpShapes, At
<1> HIDE DEF x
<1> QED
  BY <1>1, <1>2, <1>3, SleepInv

LEMMA WriteBlocksInv ==
  ASSUME PipesInv, NEW left \in 1..MaxWrite, WriteBlocks(left)
  PROVE  PipesInv'
<1> DEFINE x == Doing("write", left, {})
<1>1. Does({"user", "write"}, WRITE) /\ Sleep(x) /\ ~HasSpace(MyPipe) /\ MyPipe.read_open > 0
  BY DEF WriteBlocks
<1>2. /\ Syscall /\ ~Masked /\ PipeOf(me) \in PipeIds /\ op[me].at # "closing"
      /\ end[me] = <<PipeOf(me), WRITE>>
  BY <1>1, DoesFacts DEF At
<1>3. x \in OpShapes /\ x.at = "write"
  BY PipesAssumption DEF Doing, OpShapes, At
<1> HIDE DEF x
<1> QED
  BY <1>1, <1>2, <1>3, SleepInv

\* One turn of the loop of pipe_notify: a sleeper is woken or not.
LEMMA NotifyNextInv ==
  ASSUME PipesInv, NotifyNext
  PROVE  PipesInv'
<1> DEFINE todo == op[me].todo
           x == op'[me]
<1>1. /\ me \in Slots /\ me # NoProc /\ me # Idle /\ pid[me] \in 1..MaxPid
      /\ Syscall /\ fg_scan = 0 /\ op[me].at \in {"notify", "closing"}
      /\ op[me] \in OpShapes /\ end[me] \in EndShapes
  BY CallerFacts, Shapes DEF NotifyNext
<1>2. /\ op' = [op EXCEPT ![me] =
           IF todo = {FirstOf(todo)} THEN InUser
                                     ELSE [@ EXCEPT !.todo = todo \ {FirstOf(todo)}]]
      /\ \/ end' = end
         \/ /\ end' = [end EXCEPT ![me] = NoEnd]
            /\ op[me].at = "closing" /\ todo = {FirstOf(todo)}
      /\ op[me].at = "closing" /\ todo = {FirstOf(todo)} => end' = [end EXCEPT ![me] = NoEnd]
      /\ UNCHANGED <<pipes, launching>>
  BY DEF NotifyNext
<1>3. /\ op' \in [Slots -> OpShapes] /\ x.at \in {op[me].at, "user"}
      /\ todo # {FirstOf(todo)} => x.at = op[me].at
      /\ todo = {FirstOf(todo)} => x.at = "user"
      /\ \A s \in Slots \ {me} : op'[s] = op[s]
  <2>1. op[me].todo \ {FirstOf(todo)} \in SUBSET (Slots \X (1..MaxPid))
    BY <1>1 DEF OpShapes
  <2>2. [op[me] EXCEPT !.todo = todo \ {FirstOf(todo)}] \in OpShapes
        /\ [op[me] EXCEPT !.todo = todo \ {FirstOf(todo)}].at = op[me].at
    BY <1>1, <2>1 DEF OpShapes
  <2> HIDE DEF todo
  <2> QED
    BY <1>1, <1>2, <2>2, Shapes, InUserShape
<1>4. /\ end' \in [Slots -> EndShapes]
      /\ \A s \in Slots \ {me} : end'[s] = end[s]
      /\ \/ end'[me] = end[me]
         \/ end'[me] = NoEnd /\ op[me].at = "closing" /\ x.at = "user"
      /\ op[me].at = "closing" /\ x.at = "user" => end'[me] = NoEnd
  <2>1. NoEnd \in EndShapes
    BY DEF NoEnd, EndShapes
  <2> HIDE DEF x, todo
  <2> QED
    BY <1>1, <1>2, <1>3, <2>1, Shapes
<1>5. \/ UNCHANGED <<vars, waiting_pipe>>
      \/ \E s \in Slots : /\ state[s] = "BLOCKED" /\ UnblockProcess(s)
                          /\ waiting_pipe' = [waiting_pipe EXCEPT ![s] = NoPipe]
  BY DEF NotifyNext, AsleepOn
<1> HIDE DEF x, todo
<1>6. /\ UNCHANGED <<pid, foreground, current_process, next_pid, fg_scan>>
      /\ waiting_pipe' \in [Slots -> PipeIds \cup {NoPipe}]
      /\ \A s \in Slots : \/ state'[s] = state[s] /\ waiting_pipe'[s] = waiting_pipe[s]
                          \/ state[s] = "BLOCKED" /\ state'[s] = "READY"
  <2>1. CASE UNCHANGED <<vars, waiting_pipe>>
    BY <2>1, Shapes DEF vars
  <2>2. ASSUME NEW s \in Slots, state[s] = "BLOCKED", UnblockProcess(s),
               waiting_pipe' = [waiting_pipe EXCEPT ![s] = NoPipe]
        PROVE  /\ UNCHANGED <<pid, foreground, current_process, next_pid, fg_scan>>
               /\ waiting_pipe' \in [Slots -> PipeIds \cup {NoPipe}]
               /\ \A t \in Slots :
                    \/ state'[t] = state[t] /\ waiting_pipe'[t] = waiting_pipe[t]
                    \/ state[t] = "BLOCKED" /\ state'[t] = "READY"
    BY <2>2, Shapes DEF UnblockProcess, PipesInv, IInv, TypeOK
  <2> QED
    BY <1>5, <2>1, <2>2
<1>7. state[me] # "BLOCKED"
  BY <1>1, SleeperStuck DEF Busy
<1>8. IInv'
  <2>1. CASE UNCHANGED <<vars, waiting_pipe>>
    BY <2>1, UnchangedTablesIInv DEF PipesInv, vars, IInv, TypeOK
  <2> QED
    BY <1>5, <2>1, UnblockProcessIInv DEF PipesInv
<1>9. RingInv'
  <2>1. PidsBounded' /\ RingsExact'
    BY <1>2, <1>6 DEF PipesInv, RingInv, PidsBounded, RingsExact
  <2> QED
    BY <1>2, <1>3, <1>4, <1>6, <1>8, <2>1, Shapes
       DEF IInv, RingInv, PipeTypeOK, PipeShapes, OpShapes, EndShapes
<1>10. Permanent'
  <2>1. state'[Shell] = "KILLED" => state[Shell] = "KILLED"
    BY <1>6, Shapes
  <2>2. me # Shell
    BY <1>1 DEF PipesInv, Permanent, EndsInv, EndsFit, PipeOf, NoEnd, At
  <2> QED
    BY <1>1, <1>4, <1>6, <2>1, <2>2, Shapes DEF PipesInv, Permanent
<1>11. SleepersMarked'
  BY <1>3, <1>4, <1>6, <1>7 DEF PipesInv, SleepersMarked, Busy, PipeOf
<1>12. CurrentStuck'
  BY <1>1, <1>6, <1>7, CallerFacts DEF PipesInv, CurrentStuck, me
<1>13. MaskedAlone'
  BY <1>1, <1>3, <1>6 DEF PipesInv, MaskedAlone, me
<1>14. EndsInv'
  <2>1. EndsFit'
    <3>1. NoEnd[1] = NoPipe
      BY DEF NoEnd
    <3> QED
      BY <1>1, <1>2, <1>3, <1>4, <1>6, <3>1 DEF PipesInv, EndsInv, EndsFit, PipeOf, At, x
  <2>2. EndsCounted'
    <3>1. NoEnd[1] = NoPipe
      BY DEF NoEnd
    <3> QED
      BY <1>2, <1>3, <1>4, <3>1 DEF PipesInv, EndsInv, EndsCounted, PipeOf, Open
  <2>3. EndsUnique'
    <3>1. NoEnd[1] = NoPipe
      BY DEF NoEnd
    <3> QED
      BY <1>2, <1>4, <3>1 DEF PipesInv, EndsInv, EndsUnique, PipeOf
  <2> QED
    BY <2>1, <2>2, <2>3 DEF EndsInv
<1> QED
  BY <1>8, <1>9, <1>10, <1>11, <1>12, <1>13, <1>14 DEF PipesInv

\* What pipe_close does to the pipe when it closes an end that is open once.
LEMMA EndClosedResult ==
  ASSUME NEW p \in PipeShapes, NEW side \in {READ, WRITE},
         side = WRITE => p.write_open = 1, side = READ => p.read_open = 1
  PROVE  LET q == EndClosed(p, side) IN
         /\ q \in PipeShapes /\ q.read_pos = p.read_pos /\ q.write_pos = p.write_pos
         /\ q.count = p.count /\ q.buffer = p.buffer
         /\ q.active = (q.write_open > 0 \/ q.read_open > 0)
         /\ side = WRITE => q.write_open = 0 /\ q.read_open = p.read_open
         /\ side = READ => q.read_open = 0 /\ q.write_open = p.write_open
<1> DEFINE w == IF side = WRITE /\ p.write_open > 0 THEN p.write_open - 1 ELSE p.write_open
           r == IF side = READ /\ p.read_open > 0 THEN p.read_open - 1 ELSE p.read_open
<1>1. /\ w \in Nat /\ r \in Nat
      /\ side = WRITE => w = 0 /\ r = p.read_open
      /\ side = READ => r = 0 /\ w = p.write_open
  BY DEF PipeShapes, READ, WRITE
<1>2. EndClosed(p, side) =
        [p EXCEPT !.write_open = w, !.read_open = r, !.active = w > 0 \/ r > 0]
  BY DEF EndClosed
<1> HIDE DEF w, r
<1>3. [p EXCEPT !.write_open = w, !.read_open = r, !.active = w > 0 \/ r > 0] \in PipeShapes
  BY <1>1 DEF PipeShapes
<1> QED
  BY <1>1, <1>2, <1>3 DEF PipeShapes

\* pipe_close counts the end down; nobody else has it.
LEMMA PipeCloseInv ==
  ASSUME PipesInv, PipeClose
  PROVE  PipesInv'
<1>0. PICK i, side : i = PipeOf(me) /\ side = end[me][2]
  OBVIOUS
<1> DEFINE p == EndClosed(pipes[i], side)
<1>1. PICK e \in {READ, WRITE} : Does({"user"}, e)
  BY DEF PipeClose
<1>2. /\ me \in Slots /\ me \notin {NoProc, Idle, Shell} /\ Syscall /\ ~Masked
      /\ op[me].at = "user" /\ i \in PipeIds /\ end[me] = <<i, side>> /\ side \in {READ, WRITE}
      /\ pipes[i] \in PipeShapes /\ Open(i, side) = 1
      /\ pipes[i].write_pos = StepPos(pipes[i].read_pos, pipes[i].count)
  BY <1>0, <1>1, DoesFacts DEF At, MyPipe
<1>3. /\ pid[me] # 0 /\ fg_scan = 0 /\ state[me] # "READY"
  BY <1>2, CallerFacts
<1>4. state[me] # "BLOCKED"
  BY <1>2, SleeperStuck DEF Busy
<1>5. CloseNotifies(i, side)
  BY <1>2 DEF CloseNotifies, Open, READ, WRITE
<1>6. /\ pipes' = [pipes EXCEPT ![i] = p]
      /\ op' = [op EXCEPT ![me] = Doing("closing", 0, LivePids)]
      /\ UNCHANGED <<vars, waiting_pipe, end, launching>>
  BY <1>0, <1>5 DEF PipeClose
<1>7. /\ p \in PipeShapes /\ p.read_pos = pipes[i].read_pos
      /\ p.write_pos = pipes[i].write_pos /\ p.count = pipes[i].count
      /\ p.active = (p.write_open > 0 \/ p.read_open > 0)
      /\ side = WRITE => p.write_open = 0 /\ p.read_open = pipes[i].read_open
      /\ side = READ => p.read_open = 0 /\ p.write_open = pipes[i].write_open
  <2>1. /\ side = WRITE => pipes[i].write_open = 1
        /\ side = READ => pipes[i].read_open = 1
    BY <1>2 DEF Open, READ, WRITE
  <2> QED
    BY <1>2, <2>1, EndClosedResult
<1> HIDE DEF p
<1>8. pipes' \in [PipeIds -> PipeShapes] /\ RingsExact'
  BY <1>2, <1>6, <1>7, PipeReplaced
<1>9. Doing("closing", 0, LivePids) \in OpShapes /\ Doing("closing", 0, LivePids).at = "closing"
  BY LivePidsShape, PipesAssumption DEF Doing, OpShapes, At
<1>10. /\ op' \in [Slots -> OpShapes] /\ op'[me].at = "closing"
       /\ \A s \in Slots \ {me} : op'[s] = op[s]
  BY <1>2, <1>6, <1>9, Shapes
<1>11. /\ pid' = pid /\ state' = state /\ foreground' = foreground /\ fg_scan' = fg_scan
       /\ next_pid' = next_pid /\ current_process' = current_process
       /\ end' = end /\ waiting_pipe' = waiting_pipe /\ launching' = launching
  BY <1>6 DEF vars
<1>12. IInv'
  BY <1>6, UnchangedTablesIInv DEF PipesInv, vars, IInv, TypeOK
<1>13. RingInv'
  <2>1. PidsBounded'
    BY <1>11 DEF PipesInv, RingInv, PidsBounded
  <2> QED
    BY <1>8, <1>10, <1>11, <1>12, <2>1, Shapes
       DEF IInv, RingInv, PipeTypeOK, PipeShapes, OpShapes, EndShapes
<1>14. Permanent'
  BY <1>11 DEF PipesInv, Permanent
<1>15. SleepersMarked'
  BY <1>4, <1>10, <1>11 DEF PipesInv, SleepersMarked, Busy, PipeOf
<1>16. CurrentStuck'
  BY <1>3, <1>4, <1>11 DEF CurrentStuck, me
<1>17. MaskedAlone'
  BY <1>2, <1>3, <1>10, <1>11 DEF MaskedAlone, Masked, me
<1>18. EndsInv'
  <2>1. EndsFit'
    BY <1>2, <1>3, <1>10, <1>11, Shapes DEF PipesInv, EndsInv, EndsFit, PipeOf
  <2>2. /\ \A j \in PipeIds \ {i}, sd \in {READ, WRITE} : Open(j, sd)' = Open(j, sd)
        /\ \A sd \in {READ, WRITE} \ {side} : Open(i, sd)' = Open(i, sd)
        /\ \A j \in PipeIds \ {i} : pipes'[j] = pipes[j]
        /\ Open(i, side)' = 0 /\ pipes'[i] = p
    BY <1>2, <1>6, <1>7, Shapes DEF Open, READ, WRITE
  <2>3. EndsCounted'
    <3>1. ASSUME NEW s \in Slots, PipeOf(s) # NoPipe, op'[s].at # "closing"
          PROVE  Open(PipeOf(s), end[s][2])' = 1
      <4>1. s # me /\ op[s].at # "closing" /\ Open(PipeOf(s), end[s][2]) = 1
        BY <3>1, <1>10 DEF PipesInv, EndsInv, EndsCounted
      <4>2. /\ PipeOf(s) \in PipeIds /\ end[s] = <<PipeOf(s), end[s][2]>>
            /\ end[s][2] \in {READ, WRITE}
        BY <3>1, Shapes DEF PipeOf, EndShapes
      <4>3. PipeOf(s) # i \/ end[s][2] # side
        BY <4>1, <4>2, <3>1, <1>2 DEF PipesInv, EndsInv, EndsUnique
      <4> QED
        BY <4>1, <4>2, <4>3, <2>2, <1>11 DEF PipeOf
    <3>2. ASSUME launching[1] # NoPipe
          PROVE  /\ Open(launching[1], READ)' = 1
                 /\ launching[2] = WRITE => Open(launching[1], WRITE)' = 1
      <4>1. launching[1] \in PipeIds
        BY <3>2, Shapes DEF EndShapes
      <4>2. launching[1] = i => side = WRITE /\ launching[2] = READ
        BY <3>2, <1>0, <1>2 DEF PipesInv, EndsInv, EndsUnique
      <4> QED
        BY <3>2, <4>1, <4>2, <2>2, <1>11 DEF PipesInv, EndsInv, EndsCounted, READ, WRITE
    <3>3. \A j \in PipeIds : ~pipes'[j].active => Open(j, READ)' = 0 /\ Open(j, WRITE)' = 0
      <4>1. ~p.active => Open(i, READ)' = 0 /\ Open(i, WRITE)' = 0
        BY <2>2, <1>7 DEF Open, PipeShapes, READ, WRITE
      <4> QED
        BY <4>1, <2>2 DEF PipesInv, EndsInv, EndsCounted
    <3> QED
      BY <3>1, <3>2, <3>3, <1>11 DEF EndsCounted, PipeOf
  <2>4. EndsUnique'
    BY <1>11 DEF PipesInv, EndsInv, EndsUnique, PipeOf
  <2> QED
    BY <2>1, <2>3, <2>4 DEF EndsInv
<1> QED
  BY <1>12, <1>13, <1>14, <1>15, <1>16, <1>17, <1>18 DEF PipesInv

-----------------------------------------------------------------------------
(* The steps of the shell, and the end of a process.                       *)

\* A non-empty set of numbers has a least one, which Least finds.
LEMMA LeastResult ==
  ASSUME NEW S \in SUBSET Nat, S # {}
  PROVE  Least(S) \in S /\ \A k \in S : Least(S) <= k
BY LeastExists DEF Least

LEMMA PipeCreateInv ==
  ASSUME PipesInv, PipeCreate
  PROVE  PipesInv'
<1> DEFINE Free == {j \in PipeIds : ~pipes[j].active}
<1>1. PICK i, p : /\ i = Least(Free)
                  /\ p = [FreePipe EXCEPT !.active = TRUE, !.buffer = pipes[i].buffer,
                                          !.write_open = 1, !.read_open = 1]
  OBVIOUS
<1>2. /\ Syscall /\ me = Shell /\ ~Masked /\ launching = NoEnd /\ Free # {}
      /\ pipes' = [pipes EXCEPT ![i] = p] /\ launching' = <<i, WRITE>>
      /\ UNCHANGED <<vars, waiting_pipe, op, end>>
  BY <1>1 DEF PipeCreate
<1>3. i \in PipeIds /\ ~pipes[i].active /\ i # NoPipe
  <2>1. Free \in SUBSET Nat
    BY DEF PipeIds
  <2> HIDE DEF Free
  <2>2. i \in Free
    BY <2>1, <1>1, <1>2, LeastResult
  <2> QED
    BY <2>2, Shapes DEF Free
<1>4. /\ p \in PipeShapes /\ p.count = 0 /\ p.active /\ p.write_open = 1 /\ p.read_open = 1
      /\ p.write_pos = StepPos(p.read_pos, p.count)
  <2>1. 0 \in Ring /\ 0 \in 0..PIPE_BUF_SIZE /\ PIPE_BUF_SIZE > 0
    BY PipesAssumption DEF Ring
  <2>2. StepPos(0, 0) = 0
    BY <2>1, StepPosResult
  <2>3. pipes[i].buffer \in [Ring -> Bytes]
    BY <1>3, Shapes DEF PipeShapes
  <2>4. p = [active |-> TRUE, buffer |-> pipes[i].buffer, read_pos |-> 0, write_pos |-> 0,
             count |-> 0, write_open |-> 1, read_open |-> 1]
    BY <1>1 DEF FreePipe
  <2> QED
    BY <2>1, <2>2, <2>3, <2>4 DEF PipeShapes
<1>5. pipes' \in [PipeIds -> PipeShapes] /\ RingsExact'
  BY <1>2, <1>3, <1>4, PipeReplaced
<1>6. /\ pid' = pid /\ state' = state /\ foreground' = foreground /\ fg_scan' = fg_scan
      /\ next_pid' = next_pid /\ current_process' = current_process
      /\ end' = end /\ waiting_pipe' = waiting_pipe /\ op' = op
  BY <1>2 DEF vars
<1>7. IInv'
  BY <1>2, UnchangedTablesIInv DEF PipesInv, vars, IInv, TypeOK
<1>8. RingInv'
  <2>1. PidsBounded'
    BY <1>6 DEF PipesInv, RingInv, PidsBounded
  <2>2. launching' \in EndShapes
    BY <1>2, <1>3 DEF EndShapes
  <2> QED
    BY <1>5, <1>6, <1>7, <2>1, <2>2, Shapes
       DEF IInv, RingInv, PipeTypeOK, PipeShapes, OpShapes, EndShapes
<1>9. Permanent' /\ SleepersMarked' /\ MaskedAlone'
  BY <1>6 DEF PipesInv, Permanent, SleepersMarked, Busy, PipeOf, MaskedAlone
<1>10. CurrentStuck'
  <2>1. state[me] # "BLOCKED" /\ state[me] # "READY"
    BY <1>2, CallerFacts, SleeperStuck DEF PipesInv, Permanent, PipeOf, NoEnd
  <2> QED
    BY <1>6, <2>1 DEF CurrentStuck, me
<1>11. EndsInv'
  <2>1. EndsFit'
    BY <1>2, <1>3, <1>6 DEF PipesInv, EndsInv, EndsFit, PipeOf
  <2>2. ASSUME NEW s \in Slots  PROVE PipeOf(s) # i
    <3>1. op[s].at # "closing"
      BY <1>2 DEF Masked
    <3>2. Open(i, READ) = 0 /\ Open(i, WRITE) = 0
      BY <1>3 DEF PipesInv, EndsInv, EndsCounted
    <3>3. PipeOf(s) # NoPipe => Open(PipeOf(s), end[s][2]) = 1
      BY <3>1 DEF PipesInv, EndsInv, EndsCounted
    <3>4. end[s][2] \in {READ, WRITE}
      BY Shapes DEF EndShapes
    <3> QED
      BY <3>2, <3>3, <3>4, <1>3
  <2>3. /\ \A j \in PipeIds \ {i} : pipes'[j] = pipes[j]
        /\ \A j \in PipeIds \ {i}, side \in {READ, WRITE} : Open(j, side)' = Open(j, side)
        /\ pipes'[i] = p /\ Open(i, READ)' = 1 /\ Open(i, WRITE)' = 1
    BY <1>2, <1>3, <1>4, Shapes DEF Open
  <2>4. EndsCounted'
    <3>1. ASSUME NEW s \in Slots, PipeOf(s) # NoPipe, op[s].at # "closing"
          PROVE  Open(PipeOf(s), end[s][2])' = 1
      <4>1. PipeOf(s) \in PipeIds \ {i} /\ end[s][2] \in {READ, WRITE}
        BY <2>2, <3>1, Shapes DEF PipeOf, EndShapes
      <4> QED
        BY <3>1, <4>1, <2>3, <1>6 DEF PipesInv, EndsInv, EndsCounted, PipeOf
    <3>2. \A j \in PipeIds : ~pipes'[j].active => Open(j, READ)' = 0 /\ Open(j, WRITE)' = 0
      BY <2>3, <1>4 DEF PipesInv, EndsInv, EndsCounted
    <3> QED
      BY <3>1, <3>2, <2>3, <1>2, <1>6 DEF EndsCounted, PipeOf
  <2>5. EndsUnique'
    BY <1>2, <1>6, <2>2 DEF PipesInv, EndsInv, EndsUnique, PipeOf
  <2> QED
    BY <2>1, <2>4, <2>5 DEF EndsInv
<1> QED
  BY <1>7, <1>8, <1>9, <1>10, <1>11 DEF PipesInv

LEMMA SpawnInv ==
  ASSUME PipesInv, Spawn
  PROVE  PipesInv'
<1>1. /\ me = Shell /\ ~Masked /\ launching # NoEnd /\ CreateProcess(DEFAULT_PRIORITY, TRUE)
      /\ end' = [end EXCEPT ![Least(FreeSlots)] = launching]
      /\ launching' = IF launching[2] = WRITE THEN <<launching[1], READ>> ELSE NoEnd
      /\ UNCHANGED <<pipes, waiting_pipe, op>>
  BY DEF Spawn
<1>2. PICK s \in FreeSlots :
        /\ \A t \in FreeSlots : s <= t
        /\ pid' = [pid EXCEPT ![s] = next_pid]
        /\ state' = [state EXCEPT ![s] = "READY"]
        /\ foreground' = [foreground EXCEPT ![s] = TRUE]
  BY <1>1 DEF CreateProcess
<1>3. /\ Syscall /\ next_pid <= MaxPid /\ next_pid' = next_pid + 1
      /\ UNCHANGED <<current_process, fg_scan>>
  BY <1>1 DEF CreateProcess
<1>4. s \in Slots /\ pid[s] = 0 /\ state[s] = "KILLED" /\ s # Idle /\ s # Shell
  BY <1>2, Shapes DEF FreeSlots, PipesInv, Permanent, SHELL_PID, IInv, SlotsAccounted, CurrentAccounted
<1>5. Least(FreeSlots) = s
  <2>1. FreeSlots \in SUBSET Nat
    BY DEF FreeSlots, Slots
  <2>2. Least(FreeSlots) \in FreeSlots /\ Least(FreeSlots) <= s
    BY <2>1, <1>2, LeastResult
  <2>3. s \in Nat /\ Least(FreeSlots) \in Nat /\ s <= Least(FreeSlots)
    BY <2>1, <2>2, <1>2
  <2> QED
    BY <2>2, <2>3
<1>6. /\ end' \in [Slots -> EndShapes] /\ end'[s] = launching
      /\ \A t \in Slots \ {s} : end'[t] = end[t]
  BY <1>1, <1>4, <1>5, Shapes
<1>7. /\ pid \in [Slots -> Nat] /\ state \in [Slots -> States] /\ next_pid \in Nat
      /\ foreground \in [Slots -> BOOLEAN]
  BY DEF PipesInv, IInv, TypeOK
<1>8. IInv'
  <2>1. DEFAULT_PRIORITY \in Priorities \cup {-1}
    BY PriorityAssumption DEF Priorities
  <2> QED
    BY <2>1, <1>1, CreateProcessIInv DEF PipesInv
<1>9. RingInv'
  <2>1. PidsBounded'
    BY <1>2, <1>3, <1>4, <1>7, MaxPidAssumption DEF PipesInv, RingInv, PidsBounded
  <2>2. RingsExact'
    BY <1>1 DEF PipesInv, RingInv, RingsExact
  <2>3. launching' \in EndShapes
    BY <1>1, Shapes DEF EndShapes, NoEnd
  <2> QED
    BY <1>1, <1>6, <1>8, <2>1, <2>2, <2>3, Shapes
       DEF IInv, RingInv, PipeTypeOK, PipeShapes, OpShapes, EndShapes
<1>10. Permanent'
  BY <1>2, <1>4, <1>6, <1>7, Shapes DEF PipesInv, Permanent
<1>11. SleepersMarked'
  BY <1>1, <1>2, <1>4, <1>6, <1>7 DEF PipesInv, SleepersMarked, Busy, PipeOf
<1>12. CurrentStuck'
  <2>1. state[me] # "BLOCKED" /\ state[me] # "READY"
    BY <1>1, <1>3, CallerFacts, SleeperStuck DEF PipesInv, Permanent, PipeOf, NoEnd
  <2> QED
    BY <1>1, <1>2, <1>3, <1>4, <1>7, <2>1 DEF CurrentStuck, me
<1>13. MaskedAlone'
  BY <1>1, <1>3 DEF PipesInv, MaskedAlone
<1>14. EndsInv'
  <2>1. launching[1] # NoPipe /\ launching[1] \in PipeIds
    BY <1>1, Shapes DEF PipesInv, EndsInv, EndsFit, EndShapes
  <2>2. launching = <<launching[1], launching[2]>> /\ launching[2] \in {READ, WRITE}
    BY Shapes DEF EndShapes
  <2>3. op[s].at = "user" /\ end[s] = NoEnd
    BY <1>4 DEF PipesInv, EndsInv, EndsFit
  <2>4. EndsFit'
    <3>1. ASSUME NEW t \in Slots
          PROVE  /\ PipeOf(t)' = NoPipe => end'[t] = NoEnd
                 /\ op'[t].at \in At \ {"user", "exited"} => PipeOf(t)' # NoPipe
                 /\ op'[t].at = "read" => end'[t][2] = READ
                 /\ op'[t].at = "write" => end'[t][2] = WRITE
                 /\ pid'[t] = 0 => end'[t] = NoEnd /\ op'[t].at = "user"
      <4>1. CASE t = s
        <5>1. pid'[t] # 0
          BY <4>1, <1>2, <1>4, <1>7 DEF PipesInv, IInv, SlotsAccounted, PidsUnique
        <5> QED
          BY <4>1, <5>1, <1>1, <1>6, <2>1, <2>3 DEF PipeOf
      <4>2. CASE t # s
        BY <4>2, <1>1, <1>2, <1>4, <1>6, <1>7 DEF PipesInv, EndsInv, EndsFit, PipeOf
      <4> QED
        BY <4>1, <4>2
    <3>2. launching'[1] = NoPipe => launching' = NoEnd
      BY <1>1, <2>1
    <3> QED
      BY <3>1, <3>2 DEF EndsFit
  <2>5. EndsCounted'
    <3>1. \A i, side : Open(i, side)' = Open(i, side)
      BY <1>1 DEF Open
    <3>2. Open(launching[1], launching[2]) = 1
      BY <2>1, <2>2 DEF PipesInv, EndsInv, EndsCounted
    <3>3. NoEnd[1] = NoPipe /\ WRITE # READ
      BY DEF NoEnd, WRITE, READ
    <3> QED
      BY <1>1, <1>4, <1>6, <2>1, <2>2, <3>1, <3>2, <3>3
         DEF PipesInv, EndsInv, EndsCounted, PipeOf
  <2>6. EndsUnique'
    <3>1. ASSUME NEW t \in Slots, t # s, end[t][1] = launching[1]
          PROVE  launching[2] = READ /\ end[t][2] = WRITE
      BY <3>1, <2>1 DEF PipesInv, EndsInv, EndsUnique, PipeOf
    <3>2. NoEnd[1] = NoPipe /\ WRITE # READ
      BY DEF NoEnd, WRITE, READ
    <3> QED
      BY <1>1, <1>4, <1>6, <2>1, <2>2, <3>1, <3>2 DEF PipesInv, EndsInv, EndsUnique, PipeOf
  <2> QED
    BY <2>4, <2>5, <2>6 DEF EndsInv
<1> QED
  BY <1>8, <1>9, <1>10, <1>11, <1>12, <1>13, <1>14 DEF PipesInv

LEMMA PipeExitInv ==
  ASSUME PipesInv, PipeExit
  PROVE  PipesInv'
<1>1. /\ ~Masked /\ me # Shell /\ ExitCurrent(NoProc) /\ end[me] = NoEnd
      /\ op' = [op EXCEPT ![me].at = "exited"]
      /\ UNCHANGED <<pipes, waiting_pipe, end, launching>>
  BY DEF PipeExit
<1>2. /\ me \in Slots /\ me # Idle /\ pid[me] # 0 /\ fg_scan = 0 /\ state[me] # "READY"
  BY <1>1, CallerFacts DEF ExitCurrent
<1>3. /\ state' = [state EXCEPT ![me] = "KILLED"] /\ ready_queues' = ready_queues
      /\ UNCHANGED <<pid, foreground, current_process, next_pid, fg_scan>>
  BY <1>1 DEF ExitCurrent, WokenState, WokenQueues, me
<1>4. state'[me] = "KILLED" /\ \A s \in Slots \ {me} : state'[s] = state[s]
  BY <1>2, <1>3 DEF PipesInv, IInv, TypeOK
<1>5. /\ op' \in [Slots -> OpShapes] /\ op'[me].at = "exited"
      /\ \A s \in Slots \ {me} : op'[s] = op[s]
  <2>1. [op[me] EXCEPT !.at = "exited"] \in OpShapes
    BY <1>2, Shapes DEF OpShapes, At
  <2>2. [op[me] EXCEPT !.at = "exited"].at = "exited"
    BY <1>2, Shapes DEF OpShapes
  <2> QED
    BY <1>1, <1>2, <2>1, <2>2, Shapes
<1>6. IInv'
  <2>1. IdleSpared
    BY <1>2, <1>4, Shapes DEF IdleSpared, PipesInv, IInv, SlotsAccounted, CurrentAccounted
  <2>2. \A p \in Priorities : ~InQueue(ready_queues[p], me)
    BY <1>2 DEF PipesInv, IInv, QueuesExact
  <2>3. WokenCurrentSurvives
    BY <2>2, <1>2, <1>3 DEF WokenCurrentSurvives, me
  <2> QED
    BY <1>1, <2>1, <2>3, ExitCurrentIInv DEF PipesInv
<1>7. RingInv'
  <2>1. PidsBounded' /\ RingsExact'
    BY <1>1, <1>3 DEF PipesInv, RingInv, PidsBounded, RingsExact
  <2> QED
    BY <1>1, <1>5, <1>6, <2>1, Shapes
       DEF IInv, RingInv, PipeTypeOK, PipeShapes, OpShapes, EndShapes
<1>8. Permanent'
  BY <1>1, <1>3, <1>4, Shapes DEF PipesInv, Permanent
<1>9. SleepersMarked'
  BY <1>1, <1>3, <1>4, <1>5 DEF PipesInv, SleepersMarked, Busy, PipeOf
<1>10. CurrentStuck'
  BY <1>3, <1>4 DEF CurrentStuck, me
<1>11. MaskedAlone'
  BY <1>1, <1>3, <1>5 DEF MaskedAlone, Masked
<1>12. EndsInv'
  <2>1. EndsFit'
    BY <1>1, <1>2, <1>3, <1>5 DEF PipesInv, EndsInv, EndsFit, PipeOf
  <2>2. EndsCounted'
    <3>1. PipeOf(me) = NoPipe
      BY <1>1 DEF PipeOf, NoEnd
    <3> QED
      BY <1>1, <1>5, <3>1 DEF PipesInv, EndsInv, EndsCounted, PipeOf, Open
  <2>3. EndsUnique'
    BY <1>1 DEF PipesInv, EndsInv, EndsUnique, PipeOf
  <2> QED
    BY <2>1, <2>2, <2>3 DEF EndsInv
<1> QED
  BY <1>6, <1>7, <1>8, <1>9, <1>10, <1>11, <1>12 DEF PipesInv

-----------------------------------------------------------------------------
(* The interrupts, and kill: PCBs are freed.                               *)

\* What every step that frees PCBs, all of dead processes, has in common.
FreesDead ==
  /\ PcbsFreed /\ ~Masked
  /\ \A s \in Slots : /\ pid'[s] \in {0, pid[s]}
                      /\ pid[s] # 0 /\ pid'[s] = 0 => state'[s] = "KILLED"
                      /\ state'[s] = "BLOCKED" => state[s] = "BLOCKED"
                      /\ state[s] = "KILLED" => state'[s] = "KILLED"
  /\ pid'[Shell] = pid[Shell] /\ state'[Shell] # "KILLED"
  /\ next_pid' = next_pid /\ foreground' = foreground
  /\ current_process' # NoProc =>
       /\ state'[current_process'] # "READY"
       /\ state'[current_process'] = "BLOCKED" => current_process' = current_process

LEMMA FreesDeadInv ==
  ASSUME PipesInv, IInv', FreesDead
  PROVE  PipesInv'
<1> USE DEF FreesDead
<1>1. /\ waiting_pipe' = [s \in Slots |-> IF pid'[s] = 0 THEN NoPipe ELSE waiting_pipe[s]]
      /\ op' = [s \in Slots |-> IF pid'[s] = 0 THEN InUser ELSE op[s]]
      /\ end' = [s \in Slots |-> IF pid'[s] = 0 THEN NoEnd ELSE end[s]]
      /\ pipes' = pipes /\ launching' = launching
  BY DEF PcbsFreed
<1>2. /\ NoEnd \in EndShapes /\ NoEnd[1] = NoPipe /\ InUser.at = "user"
      /\ \A s \in Slots : op[s].at # "closing"
  BY InUserShape DEF NoEnd, EndShapes, Masked
<1>3. RingInv'
  <2>1. PidsBounded'
    BY MaxPidAssumption DEF PipesInv, RingInv, PidsBounded
  <2>2. RingsExact'
    BY <1>1 DEF PipesInv, RingInv, RingsExact
  <2>3. /\ waiting_pipe' \in [Slots -> PipeIds \cup {NoPipe}]
        /\ op' \in [Slots -> OpShapes] /\ end' \in [Slots -> EndShapes]
    BY <1>1, <1>2, Shapes, InUserShape
  <2> QED
    BY <1>1, <2>1, <2>2, <2>3, Shapes
       DEF IInv, RingInv, PipeTypeOK, PipeShapes, OpShapes, EndShapes
<1>4. Permanent'
  BY <1>1, Shapes DEF PipesInv, Permanent
<1>5. \A s \in Slots : state'[s] = "BLOCKED" => pid'[s] # 0
  BY DEF IInv, SlotsAccounted, StacksAccounted
<1>6. SleepersMarked'
  BY <1>1, <1>5 DEF PipesInv, SleepersMarked, Busy, PipeOf
<1>7. CurrentStuck'
  <2> SUFFICES ASSUME current_process' # NoProc, state'[current_process'] = "BLOCKED"
               PROVE  ~CouldGoOn(current_process)'
    BY DEF CurrentStuck
  <2>1. current_process' = current_process /\ current_process \in Slots
    BY DEF PipesInv, IInv, TypeOK
  <2>2. state[current_process] = "BLOCKED" /\ pid'[current_process] # 0
    BY <2>1, <1>5
  <2>3. ~CouldGoOn(current_process)
    BY <2>1, <2>2 DEF PipesInv, CurrentStuck
  <2> QED
    BY <2>1, <2>2, <2>3, <1>1 DEF CouldGoOn, PipeOf
<1>8. MaskedAlone'
  BY <1>1, <1>2 DEF MaskedAlone
<1>9. EndsInv'
  <2>1. EndsFit'
    BY <1>1, <1>2 DEF PipesInv, EndsInv, EndsFit, PipeOf, At
  <2>2. EndsCounted'
    BY <1>1, <1>2 DEF PipesInv, EndsInv, EndsCounted, PipeOf, Open
  <2>3. EndsUnique'
    BY <1>1, <1>2 DEF PipesInv, EndsInv, EndsUnique, PipeOf
  <2> QED
    BY <2>1, <2>2, <2>3 DEF EndsInv
<1> QED
  BY <1>3, <1>4, <1>6, <1>7, <1>8, <1>9 DEF PipesInv

\* A kill never finds the process that has the CPU in a ready queue.
LEMMA KilledNotQueued ==
  ASSUME PipesInv, NEW s \in Slots, KillEffect(s, NoProc), current_process' = current_process,
         current_process # NoProc
  PROVE  \A p \in Priorities : ~InQueue(ready_queues'[p], current_process)
<1>1. current_process \in Slots /\ state[current_process] # "READY"
  BY DEF PipesInv, IInv, TypeOK, CurrentStuck
<1>2. \A p \in Priorities : ~InQueue(ready_queues[p], current_process)
  BY <1>1 DEF PipesInv, IInv, QueuesExact
<1>3. CASE ready_queues' = ready_queues
  BY <1>2, <1>3
<1>4. CASE state[s] = "READY" /\ ready_queues' = Dequeue(ready_queues, s)
  <2>1. /\ TypeOK /\ LinkedExactly(ready_queues, state, priority)
        /\ ready_queues \in [Priorities -> Seq(Slots)] /\ state \in [Slots -> States]
    BY DEF PipesInv, IInv, TypeOK, QueuesExact, LinkedExactly, Distinct
  <2>2. LinkedExactly(Dequeue(ready_queues, s), [state EXCEPT ![s] = "BLOCKED"], priority)
    BY <1>4, <2>1, DequeueExact DEF States
  <2> QED
    BY <1>1, <1>4, <2>1, <2>2 DEF LinkedExactly
<1> QED
  BY <1>3, <1>4 DEF KillEffect, WokenState, WokenQueues

\* One process is killed, by kill or by the loop of Ctrl+C.
LEMMA KillFreesDead ==
  ASSUME PipesInv, NEW s \in Slots, Killable(s), s # Idle, KillEffect(s, NoProc), PcbsFreed,
         ~Masked, fg_scan' \in 0..MAX_PROCESSES, ~(fg_scan = 0 /\ fg_scan' = 1),
         UNCHANGED <<priority, foreground, current_process, quantum, to_free, next_pid>>
  PROVE  IInv' /\ FreesDead
<1>1. /\ pid \in [Slots -> Nat] /\ state \in [Slots -> States] /\ pid[s] # SHELL_PID
      /\ current_process \in Slots \cup {NoProc}
  BY DEF PipesInv, IInv, TypeOK, Killable
<1>2. /\ state' = [state EXCEPT ![s] = "KILLED"]
      /\ pid' = IF s = current_process THEN pid ELSE [pid EXCEPT ![s] = 0]
  BY DEF KillEffect, WokenState, PidsAfterKill
<1>3. s # Shell
  BY <1>1 DEF PipesInv, Permanent
<1>4. IInv'
  <2>1. IdleSpared
    BY <1>1, <1>2, Shapes DEF IdleSpared, PipesInv, IInv, SlotsAccounted, CurrentAccounted
  <2>2. WokenCurrentSurvives
    BY KilledNotQueued DEF WokenCurrentSurvives
  <2> QED
    BY <2>1, <2>2, KillEffectIInv DEF PipesInv
<1>5. /\ \A t \in Slots : pid'[t] \in {0, pid[t]}
      /\ \A t \in Slots : pid[t] # 0 /\ pid'[t] = 0 => state'[t] = "KILLED"
      /\ pid'[Shell] = pid[Shell] /\ state'[Shell] # "KILLED"
      /\ \A t \in Slots : state'[t] = "BLOCKED" => state[t] = "BLOCKED"
      /\ \A t \in Slots : state[t] = "KILLED" => state'[t] = "KILLED"
  BY <1>1, <1>2, <1>3, Shapes DEF PipesInv, Permanent
<1>6. current_process # NoProc => state'[current_process] # "READY"
  BY <1>1, <1>2 DEF PipesInv, CurrentStuck
<1> QED
  BY <1>4, <1>5, <1>6 DEF FreesDead

LEMMA PipeKillFreesDead ==
  ASSUME PipesInv, NEW s \in Slots \ {Idle}, PipeKill(s)
  PROVE  IInv' /\ FreesDead
<1>1. /\ ~Masked /\ PcbsFreed /\ Syscall /\ Killable(s) /\ KillEffect(s, NoProc)
      /\ UNCHANGED <<priority, foreground, current_process, quantum, to_free, next_pid, fg_scan>>
  BY DEF PipeKill, KillProcess
<1>2. fg_scan' \in 0..MAX_PROCESSES
  BY <1>1 DEF PipesInv, IInv, TypeOK
<1> QED
  BY <1>1, <1>2, KillFreesDead

LEMMA ScanCFreesDead ==
  ASSUME PipesInv, ScanC
  PROVE  IInv' /\ FreesDead
<1>1. CtrlCScan(NoProc) /\ PcbsFreed
  BY DEF ScanC
<1>2. /\ fg_scan \in Slots /\ fg_scan # 0 /\ fg_scan' \in 0..MAX_PROCESSES
      /\ fg_scan' = IF fg_scan = MAX_PROCESSES THEN 0 ELSE fg_scan + 1
      /\ UNCHANGED <<priority, foreground, current_process, quantum, to_free, next_pid>>
  BY <1>1, ProcessesAssumption DEF CtrlCScan, PipesInv, IInv, TypeOK, Slots
<1>3. ~Masked
  BY <1>2 DEF PipesInv, MaskedAlone, Masked
<1>4. CASE Killable(fg_scan) /\ foreground[fg_scan]
  <2>1. KillEffect(fg_scan, NoProc)
    BY <1>1, <1>4 DEF CtrlCScan
  <2>2. fg_scan # Idle
    BY <1>4 DEF PipesInv, Permanent
  <2> QED
    BY <2>1, <2>2, <1>1, <1>2, <1>3, <1>4, KillFreesDead
<1>5. CASE ~(Killable(fg_scan) /\ foreground[fg_scan])
  <2>1. UNCHANGED <<pid, state, ready_queues>>
    BY <1>1, <1>5 DEF CtrlCScan
  <2>2. IInv'
    BY <2>1, <1>2, UnchangedTablesIInv DEF PipesInv, IInv, TypeOK
  <2>3. \A s \in Slots : pid'[s] \in {0, pid[s]}
    BY <2>1
  <2>4. /\ pid'[Shell] = pid[Shell] /\ state'[Shell] # "KILLED"
        /\ current_process # NoProc => state'[current_process] # "READY"
    BY <2>1 DEF PipesInv, Permanent, CurrentStuck
  <2> QED
    BY <2>1, <2>2, <2>3, <2>4, <1>1, <1>2, <1>3 DEF FreesDead
<1> QED
  BY <1>4, <1>5

LEMMA TickFreesDead ==
  ASSUME PipesInv, Tick
  PROVE  IInv' /\ FreesDead
<1>1. ~Masked /\ PcbsFreed /\ (TickKeep \/ TickSwitch)
  BY AlwaysANext DEF Tick, TimerTick, PipesInv
<1>2. IInv'
  BY <1>1, TickKeepIInv, TickSwitchIInv DEF PipesInv
<1>3. /\ pid' = ReclaimedPids /\ next_pid' = next_pid /\ foreground' = foreground
  BY <1>1, TickSwitchResult DEF TickKeep, TickSwitch, PipesInv
<1>4. \A s \in Slots : pid[s] # 0 /\ pid'[s] = 0 => state'[s] = "KILLED"
  BY <1>1, <1>2, TickFrees DEF PipesInv
<1>5. \A s \in Slots : pid'[s] \in {0, pid[s]}
  BY <1>3 DEF ReclaimedPids, PipesInv, IInv, TypeOK
<1>6. pid'[Shell] = pid[Shell]
  <2>1. to_free # Shell
    BY Shapes DEF PipesInv, Permanent, IInv, SlotsAccounted, StacksAccounted
  <2> QED
    BY <2>1, <1>3, Shapes DEF ReclaimedPids, PipesInv, IInv, TypeOK
<1>7. /\ \A s \in Slots : /\ state'[s] = "BLOCKED" => state[s] = "BLOCKED"
                          /\ state[s] = "KILLED" => state'[s] = "KILLED"
      /\ state'[Shell] # "KILLED" /\ state'[current_process'] = "RUNNING"
  <2>1. CASE TickKeep
    BY <2>1 DEF TickKeep, CurrentIs, PipesInv, Permanent, IInv, TypeOK
  <2>2. CASE TickSwitch
    <3>1. PICK p \in Priorities :
            /\ RequeuedQueues[p] # <<>>
            /\ state' = [RequeuedState EXCEPT ![RequeuedQueues[p][1]] = "RUNNING"]
            /\ current_process' = RequeuedQueues[p][1]
      BY <2>2, TickSwitchResult DEF PipesInv
    <3>2. RequeuedState \in [Slots -> States] /\ RequeuedQueues[p] \in Seq(Slots)
          /\ \A s \in Slots : \/ RequeuedState[s] = state[s]
                              \/ RequeuedState[s] = "READY" /\ state[s] = "RUNNING"
      BY RequeuedExact DEF PipesInv
    <3>3. RequeuedQueues[p][1] \in Slots /\ RequeuedState[RequeuedQueues[p][1]] = "READY"
      <4>1. 1 \in 1..Len(RequeuedQueues[p])
        BY <3>1, <3>2
      <4> QED
        BY <4>1, QueuedEligible DEF PipesInv
    <3> QED
      BY <3>1, <3>2, <3>3, Shapes DEF PipesInv, Permanent
  <2> QED
    BY <1>1, <2>1, <2>2
<1> QED
  BY <1>1, <1>2, <1>3, <1>4, <1>5, <1>6, <1>7 DEF FreesDead

LEMMA InterruptCInv ==
  ASSUME PipesInv, InterruptC
  PROVE  PipesInv'
<1>1. /\ ~Masked /\ UNCHANGED pipevars /\ fg_scan' = 1
      /\ UNCHANGED <<pid, state, priority, foreground, ready_queues, current_process,
                     quantum, to_free, next_pid>>
  BY DEF InterruptC, CtrlC
<1>2. IInv'
  <2>1. 1 \in 0..MAX_PROCESSES
    BY ProcessesAssumption
  <2> QED
    BY <1>1, <2>1, UnchangedTablesIInv DEF PipesInv, IInv, TypeOK
<1> QED
  BY <1>1, <1>2
     DEF pipevars, PipesInv, IInv, RingInv, PipeTypeOK, PidsBounded, RingsExact, Permanent,
         SleepersMarked, CurrentStuck, MaskedAlone, Masked, EndsInv, EndsFit, EndsCounted,
         EndsUnique, Busy, PipeOf, CouldGoOn, Open

-----------------------------------------------------------------------------
(* Every step.                                                             *)

LEMMA InitPipesInv == PipeInit => PipesInv
<1> SUFFICES ASSUME PipeInit PROVE PipesInv
  OBVIOUS
<1>1. /\ Init /\ pipes = [i \in PipeIds |-> FreePipe]
      /\ waiting_pipe = [s \in Slots |-> NoPipe] /\ op = [s \in Slots |-> InUser]
      /\ end = [s \in Slots |-> NoEnd] /\ launching = NoEnd
  BY DEF PipeInit
<1>2. IInv
  BY <1>1, InitIInv
<1>3. /\ Idle \in Slots /\ Shell \in Slots /\ InUser.at = "user" /\ InUser \in OpShapes
      /\ NoEnd \in EndShapes /\ NoEnd[1] = NoPipe
  BY ProcessesAssumption, InUserShape DEF Slots, Idle, Shell, NoEnd, EndShapes
<1>4. /\ FreePipe \in PipeShapes /\ ~FreePipe.active
      /\ FreePipe.write_pos = StepPos(FreePipe.read_pos, FreePipe.count)
      /\ FreePipe.write_open = 0 /\ FreePipe.read_open = 0
  <2>1. 0 \in Ring /\ 0 \in 0..PIPE_BUF_SIZE /\ PIPE_BUF_SIZE > 0
    BY PipesAssumption DEF Ring
  <2>2. StepPos(0, 0) = 0
    BY <2>1, StepPosResult
  <2>3. (CHOOSE b \in Bytes : TRUE) \in Bytes
    BY PipesAssumption
  <2> QED
    BY <2>1, <2>2, <2>3 DEF FreePipe, PipeShapes
<1>5. RingInv
  <2>1. PidsBounded
    BY <1>1, MaxPidAssumption DEF Init, PidsBounded, Idle, Shell
  <2>2. RingsExact
    BY <1>1, <1>4 DEF RingsExact
  <2> QED
    BY <1>1, <1>2, <1>3, <1>4, <2>1, <2>2
       DEF IInv, RingInv, PipeTypeOK, PipeShapes, OpShapes, EndShapes
<1>6. Permanent
  <2>1. ~foreground[Idle]
    <3>1. foreground[Idle] = (Idle = Shell) /\ Idle # Shell
      BY <1>1, <1>3 DEF Init, Idle, Shell
    <3> QED
      BY <3>1
  <2> QED
    BY <2>1, <1>1, <1>3 DEF Init, Permanent, Shell, SHELL_PID
<1>7. SleepersMarked
  BY <1>1 DEF Init, SleepersMarked
<1>8. CurrentStuck
  BY <1>1 DEF Init, CurrentStuck
<1>9. MaskedAlone
  BY <1>1, <1>3 DEF MaskedAlone
<1>10. EndsInv
  BY <1>1, <1>3, <1>4 DEF EndsInv, EndsFit, EndsCounted, EndsUnique, PipeOf, Open, At
<1> QED
  BY <1>2, <1>5, <1>6, <1>7, <1>8, <1>9, <1>10 DEF PipesInv

LEMMA NextPipesInv ==
  ASSUME PipesInv, [PipeNext]_allvars
  PROVE  PipesInv'
<1>1. CASE UNCHANGED allvars
  <2>1. UNCHANGED vars /\ UNCHANGED pipevars
    BY <1>1 DEF allvars
  <2>2. IInv'
    BY <2>1, UnchangedTablesIInv DEF vars, PipesInv, IInv, TypeOK
  <2>3. RingInv'
    BY <2>1, <2>2 DEF vars, pipevars, PipesInv, IInv, RingInv, PipeTypeOK, PidsBounded,
                      RingsExact
  <2>4. Permanent' /\ SleepersMarked' /\ CurrentStuck' /\ MaskedAlone'
    BY <2>1 DEF vars, pipevars, PipesInv, Permanent, SleepersMarked, CurrentStuck,
                MaskedAlone, Busy, PipeOf, CouldGoOn
  <2>5. EndsInv'
    BY <2>1 DEF vars, pipevars, PipesInv, EndsInv, EndsFit, EndsCounted, EndsUnique, PipeOf,
                Open
  <2> QED
    BY <2>2, <2>3, <2>4, <2>5 DEF PipesInv
<1>2. ASSUME Call  PROVE PipesInv'
  BY <1>2, PipeCreateInv, SpawnInv, ReadTakesInv, ReadBlocksInv, CallEndsInv, WriteBlocksInv,
     WriteStoresInv, NotifyStartsInv, NotifyNextInv, PipeCloseInv, PipeExitInv DEF Call
<1> QED
  BY <1>1, <1>2, InterruptCInv, ScanCFreesDead, TickFreesDead, PipeKillFreesDead, FreesDeadInv
     DEF PipeNext

\* The tables of the pipes and of the processes in them keep their types.
THEOREM PipesTypeCorrect == PipeSpec => []PipeTypeOK
<1>1. PipesInv => PipeTypeOK
  BY DEF PipesInv, RingInv
<1> QED
  BY <1>1, InitPipesInv, NextPipesInv, PTL DEF PipeSpec

\* The programs of run_piped are callers the scheduler can live with: whatever
\* they do and whenever Ctrl+C arrives, its tables stay exact, without the
\* assumptions CarefulSpec makes of callers in general.
THEOREM PipesKeepTables == PipeSpec => [](QueuesExact /\ SlotsAccounted)
<1>1. PipesInv => QueuesExact /\ SlotsAccounted
  BY DEF PipesInv, IInv
<1> QED
  BY <1>1, InitPipesInv, NextPipesInv, PTL DEF PipeSpec

-----------------------------------------------------------------------------
(* The refinement: each ring is a channel.                                 *)

Contents == [i \in PipeIds |-> Content(pipes[i])]

LEMMA ContentsReplaced ==
  ASSUME PipesInv, NEW i \in PipeIds, NEW p, pipes' = [pipes EXCEPT ![i] = p]
  PROVE  Contents' = [Contents EXCEPT ![i] = Content(p)]
BY Shapes DEF Contents

\* A step on the pipes stores a byte, takes some, empties a new pipe or leaves
\* the contents alone.
LEMMA ChannelStep ==
  ASSUME PipesInv, [PipeNext]_allvars
  PROVE  [Channel!ChannelNext]_Contents
<1>1. ASSUME NEW left \in 1..MaxWrite, NEW b \in Bytes, WriteStores(b, left)
      PROVE  Channel!ChannelNext
  <2>1. PICK i, p : i = PipeOf(me) /\ p = pipes[i]
    OBVIOUS
  <2>2. Does({"user", "write"}, WRITE) /\ HasSpace(p) /\ pipes' = [pipes EXCEPT ![i] = Stored(p, b)]
    BY <1>1, <2>1 DEF WriteStores, MyPipe
  <2>3. i \in PipeIds /\ p \in PipeShapes /\ p.write_pos = StepPos(p.read_pos, p.count)
    BY <2>1, <2>2, DoesFacts DEF At, MyPipe
  <2>4. Content(Stored(p, b)) = Append(Content(p), b) /\ Len(Content(p)) < PIPE_BUF_SIZE
    BY <2>2, <2>3, StoredContent, ContentResult DEF HasSpace
  <2>5. Contents' = [Contents EXCEPT ![i] = Append(@, b)] /\ Contents[i] = Content(p)
    BY <2>1, <2>2, <2>3, <2>4, ContentsReplaced DEF Contents
  <2>6. Channel!Put(i, b)
    BY <2>4, <2>5 DEF Channel!Put, Contents
  <2> QED
    BY <2>3, <2>6 DEF Channel!ChannelNext
<1>2. ASSUME NEW n \in 1..MaxRead, ReadTakes(n)
      PROVE  Channel!ChannelNext
  <2>1. PICK i, p : i = PipeOf(me) /\ p = pipes[i]
    OBVIOUS
  <2>2. Does({"user", "read"}, READ) /\ n <= p.count /\ pipes' = [pipes EXCEPT ![i] = Taken(p, n)]
    BY <1>2, <2>1 DEF ReadTakes, MyPipe
  <2>3. i \in PipeIds /\ p \in PipeShapes /\ p.write_pos = StepPos(p.read_pos, p.count)
    BY <2>1, <2>2, DoesFacts DEF At, MyPipe
  <2>4. n \in 1..p.count /\ n \in 1..PIPE_BUF_SIZE
    BY <2>2, <2>3, PipesAssumption DEF PipeShapes
  <2>5. /\ Content(Taken(p, n)) = SubSeq(Content(p), n + 1, Len(Content(p)))
        /\ n \in 1..Len(Content(p))
    BY <2>3, <2>4, TakenContent, ContentResult
  <2>6. /\ Contents' = [Contents EXCEPT ![i] = SubSeq(@, n + 1, Len(@))]
        /\ Contents[i] = Content(p)
    <3>1. Contents[i] = Content(p)
      BY <2>1, <2>3 DEF Contents
    <3>2. Contents' = [Contents EXCEPT ![i] = Content(Taken(p, n))]
      BY <2>2, <2>3, ContentsReplaced
    <3> QED
      BY <3>1, <3>2, <2>5
  <2>7. Channel!Get(i, n)
    BY <2>5, <2>6 DEF Channel!Get, Contents
  <2> QED
    BY <2>3, <2>4, <2>7 DEF Channel!ChannelNext
<1>3. ASSUME PipeCreate  PROVE Channel!ChannelNext
  <2> DEFINE Free == {j \in PipeIds : ~pipes[j].active}
  <2>1. PICK i, p : /\ i = Least(Free)
                    /\ p = [FreePipe EXCEPT !.active = TRUE, !.buffer = pipes[i].buffer,
                                            !.write_open = 1, !.read_open = 1]
    OBVIOUS
  <2>2. Free # {} /\ pipes' = [pipes EXCEPT ![i] = p]
    BY <1>3, <2>1 DEF PipeCreate
  <2>3. i \in PipeIds
    <3>1. Free \in SUBSET Nat
      BY DEF PipeIds
    <3> HIDE DEF Free
    <3>2. i \in Free
      BY <3>1, <2>1, <2>2, LeastResult
    <3> QED
      BY <3>2 DEF Free
  <2>4. p.count = 0
    BY <2>1 DEF FreePipe
  <2>5. Content(p) = <<>>
    BY <2>4 DEF Content
  <2>6. Contents' = [Contents EXCEPT ![i] = <<>>]
    BY <2>2, <2>3, <2>5, ContentsReplaced
  <2>7. Channel!Clear(i)
    BY <2>6 DEF Channel!Clear, Contents
  <2> QED
    BY <2>3, <2>7 DEF Channel!ChannelNext
<1>4. ASSUME PipeClose  PROVE Contents' = Contents
  <2>1. PICK i, side, p : i = PipeOf(me) /\ side = end[me][2] /\ p = pipes[i]
    OBVIOUS
  <2>2. PICK e \in {READ, WRITE} : Does({"user"}, e)
    BY <1>4 DEF PipeClose
  <2>3. /\ i \in PipeIds /\ p \in PipeShapes /\ side \in {READ, WRITE}
        /\ Open(i, side) = 1
    <3>1. /\ PipeOf(me) \in PipeIds /\ pipes[PipeOf(me)] \in PipeShapes
          /\ end[me] = <<PipeOf(me), e>> /\ Open(PipeOf(me), e) = 1
      BY <2>2, DoesFacts DEF At
    <3> QED
      BY <2>1, <3>1
  <2>4. pipes' = [pipes EXCEPT ![i] = EndClosed(p, side)]
    BY <1>4, <2>1 DEF PipeClose
  <2>5. /\ side = WRITE => p.write_open = 1
        /\ side = READ => p.read_open = 1
    BY <2>1, <2>3 DEF Open, READ, WRITE
  <2>6. /\ EndClosed(p, side).count = p.count /\ EndClosed(p, side).read_pos = p.read_pos
        /\ EndClosed(p, side).buffer = p.buffer
    BY <2>3, <2>5, EndClosedResult
  <2>7. Content(EndClosed(p, side)) = Content(p)
    BY <2>6 DEF Content
  <2> QED
    BY <2>1, <2>3, <2>4, <2>7, ContentsReplaced DEF Contents
<1>5. ASSUME pipes' = pipes  PROVE Contents' = Contents
  BY <1>5 DEF Contents
<1> QED
  BY <1>1, <1>2, <1>3, <1>4, <1>5
     DEF allvars, pipevars, PipeNext, Call, Spawn, ReadBlocks, ReadEnds, WriteBlocks, Sleep,
         WriteBreaks, NotifyStarts, NotifyNext, PipeExit, InterruptC, ScanC, Tick, PipeKill,
         PcbsFreed

\* A pipe delivers the bytes written to it in order, each once: the ring buffer
\* with its three counters implements the channel, whatever interrupts the
\* copies of pipe_read and pipe_write, for every buffer size.
THEOREM PipesAreChannels == PipeSpec => RingIsChannel
<1>1. PipeInit => Channel!ChannelInit
  <2> SUFFICES ASSUME PipeInit PROVE Channel!ChannelInit
    OBVIOUS
  <2>1. pipes = [i \in PipeIds |-> FreePipe]
    BY DEF PipeInit
  <2>2. Content(FreePipe) = <<>>
    BY DEF FreePipe, Content
  <2> QED
    BY <2>1, <2>2 DEF Channel!ChannelInit
<1>2. PipesInv /\ [PipeNext]_allvars => [Channel!ChannelNext]_Contents
  BY ChannelStep
<1> QED
  BY <1>1, <1>2, InitPipesInv, NextPipesInv, PTL
     DEF PipeSpec, RingIsChannel, Channel!ChannelSpec, Contents

-----------------------------------------------------------------------------
(* No wake-up is lost.                                                     *)

Uneasy(s) == state[s] = "BLOCKED" /\ Busy(s) /\ CouldGoOn(s)
Covered(s) == (\E t \in Slots : WillNotify(t, s)) \/ Deserted(PipeOf(s))

\* What a process asleep under the invariant has.
LEMMA SleeperFacts ==
  ASSUME PipesInv, NEW s \in Slots, state[s] = "BLOCKED"
  PROVE  /\ PipeOf(s) \in PipeIds /\ PipeOf(s) # NoPipe /\ op[s].at \in {"read", "write"}
         /\ end[s] = <<PipeOf(s), IF op[s].at = "read" THEN READ ELSE WRITE>>
         /\ Open(PipeOf(s), end[s][2]) = 1
         /\ pid[s] # 0 /\ waiting_pipe[s] = PipeOf(s) /\ s \in LiveSlots
<1>1. /\ Busy(s) /\ PipeOf(s) # NoPipe /\ waiting_pipe[s] = PipeOf(s)
  BY DEF PipesInv, SleepersMarked
<1>2. PipeOf(s) \in PipeIds /\ end[s] = <<PipeOf(s), end[s][2]>>
  BY <1>1, Shapes DEF PipeOf, EndShapes
<1>3. op[s].at \in {"read", "write"} /\ Open(PipeOf(s), end[s][2]) = 1
  BY <1>1 DEF Busy, PipesInv, EndsInv, EndsCounted
<1>4. end[s][2] = IF op[s].at = "read" THEN READ ELSE WRITE
  BY <1>3 DEF PipesInv, EndsInv, EndsFit
<1>5. pid[s] \in Nat /\ pid[s] # 0
  BY DEF PipesInv, IInv, TypeOK, SlotsAccounted, StacksAccounted
<1> QED
  BY <1>1, <1>2, <1>3, <1>4, <1>5 DEF LiveSlots

\* An end nobody has stays so when processes only die and give up ends.
LEMMA DesertedStays ==
  ASSUME NEW i \in PipeIds, i # NoPipe, Deserted(i), launching' = launching,
         pipes'[i].write_open = pipes[i].write_open,
         pipes'[i].read_open = pipes[i].read_open,
         \A t \in Slots : \/ end'[t] = NoEnd
                          \/ end'[t] = end[t] /\ (state'[t] # "KILLED" => state[t] # "KILLED")
  PROVE  Deserted(i)'
<1>1. \A side : <<i, side>> # NoEnd
  BY DEF NoEnd
<1>2. ASSUME NEW side, Manned(i, side)'  PROVE Manned(i, side)
  BY <1>1, <1>2 DEF Manned
<1> QED
  BY <1>2 DEF Deserted

\* The step of a process in an operation on a pipe leaves those who sleep on
\* the other pipes as they were.
LEMMA OpStepNotified ==
  ASSUME PipesInv, SleepersNotified, Syscall, state[me] # "BLOCKED",
         UNCHANGED <<vars, end, launching>>,
         NEW x, op' = [op EXCEPT ![me] = x],
         \A i \in PipeIds \ {PipeOf(me)} : pipes'[i] = pipes[i],
         \A s \in Slots \ {me} :
           state[s] = "BLOCKED" /\ PipeOf(s) = PipeOf(me) /\ Uneasy(s)' => Covered(s)'
  PROVE  SleepersNotified'
<1>1. /\ pid' = pid /\ state' = state /\ end' = end /\ launching' = launching
      /\ me \in Slots /\ \A s \in Slots \ {me} : op'[s] = op[s]
  BY CallerFacts DEF vars
<1>2. ASSUME NEW s \in Slots, Uneasy(s)', PipeOf(s) # PipeOf(me)
      PROVE  Covered(s)'
  <2>1. s # me /\ state[s] = "BLOCKED" /\ op'[s] = op[s] /\ PipeOf(s)' = PipeOf(s)
    BY <1>1, <1>2 DEF Uneasy, PipeOf
  <2>2. PipeOf(s) \in PipeIds \ {PipeOf(me)} /\ PipeOf(s) # NoPipe
    BY <1>2, <2>1, SleeperFacts
  <2>3. pipes'[PipeOf(s)] = pipes[PipeOf(s)]
    BY <2>2
  <2>4. Uneasy(s)
    BY <1>2, <2>1, <2>3 DEF Uneasy, Busy, CouldGoOn
  <2>5. Covered(s)
    BY <2>4 DEF SleepersNotified, Uneasy, Busy, Covered
  <2>6. ASSUME NEW t \in Slots, WillNotify(t, s)  PROVE WillNotify(t, s)'
    <3>1. t # me
      BY <1>2, <2>6 DEF WillNotify
    <3> QED
      BY <3>1, <2>6, <1>1 DEF WillNotify, PipeOf
  <2>7. Deserted(PipeOf(s)) => Deserted(PipeOf(s))'
    <3>1. PICK i \in PipeIds : i = PipeOf(s)
      BY <2>2
    <3>2. Deserted(i) => Deserted(i)'
      BY <3>1, <2>2, <2>3, <1>1, DesertedStays
    <3> QED
      BY <3>1, <3>2, <2>1
  <2> QED
    BY <2>5, <2>6, <2>7 DEF Covered
<1>3. ASSUME NEW s \in Slots, Uneasy(s)', PipeOf(s) = PipeOf(me)
      PROVE  Covered(s)'
  BY <1>1, <1>3 DEF Uneasy
<1> QED
  BY <1>2, <1>3 DEF SleepersNotified, Uneasy, Busy, Covered

\* A call that moved data has still to notify.
LEMMA MovesNotify ==
  ASSUME PipesInv, SleepersNotified,
         \/ \E n \in 1..MaxRead : ReadTakes(n)
         \/ \E left \in 1..MaxWrite, b \in Bytes : WriteStores(b, left)
  PROVE  SleepersNotified'
<1>1. PICK x, p : /\ op' = [op EXCEPT ![me] = x] /\ x.at \in {"write", "moved"}
                  /\ pipes' = [pipes EXCEPT ![PipeOf(me)] = p]
  BY DEF ReadTakes, WriteStores, Doing
<1>2. UNCHANGED <<vars, end, launching>> /\ Syscall /\ me \in Slots
  BY DoesFacts DEF ReadTakes, WriteStores, At
<1>3. state[me] # "BLOCKED"
  <2>1. ASSUME NEW n \in 1..MaxRead, ReadTakes(n)  PROVE state[me] # "BLOCKED"
    <3>1. /\ op[me].at \in {"user", "read"} /\ MyPipe \in PipeShapes /\ n <= MyPipe.count
      BY <2>1, DoesFacts DEF ReadTakes, At, MyPipe
    <3> QED
      BY <3>1, <1>2, SleeperStuck DEF Busy, PipeShapes
  <2>2. ASSUME NEW left \in 1..MaxWrite, NEW b \in Bytes, WriteStores(b, left)
        PROVE  state[me] # "BLOCKED"
    <3>1. op[me].at \in {"user", "write"} /\ HasSpace(MyPipe)
      BY <2>2, DoesFacts DEF WriteStores, At
    <3> QED
      BY <3>1, <1>2, SleeperStuck DEF Busy
  <2> QED
    BY <2>1, <2>2
<1>4. op'[me] = x /\ end' = end
  BY <1>1, <1>2, Shapes
<1>5. \A i \in PipeIds \ {PipeOf(me)} : pipes'[i] = pipes[i]
  BY <1>1, Shapes
<1>6. ASSUME NEW s \in Slots \ {me}, PipeOf(s) = PipeOf(me)  PROVE Covered(s)'
  <2>1. WillNotify(me, s)'
    BY <1>1, <1>2, <1>4, <1>6 DEF WillNotify, PipeOf, vars, me
  <2> QED
    BY <2>1, <1>2 DEF Covered, vars, me
<1> QED
  BY <1>1, <1>2, <1>3, <1>5, <1>6, OpStepNotified

\* A call that ends at the end of file, or on a broken pipe, had nobody to
\* notify: another process has, or there is nobody at the other end.
LEMMA CallEndsNotified ==
  ASSUME PipesInv, SleepersNotified, ReadEnds \/ WriteBreaks
  PROVE  SleepersNotified'
<1>1. /\ op' = [op EXCEPT ![me] = InUser]
      /\ UNCHANGED <<vars, pipes, end, launching>>
  BY DEF ReadEnds, WriteBreaks
<1>2. PICK at \in {"read", "write"} :
        /\ Does({at}, IF at = "read" THEN READ ELSE WRITE)
        /\ at = "read" => MyPipe.write_open = 0
        /\ at = "write" => MyPipe.read_open = 0
  BY DEF ReadEnds, WriteBreaks
<1>3. /\ me \in Slots /\ Syscall /\ op[me].at = at
      /\ end[me] = <<PipeOf(me), IF at = "read" THEN READ ELSE WRITE>>
  <2>1. {at} \in SUBSET At
    BY DEF At
  <2> QED
    BY <1>2, <2>1, DoesFacts
<1>4. state[me] # "BLOCKED"
  BY <1>2, <1>3, SleeperStuck
<1>5. /\ pid' = pid /\ state' = state /\ \A s \in Slots \ {me} : op'[s] = op[s]
  BY <1>1 DEF vars
<1>6. ASSUME NEW s \in Slots \ {me}, state[s] = "BLOCKED", PipeOf(s) = PipeOf(me), Uneasy(s)'
      PROVE  Covered(s)'
  <2>1. Uneasy(s)
    BY <1>1, <1>5, <1>6 DEF Uneasy, Busy, CouldGoOn, PipeOf
  <2>2. Covered(s)
    BY <2>1 DEF SleepersNotified, Uneasy, Busy, Covered
  <2>3. at = "read"
    <3>1. SUFFICES ASSUME at = "write" PROVE FALSE
      OBVIOUS
    <3>2. op[s].at # "read"
      BY <3>1, <1>2, <1>6, SleeperFacts DEF Open, MyPipe, READ, WRITE
    <3>3. end[s] = end[me]
      BY <3>1, <3>2, <1>3, <1>6, SleeperFacts
    <3> QED
      BY <3>3, <1>3, <1>6, SleeperFacts DEF PipesInv, EndsInv, EndsUnique
  <2>4. ASSUME NEW t \in Slots, WillNotify(t, s)  PROVE WillNotify(t, s)'
    <3>1. t # me
      BY <2>3, <2>4, <1>3 DEF WillNotify
    <3> QED
      BY <3>1, <2>4, <1>1, <1>5 DEF WillNotify, PipeOf
  <2>5. Deserted(PipeOf(s)) => Deserted(PipeOf(s))'
    BY <1>1, <1>5 DEF Deserted, Manned, PipeOf
  <2> QED
    BY <2>2, <2>4, <2>5 DEF Covered
<1> QED
  BY <1>1, <1>3, <1>4, <1>6, OpStepNotified

\* The snapshot of the table that pipe_notify takes has every sleeper.
LEMMA NotifyStartsNotified ==
  ASSUME PipesInv, SleepersNotified, NotifyStarts
  PROVE  SleepersNotified'
<1> DEFINE x == Doing("notify", 0, LivePids)
<1>1. /\ me \in Slots /\ Syscall /\ op[me].at = "moved"
      /\ op' = [op EXCEPT ![me] = x] /\ UNCHANGED <<vars, pipes, end, launching>>
  BY CallerFacts DEF NotifyStarts
<1>2. state[me] # "BLOCKED"
  BY <1>1, SleeperStuck DEF Busy
<1>3. op'[me] = x /\ x.at = "notify" /\ x.todo = LivePids
  BY <1>1, Shapes DEF Doing
<1> HIDE DEF x
<1>4. ASSUME NEW s \in Slots \ {me}, state[s] = "BLOCKED", PipeOf(s) = PipeOf(me)
      PROVE  Covered(s)'
  <2>1. pid[s] \in {e[2] : e \in LivePids}
    <3>1. <<s, pid[s]>> \in LivePids /\ <<s, pid[s]>>[2] = pid[s]
      BY <1>4, SleeperFacts DEF LivePids
    <3> QED
      BY <3>1
  <2>2. WillNotify(me, s)'
    BY <2>1, <1>1, <1>3, <1>4 DEF WillNotify, PipeOf, vars, me
  <2> QED
    BY <2>2, <1>1 DEF Covered, vars, me
<1> QED
  BY <1>1, <1>2, <1>4, OpStepNotified

\* A step that leaves the pipes alone and takes no notifier from a sleeper.
LEMMA NotifiedStays ==
  ASSUME PipesInv, SleepersNotified, pipes' = pipes, launching' = launching,
         \A t \in Slots : \/ end'[t] = NoEnd
                          \/ end'[t] = end[t] /\ (state'[t] # "KILLED" => state[t] # "KILLED"),
         \A s \in Slots : Uneasy(s)' => Uneasy(s) /\ end'[s] = end[s],
         \A s, t \in Slots :
           Uneasy(s)' /\ WillNotify(t, s) => WillNotify(t, s)' \/ Deserted(PipeOf(s))'
  PROVE  SleepersNotified'
<1> SUFFICES ASSUME NEW s \in Slots, Uneasy(s)'  PROVE Covered(s)'
  BY DEF SleepersNotified, Uneasy, Busy, Covered
<1>1. Uneasy(s) /\ Covered(s) /\ PipeOf(s)' = PipeOf(s)
  BY DEF SleepersNotified, Uneasy, Busy, Covered, PipeOf
<1>2. Deserted(PipeOf(s)) => Deserted(PipeOf(s))'
  <2>1. PICK i \in PipeIds : i = PipeOf(s) /\ i # NoPipe
    BY <1>1, SleeperFacts DEF Uneasy
  <2>2. Deserted(i) => Deserted(i)'
    BY <2>1, DesertedStays
  <2> QED
    BY <1>1, <2>1, <2>2
<1> QED
  BY <1>1, <1>2 DEF Covered

LEMMA SleepNotified ==
  ASSUME PipesInv, PipesInv', SleepersNotified,
         ReadBlocks \/ \E left \in 1..MaxWrite : WriteBlocks(left)
  PROVE  SleepersNotified'
<1>1. PICK x : /\ Sleep(x) /\ me \in Slots /\ me # NoProc
               /\ op[me].at \in {"user", "read", "write"}
               /\ op[me].at = "write" => x.at = "write"
  <2>1. CASE ReadBlocks
    <3>1. Sleep(Doing("read", 0, {})) /\ Does({"user", "read"}, READ)
      BY <2>1 DEF ReadBlocks
    <3>2. me \in Slots /\ me # NoProc /\ op[me].at \in {"user", "read"}
      BY <3>1, DoesFacts DEF At
    <3> QED
      BY <3>1, <3>2
  <2>2. ASSUME NEW left \in 1..MaxWrite, WriteBlocks(left)
        PROVE  \E x : /\ Sleep(x) /\ me \in Slots /\ me # NoProc
                      /\ op[me].at \in {"user", "read", "write"}
                      /\ op[me].at = "write" => x.at = "write"
    <3>1. Sleep(Doing("write", left, {})) /\ Does({"user", "write"}, WRITE)
      BY <2>2 DEF WriteBlocks
    <3>2. me \in Slots /\ me # NoProc /\ op[me].at \in {"user", "write"}
      BY <3>1, DoesFacts DEF At
    <3>3. Doing("write", left, {}).at = "write"
      BY DEF Doing
    <3> QED
      BY <3>1, <3>2, <3>3
  <2> QED
    BY <2>1, <2>2
<1>2. /\ op' = [op EXCEPT ![me] = x] /\ UNCHANGED <<pipes, end, launching>>
      /\ BlockCurrent \/ YieldProcess
  BY <1>1 DEF Sleep
<1>3. /\ UNCHANGED <<pid, current_process>> /\ \A s \in Slots \ {me} : state'[s] = state[s]
      /\ \A s \in Slots : state'[s] # "KILLED" => state[s] # "KILLED"
  <2>1. CASE BlockCurrent
    BY <1>1, <2>1 DEF BlockCurrent, me, PipesInv, IInv, TypeOK
  <2>2. CASE YieldProcess
    BY <2>2 DEF YieldProcess
  <2> QED
    BY <1>2, <2>1, <2>2
<1>4. op'[me] = x /\ \A s \in Slots \ {me} : op'[s] = op[s]
  BY <1>1, <1>2, Shapes
<1>5. ASSUME NEW s \in Slots, Uneasy(s)'  PROVE s # me /\ Uneasy(s)
  <2>1. s # me
    BY <1>1, <1>3, <1>5 DEF PipesInv, CurrentStuck, Uneasy, me
  <2> QED
    BY <2>1, <1>2, <1>3, <1>4, <1>5 DEF Uneasy, Busy, CouldGoOn, PipeOf
<1>6. ASSUME NEW s \in Slots, NEW t \in Slots, Uneasy(s)', WillNotify(t, s)
      PROVE  WillNotify(t, s)'
  <2>1. CASE t = me
    BY <2>1, <1>1, <1>2, <1>4, <1>5, <1>6 DEF WillNotify, PipeOf
  <2>2. CASE t # me
    BY <2>2, <1>2, <1>3, <1>4, <1>5, <1>6 DEF WillNotify, PipeOf
  <2> QED
    BY <2>1, <2>2
<1> QED
  BY <1>2, <1>3, <1>5, <1>6, NotifiedStays

\* One turn of the loop of pipe_notify: the pid it leaves behind is that of a
\* process it has woken, of a dead one, or of one that does not sleep there.
LEMMA NotifyNextNotified ==
  ASSUME PipesInv, SleepersNotified, NotifyNext
  PROVE  SleepersNotified'
<1>0. PICK todo, next, sleeper :
        /\ todo = op[me].todo /\ next = FirstOf(todo)
        /\ sleeper = AsleepOn(PipeOf(me), next[2])
  OBVIOUS
<1>1. /\ me \in Slots /\ Syscall /\ op[me].at \in {"notify", "closing"} /\ op[me] \in OpShapes
  BY CallerFacts, Shapes DEF NotifyNext
<1>2. /\ op' = [op EXCEPT ![me] =
           IF todo = {next} THEN InUser ELSE [@ EXCEPT !.todo = todo \ {next}]]
      /\ IF sleeper = {}
           THEN UNCHANGED <<vars, waiting_pipe>>
           ELSE \E s \in sleeper : UnblockProcess(s)
      /\ end' = end \/ end' = [end EXCEPT ![me] = NoEnd]
      /\ end' # end => todo = {next}
      /\ UNCHANGED <<pipes, launching>>
  BY <1>0 DEF NotifyNext
<1>3. state[me] # "BLOCKED"
  BY <1>1, SleeperStuck DEF Busy
<1>4. /\ pid' = pid /\ \A s \in Slots : \/ state'[s] = state[s]
                                        \/ state[s] = "BLOCKED" /\ state'[s] = "READY"
  BY <1>2 DEF vars, UnblockProcess, AsleepOn, PipesInv, IInv, TypeOK
<1>5. /\ \A s \in Slots \ {me} : op'[s] = op[s] /\ end'[s] = end[s]
      /\ todo # {next} => /\ op'[me].at = op[me].at /\ op'[me].todo = todo \ {next}
                          /\ end' = end
      /\ end'[me] = end[me] \/ end'[me] = NoEnd
  <2>1. /\ [op[me] EXCEPT !.todo = todo \ {next}].at = op[me].at
        /\ [op[me] EXCEPT !.todo = todo \ {next}].todo = todo \ {next}
    BY <1>1 DEF OpShapes
  <2> QED
    BY <2>1, <1>1, <1>2, Shapes
<1>6. ASSUME NEW s \in Slots, Uneasy(s)'
      PROVE  s # me /\ Uneasy(s) /\ state'[s] = "BLOCKED" /\ end'[s] = end[s]
  <2>1. state'[s] = "BLOCKED" /\ state[s] = "BLOCKED" /\ s # me
    BY <1>3, <1>4, <1>6 DEF Uneasy
  <2> QED
    BY <2>1, <1>2, <1>5, <1>6 DEF Uneasy, Busy, CouldGoOn, PipeOf
<1>7. ASSUME NEW s \in Slots, Uneasy(s)', PipeOf(s) = PipeOf(me)
      PROVE  next[2] # pid[s]
  <2>1. SUFFICES ASSUME next[2] = pid[s] PROVE FALSE
    OBVIOUS
  <2>2. s \in sleeper /\ pid[s] # 0
    BY <2>1, <1>0, <1>6, <1>7, SleeperFacts DEF Uneasy, AsleepOn
  <2>3. PICK u \in sleeper : UnblockProcess(u)
    BY <2>2, <1>2
  <2>4. u \in Slots /\ pid[u] = pid[s]
    BY <2>1, <2>3, <1>0 DEF AsleepOn
  <2>5. u = s
    BY <2>2, <2>4 DEF PipesInv, IInv, SlotsAccounted, PidsUnique
  <2>6. state'[s] = "READY"
    BY <2>3, <2>5 DEF UnblockProcess, PipesInv, IInv, TypeOK
  <2> QED
    BY <2>6, <1>6, <1>7
<1>8. ASSUME NEW s \in Slots, NEW t \in Slots, Uneasy(s)', WillNotify(t, s)
      PROVE  WillNotify(t, s)'
  <2>1. CASE t = me
    <3>1. PipeOf(s) = PipeOf(me) /\ pid[s] \in {e[2] : e \in todo}
      BY <2>1, <1>0, <1>1, <1>8 DEF WillNotify
    <3>2. pid[s] \in {e[2] : e \in todo \ {next}}
      BY <3>1, <1>7, <1>8
    <3>3. todo # {next}
      BY <3>2
    <3>4. op'[t].at \in {"notify", "closing"} /\ op'[t].todo = todo \ {next}
      BY <2>1, <3>3, <1>1, <1>5
    <3>5. PipeOf(t)' = PipeOf(s)' /\ t # s /\ pid'[s] = pid[s]
      BY <2>1, <3>1, <3>3, <1>4, <1>5, <1>6, <1>8 DEF PipeOf, WillNotify
    <3> QED
      BY <3>2, <3>4, <3>5 DEF WillNotify
  <2>2. CASE t # me
    BY <2>2, <1>4, <1>5, <1>6, <1>8 DEF WillNotify, PipeOf
  <2> QED
    BY <2>1, <2>2
<1>9. \A t \in Slots : \/ end'[t] = NoEnd
                       \/ end'[t] = end[t] /\ (state'[t] # "KILLED" => state[t] # "KILLED")
  BY <1>4, <1>5
<1> QED
  BY <1>2, <1>6, <1>8, <1>9, NotifiedStays

\* pipe_close notifies everybody who sleeps on the pipe.
LEMMA PipeCloseNotified ==
  ASSUME PipesInv, SleepersNotified, PipeClose
  PROVE  SleepersNotified'
<1>0. PICK i, side : i = PipeOf(me) /\ side = end[me][2]
  OBVIOUS
<1>1. PICK e \in {READ, WRITE} : Does({"user"}, e)
  BY DEF PipeClose
<1>2. /\ me \in Slots /\ Syscall /\ op[me].at = "user" /\ end[me] = <<i, side>>
      /\ side \in {READ, WRITE} /\ Open(i, side) = 1
  BY <1>0, <1>1, DoesFacts DEF At
<1>3. state[me] # "BLOCKED"
  BY <1>2, SleeperStuck DEF Busy
<1>4. CloseNotifies(i, side)
  BY <1>2 DEF CloseNotifies, Open, READ, WRITE
<1>5. PICK x : /\ op' = [op EXCEPT ![me] = x] /\ x.at = "closing" /\ x.todo = LivePids
               /\ pipes' = [pipes EXCEPT ![i] = EndClosed(@, side)]
               /\ UNCHANGED <<vars, end, launching>>
  <2>1. /\ op' = [op EXCEPT ![me] = Doing("closing", 0, LivePids)]
        /\ pipes' = [pipes EXCEPT ![i] = EndClosed(@, side)]
        /\ UNCHANGED <<vars, end, launching>>
    BY <1>0, <1>4 DEF PipeClose
  <2>2. /\ Doing("closing", 0, LivePids).at = "closing"
        /\ Doing("closing", 0, LivePids).todo = LivePids
    BY DEF Doing
  <2> QED
    BY <2>1, <2>2
<1>6. op'[me] = x /\ \A j \in PipeIds \ {i} : pipes'[j] = pipes[j]
  BY <1>2, <1>5, Shapes
<1>7. ASSUME NEW s \in Slots \ {me}, state[s] = "BLOCKED", PipeOf(s) = PipeOf(me)
      PROVE  Covered(s)'
  <2>1. pid[s] \in {f[2] : f \in LivePids}
    <3>1. <<s, pid[s]>> \in LivePids /\ <<s, pid[s]>>[2] = pid[s]
      BY <1>7, SleeperFacts DEF LivePids
    <3> QED
      BY <3>1
  <2>2. WillNotify(me, s)'
    BY <2>1, <1>2, <1>5, <1>6, <1>7 DEF WillNotify, PipeOf, vars, me
  <2> QED
    BY <2>2, <1>2, <1>5 DEF Covered, vars, me
<1> QED
  BY <1>0, <1>2, <1>3, <1>5, <1>6, <1>7, OpStepNotified

\* When a pipe is created nobody sleeps on any.
LEMMA PipeCreateNotified ==
  ASSUME PipesInv, PipeCreate
  PROVE  SleepersNotified'
<1>1. \A s \in Slots : state[s] # "BLOCKED"
  <2>1. \A s \in Slots \ {Idle, Shell} : state[s] = "KILLED"
    BY DEF PipeCreate
  <2>2. state[Idle] # "BLOCKED"
    BY DEF PipesInv, IInv, SlotsAccounted, CurrentAccounted
  <2>3. state[Shell] # "BLOCKED"
    BY Shapes DEF PipesInv, Permanent, SleepersMarked, PipeOf, NoEnd
  <2> QED
    BY <2>1, <2>2, <2>3
<1> QED
  BY <1>1 DEF PipeCreate, vars, SleepersNotified

\* The end the shell creates a process for goes from the shell to the process.
LEMMA SpawnNotified ==
  ASSUME PipesInv, SleepersNotified, Spawn
  PROVE  SleepersNotified'
<1>1. /\ launching # NoEnd /\ CreateProcess(DEFAULT_PRIORITY, TRUE)
      /\ end' = [end EXCEPT ![Least(FreeSlots)] = launching]
      /\ launching' = IF launching[2] = WRITE THEN <<launching[1], READ>> ELSE NoEnd
      /\ UNCHANGED <<pipes, op>>
  BY DEF Spawn
<1>2. PICK n \in FreeSlots :
        /\ \A t \in FreeSlots : n <= t
        /\ pid' = [pid EXCEPT ![n] = next_pid]
        /\ state' = [state EXCEPT ![n] = "READY"]
  BY <1>1 DEF CreateProcess
<1>3. n \in Slots /\ pid[n] = 0 /\ state[n] = "KILLED" /\ op[n].at = "user" /\ end[n] = NoEnd
  BY <1>2 DEF FreeSlots, PipesInv, EndsInv, EndsFit
<1>4. Least(FreeSlots) = n
  <2>1. FreeSlots \in SUBSET Nat
    BY DEF FreeSlots, Slots
  <2>2. Least(FreeSlots) \in FreeSlots /\ Least(FreeSlots) <= n
    BY <2>1, <1>2, LeastResult
  <2>3. n \in Nat /\ Least(FreeSlots) \in Nat /\ n <= Least(FreeSlots)
    BY <2>1, <2>2, <1>2
  <2> QED
    BY <2>2, <2>3
<1>5. /\ state'[n] = "READY" /\ end'[n] = launching
      /\ \A t \in Slots \ {n} : state'[t] = state[t] /\ pid'[t] = pid[t] /\ end'[t] = end[t]
  BY <1>1, <1>2, <1>3, <1>4, Shapes DEF PipesInv, IInv, TypeOK
<1>6. launching = <<launching[1], launching[2]>> /\ launching[2] \in {READ, WRITE}
  BY Shapes DEF EndShapes
<1>7. ASSUME NEW i \in PipeIds, NEW side \in {READ, WRITE}, Manned(i, side)'
      PROVE  Manned(i, side)
  <2>1. CASE \E t \in Slots : end'[t] = <<i, side>> /\ state'[t] # "KILLED"
    BY <2>1, <1>5 DEF Manned
  <2>2. CASE launching' # NoEnd /\ launching'[1] = i /\ side = READ
    BY <2>2, <1>1 DEF Manned
  <2>3. CASE launching' = <<i, side>>
    <3>1. launching' # NoEnd
      BY <2>3, Shapes DEF NoEnd
    <3>2. launching' = <<launching[1], READ>>
      BY <3>1, <1>1
    <3> QED
      BY <2>3, <3>2, <1>1 DEF Manned
  <2> QED
    BY <2>1, <2>2, <2>3, <1>7 DEF Manned
<1>8. ASSUME NEW s \in Slots, Uneasy(s)'  PROVE Covered(s)'
  <2>1. s # n /\ state[s] = "BLOCKED"
    BY <1>5, <1>8 DEF Uneasy
  <2>2. PipeOf(s)' = PipeOf(s) /\ Uneasy(s)
    BY <2>1, <1>1, <1>5, <1>8 DEF Uneasy, Busy, CouldGoOn, PipeOf
  <2>3. Covered(s) /\ PipeOf(s) \in PipeIds
    BY <2>1, <2>2, SleeperFacts DEF SleepersNotified, Uneasy, Busy, Covered
  <2>4. ASSUME NEW t \in Slots, WillNotify(t, s)  PROVE WillNotify(t, s)'
    <3>1. t # n
      BY <2>4, <1>3 DEF WillNotify
    <3> QED
      BY <3>1, <2>1, <2>4, <1>1, <1>5 DEF WillNotify, PipeOf
  <2>5. Deserted(PipeOf(s)) => Deserted(PipeOf(s))'
    <3>1. PICK i \in PipeIds : i = PipeOf(s)
      BY <2>3
    <3>2. Deserted(i) => Deserted(i)'
      BY <1>1, <1>7 DEF Deserted, READ, WRITE
    <3> QED
      BY <3>1, <3>2, <2>2
  <2> QED
    BY <2>3, <2>4, <2>5 DEF Covered
<1> QED
  BY <1>8 DEF SleepersNotified, Uneasy, Busy, Covered

LEMMA PipeExitNotified ==
  ASSUME PipesInv, SleepersNotified, PipeExit
  PROVE  SleepersNotified'
<1>1. /\ ExitCurrent(NoProc) /\ op[me].at = "user" /\ op' = [op EXCEPT ![me].at = "exited"]
      /\ UNCHANGED <<pipes, end, launching>>
  BY DEF PipeExit
<1>2. me \in Slots
  BY <1>1, CallerFacts DEF ExitCurrent
<1>3. pid' = pid /\ state' = [state EXCEPT ![me] = "KILLED"]
  BY <1>1 DEF ExitCurrent, WokenState, me
<1>4. /\ state'[me] = "KILLED" /\ \A s \in Slots \ {me} : state'[s] = state[s]
      /\ \A s \in Slots \ {me} : op'[s] = op[s]
  BY <1>1, <1>2, <1>3, Shapes DEF PipesInv, IInv, TypeOK
<1>5. ASSUME NEW s \in Slots, Uneasy(s)'  PROVE s # me /\ Uneasy(s)
  BY <1>1, <1>4, <1>5 DEF Uneasy, Busy, CouldGoOn, PipeOf
<1>6. ASSUME NEW s \in Slots, NEW t \in Slots, Uneasy(s)', WillNotify(t, s)
      PROVE  WillNotify(t, s)'
  BY <1>1, <1>3, <1>4, <1>5, <1>6 DEF WillNotify, PipeOf
<1> QED
  BY <1>1, <1>4, <1>5, <1>6, NotifiedStays

\* A process that dies between a change of a pipe and its pipe_notify leaves
\* its end open for ever: the pipe is deserted.
LEMMA FreesDeadNotified ==
  ASSUME PipesInv, IInv', SleepersNotified, FreesDead
  PROVE  SleepersNotified'
<1>1. /\ op' = [s \in Slots |-> IF pid'[s] = 0 THEN InUser ELSE op[s]]
      /\ end' = [s \in Slots |-> IF pid'[s] = 0 THEN NoEnd ELSE end[s]]
      /\ pipes' = pipes /\ launching' = launching
      /\ \A s \in Slots : op[s].at # "closing"
  BY DEF FreesDead, PcbsFreed, Masked
<1>2. \A s \in Slots : /\ pid'[s] \in {0, pid[s]}
                       /\ pid[s] # 0 /\ pid'[s] = 0 => state'[s] = "KILLED"
                       /\ state'[s] = "BLOCKED" => state[s] = "BLOCKED" /\ pid'[s] # 0
                       /\ state[s] = "KILLED" => state'[s] = "KILLED"
  BY DEF FreesDead, IInv, SlotsAccounted, StacksAccounted
<1>3. ASSUME NEW s \in Slots, Uneasy(s)'
      PROVE  /\ Uneasy(s) /\ end'[s] = end[s] /\ pid'[s] = pid[s]
             /\ PipeOf(s) \in PipeIds /\ PipeOf(s)' = PipeOf(s)
  <2>1. state[s] = "BLOCKED" /\ pid'[s] # 0 /\ pid'[s] = pid[s]
    BY <1>2, <1>3 DEF Uneasy
  <2> QED
    BY <2>1, <1>1, <1>3, SleeperFacts DEF Uneasy, Busy, CouldGoOn, PipeOf
<1>4. ASSUME NEW t \in Slots, NEW i \in PipeIds, i # NoPipe, i = PipeOf(t), pid'[t] = 0
      PROVE  Deserted(i)'
  <2>1. PICK side : side = end[t][2]
    OBVIOUS
  <2>2. end[t] = <<i, side>> /\ side \in {READ, WRITE} /\ Open(i, side) = 1
    BY <2>1, <1>1, <1>4, Shapes DEF PipeOf, EndShapes, PipesInv, EndsInv, EndsCounted
  <2>3. \A u \in Slots : end'[u] # <<i, side>>
    BY <2>1, <2>2, <1>1, <1>4 DEF PipesInv, EndsInv, EndsUnique, NoEnd
  <2>4. launching[1] = i => launching[2] = READ /\ side = WRITE
    BY <2>1, <2>2, <1>4 DEF PipesInv, EndsInv, EndsUnique
  <2>5. ~Manned(i, side)'
    BY <2>3, <2>4, <1>1 DEF Manned, READ, WRITE
  <2> QED
    BY <2>2, <2>5, <1>1 DEF Deserted, Open, READ, WRITE
<1>5. ASSUME NEW s \in Slots, NEW t \in Slots, Uneasy(s)', WillNotify(t, s)
      PROVE  WillNotify(t, s)' \/ Deserted(PipeOf(s))'
  <2>1. CASE pid'[t] = 0
    <3>1. PICK i \in PipeIds : i = PipeOf(s) /\ i # NoPipe /\ i = PipeOf(t)
      BY <1>3, <1>5, Shapes DEF WillNotify
    <3>2. Deserted(i)'
      BY <2>1, <3>1, <1>4
    <3> QED
      BY <3>1, <3>2, <1>3, <1>5
  <2>2. CASE pid'[t] # 0
    BY <2>2, <1>1, <1>3, <1>5 DEF WillNotify, PipeOf
  <2> QED
    BY <2>1, <2>2
<1>6. \A t \in Slots : \/ end'[t] = NoEnd
                       \/ end'[t] = end[t] /\ (state'[t] # "KILLED" => state[t] # "KILLED")
  BY <1>1, <1>2
<1> QED
  BY <1>1, <1>3, <1>5, <1>6, NotifiedStays

LEMMA NextSleepersNotified ==
  ASSUME PipesInv, PipesInv', SleepersNotified, [PipeNext]_allvars
  PROVE  SleepersNotified'
<1>1. CASE UNCHANGED allvars \/ InterruptC
  <2>1. UNCHANGED <<pid, state>> /\ UNCHANGED pipevars
    BY <1>1 DEF allvars, vars, InterruptC, CtrlC
  <2> QED
    BY <2>1 DEF pipevars, SleepersNotified, CouldGoOn, WillNotify, Deserted, Manned, PipeOf
<1>2. ASSUME Call  PROVE SleepersNotified'
  BY <1>2, MovesNotify, CallEndsNotified, NotifyStartsNotified, SleepNotified,
     NotifyNextNotified, PipeCloseNotified, PipeCreateNotified, SpawnNotified,
     PipeExitNotified DEF Call
<1> QED
  BY <1>1, <1>2, ScanCFreesDead, TickFreesDead, PipeKillFreesDead, FreesDeadNotified
     DEF PipeNext

\* No wake-up is lost between the moment a process finds a pipe empty or full
\* with interrupts off and the pipe_notify of the process that changes it,
\* which may come several ticks later and wakes one sleeper at a time.
THEOREM NoPipeWakeUpLost == PipeSpec => []SleepersNotified
<1>1. PipeInit => SleepersNotified
  BY DEF PipeInit, Init, SleepersNotified
<1> QED
  BY <1>1, InitPipesInv, NextPipesInv, NextSleepersNotified, PTL DEF PipeSpec

\* Ctrl+C, kill and the timer free only stacks the CPU is not on, even that of
\* a process killed while it sleeps in a pipe or moves bytes through one.
LEMMA PipeFrees ==
  ASSUME PipesInv, PipesInv', [PipeNext]_allvars,
         NEW t \in Slots, pid[t] # 0, pid'[t] = 0
  PROVE  state'[t] = "KILLED" /\ t # current_process /\ t # current_process'
<1>1. IInv /\ IInv' /\ NoProc \in Waiters \cup {NoProc}
  BY DEF PipesInv
<1>2. ASSUME NEW s \in Slots, KillEffect(s, NoProc), current_process' = current_process
      PROVE  state'[t] = "KILLED" /\ t # current_process /\ t # current_process'
  BY <1>1, <1>2, KillFrees
<1>3. CASE Tick
  BY <1>1, <1>3, TickFrees, AlwaysANext DEF Tick, TimerTick
<1>4. CASE ScanC
  <2>1. CtrlCScan(NoProc) /\ current_process' = current_process /\ fg_scan \in Slots
    BY <1>1, <1>4, ProcessesAssumption DEF ScanC, CtrlCScan, IInv, TypeOK, Slots
  <2> QED
    BY <2>1, <1>2 DEF CtrlCScan
<1>5. ASSUME NEW s \in Slots, PipeKill(s)
      PROVE  state'[t] = "KILLED" /\ t # current_process /\ t # current_process'
  BY <1>2, <1>5 DEF PipeKill, KillProcess
<1>6. ~(UNCHANGED allvars) /\ ~InterruptC
  BY DEF allvars, vars, InterruptC, CtrlC
<1>7. ~Call
  <2>1. ASSUME CreateProcess(DEFAULT_PRIORITY, TRUE)  PROVE FALSE
    <3>1. PICK s \in FreeSlots : pid' = [pid EXCEPT ![s] = next_pid]
      BY <2>1 DEF CreateProcess
    <3>2. pid[s] = 0 /\ pid \in [Slots -> Nat]
      BY <1>1 DEF FreeSlots, IInv, TypeOK
    <3> QED
      BY <3>1, <3>2
  <2>2. ASSUME pid' = pid  PROVE FALSE
    BY <2>2
  <2> QED
    BY <2>1, <2>2
       DEF Call, PipeCreate, Spawn, ReadTakes, ReadBlocks, ReadEnds, WriteBlocks, WriteStores,
           Sleep, BlockCurrent, YieldProcess, WriteBreaks, NotifyStarts, NotifyNext,
           UnblockProcess, PipeClose, PipeExit, ExitCurrent, vars
<1> QED
  BY <1>3, <1>4, <1>5, <1>6, <1>7 DEF PipeNext

\* With the programs of run_piped the scheduler never frees a stack in use.
THEOREM PipesKeepStacks == PipeSpec => StackInUseKept
<1>1. ASSUME PipesInv, PipesInv', [PipeNext]_allvars
      PROVE  [\A s \in Slots : pid[s] # 0 /\ pid'[s] = 0 =>
                /\ state'[s] = "KILLED"
                /\ s # current_process /\ s # current_process']_vars
  BY <1>1, PipeFrees
<1> QED
  BY <1>1, InitPipesInv, NextPipesInv, PTL DEF PipeSpec, StackInUseKept
=============================================================================
