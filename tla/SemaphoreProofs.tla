---------------------------- MODULE SemaphoreProofs ----------------------------
(***************************************************************************)
(* Proofs about Semaphores for any number of processes and semaphores: the *)
(* scheduler keeps its promises under them, the queues hold exactly the    *)
(* sleepers, and waitpid returns only when the child is dead.              *)
(***************************************************************************)
EXTENDS Semaphores, SchedulerProofs, PidQueueProofs

-----------------------------------------------------------------------------
(* What the semaphores ask of the scheduler.                               *)

\* unblock_process is called for a PCB that is BLOCKED, or does nothing.
LEMMA SlotWokenResult ==
  ASSUME NEW p
  PROVE  /\ SlotWoken(p) \in Waiters \cup {NoProc}
         /\ SlotWoken(p) \in Waiters => pid[SlotWoken(p)] = p
         /\ SlotWoken(p) = NoProc => \A s \in Waiters : pid[s] # p
<1>1. NoProc \notin Waiters
  BY DEF NoProc, Waiters, Slots
<1>2. CASE \E s \in Waiters : pid[s] = p
  BY <1>1, <1>2 DEF SlotWoken
<1>3. CASE ~ \E s \in Waiters : pid[s] = p
  BY <1>1, <1>3 DEF SlotWoken
<1> QED
  BY <1>2, <1>3

LEMMA DeathWakesResult ==
  ASSUME NEW p
  PROVE  DeathWakes(p) \in Waiters \cup {NoProc}
BY SlotWokenResult DEF DeathWakes

\* Whatever the semaphores do to processes is an action of the scheduler.
LEMMA SemStepIsNext ==
  ASSUME [SemNext]_allvars
  PROVE  [Next]_vars
<1>1. ASSUME NEW p, UnblockProcess(SlotWoken(p)), SlotWoken(p) # NoProc  PROVE NoTick
  <2>1. SlotWoken(p) \in Slots
    BY <1>1, SlotWokenResult DEF Waiters
  <2> QED
    BY <1>1, <2>1 DEF NoTick
<1>2. ASSUME NEW prio \in UserPriorities, NEW fg \in BOOLEAN, Spawn(prio, fg)  PROVE NoTick
  <2>1. prio \in Priorities \cup {-1}
    BY SemaphoresAssumption
  <2> QED
    BY <1>2, <2>1 DEF Spawn, NoTick
<1>3. ASSUME NEW next, Die(next)  PROVE NoTick
  BY <1>3, DeathWakesResult DEF Die, NoTick
<1>4. ASSUME NEW s \in Slots, Kill(s)  PROVE NoTick
  BY <1>4, DeathWakesResult DEF Kill, NoTick
<1>5. CASE ScanC
  <2>1. PICK w \in Waiters \cup {NoProc} : CtrlCScan(w)
    BY <1>5, DeathWakesResult DEF ScanC
  <2> QED
    BY <2>1 DEF NoTick, Next
<1>6. ASSUME NEW T, NEW i, NEW c, WaitOn(T, i, c)  PROVE NoTick
  BY <1>6 DEF WaitOn, NoTick
<1>7. CASE WakeNext \/ \E i \in UserSems : SemPost(i)
  BY <1>1, <1>7 DEF WakeNext, SemPost, Next
<1>8. CASE InterruptC
  BY <1>8 DEF InterruptC, NoTick, Next
<1>9. CASE Tick
  BY <1>9 DEF Tick, Next
<1>10. CASE \/ \E n \in Names, v \in InitialValues : SemOpen(UserName(n), v)
            \/ \E i \in UserSems : SemClose(i) \/ SemWaitTakes(i) \/ SemWaitPassesBy(i)
            \/ LeaveWait
            \/ \E p \in OwnChildren :
                 WaitChildFails(p) \/ WaitChildReturns(p) \/ WaitChildPassesBy(p)
  BY <1>10 DEF SemOpen, SemClose, SemWaitTakes, SemWaitPassesBy, LeaveWait, WaitChildFails,
               WaitChildReturns, WaitChildPassesBy, ReturnAtOnce
<1>11. CASE Exit \/ Trampoline
  BY <1>3, <1>11 DEF Exit, Trampoline, Next
<1>12. CASE \/ \E i \in UserSems : SemWaitBlocks(i)
            \/ \E p \in OwnChildren : WaitChildBlocks(p)
  BY <1>6, <1>12 DEF SemWaitBlocks, WaitChildBlocks, Next
<1> QED
  BY <1>2, <1>4, <1>5, <1>7, <1>8, <1>9, <1>10, <1>11, <1>12
     DEF SemNext, TimelyNext, Next, allvars

LEMMA CarefulStepIsCareful ==
  ASSUME [TimelyNext /\ IdleSpared /\ WokenCurrentSurvives]_allvars
  PROVE  [CarefulNext]_vars
<1>1. [SemNext]_allvars
  BY DEF SemNext
<1> QED
  BY <1>1, SemStepIsNext DEF CarefulNext, allvars

\* The semaphores, waitpid, exit and kill use the scheduler as it may be used ...
THEOREM SemaphoresUseScheduler == SemSpec => Spec
<1>1. SemInit => Init
  BY DEF SemInit
<1>2. [SemNext /\ IdleSpared]_allvars => [Next]_vars
  BY SemStepIsNext
<1> QED
  BY <1>1, <1>2, PTL DEF SemSpec, Spec

\* ... so its tables stay exact and it frees no stack in use, as long as nobody
\* kills a process that is both current and queued.
THEOREM SemaphoresKeepTables ==
  CarefulSemSpec => [](QueuesExact /\ SlotsAccounted) /\ StackInUseKept /\ MostUrgentFirst
<1>1. SemInit => Init
  BY DEF SemInit
<1>2. [TimelyNext /\ IdleSpared /\ WokenCurrentSurvives]_allvars => [CarefulNext]_vars
  BY CarefulStepIsCareful
<1>3. CarefulSemSpec => CarefulSpec
  BY <1>1, <1>2, PTL DEF CarefulSemSpec, CarefulSpec
<1> QED
  BY <1>3, QueuesAlwaysExact, SlotsAlwaysAccounted, StacksInUseAlwaysKept,
     MostUrgentAlwaysFirst, PTL

-----------------------------------------------------------------------------
(* A table in which names are unique, a destroyed entry keeps no waiter and *)
(* no entry has both tokens and waiters.                                    *)

SemNames == {NoName} \cup {WaitName(p) : p \in 1..MaxPid} \cup {UserName(n) : n \in Names}
SemEntries == [name : SemNames, value : Nat, users : Nat, blocked : Seq(1..MaxPid)]

EntryExact(e) ==
  /\ Len(e.blocked) <= MAX_BLOCKED
  /\ IsInjective(e.blocked)
  /\ e.name = NoName => e.blocked = <<>>
  /\ e.name # NoName => e.users > 0
  /\ e.value > 0 => e.blocked = <<>>

NamesUnique(T) ==
  \A i, j \in SemIds : T[i].name # NoName /\ T[i].name = T[j].name => i = j

TableExact(T) ==
  /\ T \in [SemIds -> SemEntries]
  /\ \A i \in SemIds : EntryExact(T[i])
  /\ NamesUnique(T)

\* build_wait_sem_name names one semaphore per pid, and no user's.
LEMMA NamesDistinct ==
  /\ \A p, q : WaitName(p) = WaitName(q) => p = q
  /\ \A p, n : WaitName(p) # UserName(n) /\ WaitName(p) # NoName /\ UserName(n) # NoName
  /\ \A p, q : NoName # WaitName(p) /\ UserName(q) # WaitName(p)
<1>1. "wait" # "none" /\ "user" # "none" /\ "wait" # "user"
  OBVIOUS
<1> QED
  BY <1>1 DEF WaitName, UserName, NoName

LEMMA LeastResult ==
  ASSUME NEW S \in SUBSET SemIds, S # {}
  PROVE  Least(S) \in S
<1>1. S \in SUBSET Nat
  BY DEF SemIds
<1> QED
  BY <1>1, LeastExists DEF Least

LEMMA EmptyQueue ==
  /\ <<>> \in Seq(1..MaxPid) /\ Len(<<>>) = 0
  /\ IsInjective(<<>>) /\ Range(<<>>) = {}
BY DEF IsInjective, Range

LEMMA InactiveExact == Inactive \in SemEntries /\ EntryExact(Inactive)
BY EmptyQueue, SemaphoresAssumption DEF Inactive, SemEntries, SemNames, EntryExact, NoName

\* One entry of an exact table replaced by an exact one whose name is free.
LEMMA EntryReplaced ==
  ASSUME NEW T, TableExact(T), NEW i \in SemIds, NEW U \in [SemIds -> SemEntries],
         \A j \in SemIds : j # i => U[j] = T[j],
         EntryExact(U[i]),
         U[i].name = NoName \/ U[i].name = T[i].name \/ Named(T, U[i].name) = {}
  PROVE  TableExact(U)
<1>1. \A j \in SemIds : EntryExact(U[j])
  BY DEF TableExact
<1>2. ASSUME NEW j \in SemIds, NEW k \in SemIds, U[j].name # NoName, U[j].name = U[k].name
      PROVE  j = k
  <2>1. CASE j # i /\ k # i
    BY <1>2, <2>1 DEF TableExact, NamesUnique
  <2>2. ASSUME NEW x \in SemIds, x # i, T[x].name = U[i].name, U[i].name # NoName
        PROVE  FALSE
    <3>1. x \in Named(T, U[i].name)
      BY <2>2 DEF Named
    <3>2. U[i].name = T[i].name
      BY <2>2, <3>1
    <3> QED
      BY <2>2, <3>2 DEF TableExact, NamesUnique
  <2> QED
    BY <1>2, <2>1, <2>2
<1> QED
  BY <1>1, <1>2 DEF TableExact, NamesUnique

\* sem_open gives the name to one entry and no queue changes.
LEMMA OpenedResult ==
  ASSUME NEW T, TableExact(T), NEW name \in SemNames \ {NoName}, NEW value \in Nat
  PROVE  /\ TableExact(Opened(T, name, value))
         /\ OpenId(T, name) = NoSem => Named(T, name) = {}
         /\ OpenId(T, name) # NoSem =>
              /\ OpenId(T, name) \in SemIds
              /\ Opened(T, name, value)[OpenId(T, name)].name = name
         /\ \A j \in SemIds :
              /\ Opened(T, name, value)[j].blocked = T[j].blocked
              /\ \/ /\ Opened(T, name, value)[j].name = T[j].name
                    /\ Opened(T, name, value)[j].value = T[j].value
                 \/ /\ T[j].name = NoName
                    /\ Opened(T, name, value)[j].name = name
                    /\ Opened(T, name, value)[j].value = value
<1> DEFINE i == OpenId(T, name)
           U == Opened(T, name, value)
<1>0. NoSem \notin SemIds
  BY DEF NoSem, SemIds
<1>1. Named(T, name) \in SUBSET SemIds /\ Active(T) \in SUBSET SemIds
  BY DEF Named, Active
<1>2. CASE Named(T, name) # {}
  <2>1. i \in Named(T, name)
    BY <1>1, <1>2, LeastResult DEF OpenId
  <2>2. i \in SemIds /\ i # NoSem /\ i \in Active(T) /\ T[i].name = name
    BY <2>1, <1>0 DEF Named, Active
  <2> DEFINE e == [T[i] EXCEPT !.users = @ + 1]
  <2>3. U = [T EXCEPT ![i] = e]
    BY <2>2 DEF Opened
  <2>4. T[i] \in SemEntries /\ EntryExact(T[i])
    BY <2>2 DEF TableExact
  <2>5. /\ e \in SemEntries /\ e.name = T[i].name /\ e.value = T[i].value
        /\ e.blocked = T[i].blocked /\ e.users = T[i].users + 1
    BY <2>4 DEF SemEntries
  <2>6. EntryExact(e)
    BY <2>4, <2>5 DEF EntryExact, SemEntries
  <2> HIDE DEF e, i, U
  <2>7. U \in [SemIds -> SemEntries] /\ U[i] = e /\ \A j \in SemIds : j # i => U[j] = T[j]
    BY <2>2, <2>3, <2>5 DEF TableExact
  <2>8. U[i].name = T[i].name \/ Named(T, U[i].name) = {}
    BY <2>5, <2>7
  <2>9. TableExact(U)
    BY <2>2, <2>6, <2>7, <2>8, EntryReplaced
  <2> QED
    BY <1>2, <2>2, <2>5, <2>7, <2>9 DEF i, U
<1>3. CASE Named(T, name) = {} /\ SemIds \ Active(T) # {}
  <2>1. i \in SemIds \ Active(T)
    <3>1. SemIds \ Active(T) \in SUBSET SemIds
      OBVIOUS
    <3> QED
      BY <1>3, <3>1, LeastResult DEF OpenId
  <2>2. i \in SemIds /\ i # NoSem /\ i \notin Active(T) /\ T[i].name = NoName
    BY <2>1, <1>0 DEF Active
  <2> DEFINE e == [name |-> name, value |-> value, users |-> 1, blocked |-> <<>>]
  <2>3. U = [T EXCEPT ![i] = e]
    BY <2>2 DEF Opened
  <2>4. T[i] \in SemEntries /\ T[i].blocked = <<>>
    BY <2>2 DEF TableExact, EntryExact
  <2>5. /\ e \in SemEntries /\ e.name = name /\ e.value = value /\ e.blocked = <<>>
        /\ e.users = 1
    BY EmptyQueue DEF SemEntries
  <2>6. EntryExact(e)
    BY <2>5, EmptyQueue, SemaphoresAssumption DEF EntryExact
  <2> HIDE DEF e, i, U
  <2>7. U \in [SemIds -> SemEntries] /\ U[i] = e /\ \A j \in SemIds : j # i => U[j] = T[j]
    BY <2>2, <2>3, <2>5 DEF TableExact
  <2>8. U[i].name = T[i].name \/ Named(T, U[i].name) = {}
    BY <1>3, <2>5, <2>7
  <2>9. TableExact(U)
    BY <2>2, <2>6, <2>7, <2>8, EntryReplaced
  <2> QED
    BY <1>3, <2>2, <2>4, <2>5, <2>7, <2>9 DEF i, U
<1>4. CASE Named(T, name) = {} /\ SemIds \ Active(T) = {}
  <2>1. i = NoSem /\ U = T
    BY <1>4 DEF OpenId, Opened
  <2> HIDE DEF i, U
  <2> QED
    BY <1>4, <2>1 DEF i, U
<1> QED
  BY <1>2, <1>3, <1>4

\* sem_close on an entry leaves it as it was but for its users, or destroys it
\* and hands its queue to the loop that wakes the waiters.
LEMMA ClosedResult ==
  ASSUME NEW T, TableExact(T), NEW i \in SemIds
  PROVE  /\ TableExact(Closed(T, i))
         /\ \A j \in SemIds : j # i => Closed(T, i)[j] = T[j]
         /\ \/ /\ Closed(T, i)[i].name = T[i].name
               /\ Closed(T, i)[i].value = T[i].value
               /\ Closed(T, i)[i].blocked = T[i].blocked
               /\ LastUserWaiters(T, i) = <<>>
            \/ /\ Closed(T, i)[i] = Inactive
               /\ LastUserWaiters(T, i) = T[i].blocked
<1> DEFINE U == Closed(T, i)
<1>0. T[i] \in SemEntries /\ EntryExact(T[i])
  BY DEF TableExact
<1>1. CASE i \notin Active(T)
  BY <1>1 DEF Closed, LastUserWaiters
<1>2. CASE i \in Active(T) /\ T[i].users = 1
  <2>1. U = [T EXCEPT ![i] = Inactive]
    BY <1>2 DEF Closed
  <2> HIDE DEF U
  <2>2. /\ U \in [SemIds -> SemEntries] /\ U[i] = Inactive
        /\ \A j \in SemIds : j # i => U[j] = T[j]
    BY <2>1, InactiveExact DEF TableExact
  <2>3. TableExact(U)
    BY <2>2, InactiveExact, EntryReplaced DEF Inactive
  <2> QED
    BY <1>2, <2>2, <2>3 DEF U, LastUserWaiters
<1>3. CASE i \in Active(T) /\ T[i].users # 1
  <2> DEFINE e == [T[i] EXCEPT !.users = @ - 1]
  <2>1. U = [T EXCEPT ![i] = e]
    BY <1>3 DEF Closed
  <2>2. T[i].users > 1
    BY <1>0, <1>3 DEF Active, EntryExact, SemEntries
  <2>3. /\ e \in SemEntries /\ e.name = T[i].name /\ e.value = T[i].value
        /\ e.blocked = T[i].blocked /\ e.users > 0
    BY <1>0, <2>2 DEF SemEntries
  <2>4. EntryExact(e)
    BY <1>0, <2>3 DEF EntryExact
  <2> HIDE DEF e, U
  <2>5. U \in [SemIds -> SemEntries] /\ U[i] = e /\ \A j \in SemIds : j # i => U[j] = T[j]
    BY <2>1, <2>3 DEF TableExact
  <2>6. TableExact(U)
    BY <2>3, <2>4, <2>5, EntryReplaced
  <2> QED
    BY <1>3, <2>3, <2>5, <2>6 DEF U, LastUserWaiters
<1> QED
  BY <1>1, <1>2, <1>3

\* sem_post takes the first waiter out of the queue or leaves a token.
LEMMA PostedResult ==
  ASSUME NEW T, TableExact(T), NEW i \in SemIds
  PROVE  /\ TableExact(Posted(T, i))
         /\ \A j \in SemIds : j # i => Posted(T, i)[j] = T[j]
         /\ Posted(T, i)[i].name = T[i].name
         /\ T[i].blocked = <<>> => Posted(T, i)[i].blocked = <<>>
         /\ T[i].blocked # <<>> =>
              /\ Posted(T, i)[i].value = T[i].value
              /\ Head(T[i].blocked) \in Range(T[i].blocked)
              /\ Range(Posted(T, i)[i].blocked)
                   = Range(T[i].blocked) \ {Head(T[i].blocked)}
<1> DEFINE U == Posted(T, i)
           q == T[i].blocked
<1>0. T[i] \in SemEntries /\ EntryExact(T[i]) /\ q \in Seq(1..MaxPid) /\ IsInjective(q)
  BY DEF TableExact, EntryExact, SemEntries
<1>1. CASE q # <<>>
  <2> DEFINE e == [T[i] EXCEPT !.blocked = Tail(@)]
  <2>1. U = [T EXCEPT ![i] = e]
    BY <1>1 DEF Posted
  <2>2. /\ Tail(q) \in Seq(1..MaxPid) /\ IsInjective(Tail(q)) /\ Len(Tail(q)) = Len(q) - 1
        /\ Head(q) \in Range(q) /\ Range(Tail(q)) = Range(q) \ {Head(q)}
    <3> HIDE DEF q
    <3> QED
      BY <1>0, <1>1, TailOfQueue
  <2>3. /\ e \in SemEntries /\ e.name = T[i].name /\ e.value = T[i].value
        /\ e.blocked = Tail(q) /\ e.users = T[i].users
    BY <1>0, <2>2 DEF SemEntries
  <2>4. Len(q) \in Nat /\ Len(q) <= MAX_BLOCKED /\ T[i].name # NoName
        /\ T[i].value = 0 /\ T[i].users > 0
    BY <1>0, <1>1 DEF EntryExact, SemEntries
  <2>5. EntryExact(e)
    <3> HIDE DEF e
    <3>1. Len(e.blocked) <= MAX_BLOCKED
      BY <2>2, <2>3, <2>4, SemaphoresAssumption
    <3> QED
      BY <2>2, <2>3, <2>4, <3>1 DEF EntryExact
  <2> HIDE DEF e, U
  <2>6. U \in [SemIds -> SemEntries] /\ U[i] = e /\ \A j \in SemIds : j # i => U[j] = T[j]
    BY <2>1, <2>3 DEF TableExact
  <2>7. TableExact(U)
    BY <2>3, <2>5, <2>6, EntryReplaced
  <2> QED
    BY <1>1, <2>2, <2>3, <2>6, <2>7 DEF U
<1>2. CASE q = <<>>
  <2> DEFINE e == [T[i] EXCEPT !.value = @ + 1]
  <2>1. U = [T EXCEPT ![i] = e]
    BY <1>2 DEF Posted
  <2>2. /\ e \in SemEntries /\ e.name = T[i].name /\ e.blocked = q
        /\ e.users = T[i].users
    BY <1>0 DEF SemEntries
  <2>3. EntryExact(e)
    BY <1>0, <1>2, <2>2 DEF EntryExact
  <2> HIDE DEF e, U
  <2>4. U \in [SemIds -> SemEntries] /\ U[i] = e /\ \A j \in SemIds : j # i => U[j] = T[j]
    BY <2>1, <2>2 DEF TableExact
  <2>5. TableExact(U)
    BY <2>2, <2>3, <2>4, EntryReplaced
  <2> QED
    BY <1>2, <2>2, <2>4, <2>5 DEF U
<1> QED
  BY <1>1, <1>2

\* sem_wait takes a token ...
LEMMA TokenTakenResult ==
  ASSUME NEW T, TableExact(T), NEW i \in SemIds, T[i].value > 0
  PROVE  /\ TableExact([T EXCEPT ![i].value = @ - 1])
         /\ \A j \in SemIds : j # i => [T EXCEPT ![i].value = @ - 1][j] = T[j]
         /\ [T EXCEPT ![i].value = @ - 1][i].name = T[i].name
         /\ [T EXCEPT ![i].value = @ - 1][i].blocked = <<>>
         /\ T[i].blocked = <<>>
<1> DEFINE U == [T EXCEPT ![i].value = @ - 1]
           e == [T[i] EXCEPT !.value = @ - 1]
<1>1. T[i] \in SemEntries /\ EntryExact(T[i]) /\ T[i].blocked = <<>>
  BY DEF TableExact, EntryExact, SemEntries
<1>2. U = [T EXCEPT ![i] = e]
  OBVIOUS
<1>3. /\ e \in SemEntries /\ e.name = T[i].name /\ e.blocked = <<>>
      /\ e.users = T[i].users
  BY <1>1 DEF SemEntries
<1>4. EntryExact(e)
  BY <1>1, <1>3 DEF EntryExact
<1> HIDE DEF e, U
<1>5. U \in [SemIds -> SemEntries] /\ U[i] = e /\ \A j \in SemIds : j # i => U[j] = T[j]
  BY <1>2, <1>3 DEF TableExact
<1>6. TableExact(U)
  BY <1>3, <1>4, <1>5, EntryReplaced
<1> QED
  BY <1>1, <1>3, <1>5, <1>6 DEF U

\* ... or queues its process, when there is room.
LEMMA QueuedResult ==
  ASSUME NEW T, TableExact(T), NEW i \in SemIds, NEW p \in 1..MaxPid,
         T[i].value = 0, T[i].name # NoName, p \notin Range(T[i].blocked),
         Len(T[i].blocked) < MAX_BLOCKED
  PROVE  /\ TableExact(Queued(T, i, p))
         /\ \A j \in SemIds : j # i => Queued(T, i, p)[j] = T[j]
         /\ Queued(T, i, p)[i].name = T[i].name
         /\ Queued(T, i, p)[i].value = 0
         /\ Range(Queued(T, i, p)[i].blocked) = Range(T[i].blocked) \cup {p}
<1> DEFINE U == Queued(T, i, p)
           q == T[i].blocked
           e == [T[i] EXCEPT !.blocked = Append(@, p)]
<1>1. T[i] \in SemEntries /\ EntryExact(T[i]) /\ q \in Seq(1..MaxPid) /\ IsInjective(q)
  BY DEF TableExact, EntryExact, SemEntries
<1>2. /\ Append(q, p) \in Seq(1..MaxPid) /\ IsInjective(Append(q, p))
      /\ Len(Append(q, p)) = Len(q) + 1 /\ Range(Append(q, p)) = Range(q) \cup {p}
  <2> DEFINE D == 1..MaxPid
  <2>1. q \in Seq(D) /\ p \in D /\ p \notin Range(q) /\ IsInjective(q)
    BY <1>1
  <2>2. D = 1..MaxPid
    OBVIOUS
  <2> HIDE DEF q, D
  <2>3. /\ Append(q, p) \in Seq(D) /\ IsInjective(Append(q, p))
        /\ Len(Append(q, p)) = Len(q) + 1 /\ Range(Append(q, p)) = Range(q) \cup {p}
    BY <2>1, AppendToQueue
  <2> QED
    BY <2>2, <2>3
<1>3. U = [T EXCEPT ![i] = e]
  BY DEF Queued
<1>4. /\ e \in SemEntries /\ e.name = T[i].name /\ e.value = 0
      /\ e.blocked = Append(q, p) /\ e.users = T[i].users
  BY <1>1, <1>2 DEF SemEntries
<1>5. Len(q) \in Nat /\ Len(q) < MAX_BLOCKED /\ T[i].users > 0
  BY <1>1 DEF EntryExact, SemEntries
<1>6. EntryExact(e)
  <2> HIDE DEF e
  <2>1. Len(e.blocked) <= MAX_BLOCKED
    BY <1>2, <1>4, <1>5, SemaphoresAssumption
  <2> QED
    BY <1>2, <1>4, <1>5, <2>1 DEF EntryExact
<1> HIDE DEF e, U
<1>7. U \in [SemIds -> SemEntries] /\ U[i] = e /\ \A j \in SemIds : j # i => U[j] = T[j]
  BY <1>3, <1>4 DEF TableExact
<1>8. TableExact(U)
  BY <1>4, <1>6, <1>7, EntryReplaced
<1> QED
  BY <1>2, <1>4, <1>7, <1>8 DEF U

\* sem_remove_pid takes the pid out of every queue and changes nothing else.
LEMMA WithoutPidResult ==
  ASSUME NEW T, TableExact(T), NEW p
  PROVE  /\ TableExact(WithoutPid(T, p))
         /\ \A i \in SemIds :
              /\ WithoutPid(T, p)[i].name = T[i].name
              /\ WithoutPid(T, p)[i].value = T[i].value
              /\ Range(WithoutPid(T, p)[i].blocked) = Range(T[i].blocked) \ {p}
<1> DEFINE U == WithoutPid(T, p)
           e(i) == [T[i] EXCEPT !.blocked = Compacted(@, p)]
<1>1. ASSUME NEW i \in SemIds
      PROVE  /\ e(i) \in SemEntries /\ EntryExact(e(i))
             /\ e(i).name = T[i].name /\ e(i).value = T[i].value
             /\ Range(e(i).blocked) = Range(T[i].blocked) \ {p}
  <2> DEFINE q == T[i].blocked
  <2>1. T[i] \in SemEntries /\ EntryExact(T[i]) /\ q \in Seq(1..MaxPid) /\ IsInjective(q)
    BY DEF TableExact, EntryExact, SemEntries
  <2>2. /\ Compacted(q, p) \in Seq(1..MaxPid) /\ IsInjective(Compacted(q, p))
        /\ Len(Compacted(q, p)) <= Len(q) /\ Range(Compacted(q, p)) = Range(q) \ {p}
        /\ q = <<>> => Compacted(q, p) = <<>>
    <3> HIDE DEF q
    <3> QED
      BY <2>1, CompactedResult
  <2>3. /\ e(i) \in SemEntries /\ e(i).name = T[i].name /\ e(i).value = T[i].value
        /\ e(i).blocked = Compacted(q, p) /\ e(i).users = T[i].users
    BY <2>1, <2>2 DEF SemEntries
  <2>4. Len(Compacted(q, p)) \in Nat /\ Len(q) \in Nat /\ Len(q) <= MAX_BLOCKED
    BY <2>1, <2>2 DEF EntryExact
  <2>5. Len(e(i).blocked) <= MAX_BLOCKED
    BY <2>2, <2>3, <2>4, SemaphoresAssumption
  <2>6. EntryExact(e(i))
    BY <2>1, <2>2, <2>3, <2>5 DEF EntryExact
  <2> QED
    BY <2>2, <2>3, <2>6
<1>2. U = [i \in SemIds |-> e(i)]
  BY DEF WithoutPid
<1> HIDE DEF e, U
<1>3. U \in [SemIds -> SemEntries] /\ \A i \in SemIds : U[i] = e(i)
  BY <1>1, <1>2
<1>4. NamesUnique(U)
  BY <1>1, <1>3 DEF NamesUnique, TableExact
<1> QED
  BY <1>1, <1>3, <1>4 DEF U, TableExact

-----------------------------------------------------------------------------
(* What every step of the scheduler keeps: pids are handed out once, and    *)
(* the dead stay dead.                                                      *)

LEMMA KilledStayKilled ==
  ASSUME IInv, [CarefulNext]_vars, NEW t \in Slots
  PROVE  /\ \/ pid'[t] = pid[t]
            \/ pid'[t] = 0 /\ state'[t] = "KILLED"
            \/ pid[t] = 0 /\ pid'[t] = next_pid /\ next_pid' = next_pid + 1
         /\ state[t] = "KILLED" /\ pid[t] # 0 => state'[t] = "KILLED"
         /\ next_pid' = next_pid \/ (next_pid' = next_pid + 1 /\ next_pid <= MaxPid)
<1> DEFINE Goal == /\ \/ pid'[t] = pid[t]
                      \/ pid'[t] = 0 /\ state'[t] = "KILLED"
                      \/ pid[t] = 0 /\ pid'[t] = next_pid /\ next_pid' = next_pid + 1
                   /\ state[t] = "KILLED" /\ pid[t] # 0 => state'[t] = "KILLED"
                   /\ next_pid' = next_pid \/ (next_pid' = next_pid + 1 /\ next_pid <= MaxPid)
<1>0. TypeOK /\ QueuesExact
  BY DEF IInv
<1>1. CASE UNCHANGED vars
  BY <1>1 DEF vars
<1>2. ASSUME NEW s \in Slots, NEW w \in Waiters \cup {NoProc}, KillEffect(s, w),
             next_pid' = next_pid
      PROVE  Goal
  <2>1. WokenState(w) \in [Slots -> States]
    BY <1>0, <1>2, WokenExact
  <2>2. WokenState(w)[t] = state[t] \/ state[t] = "BLOCKED"
    BY <1>0, <1>2, WokenStateResult
  <2> QED
    BY <1>0, <1>2, <2>1, <2>2 DEF KillEffect, PidsAfterKill, TypeOK
<1>3. ASSUME NEW prio \in Priorities \cup {-1}, NEW fg \in BOOLEAN, CreateProcess(prio, fg)
      PROVE  Goal
  BY <1>0, <1>3 DEF CreateProcess, FreeSlots, TypeOK
<1>4. ASSUME NEW w \in Waiters \cup {NoProc}, ExitCurrent(w)  PROVE Goal
  <2>1. WokenState(w) \in [Slots -> States]
    BY <1>0, <1>4, WokenExact
  <2>2. WokenState(w)[t] = state[t] \/ state[t] = "BLOCKED"
    BY <1>0, <1>4, WokenStateResult
  <2> QED
    BY <1>4, <2>1, <2>2 DEF ExitCurrent
<1>5. ASSUME NEW s \in Slots, NEW w \in Waiters \cup {NoProc}, KillProcess(s, w)  PROVE Goal
  BY <1>2, <1>5 DEF KillProcess
<1>6. ASSUME NEW w \in Waiters \cup {NoProc}, CtrlCScan(w)  PROVE Goal
  <2>1. fg_scan \in Slots
    BY <1>0, <1>6, ProcessesAssumption DEF CtrlCScan, TypeOK, Slots
  <2> QED
    BY <1>2, <1>6, <2>1 DEF CtrlCScan
<1>7. CASE CtrlC \/ BlockCurrent \/ YieldProcess
  BY <1>0, <1>7 DEF CtrlC, BlockCurrent, YieldProcess, TypeOK
<1>8. ASSUME NEW s \in Slots, BlockReady(s) \/ UnblockProcess(s)  PROVE Goal
  BY <1>0, <1>8 DEF BlockReady, UnblockProcess, TypeOK
<1>9. ASSUME NEW s \in Slots, NEW new \in Priorities, SetProcessPriority(s, new)  PROVE Goal
  BY <1>9 DEF SetProcessPriority
<1>10. CASE TickKeep
  BY <1>0, <1>10 DEF TickKeep, ReclaimedPids, IInv, SlotsAccounted, StacksAccounted, TypeOK
<1>11. CASE TickSwitch
  <2>1. PICK p \in Priorities :
          /\ RequeuedQueues[p] # <<>>
          /\ pid' = ReclaimedPids
          /\ state' = [RequeuedState EXCEPT ![RequeuedQueues[p][1]] = "RUNNING"]
          /\ next_pid' = next_pid
    BY <1>11, TickSwitchResult DEF TickSwitch
  <2> DEFINE n == RequeuedQueues[p][1]
  <2>2. n \in Slots /\ RequeuedState[n] = "READY"
    <3>1. 1 \in 1..Len(RequeuedQueues[p])
      BY <2>1, RequeuedExact
    <3> QED
      BY <3>1, QueuedEligible
  <2>3. /\ RequeuedState \in [Slots -> States]
        /\ \/ RequeuedState[t] = state[t] /\ state[t] # "RUNNING"
           \/ RequeuedState[t] = "READY" /\ state[t] = "RUNNING"
    BY RequeuedExact
  <2>4. state'[t] = IF t = n THEN "RUNNING" ELSE RequeuedState[t]
    BY <2>1, <2>2, <2>3
  <2>5. pid'[t] = pid[t] \/ (pid'[t] = 0 /\ t = to_free /\ to_free # NoProc)
    BY <1>0, <2>1 DEF ReclaimedPids, TypeOK
  <2>6. t = to_free /\ to_free # NoProc => state[t] = "KILLED"
    BY DEF IInv, SlotsAccounted, StacksAccounted
  <2> QED
    BY <2>1, <2>2, <2>3, <2>4, <2>5, <2>6
<1> QED
  <2>1. CASE CarefulNext
    <3>1. Next
      BY <2>1 DEF CarefulNext
    <3> QED
      BY <3>1, <1>3, <1>4, <1>5, <1>6, <1>7, <1>8, <1>9, <1>10, <1>11, AlwaysANext
         DEF Next, NoTick, TimerTick
  <2> QED
    BY <1>1, <2>1

\* The pid of a dead process is not given to another.
LEMMA DeadStays ==
  ASSUME IInv, [CarefulNext]_vars, NEW p \in 1..MaxPid, p < next_pid, Dead(p)
  PROVE  Dead(p)'
<1> SUFFICES ASSUME NEW t \in Slots, pid'[t] = p  PROVE state'[t] = "KILLED"
  BY DEF Dead
<1>1. pid'[t] = pid[t] \/ state'[t] = "KILLED"
  BY KilledStayKilled
<1> QED
  BY <1>1, KilledStayKilled DEF Dead

\* The timer and the creation of processes leave the sleepers alone.
LEMMA TickKeepsSleepers ==
  ASSUME IInv, TimerTick, NEW t \in Slots
  PROVE  /\ state'[t] = "BLOCKED" <=> state[t] = "BLOCKED"
         /\ state[t] = "BLOCKED" => pid'[t] = pid[t]
         /\ state'[t] = "KILLED" <=> state[t] = "KILLED"
<1>0. TypeOK
  BY DEF IInv
<1>1. CASE TickKeep
  BY <1>0, <1>1 DEF TickKeep, ReclaimedPids, IInv, SlotsAccounted, StacksAccounted, TypeOK
<1>2. CASE TickSwitch
  <2>1. PICK p \in Priorities :
          /\ RequeuedQueues[p] # <<>>
          /\ pid' = ReclaimedPids
          /\ state' = [RequeuedState EXCEPT ![RequeuedQueues[p][1]] = "RUNNING"]
    BY <1>2, TickSwitchResult
  <2> DEFINE n == RequeuedQueues[p][1]
  <2>2. n \in Slots /\ RequeuedState[n] = "READY"
    <3>1. 1 \in 1..Len(RequeuedQueues[p])
      BY <2>1, RequeuedExact
    <3> QED
      BY <3>1, QueuedEligible
  <2>3. /\ RequeuedState \in [Slots -> States]
        /\ \/ RequeuedState[t] = state[t] /\ state[t] # "RUNNING"
           \/ RequeuedState[t] = "READY" /\ state[t] = "RUNNING"
    BY RequeuedExact
  <2>4. state'[t] = IF t = n THEN "RUNNING" ELSE RequeuedState[t]
    BY <2>1, <2>2, <2>3
  <2>5. pid'[t] = pid[t] \/ (t = to_free /\ to_free # NoProc)
    BY <1>0, <2>1 DEF ReclaimedPids, TypeOK
  <2>6. t = to_free /\ to_free # NoProc => state[t] = "KILLED"
    BY DEF IInv, SlotsAccounted, StacksAccounted
  <2> QED
    BY <2>2, <2>3, <2>4, <2>5, <2>6
<1> QED
  BY <1>1, <1>2, AlwaysANext DEF TimerTick

-----------------------------------------------------------------------------
(* The inductive invariant.                                                *)

PidsBounded ==
  /\ next_pid \in 3..(MaxPid + 1)
  /\ \A s \in Slots : pid[s] \in 0..MaxPid

CallsTyped ==
  /\ call \in [Slots -> [at : At, sem : SemIds \cup {NoSem}, child : 0..MaxPid]]
  /\ children \in [Slots -> SUBSET (1..MaxPid)]
  /\ to_wake \in Seq(1..MaxPid)

\* sem_close finishes its wake-ups before anything else happens.
WakesAlone == to_wake # <<>> => fg_scan = 0

\* A queued pid is that of a sleeper; a sleeper is queued or about to be woken.
SleepersListed ==
  /\ \A i \in SemIds : \A p \in Range(sems[i].blocked) :
       /\ p \notin Range(to_wake)
       /\ \E s \in Slots : /\ state[s] = "BLOCKED" /\ pid[s] = p
                           /\ InLoop(s) /\ call[s].sem = i
  /\ \A s \in Slots : state[s] = "BLOCKED" =>
       /\ InLoop(s) /\ call[s].sem \in SemIds
       /\ pid[s] \in Range(sems[call[s].sem].blocked) \cup Range(to_wake)

\* A free PCB is in no call, a child has one parent, and a wait semaphore
\* belongs to a process that has been created.
ChildrenOwned ==
  /\ \A s \in Slots : pid[s] = 0 => call[s] = InUserCode /\ children[s] = {}
  /\ \A s \in Slots : InWaitpid(s) => call[s].child \in children[s]
  /\ \A s \in Slots : \A p \in children[s] : p < next_pid
  /\ \A s, t \in Slots : s # t => children[s] \cap children[t] = {}

SemsOfCreated ==
  \A i \in SemIds : \A p \in 1..MaxPid : sems[i].name = WaitName(p) => p < next_pid

\* Only exit and kill leave a token in a wait semaphore.
TokensFromDead ==
  \A i \in SemIds : \A p \in 1..MaxPid :
    sems[i].name = WaitName(p) /\ sems[i].value > 0 => Dead(p)

\* A process asleep in waitpid waits on the only semaphore of its child, or on
\* none that exists; one that has been woken has a dead child, or a child
\* without a semaphore.
WaiterNamed(s, c) ==
  /\ state[s] = "BLOCKED" =>
       /\ Named(sems, WaitName(c)) \subseteq {call[s].sem}
       /\ pid[s] \in Range(to_wake) => Named(sems, WaitName(c)) = {}
  /\ state[s] \notin {"BLOCKED", "KILLED"} => Dead(c) \/ Named(sems, WaitName(c)) = {}
WaitersNamed ==
  \A s \in Slots : \A c \in 1..MaxPid :
    InWaitpid(s) /\ call[s].child = c => WaiterNamed(s, c)

SemIInv ==
  /\ IInv /\ TableExact(sems) /\ PidsBounded /\ CallsTyped /\ WakesAlone
  /\ SleepersListed /\ ChildrenOwned /\ SemsOfCreated /\ TokensFromDead /\ WaitersNamed

LEMMA SemInitIInv == SemInit => SemIInv
<1> SUFFICES ASSUME SemInit PROVE SemIInv
  OBVIOUS
<1>1. IInv
  BY InitIInv DEF SemInit
<1> DEFINE first(i) == [Inactive EXCEPT !.name = WaitName(i), !.users = 1]
<1>2. 1 \in SemIds /\ 2 \in SemIds /\ 1 \in 1..MaxPid /\ 2 \in 1..MaxPid
  BY SemaphoresAssumption, MaxPidAssumption DEF SemIds
<1>3. ASSUME NEW i \in {1, 2}
      PROVE  /\ first(i) \in SemEntries /\ EntryExact(first(i))
             /\ first(i).name = WaitName(i) /\ first(i).value = 0 /\ first(i).blocked = <<>>
  <2>1. /\ first(i).name = WaitName(i) /\ first(i).value = 0 /\ first(i).users = 1
        /\ first(i).blocked = <<>>
    BY DEF Inactive
  <2>2. WaitName(i) \in SemNames
    BY <1>2 DEF SemNames
  <2>3. first(i) \in SemEntries
    BY <2>2, EmptyQueue DEF SemEntries, Inactive
  <2>4. EntryExact(first(i))
    <3> HIDE DEF first
    <3> QED
      BY <2>1, EmptyQueue, SemaphoresAssumption DEF EntryExact
  <2> QED
    BY <2>1, <2>3, <2>4
<1> HIDE DEF first
<1>4. \A i \in SemIds : sems[i] = IF i \in {1, 2} THEN first(i) ELSE Inactive
  BY DEF SemInit, first
<1>5. TableExact(sems)
  <2>1. sems \in [SemIds -> SemEntries]
    <3>1. sems = [i \in SemIds |-> IF i \in {1, 2} THEN first(i) ELSE Inactive]
      BY DEF SemInit, first
    <3> QED
      BY <1>3, <3>1, InactiveExact
  <2>2. \A i \in SemIds : EntryExact(sems[i])
    BY <1>3, <1>4, InactiveExact
  <2>3. \A i \in SemIds : sems[i].name # NoName => i \in {1, 2} /\ sems[i].name = WaitName(i)
    BY <1>3, <1>4 DEF Inactive
  <2>4. NamesUnique(sems)
    BY <2>3, NamesDistinct DEF NamesUnique
  <2> QED
    BY <2>1, <2>2, <2>4 DEF TableExact
<1>6. \A i \in SemIds : sems[i].blocked = <<>> /\ sems[i].value = 0
  BY <1>3, <1>4 DEF Inactive
<1>7. \A s \in Slots : call[s] = InUserCode /\ children[s] = {} /\ state[s] # "BLOCKED"
  BY DEF SemInit, Init
<1>8. to_wake = <<>> /\ fg_scan = 0 /\ next_pid = 3
  BY DEF SemInit, Init
<1>9. PidsBounded
  <2>1. \A s \in Slots : pid[s] = IF s \in {1, 2} THEN s ELSE 0
    BY DEF SemInit, Init, Idle, Shell
  <2>2. MaxPid \in Nat /\ MaxPid >= 2
    BY MaxPidAssumption
  <2>3. 3 \in 3..(MaxPid + 1) /\ 0 \in 0..MaxPid /\ 1 \in 0..MaxPid /\ 2 \in 0..MaxPid
    BY <2>2
  <2> QED
    BY <1>8, <2>1, <2>3 DEF PidsBounded
<1>10. CallsTyped
  <2>1. InUserCode \in [at : At, sem : SemIds \cup {NoSem}, child : 0..MaxPid]
    BY MaxPidAssumption DEF InUserCode, At
  <2> QED
    BY <1>8, <2>1, EmptyQueue DEF CallsTyped, SemInit
<1>11. WakesAlone
  BY <1>8 DEF WakesAlone
<1>12. SleepersListed
  BY <1>6, <1>7, EmptyQueue DEF SleepersListed
<1>13. \A s \in Slots : ~InWaitpid(s)
  BY <1>7 DEF InWaitpid, InUserCode
<1>14. ChildrenOwned
  BY <1>7, <1>13 DEF ChildrenOwned
<1>15. SemsOfCreated
  <2>1. \A i \in SemIds : \A p \in 1..MaxPid :
          sems[i].name = WaitName(p) => i \in {1, 2} /\ p = i
    BY <1>3, <1>4, NamesDistinct DEF Inactive
  <2> QED
    BY <1>8, <2>1 DEF SemsOfCreated
<1>16. TokensFromDead
  BY <1>6 DEF TokensFromDead
<1>17. WaitersNamed
  BY <1>13 DEF WaitersNamed
<1> QED
  BY <1>1, <1>5, <1>9, <1>10, <1>11, <1>12, <1>14, <1>15, <1>16, <1>17 DEF SemIInv

-----------------------------------------------------------------------------
(* What one step does to each part of the invariant.                       *)

LEMMA PidsStep ==
  ASSUME IInv, PidsBounded, [CarefulNext]_vars
  PROVE  PidsBounded'
<1>1. next_pid' = next_pid \/ (next_pid' = next_pid + 1 /\ next_pid <= MaxPid)
  <2>1. 1 \in Slots
    BY ProcessesAssumption DEF Slots
  <2> QED
    BY <2>1, KilledStayKilled
<1>2. ASSUME NEW t \in Slots  PROVE pid'[t] \in 0..MaxPid
  <2>1. \/ pid'[t] = pid[t]
        \/ pid'[t] = 0
        \/ pid'[t] = next_pid /\ next_pid' = next_pid + 1
    BY KilledStayKilled
  <2> QED
    BY <1>1, <2>1, MaxPidAssumption DEF PidsBounded
<1> QED
  BY <1>1, <1>2, MaxPidAssumption DEF PidsBounded

\* The slots W stop sleeping and their pids leave the queues.
LEMMA SleepersStep ==
  ASSUME IInv, SleepersListed, to_wake = <<>>, NEW W \in SUBSET Slots,
         \A s \in Slots : state'[s] = "BLOCKED" =>
           /\ state[s] = "BLOCKED" /\ s \notin W
           /\ pid'[s] = pid[s] /\ call'[s] = call[s],
         \A s \in Slots : state[s] = "BLOCKED" /\ s \notin W => state'[s] = "BLOCKED",
         \A i \in SemIds : \A p \in Range(sems'[i].blocked) :
           /\ p \in Range(sems[i].blocked) /\ p \notin Range(to_wake')
           /\ \A w \in W : pid[w] # p,
         \A i \in SemIds : \A p \in Range(sems[i].blocked) :
           \/ \E w \in W : pid[w] = p
           \/ p \in Range(sems'[i].blocked) \/ p \in Range(to_wake')
  PROVE  SleepersListed'
<1>1. ASSUME NEW i \in SemIds, NEW p \in Range(sems'[i].blocked)
      PROVE  /\ p \notin Range(to_wake')
             /\ \E s \in Slots : /\ state'[s] = "BLOCKED" /\ pid'[s] = p
                                 /\ InLoop(s)' /\ call'[s].sem = i
  <2>1. p \in Range(sems[i].blocked) /\ \A w \in W : pid[w] # p
    OBVIOUS
  <2>2. PICK s \in Slots : state[s] = "BLOCKED" /\ pid[s] = p /\ InLoop(s) /\ call[s].sem = i
    BY <2>1 DEF SleepersListed
  <2>3. state'[s] = "BLOCKED" /\ pid'[s] = pid[s] /\ call'[s] = call[s]
    BY <2>1, <2>2
  <2>4. InLoop(s)'
    BY <2>2, <2>3 DEF InLoop
  <2> QED
    BY <2>2, <2>3, <2>4
<1>2. ASSUME NEW s \in Slots, state'[s] = "BLOCKED"
      PROVE  /\ InLoop(s)' /\ call'[s].sem \in SemIds
             /\ pid'[s] \in Range(sems'[call'[s].sem].blocked) \cup Range(to_wake')
  <2>1. /\ state[s] = "BLOCKED" /\ s \notin W /\ pid'[s] = pid[s] /\ call'[s] = call[s]
    BY <1>2
  <2>2. InLoop(s) /\ call[s].sem \in SemIds /\ pid[s] \in Range(sems[call[s].sem].blocked)
    BY <2>1, EmptyQueue DEF SleepersListed
  <2>3. \A w \in W : pid[w] # pid[s]
    <3>1. pid[s] # 0
      BY <2>1 DEF IInv, SlotsAccounted, StacksAccounted
    <3> QED
      BY <2>1, <3>1 DEF IInv, SlotsAccounted, PidsUnique
  <2>4. InLoop(s)'
    BY <2>1, <2>2 DEF InLoop
  <2> QED
    BY <2>1, <2>2, <2>3, <2>4
<1> QED
  BY <1>1, <1>2 DEF SleepersListed

\* A process sleeps on one semaphore.
LEMMA QueuesDisjoint ==
  ASSUME IInv, SleepersListed, NEW i \in SemIds, NEW j \in SemIds,
         NEW p \in Range(sems[i].blocked), p \in Range(sems[j].blocked)
  PROVE  i = j
<1>1. PICK s \in Slots : state[s] = "BLOCKED" /\ pid[s] = p /\ call[s].sem = i
  BY DEF SleepersListed
<1>2. PICK t \in Slots : state[t] = "BLOCKED" /\ pid[t] = p /\ call[t].sem = j
  BY DEF SleepersListed
<1>3. pid[s] # 0
  BY <1>1 DEF IInv, SlotsAccounted, StacksAccounted
<1>4. s = t
  BY <1>1, <1>2, <1>3 DEF IInv, SlotsAccounted, PidsUnique
<1> QED
  BY <1>1, <1>2, <1>4

\* Semaphores get no name but nm.
LEMMA NamesShrink ==
  ASSUME NEW nm, NEW name, name # nm, name # NoName,
         \A i \in SemIds : sems'[i].name \in {sems[i].name, NoName, nm}
  PROVE  Named(sems', name) \subseteq Named(sems, name)
BY DEF Named

LEMMA ChildrenStep ==
  ASSUME IInv, PidsBounded, CallsTyped, ChildrenOwned, [CarefulNext]_vars,
         \A s \in Slots : pid'[s] = 0 => call'[s] = InUserCode /\ children'[s] = {},
         \A s \in Slots : InWaitpid(s)' => call'[s].child \in children'[s],
         \A s \in Slots : children'[s] \subseteq children[s]
  PROVE  ChildrenOwned'
<1>1. next_pid' >= next_pid /\ next_pid \in Int /\ next_pid' \in Int
  <2>1. 1 \in Slots
    BY ProcessesAssumption DEF Slots
  <2> QED
    BY <2>1, KilledStayKilled DEF PidsBounded
<1>2. ASSUME NEW s \in Slots, NEW p \in children'[s]  PROVE p < next_pid'
  <2>1. p \in children[s] /\ p \in Int
    BY DEF CallsTyped
  <2>2. p < next_pid
    BY <2>1 DEF ChildrenOwned
  <2> QED
    BY <1>1, <2>1, <2>2
<1>3. \A s, t \in Slots : s # t => children'[s] \cap children'[t] = {}
  BY DEF ChildrenOwned
<1> QED
  BY <1>2, <1>3 DEF ChildrenOwned

LEMMA SemsOfCreatedStep ==
  ASSUME IInv, PidsBounded, SemsOfCreated, [CarefulNext]_vars,
         \A i \in SemIds : \A p \in 1..MaxPid :
           sems'[i].name = WaitName(p) => sems[i].name = WaitName(p) \/ p < next_pid'
  PROVE  SemsOfCreated'
<1>1. next_pid' >= next_pid /\ next_pid \in Int /\ next_pid' \in Int
  <2>1. 1 \in Slots
    BY ProcessesAssumption DEF Slots
  <2> QED
    BY <2>1, KilledStayKilled DEF PidsBounded
<1>2. ASSUME NEW p \in 1..MaxPid, p < next_pid  PROVE p < next_pid'
  BY <1>1, <1>2
<1> QED
  BY <1>2 DEF SemsOfCreated

LEMMA TokensStep ==
  ASSUME IInv, SemsOfCreated, TokensFromDead, [CarefulNext]_vars,
         \A i \in SemIds : \A p \in 1..MaxPid :
           sems'[i].name = WaitName(p) /\ sems'[i].value > 0 =>
             \/ sems[i].name = WaitName(p) /\ sems[i].value > 0
             \/ Dead(p)'
  PROVE  TokensFromDead'
<1>1. ASSUME NEW i \in SemIds, NEW p \in 1..MaxPid,
             sems'[i].name = WaitName(p), sems'[i].value > 0
      PROVE  Dead(p)'
  <2>1. CASE sems[i].name = WaitName(p) /\ sems[i].value > 0
    <3>1. p < next_pid /\ Dead(p)
      BY <2>1 DEF SemsOfCreated, TokensFromDead
    <3> QED
      BY <3>1, DeadStays
  <2> QED
    BY <1>1, <2>1
<1> QED
  BY <1>1 DEF TokensFromDead

\* A process in waitpid goes on sleeping, or wakes because its child is dead or
\* has no semaphore.
LEMMA WaiterKept ==
  ASSUME IInv, ChildrenOwned, WaitersNamed, [CarefulNext]_vars,
         NEW s \in Slots, NEW c \in 1..MaxPid, InWaitpid(s), call[s].child = c,
         Named(sems', WaitName(c)) \subseteq Named(sems, WaitName(c)),
         state'[s] = "BLOCKED" =>
           /\ state[s] = "BLOCKED" /\ call'[s].sem = call[s].sem
           /\ pid'[s] \in Range(to_wake') => Named(sems', WaitName(c)) = {},
         state'[s] \notin {"BLOCKED", "KILLED"} =>
           \/ state[s] \notin {"BLOCKED", "KILLED"}
           \/ Dead(c)' \/ Named(sems', WaitName(c)) = {}
  PROVE  WaiterNamed(s, c)'
<1>1. WaiterNamed(s, c)
  BY DEF WaitersNamed
<1>2. c < next_pid
  BY DEF ChildrenOwned
<1>3. Dead(c) => Dead(c)'
  BY <1>2, DeadStays
<1>4. /\ state'[s] = "BLOCKED" =>
           /\ Named(sems', WaitName(c)) \subseteq {call'[s].sem}
           /\ pid'[s] \in Range(to_wake') => Named(sems', WaitName(c)) = {}
      /\ state'[s] \notin {"BLOCKED", "KILLED"} =>
           Dead(c)' \/ Named(sems', WaitName(c)) = {}
  BY <1>1, <1>3 DEF WaiterNamed
<1> QED
  BY <1>4 DEF WaiterNamed

-----------------------------------------------------------------------------
(* The actions keep the invariant.                                         *)

\* Timer and keyboard interrupts: stacks go, and what was kept on them.
LEMMA InterruptSIInv ==
  ASSUME SemIInv, IInv', [CarefulNext]_vars, to_wake = <<>>,
         \A s \in Slots :
           /\ state'[s] = "BLOCKED" <=> state[s] = "BLOCKED"
           /\ state'[s] = "KILLED" <=> state[s] = "KILLED"
           /\ state[s] = "BLOCKED" => pid'[s] = pid[s],
         sems' = sems, to_wake' = to_wake,
         call' = CallsKept(call), children' = ChildrenKept(children)
  PROVE  SemIInv'
<1> USE DEF SemIInv
<1>1. \A s \in Slots :
        /\ call'[s] = IF pid'[s] = 0 THEN InUserCode ELSE call[s]
        /\ children'[s] = IF pid'[s] = 0 THEN {} ELSE children[s]
  BY DEF CallsKept, ChildrenKept
<1>2. \A s \in Slots : InWaitpid(s)' => InWaitpid(s) /\ call'[s] = call[s]
                                         /\ children'[s] = children[s]
  BY <1>1 DEF InWaitpid, InUserCode
<1>3. TableExact(sems') /\ SemsOfCreated'
  BY SemsOfCreatedStep
<1>4. PidsBounded'
  BY PidsStep
<1>5. CallsTyped'
  <2>1. InUserCode \in [at : At, sem : SemIds \cup {NoSem}, child : 0..MaxPid]
    BY MaxPidAssumption DEF InUserCode, At
  <2>2. call' \in [Slots -> [at : At, sem : SemIds \cup {NoSem}, child : 0..MaxPid]]
    BY <2>1 DEF CallsKept, CallsTyped
  <2>3. children' \in [Slots -> SUBSET (1..MaxPid)]
    BY DEF ChildrenKept, CallsTyped
  <2> QED
    BY <2>2, <2>3 DEF CallsTyped
<1>6. WakesAlone'
  BY DEF WakesAlone
<1>7. SleepersListed'
  <2>1. \A s \in Slots : state[s] = "BLOCKED" => pid[s] # 0
    BY DEF IInv, SlotsAccounted, StacksAccounted
  <2>2. Range(to_wake') = {}
    BY EmptyQueue
  <2> HIDE DEF SemIInv
  <2>3. IInv /\ SleepersListed
    BY DEF SemIInv
  <2>4. \A s \in Slots : state'[s] = "BLOCKED" =>
          /\ state[s] = "BLOCKED" /\ s \notin {}
          /\ pid'[s] = pid[s] /\ call'[s] = call[s]
    BY <1>1, <2>1
  <2>5. \A i \in SemIds : \A p \in Range(sems'[i].blocked) :
          /\ p \in Range(sems[i].blocked) /\ p \notin Range(to_wake')
          /\ \A w \in {} : pid[w] # p
    BY <2>2
  <2> QED
    BY <2>3, <2>4, <2>5, SleepersStep
<1>8. ChildrenOwned'
  <2>1. \A s \in Slots : children'[s] \subseteq children[s]
    BY <1>1
  <2>2. \A s \in Slots : InWaitpid(s)' => call'[s].child \in children'[s]
    BY <1>2 DEF ChildrenOwned
  <2> QED
    BY <1>1, <2>1, <2>2, ChildrenStep
<1>9. TokensFromDead'
  BY TokensStep
<1>10. WaitersNamed'
  <2>1. ASSUME NEW s \in Slots, NEW c \in 1..MaxPid, InWaitpid(s)', call'[s].child = c
        PROVE  WaiterNamed(s, c)'
    <3>1. InWaitpid(s) /\ call'[s] = call[s] /\ call[s].child = c
      BY <1>2, <2>1
    <3>2. Range(to_wake') = {}
      BY EmptyQueue
    <3> QED
      BY <3>1, <3>2, WaiterKept
  <2> QED
    BY <2>1 DEF WaitersNamed
<1> QED
  BY <1>3, <1>4, <1>5, <1>6, <1>7, <1>8, <1>9, <1>10

\* A step of the semaphores that leaves the scheduler alone: names and tokens
\* may go, and the queue of a semaphore goes with it, to be woken ...
TableStep ==
  /\ \A i \in SemIds : \A p \in Range(sems'[i].blocked) :
       p \in Range(sems[i].blocked) /\ p \notin Range(to_wake')
  /\ \A i \in SemIds : \A p \in Range(sems[i].blocked) :
       \/ p \in Range(sems'[i].blocked)
       \/ p \in Range(to_wake') /\ sems'[i].name = NoName
  /\ \A i \in SemIds : \A p \in 1..MaxPid : sems'[i].name = WaitName(p) =>
       /\ sems[i].name = WaitName(p)
       /\ sems'[i].value > 0 => sems[i].value > 0

\* ... and processes that are awake may forget a child or leave waitpid.
CallStep ==
  /\ \A s \in Slots : state[s] = "BLOCKED" => call'[s] = call[s]
  /\ \A s \in Slots : pid[s] = 0 => call'[s] = InUserCode
  /\ \A s \in Slots : InWaitpid(s)' =>
       InWaitpid(s) /\ call'[s].child = call[s].child /\ call[s].child \in children'[s]
  /\ \A s \in Slots : children'[s] \subseteq children[s]

LEMMA TableStepSIInv ==
  ASSUME SemIInv, UNCHANGED vars, to_wake = <<>>, TableExact(sems'), TableStep, CallStep,
         CallsTyped', WakesAlone'
  PROVE  SemIInv'
<1> USE DEF SemIInv
<1>1. [CarefulNext]_vars
  OBVIOUS
<1>2. IInv'
  BY <1>1, NextIInv
<1>3. UNCHANGED <<pid, state, next_pid>>
  BY DEF vars
<1>4. PidsBounded' /\ SemsOfCreated'
  BY <1>1, PidsStep, SemsOfCreatedStep DEF TableStep
<1>5. SleepersListed'
  <2> SUFFICES ASSUME NEW W, W = {}  PROVE SleepersListed'
    OBVIOUS
  <2>1. \A s \in Slots : state'[s] = "BLOCKED" =>
          /\ state[s] = "BLOCKED" /\ s \notin W
          /\ pid'[s] = pid[s] /\ call'[s] = call[s]
    BY <1>3 DEF CallStep
  <2>2. \A i \in SemIds : \A p \in Range(sems'[i].blocked) :
          /\ p \in Range(sems[i].blocked) /\ p \notin Range(to_wake')
          /\ \A w \in W : pid[w] # p
    BY DEF TableStep
  <2>3. \A i \in SemIds : \A p \in Range(sems[i].blocked) :
          \/ \E w \in W : pid[w] = p
          \/ p \in Range(sems'[i].blocked) \/ p \in Range(to_wake')
    BY DEF TableStep
  <2>4. \A s \in Slots : state[s] = "BLOCKED" /\ s \notin W => state'[s] = "BLOCKED"
    BY <1>3
  <2>5. IInv /\ SleepersListed /\ W \in SUBSET Slots
    OBVIOUS
  <2> HIDE DEF SemIInv
  <2> QED
    BY <2>1, <2>2, <2>3, <2>4, <2>5, SleepersStep
<1>6. ChildrenOwned'
  <2>1. \A s \in Slots : pid'[s] = 0 => call'[s] = InUserCode /\ children'[s] = {}
    BY <1>3 DEF CallStep, ChildrenOwned
  <2>2. \A s \in Slots : InWaitpid(s)' => call'[s].child \in children'[s]
    BY DEF CallStep
  <2> QED
    BY <1>1, <2>1, <2>2, ChildrenStep DEF CallStep
<1>7. TokensFromDead'
  BY <1>1, TokensStep DEF TableStep
<1>8. WaitersNamed'
  <2>1. ASSUME NEW s \in Slots, NEW c \in 1..MaxPid, InWaitpid(s)', call'[s].child = c
        PROVE  WaiterNamed(s, c)'
    <3>1. InWaitpid(s) /\ call[s].child = c
      BY <2>1 DEF CallStep
    <3>2. Named(sems', WaitName(c)) \subseteq Named(sems, WaitName(c))
      BY DEF TableStep, Named
    <3>3. ASSUME state'[s] = "BLOCKED"
          PROVE  /\ state[s] = "BLOCKED" /\ call'[s].sem = call[s].sem
                 /\ pid'[s] \in Range(to_wake') => Named(sems', WaitName(c)) = {}
      <4> DEFINE k == call[s].sem
      <4>1. state[s] = "BLOCKED" /\ call'[s] = call[s] /\ pid'[s] = pid[s]
        BY <1>3, <3>3 DEF CallStep
      <4>2. k \in SemIds /\ pid[s] \in Range(sems[k].blocked)
        BY <4>1, EmptyQueue DEF SleepersListed
      <4>3. Named(sems, WaitName(c)) \subseteq {k}
        BY <3>1, <4>1 DEF WaitersNamed, WaiterNamed
      <4>4. pid[s] \in Range(to_wake') => sems'[k].name = NoName
        BY <4>2 DEF TableStep
      <4>5. sems'[k].name = NoName => Named(sems', WaitName(c)) = {}
        BY <3>2, <4>3, NamesDistinct DEF Named
      <4> QED
        BY <4>1, <4>4, <4>5
    <3> HIDE DEF SemIInv
    <3>4. IInv /\ ChildrenOwned /\ WaitersNamed
      BY DEF SemIInv
    <3> QED
      BY <1>1, <1>3, <3>1, <3>2, <3>3, <3>4, WaiterKept
  <2> QED
    BY <2>1 DEF WaitersNamed
<1> QED
  BY <1>2, <1>4, <1>5, <1>6, <1>7, <1>8

\* sem_close moves the queue of the semaphore it destroys to its own list.
LEMMA ClosedStep ==
  ASSUME SemIInv, NEW i \in SemIds \cup {NoSem}, sems' = Closed(sems, i),
         to_wake' = LastUserWaiters(sems, i)
  PROVE  TableExact(sems') /\ TableStep /\ to_wake' \in Seq(1..MaxPid)
<1>0. TableExact(sems) /\ IInv /\ SleepersListed
  BY DEF SemIInv
<1>1. CASE i = NoSem
  <2>1. sems' = sems /\ to_wake' = <<>>
    BY <1>1 DEF Closed, LastUserWaiters, Active, NoSem, SemIds
  <2> QED
    BY <1>0, <2>1, EmptyQueue DEF TableStep
<1>2. CASE i \in SemIds
  <2>1. TableExact(sems') /\ \A j \in SemIds : j # i => sems'[j] = sems[j]
    BY <1>0, <1>2, ClosedResult
  <2>2. CASE /\ sems'[i].name = sems[i].name /\ sems'[i].value = sems[i].value
             /\ sems'[i].blocked = sems[i].blocked /\ to_wake' = <<>>
    BY <2>1, <2>2, EmptyQueue DEF TableStep
  <2>3. CASE sems'[i] = Inactive /\ to_wake' = sems[i].blocked
    <3>1. sems'[i].name = NoName /\ sems'[i].blocked = <<>>
      BY <2>3 DEF Inactive
    <3>2. sems[i].blocked \in Seq(1..MaxPid)
      BY <1>0, <1>2 DEF TableExact, SemEntries
    <3>3. \A j \in SemIds : \A p \in Range(sems'[j].blocked) :
            p \in Range(sems[j].blocked) /\ p \notin Range(to_wake')
      BY <1>0, <1>2, <2>1, <2>3, <3>1, EmptyQueue, QueuesDisjoint
    <3>4. \A j \in SemIds : \A p \in Range(sems[j].blocked) :
            \/ p \in Range(sems'[j].blocked)
            \/ p \in Range(to_wake') /\ sems'[j].name = NoName
      BY <2>1, <2>3, <3>1
    <3>5. \A j \in SemIds : \A p \in 1..MaxPid : sems'[j].name = WaitName(p) =>
            /\ sems[j].name = WaitName(p)
            /\ sems'[j].value > 0 => sems[j].value > 0
      BY <2>1, <3>1, NamesDistinct
    <3> QED
      BY <2>1, <2>3, <3>2, <3>3, <3>4, <3>5 DEF TableStep
  <2> QED
    BY <1>0, <1>2, <2>2, <2>3, ClosedResult
<1> QED
  BY <1>1, <1>2

\* A call that is not a wait leaves the processes where they are.
LEMMA CallUnchanged ==
  ASSUME SemIInv, UNCHANGED <<call, children>>
  PROVE  CallStep
BY DEF CallStep, SemIInv, ChildrenOwned, InWaitpid

LEMMA SemOpenSIInv ==
  ASSUME SemIInv, NEW n \in Names, NEW v \in InitialValues, SemOpen(UserName(n), v)
  PROVE  SemIInv'
<1>1. /\ sems' = Opened(sems, UserName(n), v) /\ to_wake = <<>>
      /\ UNCHANGED vars /\ UNCHANGED <<call, children, to_wake>>
  BY DEF SemOpen, SemSyscall
<1>2. TableExact(sems) /\ CallsTyped /\ WakesAlone
  BY DEF SemIInv
<1>3. UserName(n) \in SemNames \ {NoName} /\ v \in Nat
  BY NamesDistinct, SemaphoresAssumption DEF SemNames
<1>4. /\ TableExact(sems')
      /\ \A j \in SemIds :
           /\ sems'[j].blocked = sems[j].blocked
           /\ \/ sems'[j].name = sems[j].name /\ sems'[j].value = sems[j].value
              \/ sems'[j].name = UserName(n)
  BY <1>1, <1>2, <1>3, OpenedResult
<1>5. TableStep
  BY <1>1, <1>4, NamesDistinct, EmptyQueue DEF TableStep
<1>6. CallsTyped' /\ WakesAlone'
  BY <1>1, <1>2 DEF CallsTyped, WakesAlone
<1> QED
  BY <1>1, <1>4, <1>5, <1>6, CallUnchanged, TableStepSIInv

LEMMA SemCloseSIInv ==
  ASSUME SemIInv, NEW i \in SemIds, SemClose(i)
  PROVE  SemIInv'
<1>1. /\ sems' = Closed(sems, i) /\ to_wake' = LastUserWaiters(sems, i)
      /\ to_wake = <<>> /\ fg_scan = 0 /\ UNCHANGED vars /\ UNCHANGED <<call, children>>
  BY DEF SemClose, SemSyscall, Syscall
<1>2. CallsTyped' /\ WakesAlone'
  BY <1>1, ClosedStep DEF SemIInv, CallsTyped, WakesAlone, vars
<1> QED
  BY <1>1, <1>2, ClosedStep, CallUnchanged, TableStepSIInv

LEMMA SemWaitTakesSIInv ==
  ASSUME SemIInv, NEW i \in SemIds, SemWaitTakes(i)
  PROVE  SemIInv'
<1>1. /\ sems' = [sems EXCEPT ![i].value = @ - 1] /\ sems[i].value > 0
      /\ to_wake = <<>> /\ UNCHANGED vars /\ UNCHANGED <<call, children, to_wake>>
  BY DEF SemWaitTakes, SemSyscall
<1>2. TableExact(sems) /\ CallsTyped /\ WakesAlone
  BY DEF SemIInv
<1>3. /\ TableExact(sems') /\ \A j \in SemIds : j # i => sems'[j] = sems[j]
      /\ sems'[i].name = sems[i].name
      /\ sems'[i].blocked = <<>> /\ sems[i].blocked = <<>>
  BY <1>1, <1>2, TokenTakenResult
<1>4. TableStep
  BY <1>1, <1>3, EmptyQueue DEF TableStep
<1>5. CallsTyped' /\ WakesAlone'
  BY <1>1, <1>2 DEF CallsTyped, WakesAlone, vars
<1> QED
  BY <1>1, <1>3, <1>4, <1>5, CallUnchanged, TableStepSIInv

\* wait_child without a semaphore: the call returns at once.
LEMMA ForgetCallStep ==
  ASSUME SemIInv, NEW p, SemSyscall, UNCHANGED call, Forget(p)
  PROVE  CallStep /\ (UNCHANGED to_wake => CallsTyped')
<1> DEFINE me == current_process
<1>1. /\ call[me] = InUserCode /\ children' = [children EXCEPT ![me] = @ \ {p}]
      /\ call' = call
  BY DEF SemSyscall, Forget
<1>2. CallsTyped /\ ChildrenOwned
  BY DEF SemIInv
<1>3. \A s \in Slots : children'[s] \subseteq children[s]
                       /\ (s # me => children'[s] = children[s])
  BY <1>1, <1>2 DEF CallsTyped
<1>4. ~InWaitpid(me)
  BY <1>1 DEF InWaitpid, InUserCode
<1>5. \A s \in Slots : InWaitpid(s)' => InWaitpid(s) /\ s # me
  BY <1>1, <1>4 DEF InWaitpid
<1>6. CallStep
  BY <1>1, <1>2, <1>3, <1>5 DEF CallStep, ChildrenOwned
<1>7. children' \in [Slots -> SUBSET (1..MaxPid)]
  BY <1>1, <1>2 DEF CallsTyped
<1> QED
  BY <1>1, <1>2, <1>6, <1>7 DEF CallsTyped

LEMMA WaitChildFailsSIInv ==
  ASSUME SemIInv, NEW p \in OwnChildren, WaitChildFails(p)
  PROVE  SemIInv'
<1>1. SemSyscall /\ to_wake = <<>> /\ Forget(p) /\ UNCHANGED <<vars, sems, call, to_wake>>
  BY DEF WaitChildFails, SemSyscall
<1>2. CallStep /\ CallsTyped'
  BY <1>1, ForgetCallStep
<1>3. TableExact(sems') /\ TableStep
  BY <1>1, EmptyQueue DEF SemIInv, TableStep
<1>4. WakesAlone'
  BY <1>1 DEF WakesAlone
<1> QED
  BY <1>1, <1>2, <1>3, <1>4, TableStepSIInv

\* A token of the child: the semaphore existed, and closing it wakes nobody.
LEMMA WaitChildReturnsSIInv ==
  ASSUME SemIInv, NEW p \in OwnChildren, WaitChildReturns(p)
  PROVE  SemIInv'
<1> DEFINE name == WaitName(p)
           i == OpenId(sems, name)
           T == Opened(sems, name, 0)
           U == [T EXCEPT ![i].value = @ - 1]
           V == Closed(U, i)
<1>0. TableExact(sems) /\ CallsTyped /\ WakesAlone
  BY DEF SemIInv
<1>1. /\ SemSyscall /\ to_wake = <<>> /\ i # NoSem /\ T[i].value > 0
      /\ sems' = Closed(V, i)
      /\ to_wake' = LastUserWaiters(U, i) \o LastUserWaiters(V, i)
      /\ Forget(p) /\ UNCHANGED vars /\ UNCHANGED call
  BY DEF WaitChildReturns, ReturnAtOnce, ClosedTwice, SemSyscall
<1>2. name \in SemNames \ {NoName} /\ 0 \in Nat
  <2>1. p \in 1..MaxPid
    BY <1>0 DEF OwnChildren, CallsTyped, SemIInv, IInv, TypeOK
  <2> QED
    BY <2>1, NamesDistinct DEF SemNames
<1>3. /\ i \in SemIds /\ TableExact(T)
      /\ \A j \in SemIds :
           /\ T[j].blocked = sems[j].blocked
           /\ \/ T[j].name = sems[j].name /\ T[j].value = sems[j].value
              \/ T[j].name = name /\ T[j].value = 0
      /\ T[i].name = name
  <2> HIDE DEF name
  <2> QED
    BY <1>0, <1>1, <1>2, OpenedResult
<1>4. \A j \in SemIds : T[j].name = sems[j].name /\ T[j].value = sems[j].value
  <2>1. name # NoName
    BY <1>2
  <2>2. ASSUME NEW j \in SemIds, T[j].name = name  PROVE j = i
    BY <1>3, <2>1, <2>2 DEF TableExact, NamesUnique
  <2>3. T[i].value # 0
    BY <1>1
  <2> QED
    BY <1>3, <2>2, <2>3
<1> HIDE DEF i, T, name
<1>5. /\ TableExact(U) /\ \A j \in SemIds : j # i => U[j] = T[j]
      /\ U[i].name = T[i].name /\ U[i].blocked = <<>> /\ T[i].blocked = <<>>
  BY <1>1, <1>3, TokenTakenResult
<1> HIDE DEF U
<1>6. /\ TableExact(V) /\ \A j \in SemIds : j # i => V[j] = U[j]
      /\ V[i].name \in {U[i].name, NoName} /\ V[i].blocked = <<>>
      /\ LastUserWaiters(U, i) = <<>>
  BY <1>3, <1>5, ClosedResult DEF Inactive
<1> HIDE DEF V
<1>7. /\ TableExact(sems') /\ \A j \in SemIds : j # i => sems'[j] = V[j]
      /\ sems'[i].name \in {V[i].name, NoName} /\ sems'[i].blocked = <<>>
      /\ LastUserWaiters(V, i) = <<>>
  BY <1>1, <1>3, <1>6, ClosedResult DEF Inactive
<1>8. to_wake' = <<>>
  BY <1>1, <1>6, <1>7
<1>9. TableStep
  <2>1. \A j \in SemIds : /\ sems'[j].blocked = sems[j].blocked
                          /\ sems'[j].name \in {sems[j].name, NoName}
                          /\ j # i => sems'[j].value = sems[j].value
    BY <1>3, <1>4, <1>5, <1>6, <1>7
  <2>2. sems[i].value > 0
    BY <1>1, <1>3, <1>4
  <2> QED
    BY <1>8, <2>1, <2>2, EmptyQueue, NamesDistinct DEF TableStep
<1>10. CallStep /\ CallsTyped' /\ WakesAlone'
  BY <1>0, <1>1, <1>8, ForgetCallStep DEF WakesAlone
<1> QED
  BY <1>1, <1>7, <1>9, <1>10, TableStepSIInv

\* sem_wait returns, to user code or to the two sem_close of wait_child.
LEMMA LeaveWaitSIInv ==
  ASSUME SemIInv, LeaveWait
  PROVE  SemIInv'
<1> DEFINE me == current_process
           c == call[me]
<1>0. CallsTyped /\ WakesAlone /\ ChildrenOwned /\ me \in Slots /\ c.sem \in SemIds \cup {NoSem}
  BY DEF LeaveWait, Syscall, SemIInv, CallsTyped, IInv, TypeOK
<1>1. UNCHANGED vars /\ to_wake = <<>> /\ fg_scan = 0 /\ state[me] # "BLOCKED" /\ me # NoProc
  BY DEF LeaveWait, Syscall, Awake
<1>2. InUserCode \in [at : At, sem : SemIds \cup {NoSem}, child : 0..MaxPid]
  BY MaxPidAssumption DEF InUserCode, At
<1>3. pid[me] # 0
  BY <1>1 DEF SemIInv, IInv, SlotsAccounted, CurrentAccounted
<1>4. WakesAlone'
  BY <1>1 DEF WakesAlone, vars
<1>5. CASE /\ call' = [call EXCEPT ![me] = InUserCode]
           /\ UNCHANGED <<sems, children, to_wake>>
  <2>1. TableExact(sems') /\ TableStep
    BY <1>1, <1>5, EmptyQueue DEF SemIInv, TableStep
  <2>2. call'[me] = InUserCode /\ \A s \in Slots : s # me => call'[s] = call[s]
    BY <1>0, <1>5 DEF CallsTyped
  <2>3. \A s \in Slots : InWaitpid(s)' => InWaitpid(s) /\ call'[s] = call[s]
    BY <2>2 DEF InWaitpid, InUserCode
  <2>4. CallStep
    BY <1>0, <1>1, <1>5, <2>2, <2>3 DEF CallStep, ChildrenOwned
  <2>5. CallsTyped'
    BY <1>0, <1>2, <1>5 DEF CallsTyped
  <2> QED
    BY <1>1, <1>4, <2>1, <2>4, <2>5, TableStepSIInv
<1>6. CASE /\ c.at = "wait_child"
           /\ sems' = Closed(sems, c.sem) /\ to_wake' = LastUserWaiters(sems, c.sem)
           /\ call' = [call EXCEPT ![me].at = "closing"] /\ UNCHANGED children
  <2>1. TableExact(sems') /\ TableStep /\ to_wake' \in Seq(1..MaxPid)
    BY <1>0, <1>6, ClosedStep
  <2>2. \A s \in Slots : /\ call'[s].child = call[s].child
                         /\ s # me => call'[s] = call[s]
    BY <1>0, <1>6 DEF CallsTyped
  <2>3. \A s \in Slots : InWaitpid(s)' => InWaitpid(s)
    BY <1>6, <2>2 DEF InWaitpid
  <2>4. CallStep
    BY <1>0, <1>1, <1>3, <1>6, <2>2, <2>3 DEF CallStep, ChildrenOwned
  <2>5. CallsTyped'
    BY <1>0, <1>6, <2>1 DEF CallsTyped, At
  <2> QED
    BY <1>1, <1>4, <2>1, <2>4, <2>5, TableStepSIInv
<1>7. CASE /\ c.at = "closing"
           /\ sems' = Closed(sems, c.sem) /\ to_wake' = LastUserWaiters(sems, c.sem)
           /\ call' = [call EXCEPT ![me] = InUserCode] /\ Forget(c.child)
  <2>1. TableExact(sems') /\ TableStep /\ to_wake' \in Seq(1..MaxPid)
    BY <1>0, <1>7, ClosedStep
  <2>2. call'[me] = InUserCode /\ \A s \in Slots : s # me => call'[s] = call[s]
    BY <1>0, <1>7 DEF CallsTyped
  <2>3. \A s \in Slots : InWaitpid(s)' => InWaitpid(s) /\ call'[s] = call[s] /\ s # me
    BY <2>2 DEF InWaitpid, InUserCode
  <2>4. children' = [children EXCEPT ![me] = @ \ {c.child}]
    BY <1>7 DEF Forget
  <2>5. \A s \in Slots : /\ children'[s] \subseteq children[s]
                         /\ s # me => children'[s] = children[s]
    BY <1>0, <2>4 DEF CallsTyped
  <2>6. CallStep
    BY <1>0, <1>1, <2>2, <2>3, <2>5 DEF CallStep, ChildrenOwned
  <2>7. CallsTyped'
    BY <1>0, <1>2, <1>7, <2>1, <2>4 DEF CallsTyped
  <2> QED
    BY <1>1, <1>4, <2>1, <2>6, <2>7, TableStepSIInv
<1> QED
  BY <1>5, <1>6, <1>7 DEF LeaveWait

-----------------------------------------------------------------------------
(* Wake-ups and deaths.                                                    *)

\* The slots W are woken or killed: their pids leave the queues, and a process
\* woken in waitpid has a dead child or a child without a semaphore.
LEMMA WakingSIInv ==
  ASSUME SemIInv, [CarefulNext]_vars, to_wake = <<>>, to_wake' = <<>>, NEW W \in SUBSET Slots,
         TableExact(sems'), CallsTyped',
         \A s \in Slots : state'[s] = "BLOCKED" =>
           /\ state[s] = "BLOCKED" /\ s \notin W
           /\ pid'[s] = pid[s] /\ call'[s] = call[s],
         \A s \in Slots : state[s] = "BLOCKED" /\ s \notin W => state'[s] = "BLOCKED",
         \A i \in SemIds : \A p \in Range(sems'[i].blocked) :
           p \in Range(sems[i].blocked) /\ \A w \in W : pid[w] # p,
         \A i \in SemIds : \A p \in Range(sems[i].blocked) :
           (\E w \in W : pid[w] = p) \/ p \in Range(sems'[i].blocked),
         \A i \in SemIds : sems'[i].name = sems[i].name,
         \A i \in SemIds : \A p \in 1..MaxPid :
           sems'[i].name = WaitName(p) /\ sems'[i].value > 0 =>
             \/ sems[i].name = WaitName(p) /\ sems[i].value > 0
             \/ Dead(p)',
         \A s \in Slots : pid'[s] = 0 => call'[s] = InUserCode /\ children'[s] = {},
         \A s \in Slots : InWaitpid(s)' =>
           InWaitpid(s) /\ call'[s].child = call[s].child /\ children'[s] = children[s],
         \A s \in Slots : children'[s] \subseteq children[s],
         \A w \in W : \A c \in 1..MaxPid :
           InWaitpid(w) /\ call[w].child = c /\ state'[w] # "KILLED" =>
             Dead(c)' \/ Named(sems, WaitName(c)) = {}
  PROVE  SemIInv'
<1>0. /\ IInv /\ TableExact(sems) /\ PidsBounded /\ CallsTyped /\ WakesAlone
      /\ SleepersListed /\ ChildrenOwned /\ SemsOfCreated /\ TokensFromDead /\ WaitersNamed
  BY DEF SemIInv
<1>1. IInv' /\ PidsBounded'
  BY <1>0, NextIInv, PidsStep
<1>2. WakesAlone'
  BY DEF WakesAlone
<1>3. Range(to_wake') = {}
  BY EmptyQueue
<1>4. SleepersListed'
  <2>1. \A i \in SemIds : \A p \in Range(sems'[i].blocked) :
          /\ p \in Range(sems[i].blocked) /\ p \notin Range(to_wake')
          /\ \A w \in W : pid[w] # p
    BY <1>3
  <2>2. \A i \in SemIds : \A p \in Range(sems[i].blocked) :
          \/ \E w \in W : pid[w] = p
          \/ p \in Range(sems'[i].blocked) \/ p \in Range(to_wake')
    OBVIOUS
  <2> QED
    BY <1>0, <2>1, <2>2, SleepersStep
<1>5. ChildrenOwned'
  <2>1. \A s \in Slots : InWaitpid(s)' => call'[s].child \in children'[s]
    BY <1>0 DEF ChildrenOwned
  <2> QED
    BY <1>0, <2>1, ChildrenStep
<1>6. SemsOfCreated'
  BY <1>0, SemsOfCreatedStep
<1>7. TokensFromDead'
  BY <1>0, TokensStep
<1>8. WaitersNamed'
  <2>1. ASSUME NEW s \in Slots, NEW c \in 1..MaxPid, InWaitpid(s)', call'[s].child = c
        PROVE  WaiterNamed(s, c)'
    <3>1. InWaitpid(s) /\ call[s].child = c
      BY <2>1
    <3>2. Named(sems', WaitName(c)) = Named(sems, WaitName(c))
      BY DEF Named
    <3>3. state[s] = "KILLED" => state'[s] = "KILLED"
      <4>1. pid[s] # 0
        BY <1>0, <3>1 DEF ChildrenOwned, InWaitpid, InUserCode
      <4> QED
        BY <1>0, <4>1, KilledStayKilled
    <3>4. state'[s] \notin {"BLOCKED", "KILLED"} =>
            \/ state[s] \notin {"BLOCKED", "KILLED"}
            \/ Dead(c)' \/ Named(sems', WaitName(c)) = {}
      <4>1. CASE s \in W
        BY <3>1, <3>2, <4>1
      <4>2. CASE s \notin W
        BY <3>3, <4>2
      <4> QED
        BY <4>1, <4>2
    <3>5. state'[s] = "BLOCKED" =>
            /\ state[s] = "BLOCKED" /\ call'[s].sem = call[s].sem
            /\ pid'[s] \in Range(to_wake') => Named(sems', WaitName(c)) = {}
      BY <1>3
    <3>6. Named(sems', WaitName(c)) \subseteq Named(sems, WaitName(c))
      BY <3>2
    <3> QED
      BY <1>0, <3>1, <3>4, <3>5, <3>6, WaiterKept
  <2> QED
    BY <2>1 DEF WaitersNamed
<1> QED
  BY <1>1, <1>2, <1>4, <1>5, <1>6, <1>7, <1>8 DEF SemIInv

\* The head of a queue is the pid of a process asleep on that semaphore.
LEMMA HeadSleeps ==
  ASSUME SemIInv, NEW i \in SemIds, sems[i].blocked # <<>>
  PROVE  LET w == SlotWoken(Head(sems[i].blocked)) IN
         /\ w \in Waiters /\ w # NoProc
         /\ pid[w] = Head(sems[i].blocked) /\ pid[w] \in Range(sems[i].blocked)
         /\ InLoop(w) /\ call[w].sem = i
<1> DEFINE p == Head(sems[i].blocked)
           w == SlotWoken(p)
<1>0. IInv /\ TableExact(sems) /\ SleepersListed
  BY DEF SemIInv
<1>1. p \in Range(sems[i].blocked)
  BY <1>0, PostedResult
<1>2. PICK s \in Slots : state[s] = "BLOCKED" /\ pid[s] = p /\ InLoop(s) /\ call[s].sem = i
  BY <1>0, <1>1 DEF SleepersListed
<1> HIDE DEF p
<1>3. w \in Waiters /\ pid[w] = p /\ w # NoProc
  BY <1>2, SlotWokenResult DEF Waiters, NoProc, Slots
<1>4. pid[s] # 0
  BY <1>0, <1>2 DEF IInv, SlotsAccounted, StacksAccounted
<1>5. w = s
  BY <1>0, <1>2, <1>3, <1>4 DEF IInv, SlotsAccounted, PidsUnique, Waiters
<1> QED
  BY <1>1, <1>2, <1>3, <1>5 DEF p

\* sem_post on entry i takes the process it wakes out of all queues.
LEMMA PostWakes ==
  ASSUME SemIInv, to_wake = <<>>, NEW i \in SemIds, NEW w,
         w = IF sems[i].blocked = <<>> THEN NoProc ELSE SlotWoken(Head(sems[i].blocked))
  PROVE  /\ w \in Waiters \cup {NoProc}
         /\ TableExact(Posted(sems, i))
         /\ \A j \in SemIds :
              /\ Posted(sems, i)[j].name = sems[j].name
              /\ j # i => Posted(sems, i)[j].value = sems[j].value
              /\ \A p \in Range(Posted(sems, i)[j].blocked) :
                   p \in Range(sems[j].blocked) /\ (w \in Slots => pid[w] # p)
              /\ \A p \in Range(sems[j].blocked) :
                   (w \in Slots /\ pid[w] = p) \/ p \in Range(Posted(sems, i)[j].blocked)
         /\ \A c \in 1..MaxPid : w \in Slots /\ InWaitpid(w) /\ call[w].child = c =>
              Named(sems, WaitName(c)) \subseteq {i}
<1> DEFINE T == Posted(sems, i)
<1>0. IInv /\ TableExact(sems) /\ SleepersListed /\ WaitersNamed
  BY DEF SemIInv
<1>1. /\ TableExact(T) /\ \A j \in SemIds : j # i => T[j] = sems[j]
      /\ T[i].name = sems[i].name
      /\ sems[i].blocked = <<>> => T[i].blocked = <<>>
      /\ sems[i].blocked # <<>> =>
           Range(T[i].blocked) = Range(sems[i].blocked) \ {Head(sems[i].blocked)}
  BY <1>0, PostedResult
<1>2. NoProc \notin Slots
  BY DEF NoProc, Slots
<1> HIDE DEF T
<1>3. CASE sems[i].blocked = <<>>
  <2>1. w = NoProc /\ \A j \in SemIds : T[j].blocked = sems[j].blocked
    BY <1>1, <1>3
  <2> QED
    BY <1>1, <1>2, <2>1 DEF T
<1>4. CASE sems[i].blocked # <<>>
  <2>1. /\ w \in Waiters /\ w \in Slots /\ pid[w] = Head(sems[i].blocked)
        /\ pid[w] \in Range(sems[i].blocked)
        /\ call[w].sem = i /\ state[w] = "BLOCKED"
    BY <1>4, HeadSleeps DEF Waiters
  <2>2. \A j \in SemIds : j # i => pid[w] \notin Range(sems[j].blocked)
    BY <1>0, <2>1, QueuesDisjoint
  <2>3. \A j \in SemIds :
          /\ \A p \in Range(T[j].blocked) : p \in Range(sems[j].blocked) /\ pid[w] # p
          /\ \A p \in Range(sems[j].blocked) : pid[w] = p \/ p \in Range(T[j].blocked)
    BY <1>1, <1>4, <2>1, <2>2
  <2>4. \A c \in 1..MaxPid : InWaitpid(w) /\ call[w].child = c =>
          Named(sems, WaitName(c)) \subseteq {i}
    BY <1>0, <2>1 DEF WaitersNamed, WaiterNamed
  <2> QED
    BY <1>1, <2>1, <2>3, <2>4 DEF T
<1> QED
  BY <1>3, <1>4

\* The post of a death reaches only those who wait for that process.
LEMMA DeathPostWakes ==
  ASSUME SemIInv, to_wake = <<>>, NEW p \in 1..MaxPid, NEW w, w = DeathWakes(p)
  PROVE  /\ w \in Waiters \cup {NoProc}
         /\ TableExact(DeathPosted(p))
         /\ \A j \in SemIds :
              /\ DeathPosted(p)[j].name = sems[j].name
              /\ \/ DeathPosted(p)[j].value = sems[j].value
                 \/ sems[j].name = WaitName(p)
              /\ \A q \in Range(DeathPosted(p)[j].blocked) :
                   q \in Range(sems[j].blocked) /\ (w \in Slots => pid[w] # q)
              /\ \A q \in Range(sems[j].blocked) :
                   (w \in Slots /\ pid[w] = q) \/ q \in Range(DeathPosted(p)[j].blocked)
         /\ \A c \in 1..MaxPid : w \in Slots /\ InWaitpid(w) /\ call[w].child = c =>
              c = p \/ Named(sems, WaitName(c)) = {}
<1>0. TableExact(sems) /\ NoProc \notin Slots
  BY DEF SemIInv, NoProc, Slots
<1>1. CASE DeathSems(p) = {}
  BY <1>0, <1>1 DEF DeathWakes, DeathPosted
<1>2. CASE DeathSems(p) # {}
  <2> DEFINE i == Least(DeathSems(p))
  <2>1. i \in SemIds /\ sems[i].name = WaitName(p)
    <3>1. DeathSems(p) \in SUBSET SemIds
      BY DEF DeathSems, Named
    <3> QED
      BY <1>2, <3>1, LeastResult DEF DeathSems, Named
  <2>2. \A j \in DeathSems(p) : j = i
    BY <1>0, <2>1, NamesDistinct DEF DeathSems, Named, TableExact, NamesUnique
  <2>3. w = IF sems[i].blocked = <<>> THEN NoProc ELSE SlotWoken(Head(sems[i].blocked))
    <3>1. i \in DeathSems(p)
      BY <2>1 DEF DeathSems, Named
    <3> QED
      BY <2>2, <3>1 DEF DeathWakes
  <2>4. DeathPosted(p) = Posted(sems, i)
    BY <1>2 DEF DeathPosted
  <2> HIDE DEF i
  <2>5. \A c \in 1..MaxPid : Named(sems, WaitName(c)) \subseteq {i} =>
          c = p \/ Named(sems, WaitName(c)) = {}
    BY <2>1, NamesDistinct DEF Named
  <2> QED
    BY <2>1, <2>3, <2>4, <2>5, PostWakes
<1> QED
  BY <1>1, <1>2

LEMMA SemPostSIInv ==
  ASSUME SemIInv, [CarefulNext]_vars, NEW i \in UserSems, SemPost(i)
  PROVE  SemIInv'
<1> DEFINE w == IF sems[i].blocked = <<>> THEN NoProc ELSE SlotWoken(Head(sems[i].blocked))
<1>0. IInv /\ TypeOK /\ CallsTyped /\ ChildrenOwned
  BY DEF SemIInv, IInv
<1>1. /\ i \in SemIds /\ \E n \in Names : sems[i].name = UserName(n)
  BY DEF UserSems, Active
<1>2. /\ to_wake = <<>> /\ to_wake' = <<>> /\ sems' = Posted(sems, i)
      /\ UNCHANGED <<call, children>>
      /\ IF w # NoProc THEN UnblockProcess(w) ELSE UNCHANGED vars
  BY DEF SemPost, SemSyscall
<1> HIDE DEF w
<1>3. /\ w \in Waiters \cup {NoProc} /\ TableExact(sems')
      /\ \A j \in SemIds :
           /\ sems'[j].name = sems[j].name
           /\ j # i => sems'[j].value = sems[j].value
           /\ \A p \in Range(sems'[j].blocked) :
                p \in Range(sems[j].blocked) /\ (w \in Slots => pid[w] # p)
           /\ \A p \in Range(sems[j].blocked) :
                (w \in Slots /\ pid[w] = p) \/ p \in Range(sems'[j].blocked)
      /\ \A c \in 1..MaxPid : w \in Slots /\ InWaitpid(w) /\ call[w].child = c =>
           Named(sems, WaitName(c)) \subseteq {i}
  BY <1>1, <1>2, PostWakes DEF w
<1>4. \A c \in 1..MaxPid : Named(sems, WaitName(c)) \subseteq {i} =>
        Named(sems, WaitName(c)) = {}
  BY <1>1, NamesDistinct DEF Named
<1>5. NoProc \notin Slots
  BY DEF NoProc, Slots
<1> DEFINE W == {w} \cap Slots
<1>6. /\ pid' = pid
      /\ \A s \in Slots : /\ s \in W => state'[s] = "READY"
                          /\ s \notin W => state'[s] = state[s]
  BY <1>0, <1>2, <1>3, <1>5 DEF UnblockProcess, vars, TypeOK, Waiters
<1>7. \A s \in Slots : state'[s] = "BLOCKED" =>
        /\ state[s] = "BLOCKED" /\ s \notin W
        /\ pid'[s] = pid[s] /\ call'[s] = call[s]
  BY <1>2, <1>6
<1>8. \A j \in SemIds : \A p \in 1..MaxPid :
        sems'[j].name = WaitName(p) /\ sems'[j].value > 0 =>
          sems[j].name = WaitName(p) /\ sems[j].value > 0
  BY <1>1, <1>3, NamesDistinct
<1>9. \A s \in Slots : InWaitpid(s)' <=> InWaitpid(s)
  BY <1>2 DEF InWaitpid
<1>10. CallsTyped'
  BY <1>0, <1>2 DEF CallsTyped
<1>11. \A s \in Slots : pid'[s] = 0 => call'[s] = InUserCode /\ children'[s] = {}
  BY <1>0, <1>2, <1>6 DEF ChildrenOwned
<1>12. \A j \in SemIds : /\ \A p \in Range(sems'[j].blocked) :
                              p \in Range(sems[j].blocked) /\ \A x \in W : pid[x] # p
                         /\ \A p \in Range(sems[j].blocked) :
                              (\E x \in W : pid[x] = p) \/ p \in Range(sems'[j].blocked)
                         /\ sems'[j].name = sems[j].name
  BY <1>3
<1>13. \A x \in W : \A c \in 1..MaxPid : InWaitpid(x) /\ call[x].child = c =>
         Named(sems, WaitName(c)) = {}
  BY <1>3, <1>4
<1>14. \A s \in Slots : state[s] = "BLOCKED" /\ s \notin W => state'[s] = "BLOCKED"
  BY <1>6
<1> HIDE DEF W
<1>15. W \in SUBSET Slots
  BY DEF W
<1>16. /\ \A s \in Slots : InWaitpid(s)' =>
            InWaitpid(s) /\ call'[s].child = call[s].child /\ children'[s] = children[s]
       /\ \A s \in Slots : children'[s] \subseteq children[s]
  BY <1>2, <1>9
<1> QED
  BY <1>2, <1>3, <1>7, <1>8, <1>10, <1>11, <1>12, <1>13, <1>14, <1>15, <1>16, WakingSIInv

\* What exit and kill share: p dies in slot d, and w is woken.
LEMMA DeathSIInv ==
  ASSUME SemIInv, [CarefulNext]_vars, to_wake = <<>>, to_wake' = <<>>,
         NEW d \in Slots, NEW p \in 1..MaxPid, p = pid[d],
         NEW w, w = DeathWakes(p),
         state' = [WokenState(w) EXCEPT ![d] = "KILLED"],
         \A s \in Slots : s # d => pid'[s] = pid[s],
         pid'[d] \in {p, 0},
         TableExact(sems'), CallsTyped',
         \A i \in SemIds :
           /\ sems'[i].name = sems[i].name
           /\ sems'[i].value = DeathPosted(p)[i].value
           /\ \A q \in Range(sems'[i].blocked) :
                q \in Range(DeathPosted(p)[i].blocked) /\ q # p
           /\ \A q \in Range(DeathPosted(p)[i].blocked) :
                q = p \/ q \in Range(sems'[i].blocked),
         \A s \in Slots : pid'[s] = 0 => call'[s] = InUserCode /\ children'[s] = {},
         \A s \in Slots : s # d => call'[s] = call[s],
         InWaitpid(d)' => InWaitpid(d) /\ call'[d].child = call[d].child
                                       /\ children'[d] = children[d],
         \A s \in Slots : /\ children'[s] \subseteq children[s]
                          /\ s # d => children'[s] = children[s]
  PROVE  SemIInv'
<1> DEFINE W == ({w} \cap Slots) \cup {d}
<1>0. IInv /\ TypeOK /\ QueuesExact /\ CallsTyped /\ ChildrenOwned
  BY DEF SemIInv, IInv
<1>1. /\ w \in Waiters \cup {NoProc}
      /\ TableExact(DeathPosted(p))
      /\ \A j \in SemIds :
           /\ DeathPosted(p)[j].name = sems[j].name
           /\ \/ DeathPosted(p)[j].value = sems[j].value
              \/ sems[j].name = WaitName(p)
           /\ \A q \in Range(DeathPosted(p)[j].blocked) :
                q \in Range(sems[j].blocked) /\ (w \in Slots => pid[w] # q)
           /\ \A q \in Range(sems[j].blocked) :
                (w \in Slots /\ pid[w] = q) \/ q \in Range(DeathPosted(p)[j].blocked)
      /\ \A c \in 1..MaxPid : w \in Slots /\ InWaitpid(w) /\ call[w].child = c =>
           c = p \/ Named(sems, WaitName(c)) = {}
  <2>1. SemIInv
    OBVIOUS
  <2>2. to_wake = <<>>
    OBVIOUS
  <2>3. p \in 1..MaxPid /\ w = DeathWakes(p)
    OBVIOUS
  <2> QED
    BY ONLY <2>1, <2>2, <2>3, DeathPostWakes
<1>2. state'[d] = "KILLED" /\ \A s \in Slots : s # d => state'[s] = WokenState(w)[s]
  BY <1>0, <1>1, WokenExact
<1>3. \A s \in Slots : s # d => /\ s \in W => state'[s] = "READY"
                                /\ s \notin W => state'[s] = state[s]
  BY <1>0, <1>1, <1>2 DEF WokenState, NoProc, Slots, Waiters, TypeOK
<1>4. Dead(p)'
  <2>1. ASSUME NEW t \in Slots, pid'[t] = p  PROVE state'[t] = "KILLED"
    <3>1. pid[t] = p
      BY <2>1
    <3>2. t = d
      BY <1>0, <3>1 DEF IInv, SlotsAccounted, PidsUnique
    <3> QED
      BY <1>2, <3>2
  <2> QED
    BY <2>1 DEF Dead
<1>5. \A s \in Slots : state'[s] = "BLOCKED" =>
        /\ state[s] = "BLOCKED" /\ s \notin W
        /\ pid'[s] = pid[s] /\ call'[s] = call[s]
  BY <1>2, <1>3
<1>6. \A s \in Slots : state[s] = "BLOCKED" /\ s \notin W => state'[s] = "BLOCKED"
  BY <1>3
<1>7. \A i \in SemIds : \A q \in Range(sems'[i].blocked) :
        q \in Range(sems[i].blocked) /\ \A x \in W : pid[x] # q
  BY <1>1
<1>8. \A i \in SemIds : \A q \in Range(sems[i].blocked) :
        (\E x \in W : pid[x] = q) \/ q \in Range(sems'[i].blocked)
  BY <1>1
<1>9. \A i \in SemIds : \A q \in 1..MaxPid :
         sems'[i].name = WaitName(q) /\ sems'[i].value > 0 =>
           \/ sems[i].name = WaitName(q) /\ sems[i].value > 0
           \/ Dead(q)'
  <2>1. ASSUME NEW i \in SemIds, NEW q \in 1..MaxPid,
               sems'[i].name = WaitName(q), sems'[i].value > 0, q # p
        PROVE  sems[i].name = WaitName(q) /\ sems[i].value > 0
    BY <1>1, <2>1, NamesDistinct
  <2>2. ASSUME NEW q, q = p  PROVE Dead(q)'
    BY <1>4, <2>2 DEF Dead
  <2> QED
    BY <2>1, <2>2
<1>10. \A s \in Slots : InWaitpid(s)' =>
         InWaitpid(s) /\ call'[s].child = call[s].child /\ children'[s] = children[s]
  BY DEF InWaitpid
<1>11. \A x \in W : \A c \in 1..MaxPid :
         InWaitpid(x) /\ call[x].child = c /\ state'[x] # "KILLED" =>
           Dead(c)' \/ Named(sems, WaitName(c)) = {}
  <2>1. ASSUME NEW c \in 1..MaxPid, c = p  PROVE Dead(c)'
    BY <1>4, <2>1 DEF Dead
  <2> QED
    BY <1>1, <1>2, <2>1
<1>12. W \in SUBSET Slots
  OBVIOUS
<1> HIDE DEF W
<1> QED
  BY <1>5, <1>6, <1>7, <1>8, <1>9, <1>10, <1>11, <1>12, WakingSIInv

\* The exit system call and the trampoline.
LEMMA DieSIInv ==
  ASSUME SemIInv, [CarefulNext]_vars, to_wake = <<>>, NEW next \in {"exited", "halted"},
         Die(next), call[current_process].at \in {"user", "exited"}
  PROVE  SemIInv'
<1> DEFINE me == current_process
           after == [InUserCode EXCEPT !.at = next]
<1>0. IInv /\ TypeOK /\ CallsTyped /\ ChildrenOwned /\ SleepersListed /\ TableExact(sems)
      /\ PidsBounded
  BY DEF SemIInv, IInv
<1>1. /\ me \in Slots /\ state' = [WokenState(DeathWakes(pid[me])) EXCEPT ![me] = "KILLED"]
      /\ sems' = DeathPosted(pid[me]) /\ call' = [call EXCEPT ![me] = after]
      /\ UNCHANGED <<pid, children, to_wake>>
  BY <1>0 DEF Die, ExitCurrent, Syscall, TypeOK
<1>2. PICK d \in Slots : d = me
  BY <1>1
<1>3. d # NoProc /\ pid[d] # 0
  BY <1>0, <1>2 DEF Die, ExitCurrent, Syscall, IInv, SlotsAccounted, CurrentAccounted
<1>4. PICK p \in 1..MaxPid : p = pid[d]
  BY <1>0, <1>3 DEF PidsBounded
<1>5. PICK w : w = DeathWakes(p)
  OBVIOUS
<1>6. after \in [at : At, sem : SemIds \cup {NoSem}, child : 0..MaxPid] /\ after.at = next
  BY MaxPidAssumption DEF InUserCode, At
<1>7. CallsTyped'
  BY <1>0, <1>1, <1>6 DEF CallsTyped
<1>8. /\ call'[d] = after /\ \A s \in Slots : s # d => call'[s] = call[s]
  BY <1>0, <1>1, <1>2 DEF CallsTyped
<1>9. ~InWaitpid(d)'
  BY <1>6, <1>8 DEF InWaitpid
<1>10. /\ TableExact(DeathPosted(p))
       /\ \A j \in SemIds :
            /\ DeathPosted(p)[j].name = sems[j].name
            /\ \A q \in Range(DeathPosted(p)[j].blocked) : q \in Range(sems[j].blocked)
  <2>1. SemIInv /\ to_wake = <<>> /\ w = DeathWakes(p)
    BY <1>5
  <2> QED
    BY ONLY <2>1, DeathPostWakes
\* A process in user code is in no queue.
<1>11. \A j \in SemIds : p \notin Range(sems[j].blocked)
  <2>1. ASSUME NEW j \in SemIds, p \in Range(sems[j].blocked)  PROVE FALSE
    <3>1. PICK s \in Slots : state[s] = "BLOCKED" /\ pid[s] = p /\ InLoop(s)
      BY <1>0, <2>1 DEF SleepersListed
    <3>2. s = d
      BY <1>0, <1>3, <1>4, <3>1 DEF IInv, SlotsAccounted, PidsUnique
    <3> QED
      BY <1>2, <3>1, <3>2 DEF InLoop
  <2> QED
    BY <2>1
<1>12. \A i \in SemIds :
         /\ sems'[i].name = sems[i].name
         /\ sems'[i].value = DeathPosted(p)[i].value
         /\ \A q \in Range(sems'[i].blocked) :
              q \in Range(DeathPosted(p)[i].blocked) /\ q # p
         /\ \A q \in Range(DeathPosted(p)[i].blocked) :
              q = p \/ q \in Range(sems'[i].blocked)
  BY <1>1, <1>2, <1>4, <1>10, <1>11
<1>13. /\ state' = [WokenState(w) EXCEPT ![d] = "KILLED"]
       /\ \A s \in Slots : s # d => pid'[s] = pid[s]
       /\ pid'[d] \in {p, 0} /\ to_wake' = <<>> /\ TableExact(sems')
  BY <1>1, <1>2, <1>4, <1>5, <1>10
<1>14. \A s \in Slots : pid'[s] = 0 => call'[s] = InUserCode /\ children'[s] = {}
  BY <1>0, <1>1, <1>3, <1>8 DEF ChildrenOwned
<1>15. \A s \in Slots : /\ children'[s] \subseteq children[s]
                        /\ s # d => children'[s] = children[s]
  BY <1>1
<1> HIDE DEF me, after
<1> QED
  BY <1>4, <1>5, <1>7, <1>8, <1>9, <1>12, <1>13, <1>14, <1>15, DeathSIInv

\* kill_process, from the system call or for Ctrl+C.
LEMMA KillSIInv ==
  ASSUME SemIInv, [CarefulNext]_vars, to_wake = <<>>, to_wake' = <<>>,
         NEW d \in Slots, Killable(d), KillEffect(d, DeathWakes(pid[d])), KillSems(d)
  PROVE  SemIInv'
<1>0. IInv /\ TypeOK /\ CallsTyped /\ ChildrenOwned /\ PidsBounded
  BY DEF SemIInv, IInv
<1>1. /\ state' = [WokenState(DeathWakes(pid[d])) EXCEPT ![d] = "KILLED"]
      /\ \A s \in Slots : s # d => pid'[s] = pid[s]
      /\ pid'[d] \in {pid[d], 0} /\ pid[d] # 0
  BY <1>0 DEF KillEffect, PidsAfterKill, Killable, TypeOK
<1>2. PICK p \in 1..MaxPid : p = pid[d]
  BY <1>0, <1>1 DEF PidsBounded
<1>3. PICK w : w = DeathWakes(p)
  OBVIOUS
<1>4. /\ sems' = WithoutPid(DeathPosted(p), p)
      /\ \A s \in Slots : /\ call'[s] = IF pid'[s] = 0 THEN InUserCode ELSE call[s]
                          /\ children'[s] = IF pid'[s] = 0 THEN {} ELSE children[s]
  BY <1>2 DEF KillSems, CallsKept, ChildrenKept
<1>5. CallsTyped'
  <2>1. InUserCode \in [at : At, sem : SemIds \cup {NoSem}, child : 0..MaxPid]
    BY MaxPidAssumption DEF InUserCode, At
  <2>2. call' \in [Slots -> [at : At, sem : SemIds \cup {NoSem}, child : 0..MaxPid]]
    BY <1>0, <2>1 DEF KillSems, CallsKept, CallsTyped
  <2>3. children' \in [Slots -> SUBSET (1..MaxPid)]
    BY <1>0 DEF KillSems, ChildrenKept, CallsTyped
  <2> QED
    BY <2>2, <2>3, EmptyQueue DEF CallsTyped
<1>6. /\ TableExact(DeathPosted(p))
      /\ \A j \in SemIds : DeathPosted(p)[j].name = sems[j].name
  <2>1. SemIInv /\ to_wake = <<>> /\ w = DeathWakes(p)
    BY <1>3
  <2> QED
    BY ONLY <2>1, DeathPostWakes
<1>7. /\ TableExact(sems')
      /\ \A i \in SemIds :
           /\ sems'[i].name = DeathPosted(p)[i].name
           /\ sems'[i].value = DeathPosted(p)[i].value
           /\ Range(sems'[i].blocked) = Range(DeathPosted(p)[i].blocked) \ {p}
  <2>1. sems' = WithoutPid(DeathPosted(p), p)
    BY <1>4
  <2> QED
    BY ONLY <1>6, <2>1, WithoutPidResult
<1>8. \A i \in SemIds :
        /\ sems'[i].name = sems[i].name
        /\ sems'[i].value = DeathPosted(p)[i].value
        /\ \A q \in Range(sems'[i].blocked) :
             q \in Range(DeathPosted(p)[i].blocked) /\ q # p
        /\ \A q \in Range(DeathPosted(p)[i].blocked) :
             q = p \/ q \in Range(sems'[i].blocked)
  BY <1>6, <1>7
<1>9. /\ \A s \in Slots : pid'[s] = 0 => call'[s] = InUserCode /\ children'[s] = {}
      /\ \A s \in Slots : s # d => call'[s] = call[s]
      /\ \A s \in Slots : /\ children'[s] \subseteq children[s]
                          /\ s # d => children'[s] = children[s]
  BY <1>0, <1>1, <1>4 DEF ChildrenOwned
<1>10. InWaitpid(d)' => InWaitpid(d) /\ call'[d].child = call[d].child
                                     /\ children'[d] = children[d]
  BY <1>4 DEF InWaitpid, InUserCode
<1>11. /\ state' = [WokenState(w) EXCEPT ![d] = "KILLED"] /\ pid'[d] \in {p, 0}
       /\ \A s \in Slots : s # d => pid'[s] = pid[s]
  BY <1>1, <1>2, <1>3
<1>12. SemIInv /\ [CarefulNext]_vars /\ to_wake = <<>> /\ to_wake' = <<>>
  OBVIOUS
<1> QED
  BY ONLY <1>2, <1>3, <1>5, <1>7, <1>8, <1>9, <1>10, <1>11, <1>12, DeathSIInv

LEMMA TailRange ==
  ASSUME NEW D, NEW q \in Seq(D), q # <<>>
  PROVE  /\ Tail(q) \in Seq(D) /\ Head(q) \in Range(q)
         /\ Range(Tail(q)) \subseteq Range(q)
         /\ Range(q) \subseteq Range(Tail(q)) \cup {Head(q)}
<1> DEFINE u == Tail(q)
<1>1. /\ Len(q) \in Nat /\ Len(q) >= 1 /\ u \in Seq(D) /\ Len(u) = Len(q) - 1
      /\ Head(q) = q[1] /\ DOMAIN q = 1..Len(q) /\ DOMAIN u = 1..(Len(q) - 1)
      /\ \A k \in 1..(Len(q) - 1) : u[k] = q[k + 1]
  OBVIOUS
<1> HIDE DEF u
<1>2. ASSUME NEW x \in Range(u)  PROVE x \in Range(q)
  <2>1. PICK k \in 1..(Len(q) - 1) : u[k] = x
    BY <1>1 DEF Range
  <2>2. k + 1 \in 1..Len(q) /\ q[k + 1] = x
    BY <1>1, <2>1
  <2> QED
    BY <1>1, <2>2 DEF Range
<1>3. ASSUME NEW x \in Range(q), x # Head(q)  PROVE x \in Range(u)
  <2>1. PICK k \in 1..Len(q) : q[k] = x /\ k # 1
    BY <1>1, <1>3 DEF Range
  <2>2. k - 1 \in 1..(Len(q) - 1) /\ u[k - 1] = x
    BY <1>1, <2>1
  <2> QED
    BY <1>1, <2>2 DEF Range
<1>4. Head(q) \in Range(q)
  BY <1>1 DEF Range
<1> QED
  BY <1>1, <1>2, <1>3, <1>4 DEF u

\* One turn of the loop of sem_close.
LEMMA WakeNextSIInv ==
  ASSUME SemIInv, [CarefulNext]_vars, WakeNext
  PROVE  SemIInv'
<1>0. /\ IInv /\ TypeOK /\ TableExact(sems) /\ PidsBounded /\ CallsTyped /\ WakesAlone
      /\ SleepersListed /\ ChildrenOwned /\ SemsOfCreated /\ TokensFromDead /\ WaitersNamed
  BY DEF SemIInv, IInv
<1>1. PICK h : h = Head(to_wake)
  OBVIOUS
<1>2. PICK w : w = SlotWoken(h)
  OBVIOUS
<1>3. /\ to_wake # <<>> /\ to_wake' = Tail(to_wake) /\ UNCHANGED <<sems, call, children>>
      /\ IF w # NoProc THEN UnblockProcess(w) ELSE UNCHANGED vars
  BY <1>1, <1>2 DEF WakeNext
<1>4. /\ w \in Waiters \cup {NoProc} /\ NoProc \notin Slots
      /\ w \in Waiters => w \in Slots /\ w # NoProc /\ pid[w] = h /\ state[w] = "BLOCKED"
      /\ w = NoProc => \A s \in Waiters : pid[s] # h
  BY <1>2, SlotWokenResult DEF Waiters, NoProc, Slots
<1>5. /\ to_wake' \in Seq(1..MaxPid) /\ h \in Range(to_wake)
      /\ Range(to_wake') \subseteq Range(to_wake)
      /\ Range(to_wake) \subseteq Range(to_wake') \cup {h}
  <2>1. to_wake \in Seq(1..MaxPid)
    BY <1>0 DEF CallsTyped
  <2> QED
    BY <1>1, <1>3, <2>1, TailRange
<1>6. /\ pid' = pid /\ fg_scan' = fg_scan
      /\ \A s \in Slots : /\ s = w => state'[s] = "READY"
                          /\ s # w => state'[s] = state[s]
  BY <1>0, <1>3, <1>4 DEF UnblockProcess, vars, TypeOK
<1>7. IInv' /\ PidsBounded' /\ SemsOfCreated' /\ TokensFromDead'
  BY <1>0, <1>3, NextIInv, PidsStep, SemsOfCreatedStep, TokensStep
<1>8. TableExact(sems') /\ CallsTyped' /\ WakesAlone'
  BY <1>0, <1>3, <1>5, <1>6 DEF CallsTyped, WakesAlone
<1>9. SleepersListed'
  <2>1. ASSUME NEW i \in SemIds, NEW p \in Range(sems'[i].blocked)
        PROVE  /\ p \notin Range(to_wake')
               /\ \E s \in Slots : /\ state'[s] = "BLOCKED" /\ pid'[s] = p
                                   /\ InLoop(s)' /\ call'[s].sem = i
    <3>1. p \notin Range(to_wake)
      BY <1>0, <1>3 DEF SleepersListed
    <3>2. PICK s \in Slots : state[s] = "BLOCKED" /\ pid[s] = p /\ InLoop(s) /\ call[s].sem = i
      BY <1>0, <1>3 DEF SleepersListed
    <3>3. s # w
      BY <1>4, <1>5, <3>1, <3>2
    <3>4. InLoop(s)'
      BY <1>3, <3>2 DEF InLoop
    <3> QED
      BY <1>3, <1>5, <1>6, <3>1, <3>2, <3>3, <3>4
  <2>2. ASSUME NEW s \in Slots, state'[s] = "BLOCKED"
        PROVE  /\ InLoop(s)' /\ call'[s].sem \in SemIds
               /\ pid'[s] \in Range(sems'[call'[s].sem].blocked) \cup Range(to_wake')
    <3>1. s # w /\ state[s] = "BLOCKED"
      BY <1>6, <2>2
    <3>2. pid[s] # h
      <4>1. CASE w = NoProc
        BY <1>4, <3>1, <4>1 DEF Waiters
      <4>2. CASE w \in Waiters
        <5>1. pid[s] # 0
          BY <1>0, <3>1 DEF IInv, SlotsAccounted, StacksAccounted
        <5> QED
          BY <1>0, <1>4, <3>1, <4>2, <5>1 DEF IInv, SlotsAccounted, PidsUnique
      <4> QED
        BY <1>4, <4>1, <4>2
    <3>3. InLoop(s)'
      BY <1>0, <1>3, <3>1 DEF SleepersListed, InLoop
    <3> QED
      BY <1>0, <1>3, <1>5, <1>6, <3>1, <3>2, <3>3 DEF SleepersListed
  <2> QED
    BY <2>1, <2>2 DEF SleepersListed
<1>10. ChildrenOwned'
  <2>1. \A s \in Slots : InWaitpid(s)' => call'[s].child \in children'[s]
    BY <1>0, <1>3 DEF ChildrenOwned, InWaitpid
  <2>2. \A s \in Slots : pid'[s] = 0 => call'[s] = InUserCode /\ children'[s] = {}
    BY <1>0, <1>3, <1>6 DEF ChildrenOwned
  <2> QED
    BY <1>0, <1>3, <2>1, <2>2, ChildrenStep
<1>11. WaitersNamed'
  <2>1. ASSUME NEW s \in Slots, NEW c \in 1..MaxPid, InWaitpid(s)', call'[s].child = c
        PROVE  WaiterNamed(s, c)'
    <3>1. InWaitpid(s) /\ call[s].child = c /\ call'[s] = call[s]
      BY <1>3, <2>1 DEF InWaitpid
    <3>2. Named(sems', WaitName(c)) = Named(sems, WaitName(c))
      BY <1>3 DEF Named
    <3>3. WaiterNamed(s, c)
      BY <1>0, <3>1 DEF WaitersNamed
    <3>4. state'[s] = "BLOCKED" =>
            /\ state[s] = "BLOCKED" /\ call'[s].sem = call[s].sem
            /\ pid'[s] \in Range(to_wake') => Named(sems', WaitName(c)) = {}
      BY <1>5, <1>6, <3>1, <3>2, <3>3 DEF WaiterNamed
    <3>5. state'[s] \notin {"BLOCKED", "KILLED"} =>
            \/ state[s] \notin {"BLOCKED", "KILLED"}
            \/ Dead(c)' \/ Named(sems', WaitName(c)) = {}
      BY <1>4, <1>5, <1>6, <3>2, <3>3 DEF WaiterNamed
    <3>6. Named(sems', WaitName(c)) \subseteq Named(sems, WaitName(c))
      BY <3>2
    <3> QED
      BY <1>0, <3>1, <3>4, <3>5, <3>6, WaiterKept
  <2> QED
    BY <2>1 DEF WaitersNamed
<1> QED
  BY <1>7, <1>8, <1>9, <1>10, <1>11 DEF SemIInv

\* A new process, and a wait semaphore whose name no other has had.
LEMMA SpawnSIInv ==
  ASSUME SemIInv, [CarefulNext]_vars, NEW prio, NEW fg, Spawn(prio, fg)
  PROVE  SemIInv'
<1>0. /\ IInv /\ TypeOK /\ TableExact(sems) /\ PidsBounded /\ CallsTyped
      /\ SleepersListed /\ ChildrenOwned /\ SemsOfCreated /\ TokensFromDead /\ WaitersNamed
  BY DEF SemIInv, IInv
<1>1. PICK me \in Slots : me = current_process
  BY <1>0 DEF Spawn, SemSyscall, Syscall, TypeOK
<1>2. PICK p : p = next_pid
  OBVIOUS
<1>3. PICK nm : nm = WaitName(p)
  OBVIOUS
<1>4. /\ to_wake = <<>> /\ to_wake' = <<>> /\ call[me] = InUserCode
      /\ p \in 1..MaxPid /\ next_pid' = p + 1 /\ me # NoProc
      /\ sems' = Opened(sems, nm, 0) /\ call' = call
      /\ children' = [children EXCEPT ![me] = @ \cup {p}]
  BY <1>0, <1>1, <1>2, <1>3 DEF Spawn, SemSyscall, Syscall, CreateProcess, PidsBounded
<1>5. PICK f \in FreeSlots : /\ pid' = [pid EXCEPT ![f] = p]
                             /\ state' = [state EXCEPT ![f] = "READY"]
  BY <1>2 DEF Spawn, CreateProcess
<1>6. /\ f \in Slots /\ state[f] = "KILLED" /\ pid[f] = 0 /\ state'[f] = "READY"
      /\ pid'[f] = p /\ p # 0
      /\ \A s \in Slots : s # f => pid'[s] = pid[s] /\ state'[s] = state[s]
  BY <1>0, <1>4, <1>5 DEF FreeSlots, TypeOK
<1>7. nm \in SemNames \ {NoName} /\ 0 \in Nat
  BY <1>3, <1>4, NamesDistinct DEF SemNames
<1>8. /\ TableExact(sems')
      /\ \A j \in SemIds :
           /\ sems'[j].blocked = sems[j].blocked
           /\ \/ sems'[j].name = sems[j].name /\ sems'[j].value = sems[j].value
              \/ sems'[j].name = nm /\ sems'[j].value = 0
  BY <1>0, <1>4, <1>7, OpenedResult
<1>9. IInv' /\ PidsBounded'
  BY <1>0, NextIInv, PidsStep
<1>10. CallsTyped'
  BY <1>0, <1>4, EmptyQueue DEF CallsTyped
<1>11. WakesAlone'
  BY <1>4 DEF WakesAlone
<1>12. SleepersListed'
  <2> SUFFICES ASSUME NEW W, W = {}  PROVE SleepersListed'
    OBVIOUS
  <2>1. \A s \in Slots : state'[s] = "BLOCKED" =>
          /\ state[s] = "BLOCKED" /\ s \notin W
          /\ pid'[s] = pid[s] /\ call'[s] = call[s]
    BY <1>4, <1>6
  <2>2. \A i \in SemIds : \A q \in Range(sems'[i].blocked) :
          /\ q \in Range(sems[i].blocked) /\ q \notin Range(to_wake')
          /\ \A w \in W : pid[w] # q
    BY <1>4, <1>8, EmptyQueue
  <2>3. \A i \in SemIds : \A q \in Range(sems[i].blocked) :
          \/ \E w \in W : pid[w] = q
          \/ q \in Range(sems'[i].blocked) \/ q \in Range(to_wake')
    BY <1>8
  <2>4. \A s \in Slots : state[s] = "BLOCKED" /\ s \notin W => state'[s] = "BLOCKED"
    BY <1>6
  <2> QED
    BY <1>0, <1>4, <2>1, <2>2, <2>3, <2>4, SleepersStep
<1>13. /\ children'[me] = children[me] \cup {p}
       /\ \A s \in Slots : s # me => children'[s] = children[s]
  BY <1>0, <1>4 DEF CallsTyped
<1>14. \A s \in Slots : \A q \in children[s] : q # p /\ q < p /\ q < next_pid'
  BY <1>0, <1>2, <1>4 DEF ChildrenOwned, CallsTyped
<1>15. ChildrenOwned'
  <2>1. pid[me] # 0
    BY <1>0, <1>1, <1>4 DEF IInv, SlotsAccounted, CurrentAccounted
  <2>2. ASSUME NEW s \in Slots, pid'[s] = 0  PROVE call'[s] = InUserCode /\ children'[s] = {}
    <3>1. pid[s] = 0 /\ s # me
      BY <1>6, <2>1, <2>2
    <3> QED
      BY <1>0, <1>4, <1>13, <3>1 DEF ChildrenOwned
  <2>3. \A s \in Slots : InWaitpid(s)' => call'[s].child \in children'[s]
    BY <1>0, <1>4, <1>13 DEF ChildrenOwned, InWaitpid
  <2>4. \A s \in Slots : \A q \in children'[s] : q < next_pid'
    BY <1>4, <1>13, <1>14
  <2>5. \A s, t \in Slots : s # t => children'[s] \cap children'[t] = {}
    BY <1>0, <1>13, <1>14 DEF ChildrenOwned
  <2> QED
    BY <2>2, <2>3, <2>4, <2>5 DEF ChildrenOwned
<1>16. SemsOfCreated'
  <2>1. \A i \in SemIds : \A q \in 1..MaxPid :
          sems'[i].name = WaitName(q) => sems[i].name = WaitName(q) \/ q < next_pid'
    BY <1>3, <1>4, <1>8, NamesDistinct
  <2> QED
    BY <1>0, <2>1, SemsOfCreatedStep
<1>17. TokensFromDead'
  <2>1. \A i \in SemIds : \A q \in 1..MaxPid :
          sems'[i].name = WaitName(q) /\ sems'[i].value > 0 =>
            \/ sems[i].name = WaitName(q) /\ sems[i].value > 0
            \/ Dead(q)'
    BY <1>8
  <2> QED
    BY <1>0, <2>1, TokensStep
<1>18. WaitersNamed'
  <2>1. ASSUME NEW s \in Slots, NEW c \in 1..MaxPid, InWaitpid(s)', call'[s].child = c
        PROVE  WaiterNamed(s, c)'
    <3>1. InWaitpid(s) /\ call[s].child = c /\ c \in children[s]
      BY <1>0, <1>4, <2>1 DEF InWaitpid, ChildrenOwned
    <3>2. s # f
      BY <1>0, <1>6, <3>1 DEF ChildrenOwned, InWaitpid, InUserCode
    <3>3. WaitName(c) # nm /\ WaitName(c) # NoName
      BY <1>3, <1>14, <3>1, NamesDistinct
    <3>4. \A i \in SemIds : sems'[i].name \in {sems[i].name, NoName, nm}
      BY <1>8
    <3>5. Named(sems', WaitName(c)) \subseteq Named(sems, WaitName(c))
      BY <3>3, <3>4, NamesShrink
    <3>6. state'[s] = "BLOCKED" =>
            /\ state[s] = "BLOCKED" /\ call'[s].sem = call[s].sem
            /\ pid'[s] \in Range(to_wake') => Named(sems', WaitName(c)) = {}
      BY <1>4, <1>6, <3>2, EmptyQueue
    <3>7. state'[s] \notin {"BLOCKED", "KILLED"} =>
            \/ state[s] \notin {"BLOCKED", "KILLED"}
            \/ Dead(c)' \/ Named(sems', WaitName(c)) = {}
      BY <1>6, <3>2
    <3> QED
      BY <1>0, <3>1, <3>5, <3>6, <3>7, WaiterKept
  <2> QED
    BY <2>1 DEF WaitersNamed
<1> QED
  BY <1>8, <1>9, <1>10, <1>11, <1>12, <1>15, <1>16, <1>17, <1>18 DEF SemIInv

\* The queue of a semaphore has room for a process that is awake, because its
\* entries are the pids of others.
LEMMA QueueHasRoom ==
  ASSUME SemIInv, NEW i \in SemIds, NEW me \in Slots, state[me] # "BLOCKED"
  PROVE  Len(sems[i].blocked) < MAX_BLOCKED
<1> DEFINE q == sems[i].blocked
           Sleeper(k, s) == state[s] = "BLOCKED" /\ pid[s] = q[k]
           f == [k \in 1..Len(q) |-> CHOOSE s \in Slots : Sleeper(k, s)]
           Others == Slots \ {me}
<1>0. TableExact(sems) /\ SleepersListed
  BY DEF SemIInv
<1>1. /\ q \in Seq(1..MaxPid) /\ IsInjective(q) /\ Len(q) \in Nat /\ DOMAIN q = 1..Len(q)
  BY <1>0 DEF TableExact, SemEntries, EntryExact
<1>2. ASSUME NEW k \in 1..Len(q)  PROVE f[k] \in Others /\ pid[f[k]] = q[k]
  <2>1. q[k] \in Range(q)
    BY <1>1 DEF Range
  <2>2. \E s \in Slots : Sleeper(k, s)
    BY <1>0, <2>1 DEF SleepersListed
  <2>3. f[k] \in Slots /\ Sleeper(k, f[k])
    BY <2>2
  <2> QED
    BY <2>3
<1> HIDE DEF f, q, Others
<1>3. DOMAIN f = 1..Len(q) /\ f = [k \in 1..Len(q) |-> f[k]]
  BY DEF f
<1>4. f \in Injection(1..Len(q), Others)
  <2>1. f \in [1..Len(q) -> Others]
    BY <1>2, <1>3
  <2>2. \A k, l \in 1..Len(q) : f[k] = f[l] => k = l
    BY <1>1, <1>2 DEF IsInjective
  <2> QED
    BY <1>3, <2>1, <2>2 DEF Injection, IsInjective
<1>5. IsFiniteSet(Slots) /\ Cardinality(Slots) = MAX_PROCESSES
  BY ProcessesAssumption, FS_Interval DEF Slots
<1>6. IsFiniteSet(Others) /\ Cardinality(Others) = MAX_PROCESSES - 1
  BY <1>5, FS_RemoveElement DEF Others
<1>7. Cardinality(1..Len(q)) <= MAX_PROCESSES - 1
  BY <1>4, <1>6, FS_Injection
<1>8. Cardinality(1..Len(q)) = Len(q)
  BY <1>1, FS_Interval
<1> QED
  BY <1>1, <1>7, <1>8, SemaphoresAssumption, ProcessesAssumption DEF q

\* sem_wait queues its process on entry i and blocks it: on a semaphore of the
\* table, or on the one wait_child has just opened for its child.
LEMMA WaitOnSIInv ==
  ASSUME SemIInv, [CarefulNext]_vars, SemSyscall, UNCHANGED <<children, to_wake>>,
         NEW i \in SemIds, NEW T, TableExact(T), T[i].name # NoName,
         \A j \in SemIds :
           /\ T[j].blocked = sems[j].blocked
           /\ \/ T[j].name = sems[j].name /\ T[j].value = sems[j].value
              \/ T[j].name = T[i].name /\ T[j].value = 0,
         NEW c \in [at : At, sem : SemIds \cup {NoSem}, child : 0..MaxPid],
         c.sem = i, WaitOn(T, i, c),
         \/ c.at = "sem_wait" /\ \A j \in SemIds : T[j].name = sems[j].name
         \/ /\ c.at = "wait_child" /\ c.child \in children[current_process]
            /\ T[i].name = WaitName(c.child)
  PROVE  SemIInv'
<1>0. /\ IInv /\ TypeOK /\ PidsBounded /\ CallsTyped
      /\ SleepersListed /\ ChildrenOwned /\ SemsOfCreated /\ TokensFromDead /\ WaitersNamed
  BY DEF SemIInv, IInv
<1>1. PICK me \in Slots : me = current_process
  BY <1>0 DEF SemSyscall, Syscall, TypeOK
<1>2. pid[me] # 0
  BY <1>0, <1>1 DEF SemSyscall, Syscall, IInv, SlotsAccounted, CurrentAccounted
<1>3. PICK p \in 1..MaxPid : p = pid[me]
  BY <1>0, <1>2 DEF PidsBounded
<1>4. /\ to_wake = <<>> /\ to_wake' = <<>> /\ T[i].value = 0 /\ state[me] = "RUNNING"
      /\ sems' = Queued(T, i, p) /\ call[me] = InUserCode
      /\ call' = [call EXCEPT ![me] = c] /\ children' = children
      /\ pid' = pid /\ state' = [state EXCEPT ![me] = "BLOCKED"]
  BY <1>1, <1>3 DEF WaitOn, BlockCurrent, SemSyscall
<1>5. /\ state'[me] = "BLOCKED" /\ call'[me] = c
      /\ \A s \in Slots : s # me => state'[s] = state[s] /\ call'[s] = call[s]
  BY <1>0, <1>4 DEF TypeOK, CallsTyped
\* A process that runs is in no queue.
<1>6. \A j \in SemIds : p \notin Range(sems[j].blocked)
  <2>1. ASSUME NEW j \in SemIds, p \in Range(sems[j].blocked)  PROVE FALSE
    <3>1. PICK s \in Slots : state[s] = "BLOCKED" /\ pid[s] = p
      BY <1>0, <2>1 DEF SleepersListed
    <3>2. s = me
      BY <1>0, <1>2, <1>3, <3>1 DEF IInv, SlotsAccounted, PidsUnique
    <3> QED
      BY <1>4, <3>1, <3>2
  <2> QED
    BY <2>1
<1>7. p \notin Range(T[i].blocked) /\ Len(T[i].blocked) < MAX_BLOCKED
  <2>1. Len(sems[i].blocked) < MAX_BLOCKED
    BY <1>4, QueueHasRoom
  <2> QED
    BY <1>6, <2>1
<1>8. /\ TableExact(sems')
      /\ \A j \in SemIds : j # i => sems'[j] = T[j]
      /\ sems'[i].name = T[i].name /\ sems'[i].value = 0
      /\ Range(sems'[i].blocked) = Range(T[i].blocked) \cup {p}
  <2>1. TableExact(T) /\ T[i].name # NoName
    OBVIOUS
  <2>2. T[i].value = 0 /\ sems' = Queued(T, i, p)
    BY <1>4
  <2> QED
    BY ONLY <1>7, <2>1, <2>2, QueuedResult
<1>9. \A j \in SemIds :
        /\ \A q \in Range(sems'[j].blocked) : q \in Range(sems[j].blocked) \/ (j = i /\ q = p)
        /\ \A q \in Range(sems[j].blocked) : q \in Range(sems'[j].blocked)
        /\ j = i => p \in Range(sems'[j].blocked)
        /\ \/ sems'[j].name = sems[j].name
           \/ sems'[j].name = T[i].name
        /\ sems'[j].value > 0 => sems'[j].name = sems[j].name /\ sems'[j].value = sems[j].value
  <2>1. ASSUME NEW j \in SemIds, j = i
        PROVE  /\ Range(sems'[j].blocked) = Range(sems[j].blocked) \cup {p}
               /\ sems'[j].name = T[i].name /\ sems'[j].value = 0
    BY <1>8, <2>1
  <2>2. ASSUME NEW j \in SemIds, j # i
        PROVE  /\ Range(sems'[j].blocked) = Range(sems[j].blocked)
               /\ sems'[j].name = T[j].name /\ sems'[j].value = T[j].value
    BY <1>8, <2>2
  <2>3. \A j \in SemIds : sems'[j].value > 0 =>
          sems'[j].name = sems[j].name /\ sems'[j].value = sems[j].value
    BY <2>1, <2>2
  <2>4. \A j \in SemIds : sems'[j].name = sems[j].name \/ sems'[j].name = T[i].name
    BY <2>1, <2>2
  <2> QED
    BY <2>1, <2>2, <2>3, <2>4
<1>10. IInv' /\ PidsBounded'
  BY <1>0, NextIInv, PidsStep
<1>11. CallsTyped'
  BY <1>0, <1>4, EmptyQueue DEF CallsTyped
<1>12. WakesAlone'
  BY <1>4 DEF WakesAlone
<1>13. SleepersListed'
  <2>1. ASSUME NEW j \in SemIds, NEW q \in Range(sems'[j].blocked)
        PROVE  /\ q \notin Range(to_wake')
               /\ \E s \in Slots : /\ state'[s] = "BLOCKED" /\ pid'[s] = q
                                   /\ InLoop(s)' /\ call'[s].sem = j
    <3>1. q \notin Range(to_wake')
      BY <1>4, EmptyQueue
    <3>2. CASE q \in Range(sems[j].blocked)
      <4>1. PICK s \in Slots : state[s] = "BLOCKED" /\ pid[s] = q /\ InLoop(s) /\ call[s].sem = j
        BY <1>0, <3>2 DEF SleepersListed
      <4>2. s # me
        BY <1>4, <4>1
      <4>3. InLoop(s)'
        BY <1>5, <4>1, <4>2 DEF InLoop
      <4> QED
        BY <1>4, <1>5, <3>1, <4>1, <4>2, <4>3
    <3>3. CASE j = i /\ q = p
      <4>1. InLoop(me)'
        BY <1>5 DEF InLoop
      <4> QED
        BY <1>3, <1>4, <1>5, <3>1, <3>3, <4>1
    <3> QED
      BY <1>9, <3>2, <3>3
  <2>2. ASSUME NEW s \in Slots, state'[s] = "BLOCKED"
        PROVE  /\ InLoop(s)' /\ call'[s].sem \in SemIds
               /\ pid'[s] \in Range(sems'[call'[s].sem].blocked) \cup Range(to_wake')
    <3>1. CASE s = me
      <4>1. InLoop(me)'
        BY <1>5 DEF InLoop
      <4> QED
        BY <1>3, <1>4, <1>5, <1>9, <3>1, <4>1
    <3>2. CASE s # me
      <4>1. state[s] = "BLOCKED" /\ call'[s] = call[s] /\ pid'[s] = pid[s]
        BY <1>4, <1>5, <2>2, <3>2
      <4>2. InLoop(s) /\ call[s].sem \in SemIds /\ pid[s] \in Range(sems[call[s].sem].blocked)
        BY <1>0, <1>4, <4>1, EmptyQueue DEF SleepersListed
      <4>3. InLoop(s)'
        BY <4>1, <4>2 DEF InLoop
      <4> QED
        BY <1>9, <4>1, <4>2, <4>3
    <3> QED
      BY <3>1, <3>2
  <2> QED
    BY <2>1, <2>2 DEF SleepersListed
<1>14. \A s \in Slots : InWaitpid(s)' =>
         \/ s = me /\ c.at = "wait_child"
         \/ s # me /\ InWaitpid(s) /\ call'[s] = call[s]
  BY <1>5 DEF InWaitpid
<1>15. ChildrenOwned'
  <2>1. \A s \in Slots : InWaitpid(s)' => call'[s].child \in children'[s]
    BY <1>0, <1>1, <1>4, <1>5, <1>14 DEF ChildrenOwned
  <2>2. \A s \in Slots : pid'[s] = 0 => call'[s] = InUserCode /\ children'[s] = {}
    BY <1>0, <1>2, <1>4, <1>5 DEF ChildrenOwned
  <2> QED
    BY <1>0, <1>4, <2>1, <2>2, ChildrenStep
<1>16. SemsOfCreated'
  <2>1. next_pid' = next_pid
    BY DEF WaitOn, BlockCurrent
  <2>2. c.at = "wait_child" => c.child < next_pid
    BY <1>0, <1>1 DEF ChildrenOwned
  <2>3. \A j \in SemIds : \A q \in 1..MaxPid :
          sems'[j].name = WaitName(q) => sems[j].name = WaitName(q) \/ q < next_pid'
    BY <1>8, <1>9, <2>1, <2>2, NamesDistinct
  <2> QED
    BY <1>0, <2>3, SemsOfCreatedStep
<1>17. TokensFromDead'
  <2>1. \A j \in SemIds : \A q \in 1..MaxPid :
          sems'[j].name = WaitName(q) /\ sems'[j].value > 0 =>
            \/ sems[j].name = WaitName(q) /\ sems[j].value > 0
            \/ Dead(q)'
    BY <1>9
  <2> QED
    BY <1>0, <2>1, TokensStep
<1>18. WaitersNamed'
  <2>1. ASSUME NEW s \in Slots, NEW k \in 1..MaxPid, InWaitpid(s)', call'[s].child = k
        PROVE  WaiterNamed(s, k)'
    <3>1. CASE s = me
      <4>1. T[i].name = WaitName(k) /\ call'[s].sem = i
        BY <1>5, <1>14, <2>1, <3>1
      <4>2. Named(sems', WaitName(k)) \subseteq {i}
        BY <1>8, <4>1, NamesDistinct DEF Named, TableExact, NamesUnique
      <4>3. pid'[s] \notin Range(to_wake')
        BY <1>4, EmptyQueue
      <4> QED
        BY <1>5, <3>1, <4>1, <4>2, <4>3 DEF WaiterNamed
    <3>2. CASE s # me
      <4>1. InWaitpid(s) /\ call'[s] = call[s] /\ call[s].child = k /\ k \in children[s]
        BY <1>0, <1>14, <2>1, <3>2 DEF ChildrenOwned
      <4>2. \/ \A j \in SemIds : sems'[j].name = sems[j].name
            \/ WaitName(k) # T[i].name
        <5>1. CASE c.at = "sem_wait"
          BY <1>8, <5>1
        <5>2. CASE c.at = "wait_child"
          <6>1. c.child \in children[me] /\ T[i].name = WaitName(c.child)
            BY <1>1, <5>2
          <6>2. k # c.child
            BY <1>0, <3>2, <4>1, <6>1 DEF ChildrenOwned
          <6> QED
            BY <6>1, <6>2, NamesDistinct
        <5> QED
          BY <5>1, <5>2
      <4>3. Named(sems', WaitName(k)) \subseteq Named(sems, WaitName(k))
        BY <1>9, <4>2 DEF Named
      <4>4. state'[s] = "BLOCKED" =>
              /\ state[s] = "BLOCKED" /\ call'[s].sem = call[s].sem
              /\ pid'[s] \in Range(to_wake') => Named(sems', WaitName(k)) = {}
        BY <1>4, <1>5, <3>2, EmptyQueue
      <4>5. state'[s] \notin {"BLOCKED", "KILLED"} =>
              \/ state[s] \notin {"BLOCKED", "KILLED"}
              \/ Dead(k)' \/ Named(sems', WaitName(k)) = {}
        BY <1>5, <3>2
      <4> QED
        BY <1>0, <4>1, <4>3, <4>4, <4>5, WaiterKept
    <3> QED
      BY <3>1, <3>2
  <2> QED
    BY <2>1 DEF WaitersNamed
<1> QED
  BY <1>8, <1>10, <1>11, <1>12, <1>13, <1>15, <1>16, <1>17, <1>18 DEF SemIInv

LEMMA SemWaitBlocksSIInv ==
  ASSUME SemIInv, [CarefulNext]_vars, NEW i \in UserSems, SemWaitBlocks(i)
  PROVE  SemIInv'
<1> DEFINE c == [at |-> "sem_wait", sem |-> i, child |-> 0]
<1>1. /\ SemSyscall /\ UNCHANGED <<children, to_wake>> /\ WaitOn(sems, i, c)
  BY DEF SemWaitBlocks
<1>2. i \in SemIds /\ sems[i].name # NoName /\ TableExact(sems)
  BY DEF UserSems, Active, SemIInv
<1>3. /\ c \in [at : At, sem : SemIds \cup {NoSem}, child : 0..MaxPid]
      /\ c.sem = i /\ c.at = "sem_wait"
  BY <1>2, MaxPidAssumption DEF At
<1> HIDE DEF c
<1> QED
  BY <1>1, <1>2, <1>3, WaitOnSIInv

LEMMA WaitChildBlocksSIInv ==
  ASSUME SemIInv, [CarefulNext]_vars, NEW p \in OwnChildren, WaitChildBlocks(p)
  PROVE  SemIInv'
<1>0. TableExact(sems) /\ CallsTyped /\ TypeOK
  BY DEF SemIInv, IInv
<1>1. p \in children[current_process] /\ p \in 1..MaxPid
  BY <1>0 DEF OwnChildren, CallsTyped, TypeOK
<1>2. PICK i : i = OpenId(sems, WaitName(p))
  OBVIOUS
<1>3. PICK T : T = Opened(sems, WaitName(p), 0)
  OBVIOUS
<1>4. PICK c : c = [at |-> "wait_child", sem |-> i, child |-> p]
  OBVIOUS
<1>5. /\ SemSyscall /\ UNCHANGED <<children, to_wake>> /\ i # NoSem /\ WaitOn(T, i, c)
  BY <1>2, <1>3, <1>4 DEF WaitChildBlocks
<1>6. WaitName(p) \in SemNames \ {NoName} /\ 0 \in Nat
  BY <1>1, NamesDistinct DEF SemNames
<1>7. /\ i \in SemIds /\ TableExact(T) /\ T[i].name = WaitName(p)
      /\ \A j \in SemIds :
           /\ T[j].blocked = sems[j].blocked
           /\ \/ T[j].name = sems[j].name /\ T[j].value = sems[j].value
              \/ T[j].name = T[i].name /\ T[j].value = 0
  BY <1>0, <1>2, <1>3, <1>5, <1>6, OpenedResult
<1>8. /\ c \in [at : At, sem : SemIds \cup {NoSem}, child : 0..MaxPid]
      /\ c.sem = i /\ c.at = "wait_child" /\ c.child = p
  BY <1>1, <1>4, <1>7 DEF At
<1>9. T[i].name # NoName
  BY <1>7, NamesDistinct
<1> QED
  BY <1>1, <1>5, <1>7, <1>8, <1>9, WaitOnSIInv

\* When no stack goes, nothing that is kept on one goes.
LEMMA NothingFreed ==
  ASSUME SemIInv, pid' = pid
  PROVE  CallsKept(call) = call /\ ChildrenKept(children) = children
BY DEF CallsKept, ChildrenKept, SemIInv, CallsTyped, ChildrenOwned

LEMMA ScanCSIInv ==
  ASSUME SemIInv, [CarefulNext]_vars, ScanC
  PROVE  SemIInv'
<1>1. /\ to_wake = <<>> /\ to_wake' = <<>> /\ fg_scan \in Slots
  <2>1. fg_scan # 0 /\ to_wake' = to_wake
    BY DEF ScanC
  <2> QED
    BY <2>1, ProcessesAssumption DEF SemIInv, WakesAlone, IInv, TypeOK, Slots
<1>2. PICK d \in Slots : d = fg_scan
  BY <1>1
<1>3. CASE Killable(d) /\ foreground[d]
  <2>1. KillEffect(d, DeathWakes(pid[d])) /\ KillSems(d)
    BY <1>2, <1>3 DEF ScanC, CtrlCScan
  <2> QED
    BY <1>1, <1>3, <2>1, KillSIInv
<1>4. CASE ~(Killable(d) /\ foreground[d])
  <2>1. /\ sems' = sems /\ call' = call /\ children' = children
        /\ state' = state /\ pid' = pid
    BY <1>2, <1>4 DEF ScanC, CtrlCScan
  <2>2. IInv'
    BY NextIInv DEF SemIInv
  <2> QED
    BY <1>1, <2>1, <2>2, NothingFreed, InterruptSIInv
<1> QED
  BY <1>3, <1>4

LEMMA TickSIInv ==
  ASSUME SemIInv, [CarefulNext]_vars, Tick \/ InterruptC
  PROVE  SemIInv'
<1>1. IInv /\ IInv'
  BY NextIInv DEF SemIInv
<1>2. CASE Tick
  <2>1. /\ TimerTick /\ to_wake = <<>> /\ to_wake' = to_wake /\ sems' = sems
        /\ call' = CallsKept(call) /\ children' = ChildrenKept(children)
    BY <1>2 DEF Tick
  <2> QED
    BY <1>1, <2>1, TickKeepsSleepers, InterruptSIInv
<1>3. CASE InterruptC
  <2>1. /\ to_wake = <<>> /\ to_wake' = to_wake /\ sems' = sems
        /\ call' = call /\ children' = children /\ state' = state /\ pid' = pid
    BY <1>3 DEF InterruptC, CtrlC, semvars
  <2> QED
    BY <1>1, <2>1, NothingFreed, InterruptSIInv
<1> QED
  BY <1>2, <1>3

LEMMA SemNextIInv ==
  ASSUME SemIInv, [TimelyNext /\ IdleSpared /\ WokenCurrentSurvives]_allvars
  PROVE  SemIInv'
<1>0. [CarefulNext]_vars
  BY CarefulStepIsCareful
<1>1. CASE UNCHANGED allvars
  <2>1. /\ sems' = sems /\ to_wake' = to_wake /\ call' = call /\ children' = children
        /\ UNCHANGED vars
    BY <1>1 DEF allvars, semvars
  <2>2. UNCHANGED <<pid, state, next_pid, fg_scan>>
    BY <2>1 DEF vars
  <2>3. IInv'
    BY <1>0, NextIInv DEF SemIInv
  <2>4. TableExact(sems') /\ PidsBounded' /\ CallsTyped' /\ WakesAlone' /\ SemsOfCreated'
    BY <2>1, <2>2 DEF SemIInv, PidsBounded, CallsTyped, WakesAlone, SemsOfCreated
  <2>5. SleepersListed'
    BY <2>1, <2>2 DEF SemIInv, SleepersListed, InLoop
  <2>6. ChildrenOwned'
    BY <2>1, <2>2 DEF SemIInv, ChildrenOwned, InWaitpid
  <2>7. TokensFromDead' /\ WaitersNamed'
    BY <2>1, <2>2 DEF SemIInv, TokensFromDead, WaitersNamed, WaiterNamed, InWaitpid, Dead, Named
  <2> QED
    BY <2>3, <2>4, <2>5, <2>6, <2>7 DEF SemIInv
<1>2. ASSUME TimelyNext  PROVE SemIInv'
  <2>1. ASSUME NEW prio \in UserPriorities, NEW fg \in BOOLEAN, Spawn(prio, fg)
        PROVE  SemIInv'
    BY <1>0, <2>1, SpawnSIInv
  <2>2. CASE Exit
    <3>1. Die("exited") /\ to_wake = <<>> /\ call[current_process].at = "user"
      BY <2>2 DEF Exit, SemSyscall, InUserCode
    <3> QED
      BY <1>0, <3>1, DieSIInv
  <2>3. CASE Trampoline
    <3>1. /\ Die("halted") /\ to_wake = <<>>
          /\ call[current_process].at \in {"user", "exited"}
      BY <2>3 DEF Trampoline
    <3> QED
      BY <1>0, <3>1, DieSIInv
  <2>4. ASSUME NEW s \in Slots, Kill(s)  PROVE SemIInv'
    <3>1. /\ to_wake = <<>> /\ to_wake' = <<>> /\ Killable(s)
          /\ KillEffect(s, DeathWakes(pid[s])) /\ KillSems(s)
      BY <2>4 DEF Kill, SemSyscall, KillProcess
    <3> QED
      BY <1>0, <3>1, KillSIInv
  <2>5. CASE InterruptC \/ Tick
    BY <1>0, <2>5, TickSIInv
  <2>6. CASE ScanC
    BY <1>0, <2>6, ScanCSIInv
  <2>7. ASSUME NEW n \in Names, NEW v \in InitialValues, SemOpen(UserName(n), v)
        PROVE  SemIInv'
    BY <2>7, SemOpenSIInv
  <2>8. ASSUME NEW i \in UserSems,
               SemClose(i) \/ SemPost(i) \/ SemWaitTakes(i) \/ SemWaitBlocks(i)
        PROVE  SemIInv'
    <3>1. i \in SemIds
      BY DEF UserSems, Active
    <3> QED
      BY <1>0, <2>8, <3>1, SemCloseSIInv, SemPostSIInv, SemWaitTakesSIInv, SemWaitBlocksSIInv
  <2>9. CASE WakeNext
    BY <1>0, <2>9, WakeNextSIInv
  <2>10. ASSUME NEW p \in OwnChildren,
                WaitChildFails(p) \/ WaitChildBlocks(p) \/ WaitChildReturns(p)
         PROVE  SemIInv'
    BY <1>0, <2>10, WaitChildFailsSIInv, WaitChildBlocksSIInv, WaitChildReturnsSIInv
  <2>11. CASE LeaveWait
    BY <2>11, LeaveWaitSIInv
  <2> QED
    BY <1>2, <2>1, <2>2, <2>3, <2>4, <2>5, <2>6, <2>7, <2>8, <2>9, <2>10, <2>11 DEF TimelyNext
<1> QED
  BY <1>1, <1>2

-----------------------------------------------------------------------------
(* The theorems.                                                           *)

\* The tables of processes and semaphores keep their types, and no queue is
\* longer than blocked_pids.
THEOREM SemaphoresTypeCorrect == CarefulSemSpec => []SemTypeOK
<1>1. ASSUME SemIInv  PROVE SemTypeOK
  <2>1. TypeOK /\ CallsTyped /\ TableExact(sems)
    BY <1>1 DEF SemIInv, IInv
  <2> QED
    BY <2>1 DEF SemTypeOK, CallsTyped, TableExact, EntryExact, SemEntries, SemNames
<1> QED
  BY <1>1, SemInitIInv, SemNextIInv, PTL DEF CarefulSemSpec

\* No wake-up is lost and no pid stays queued, however kill, exit, sem_post,
\* sem_close and waitpid interleave: every queue holds exactly its sleepers.
THEOREM QueuesHoldSleepers == CarefulSemSpec => []SleepersExact
<1>1. ASSUME SemIInv  PROVE SleepersExact
  <2>0. IInv /\ TableExact(sems) /\ SleepersListed
    BY <1>1 DEF SemIInv
  <2>1. ASSUME NEW i \in SemIds  PROVE IsInjective(sems[i].blocked)
    BY <2>0 DEF TableExact, EntryExact
  <2>2. ASSUME NEW i \in SemIds, NEW p \in QueuedOn(i)
        PROVE  p \in {pid[s] : s \in SleepersOn(i)} \ Range(to_wake)
    BY <2>0 DEF SleepersListed, QueuedOn, SleepersOn
  <2>3. ASSUME NEW i \in SemIds, NEW s \in SleepersOn(i), pid[s] \notin Range(to_wake)
        PROVE  pid[s] \in QueuedOn(i)
    BY <2>0, <2>3 DEF SleepersListed, QueuedOn, SleepersOn
  <2>4. \A i \in SemIds : QueuedOn(i) = {pid[s] : s \in SleepersOn(i)} \ Range(to_wake)
    BY <2>2, <2>3
  <2> QED
    BY <2>0, <2>1, <2>4 DEF SleepersExact, SleepersListed
<1> QED
  BY <1>1, SemInitIInv, SemNextIInv, PTL DEF CarefulSemSpec

\* sem_post never leaves a token beside a waiter.
THEOREM TokensHandedOver == CarefulSemSpec => []NoTokenWhileWaiting
<1>1. SemIInv => NoTokenWhileWaiting
  BY DEF SemIInv, TableExact, EntryExact, NoTokenWhileWaiting
<1> QED
  BY <1>1, SemInitIInv, SemNextIInv, PTL DEF CarefulSemSpec

\* A process leaves the list of children of one that is alive only in waitpid:
\* with a token of the child, or awake after its wait.
LEMMA ForgottenIsDead ==
  ASSUME SemIInv, [TimelyNext /\ IdleSpared /\ WokenCurrentSurvives]_allvars,
         NEW s \in Slots, NEW t \in Slots, ReturnsFrom(s, t),
         Named(sems, WaitName(pid[t])) # {}
  PROVE  state[t] = "KILLED"
<1>0. /\ IInv /\ TypeOK /\ TableExact(sems) /\ PidsBounded /\ CallsTyped
      /\ ChildrenOwned /\ TokensFromDead /\ WaitersNamed
  BY DEF SemIInv, IInv
<1>1. PICK p \in 1..MaxPid : p = pid[t]
  BY <1>0 DEF ReturnsFrom, CallsTyped
<1>2. /\ p \in children[s] /\ p \notin children'[s] /\ state[s] # "KILLED" /\ pid'[s] # 0
      /\ Named(sems, WaitName(p)) # {}
  BY <1>1 DEF ReturnsFrom
<1>3. Dead(p) => state[t] = "KILLED"
  BY <1>1 DEF Dead
<1>4. children' # children
  BY <1>2
<1>5. TimelyNext
  BY <1>4 DEF allvars, semvars
<1>6. ASSUME children' = ChildrenKept(children)  PROVE FALSE
  BY <1>2, <1>6 DEF ChildrenKept
<1>7. ASSUME NEW q, Forget(q)  PROVE s = current_process /\ q = p
  BY <1>0, <1>2, <1>7 DEF Forget, CallsTyped
<1>8. ASSUME NEW q \in OwnChildren, WaitChildFails(q)  PROVE FALSE
  <2>1. q = p /\ OpenId(sems, WaitName(q)) = NoSem
    BY <1>7, <1>8 DEF WaitChildFails
  <2>2. WaitName(p) \in SemNames \ {NoName} /\ 0 \in Nat
    BY NamesDistinct DEF SemNames
  <2> QED
    BY <1>0, <1>2, <2>1, <2>2, OpenedResult
<1>9. ASSUME NEW q \in OwnChildren, WaitChildReturns(q)  PROVE state[t] = "KILLED"
  <2>1. PICK i : i = OpenId(sems, WaitName(q))
    OBVIOUS
  <2>2. /\ q = p /\ i # NoSem /\ Opened(sems, WaitName(q), 0)[i].value > 0
    BY <1>7, <1>9, <2>1 DEF WaitChildReturns, ReturnAtOnce
  <2>3. i \in SemIds /\ sems[i].name = WaitName(p)
    <3>1. Named(sems, WaitName(p)) \in SUBSET SemIds
      BY DEF Named
    <3> QED
      BY <1>2, <2>1, <2>2, <3>1, LeastResult DEF OpenId, Named
  <2>4. sems[i].value > 0
    <3>1. i \in Active(sems)
      BY <2>3, NamesDistinct DEF Active
    <3>2. Opened(sems, WaitName(q), 0) = [sems EXCEPT ![i].users = @ + 1]
      BY <2>1, <2>2, <3>1 DEF Opened
    <3>3. [sems EXCEPT ![i].users = @ + 1][i].value = sems[i].value
      BY <1>0, <2>3 DEF TableExact, SemEntries
    <3> QED
      BY <2>2, <3>2, <3>3
  <2> QED
    BY <1>0, <1>3, <2>3, <2>4 DEF TokensFromDead
<1>10. CASE LeaveWait
  <2>1. /\ Awake(current_process) /\ call[current_process].at = "closing"
        /\ Forget(call[current_process].child)
    BY <1>4, <1>10 DEF LeaveWait
  <2>2. s = current_process /\ call[s].child = p /\ InWaitpid(s)
    BY <1>7, <2>1 DEF InWaitpid
  <2>3. Dead(p)
    BY <1>0, <1>2, <2>1, <2>2 DEF WaitersNamed, WaiterNamed, Awake
  <2> QED
    BY <1>3, <2>3
<1>11. ASSUME NEW prio, NEW fg, Spawn(prio, fg)  PROVE FALSE
  BY <1>0, <1>2, <1>11 DEF Spawn, CallsTyped
<1>12. CASE \/ Exit \/ Trampoline \/ InterruptC \/ WakeNext
            \/ \E n \in Names, v \in InitialValues : SemOpen(UserName(n), v)
            \/ \E i \in UserSems :
                 SemClose(i) \/ SemPost(i) \/ SemWaitTakes(i) \/ SemWaitBlocks(i)
            \/ \E q \in OwnChildren : WaitChildBlocks(q)
  BY <1>4, <1>12 DEF Exit, Trampoline, Die, InterruptC, semvars, WakeNext, SemOpen, SemClose,
                     SemPost, SemWaitTakes, SemWaitBlocks, WaitChildBlocks
<1>13. CASE Tick \/ ScanC \/ \E d \in Slots : Kill(d)
  BY <1>4, <1>6, <1>13 DEF Tick, ScanC, Kill, KillSems
<1> QED
  BY <1>5, <1>8, <1>9, <1>10, <1>11, <1>12, <1>13 DEF TimelyNext

\* waitpid is never cut short while the wait semaphore of the child exists: by
\* no wake-up meant for another, no reused semaphore, no kill of somebody else.
THEOREM WaitpidReturnsAfterDeath == CarefulSemSpec => WaitMeansDead
<1> DEFINE A == \A s, t \in Slots :
                  ReturnsFrom(s, t) /\ Named(sems, WaitName(pid[t])) # {}
                    => state[t] = "KILLED"
<1>1. SemIInv /\ [TimelyNext /\ IdleSpared /\ WokenCurrentSurvives]_allvars => [A]_allvars
  BY ForgottenIsDead
<1>2. WaitMeansDead <=> [][A]_allvars
  BY DEF WaitMeansDead
<1> HIDE DEF A
<1> QED
  BY <1>1, <1>2, SemInitIInv, SemNextIInv, PTL DEF CarefulSemSpec
=============================================================================
