--------------------------- MODULE SchedulerProofs ---------------------------
(***************************************************************************)
(* Proofs about Scheduler for every table size, number of priority levels  *)
(* and quantum: the queues and the table stay consistent, and no step      *)
(* frees a stack in use.                                                   *)
(***************************************************************************)
EXTENDS Scheduler, SequenceTheorems, WellFoundedInduction, TLAPS

\* A search from the first entry on finds the least of those it looks for.
LEMMA LeastExists ==
  ASSUME NEW S \in SUBSET Nat, S # {}
  PROVE  \E x \in S : \A y \in S : x <= y
<1>1. PICK x \in S : \A y \in S : ~(<<y, x>> \in OpToRel(<, Nat))
  BY NatLessThanWellFounded, WFMin
<1>2. \A y \in S : ~(y < x)
  BY <1>1 DEF OpToRel
<1>3. \A y \in S : x <= y
  BY <1>2
<1> QED
  BY <1>3

-----------------------------------------------------------------------------
(* The queue operations.                                                   *)

LEMMA UnlinkResult ==
  ASSUME NEW q \in Seq(Slots), NEW s \in Slots,
         \A i, j \in 1..Len(q) : q[i] = q[j] => i = j
  PROVE  /\ Unlink(q, s) \in Seq(Slots)
         /\ \A t \in Slots : InQueue(Unlink(q, s), t) <=> InQueue(q, t) /\ t # s
         /\ \A i, j \in 1..Len(Unlink(q, s)) :
              Unlink(q, s)[i] = Unlink(q, s)[j] => i = j
<1>1. CASE ~InQueue(q, s)
  BY <1>1 DEF Unlink, InQueue
<1>2. CASE InQueue(q, s)
  <2> DEFINE k == CHOOSE i \in 1..Len(q) : q[i] = s
             u == [i \in 1..(Len(q) - 1) |-> IF i < k THEN q[i] ELSE q[i + 1]]
  <2>1. k \in 1..Len(q) /\ q[k] = s
    BY <1>2 DEF InQueue
  <2>2. Unlink(q, s) = u
    BY <1>2 DEF Unlink
  <2> HIDE DEF k
  <2>3. Len(q) - 1 \in Nat /\ \A i \in 1..Len(q) : q[i] \in Slots
    BY <2>1
  <2>4. u \in Seq(Slots) /\ Len(u) = Len(q) - 1
    BY <2>1, <2>3
  <2>5. \A i, j \in 1..Len(u) : u[i] = u[j] => i = j
    BY <2>1, <2>4
  <2>6. ASSUME NEW t \in Slots
        PROVE  InQueue(u, t) <=> InQueue(q, t) /\ t # s
    <3>1. ASSUME InQueue(u, t)  PROVE InQueue(q, t) /\ t # s
      <4>1. PICK i \in 1..Len(u) : u[i] = t
        BY <3>1 DEF InQueue
      <4> QED
        BY <4>1, <2>1, <2>4 DEF InQueue
    <3>2. ASSUME InQueue(q, t), t # s  PROVE InQueue(u, t)
      <4>1. PICK i \in 1..Len(q) : q[i] = t
        BY <3>2 DEF InQueue
      <4>2. CASE i < k
        BY <4>1, <4>2, <2>1, <2>4 DEF InQueue
      <4>3. CASE i > k
        <5>1. i - 1 \in 1..Len(u) /\ u[i - 1] = q[i]
          BY <4>3, <2>1, <2>4
        <5> QED
          BY <5>1, <4>1 DEF InQueue
      <4> QED
        BY <4>1, <4>2, <4>3, <3>2, <2>1
    <3> QED
      BY <3>1, <3>2
  <2> QED
    BY <2>2, <2>4, <2>5, <2>6
<1> QED
  BY <1>1, <1>2

LEMMA AppendResult ==
  ASSUME NEW q \in Seq(Slots), NEW s \in Slots,
         \A i, j \in 1..Len(q) : q[i] = q[j] => i = j,
         ~InQueue(q, s)
  PROVE  /\ Append(q, s) \in Seq(Slots)
         /\ \A t \in Slots : InQueue(Append(q, s), t) <=> InQueue(q, t) \/ t = s
         /\ \A i, j \in 1..Len(Append(q, s)) :
              Append(q, s)[i] = Append(q, s)[j] => i = j
<1>1. /\ Append(q, s) \in Seq(Slots)
      /\ Len(Append(q, s)) = Len(q) + 1
      /\ Append(q, s)[Len(q) + 1] = s
      /\ \A i \in 1..Len(q) : Append(q, s)[i] = q[i]
  OBVIOUS
<1>2. ASSUME NEW t \in Slots
      PROVE  InQueue(Append(q, s), t) <=> InQueue(q, t) \/ t = s
  BY <1>1 DEF InQueue
<1>3. \A i, j \in 1..Len(Append(q, s)) :
        Append(q, s)[i] = Append(q, s)[j] => i = j
  BY <1>1 DEF InQueue
<1> QED
  BY <1>1, <1>2, <1>3

-----------------------------------------------------------------------------
(* QueuesExact for given queues, states and priorities.                    *)

Distinct(q) == \A i, j \in 1..Len(q) : q[i] = q[j] => i = j

LinkedExactly(rq, st, pr) ==
  \A p \in Priorities :
    /\ Distinct(rq[p])
    /\ \A s \in Slots : InQueue(rq[p], s) <=> st[s] = "READY" /\ pr[s] = p

LEMMA EnqueueExact ==
  ASSUME TypeOK,
         NEW rq \in [Priorities -> Seq(Slots)], NEW st \in [Slots -> States],
         LinkedExactly(rq, st, priority),
         NEW s \in Slots, st[s] # "READY"
  PROVE  /\ Enqueue(rq, s) \in [Priorities -> Seq(Slots)]
         /\ LinkedExactly(Enqueue(rq, s), [st EXCEPT ![s] = "READY"], priority)
<1> DEFINE new == [st EXCEPT ![s] = "READY"]
<1>1. priority[s] \in Priorities /\ ~InQueue(rq[priority[s]], s)
  BY DEF LinkedExactly, TypeOK
<1>2. /\ Append(rq[priority[s]], s) \in Seq(Slots)
      /\ \A t \in Slots : InQueue(Append(rq[priority[s]], s), t)
                           <=> InQueue(rq[priority[s]], t) \/ t = s
      /\ Distinct(Append(rq[priority[s]], s))
  BY <1>1, AppendResult DEF LinkedExactly, Distinct
<1>3. Enqueue(rq, s) \in [Priorities -> Seq(Slots)]
  BY <1>2 DEF Enqueue
<1>4. ASSUME NEW p \in Priorities
      PROVE  /\ Distinct(Enqueue(rq, s)[p])
             /\ \A t \in Slots : InQueue(Enqueue(rq, s)[p], t)
                                <=> new[t] = "READY" /\ priority[t] = p
  <2>1. CASE p = priority[s]
    <3>1. Enqueue(rq, s)[p] = Append(rq[priority[s]], s)
      BY <2>1 DEF Enqueue
    <3> QED
      BY <3>1, <2>1, <1>2 DEF LinkedExactly
  <2>2. CASE p # priority[s]
    <3>1. Enqueue(rq, s)[p] = rq[p]
      BY <2>2 DEF Enqueue
    <3> QED
      BY <3>1, <2>2 DEF LinkedExactly
  <2> QED
    BY <2>1, <2>2
<1> QED
  BY <1>3, <1>4 DEF LinkedExactly

LEMMA DequeueExact ==
  ASSUME TypeOK,
         NEW rq \in [Priorities -> Seq(Slots)], NEW st \in [Slots -> States],
         LinkedExactly(rq, st, priority),
         NEW s \in Slots, st[s] = "READY", NEW x \in States \ {"READY"}
  PROVE  /\ Dequeue(rq, s) \in [Priorities -> Seq(Slots)]
         /\ LinkedExactly(Dequeue(rq, s), [st EXCEPT ![s] = x], priority)
<1> DEFINE new == [st EXCEPT ![s] = x]
<1>1. priority[s] \in Priorities
  BY DEF TypeOK
<1>2. /\ Unlink(rq[priority[s]], s) \in Seq(Slots)
      /\ \A t \in Slots : InQueue(Unlink(rq[priority[s]], s), t)
                           <=> InQueue(rq[priority[s]], t) /\ t # s
      /\ Distinct(Unlink(rq[priority[s]], s))
  BY <1>1, UnlinkResult DEF LinkedExactly, Distinct
<1>3. Dequeue(rq, s) \in [Priorities -> Seq(Slots)]
  BY <1>2 DEF Dequeue
<1>4. ASSUME NEW p \in Priorities
      PROVE  /\ Distinct(Dequeue(rq, s)[p])
             /\ \A t \in Slots : InQueue(Dequeue(rq, s)[p], t)
                                <=> new[t] = "READY" /\ priority[t] = p
  <2>1. CASE p = priority[s]
    <3>1. Dequeue(rq, s)[p] = Unlink(rq[priority[s]], s)
      BY <2>1 DEF Dequeue
    <3> QED
      BY <3>1, <2>1, <1>2 DEF LinkedExactly
  <2>2. CASE p # priority[s]
    <3>1. Dequeue(rq, s)[p] = rq[p]
      BY <2>2 DEF Dequeue
    <3> QED
      BY <3>1, <2>2 DEF LinkedExactly
  <2> QED
    BY <2>1, <2>2
<1> QED
  BY <1>3, <1>4 DEF LinkedExactly

LEMMA WokenExact ==
  ASSUME TypeOK, QueuesExact, NEW w \in Waiters \cup {NoProc}
  PROVE  /\ WokenState(w) \in [Slots -> States]
         /\ WokenQueues(w) \in [Priorities -> Seq(Slots)]
         /\ LinkedExactly(WokenQueues(w), WokenState(w), priority)
<1>1. LinkedExactly(ready_queues, state, priority)
  BY DEF QueuesExact, LinkedExactly, Distinct
<1>2. CASE w = NoProc
  BY <1>1, <1>2 DEF WokenState, WokenQueues, TypeOK
<1>3. CASE w \in Waiters /\ w # NoProc
  <2>1. w \in Slots /\ state[w] # "READY"
    BY <1>3 DEF Waiters
  <2>2. /\ Enqueue(ready_queues, w) \in [Priorities -> Seq(Slots)]
        /\ LinkedExactly(Enqueue(ready_queues, w), [state EXCEPT ![w] = "READY"], priority)
    BY <1>1, <2>1, EnqueueExact DEF TypeOK
  <2> QED
    BY <1>3, <2>1, <2>2 DEF WokenState, WokenQueues, TypeOK, States
<1> QED
  BY <1>2, <1>3

-----------------------------------------------------------------------------
(* The inductive invariant.                                                *)

IInv == TypeOK /\ QueuesExact /\ SlotsAccounted

LEMMA InitIInv == Init => IInv
<1> SUFFICES ASSUME Init PROVE IInv
  OBVIOUS
<1> USE ProcessesAssumption, PriorityAssumption, QuantumAssumption
<1>1. TypeOK
  <2>1. ready_queues \in [Priorities -> Seq(Slots)]
    <3>1. <<>> \in Seq(Slots) /\ <<Idle>> \in Seq(Slots) /\ <<Shell>> \in Seq(Slots)
          /\ <<Idle, Shell>> \in Seq(Slots)
      BY DEF Slots, Idle, Shell
    <3> QED
      BY <3>1 DEF Init
  <2>2. pid \in [Slots -> Nat] /\ state \in [Slots -> States]
        /\ foreground \in [Slots -> BOOLEAN]
    BY DEF Init, Slots, States, Idle, Shell
  <2>3. priority \in [Slots -> Priorities]
    BY DEF Init, Slots, Priorities, Idle
  <2>4. /\ current_process \in Slots \cup {NoProc} /\ to_free \in Slots \cup {NoProc}
        /\ quantum \in 0..QUANTUM /\ next_pid \in Nat /\ fg_scan \in 0..MAX_PROCESSES
    BY DEF Init, NoProc
  <2> QED
    BY <2>1, <2>2, <2>3, <2>4 DEF TypeOK
<1>2. QueuesExact
  <2> SUFFICES ASSUME NEW p \in Priorities
               PROVE  /\ \A i, j \in 1..Len(ready_queues[p]) :
                           ready_queues[p][i] = ready_queues[p][j] => i = j
                      /\ \A s \in Slots : InQueue(ready_queues[p], s)
                                         <=> state[s] = "READY" /\ priority[s] = p
    BY DEF QueuesExact
  <2>1. \A s \in Slots : state[s] = "READY" /\ priority[s] = p
                         <=> \/ s = Idle /\ p = PRIORITY_LEVELS - 1
                             \/ s = Shell /\ p = DEFAULT_PRIORITY
    BY DEF Init, Idle, Shell
  <2>2. CASE DEFAULT_PRIORITY = PRIORITY_LEVELS - 1
    BY <2>1, <2>2 DEF Init, InQueue, Idle, Shell
  <2>3. CASE DEFAULT_PRIORITY # PRIORITY_LEVELS - 1
    BY <2>1, <2>3 DEF Init, InQueue, Idle, Shell
  <2> QED
    BY <2>2, <2>3
<1>3. SlotsAccounted
  BY DEF Init, SlotsAccounted, StacksAccounted, CurrentAccounted, PidsUnique,
         Slots, Idle, Shell, NoProc
<1> QED
  BY <1>1, <1>2, <1>3 DEF IInv

LEMMA CreateProcessIInv ==
  ASSUME IInv, NEW prio \in Priorities \cup {-1}, NEW fg \in BOOLEAN,
         CreateProcess(prio, fg)
  PROVE  IInv'
<1> DEFINE p == EffectivePriority(prio)
<1>1. p \in Priorities
  BY PriorityAssumption DEF EffectivePriority, Priorities
<1>2. PICK s \in FreeSlots :
        /\ pid' = [pid EXCEPT ![s] = next_pid]
        /\ state' = [state EXCEPT ![s] = "READY"]
        /\ priority' = [priority EXCEPT ![s] = p]
        /\ foreground' = [foreground EXCEPT ![s] = fg]
        /\ ready_queues' = [ready_queues EXCEPT ![p] = Append(@, s)]
  BY DEF CreateProcess
<1>3. /\ s \in Slots /\ state[s] = "KILLED" /\ pid[s] = 0
      /\ next_pid' = next_pid + 1
      /\ UNCHANGED <<current_process, quantum, to_free, fg_scan>>
  BY DEF FreeSlots, CreateProcess
<1>4. /\ Append(ready_queues[p], s) \in Seq(Slots)
      /\ \A t \in Slots : InQueue(Append(ready_queues[p], s), t)
                           <=> InQueue(ready_queues[p], t) \/ t = s
      /\ Distinct(Append(ready_queues[p], s))
  BY <1>1, <1>3, AppendResult DEF IInv, TypeOK, QueuesExact, Distinct
<1> HIDE DEF p
<1>5. TypeOK'
  BY <1>1, <1>2, <1>3, <1>4 DEF IInv, TypeOK, States
<1>6. QueuesExact'
  <2> SUFFICES ASSUME NEW r \in Priorities
               PROVE  /\ Distinct(ready_queues'[r])
                      /\ \A t \in Slots : InQueue(ready_queues'[r], t)
                                         <=> state'[t] = "READY" /\ priority'[t] = r
    BY DEF QueuesExact, Distinct
  <2>1. CASE r = p
    <3>1. ready_queues'[r] = Append(ready_queues[p], s)
      BY <2>1, <1>2 DEF IInv, TypeOK
    <3> QED
      BY <3>1, <2>1, <1>2, <1>3, <1>4 DEF IInv, TypeOK, QueuesExact
  <2>2. CASE r # p
    <3>1. ready_queues'[r] = ready_queues[r]
      BY <2>2, <1>2 DEF IInv, TypeOK
    <3> QED
      BY <3>1, <2>2, <1>2, <1>3 DEF IInv, TypeOK, QueuesExact, Distinct
  <2> QED
    BY <2>1, <2>2
<1>7. StacksAccounted'
  BY <1>2, <1>3 DEF IInv, TypeOK, SlotsAccounted, StacksAccounted, CurrentAccounted,
                    PidsUnique, NoProc
<1>8. CurrentAccounted'
  BY <1>2, <1>3 DEF IInv, TypeOK, SlotsAccounted, CurrentAccounted, PidsUnique,
                    NoProc
<1>9. PidsUnique'
  <2> SUFFICES ASSUME NEW t \in Slots, NEW u \in Slots
               PROVE  /\ pid'[t] < next_pid'
                      /\ pid'[t] # 0 /\ pid'[t] = pid'[u] => t = u
    BY DEF PidsUnique
  <2>1. /\ pid[t] < next_pid /\ pid[u] < next_pid
        /\ pid[t] # 0 /\ pid[t] = pid[u] => t = u
        /\ pid[t] \in Nat /\ pid[u] \in Nat /\ next_pid \in Nat
    BY DEF IInv, TypeOK, SlotsAccounted, PidsUnique
  <2>2. /\ pid'[t] = IF t = s THEN next_pid ELSE pid[t]
        /\ pid'[u] = IF u = s THEN next_pid ELSE pid[u]
    BY <1>2, <1>3 DEF IInv, TypeOK
  <2> QED
    BY <2>1, <2>2, <1>3
<1> QED
  BY <1>5, <1>6, <1>7, <1>8, <1>9 DEF IInv, SlotsAccounted

\* Only the state of the woken process changes, from BLOCKED to READY.
LEMMA WokenStateResult ==
  ASSUME TypeOK, NEW w \in Waiters \cup {NoProc}
  PROVE  \A s \in Slots :
           \/ WokenState(w)[s] = state[s]
           \/ s = w /\ state[s] = "BLOCKED" /\ WokenState(w)[s] = "READY"
BY DEF TypeOK, WokenState, Waiters, NoProc, Slots

LEMMA ExitCurrentIInv ==
  ASSUME IInv, NEW w \in Waiters \cup {NoProc}, ExitCurrent(w),
         IdleSpared, WokenCurrentSurvives
  PROVE  IInv'
<1> DEFINE c == current_process
           st == WokenState(w)
<1>1. /\ c \in Slots /\ c # NoProc /\ c # Idle
      /\ state' = [st EXCEPT ![c] = "KILLED"]
      /\ ready_queues' = WokenQueues(w)
      /\ quantum' \in 0..QUANTUM
      /\ UNCHANGED <<pid, priority, foreground, current_process, to_free,
                     next_pid, fg_scan>>
  BY QuantumAssumption DEF ExitCurrent, Syscall, IInv, TypeOK
<1>2. /\ st \in [Slots -> States]
      /\ WokenQueues(w) \in [Priorities -> Seq(Slots)]
      /\ LinkedExactly(WokenQueues(w), st, priority)
  BY WokenExact DEF IInv
<1>3. \A s \in Slots :
        \/ st[s] = state[s]
        \/ s = w /\ state[s] = "BLOCKED" /\ st[s] = "READY"
  BY WokenStateResult DEF IInv
<1> HIDE DEF st
<1>4. TypeOK'
  BY <1>1, <1>2 DEF IInv, TypeOK, States
<1>5. st[c] # "READY"
  <2>1. state'[c] = "KILLED"
    BY <1>1, <1>2
  <2>2. \A p \in Priorities : ~InQueue(ready_queues'[p], c)
    BY <2>1, <1>1 DEF WokenCurrentSurvives
  <2>3. priority[c] \in Priorities
    BY <1>1 DEF IInv, TypeOK
  <2> QED
    BY <2>2, <2>3, <1>1, <1>2 DEF LinkedExactly
<1>6. QueuesExact'
  BY <1>1, <1>2, <1>5 DEF LinkedExactly, Distinct, QueuesExact
<1>7. StacksAccounted'
  BY <1>1, <1>2, <1>3 DEF IInv, TypeOK, SlotsAccounted, StacksAccounted, NoProc
<1>8. CurrentAccounted'
  <2>1. state'[Idle] \in {"READY", "RUNNING"}
    <3>1. Idle \in Slots
      BY ProcessesAssumption DEF Idle, Slots
    <3> QED
      BY <3>1, <1>1, <1>2, <1>3 DEF IInv, SlotsAccounted, CurrentAccounted
  <2>2. \A t \in Slots : state'[t] = "RUNNING" => t = current_process
    BY <1>1, <1>2, <1>3 DEF IInv, SlotsAccounted, CurrentAccounted
  <2> QED
    BY <2>1, <2>2, <1>1 DEF CurrentAccounted, IInv, SlotsAccounted
<1>9. PidsUnique'
  BY <1>1 DEF IInv, SlotsAccounted, PidsUnique
<1> QED
  BY <1>4, <1>6, <1>7, <1>8, <1>9 DEF IInv, SlotsAccounted

\* kill_process, whoever calls it.
LEMMA KillEffectIInv ==
  ASSUME IInv, NEW s \in Slots, NEW w \in Waiters \cup {NoProc},
         Killable(s), KillEffect(s, w), fg_scan' \in 0..MAX_PROCESSES,
         UNCHANGED <<priority, foreground, current_process, quantum, to_free,
                     next_pid>>,
         IdleSpared, WokenCurrentSurvives
  PROVE  IInv'
<1> DEFINE st == WokenState(w)
<1>1. /\ state' = [st EXCEPT ![s] = "KILLED"]
      /\ ready_queues' = IF s # current_process /\ st[s] = "READY"
                           THEN Dequeue(WokenQueues(w), s) ELSE WokenQueues(w)
      /\ pid' = IF s = current_process THEN pid ELSE [pid EXCEPT ![s] = 0]
      /\ state[s] # "KILLED" /\ pid[s] # 0
  BY DEF KillEffect, PidsAfterKill, Killable
<1>2. /\ st \in [Slots -> States]
      /\ WokenQueues(w) \in [Priorities -> Seq(Slots)]
      /\ LinkedExactly(WokenQueues(w), st, priority)
  BY WokenExact DEF IInv
<1>3. \A t \in Slots :
        \/ st[t] = state[t]
        \/ t = w /\ state[t] = "BLOCKED" /\ st[t] = "READY"
  BY WokenStateResult DEF IInv
<1> HIDE DEF st
<1>4. /\ ready_queues' \in [Priorities -> Seq(Slots)]
      /\ LinkedExactly(ready_queues', state', priority)
  <2>1. CASE s # current_process /\ st[s] = "READY"
    BY <2>1, <1>1, <1>2, DequeueExact DEF IInv, States
  <2>2. CASE st[s] # "READY"
    BY <2>2, <1>1, <1>2 DEF LinkedExactly
  <2>3. CASE s = current_process /\ st[s] = "READY"
    <3>1. state'[current_process] = "KILLED" /\ current_process # NoProc
      BY <2>3, <1>1, <1>2 DEF Slots, NoProc
    <3>2. \A p \in Priorities : ~InQueue(ready_queues'[p], current_process)
      BY <3>1 DEF WokenCurrentSurvives
    <3>3. priority[s] \in Priorities
      BY DEF IInv, TypeOK
    <3> QED
      BY <2>3, <3>2, <3>3, <1>1, <1>2 DEF LinkedExactly
  <2> QED
    BY <2>1, <2>2, <2>3
<1>5. TypeOK'
  BY <1>1, <1>2, <1>4 DEF IInv, TypeOK, States
<1>6. QueuesExact'
  BY <1>4 DEF LinkedExactly, Distinct, QueuesExact
<1>7. StacksAccounted'
  BY <1>1, <1>2, <1>3 DEF IInv, TypeOK, SlotsAccounted, StacksAccounted, NoProc
<1>8. CurrentAccounted'
  <2>1. state'[Idle] \in {"READY", "RUNNING"}
    <3>1. Idle \in Slots /\ s # Idle
      BY <1>1, <1>2, ProcessesAssumption DEF IdleSpared, Idle, Slots
    <3> QED
      BY <3>1, <1>1, <1>2, <1>3 DEF IInv, SlotsAccounted, CurrentAccounted
  <2>2. \A t \in Slots : state'[t] = "RUNNING" => t = current_process
    BY <1>1, <1>2, <1>3 DEF IInv, SlotsAccounted, CurrentAccounted
  <2>3. current_process # NoProc => pid'[current_process] # 0
    BY <1>1 DEF IInv, TypeOK, SlotsAccounted, CurrentAccounted
  <2> QED
    BY <2>1, <2>2, <2>3 DEF CurrentAccounted
<1>9. PidsUnique'
  <2>1. \A t \in Slots : pid'[t] = pid[t] \/ pid'[t] = 0
    BY <1>1 DEF IInv, TypeOK
  <2>2. \A t \in Slots : 0 < next_pid
    BY DEF IInv, TypeOK, SlotsAccounted, PidsUnique
  <2> QED
    BY <2>1, <2>2 DEF IInv, TypeOK, SlotsAccounted, PidsUnique
<1> QED
  BY <1>5, <1>6, <1>7, <1>8, <1>9 DEF IInv, SlotsAccounted

\* Steps that touch neither the table nor the queues: yield, the start of the
\* Ctrl+C handler, its iterations that kill nobody, and stuttering.
LEMMA UnchangedTablesIInv ==
  ASSUME IInv, quantum' \in 0..QUANTUM, fg_scan' \in 0..MAX_PROCESSES,
         UNCHANGED <<pid, state, priority, foreground, ready_queues,
                     current_process, to_free, next_pid>>
  PROVE  IInv'
<1>1. TypeOK'
  BY DEF IInv, TypeOK
<1>2. QueuesExact'
  BY DEF IInv, QueuesExact
<1>3. SlotsAccounted'
  BY DEF IInv, SlotsAccounted, StacksAccounted, CurrentAccounted, PidsUnique
<1> QED
  BY <1>1, <1>2, <1>3 DEF IInv

LEMMA CtrlCScanIInv ==
  ASSUME IInv, NEW w \in Waiters \cup {NoProc}, CtrlCScan(w),
         IdleSpared, WokenCurrentSurvives
  PROVE  IInv'
<1>1. /\ fg_scan \in Slots /\ fg_scan' \in 0..MAX_PROCESSES
      /\ UNCHANGED <<priority, foreground, current_process, quantum, to_free,
                     next_pid>>
  BY ProcessesAssumption DEF CtrlCScan, IInv, TypeOK, Slots
<1>2. CASE Killable(fg_scan) /\ foreground[fg_scan]
  BY <1>1, <1>2, KillEffectIInv DEF CtrlCScan
<1>3. CASE ~(Killable(fg_scan) /\ foreground[fg_scan])
  <2>1. UNCHANGED <<pid, state, ready_queues>>
    BY <1>3 DEF CtrlCScan
  <2> QED
    BY <1>1, <2>1, UnchangedTablesIInv DEF IInv, TypeOK
<1> QED
  BY <1>2, <1>3

\* Blocking a RUNNING process: it is in no queue.
LEMMA BlockCurrentIInv ==
  ASSUME IInv, BlockCurrent, IdleSpared
  PROVE  IInv'
<1> DEFINE c == current_process
<1>1. /\ c \in Slots /\ state[c] = "RUNNING" /\ c # Idle
      /\ state' = [state EXCEPT ![c] = "BLOCKED"]
      /\ quantum' \in 0..QUANTUM
      /\ UNCHANGED <<pid, priority, foreground, ready_queues, current_process,
                     to_free, next_pid, fg_scan>>
  BY QuantumAssumption DEF BlockCurrent, Syscall, IInv, TypeOK
<1>2. TypeOK'
  BY <1>1 DEF IInv, TypeOK, States
<1>3. QueuesExact'
  BY <1>1 DEF IInv, TypeOK, QueuesExact
<1>4. StacksAccounted'
  BY <1>1 DEF IInv, TypeOK, SlotsAccounted, StacksAccounted
<1>5. CurrentAccounted'
  BY <1>1, ProcessesAssumption
  DEF IInv, TypeOK, SlotsAccounted, CurrentAccounted, Idle, Slots
<1>6. PidsUnique'
  BY <1>1 DEF IInv, SlotsAccounted, PidsUnique
<1> QED
  BY <1>2, <1>3, <1>4, <1>5, <1>6 DEF IInv, SlotsAccounted

LEMMA BlockReadyIInv ==
  ASSUME IInv, NEW s \in Slots, BlockReady(s), IdleSpared
  PROVE  IInv'
<1>0. /\ LinkedExactly(ready_queues, state, priority) /\ TypeOK
      /\ ready_queues \in [Priorities -> Seq(Slots)] /\ state \in [Slots -> States]
  BY DEF IInv, TypeOK, QueuesExact, LinkedExactly, Distinct
<1>1. /\ state[s] = "READY"
      /\ state' = [state EXCEPT ![s] = "BLOCKED"]
      /\ ready_queues' = Dequeue(ready_queues, s)
      /\ UNCHANGED <<pid, priority, foreground, current_process, quantum,
                     to_free, next_pid, fg_scan>>
  BY DEF BlockReady
<1>2. /\ ready_queues' \in [Priorities -> Seq(Slots)]
      /\ LinkedExactly(ready_queues', state', priority)
  <2>1. "BLOCKED" \in States \ {"READY"}
    BY DEF States
  <2>2. /\ Dequeue(ready_queues, s) \in [Priorities -> Seq(Slots)]
        /\ LinkedExactly(Dequeue(ready_queues, s), [state EXCEPT ![s] = "BLOCKED"], priority)
    BY <1>0, <1>1, <2>1, DequeueExact
  <2> QED
    BY <1>1, <2>2
<1>3. TypeOK'
  BY <1>1, <1>2 DEF IInv, TypeOK, States
<1>4. QueuesExact'
  BY <1>1, <1>2 DEF LinkedExactly, Distinct, QueuesExact
<1>5. StacksAccounted'
  BY <1>1 DEF IInv, TypeOK, SlotsAccounted, StacksAccounted
<1>6. CurrentAccounted'
  <2>1. Idle \in Slots /\ s # Idle
    BY <1>1, ProcessesAssumption DEF IInv, TypeOK, IdleSpared, Idle, Slots
  <2> QED
    BY <2>1, <1>1 DEF IInv, TypeOK, SlotsAccounted, CurrentAccounted
<1>7. PidsUnique'
  BY <1>1 DEF IInv, SlotsAccounted, PidsUnique
<1> QED
  BY <1>3, <1>4, <1>5, <1>6, <1>7 DEF IInv, SlotsAccounted

LEMMA UnblockProcessIInv ==
  ASSUME IInv, NEW s \in Slots, UnblockProcess(s)
  PROVE  IInv'
<1>0. /\ LinkedExactly(ready_queues, state, priority) /\ TypeOK
      /\ ready_queues \in [Priorities -> Seq(Slots)] /\ state \in [Slots -> States]
  BY DEF IInv, TypeOK, QueuesExact, LinkedExactly, Distinct
<1>1. /\ state[s] = "BLOCKED"
      /\ state' = [state EXCEPT ![s] = "READY"]
      /\ ready_queues' = Enqueue(ready_queues, s)
      /\ UNCHANGED <<pid, priority, foreground, current_process, quantum,
                     to_free, next_pid, fg_scan>>
  BY DEF UnblockProcess
<1>2. /\ ready_queues' \in [Priorities -> Seq(Slots)]
      /\ LinkedExactly(ready_queues', state', priority)
  <2>1. state[s] # "READY"
    BY <1>1
  <2>2. /\ Enqueue(ready_queues, s) \in [Priorities -> Seq(Slots)]
        /\ LinkedExactly(Enqueue(ready_queues, s), [state EXCEPT ![s] = "READY"], priority)
    BY <1>0, <2>1, EnqueueExact
  <2> QED
    BY <1>1, <2>2
<1>3. TypeOK'
  BY <1>1, <1>2 DEF IInv, TypeOK, States
<1>4. QueuesExact'
  BY <1>1, <1>2 DEF LinkedExactly, Distinct, QueuesExact
<1>5. StacksAccounted'
  BY <1>1 DEF IInv, TypeOK, SlotsAccounted, StacksAccounted
<1>6. CurrentAccounted'
  <2>1. Idle \in Slots
    BY ProcessesAssumption DEF Idle, Slots
  <2> QED
    BY <2>1, <1>1 DEF IInv, TypeOK, SlotsAccounted, CurrentAccounted
<1>7. PidsUnique'
  BY <1>1 DEF IInv, SlotsAccounted, PidsUnique
<1> QED
  BY <1>3, <1>4, <1>5, <1>6, <1>7 DEF IInv, SlotsAccounted

LEMMA SetProcessPriorityIInv ==
  ASSUME IInv, NEW s \in Slots, NEW new \in Priorities,
         SetProcessPriority(s, new)
  PROVE  IInv'
<1> DEFINE old == priority[s]
<1>1. /\ priority' = [priority EXCEPT ![s] = new]
      /\ ready_queues' = Reniced(s, new)
      /\ UNCHANGED <<pid, state, foreground, current_process, quantum, to_free,
                     next_pid, fg_scan>>
      /\ old \in Priorities
  BY DEF SetProcessPriority, IInv, TypeOK
<1>2. /\ ready_queues' \in [Priorities -> Seq(Slots)]
      /\ LinkedExactly(ready_queues', state, priority')
  <2>1. CASE state[s] = "READY" /\ old # new
    <3>1. ready_queues' = [ready_queues EXCEPT ![old] = Unlink(@, s),
                                               ![new] = Append(@, s)]
      BY <2>1, <1>1 DEF Reniced, Dequeue, IInv, TypeOK
    <3>2. /\ Unlink(ready_queues[old], s) \in Seq(Slots)
          /\ \A t \in Slots : InQueue(Unlink(ready_queues[old], s), t)
                               <=> InQueue(ready_queues[old], t) /\ t # s
          /\ Distinct(Unlink(ready_queues[old], s))
      <4>1. /\ ready_queues[old] \in Seq(Slots)
            /\ \A i, j \in 1..Len(ready_queues[old]) :
                 ready_queues[old][i] = ready_queues[old][j] => i = j
        BY <1>1 DEF IInv, TypeOK, QueuesExact
      <4> QED
        BY <4>1, UnlinkResult DEF Distinct
    <3>3. ~InQueue(ready_queues[new], s)
      BY <2>1 DEF IInv, QueuesExact
    <3>4. /\ Append(ready_queues[new], s) \in Seq(Slots)
          /\ \A t \in Slots : InQueue(Append(ready_queues[new], s), t)
                               <=> InQueue(ready_queues[new], t) \/ t = s
          /\ Distinct(Append(ready_queues[new], s))
      BY <3>3, AppendResult DEF IInv, TypeOK, QueuesExact, Distinct
    <3>5. ready_queues' \in [Priorities -> Seq(Slots)]
      BY <3>1, <3>2, <3>4 DEF IInv, TypeOK
    <3>6. ASSUME NEW p \in Priorities
          PROVE  /\ Distinct(ready_queues'[p])
                 /\ \A t \in Slots : InQueue(ready_queues'[p], t)
                                    <=> state[t] = "READY" /\ priority'[t] = p
      <4>1. CASE p = old
        <5>1. ready_queues'[p] = Unlink(ready_queues[old], s)
          BY <4>1, <2>1, <3>1, <1>1 DEF IInv, TypeOK
        <5> QED
          BY <5>1, <4>1, <3>2, <2>1, <1>1 DEF IInv, TypeOK, QueuesExact
      <4>2. CASE p = new
        <5>1. ready_queues'[p] = Append(ready_queues[new], s)
          BY <4>2, <2>1, <3>1, <1>1 DEF IInv, TypeOK
        <5> QED
          BY <5>1, <4>2, <3>4, <2>1, <1>1 DEF IInv, TypeOK, QueuesExact
      <4>3. CASE p # old /\ p # new
        <5>1. ready_queues'[p] = ready_queues[p]
          BY <4>3, <3>1 DEF IInv, TypeOK
        <5> QED
          BY <5>1, <4>3, <1>1 DEF IInv, TypeOK, QueuesExact, Distinct
      <4> QED
        BY <4>1, <4>2, <4>3
    <3> QED
      BY <3>5, <3>6 DEF LinkedExactly
  <2>2. CASE ~(state[s] = "READY" /\ old # new)
    BY <2>2, <1>1
    DEF Reniced, IInv, TypeOK, QueuesExact, LinkedExactly, Distinct
  <2> QED
    BY <2>1, <2>2
<1>3. TypeOK'
  BY <1>1, <1>2 DEF IInv, TypeOK
<1>4. QueuesExact'
  BY <1>1, <1>2 DEF LinkedExactly, Distinct, QueuesExact
<1>5. SlotsAccounted'
  BY <1>1 DEF IInv, SlotsAccounted, StacksAccounted, CurrentAccounted, PidsUnique
<1> QED
  BY <1>3, <1>4, <1>5 DEF IInv

-----------------------------------------------------------------------------
(* schedule().                                                             *)

LEMMA TailResult ==
  ASSUME NEW q \in Seq(Slots), Distinct(q), q # <<>>
  PROVE  /\ SubSeq(q, 2, Len(q)) \in Seq(Slots)
         /\ \A t \in Slots : InQueue(SubSeq(q, 2, Len(q)), t)
                              <=> InQueue(q, t) /\ t # q[1]
         /\ Distinct(SubSeq(q, 2, Len(q)))
<1> DEFINE u == SubSeq(q, 2, Len(q))
<1>1. /\ Len(q) \in Nat /\ Len(q) >= 1
      /\ u \in Seq(Slots) /\ Len(u) = Len(q) - 1
      /\ \A i \in 1..Len(u) : u[i] = q[i + 1]
  <2>1. Len(q) \in Nat /\ Len(q) >= 1
    OBVIOUS
  <2>2. \A i \in 2..Len(q) : q[i] \in Slots
    OBVIOUS
  <2>3. /\ u \in Seq(Slots)
        /\ Len(u) = IF 2 <= Len(q) THEN Len(q) - 2 + 1 ELSE 0
        /\ \A i \in 1..(Len(q) - 2 + 1) : u[i] = q[2 + i - 1]
    BY <2>1, <2>2, SubSeqProperties
  <2> HIDE DEF u
  <2>4. Len(u) = Len(q) - 1
    <3> DEFINE m == Len(q)
    <3>1. m \in Nat /\ m >= 1 /\ Len(u) = IF 2 <= m THEN m - 2 + 1 ELSE 0
      BY <2>1, <2>3
    <3> HIDE DEF m
    <3>2. Len(u) = m - 1
      BY <3>1
    <3> QED
      BY <3>2 DEF m
  <2>5. \A i \in 1..Len(u) : u[i] = q[i + 1]
    BY <2>1, <2>3, <2>4
  <2> QED
    BY <2>1, <2>3, <2>4, <2>5
<1> HIDE DEF u
<1>2. Distinct(u)
  BY <1>1 DEF Distinct
<1>3. ASSUME NEW t \in Slots
      PROVE  InQueue(u, t) <=> InQueue(q, t) /\ t # q[1]
  <2>1. ASSUME InQueue(u, t)  PROVE InQueue(q, t) /\ t # q[1]
    <3>1. PICK i \in 1..Len(u) : u[i] = t
      BY <2>1 DEF InQueue
    <3> QED
      BY <3>1, <1>1 DEF InQueue, Distinct
  <2>2. ASSUME InQueue(q, t), t # q[1]  PROVE InQueue(u, t)
    <3>1. PICK i \in 1..Len(q) : q[i] = t
      BY <2>2 DEF InQueue
    <3>2. i - 1 \in 1..Len(u) /\ u[i - 1] = t
      BY <3>1, <2>2, <1>1
    <3> QED
      BY <3>2 DEF InQueue
  <2> QED
    BY <2>1, <2>2
<1> QED
  BY <1>1, <1>2, <1>3 DEF u

\* Once the current process is queued again every queue holds READY processes
\* only, so schedule() never has an entry to drop, and nobody is RUNNING.
LEMMA RequeuedExact ==
  ASSUME IInv
  PROVE  /\ RequeuedState \in [Slots -> States]
         /\ RequeuedQueues \in [Priorities -> Seq(Slots)]
         /\ LinkedExactly(RequeuedQueues, RequeuedState, priority)
         /\ \A s \in Slots :
              \/ RequeuedState[s] = state[s] /\ state[s] # "RUNNING"
              \/ RequeuedState[s] = "READY" /\ state[s] = "RUNNING"
<1>1. /\ LinkedExactly(ready_queues, state, priority) /\ TypeOK
      /\ ready_queues \in [Priorities -> Seq(Slots)] /\ state \in [Slots -> States]
      /\ \A s \in Slots : state[s] = "RUNNING" => s = current_process
  BY DEF IInv, TypeOK, QueuesExact, LinkedExactly, Distinct, SlotsAccounted,
         CurrentAccounted
<1>2. CASE CurrentIs("RUNNING")
  <2>1. current_process \in Slots /\ state[current_process] # "READY"
    BY <1>1, <1>2 DEF CurrentIs, TypeOK
  <2>2. /\ Enqueue(ready_queues, current_process) \in [Priorities -> Seq(Slots)]
        /\ LinkedExactly(Enqueue(ready_queues, current_process),
                         [state EXCEPT ![current_process] = "READY"], priority)
    BY <1>1, <2>1, EnqueueExact
  <2>3. RequeuedState = [state EXCEPT ![current_process] = "READY"]
    BY <1>2 DEF RequeuedState
  <2>4. RequeuedQueues = Enqueue(ready_queues, current_process)
    BY <1>2 DEF RequeuedQueues
  <2>5. RequeuedState \in [Slots -> States]
    BY <2>3, <1>1 DEF States
  <2>6. ASSUME NEW s \in Slots
        PROVE  \/ RequeuedState[s] = state[s] /\ state[s] # "RUNNING"
               \/ RequeuedState[s] = "READY" /\ state[s] = "RUNNING"
    BY <2>3, <1>1, <1>2 DEF CurrentIs
  <2> QED
    BY <2>2, <2>3, <2>4, <2>5, <2>6
<1>3. CASE ~CurrentIs("RUNNING")
  <2>1. RequeuedState = state /\ RequeuedQueues = ready_queues
    BY <1>3 DEF RequeuedState, RequeuedQueues
  <2>2. \A s \in Slots : state[s] # "RUNNING"
    BY <1>1, <1>3 DEF CurrentIs, Slots, NoProc
  <2> QED
    BY <1>1, <2>1, <2>2
<1> QED
  BY <1>2, <1>3

LEMMA QueuedEligible ==
  ASSUME IInv, NEW p \in Priorities, NEW i \in 1..Len(RequeuedQueues[p])
  PROVE  /\ RequeuedQueues[p][i] \in Slots
         /\ RequeuedState[RequeuedQueues[p][i]] = "READY"
         /\ Eligible(RequeuedQueues[p][i])
<1>1. RequeuedQueues[p] \in Seq(Slots)
  BY RequeuedExact
<1>2. RequeuedQueues[p][i] \in Slots
  BY <1>1
<1>3. InQueue(RequeuedQueues[p], RequeuedQueues[p][i])
  BY DEF InQueue
<1>4. RequeuedState[RequeuedQueues[p][i]] = "READY"
  BY <1>2, <1>3, RequeuedExact DEF LinkedExactly
<1> QED
  BY <1>2, <1>4 DEF Eligible

\* idle, which nobody blocks or kills, is always there to run.
LEMMA AlwaysANext == ASSUME IInv PROVE ~TickNoNext
<1> SUFFICES ASSUME TickNoNext PROVE FALSE
  OBVIOUS
<1>1. RequeuedQueues = ready_queues /\ RequeuedState = state
  BY DEF TickNoNext, RequeuedQueues, RequeuedState
<1>2. Idle \in Slots /\ state[Idle] \in {"READY", "RUNNING"}
  BY ProcessesAssumption DEF IInv, SlotsAccounted, CurrentAccounted, Idle, Slots
<1>3. state[Idle] = "READY"
  BY <1>1, <1>2, RequeuedExact
<1>4. priority[Idle] \in Priorities /\ InQueue(ready_queues[priority[Idle]], Idle)
  BY <1>2, <1>3 DEF IInv, TypeOK, QueuesExact
<1>5. PICK i \in 1..Len(ready_queues[priority[Idle]]) :
        ready_queues[priority[Idle]][i] = Idle
  BY <1>4 DEF InQueue
<1>6. ~Eligible(Idle)
  BY <1>4, <1>5 DEF TickNoNext, NoneEligible
<1> QED
  BY <1>1, <1>3, <1>6 DEF Eligible

LEMMA TickKeepIInv ==
  ASSUME IInv, TickKeep
  PROVE  IInv'
<1>1. /\ state[current_process] = "RUNNING" /\ current_process \in Slots
      /\ pid' = ReclaimedPids /\ to_free' = NoProc
      /\ quantum' \in 0..QUANTUM
      /\ UNCHANGED <<state, priority, foreground, ready_queues, current_process,
                     next_pid, fg_scan>>
  BY QuantumAssumption DEF TickKeep, CurrentIs, IInv, TypeOK
<1>2. /\ ReclaimedPids \in [Slots -> Nat]
      /\ \A s \in Slots : ReclaimedPids[s] = IF s = to_free THEN 0 ELSE pid[s]
  BY DEF ReclaimedPids, IInv, TypeOK, NoProc, Slots
<1>3. TypeOK'
  BY <1>1, <1>2 DEF IInv, TypeOK
<1>4. QueuesExact'
  BY <1>1 DEF IInv, QueuesExact
<1>5. StacksAccounted'
  BY <1>1, <1>2 DEF IInv, TypeOK, SlotsAccounted, StacksAccounted, NoProc, Slots
<1>6. CurrentAccounted'
  BY <1>1, <1>2 DEF IInv, SlotsAccounted, StacksAccounted, CurrentAccounted
<1>7. PidsUnique'
  <2>1. ASSUME NEW s \in Slots  PROVE pid'[s] < next_pid'
    <3>1. pid[s] \in Nat /\ pid[s] < next_pid /\ next_pid \in Nat
      BY DEF IInv, TypeOK, SlotsAccounted, PidsUnique
    <3> QED
      BY <3>1, <1>1, <1>2
  <2> QED
    BY <2>1, <1>1, <1>2 DEF IInv, SlotsAccounted, PidsUnique
<1> QED
  BY <1>3, <1>4, <1>5, <1>6, <1>7 DEF IInv, SlotsAccounted

\* What a switch does when the invariant holds: the head of the first queue
\* that is not empty gets the CPU and no entry is dropped.
LEMMA TickSwitchResult ==
  ASSUME IInv, TickSwitch
  PROVE  \E p \in Priorities :
           /\ RequeuedQueues[p] # <<>>
           /\ \A r \in Priorities : r < p => RequeuedQueues[r] = <<>>
           /\ ready_queues' = [RequeuedQueues EXCEPT
                                 ![p] = SubSeq(@, 2, Len(@))]
           /\ pid' = ReclaimedPids
           /\ state' = [RequeuedState EXCEPT ![RequeuedQueues[p][1]] = "RUNNING"]
           /\ current_process' = RequeuedQueues[p][1]
<1>0. PICK p \in Priorities : \E i \in 1..Len(RequeuedQueues[p]) :
        LET q == RequeuedQueues[p] IN
        /\ Eligible(q[i])
        /\ \A j \in 1..(i - 1) : ~Eligible(q[j])
        /\ \A r \in 0..(p - 1) : NoneEligible(RequeuedQueues[r])
        /\ ready_queues' = [r \in Priorities |->
             IF r < p THEN <<>>
             ELSE IF r = p THEN SubSeq(q, i + 1, Len(q))
             ELSE RequeuedQueues[r]]
        /\ pid' = PidsWithout({s \in Slots :
             \/ \E j \in 1..(i - 1) : q[j] = s
             \/ \E r \in 0..(p - 1) : InQueue(RequeuedQueues[r], s)})
        /\ state' = [RequeuedState EXCEPT ![q[i]] = "RUNNING"]
        /\ current_process' = q[i]
  BY Zenon DEF TickSwitch
<1> DEFINE q == RequeuedQueues[p]
<1>1. PICK i \in 1..Len(q) :
        /\ \A j \in 1..(i - 1) : ~Eligible(q[j])
        /\ \A r \in 0..(p - 1) : NoneEligible(RequeuedQueues[r])
        /\ ready_queues' = [r \in Priorities |->
             IF r < p THEN <<>>
             ELSE IF r = p THEN SubSeq(q, i + 1, Len(q))
             ELSE RequeuedQueues[r]]
        /\ pid' = PidsWithout({s \in Slots :
             \/ \E j \in 1..(i - 1) : q[j] = s
             \/ \E r \in 0..(p - 1) : InQueue(RequeuedQueues[r], s)})
        /\ state' = [RequeuedState EXCEPT ![q[i]] = "RUNNING"]
        /\ current_process' = q[i]
  BY <1>0, Zenon
<1>2. RequeuedQueues \in [Priorities -> Seq(Slots)]
  BY RequeuedExact
<1>3. Len(RequeuedQueues[p]) \in Nat
  BY <1>2
<1>4. i = 1
  <2>1. SUFFICES ASSUME i # 1 PROVE FALSE
    OBVIOUS
  <2>2. 1 \in 1..(i - 1) /\ 1 \in 1..Len(RequeuedQueues[p])
    BY <2>1, <1>3
  <2> QED
    BY <2>2, <1>1, QueuedEligible
<1>5. ASSUME NEW r \in Priorities, r < p  PROVE RequeuedQueues[r] = <<>>
  <2>1. RequeuedQueues[r] \in Seq(Slots) /\ r \in 0..(p - 1)
    BY <1>2, <1>5 DEF Priorities
  <2>2. NoneEligible(RequeuedQueues[r])
    BY <2>1, <1>1
  <2>3. ~(1 \in 1..Len(RequeuedQueues[r]))
    BY <2>2, QueuedEligible DEF NoneEligible
  <2> QED
    BY <2>1, <2>3
<1>6. ready_queues' = [RequeuedQueues EXCEPT ![p] = SubSeq(@, 2, Len(@))]
  <2>1. ready_queues' = [r \in Priorities |->
          IF r < p THEN <<>>
          ELSE IF r = p THEN SubSeq(q, 2, Len(q)) ELSE RequeuedQueues[r]]
    BY <1>1, <1>4
  <2>2. \A r \in Priorities :
          (IF r < p THEN <<>>
           ELSE IF r = p THEN SubSeq(q, 2, Len(q)) ELSE RequeuedQueues[r])
          = IF r = p THEN SubSeq(q, 2, Len(q)) ELSE RequeuedQueues[r]
    BY <1>5 DEF Priorities
  <2> QED
    BY <2>1, <2>2, <1>2
<1>7. pid' = ReclaimedPids
  <2>1. {s \in Slots : \/ \E j \in 1..(i - 1) : RequeuedQueues[p][j] = s
                       \/ \E r \in 0..(p - 1) : InQueue(RequeuedQueues[r], s)} = {}
    <3>1. \A r \in 0..(p - 1) : r \in Priorities /\ RequeuedQueues[r] = <<>>
      BY <1>5, PriorityAssumption DEF Priorities
    <3> QED
      BY <3>1, <1>4 DEF InQueue
  <2>2. pid' = PidsWithout({})
    BY <2>1, <1>1, Zenon
  <2>3. ReclaimedPids \in [Slots -> Nat]
    BY DEF ReclaimedPids, IInv, TypeOK
  <2> QED
    BY <2>2, <2>3 DEF PidsWithout
<1>8. RequeuedQueues[p] # <<>>
  BY <1>3
<1> QED
  BY <1>1, <1>4, <1>5, <1>6, <1>7, <1>8

LEMMA TickSwitchIInv ==
  ASSUME IInv, TickSwitch
  PROVE  IInv'
<1> DEFINE c == current_process
<1>1. PICK p \in Priorities :
        /\ RequeuedQueues[p] # <<>>
        /\ ready_queues' = [RequeuedQueues EXCEPT ![p] = SubSeq(@, 2, Len(@))]
        /\ pid' = ReclaimedPids
        /\ state' = [RequeuedState EXCEPT ![RequeuedQueues[p][1]] = "RUNNING"]
        /\ current_process' = RequeuedQueues[p][1]
  BY TickSwitchResult
<1> DEFINE q == RequeuedQueues[p]
           n == q[1]
<1>2. /\ to_free' = DeferredFree /\ quantum' = QUANTUM
      /\ UNCHANGED <<priority, foreground, next_pid, fg_scan>>
  BY DEF TickSwitch
<1>3. /\ RequeuedState \in [Slots -> States]
      /\ RequeuedQueues \in [Priorities -> Seq(Slots)]
      /\ LinkedExactly(RequeuedQueues, RequeuedState, priority)
      /\ \A s \in Slots :
           \/ RequeuedState[s] = state[s] /\ state[s] # "RUNNING"
           \/ RequeuedState[s] = "READY" /\ state[s] = "RUNNING"
  BY RequeuedExact
<1>4. 1 \in 1..Len(q) /\ n \in Slots /\ RequeuedState[n] = "READY"
  <2>1. 1 \in 1..Len(q)
    BY <1>1, <1>3
  <2> QED
    BY <2>1, QueuedEligible
<1>5. /\ SubSeq(q, 2, Len(q)) \in Seq(Slots)
      /\ \A t \in Slots : InQueue(SubSeq(q, 2, Len(q)), t)
                           <=> InQueue(q, t) /\ t # n
      /\ Distinct(SubSeq(q, 2, Len(q)))
  <2>1. q \in Seq(Slots) /\ Distinct(q) /\ q # <<>>
    BY <1>1, <1>3 DEF LinkedExactly
  <2> QED
    BY <2>1, TailResult
<1>6. /\ ReclaimedPids \in [Slots -> Nat]
      /\ \A s \in Slots : ReclaimedPids[s] = IF s = to_free THEN 0 ELSE pid[s]
  BY DEF ReclaimedPids, IInv, TypeOK, NoProc, Slots
<1>7. /\ \/ to_free' = NoProc /\ (c # NoProc => state[c] # "KILLED")
         \/ to_free' = c /\ c \in Slots /\ state[c] = "KILLED"
      /\ c \in Slots \cup {NoProc}
  BY <1>2 DEF DeferredFree, CurrentIs, IInv, TypeOK, NoProc, Slots
<1> HIDE DEF q, n
<1>8. /\ ready_queues' = [RequeuedQueues EXCEPT ![p] = SubSeq(q, 2, Len(q))]
      /\ state' = [RequeuedState EXCEPT ![n] = "RUNNING"]
      /\ current_process' = n
  BY <1>1 DEF q, n
<1>9. TypeOK'
  <2>1. ready_queues' \in [Priorities -> Seq(Slots)]
    BY <1>3, <1>5, <1>8
  <2>2. state' \in [Slots -> States] /\ current_process' \in Slots
    BY <1>3, <1>4, <1>8 DEF States
  <2>3. to_free' \in Slots \cup {NoProc} /\ pid' \in [Slots -> Nat]
        /\ quantum' \in 0..QUANTUM
    BY <1>1, <1>2, <1>6, <1>7, QuantumAssumption
  <2> QED
    BY <2>1, <2>2, <2>3, <1>2 DEF IInv, TypeOK
<1>10. QueuesExact'
  <2>1. InQueue(q, n)
    BY <1>4 DEF InQueue, n
  <2>2. priority[n] = p
    BY <2>1, <1>3, <1>4 DEF LinkedExactly, q
  <2> SUFFICES ASSUME NEW r \in Priorities
               PROVE  /\ Distinct(ready_queues'[r])
                      /\ \A t \in Slots : InQueue(ready_queues'[r], t)
                                         <=> state'[t] = "READY" /\ priority'[t] = r
    BY DEF QueuesExact, Distinct
  <2>3. CASE r = p
    <3>1. ready_queues'[r] = SubSeq(q, 2, Len(q))
      BY <2>3, <1>3, <1>8
    <3>2. \A t \in Slots : InQueue(q, t)
                           <=> RequeuedState[t] = "READY" /\ priority[t] = p
      BY <1>3 DEF LinkedExactly, q
    <3>3. ASSUME NEW t \in Slots
          PROVE  InQueue(ready_queues'[r], t)
                 <=> state'[t] = "READY" /\ priority'[t] = r
      BY <3>1, <3>2, <2>3, <1>2, <1>3, <1>4, <1>5, <1>8
    <3> QED
      BY <3>1, <3>3, <1>5
  <2>4. CASE r # p
    <3>1. ready_queues'[r] = RequeuedQueues[r]
      BY <2>4, <1>3, <1>8
    <3>2. \A t \in Slots : state'[t] = RequeuedState[t] \/ t = n
      BY <1>3, <1>8
    <3> QED
      BY <3>1, <3>2, <2>2, <2>4, <1>2, <1>3, <1>4, <1>8 DEF LinkedExactly
  <2> QED
    BY <2>3, <2>4
<1>11. \A s \in Slots : state'[s] = "KILLED" <=> state[s] = "KILLED"
  BY <1>3, <1>4, <1>8
<1>12. state[n] # "KILLED"
  BY <1>3, <1>4
<1>13. StacksAccounted'
  <2>1. ASSUME NEW s \in Slots
        PROVE  /\ pid'[s] = 0 => state'[s] = "KILLED"
               /\ state'[s] = "KILLED" /\ pid'[s] # 0
                    => s \in {current_process', to_free'}
    BY <1>1, <1>6, <1>7, <1>11 DEF IInv, SlotsAccounted, StacksAccounted, NoProc, Slots
  <2>2. to_free' # NoProc =>
          /\ state'[to_free'] = "KILLED" /\ pid'[to_free'] # 0
          /\ to_free' # current_process'
    BY <1>1, <1>6, <1>7, <1>8, <1>11, <1>12
    DEF IInv, SlotsAccounted, StacksAccounted, CurrentAccounted
  <2> QED
    BY <2>1, <2>2 DEF StacksAccounted
<1>14. CurrentAccounted'
  <2>1. pid'[n] # 0
    BY <1>1, <1>4, <1>6, <1>12 DEF IInv, SlotsAccounted, StacksAccounted, NoProc, Slots
  <2>2. \A s \in Slots : state'[s] = "RUNNING" => s = n
    BY <1>3, <1>8
  <2>3. state'[Idle] \in {"READY", "RUNNING"}
    BY <1>3, <1>8, ProcessesAssumption DEF IInv, SlotsAccounted, CurrentAccounted,
       Idle, Slots
  <2> QED
    BY <2>1, <2>2, <2>3, <1>8 DEF CurrentAccounted
<1>15. PidsUnique'
  <2>1. ASSUME NEW s \in Slots  PROVE pid'[s] < next_pid'
    <3>1. pid[s] \in Nat /\ pid[s] < next_pid /\ next_pid \in Nat
      BY DEF IInv, TypeOK, SlotsAccounted, PidsUnique
    <3> QED
      BY <3>1, <1>1, <1>2, <1>6
  <2> QED
    BY <2>1, <1>1, <1>6 DEF IInv, SlotsAccounted, PidsUnique
<1> QED
  BY <1>9, <1>10, <1>13, <1>14, <1>15 DEF IInv, SlotsAccounted

-----------------------------------------------------------------------------
(* The theorems.                                                           *)

LEMMA NextIInv ==
  ASSUME IInv, [CarefulNext]_vars
  PROVE  IInv'
<1>1. CASE UNCHANGED vars
  BY <1>1, UnchangedTablesIInv DEF vars, IInv, TypeOK
<1>2. ASSUME CarefulNext  PROVE IInv'
  <2>1. Next /\ IdleSpared /\ WokenCurrentSurvives
    BY <1>2 DEF CarefulNext
  <2>2. ASSUME NEW prio \in Priorities \cup {-1}, NEW fg \in BOOLEAN,
               CreateProcess(prio, fg)
        PROVE  IInv'
    BY <2>2, CreateProcessIInv
  <2>3. ASSUME NEW w \in Waiters \cup {NoProc}, ExitCurrent(w)  PROVE IInv'
    BY <2>1, <2>3, ExitCurrentIInv
  <2>4. ASSUME NEW s \in Slots, NEW w \in Waiters \cup {NoProc}, KillProcess(s, w)
        PROVE  IInv'
    <3>1. /\ Killable(s) /\ KillEffect(s, w)
          /\ UNCHANGED <<priority, foreground, current_process, quantum, to_free,
                         next_pid, fg_scan>>
      BY <2>4 DEF KillProcess
    <3>2. fg_scan' \in 0..MAX_PROCESSES
      BY <3>1 DEF IInv, TypeOK
    <3> QED
      BY <2>1, <3>1, <3>2, KillEffectIInv
  <2>5. CASE CtrlC
    <3>1. 1 \in 0..MAX_PROCESSES
      BY ProcessesAssumption
    <3> QED
      BY <2>5, <3>1, UnchangedTablesIInv DEF CtrlC, IInv, TypeOK
  <2>6. ASSUME NEW w \in Waiters \cup {NoProc}, CtrlCScan(w)  PROVE IInv'
    BY <2>1, <2>6, CtrlCScanIInv
  <2>7. CASE BlockCurrent
    BY <2>1, <2>7, BlockCurrentIInv
  <2>8. ASSUME NEW s \in Slots, BlockReady(s)  PROVE IInv'
    BY <2>1, <2>8, BlockReadyIInv
  <2>9. ASSUME NEW s \in Slots, UnblockProcess(s)  PROVE IInv'
    BY <2>9, UnblockProcessIInv
  <2>10. ASSUME NEW s \in Slots, NEW new \in Priorities, SetProcessPriority(s, new)
         PROVE  IInv'
    BY <2>10, SetProcessPriorityIInv
  <2>11. CASE YieldProcess
    BY <2>11, QuantumAssumption, UnchangedTablesIInv DEF YieldProcess, IInv, TypeOK
  <2>12. CASE TimerTick
    BY <2>12, TickKeepIInv, TickSwitchIInv, AlwaysANext DEF TimerTick
  <2> QED
    BY <2>1, <2>2, <2>3, <2>4, <2>5, <2>6, <2>7, <2>8, <2>9, <2>10, <2>11, <2>12
    DEF Next, NoTick
<1> QED
  BY <1>1, <1>2

\* The table, the queues and the pointers keep their types.
THEOREM TypeCorrect == CarefulSpec => []TypeOK
<1>1. IInv => TypeOK
  BY DEF IInv
<1> QED
  BY <1>1, InitIInv, NextIInv, PTL DEF CarefulSpec

\* No process is lost from the queues, queued twice, or queued at the wrong
\* level, for any number of processes and levels.
THEOREM QueuesAlwaysExact == CarefulSpec => []QueuesExact
<1>1. IInv => QueuesExact
  BY DEF IInv
<1> QED
  BY <1>1, InitIInv, NextIInv, PTL DEF CarefulSpec

\* No PCB or stack leaks and the process the CPU runs on always has one.
THEOREM SlotsAlwaysAccounted == CarefulSpec => []SlotsAccounted
<1>1. IInv => SlotsAccounted
  BY DEF IInv
<1> QED
  BY <1>1, InitIInv, NextIInv, PTL DEF CarefulSpec

\* A step that frees a stack frees that of a dead process which the CPU is
\* neither on nor going to: one lemma for kill, one for the timer.
LEMMA KillFrees ==
  ASSUME IInv, NEW s \in Slots, NEW w \in Waiters \cup {NoProc},
         KillEffect(s, w), current_process' = current_process,
         NEW t \in Slots, pid[t] # 0, pid'[t] = 0
  PROVE  state'[t] = "KILLED" /\ t # current_process /\ t # current_process'
<1>1. t = s /\ s # current_process
  BY DEF KillEffect, PidsAfterKill, IInv, TypeOK
<1>2. WokenState(w) \in [Slots -> States]
  BY WokenExact DEF IInv
<1>3. state'[s] = "KILLED"
  BY <1>2 DEF KillEffect
<1> QED
  BY <1>1, <1>3

LEMMA TickFrees ==
  ASSUME IInv, IInv', TickKeep \/ TickSwitch,
         NEW t \in Slots, pid[t] # 0, pid'[t] = 0
  PROVE  state'[t] = "KILLED" /\ t # current_process /\ t # current_process'
<1>1. pid' = ReclaimedPids
  BY TickSwitchResult DEF TickKeep
<1>2. t = to_free /\ to_free # NoProc
  BY <1>1 DEF ReclaimedPids, IInv, TypeOK
<1>3. t # current_process
  BY <1>2 DEF IInv, SlotsAccounted, StacksAccounted
<1>4. state'[t] = "KILLED"
  BY DEF IInv, SlotsAccounted, StacksAccounted
<1>5. t # current_process'
  BY DEF IInv, SlotsAccounted, CurrentAccounted, NoProc, Slots
<1> QED
  BY <1>3, <1>4, <1>5

LEMMA NextFrees ==
  ASSUME IInv, IInv', [CarefulNext]_vars,
         NEW t \in Slots, pid[t] # 0, pid'[t] = 0
  PROVE  state'[t] = "KILLED" /\ t # current_process /\ t # current_process'
<1>1. pid' # pid
  OBVIOUS
<1>2. CarefulNext
  BY <1>1 DEF vars
<1>3. ASSUME NEW prio \in Priorities \cup {-1}, NEW fg \in BOOLEAN,
             CreateProcess(prio, fg)
      PROVE  FALSE
  <2>1. PICK s \in Slots : pid' = [pid EXCEPT ![s] = next_pid]
    BY <1>3 DEF CreateProcess, FreeSlots
  <2>2. pid[t] \in Nat /\ pid[t] < next_pid /\ next_pid \in Nat
    BY DEF IInv, TypeOK, SlotsAccounted, PidsUnique
  <2> QED
    BY <2>1, <2>2 DEF IInv, TypeOK
<1>4. ASSUME NEW s \in Slots, NEW w \in Waiters \cup {NoProc}, KillProcess(s, w)
      PROVE  state'[t] = "KILLED" /\ t # current_process /\ t # current_process'
  BY <1>4, KillFrees DEF KillProcess
<1>5. ASSUME NEW w \in Waiters \cup {NoProc}, CtrlCScan(w)
      PROVE  state'[t] = "KILLED" /\ t # current_process /\ t # current_process'
  <2>1. fg_scan \in Slots /\ current_process' = current_process
    BY <1>5, ProcessesAssumption DEF CtrlCScan, IInv, TypeOK, Slots
  <2>2. KillEffect(fg_scan, w)
    BY <1>1, <1>5 DEF CtrlCScan
  <2> QED
    BY <2>1, <2>2, KillFrees
<1>6. CASE TimerTick
  BY <1>6, TickFrees, AlwaysANext DEF TimerTick
<1>7. \/ pid' = pid
      \/ \E prio \in Priorities \cup {-1}, fg \in BOOLEAN : CreateProcess(prio, fg)
      \/ (\E s \in Slots, w \in Waiters \cup {NoProc} : KillProcess(s, w))
      \/ (\E w \in Waiters \cup {NoProc} : CtrlCScan(w))
      \/ TimerTick
  BY <1>2 DEF CarefulNext, Next, NoTick, ExitCurrent, CtrlC, BlockCurrent, BlockReady,
              UnblockProcess, SetProcessPriority, YieldProcess
<1> QED
  BY <1>1, <1>3, <1>4, <1>5, <1>6, <1>7

\* No step frees a stack the CPU is using, nor that of a live process: what
\* the deferred release through to_free is for.
THEOREM StacksInUseAlwaysKept == CarefulSpec => StackInUseKept
<1> DEFINE Kept ==
      \A s \in Slots : pid[s] # 0 /\ pid'[s] = 0 =>
        /\ state'[s] = "KILLED"
        /\ s # current_process /\ s # current_process'
<1>1. IInv /\ IInv' /\ [CarefulNext]_vars => [Kept]_vars
  BY NextFrees
<1>2. StackInUseKept <=> [][Kept]_vars
  BY DEF StackInUseKept
<1> QED
  BY <1>1, <1>2, InitIInv, NextIInv, PTL DEF CarefulSpec

\* When the CPU changes hands nobody more urgent is left waiting.
LEMMA NextMostUrgent ==
  ASSUME IInv, IInv', [CarefulNext]_vars, NEW s \in Slots, NEW t \in Slots,
         state'[s] = "RUNNING", state[s] # "RUNNING" \/ quantum' > quantum,
         state'[t] = "READY"
  PROVE  priority'[s] <= priority'[t]
<1>1. CASE TickSwitch
  <2>1. PICK p \in Priorities :
          /\ \A r \in Priorities : r < p => RequeuedQueues[r] = <<>>
          /\ state' = [RequeuedState EXCEPT ![RequeuedQueues[p][1]] = "RUNNING"]
          /\ current_process' = RequeuedQueues[p][1]
          /\ RequeuedQueues[p] # <<>>
    BY <1>1, TickSwitchResult
  <2>2. s = RequeuedQueues[p][1] /\ 1 \in 1..Len(RequeuedQueues[p])
    BY <2>1, RequeuedExact DEF IInv, SlotsAccounted, CurrentAccounted
  <2>3. priority[s] = p
    BY <2>2, RequeuedExact DEF LinkedExactly, InQueue
  <2>4. RequeuedState[t] = "READY"
    BY <2>1, <2>2, RequeuedExact
  <2>5. priority[t] \in Priorities /\ InQueue(RequeuedQueues[priority[t]], t)
    BY <2>4, RequeuedExact DEF LinkedExactly, IInv, TypeOK
  <2>6. ~(priority[t] < p)
    BY <2>1, <2>5 DEF InQueue
  <2>7. priority' = priority
    BY <1>1 DEF TickSwitch
  <2> QED
    BY <2>3, <2>5, <2>6, <2>7 DEF Priorities
<1>2. CASE ~TickSwitch
  <2>1. ~TickNoNext
    BY AlwaysANext
  <2>2. quantum \in 0..QUANTUM
    BY DEF IInv, TypeOK
  <2>3. \A w \in Waiters \cup {NoProc} :
          WokenState(w)[s] = "RUNNING" => state[s] = "RUNNING"
    BY WokenStateResult DEF IInv
  <2>4. \A w \in Waiters \cup {NoProc} : WokenState(w) \in [Slots -> States]
    BY WokenExact DEF IInv
  <2>5. state \in [Slots -> States]
    BY DEF IInv, TypeOK
  <2> QED
    <3>1. CASE UNCHANGED vars
      BY <3>1, <2>2, QuantumAssumption DEF vars
    <3>2. ASSUME NEW prio \in Priorities \cup {-1}, NEW fg \in BOOLEAN,
                 CreateProcess(prio, fg)
          PROVE  FALSE
      BY <3>2, <2>2, <2>5, QuantumAssumption DEF CreateProcess
    <3>3. ASSUME NEW w \in Waiters \cup {NoProc}, ExitCurrent(w)  PROVE FALSE
      BY <3>3, <2>2, <2>3, <2>4, QuantumAssumption DEF ExitCurrent
    <3>4. ASSUME NEW k \in Slots, NEW w \in Waiters \cup {NoProc}, KillProcess(k, w)
          PROVE  FALSE
      BY <3>4, <2>2, <2>3, <2>4, QuantumAssumption DEF KillProcess, KillEffect
    <3>5. CASE CtrlC
      BY <3>5, <2>2, QuantumAssumption DEF CtrlC
    <3>6. ASSUME NEW w \in Waiters \cup {NoProc}, CtrlCScan(w)  PROVE FALSE
      <4>1. quantum' = quantum /\ (state' = state \/ KillEffect(fg_scan, w))
        BY <3>6 DEF CtrlCScan
      <4> QED
        BY <4>1, <2>2, <2>3, <2>4, QuantumAssumption DEF KillEffect
    <3>7. CASE BlockCurrent
      BY <3>7, <2>2, <2>5, QuantumAssumption DEF BlockCurrent
    <3>8. ASSUME NEW k \in Slots, BlockReady(k) \/ UnblockProcess(k)  PROVE FALSE
      BY <3>8, <2>2, <2>5, QuantumAssumption DEF BlockReady, UnblockProcess
    <3>9. ASSUME NEW k \in Slots, NEW new \in Priorities, SetProcessPriority(k, new)
          PROVE  FALSE
      BY <3>9, <2>2, QuantumAssumption DEF SetProcessPriority
    <3>10. CASE YieldProcess
      BY <3>10, <2>2, QuantumAssumption DEF YieldProcess
    <3>11. CASE TickKeep
      BY <3>11, <2>2, QuantumAssumption DEF TickKeep
    <3> QED
      BY <1>2, <2>1, <3>1, <3>2, <3>3, <3>4, <3>5, <3>6, <3>7, <3>8, <3>9, <3>10,
         <3>11 DEF CarefulNext, Next, NoTick, TimerTick
<1> QED
  BY <1>1, <1>2

\* The dispatch order promised by the priorities, for every number of levels.
THEOREM MostUrgentAlwaysFirst == CarefulSpec => MostUrgentFirst
<1> DEFINE First ==
      \A s, t \in Slots :
        /\ state'[s] = "RUNNING" /\ (state[s] # "RUNNING" \/ quantum' > quantum)
        /\ state'[t] = "READY"
        => priority'[s] <= priority'[t]
<1>1. IInv /\ IInv' /\ [CarefulNext]_vars => [First]_vars
  BY NextMostUrgent
<1>2. MostUrgentFirst <=> [][First]_vars
  BY DEF MostUrgentFirst
<1> QED
  BY <1>1, <1>2, InitIInv, NextIInv, PTL DEF CarefulSpec

-----------------------------------------------------------------------------
(* The order of a queue.                                                   *)

Ahead(q, s, t) == \E i, j \in 1..Len(q) : i < j /\ q[i] = s /\ q[j] = t

LEMMA UnlinkAhead ==
  ASSUME NEW q \in Seq(Slots), NEW s \in Slots, NEW a, NEW b, Ahead(Unlink(q, s), a, b)
  PROVE  Ahead(q, a, b)
<1>1. CASE ~InQueue(q, s)
  BY <1>1 DEF Unlink
<1>2. CASE InQueue(q, s)
  <2> DEFINE k == CHOOSE i \in 1..Len(q) : q[i] = s
             u == [i \in 1..(Len(q) - 1) |-> IF i < k THEN q[i] ELSE q[i + 1]]
  <2>1. k \in 1..Len(q) /\ Unlink(q, s) = u
    BY <1>2 DEF InQueue, Unlink
  <2> HIDE DEF k
  <2>2. Len(q) \in Nat /\ Len(q) - 1 \in Nat /\ Len(u) = Len(q) - 1
    BY <2>1
  <2>3. PICK i, j \in 1..(Len(q) - 1) : i < j /\ u[i] = a /\ u[j] = b
    BY <2>1, <2>2 DEF Ahead
  <2>4. u[i] = IF i < k THEN q[i] ELSE q[i + 1]
    OBVIOUS
  <2>5. u[j] = IF j < k THEN q[j] ELSE q[j + 1]
    OBVIOUS
  <2> HIDE DEF u
  <2> QED
    BY <2>1, <2>2, <2>3, <2>4, <2>5 DEF Ahead
<1> QED
  BY <1>1, <1>2

LEMMA AppendAhead ==
  ASSUME NEW q \in Seq(Slots), NEW s \in Slots, NEW a, NEW b, Ahead(Append(q, s), a, b)
  PROVE  Ahead(q, a, b) \/ b = s
<1>1. /\ Len(Append(q, s)) = Len(q) + 1 /\ Len(q) \in Nat
      /\ Append(q, s)[Len(q) + 1] = s
      /\ \A i \in 1..Len(q) : Append(q, s)[i] = q[i]
  OBVIOUS
<1>2. PICK i, j \in 1..(Len(q) + 1) : i < j /\ Append(q, s)[i] = a /\ Append(q, s)[j] = b
  BY <1>1 DEF Ahead
<1> QED
  BY <1>1, <1>2 DEF Ahead

LEMMA TailAhead ==
  ASSUME NEW q \in Seq(Slots), q # <<>>, NEW a, NEW b, Ahead(SubSeq(q, 2, Len(q)), a, b)
  PROVE  Ahead(q, a, b)
<1>1. SubSeq(q, 2, Len(q)) = Tail(q) /\ Len(Tail(q)) = Len(q) - 1 /\ Len(q) \in Nat \ {0}
  OBVIOUS
<1>2. PICK i, j \in 1..(Len(q) - 1) : i < j /\ Tail(q)[i] = a /\ Tail(q)[j] = b
  BY <1>1 DEF Ahead
<1>3. Tail(q)[i] = q[i + 1] /\ Tail(q)[j] = q[j + 1]
  BY <1>1, <1>2
<1> QED
  BY <1>1, <1>2, <1>3 DEF Ahead

LEMMA DequeueAhead ==
  ASSUME TypeOK, NEW rq \in [Priorities -> Seq(Slots)], NEW s \in Slots,
         NEW p \in Priorities, NEW a, NEW b, Ahead(Dequeue(rq, s)[p], a, b)
  PROVE  Ahead(rq[p], a, b)
<1>1. Dequeue(rq, s)[p] = IF p = priority[s] THEN Unlink(rq[p], s) ELSE rq[p]
  BY DEF Dequeue
<1> QED
  BY <1>1, UnlinkAhead

LEMMA EnqueueAhead ==
  ASSUME TypeOK, NEW rq \in [Priorities -> Seq(Slots)], NEW s \in Slots,
         ~InQueue(rq[priority[s]], s),
         NEW p \in Priorities, NEW a, NEW b, Ahead(Enqueue(rq, s)[p], a, b)
  PROVE  Ahead(rq[p], a, b) \/ ~InQueue(rq[p], b)
<1>1. Enqueue(rq, s)[p] = IF p = priority[s] THEN Append(rq[p], s) ELSE rq[p]
  BY DEF Enqueue
<1> QED
  BY <1>1, AppendAhead

LEMMA WokenAhead ==
  ASSUME IInv, NEW w \in Waiters \cup {NoProc},
         NEW p \in Priorities, NEW a, NEW b, Ahead(WokenQueues(w)[p], a, b)
  PROVE  Ahead(ready_queues[p], a, b) \/ ~InQueue(ready_queues[p], b)
<1>1. CASE w = NoProc
  BY <1>1 DEF WokenQueues
<1>2. CASE w # NoProc
  <2>1. /\ w \in Slots /\ ready_queues \in [Priorities -> Seq(Slots)] /\ TypeOK
        /\ ~InQueue(ready_queues[priority[w]], w)
    BY <1>2 DEF IInv, TypeOK, QueuesExact, Waiters
  <2> QED
    BY <1>2, <2>1, EnqueueAhead DEF WokenQueues
<1> QED
  BY <1>1, <1>2

LEMMA KillAhead ==
  ASSUME IInv, NEW s \in Slots, NEW w \in Waiters \cup {NoProc}, KillEffect(s, w),
         NEW p \in Priorities, NEW a, NEW b, Ahead(ready_queues'[p], a, b)
  PROVE  Ahead(ready_queues[p], a, b) \/ ~InQueue(ready_queues[p], b)
<1>1. WokenQueues(w) \in [Priorities -> Seq(Slots)] /\ TypeOK
  BY WokenExact DEF IInv
<1>2. ready_queues' \in {Dequeue(WokenQueues(w), s), WokenQueues(w)}
  BY DEF KillEffect
<1>3. Ahead(WokenQueues(w)[p], a, b)
  BY <1>1, <1>2, DequeueAhead
<1> QED
  BY <1>3, WokenAhead

\* A nice moves one process, to the tail of a queue it was not in.
LEMMA NiceAhead ==
  ASSUME IInv, NEW s \in Slots, NEW new \in Priorities, SetProcessPriority(s, new),
         NEW p \in Priorities, NEW a, NEW b, Ahead(ready_queues'[p], a, b)
  PROVE  Ahead(ready_queues[p], a, b) \/ ~InQueue(ready_queues[p], b)
<1>1. /\ ready_queues \in [Priorities -> Seq(Slots)] /\ TypeOK /\ ready_queues' = Reniced(s, new)
  BY DEF IInv, TypeOK, SetProcessPriority
<1>2. CASE ready_queues' = ready_queues
  BY <1>2
<1>3. CASE state[s] = "READY" /\ priority[s] # new
  <2>1. ready_queues' = [Dequeue(ready_queues, s) EXCEPT ![new] = Append(@, s)]
    BY <1>1, <1>3 DEF Reniced
  <2>2. priority[s] \in Priorities /\ ~InQueue(ready_queues[new], s)
    BY <1>3 DEF IInv, TypeOK, QueuesExact
  <2>3. Dequeue(ready_queues, s)[new] = ready_queues[new]
    BY <1>1, <1>3 DEF Dequeue
  <2>4. Dequeue(ready_queues, s) \in [Priorities -> Seq(Slots)]
    BY <1>1, <2>2, UnlinkResult DEF Dequeue, IInv, QueuesExact
  <2>5. CASE p = new
    <3>1. ready_queues'[p] = Append(ready_queues[new], s)
      BY <2>1, <2>3, <2>4, <2>5
    <3> QED
      BY <3>1, <2>2, <2>5, <1>1, AppendAhead
  <2>6. CASE p # new
    <3>1. ready_queues'[p] = Dequeue(ready_queues, s)[p]
      BY <2>1, <2>4, <2>6
    <3> QED
      BY <3>1, <1>1, DequeueAhead
  <2> QED
    BY <2>5, <2>6
<1> QED
  BY <1>1, <1>2, <1>3 DEF Reniced

LEMMA SwitchAhead ==
  ASSUME IInv, TickSwitch, NEW p \in Priorities, NEW a, NEW b, Ahead(ready_queues'[p], a, b)
  PROVE  Ahead(ready_queues[p], a, b) \/ ~InQueue(ready_queues[p], b)
<1>1. PICK h \in Priorities :
        /\ RequeuedQueues[h] # <<>>
        /\ ready_queues' = [RequeuedQueues EXCEPT ![h] = SubSeq(@, 2, Len(@))]
  BY TickSwitchResult
<1>2. RequeuedQueues \in [Priorities -> Seq(Slots)]
  BY RequeuedExact
<1>3. Ahead(RequeuedQueues[p], a, b)
  <2>1. CASE p = h
    <3>1. ready_queues'[p] = SubSeq(RequeuedQueues[p], 2, Len(RequeuedQueues[p]))
      BY <1>1, <1>2, <2>1
    <3> QED
      BY <3>1, <1>1, <1>2, <2>1, TailAhead
  <2>2. CASE p # h
    BY <1>1, <1>2, <2>2
  <2> QED
    BY <2>1, <2>2
<1>4. CASE CurrentIs("RUNNING")
  <2>1. /\ current_process \in Slots /\ TypeOK
        /\ ready_queues \in [Priorities -> Seq(Slots)]
        /\ ~InQueue(ready_queues[priority[current_process]], current_process)
    BY <1>4 DEF CurrentIs, IInv, TypeOK, QueuesExact
  <2>2. RequeuedQueues = Enqueue(ready_queues, current_process)
    BY <1>4 DEF RequeuedQueues
  <2> QED
    BY <1>3, <2>1, <2>2, EnqueueAhead
<1>5. CASE ~CurrentIs("RUNNING")
  BY <1>3, <1>5 DEF RequeuedQueues
<1> QED
  BY <1>4, <1>5

\* Whoever comes to stand behind another was behind it already, or is new in
\* the queue.
LEMMA NextAhead ==
  ASSUME IInv, [CarefulNext]_vars,
         NEW p \in Priorities, NEW a, NEW b, Ahead(ready_queues'[p], a, b)
  PROVE  Ahead(ready_queues[p], a, b) \/ ~InQueue(ready_queues[p], b)
<1>1. ready_queues \in [Priorities -> Seq(Slots)] /\ TypeOK
  BY DEF IInv, TypeOK
<1>2. CASE ready_queues' = ready_queues
  BY <1>2
<1>3. ASSUME NEW prio \in Priorities \cup {-1}, NEW fg \in BOOLEAN, CreateProcess(prio, fg)
      PROVE  Ahead(ready_queues[p], a, b) \/ ~InQueue(ready_queues[p], b)
  <2>1. PICK s \in FreeSlots :
          /\ ~InQueue(ready_queues[p], s)
          /\ ready_queues' = [ready_queues EXCEPT ![EffectivePriority(prio)] = Append(@, s)]
    BY <1>3 DEF CreateProcess
  <2>2. s \in Slots
    BY DEF FreeSlots
  <2>3. ready_queues'[p] \in {ready_queues[p], Append(ready_queues[p], s)}
    BY <1>1, <2>1
  <2> QED
    BY <1>1, <2>1, <2>2, <2>3, AppendAhead
<1>4. ASSUME NEW w \in Waiters \cup {NoProc}, ExitCurrent(w)
      PROVE  Ahead(ready_queues[p], a, b) \/ ~InQueue(ready_queues[p], b)
  BY <1>4, WokenAhead DEF ExitCurrent
<1>5. ASSUME NEW s \in Slots, NEW w \in Waiters \cup {NoProc}, KillProcess(s, w)
      PROVE  Ahead(ready_queues[p], a, b) \/ ~InQueue(ready_queues[p], b)
  BY <1>5, KillAhead DEF KillProcess
<1>6. ASSUME NEW w \in Waiters \cup {NoProc}, CtrlCScan(w)
      PROVE  Ahead(ready_queues[p], a, b) \/ ~InQueue(ready_queues[p], b)
  <2>1. fg_scan \in Slots
    BY <1>6 DEF CtrlCScan, IInv, TypeOK, Slots
  <2> QED
    BY <1>6, <2>1, KillAhead DEF CtrlCScan
<1>7. ASSUME NEW s \in Slots, BlockReady(s)
      PROVE  Ahead(ready_queues[p], a, b) \/ ~InQueue(ready_queues[p], b)
  BY <1>1, <1>7, DequeueAhead DEF BlockReady
<1>8. ASSUME NEW s \in Slots, UnblockProcess(s)
      PROVE  Ahead(ready_queues[p], a, b) \/ ~InQueue(ready_queues[p], b)
  <2>1. ~InQueue(ready_queues[priority[s]], s) /\ ready_queues' = Enqueue(ready_queues, s)
    BY <1>8 DEF UnblockProcess, IInv, TypeOK, QueuesExact
  <2> QED
    BY <1>1, <2>1, EnqueueAhead
<1>9. ASSUME NEW s \in Slots, NEW new \in Priorities, SetProcessPriority(s, new)
      PROVE  Ahead(ready_queues[p], a, b) \/ ~InQueue(ready_queues[p], b)
  BY <1>9, NiceAhead
<1>10. CASE TickSwitch
  BY <1>10, SwitchAhead
<1>11. CASE CtrlC \/ BlockCurrent \/ YieldProcess \/ TickKeep \/ UNCHANGED vars
  BY <1>2, <1>11 DEF CtrlC, BlockCurrent, YieldProcess, TickKeep, vars
<1> QED
  BY <1>3, <1>4, <1>5, <1>6, <1>7, <1>8, <1>9, <1>10, <1>11, AlwaysANext
  DEF CarefulNext, Next, NoTick, TimerTick

\* Round robin is fair among those that stay queued: no step of the kernel lets
\* one process pass another in the queue of its level.
THEOREM NobodyEverOvertakes == CarefulSpec => NoOvertaking
<1> DEFINE InOrder ==
      \A p \in Priorities : \A i, j \in 1..Len(ready_queues[p]) :
        i < j =>
          ~ \E k, l \in 1..Len(ready_queues'[p]) :
              /\ k < l
              /\ ready_queues'[p][k] = ready_queues[p][j]
              /\ ready_queues'[p][l] = ready_queues[p][i]
              /\ state'[ready_queues[p][i]] = "READY"
<1>1. ASSUME IInv, [CarefulNext]_vars PROVE InOrder
  <2>1. SUFFICES
          ASSUME NEW p \in Priorities,
                 NEW i \in 1..Len(ready_queues[p]), NEW j \in 1..Len(ready_queues[p]), i < j,
                 NEW k \in 1..Len(ready_queues'[p]), NEW l \in 1..Len(ready_queues'[p]), k < l,
                 ready_queues'[p][k] = ready_queues[p][j],
                 ready_queues'[p][l] = ready_queues[p][i]
          PROVE  FALSE
    OBVIOUS
  <2>2. Ahead(ready_queues'[p], ready_queues[p][j], ready_queues[p][i])
    BY <2>1 DEF Ahead
  <2>3. InQueue(ready_queues[p], ready_queues[p][i])
    BY DEF InQueue
  <2>4. Ahead(ready_queues[p], ready_queues[p][j], ready_queues[p][i])
    BY <1>1, <2>2, <2>3, NextAhead
  <2>5. ready_queues[p] \in Seq(Slots) /\ Distinct(ready_queues[p])
    BY <1>1 DEF IInv, TypeOK, QueuesExact, Distinct
  <2> QED
    BY <2>1, <2>4, <2>5 DEF Ahead, Distinct
<1>2. IInv /\ [CarefulNext]_vars => [InOrder]_vars
  BY <1>1
<1>3. NoOvertaking <=> [][InOrder]_vars
  BY DEF NoOvertaking
<1> QED
  BY <1>2, <1>3, InitIInv, NextIInv, PTL DEF CarefulSpec
=============================================================================
