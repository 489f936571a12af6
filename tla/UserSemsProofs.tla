----------------------------- MODULE UserSemsProofs ----------------------------
(***************************************************************************)
(* Proofs about TestSync and Mvar, the two programs that synchronise with  *)
(* semaphores, for any number of processes, operations and runs of their   *)
(* commands: with the semaphore test_sync loses no operation on the        *)
(* variable, and every value put in the mvar is read exactly once.         *)
(***************************************************************************)
EXTENDS TestSync, Mvar, PidQueueProofs, TLAPS

-----------------------------------------------------------------------------
(* test_sync: the inductive invariant.                                     *)

SemShape(s) ==
  s \in [active : BOOLEAN, value : Int, users : Int, waiting : {s.waiting}]

WorkerShapes ==
  [at : {"none", "created", "wait", "queued", "read", "store", "post", "dead"},
   left : Int, use : BOOLEAN, aux : Int]
RunnerShapes ==
  [at : {"idle", "create", "printed"}, pairs : Nat, tried : Int, mine : SUBSET Workers,
   use : BOOLEAN]

SyncShapes ==
  /\ g_global \in Int /\ net \in Int /\ disturbed \in BOOLEAN
  /\ sync_args \in [n : Nat, use : BOOLEAN]
  /\ SemShape(tsync_sem)
  /\ worker \in [Workers -> WorkerShapes]
  /\ runner \in RunnerShapes

Holds(w) == worker[w].use /\ worker[w].at \in InCritical

\* The workers that run took the flag the command gave last.
FlagsAgree ==
  \A w \in Workers : Live(w) /\ worker[w].at # "created" => worker[w].use = sync_args.use
\* Between its first creation and its result the command owns every live worker.
RunnerOwns ==
  runner.at = "create" =>
    runner.use = sync_args.use /\ \A w \in Workers : Live(w) => w \in runner.mine
\* The semaphore is there as long as somebody may use it.
SemaphoreKept ==
  sync_args.use /\ (runner.at = "create" \/ \E w \in Workers : Live(w)) => tsync_sem.active
\* One token: in the semaphore or with one worker.
OneToken ==
  /\ tsync_sem.value \in {0, 1}
  /\ \A w \in Workers : Holds(w) =>
       tsync_sem.value = 0 /\ \A v \in Workers : Holds(v) => v = w
\* What the holder has read is still there when it stores.
CopyFresh == \A w \in Workers : Holds(w) /\ worker[w].at = "store" => worker[w].aux = g_global

Undisturbed ==
  FlagsAgree /\ RunnerOwns /\ SemaphoreKept /\ OneToken /\ CopyFresh /\ NoLostUpdate
SyncInv == SyncShapes /\ (~disturbed => Undisturbed)

-----------------------------------------------------------------------------
(* The operations on the semaphore.                                        *)

\* What sem_open, sem_close, sem_wait, sem_post and sem_remove_pid leave behind:
\* a semaphore again, with the value the code gives it.
LEMMA SemaphoreResults ==
  ASSUME NEW s, SemShape(s)
  PROVE  /\ SemShape(OpenedWith(s, 1)) /\ OpenedWith(s, 1).active
         /\ OpenedWith(s, 1).value = IF s.active THEN s.value ELSE 1
         /\ SemShape(ClosedOnce(s)) /\ ClosedOnce(s).value \in {s.value, 0}
         /\ SemShape(TokenTaken(s)) /\ TokenTaken(s).active = s.active
         /\ TokenTaken(s).value = IF s.active THEN s.value - 1 ELSE s.value
         /\ SemShape(AfterPost(s)) /\ AfterPost(s).active = s.active
         /\ AfterPost(s).value =
              IF s.active /\ s.waiting = <<>> THEN s.value + 1 ELSE s.value
         /\ \A p : /\ SemShape(WithWaiter(s, p)) /\ SemShape(WithoutWaiter(s, p))
                   /\ WithWaiter(s, p).active = s.active /\ WithWaiter(s, p).value = s.value
                   /\ WithoutWaiter(s, p).active = s.active
                   /\ WithoutWaiter(s, p).value = s.value
<1> USE DEF SemShape
<1>1. SemShape(NoSemaphore) /\ NoSemaphore.value = 0
  BY DEF NoSemaphore
<1>2. SemShape(OpenedWith(s, 1)) /\ OpenedWith(s, 1).active
      /\ OpenedWith(s, 1).value = IF s.active THEN s.value ELSE 1
  BY DEF OpenedWith
<1>3. SemShape(ClosedOnce(s)) /\ ClosedOnce(s).value \in {s.value, 0}
  BY <1>1 DEF ClosedOnce
<1>4. SemShape(TokenTaken(s)) /\ TokenTaken(s).active = s.active
      /\ TokenTaken(s).value = IF s.active THEN s.value - 1 ELSE s.value
  BY DEF TokenTaken
<1>5. SemShape(AfterPost(s)) /\ AfterPost(s).active = s.active
      /\ AfterPost(s).value = IF s.active /\ s.waiting = <<>> THEN s.value + 1 ELSE s.value
  BY DEF AfterPost
<1>6. ASSUME NEW p
      PROVE  /\ SemShape(WithWaiter(s, p)) /\ SemShape(WithoutWaiter(s, p))
             /\ WithWaiter(s, p).active = s.active /\ WithWaiter(s, p).value = s.value
             /\ WithoutWaiter(s, p).active = s.active
             /\ WithoutWaiter(s, p).value = s.value
  BY DEF WithWaiter, WithoutWaiter
<1> QED
  BY <1>2, <1>3, <1>4, <1>5, <1>6

-----------------------------------------------------------------------------
(* Each step keeps the invariant.                                          *)

\* Nothing runs at first, and nothing has been added.
LEMMA InitKeeps == SyncInit => SyncInv
<1> SUFFICES ASSUME SyncInit PROVE SyncInv
  OBVIOUS
<1> USE TestSyncAssumption DEF SyncInit
<1>1. SyncShapes
  <2>1. worker \in [Workers -> WorkerShapes]
    BY DEF WorkerShapes, Asleep
  <2>2. runner \in RunnerShapes
    BY DEF RunnerShapes, IdleRunner
  <2>3. SemShape(tsync_sem)
    BY DEF SemShape, NoSemaphore
  <2>4. sync_args \in [n : Nat, use : BOOLEAN]
    OBVIOUS
  <2>5. g_global \in Int /\ net \in Int
    OBVIOUS
  <2>6. disturbed \in BOOLEAN
    BY Zenon
  <2> QED
    BY <2>1, <2>2, <2>3, <2>4, <2>5, <2>6, Zenon DEF SyncShapes
<1>2. Undisturbed
  BY DEF Undisturbed, FlagsAgree, RunnerOwns, SemaphoreKept, OneToken, CopyFresh,
         NoLostUpdate, Live, Holds, Asleep, IdleRunner, NoSemaphore
<1> QED
  BY <1>1, <1>2 DEF SyncInv

\* A command begins a new account: with live workers it counts as disturbed.
LEMMA StartKeeps ==
  ASSUME SyncInv, NEW n \in 1..MaxOps, NEW pairs \in 1..MaxPairs, NEW use \in BOOLEAN,
         StartTestSync(n, pairs, use)
  PROVE  SyncInv'
<1> USE TestSyncAssumption DEF SyncInv, StartTestSync
<1>0. SemShape(tsync_sem)
  BY DEF SyncShapes
<1>1. SyncShapes'
  <2>1. runner' \in RunnerShapes
    <3>1. runner' = [at |-> "create", pairs |-> pairs, tried |-> 0, mine |-> {}, use |-> use]
      BY DEF IdleRunner
    <3>2. pairs \in Nat
      OBVIOUS
    <3> QED
      BY <3>1, <3>2 DEF RunnerShapes
  <2>2. SemShape(tsync_sem)'
    BY <1>0, SemaphoreResults
  <2>3. sync_args' \in [n : Nat, use : BOOLEAN] /\ worker' \in [Workers -> WorkerShapes]
    BY DEF SyncShapes
  <2>4. g_global' \in Int /\ net' \in Int /\ disturbed' \in BOOLEAN
    BY DEF SyncShapes
  <2> QED
    BY <2>1, <2>2, <2>3, <2>4 DEF SyncShapes
<1>2. ASSUME ~disturbed'  PROVE Undisturbed'
  <2>1. ~disturbed /\ Undisturbed /\ \A w \in Workers : ~Live(w)
    BY <1>2 DEF SyncShapes
  <2>2. \A w \in Workers : ~Live(w)' /\ ~Holds(w)'
    BY <2>1 DEF Live, Holds, InCritical
  <2>3. tsync_sem'.value \in {0, 1} /\ (use => tsync_sem'.active)
    <3>1. tsync_sem.value \in {0, 1}
      BY <2>1 DEF Undisturbed, OneToken
    <3>2. OpenedWith(tsync_sem, 1).active /\ OpenedWith(tsync_sem, 1).value \in {0, 1}
      <4> HIDE DEF SyncInv, StartTestSync
      <4>1. OpenedWith(tsync_sem, 1).active
        BY <1>0, SemaphoreResults
      <4>2. OpenedWith(tsync_sem, 1).value
              = IF tsync_sem.active THEN tsync_sem.value ELSE 1
        BY <1>0, SemaphoreResults
      <4> QED
        BY <3>1, <4>1, <4>2
    <3>3. tsync_sem' = IF use THEN OpenedWith(tsync_sem, 1) ELSE tsync_sem
      OBVIOUS
    <3> QED
      BY <3>1, <3>2, <3>3
  <2>4. runner'.use = use /\ sync_args'.use = use
    BY DEF IdleRunner
  <2> QED
    BY <2>2, <2>3, <2>4 DEF Undisturbed, FlagsAgree, RunnerOwns, SemaphoreKept, OneToken,
                            CopyFresh, NoLostUpdate
<1> QED
  BY <1>1, <1>2

\* What a worker is made of when it is created, and when it is killed.
LEMMA SleeperShapes ==
  /\ [Asleep EXCEPT !.at = "created"] \in WorkerShapes
  /\ [Asleep EXCEPT !.at = "dead"] \in WorkerShapes
<1>1. Asleep \in WorkerShapes
  BY DEF Asleep, WorkerShapes
<1> QED
  BY <1>1 DEF WorkerShapes

\* A new worker is no holder, and belongs to the command.
LEMMA CreateKeeps ==
  ASSUME SyncInv, NEW created \in SUBSET Workers, \A w \in created : ~Live(w),
         CreateStep(created)
  PROVE  SyncInv'
<1> USE DEF SyncInv, CreateStep
<1>1. SyncShapes'
  <2>0. runner \in RunnerShapes /\ worker \in [Workers -> WorkerShapes]
    BY DEF SyncShapes
  <2>1. runner' \in RunnerShapes
    <3>1. runner' = [at |-> runner.at, pairs |-> runner.pairs, tried |-> runner.tried + 1,
                     mine |-> runner.mine \cup created, use |-> runner.use]
      BY <2>0 DEF RunnerShapes
    <3> QED
      BY <2>0, <3>1 DEF RunnerShapes
  <2>2. worker' \in [Workers -> WorkerShapes]
    <3>1. [Asleep EXCEPT !.at = "created"] \in WorkerShapes
      BY SleeperShapes
    <3>2. worker' = [w \in Workers |-> IF w \in created THEN [Asleep EXCEPT !.at = "created"]
                                                       ELSE worker[w]]
      OBVIOUS
    <3> QED
      BY <2>0, <3>1, <3>2
  <2> QED
    BY <2>1, <2>2 DEF SyncShapes, SemShape
<1>2. ASSUME ~disturbed'  PROVE Undisturbed'
  <2>1. Undisturbed
    BY <1>2
  <2>2. \A w \in Workers : worker'[w] = IF w \in created THEN [Asleep EXCEPT !.at = "created"]
                                                         ELSE worker[w]
    OBVIOUS
  <2>3. runner'.at = "create" /\ runner'.use = runner.use /\ runner'.mine = runner.mine \cup created
    BY DEF SyncShapes, RunnerShapes
  <2>4. \A w \in Workers : Holds(w)' <=> Holds(w) /\ w \notin created
    BY <2>2 DEF Holds, Asleep, InCritical
  <2>5. OneToken' /\ CopyFresh'
    BY <2>1, <2>2, <2>4 DEF Undisturbed, OneToken, CopyFresh
  <2>6. FlagsAgree'
    BY <2>1, <2>2 DEF Undisturbed, FlagsAgree, Live, Asleep
  <2>7. RunnerOwns'
    BY <2>1, <2>2, <2>3 DEF Undisturbed, RunnerOwns, Live, Asleep
  <2>8. SemaphoreKept'
    BY <2>1, <2>3 DEF Undisturbed, SemaphoreKept
  <2>9. NoLostUpdate'
    BY <2>1 DEF Undisturbed, NoLostUpdate
  <2> QED
    BY <2>5, <2>6, <2>7, <2>8, <2>9 DEF Undisturbed
<1> QED
  BY <1>1, <1>2

\* When the command closes the semaphore nobody is left to be woken.
LEMMA PrintKeeps ==
  ASSUME SyncInv, PrintFinalValue
  PROVE  SyncInv'
<1> USE DEF SyncInv, PrintFinalValue
<1>0. SemShape(tsync_sem)
  BY DEF SyncShapes
<1>1. SyncShapes'
  <2>1. worker' \in [Workers -> WorkerShapes]
    <3> HIDE DEF PrintFinalValue
    <3>1. PICK q : WokenAll(q)
      BY DEF PrintFinalValue
    <3>2. \A w \in Workers : worker[w] \in WorkerShapes
      BY DEF SyncShapes
    <3>3. \A w \in Workers : [worker[w] EXCEPT !.at = "read"] \in WorkerShapes
      BY <3>2 DEF WorkerShapes
    <3> QED
      BY <3>1, <3>2, <3>3 DEF WokenAll
  <2>2. runner' \in RunnerShapes
    BY DEF SyncShapes, RunnerShapes
  <2>3. SemShape(tsync_sem)'
    BY <1>0, SemaphoreResults
  <2> QED
    BY <2>1, <2>2, <2>3 DEF SyncShapes
<1>2. ASSUME ~disturbed'  PROVE Undisturbed'
  <2>1. Undisturbed
    BY <1>2
  <2>2. \A w \in Workers : ~Live(w)
    BY <2>1 DEF Undisturbed, RunnerOwns, AllDead, Live
  <2>3. \A w \in Workers : worker'[w] = worker[w]
    BY <2>2 DEF WokenAll, Live, SyncShapes
  <2>4. \A w \in Workers : ~Live(w)' /\ ~Holds(w)'
    BY <2>2, <2>3 DEF Live, Holds, InCritical
  <2>5. tsync_sem'.value \in {0, 1}
    BY <1>0, <2>1, SemaphoreResults DEF Undisturbed, OneToken
  <2>6. runner'.at = "printed"
    BY DEF SyncShapes, RunnerShapes
  <2> QED
    BY <2>1, <2>4, <2>5, <2>6
    DEF Undisturbed, FlagsAgree, RunnerOwns, SemaphoreKept, OneToken, CopyFresh, NoLostUpdate
<1> QED
  BY <1>1, <1>2

\* The command ends, or is interrupted and leaves its workers behind.
LEMMA RunnerLeaves ==
  ASSUME SyncInv, runner' = IdleRunner,
         UNCHANGED <<g_global, sync_args, tsync_sem, worker, net, disturbed>>
  PROVE  SyncInv'
<1>1. SyncShapes'
  BY DEF SyncInv, SyncShapes, RunnerShapes, IdleRunner, SemShape
<1>2. ASSUME ~disturbed'  PROVE Undisturbed'
  BY <1>2 DEF SyncInv, Undisturbed, FlagsAgree, RunnerOwns, SemaphoreKept, OneToken,
              CopyFresh, NoLostUpdate, Live, Holds, IdleRunner
<1> QED
  BY <1>1, <1>2 DEF SyncInv

-----------------------------------------------------------------------------
(* The steps of the workers.                                               *)

\* At the top of its loop a worker with the semaphore holds nothing.
LEMMA NextOpShape ==
  ASSUME NEW r \in WorkerShapes
  PROVE  /\ NextOp(r) \in WorkerShapes
         /\ NextOp(r).use = r.use /\ NextOp(r).at \in {"dead", "wait", "read"}
         /\ r.use => NextOp(r).at # "read"
BY DEF NextOp, WorkerShapes

\* A worker copies the flag of the command and is before its first sem_wait.
LEMMA BeginKeeps ==
  ASSUME SyncInv, NEW w \in Workers, Begin(w)
  PROVE  SyncInv'
<1> DEFINE r == [worker[w] EXCEPT !.left = sync_args.n, !.use = sync_args.use]
<1>0. worker \in [Workers -> WorkerShapes] /\ sync_args \in [n : Nat, use : BOOLEAN]
  BY DEF SyncInv, SyncShapes
<1>1. r \in WorkerShapes /\ r.use = sync_args.use
  <2>1. worker[w] \in WorkerShapes /\ sync_args.n \in Int /\ sync_args.use \in BOOLEAN
    BY <1>0
  <2> QED
    BY <2>1 DEF WorkerShapes
<1>2. worker' = [worker EXCEPT ![w] = NextOp(r)]
  BY DEF Begin
<1> HIDE DEF r
<1>3. /\ NextOp(r) \in WorkerShapes /\ NextOp(r).use = sync_args.use
      /\ NextOp(r).at \in {"dead", "wait", "read"}
      /\ sync_args.use => NextOp(r).at # "read"
  BY <1>1, NextOpShape
<1>4. SyncShapes'
  BY <1>0, <1>2, <1>3 DEF SyncInv, SyncShapes, Begin, SemShape
<1>5. ASSUME ~disturbed'  PROVE Undisturbed'
  <2>1. Undisturbed /\ Live(w)
    BY <1>5 DEF SyncInv, Begin, Live
  <2>2. \A v \in Workers : worker'[v] = IF v = w THEN NextOp(r) ELSE worker[v]
    BY <1>0, <1>2
  <2>3. UNCHANGED <<g_global, sync_args, tsync_sem, runner, net, disturbed>>
    BY DEF Begin
  <2>4. ~Holds(w)' /\ \A v \in Workers \ {w} : Holds(v)' <=> Holds(v)
    BY <1>3, <2>2 DEF Holds, InCritical
  <2>5. \A v \in Workers : Live(v)' => Live(v)
    BY <2>1, <2>2 DEF Live
  <2>6. FlagsAgree' /\ RunnerOwns' /\ SemaphoreKept'
    BY <1>3, <2>1, <2>2, <2>3, <2>5 DEF Undisturbed, FlagsAgree, RunnerOwns, SemaphoreKept, Live
  <2>7. OneToken' /\ CopyFresh' /\ NoLostUpdate'
    BY <2>1, <2>2, <2>3, <2>4 DEF Undisturbed, OneToken, CopyFresh, NoLostUpdate
  <2> QED
    BY <2>6, <2>7 DEF Undisturbed
<1> QED
  BY <1>4, <1>5 DEF SyncInv

\* sem_wait returns only with the one token: the semaphore is there, since
\* nobody closes it while w lives.
LEMMA WaitKeeps ==
  ASSUME SyncInv, NEW w \in Workers, Wait(w)
  PROVE  SyncInv'
<1>0. worker \in [Workers -> WorkerShapes] /\ SemShape(tsync_sem)
  BY DEF SyncInv, SyncShapes
<1>1. UNCHANGED <<g_global, sync_args, runner, net, disturbed>> /\ worker[w].at = "wait"
  BY DEF Wait
<1>2. CASE WaitReturns(tsync_sem)
  <2>1. tsync_sem' = TokenTaken(tsync_sem) /\ worker' = [worker EXCEPT ![w].at = "read"]
    BY <1>2 DEF Wait
  <2>2. /\ SemShape(tsync_sem') /\ tsync_sem'.active = tsync_sem.active
        /\ tsync_sem'.value = IF tsync_sem.active THEN tsync_sem.value - 1 ELSE tsync_sem.value
    BY <1>0, <2>1, SemaphoreResults
  <2>3. worker' \in [Workers -> WorkerShapes]
    BY <1>0, <2>1 DEF WorkerShapes
  <2>4. SyncShapes'
    BY <1>1, <2>2, <2>3 DEF SyncInv, SyncShapes, SemShape
  <2>5. ASSUME ~disturbed'  PROVE Undisturbed'
    <3>1. Undisturbed /\ Live(w) /\ worker[w].use = sync_args.use
      BY <1>1, <2>5 DEF SyncInv, Live, Undisturbed, FlagsAgree
    <3>2. \A v \in Workers : /\ worker'[v].use = worker[v].use
                            /\ worker'[v].aux = worker[v].aux
                            /\ worker'[v].at = IF v = w THEN "read" ELSE worker[v].at
      BY <1>0, <2>1 DEF WorkerShapes
    <3>3. FlagsAgree' /\ RunnerOwns' /\ SemaphoreKept'
      BY <1>1, <2>2, <3>1, <3>2 DEF Undisturbed, FlagsAgree, RunnerOwns, SemaphoreKept, Live
    <3>4. sync_args.use => tsync_sem.active
      BY <3>1 DEF Undisturbed, SemaphoreKept
    <3>5. tsync_sem.value \in {0, 1} /\ (tsync_sem.active => tsync_sem.value = 1)
      BY <1>2, <3>1 DEF WaitReturns, Undisturbed, OneToken
    <3>6. \A v \in Workers \ {w} : Holds(v)' => Holds(v) /\ sync_args.use
      BY <3>1, <3>2 DEF Holds, Undisturbed, FlagsAgree, Live, InCritical
    <3>7. \A v \in Workers \ {w} : ~Holds(v)'
      BY <3>1, <3>4, <3>5, <3>6 DEF Undisturbed, OneToken
    <3>8. Holds(w)' => sync_args.use
      BY <3>1, <3>2 DEF Holds
    <3>9. OneToken'
      BY <2>2, <3>4, <3>5, <3>7, <3>8 DEF OneToken
    <3>10. CopyFresh' /\ NoLostUpdate'
      BY <1>1, <3>1, <3>2, <3>7 DEF Undisturbed, CopyFresh, NoLostUpdate
    <3> QED
      BY <3>3, <3>9, <3>10 DEF Undisturbed
  <2> QED
    BY <2>4, <2>5 DEF SyncInv
<1>3. CASE ~WaitReturns(tsync_sem)
  <2>1. tsync_sem' = WithWaiter(tsync_sem, w) /\ worker' = [worker EXCEPT ![w].at = "queued"]
    BY <1>3 DEF Wait
  <2>2. /\ SemShape(tsync_sem') /\ tsync_sem'.active = tsync_sem.active
        /\ tsync_sem'.value = tsync_sem.value
    <3>1. \A p : /\ SemShape(WithWaiter(tsync_sem, p))
                 /\ WithWaiter(tsync_sem, p).active = tsync_sem.active
                 /\ WithWaiter(tsync_sem, p).value = tsync_sem.value
      BY <1>0, SemaphoreResults
    <3> QED
      BY <2>1, <3>1
  <2>3. worker' \in [Workers -> WorkerShapes]
    BY <1>0, <2>1 DEF WorkerShapes
  <2>4. SyncShapes'
    BY <1>1, <2>2, <2>3 DEF SyncInv, SyncShapes, SemShape
  <2>5. ASSUME ~disturbed'  PROVE Undisturbed'
    <3>1. Undisturbed
      BY <1>1, <2>5 DEF SyncInv
    <3>2. \A v \in Workers : /\ worker'[v].use = worker[v].use
                            /\ worker'[v].aux = worker[v].aux
                            /\ worker'[v].at = IF v = w THEN "queued" ELSE worker[v].at
      BY <1>0, <2>1 DEF WorkerShapes
    <3>3. FlagsAgree' /\ RunnerOwns' /\ SemaphoreKept'
      BY <1>1, <2>2, <3>1, <3>2 DEF Undisturbed, FlagsAgree, RunnerOwns, SemaphoreKept, Live
    <3>4. \A v \in Workers : Holds(v)' => Holds(v)
      BY <3>2 DEF Holds, InCritical
    <3>5. OneToken'
      BY <2>2, <3>1, <3>4 DEF Undisturbed, OneToken
    <3>6. CopyFresh' /\ NoLostUpdate'
      BY <1>1, <3>1, <3>2, <3>4 DEF Undisturbed, CopyFresh, NoLostUpdate
    <3> QED
      BY <3>3, <3>5, <3>6 DEF Undisturbed
  <2> QED
    BY <2>4, <2>5 DEF SyncInv
<1> QED
  BY <1>2, <1>3

\* The copy is taken by the holder, so it agrees with the variable.
LEMMA ReadKeeps ==
  ASSUME SyncInv, NEW w \in Workers, Read(w)
  PROVE  SyncInv'
<1> DEFINE r == [worker[w] EXCEPT !.at = "store", !.aux = g_global]
<1>0. worker \in [Workers -> WorkerShapes] /\ g_global \in Int
  BY DEF SyncInv, SyncShapes
<1>1. /\ UNCHANGED <<g_global, sync_args, tsync_sem, runner, net, disturbed>>
      /\ worker[w].at = "read"
      /\ worker' = [worker EXCEPT ![w] = r]
  BY DEF Read
<1>2. r \in WorkerShapes /\ r.use = worker[w].use /\ r.aux = g_global /\ r.at = "store"
  <2>1. worker[w] \in WorkerShapes
    BY <1>0
  <2> QED
    BY <1>0, <2>1 DEF WorkerShapes
<1> HIDE DEF r
<1>3. SyncShapes'
  <2>1. worker' \in [Workers -> WorkerShapes]
    BY <1>0, <1>1, <1>2
  <2> QED
    BY <1>1, <2>1 DEF SyncInv, SyncShapes, SemShape
<1>4. ASSUME ~disturbed'  PROVE Undisturbed'
  <2>1. Undisturbed
    BY <1>1, <1>4 DEF SyncInv
  <2>2. \A v \in Workers : worker'[v] = IF v = w THEN r ELSE worker[v]
    BY <1>0, <1>1
  <2>3. FlagsAgree' /\ RunnerOwns' /\ SemaphoreKept'
    BY <1>1, <1>2, <2>1, <2>2 DEF Undisturbed, FlagsAgree, RunnerOwns, SemaphoreKept, Live
  <2>4. \A v \in Workers : Holds(v)' <=> Holds(v)
    BY <1>1, <1>2, <2>2 DEF Holds, InCritical
  <2>5. OneToken' /\ NoLostUpdate'
    BY <1>1, <2>1, <2>4 DEF Undisturbed, OneToken, NoLostUpdate
  <2>6. CopyFresh'
    BY <1>1, <1>2, <2>1, <2>2, <2>4 DEF Undisturbed, CopyFresh
  <2> QED
    BY <2>3, <2>5, <2>6 DEF Undisturbed
<1> QED
  BY <1>3, <1>4 DEF SyncInv

\* The holder stores what it read plus its amount, which no one else disturbs.
LEMMA StoreKeeps ==
  ASSUME SyncInv, NEW w \in Workers, Store(w)
  PROVE  SyncInv'
<1> DEFINE r == [worker[w] EXCEPT !.at = "post", !.aux = 0]
<1>0. /\ worker \in [Workers -> WorkerShapes] /\ g_global \in Int /\ net \in Int
      /\ Amount(w) \in Int
  BY DEF SyncInv, SyncShapes, Amount
<1>1. /\ UNCHANGED <<sync_args, tsync_sem, runner, disturbed>>
      /\ worker[w].at = "store"
      /\ worker' = [worker EXCEPT ![w] = r]
      /\ g_global' = worker[w].aux + Amount(w) /\ net' = net + Amount(w)
  BY DEF Store
<1>2. /\ r \in WorkerShapes /\ r.use = worker[w].use /\ r.at = "post"
      /\ worker[w].aux \in Int
  <2>1. worker[w] \in WorkerShapes
    BY <1>0
  <2>2. worker[w].aux \in Int
    BY <2>1 DEF WorkerShapes
  <2>3. r \in WorkerShapes
    <3>1. \A a \in Int : [worker[w] EXCEPT !.at = "post", !.aux = a] \in WorkerShapes
      BY <2>1 DEF WorkerShapes
    <3>2. 0 \in Int
      OBVIOUS
    <3> QED
      BY <3>1, <3>2, Zenon
  <2>4. r.use = worker[w].use /\ r.at = "post"
    BY <2>1 DEF WorkerShapes
  <2> QED
    BY <2>2, <2>3, <2>4
<1> HIDE DEF r
<1>3. SyncShapes'
  <2>1. worker' \in [Workers -> WorkerShapes]
    BY <1>0, <1>1, <1>2
  <2>2. g_global' \in Int /\ net' \in Int
    BY <1>0, <1>1, <1>2
  <2> QED
    BY <1>1, <2>1, <2>2 DEF SyncInv, SyncShapes, SemShape
<1>4. ASSUME ~disturbed'  PROVE Undisturbed'
  <2>1. Undisturbed /\ worker[w].use = sync_args.use
    BY <1>1, <1>4 DEF SyncInv, Undisturbed, FlagsAgree, Live
  <2>2. \A v \in Workers : worker'[v] = IF v = w THEN r ELSE worker[v]
    BY <1>0, <1>1
  <2>3. FlagsAgree' /\ RunnerOwns' /\ SemaphoreKept'
    BY <1>1, <1>2, <2>1, <2>2 DEF Undisturbed, FlagsAgree, RunnerOwns, SemaphoreKept, Live
  <2>4. \A v \in Workers : Holds(v)' <=> Holds(v)
    BY <1>1, <1>2, <2>2 DEF Holds, InCritical
  <2>5. OneToken'
    BY <1>1, <2>1, <2>4 DEF Undisturbed, OneToken
  <2>6. \A v \in Workers : Holds(v) => worker[w].use
    BY <2>1 DEF Holds, Undisturbed, FlagsAgree, Live, InCritical
  <2>7. \A v \in Workers : Holds(v) => v = w
    BY <1>1, <2>1, <2>6 DEF Undisturbed, OneToken, Holds, InCritical
  <2>8. CopyFresh'
    BY <1>2, <2>2, <2>4, <2>7 DEF CopyFresh
  <2>9. sync_args.use => worker[w].aux = g_global /\ g_global = net
    BY <1>1, <1>4, <2>1 DEF Undisturbed, CopyFresh, NoLostUpdate, Holds, InCritical
  <2>10. NoLostUpdate'
    BY <1>0, <1>1, <2>9 DEF NoLostUpdate
  <2> QED
    BY <2>3, <2>5, <2>8, <2>10 DEF Undisturbed
<1> QED
  BY <1>3, <1>4 DEF SyncInv

\* The token goes back to the semaphore or on to one worker that waits.
LEMMA PostKeeps ==
  ASSUME SyncInv, NEW w \in Workers, Post(w)
  PROVE  SyncInv'
<1> DEFINE r == [worker[w] EXCEPT !.left = @ - 1]
           woken == IF worker[w].use THEN WokenByPost(tsync_sem) ELSE {}
<1>0. worker \in [Workers -> WorkerShapes] /\ SemShape(tsync_sem)
  BY DEF SyncInv, SyncShapes
<1>1. /\ UNCHANGED <<g_global, sync_args, runner, net, disturbed>> /\ worker[w].at = "post"
      /\ tsync_sem' = IF worker[w].use THEN AfterPost(tsync_sem) ELSE tsync_sem
      /\ worker' = [v \in Workers |->
           IF v = w THEN NextOp(r)
           ELSE IF v \in woken /\ worker[v].at = "queued"
             THEN [worker[v] EXCEPT !.at = "read"]
           ELSE worker[v]]
  BY DEF Post
<1>2. r \in WorkerShapes /\ r.use = worker[w].use
  <2>1. worker[w] \in WorkerShapes
    BY <1>0
  <2> QED
    BY <2>1 DEF WorkerShapes
<1> HIDE DEF r
<1>3. /\ NextOp(r) \in WorkerShapes /\ NextOp(r).use = worker[w].use
      /\ NextOp(r).at \in {"dead", "wait", "read"}
      /\ worker[w].use => NextOp(r).at # "read"
  BY <1>2, NextOpShape
<1>4. /\ SemShape(AfterPost(tsync_sem)) /\ AfterPost(tsync_sem).active = tsync_sem.active
      /\ AfterPost(tsync_sem).value =
           IF tsync_sem.active /\ tsync_sem.waiting = <<>>
             THEN tsync_sem.value + 1 ELSE tsync_sem.value
  BY <1>0, SemaphoreResults
<1>5. SyncShapes'
  <2>1. SemShape(tsync_sem') /\ tsync_sem'.active = tsync_sem.active
    BY <1>0, <1>1, <1>4
  <2>2. \A v \in Workers : [worker[v] EXCEPT !.at = "read"] \in WorkerShapes
    BY <1>0 DEF WorkerShapes
  <2>3. worker' \in [Workers -> WorkerShapes]
    BY <1>0, <1>1, <1>3, <2>2
  <2> QED
    BY <1>1, <2>1, <2>3 DEF SyncInv, SyncShapes, SemShape
<1>6. ASSUME ~disturbed'  PROVE Undisturbed'
  <2>1. Undisturbed /\ worker[w].use = sync_args.use
    BY <1>1, <1>6 DEF SyncInv, Undisturbed, FlagsAgree, Live
  <2>2. \A v \in Workers :
          IF v = w THEN worker'[v] = NextOp(r)
          ELSE \/ worker'[v] = worker[v]
               \/ /\ v \in woken /\ worker[v].at = "queued"
                  /\ worker'[v].at = "read" /\ worker'[v].use = worker[v].use
    <3>1. \A v \in Workers : /\ [worker[v] EXCEPT !.at = "read"].at = "read"
                            /\ [worker[v] EXCEPT !.at = "read"].use = worker[v].use
      BY <1>0 DEF WorkerShapes
    <3> QED
      BY <1>0, <1>1, <3>1
  <2>3. tsync_sem'.active = tsync_sem.active
    BY <1>1, <1>4
  <2>4. \A v \in Workers : Live(v)' => Live(v)
    BY <1>1, <2>2 DEF Live
  <2>5. RunnerOwns' /\ SemaphoreKept'
    BY <1>1, <2>1, <2>3, <2>4 DEF Undisturbed, RunnerOwns, SemaphoreKept
  <2>6. FlagsAgree'
    <3> SUFFICES ASSUME NEW v \in Workers, Live(v)', worker'[v].at # "created"
                 PROVE  worker'[v].use = sync_args.use
      BY <1>1 DEF FlagsAgree
    <3>1. CASE v = w
      BY <1>3, <2>1, <2>2, <3>1
    <3>2. CASE v # w /\ worker'[v] = worker[v]
      BY <2>1, <3>2 DEF Undisturbed, FlagsAgree, Live
    <3>3. CASE v # w /\ worker'[v] # worker[v]
      BY <2>1, <2>2, <3>3 DEF Undisturbed, FlagsAgree, Live
    <3> QED
      BY <3>1, <3>2, <3>3
  <2>7. CASE sync_args.use
    <3>1. tsync_sem.active /\ tsync_sem.value = 0 /\ \A v \in Workers : Holds(v) => v = w
      BY <1>1, <2>1, <2>7
      DEF Undisturbed, SemaphoreKept, OneToken, Holds, InCritical, Live
    <3>2. ~Holds(w)'
      BY <1>3, <2>1, <2>2, <2>7 DEF Holds, InCritical
    <3>3. \A v \in Workers : Holds(v)' => v \in woken /\ worker'[v].at = "read"
      BY <2>2, <3>1, <3>2 DEF Holds
    <3>4. \A u, v \in woken : u = v
      BY DEF WokenByPost
    <3>5. tsync_sem'.value \in {0, 1} /\ (woken # {} => tsync_sem'.value = 0)
      BY <1>1, <1>4, <2>1, <2>7, <3>1 DEF WokenByPost
    <3>6. OneToken'
      BY <3>3, <3>4, <3>5 DEF OneToken
    <3>7. CopyFresh'
      BY <3>3 DEF CopyFresh
    <3> QED
      BY <1>1, <2>1, <2>5, <2>6, <3>6, <3>7 DEF Undisturbed, NoLostUpdate
  <2>8. CASE ~sync_args.use
    <3>1. tsync_sem' = tsync_sem /\ woken = {}
      BY <1>1, <2>1, <2>8
    <3>2. \A v \in Workers : ~Holds(v)'
      BY <1>1, <2>6, <2>8 DEF FlagsAgree, Holds, Live, InCritical
    <3> QED
      BY <1>1, <2>1, <2>5, <2>6, <3>1, <3>2 DEF Undisturbed, OneToken, CopyFresh, NoLostUpdate
  <2> QED
    BY <2>7, <2>8
<1> QED
  BY <1>5, <1>6 DEF SyncInv

-----------------------------------------------------------------------------
(* What users do.                                                          *)

\* A worker killed with the token takes it along.
LEMMA KillKeeps ==
  ASSUME SyncInv, NEW w \in Workers, KillWorker(w)
  PROVE  SyncInv'
<1>0. worker \in [Workers -> WorkerShapes] /\ SemShape(tsync_sem)
  BY DEF SyncInv, SyncShapes
<1>1. /\ UNCHANGED <<g_global, sync_args, runner, net, disturbed>>
      /\ worker' = [worker EXCEPT ![w] = [Asleep EXCEPT !.at = "dead"]]
      /\ tsync_sem' = WithoutWaiter(tsync_sem, w)
  BY DEF KillWorker
<1>2. /\ SemShape(tsync_sem') /\ tsync_sem'.active = tsync_sem.active
      /\ tsync_sem'.value = tsync_sem.value
  <2>1. \A p : /\ SemShape(WithoutWaiter(tsync_sem, p))
               /\ WithoutWaiter(tsync_sem, p).active = tsync_sem.active
               /\ WithoutWaiter(tsync_sem, p).value = tsync_sem.value
    BY <1>0, SemaphoreResults
  <2> QED
    BY <1>1, <2>1
<1>3. worker' \in [Workers -> WorkerShapes]
  BY <1>0, <1>1, SleeperShapes
<1>4. SyncShapes'
  BY <1>1, <1>2, <1>3 DEF SyncInv, SyncShapes, SemShape
<1>5. ASSUME ~disturbed'  PROVE Undisturbed'
  <2>1. Undisturbed
    BY <1>1, <1>5 DEF SyncInv
  <2>2. worker'[w].at = "dead" /\ \A v \in Workers \ {w} : worker'[v] = worker[v]
    BY <1>0, <1>1 DEF Asleep
  <2>3. \A v \in Workers : v = w => ~Live(v)' /\ ~Holds(v)'
    BY <2>2 DEF Live, Holds, InCritical
  <2>4. FlagsAgree' /\ RunnerOwns' /\ SemaphoreKept'
    BY <1>1, <1>2, <2>1, <2>2, <2>3 DEF Undisturbed, FlagsAgree, RunnerOwns, SemaphoreKept, Live
  <2>5. OneToken' /\ CopyFresh' /\ NoLostUpdate'
    BY <1>1, <1>2, <2>1, <2>2, <2>3 DEF Undisturbed, OneToken, CopyFresh, NoLostUpdate, Holds
  <2> QED
    BY <2>4, <2>5 DEF Undisturbed
<1> QED
  BY <1>4, <1>5 DEF SyncInv

\* A waiter that is unblocked disturbs the command.
LEMMA UnblockKeeps ==
  ASSUME SyncInv, NEW w \in Workers, UnblockWorker(w)
  PROVE  SyncInv'
<1>1. worker \in [Workers -> WorkerShapes]
  BY DEF SyncInv, SyncShapes
<1>2. worker' \in [Workers -> WorkerShapes] /\ disturbed' = TRUE
  BY <1>1 DEF UnblockWorker, WorkerShapes
<1>3. UNCHANGED <<g_global, sync_args, tsync_sem, runner, net>>
  BY DEF UnblockWorker
<1>4. disturbed' \in BOOLEAN
  BY <1>2, Zenon
<1>5. SyncShapes'
  BY <1>2, <1>3, <1>4 DEF SyncInv, SyncShapes, SemShape
<1> QED
  BY <1>2, <1>5 DEF SyncInv

-----------------------------------------------------------------------------
(* The theorems.                                                           *)

\* Every step keeps the invariant: a step of the command, of a worker or of a
\* user, or none.
LEMMA SyncInvStep == SyncInv /\ [SyncNext]_syncvars => SyncInv'
<1> SUFFICES ASSUME SyncInv, [SyncNext]_syncvars  PROVE SyncInv'
  OBVIOUS
<1>1. ASSUME NEW w \in Workers, WorkerStep(w)  PROVE SyncInv'
  BY <1>1, BeginKeeps, WaitKeeps, ReadKeeps, StoreKeeps, PostKeeps DEF WorkerStep
<1>2. CASE RunnerStep
  <2>1. ASSUME NEW w \in Workers, CreateWorker(w)  PROVE SyncInv'
    BY <2>1, CreateKeeps DEF CreateWorker
  <2>2. CASE CreateFails
    BY <2>2, CreateKeeps DEF CreateFails
  <2>3. CASE CommandEnds
    BY <2>3, RunnerLeaves DEF CommandEnds
  <2> QED
    BY <1>2, <2>1, <2>2, <2>3, PrintKeeps DEF RunnerStep
<1>3. CASE User
  <2>1. CASE CtrlCTestSync
    BY <2>1, RunnerLeaves DEF CtrlCTestSync
  <2> QED
    BY <1>3, <2>1, StartKeeps, KillKeeps, UnblockKeeps DEF User
<1>4. CASE UNCHANGED syncvars
  <2>1. SyncShapes'
    BY <1>4 DEF SyncInv, SyncShapes, SemShape, syncvars
  <2>2. ~disturbed' => Undisturbed'
    BY <1>4 DEF SyncInv, syncvars, Undisturbed, FlagsAgree, RunnerOwns, SemaphoreKept,
                OneToken, CopyFresh, NoLostUpdate, Holds, Live
  <2> QED
    BY <2>1, <2>2 DEF SyncInv
<1> QED
  BY <1>1, <1>2, <1>3, <1>4 DEF SyncNext, SyncSystem

\* The token of tsync_sem is in one place, and its holder has a fresh copy of
\* the variable, as long as nothing disturbs the command.
THEOREM SyncInvariant == SyncSpec => []SyncInv
<1>1. SyncInit => SyncInv
  BY InitKeeps
<1> QED
  BY <1>1, SyncInvStep, PTL DEF SyncSpec

\* With the semaphore no addition or subtraction of the workers is lost, for
\* any number of workers, pairs, operations, kills and interrupts.
THEOREM NoUpdateEverLost == SyncSpec => []NoLostUpdate
<1>1. SyncInv => NoLostUpdate
  BY DEF SyncInv, Undisturbed, NoLostUpdate
<1> QED
  BY <1>1, SyncInvariant, PTL

\* Two workers with the semaphore are never between sem_wait and sem_post at
\* the same time, unless a user unblocked one of them or gave the command again.
THEOREM OneInCritical ==
  SyncSpec => [](~disturbed => \A v, w \in Workers : Holds(v) /\ Holds(w) => v = w)
<1>1. SyncInv => (~disturbed => \A v, w \in Workers : Holds(v) /\ Holds(w) => v = w)
  BY DEF SyncInv, Undisturbed, OneToken
<1> QED
  BY <1>1, SyncInvariant, PTL
-----------------------------------------------------------------------------
(* mvar: the inductive invariant.                                          *)

Stands == {"none", "created", "wait_token", "asleep_token", "wait_mutex", "asleep_mutex",
           "access", "accessed", "post_token"}
Sems == [active : BOOLEAN, value : Int, users : Int, waiting : Seq(MvarProcs)]
MvarShapes ==
  /\ party \in [MvarProcs -> Stands]
  /\ mvar_sems \in [SemNames -> Sems]
  /\ fresh \in BOOLEAN

\* The semaphores are there before any process is.
SemaphoresFirst ==
  \/ \A n \in SemNames : mvar_sems[n].active
  \/ /\ \A n \in SemNames : mvar_sems[n] = NoSemaphore
     /\ \A p \in MvarProcs : party[p] = "none"
     /\ mvar_cmd.at = "idle"

\* Who is queued sleeps there, once.
SleepsOn(p, n) ==
  IF n = "mutex" THEN party[p] = "asleep_mutex"
                 ELSE party[p] = "asleep_token" /\ Takes(p) = n
QueuesTrue ==
  \A n \in SemNames :
    /\ IsInjective(mvar_sems[n].waiting)
    /\ \A p \in Range(mvar_sems[n].waiting) : SleepsOn(p, n)

\* Between mvar_empty and mvar_full one token goes round, if it is not lost:
\* it is in one of them or with one process.
HoldsToken(p) == party[p] \in Holding
OneMvarToken ==
  /\ mvar_sems["empty"].value \in {0, 1} /\ mvar_sems["full"].value \in {0, 1}
  /\ mvar_sems["empty"].value = 0 \/ mvar_sems["full"].value = 0
  /\ \A p \in MvarProcs : HoldsToken(p) =>
       /\ mvar_sems["empty"].value = 0 /\ mvar_sems["full"].value = 0
       /\ \A q \in MvarProcs : HoldsToken(q) => q = p

\* Where it is tells whether the value has been read.
TokenTells ==
  /\ mvar_sems["full"].value = 1 => fresh
  /\ mvar_sems["empty"].value = 1 => ~fresh
  /\ \A p \in MvarProcs :
       /\ party[p] \in {"wait_mutex", "asleep_mutex", "access"} => (fresh <=> p \in MvarReaders)
       /\ party[p] \in {"accessed", "post_token"} => (fresh <=> p \in MvarWriters)

MvarUndisturbed == MvarShapes /\ SemaphoresFirst /\ QueuesTrue /\ OneMvarToken /\ TokenTells
TokenInv == mvar_disturbed \in BOOLEAN /\ (~mvar_disturbed => MvarUndisturbed)
CommandShape == mvar_cmd \in [at : {"idle"} \cup Sides, i : Int, new : MvarProcs \cup {Nobody}]
MvarInv == CommandShape /\ TokenInv

-----------------------------------------------------------------------------
(* The operations on a semaphore.                                          *)

LEMMA MvarSemaphoreResults ==
  ASSUME NEW s \in Sems, IsInjective(s.waiting), NEW p \in MvarProcs
  PROVE  /\ TokenTaken(s) \in Sems /\ TokenTaken(s).active = s.active
         /\ TokenTaken(s).waiting = s.waiting
         /\ s.active => TokenTaken(s).value = s.value - 1
         /\ p \notin Range(s.waiting) =>
              /\ WithWaiter(s, p) \in Sems /\ IsInjective(WithWaiter(s, p).waiting)
              /\ Range(WithWaiter(s, p).waiting) = Range(s.waiting) \cup {p}
              /\ WithWaiter(s, p).active = s.active /\ WithWaiter(s, p).value = s.value
         /\ WithoutWaiter(s, p) \in Sems /\ IsInjective(WithoutWaiter(s, p).waiting)
         /\ Range(WithoutWaiter(s, p).waiting) = Range(s.waiting) \ {p}
         /\ WithoutWaiter(s, p).active = s.active /\ WithoutWaiter(s, p).value = s.value
<1> DEFINE q == s.waiting
<1>1. s = [active |-> s.active, value |-> s.value, users |-> s.users, waiting |-> q]
      /\ s.active \in BOOLEAN /\ s.value \in Int /\ s.users \in Int /\ q \in Seq(MvarProcs)
  BY DEF Sems
<1>2. TokenTaken(s) \in Sems /\ TokenTaken(s).active = s.active
      /\ TokenTaken(s).waiting = q /\ (s.active => TokenTaken(s).value = s.value - 1)
  BY <1>1 DEF TokenTaken, Sems
<1>3. ASSUME p \notin Range(q)
      PROVE  /\ WithWaiter(s, p) \in Sems /\ IsInjective(WithWaiter(s, p).waiting)
             /\ Range(WithWaiter(s, p).waiting) = Range(q) \cup {p}
             /\ WithWaiter(s, p).active = s.active /\ WithWaiter(s, p).value = s.value
  <2>1. /\ Append(q, p) \in Seq(MvarProcs) /\ IsInjective(Append(q, p))
        /\ Range(Append(q, p)) = Range(q) \cup {p}
    BY <1>1, <1>3, AppendToQueue
  <2>2. WithWaiter(s, p) = [s EXCEPT !.waiting = Append(q, p)]
    BY DEF WithWaiter
  <2> HIDE DEF q
  <2> QED
    BY <1>1, <2>1, <2>2 DEF Sems
<1>4. /\ WithoutWaiter(s, p) \in Sems /\ IsInjective(WithoutWaiter(s, p).waiting)
      /\ Range(WithoutWaiter(s, p).waiting) = Range(q) \ {p}
      /\ WithoutWaiter(s, p).active = s.active /\ WithoutWaiter(s, p).value = s.value
  <2>1. /\ Compacted(q, p) \in Seq(MvarProcs) /\ IsInjective(Compacted(q, p))
        /\ Range(Compacted(q, p)) = Range(q) \ {p}
    BY <1>1, CompactedResult
  <2>2. WithoutWaiter(s, p) = [s EXCEPT !.waiting = Compacted(q, p)]
    BY DEF WithoutWaiter
  <2> HIDE DEF q
  <2> QED
    BY <1>1, <2>1, <2>2 DEF Sems
<1> QED
  BY <1>2, <1>3, <1>4

\* sem_post hands the token to the head of the queue, or puts it back.
LEMMA PostResult ==
  ASSUME NEW s \in Sems, IsInjective(s.waiting)
  PROVE  /\ AfterPost(s) \in Sems /\ IsInjective(AfterPost(s).waiting)
         /\ AfterPost(s).active = s.active
         /\ Range(AfterPost(s).waiting) = Range(s.waiting) \ WokenByPost(s)
         /\ WokenByPost(s) \subseteq Range(s.waiting)
         /\ \A x, y \in WokenByPost(s) : x = y
         /\ s.active /\ WokenByPost(s) = {} => AfterPost(s).value = s.value + 1
         /\ WokenByPost(s) # {} => AfterPost(s).value = s.value
<1> DEFINE q == s.waiting
<1>1. s = [active |-> s.active, value |-> s.value, users |-> s.users, waiting |-> q]
      /\ s.active \in BOOLEAN /\ s.value \in Int /\ s.users \in Int /\ q \in Seq(MvarProcs)
  BY DEF Sems
<1>2. CASE s.active /\ q # <<>>
  <2>1. /\ Tail(q) \in Seq(MvarProcs) /\ IsInjective(Tail(q))
        /\ Head(q) \in Range(q) /\ Range(Tail(q)) = Range(q) \ {Head(q)}
    BY <1>1, <1>2, TailOfQueue
  <2>2. AfterPost(s) = [s EXCEPT !.waiting = Tail(q)] /\ WokenByPost(s) = {Head(q)}
    BY <1>2 DEF AfterPost, WokenByPost
  <2> HIDE DEF q
  <2>3. /\ AfterPost(s) \in Sems /\ AfterPost(s).waiting = Tail(q)
        /\ AfterPost(s).active = s.active /\ AfterPost(s).value = s.value
    BY <1>1, <2>1, <2>2 DEF Sems
  <2> QED
    BY <2>1, <2>2, <2>3 DEF q
<1>3. CASE ~(s.active /\ q # <<>>)
  <2>1. WokenByPost(s) = {} /\ AfterPost(s) \in Sems /\ AfterPost(s).waiting = q
        /\ AfterPost(s).active = s.active /\ (s.active => AfterPost(s).value = s.value + 1)
    BY <1>1, <1>3 DEF AfterPost, WokenByPost, Sems
  <2> QED
    BY <2>1
<1> QED
  BY <1>2, <1>3

-----------------------------------------------------------------------------
(* Each step keeps the invariant.                                          *)

LEMMA MvarInitKeeps == MvarInit => TokenInv
<1> SUFFICES ASSUME MvarInit PROVE TokenInv
  OBVIOUS
<1>1. /\ party = [p \in MvarProcs |-> "none"] /\ fresh = FALSE /\ mvar_disturbed = FALSE
      /\ mvar_sems = [n \in SemNames |-> NoSemaphore] /\ mvar_cmd.at = "idle"
  BY DEF MvarInit, NoMvarCmd
<1>2. NoSemaphore \in Sems /\ NoSemaphore.waiting = <<>> /\ NoSemaphore.value = 0
  BY DEF NoSemaphore, Sems
<1>3. MvarShapes
  BY <1>1, <1>2 DEF MvarShapes, Stands
<1>4. SemaphoresFirst
  BY <1>1 DEF SemaphoresFirst
<1>5. QueuesTrue
  BY <1>1, <1>2 DEF QueuesTrue, IsInjective, Range
<1>6. OneMvarToken /\ TokenTells
  BY <1>1, <1>2 DEF OneMvarToken, TokenTells, HoldsToken, Holding, SemNames
<1> QED
  BY <1>1, <1>3, <1>4, <1>5, <1>6 DEF TokenInv, MvarUndisturbed

\* Given again with no value unread, the command finds its semaphores as they were
\* left, with whoever sleeps there, and empties a variable that is empty.
LEMMA GiveKeeps ==
  ASSUME TokenInv, NEW asked, GiveMvar(asked)
  PROVE  TokenInv'
<1> DEFINE Opened(n) == OpenedWith(mvar_sems[n], InitialValue[n])
<1>1. /\ mvar_sems' = [n \in SemNames |-> Opened(n)] /\ party' = party /\ fresh' = FALSE
      /\ mvar_disturbed' = (mvar_disturbed \/ fresh)
  BY DEF GiveMvar
<1>2. mvar_disturbed' \in BOOLEAN
  BY <1>1, Zenon
<1>3. ASSUME ~mvar_disturbed'  PROVE MvarUndisturbed'
  <2>1. MvarUndisturbed /\ ~fresh
    BY <1>1, <1>3 DEF TokenInv
  <2>2. /\ MvarShapes /\ SemaphoresFirst /\ QueuesTrue /\ OneMvarToken /\ TokenTells
    BY <2>1 DEF MvarUndisturbed
  <2>3. "empty" \in SemNames /\ "full" \in SemNames
    BY DEF SemNames
  <2>4. CASE \A n \in SemNames : mvar_sems[n].active
    <3>1. ASSUME NEW n \in SemNames
          PROVE  /\ Opened(n) \in Sems /\ Opened(n).active
                 /\ Opened(n).waiting = mvar_sems[n].waiting
                 /\ Opened(n).value = mvar_sems[n].value
      <4> DEFINE s == mvar_sems[n]
      <4>1. s \in Sems /\ s.active
        BY <2>2, <2>4 DEF MvarShapes
      <4>2. s.active \in BOOLEAN /\ s.value \in Int /\ s.users \in Int /\ s.waiting \in Seq(MvarProcs)
        BY <4>1 DEF Sems
      <4>3. Opened(n) = [s EXCEPT !.users = @ + 1]
        BY <4>1 DEF OpenedWith
      <4> QED
        BY <4>1, <4>2, <4>3 DEF Sems
    <3>2. MvarShapes' /\ SemaphoresFirst'
      BY <1>1, <2>2, <3>1 DEF MvarShapes, SemaphoresFirst
    <3>3. QueuesTrue'
      BY <1>1, <2>2, <3>1 DEF QueuesTrue, SleepsOn
    <3>4. OneMvarToken' /\ TokenTells'
      BY <1>1, <2>1, <2>2, <2>3, <3>1 DEF OneMvarToken, TokenTells, HoldsToken
    <3> QED
      BY <3>2, <3>3, <3>4 DEF MvarUndisturbed
  <2>5. CASE /\ \A n \in SemNames : mvar_sems[n] = NoSemaphore
             /\ \A p \in MvarProcs : party[p] = "none"
    <3>1. ASSUME NEW n \in SemNames
          PROVE  /\ Opened(n) \in Sems /\ Opened(n).active /\ Opened(n).waiting = <<>>
                 /\ Opened(n).value = InitialValue[n]
      <4>1. InitialValue[n] \in Int
        BY DEF InitialValue, SemNames
      <4>2. Opened(n) = [active |-> TRUE, value |-> InitialValue[n], users |-> 1, waiting |-> <<>>]
        BY <2>5 DEF OpenedWith, NoSemaphore
      <4> QED
        BY <4>1, <4>2 DEF Sems
    <3>2. MvarShapes' /\ SemaphoresFirst'
      BY <1>1, <2>2, <3>1 DEF MvarShapes, SemaphoresFirst
    <3>3. QueuesTrue'
      BY <1>1, <3>1 DEF QueuesTrue, IsInjective, Range
    <3>4. \A p \in MvarProcs : party'[p] = "none"
      BY <1>1, <2>5
    <3>5. mvar_sems'["empty"].value = 1 /\ mvar_sems'["full"].value = 0
      BY <1>1, <2>3, <3>1 DEF InitialValue
    <3>6. OneMvarToken' /\ TokenTells'
      BY <1>1, <3>4, <3>5 DEF OneMvarToken, TokenTells, HoldsToken, Holding
    <3> QED
      BY <3>2, <3>3, <3>6 DEF MvarUndisturbed
  <2> QED
    BY <2>2, <2>4, <2>5 DEF SemaphoresFirst
<1> QED
  BY <1>2, <1>3 DEF TokenInv

\* Creating processes, filing their pids and looking them up touch no token.
LEMMA StandKeeps ==
  ASSUME TokenInv, UNCHANGED <<mvar_sems, fresh, mvar_disturbed>>,
         NEW p \in MvarProcs, NEW to \in {"created", "wait_token", "none"},
         party[p] \in {"none", "created"}, party' = [party EXCEPT ![p] = to],
         party[p] = "none" => mvar_cmd.at # "idle" \/ to = "none",
         mvar_cmd'.at = mvar_cmd.at
  PROVE  TokenInv'
<1> SUFFICES ASSUME ~mvar_disturbed  PROVE MvarUndisturbed'
  BY DEF TokenInv
<1>1. MvarShapes /\ SemaphoresFirst /\ QueuesTrue /\ OneMvarToken /\ TokenTells
  BY DEF TokenInv, MvarUndisturbed
<1>2. /\ party' \in [MvarProcs -> Stands] /\ party'[p] = to
      /\ \A q \in MvarProcs : q # p => party'[q] = party[q]
  BY <1>1 DEF MvarShapes, Stands
<1>3. MvarShapes'
  BY <1>1, <1>2 DEF MvarShapes
<1>4. SemaphoresFirst'
  BY <1>1, <1>2 DEF SemaphoresFirst
<1>5. QueuesTrue'
  <2>1. ASSUME NEW n \in SemNames, NEW q \in Range(mvar_sems[n].waiting)
        PROVE  q \in MvarProcs /\ q # p /\ SleepsOn(q, n)
    <3>1. q \in MvarProcs /\ SleepsOn(q, n)
      BY <1>1 DEF QueuesTrue, MvarShapes, Sems, Range
    <3> QED
      BY <3>1 DEF SleepsOn
  <2> QED
    BY <1>1, <1>2, <2>1 DEF QueuesTrue, SleepsOn
<1>6. OneMvarToken' /\ TokenTells'
  BY <1>1, <1>2 DEF OneMvarToken, TokenTells, HoldsToken, Holding
<1> QED
  BY <1>3, <1>4, <1>5, <1>6 DEF MvarUndisturbed

\* sem_wait: the process takes the token, or queues itself.
LEMMA WaitTokenKeeps ==
  ASSUME TokenInv, NEW p \in MvarProcs, WaitToken(p)
  PROVE  TokenInv'
<1> SUFFICES ASSUME ~mvar_disturbed  PROVE MvarUndisturbed'
  BY DEF TokenInv, WaitToken, SemWait
<1>1. MvarShapes /\ SemaphoresFirst /\ QueuesTrue /\ OneMvarToken /\ TokenTells
  BY DEF TokenInv, MvarUndisturbed, WaitToken, SemWait
<1> DEFINE n == Takes(p)
           s == mvar_sems[n]
<1>2. /\ party[p] = "wait_token" /\ fresh' = fresh /\ mvar_cmd' = mvar_cmd
      /\ n \in {"empty", "full"} /\ n \in SemNames /\ s.active /\ s \in Sems /\ s.value \in Int
      /\ IsInjective(s.waiting) /\ "empty" \in SemNames /\ "full" \in SemNames
  <2>1. party[p] = "wait_token" /\ fresh' = fresh /\ mvar_cmd' = mvar_cmd
    BY DEF WaitToken, SemWait
  <2>2. n \in {"empty", "full"} /\ n \in SemNames /\ "empty" \in SemNames /\ "full" \in SemNames
    BY DEF Takes, SemNames
  <2>3. s.active /\ s \in Sems /\ IsInjective(s.waiting)
    BY <1>1, <2>1, <2>2 DEF SemaphoresFirst, MvarShapes, QueuesTrue
  <2> QED
    BY <2>1, <2>2, <2>3 DEF Sems
<1>3. p \notin Range(s.waiting)
  BY <1>1, <1>2 DEF QueuesTrue, SleepsOn
<1>4. ASSUME NEW m \in SemNames, NEW q \in Range(mvar_sems[m].waiting)
      PROVE  q \in MvarProcs /\ q # p /\ SleepsOn(q, m)
  BY <1>1, <1>2 DEF QueuesTrue, SleepsOn, MvarShapes, Sems, Range
<1>5. CASE WaitReturns(s)
  <2>1. /\ mvar_sems' = [mvar_sems EXCEPT ![n] = TokenTaken(s)]
        /\ party' = [party EXCEPT ![p] = "wait_mutex"]
    BY <1>5 DEF WaitToken, SemWait
  <2>2. s.value = 1 /\ TokenTaken(s) \in Sems /\ TokenTaken(s).value = 0
        /\ TokenTaken(s).active /\ TokenTaken(s).waiting = s.waiting
    <3>1. s.value # 0
      BY <1>2, <1>5 DEF WaitReturns
    <3>2. s.value = 1
      BY <1>1, <1>2, <3>1 DEF OneMvarToken
    <3> QED
      BY <1>2, <3>2, MvarSemaphoreResults
  <2>3. /\ mvar_sems'[n] = TokenTaken(s)
        /\ \A m \in SemNames : m # n => mvar_sems'[m] = mvar_sems[m]
        /\ party'[p] = "wait_mutex" /\ \A q \in MvarProcs : q # p => party'[q] = party[q]
    BY <1>1, <1>2, <2>1 DEF MvarShapes
  <2>4. MvarShapes'
    BY <1>1, <1>2, <2>1, <2>2 DEF MvarShapes, Stands
  <2>5. SemaphoresFirst'
    BY <1>1, <1>2, <2>2, <2>3 DEF SemaphoresFirst
  <2>6. \A m \in SemNames : mvar_sems'[m].waiting = mvar_sems[m].waiting
    BY <2>2, <2>3
  <2>7. QueuesTrue'
    BY <1>1, <1>4, <2>3, <2>6 DEF QueuesTrue, SleepsOn
  <2>8. \A q \in MvarProcs : ~HoldsToken(q)
    BY <1>1, <1>2, <2>2 DEF OneMvarToken
  <2>9. mvar_sems'["empty"].value = 0 /\ mvar_sems'["full"].value = 0
    BY <1>1, <1>2, <2>2, <2>3 DEF OneMvarToken
  <2>10. \A q \in MvarProcs : HoldsToken(q)' => q = p
    BY <2>3, <2>8 DEF HoldsToken
  <2>11. OneMvarToken'
    BY <2>9, <2>10 DEF OneMvarToken
  <2>12. fresh <=> p \in MvarReaders
    BY <1>1, <1>2, <2>2, MvarAssumption DEF TokenTells, Takes, MvarProcs
  <2>13. TokenTells'
    BY <1>2, <2>3, <2>9, <2>10, <2>12 DEF TokenTells, HoldsToken, Holding
  <2> QED
    BY <2>4, <2>5, <2>7, <2>11, <2>13 DEF MvarUndisturbed
<1>6. CASE ~WaitReturns(s)
  <2>1. /\ mvar_sems' = [mvar_sems EXCEPT ![n] = WithWaiter(s, p)]
        /\ party' = [party EXCEPT ![p] = "asleep_token"]
    BY <1>6 DEF WaitToken, SemWait
  <2>2. /\ WithWaiter(s, p) \in Sems /\ IsInjective(WithWaiter(s, p).waiting)
        /\ Range(WithWaiter(s, p).waiting) = Range(s.waiting) \cup {p}
        /\ WithWaiter(s, p).active /\ WithWaiter(s, p).value = s.value
    BY <1>2, <1>3, MvarSemaphoreResults
  <2>3. /\ mvar_sems'[n] = WithWaiter(s, p)
        /\ \A m \in SemNames : m # n => mvar_sems'[m] = mvar_sems[m]
        /\ party'[p] = "asleep_token" /\ \A q \in MvarProcs : q # p => party'[q] = party[q]
    BY <1>1, <1>2, <2>1 DEF MvarShapes
  <2>4. MvarShapes'
    BY <1>1, <1>2, <2>1, <2>2 DEF MvarShapes, Stands
  <2>5. SemaphoresFirst'
    BY <1>1, <1>2, <2>2, <2>3 DEF SemaphoresFirst
  <2>6. QueuesTrue'
    <3>1. SleepsOn(p, n)'
      BY <1>2, <2>3 DEF SleepsOn
    <3>2. \A m \in SemNames : \A q \in Range(mvar_sems[m].waiting) : SleepsOn(q, m)'
      BY <1>4, <2>3 DEF SleepsOn
    <3>3. \A m \in SemNames : IsInjective(mvar_sems'[m].waiting)
      BY <1>1, <2>2, <2>3 DEF QueuesTrue
    <3> QED
      BY <1>2, <2>2, <2>3, <3>1, <3>2, <3>3 DEF QueuesTrue
  <2>7. \A m \in SemNames : mvar_sems'[m].value = mvar_sems[m].value
    BY <2>2, <2>3
  <2>8. \A q \in MvarProcs : HoldsToken(q)' => HoldsToken(q)
    BY <2>3 DEF HoldsToken, Holding
  <2>9. OneMvarToken' /\ TokenTells'
    BY <1>1, <1>2, <2>3, <2>7, <2>8 DEF OneMvarToken, TokenTells
  <2> QED
    BY <2>4, <2>5, <2>6, <2>9 DEF MvarUndisturbed
<1> QED
  BY <1>5, <1>6

\* The mutex moves no token of the other two; its holder goes on to the variable.
LEMMA WaitMutexKeeps ==
  ASSUME TokenInv, NEW p \in MvarProcs, WaitMutex(p)
  PROVE  TokenInv'
<1> SUFFICES ASSUME ~mvar_disturbed  PROVE MvarUndisturbed'
  BY DEF TokenInv, WaitMutex, SemWait
<1>1. MvarShapes /\ SemaphoresFirst /\ QueuesTrue /\ OneMvarToken /\ TokenTells
  BY DEF TokenInv, MvarUndisturbed, WaitMutex, SemWait
<1> DEFINE s == mvar_sems["mutex"]
<1>2. /\ party[p] = "wait_mutex" /\ fresh' = fresh /\ mvar_cmd' = mvar_cmd
      /\ "mutex" \in SemNames /\ s.active /\ s \in Sems /\ IsInjective(s.waiting)
      /\ "empty" \in SemNames /\ "full" \in SemNames
  <2>1. party[p] = "wait_mutex" /\ fresh' = fresh /\ mvar_cmd' = mvar_cmd
    BY DEF WaitMutex, SemWait
  <2>2. "mutex" \in SemNames /\ "empty" \in SemNames /\ "full" \in SemNames
    BY DEF SemNames
  <2>3. s.active /\ s \in Sems /\ IsInjective(s.waiting)
    BY <1>1, <2>1, <2>2 DEF SemaphoresFirst, MvarShapes, QueuesTrue
  <2> QED
    BY <2>1, <2>2, <2>3
<1>3. p \notin Range(s.waiting)
  BY <1>1, <1>2 DEF QueuesTrue, SleepsOn
<1>4. ASSUME NEW m \in SemNames, NEW q \in Range(mvar_sems[m].waiting)
      PROVE  q \in MvarProcs /\ q # p /\ SleepsOn(q, m)
  BY <1>1, <1>2 DEF QueuesTrue, SleepsOn, MvarShapes, Sems, Range
<1>5. PICK t \in {TokenTaken(s), WithWaiter(s, p)}, to \in {"access", "asleep_mutex"} :
        /\ mvar_sems' = [mvar_sems EXCEPT !["mutex"] = t]
        /\ party' = [party EXCEPT ![p] = to]
        /\ t = TokenTaken(s) <=> to = "access"
        /\ t = WithWaiter(s, p) \/ t = TokenTaken(s)
  <2>1. TokenTaken(s) # WithWaiter(s, p)
    <3>1. TokenTaken(s).waiting = s.waiting
      BY <1>2, MvarSemaphoreResults
    <3>2. p \in Range(WithWaiter(s, p).waiting)
      BY <1>2, <1>3, MvarSemaphoreResults
    <3> QED
      BY <1>3, <3>1, <3>2
  <2> QED
    BY <2>1 DEF WaitMutex, SemWait
<1>6. /\ t \in Sems /\ t.active /\ IsInjective(t.waiting)
      /\ Range(t.waiting) \subseteq Range(s.waiting) \cup {p}
      /\ p \in Range(t.waiting) => to = "asleep_mutex"
  <2>1. CASE t = TokenTaken(s)
    <3>1. t \in Sems /\ t.active = s.active /\ t.waiting = s.waiting
      BY <1>2, <2>1, MvarSemaphoreResults
    <3> QED
      BY <1>2, <1>3, <3>1
  <2>2. CASE t = WithWaiter(s, p) /\ to = "asleep_mutex"
    <3>1. /\ t \in Sems /\ t.active = s.active /\ IsInjective(t.waiting)
          /\ Range(t.waiting) = Range(s.waiting) \cup {p}
      BY <1>2, <1>3, <2>2, MvarSemaphoreResults
    <3> QED
      BY <1>2, <2>2, <3>1
  <2> QED
    BY <1>5, <2>1, <2>2
<1>7. /\ mvar_sems'["mutex"] = t /\ \A m \in SemNames : m # "mutex" => mvar_sems'[m] = mvar_sems[m]
      /\ party'[p] = to /\ \A q \in MvarProcs : q # p => party'[q] = party[q]
  BY <1>1, <1>2, <1>5 DEF MvarShapes
<1>8. MvarShapes'
  BY <1>1, <1>2, <1>5, <1>6 DEF MvarShapes, Stands
<1>9. SemaphoresFirst'
  BY <1>1, <1>2, <1>6, <1>7 DEF SemaphoresFirst
<1>10. QueuesTrue'
  <2>1. p \in Range(t.waiting) => SleepsOn(p, "mutex")'
    BY <1>6, <1>7 DEF SleepsOn
  <2>2. \A m \in SemNames : \A q \in Range(mvar_sems[m].waiting) : SleepsOn(q, m)'
    BY <1>4, <1>7 DEF SleepsOn
  <2>3. \A m \in SemNames : IsInjective(mvar_sems'[m].waiting)
    BY <1>1, <1>6, <1>7 DEF QueuesTrue
  <2> QED
    BY <1>2, <1>6, <1>7, <2>1, <2>2, <2>3 DEF QueuesTrue
<1>11. mvar_sems'["empty"] = mvar_sems["empty"] /\ mvar_sems'["full"] = mvar_sems["full"]
  BY <1>2, <1>7
<1>12. \A q \in MvarProcs : HoldsToken(q)' <=> HoldsToken(q)
  BY <1>2, <1>7 DEF HoldsToken, Holding
<1>13. OneMvarToken' /\ TokenTells'
  BY <1>1, <1>2, <1>7, <1>11, <1>12 DEF OneMvarToken, TokenTells
<1> QED
  BY <1>8, <1>9, <1>10, <1>13 DEF MvarUndisturbed

\* A holder uses the variable: what it finds is for it, and what it leaves for the other side.
LEMMA AccessKeeps ==
  ASSUME TokenInv, NEW p \in MvarProcs, Access(p)
  PROVE  TokenInv'
<1> SUFFICES ASSUME ~mvar_disturbed  PROVE MvarUndisturbed'
  BY DEF TokenInv, Access
<1>1. MvarShapes /\ SemaphoresFirst /\ QueuesTrue /\ OneMvarToken /\ TokenTells
  BY DEF TokenInv, MvarUndisturbed, Access
<1>2. /\ party[p] = "access" /\ party' = [party EXCEPT ![p] = "accessed"]
      /\ fresh' = (p \in MvarWriters) /\ mvar_sems' = mvar_sems
  BY DEF Access
<1>3. party'[p] = "accessed" /\ \A q \in MvarProcs : q # p => party'[q] = party[q]
  BY <1>1, <1>2 DEF MvarShapes
<1>4. fresh' \in BOOLEAN /\ (fresh' <=> p \in MvarWriters)
  <2>1. fresh' = (p \in MvarWriters)
    BY <1>2
  <2>2. fresh' \in BOOLEAN
    BY <2>1, Z3
  <2>3. fresh' <=> p \in MvarWriters
    BY <2>1, Zenon
  <2> QED
    BY <2>2, <2>3
<1>5. MvarShapes' /\ SemaphoresFirst'
  BY <1>1, <1>2, <1>4 DEF MvarShapes, SemaphoresFirst, Stands
<1>6. QueuesTrue'
  <2>1. ASSUME NEW m \in SemNames, NEW q \in Range(mvar_sems[m].waiting)
        PROVE  q \in MvarProcs /\ q # p /\ SleepsOn(q, m)
    BY <1>1, <1>2 DEF QueuesTrue, SleepsOn, MvarShapes, Sems, Range
  <2> QED
    BY <1>1, <1>2, <1>3, <2>1 DEF QueuesTrue, SleepsOn
<1>7. /\ mvar_sems["empty"].value = 0 /\ mvar_sems["full"].value = 0
      /\ \A q \in MvarProcs : HoldsToken(q) => q = p
  BY <1>1, <1>2 DEF OneMvarToken, HoldsToken, Holding
<1>8. \A q \in MvarProcs : HoldsToken(q)' => q = p
  BY <1>2, <1>3, <1>7 DEF HoldsToken, Holding
<1>9. OneMvarToken'
  BY <1>2, <1>7, <1>8 DEF OneMvarToken
<1>10. TokenTells'
  BY <1>2, <1>3, <1>4, <1>7, <1>8 DEF TokenTells, HoldsToken, Holding
<1> QED
  BY <1>5, <1>6, <1>9, <1>10 DEF MvarUndisturbed

\* sem_post: at most one sleeper goes on, one that slept on this semaphore.
LEMMA PostStep ==
  ASSUME MvarShapes, SemaphoresFirst, QueuesTrue, NEW p \in MvarProcs, NEW n \in SemNames,
         NEW from \in {"accessed", "post_token"}, NEW to \in {"post_token", "wait_token"},
         SemPost(p, n, from, to)
  PROVE  /\ MvarShapes' /\ SemaphoresFirst' /\ QueuesTrue'
         /\ \E w \in SUBSET MvarProcs :
              /\ \A q, r \in w : q = r
              /\ \A q \in w : q # p /\ SleepsOn(q, n)
              /\ party'[p] = to
              /\ \A q \in MvarProcs :
                   q # p => party'[q] = IF q \in w THEN AfterWait(q) ELSE party[q]
              /\ \A m \in SemNames : m # n => mvar_sems'[m] = mvar_sems[m]
              /\ w = {} => mvar_sems'[n].value = mvar_sems[n].value + 1
              /\ w # {} => mvar_sems'[n].value = mvar_sems[n].value
<1> DEFINE s == mvar_sems[n]
           w == WokenByPost(s)
<1>1. /\ party[p] = from /\ fresh' = fresh /\ mvar_cmd' = mvar_cmd
      /\ mvar_sems' = [mvar_sems EXCEPT ![n] = AfterPost(s)]
      /\ party' = [q \in MvarProcs |-> IF q = p THEN to
                                       ELSE IF q \in w THEN AfterWait(q) ELSE party[q]]
  BY DEF SemPost
<1>2. s \in Sems /\ s.active /\ IsInjective(s.waiting)
  BY <1>1 DEF MvarShapes, SemaphoresFirst, QueuesTrue
<1>3. /\ AfterPost(s) \in Sems /\ IsInjective(AfterPost(s).waiting) /\ AfterPost(s).active
      /\ Range(AfterPost(s).waiting) = Range(s.waiting) \ w
      /\ w \subseteq Range(s.waiting) /\ \A x, y \in w : x = y
      /\ w = {} => AfterPost(s).value = s.value + 1
      /\ w # {} => AfterPost(s).value = s.value
  BY <1>2, PostResult
<1>4. ASSUME NEW m \in SemNames, NEW q \in Range(mvar_sems[m].waiting)
      PROVE  q \in MvarProcs /\ q # p /\ SleepsOn(q, m)
  BY <1>1 DEF QueuesTrue, SleepsOn, MvarShapes, Sems, Range
<1> HIDE DEF w
<1>5. /\ mvar_sems'[n] = AfterPost(s) /\ \A m \in SemNames : m # n => mvar_sems'[m] = mvar_sems[m]
      /\ party'[p] = to
      /\ \A q \in MvarProcs : q # p => party'[q] = IF q \in w THEN AfterWait(q) ELSE party[q]
  BY <1>1 DEF MvarShapes
<1>6. ASSUME NEW q \in MvarProcs, q # p  PROVE AfterWait(q) \in Stands
  BY DEF AfterWait, MvarShapes, Stands
<1>7. party' \in [MvarProcs -> Stands]
  BY <1>1, <1>6 DEF MvarShapes, Stands
<1>8. MvarShapes'
  BY <1>1, <1>3, <1>7 DEF MvarShapes
<1>9. SemaphoresFirst'
  BY <1>1, <1>3, <1>5 DEF SemaphoresFirst
<1>10. QueuesTrue'
  <2>1. ASSUME NEW m \in SemNames, NEW q \in Range(mvar_sems'[m].waiting)
        PROVE  SleepsOn(q, m)'
    <3>1. q \in Range(mvar_sems[m].waiting)
      BY <1>3, <1>5
    <3>2. q \notin w
      <4>1. CASE m = n
        BY <1>3, <1>5, <4>1
      <4>2. CASE m # n
        <5>1. SleepsOn(q, m)
          BY <1>4, <3>1
        <5>2. q \in w => SleepsOn(q, n)
          BY <1>3, <1>4
        <5> QED
          BY <4>2, <5>1, <5>2 DEF SleepsOn, SemNames
      <4> QED
        BY <4>1, <4>2
    <3> QED
      BY <1>4, <1>5, <3>1, <3>2 DEF SleepsOn
  <2>2. \A m \in SemNames : IsInjective(mvar_sems'[m].waiting)
    BY <1>3, <1>5 DEF QueuesTrue
  <2> QED
    BY <2>1, <2>2 DEF QueuesTrue
<1>11. w \in SUBSET MvarProcs /\ \A q \in w : q # p /\ SleepsOn(q, n)
  BY <1>3, <1>4
<1> QED
  BY <1>3, <1>5, <1>8, <1>9, <1>10, <1>11

\* The mutex goes to a holder of the token, who reaches the variable with it.
LEMMA PostMutexKeeps ==
  ASSUME TokenInv, NEW p \in MvarProcs, PostMutex(p)
  PROVE  TokenInv'
<1> SUFFICES ASSUME ~mvar_disturbed  PROVE MvarUndisturbed'
  BY DEF TokenInv, PostMutex, SemPost
<1>1. MvarShapes /\ SemaphoresFirst /\ QueuesTrue /\ OneMvarToken /\ TokenTells
  BY DEF TokenInv, MvarUndisturbed, PostMutex, SemPost
<1>2. /\ party[p] = "accessed" /\ fresh' = fresh
      /\ "mutex" \in SemNames /\ "empty" \in SemNames /\ "full" \in SemNames
  BY DEF PostMutex, SemPost, SemNames
<1>3. PICK w \in SUBSET MvarProcs :
        /\ \A q \in w : q # p /\ SleepsOn(q, "mutex")
        /\ party'[p] = "post_token"
        /\ \A q \in MvarProcs : q # p => party'[q] = IF q \in w THEN AfterWait(q) ELSE party[q]
        /\ \A m \in SemNames : m # "mutex" => mvar_sems'[m] = mvar_sems[m]
  BY <1>1, <1>2, PostStep DEF PostMutex
<1>4. MvarShapes' /\ SemaphoresFirst' /\ QueuesTrue'
  BY <1>1, <1>2, PostStep DEF PostMutex
<1>5. mvar_sems'["empty"] = mvar_sems["empty"] /\ mvar_sems'["full"] = mvar_sems["full"]
  BY <1>2, <1>3
<1>6. \A q \in w : party[q] = "asleep_mutex" /\ party'[q] = "access"
  BY <1>3 DEF SleepsOn, AfterWait
<1>7. \A q \in MvarProcs : HoldsToken(q)' <=> HoldsToken(q)
  BY <1>2, <1>3, <1>6 DEF HoldsToken, Holding
<1>8. OneMvarToken'
  BY <1>1, <1>5, <1>7 DEF OneMvarToken
<1>9. TokenTells'
  BY <1>1, <1>2, <1>3, <1>5, <1>6 DEF TokenTells
<1> QED
  BY <1>4, <1>8, <1>9 DEF MvarUndisturbed

\* The token goes to a process of the other side, or into the other semaphore.
LEMMA PostTokenKeeps ==
  ASSUME TokenInv, NEW p \in MvarProcs, PostToken(p)
  PROVE  TokenInv'
<1> SUFFICES ASSUME ~mvar_disturbed  PROVE MvarUndisturbed'
  BY DEF TokenInv, PostToken, SemPost
<1>1. MvarShapes /\ SemaphoresFirst /\ QueuesTrue /\ OneMvarToken /\ TokenTells
  BY DEF TokenInv, MvarUndisturbed, PostToken, SemPost
<1> DEFINE n == Gives(p)
<1>2. /\ party[p] = "post_token" /\ fresh' = fresh /\ (fresh <=> p \in MvarWriters)
      /\ n \in {"empty", "full"} /\ (n = "full" <=> p \in MvarWriters)
      /\ n \in SemNames /\ "empty" \in SemNames /\ "full" \in SemNames
  BY <1>1 DEF PostToken, SemPost, SemNames, Gives, TokenTells
<1>3. PICK w \in SUBSET MvarProcs :
        /\ \A q, r \in w : q = r
        /\ \A q \in w : q # p /\ SleepsOn(q, n)
        /\ party'[p] = "wait_token"
        /\ \A q \in MvarProcs : q # p => party'[q] = IF q \in w THEN AfterWait(q) ELSE party[q]
        /\ \A m \in SemNames : m # n => mvar_sems'[m] = mvar_sems[m]
        /\ w = {} => mvar_sems'[n].value = mvar_sems[n].value + 1
        /\ w # {} => mvar_sems'[n].value = mvar_sems[n].value
  BY <1>1, <1>2, PostStep DEF PostToken
<1>4. MvarShapes' /\ SemaphoresFirst' /\ QueuesTrue'
  BY <1>1, <1>2, PostStep DEF PostToken
<1>5. /\ mvar_sems["empty"].value = 0 /\ mvar_sems["full"].value = 0
      /\ \A q \in MvarProcs : HoldsToken(q) => q = p
  BY <1>1, <1>2 DEF OneMvarToken, HoldsToken, Holding
<1>6. \A q \in w : /\ party'[q] = "wait_mutex" /\ (q \in MvarReaders <=> p \in MvarWriters)
  BY <1>2, <1>3, MvarAssumption DEF SleepsOn, AfterWait, Takes, MvarProcs
<1>7. \A q \in MvarProcs : HoldsToken(q)' => q \in w
  BY <1>3, <1>5 DEF HoldsToken, Holding
<1>8. CASE w = {}
  <2>1. mvar_sems'[n].value = 1 /\ \A m \in {"empty", "full"} : m # n => mvar_sems'[m].value = 0
    BY <1>2, <1>3, <1>5, <1>8
  <2>2. OneMvarToken' /\ TokenTells'
    BY <1>2, <1>7, <1>8, <2>1 DEF OneMvarToken, TokenTells, HoldsToken, Holding
  <2> QED
    BY <1>4, <2>2 DEF MvarUndisturbed
<1>9. CASE w # {}
  <2>1. mvar_sems'["empty"].value = 0 /\ mvar_sems'["full"].value = 0
    BY <1>2, <1>3, <1>5, <1>9
  <2>2. OneMvarToken'
    BY <1>3, <1>7, <2>1 DEF OneMvarToken
  <2>3. TokenTells'
    BY <1>2, <1>6, <1>7, <2>1 DEF TokenTells, HoldsToken, Holding
  <2> QED
    BY <1>4, <2>2, <2>3 DEF MvarUndisturbed
<1> QED
  BY <1>8, <1>9

\* A killed process leaves the queues; a token it had is gone.
LEMMA MvarKillKeeps ==
  ASSUME TokenInv, NEW p \in MvarProcs, KillMvarProc(p)
  PROVE  TokenInv'
<1> SUFFICES ASSUME ~mvar_disturbed  PROVE MvarUndisturbed'
  BY DEF TokenInv, KillMvarProc
<1>1. MvarShapes /\ SemaphoresFirst /\ QueuesTrue /\ OneMvarToken /\ TokenTells
  BY DEF TokenInv, MvarUndisturbed, KillMvarProc
<1>2. /\ party[p] # "none" /\ party' = [party EXCEPT ![p] = "none"]
      /\ mvar_sems' = [n \in SemNames |-> WithoutWaiter(mvar_sems[n], p)]
      /\ fresh' = fresh /\ mvar_cmd' = mvar_cmd
  BY DEF KillMvarProc, Running
<1>3. party'[p] = "none" /\ \A q \in MvarProcs : q # p => party'[q] = party[q]
  BY <1>1, <1>2 DEF MvarShapes
<1>4. ASSUME NEW n \in SemNames
      PROVE  /\ mvar_sems[n].active
             /\ mvar_sems'[n] \in Sems /\ IsInjective(mvar_sems'[n].waiting)
             /\ Range(mvar_sems'[n].waiting) = Range(mvar_sems[n].waiting) \ {p}
             /\ mvar_sems'[n].active /\ mvar_sems'[n].value = mvar_sems[n].value
  <2>1. /\ mvar_sems[n] \in Sems /\ mvar_sems[n].active /\ IsInjective(mvar_sems[n].waiting)
        /\ mvar_sems'[n] = WithoutWaiter(mvar_sems[n], p)
    BY <1>1, <1>2 DEF MvarShapes, SemaphoresFirst, QueuesTrue
  <2>2. ASSUME NEW s \in Sems, IsInjective(s.waiting)
        PROVE  /\ WithoutWaiter(s, p) \in Sems /\ IsInjective(WithoutWaiter(s, p).waiting)
               /\ Range(WithoutWaiter(s, p).waiting) = Range(s.waiting) \ {p}
               /\ WithoutWaiter(s, p).active = s.active /\ WithoutWaiter(s, p).value = s.value
    BY <2>2, MvarSemaphoreResults
  <2> QED
    BY ONLY <2>1, <2>2
<1>5. MvarShapes'
  BY <1>1, <1>2, <1>4 DEF MvarShapes, Stands
<1>6. SemaphoresFirst'
  BY <1>4 DEF SemaphoresFirst
<1>7. QueuesTrue'
  <2>1. ASSUME NEW n \in SemNames, NEW q \in Range(mvar_sems'[n].waiting)
        PROVE  SleepsOn(q, n)'
    <3>1. q \in Range(mvar_sems[n].waiting) /\ q # p
      BY <1>4
    <3>2. q \in MvarProcs /\ SleepsOn(q, n)
      BY <1>1, <3>1 DEF QueuesTrue, MvarShapes, Sems, Range
    <3> QED
      BY <1>3, <3>1, <3>2 DEF SleepsOn
  <2> QED
    BY <1>4, <2>1 DEF QueuesTrue
<1>8. "empty" \in SemNames /\ "full" \in SemNames
  BY DEF SemNames
<1>9. OneMvarToken' /\ TokenTells'
  BY <1>1, <1>2, <1>3, <1>4, <1>8 DEF OneMvarToken, TokenTells, HoldsToken, Holding
<1> QED
  BY <1>5, <1>6, <1>7, <1>9 DEF MvarUndisturbed

\* The command itself moves no process and no token.
MvarCommandStep ==
  \/ \E n \in MvarArgs : RefuseMvar(n)
  \/ FilePid \/ MvarCreationFails \/ KillMvarCmd

LEMMA CommandStepKeeps ==
  ASSUME CommandShape, TokenInv, MvarCommandStep
  PROVE  TokenInv'
<1>1. UNCHANGED <<mvar_sems, party, fresh, mvar_disturbed>>
  BY DEF MvarCommandStep, RefuseMvar, FilePid, MvarCreationFails, KillMvarCmd
<1>2. mvar_cmd.at = "idle" => mvar_cmd'.at = "idle"
  BY DEF MvarCommandStep, RefuseMvar, FilePid, MvarCreationFails, KillMvarCmd, Looping, Sides
<1> SUFFICES ASSUME ~mvar_disturbed  PROVE MvarUndisturbed'
  BY <1>1 DEF TokenInv
<1>3. MvarShapes /\ SemaphoresFirst /\ QueuesTrue /\ OneMvarToken /\ TokenTells
  BY DEF TokenInv, MvarUndisturbed
<1>4. MvarShapes' /\ QueuesTrue' /\ OneMvarToken' /\ TokenTells'
  BY <1>1, <1>3 DEF MvarShapes, QueuesTrue, SleepsOn, OneMvarToken, HoldsToken, TokenTells
<1>5. SemaphoresFirst'
  BY <1>1, <1>2, <1>3 DEF SemaphoresFirst
<1> QED
  BY <1>4, <1>5 DEF MvarUndisturbed

LEMMA NextKeeps ==
  ASSUME CommandShape, TokenInv, [MvarNext]_mvarvars
  PROVE  TokenInv'
<1>1. CASE UNCHANGED mvarvars
  BY <1>1 DEF mvarvars, TokenInv, MvarUndisturbed, MvarShapes, SemaphoresFirst, QueuesTrue,
              SleepsOn,
              OneMvarToken, HoldsToken, TokenTells
<1>2. ASSUME NEW n \in MvarArgs, GiveMvar(n)  PROVE TokenInv'
  BY <1>2, GiveKeeps
<1>3. CASE MvarCommandStep
  BY <1>3, CommandStepKeeps
<1>4. ASSUME NEW p \in MvarProcs, CreateMvarProc(p)  PROVE TokenInv'
  <2>1. /\ UNCHANGED <<mvar_sems, fresh, mvar_disturbed>> /\ party[p] = "none"
        /\ party' = [party EXCEPT ![p] = "created"] /\ mvar_cmd.at # "idle"
    BY <1>4 DEF CreateMvarProc, Looping, Sides
  <2>2. mvar_cmd'.at = mvar_cmd.at
    BY <1>4 DEF CreateMvarProc, CommandShape
  <2> QED
    BY <2>1, <2>2, StandKeeps
<1>5. ASSUME NEW p \in MvarProcs, FindsNumber(p)  PROVE TokenInv'
  <2>1. PICK to \in {"wait_token", "none"} : party' = [party EXCEPT ![p] = to]
    BY <1>5 DEF FindsNumber
  <2>2. /\ UNCHANGED <<mvar_sems, fresh, mvar_disturbed>> /\ party[p] = "created"
        /\ mvar_cmd'.at = mvar_cmd.at
    BY <1>5 DEF FindsNumber
  <2> QED
    BY <2>1, <2>2, StandKeeps
<1>6. ASSUME NEW p \in MvarProcs, PartyStep(p) \/ KillMvarProc(p)  PROVE TokenInv'
  BY <1>5, <1>6, WaitTokenKeeps, WaitMutexKeeps, AccessKeeps, PostMutexKeeps, PostTokenKeeps,
     MvarKillKeeps DEF PartyStep
<1>7. ASSUME NEW p \in MvarProcs, UnblockMvarProc(p)  PROVE TokenInv'
  BY <1>7 DEF UnblockMvarProc, TokenInv
<1> QED
  BY <1>1, <1>2, <1>3, <1>4, <1>6, <1>7 DEF MvarNext, MvarCommandStep

LEMMA CommandKeeps ==
  ASSUME CommandShape, [MvarNext]_mvarvars
  PROVE  CommandShape'
<1>1. ASSUME NEW n \in MvarArgs, GiveMvar(n) \/ RefuseMvar(n)  PROVE CommandShape'
  BY <1>1 DEF GiveMvar, RefuseMvar, CommandShape, NoMvarCmd, Sides
<1>2. CASE FilePid \/ MvarCreationFails \/ KillMvarCmd
  <2>1. NoMvarCmd \in [at : {"idle"} \cup Sides, i : Int, new : MvarProcs \cup {Nobody}]
    BY DEF NoMvarCmd
  <2>2. NextEntry \in [at : {"idle"} \cup Sides, i : Int, new : MvarProcs \cup {Nobody}]
    <3>1. mvar_cmd.at \in {"idle"} \cup Sides /\ mvar_cmd.i + 1 \in Int
      BY DEF CommandShape
    <3>2. [NoMvarCmd EXCEPT !.at = "readers"]
            \in [at : {"idle"} \cup Sides, i : Int, new : MvarProcs \cup {Nobody}]
      BY DEF NoMvarCmd, Sides
    <3> QED
      BY <2>1, <3>1, <3>2 DEF NextEntry
  <2> QED
    BY <1>2, <2>1, <2>2 DEF FilePid, MvarCreationFails, KillMvarCmd, CommandShape
<1>3. ASSUME NEW p \in MvarProcs, CreateMvarProc(p)  PROVE CommandShape'
  BY <1>3 DEF CreateMvarProc, CommandShape
<1>4. ASSUME NEW p \in MvarProcs, PartyStep(p) \/ KillMvarProc(p) \/ UnblockMvarProc(p)
      PROVE  mvar_cmd' = mvar_cmd
  BY <1>4 DEF PartyStep, FindsNumber, WaitToken, WaitMutex, SemWait, Access, PostMutex, PostToken,
              SemPost, KillMvarProc, UnblockMvarProc
<1>5. CASE UNCHANGED mvarvars
  BY <1>5 DEF mvarvars, CommandShape
<1> QED
  BY <1>1, <1>2, <1>3, <1>4, <1>5 DEF MvarNext, CommandShape

-----------------------------------------------------------------------------
(* The theorems.                                                           *)

\* mvar_writer_entry and mvar_reader_entry pass one token between mvar_empty and
\* mvar_full, which tells whether the variable is unread, until a user unblocks
\* a sleeper or gives the command again over an unread value.
THEOREM MvarInvariant == MvarSpec => []MvarInv
<1>1. MvarInit => MvarInv
  BY MvarInitKeeps DEF MvarInv, MvarInit, CommandShape, NoMvarCmd
<1>2. MvarInv /\ [MvarNext]_mvarvars => MvarInv'
  BY NextKeeps, CommandKeeps DEF MvarInv
<1> QED
  BY <1>1, <1>2, PTL DEF MvarSpec

\* Whoever reaches the variable finds what it came for: a reader a value nobody
\* has read, a writer none; whatever the number of processes, of runs of mvar with
\* what numbers of writers and readers, of creations that fail, and of kills.
THEOREM ValuesReadOnce == MvarSpec => []ReadOnce
<1>1. MvarInv => ReadOnce
  BY DEF MvarInv, TokenInv, MvarUndisturbed, TokenTells, ReadOnce
<1> QED
  BY <1>1, MvarInvariant, PTL

\* At most one process is at the variable, or between the two semaphores at all.
THEOREM OneAtTheVariable ==
  MvarSpec => [](~mvar_disturbed => \A p, q \in MvarProcs : HoldsToken(p) /\ HoldsToken(q) => p = q)
<1>1. MvarInv =>
        (~mvar_disturbed => \A p, q \in MvarProcs : HoldsToken(p) /\ HoldsToken(q) => p = q)
  BY DEF MvarInv, TokenInv, MvarUndisturbed, OneMvarToken
<1> QED
  BY <1>1, MvarInvariant, PTL
=============================================================================
