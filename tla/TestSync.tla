------------------------------- MODULE TestSync --------------------------------
(***************************************************************************)
(* The command test_sync (Userland/shell/commands/test_sync.c): pairs of   *)
(* processes add to and subtract from one variable in a read and a write,  *)
(* between which they may yield, with a semaphore around the two when      *)
(* use_sem is set.  The command creates them, waits for each and prints    *)
(* the variable.                                                           *)
(*                                                                         *)
(* Only the command is a foreground process: Ctrl+C kills it and leaves    *)
(* the workers, and the command can be given again while they run.  Users  *)
(* may also kill a worker, or unblock one that waits for the semaphore.    *)
(***************************************************************************)
EXTENDS UserSems, FiniteSets

CONSTANTS
  DecWorkers, IncWorkers,   \* the processes there is room for
  MaxOps,                   \* bound of the model: n, added up over all the times
                            \* the command is given
  MaxPairs,                 \* bound of the model: pairs
  MaxMeddling               \* bound of the model: kills, unblocks and Ctrl+C

Workers == DecWorkers \cup IncWorkers

ASSUME TestSyncAssumption ==
  /\ DecWorkers \cap IncWorkers = {}
  /\ MaxOps \in Nat /\ MaxPairs \in Nat /\ MaxMeddling \in Nat

VARIABLES
  g_global,     \* the shared variable
  sync_args,    \* g_n and g_use_sem, which every worker copies when it starts
  tsync_sem,    \* the semaphore of that name
  worker,       \* of each worker: where it stands, its operations left, its aux
  runner,       \* the command: where it stands, what it has created
  budget,       \* what is left of the bounds on operations and meddling
  net,          \* ghost: the sum of the operations done since g_global = 0
  disturbed     \* ghost: a waiter was unblocked, or g_global reset under workers

syncvars == <<g_global, sync_args, tsync_sem, worker, runner, budget, net, disturbed>>

Asleep == [at |-> "none", left |-> 0, use |-> FALSE, aux |-> 0]
IdleRunner == [at |-> "idle", pairs |-> 0, tried |-> 0, mine |-> {}, use |-> FALSE]
InCritical == {"read", "store", "post"}
Live(w) == worker[w].at \notin {"none", "dead"}
Amount(w) == IF w \in IncWorkers THEN 1 ELSE -1

SyncInit ==
  /\ g_global = 0
  /\ sync_args = [n |-> 0, use |-> FALSE]
  /\ tsync_sem = NoSemaphore
  /\ worker = [w \in Workers |-> Asleep]
  /\ runner = IdleRunner
  /\ budget = [ops |-> MaxOps, meddling |-> MaxMeddling]
  /\ net = 0
  /\ disturbed = FALSE

-----------------------------------------------------------------------------
(* cmd_test_sync.                                                          *)

StartTestSync(n, pairs, use) ==
  /\ runner.at = "idle" /\ n <= budget.ops
  /\ tsync_sem' = IF use THEN OpenedWith(tsync_sem, 1) ELSE tsync_sem
  /\ g_global' = 0 /\ net' = 0
  /\ sync_args' = [n |-> n, use |-> use]
  /\ runner' = [IdleRunner EXCEPT !.at = "create", !.pairs = pairs, !.use = use]
  /\ disturbed' = (disturbed \/ \E w \in Workers : Live(w))
  /\ budget' = [budget EXCEPT !.ops = @ - n]
  /\ UNCHANGED worker

\* The decrementers first.  A process that cannot be created is not missed.
Kind == IF runner.tried < runner.pairs THEN DecWorkers ELSE IncWorkers
CreateStep(created) ==
  /\ runner.at = "create" /\ runner.tried < 2 * runner.pairs
  /\ runner' = [runner EXCEPT !.tried = @ + 1, !.mine = @ \cup created]
  /\ worker' = [w \in Workers |->
                  IF w \in created THEN [Asleep EXCEPT !.at = "created"] ELSE worker[w]]
  /\ UNCHANGED <<g_global, sync_args, tsync_sem, budget, net, disturbed>>
CreateWorker(w) == w \in Kind \ runner.mine /\ ~Live(w) /\ CreateStep({w})
CreateFails == CreateStep({})

\* waitpid on each, then sem_close and the result.
AllDead(S) == \A w \in S : worker[w].at = "dead"

WokenAll(q) ==
  worker' = [w \in Workers |->
    IF worker[w].at = "queued" /\ \E k \in 1..Len(q) : q[k] = w
      THEN [worker[w] EXCEPT !.at = "read"] ELSE worker[w]]

PrintFinalValue ==
  /\ runner.at = "create" /\ runner.tried = 2 * runner.pairs
  /\ AllDead(runner.mine)
  /\ tsync_sem' = IF runner.use THEN ClosedOnce(tsync_sem) ELSE tsync_sem
  /\ WokenAll(IF runner.use THEN WokenByClose(tsync_sem) ELSE <<>>)
  /\ runner' = [runner EXCEPT !.at = "printed"]
  /\ UNCHANGED <<g_global, sync_args, budget, net, disturbed>>

CommandEnds ==
  /\ runner.at = "printed"
  /\ runner' = IdleRunner
  /\ UNCHANGED <<g_global, sync_args, tsync_sem, worker, budget, net, disturbed>>

-----------------------------------------------------------------------------
(* sync_dec_worker and sync_inc_worker.                                    *)

NextOp(r) ==
  [r EXCEPT !.at = IF r.left = 0 THEN "dead" ELSE IF r.use THEN "wait" ELSE "read"]

Begin(w) ==
  /\ worker[w].at = "created"
  /\ worker' = [worker EXCEPT ![w] =
                  NextOp([@ EXCEPT !.left = sync_args.n, !.use = sync_args.use])]
  /\ UNCHANGED <<g_global, sync_args, tsync_sem, runner, budget, net, disturbed>>

Wait(w) ==
  /\ worker[w].at = "wait"
  /\ IF WaitReturns(tsync_sem)
       THEN /\ tsync_sem' = TokenTaken(tsync_sem)
            /\ worker' = [worker EXCEPT ![w].at = "read"]
       ELSE /\ tsync_sem' = WithWaiter(tsync_sem, w)
            /\ worker' = [worker EXCEPT ![w].at = "queued"]
  /\ UNCHANGED <<g_global, sync_args, runner, budget, net, disturbed>>

\* slowInc, which may yield between its two halves.
Read(w) ==
  /\ worker[w].at = "read"
  /\ worker' = [worker EXCEPT ![w] = [@ EXCEPT !.at = "store", !.aux = g_global]]
  /\ UNCHANGED <<g_global, sync_args, tsync_sem, runner, budget, net, disturbed>>

Store(w) ==
  /\ worker[w].at = "store"
  /\ g_global' = worker[w].aux + Amount(w)
  /\ net' = net + Amount(w)
  /\ worker' = [worker EXCEPT ![w] = [@ EXCEPT !.at = "post", !.aux = 0]]
  /\ UNCHANGED <<sync_args, tsync_sem, runner, budget, disturbed>>

\* The end of an iteration.
Post(w) ==
  /\ worker[w].at = "post"
  /\ tsync_sem' = IF worker[w].use THEN AfterPost(tsync_sem) ELSE tsync_sem
  /\ LET woken == IF worker[w].use THEN WokenByPost(tsync_sem) ELSE {} IN
     worker' = [v \in Workers |->
       IF v = w THEN NextOp([worker[w] EXCEPT !.left = @ - 1])
       ELSE IF v \in woken /\ worker[v].at = "queued"
         THEN [worker[v] EXCEPT !.at = "read"]
       ELSE worker[v]]
  /\ UNCHANGED <<g_global, sync_args, runner, budget, net, disturbed>>

-----------------------------------------------------------------------------
(* What a user may do meanwhile.                                           *)

Meddle ==
  /\ budget.meddling > 0
  /\ budget' = [budget EXCEPT !.meddling = @ - 1]

CtrlCTestSync ==
  /\ Meddle
  /\ runner.at \in {"create", "printed"}
  /\ runner' = IdleRunner
  /\ UNCHANGED <<g_global, sync_args, tsync_sem, worker, net, disturbed>>

KillWorker(w) ==
  /\ Meddle /\ Live(w)
  /\ worker' = [worker EXCEPT ![w] = [Asleep EXCEPT !.at = "dead"]]
  /\ tsync_sem' = WithoutWaiter(tsync_sem, w)
  /\ UNCHANGED <<g_global, sync_args, runner, net, disturbed>>

\* syscall_unblock: sem_wait returns, and its pid stays in the queue.
UnblockWorker(w) ==
  /\ Meddle /\ worker[w].at = "queued"
  /\ worker' = [worker EXCEPT ![w].at = "read"]
  /\ disturbed' = TRUE
  /\ UNCHANGED <<g_global, sync_args, tsync_sem, runner, net>>

-----------------------------------------------------------------------------
WorkerStep(w) == Begin(w) \/ Wait(w) \/ Read(w) \/ Store(w) \/ Post(w)
RunnerStep == (\E w \in Workers : CreateWorker(w)) \/ CreateFails \/ PrintFinalValue \/ CommandEnds
User ==
  \/ \E n \in 1..MaxOps, pairs \in 1..MaxPairs, use \in BOOLEAN :
       StartTestSync(n, pairs, use)
  \/ CtrlCTestSync
  \/ \E w \in Workers : KillWorker(w) \/ UnblockWorker(w)

SyncSystem == (\E w \in Workers : WorkerStep(w)) \/ RunnerStep
SyncNext == SyncSystem \/ User

\* The CPU runs some ready process.  Which one need not be fair: each of them
\* ends or waits after finitely many steps.
SyncFairness == WF_syncvars(SyncSystem)

SyncSpec == SyncInit /\ [][SyncNext]_syncvars /\ SyncFairness

-----------------------------------------------------------------------------
\* With the semaphore no operation is lost: the variable holds the sum of the
\* operations done, whoever is preempted, killed or interrupted in between, as
\* long as no user unblocks a waiter or gives the command over live workers
\* (README: "con semaforo mutex; el valor final es siempre 0").
NoLostUpdate ==
  sync_args.use /\ ~disturbed => g_global = net

\* A token lost with a worker killed between sem_wait and sem_post, or spent on
\* an entry that unblock left in the queue.
Holders == {w \in Workers : worker[w].use /\ worker[w].at \in InCritical}
TokenLost ==
  /\ budget.meddling < MaxMeddling
  /\ tsync_sem.active /\ tsync_sem.value = 0 /\ Holders = {}

\* The command prints its result, unless it is interrupted or a user lost a
\* token for good: no worker is left behind in the queue of the semaphore.
TestSyncEnds == []<>(runner.at # "create" \/ TokenLost)
=============================================================================
