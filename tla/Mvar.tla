---------------------------------- MODULE Mvar ---------------------------------
(***************************************************************************)
(* The command mvar (Userland/shell/commands/mvar_cmds.c): writers and     *)
(* readers share one variable through the semaphores mvar_empty, mvar_full *)
(* and mvar_mutex.  The command creates them and returns; they run until   *)
(* they are killed, and nobody closes the semaphores, whose values the     *)
(* next mvar finds.                                                        *)
(*                                                                         *)
(* A process finds its number by looking its pid up in a table the command *)
(* fills after it created the process, so one that runs first exits.  The  *)
(* next mvar writes over the tables and their lengths.  A process that is  *)
(* gone may come back, in this run or a later one, with another pid.       *)
(***************************************************************************)
EXTENDS UserSems

CONSTANTS
  MvarWriters, MvarReaders,   \* the processes there is room for
  MAX_PARTY,                  \* 10: the most of each kind one mvar may ask for
  MvarArgs,                   \* the numbers of writers and readers a user may ask for
  MaxMvars,                   \* bound of the model: times the command is given
  MaxMvarMeddling             \* bound of the model: kills and unblocks

MvarProcs == MvarWriters \cup MvarReaders

ASSUME MvarAssumption ==
  /\ MvarWriters \cap MvarReaders = {}
  /\ MvarArgs \subseteq [{"writers", "readers"} -> Int]
  /\ MAX_PARTY \in Nat \ {0}
  /\ MaxMvars \in Nat /\ MaxMvarMeddling \in Nat

VARIABLES
  mvar_val,        \* 0, or a writer's letter
  mvar_sems,       \* the three semaphores
  mvar_n,          \* n_writers and n_readers
  mvar_pids,       \* writer_pids and reader_pids
  party,           \* where each process stands
  mvar_cmd,        \* the command: its loop, i, whom it has just created
  mvar_budget,     \* what is left of the bounds
  fresh,           \* ghost: the variable holds a value nobody has read
  token_lost,      \* ghost: a process was killed before its second sem_post
  mvar_disturbed   \* ghost: a sleeper was unblocked, or the command given again
                   \* while a value is unread

mvarvars == <<mvar_val, mvar_sems, mvar_n, mvar_pids, party, mvar_cmd, mvar_budget,
              fresh, token_lost, mvar_disturbed>>

SemNames == {"empty", "full", "mutex"}
Sides    == {"writers", "readers"}
Numbers  == 0..(MAX_PARTY - 1)
Nobody   == "nobody"
NoMvarCmd == [at |-> "idle", i |-> 0, new |-> Nobody]
Running(p) == party[p] # "none"
Side(p)    == IF p \in MvarWriters THEN "writers" ELSE "readers"

\* The semaphores a process of each kind takes and posts, in order.
Takes(p) == IF p \in MvarWriters THEN "empty" ELSE "full"
Gives(p) == IF p \in MvarWriters THEN "full" ELSE "empty"

MvarInit ==
  /\ mvar_val = "0"
  /\ mvar_sems = [n \in SemNames |-> NoSemaphore]
  /\ mvar_n = [s \in Sides |-> 0]
  /\ mvar_pids = [s \in Sides |-> [i \in Numbers |-> Nobody]]
  /\ party = [p \in MvarProcs |-> "none"]
  /\ mvar_cmd = NoMvarCmd
  /\ mvar_budget = [given |-> MaxMvars, meddling |-> MaxMvarMeddling]
  /\ fresh = FALSE
  /\ token_lost = FALSE
  /\ mvar_disturbed = FALSE

-----------------------------------------------------------------------------
(* cmd_mvar.                                                               *)

InitialValue == [empty |-> 1, full |-> 0, mutex |-> 1]
InRange(n) == \A s \in Sides : n[s] \in 1..MAX_PARTY

\* mvar n["writers"] n["readers"], up to its loops: it takes over the tables, and
\* empties the variable whatever the semaphores say.
GiveMvar(n) ==
  /\ mvar_cmd.at = "idle" /\ mvar_budget.given > 0 /\ InRange(n)
  /\ mvar_n' = n
  /\ mvar_sems' = [name \in SemNames |-> OpenedWith(mvar_sems[name], InitialValue[name])]
  /\ mvar_val' = "0"
  /\ mvar_cmd' = [NoMvarCmd EXCEPT !.at = "writers"]
  /\ mvar_budget' = [mvar_budget EXCEPT !.given = @ - 1]
  /\ fresh' = FALSE
  /\ mvar_disturbed' = (mvar_disturbed \/ fresh)
  /\ UNCHANGED <<mvar_pids, party, token_lost>>

\* Numbers out of range are refused, after they were stored.
RefuseMvar(n) ==
  /\ mvar_cmd.at = "idle" /\ mvar_budget.given > 0 /\ ~InRange(n)
  /\ mvar_n' = n
  /\ mvar_budget' = [mvar_budget EXCEPT !.given = @ - 1]
  /\ UNCHANGED <<mvar_val, mvar_sems, mvar_pids, party, mvar_cmd, fresh, token_lost, mvar_disturbed>>

\* The two loops.  Creating a process and filing its pid are two steps; it may run,
\* and be gone, in between.
Looping == mvar_cmd.at \in Sides /\ mvar_cmd.new = Nobody
NextEntry ==
  IF mvar_cmd.i + 1 < mvar_n[mvar_cmd.at]
    THEN [at |-> mvar_cmd.at, i |-> mvar_cmd.i + 1, new |-> Nobody]
  ELSE IF mvar_cmd.at = "writers" THEN [NoMvarCmd EXCEPT !.at = "readers"]
  ELSE NoMvarCmd

CreateMvarProc(p) ==
  /\ Looping /\ mvar_cmd.at = Side(p)
  /\ party[p] = "none"
  /\ party' = [party EXCEPT ![p] = "created"]
  /\ mvar_cmd' = [mvar_cmd EXCEPT !.new = p]
  /\ UNCHANGED <<mvar_val, mvar_sems, mvar_n, mvar_pids, mvar_budget, fresh, token_lost, mvar_disturbed>>

FilePid ==
  LET p == mvar_cmd.new IN
  /\ mvar_cmd.at \in Sides /\ p \in MvarProcs
  /\ mvar_pids' = [mvar_pids EXCEPT ![mvar_cmd.at][mvar_cmd.i] = IF Running(p) THEN p ELSE Nobody]
  /\ mvar_cmd' = NextEntry
  /\ UNCHANGED <<mvar_val, mvar_sems, mvar_n, party, mvar_budget, fresh, token_lost, mvar_disturbed>>

\* A creation that fails leaves its entry of the table as it was.
MvarCreationFails ==
  /\ Looping
  /\ mvar_cmd' = NextEntry
  /\ UNCHANGED <<mvar_val, mvar_sems, mvar_n, mvar_pids, party, mvar_budget, fresh, token_lost, mvar_disturbed>>

-----------------------------------------------------------------------------
(* mvar_writer_entry and mvar_reader_entry.                                *)

\* A process looks its pid up once.  Behind the end of the table, which numbers that
\* were refused may allow, anything may stand.
Forgotten(p) == [s \in Sides |-> [i \in Numbers |-> IF mvar_pids[s][i] = p THEN Nobody ELSE mvar_pids[s][i]]]
InTable(p)   == \E i \in Numbers : i < mvar_n[Side(p)] /\ mvar_pids[Side(p)][i] = p
FindsNumber(p) ==
  /\ party[p] = "created"
  /\ \E found \in {InTable(p)} \cup (IF mvar_n[Side(p)] > MAX_PARTY THEN {TRUE} ELSE {}) :
       party' = [party EXCEPT ![p] = IF found THEN "wait_token" ELSE "none"]
  /\ mvar_pids' = Forgotten(p)
  /\ UNCHANGED <<mvar_val, mvar_sems, mvar_n, mvar_cmd, mvar_budget, fresh, token_lost, mvar_disturbed>>

\* sem_wait(name), from one place of the loop to the next.
SemWait(p, name, from, asleep, to) ==
  /\ party[p] = from
  /\ IF WaitReturns(mvar_sems[name])
       THEN /\ mvar_sems' = [mvar_sems EXCEPT ![name] = TokenTaken(@)]
            /\ party' = [party EXCEPT ![p] = to]
       ELSE /\ mvar_sems' = [mvar_sems EXCEPT ![name] = WithWaiter(@, p)]
            /\ party' = [party EXCEPT ![p] = asleep]
  /\ UNCHANGED <<mvar_val, mvar_n, mvar_pids, mvar_cmd, mvar_budget, fresh, token_lost, mvar_disturbed>>

\* sem_post(name): the sleeper it wakes goes on behind its sem_wait.
AfterWait(q) ==
  CASE party[q] = "asleep_token" -> "wait_mutex"
    [] party[q] = "asleep_mutex" -> "access"
    [] OTHER -> party[q]
SemPost(p, name, from, to) ==
  /\ party[p] = from
  /\ mvar_sems' = [mvar_sems EXCEPT ![name] = AfterPost(@)]
  /\ party' = [q \in MvarProcs |->
                 IF q = p THEN to
                 ELSE IF q \in WokenByPost(mvar_sems[name]) THEN AfterWait(q)
                 ELSE party[q]]
  /\ UNCHANGED <<mvar_val, mvar_n, mvar_pids, mvar_cmd, mvar_budget, fresh, token_lost, mvar_disturbed>>

WaitToken(p)  == SemWait(p, Takes(p), "wait_token", "asleep_token", "wait_mutex")
WaitMutex(p)  == SemWait(p, "mutex", "wait_mutex", "asleep_mutex", "access")
PostMutex(p)  == SemPost(p, "mutex", "accessed", "post_token")
\* Mutant: the token goes back to where it came from.
PostTokenBack(p) == SemPost(p, Takes(p), "post_token", "wait_token")
PostToken(p)  == SemPost(p, Gives(p), "post_token", "wait_token")

Access(p) ==
  /\ party[p] = "access"
  /\ party' = [party EXCEPT ![p] = "accessed"]
  /\ mvar_val' = IF p \in MvarWriters THEN "letter" ELSE mvar_val
  /\ fresh' = (p \in MvarWriters)
  /\ UNCHANGED <<mvar_sems, mvar_n, mvar_pids, mvar_cmd, mvar_budget, token_lost, mvar_disturbed>>

-----------------------------------------------------------------------------
(* What a user may do meanwhile.                                           *)

\* Between its first sem_wait and its second sem_post a process has the token.
Holding == {"wait_mutex", "asleep_mutex", "access", "accessed", "post_token"}

MeddleMvar ==
  /\ mvar_budget.meddling > 0
  /\ mvar_budget' = [mvar_budget EXCEPT !.meddling = @ - 1]

KillMvarProc(p) ==
  /\ MeddleMvar
  /\ Running(p)
  /\ party' = [party EXCEPT ![p] = "none"]
  /\ mvar_sems' = [n \in SemNames |-> WithoutWaiter(mvar_sems[n], p)]
  /\ mvar_pids' = Forgotten(p)
  /\ token_lost' = (token_lost \/ party[p] \in Holding)
  /\ UNCHANGED <<mvar_val, mvar_n, mvar_cmd, fresh, mvar_disturbed>>

\* Ctrl+C, or kill, in the middle of its loops: the processes it has created stay.
KillMvarCmd ==
  /\ MeddleMvar
  /\ mvar_cmd.at # "idle"
  /\ mvar_cmd' = NoMvarCmd
  /\ UNCHANGED <<mvar_val, mvar_sems, mvar_n, mvar_pids, party, fresh, token_lost, mvar_disturbed>>

\* syscall_unblock: sem_wait returns, and the pid stays in the queue.
UnblockMvarProc(p) ==
  /\ MeddleMvar
  /\ party[p] \in {"asleep_token", "asleep_mutex"}
  /\ party' = [party EXCEPT ![p] = AfterWait(p)]
  /\ mvar_disturbed' = TRUE
  /\ UNCHANGED <<mvar_val, mvar_sems, mvar_n, mvar_pids, mvar_cmd, fresh, token_lost>>

-----------------------------------------------------------------------------
PartyStep(p) ==
  FindsNumber(p) \/ WaitToken(p) \/ WaitMutex(p) \/ Access(p) \/ PostMutex(p) \/ PostToken(p)

MvarNext ==
  \/ (\E n \in MvarArgs : GiveMvar(n) \/ RefuseMvar(n))
  \/ FilePid \/ MvarCreationFails \/ KillMvarCmd
  \/ \E p \in MvarProcs :
       CreateMvarProc(p) \/ PartyStep(p) \/ KillMvarProc(p) \/ UnblockMvarProc(p)

\* The scheduler serves every ready process of a level in turn.
MvarFairness == \A p \in MvarProcs : WF_mvarvars(PartyStep(p))

MvarSpec == MvarInit /\ [][MvarNext]_mvarvars /\ MvarFairness

-----------------------------------------------------------------------------
\* Every value written is read exactly once before the next is written: a
\* reader gets to the variable only when it holds an unread value, a writer
\* only when it does not, and never both at once.  Kills keep it so.
ReadOnce ==
  ~mvar_disturbed =>
    \A p \in MvarProcs : party[p] = "access" => (fresh <=> p \in MvarReaders)

\* A value written is read in the end while a reader is left, in every run, though
\* processes are killed that sleep or have not taken their token yet.
ReaderLeft == \E r \in MvarReaders : party[r] \notin {"none", "created"}
ValueHandedOn == []<>(~fresh \/ ~ReaderLeft \/ token_lost \/ mvar_disturbed)
=============================================================================
