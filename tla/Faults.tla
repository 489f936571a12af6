--------------------------------- MODULE Faults --------------------------------
(***************************************************************************)
(* CPU exceptions of user processes (Kernel/interrupts/exceptions.c).  The *)
(* handler waits for Enter and then lets the process go on as a shell, at  *)
(* the stack pointer it saved at the first exception since boot; fatal     *)
(* exceptions halt the machine.  The process stays a child its parent      *)
(* waits for, so shells nest.                                              *)
(***************************************************************************)
EXTENDS Integers, FiniteSets

CONSTANTS
  Procs,   \* the pids there is room for, Shell among them
  Stacks   \* the stacks the heap has room for, from 1 on

Shell   == 2                 \* pid of the shell main() creates
NoStack == 0

VARIABLES
  initial_userland_rsp,   \* the stack it points into, NoStack before
  proc,                   \* of each process: what it does, its stack in the PCB,
                          \* the stack its RSP is in, the child it waits for
  halted

faultvars == <<initial_userland_rsp, proc, halted>>

NoProcess == [does |-> "none", stack |-> NoStack, rsp |-> NoStack, waits |-> 0]
LiveProcs == {p \in Procs : proc[p].does # "none"}
FreeStacks == {s \in Stacks : \A p \in LiveProcs : proc[p].stack # s}

FaultsInit ==
  /\ initial_userland_rsp = NoStack
  /\ halted = FALSE
  /\ \E s \in Stacks :
       proc = [p \in Procs |-> IF p = Shell
         THEN [NoProcess EXCEPT !.does = "shell", !.stack = s, !.rsp = s] ELSE NoProcess]

\* run_foreground: a child on a stack of its own, for which the shell waits.
RunForeground(p, q, s) ==
  /\ ~halted
  /\ proc[p].does = "shell" /\ proc[p].waits = 0
  /\ q \notin LiveProcs /\ s \in FreeStacks
  /\ proc' = [proc EXCEPT
       ![p].waits = q,
       ![q] = [does |-> "command", stack |-> s, rsp |-> s, waits |-> 0]]
  /\ UNCHANGED <<initial_userland_rsp, halted>>

\* The processes of D die: their stacks are free and those who wait go on.
Dead(D) ==
  proc' = [p \in Procs |->
    IF p \in D THEN NoProcess
    ELSE IF proc[p].waits \in D THEN [proc[p] EXCEPT !.waits = 0] ELSE proc[p]]

CommandReturns(p) ==
  /\ ~halted /\ proc[p].does = "command"
  /\ Dead({p})
  /\ UNCHANGED <<initial_userland_rsp, halted>>

\* Ctrl+C kills every foreground process but the shell.
CtrlCKills ==
  /\ ~halted /\ LiveProcs # {Shell}
  /\ Dead(LiveProcs \ {Shell})
  /\ UNCHANGED <<initial_userland_rsp, halted>>

\* handle_exception, up to waitForEnter, and what follows.
HandleException(p) ==
  /\ ~halted /\ proc[p].does = "command"
  /\ initial_userland_rsp' =
       IF initial_userland_rsp = NoStack THEN proc[p].rsp ELSE initial_userland_rsp
  /\ proc' = [proc EXCEPT ![p].does = "fault"]
  /\ UNCHANGED halted

ResumesAsShell(p) ==
  /\ ~halted /\ proc[p].does = "fault"
  /\ proc' = [proc EXCEPT ![p].does = "shell", ![p].rsp = initial_userland_rsp]
  /\ UNCHANGED <<initial_userland_rsp, halted>>

HandleFatalException(p) ==
  /\ ~halted /\ proc[p].does = "command"
  /\ halted' = TRUE
  /\ UNCHANGED <<initial_userland_rsp, proc>>

FaultsNext ==
  \/ \E p, q \in Procs, s \in Stacks : RunForeground(p, q, s)
  \/ \E p \in Procs : CommandReturns(p) \/ HandleException(p) \/ ResumesAsShell(p)
                      \/ HandleFatalException(p)
  \/ CtrlCKills

FaultsSpec == FaultsInit /\ [][FaultsNext]_faultvars

\* A process runs on its own stack: on none that another one owns or that was
\* released (README: "procesos de usuario independientes").
OwnStack == \A p \in LiveProcs : proc[p].rsp = proc[p].stack
=============================================================================
