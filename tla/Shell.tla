--------------------------------- MODULE Shell ---------------------------------
(***************************************************************************)
(* How the shell runs a line (Userland/shell/shell.c): the buffers through *)
(* which it hands each child its command, the pipe of a piped line and the *)
(* globals through which every child dispatches its command                *)
(* (Userland/shell/lib/commandRead.c), with the scheduler between any two  *)
(* steps.  A command is its name and its argument: "reads" is one that     *)
(* reads until the end of its input (cat, wc, filter), "runs" any other.   *)
(* One that runs ends by itself, or stays until the user has it end:       *)
(* test_proc loops for ever, sem wait sleeps on a semaphore of the user's, *)
(* tron and test_mm go on until a key.  What the line is split into is the *)
(* subject of CommandLine, the bytes in a pipe that of Pipes; argc is left *)
(* out.                                                                    *)
(***************************************************************************)
EXTENDS Integers, FiniteSets

CONSTANTS
  Children,      \* slots of the process table
  MAX_PIPES,
  MaxLines,      \* bound of the model: lines given to the shell
  MaxCtrlC       \* bound of the model: times Ctrl+C is pressed

ASSUME ShellAssumption ==
  Children \subseteq Nat /\ MAX_PIPES \in Nat /\ MaxLines \in Nat /\ MaxCtrlC \in Nat

VARIABLES
  shell,         \* where main() stands, what it has still to create, whom it waits for
  given_to,      \* g_fg_cmd, g_bg_cmd, and the contexts of the two sides of a pipe
  context_pipe,  \* pipe_id of the two contexts
  cr_last,       \* cr_last_cmd_id, and the buffer cr_last_argv points into
  child,         \* of each process: its entry, where it stands, what it has read
  pipes,         \* write_open and read_open of each pipe
  lines,         \* what is left of the two bounds
  abandoned      \* ghost: pipes of which a side was not created, or was killed

shellvars == <<shell, given_to, context_pipe, cr_last, child, pipes, lines, abandoned>>

Kinds    == {"reads", "runs"}
Roles    == {"fg", "bg", "a", "b"}
NoPipe   == -1
PipeIds  == 0..(MAX_PIPES - 1)
None     == [id |-> "none", arg |-> 0]
FreePipe == [write_open |-> 0, read_open |-> 0]
NoChild  == [role |-> "none", at |-> "dead", idx |-> "none", runs |-> None,
             pipe |-> NoPipe, mine |-> None, mixed |-> FALSE]

\* What is left of a process whose command is over.
Over(c) == [NoChild EXCEPT !.at = "close", !.role = c.role, !.pipe = c.pipe]
LiveChild(p) == child[p].at # "dead"
ActivePipe(i) == pipes[i] # FreePipe
AtPrompt == [at |-> "prompt", makes |-> "none", waits |-> {}]

ShellInit ==
  /\ shell = AtPrompt
  /\ given_to = [r \in Roles |-> None]
  /\ context_pipe = NoPipe
  /\ cr_last = [id |-> "none", argv |-> "fg"]
  /\ child = [p \in Children |-> NoChild]
  /\ pipes = [i \in PipeIds |-> FreePipe]
  /\ lines = [given |-> 0, ctrlc |-> MaxCtrlC]
  /\ abandoned = {}

-----------------------------------------------------------------------------
(* shell_dispatch: run_foreground, run_background, run_piped.              *)

\* The line's number tells its arguments from those of any other line.
GiveLine ==
  /\ shell.at = "prompt" /\ lines.given < MaxLines
  /\ lines' = [lines EXCEPT !.given = @ + 1]
Command(id, side) == [id |-> id, arg |-> 2 * lines.given + side]

FillForeground(id) ==
  /\ GiveLine
  /\ given_to' = [given_to EXCEPT !["fg"] = Command(id, 0)]
  /\ shell' = [AtPrompt EXCEPT !.at = "create", !.makes = "fg"]
  /\ UNCHANGED <<context_pipe, cr_last, child, pipes, abandoned>>

\* g_bg_cmd is written over, whether or not an earlier child has read it.
FillBackground(id) ==
  /\ GiveLine
  /\ given_to' = [given_to EXCEPT !["bg"] = Command(id, 0)]
  /\ child' = [p \in Children |->
       IF child[p].role = "bg" /\ LiveChild(p) THEN [child[p] EXCEPT !.mixed = TRUE] ELSE child[p]]
  /\ shell' = [AtPrompt EXCEPT !.at = "create", !.makes = "bg"]
  /\ UNCHANGED <<context_pipe, cr_last, pipes, abandoned>>

FillPiped(id1, id2) ==
  /\ GiveLine
  /\ LET Free == {i \in PipeIds : ~ActivePipe(i)} IN
     IF Free = {} THEN UNCHANGED <<shell, given_to, context_pipe, pipes>>
     ELSE LET i == CHOOSE i \in Free : \A j \in Free : i <= j IN
          /\ pipes' = [pipes EXCEPT ![i] = [write_open |-> 1, read_open |-> 1]]
          /\ given_to' = [given_to EXCEPT !["a"] = Command(id1, 0), !["b"] = Command(id2, 1)]
          /\ context_pipe' = i
          /\ shell' = [AtPrompt EXCEPT !.at = "create", !.makes = "a"]
  /\ UNCHANGED <<cr_last, child, abandoned>>

\* The processes of a piped line are created one after the other, whatever
\* becomes of the first; only a background process is not waited for.
\* Mutant: nor is a foreground one.
AfterCreationUnwaited(made) ==
  IF shell.makes = "a" THEN [shell EXCEPT !.makes = "b", !.waits = made]
  ELSE IF shell.makes = "b" THEN [shell EXCEPT !.at = "wait", !.waits = @ \cup made]
  ELSE AtPrompt
AfterCreation(made) ==
  IF shell.makes = "a" THEN [shell EXCEPT !.makes = "b", !.waits = made]
  ELSE IF shell.makes = "bg" \/ (shell.makes = "fg" /\ made = {}) THEN AtPrompt
  ELSE [shell EXCEPT !.at = "wait", !.waits = @ \cup made]

\* The first free slot of the process table.
CreateChild(p) ==
  /\ shell.at = "create" /\ ~LiveChild(p) /\ p \notin shell.waits
  /\ \A q \in Children : q < p => LiveChild(q) \/ q \in shell.waits
  /\ shell' = AfterCreation({p})
  /\ child' = [child EXCEPT ![p] =
       [NoChild EXCEPT !.role = shell.makes, !.at = "entry", !.mine = given_to[shell.makes]]]
  /\ UNCHANGED <<given_to, context_pipe, cr_last, pipes, lines, abandoned>>

CreateChildFails ==
  /\ shell.at = "create"
  /\ shell' = AfterCreation({})
  /\ abandoned' = abandoned \cup (IF shell.makes \in {"a", "b"} THEN {context_pipe} ELSE {})
  /\ UNCHANGED <<given_to, context_pipe, cr_last, child, pipes, lines>>

WaitpidReturns ==
  /\ shell.at = "wait" /\ \A p \in shell.waits : ~LiveChild(p)
  /\ shell' = AtPrompt
  /\ UNCHANGED <<given_to, context_pipe, cr_last, child, pipes, lines, abandoned>>

-----------------------------------------------------------------------------
(* The four entries and cr_dispatch_exact.                                 *)

\* p goes on to at, after it wrote to cr_last if wrote; who dispatches then is mixed up.
Dispatching == {"find", "tokenize", "id", "call", "args"}
Goes(p, at, to, wrote) ==
  /\ child[p].at = at
  /\ child' = [q \in Children |->
       IF q = p THEN to
       ELSE IF wrote /\ child[q].at \in Dispatching THEN [child[q] EXCEPT !.mixed = TRUE]
       ELSE child[q]]
  /\ UNCHANGED <<shell, given_to, context_pipe, lines, abandoned>>

\* set_fd in the sides of a pipe; then cr_last_cmd_id = -1.
EnterProcess(p) ==
  /\ Goes(p, "entry", [child[p] EXCEPT !.at = "find",
            !.pipe = IF child[p].role \in {"a", "b"} THEN context_pipe ELSE NoPipe], TRUE)
  /\ cr_last' = [cr_last EXCEPT !.id = "none"]
  /\ UNCHANGED pipes

FindIndex(p) ==
  /\ Goes(p, "find", [child[p] EXCEPT !.at = "tokenize",
                                      !.idx = given_to[child[p].role].id], FALSE)
  /\ UNCHANGED <<cr_last, pipes>>

TokenizeLine(p) ==
  /\ Goes(p, "tokenize", [child[p] EXCEPT !.at = "id"], TRUE)
  /\ cr_last' = [cr_last EXCEPT !.argv = child[p].role]
  /\ UNCHANGED pipes

SetLastId(p) ==
  /\ Goes(p, "id", [child[p] EXCEPT !.at = "call", !.idx = "none"], TRUE)
  /\ cr_last' = [cr_last EXCEPT !.id = child[p].idx]
  /\ UNCHANGED pipes

\* commands_Handler does nothing for an id that is not in its switch.
CommandsHandler(p) ==
  /\ Goes(p, "call", IF cr_last.id = "none" THEN Over(child[p])
                     ELSE [child[p] EXCEPT !.at = "args", !.runs.id = cr_last.id], FALSE)
  /\ UNCHANGED <<cr_last, pipes>>

\* Whether a command stays is a matter of its name and its arguments.
ReadArguments(p) ==
  /\ \E at \in (IF child[p].runs.id = "reads" THEN {"run"} ELSE {"run", "stay"}) :
       Goes(p, "args", [child[p] EXCEPT !.at = at, !.runs.arg = given_to[cr_last.argv].arg], FALSE)
  /\ UNCHANGED <<cr_last, pipes>>

\* A command that reads ends at the end of its input.
ReadsPipe(p)     == child[p].runs.id = "reads" /\ child[p].role = "b"
ReadsKeyboard(p) == child[p].runs.id = "reads" /\ child[p].role # "b"
CommandReturns(p) ==
  /\ ~ReadsKeyboard(p) /\ (ReadsPipe(p) => pipes[child[p].pipe].write_open = 0)
  /\ Goes(p, "run", Over(child[p]), FALSE)
  /\ UNCHANGED <<cr_last, pipes>>

\* pipe_close on the side's own end, which frees the pipe with the last one;
\* then exit_process.
Minus1(n) == IF n > 0 THEN n - 1 ELSE 0
\* Mutants: a side that leaves its end open.
OnlyReadersClose(end, role)  ==
  IF role = "b" THEN [end EXCEPT !.read_open = Minus1(@)] ELSE end
OnlyWritersClose(end, role) ==
  IF role = "a" THEN [end EXCEPT !.write_open = Minus1(@)] ELSE end
PipeClosed(end, role) ==
  IF role = "a" THEN [end EXCEPT !.write_open = Minus1(@)]
                ELSE [end EXCEPT !.read_open = Minus1(@)]
CloseAndExit(p) ==
  /\ Goes(p, "close", NoChild, FALSE)
  /\ pipes' = IF child[p].pipe = NoPipe THEN pipes
              ELSE [pipes EXCEPT ![child[p].pipe] = PipeClosed(@, child[p].role)]
  /\ UNCHANGED cr_last

-----------------------------------------------------------------------------
(* The user.                                                               *)

\* Ctrl+D ends the input of a command that reads; a key or a sem post has one that
\* stays end.
CtrlD(p) ==
  /\ ReadsKeyboard(p)
  /\ Goes(p, "run", Over(child[p]), FALSE)
  /\ UNCHANGED <<cr_last, pipes>>

StayEnds(p) ==
  /\ Goes(p, "stay", Over(child[p]), FALSE)
  /\ UNCHANGED <<cr_last, pipes>>

\* Ctrl+C kills every foreground process; their ends of a pipe stay open.
ForegroundChildren == {p \in Children : LiveChild(p) /\ child[p].role # "bg"}
CtrlCShell ==
  /\ lines.ctrlc > 0 /\ ForegroundChildren # {}
  /\ lines' = [lines EXCEPT !.ctrlc = @ - 1]
  /\ child' = [p \in Children |-> IF p \in ForegroundChildren THEN NoChild ELSE child[p]]
  /\ abandoned' = abandoned \cup
       (IF \E p \in ForegroundChildren : child[p].role # "fg" THEN {context_pipe} ELSE {})
  /\ UNCHANGED <<shell, given_to, context_pipe, cr_last, pipes>>

ShellStep == CreateChildFails \/ WaitpidReturns \/ \E p \in Children : CreateChild(p)
ChildStep(p) ==
  \/ EnterProcess(p) \/ FindIndex(p) \/ TokenizeLine(p) \/ SetLastId(p)
  \/ CommandsHandler(p) \/ ReadArguments(p) \/ CommandReturns(p) \/ CloseAndExit(p)
GivesLine ==
  \E id \in Kinds :
    \/ FillForeground(id) \/ FillBackground(id)
    \/ \E id2 \in Kinds : FillPiped(id, id2)

ShellSystem == ShellStep \/ \E p \in Children : ChildStep(p)
ShellNext ==
  \/ ShellSystem \/ GivesLine \/ CtrlCShell
  \/ \E p \in Children : CtrlD(p) \/ StayEnds(p)

\* The CPU runs some ready process, of which each ends or waits after finitely
\* many steps; nobody makes the user type.
ShellFairness == WF_shellvars(ShellSystem)

ShellSpec == ShellInit /\ [][ShellNext]_shellvars /\ ShellFairness

-----------------------------------------------------------------------------
\* A process runs the command of the line it was created for, with that line's
\* arguments, unless another one wrote cr_last_* while it dispatched or, in the
\* background, the next line was given before.  In particular a line in the
\* foreground finds g_fg_cmd as the shell left it.
OwnCommand ==
  \A p \in Children :
    child[p].at \in {"run", "stay"} /\ ~child[p].mixed => child[p].runs = child[p].mine

\* The shell prompts with no pipe left, but for those of which a side was killed
\* by Ctrl+C or could not be created: the close of each side frees the others.
PipesKept ==
  shell.at = "prompt" => \A i \in PipeIds : ActivePipe(i) => i \in abandoned

\* The prompt comes back, unless a command waits for the keyboard, stays until the
\* user has it end, or is the side of a pipe that waits for one that was killed or
\* was not created.
WaitsForUser ==
  \E p \in Children : child[p].role # "bg" /\
    \/ child[p].at = "stay"
    \/ child[p].at = "run" /\ (ReadsKeyboard(p) \/ (ReadsPipe(p) /\ child[p].pipe \in abandoned))
PromptReturns == []<>(shell.at = "prompt" \/ WaitsForUser)
=============================================================================
