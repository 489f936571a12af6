------------------------------- MODULE ShellProofs ----------------------------
(***************************************************************************)
(* Proofs about Shell for any number of processes, pipes, lines and        *)
(* Ctrl+C: a process runs the command it was created for, and no pipe is   *)
(* left behind that nobody abandoned. About CommandLine for lines and      *)
(* tables of any length: no character of a line is lost or doubled by its  *)
(* split, and the search finds every command. About PipePrograms for files *)
(* of any length: what a program writes and counts is right for what it    *)
(* has read.                                                               *)
(***************************************************************************)
EXTENDS Shell, CommandLine, PipePrograms, SequenceTheorems, FiniteSetTheorems, WellFoundedInduction, TLAPS

-----------------------------------------------------------------------------
(* The inductive invariant.                                                *)

Ids == {"none"} \cup Kinds
Commands == [id : Ids, arg : Int]
Entered == {"find", "tokenize", "id", "call", "args", "run", "stay", "close"}
ChildShapes ==
  [role : Roles \cup {"none"}, at : Entered \cup {"entry", "dead"}, idx : Ids, runs : Commands,
   pipe : PipeIds \cup {NoPipe}, mine : Commands, mixed : BOOLEAN]

ShellShapes ==
  /\ shell \in [at : {"prompt", "create", "wait"}, makes : Roles \cup {"none"},
                waits : SUBSET Children]
  /\ shell.at = "create" => shell.makes \in Roles
  /\ given_to \in [Roles -> Commands]
  /\ context_pipe \in PipeIds \cup {NoPipe}
  /\ cr_last \in [id : Ids, argv : Roles]
  /\ child \in [Children -> ChildShapes]
  /\ pipes \in [PipeIds -> [write_open : Nat, read_open : Nat]]
  /\ lines.given \in Int

\* The shell waits for every live process that is not in the background; it has
\* none when it begins to create.
ChildrenWaited ==
  /\ \A p \in Children : LiveChild(p) => child[p].role \in Roles
  /\ \A p \in Children : LiveChild(p) /\ child[p].role # "bg" => p \in shell.waits
  /\ shell.at = "prompt" \/ (shell.at = "create" /\ shell.makes # "b") => shell.waits = {}

\* A side of the pipe is one process; the reader is created after the writer.
SidesUnique ==
  /\ \A p, q \in Children :
       /\ LiveChild(p) /\ LiveChild(q)
       /\ child[p].role = child[q].role /\ child[p].role \in {"a", "b"}
       => p = q
  /\ shell.at = "create" /\ shell.makes = "b" =>
       \A p \in Children : LiveChild(p) => child[p].role # "b"

\* What a process that nobody disturbed has read and will read is its command.
Follows(c) ==
  /\ c.at \in Dispatching \cup {"entry"} => given_to[c.role] = c.mine
  /\ c.at \in {"tokenize", "id"} => c.idx = c.mine.id
  /\ c.at \in {"id", "call", "args"} => cr_last.argv = c.role
  /\ c.at = "call" => cr_last.id = c.mine.id
  /\ c.at = "args" => c.runs.id = c.mine.id
  /\ c.at \in {"run", "stay"} => c.runs = c.mine
ChildrenFollow == \A p \in Children : LiveChild(p) /\ ~child[p].mixed => Follows(child[p])

\* The ends of a pipe that is not abandoned are open for the sides that live or
\* are still to be created.
Due(role) ==
  \/ shell.at = "create" /\ (shell.makes = "a" \/ shell.makes = role)
  \/ \E p \in Children : LiveChild(p) /\ child[p].role = role
EndsDue(i) ==
  [write_open |-> IF i = context_pipe /\ Due("a") THEN 1 ELSE 0,
   read_open  |-> IF i = context_pipe /\ Due("b") THEN 1 ELSE 0]
PipesDue ==
  /\ \A i \in PipeIds : i \notin abandoned => pipes[i] = EndsDue(i)
  /\ \A p \in Children : LiveChild(p) =>
       child[p].pipe = IF child[p].role \in {"a", "b"} /\ child[p].at \in Entered
                         THEN context_pipe ELSE NoPipe

ShellInv == ShellShapes /\ ChildrenWaited /\ SidesUnique /\ ChildrenFollow /\ PipesDue

-----------------------------------------------------------------------------
(* A step of a process.                                                    *)

\* What Goes leaves of each process.
LEMMA GoesPointwise ==
  ASSUME ShellShapes, NEW p \in Children, NEW at, NEW to \in ChildShapes,
         NEW wrote \in BOOLEAN, Goes(p, at, to, wrote)
  PROVE  /\ child' \in [Children -> ChildShapes]
         /\ child'[p] = to
         /\ \A q \in Children \ {p} :
              /\ child'[q].role = child[q].role /\ child'[q].at = child[q].at
              /\ child'[q].idx = child[q].idx /\ child'[q].runs = child[q].runs
              /\ child'[q].pipe = child[q].pipe /\ child'[q].mine = child[q].mine
              /\ child'[q].mixed = (child[q].mixed \/ (wrote /\ child[q].at \in Dispatching))
PROOF
<1>. DEFINE To(q) == IF q = p THEN to
                     ELSE IF wrote /\ child[q].at \in Dispatching
                       THEN [child[q] EXCEPT !.mixed = TRUE] ELSE child[q]
<1>1. child' = [q \in Children |-> To(q)]
  BY DEF Goes
<1>2. \A q \in Children : child[q] \in ChildShapes
  BY DEF ShellShapes
<1>3. \A q \in Children : To(q) \in ChildShapes
  BY <1>2 DEF ChildShapes
<1>4. \A q \in Children : child'[q] = To(q)
  BY <1>1
<1>5. child' \in [Children -> ChildShapes]
  BY <1>1, <1>3
<1>6. ASSUME NEW q \in Children \ {p}
      PROVE  /\ child'[q].role = child[q].role /\ child'[q].at = child[q].at
             /\ child'[q].idx = child[q].idx /\ child'[q].runs = child[q].runs
             /\ child'[q].pipe = child[q].pipe /\ child'[q].mine = child[q].mine
             /\ child'[q].mixed = (child[q].mixed \/ (wrote /\ child[q].at \in Dispatching))
  <2>1. CASE wrote /\ child[q].at \in Dispatching
    BY <2>1, <1>2, <1>4 DEF ChildShapes
  <2>2. CASE ~(wrote /\ child[q].at \in Dispatching)
    BY <2>2, <1>2, <1>4 DEF ChildShapes
  <2> QED BY <2>1, <2>2
<1> QED BY <1>4, <1>5, <1>6

\* A process that lives on, in its role and with its pipe, and wrote nothing that
\* it will not read back.
LEMMA ChildMoves ==
  ASSUME ShellInv, NEW p \in Children, NEW at, NEW to \in ChildShapes,
         NEW wrote \in BOOLEAN, Goes(p, at, to, wrote), at # "dead",
         to.role = child[p].role, to.at \in Entered,
         to.pipe = IF child[p].role \in {"a", "b"} THEN context_pipe ELSE NoPipe,
         pipes' = pipes, cr_last' \in [id : Ids, argv : Roles], ~wrote => cr_last' = cr_last,
         ~to.mixed => Follows(to)'
  PROVE  ShellInv'
PROOF
<1>. USE DEF ShellInv
<1>1. /\ child' \in [Children -> ChildShapes]
      /\ child'[p] = to
      /\ \A q \in Children \ {p} :
           /\ child'[q].role = child[q].role /\ child'[q].at = child[q].at
           /\ child'[q].idx = child[q].idx /\ child'[q].runs = child[q].runs
           /\ child'[q].pipe = child[q].pipe /\ child'[q].mine = child[q].mine
           /\ child'[q].mixed = (child[q].mixed \/ (wrote /\ child[q].at \in Dispatching))
  BY GoesPointwise
<1>2. UNCHANGED <<shell, given_to, context_pipe, lines, abandoned>>
  BY DEF Goes
<1>3. \A q \in Children : child'[q].role = child[q].role /\ (LiveChild(q)' <=> LiveChild(q))
  BY <1>1 DEF Goes, LiveChild, Entered
<1>4. ShellShapes'
  BY <1>1, <1>2 DEF ShellShapes
<1>5. ChildrenWaited'
  BY <1>2, <1>3 DEF ChildrenWaited
<1>6. SidesUnique'
  BY <1>2, <1>3 DEF SidesUnique
<1>7. ChildrenFollow'
  <2>1. ASSUME NEW q \in Children, q # p, LiveChild(q)', ~child'[q].mixed
        PROVE  Follows(child[q])'
    <3>1. /\ LiveChild(q) /\ ~child[q].mixed /\ Follows(child[q])
          /\ ~(wrote /\ child[q].at \in Dispatching)
      BY <2>1, <1>1, <1>3 DEF ChildrenFollow
    <3>2. child[q].at \in Dispatching => cr_last' = cr_last
      BY <3>1
    <3> QED BY <3>1, <3>2, <2>1, <1>1, <1>2 DEF Follows, Dispatching
  <2>2. ~child'[p].mixed => Follows(child[p])'
    BY <1>1
  <2> QED BY <2>1, <2>2 DEF ChildrenFollow
<1>8. PipesDue'
  <2>1. \A r \in Roles : Due(r)' <=> Due(r)
    BY <1>2, <1>3 DEF Due
  <2>2. \A i \in PipeIds : EndsDue(i)' = EndsDue(i)
    BY <2>1, <1>2 DEF EndsDue, Roles
  <2>3. \A i \in PipeIds : i \notin abandoned' => pipes'[i] = EndsDue(i)'
    BY <2>2, <1>2 DEF PipesDue
  <2>4. ASSUME NEW q \in Children, LiveChild(q)'
        PROVE  child'[q].pipe = IF child'[q].role \in {"a", "b"} /\ child'[q].at \in Entered
                                  THEN context_pipe' ELSE NoPipe
    BY <2>4, <1>1, <1>2, <1>3 DEF PipesDue
  <2> QED BY <2>3, <2>4 DEF PipesDue
<1> QED BY <1>4, <1>5, <1>6, <1>7, <1>8

\* The five steps of a dispatch, and the end of the command.
LEMMA EnterProcessKeeps ==
  ASSUME ShellInv, NEW p \in Children, EnterProcess(p)
  PROVE  ShellInv'
PROOF
<1>. DEFINE pipe == IF child[p].role \in {"a", "b"} THEN context_pipe ELSE NoPipe
<1>0. PICK to : to = [child[p] EXCEPT !.at = "find", !.pipe = pipe]
  OBVIOUS
<1>1. /\ child[p] \in ChildShapes /\ context_pipe \in PipeIds \cup {NoPipe}
      /\ cr_last \in [id : Ids, argv : Roles]
  BY DEF ShellInv, ShellShapes
<1>2. /\ to \in ChildShapes /\ to.role = child[p].role /\ to.at = "find"
      /\ to.pipe = pipe /\ to.mine = child[p].mine /\ to.mixed = child[p].mixed
  BY <1>0, <1>1 DEF ChildShapes, Entered
<1>3. /\ Goes(p, "entry", to, TRUE) /\ pipes' = pipes
      /\ cr_last' \in [id : Ids, argv : Roles]
  BY <1>0, <1>1 DEF EnterProcess, Ids, Kinds
<1>4. child[p].at = "entry" /\ given_to' = given_to
  BY <1>3 DEF Goes
<1>5. ~to.mixed => Follows(to)'
  BY <1>2, <1>4 DEF ShellInv, ChildrenFollow, LiveChild, Follows, Dispatching
<1> QED BY <1>2, <1>3, <1>5, ChildMoves DEF Entered

LEMMA FindIndexKeeps ==
  ASSUME ShellInv, NEW p \in Children, FindIndex(p)
  PROVE  ShellInv'
PROOF
<1>0. PICK to : to = [child[p] EXCEPT !.at = "tokenize", !.idx = given_to[child[p].role].id]
  OBVIOUS
<1>1. /\ child[p] \in ChildShapes /\ cr_last \in [id : Ids, argv : Roles]
      /\ given_to \in [Roles -> Commands]
  BY DEF ShellInv, ShellShapes
<1>2. /\ Goes(p, "find", to, FALSE) /\ pipes' = pipes /\ cr_last' = cr_last
      /\ child[p].at = "find" /\ given_to' = given_to
  BY <1>0 DEF FindIndex, Goes
<1>3. /\ child[p].role \in Roles
      /\ child[p].pipe = IF child[p].role \in {"a", "b"} THEN context_pipe ELSE NoPipe
  BY <1>2 DEF ShellInv, ChildrenWaited, PipesDue, LiveChild, Entered
<1>4. given_to[child[p].role] \in Commands
  BY <1>1, <1>3
<1>5. /\ to \in ChildShapes /\ to.role = child[p].role /\ to.at = "tokenize"
      /\ to.pipe = child[p].pipe /\ to.mine = child[p].mine /\ to.mixed = child[p].mixed
      /\ to.idx = given_to[child[p].role].id
  BY <1>0, <1>1, <1>4 DEF ChildShapes, Entered, Commands
<1>6. ~to.mixed => Follows(to)'
  BY <1>2, <1>5 DEF ShellInv, ChildrenFollow, LiveChild, Follows, Dispatching
<1> QED BY <1>1, <1>2, <1>3, <1>5, <1>6, ChildMoves DEF Entered

LEMMA TokenizeLineKeeps ==
  ASSUME ShellInv, NEW p \in Children, TokenizeLine(p)
  PROVE  ShellInv'
PROOF
<1>0. PICK to : to = [child[p] EXCEPT !.at = "id"]
  OBVIOUS
<1>1. child[p] \in ChildShapes /\ cr_last \in [id : Ids, argv : Roles]
  BY DEF ShellInv, ShellShapes
<1>2. /\ Goes(p, "tokenize", to, TRUE) /\ pipes' = pipes
      /\ cr_last' = [cr_last EXCEPT !.argv = child[p].role]
      /\ child[p].at = "tokenize" /\ given_to' = given_to
  BY <1>0 DEF TokenizeLine, Goes
<1>3. /\ child[p].role \in Roles
      /\ child[p].pipe = IF child[p].role \in {"a", "b"} THEN context_pipe ELSE NoPipe
  BY <1>2 DEF ShellInv, ChildrenWaited, PipesDue, LiveChild, Entered
<1>4. cr_last' \in [id : Ids, argv : Roles] /\ cr_last'.argv = child[p].role
  BY <1>1, <1>2, <1>3
<1>5. /\ to \in ChildShapes /\ to.role = child[p].role /\ to.at = "id"
      /\ to.pipe = child[p].pipe /\ to.mine = child[p].mine /\ to.mixed = child[p].mixed
      /\ to.idx = child[p].idx
  BY <1>0, <1>1 DEF ChildShapes, Entered
<1>6. ~to.mixed => Follows(to)'
  BY <1>2, <1>4, <1>5 DEF ShellInv, ChildrenFollow, LiveChild, Follows, Dispatching
<1> QED BY <1>2, <1>3, <1>4, <1>5, <1>6, ChildMoves DEF Entered

LEMMA SetLastIdKeeps ==
  ASSUME ShellInv, NEW p \in Children, SetLastId(p)
  PROVE  ShellInv'
PROOF
<1>0. PICK to : to = [child[p] EXCEPT !.at = "call", !.idx = "none"]
  OBVIOUS
<1>1. child[p] \in ChildShapes /\ cr_last \in [id : Ids, argv : Roles]
  BY DEF ShellInv, ShellShapes
<1>2. /\ Goes(p, "id", to, TRUE) /\ pipes' = pipes
      /\ cr_last' = [cr_last EXCEPT !.id = child[p].idx]
      /\ child[p].at = "id" /\ given_to' = given_to
  BY <1>0 DEF SetLastId, Goes
<1>3. child[p].pipe = IF child[p].role \in {"a", "b"} THEN context_pipe ELSE NoPipe
  BY <1>2 DEF ShellInv, PipesDue, LiveChild, Entered
<1>4. /\ cr_last' \in [id : Ids, argv : Roles]
      /\ cr_last'.id = child[p].idx /\ cr_last'.argv = cr_last.argv
  BY <1>1, <1>2 DEF ChildShapes
<1>5. /\ to \in ChildShapes /\ to.role = child[p].role /\ to.at = "call"
      /\ to.pipe = child[p].pipe /\ to.mine = child[p].mine /\ to.mixed = child[p].mixed
  BY <1>0, <1>1 DEF ChildShapes, Entered, Ids, Kinds
<1>6. ~to.mixed => Follows(to)'
  BY <1>2, <1>4, <1>5 DEF ShellInv, ChildrenFollow, LiveChild, Follows, Dispatching
<1> QED BY <1>2, <1>3, <1>4, <1>5, <1>6, ChildMoves DEF Entered

\* A command that is over follows nothing any more.
LEMMA OverKeeps ==
  ASSUME ShellInv, NEW p \in Children, NEW at \in {"call", "run", "stay"},
         Goes(p, at, Over(child[p]), FALSE), pipes' = pipes, cr_last' = cr_last
  PROVE  ShellInv'
PROOF
<1>0. PICK to : to = Over(child[p])
  OBVIOUS
<1>1. child[p] \in ChildShapes /\ cr_last \in [id : Ids, argv : Roles]
  BY DEF ShellInv, ShellShapes
<1>2. child[p].at = at
  BY DEF Goes
<1>3. child[p].pipe = IF child[p].role \in {"a", "b"} THEN context_pipe ELSE NoPipe
  BY <1>2 DEF ShellInv, PipesDue, LiveChild, Entered
<1>4. NoChild \in ChildShapes
  BY DEF NoChild, ChildShapes, Roles, Ids, Kinds, Commands, None
<1>5. /\ to \in ChildShapes /\ to.role = child[p].role /\ to.at = "close"
      /\ to.pipe = child[p].pipe
  BY <1>0, <1>1, <1>4 DEF ChildShapes, Entered, Over
<1>6. Follows(to)'
  BY <1>5 DEF Follows, Dispatching
<1>7. Goes(p, at, to, FALSE)
  BY <1>0
<1> QED BY <1>1, <1>3, <1>5, <1>6, <1>7, ChildMoves DEF Entered

LEMMA CommandsHandlerKeeps ==
  ASSUME ShellInv, NEW p \in Children, CommandsHandler(p)
  PROVE  ShellInv'
PROOF
<1>1. CASE cr_last.id = "none"
  BY <1>1, OverKeeps DEF CommandsHandler
<1>2. CASE cr_last.id # "none"
  <2>0. PICK to : to = [child[p] EXCEPT !.at = "args", !.runs.id = cr_last.id]
    OBVIOUS
  <2>1. child[p] \in ChildShapes /\ cr_last \in [id : Ids, argv : Roles]
    BY DEF ShellInv, ShellShapes
  <2>2. /\ Goes(p, "call", to, FALSE) /\ pipes' = pipes /\ cr_last' = cr_last
        /\ child[p].at = "call" /\ given_to' = given_to
    BY <2>0, <1>2 DEF CommandsHandler, Goes
  <2>3. child[p].pipe = IF child[p].role \in {"a", "b"} THEN context_pipe ELSE NoPipe
    BY <2>2 DEF ShellInv, PipesDue, LiveChild, Entered
  <2>4. /\ to \in ChildShapes /\ to.role = child[p].role /\ to.at = "args"
        /\ to.pipe = child[p].pipe /\ to.mine = child[p].mine /\ to.mixed = child[p].mixed
        /\ to.runs.id = cr_last.id
    BY <2>0, <2>1 DEF ChildShapes, Entered, Commands
  <2>5. ~to.mixed => Follows(to)'
    BY <2>2, <2>4 DEF ShellInv, ChildrenFollow, LiveChild, Follows, Dispatching
  <2> QED BY <2>1, <2>2, <2>3, <2>4, <2>5, ChildMoves DEF Entered
<1> QED BY <1>1, <1>2

LEMMA ReadArgumentsKeeps ==
  ASSUME ShellInv, NEW p \in Children, ReadArguments(p)
  PROVE  ShellInv'
PROOF
<1>a. PICK at \in {"run", "stay"} :
        Goes(p, "args", [child[p] EXCEPT !.at = at, !.runs.arg = given_to[cr_last.argv].arg], FALSE)
  BY DEF ReadArguments
<1>0. PICK to : /\ to = [child[p] EXCEPT !.at = at, !.runs.arg = given_to[cr_last.argv].arg]
                /\ Goes(p, "args", to, FALSE)
  BY <1>a
<1>1. /\ child[p] \in ChildShapes /\ cr_last \in [id : Ids, argv : Roles]
      /\ given_to \in [Roles -> Commands]
  BY DEF ShellInv, ShellShapes
<1>2. /\ Goes(p, "args", to, FALSE) /\ pipes' = pipes /\ cr_last' = cr_last
      /\ child[p].at = "args" /\ given_to' = given_to
  BY <1>0 DEF ReadArguments, Goes
<1>3. child[p].pipe = IF child[p].role \in {"a", "b"} THEN context_pipe ELSE NoPipe
  BY <1>2 DEF ShellInv, PipesDue, LiveChild, Entered
<1>4. given_to[cr_last.argv] \in Commands
  BY <1>1
<1>5. /\ to \in ChildShapes /\ to.role = child[p].role /\ to.at = at
      /\ to.pipe = child[p].pipe /\ to.mine = child[p].mine /\ to.mixed = child[p].mixed
      /\ to.runs.id = child[p].runs.id /\ to.runs.arg = given_to[cr_last.argv].arg
  BY <1>0, <1>1, <1>4 DEF ChildShapes, Entered, Commands
<1>6. ~to.mixed => to.runs = to.mine
  <2>. SUFFICES ASSUME ~to.mixed PROVE to.runs = to.mine
    OBVIOUS
  <2>1. Follows(child[p])
    BY <1>2, <1>5 DEF ShellInv, ChildrenFollow, LiveChild
  <2>2. child[p].runs.id = child[p].mine.id /\ given_to[cr_last.argv] = child[p].mine
    BY <1>2, <2>1 DEF Follows, Dispatching
  <2>3. to.runs.id = to.mine.id /\ to.runs.arg = to.mine.arg
    BY <1>5, <2>2
  <2>4. to.runs \in Commands /\ to.mine \in Commands
    BY <1>5 DEF ChildShapes
  <2> QED BY <2>3, <2>4 DEF Commands
<1>7. ~to.mixed => Follows(to)'
  BY <1>5, <1>6 DEF Follows, Dispatching
<1> QED BY <1>1, <1>2, <1>3, <1>5, <1>7, ChildMoves DEF Entered

LEMMA CommandReturnsKeeps ==
  ASSUME ShellInv, NEW p \in Children, CommandReturns(p) \/ CtrlD(p) \/ StayEnds(p)
  PROVE  ShellInv'
PROOF BY OverKeeps DEF CommandReturns, CtrlD, StayEnds

\* The last step of a process: the side of a pipe closes the one end that is due
\* to it.
LEMMA CloseAndExitKeeps ==
  ASSUME ShellInv, NEW p \in Children, CloseAndExit(p)
  PROVE  ShellInv'
PROOF
<1>. USE DEF ShellInv
<1>1. /\ Goes(p, "close", NoChild, FALSE) /\ cr_last' = cr_last /\ child[p].at = "close"
      /\ UNCHANGED <<shell, given_to, context_pipe, lines, abandoned>>
  BY DEF CloseAndExit, Goes
<1>2. NoChild \in ChildShapes /\ NoChild.at = "dead"
  BY DEF NoChild, ChildShapes, Roles, Ids, Kinds, Commands, None
<1>3. child' \in [Children -> ChildShapes] /\ child'[p] = NoChild
  BY <1>1, <1>2, GoesPointwise
<1>4. \A q \in Children \ {p} :
        /\ child'[q].role = child[q].role /\ child'[q].at = child[q].at
        /\ child'[q].idx = child[q].idx /\ child'[q].runs = child[q].runs
        /\ child'[q].pipe = child[q].pipe /\ child'[q].mine = child[q].mine
        /\ child'[q].mixed = child[q].mixed
  <2>1. ASSUME NEW q \in Children \ {p}
        PROVE  child'[q].mixed = child[q].mixed
    <3>1. child[q].mixed \in BOOLEAN
      BY DEF ShellShapes, ChildShapes
    <3>2. child'[q].mixed = (child[q].mixed \/ (FALSE /\ child[q].at \in Dispatching))
      BY <1>1, <1>2, GoesPointwise
    <3> QED BY <3>1, <3>2
  <2> QED BY <1>1, <1>2, <2>1, GoesPointwise
<1>5. \A q \in Children : LiveChild(q)' <=> LiveChild(q) /\ q # p
  BY <1>2, <1>3, <1>4 DEF LiveChild
<1>6. /\ LiveChild(p) /\ child[p].role \in Roles
      /\ child[p].pipe = IF child[p].role \in {"a", "b"} THEN context_pipe ELSE NoPipe
  BY <1>1 DEF ChildrenWaited, PipesDue, LiveChild, Entered
<1>7. /\ context_pipe \in PipeIds \cup {NoPipe} /\ NoPipe \notin PipeIds
      /\ pipes \in [PipeIds -> [write_open : Nat, read_open : Nat]]
  BY ShellAssumption DEF ShellShapes, NoPipe, PipeIds
<1>8. ChildrenWaited'
  BY <1>1, <1>4, <1>5 DEF ChildrenWaited
<1>9. SidesUnique'
  BY <1>1, <1>4, <1>5 DEF SidesUnique
<1>10. ChildrenFollow'
  <2>1. ASSUME NEW q \in Children, LiveChild(q)', ~child'[q].mixed
        PROVE  Follows(child[q])'
    <3>1. q # p /\ LiveChild(q) /\ ~child[q].mixed /\ Follows(child[q])
      BY <2>1, <1>4, <1>5 DEF ChildrenFollow
    <3> QED BY <3>1, <1>1, <1>4 DEF Follows, Dispatching
  <2> QED BY <2>1 DEF ChildrenFollow
<1>11. ASSUME NEW r \in {"a", "b"}
       PROVE  Due(r)' <=> Due(r) /\ r # child[p].role
  <2>1. CASE r = child[p].role
    <3>1. p \in shell.waits
      BY <1>6, <2>1 DEF ChildrenWaited
    <3>2. ~(shell.at = "create" /\ (shell.makes = "a" \/ shell.makes = r))
      BY <1>6, <2>1, <3>1 DEF ChildrenWaited, SidesUnique
    <3>3. \A q \in Children : LiveChild(q) /\ child[q].role = r => q = p
      BY <1>6, <2>1 DEF SidesUnique
    <3> QED BY <1>1, <1>4, <1>5, <2>1, <3>2, <3>3 DEF Due
  <2>2. CASE r # child[p].role
    BY <2>2, <1>1, <1>4, <1>5 DEF Due
  <2> QED BY <2>1, <2>2
<1>12. CASE child[p].pipe = NoPipe
  <2>1. pipes' = pipes
    BY <1>12 DEF CloseAndExit
  <2>2. ASSUME NEW i \in PipeIds
        PROVE  EndsDue(i)' = EndsDue(i)
    BY <1>1, <1>6, <1>7, <1>11, <1>12 DEF EndsDue
  <2>3. PipesDue'
    BY <2>1, <2>2, <1>1, <1>4, <1>5 DEF PipesDue
  <2>4. ShellShapes'
    BY <2>1, <1>1, <1>3 DEF ShellShapes
  <2> QED BY <2>3, <2>4, <1>8, <1>9, <1>10
<1>13. CASE child[p].pipe # NoPipe
  <2>1. child[p].role \in {"a", "b"} /\ child[p].pipe = context_pipe /\ context_pipe \in PipeIds
    BY <1>6, <1>7, <1>13
  <2>2. pipes' = [pipes EXCEPT ![context_pipe] = PipeClosed(@, child[p].role)]
    BY <1>13, <2>1 DEF CloseAndExit
  <2>3. PipeClosed(pipes[context_pipe], child[p].role) \in [write_open : Nat, read_open : Nat]
    BY <1>7, <2>1 DEF PipeClosed, Minus1
  <2>4. pipes' \in [PipeIds -> [write_open : Nat, read_open : Nat]]
    BY <1>7, <2>2, <2>3
  <2>5. ASSUME NEW i \in PipeIds, i \notin abandoned
        PROVE  pipes'[i] = EndsDue(i)'
    <3>1. pipes[i] = EndsDue(i)
      BY <2>5 DEF PipesDue
    <3>2. CASE i # context_pipe
      <4>1. EndsDue(i) = [write_open |-> 0, read_open |-> 0] /\ EndsDue(i)' = EndsDue(i)
        BY <3>2, <1>1 DEF EndsDue
      <4> QED BY <4>1, <3>1, <3>2, <2>2, <1>7
    <3>3. CASE i = context_pipe
      <4>1. Due(child[p].role)
        BY <1>6 DEF Due
      <4>2. pipes'[i] = PipeClosed(EndsDue(i), child[p].role)
        BY <3>1, <3>3, <2>2, <1>7
      <4>3. CASE child[p].role = "a"
        <5>1. ~Due("a")' /\ (Due("b")' <=> Due("b")) /\ Due("a")
          BY <1>11, <4>1, <4>3
        <5> QED BY <5>1, <4>2, <4>3, <3>3, <1>1 DEF EndsDue, PipeClosed, Minus1
      <4>4. CASE child[p].role = "b"
        <5>1. ~Due("b")' /\ (Due("a")' <=> Due("a")) /\ Due("b")
          BY <1>11, <4>1, <4>4
        <5> QED BY <5>1, <4>2, <4>4, <3>3, <1>1 DEF EndsDue, PipeClosed, Minus1
      <4> QED BY <4>3, <4>4, <2>1
    <3> QED BY <3>2, <3>3
  <2>6. PipesDue'
    BY <2>5, <1>1, <1>4, <1>5 DEF PipesDue
  <2>7. ShellShapes'
    BY <2>4, <1>1, <1>3 DEF ShellShapes
  <2> QED BY <2>6, <2>7, <1>8, <1>9, <1>10
<1> QED BY <1>12, <1>13

-----------------------------------------------------------------------------
(* A step of main().                                                       *)

\* A new process has read nothing, and its command is the one just given.
LEMMA CreateChildKeeps ==
  ASSUME ShellInv, NEW p \in Children, CreateChild(p)
  PROVE  ShellInv'
PROOF
<1>. USE DEF ShellInv
<1>1. PICK new : new = [NoChild EXCEPT !.role = shell.makes, !.at = "entry",
                                       !.mine = given_to[shell.makes]]
  OBVIOUS
<1>2. /\ shell.at = "create" /\ ~LiveChild(p)
      /\ shell' = AfterCreation({p})
      /\ child' = [child EXCEPT ![p] = new]
      /\ UNCHANGED <<given_to, context_pipe, cr_last, pipes, lines, abandoned>>
  BY <1>1 DEF CreateChild
<1>3. /\ shell.makes \in Roles /\ given_to[shell.makes] \in Commands
      /\ shell \in [at : {"prompt", "create", "wait"}, makes : Roles \cup {"none"},
                    waits : SUBSET Children]
  BY <1>2 DEF ShellShapes
<1>4. /\ new \in ChildShapes /\ new.role = shell.makes /\ new.at = "entry"
      /\ new.pipe = NoPipe /\ new.mine = given_to[shell.makes]
  <2>1. NoChild \in ChildShapes /\ NoChild.pipe = NoPipe
    BY DEF NoChild, ChildShapes, Roles, Ids, Kinds, Commands, None
  <2> QED BY <2>1, <1>1, <1>3 DEF ChildShapes
<1>5. /\ child' \in [Children -> ChildShapes] /\ child'[p] = new
      /\ \A q \in Children \ {p} : child'[q] = child[q]
  BY <1>2, <1>4 DEF ShellShapes
<1>6. /\ LiveChild(p)'
      /\ \A q \in Children \ {p} : LiveChild(q)' <=> LiveChild(q)
  BY <1>4, <1>5 DEF LiveChild
<1>7. /\ shell.makes = "a"  => shell' = [at |-> "create", makes |-> "b", waits |-> {p}]
      /\ shell.makes = "b"  => shell' = [at |-> "wait", makes |-> "b", waits |-> shell.waits \cup {p}]
      /\ shell.makes = "bg" => shell' = AtPrompt
      /\ shell.makes = "fg" => shell' = [at |-> "wait", makes |-> "fg", waits |-> shell.waits \cup {p}]
  BY <1>2, <1>3 DEF AfterCreation
<1>8. ShellShapes'
  <2>1. /\ shell' \in [at : {"prompt", "create", "wait"}, makes : Roles \cup {"none"},
                       waits : SUBSET Children]
        /\ shell'.at = "create" => shell'.makes \in Roles
    BY <1>3, <1>7 DEF Roles, AtPrompt
  <2> QED BY <2>1, <1>2, <1>5 DEF ShellShapes
<1>9. shell.makes # "b" => \A q \in Children : LiveChild(q) => child[q].role = "bg"
  BY <1>2 DEF ChildrenWaited
<1>10. ChildrenWaited'
  <2>1. \A q \in Children : LiveChild(q)' => child'[q].role \in Roles
    BY <1>3, <1>4, <1>5, <1>6 DEF ChildrenWaited
  <2>2. \A q \in Children : LiveChild(q)' /\ child'[q].role # "bg" => q \in shell'.waits
    <3>1. CASE shell.makes = "b"
      BY <3>1, <1>4, <1>5, <1>6, <1>7 DEF ChildrenWaited
    <3>2. CASE shell.makes # "b"
      BY <3>2, <1>3, <1>4, <1>5, <1>6, <1>7, <1>9 DEF Roles
    <3> QED BY <3>1, <3>2
  <2>3. shell'.at = "prompt" \/ (shell'.at = "create" /\ shell'.makes # "b") => shell'.waits = {}
    BY <1>3, <1>7 DEF Roles, AtPrompt
  <2> QED BY <2>1, <2>2, <2>3 DEF ChildrenWaited
<1>11. SidesUnique'
  <2>1. \A q \in Children : LiveChild(q) /\ shell.makes \in {"a", "b"} => child[q].role # shell.makes
    BY <1>2, <1>9 DEF SidesUnique
  <2>2. shell'.at = "create" /\ shell'.makes = "b" => shell.makes = "a"
    BY <1>3, <1>7 DEF Roles, AtPrompt
  <2>3. ASSUME NEW q \in Children, NEW r \in Children, LiveChild(q)', LiveChild(r)',
               child'[q].role = child'[r].role, child'[q].role \in {"a", "b"}
        PROVE  q = r
    BY <2>1, <2>3, <1>4, <1>5, <1>6 DEF SidesUnique
  <2>4. shell'.at = "create" /\ shell'.makes = "b" =>
          \A q \in Children : LiveChild(q)' => child'[q].role # "b"
    BY <2>2, <1>4, <1>5, <1>6, <1>9
  <2> QED BY <2>3, <2>4 DEF SidesUnique
<1>12. ChildrenFollow'
  <2>1. ASSUME NEW q \in Children, q # p, LiveChild(q)', ~child'[q].mixed
        PROVE  Follows(child[q])'
    <3>1. child'[q] = child[q] /\ Follows(child[q])
      BY <2>1, <1>5, <1>6 DEF ChildrenFollow
    <3> QED BY <3>1, <1>2 DEF Follows
  <2>2. Follows(child[p])'
    BY <1>2, <1>4, <1>5 DEF Follows, Dispatching
  <2> QED BY <2>1, <2>2 DEF ChildrenFollow
<1>13. PipesDue'
  <2>1. ASSUME NEW r \in {"a", "b"}
        PROVE  Due(r)' <=> Due(r)
    <3>1. CASE shell.makes = r
      <4>1. Due(r)
        BY <1>2, <3>1 DEF Due
      <4>2. Due(r)'
        BY <3>1, <1>4, <1>5, <1>6 DEF Due
      <4> QED BY <4>1, <4>2
    <3>2. CASE shell.makes # r /\ shell.makes = "a"
      <4>1. Due(r)
        BY <1>2, <3>2 DEF Due
      <4>2. Due(r)'
        BY <3>2, <1>7 DEF Due
      <4> QED BY <4>1, <4>2
    <3>3. CASE shell.makes # r /\ shell.makes # "a"
      <4>1. ~(shell.at = "create" /\ (shell.makes = "a" \/ shell.makes = r))
        BY <3>3
      <4>2. ~(shell'.at = "create" /\ (shell'.makes = "a" \/ shell'.makes = r))
        BY <3>3, <1>3, <1>7 DEF Roles, AtPrompt
      <4>3. ASSUME NEW q \in Children
            PROVE  LiveChild(q)' /\ child'[q].role = r <=> LiveChild(q) /\ child[q].role = r
        BY <3>3, <1>2, <1>4, <1>5, <1>6
      <4> QED BY <4>1, <4>2, <4>3 DEF Due
    <3> QED BY <3>1, <3>2, <3>3
  <2>2. \A i \in PipeIds : EndsDue(i)' = EndsDue(i)
    BY <2>1, <1>2 DEF EndsDue
  <2>3. ASSUME NEW q \in Children, LiveChild(q)'
        PROVE  child'[q].pipe = IF child'[q].role \in {"a", "b"} /\ child'[q].at \in Entered
                                  THEN context_pipe' ELSE NoPipe
    <3>1. CASE q = p
      BY <3>1, <1>4, <1>5 DEF Entered
    <3>2. CASE q # p
      BY <2>3, <3>2, <1>2, <1>5, <1>6 DEF PipesDue
    <3> QED BY <3>1, <3>2
  <2> QED BY <2>2, <2>3, <1>2 DEF PipesDue
<1> QED BY <1>8, <1>10, <1>11, <1>12, <1>13

\* The pipe of a line of which a side cannot be created is abandoned.
LEMMA CreateChildFailsKeeps ==
  ASSUME ShellInv, CreateChildFails
  PROVE  ShellInv'
PROOF
<1>. USE DEF ShellInv
<1>1. /\ shell.at = "create" /\ shell' = AfterCreation({})
      /\ abandoned' = abandoned \cup (IF shell.makes \in {"a", "b"} THEN {context_pipe} ELSE {})
      /\ UNCHANGED <<given_to, context_pipe, cr_last, child, pipes, lines>>
  BY DEF CreateChildFails
<1>2. /\ shell.makes \in Roles
      /\ shell \in [at : {"prompt", "create", "wait"}, makes : Roles \cup {"none"},
                    waits : SUBSET Children]
  BY <1>1 DEF ShellShapes
<1>3. /\ shell.makes = "a" => shell' = [at |-> "create", makes |-> "b", waits |-> {}]
      /\ shell.makes = "b" => shell' = [at |-> "wait", makes |-> "b", waits |-> shell.waits]
      /\ shell.makes \in {"fg", "bg"} => shell' = AtPrompt
  BY <1>1, <1>2 DEF AfterCreation
<1>4. /\ shell.makes # "b" => \A q \in Children : LiveChild(q) => child[q].role = "bg"
      /\ \A q \in Children : LiveChild(q)' <=> LiveChild(q)
  BY <1>1 DEF ChildrenWaited, LiveChild
<1>5. ShellShapes'
  BY <1>1, <1>2, <1>3 DEF ShellShapes, Roles, AtPrompt
<1>6. ChildrenWaited'
  <2>1. CASE shell.makes = "b"
    BY <2>1, <1>1, <1>3, <1>4 DEF ChildrenWaited
  <2>2. CASE shell.makes # "b"
    BY <2>2, <1>1, <1>2, <1>3, <1>4 DEF ChildrenWaited, Roles, AtPrompt
  <2> QED BY <2>1, <2>2
<1>7. SidesUnique'
  <2>1. shell'.at = "create" /\ shell'.makes = "b" => shell.makes = "a"
    BY <1>2, <1>3 DEF Roles, AtPrompt
  <2> QED BY <2>1, <1>1, <1>4 DEF SidesUnique
<1>8. ChildrenFollow'
  BY <1>1, <1>4 DEF ChildrenFollow, Follows
<1>9. PipesDue'
  <2>1. ASSUME NEW i \in PipeIds, i \notin abandoned'
        PROVE  pipes'[i] = EndsDue(i)'
    <3>1. pipes'[i] = EndsDue(i)
      BY <2>1, <1>1 DEF PipesDue
    <3>2. CASE shell.makes \in {"a", "b"}
      BY <3>1, <3>2, <2>1, <1>1 DEF EndsDue
    <3>3. CASE shell.makes \notin {"a", "b"}
      <4>1. shell'.at = "prompt"
        BY <3>3, <1>2, <1>3 DEF Roles, AtPrompt
      <4>2. ASSUME NEW r \in {"a", "b"}
            PROVE  Due(r)' <=> Due(r)
        BY <3>3, <4>1, <1>1, <1>4 DEF Due
      <4> QED BY <4>2, <3>1, <1>1 DEF EndsDue
    <3> QED BY <3>2, <3>3
  <2>2. ASSUME NEW q \in Children, LiveChild(q)'
        PROVE  child'[q].pipe = IF child'[q].role \in {"a", "b"} /\ child'[q].at \in Entered
                                  THEN context_pipe' ELSE NoPipe
    BY <2>2, <1>1, <1>4 DEF PipesDue
  <2> QED BY <2>1, <2>2 DEF PipesDue
<1> QED BY <1>5, <1>6, <1>7, <1>8, <1>9

\* Nobody is left whom the shell waited for, so nothing is due at the prompt.
LEMMA WaitpidReturnsKeeps ==
  ASSUME ShellInv, WaitpidReturns
  PROVE  ShellInv'
PROOF
<1>. USE DEF ShellInv
<1>1. /\ shell.at = "wait" /\ \A p \in shell.waits : ~LiveChild(p)
      /\ shell' = AtPrompt
      /\ UNCHANGED <<given_to, context_pipe, cr_last, child, pipes, lines, abandoned>>
  BY DEF WaitpidReturns
<1>2. \A q \in Children : LiveChild(q)' <=> LiveChild(q)
  BY <1>1 DEF LiveChild
<1>3. shell'.at = "prompt" /\ shell'.waits = {}
  BY <1>1 DEF AtPrompt
<1>4. ShellShapes'
  BY <1>1 DEF ShellShapes, AtPrompt
<1>5. ChildrenWaited'
  BY <1>1, <1>2, <1>3 DEF ChildrenWaited
<1>6. SidesUnique'
  BY <1>1, <1>2, <1>3 DEF SidesUnique
<1>7. ChildrenFollow'
  BY <1>1, <1>2 DEF ChildrenFollow, Follows
<1>8. PipesDue'
  <2>1. ASSUME NEW r \in Roles
        PROVE  Due(r)' <=> Due(r)
    BY <1>1, <1>2, <1>3 DEF Due
  <2>2. \A i \in PipeIds : EndsDue(i)' = EndsDue(i)
    BY <2>1, <1>1 DEF EndsDue, Roles
  <2>3. ASSUME NEW q \in Children, LiveChild(q)'
        PROVE  child'[q].pipe = IF child'[q].role \in {"a", "b"} /\ child'[q].at \in Entered
                                  THEN context_pipe' ELSE NoPipe
    BY <2>3, <1>1, <1>2 DEF PipesDue
  <2> QED BY <2>2, <2>3, <1>1 DEF PipesDue
<1> QED BY <1>4, <1>5, <1>6, <1>7, <1>8

-----------------------------------------------------------------------------
(* The user.                                                               *)

\* At the prompt only background processes live, and nothing is due to a pipe.
LEMMA AtThePrompt ==
  ASSUME ShellInv, shell.at = "prompt"
  PROVE  /\ \A q \in Children : LiveChild(q) => child[q].role = "bg" /\ child[q].pipe = NoPipe
         /\ ~Due("a") /\ ~Due("b")
         /\ \A i \in PipeIds : i \notin abandoned => ~ActivePipe(i)
PROOF
<1>1. \A q \in Children : LiveChild(q) => child[q].role = "bg"
  BY DEF ShellInv, ChildrenWaited
<1>2. ~Due("a") /\ ~Due("b")
  BY <1>1 DEF Due
<1>3. \A i \in PipeIds : i \notin abandoned => ~ActivePipe(i)
  BY <1>2 DEF ShellInv, PipesDue, EndsDue, ActivePipe, FreePipe
<1>4. \A q \in Children : LiveChild(q) => child[q].pipe = NoPipe
  BY <1>1 DEF ShellInv, PipesDue
<1> QED BY <1>1, <1>2, <1>3, <1>4

LEMMA FillForegroundKeeps ==
  ASSUME ShellInv, NEW id \in Kinds, FillForeground(id)
  PROVE  ShellInv'
PROOF
<1>. USE DEF ShellInv
<1>1. /\ shell.at = "prompt" /\ lines' = [lines EXCEPT !.given = @ + 1]
      /\ given_to' = [given_to EXCEPT !["fg"] = Command(id, 0)]
      /\ shell' = [at |-> "create", makes |-> "fg", waits |-> {}]
      /\ UNCHANGED <<context_pipe, cr_last, child, pipes, abandoned>>
  BY DEF FillForeground, GiveLine, AtPrompt
<1>2. \A q \in Children : LiveChild(q)' <=> LiveChild(q)
  BY <1>1 DEF LiveChild
<1>3. \A q \in Children : LiveChild(q) => child[q].role = "bg" /\ child[q].pipe = NoPipe
  BY <1>1, AtThePrompt
<1>4. ShellShapes'
  <2>1. lines.given \in Int /\ Command(id, 0) \in Commands
    BY DEF ShellShapes, Command, Commands, Ids, Kinds
  <2>2. given_to' \in [Roles -> Commands]
    BY <1>1, <2>1 DEF ShellShapes
  <2>3. lines'.given \in Int
    BY <1>1, <2>1
  <2> QED BY <2>2, <2>3, <1>1 DEF ShellShapes, Roles
<1>5. ChildrenWaited' /\ SidesUnique'
  BY <1>1, <1>2, <1>3 DEF ChildrenWaited, SidesUnique, Roles
<1>6. ChildrenFollow'
  <2>1. given_to'["bg"] = given_to["bg"]
    BY <1>1 DEF ShellShapes, Roles
  <2> QED BY <2>1, <1>1, <1>2, <1>3 DEF ChildrenFollow, Follows
<1>7. PipesDue'
  <2>1. /\ ~Due("a") /\ ~Due("b")
    BY <1>1, AtThePrompt
  <2>2. /\ ~Due("a")' /\ ~Due("b")'
    BY <1>1, <1>2, <1>3 DEF Due
  <2>3. \A i \in PipeIds : EndsDue(i)' = EndsDue(i)
    BY <2>1, <2>2, <1>1 DEF EndsDue
  <2> QED BY <2>3, <1>1, <1>2, <1>3 DEF PipesDue
<1> QED BY <1>4, <1>5, <1>6, <1>7

\* Whoever is in the background may still have to read g_bg_cmd.
LEMMA FillBackgroundKeeps ==
  ASSUME ShellInv, NEW id \in Kinds, FillBackground(id)
  PROVE  ShellInv'
PROOF
<1>. USE DEF ShellInv
<1>1. /\ shell.at = "prompt" /\ lines' = [lines EXCEPT !.given = @ + 1]
      /\ given_to' = [given_to EXCEPT !["bg"] = Command(id, 0)]
      /\ child' = [p \in Children |->
           IF child[p].role = "bg" /\ LiveChild(p) THEN [child[p] EXCEPT !.mixed = TRUE]
           ELSE child[p]]
      /\ shell' = [at |-> "create", makes |-> "bg", waits |-> {}]
      /\ UNCHANGED <<context_pipe, cr_last, pipes, abandoned>>
  BY DEF FillBackground, GiveLine, AtPrompt
<1>2. \A q \in Children : LiveChild(q) => child[q].role = "bg" /\ child[q].pipe = NoPipe
  BY <1>1, AtThePrompt
<1>3. ASSUME NEW q \in Children
      PROVE  /\ child'[q] \in ChildShapes
             /\ LiveChild(q)' <=> LiveChild(q)
             /\ LiveChild(q) => /\ child'[q].role = "bg" /\ child'[q].pipe = NoPipe
                                /\ child'[q].mixed
  <2>1. child[q] \in ChildShapes
    BY DEF ShellShapes
  <2>2. CASE LiveChild(q)
    <3>1. child'[q] = [child[q] EXCEPT !.mixed = TRUE]
      BY <2>2, <1>1, <1>2
    <3> QED BY <3>1, <2>1, <2>2, <1>2 DEF ChildShapes, LiveChild
  <2>3. CASE ~LiveChild(q)
    <3>1. child'[q] = child[q]
      BY <2>3, <1>1
    <3> QED BY <3>1, <2>1, <2>3 DEF LiveChild
  <2> QED BY <2>2, <2>3
<1>4. ShellShapes'
  <2>1. lines.given \in Int /\ Command(id, 0) \in Commands
    BY DEF ShellShapes, Command, Commands, Ids, Kinds
  <2>2. given_to' \in [Roles -> Commands]
    BY <1>1, <2>1 DEF ShellShapes
  <2>3. lines'.given \in Int
    BY <1>1, <2>1
  <2>4. child' \in [Children -> ChildShapes]
    BY <1>1, <1>3
  <2> QED BY <2>2, <2>3, <2>4, <1>1 DEF ShellShapes, Roles
<1>5. ChildrenWaited' /\ SidesUnique'
  BY <1>1, <1>3 DEF ChildrenWaited, SidesUnique, Roles
<1>6. ChildrenFollow'
  BY <1>3 DEF ChildrenFollow
<1>7. PipesDue'
  <2>1. ~Due("a") /\ ~Due("b")
    BY <1>1, AtThePrompt
  <2>2. ~Due("a")' /\ ~Due("b")'
    BY <1>1, <1>3 DEF Due
  <2>3. \A i \in PipeIds : EndsDue(i)' = EndsDue(i)
    BY <2>1, <2>2, <1>1 DEF EndsDue
  <2> QED BY <2>3, <1>1, <1>3 DEF PipesDue
<1> QED BY <1>4, <1>5, <1>6, <1>7

\* A search from the first entry on finds the least of those it looks for.
LEMMA SmallestFree ==
  ASSUME NEW F \in SUBSET Nat, F # {}
  PROVE  \E i \in F : \A j \in F : i <= j
PROOF
<1>1. PICK i \in F : \A j \in F : ~(<<j, i>> \in OpToRel(<, Nat))
  BY NatLessThanWellFounded, WFMin
<1>2. \A j \in F : ~(j < i)
  BY <1>1 DEF OpToRel
<1> QED BY <1>2

\* The pipe of the line is a free one, and both its ends are due.
LEMMA FillPipedKeeps ==
  ASSUME ShellInv, NEW id1 \in Kinds, NEW id2 \in Kinds,
         FillPiped(id1, id2)
  PROVE  ShellInv'
PROOF
<1>. USE DEF ShellInv
<1>. DEFINE Free == {i \in PipeIds : ~ActivePipe(i)}
<1>1. /\ shell.at = "prompt" /\ lines' = [lines EXCEPT !.given = @ + 1]
      /\ UNCHANGED <<cr_last, child, abandoned>>
  BY DEF FillPiped, GiveLine
<1>2. \A q \in Children : LiveChild(q)' <=> LiveChild(q)
  BY <1>1 DEF LiveChild
<1>3. /\ \A q \in Children : LiveChild(q) => child[q].role = "bg" /\ child[q].pipe = NoPipe
      /\ ~Due("a") /\ ~Due("b")
  BY <1>1, AtThePrompt
<1>4. lines'.given \in Int /\ Command(id1, 0) \in Commands /\ Command(id2, 1) \in Commands
  BY <1>1 DEF ShellShapes, Command, Commands, Ids, Kinds
<1>5. CASE Free = {}
  <2>1. UNCHANGED <<shell, given_to, context_pipe, pipes>>
    BY <1>5 DEF FillPiped
  <2>2. ShellShapes'
    BY <2>1, <1>1, <1>4 DEF ShellShapes
  <2>3. ChildrenWaited' /\ SidesUnique' /\ ChildrenFollow'
    BY <2>1, <1>1, <1>2 DEF ChildrenWaited, SidesUnique, ChildrenFollow, Follows
  <2>4. \A i \in PipeIds : EndsDue(i)' = EndsDue(i)
    BY <2>1, <1>1, <1>2 DEF EndsDue, Due
  <2>5. PipesDue'
    BY <2>1, <2>4, <1>1, <1>2 DEF PipesDue
  <2> QED BY <2>2, <2>3, <2>5
<1>6. CASE Free # {}
  <2>1. PICK i \in PipeIds :
          /\ ~ActivePipe(i)
          /\ pipes' = [pipes EXCEPT ![i] = [write_open |-> 1, read_open |-> 1]]
          /\ given_to' = [given_to EXCEPT !["a"] = Command(id1, 0), !["b"] = Command(id2, 1)]
          /\ context_pipe' = i
          /\ shell' = [at |-> "create", makes |-> "a", waits |-> {}]
    <3>1. Free \subseteq Nat
      BY ShellAssumption DEF PipeIds
    <3>2. \E i \in Free : \A j \in Free : i <= j
      BY <3>1, <1>6, SmallestFree
    <3>3. (CHOOSE i \in Free : \A j \in Free : i <= j) \in Free
      BY <3>2
    <3> QED BY <3>3, <1>6 DEF FillPiped, AtPrompt
  <2>2. ShellShapes'
    <3>1. given_to' \in [Roles -> Commands]
      BY <2>1, <1>4 DEF ShellShapes
    <3>2. pipes' \in [PipeIds -> [write_open : Nat, read_open : Nat]]
      BY <2>1 DEF ShellShapes
    <3> QED BY <3>1, <3>2, <2>1, <1>1, <1>4 DEF ShellShapes, Roles
  <2>3. ChildrenWaited' /\ SidesUnique'
    BY <2>1, <1>1, <1>2, <1>3 DEF ChildrenWaited, SidesUnique, Roles
  <2>4. ChildrenFollow'
    <3>1. given_to'["bg"] = given_to["bg"]
      BY <2>1 DEF ShellShapes, Roles
    <3> QED BY <3>1, <1>1, <1>2, <1>3 DEF ChildrenFollow, Follows
  <2>5. PipesDue'
    <3>1. Due("a")' /\ Due("b")'
      BY <2>1 DEF Due
    <3>2. ASSUME NEW j \in PipeIds, j \notin abandoned'
          PROVE  pipes'[j] = EndsDue(j)'
      <4>1. CASE j = i
        BY <4>1, <3>1, <2>1 DEF EndsDue, ShellShapes
      <4>2. CASE j # i
        <5>1. pipes[j] = [write_open |-> 0, read_open |-> 0]
          BY <3>2, <1>1, <1>3 DEF PipesDue, EndsDue
        <5> QED BY <5>1, <4>2, <2>1 DEF EndsDue, ShellShapes
      <4> QED BY <4>1, <4>2
    <3> QED BY <3>2, <1>1, <1>2, <1>3 DEF PipesDue
  <2> QED BY <2>2, <2>3, <2>4, <2>5
<1> QED BY <1>5, <1>6

\* Ctrl+C leaves the background alone; a side that it kills abandons its pipe.
LEMMA CtrlCKeeps ==
  ASSUME ShellInv, CtrlCShell
  PROVE  ShellInv'
PROOF
<1>. USE DEF ShellInv
<1>1. /\ lines' = [lines EXCEPT !.ctrlc = @ - 1]
      /\ child' = [p \in Children |-> IF p \in ForegroundChildren THEN NoChild ELSE child[p]]
      /\ abandoned' = abandoned \cup
           (IF \E p \in ForegroundChildren : child[p].role # "fg" THEN {context_pipe} ELSE {})
      /\ UNCHANGED <<shell, given_to, context_pipe, cr_last, pipes>>
  BY DEF CtrlCShell
<1>2. NoChild \in ChildShapes /\ NoChild.at = "dead"
  BY DEF NoChild, ChildShapes, Roles, Ids, Kinds, Commands, None
<1>3. ASSUME NEW q \in Children
      PROVE  /\ child'[q] \in ChildShapes
             /\ LiveChild(q)' => /\ LiveChild(q) /\ child'[q] = child[q]
                                 /\ child[q].role = "bg"
             /\ LiveChild(q) /\ child[q].role = "bg" => LiveChild(q)' /\ child'[q] = child[q]
  BY <1>1, <1>2 DEF ForegroundChildren, LiveChild, ShellShapes
<1>4. ShellShapes'
  <2>1. lines'.given = lines.given
    BY <1>1
  <2>2. child' \in [Children -> ChildShapes]
    BY <1>1, <1>3
  <2> QED BY <2>1, <2>2, <1>1 DEF ShellShapes
<1>5. ChildrenWaited' /\ SidesUnique'
  BY <1>1, <1>3 DEF ChildrenWaited, SidesUnique, Roles
<1>6. ChildrenFollow'
  <2>1. ASSUME NEW q \in Children, LiveChild(q)', ~child'[q].mixed
        PROVE  Follows(child[q])'
    <3>1. child'[q] = child[q] /\ Follows(child[q])
      BY <2>1, <1>3 DEF ChildrenFollow
    <3> QED BY <3>1, <1>1 DEF Follows
  <2> QED BY <2>1 DEF ChildrenFollow
<1>7. PipesDue'
  <2>1. ASSUME NEW i \in PipeIds, i \notin abandoned'
        PROVE  pipes'[i] = EndsDue(i)'
    <3>1. pipes'[i] = EndsDue(i)
      BY <2>1, <1>1 DEF PipesDue
    <3>2. CASE \E p \in ForegroundChildren : child[p].role # "fg"
      BY <3>1, <3>2, <2>1, <1>1 DEF EndsDue
    <3>3. CASE \A p \in ForegroundChildren : child[p].role = "fg"
      <4>1. ASSUME NEW r \in {"a", "b"}
            PROVE  Due(r)' <=> Due(r)
        <5>1. \A q \in Children : LiveChild(q) => child[q].role # r
          BY <3>3 DEF ForegroundChildren
        <5>2. \A q \in Children : LiveChild(q)' => child'[q].role # r
          BY <5>1, <1>3
        <5> QED BY <5>1, <5>2, <1>1 DEF Due
      <4> QED BY <4>1, <3>1, <1>1 DEF EndsDue
    <3> QED BY <3>2, <3>3
  <2>2. ASSUME NEW q \in Children, LiveChild(q)'
        PROVE  child'[q].pipe = IF child'[q].role \in {"a", "b"} /\ child'[q].at \in Entered
                                  THEN context_pipe' ELSE NoPipe
    BY <2>2, <1>1, <1>3 DEF PipesDue
  <2> QED BY <2>1, <2>2 DEF PipesDue
<1> QED BY <1>4, <1>5, <1>6, <1>7

-----------------------------------------------------------------------------
(* The theorems.                                                           *)

LEMMA InitKeeps == ShellInit => ShellInv
PROOF
<1>. SUFFICES ASSUME ShellInit PROVE ShellInv
  OBVIOUS
<1>1. NoChild \in ChildShapes /\ NoChild.at = "dead"
  BY DEF NoChild, ChildShapes, Roles, Ids, Kinds, Commands, None
<1>2. \A p \in Children : child[p] = NoChild /\ ~LiveChild(p)
  BY <1>1 DEF ShellInit, LiveChild
<1>3. ShellShapes
  BY <1>1 DEF ShellInit, ShellShapes, AtPrompt, None, Commands, Ids, Kinds, Roles, FreePipe
<1>4. ChildrenWaited /\ SidesUnique /\ ChildrenFollow
  BY <1>2 DEF ShellInit, AtPrompt, ChildrenWaited, SidesUnique, ChildrenFollow
<1>5. PipesDue
  BY <1>2 DEF ShellInit, AtPrompt, PipesDue, EndsDue, Due, FreePipe
<1> QED BY <1>3, <1>4, <1>5 DEF ShellInv

\* Every step of the shell, of its processes and of the user keeps the invariant.
THEOREM ShellInvariant == ShellSpec => []ShellInv
PROOF
<1>1. ShellInv /\ [ShellNext]_shellvars => ShellInv'
  <2>. SUFFICES ASSUME ShellInv, [ShellNext]_shellvars PROVE ShellInv'
    OBVIOUS
  <2>1. CASE ShellStep
    BY <2>1, CreateChildKeeps, CreateChildFailsKeeps, WaitpidReturnsKeeps DEF ShellStep
  <2>2. ASSUME NEW p \in Children, ChildStep(p) PROVE ShellInv'
    BY <2>2, EnterProcessKeeps, FindIndexKeeps, TokenizeLineKeeps, SetLastIdKeeps,
       CommandsHandlerKeeps, ReadArgumentsKeeps, CommandReturnsKeeps, CloseAndExitKeeps
    DEF ChildStep
  <2>3. CASE GivesLine
    BY <2>3, FillForegroundKeeps, FillBackgroundKeeps, FillPipedKeeps DEF GivesLine
  <2>4. CASE CtrlCShell
    BY <2>4, CtrlCKeeps
  <2>5. ASSUME NEW p \in Children, CtrlD(p) \/ StayEnds(p) PROVE ShellInv'
    BY <2>5, CommandReturnsKeeps
  <2>6. CASE UNCHANGED shellvars
    BY <2>6 DEF shellvars, ShellInv, ShellShapes, ChildrenWaited, SidesUnique, ChildrenFollow,
       Follows, PipesDue, EndsDue, Due, LiveChild
  <2> QED BY <2>1, <2>2, <2>3, <2>4, <2>5, <2>6 DEF ShellNext, ShellSystem
<1> QED BY <1>1, InitKeeps, PTL DEF ShellSpec

\* A process runs the command of its own line (run_foreground, run_background and
\* run_piped against cr_dispatch_exact), for any number of processes and lines.
THEOREM CommandsAreOwn == ShellSpec => []OwnCommand
PROOF
<1>1. ShellInv => OwnCommand
  BY DEF ShellInv, ChildrenFollow, LiveChild, Follows, OwnCommand
<1> QED BY <1>1, ShellInvariant, PTL

\* No pipe is left at the prompt but those that were abandoned: the ends that are
\* open are those of the sides that live or are still to be created.
THEOREM PipesAreKept == ShellSpec => []PipesKept
PROOF
<1>1. ShellInv => PipesKept
  BY AtThePrompt DEF PipesKept
<1> QED BY <1>1, ShellInvariant, PTL

-----------------------------------------------------------------------------
(* Counting, for facts about every length.                                 *)

\* A set with 0 and with the next of each of its numbers has all of them.
LEMMA Counting ==
  ASSUME NEW S, 0 \in S, \A k \in Nat : k \in S => k + 1 \in S
  PROVE  Nat \subseteq S
PROOF
<1>. DEFINE Missing == Nat \ S
<1>. SUFFICES ASSUME Missing # {} PROVE FALSE
  OBVIOUS
<1>1. PICK m \in Missing : \A j \in Missing : ~(<<j, m>> \in OpToRel(<, Nat))
  BY NatLessThanWellFounded, WFMin
<1>2. m \in Nat /\ m # 0 /\ m - 1 \in Nat
  OBVIOUS
<1>3. m - 1 \notin S
  BY <1>2
<1>4. <<m - 1, m>> \in OpToRel(<, Nat)
  BY <1>2 DEF OpToRel
<1> QED BY <1>1, <1>2, <1>3, <1>4

-----------------------------------------------------------------------------
(* The binary search.                                                      *)

\* What the function of Bound gives for the range r if f is that function.
Halved(T, Below, f, r) ==
  LET lo == r[1]  hi == r[2]  mid == lo + (hi - lo) \div 2 IN
  IF lo >= hi THEN lo
  ELSE IF T[mid + 1] \in Below THEN f[<<mid + 1, hi>>] ELSE f[<<lo, mid>>]
Searches(T, Below, f) ==
  f = [r \in (0..Len(T)) \X (0..Len(T)) |-> Halved(T, Below, f, r)]

\* Where the names to skip come before all others, the search counts them.
LEMMA BoundCounts ==
  ASSUME NEW T, Len(T) \in Nat, NEW Below, NEW b \in 0..Len(T),
         \A i \in 1..Len(T) : T[i] \in Below <=> i <= b
  PROVE  Bound(T, Below) = b
PROOF
<1>. DEFINE A == (0..Len(T)) \X (0..Len(T))
            Near(r) == IF r[1] >= r[2] THEN r[1]
                       ELSE IF b < r[1] THEN r[1] ELSE IF b > r[2] THEN r[2] ELSE b
            g == [r \in A |-> Near(r)]
<1>1. ASSUME NEW r \in A, r[1] < r[2], NEW mid, mid = r[1] + (r[2] - r[1]) \div 2
      PROVE  /\ mid \in 0..Len(T) /\ mid + 1 \in 1..Len(T) /\ r[1] <= mid /\ mid < r[2]
             /\ <<mid + 1, r[2]>> \in A /\ <<r[1], mid>> \in A
  BY <1>1
<1>2. Searches(T, Below, g)
  <2>1. ASSUME NEW r \in A PROVE Near(r) = Halved(T, Below, g, r)
    <3>1. CASE r[1] >= r[2]
      BY <3>1 DEF Halved
    <3>2. CASE r[1] < r[2]
      <4>1. PICK mid : mid = r[1] + (r[2] - r[1]) \div 2
        OBVIOUS
      <4>2. /\ mid \in 0..Len(T) /\ mid + 1 \in 1..Len(T) /\ r[1] <= mid /\ mid < r[2]
            /\ <<mid + 1, r[2]>> \in A /\ <<r[1], mid>> \in A
        BY <1>1, <3>2, <4>1
      <4>3. /\ g[<<mid + 1, r[2]>>] = Near(<<mid + 1, r[2]>>)
            /\ g[<<r[1], mid>>] = Near(<<r[1], mid>>)
        BY <4>2
      <4>4. T[mid + 1] \in Below <=> mid + 1 <= b
        BY <4>2
      <4>5. r[1] \in Int /\ r[2] \in Int
        OBVIOUS
      <4>6. Near(r) = IF mid + 1 <= b THEN Near(<<mid + 1, r[2]>>) ELSE Near(<<r[1], mid>>)
        BY <3>2, <4>2, <4>5
      <4>7. Halved(T, Below, g, r)
              = IF T[mid + 1] \in Below THEN g[<<mid + 1, r[2]>>] ELSE g[<<r[1], mid>>]
        <5>. HIDE DEF g, Near
        <5> QED BY <3>2, <4>1, <4>5 DEF Halved
      <4>. HIDE DEF g, Near
      <4> QED BY <4>3, <4>4, <4>6, <4>7
    <3> QED BY <3>1, <3>2
  <2>. HIDE DEF Near
  <2>2. g = [r \in A |-> Halved(T, Below, g, r)]
    BY <2>1
  <2> QED BY <2>2 DEF Searches
<1>3. PICK s : s = CHOOSE f : Searches(T, Below, f)
  OBVIOUS
<1>4. Searches(T, Below, s)
  <2>. HIDE DEF g
  <2> QED BY <1>2, <1>3
<1>5. \A r \in A : s[r] = Halved(T, Below, s, r)
  BY <1>4 DEF Searches
<1>. DEFINE S == {d \in Nat : \A r \in A : r[2] - r[1] <= d => s[r] = Near(r)}
<1>6. 0 \in S
  <2>1. ASSUME NEW r \in A, r[2] - r[1] <= 0 PROVE s[r] = Near(r)
    <3>1. r[1] \in Int /\ r[2] \in Int /\ r[1] >= r[2]
      BY <2>1
    <3> QED BY <3>1, <1>5 DEF Halved
  <2>. HIDE DEF Near
  <2> QED BY <2>1
<1>7. ASSUME NEW d \in Nat, d \in S PROVE d + 1 \in S
  <2>1. ASSUME NEW r \in A, r[2] - r[1] <= d + 1 PROVE s[r] = Near(r)
    <3>1. CASE r[1] >= r[2]
      BY <3>1, <1>5 DEF Halved
    <3>2. CASE r[1] < r[2]
      <4>1. PICK mid : mid = r[1] + (r[2] - r[1]) \div 2
        OBVIOUS
      <4>2. /\ mid \in 0..Len(T) /\ mid + 1 \in 1..Len(T) /\ r[1] <= mid /\ mid < r[2]
            /\ <<mid + 1, r[2]>> \in A /\ <<r[1], mid>> \in A
        BY <1>1, <3>2, <4>1
      <4>3. r[1] \in Int /\ r[2] \in Int
        OBVIOUS
      <4>4. s[<<mid + 1, r[2]>>] = Near(<<mid + 1, r[2]>>) /\ s[<<r[1], mid>>] = Near(<<r[1], mid>>)
        <5>1. r[2] - (mid + 1) <= d /\ mid - r[1] <= d
          BY <2>1, <4>2, <4>3
        <5>2. ASSUME NEW x \in A, x[2] - x[1] <= d PROVE s[x] = Near(x)
          <6>. HIDE DEF Near
          <6> QED BY <1>7, <5>2
        <5>. HIDE DEF Near, A
        <5> QED BY <4>2, <5>1, <5>2
      <4>5. T[mid + 1] \in Below <=> mid + 1 <= b
        BY <4>2
      <4>6. Near(r) = IF mid + 1 <= b THEN Near(<<mid + 1, r[2]>>) ELSE Near(<<r[1], mid>>)
        BY <3>2, <4>2, <4>3
      <4>7. s[r] = IF T[mid + 1] \in Below THEN s[<<mid + 1, r[2]>>] ELSE s[<<r[1], mid>>]
        BY <1>5, <3>2, <4>1, <4>3 DEF Halved
      <4>. HIDE DEF Near
      <4> QED BY <4>4, <4>5, <4>6, <4>7
    <3> QED BY <3>1, <3>2
  <2> QED BY <2>1
<1>8. Nat \subseteq S
  <2>. HIDE DEF S
  <2> QED BY <1>6, <1>7, Counting
<1>9. <<0, Len(T)>> \in A /\ Len(T) \in S
  BY <1>8
<1>10. s[<<0, Len(T)>>] = Near(<<0, Len(T)>>)
  BY <1>9
<1>11. Near(<<0, Len(T)>>) = b
  OBVIOUS
<1> QED BY <1>3, <1>10, <1>11 DEF Bound, Searches, Halved

\* A search from the left finds the first of those it looks for.
LEMMA FirstIs ==
  ASSUME NEW S \in SUBSET Nat, S # {}
  PROVE  First(S) \in S /\ \A j \in S : First(S) <= j
PROOF
<1>1. PICK i \in S : \A j \in S : ~(<<j, i>> \in OpToRel(<, Nat))
  BY NatLessThanWellFounded, WFMin
<1>2. \A j \in S : ~(j < i)
  BY <1>1 DEF OpToRel
<1>3. \A j \in S : i <= j
  BY <1>2
<1> QED BY <1>3 DEF First

-----------------------------------------------------------------------------
(* Names and tokens.                                                       *)

Words == Seq(Int)

\* The two are the same in the first n places.
AgreeUpTo(v, w, n) == \A i \in 1..n : i <= Len(v) /\ i <= Len(w) /\ v[i] = w[i]

\* What the comparison says of a name.
LEMMA CmpPrefixSays ==
  ASSUME NEW v \in Words, NEW tok \in Words
  PROVE  /\ CmpPrefix(v, tok) \in {-1, 0, 1}
         /\ CmpPrefix(v, tok) = 0 <=> AgreeUpTo(v, tok, Len(tok))
         /\ CmpPrefix(v, tok) = -1 <=>
              \E i \in 1..Len(tok) : AgreeUpTo(v, tok, i - 1) /\ (i > Len(v) \/ v[i] < tok[i])
PROOF
<1>. DEFINE Differ == {i \in 1..Len(tok) : i > Len(v) \/ v[i] # tok[i]}
<1>1. Len(v) \in Nat /\ Len(tok) \in Nat
      /\ (\A i \in 1..Len(v) : v[i] \in Int) /\ (\A i \in 1..Len(tok) : tok[i] \in Int)
  BY DEF Words
<1>2. CASE Differ = {}
  <2>1. CmpPrefix(v, tok) = 0
    BY <1>2 DEF CmpPrefix
  <2>2. AgreeUpTo(v, tok, Len(tok))
    BY <1>1, <1>2 DEF AgreeUpTo
  <2>3. \A i \in 1..Len(tok) : ~(i > Len(v) \/ v[i] < tok[i])
    BY <1>1, <2>2 DEF AgreeUpTo
  <2> QED BY <2>1, <2>2, <2>3
<1>3. CASE Differ # {}
  <2>1. PICK i : i = First(Differ)
    OBVIOUS
  <2>2. i \in Differ /\ \A j \in Differ : i <= j
    <3>1. Differ \in SUBSET Nat
      OBVIOUS
    <3>. HIDE DEF Differ
    <3> QED BY <1>3, <2>1, <3>1, FirstIs
  <2>3. CmpPrefix(v, tok) = IF i > Len(v) \/ v[i] < tok[i] THEN -1 ELSE 1
    BY <1>3, <2>1 DEF CmpPrefix
  <2>4. AgreeUpTo(v, tok, i - 1)
    BY <1>1, <2>2 DEF AgreeUpTo
  <2>5. ~AgreeUpTo(v, tok, Len(tok))
    BY <1>1, <2>2 DEF AgreeUpTo
  <2>6. ASSUME NEW j \in 1..Len(tok), AgreeUpTo(v, tok, j - 1), j > Len(v) \/ v[j] < tok[j]
        PROVE  i = j
    <3>1. j \in Differ
      BY <1>1, <2>6
    <3>2. ~(i < j)
      BY <1>1, <2>2, <2>6 DEF AgreeUpTo
    <3> QED BY <2>2, <3>1, <3>2
  <2>7. i \in 1..Len(tok)
    BY <2>2
  <2>. HIDE DEF Differ
  <2> QED BY <2>3, <2>4, <2>5, <2>6, <2>7
<1> QED BY <1>2, <1>3

\* A name before another one is not further up in the comparison with any token.
LEMMA CmpPrefixGrows ==
  ASSUME NEW v \in Words, NEW w \in Words, NEW tok \in Words, Before(v, w)
  PROVE  CmpPrefix(v, tok) <= CmpPrefix(w, tok)
PROOF
<1>. DEFINE Differ == {i \in 1..Len(v) : i > Len(w) \/ v[i] # w[i]}
<1>1. /\ Len(v) \in Nat /\ Len(w) \in Nat /\ Len(tok) \in Nat
      /\ \A i \in 1..Len(v) : v[i] \in Int
      /\ \A i \in 1..Len(w) : w[i] \in Int
      /\ \A i \in 1..Len(tok) : tok[i] \in Int
  BY DEF Words
<1>2. \E k \in 1..(Len(v) + 1) : /\ AgreeUpTo(v, w, k - 1)
                                 /\ k = Len(v) + 1 \/ (k <= Len(w) /\ v[k] < w[k])
  <2>1. CASE Differ = {}
    <3>1. AgreeUpTo(v, w, Len(v))
      BY <1>1, <2>1 DEF AgreeUpTo
    <3> QED BY <1>1, <3>1
  <2>2. CASE Differ # {}
    <3>1. PICK i : i = First(Differ)
      OBVIOUS
    <3>2. i \in Differ /\ \A j \in Differ : i <= j
      <4>1. Differ \in SUBSET Nat
        OBVIOUS
      <4>. HIDE DEF Differ
      <4> QED BY <2>2, <3>1, <4>1, FirstIs
    <3>3. i <= Len(w) /\ v[i] < w[i]
      BY <2>2, <3>1 DEF Before
    <3>4. AgreeUpTo(v, w, i - 1)
      BY <1>1, <3>2 DEF AgreeUpTo
    <3>5. i \in 1..(Len(v) + 1)
      BY <1>1, <3>2
    <3> QED BY <3>3, <3>4, <3>5
  <2> QED BY <2>1, <2>2
<1>3. PICK k \in 1..(Len(v) + 1) : /\ AgreeUpTo(v, w, k - 1)
                                   /\ k = Len(v) + 1 \/ (k <= Len(w) /\ v[k] < w[k])
  BY <1>2
<1>4. ASSUME NEW i \in 1..Len(tok), AgreeUpTo(w, tok, i - 1), i > Len(w) \/ w[i] < tok[i]
      PROVE  \E j \in 1..Len(tok) : AgreeUpTo(v, tok, j - 1) /\ (j > Len(v) \/ v[j] < tok[j])
  <2>1. CASE k <= i
    <3>1. k \in 1..Len(tok)
      BY <1>1, <2>1
    <3>2. AgreeUpTo(v, tok, k - 1)
      BY <1>1, <1>3, <1>4, <2>1 DEF AgreeUpTo
    <3>3. k > Len(v) \/ v[k] < tok[k]
      <4>1. CASE k = Len(v) + 1
        BY <4>1, <1>1
      <4>2. CASE k # Len(v) + 1 /\ k = i
        BY <4>2, <1>1, <1>3, <1>4, <3>1
      <4>3. CASE k # Len(v) + 1 /\ k < i
        <5>1. w[k] = tok[k] /\ v[k] < w[k]
          BY <4>3, <1>1, <1>3, <1>4 DEF AgreeUpTo
        <5> QED BY <5>1
      <4> QED BY <4>1, <4>2, <4>3, <2>1, <1>1
    <3> QED BY <3>1, <3>2, <3>3
  <2>2. CASE i < k
    <3>1. AgreeUpTo(v, tok, i - 1)
      BY <1>1, <1>3, <1>4, <2>2 DEF AgreeUpTo
    <3>2. i <= Len(v) /\ i <= Len(w) /\ v[i] = w[i]
      BY <1>1, <1>3, <2>2 DEF AgreeUpTo
    <3> QED BY <1>1, <1>4, <3>1, <3>2
  <2> QED BY <2>1, <2>2, <1>1
<1>5. ASSUME AgreeUpTo(w, tok, Len(tok))
      PROVE  \/ AgreeUpTo(v, tok, Len(tok))
             \/ \E j \in 1..Len(tok) : AgreeUpTo(v, tok, j - 1) /\ (j > Len(v) \/ v[j] < tok[j])
  <2>1. CASE k <= Len(tok)
    <3>1. k \in 1..Len(tok)
      BY <1>1, <2>1
    <3>2. AgreeUpTo(v, tok, k - 1)
      BY <1>1, <1>3, <1>5, <2>1 DEF AgreeUpTo
    <3>3. k > Len(v) \/ v[k] < tok[k]
      BY <1>1, <1>3, <1>5, <3>1 DEF AgreeUpTo
    <3> QED BY <3>1, <3>2, <3>3
  <2>2. CASE Len(tok) < k
    BY <2>2, <1>1, <1>3, <1>5 DEF AgreeUpTo
  <2> QED BY <2>1, <2>2, <1>1
<1>6. /\ CmpPrefix(v, tok) \in {-1, 0, 1} /\ CmpPrefix(w, tok) \in {-1, 0, 1}
      /\ CmpPrefix(w, tok) = -1 => CmpPrefix(v, tok) = -1
      /\ CmpPrefix(w, tok) = 0 => CmpPrefix(v, tok) \in {-1, 0}
  BY <1>4, <1>5, CmpPrefixSays
<1> QED BY <1>6

Sorted(T) == \A i \in 1..(Len(T) - 1) : Before(T[i], T[i + 1])

\* In a sorted table the search for a bound counts the names that compare below it.
LEMMA BoundIs ==
  ASSUME NEW T \in Seq(Words), Sorted(T), NEW tok \in Words, NEW c \in Int
  PROVE  LET b == Bound(T, {w \in Names(T) : CmpPrefix(w, tok) < c}) IN
           b \in 0..Len(T) /\ \A i \in 1..Len(T) : CmpPrefix(T[i], tok) < c <=> i <= b
PROOF
<1>. DEFINE Low(i) == CmpPrefix(T[i], tok) < c
            S == {n \in Nat : n <= Len(T) => \E b \in 0..n : \A i \in 1..n : Low(i) <=> i <= b}
            Below == {w \in Names(T) : CmpPrefix(w, tok) < c}
<1>1. Len(T) \in Nat /\ \A i \in 1..Len(T) : T[i] \in Words /\ CmpPrefix(T[i], tok) \in Int
  <2>1. Len(T) \in Nat /\ \A i \in 1..Len(T) : T[i] \in Words
    OBVIOUS
  <2> QED BY <2>1, CmpPrefixSays
<1>2. 0 \in S
  OBVIOUS
<1>3. ASSUME NEW n \in Nat, n \in S PROVE n + 1 \in S
  <2>. SUFFICES ASSUME n + 1 <= Len(T)
                PROVE  \E b \in 0..(n + 1) : \A i \in 1..(n + 1) : Low(i) <=> i <= b
    OBVIOUS
  <2>1. PICK b \in 0..n : \A i \in 1..n : Low(i) <=> i <= b
    BY <1>1, <1>3
  <2>2. CASE ~Low(n + 1)
    <3>1. ASSUME NEW i \in 1..(n + 1) PROVE Low(i) <=> i <= b
      <4>. HIDE DEF Low
      <4>1. CASE i = n + 1
        <5>1. ~(n + 1 <= b) /\ ~Low(i)
          BY <2>2, <4>1
        <5> QED BY <4>1, <5>1
      <4>2. CASE i # n + 1
        <5>1. i \in 1..n
          BY <4>2
        <5> QED BY <2>1, <5>1
      <4> QED BY <4>1, <4>2
    <3>2. b \in 0..(n + 1)
      OBVIOUS
    <3>. HIDE DEF Low
    <3> QED BY <3>1, <3>2
  <2>3. CASE Low(n + 1)
    <3>1. n # 0 => Low(n)
      <4>. SUFFICES ASSUME n # 0 PROVE Low(n)
        OBVIOUS
      <4>1. n \in 1..(Len(T) - 1) /\ n \in 1..Len(T) /\ n + 1 \in 1..Len(T)
        BY <1>1
      <4>2. CmpPrefix(T[n], tok) <= CmpPrefix(T[n + 1], tok)
        BY <1>1, <4>1, CmpPrefixGrows DEF Sorted
      <4> QED BY <1>1, <2>3, <4>1, <4>2
    <3>2. \A i \in 1..(n + 1) : Low(i) <=> i <= n + 1
      <4>. HIDE DEF Low
      <4> QED BY <2>1, <2>3, <3>1
    <3> QED BY <3>2
  <2> QED BY <2>2, <2>3
<1>4. Len(T) \in S
  <2>. HIDE DEF S
  <2> QED BY <1>1, <1>2, <1>3, Counting
<1>5. PICK b \in 0..Len(T) : \A i \in 1..Len(T) : Low(i) <=> i <= b
  BY <1>1, <1>4
<1>6. \A i \in 1..Len(T) : T[i] \in Below <=> i <= b
  BY <1>5 DEF Names
<1>7. Bound(T, Below) = b
  <2>. HIDE DEF Below
  <2> QED BY <1>1, <1>6, BoundCounts
<1> QED BY <1>5, <1>7

LEMMA BeginsIsAgree ==
  ASSUME NEW v \in Words, NEW tok \in Words
  PROVE  BeginsWith(v, tok) <=> AgreeUpTo(v, tok, Len(tok))
PROOF
<1>1. Len(v) \in Nat /\ Len(tok) \in Nat /\ tok \in Seq(Int) /\ v \in Seq(Int)
  BY DEF Words
<1>2. CASE Len(tok) <= Len(v)
  <2>1. /\ SubSeq(v, 1, Len(tok)) \in Seq(Int)
        /\ Len(SubSeq(v, 1, Len(tok))) = Len(tok)
        /\ \A i \in 1..Len(tok) : SubSeq(v, 1, Len(tok))[i] = v[i]
    BY <1>1, <1>2, SubSeqProperties
  <2>2. SubSeq(v, 1, Len(tok)) = tok <=> \A i \in 1..Len(tok) : v[i] = tok[i]
    <3>1. PICK u \in Seq(Int) : u = SubSeq(v, 1, Len(tok))
      BY <2>1
    <3>2. u = tok <=> \A i \in 1..Len(tok) : u[i] = tok[i]
      BY <1>1, <2>1, <3>1, SeqEqual
    <3>3. \A i \in 1..Len(tok) : u[i] = v[i]
      BY <2>1, <3>1
    <3> QED BY <3>1, <3>2, <3>3
  <2>3. AgreeUpTo(v, tok, Len(tok)) <=> \A i \in 1..Len(tok) : v[i] = tok[i]
    BY <1>1, <1>2 DEF AgreeUpTo
  <2> QED BY <1>2, <2>2, <2>3 DEF BeginsWith
<1>3. CASE ~(Len(tok) <= Len(v))
  <2>1. Len(tok) \in 1..Len(tok)
    BY <1>1, <1>3
  <2> QED BY <1>3, <2>1 DEF BeginsWith, AgreeUpTo
<1> QED BY <1>2, <1>3

\* In every sorted table a token finds a command exactly when it is the whole name
\* of one and begins no other name (cr_dispatch_exact with lb_prefix and ub_prefix).
THEOREM SearchFindsCommands ==
  ASSUME NEW T \in Seq(Words), Sorted(T), NEW tok \in Words, tok # <<>>
  PROVE  IF \E i \in 1..Len(T) : T[i] = tok /\ \A j \in 1..Len(T) : BeginsWith(T[j], tok) => j = i
           THEN FindCommand(T, tok) # NotFound /\ T[FindCommand(T, tok) + 1] = tok
           ELSE FindCommand(T, tok) = NotFound
PROOF
<1>1. Len(T) \in Nat /\ \A i \in 1..Len(T) : T[i] \in Words
  OBVIOUS
<1>2. PICK lo : lo = LowerBound(T, tok)
  OBVIOUS
<1>3. PICK up : up = UpperBound(T, tok)
  OBVIOUS
<1>4. lo \in 0..Len(T) /\ \A i \in 1..Len(T) : CmpPrefix(T[i], tok) < 0 <=> i <= lo
  BY <1>2, BoundIs DEF LowerBound
<1>5. up \in 0..Len(T) /\ \A i \in 1..Len(T) : CmpPrefix(T[i], tok) <= 0 <=> i <= up
  <2>1. {w \in Names(T) : CmpPrefix(w, tok) <= 0} = {w \in Names(T) : CmpPrefix(w, tok) < 1}
    <3>1. ASSUME NEW w \in Names(T) PROVE CmpPrefix(w, tok) \in {-1, 0, 1}
      BY <1>1, CmpPrefixSays DEF Names
    <3>2. ASSUME NEW w \in Names(T) PROVE CmpPrefix(w, tok) <= 0 <=> CmpPrefix(w, tok) < 1
      BY <3>1
    <3> QED BY <3>2
  <2>2. up \in 0..Len(T) /\ \A i \in 1..Len(T) : CmpPrefix(T[i], tok) < 1 <=> i <= up
    BY <1>3, <2>1, BoundIs DEF UpperBound
  <2>3. ASSUME NEW i \in 1..Len(T)
        PROVE  CmpPrefix(T[i], tok) <= 0 <=> CmpPrefix(T[i], tok) < 1
    <3>1. T[i] \in Words
      BY <1>1
    <3>2. CmpPrefix(T[i], tok) \in {-1, 0, 1}
      BY <3>1, CmpPrefixSays
    <3> QED BY <3>2
  <2> QED BY <2>2, <2>3
<1>6. \A i \in 1..Len(T) : BeginsWith(T[i], tok) <=> lo < i /\ i <= up
  <2>1. ASSUME NEW i \in 1..Len(T) PROVE BeginsWith(T[i], tok) <=> lo < i /\ i <= up
    <3>1. CmpPrefix(T[i], tok) \in {-1, 0, 1} /\ (BeginsWith(T[i], tok) <=> CmpPrefix(T[i], tok) = 0)
      BY <1>1, CmpPrefixSays, BeginsIsAgree
    <3> QED BY <3>1, <1>4, <1>5
  <2> QED BY <2>1
<1>7. \A i \in 1..Len(T) : T[i] = tok => BeginsWith(T[i], tok)
  BY <1>1, BeginsIsAgree DEF AgreeUpTo, Words
<1>8. FindCommand(T, tok) = IF up - lo # 1 \/ T[lo + 1] # tok THEN NotFound ELSE lo
  BY <1>2, <1>3 DEF FindCommand
<1>9. ASSUME NEW i \in 1..Len(T), T[i] = tok, \A j \in 1..Len(T) : BeginsWith(T[j], tok) => j = i
      PROVE  up - lo = 1 /\ T[lo + 1] = tok
  <2>1. lo < i /\ i <= up
    BY <1>6, <1>7, <1>9
  <2>2. lo + 1 = i /\ up = i
    <3>1. lo \in Nat /\ up \in Nat /\ up <= Len(T)
      BY <1>1, <1>4, <1>5
    <3>2. lo + 1 \in 1..Len(T) /\ lo < lo + 1 /\ lo + 1 <= up /\ up \in 1..Len(T) /\ lo < up
      BY <1>1, <2>1, <3>1
    <3>3. BeginsWith(T[lo + 1], tok) /\ BeginsWith(T[up], tok)
      BY <1>6, <3>1, <3>2
    <3>4. lo + 1 = i /\ up = i
      BY <1>9, <3>2, <3>3
    <3> QED BY <3>4
  <2>3. lo \in Int
    BY <1>4
  <2> QED BY <1>9, <2>2, <2>3
<1>10. ASSUME up - lo = 1, T[lo + 1] = tok
       PROVE  \E i \in 1..Len(T) : T[i] = tok /\ \A j \in 1..Len(T) : BeginsWith(T[j], tok) => j = i
  <2>1. lo + 1 \in 1..Len(T) /\ up = lo + 1
    BY <1>1, <1>4, <1>5, <1>10
  <2>2. \A j \in 1..Len(T) : BeginsWith(T[j], tok) => j = lo + 1
    BY <1>4, <1>6, <2>1
  <2> QED BY <1>10, <2>1, <2>2
<1>11. lo # NotFound
  BY <1>4 DEF NotFound
<1> QED BY <1>8, <1>9, <1>10, <1>11

-----------------------------------------------------------------------------
(* The words of a line.                                                    *)

\* A word goes on to the next blank or to the end.
LEMMA WordEndIs ==
  ASSUME NEW s \in Words, NEW j \in Solid(s)
  PROVE  /\ WordEnd(s, j) \in (j + 1)..(Len(s) + 1)
         /\ WordEnd(s, j) = Len(s) + 1 \/ s[WordEnd(s, j)] = Blank
         /\ \A k \in j..(WordEnd(s, j) - 1) : k \in Solid(s)
PROOF
<1>. DEFINE Stops == {k \in j..(Len(s) + 1) : k = Len(s) + 1 \/ s[k] = Blank}
<1>1. Len(s) \in Nat /\ j \in 1..Len(s) /\ s[j] # Blank
  BY DEF Words, Solid
<1>2. PICK e : e = First(Stops)
  OBVIOUS
<1>3. e \in Stops /\ \A k \in Stops : e <= k
  <2>1. Stops \in SUBSET Nat /\ Len(s) + 1 \in Stops
    BY <1>1
  <2>. HIDE DEF Stops
  <2> QED BY <1>2, <2>1, FirstIs
<1>4. WordEnd(s, j) = e
  BY <1>2 DEF WordEnd
<1>5. \A k \in j..(e - 1) : k \in Solid(s)
  <2>1. ASSUME NEW k \in j..(e - 1) PROVE k \in Solid(s)
    <3>1. k \notin Stops
      BY <1>1, <1>3, <2>1
    <3> QED BY <1>1, <1>3, <3>1 DEF Solid
  <2> QED BY <2>1
<1> QED BY <1>1, <1>3, <1>4, <1>5

\* The first word from place i on.
StartsFrom(s, i) == {j \in Solid(s) : j >= i}
WordAt(s, j)     == SubSeq(s, j, WordEnd(s, j) - 1)

LEMMA NextWord ==
  ASSUME NEW s \in Words, NEW i \in 1..(Len(s) + 1), StartsFrom(s, i) # {},
         NEW j, j = First(StartsFrom(s, i))
  PROVE  /\ j \in Solid(s) /\ i <= j /\ j \in Nat \ {0} /\ \A k \in i..(j - 1) : k \notin Solid(s)
         /\ WordEnd(s, j) \in 1..(Len(s) + 1) /\ i < WordEnd(s, j)
         /\ WordAt(s, j) \in Words
PROOF
<1>1. Len(s) \in Nat /\ StartsFrom(s, i) \in SUBSET Nat
  BY DEF Words, StartsFrom, Solid
<1>2. j \in StartsFrom(s, i) /\ \A k \in StartsFrom(s, i) : j <= k
  BY <1>1, FirstIs
<1>3. j \in Solid(s) /\ i <= j /\ j \in 1..Len(s)
  BY <1>2 DEF StartsFrom, Solid
<1>4. \A k \in i..(j - 1) : k \notin Solid(s)
  BY <1>1, <1>2, <1>3 DEF StartsFrom
<1>5. WordEnd(s, j) \in (j + 1)..(Len(s) + 1)
  BY <1>3, WordEndIs
<1>6. WordAt(s, j) \in Words
  <2>1. j \in Int /\ WordEnd(s, j) - 1 \in Int
    BY <1>1, <1>3, <1>5
  <2>2. \A k \in j..(WordEnd(s, j) - 1) : s[k] \in Int
    BY <1>1, <1>3, <1>5 DEF Words
  <2> QED BY <2>1, <2>2, SubSeqProperties DEF WordAt, Words
<1> QED BY <1>1, <1>3, <1>4, <1>5, <1>6

\* What the function of Tokenized gives for r if f is that function.
Ranges(s) == (1..(Len(s) + 1)) \X (0..CR_MAXARGS)
Split(s, f, r) ==
  LET i == r[1]  n == r[2]
      Starts == {j \in Solid(s) : j >= i}
      j == First(Starts)
  IN
  IF Starts = {} \/ n >= CR_MAXARGS - 1 THEN <<>>
  ELSE <<SubSeq(s, j, WordEnd(s, j) - 1)>> \o f[<<WordEnd(s, j), n + 1>>]
Splits(s, f) == f = [r \in Ranges(s) |-> Split(s, f, r)]

\* Which asks f only about what is further on in the line, after the next word.
Done(s, r)   == StartsFrom(s, r[1]) = {} \/ r[2] >= CR_MAXARGS - 1
Start(s, r)  == First(StartsFrom(s, r[1]))
Beyond(s, r) == <<WordEnd(s, Start(s, r)), r[2] + 1>>

LEMMA SplitIs ==
  ASSUME NEW s \in Words, NEW r \in Ranges(s)
  PROVE  /\ Done(s, r) => \A f : Split(s, f, r) = <<>>
         /\ ~Done(s, r) =>
              /\ Beyond(s, r) \in Ranges(s) /\ r[1] < Beyond(s, r)[1]
              /\ \A f : Split(s, f, r) = <<WordAt(s, Start(s, r))>> \o f[Beyond(s, r)]
PROOF
<1>1. r[1] \in 1..(Len(s) + 1) /\ r[2] \in 0..CR_MAXARGS /\ Len(s) \in Nat /\ CR_MAXARGS \in Nat \ {0}
  BY CommandLineAssumption DEF Ranges, Words
<1>2. Done(s, r) => \A f : Split(s, f, r) = <<>>
  BY DEF Split, StartsFrom, Done
<1>3. ASSUME ~Done(s, r)
      PROVE  /\ Beyond(s, r) \in Ranges(s) /\ r[1] < Beyond(s, r)[1]
             /\ \A f : Split(s, f, r) = <<WordAt(s, Start(s, r))>> \o f[Beyond(s, r)]
  <2>1. StartsFrom(s, r[1]) # {} /\ r[2] < CR_MAXARGS - 1
    BY <1>1, <1>3 DEF Done
  <2>2. WordEnd(s, Start(s, r)) \in 1..(Len(s) + 1) /\ r[1] < WordEnd(s, Start(s, r))
    BY <1>1, <2>1, NextWord DEF Start
  <2>3. Beyond(s, r) \in Ranges(s) /\ r[1] < Beyond(s, r)[1]
    BY <1>1, <2>1, <2>2 DEF Ranges, Beyond
  <2>4. \A f : Split(s, f, r) = <<WordAt(s, Start(s, r))>> \o f[Beyond(s, r)]
    BY <1>3 DEF Split, StartsFrom, WordAt, Done, Beyond, Start
  <2> QED BY <2>3, <2>4
<1> QED BY <1>2, <1>3

\* Such a function exists: it is known at the end of the line, and from each place on
\* if it is from the next.
LEMMA SplitsExist ==
  ASSUME NEW s \in Words
  PROVE  \E f : Splits(s, f)
PROOF
<1>. DEFINE R == Ranges(s)
            Left(r) == Len(s) + 1 - r[1]
            Good(f, d) == \A r \in R : Left(r) <= d => f[r] = Split(s, f, r)
            S == {d \in Nat : \E f : f = [r \in R |-> f[r]] /\ Good(f, d)}
<1>1. Len(s) \in Nat /\ \A r \in R : Left(r) \in Nat /\ Left(r) <= Len(s)
  BY DEF Words, Ranges
<1>2. ASSUME NEW d \in Int, NEW f, NEW g, \A r \in R : Left(r) <= d => f[r] = g[r],
             NEW r \in R, Left(r) <= d + 1
      PROVE  Split(s, f, r) = Split(s, g, r)
  <2>1. CASE Done(s, r)
    BY <2>1, SplitIs
  <2>2. CASE ~Done(s, r)
    <3>1. PICK q \in R : /\ q = Beyond(s, r) /\ r[1] < q[1]
                        /\ \A h : Split(s, h, r) = <<WordAt(s, Start(s, r))>> \o h[q]
      BY <2>2, SplitIs
    <3>2. Left(q) <= d
      <4>1. r[1] \in Int /\ q[1] \in Int
        BY <3>1 DEF Ranges
      <4> QED BY <1>1, <1>2, <3>1, <4>1
    <3>3. f[q] = g[q]
      BY <1>2, <3>1, <3>2
    <3> QED BY <3>1, <3>3
  <2> QED BY <2>1, <2>2
<1>3. 0 \in S
  <2>1. PICK f : f = [r \in R |-> <<>>]
    OBVIOUS
  <2>2. f = [r \in R |-> f[r]]
    BY <2>1
  <2>3. PICK g : g = [r \in R |-> Split(s, f, r)]
    OBVIOUS
  <2>4. g = [r \in R |-> g[r]]
    BY <2>3
  <2>5. ASSUME NEW r \in R, Left(r) <= 0 PROVE g[r] = Split(s, g, r)
    <3>1. \A q \in R : Left(q) <= -1 => f[q] = g[q]
      BY <1>1
    <3>2. Split(s, f, r) = Split(s, g, r)
      <4>. HIDE DEF Left, R
      <4> QED BY <1>2, <2>5, <3>1
    <3> QED BY <2>3, <3>2
  <2> QED BY <2>4, <2>5
<1>4. ASSUME NEW d \in Nat, d \in S PROVE d + 1 \in S
  <2>1. PICK f : f = [r \in R |-> f[r]] /\ Good(f, d)
    BY <1>4
  <2>2. PICK g : g = [r \in R |-> Split(s, f, r)]
    OBVIOUS
  <2>3. g = [r \in R |-> g[r]]
    BY <2>2
  <2>4. \A r \in R : Left(r) <= d => f[r] = g[r]
    BY <2>1, <2>2
  <2>5. ASSUME NEW r \in R, Left(r) <= d + 1 PROVE g[r] = Split(s, g, r)
    <3>1. Split(s, f, r) = Split(s, g, r)
      <4>. HIDE DEF Left, R
      <4> QED BY <1>2, <2>4, <2>5
    <3> QED BY <2>2, <3>1
  <2> QED BY <2>3, <2>5
<1>5. Len(s) \in S
  <2>. HIDE DEF S
  <2> QED BY <1>1, <1>3, <1>4, Counting
<1>6. PICK f : f = [r \in R |-> f[r]] /\ Good(f, Len(s))
  BY <1>5
<1>7. \A r \in R : f[r] = Split(s, f, r)
  BY <1>1, <1>6
<1>8. f = [r \in R |-> Split(s, f, r)]
  BY <1>6, <1>7
<1> QED BY <1>8 DEF Splits

LEMMA TokenizedIs ==
  ASSUME NEW s \in Words
  PROVE  \E f : Tokenized(s) = f[<<1, 0>>] /\ \A r \in Ranges(s) : f[r] = Split(s, f, r)
PROOF
<1>1. PICK f : f = CHOOSE g : Splits(s, g)
  OBVIOUS
<1>2. Splits(s, f)
  BY <1>1, SplitsExist
<1>3. Tokenized(s) = f[<<1, 0>>]
  BY <1>1 DEF Tokenized, Splits, Split, Ranges
<1> QED BY <1>2, <1>3 DEF Splits

\* The places where the words of a line begin, from i on.
WordStarts(s)   == {k \in Solid(s) : k = 1 \/ s[k - 1] = Blank}
WordsFrom(s, i) == {k \in WordStarts(s) : k >= i}
Between(s, i)   == i = 1 \/ i = Len(s) + 1 \/ s[i] = Blank

\* From between two words on there is the next word and what follows its end.
LEMMA NextStart ==
  ASSUME NEW s \in Words, NEW i \in 1..(Len(s) + 1), Between(s, i), StartsFrom(s, i) # {},
         NEW j, j = First(StartsFrom(s, i))
  PROVE  /\ WordsFrom(s, i) = {j} \cup WordsFrom(s, WordEnd(s, j))
         /\ j \notin WordsFrom(s, WordEnd(s, j))
         /\ Between(s, WordEnd(s, j))
PROOF
<1>1. /\ j \in Solid(s) /\ i <= j /\ \A k \in i..(j - 1) : k \notin Solid(s)
  BY NextWord
<1>2. PICK e : e = WordEnd(s, j)
  OBVIOUS
<1>3. /\ e \in (j + 1)..(Len(s) + 1)
      /\ e = Len(s) + 1 \/ s[e] = Blank
      /\ \A k \in j..(e - 1) : k \in Solid(s)
  BY <1>1, <1>2, WordEndIs
<1>4. Len(s) \in Nat /\ j \in 1..Len(s) /\ i \in Nat /\ s[j] # Blank
      /\ \A k : k \in Solid(s) <=> k \in 1..Len(s) /\ s[k] # Blank
  BY <1>1 DEF Words, Solid
<1>5. j \in WordStarts(s)
  <2>1. CASE j = i
    BY <2>1, <1>1, <1>4 DEF Between, WordStarts
  <2>2. CASE j # i
    <3>1. j - 1 \in i..(j - 1) /\ j - 1 \in 1..Len(s)
      BY <2>2, <1>1, <1>4
    <3>2. s[j - 1] = Blank
      BY <3>1, <1>1, <1>4
    <3> QED BY <3>2, <1>1 DEF WordStarts
  <2> QED BY <2>1, <2>2
<1>6. ASSUME NEW k \in WordStarts(s), k >= i PROVE k = j \/ k >= e
  <2>1. k \in Solid(s) /\ k \in 1..Len(s) /\ (k = 1 \/ s[k - 1] = Blank)
    BY <1>4 DEF WordStarts
  <2>2. k >= j
    BY <1>1, <1>4, <1>6, <2>1
  <2>3. CASE j < k /\ k < e
    <3>1. k - 1 \in j..(e - 1) /\ k # 1
      BY <1>3, <1>4, <2>1, <2>3
    <3> QED BY <1>3, <1>4, <2>1, <3>1
  <2> QED BY <1>3, <1>4, <2>1, <2>2, <2>3
<1>7. \A k \in WordStarts(s) : k >= e => k >= i
  BY <1>1, <1>3, <1>4 DEF WordStarts
<1>8. WordsFrom(s, i) = {j} \cup WordsFrom(s, e)
  BY <1>1, <1>5, <1>6, <1>7 DEF WordsFrom
<1>9. j \notin WordsFrom(s, e)
  BY <1>3, <1>4 DEF WordsFrom
<1>10. Between(s, e)
  BY <1>3 DEF Between
<1> QED BY <1>2, <1>8, <1>9, <1>10

\* argv has the words of the line, as many as there is room for, and the first of
\* them is the first token.
LEMMA TokensCounted ==
  ASSUME NEW s \in Words
  PROVE  /\ Len(Tokenized(s)) = IF Cardinality(WordStarts(s)) < CR_MAXARGS
                                  THEN Cardinality(WordStarts(s)) ELSE CR_MAXARGS - 1
         /\ Tokenized(s) # <<>> => Tokenized(s)[1] = FirstToken(s)
PROOF
<1>1. Len(s) \in Nat /\ CR_MAXARGS \in Nat \ {0}
  BY CommandLineAssumption DEF Words
<1>2. PICK f : Tokenized(s) = f[<<1, 0>>] /\ \A r \in Ranges(s) : f[r] = Split(s, f, r)
  BY TokenizedIs
<1>3. \A i : IsFiniteSet(WordsFrom(s, i)) /\ Cardinality(WordsFrom(s, i)) \in Nat
  <2>1. IsFiniteSet(1..Len(s))
    BY <1>1, FS_Interval
  <2>2. \A i : WordsFrom(s, i) \subseteq 1..Len(s)
    BY DEF WordsFrom, WordStarts, Solid
  <2> QED BY <2>1, <2>2, FS_Subset, FS_CardinalityType
<1>. DEFINE Left(r) == Len(s) + 1 - r[1]
            Room(r) == CR_MAXARGS - 1 - r[2]
            Count(r) == Cardinality(WordsFrom(s, r[1]))
            Right(r) == /\ f[r] \in Seq(Words)
                        /\ Len(f[r]) = IF Count(r) < Room(r) THEN Count(r) ELSE Room(r)
            Asked == {r \in Ranges(s) : Between(s, r[1]) /\ r[2] <= CR_MAXARGS - 1}
            S == {d \in Nat : \A r \in Asked : Left(r) <= d => Right(r)}
<1>4. ASSUME NEW r \in Asked, Done(s, r) PROVE Right(r)
  <2>1. f[r] = <<>>
    BY <1>2, <1>4, SplitIs
  <2>2. Count(r) = 0 \/ Room(r) = 0
    <3>1. CASE StartsFrom(s, r[1]) = {}
      <4>1. WordsFrom(s, r[1]) = {}
        BY <3>1 DEF WordsFrom, WordStarts, StartsFrom
      <4> QED BY <4>1, FS_EmptySet
    <3>2. CASE r[2] >= CR_MAXARGS - 1
      BY <1>1, <3>2 DEF Ranges
    <3> QED BY <1>4, <3>1, <3>2 DEF Done
  <2>3. Count(r) \in Nat /\ Room(r) \in Nat
    BY <1>1, <1>3 DEF Ranges
  <2>. HIDE DEF Count, Room
  <2> QED BY <2>1, <2>2, <2>3
<1>5. ASSUME NEW r \in Asked, ~Done(s, r)
      PROVE  /\ Beyond(s, r) \in Asked /\ Left(Beyond(s, r)) < Left(r)
             /\ f[r] = <<WordAt(s, Start(s, r))>> \o f[Beyond(s, r)]
             /\ WordAt(s, Start(s, r)) \in Words
             /\ Count(r) = Count(Beyond(s, r)) + 1
             /\ Room(r) = Room(Beyond(s, r)) + 1
  <2>1. /\ Beyond(s, r) \in Ranges(s) /\ r[1] < Beyond(s, r)[1]
        /\ f[r] = <<WordAt(s, Start(s, r))>> \o f[Beyond(s, r)]
    BY <1>2, <1>5, SplitIs
  <2>2. /\ r[1] \in 1..(Len(s) + 1) /\ r[2] \in Nat /\ r[2] < CR_MAXARGS - 1
        /\ StartsFrom(s, r[1]) # {} /\ Between(s, r[1])
    BY <1>1, <1>5 DEF Done, Ranges
  <2>3. PICK j : j = Start(s, r)
    OBVIOUS
  <2>4. /\ WordsFrom(s, r[1]) = {j} \cup WordsFrom(s, WordEnd(s, j))
        /\ j \notin WordsFrom(s, WordEnd(s, j))
        /\ Between(s, WordEnd(s, j))
    BY <2>2, <2>3, NextStart DEF Start
  <2>5. WordAt(s, j) \in Words
    BY <2>2, <2>3, NextWord DEF Start
  <2>6. Beyond(s, r)[1] = WordEnd(s, j) /\ Beyond(s, r)[2] = r[2] + 1
    BY <2>3 DEF Beyond
  <2>7. Beyond(s, r) \in Asked
    BY <1>1, <2>1, <2>2, <2>4, <2>6
  <2>8. Left(Beyond(s, r)) < Left(r)
    BY <1>1, <2>1, <2>2 DEF Ranges
  <2>9. Count(r) = Count(Beyond(s, r)) + 1
    <3>1. PICK W : W = WordsFrom(s, WordEnd(s, j))
      OBVIOUS
    <3>2. Count(r) = Cardinality(W \cup {j}) /\ Count(Beyond(s, r)) = Cardinality(W)
      <4>1. W \cup {j} = WordsFrom(s, r[1]) /\ W = WordsFrom(s, Beyond(s, r)[1])
        BY <2>4, <2>6, <3>1
      <4> QED BY <4>1
    <3>3. IsFiniteSet(W) /\ j \notin W
      BY <1>3, <2>4, <3>1
    <3>4. Cardinality(W \cup {j}) = Cardinality(W) + 1
      BY <3>3, FS_AddElement
    <3> QED BY <3>2, <3>4
  <2>10. Room(r) = Room(Beyond(s, r)) + 1
    BY <1>1, <2>2, <2>6
  <2> QED BY <2>1, <2>3, <2>5, <2>7, <2>8, <2>9, <2>10
<1>6. ASSUME NEW r \in Asked, ~Done(s, r), Right(Beyond(s, r)) PROVE Right(r)
  <2>1. PICK w \in Words : w = WordAt(s, Start(s, r))
    BY <1>5, <1>6
  <2>2. PICK u \in Seq(Words) : u = f[Beyond(s, r)]
    BY <1>6
  <2>3. f[r] = <<w>> \o u
    BY <1>5, <1>6, <2>1, <2>2
  <2>4. f[r] \in Seq(Words) /\ Len(f[r]) = 1 + Len(u)
    BY <2>3
  <2>5. Count(Beyond(s, r)) \in Nat /\ Count(r) = Count(Beyond(s, r)) + 1
        /\ Room(Beyond(s, r)) \in Int /\ Room(r) = Room(Beyond(s, r)) + 1
    <3>1. Count(r) = Count(Beyond(s, r)) + 1 /\ Room(r) = Room(Beyond(s, r)) + 1
      BY <1>5, <1>6
    <3>2. Beyond(s, r) \in Ranges(s)
      BY <1>5, <1>6
    <3> QED BY <1>1, <1>3, <3>1, <3>2 DEF Ranges
  <2>6. Len(u) = IF Count(Beyond(s, r)) < Room(Beyond(s, r)) THEN Count(Beyond(s, r)) ELSE Room(Beyond(s, r))
    BY <1>6, <2>2
  <2>. HIDE DEF Count, Room
  <2> QED BY <2>4, <2>5, <2>6
<1>7. 0 \in S
  <2>1. ASSUME NEW r \in Asked, Left(r) <= 0 PROVE Done(s, r)
    <3>1. ~Done(s, r) => Beyond(s, r) \in Ranges(s) /\ Left(Beyond(s, r)) < Left(r)
      BY <1>5
    <3>2. r[1] \in 1..(Len(s) + 1) /\ \A q \in Ranges(s) : Left(q) \in Nat
      BY <1>1 DEF Ranges
    <3> QED BY <1>1, <2>1, <3>1, <3>2
  <2>. HIDE DEF Right, Asked, Left
  <2> QED BY <1>4, <2>1
<1>8. ASSUME NEW d \in Nat, d \in S PROVE d + 1 \in S
  <2>1. ASSUME NEW r \in Asked, Left(r) <= d + 1, ~Done(s, r) PROVE Right(r)
    <3>1. Beyond(s, r) \in Asked /\ Left(Beyond(s, r)) < Left(r)
      BY <1>5, <2>1
    <3>2. Left(Beyond(s, r)) \in Int /\ Left(r) \in Int
      BY <1>1, <3>1 DEF Ranges
    <3>3. Left(Beyond(s, r)) <= d
      <4>. HIDE DEF Left
      <4> QED BY <2>1, <3>1, <3>2
    <3>4. Right(Beyond(s, r))
      <4>. HIDE DEF Right, Asked, Left
      <4> QED BY <1>8, <3>1, <3>3
    <3>. HIDE DEF Right, Asked, Left
    <3> QED BY <1>6, <2>1, <3>4
  <2>. HIDE DEF Right, Asked, Left
  <2> QED BY <1>4, <2>1
<1>9. Len(s) \in S
  <2>. HIDE DEF S
  <2> QED BY <1>1, <1>7, <1>8, Counting
<1>. DEFINE all == <<1, 0>>
<1>10. all \in Asked /\ Left(all) <= Len(s) /\ Room(all) = CR_MAXARGS - 1
  BY <1>1 DEF Ranges, Between
<1>11. Right(all)
  <2>. HIDE DEF Right, Asked, Left, all
  <2> QED BY <1>9, <1>10
<1>12. WordsFrom(s, 1) = WordStarts(s)
  BY <1>1 DEF WordsFrom, WordStarts, Solid
<1>13. Len(Tokenized(s)) = IF Cardinality(WordStarts(s)) < CR_MAXARGS
                             THEN Cardinality(WordStarts(s)) ELSE CR_MAXARGS - 1
  <2>1. Count(all) = Cardinality(WordStarts(s)) /\ Cardinality(WordStarts(s)) \in Nat
    BY <1>3, <1>12
  <2>2. Len(f[all]) = IF Count(all) < Room(all) THEN Count(all) ELSE Room(all)
    BY <1>11
  <2>. HIDE DEF Count, Room
  <2> QED BY <1>1, <1>2, <1>10, <2>1, <2>2
<1>14. ASSUME Tokenized(s) # <<>> PROVE Tokenized(s)[1] = FirstToken(s)
  <2>1. ~Done(s, all)
    BY <1>2, <1>10, <1>14, SplitIs
  <2>2. StartsFrom(s, 1) = Solid(s)
    BY <1>1 DEF StartsFrom, Solid
  <2>3. Solid(s) # {} /\ Start(s, all) = First(Solid(s))
    BY <2>1, <2>2 DEF Done, Start
  <2>4. f[all] = <<WordAt(s, Start(s, all))>> \o f[Beyond(s, all)] /\ Beyond(s, all) \in Asked
        /\ WordAt(s, Start(s, all)) \in Words
    BY <1>5, <1>10, <2>1
  <2>5. f[Beyond(s, all)] \in Seq(Words)
    <3>1. Left(Beyond(s, all)) <= Len(s)
      BY <1>1, <2>4 DEF Ranges
    <3>2. Right(Beyond(s, all))
      <4>. HIDE DEF Right, Asked, Left, all
      <4> QED BY <1>9, <2>4, <3>1
    <3> QED BY <3>2
  <2>6. (f[all])[1] = WordAt(s, Start(s, all))
    <3>. HIDE DEF all
    <3> QED BY <2>4, <2>5
  <2> QED BY <1>2, <2>3, <2>6 DEF FirstToken, WordAt
<1> QED BY <1>13, <1>14

-----------------------------------------------------------------------------
(* The specification.                                                      *)

IsWord == line \in Words

LEMMA LineIsWord == LineSpec => []IsWord
PROOF
<1>1. LineInit => IsWord
  BY DEF LineInit, IsWord, Words
<1>2. IsWord /\ [LineNext]_line => IsWord'
  <2>1. ASSUME line \in Words, NEW c \in AlphabetLetters \cup {Blank, Ampersand, Bar}, TypeChar(c)
        PROVE  line' \in Words
    <3>1. c \in Int
      BY CommandLineAssumption DEF Blank, Ampersand, Bar
    <3> QED BY <2>1, <3>1 DEF TypeChar, Words
  <2> QED BY <2>1 DEF LineNext, IsWord
<1> QED BY <1>1, <1>2, PTL DEF LineSpec

LEMMA FirstTokenIsWord ==
  ASSUME NEW s \in Words
  PROVE  FirstToken(s) \in Words
PROOF
<1>1. Len(s) \in Nat
  BY DEF Words
<1>2. CASE Solid(s) = {}
  BY <1>2 DEF FirstToken, Words
<1>3. CASE Solid(s) # {}
  <2>1. StartsFrom(s, 1) = Solid(s)
    BY <1>1 DEF StartsFrom, Solid
  <2>2. PICK j : j = First(Solid(s))
    OBVIOUS
  <2>3. WordAt(s, j) \in Words
    BY <1>1, <1>3, <2>1, <2>2, NextWord
  <2> QED BY <1>3, <2>2, <2>3 DEF FirstToken, WordAt
<1> QED BY <1>2, <1>3

LEMMA TablesSorted ==
  ASSUME NEW T \in Tables
  PROVE  T \in Seq(Words) /\ Sorted(T)
PROOF
<1>. DEFINE Short == UNION {[1..k -> AlphabetLetters] : k \in 1..2}
<1>1. Short \subseteq Words
  <2>1. AlphabetLetters \subseteq Int
    BY CommandLineAssumption
  <2>2. ASSUME NEW k \in 1..2, NEW w \in [1..k -> AlphabetLetters] PROVE w \in Words
    <3>1. w \in [1..k -> Int] /\ k \in Nat
      <4>1. w = [i \in 1..k |-> w[i]] /\ \A i \in 1..k : w[i] \in AlphabetLetters
        BY <2>2
      <4>2. \A i \in 1..k : w[i] \in Int
        BY <2>1, <4>1
      <4>3. w \in [1..k -> Int]
        BY <4>1, <4>2, Zenon
      <4> QED BY <2>2, <4>3
    <3>2. Seq(Int) = UNION {[1..n -> Int] : n \in Nat}
      BY SeqDef
    <3> QED BY <3>1, <3>2, Zenon DEF Words
  <2> QED BY <2>2
<1>2. PICK n \in 0..3 : T \in [1..n -> Short]
  BY DEF Tables
<1>3. T \in Seq(Words)
  <2>1. T \in [1..n -> Words]
    BY <1>1, <1>2
  <2> QED BY <2>1, SeqDef
<1>4. Sorted(T)
  BY DEF Tables, Sorted
<1> QED BY <1>3, <1>4

\* On every line, and in every sorted table, the first word finds a command exactly
\* when it is the whole name of one and begins no other, and argv gets the words of
\* the line (cr_dispatch_exact, simple_tokenize).
THEOREM CommandsAlwaysFound == LineSpec => []CommandsFound
PROOF
<1>1. ASSUME IsWord PROVE CommandsFound
  <2>. USE <1>1 DEF IsWord
  <2>1. ASSUME FirstToken(line) # <<>>, NEW T \in Tables
        PROVE  IF \E i \in 1..Len(T) : T[i] = FirstToken(line)
                      /\ \A j \in 1..Len(T) : BeginsWith(T[j], FirstToken(line)) => j = i
                 THEN FindCommand(T, FirstToken(line)) # NotFound
                      /\ T[FindCommand(T, FirstToken(line)) + 1] = FirstToken(line)
                 ELSE FindCommand(T, FirstToken(line)) = NotFound
    BY <2>1, FirstTokenIsWord, TablesSorted, SearchFindsCommands
  <2>2. /\ Tokenized(line) # <<>> => Tokenized(line)[1] = FirstToken(line)
        /\ Len(Tokenized(line)) = IF Cardinality(WordStarts(line)) < CR_MAXARGS
                                    THEN Cardinality(WordStarts(line)) ELSE CR_MAXARGS - 1
    BY TokensCounted
  <2> QED BY <2>1, <2>2 DEF CommandsFound, WordStarts
<1> QED BY <1>1, LineIsWord, PTL

-----------------------------------------------------------------------------
(* Subsequences.                                                           *)

\* What the function of AtPlaces gives for n if f is that function.
Kept(s, P, f, n) ==
  IF n = 0 THEN <<>> ELSE IF n \in P THEN Append(f[n - 1], s[n]) ELSE f[n - 1]
Keeps(s, P, f) == f = [n \in 0..Len(s) |-> Kept(s, P, f, n)]

LEMMA KeepsExist ==
  ASSUME NEW s, Len(s) \in Nat, NEW P
  PROVE  \E f : Keeps(s, P, f)
PROOF
<1>. DEFINE R == 0..Len(s)
            Good(f, d) == \A n \in R : n <= d => f[n] = Kept(s, P, f, n)
            S == {d \in Nat : \E f : f = [n \in R |-> f[n]] /\ Good(f, d)}
<1>2. 0 \in S
  <2>1. PICK f : f = [n \in R |-> <<>>]
    OBVIOUS
  <2>2. f = [n \in R |-> f[n]]
    BY <2>1
  <2>3. Good(f, 0)
    BY <2>1 DEF Kept
  <2> QED BY <2>2, <2>3
<1>3. ASSUME NEW d \in Nat, d \in S PROVE d + 1 \in S
  <2>1. PICK f : f = [n \in R |-> f[n]] /\ Good(f, d)
    BY <1>3
  <2>2. PICK g : g = [n \in R |-> Kept(s, P, f, n)]
    OBVIOUS
  <2>3. g = [n \in R |-> g[n]]
    BY <2>2
  <2>4. \A n \in R : n <= d => f[n] = g[n]
    BY <2>1, <2>2
  <2>5. ASSUME NEW n \in R, n <= d + 1 PROVE g[n] = Kept(s, P, g, n)
    <3>1. n # 0 => n - 1 \in R /\ n - 1 <= d
      BY <2>5
    <3>2. n # 0 => f[n - 1] = g[n - 1]
      BY <2>4, <3>1
    <3>3. Kept(s, P, f, n) = Kept(s, P, g, n)
      BY <3>2 DEF Kept
    <3> QED BY <2>2, <3>3
  <2> QED BY <2>3, <2>5
<1>4. Len(s) \in S
  <2>. HIDE DEF S
  <2> QED BY <1>2, <1>3, Counting
<1>5. PICK f : f = [n \in R |-> f[n]] /\ Good(f, Len(s))
  BY <1>4
<1>6. \A n \in R : f[n] = Kept(s, P, f, n)
  BY <1>5
<1>7. f = [n \in R |-> Kept(s, P, f, n)]
  BY <1>5, <1>6
<1> QED BY <1>7 DEF Keeps

\* What f has for each place, if AtPlaces goes by f.
Collects(s, P, f) ==
  /\ AtPlaces(s, P) = f[Len(s)]
  /\ f[0] = <<>>
  /\ \A n \in 1..Len(s) : n \in P => f[n] = Append(f[n - 1], s[n])
  /\ \A n \in 1..Len(s) : n \notin P => f[n] = f[n - 1]

LEMMA AtPlacesIs ==
  ASSUME NEW S, NEW s \in Seq(S), NEW P
  PROVE  \E f : Collects(s, P, f) /\ \A n \in 0..Len(s) : f[n] \in Seq(S)
PROOF
<1>1. Len(s) \in Nat /\ \A n \in 1..Len(s) : s[n] \in S
  BY LenProperties, ElementOfSeq
<1>2. PICK f : f = CHOOSE g : Keeps(s, P, g)
  OBVIOUS
<1>3. Keeps(s, P, f)
  BY <1>1, <1>2, KeepsExist
<1>4. AtPlaces(s, P) = f[Len(s)]
  BY <1>2 DEF AtPlaces, Keeps, Kept
<1>5. \A n \in 0..Len(s) : f[n] = Kept(s, P, f, n)
  BY <1>3 DEF Keeps
<1>6. f[0] = <<>>
  BY <1>1, <1>5 DEF Kept
<1>7. ASSUME NEW n \in 1..Len(s)
      PROVE  f[n] = IF n \in P THEN Append(f[n - 1], s[n]) ELSE f[n - 1]
  <2>1. n \in 0..Len(s) /\ n # 0
    BY <1>1
  <2> QED BY <1>5, <2>1 DEF Kept
<1>. DEFINE D == {d \in Nat : d <= Len(s) => f[d] \in Seq(S)}
<1>8. 0 \in D
  <2>1. <<>> \in Seq(S)
    BY EmptySeq
  <2> QED BY <1>6, <2>1
<1>9. ASSUME NEW d \in Nat, d \in D PROVE d + 1 \in D
  <2>. SUFFICES ASSUME d + 1 <= Len(s) PROVE f[d + 1] \in Seq(S)
    OBVIOUS
  <2>1. f[d] \in Seq(S) /\ d + 1 \in 1..Len(s) /\ (d + 1) - 1 = d
    BY <1>1, <1>9
  <2>2. f[d + 1] = IF d + 1 \in P THEN Append(f[d], s[d + 1]) ELSE f[d]
    BY <1>7, <2>1
  <2>3. Append(f[d], s[d + 1]) \in Seq(S)
    BY <1>1, <2>1, AppendProperties
  <2> QED BY <2>1, <2>2, <2>3
<1>10. \A n \in 0..Len(s) : f[n] \in Seq(S)
  <2>1. Nat \subseteq D
    <3>. HIDE DEF D
    <3> QED BY <1>8, <1>9, Counting
  <2> QED BY <1>1, <2>1
<1> QED BY <1>4, <1>6, <1>7, <1>10 DEF Collects

LEMMA AtPlacesType ==
  ASSUME NEW S, NEW s \in Seq(S), NEW P
  PROVE  AtPlaces(s, P) \in Seq(S)
PROOF
<1>1. Len(s) \in Nat
  BY LenProperties
<1> QED BY <1>1, AtPlacesIs DEF Collects

\* Named, so that the provers do not unfold them where lemmas are put together.
Cat(u, v)   == u \o v
IsSeq(s, S) == s \in Seq(S)

LEMMA AppendJoined ==
  ASSUME NEW S, NEW a, NEW b, NEW c \in S, IsSeq(a, S), IsSeq(b, S)
  PROVE  Append(Cat(a, b), c) = Cat(a, Append(b, c))
PROOF
<1>. USE DEF IsSeq
<1>1. <<c>> \in Seq(S) /\ a \o b \in Seq(S)
  BY ConcatProperties
<1>2. Append(a \o b, c) = (a \o b) \o <<c>> /\ Append(b, c) = b \o <<c>>
  BY <1>1, AppendIsConcat
<1>3. (a \o b) \o <<c>> = a \o (b \o <<c>>)
  BY <1>1, ConcatAssociative
<1> QED BY <1>2, <1>3 DEF Cat

\* The places of s in P are those in Q, seen from place k on.
SamePlaces(s, Q, P, k) == \A n \in 1..Len(s) : n \in Q <=> k + n \in P

\* What stays of two sequences put together is what stays of one and then of the
\* other; PU and PV are the places in each.
LEMMA AtPlacesJoined ==
  ASSUME NEW S, NEW u, NEW v, IsSeq(u, S), IsSeq(v, S), NEW P, NEW PU, NEW PV,
         SamePlaces(u, PU, P, 0), SamePlaces(v, PV, P, Len(u))
  PROVE  AtPlaces(Cat(u, v), P) = Cat(AtPlaces(u, PU), AtPlaces(v, PV))
PROOF
<1>1. PICK w : w = u \o v
  OBVIOUS
<1>2. /\ Len(u) \in Nat /\ Len(v) \in Nat /\ IsSeq(w, S) /\ Len(w) = Len(u) + Len(v)
      /\ \A n \in 1..Len(u) : w[n] = u[n]
      /\ \A n \in 1..Len(v) : w[Len(u) + n] = v[n] /\ v[n] \in S
  <2>1. /\ w \in Seq(S) /\ Len(w) = Len(u) + Len(v) /\ Len(u) \in Nat /\ Len(v) \in Nat
        /\ \A i \in 1..(Len(u) + Len(v)) : w[i] = IF i <= Len(u) THEN u[i] ELSE v[i - Len(u)]
    BY <1>1, ConcatProperties, LenProperties DEF IsSeq
  <2>2. \A n \in 1..Len(u) : w[n] = u[n]
    BY <2>1
  <2>3. ASSUME NEW n \in 1..Len(v) PROVE w[Len(u) + n] = v[n]
    <3>1. Len(u) + n \in 1..(Len(u) + Len(v)) /\ ~(Len(u) + n <= Len(u))
          /\ (Len(u) + n) - Len(u) = n
      BY <2>1
    <3> QED BY <2>1, <3>1
  <2>4. \A n \in 1..Len(v) : v[n] \in S
    BY ElementOfSeq DEF IsSeq
  <2> QED BY <2>1, <2>2, <2>3, <2>4 DEF IsSeq
<1>3. PICK f : Collects(u, PU, f) /\ \A n \in 0..Len(u) : IsSeq(f[n], S)
  BY AtPlacesIs DEF IsSeq
<1>4. PICK h : Collects(v, PV, h) /\ \A n \in 0..Len(v) : IsSeq(h[n], S)
  BY AtPlacesIs DEF IsSeq
<1>5. PICK g : Collects(w, P, g) /\ \A n \in 0..Len(w) : IsSeq(g[n], S)
  BY <1>2, AtPlacesIs DEF IsSeq
<1>. DEFINE D == {d \in Nat : d <= Len(u) => g[d] = f[d]}
<1>6. 0 \in D
  BY <1>3, <1>5 DEF Collects
<1>7. ASSUME NEW d \in Nat, d \in D PROVE d + 1 \in D
  <2>. SUFFICES ASSUME d + 1 <= Len(u) PROVE g[d + 1] = f[d + 1]
    OBVIOUS
  <2>1. /\ g[d] = f[d] /\ d + 1 \in 1..Len(u) /\ d + 1 \in 1..Len(w) /\ (d + 1) - 1 = d
        /\ w[d + 1] = u[d + 1] /\ (d + 1 \in PU <=> d + 1 \in P)
    BY <1>2, <1>7 DEF SamePlaces
  <2>2. CASE d + 1 \in P
    BY <1>3, <1>5, <2>1, <2>2 DEF Collects
  <2>3. CASE d + 1 \notin P
    BY <1>3, <1>5, <2>1, <2>3 DEF Collects
  <2> QED BY <2>2, <2>3
<1>8. g[Len(u)] = f[Len(u)] /\ IsSeq(f[Len(u)], S)
  <2>1. Nat \subseteq D
    <3>. HIDE DEF D
    <3> QED BY <1>6, <1>7, Counting
  <2> QED BY <1>2, <1>3, <2>1
<1>. PICK a : a = f[Len(u)] /\ IsSeq(a, S)
  BY <1>8
<1>. DEFINE Joined(d) == g[Len(u) + d] = a \o h[d]
            V == {d \in Nat : d <= Len(v) => Joined(d)}
<1>9. 0 \in V
  <2>1. a \o <<>> = a /\ Len(u) + 0 = Len(u)
    BY <1>2, ConcatEmptySeq DEF IsSeq
  <2>2. h[0] = <<>>
    BY <1>4 DEF Collects
  <2> QED BY <1>8, <2>1, <2>2
<1>10. ASSUME NEW d \in Nat, d \in V PROVE d + 1 \in V
  <2>1. SUFFICES ASSUME d + 1 <= Len(v) PROVE Joined(d + 1)
    <3>. HIDE DEF Joined
    <3> QED OBVIOUS
  <2>2. d + 1 \in 1..Len(v) /\ d <= Len(v) /\ d \in 0..Len(v) /\ (d + 1) - 1 = d
    BY <1>2, <2>1
  <2>3. Joined(d)
    <3>. HIDE DEF Joined
    <3> QED BY <1>10, <2>2
  <2>4. PICK k : k = Len(u) + (d + 1)
    OBVIOUS
  <2>5. k \in 1..Len(w) /\ k - 1 = Len(u) + d /\ (k \in P <=> d + 1 \in PV)
    BY <1>2, <2>2, <2>4 DEF SamePlaces
  <2>6. w[k] = v[d + 1] /\ v[d + 1] \in S
    BY <1>2, <2>2, <2>4
  <2>7. IsSeq(h[d], S)
    BY <1>4, <2>2
  <2>8. g[k - 1] = a \o h[d]
    BY <2>3, <2>5
  <2>9. CASE k \in P
    <3>1. h[d + 1] = Append(h[d], v[d + 1])
      BY <1>4, <2>2, <2>5, <2>9 DEF Collects
    <3>2. g[k] = Append(a \o h[d], v[d + 1])
      BY <1>5, <2>5, <2>6, <2>8, <2>9 DEF Collects
    <3>3. Append(Cat(a, h[d]), v[d + 1]) = Cat(a, Append(h[d], v[d + 1]))
      BY <2>6, <2>7, AppendJoined
    <3> QED BY <2>4, <3>1, <3>2, <3>3 DEF Cat
  <2>10. CASE k \notin P
    <3>1. h[d + 1] = h[d]
      BY <1>4, <2>2, <2>5, <2>10 DEF Collects
    <3>2. g[k] = a \o h[d]
      BY <1>5, <2>5, <2>8, <2>10 DEF Collects
    <3> QED BY <2>4, <3>1, <3>2
  <2> QED BY <2>9, <2>10
<1>11. Joined(Len(v))
  <2>1. Nat \subseteq V
    <3>. HIDE DEF V
    <3> QED BY <1>9, <1>10, Counting
  <2>. HIDE DEF Joined
  <2> QED BY <1>2, <2>1
<1>12. g[Len(w)] = a \o h[Len(v)]
  BY <1>2, <1>11
<1> QED BY <1>1, <1>3, <1>4, <1>5, <1>12 DEF Collects, Cat

\* Only the places of the sequence count.
LEMMA AtPlacesSame ==
  ASSUME NEW S, NEW s, IsSeq(s, S), NEW P, NEW Q, SamePlaces(s, P, Q, 0)
  PROVE  AtPlaces(s, P) = AtPlaces(s, Q)
PROOF
<1>1. PICK z : z = <<>>
  OBVIOUS
<1>2. IsSeq(z, S) /\ Len(z) = 0 /\ Cat(s, z) = s
  BY <1>1, EmptySeq, ConcatEmptySeq DEF IsSeq, Cat
<1>3. SamePlaces(z, P, P, Len(s)) /\ SamePlaces(s, P, P, 0) /\ SamePlaces(s, Q, P, 0)
      /\ SamePlaces(z, P, Q, Len(s))
  <2>1. Len(s) \in Nat
    BY LenProperties DEF IsSeq
  <2> QED BY <1>2, <2>1 DEF SamePlaces
<1>4. AtPlaces(Cat(s, z), P) = Cat(AtPlaces(s, P), AtPlaces(z, P))
  BY <1>2, <1>3, AtPlacesJoined
<1>5. AtPlaces(Cat(s, z), P) = Cat(AtPlaces(s, Q), AtPlaces(z, P))
  BY <1>2, <1>3, AtPlacesJoined
<1>6. AtPlaces(z, P) = <<>>
  <2>1. PICK f : Collects(z, P, f)
    BY <1>2, AtPlacesIs DEF IsSeq
  <2> QED BY <1>2, <2>1 DEF Collects
<1>7. AtPlaces(s, P) \in Seq(S) /\ AtPlaces(s, Q) \in Seq(S)
  BY AtPlacesType DEF IsSeq
<1>8. AtPlaces(s, P) \o <<>> = AtPlaces(s, P) /\ AtPlaces(s, Q) \o <<>> = AtPlaces(s, Q)
  BY <1>7, ConcatEmptySeq
<1> QED BY <1>2, <1>4, <1>5, <1>6, <1>8 DEF Cat

LEMMA AtPlacesNone ==
  ASSUME NEW S, NEW s \in Seq(S), NEW P, \A n \in 1..Len(s) : n \notin P
  PROVE  AtPlaces(s, P) = <<>>
PROOF
<1>1. Len(s) \in Nat
  BY LenProperties
<1>2. PICK f : Collects(s, P, f)
  BY AtPlacesIs
<1>. DEFINE D == {d \in Nat : d <= Len(s) => f[d] = <<>>}
<1>3. 0 \in D
  BY <1>2 DEF Collects
<1>4. ASSUME NEW d \in Nat, d \in D PROVE d + 1 \in D
  <2>. SUFFICES ASSUME d + 1 <= Len(s) PROVE f[d + 1] = <<>>
    OBVIOUS
  <2>1. f[d] = <<>> /\ d + 1 \in 1..Len(s) /\ (d + 1) - 1 = d
    BY <1>1, <1>4
  <2> QED BY <1>2, <2>1 DEF Collects
<1>5. Nat \subseteq D
  <2>. HIDE DEF D
  <2> QED BY <1>3, <1>4, Counting
<1> QED BY <1>1, <1>2, <1>5 DEF Collects

LEMMA AtPlacesOne ==
  ASSUME NEW S, NEW c \in S, NEW P, 1 \in P
  PROVE  AtPlaces(<<c>>, P) = <<c>>
PROOF
<1>1. PICK s : s = <<c>>
  OBVIOUS
<1>2. s \in Seq(S) /\ Len(s) = 1 /\ s[1] = c
  <2>1. <<c>> \in Seq(S) /\ Len(<<c>>) = 1 /\ (<<c>>)[1] = c
    OBVIOUS
  <2> QED BY <1>1, <2>1
<1>3. PICK f : Collects(s, P, f)
  BY <1>2, AtPlacesIs
<1>4. f[1] = Append(<<>>, c)
  <2>1. 1 \in 1..Len(s) /\ 1 - 1 = 0
    BY <1>2
  <2> QED BY <1>2, <1>3, <2>1 DEF Collects
<1>5. Append(<<>>, c) = <<c>>
  OBVIOUS
<1> QED BY <1>1, <1>2, <1>3, <1>4, <1>5 DEF Collects

-----------------------------------------------------------------------------
(* What the pieces of a line keep of it.                                   *)

\* The letters of two lines put together are those of one and then of the other.
LEMMA NonBlankJoined ==
  ASSUME NEW u \in Words, NEW v \in Words
  PROVE  NonBlank(u \o v) = NonBlank(u) \o NonBlank(v)
PROOF
<1>1. /\ Len(u) \in Nat /\ Len(v) \in Nat /\ u \o v \in Words /\ Len(u \o v) = Len(u) + Len(v)
      /\ \A n \in 1..Len(u) : (u \o v)[n] = u[n]
      /\ \A n \in 1..Len(v) : (u \o v)[Len(u) + n] = v[n]
  BY DEF Words
<1>2. PICK P : P = Solid(u \o v)
  OBVIOUS
<1>3. \A n \in 1..Len(u) : n \in Solid(u) <=> n \in P
  BY <1>1, <1>2 DEF Solid
<1>4. \A n \in 1..Len(v) : n \in Solid(v) <=> Len(u) + n \in P
  BY <1>1, <1>2 DEF Solid
<1>5. AtPlaces(u \o v, P) = AtPlaces(u, Solid(u)) \o AtPlaces(v, Solid(v))
  <2>1. IsSeq(u, Int) /\ IsSeq(v, Int)
    BY DEF Words, IsSeq
  <2>2. PICK U : U = Solid(u)
    OBVIOUS
  <2>3. PICK V : V = Solid(v)
    OBVIOUS
  <2>4. SamePlaces(u, U, P, 0) /\ SamePlaces(v, V, P, Len(u))
    BY <1>1, <1>3, <1>4, <2>2, <2>3 DEF SamePlaces
  <2>5. AtPlaces(Cat(u, v), P) = Cat(AtPlaces(u, U), AtPlaces(v, V))
    BY <2>1, <2>4, AtPlacesJoined
  <2> QED BY <2>2, <2>3, <2>5 DEF Cat
<1> QED BY <1>2, <1>5 DEF NonBlank

\* A blank line has no letters.
LEMMA NonBlankNone ==
  ASSUME NEW s \in Words, Solid(s) = {}
  PROVE  NonBlank(s) = <<>>
PROOF
<1> QED BY AtPlacesNone DEF NonBlank, Words

LEMMA NonBlankOne ==
  ASSUME NEW c \in Int, c # Blank
  PROVE  NonBlank(<<c>>) = <<c>>
PROOF
<1>1. 1 \in Solid(<<c>>)
  <2>1. Len(<<c>>) = 1 /\ (<<c>>)[1] = c
    OBVIOUS
  <2> QED BY <2>1 DEF Solid
<1> QED BY <1>1, AtPlacesOne DEF NonBlank

LEMMA NonBlankIsWord ==
  ASSUME NEW s \in Words
  PROVE  NonBlank(s) \in Words
PROOF
<1> QED BY AtPlacesType DEF NonBlank, Words

LEMMA FinalIs ==
  ASSUME NEW n \in Nat, NEW S \in SUBSET (0..n), S # {}
  PROVE  Final(S) \in S /\ \A j \in S : j <= Final(S)
PROOF
<1>. DEFINE Left == {n - i : i \in S}
<1>1. Left \in SUBSET Nat /\ Left # {}
  <2>1. \A i \in S : i \in 0..n /\ n - i \in Nat
    OBVIOUS
  <2>2. PICK i : i \in S
    OBVIOUS
  <2>3. n - i \in Left
    BY <2>2
  <2>4. ASSUME NEW k \in Left PROVE k \in Nat
    <3>1. PICK j \in S : k = n - j
      OBVIOUS
    <3> QED BY <2>1, <3>1
  <2> QED BY <2>3, <2>4
<1>2. PICK k : k \in Left /\ \A j \in Left : k <= j
  <2>. HIDE DEF Left
  <2> QED BY <1>1, FirstIs
<1>3. PICK i \in S : k = n - i
  BY <1>2
<1>4. \A j \in S : j <= i
  <2>1. ASSUME NEW j \in S PROVE j <= i
    <3>1. n - j \in Left
      OBVIOUS
    <3>2. n - i <= n - j
      BY <1>2, <1>3, <3>1
    <3>3. i \in 0..n /\ j \in 0..n
      OBVIOUS
    <3> QED BY <3>2, <3>3
  <2> QED BY <2>1
<1> QED BY <1>4 DEF Final

\* A line cut in two is put together again.
LEMMA CutInTwo ==
  ASSUME NEW s \in Words, NEW k \in 0..Len(s)
  PROVE  /\ UpTo(s, k) \in Words /\ Len(UpTo(s, k)) = k
         /\ \A i \in 1..k : UpTo(s, k)[i] = s[i]
         /\ From(s, k + 1) \in Words /\ Len(From(s, k + 1)) = Len(s) - k
         /\ \A i \in 1..(Len(s) - k) : From(s, k + 1)[i] = s[k + i]
         /\ NonBlank(s) = NonBlank(UpTo(s, k)) \o NonBlank(From(s, k + 1))
PROOF
<1>1. Len(s) \in Nat /\ s \in Seq(Int) /\ \A i \in 1..Len(s) : s[i] \in Int
  BY DEF Words
<1>2. /\ UpTo(s, k) \in Seq(Int)
      /\ Len(UpTo(s, k)) = IF 1 <= k THEN k - 1 + 1 ELSE 0
      /\ \A i \in 1..(k - 1 + 1) : UpTo(s, k)[i] = s[1 + i - 1]
  <2>1. k \in Int /\ \A i \in 1..k : s[i] \in Int
    BY <1>1
  <2> QED BY <2>1, SubSeqProperties DEF UpTo
<1>3. /\ From(s, k + 1) \in Seq(Int)
      /\ Len(From(s, k + 1)) = IF k + 1 <= Len(s) THEN Len(s) - (k + 1) + 1 ELSE 0
      /\ \A i \in 1..(Len(s) - (k + 1) + 1) : From(s, k + 1)[i] = s[(k + 1) + i - 1]
  <2>1. k + 1 \in Int /\ Len(s) \in Int /\ \A i \in (k + 1)..Len(s) : s[i] \in Int
    BY <1>1
  <2> QED BY <2>1, SubSeqProperties DEF From
<1>4. Len(UpTo(s, k)) = k /\ \A i \in 1..k : UpTo(s, k)[i] = s[i]
  BY <1>1, <1>2
<1>5. /\ Len(From(s, k + 1)) = Len(s) - k
      /\ \A i \in 1..(Len(s) - k) : From(s, k + 1)[i] = s[k + i]
  BY <1>1, <1>3
<1>6. s = UpTo(s, k) \o From(s, k + 1)
  <2>1. 1 \in 1..(Len(s) + 1) /\ k \in (1 - 1)..Len(s) /\ Len(s) \in k..Len(s)
    BY <1>1
  <2>2. SubSeq(s, 1, k) \o SubSeq(s, k + 1, Len(s)) = SubSeq(s, 1, Len(s))
    BY <1>1, <2>1, ConcatAdjacentSubSeq
  <2>3. SubSeq(s, 1, Len(s)) = s
    BY <1>1, SubSeqFull
  <2> QED BY <2>2, <2>3 DEF UpTo, From
<1>7. NonBlank(UpTo(s, k) \o From(s, k + 1)) = NonBlank(UpTo(s, k)) \o NonBlank(From(s, k + 1))
  BY <1>2, <1>3, NonBlankJoined DEF Words
<1> QED BY <1>2, <1>3, <1>4, <1>5, <1>6, <1>7 DEF Words

\* Trimming takes blanks only, and leaves none at all or a letter.
LEMMA TrimRightKeeps ==
  ASSUME NEW s \in Words
  PROVE  /\ TrimRight(s) \in Words /\ NonBlank(TrimRight(s)) = NonBlank(s)
         /\ TrimRight(s) # <<>> => Solid(TrimRight(s)) # {}
PROOF
<1>1. Len(s) \in Nat /\ <<>> \in Words /\ Solid(<<>>) = {}
  BY EmptySeq DEF Words, Solid
<1>2. CASE Solid(s) = {}
  BY <1>1, <1>2, NonBlankNone DEF TrimRight
<1>3. CASE Solid(s) # {}
  <2>1. PICK k : k = Final(Solid(s))
    OBVIOUS
  <2>2. k \in Solid(s) /\ \A j \in Solid(s) : j <= k
    <3>1. Solid(s) \in SUBSET (0..Len(s))
      BY <1>1 DEF Solid
    <3> QED BY <1>1, <1>3, <2>1, <3>1, FinalIs
  <2>3. k \in 0..Len(s) /\ k \in 1..Len(s) /\ s[k] # Blank
    BY <2>2 DEF Solid
  <2>4. TrimRight(s) = UpTo(s, k)
    BY <1>3, <2>1 DEF TrimRight
  <2>5. NonBlank(s) = NonBlank(UpTo(s, k)) \o NonBlank(From(s, k + 1))
    BY <2>3, CutInTwo
  <2>6. NonBlank(From(s, k + 1)) = <<>>
    <3>1. /\ From(s, k + 1) \in Words /\ Len(From(s, k + 1)) = Len(s) - k
          /\ \A i \in 1..(Len(s) - k) : From(s, k + 1)[i] = s[k + i]
      BY <2>3, CutInTwo
    <3>2. ASSUME NEW i \in 1..(Len(s) - k) PROVE s[k + i] = Blank
      <4>1. k + i \in 1..Len(s) /\ ~(k + i <= k)
        BY <1>1, <2>3
      <4> QED BY <2>2, <4>1 DEF Solid
    <3>3. Solid(From(s, k + 1)) = {}
      BY <3>1, <3>2 DEF Solid
    <3> QED BY <3>1, <3>3, NonBlankNone
  <2>7. UpTo(s, k) \in Words /\ Len(UpTo(s, k)) = k /\ UpTo(s, k)[k] = s[k]
    BY <2>3, CutInTwo
  <2>8. k \in Solid(UpTo(s, k))
    BY <2>3, <2>7 DEF Solid
  <2>9. NonBlank(UpTo(s, k)) \o <<>> = NonBlank(UpTo(s, k))
    BY <2>7, NonBlankIsWord, ConcatEmptySeq DEF Words
  <2> QED BY <2>4, <2>5, <2>6, <2>7, <2>8, <2>9
<1> QED BY <1>2, <1>3

LEMMA TrimLeftKeeps ==
  ASSUME NEW s \in Words
  PROVE  /\ TrimLeft(s) \in Words /\ NonBlank(TrimLeft(s)) = NonBlank(s)
         /\ TrimLeft(s) # <<>> => Solid(TrimLeft(s)) # {}
PROOF
<1>1. Len(s) \in Nat /\ <<>> \in Words /\ Solid(<<>>) = {}
  BY EmptySeq DEF Words, Solid
<1>2. CASE Solid(s) = {}
  BY <1>1, <1>2, NonBlankNone DEF TrimLeft
<1>3. CASE Solid(s) # {}
  <2>1. PICK j : j = First(Solid(s))
    OBVIOUS
  <2>2. j \in Solid(s) /\ \A i \in Solid(s) : j <= i
    <3>1. Solid(s) \in SUBSET Nat
      BY <1>1 DEF Solid
    <3> QED BY <1>3, <2>1, <3>1, FirstIs
  <2>3. PICK k : k = j - 1
    OBVIOUS
  <2>4. k \in 0..Len(s) /\ k + 1 = j /\ j \in 1..Len(s) /\ s[j] # Blank
    BY <1>1, <2>2, <2>3 DEF Solid
  <2>5. TrimLeft(s) = From(s, k + 1)
    BY <1>3, <2>1, <2>4 DEF TrimLeft
  <2>6. NonBlank(s) = NonBlank(UpTo(s, k)) \o NonBlank(From(s, k + 1))
    BY <2>4, CutInTwo
  <2>7. NonBlank(UpTo(s, k)) = <<>>
    <3>1. UpTo(s, k) \in Words /\ Len(UpTo(s, k)) = k /\ \A i \in 1..k : UpTo(s, k)[i] = s[i]
      BY <2>4, CutInTwo
    <3>2. ASSUME NEW i \in 1..k PROVE s[i] = Blank
      <4>1. i \in 1..Len(s) /\ ~(j <= i)
        BY <1>1, <2>4
      <4> QED BY <2>2, <4>1 DEF Solid
    <3>3. Solid(UpTo(s, k)) = {}
      BY <3>1, <3>2 DEF Solid
    <3> QED BY <3>1, <3>3, NonBlankNone
  <2>8. /\ From(s, k + 1) \in Words /\ Len(From(s, k + 1)) = Len(s) - k
        /\ \A i \in 1..(Len(s) - k) : From(s, k + 1)[i] = s[k + i]
    BY <2>4, CutInTwo
  <2>9. 1 \in Solid(From(s, k + 1))
    BY <1>1, <2>4, <2>8 DEF Solid
  <2>10. <<>> \o NonBlank(From(s, k + 1)) = NonBlank(From(s, k + 1))
    BY <2>8, NonBlankIsWord, ConcatEmptySeq DEF Words
  <2> QED BY <2>5, <2>6, <2>7, <2>8, <2>9, <2>10
<1> QED BY <1>2, <1>3

\* The command part of a line has its letters but the ampersand at its end.
Mark(s) == IF EndsInBackground(s) THEN <<Ampersand>> ELSE <<>>

LEMMA CommandPartKeeps ==
  ASSUME NEW s \in Words
  PROVE  /\ CommandPart(s) \in Words /\ NonBlank(s) = NonBlank(CommandPart(s)) \o Mark(s)
         /\ CommandPart(s) # <<>> /\ Solid(s) # {} => Solid(CommandPart(s)) # {}
PROOF
<1>1. Len(s) \in Nat
  BY DEF Words
<1>2. CASE EndsInBackground(s)
  <2>1. PICK k : k = Len(s) - 1
    OBVIOUS
  <2>2. k \in 0..Len(s) /\ k + 1 = Len(s) /\ s[k + 1] = Ampersand
    <3>1. Len(s) # 0
      BY <1>2 DEF EndsInBackground, Words
    <3> QED BY <1>1, <1>2, <2>1, <3>1 DEF EndsInBackground
  <2>3. /\ UpTo(s, k) \in Words /\ From(s, k + 1) \in Words
        /\ NonBlank(s) = NonBlank(UpTo(s, k)) \o NonBlank(From(s, k + 1))
    BY <2>2, CutInTwo
  <2>4. From(s, k + 1) = <<Ampersand>>
    <3>1. /\ From(s, k + 1) \in Seq(Int) /\ Len(From(s, k + 1)) = Len(s) - k
          /\ \A i \in 1..(Len(s) - k) : From(s, k + 1)[i] = s[k + i]
      BY <2>2, CutInTwo DEF Words
    <3>2. Len(s) - k = 1 /\ 1 \in 1..(Len(s) - k)
      BY <1>1, <2>2
    <3>3. Len(From(s, k + 1)) = 1 /\ From(s, k + 1)[1] = Ampersand
      BY <2>2, <3>1, <3>2
    <3> QED BY <3>1, <3>3
  <2>5. NonBlank(<<Ampersand>>) = <<Ampersand>>
    BY NonBlankOne DEF Ampersand, Blank
  <2>6. CommandPart(s) = TrimRight(UpTo(s, k))
    BY <1>2, <2>1 DEF CommandPart
  <2> QED BY <1>2, <2>3, <2>4, <2>5, <2>6, TrimRightKeeps DEF Mark
<1>3. CASE ~EndsInBackground(s)
  <2>1. NonBlank(s) \o <<>> = NonBlank(s)
    BY NonBlankIsWord, ConcatEmptySeq DEF Words
  <2> QED BY <1>3, <2>1 DEF CommandPart, Mark
<1> QED BY <1>2, <1>3

\* The two commands of a pipe with the bar between them have the letters of both.
LEMMA PipeKeeps ==
  ASSUME NEW c \in Words, NEW b \in 1..Len(c), c[b] = Bar
  PROVE  LET cmd1 == TrimRight(UpTo(c, b - 1))
             cmd2 == TrimLeft(From(c, b + 1))
         IN  /\ NonBlank(c) = (NonBlank(cmd1) \o <<Bar>>) \o NonBlank(cmd2)
             /\ cmd1 \in Words /\ (cmd1 # <<>> => Solid(cmd1) # {})
             /\ cmd2 \in Words /\ (cmd2 # <<>> => Solid(cmd2) # {})
PROOF
<1>1. Len(c) \in Nat
  BY DEF Words
<1>2. PICK k : k = b - 1
  OBVIOUS
<1>3. k \in 0..Len(c) /\ k + 1 = b
  BY <1>1, <1>2
<1>4. /\ UpTo(c, b) \in Words /\ Len(UpTo(c, b)) = b /\ \A i \in 1..b : UpTo(c, b)[i] = c[i]
      /\ From(c, b + 1) \in Words
      /\ NonBlank(c) = NonBlank(UpTo(c, b)) \o NonBlank(From(c, b + 1))
  <2>1. b \in 0..Len(c)
    BY <1>1
  <2> QED BY <2>1, CutInTwo
<1>5. /\ UpTo(c, k) \in Words
      /\ NonBlank(UpTo(c, b)) = NonBlank(UpTo(c, k)) \o <<Bar>>
  <2>1. SubSeq(c, 1, b) = SubSeq(c, 1, b - 1) \o <<c[b]>>
    <3>1. 1 \in 1..Len(c) /\ b \in 1..Len(c) /\ c \in Seq(Int)
      BY <1>1 DEF Words
    <3> QED BY <3>1, SubSeqRecursiveSecond
  <2>2. UpTo(c, b) = UpTo(c, k) \o <<Bar>>
    BY <1>2, <2>1 DEF UpTo
  <2>3. UpTo(c, k) \in Words
    BY <1>3, CutInTwo
  <2>4. <<Bar>> \in Words /\ NonBlank(<<Bar>>) = <<Bar>>
    <3>1. Bar \in Int /\ Bar # Blank
      BY DEF Bar, Blank
    <3>2. <<Bar>> \in Seq(Int)
      BY <3>1
    <3> QED BY <3>1, <3>2, NonBlankOne DEF Words
  <2>5. NonBlank(UpTo(c, k) \o <<Bar>>) = NonBlank(UpTo(c, k)) \o NonBlank(<<Bar>>)
    BY <2>3, <2>4, NonBlankJoined
  <2> QED BY <2>2, <2>3, <2>4, <2>5
<1>6. /\ NonBlank(TrimRight(UpTo(c, k))) = NonBlank(UpTo(c, k))
      /\ TrimRight(UpTo(c, k)) \in Words
      /\ TrimRight(UpTo(c, k)) # <<>> => Solid(TrimRight(UpTo(c, k))) # {}
  BY <1>5, TrimRightKeeps
<1>7. /\ NonBlank(TrimLeft(From(c, b + 1))) = NonBlank(From(c, b + 1))
      /\ TrimLeft(From(c, b + 1)) \in Words
      /\ TrimLeft(From(c, b + 1)) # <<>> => Solid(TrimLeft(From(c, b + 1))) # {}
  BY <1>4, TrimLeftKeeps
<1> QED BY <1>2, <1>4, <1>5, <1>6, <1>7

\* Put together again, the commands of a line are the line: none of its letters is
\* lost or moved to another command (shell_dispatch, run_piped).
THEOREM LinesAlwaysSplit == LineSpec => []LinesSplit
PROOF
<1>1. ASSUME IsWord PROVE LinesSplit
  <2>. USE <1>1 DEF IsWord
  <2>1. PICK c : c = CommandPart(line)
    OBVIOUS
  <2>2. /\ c \in Words /\ NonBlank(line) = NonBlank(c) \o Mark(line)
        /\ c # <<>> /\ Solid(line) # {} => Solid(c) # {}
    BY <2>1, CommandPartKeeps
  <2>. DEFINE Bars == {i \in 1..Len(c) : c[i] = Bar}
  <2>3. PICK b : b = First(Bars)
    OBVIOUS
  <2>4. PICK cmd1 : cmd1 = TrimRight(UpTo(c, b - 1))
    OBVIOUS
  <2>5. PICK cmd2 : cmd2 = TrimLeft(From(c, b + 1))
    OBVIOUS
  <2>6. ShellDispatch(line) =
          IF c = <<>> THEN [how |-> "nothing", cmds |-> <<>>]
          ELSE IF Bars # {} THEN
            IF cmd1 = <<>> \/ cmd2 = <<>> THEN [how |-> "malformed", cmds |-> <<>>]
                                         ELSE [how |-> "pipe", cmds |-> <<cmd1, cmd2>>]
          ELSE [how |-> IF EndsInBackground(line) THEN "background" ELSE "foreground",
                cmds |-> <<c>>]
    BY <2>1, <2>3, <2>4, <2>5 DEF ShellDispatch
  <2>7. PICK d : d = ShellDispatch(line)
    OBVIOUS
  <2>8. CASE c # <<>> /\ Bars = {}
    BY <2>2, <2>6, <2>8 DEF LinesSplit, Mark
  <2>9. CASE c # <<>> /\ Bars # {} /\ cmd1 # <<>> /\ cmd2 # <<>>
    <3>1. b \in 1..Len(c) /\ c[b] = Bar
      <4>1. Bars \in SUBSET Nat
        OBVIOUS
      <4>2. b \in Bars
        <5>. HIDE DEF Bars
        <5> QED BY <2>3, <2>9, <4>1, FirstIs
      <4> QED BY <4>2
    <3>2. /\ NonBlank(c) = (NonBlank(cmd1) \o <<Bar>>) \o NonBlank(cmd2)
          /\ Solid(cmd1) # {} /\ Solid(cmd2) # {}
      BY <2>2, <2>4, <2>5, <2>9, <3>1, PipeKeeps
    <3>3. NonBlank(line) = ((NonBlank(cmd1) \o <<Bar>>) \o NonBlank(cmd2)) \o Mark(line)
      BY <2>2, <3>2
    <3>4. ShellDispatch(line) = [how |-> "pipe", cmds |-> <<cmd1, cmd2>>]
      BY <2>6, <2>9
    <3> QED BY <3>2, <3>3, <3>4 DEF LinesSplit, Mark
  <2>10. CASE c = <<>> \/ (Bars # {} /\ (cmd1 = <<>> \/ cmd2 = <<>>))
    BY <2>6, <2>10 DEF LinesSplit
  <2> QED BY <2>8, <2>9, <2>10
<1> QED BY <1>1, LineIsWord, PTL

-----------------------------------------------------------------------------
(* PipePrograms: lines of a stream.                                        *)

LEMMA AtPlacesAll ==
  ASSUME NEW S, NEW s \in Seq(S), NEW P, \A n \in 1..Len(s) : n \in P
  PROVE  AtPlaces(s, P) = s
PROOF
<1>1. Len(s) \in Nat
  BY LenProperties
<1>2. PICK f : Collects(s, P, f)
  BY AtPlacesIs
<1>. DEFINE D == {d \in Nat : d <= Len(s) => f[d] = SubSeq(s, 1, d)}
<1>3. 0 \in D
  <2>1. SubSeq(s, 1, 0) = <<>>
    BY SubSeqEmpty
  <2> QED BY <1>2, <2>1 DEF Collects
<1>4. ASSUME NEW d \in Nat, d \in D PROVE d + 1 \in D
  <2>. SUFFICES ASSUME d + 1 <= Len(s) PROVE f[d + 1] = SubSeq(s, 1, d + 1)
    OBVIOUS
  <2>1. f[d] = SubSeq(s, 1, d) /\ d + 1 \in 1..Len(s) /\ (d + 1) - 1 = d
    BY <1>1, <1>4
  <2>2. f[d + 1] = Append(SubSeq(s, 1, d), s[d + 1])
    BY <1>2, <2>1 DEF Collects
  <2>3. SubSeq(s, 1, d + 1) = SubSeq(s, 1, d) \o <<s[d + 1]>>
    <3>1. 1 \in 1..Len(s) /\ d + 1 \in 1..Len(s)
      BY <1>1, <2>1
    <3>2. SubSeq(s, 1, d + 1) = SubSeq(s, 1, (d + 1) - 1) \o <<s[d + 1]>>
      BY <3>1, SubSeqRecursiveSecond
    <3> QED BY <2>1, <3>2
  <2>4. SubSeq(s, 1, d) \in Seq(S) /\ s[d + 1] \in S
    <3>1. \A i \in 1..d : s[i] \in S
      BY <1>1, <2>1, ElementOfSeq
    <3>2. SubSeq(s, 1, d) \in Seq(S)
      BY <3>1, SubSeqProperties
    <3> QED BY <2>1, <3>2, ElementOfSeq
  <2>5. Append(SubSeq(s, 1, d), s[d + 1]) = SubSeq(s, 1, d) \o <<s[d + 1]>>
    BY <2>4, AppendIsConcat
  <2> QED BY <2>2, <2>3, <2>5
<1>5. f[Len(s)] = SubSeq(s, 1, Len(s))
  <2>1. Nat \subseteq D
    <3>. HIDE DEF D
    <3> QED BY <1>3, <1>4, Counting
  <2> QED BY <1>1, <2>1
<1>6. SubSeq(s, 1, Len(s)) = s
  BY SubSeqFull
<1> QED BY <1>2, <1>5, <1>6 DEF Collects

LEMMA AtPlacesSome ==
  ASSUME NEW S, NEW s \in Seq(S), NEW P, NEW i \in 1..Len(s), i \in P
  PROVE  AtPlaces(s, P) # <<>>
PROOF
<1>1. Len(s) \in Nat /\ i \in Nat /\ \A n \in 1..Len(s) : s[n] \in S
  BY LenProperties, ElementOfSeq
<1>2. PICK f : Collects(s, P, f) /\ \A n \in 0..Len(s) : f[n] \in Seq(S)
  BY AtPlacesIs
<1>. DEFINE D == {d \in Nat : i + d <= Len(s) => f[i + d] # <<>>}
<1>3. ASSUME NEW n \in 1..Len(s), n \in P PROVE f[n] # <<>>
  <2>1. f[n] = Append(f[n - 1], s[n])
    <3>1. f[n] = IF n \in P THEN Append(f[n - 1], s[n]) ELSE f[n - 1]
      BY <1>2 DEF Collects
    <3> QED BY <1>3, <3>1
  <2>2. n - 1 \in 0..Len(s) /\ s[n] \in S
    BY <1>1
  <2>3. PICK u : u = f[n - 1]
    OBVIOUS
  <2>4. u \in Seq(S)
    BY <1>2, <2>2, <2>3
  <2>5. Append(u, s[n]) # <<>>
    BY <2>2, <2>4, AppendProperties
  <2> QED BY <2>1, <2>3, <2>5
<1>4. 0 \in D
  BY <1>1, <1>3
<1>5. ASSUME NEW d \in Nat, d \in D PROVE d + 1 \in D
  <2>. SUFFICES ASSUME i + (d + 1) <= Len(s) PROVE f[i + (d + 1)] # <<>>
    OBVIOUS
  <2>1. PICK n : n = i + (d + 1)
    OBVIOUS
  <2>2. n \in 1..Len(s) /\ n - 1 = i + d /\ f[n - 1] # <<>>
    BY <1>1, <1>5, <2>1
  <2>3. n \notin P => f[n] = f[n - 1]
    BY <1>2, <2>2 DEF Collects
  <2> QED BY <1>3, <2>1, <2>2, <2>3
<1>6. f[Len(s)] # <<>>
  <2>1. Nat \subseteq D
    <3>. HIDE DEF D
    <3> QED BY <1>4, <1>5, Counting
  <2>2. Len(s) - i \in Nat /\ i + (Len(s) - i) = Len(s)
    BY <1>1
  <2> QED BY <2>1, <2>2
<1> QED BY <1>2, <1>6 DEF Collects

Chars == {Vowel, Other, Newline}
Text  == Seq(Chars)

LEMMA TextIs ==
  ASSUME NEW s \in Text
  PROVE  Len(s) \in Nat /\ \A i \in 1..Len(s) : s[i] \in Chars
PROOF
<1> QED BY DEF Text

LEMMA TextParts ==
  ASSUME NEW s \in Text, NEW a \in 1..(Len(s) + 1), NEW b \in (a - 1)..Len(s)
  PROVE  /\ SubSeq(s, a, b) \in Text /\ Len(SubSeq(s, a, b)) = b - a + 1
         /\ \A i \in 1..(b - a + 1) : SubSeq(s, a, b)[i] = s[a + i - 1]
PROOF
<1>1. Len(s) \in Nat /\ \A i \in a..b : s[i] \in Chars
  BY TextIs
<1>2. /\ SubSeq(s, a, b) \in Seq(Chars)
      /\ Len(SubSeq(s, a, b)) = IF a <= b THEN b - a + 1 ELSE 0
      /\ \A i \in 1..(b - a + 1) : SubSeq(s, a, b)[i] = s[a + i - 1]
  <2>1. a \in Int /\ b \in Int
    BY <1>1
  <2> QED BY <1>1, <2>1, SubSeqProperties
<1> QED BY <1>1, <1>2 DEF Text

LEMMA TextUpTo ==
  ASSUME NEW s \in Text, NEW b \in 0..Len(s)
  PROVE  UpTo(s, b) \in Text /\ Len(UpTo(s, b)) = b /\ \A i \in 1..b : UpTo(s, b)[i] = s[i]
PROOF
<1>1. 1 \in 1..(Len(s) + 1) /\ b \in (1 - 1)..Len(s) /\ b - 1 + 1 = b
  BY TextIs
<1>2. SubSeq(s, 1, b) \in Text /\ Len(SubSeq(s, 1, b)) = b - 1 + 1
      /\ \A i \in 1..(b - 1 + 1) : SubSeq(s, 1, b)[i] = s[1 + i - 1]
  BY <1>1, TextParts
<1>3. \A i \in 1..b : 1 + i - 1 = i
  OBVIOUS
<1> QED BY <1>1, <1>2, <1>3 DEF UpTo

\* A text with the next line and its newline behind it.
WithLine(t, w) == Cat(t, Cat(w, <<Newline>>))
Whole(t) == t = <<>> \/ t[Len(t)] = Newline

LEMMA WithLineIs ==
  ASSUME NEW t \in Text, NEW w \in Text
  PROVE  /\ WithLine(t, w) \in Text /\ Len(WithLine(t, w)) = Len(t) + Len(w) + 1
         /\ \A i \in 1..Len(t) : WithLine(t, w)[i] = t[i]
         /\ \A i \in 1..Len(w) : WithLine(t, w)[Len(t) + i] = w[i]
         /\ WithLine(t, w)[Len(t) + Len(w) + 1] = Newline
PROOF
<1>1. Len(t) \in Nat /\ Len(w) \in Nat
  BY TextIs
<1>2. PICK v : v = w \o <<Newline>>
  OBVIOUS
<1>3. /\ v \in Text /\ Len(v) = Len(w) + 1 /\ v[Len(w) + 1] = Newline
      /\ \A i \in 1..Len(w) : v[i] = w[i]
  <2>1. w \in Seq(Chars) /\ Newline \in Chars
    BY DEF Text, Chars
  <2>2. v = Append(w, Newline)
    BY <1>2, <2>1, AppendIsConcat
  <2> QED BY <2>1, <2>2, AppendProperties DEF Text
<1>4. PICK z : z = t \o v
  OBVIOUS
<1>5. /\ z \in Text /\ Len(z) = Len(t) + Len(v)
      /\ \A i \in 1..(Len(t) + Len(v)) : z[i] = IF i <= Len(t) THEN t[i] ELSE v[i - Len(t)]
  <2>1. t \in Seq(Chars) /\ v \in Seq(Chars)
    BY <1>3 DEF Text
  <2> QED BY <1>4, <2>1, ConcatProperties DEF Text
<1>6. z = WithLine(t, w)
  BY <1>2, <1>4 DEF WithLine, Cat
<1>7. ASSUME NEW i \in 1..Len(t) PROVE z[i] = t[i]
  BY <1>1, <1>3, <1>5
<1>8. ASSUME NEW i \in 1..(Len(w) + 1) PROVE z[Len(t) + i] = v[i]
  <2>1. Len(t) + i \in 1..(Len(t) + Len(v)) /\ ~(Len(t) + i <= Len(t)) /\ (Len(t) + i) - Len(t) = i
    BY <1>1, <1>3
  <2> QED BY <1>5, <2>1
<1>9. z[Len(t) + Len(w) + 1] = Newline
  <2>1. Len(w) + 1 \in 1..(Len(w) + 1) /\ Len(t) + (Len(w) + 1) = Len(t) + Len(w) + 1
    BY <1>1
  <2> QED BY <1>3, <1>8, <2>1
<1> QED BY <1>1, <1>3, <1>5, <1>6, <1>7, <1>8, <1>9

\* Two texts with the same letters are the same.
LEMMA TextSame ==
  ASSUME NEW s \in Text, NEW t \in Text, Len(s) = Len(t), \A i \in 1..Len(s) : s[i] = t[i]
  PROVE  s = t
PROOF
<1> QED BY SeqEqual DEF Text

LEMMA TerminatedIs ==
  ASSUME NEW s \in Text
  PROVE  /\ Whole(s) => Terminated(s) = s /\ Ends(s) = Newlines(s)
         /\ ~Whole(s) => Terminated(s) = Append(s, Newline) /\ Ends(s) = Newlines(s) \cup {Len(s) + 1}
PROOF
<1>1. Len(s) \in Nat /\ Len(s) + 1 \notin Newlines(s)
  BY TextIs DEF Newlines
<1>2. CASE Whole(s)
  BY <1>2 DEF Whole, Terminated, Ends
<1>3. CASE ~Whole(s)
  <2>1. Ends(s) = Newlines(s) \cup {Len(s) + 1}
    BY <1>3 DEF Whole, Ends
  <2>2. Ends(s) # Newlines(s)
    BY <1>1, <2>1
  <2> QED BY <1>3, <2>1, <2>2 DEF Terminated
<1> QED BY <1>2, <1>3

\* The line that ends at e begins behind the last newline before it.
Begins(s, e, p) ==
  p \in {0} \cup Newlines(s) /\ p < e /\ \A k \in (p + 1)..(e - 1) : s[k] # Newline

LEMMA LineEndingIs ==
  ASSUME NEW s \in Text, NEW e \in 1..(Len(s) + 1), NEW p, Begins(s, e, p)
  PROVE  LineEndingAt(s, e) = SubSeq(s, p + 1, e - 1)
PROOF
<1>1. Len(s) \in Nat /\ p \in 0..Len(s) /\ p < e /\ e \in Int
  BY TextIs DEF Begins, Newlines
<1>. DEFINE Starts(i) == i < e /\ \A j \in Newlines(s) : j < e => j <= i
<1>2. p \in {0} \cup Newlines(s) /\ Starts(p)
  <2>1. ASSUME NEW j \in Newlines(s), j < e PROVE j <= p
    <3>1. j \in 1..Len(s) /\ s[j] = Newline
      BY <2>1 DEF Newlines
    <3>2. j \notin (p + 1)..(e - 1)
      BY <3>1 DEF Begins
    <3> QED BY <1>1, <2>1, <3>1, <3>2
  <2> QED BY <2>1 DEF Begins
<1>3. ASSUME NEW i \in {0} \cup Newlines(s), Starts(i) PROVE i = p
  <2>1. i \in 0..Len(s)
    BY <1>1, <1>3 DEF Newlines
  <2>2. i <= p
    BY <1>1, <1>2, <1>3, <2>1
  <2>3. p <= i
    BY <1>1, <1>2, <1>3, <2>1
  <2> QED BY <1>1, <2>1, <2>2, <2>3
<1>4. p = CHOOSE i \in {0} \cup Newlines(s) : Starts(i)
  <2>. HIDE DEF Starts
  <2> QED BY <1>2, <1>3
<1> QED BY <1>4 DEF LineEndingAt

LEMMA BeginsExists ==
  ASSUME NEW s \in Text, NEW e \in 1..(Len(s) + 1)
  PROVE  \E p : Begins(s, e, p)
PROOF
<1>. DEFINE Before_e == {i \in {0} \cup Newlines(s) : i < e}
<1>1. Len(s) \in Nat /\ e \in Int /\ Before_e \in SUBSET (0..Len(s)) /\ 0 \in Before_e
  BY TextIs DEF Newlines
<1>2. PICK p : p \in Before_e /\ \A j \in Before_e : j <= p
  <2>. HIDE DEF Before_e
  <2> QED BY <1>1, FinalIs
<1>3. ASSUME NEW k \in (p + 1)..(e - 1) PROVE s[k] # Newline
  <2>1. p \in 0..Len(s) /\ p < e
    BY <1>1, <1>2
  <2>2. k \in 1..Len(s) /\ k < e /\ ~(k <= p)
    BY <1>1, <2>1
  <2>3. k \notin Before_e
    <3>. HIDE DEF Before_e
    <3> QED BY <1>2, <2>2
  <2> QED BY <2>2, <2>3 DEF Newlines
<1> QED BY <1>2, <1>3 DEF Begins

LEMMA VowelLineIs ==
  ASSUME NEW s \in Text, NEW e \in 1..(Len(s) + 1), NEW p, Begins(s, e, p)
  PROVE  /\ Len(LineEndingAt(s, e)) = e - 1 - p
         /\ OnlyVowels(LineEndingAt(s, e)) <=> p + 1 < e /\ \A k \in (p + 1)..(e - 1) : s[k] = Vowel
PROOF
<1>1. Len(s) \in Nat /\ p \in 0..Len(s) /\ p < e /\ e \in Int
  BY TextIs DEF Begins, Newlines
<1>2. PICK w : w = SubSeq(s, p + 1, e - 1)
  OBVIOUS
<1>3. LineEndingAt(s, e) = w
  BY <1>2, LineEndingIs
<1>4. w \in Text /\ Len(w) = e - 1 - p /\ \A i \in 1..(e - 1 - p) : w[i] = s[p + i]
  <2>1. PICK a : a = p + 1
    OBVIOUS
  <2>2. PICK b : b = e - 1
    OBVIOUS
  <2>3. a \in 1..(Len(s) + 1) /\ b \in (a - 1)..Len(s) /\ w = SubSeq(s, a, b)
    BY <1>1, <1>2, <2>1, <2>2
  <2>4. w \in Text /\ Len(w) = b - a + 1 /\ \A i \in 1..(b - a + 1) : w[i] = s[a + i - 1]
    BY <2>3, TextParts
  <2> QED BY <1>1, <2>1, <2>2, <2>4
<1>5. w = <<>> <=> ~(p + 1 < e)
  <2>1. w = <<>> <=> Len(w) = 0
    BY <1>4 DEF Text
  <2> QED BY <1>1, <1>4, <2>1
<1>6. (\A i \in 1..Len(w) : w[i] = Vowel) <=> \A k \in (p + 1)..(e - 1) : s[k] = Vowel
  <2>1. ASSUME \A i \in 1..Len(w) : w[i] = Vowel, NEW k \in (p + 1)..(e - 1) PROVE s[k] = Vowel
    <3>1. k - p \in 1..(e - 1 - p) /\ p + (k - p) = k
      BY <1>1
    <3> QED BY <1>4, <2>1, <3>1
  <2>2. ASSUME \A k \in (p + 1)..(e - 1) : s[k] = Vowel, NEW i \in 1..Len(w) PROVE w[i] = Vowel
    <3>1. p + i \in (p + 1)..(e - 1) /\ i \in 1..(e - 1 - p)
      BY <1>1, <1>4
    <3> QED BY <1>4, <2>2, <3>1
  <2> QED BY <2>1, <2>2
<1> QED BY <1>3, <1>4, <1>5, <1>6 DEF OnlyVowels

-----------------------------------------------------------------------------
(* PipePrograms: what a line adds to the results.                          *)

\* The places that stay in WithoutVowels.
Staying(s) ==
  {i \in 1..Len(s) : /\ s[i] # Vowel
                     /\ s[i] = Newline => ~OnlyVowels(LineEndingAt(s, i))}
Consonants(w) == {i \in 1..Len(w) : w[i] # Vowel}

LEMMA StayingBefore ==
  ASSUME NEW t \in Text, NEW w \in Text
  PROVE  SamePlaces(t, Staying(t), Staying(WithLine(t, w)), 0)
PROOF
<1>1. PICK z : z = WithLine(t, w)
  OBVIOUS
<1>2. /\ z \in Text /\ Len(t) \in Nat /\ Len(w) \in Nat /\ Len(z) = Len(t) + Len(w) + 1
      /\ \A i \in 1..Len(t) : z[i] = t[i]
  BY <1>1, WithLineIs, TextIs
<1>3. ASSUME NEW i \in 1..Len(t)
      PROVE  OnlyVowels(LineEndingAt(t, i)) <=> OnlyVowels(LineEndingAt(z, i))
  <2>1. i \in 1..(Len(t) + 1) /\ i \in 1..(Len(z) + 1) /\ i \in Int
    BY <1>2
  <2>2. PICK p : Begins(t, i, p)
    BY <2>1, BeginsExists
  <2>3. p \in 0..Len(t) /\ p < i /\ (p = 0 \/ (p \in 1..Len(t) /\ t[p] = Newline))
    BY <1>2, <2>2 DEF Begins, Newlines
  <2>4. \A k \in (p + 1)..(i - 1) : z[k] = t[k]
    BY <1>2, <2>1, <2>3
  <2>5. Begins(z, i, p)
    <3>1. p \in {0} \cup Newlines(z)
      BY <1>2, <2>3 DEF Newlines
    <3> QED BY <2>2, <2>3, <2>4, <3>1 DEF Begins
  <2>6. OnlyVowels(LineEndingAt(t, i)) <=> p + 1 < i /\ \A k \in (p + 1)..(i - 1) : t[k] = Vowel
    BY <2>1, <2>2, VowelLineIs
  <2>7. OnlyVowels(LineEndingAt(z, i)) <=> p + 1 < i /\ \A k \in (p + 1)..(i - 1) : z[k] = Vowel
    BY <1>2, <2>1, <2>5, VowelLineIs
  <2> QED BY <2>4, <2>6, <2>7
<1>4. ASSUME NEW i \in 1..Len(t) PROVE i \in Staying(t) <=> 0 + i \in Staying(z)
  <2>1. i \in 1..Len(z) /\ 0 + i = i /\ z[i] = t[i]
    BY <1>2
  <2> QED BY <1>3, <2>1 DEF Staying
<1> QED BY <1>1, <1>4 DEF SamePlaces

LEMMA StayingLine ==
  ASSUME NEW t \in Text, Whole(t), NEW w \in Text, \A i \in 1..Len(w) : w[i] # Newline,
         NEW v, v = Cat(w, <<Newline>>)
  PROVE  SamePlaces(v, Consonants(w) \cup (IF OnlyVowels(w) THEN {} ELSE {Len(w) + 1}),
                    Staying(WithLine(t, w)), Len(t))
PROOF
<1>1. PICK z : z = WithLine(t, w)
  OBVIOUS
<1>2. PICK e : e = Len(t) + Len(w) + 1
  OBVIOUS
<1>3. /\ z \in Text /\ Len(t) \in Nat /\ Len(w) \in Nat /\ Len(z) = e
      /\ \A i \in 1..Len(t) : z[i] = t[i]
      /\ \A i \in 1..Len(w) : z[Len(t) + i] = w[i]
      /\ z[e] = Newline /\ e \in 1..(Len(z) + 1) /\ e \in 1..Len(z)
  <2>1. Len(t) \in Nat /\ Len(w) \in Nat
    BY TextIs
  <2>2. /\ z \in Text /\ Len(z) = e /\ z[e] = Newline
        /\ \A i \in 1..Len(t) : z[i] = t[i]
        /\ \A i \in 1..Len(w) : z[Len(t) + i] = w[i]
    BY <1>1, <1>2, WithLineIs
  <2>3. e \in 1..(Len(z) + 1) /\ e \in 1..Len(z)
    BY <1>2, <2>1, <2>2
  <2> QED BY <2>1, <2>2, <2>3
<1>4. Len(v) = Len(w) + 1
  BY <1>3 DEF Cat, Text
<1>5. Begins(z, e, Len(t))
  <2>1. Len(t) # 0 => Len(t) \in 1..Len(z) /\ z[Len(t)] = Newline
    <3>1. Len(t) # 0 => t # <<>>
      OBVIOUS
    <3> QED BY <1>2, <1>3, <3>1 DEF Whole
  <2>2. ASSUME NEW k \in (Len(t) + 1)..(e - 1) PROVE z[k] # Newline
    <3>1. k - Len(t) \in 1..Len(w) /\ Len(t) + (k - Len(t)) = k
      BY <1>2, <1>3
    <3> QED BY <1>3, <3>1
  <2> QED BY <1>2, <1>3, <2>1, <2>2 DEF Begins, Newlines
<1>6. OnlyVowels(LineEndingAt(z, e)) <=> OnlyVowels(w)
  <2>1. OnlyVowels(LineEndingAt(z, e)) <=>
          Len(t) + 1 < e /\ \A k \in (Len(t) + 1)..(e - 1) : z[k] = Vowel
    BY <1>3, <1>5, VowelLineIs
  <2>2. Len(t) + 1 < e <=> w # <<>>
    <3>1. w = <<>> <=> Len(w) = 0
      BY DEF Text
    <3> QED BY <1>2, <1>3, <3>1
  <2>3. ASSUME \A k \in (Len(t) + 1)..(e - 1) : z[k] = Vowel, NEW i \in 1..Len(w)
        PROVE  w[i] = Vowel
    <3>1. Len(t) + i \in (Len(t) + 1)..(e - 1)
      BY <1>2, <1>3
    <3> QED BY <1>3, <2>3, <3>1
  <2>4. ASSUME \A i \in 1..Len(w) : w[i] = Vowel, NEW k \in (Len(t) + 1)..(e - 1)
        PROVE  z[k] = Vowel
    <3>1. k - Len(t) \in 1..Len(w) /\ Len(t) + (k - Len(t)) = k
      BY <1>2, <1>3
    <3> QED BY <1>3, <2>4, <3>1
  <2> QED BY <2>1, <2>2, <2>3, <2>4 DEF OnlyVowels
<1>7. ASSUME NEW n \in 1..Len(w) PROVE n \in Consonants(w) <=> Len(t) + n \in Staying(z)
  <2>1. Len(t) + n \in 1..Len(z) /\ z[Len(t) + n] = w[n] /\ w[n] # Newline
    BY <1>2, <1>3
  <2> QED BY <2>1 DEF Staying, Consonants
<1>8. e \in Staying(z) <=> ~OnlyVowels(w)
  BY <1>3, <1>6 DEF Staying, Newline, Vowel
<1>9. ASSUME NEW n \in 1..Len(v)
      PROVE  n \in Consonants(w) \cup (IF OnlyVowels(w) THEN {} ELSE {Len(w) + 1})
               <=> Len(t) + n \in Staying(z)
  <2>1. CASE n \in 1..Len(w)
    <3>1. n # Len(w) + 1
      BY <1>3, <2>1
    <3> QED BY <1>7, <2>1, <3>1
  <2>2. CASE n = Len(w) + 1
    <3>1. Len(t) + n = e /\ n \notin Consonants(w)
      BY <1>2, <1>3, <2>2 DEF Consonants
    <3> QED BY <1>8, <2>2, <3>1
  <2> QED BY <1>3, <1>4, <2>1, <2>2
<1> QED BY <1>1, <1>9 DEF SamePlaces

\* Filtered, a line is left out if it has only vowels and else stripped of them.
LEMMA FilteredLine ==
  ASSUME NEW t \in Text, Whole(t), NEW w \in Text, \A i \in 1..Len(w) : w[i] # Newline
  PROVE  WithoutVowels(WithLine(t, w)) =
           IF OnlyVowels(w) THEN WithoutVowels(t)
           ELSE Cat(WithoutVowels(t), Cat(Without(w, Vowel), <<Newline>>))
PROOF
<1>1. PICK nl : nl = <<Newline>>
  OBVIOUS
<1>2. PICK v : v = Cat(w, nl)
  OBVIOUS
<1>. DEFINE PV == Consonants(w) \cup (IF OnlyVowels(w) THEN {} ELSE {Len(w) + 1})
            PN == IF OnlyVowels(w) THEN {} ELSE {1}
<1>3. IsSeq(t, Chars) /\ IsSeq(w, Chars) /\ IsSeq(nl, Chars) /\ IsSeq(v, Chars) /\ Len(nl) = 1
  <2>1. nl \in Seq(Chars) /\ Len(nl) = 1
    BY <1>1 DEF Chars
  <2>2. w \o nl \in Seq(Chars)
    BY <2>1, ConcatProperties DEF Text
  <2> QED BY <1>2, <2>1, <2>2 DEF IsSeq, Text, Cat
<1>4. Len(w) \in Nat
  BY TextIs
<1>5. AtPlaces(Cat(t, v), Staying(WithLine(t, w))) = Cat(AtPlaces(t, Staying(t)), AtPlaces(v, PV))
  <2>1. SamePlaces(t, Staying(t), Staying(WithLine(t, w)), 0)
    BY StayingBefore
  <2>2. SamePlaces(v, PV, Staying(WithLine(t, w)), Len(t))
    BY <1>1, <1>2, StayingLine
  <2>. HIDE DEF PV
  <2> QED BY <1>3, <2>1, <2>2, AtPlacesJoined
<1>6. AtPlaces(v, PV) = Cat(AtPlaces(w, Consonants(w)), AtPlaces(nl, PN))
  <2>1. SamePlaces(w, Consonants(w), PV, 0)
    BY <1>4 DEF SamePlaces
  <2>2. SamePlaces(nl, PN, PV, Len(w))
    <3>1. Len(w) + 1 \notin Consonants(w)
      BY <1>4 DEF Consonants
    <3> QED BY <1>3, <1>4, <3>1 DEF SamePlaces
  <2>. HIDE DEF PV, PN
  <2> QED BY <1>2, <1>3, <2>1, <2>2, AtPlacesJoined
<1>7. Cat(t, v) = WithLine(t, w)
  BY <1>1, <1>2 DEF WithLine
<1>8. WithoutVowels(WithLine(t, w)) =
        Cat(WithoutVowels(t), Cat(Without(w, Vowel), AtPlaces(nl, PN)))
  BY <1>5, <1>6, <1>7 DEF WithoutVowels, Without, Staying, Consonants
<1>9. CASE OnlyVowels(w)
  <2>1. AtPlaces(nl, PN) = <<>>
    BY <1>3, <1>9, AtPlacesNone DEF IsSeq
  <2>2. Without(w, Vowel) = <<>>
    <3>1. w \in Seq(Chars) /\ \A n \in 1..Len(w) : n \notin {i \in 1..Len(w) : w[i] # Vowel}
      BY <1>9 DEF OnlyVowels, Text
    <3> QED BY <3>1, AtPlacesNone DEF Without
  <2>3. WithoutVowels(t) \o (<<>> \o <<>>) = WithoutVowels(t)
    <3>1. WithoutVowels(t) \in Seq(Chars)
      BY <1>3, AtPlacesType DEF WithoutVowels, IsSeq
    <3>2. <<>> \o <<>> = <<>>
      BY EmptySeq, ConcatEmptySeq
    <3> QED BY <3>1, <3>2, ConcatEmptySeq
  <2> QED BY <1>8, <1>9, <2>1, <2>2, <2>3 DEF Cat
<1>10. CASE ~OnlyVowels(w)
  <2>1. AtPlaces(nl, PN) = <<Newline>>
    BY <1>1, <1>10, AtPlacesOne DEF Chars
  <2> QED BY <1>8, <1>10, <2>1
<1> QED BY <1>9, <1>10

\* Counted, a line is one newline more.
LEMMA CountedLine ==
  ASSUME NEW t \in Text, NEW w \in Text, \A i \in 1..Len(w) : w[i] # Newline
  PROVE  Cardinality(Newlines(WithLine(t, w))) = Cardinality(Newlines(t)) + 1
PROOF
<1>1. PICK e : e = Len(t) + Len(w) + 1
  OBVIOUS
<1>2. Len(t) \in Nat /\ Len(w) \in Nat
  BY TextIs
<1>3. PICK N : N = Newlines(t)
  OBVIOUS
<1>4. PICK z : z = WithLine(t, w)
  OBVIOUS
<1>5. /\ Len(z) = e /\ z[e] = Newline
      /\ \A i \in 1..Len(t) : z[i] = t[i]
      /\ \A i \in 1..Len(w) : z[Len(t) + i] = w[i]
  BY <1>1, <1>4, WithLineIs
<1>6. IsFiniteSet(N) /\ e \notin N
  <2>1. N \subseteq 1..Len(t)
    BY <1>3 DEF Newlines
  <2>2. IsFiniteSet(1..Len(t))
    BY <1>2, FS_Interval
  <2>3. e \notin 1..Len(t)
    BY <1>1, <1>2
  <2>4. IsFiniteSet(N)
    BY <2>1, <2>2, FS_Subset
  <2> QED BY <2>1, <2>3, <2>4
<1>7. Newlines(z) = N \cup {e}
  <2>1. ASSUME NEW i \in 1..e PROVE z[i] = Newline <=> (i \in N \/ i = e)
    <3>1. CASE i <= Len(t)
      BY <1>1, <1>2, <1>3, <1>5, <3>1 DEF Newlines
    <3>2. CASE i > Len(t) /\ i < e
      <4>1. i - Len(t) \in 1..Len(w) /\ Len(t) + (i - Len(t)) = i
        BY <1>1, <1>2, <3>2
      <4>2. i \notin N
        BY <1>2, <1>3, <3>2 DEF Newlines
      <4> QED BY <1>5, <3>2, <4>1, <4>2
    <3>3. CASE i = e
      BY <1>5, <3>3
    <3> QED BY <1>1, <1>2, <3>1, <3>2, <3>3
  <2>2. N \subseteq 1..e
    BY <1>1, <1>2, <1>3 DEF Newlines
  <2>3. e \in 1..e
    BY <1>1, <1>2
  <2> QED BY <1>5, <2>1, <2>2, <2>3 DEF Newlines
<1>8. Cardinality(N \cup {e}) = Cardinality(N) + 1
  BY <1>6, FS_AddElement
<1> QED BY <1>3, <1>4, <1>7, <1>8

-----------------------------------------------------------------------------
(* PipePrograms: the read of a line.                                       *)

LEMMA LineLenIs ==
  ASSUME NEW s \in Text
  PROVE  /\ LineLen(s) \in 0..Len(s) /\ LineLen(s) <= READ_MAX
         /\ \A i \in 1..LineLen(s) : s[i] # Newline
         /\ LineLen(s) < READ_MAX /\ LineLen(s) < Len(s) => s[LineLen(s) + 1] = Newline
         /\ \E n \in LineLen(s)..Len(s) :
              /\ LineLen(s) = READ_MAX => n >= READ_MAX
              /\ \A i \in 1..n : s[i] # Newline
              /\ n = Len(s) \/ s[n + 1] = Newline
PROOF
<1>1. Len(s) \in Nat /\ READ_MAX \in Nat
  BY TextIs, PipeProgramsAssumption
<1>2. PICK n : n = IF Newlines(s) = {} THEN Len(s) ELSE First(Newlines(s)) - 1
  OBVIOUS
<1>3. n \in 0..Len(s) /\ (\A i \in 1..n : s[i] # Newline) /\ (n = Len(s) \/ s[n + 1] = Newline)
  <2>1. CASE Newlines(s) = {}
    BY <1>1, <1>2, <2>1 DEF Newlines
  <2>2. CASE Newlines(s) # {}
    <3>1. PICK k : k = First(Newlines(s))
      OBVIOUS
    <3>2. k \in Newlines(s) /\ \A j \in Newlines(s) : k <= j
      <4>1. Newlines(s) \in SUBSET Nat
        BY <1>1 DEF Newlines
      <4> QED BY <2>2, <3>1, <4>1, FirstIs
    <3>3. k \in 1..Len(s) /\ s[k] = Newline /\ n = k - 1
      BY <1>2, <2>2, <3>1, <3>2 DEF Newlines
    <3>4. ASSUME NEW i \in 1..n PROVE s[i] # Newline
      <4>1. i \in 1..Len(s) /\ ~(k <= i)
        BY <1>1, <3>3
      <4> QED BY <3>2, <4>1 DEF Newlines
    <3> QED BY <1>1, <3>3, <3>4
  <2> QED BY <2>1, <2>2
<1>4. LineLen(s) = IF n < READ_MAX THEN n ELSE READ_MAX
  BY <1>2 DEF LineLen, First
<1>5. PICK m : m = LineLen(s)
  OBVIOUS
<1>6. m \in 0..Len(s) /\ m <= READ_MAX /\ n \in m..Len(s) /\ (m = READ_MAX => n >= READ_MAX)
      /\ (m < READ_MAX => m = n)
  BY <1>1, <1>3, <1>4, <1>5
<1>7. \A i \in 1..m : s[i] # Newline
  BY <1>1, <1>3, <1>6
<1>8. m < READ_MAX /\ m < Len(s) => s[m + 1] = Newline
  BY <1>1, <1>3, <1>6
<1> QED BY <1>3, <1>5, <1>6, <1>7, <1>8

\* The rest of a text from place p on.
Rest(f, s, p) ==
  /\ p \in 0..Len(f) /\ Len(s) = Len(f) - p
  /\ \A i \in 1..Len(s) : s[i] = f[p + i]
LinesAreShort(f) == \A e \in Ends(f) : Len(LineEndingAt(f, e)) < READ_MAX

\* Between two lines, the next line is shorter than the buffer if all lines are.
LEMMA NoLineFills ==
  ASSUME NEW f \in Text, NEW s \in Text, NEW p, Rest(f, s, p), s # <<>>, LinesAreShort(f),
         Whole(UpTo(f, p))
  PROVE  LineLen(s) < READ_MAX
PROOF
<1>1. Len(f) \in Nat /\ Len(s) \in Nat /\ READ_MAX \in Nat /\ Len(s) # 0
  BY TextIs, PipeProgramsAssumption DEF Text
<1>2. PICK m : m = LineLen(s)
  OBVIOUS
<1>3. m \in 0..Len(s) /\ m <= READ_MAX
  BY <1>2, LineLenIs
<1>. SUFFICES ASSUME m = READ_MAX PROVE FALSE
  BY <1>1, <1>2, <1>3
<1>4. PICK n \in m..Len(s) : /\ n >= READ_MAX
                             /\ \A i \in 1..n : s[i] # Newline
                             /\ n = Len(s) \/ s[n + 1] = Newline
  BY <1>2, LineLenIs
<1>5. PICK e : e = p + n + 1
  OBVIOUS
<1>6. p \in 0..Len(f) /\ Len(s) = Len(f) - p /\ \A i \in 1..Len(s) : s[i] = f[p + i]
  BY DEF Rest
<1>7. e \in 1..(Len(f) + 1) /\ p < e /\ n \in 0..Len(s)
  BY <1>1, <1>3, <1>4, <1>5, <1>6
<1>8. Begins(f, e, p)
  <2>1. p # 0 => p \in Newlines(f)
    <3>1. UpTo(f, p) \in Text /\ Len(UpTo(f, p)) = p /\ \A i \in 1..p : UpTo(f, p)[i] = f[i]
      <4>1. 1 \in 1..(Len(f) + 1) /\ p \in (1 - 1)..Len(f)
        BY <1>1, <1>6
      <4> QED BY <1>1, <1>6, <4>1, TextParts DEF UpTo
    <3>2. p # 0 => UpTo(f, p) # <<>>
      BY <3>1
    <3>3. p # 0 => UpTo(f, p)[p] = Newline
      BY <3>1, <3>2 DEF Whole
    <3> QED BY <1>6, <3>1, <3>3 DEF Newlines
  <2>2. ASSUME NEW k \in (p + 1)..(e - 1) PROVE f[k] # Newline
    <3>1. k - p \in 1..n /\ k - p \in 1..Len(s) /\ p + (k - p) = k
      BY <1>1, <1>5, <1>6, <1>7
    <3> QED BY <1>4, <1>6, <3>1
  <2> QED BY <1>7, <2>1, <2>2 DEF Begins
<1>9. e \in Ends(f)
  <2>1. CASE n = Len(s)
    <3>1. e = Len(f) + 1 /\ Len(f) # 0
      BY <1>1, <1>5, <1>6, <2>1
    <3>2. f[Len(f)] # Newline
      <4>1. Len(s) \in 1..n /\ Len(s) \in 1..Len(s) /\ p + Len(s) = Len(f)
        BY <1>1, <1>6, <2>1
      <4> QED BY <1>4, <1>6, <4>1
    <3>3. f # <<>>
      BY <3>1
    <3> QED BY <3>1, <3>2, <3>3 DEF Ends
  <2>2. CASE n # Len(s)
    <3>1. n + 1 \in 1..Len(s) /\ p + (n + 1) = e /\ e \in 1..Len(f)
      <4>1. n + 1 \in 1..Len(s)
        BY <1>1, <1>7, <2>2
      <4>2. p \in Nat /\ n \in Nat
        BY <1>1, <1>6, <1>7
      <4> QED BY <1>1, <1>5, <1>6, <4>1, <4>2
    <3>2. f[e] = Newline
      BY <1>4, <1>6, <2>2, <3>1
    <3> QED BY <3>1, <3>2 DEF Ends, Newlines
  <2> QED BY <2>1, <2>2
<1>10. Len(LineEndingAt(f, e)) = n
  <2>1. Len(LineEndingAt(f, e)) = e - 1 - p
    BY <1>7, <1>8, VowelLineIs
  <2> QED BY <1>1, <1>5, <1>6, <1>7, <2>1
<1>11. n < READ_MAX
  BY <1>9, <1>10 DEF LinesAreShort
<1> QED BY <1>1, <1>4, <1>7, <1>11

\* A read takes the next line and its newline: what has been read, with the newline
\* the last line may lack, is longer by a line.
LEMMA ReadTakesLine ==
  ASSUME NEW f \in Text, NEW s \in Text, NEW p, Rest(f, s, p), s # <<>>, LinesAreShort(f),
         Whole(UpTo(f, p)), NEW q, q = Len(f) - Len(LeftInPipe(s))
  PROVE  /\ LineRead(s) \in Text /\ \A i \in 1..Len(LineRead(s)) : LineRead(s)[i] # Newline
         /\ LineRead(s) = <<>> => Returned(s) = 1
         /\ LineRead(s) # <<>> => Returned(s) = Len(LineRead(s))
         /\ Terminated(UpTo(f, q)) = WithLine(UpTo(f, p), LineRead(s))
         /\ Whole(UpTo(f, q)) \/ LeftInPipe(s) = <<>>
PROOF
<1>1. Len(f) \in Nat /\ Len(s) \in Nat /\ Len(s) # 0
  BY TextIs DEF Text
<1>2. PICK n : n = LineLen(s)
  OBVIOUS
<1>3. n \in 0..Len(s) /\ n < READ_MAX /\ (\A i \in 1..n : s[i] # Newline)
      /\ (n < Len(s) => s[n + 1] = Newline)
  BY <1>2, LineLenIs, NoLineFills
<1>4. p \in 0..Len(f) /\ Len(s) = Len(f) - p /\ \A i \in 1..Len(s) : s[i] = f[p + i]
  BY DEF Rest
<1>5. PICK w : w = LineRead(s)
  OBVIOUS
<1>6. w \in Text /\ Len(w) = n /\ \A i \in 1..n : w[i] = s[i]
  <2>1. 1 \in 1..(Len(s) + 1) /\ n \in (1 - 1)..Len(s)
    BY <1>1, <1>3
  <2>2. SubSeq(s, 1, n) \in Text /\ Len(SubSeq(s, 1, n)) = n - 1 + 1
        /\ \A i \in 1..(n - 1 + 1) : SubSeq(s, 1, n)[i] = s[1 + i - 1]
    BY <2>1, TextParts
  <2>3. w = SubSeq(s, 1, n)
    BY <1>2, <1>5 DEF LineRead
  <2> QED BY <1>1, <1>3, <2>2, <2>3
<1>7. EndsAtNewline(s) <=> n < Len(s)
  BY <1>2, <1>3 DEF EndsAtNewline
<1>8. PICK r : r = UpTo(f, p)
  OBVIOUS
<1>9. r \in Text /\ Len(r) = p /\ \A i \in 1..p : r[i] = f[i]
  <2>1. p \in 0..Len(f)
    BY <1>4
  <2> QED BY <1>8, <2>1, TextUpTo
<1>10. PICK z : z = WithLine(r, w)
  OBVIOUS
<1>11. /\ z \in Text /\ Len(z) = p + n + 1
       /\ \A i \in 1..p : z[i] = f[i]
       /\ \A i \in 1..n : z[p + i] = f[p + i]
       /\ z[p + n + 1] = Newline
  <2>1. /\ z \in Text /\ Len(z) = p + n + 1
        /\ \A i \in 1..p : z[i] = r[i]
        /\ \A i \in 1..n : z[p + i] = w[i]
        /\ z[p + n + 1] = Newline
    <3>1. r \in Text /\ w \in Text /\ Len(r) = p /\ Len(w) = n
      BY <1>6, <1>9
    <3>2. /\ z \in Text /\ Len(z) = Len(r) + Len(w) + 1
          /\ \A i \in 1..Len(r) : z[i] = r[i]
          /\ \A i \in 1..Len(w) : z[Len(r) + i] = w[i]
          /\ z[Len(r) + Len(w) + 1] = Newline
      <4>1. /\ WithLine(r, w) \in Text /\ Len(WithLine(r, w)) = Len(r) + Len(w) + 1
            /\ \A i \in 1..Len(r) : WithLine(r, w)[i] = r[i]
            /\ \A i \in 1..Len(w) : WithLine(r, w)[Len(r) + i] = w[i]
            /\ WithLine(r, w)[Len(r) + Len(w) + 1] = Newline
        BY <3>1, WithLineIs, Zenon
      <4> QED BY <1>10, <4>1, Zenon
    <3> QED BY <3>1, <3>2
  <2>2. \A i \in 1..n : i \in 1..Len(s)
    BY <1>1, <1>3
  <2> QED BY <1>4, <1>6, <1>9, <2>1, <2>2
<1>12. PICK l : l = LeftInPipe(s)
  OBVIOUS
<1>13. w = <<>> <=> n = 0
  BY <1>6 DEF Text
<1>14. CASE n < Len(s)
  <2>1. Len(l) = Len(s) - n - 1
    <3>1. PICK a : a = n + 2
      OBVIOUS
    <3>2. a \in 1..(Len(s) + 1) /\ Len(s) \in (a - 1)..Len(s)
      BY <1>1, <1>3, <1>14, <3>1
    <3>3. Len(SubSeq(s, a, Len(s))) = Len(s) - a + 1
      BY <3>2, TextParts
    <3>4. l = SubSeq(s, a, Len(s))
      BY <1>2, <1>7, <1>12, <1>14, <3>1 DEF LeftInPipe
    <3> QED BY <1>1, <1>3, <3>1, <3>3, <3>4
  <2>2. q = p + n + 1 /\ q \in 1..Len(f)
    BY <1>1, <1>3, <1>4, <1>12, <1>14, <2>1
  <2>3. PICK u : u = UpTo(f, q)
    OBVIOUS
  <2>4. u \in Text /\ Len(u) = q /\ \A i \in 1..q : u[i] = f[i]
    <3>1. q \in 0..Len(f)
      BY <1>1, <2>2
    <3> QED BY <2>3, <3>1, TextUpTo
  <2>5. f[q] = Newline
    <3>1. n + 1 \in 1..Len(s) /\ p + (n + 1) = q
      BY <1>1, <1>3, <1>4, <1>14, <2>2
    <3> QED BY <1>3, <1>4, <1>14, <3>1
  <2>6. ASSUME NEW i \in 1..q PROVE u[i] = z[i]
    <3>1. CASE i <= p
      BY <1>4, <1>11, <2>4, <3>1
    <3>2. CASE i > p /\ i < q
      <4>1. i - p \in 1..n /\ p + (i - p) = i
        BY <1>3, <1>4, <2>2, <3>2
      <4> QED BY <1>11, <2>4, <4>1
    <3>3. CASE i = q
      BY <1>11, <2>2, <2>4, <2>5, <3>3
    <3> QED BY <1>4, <2>2, <3>1, <3>2, <3>3
  <2>7. u = z
    BY <1>11, <2>2, <2>4, <2>6, TextSame
  <2>8. Whole(u) /\ Terminated(u) = u
    <3>1. u[Len(u)] = Newline
      BY <2>2, <2>4, <2>5
    <3> QED BY <2>4, <3>1, TerminatedIs DEF Whole
  <2>9. Returned(s) = IF n = 0 THEN 1 ELSE n
    BY <1>2, <1>7, <1>14 DEF Returned
  <2> QED BY <1>3, <1>5, <1>6, <1>8, <1>10, <1>13, <2>3, <2>7, <2>8, <2>9
<1>15. CASE n = Len(s)
  <2>1. l = <<>> /\ Len(l) = 0
    <3>1. ~EndsAtNewline(s)
      BY <1>1, <1>7, <1>15
    <3>2. l = SubSeq(s, Len(s) + 1, Len(s))
      BY <1>2, <1>12, <1>15, <3>1 DEF LeftInPipe
    <3>3. SubSeq(s, Len(s) + 1, Len(s)) = <<>>
      BY <1>1, SubSeqEmpty
    <3> QED BY <3>2, <3>3, EmptySeq
  <2>2. q = Len(f) /\ q = p + n
    BY <1>1, <1>4, <1>12, <1>15, <2>1
  <2>3. UpTo(f, q) = f
    BY <2>2, SubSeqFull DEF UpTo, Text
  <2>4. f # <<>> /\ f[Len(f)] # Newline
    <3>1. n \in 1..n /\ n \in 1..Len(s) /\ p + n = Len(f)
      BY <1>1, <1>3, <1>4, <1>15
    <3>2. f[Len(f)] # Newline
      BY <1>3, <1>4, <3>1
    <3>3. Len(f) # 0
      BY <1>1, <1>4
    <3> QED BY <3>2, <3>3
  <2>5. Terminated(f) = Append(f, Newline)
    BY <2>4, TerminatedIs DEF Whole
  <2>6. PICK a : a = Append(f, Newline)
    OBVIOUS
  <2>7. a \in Text /\ Len(a) = Len(f) + 1 /\ (\A i \in 1..Len(f) : a[i] = f[i]) /\ a[Len(f) + 1] = Newline
    <3>1. f \in Seq(Chars) /\ Newline \in Chars
      BY DEF Text, Chars
    <3> QED BY <2>6, <3>1, AppendProperties DEF Text
  <2>8. ASSUME NEW i \in 1..Len(a) PROVE a[i] = z[i]
    <3>1. CASE i <= p
      BY <1>1, <1>4, <1>11, <2>7, <3>1
    <3>2. CASE i > p /\ i <= Len(f)
      <4>1. i - p \in 1..n /\ p + (i - p) = i /\ i \in 1..Len(f)
        BY <1>1, <1>3, <1>4, <2>2, <2>7, <3>2
      <4> QED BY <1>11, <2>7, <4>1
    <3>3. CASE i = Len(f) + 1
      <4>1. i = p + n + 1
        BY <2>2, <3>3
      <4>2. a[i] = Newline
        BY <2>7, <3>3
      <4>3. z[i] = Newline
        BY <1>11, <4>1
      <4> QED BY <4>2, <4>3
    <3>4. Len(a) = Len(f) + 1
      BY <2>7
    <3>5. i \in 1..(Len(f) + 1)
      BY <3>4
    <3>6. i <= p \/ (i > p /\ i <= Len(f)) \/ i = Len(f) + 1
      <4>1. p \in Nat
        BY <1>1, <1>4
      <4> QED BY <1>1, <3>5, <4>1
    <3> QED BY <3>1, <3>2, <3>3, <3>6
  <2>9. a = z
    <3>1. Len(a) = Len(z)
      BY <1>11, <2>2, <2>7
    <3> QED BY <1>11, <2>7, <2>8, <3>1, TextSame
  <2>10. Returned(s) = n /\ n # 0
    <3>1. ~EndsAtNewline(s)
      BY <1>1, <1>7, <1>15
    <3> QED BY <1>1, <1>2, <1>15, <3>1 DEF Returned
  <2> QED BY <1>3, <1>5, <1>6, <1>8, <1>10, <1>12, <1>13, <2>1, <2>3, <2>5, <2>6, <2>9, <2>10
<1> QED BY <1>1, <1>3, <1>14, <1>15

\* A read of nothing is the end of the stream.
LEMMA ReadEnds ==
  ASSUME NEW s \in Text
  PROVE  Returned(s) = 0 <=> s = <<>>
PROOF
<1>1. Len(s) \in Nat /\ READ_MAX \in Nat \ {0} /\ LineLen(s) \in 0..Len(s)
      /\ (s = <<>> <=> Len(s) = 0)
  <2>1. s = <<>> <=> Len(s) = 0
    BY DEF Text
  <2> QED BY <2>1, TextIs, LineLenIs, PipeProgramsAssumption
<1>2. CASE Len(s) = 0
  <2>1. LineLen(s) = 0 /\ ~EndsAtNewline(s)
    BY <1>1, <1>2 DEF EndsAtNewline
  <2> QED BY <1>1, <1>2, <2>1 DEF Returned
<1>3. CASE Len(s) # 0
  <2>1. LineLen(s) = 0 => EndsAtNewline(s)
    BY <1>1, <1>3 DEF EndsAtNewline
  <2> QED BY <1>1, <1>3, <2>1 DEF Returned
<1> QED BY <1>2, <1>3

LEMMA RestLeft ==
  ASSUME NEW f \in Text, NEW s \in Text, NEW p, Rest(f, s, p), NEW l, l = LeftInPipe(s)
  PROVE  l \in Text /\ Rest(f, l, Len(f) - Len(l))
PROOF
<1>1. Len(f) \in Nat /\ Len(s) \in Nat /\ LineLen(s) \in 0..Len(s)
  BY TextIs, LineLenIs
<1>2. PICK a : a = LineLen(s) + (IF EndsAtNewline(s) THEN 2 ELSE 1)
  OBVIOUS
<1>3. a \in 1..(Len(s) + 1) /\ Len(s) \in (a - 1)..Len(s)
  BY <1>1, <1>2 DEF EndsAtNewline
<1>4. l = SubSeq(s, a, Len(s))
  BY <1>2 DEF LeftInPipe
<1>5. l \in Text /\ Len(l) = Len(s) - a + 1 /\ \A i \in 1..(Len(s) - a + 1) : l[i] = s[a + i - 1]
  BY <1>3, <1>4, TextParts
<1>6. p \in 0..Len(f) /\ Len(s) = Len(f) - p /\ \A i \in 1..Len(s) : s[i] = f[p + i]
  BY DEF Rest
<1>7. PICK q : q = Len(f) - Len(l)
  OBVIOUS
<1>8. q = p + a - 1 /\ q \in 0..Len(f) /\ Len(l) = Len(f) - q
  <2>1. a \in Nat /\ p \in Nat /\ a <= Len(s) + 1 /\ 1 <= a /\ p <= Len(f)
    BY <1>1, <1>3, <1>6
  <2>2. Len(l) = (Len(f) - p) - a + 1 /\ q = Len(f) - ((Len(f) - p) - a + 1)
    BY <1>5, <1>6, <1>7
  <2>3. q = p + a - 1 /\ Len(l) = Len(f) - q
    BY <1>1, <2>1, <2>2
  <2>4. q \in 0..Len(f)
    BY <1>1, <1>6, <2>1, <2>3
  <2> QED BY <2>3, <2>4
<1>9. ASSUME NEW i \in 1..Len(l) PROVE l[i] = f[q + i]
  <2>1. a + i - 1 \in 1..Len(s) /\ p + (a + i - 1) = q + i
    BY <1>1, <1>3, <1>5, <1>6, <1>8
  <2>2. l[i] = s[a + i - 1]
    BY <1>5
  <2> QED BY <1>6, <2>1, <2>2
<1> QED BY <1>5, <1>7, <1>8, <1>9 DEF Rest

-----------------------------------------------------------------------------
(* PipePrograms: the inductive invariant.                                  *)

\* What has been read of the stream, with the newline its last line may lack.
Position == Len(fed) - Len(stream)
Taken    == UpTo(fed, Position)

ProgShapes ==
  /\ program \in {"cat", "wc", "filter"} /\ running \in BOOLEAN
  /\ fed \in Text /\ stream \in Text /\ Rest(fed, stream, Position)
\* The results are those of what has been read, and reads stop between lines.
ProgFollows ==
  running /\ LinesAreShort(fed) =>
    /\ Whole(Taken) \/ stream = <<>>
    /\ program = "cat" => output = Terminated(Taken)
    /\ program = "wc" => counted = Cardinality(Newlines(Terminated(Taken))) /\ output = <<>>
    /\ program = "filter" => output = WithoutVowels(Terminated(Taken))
ProgInv == ProgShapes /\ ProgFollows /\ PipeResults

LEMMA ProgStart == ProgInit => ProgInv
PROOF
<1>. SUFFICES ASSUME ProgInit PROVE ProgInv
  OBVIOUS
<1>1. fed \in Text /\ stream = fed
  <2>1. PICK n \in 0..MaxStream : fed \in [1..n -> Chars]
    BY DEF ProgInit, Streams, Chars
  <2>2. n \in Nat
    BY PipeProgramsAssumption
  <2> QED BY <2>1, <2>2, SeqDef DEF Text, ProgInit
<1>2. Len(fed) \in Nat
  BY <1>1, TextIs
<1>3. Position = 0 /\ Rest(fed, stream, Position)
  BY <1>1, <1>2 DEF Position, Rest
<1>4. Taken = <<>>
  BY <1>3, SubSeqEmpty DEF Taken, UpTo
<1>5. <<>> \in Text /\ Whole(<<>>) /\ Terminated(<<>>) = <<>> /\ Newlines(<<>>) = {}
  <2>1. <<>> \in Text /\ Len(<<>>) = 0
    BY EmptySeq DEF Text
  <2> QED BY <2>1, TerminatedIs DEF Whole, Newlines
<1>6. WithoutVowels(<<>>) = <<>>
  <2>1. <<>> \in Seq(Chars) /\ \A n \in 1..Len(<<>>) : n \notin {}
    BY EmptySeq
  <2>2. AtPlaces(<<>>, Staying(<<>>)) = <<>>
    <3>1. PICK z : z = <<>>
      OBVIOUS
    <3>2. z \in Seq(Chars) /\ Len(z) = 0
      BY <3>1, EmptySeq
    <3>3. \A n \in 1..Len(z) : n \notin Staying(z)
      BY <3>2
    <3>4. AtPlaces(z, Staying(z)) = <<>>
      BY <3>2, <3>3, AtPlacesNone
    <3> QED BY <3>1, <3>4
  <2> QED BY <2>2 DEF WithoutVowels, Staying
<1>7. Cardinality({}) = 0
  BY FS_EmptySet
<1>8. ProgShapes
  BY <1>1, <1>3 DEF ProgInit, ProgShapes
<1>9. ProgFollows
  BY <1>4, <1>5, <1>6, <1>7 DEF ProgInit, ProgFollows
<1>10. PipeResults
  BY DEF ProgInit, PipeResults
<1> QED BY <1>8, <1>9, <1>10 DEF ProgInv

\* What every turn does to the stream.
LEMMA TurnTakes ==
  ASSUME ProgInv, NEW name, Turn(name)
  PROVE  /\ ProgShapes' /\ running' /\ fed' = fed /\ program' = program /\ program = name
         /\ LinesAreShort(fed) =>
              /\ Whole(Taken) /\ Terminated(Taken) = Taken /\ Taken \in Text
              /\ LineRead(stream) \in Text
              /\ \A i \in 1..Len(LineRead(stream)) : LineRead(stream)[i] # Newline
              /\ LineRead(stream) = <<>> => Returned(stream) = 1
              /\ LineRead(stream) # <<>> => Returned(stream) = Len(LineRead(stream))
              /\ Terminated(Taken') = WithLine(Taken, LineRead(stream))
              /\ Whole(Taken') \/ stream' = <<>>
PROOF
<1>. USE DEF ProgInv
<1>1. /\ running /\ program = name /\ Returned(stream) # 0 /\ stream' = LeftInPipe(stream)
      /\ program' = program /\ running' = running /\ fed' = fed
  BY DEF Turn
<1>2. fed \in Text /\ stream \in Text /\ Rest(fed, stream, Position)
  BY DEF ProgShapes
<1>3. stream # <<>>
  BY <1>1, <1>2, ReadEnds
<1>4. LeftInPipe(stream) \in Text
      /\ Rest(fed, LeftInPipe(stream), Len(fed) - Len(LeftInPipe(stream)))
  BY <1>2, RestLeft
<1>5. Position' = Len(fed) - Len(LeftInPipe(stream))
  BY <1>1 DEF Position
<1>6. ProgShapes'
  BY <1>1, <1>2, <1>4, <1>5 DEF ProgShapes
<1>7. ASSUME LinesAreShort(fed)
      PROVE  /\ Whole(Taken) /\ Terminated(Taken) = Taken /\ Taken \in Text
             /\ LineRead(stream) \in Text
             /\ \A i \in 1..Len(LineRead(stream)) : LineRead(stream)[i] # Newline
             /\ LineRead(stream) = <<>> => Returned(stream) = 1
             /\ LineRead(stream) # <<>> => Returned(stream) = Len(LineRead(stream))
             /\ Terminated(Taken') = WithLine(Taken, LineRead(stream))
             /\ Whole(Taken') \/ stream' = <<>>
  <2>1. Whole(Taken)
    BY <1>1, <1>3, <1>7 DEF ProgFollows
  <2>2. Taken \in Text
    <3>1. Len(fed) \in Nat /\ Position \in 0..Len(fed)
      BY <1>2, TextIs DEF Rest
    <3>2. 1 \in 1..(Len(fed) + 1) /\ Position \in (1 - 1)..Len(fed)
      BY <3>1
    <3> QED BY <1>2, <3>2, TextParts DEF Taken, UpTo
  <2>3. Taken' = UpTo(fed, Len(fed) - Len(LeftInPipe(stream)))
    BY <1>1, <1>5 DEF Taken
  <2>4. Terminated(Taken) = Taken
    BY <2>1, <2>2, TerminatedIs
  <2>5. PICK q : q = Len(fed) - Len(LeftInPipe(stream))
    OBVIOUS
  <2>6. Whole(UpTo(fed, Position))
    BY <2>1 DEF Taken
  <2>7. /\ LineRead(stream) \in Text
        /\ \A i \in 1..Len(LineRead(stream)) : LineRead(stream)[i] # Newline
        /\ LineRead(stream) = <<>> => Returned(stream) = 1
        /\ LineRead(stream) # <<>> => Returned(stream) = Len(LineRead(stream))
        /\ Terminated(UpTo(fed, q)) = WithLine(UpTo(fed, Position), LineRead(stream))
        /\ Whole(UpTo(fed, q)) \/ LeftInPipe(stream) = <<>>
    BY <1>2, <1>3, <1>7, <2>5, <2>6, ReadTakesLine
  <2>8. Taken' = UpTo(fed, q)
    BY <2>3, <2>5
  <2> QED BY <1>1, <2>1, <2>2, <2>4, <2>7, <2>8 DEF Taken
<1> QED BY <1>1, <1>6, <1>7

LEMMA CmdCatKeeps == ProgInv /\ CmdCat => ProgInv'
PROOF
<1>. SUFFICES ASSUME ProgInv, CmdCat PROVE ProgInv'
  OBVIOUS
<1>1. Turn("cat") /\ output' = output \o LineRead(stream) \o <<Newline>>
  BY DEF CmdCat
<1>2. ProgShapes' /\ running' /\ fed' = fed /\ program' = "cat"
  BY <1>1, TurnTakes
<1>3. ProgFollows'
  <2>. SUFFICES ASSUME LinesAreShort(fed)
                PROVE  (Whole(Taken') \/ stream' = <<>>) /\ output' = Terminated(Taken')
    BY <1>2 DEF ProgFollows
  <2>1. /\ Terminated(Taken) = Taken /\ Taken \in Text /\ LineRead(stream) \in Text
        /\ Terminated(Taken') = WithLine(Taken, LineRead(stream))
        /\ Whole(Taken') \/ stream' = <<>>
    BY <1>1, TurnTakes
  <2>2. output = Taken
    <3>1. running /\ program = "cat"
      BY <1>1 DEF Turn
    <3> QED BY <2>1, <3>1 DEF ProgInv, ProgFollows
  <2>3. (Taken \o LineRead(stream)) \o <<Newline>> = Taken \o (LineRead(stream) \o <<Newline>>)
    <3>1. Taken \in Seq(Chars) /\ LineRead(stream) \in Seq(Chars) /\ <<Newline>> \in Seq(Chars)
      BY <2>1 DEF Text, Chars
    <3> QED BY <3>1, ConcatAssociative
  <2> QED BY <1>1, <2>1, <2>2, <2>3 DEF WithLine, Cat
<1>4. PipeResults'
  BY <1>2 DEF PipeResults
<1> QED BY <1>2, <1>3, <1>4 DEF ProgInv

LEMMA CmdWcKeeps == ProgInv /\ CmdWc => ProgInv'
PROOF
<1>. SUFFICES ASSUME ProgInv, CmdWc PROVE ProgInv'
  OBVIOUS
<1>1. Turn("wc") /\ counted' = counted + 1 /\ output' = output
  BY DEF CmdWc
<1>2. ProgShapes' /\ running' /\ fed' = fed /\ program' = "wc"
  BY <1>1, TurnTakes
<1>3. ProgFollows'
  <2>. SUFFICES ASSUME LinesAreShort(fed)
                PROVE  /\ Whole(Taken') \/ stream' = <<>>
                       /\ counted' = Cardinality(Newlines(Terminated(Taken')))
                       /\ output' = <<>>
    BY <1>2 DEF ProgFollows
  <2>1. /\ Terminated(Taken) = Taken /\ Taken \in Text /\ LineRead(stream) \in Text
        /\ \A i \in 1..Len(LineRead(stream)) : LineRead(stream)[i] # Newline
        /\ Terminated(Taken') = WithLine(Taken, LineRead(stream))
        /\ Whole(Taken') \/ stream' = <<>>
    BY <1>1, TurnTakes
  <2>2. counted = Cardinality(Newlines(Taken)) /\ output = <<>>
    <3>1. running /\ program = "wc"
      BY <1>1 DEF Turn
    <3> QED BY <2>1, <3>1 DEF ProgInv, ProgFollows
  <2>3. Cardinality(Newlines(WithLine(Taken, LineRead(stream)))) = Cardinality(Newlines(Taken)) + 1
    BY <2>1, CountedLine
  <2> QED BY <1>1, <2>1, <2>2, <2>3
<1>4. PipeResults'
  BY <1>2 DEF PipeResults
<1> QED BY <1>2, <1>3, <1>4 DEF ProgInv

\* What filter copies of a line, an empty one coming as a NUL.
LEMMA CopiedIs ==
  ASSUME NEW s \in Text, LineRead(s) \in Text,
         LineRead(s) = <<>> => Returned(s) = 1,
         LineRead(s) # <<>> => Returned(s) = Len(LineRead(s))
  PROVE  /\ Copied(s) = <<>> <=> OnlyVowels(LineRead(s))
         /\ ~OnlyVowels(LineRead(s)) => Without(Copied(s), Nul) = Without(LineRead(s), Vowel)
PROOF
<1>1. PICK w : w = LineRead(s)
  OBVIOUS
<1>2. w \in Text /\ w \in Seq(Chars) /\ Len(w) \in Nat /\ (w = <<>> <=> Len(w) = 0)
      /\ \A i \in 1..Len(w) : w[i] \in Chars
  BY <1>1 DEF Text
<1>3. CASE w = <<>>
  <2>1. PICK n : n = <<Nul>>
    OBVIOUS
  <2>2. n \in Seq({Nul}) /\ Len(n) = 1 /\ n[1] = Nul
    <3>1. <<Nul>> \in Seq({Nul}) /\ Len(<<Nul>>) = 1 /\ (<<Nul>>)[1] = Nul
      OBVIOUS
    <3> QED BY <2>1, <3>1
  <2>3. SubSeq(Append(w, Nul), 1, 1) = n
    <3>1. Append(w, Nul) = n
      BY <1>3, <2>1
    <3>2. SubSeq(n, 1, Len(n)) = n
      BY <2>2, SubSeqFull
    <3> QED BY <2>2, <3>1, <3>2
  <2>4. Copied(s) = n
    <3>1. Copied(s) = Without(n, Vowel)
      BY <1>1, <1>3, <2>3 DEF Copied
    <3>2. \A i \in 1..Len(n) : i \in {j \in 1..Len(n) : n[j] # Vowel}
      BY <2>2 DEF Nul, Vowel
    <3>3. AtPlaces(n, {j \in 1..Len(n) : n[j] # Vowel}) = n
      BY <2>2, <3>2, AtPlacesAll
    <3> QED BY <3>1, <3>3 DEF Without
  <2>5. n # <<>> /\ ~OnlyVowels(w)
    <3>1. n # <<>>
      BY <2>2
    <3>2. ~OnlyVowels(w)
      BY <1>3 DEF OnlyVowels
    <3> QED BY <3>1, <3>2
  <2>6. Without(n, Nul) = <<>>
    <3>1. \A i \in 1..Len(n) : i \notin {j \in 1..Len(n) : n[j] # Nul}
      BY <2>2
    <3>2. AtPlaces(n, {j \in 1..Len(n) : n[j] # Nul}) = <<>>
      BY <2>2, <3>1, AtPlacesNone
    <3> QED BY <3>2 DEF Without
  <2>7. Without(w, Vowel) = <<>>
    <3>1. \A i \in 1..Len(w) : i \notin {j \in 1..Len(w) : w[j] # Vowel}
      BY <1>2, <1>3
    <3>2. AtPlaces(w, {j \in 1..Len(w) : w[j] # Vowel}) = <<>>
      BY <1>2, <3>1, AtPlacesNone
    <3> QED BY <3>2 DEF Without
  <2> QED BY <1>1, <2>4, <2>5, <2>6, <2>7
<1>4. CASE w # <<>>
  <2>1. SubSeq(Append(w, Nul), 1, Len(w)) = w
    <3>1. PICK S : S = Chars \cup {Nul}
      OBVIOUS
    <3>2. w \in Seq(S) /\ <<Nul>> \in Seq(S) /\ Nul \in S
      <4>1. Chars \subseteq S /\ Nul \in S
        BY <3>1
      <4>2. w \in Seq(S)
        BY <1>2, <4>1, SeqMonotonic
      <4> QED BY <4>1, <4>2
    <3>3. Append(w, Nul) = w \o <<Nul>>
      BY <3>2, AppendIsConcat
    <3>4. 1 \in 1..Len(w) /\ Len(w) \in 1..Len(w)
      BY <1>2, <1>4
    <3>5. SubSeq(w \o <<Nul>>, 1, Len(w)) = SubSeq(w, 1, Len(w))
      BY <3>2, <3>4, SubSeqOfConcat1
    <3>6. SubSeq(w, 1, Len(w)) = w
      BY <1>2, SubSeqFull
    <3> QED BY <3>3, <3>5, <3>6
  <2>2. Copied(s) = Without(w, Vowel)
    BY <1>1, <1>4, <2>1 DEF Copied
  <2>3. PICK P : P = {j \in 1..Len(w) : w[j] # Vowel}
    OBVIOUS
  <2>4. PICK c : c = AtPlaces(w, P)
    OBVIOUS
  <2>5. Copied(s) = c /\ Without(w, Vowel) = c
    BY <2>2, <2>3, <2>4 DEF Without
  <2>6. OnlyVowels(w) => c = <<>>
    <3>1. OnlyVowels(w) => \A i \in 1..Len(w) : i \notin P
      BY <2>3 DEF OnlyVowels
    <3> QED BY <1>2, <2>4, <3>1, AtPlacesNone
  <2>7. ~OnlyVowels(w) => c # <<>>
    <3>1. ~OnlyVowels(w) => \E i \in 1..Len(w) : i \in P
      BY <1>4, <2>3 DEF OnlyVowels
    <3> QED BY <1>2, <2>4, <3>1, AtPlacesSome
  <2>8. c \in Seq(Chars)
    BY <1>2, <2>4, AtPlacesType
  <2>9. Without(c, Nul) = c
    <3>1. \A i \in 1..Len(c) : i \in {j \in 1..Len(c) : c[j] # Nul}
      <4>1. \A i \in 1..Len(c) : c[i] \in Chars
        BY <2>8, ElementOfSeq
      <4> QED BY <4>1 DEF Chars, Nul, Vowel, Other, Newline
    <3>2. AtPlaces(c, {j \in 1..Len(c) : c[j] # Nul}) = c
      BY <2>8, <3>1, AtPlacesAll
    <3> QED BY <3>2 DEF Without
  <2> QED BY <1>1, <2>5, <2>6, <2>7, <2>9
<1> QED BY <1>3, <1>4

LEMMA CmdFilterKeeps == ProgInv /\ CmdFilter => ProgInv'
PROOF
<1>. SUFFICES ASSUME ProgInv, CmdFilter PROVE ProgInv'
  OBVIOUS
<1>1. Turn("filter") /\ output' = IF Copied(stream) = <<>> THEN output
                                  ELSE output \o Without(Copied(stream), Nul) \o <<Newline>>
  BY DEF CmdFilter
<1>2. ProgShapes' /\ running' /\ fed' = fed /\ program' = "filter"
  BY <1>1, TurnTakes
<1>3. ProgFollows'
  <2>. SUFFICES ASSUME LinesAreShort(fed)
                PROVE  /\ Whole(Taken') \/ stream' = <<>>
                       /\ output' = WithoutVowels(Terminated(Taken'))
    BY <1>2 DEF ProgFollows
  <2>1. /\ Whole(Taken) /\ Terminated(Taken) = Taken /\ Taken \in Text
        /\ LineRead(stream) \in Text
        /\ \A i \in 1..Len(LineRead(stream)) : LineRead(stream)[i] # Newline
        /\ LineRead(stream) = <<>> => Returned(stream) = 1
        /\ LineRead(stream) # <<>> => Returned(stream) = Len(LineRead(stream))
        /\ Terminated(Taken') = WithLine(Taken, LineRead(stream))
        /\ Whole(Taken') \/ stream' = <<>>
    BY <1>1, TurnTakes
  <2>2. output = WithoutVowels(Taken)
    <3>1. running /\ program = "filter"
      BY <1>1 DEF Turn
    <3> QED BY <2>1, <3>1 DEF ProgInv, ProgFollows
  <2>3. WithoutVowels(WithLine(Taken, LineRead(stream))) =
          IF OnlyVowels(LineRead(stream)) THEN WithoutVowels(Taken)
          ELSE Cat(WithoutVowels(Taken), Cat(Without(LineRead(stream), Vowel), <<Newline>>))
    BY <2>1, FilteredLine
  <2>4. /\ Copied(stream) = <<>> <=> OnlyVowels(LineRead(stream))
        /\ ~OnlyVowels(LineRead(stream)) =>
             Without(Copied(stream), Nul) = Without(LineRead(stream), Vowel)
    <3>1. stream \in Text
      BY DEF ProgInv, ProgShapes
    <3> QED BY <2>1, <3>1, CopiedIs
  <2>5. PICK a : a = WithoutVowels(Taken)
    OBVIOUS
  <2>6. PICK b : b = Without(LineRead(stream), Vowel)
    OBVIOUS
  <2>7. (a \o b) \o <<Newline>> = a \o (b \o <<Newline>>)
    <3>1. a \in Seq(Chars) /\ b \in Seq(Chars) /\ <<Newline>> \in Seq(Chars)
      BY <2>1, <2>5, <2>6, AtPlacesType DEF Text, Chars, WithoutVowels, Without
    <3> QED BY <3>1, ConcatAssociative
  <2>8. CASE OnlyVowels(LineRead(stream))
    BY <1>1, <2>1, <2>2, <2>3, <2>4, <2>8
  <2>9. CASE ~OnlyVowels(LineRead(stream))
    <3>1. output' = (a \o b) \o <<Newline>>
      BY <1>1, <2>2, <2>4, <2>5, <2>6, <2>9
    <3>2. WithoutVowels(Terminated(Taken')) = a \o (b \o <<Newline>>)
      BY <2>1, <2>3, <2>5, <2>6, <2>9 DEF Cat
    <3> QED BY <2>1, <2>7, <3>1, <3>2
  <2> QED BY <2>8, <2>9
<1>4. PipeResults'
  BY <1>2 DEF PipeResults
<1> QED BY <1>2, <1>3, <1>4 DEF ProgInv

LEMMA ProgramEndsKeeps == ProgInv /\ ProgramEnds => ProgInv'
PROOF
<1>. SUFFICES ASSUME ProgInv, ProgramEnds PROVE ProgInv'
  OBVIOUS
<1>1. /\ running /\ Returned(stream) = 0 /\ running' = FALSE
      /\ output' = IF program = "wc" THEN Append(output, counted) ELSE output
      /\ program' = program /\ stream' = stream /\ fed' = fed
  BY DEF ProgramEnds
<1>2. program \in {"cat", "wc", "filter"} /\ fed \in Text /\ stream \in Text
  BY DEF ProgInv, ProgShapes
<1>3. ProgShapes'
  BY <1>1 DEF ProgInv, ProgShapes, Position
<1>4. ProgFollows'
  BY <1>1 DEF ProgFollows
<1>5. stream = <<>>
  BY <1>1, <1>2, ReadEnds
<1>6. Taken = fed
  <2>1. Len(stream) = 0 /\ Len(fed) \in Nat
    BY <1>2, <1>5, TextIs, EmptySeq
  <2>2. Position = Len(fed)
    BY <2>1 DEF Position
  <2>3. SubSeq(fed, 1, Len(fed)) = fed
    BY <1>2, SubSeqFull DEF Text
  <2> QED BY <2>2, <2>3 DEF Taken, UpTo
<1>7. PipeResults'
  <2>. SUFFICES ASSUME LinesAreShort(fed)
                PROVE  output' = CASE program = "cat"    -> Terminated(fed)
                                   [] program = "wc"     -> <<Cardinality(Ends(fed))>>
                                   [] program = "filter" -> WithoutVowels(Terminated(fed))
    BY <1>1 DEF PipeResults, LinesAreShort
  <2>1. CASE program = "cat"
    BY <1>1, <1>6, <2>1 DEF ProgInv, ProgFollows
  <2>2. CASE program = "wc"
    <3>1. counted = Cardinality(Newlines(Terminated(fed))) /\ output = <<>>
      BY <1>1, <1>6, <2>2 DEF ProgInv, ProgFollows
    <3>2. Newlines(Terminated(fed)) = Ends(fed)
      <4>1. CASE Whole(fed)
        BY <1>2, <4>1, TerminatedIs
      <4>2. CASE ~Whole(fed)
        <5>1. Terminated(fed) = Append(fed, Newline) /\ Ends(fed) = Newlines(fed) \cup {Len(fed) + 1}
          BY <1>2, <4>2, TerminatedIs
        <5>2. PICK a : a = Append(fed, Newline)
          OBVIOUS
        <5>3. /\ Len(fed) \in Nat /\ Len(a) = Len(fed) + 1 /\ a[Len(fed) + 1] = Newline
              /\ \A i \in 1..Len(fed) : a[i] = fed[i]
          <6>1. fed \in Seq(Chars) /\ Newline \in Chars
            BY <1>2 DEF Text, Chars
          <6> QED BY <5>2, <6>1, AppendProperties, LenProperties
        <5>4. Newlines(a) = Newlines(fed) \cup {Len(fed) + 1}
          BY <5>3 DEF Newlines
        <5> QED BY <5>1, <5>2, <5>4
      <4> QED BY <4>1, <4>2
    <3>3. Append(<<>>, counted) = <<counted>>
      OBVIOUS
    <3> QED BY <1>1, <2>2, <3>1, <3>2, <3>3
  <2>3. CASE program = "filter"
    BY <1>1, <1>6, <2>3 DEF ProgInv, ProgFollows
  <2> QED BY <1>2, <2>1, <2>2, <2>3
<1> QED BY <1>3, <1>4, <1>7 DEF ProgInv

\* What cat, wc and filter write is right for streams of any length, with lines
\* shorter than the buffer of read (pipe_cmds.c, syscall_read).
THEOREM PipesGiveResults == ProgSpec => []PipeResults
PROOF
<1>1. ProgInv /\ [ProgNext]_progvars => ProgInv'
  <2>. SUFFICES ASSUME ProgInv, [ProgNext]_progvars PROVE ProgInv'
    OBVIOUS
  <2>1. CASE ProgNext
    BY <2>1, CmdCatKeeps, CmdFilterKeeps, CmdWcKeeps, ProgramEndsKeeps DEF ProgNext
  <2>2. CASE UNCHANGED progvars
    BY <2>2 DEF progvars, ProgInv, ProgShapes, ProgFollows, PipeResults, Position, Taken
  <2> QED BY <2>1, <2>2
<1>2. ProgInv => PipeResults
  BY DEF ProgInv
<1> QED BY <1>1, <1>2, ProgStart, PTL DEF ProgSpec
=============================================================================
