------------------------------- MODULE CommandLine -----------------------------
(***************************************************************************)
(* What the shell makes of a line (Userland/shell/shell.c) and how the     *)
(* child it creates finds the command (Userland/shell/lib/commandRead.c).  *)
(* A character is its place in the alphabet; case, tabs and the cuts of    *)
(* names to 31 characters are left out.  The user types a line character   *)
(* by character, so that every line up to a length is tried.               *)
(***************************************************************************)
EXTENDS Integers, Sequences, FiniteSets, Subsequences

CONSTANTS
  AlphabetLetters,   \* 2..last
  CR_MAXARGS,        \* entries of argv
  MaxLine            \* bound of the model: characters of a line

Blank     == 0
Ampersand == 1
Bar       == 100
ASSUME CommandLineAssumption ==
  /\ AlphabetLetters \subseteq 2..99 /\ CR_MAXARGS \in Nat \ {0} /\ MaxLine \in Nat

VARIABLE line
LineInit == line = <<>>
TypeChar(c) == Len(line) < MaxLine /\ line' = Append(line, c)
LineNext == \E c \in AlphabetLetters \cup {Blank, Ampersand, Bar} : TypeChar(c)
LineSpec == LineInit /\ [][LineNext]_line

-----------------------------------------------------------------------------
(* shell_dispatch and run_piped.                                           *)

From(s, i) == SubSeq(s, i, Len(s))
UpTo(s, i) == SubSeq(s, 1, i)
Solid(s) == {i \in 1..Len(s) : s[i] # Blank}
First(S) == CHOOSE i \in S : \A j \in S : i <= j
Final(S) == CHOOSE i \in S : \A j \in S : j <= i

TrimRight(s) == IF Solid(s) = {} THEN <<>> ELSE UpTo(s, Final(Solid(s)))
TrimLeft(s)  == IF Solid(s) = {} THEN <<>> ELSE From(s, First(Solid(s)))

EndsInBackground(s) == s # <<>> /\ s[Len(s)] = Ampersand
\* Mutant: the blanks before the ampersand stay, so a line of blanks is run.
CommandPartUntrimmed(s) == IF EndsInBackground(s) THEN UpTo(s, Len(s) - 1) ELSE s
CommandPart(s) == IF EndsInBackground(s) THEN TrimRight(UpTo(s, Len(s) - 1)) ELSE s

\* How the line is run and the command of each process.
ShellDispatch(s) ==
  LET c    == CommandPart(s)
      Bars == {i \in 1..Len(c) : c[i] = Bar}
      cmd1 == TrimRight(UpTo(c, First(Bars) - 1))
      cmd2 == TrimLeft(From(c, First(Bars) + 1))
  IN
  IF c = <<>> THEN [how |-> "nothing", cmds |-> <<>>]
  ELSE IF Bars # {} THEN
    IF cmd1 = <<>> \/ cmd2 = <<>> THEN [how |-> "malformed", cmds |-> <<>>]
                                  ELSE [how |-> "pipe", cmds |-> <<cmd1, cmd2>>]
  ELSE [how |-> IF EndsInBackground(s) THEN "background" ELSE "foreground", cmds |-> <<c>>]

-----------------------------------------------------------------------------
(* cr_dispatch_exact.                                                      *)

\* simple_tokenize, from position i with n entries of argv filled.
WordEnd(s, i) ==
  First({j \in i..(Len(s) + 1) : j = Len(s) + 1 \/ s[j] = Blank})
Tokenized(s) ==
  LET rest[r \in (1..(Len(s) + 1)) \X (0..CR_MAXARGS)] ==
        LET i == r[1]  n == r[2]
            Starts == {j \in Solid(s) : j >= i}
            j == First(Starts)
        IN
        IF Starts = {} \/ n >= CR_MAXARGS - 1 THEN <<>>
        ELSE <<SubSeq(s, j, WordEnd(s, j) - 1)>> \o rest[<<WordEnd(s, j), n + 1>>]
  IN rest[<<1, 0>>]

FirstToken(s) ==
  IF Solid(s) = {} THEN <<>>
  ELSE SubSeq(s, First(Solid(s)), WordEnd(s, First(Solid(s))) - 1)

\* ci_cmp_prefix: the sign of a name compared with a token as far as it goes.
CmpPrefix(name, tok) ==
  LET Differ == {i \in 1..Len(tok) : i > Len(name) \/ name[i] # tok[i]}
      i      == First(Differ)
  IN IF Differ = {} THEN 0 ELSE IF i > Len(name) \/ name[i] < tok[i] THEN -1 ELSE 1

\* lb_prefix and ub_prefix: the first entry at which the comparison is not below,
\* or is above; Below is the names for which the search looks in the upper half.
Bound(T, Below) ==
  LET search[r \in (0..Len(T)) \X (0..Len(T))] ==
        LET lo == r[1]  hi == r[2]  mid == lo + (hi - lo) \div 2 IN
        IF lo >= hi THEN lo
        ELSE IF T[mid + 1] \in Below THEN search[<<mid + 1, hi>>] ELSE search[<<lo, mid>>]
  IN search[<<0, Len(T)>>]
Names(T) == {T[i] : i \in 1..Len(T)}
LowerBound(T, tok) == Bound(T, {w \in Names(T) : CmpPrefix(w, tok) < 0})
\* Mutant: the name that matches is skipped on the way up.
UpperBoundStrict(T, tok) == LowerBound(T, tok)
UpperBound(T, tok) == Bound(T, {w \in Names(T) : CmpPrefix(w, tok) <= 0})

NotFound == -1
FindCommand(T, tok) ==
  LET lo == LowerBound(T, tok) IN
  IF tok = <<>> \/ UpperBound(T, tok) - lo # 1 \/ T[lo + 1] # tok THEN NotFound ELSE lo

-----------------------------------------------------------------------------
(* What a line should mean.                                                *)

NonBlank(s) == AtPlaces(s, Solid(s))
Before(v, w) ==
  LET Differ == {i \in 1..Len(v) : i > Len(w) \/ v[i] # w[i]} IN
  v # w /\ (Differ = {} \/ LET i == First(Differ) IN i <= Len(w) /\ v[i] < w[i])

\* Nothing of a line is lost or moved to another command: put together again,
\* the commands of a line are the line.  A command is never blank, except where
\* the whole line is; a line that ends in an ampersand is not waited for unless
\* it is a pipe (README: "el & se ignora silenciosamente").
LinesSplit ==
  LET d    == ShellDispatch(line)
      mark == IF EndsInBackground(line) THEN <<Ampersand>> ELSE <<>>
  IN
  /\ d.how \in {"foreground", "background"} =>
       /\ NonBlank(line) = NonBlank(d.cmds[1]) \o mark
       /\ d.how = "background" <=> EndsInBackground(line)
       /\ Solid(line) # {} => Solid(d.cmds[1]) # {}
  /\ d.how = "pipe" =>
       /\ NonBlank(line) = NonBlank(d.cmds[1]) \o <<Bar>> \o NonBlank(d.cmds[2]) \o mark
       /\ \A i \in {1, 2} : Solid(d.cmds[i]) # {}

\* A word finds a command exactly when it is the whole name of one and begins no
\* other name, in every sorted table; the command gets the words of its line in
\* order, as many as there is room for.
Tables ==
  {T \in UNION {[1..n -> UNION {[1..k -> AlphabetLetters] : k \in 1..2}] : n \in 0..3} :
     \A i \in 1..(Len(T) - 1) : Before(T[i], T[i + 1])}
BeginsWith(name, tok) == Len(tok) <= Len(name) /\ SubSeq(name, 1, Len(tok)) = tok
CommandsFound ==
  LET tok  == FirstToken(line)
      argv == Tokenized(line)
  IN
  /\ tok # <<>> => \A T \in Tables :
       LET f == FindCommand(T, tok) IN
       IF \E i \in 1..Len(T) : T[i] = tok /\ \A j \in 1..Len(T) : BeginsWith(T[j], tok) => j = i
         THEN f # NotFound /\ T[f + 1] = tok ELSE f = NotFound
  /\ argv # <<>> => argv[1] = tok
  /\ Len(argv) = LET Starts == {i \in Solid(line) : i = 1 \/ line[i - 1] = Blank} IN
       IF Cardinality(Starts) < CR_MAXARGS THEN Cardinality(Starts) ELSE CR_MAXARGS - 1
=============================================================================
