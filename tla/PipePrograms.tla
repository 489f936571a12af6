------------------------------ MODULE PipePrograms -----------------------------
(***************************************************************************)
(* The programs that read a pipe to its end, cat, wc and filter            *)
(* (Userland/shell/commands/pipe_cmds.c), and the read of a line from a    *)
(* pipe they stand on (Kernel/syscall/syscall.c).  A character is a vowel, *)
(* a newline or another one; NUL is what read leaves in an empty line.     *)
(***************************************************************************)
EXTENDS Integers, Sequences, FiniteSets, Subsequences

CONSTANTS
  READ_MAX,     \* 255, the characters read() takes before it gives up on a newline
  MaxStream     \* bound of the model: characters that come through the pipe

ASSUME PipeProgramsAssumption == READ_MAX \in Nat \ {0} /\ MaxStream \in Nat

Newline == "newline"
Vowel   == "vowel"
Other   == "other"
Nul     == "nul"

VARIABLES
  program,   \* which of the three is run
  running,   \* it is still in its loop
  stream,    \* what the pipe still brings before the end of file
  counted,   \* lines, of wc
  output,    \* what was written
  fed        \* ghost: the whole stream

progvars == <<program, running, stream, counted, output, fed>>

Streams == UNION {[1..n -> {Vowel, Other, Newline}] : n \in 0..MaxStream}
ProgInit ==
  /\ program \in {"cat", "wc", "filter"}
  /\ stream \in Streams /\ fed = stream
  /\ running = TRUE /\ counted = 0 /\ output = <<>>

-----------------------------------------------------------------------------
(* syscall_read on a pipe: the line, what read returns, what is left.      *)

Newlines(s) == {i \in 1..Len(s) : s[i] = Newline}
LineLen(s) ==
  LET n == IF Newlines(s) = {} THEN Len(s)
           ELSE (CHOOSE i \in Newlines(s) : \A j \in Newlines(s) : i <= j) - 1
  IN IF n < READ_MAX THEN n ELSE READ_MAX
EndsAtNewline(s) == LineLen(s) < READ_MAX /\ LineLen(s) < Len(s)
\* Mutant: an empty line returns 0, as the end of file does.
ReturnedUnmarked(s) == LineLen(s)
Returned(s) == IF LineLen(s) = 0 /\ EndsAtNewline(s) THEN 1 ELSE LineLen(s)
LineRead(s) == SubSeq(s, 1, LineLen(s))
LeftInPipe(s) == SubSeq(s, LineLen(s) + (IF EndsAtNewline(s) THEN 2 ELSE 1), Len(s))

-----------------------------------------------------------------------------
(* One turn of each loop.  Print stops at a NUL.                           *)

Turn(name) ==
  /\ running /\ program = name
  /\ Returned(stream) # 0
  /\ stream' = LeftInPipe(stream)
  /\ UNCHANGED <<program, running, fed>>

CmdCat ==
  /\ Turn("cat")
  /\ output' = output \o LineRead(stream) \o <<Newline>>
  /\ UNCHANGED counted

\* The first n characters of the buffer, the NUL of an empty line among them.
Without(s, c) == AtPlaces(s, {i \in 1..Len(s) : s[i] # c})
Copied(s) == Without(SubSeq(Append(LineRead(s), Nul), 1, Returned(s)), Vowel)
CmdFilter ==
  /\ Turn("filter")
  /\ output' = IF Copied(stream) = <<>> THEN output
               ELSE output \o Without(Copied(stream), Nul) \o <<Newline>>
  /\ UNCHANGED counted

CmdWc ==
  /\ Turn("wc")
  /\ counted' = counted + 1
  /\ UNCHANGED output

ProgramEnds ==
  /\ running /\ Returned(stream) = 0
  /\ running' = FALSE
  /\ output' = IF program = "wc" THEN Append(output, counted) ELSE output
  /\ UNCHANGED <<program, stream, counted, fed>>

ProgNext == CmdCat \/ CmdFilter \/ CmdWc \/ ProgramEnds
ProgSpec == ProgInit /\ [][ProgNext]_progvars

-----------------------------------------------------------------------------
\* The lines of a stream by the places at which they end; the last one may have
\* no newline.
Ends(s) == Newlines(s) \cup (IF s # <<>> /\ s[Len(s)] # Newline THEN {Len(s) + 1} ELSE {})
LineEndingAt(s, e) ==
  LET start == CHOOSE i \in {0} \cup Newlines(s) :
                 i < e /\ \A j \in Newlines(s) : j < e => j <= i
  IN SubSeq(s, start + 1, e - 1)
Terminated(s) == IF Ends(s) = Newlines(s) THEN s ELSE Append(s, Newline)
OnlyVowels(w) == w # <<>> /\ \A i \in 1..Len(w) : w[i] = Vowel
WithoutVowels(s) ==
  AtPlaces(s, {i \in 1..Len(s) : /\ s[i] # Vowel
                                 /\ s[i] = Newline => ~OnlyVowels(LineEndingAt(s, i))})

\* What a pipe delivers comes out as the program promises, as long as no line
\* fills the buffer: cat gives every line, wc counts them, filter gives them
\* without their vowels and leaves out those of nothing but vowels.  An empty
\* line is a line and not the end, and the last one needs no newline.
PipeResults ==
  ~running /\ (\A e \in Ends(fed) : Len(LineEndingAt(fed, e)) < READ_MAX) =>
    output = CASE program = "cat"    -> Terminated(fed)
               [] program = "wc"     -> <<Cardinality(Ends(fed))>>
               [] program = "filter" -> WithoutVowels(Terminated(fed))
=============================================================================
