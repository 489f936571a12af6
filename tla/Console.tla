--------------------------------- MODULE Console --------------------------------
(***************************************************************************)
(* The text console (Kernel/drivers/video.c) and the echo of a line while  *)
(* it is typed (syscall_read in Kernel/syscall/syscall.c).                 *)
(*                                                                         *)
(* The cursor and the size of the letters are shared by all processes.  A  *)
(* system call prints with interrupts masked, so a whole string at once;   *)
(* read echoes with interrupts on, and what other processes print may come *)
(* between two of its steps.  An interrupt inside the drawing of one glyph *)
(* or inside a scroll or a backspace is taken at its end.                  *)
(*                                                                         *)
(* Lengths are in cells of the font at size 1 (8 by 16 pixels), of which a *)
(* glyph at size s covers s by s; colours and the back buffer are left     *)
(* out.  The largest glyph fits on the screen.                             *)
(***************************************************************************)
EXTENDS Integers, Sequences

CONSTANTS
  ScreenW, ScreenH,   \* the screen
  FontScales,         \* the sizes programs ask for
  ECHO_LINE,          \* 256: a line holds one less
  EchoKeys,           \* what is typed: glyphs and the tabulator
  Outputs,            \* the strings other processes print
  MaxPrompts,         \* bound of the model: lines that are read
  MaxKeys,            \* bound of the model: keys typed in a line
  MaxOutputs          \* bound of the model: other uses of the screen

NL == "newline"
TAB == "tab"
BS == "backspace"
Space == " "
PromptText == <<"-", Space>>

\* syscall_resize takes any size and makes it one of 1 to 4.
Clamped(n) == IF n < 1 THEN 1 ELSE IF n > 4 THEN 4 ELSE n

ASSUME ConsoleAssumption ==
  /\ FontScales \subseteq Int
  /\ ScreenW \in Nat \ {0} /\ ScreenH \in Nat \ {0} /\ ECHO_LINE \in Nat \ {0}
  /\ \A n \in FontScales : Clamped(n) <= ScreenW /\ Clamped(n) <= ScreenH
  /\ \A str \in Outputs : Len(str) \in Nat
  /\ MaxPrompts \in Nat /\ MaxKeys \in Nat /\ MaxOutputs \in Nat

VARIABLES
  con,        \* x, y, g_scale (as s) and the cells of the screen; ghosts: the row the
              \* prompt was printed in, which scrolls with the screen (top), and
              \* whether the cursor may stand beyond the edge of the screen (askew)
  echo,       \* the read of a line: where it stands, what of a key is to be
              \* printed yet, the new x, the line; ghosts: where the prompt began
              \* (x0), whether nothing else has touched the screen since (clean)
  con_budget  \* what is left of the bounds

convars == <<con, echo, con_budget>>

Cells == (0..(ScreenW - 1)) \X (0..(ScreenH - 1))
BlankScreen == [p \in Cells |-> Space]
NoEcho == [at |-> "idle", rest |-> <<>>, reg |-> 0, text |-> <<>>, x0 |-> 0, clean |-> FALSE]

ConInit ==
  /\ con = [x |-> 0, y |-> 0, s |-> 1, cells |-> BlankScreen, top |-> 0, askew |-> FALSE]
  /\ echo = NoEcho
  /\ con_budget = [prompts |-> MaxPrompts, keys |-> 0, outputs |-> MaxOutputs]

-----------------------------------------------------------------------------
(* The console c after one operation.                                      *)

OnScreen(c) == c.x + c.s <= ScreenW /\ c.y + c.s <= ScreenH

\* vdScrollUp_pixels(CELL_H): letters as high as the screen leave nothing of it, and
\* the cursor at its beginning.  Mutant: it scrolls by a row of the font at size 1.
ScrolledOneRow(c) ==
  LET y == IF c.y >= 1 THEN c.y - 1 ELSE 0 IN
  [c EXCEPT !.cells = [p \in Cells |-> IF p[2] + 1 < ScreenH THEN c.cells[<<p[1], p[2] + 1>>]
                                                             ELSE Space],
            !.x = IF 1 >= ScreenH \/ @ + c.s > ScreenW THEN 0 ELSE @,
            !.y = IF y + c.s > ScreenH THEN ScreenH - c.s ELSE y,
            !.top = @ - c.s]
Scrolled(c) ==
  LET y == IF c.y >= c.s THEN c.y - c.s ELSE 0 IN
  [c EXCEPT !.cells = [p \in Cells |-> IF p[2] + c.s < ScreenH
                                         THEN c.cells[<<p[1], p[2] + c.s>>] ELSE Space],
            !.x = IF c.s >= ScreenH \/ @ + c.s > ScreenW THEN 0 ELSE @,
            !.y = IF y + c.s > ScreenH THEN ScreenH - c.s ELSE y,
            !.top = @ - c.s]

NextRow(c) == [c EXCEPT !.x = 0, !.y = @ + c.s]
Fitted(c) ==
  LET d == IF c.y + c.s > ScreenH THEN Scrolled(c) ELSE c IN
  [d EXCEPT !.askew = @ /\ ~OnScreen(d)]
VdNewline(c) == Fitted(NextRow(c))

\* What lies beyond the edge of the screen is not drawn.
Drawn(c, g) ==
  [c EXCEPT !.cells = [p \in Cells |->
     IF p[1] \in c.x..(c.x + c.s - 1) /\ p[2] \in c.y..(c.y + c.s - 1) THEN g ELSE @[p]]]

\* vdPrintCharStyled for a glyph, whole.
Moved(c, x) == [c EXCEPT !.x = x]
Wraps(c) == c.x + c.s > ScreenW
Glyph(c, g) ==
  LET d == Moved(Drawn(c, g), c.x + c.s) IN IF Wraps(d) THEN VdNewline(d) ELSE d

\* vdBackSpace: at column 0 it goes behind the last column of the row above.
BackSpaced(c) ==
  IF c.x >= c.s THEN Drawn(Moved(c, c.x - c.s), Space)
  ELSE IF c.y >= c.s
    THEN Drawn([c EXCEPT !.x = (ScreenW \div c.s) * c.s, !.y = @ - c.s, !.askew = TRUE], Space)
  ELSE c

\* A tabulator is four blanks.
Expanded(ch) == IF ch = TAB THEN <<Space, Space, Space, Space>> ELSE <<ch>>
Printed(c, ch) ==
  CASE ch = NL  -> VdNewline(c)
    [] ch = BS  -> BackSpaced(c)
    [] ch = TAB -> Glyph(Glyph(Glyph(Glyph(c, Space), Space), Space), Space)
    [] OTHER    -> Glyph(c, ch)
PrintStr(c, str) ==
  LET after[n \in 0..Len(str)] == IF n = 0 THEN c ELSE Printed(after[n - 1], str[n])
  IN after[Len(str)]

\* vdPrintStyled_AT: the cursor is put back, whatever the string did to it.
PrintAt(c, str, col, row) ==
  LET d == PrintStr([c EXCEPT !.x = col * c.s, !.y = row * c.s], str) IN
  [d EXCEPT !.x = c.x, !.y = c.y, !.askew = c.askew]

-----------------------------------------------------------------------------
(* The system calls of whoever runs.  Each may come while a line is read.  *)

Spend == con_budget.outputs > 0 /\ con_budget' = [con_budget EXCEPT !.outputs = @ - 1]
Disturb == echo' = [echo EXCEPT !.clean = FALSE]

\* syscall_write, and the ^C that the keyboard interrupt prints.
Write(str) == Spend /\ Disturb /\ con' = PrintStr(con, str)
WriteAtVram(str, col, row) == Spend /\ Disturb /\ con' = PrintAt(con, str, col, row)

\* syscall_resize.
Resize(n) ==
  /\ Spend /\ Disturb
  /\ con' = [con EXCEPT !.s = Clamped(n),
               !.askew = @ \/ ~OnScreen([con EXCEPT !.s = Clamped(n)])]

ClearWindow ==
  /\ Spend /\ Disturb
  /\ con' = [con EXCEPT !.x = 0, !.y = 0, !.cells = BlankScreen,
                        !.askew = ~OnScreen([con EXCEPT !.x = 0, !.y = 0])]

-----------------------------------------------------------------------------
(* The shell prints its prompt and reads a line.                           *)

WritePrompt ==
  /\ echo.at = "idle" /\ con_budget.prompts > 0
  /\ con' = PrintStr([con EXCEPT !.top = con.y], PromptText)
  /\ echo' = [NoEcho EXCEPT !.at = "editing", !.x0 = con.x, !.clean = ~con.askew]
  /\ con_budget' = [con_budget EXCEPT !.prompts = @ - 1, !.keys = MaxKeys]

TypeKey(ch) ==
  /\ echo.at = "editing" /\ Len(echo.text) + 1 < ECHO_LINE /\ con_budget.keys > 0
  /\ echo' = [echo EXCEPT !.at = "echo", !.text = Append(@, ch), !.rest = Expanded(ch)]
  /\ con_budget' = [con_budget EXCEPT !.keys = @ - 1]
  /\ UNCHANGED con

\* The steps of vdPrintCharStyled: the glyph, with x read for the next column;
\* the cursor; the scroll when the cursor has left the last row.
EchoGlyph ==
  /\ echo.at = "echo"
  /\ con' = Drawn(con, Head(echo.rest))
  /\ echo' = [echo EXCEPT !.at = "drawn", !.rest = Tail(@), !.reg = con.x + con.s]
  /\ UNCHANGED con_budget

Onward == IF echo.rest = <<>> THEN "editing" ELSE "echo"
EchoAdvance ==
  LET c == Moved(con, echo.reg) IN
  /\ echo.at = "drawn"
  /\ con' = IF Wraps(c) THEN NextRow(c) ELSE c
  /\ echo' = [echo EXCEPT !.at = IF Wraps(c) THEN "wrapped" ELSE Onward, !.reg = 0]
  /\ UNCHANGED con_budget
EchoScroll ==
  /\ echo.at = "wrapped"
  /\ con' = Fitted(con)
  /\ echo' = [echo EXCEPT !.at = Onward]
  /\ UNCHANGED con_budget

Rubout ==
  /\ echo.at = "editing" /\ echo.text # <<>>
  /\ con' = BackSpaced(con)
  /\ echo' = [echo EXCEPT !.text = SubSeq(@, 1, Len(@) - 1),
                          !.clean = @ /\ con.x >= con.s /\ echo.text[Len(echo.text)] # TAB]
  /\ UNCHANGED con_budget

\* Enter, or a key more than the line holds: vdNewline in two steps.
EndLine ==
  /\ echo.at = "editing"
  /\ con' = NextRow(con)
  /\ echo' = [echo EXCEPT !.at = "ended"]
  /\ UNCHANGED con_budget
EndScroll ==
  /\ echo.at = "ended"
  /\ con' = Fitted(con)
  /\ echo' = NoEcho
  /\ UNCHANGED con_budget

\* Ctrl+D and Ctrl+C: read returns and prints nothing.
CancelLine ==
  /\ echo.at = "editing"
  /\ echo' = NoEcho
  /\ UNCHANGED <<con, con_budget>>

ConNext ==
  \/ \E str \in Outputs : Write(str) \/ WriteAtVram(str, 1, 1)
  \/ \E n \in FontScales : Resize(n)
  \/ ClearWindow
  \/ WritePrompt
  \/ \E ch \in EchoKeys : TypeKey(ch)
  \/ EchoGlyph \/ EchoAdvance \/ EchoScroll
  \/ Rubout \/ EndLine \/ EndScroll \/ CancelLine

ConSpec == ConInit /\ [][ConNext]_convars

-----------------------------------------------------------------------------
\* Where the i-th glyph behind the beginning of the prompt, at column x0, belongs:
\* the rest of the row it begins in, then whole rows.
Place(c, x0, i) ==
  LET first == (ScreenW - x0) \div c.s
      row   == ScreenW \div c.s
  IN IF i < first THEN <<x0 + i * c.s, c.top>>
     ELSE <<((i - first) % row) * c.s, c.top + (1 + (i - first) \div row) * c.s>>

\* The prompt and the glyphs of the line.
Shown(text) ==
  LET upto[n \in 0..Len(text)] ==
        IF n = 0 THEN PromptText ELSE upto[n - 1] \o Expanded(text[n])
  IN upto[Len(text)]

\* While a line is typed the screen shows the prompt and the line, as far as they
\* have not scrolled away, and the cursor stands behind them, over any number of
\* wraps and scrolls; but for what other processes print between, a backspace at
\* column 0 and one over a tabulator.  And whoever printed what in between, once
\* no glyph is half printed the cursor is on the screen again, but for the
\* backspace at column 0 and larger letters, until the next line.
EchoShown ==
  echo.at \in {"idle", "editing"} =>
    /\ con.askew \/ OnScreen(con)
    /\ echo.at = "editing" /\ echo.clean =>
         LET shown == Shown(echo.text) IN
         /\ <<con.x, con.y>> = Place(con, echo.x0, Len(shown))
         /\ \A i \in 1..Len(shown) : \A dx, dy \in 0..(con.s - 1) :
              LET p == <<Place(con, echo.x0, i - 1)[1] + dx, Place(con, echo.x0, i - 1)[2] + dy>> IN
              p \in Cells => con.cells[p] = shown[i]
=============================================================================
