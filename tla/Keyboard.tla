-------------------------------- MODULE Keyboard -------------------------------
(***************************************************************************)
(* The keyboard (Kernel/drivers/keyboard_handler.c) and the two system     *)
(* calls that read it (Kernel/syscall/syscall.c).  The interrupt handler   *)
(* turns scancodes into key events and puts them in a ring that drops its  *)
(* oldest event when it is full; a reader takes them out with interrupts   *)
(* on, so an interrupt may come between any two accesses of getNextKey.    *)
(* (The kernel is built without optimisation: each access is one load or   *)
(* one store.)  One process reads at a time: the shell, or its foreground  *)
(* child while the shell waits for it.                                     *)
(*                                                                         *)
(* Keys have names in place of scancodes; the letters are those that mean  *)
(* something with Ctrl.  A key repeats while it is the last one pressed.   *)
(* Shift, Caps Lock and the snapshot of registers are left out.            *)
(***************************************************************************)
EXTENDS SequencesExt

CONSTANTS
  BUFFER_MAXLENGTH,   \* events in the ring
  LINE,               \* 256: a line holds one less
  MaxLen,             \* max_len of getchar
  Keys,               \* the keys that are used
  MaxPresses,         \* bound of the model: times a key goes down or repeats
  MaxReads            \* bound of the model: reading system calls

Ctrls   == {"lctrl", "rctrl"}
Letters == {"c", "d"}
ASSUME KeyboardAssumption ==
  /\ BUFFER_MAXLENGTH \in Nat \ {0} /\ LINE \in Nat \ {0, 1} /\ MaxLen \in Nat \ {0}
  /\ MaxPresses \in Nat /\ MaxReads \in Nat
  /\ Keys \subseteq Ctrls \cup Letters \cup {"enter", "back", "up"}

VARIABLES
  held,       \* the keys that are down and the last one pressed; ghosts: both
              \* Ctrls were down together, c was pressed with Ctrl down
  wire,       \* the byte the keyboard sends next
  mode,       \* e0_prefix, ctrlPressed, ctrlC_latch
  ring,       \* buf, nextkey, lastkey, count
  reader,     \* the system call that reads
  kbd_budget, \* what is left of the bounds
  pending,    \* ghost: events put in the ring and neither taken nor dropped
  typed,      \* ghost: events put in the ring since the call began
  torn,       \* ghost: an event came inside getNextKey where it does damage, or
              \* the process that was there was killed
  shots       \* ghost: times the present press of c has interrupted

kbdvars == <<held, wire, mode, ring, reader, kbd_budget, pending, typed, torn, shots>>

Places == 0..(BUFFER_MAXLENGTH - 1)
Cancel == "^C"                    \* key = 3
NoEvent == "none"
NoReader == [at |-> "none", kind |-> "line", who |-> "shell", killed |-> FALSE,
             reg |-> 0, ev |-> NoEvent, text |-> <<>>, taken |-> NoEvent, code |-> 0]

KbdInit ==
  /\ held = [down |-> {}, last |-> "none", both |-> FALSE, due |-> FALSE]
  /\ wire = <<>>
  /\ mode = [e0 |-> FALSE, ctrl |-> FALSE, latch |-> FALSE]
  /\ ring = [buf |-> [k \in Places |-> NoEvent], nextkey |-> 0, lastkey |-> 0, count |-> 0]
  /\ reader = NoReader
  /\ kbd_budget = [presses |-> MaxPresses, reads |-> MaxReads]
  /\ pending = <<>> /\ typed = <<>> /\ torn = FALSE
  /\ shots = 0

-----------------------------------------------------------------------------
(* The ring.                                                               *)

Wrapped(k) == k % BUFFER_MAXLENGTH

\* pushEvent.  Mutant: the oldest event is overwritten and stays the next one.
PushedOver(r, e) ==
  [buf |-> [r.buf EXCEPT ![r.lastkey] = e], lastkey |-> Wrapped(r.lastkey + 1),
   nextkey |-> r.nextkey,
   count |-> IF r.count = BUFFER_MAXLENGTH THEN r.count ELSE r.count + 1]
Pushed(r, e) ==
  LET full == r.count = BUFFER_MAXLENGTH IN
  [buf |-> [r.buf EXCEPT ![r.lastkey] = e], lastkey |-> Wrapped(r.lastkey + 1),
   nextkey |-> IF full THEN Wrapped(r.nextkey + 1) ELSE r.nextkey,
   count |-> IF full THEN r.count ELSE r.count + 1]

\* Where getNextKey is when an interrupt spoils what it has read already.
Spoils ==
  \/ reader.at \in {"fetch", "advance", "advanced", "drop"} /\ ring.count = BUFFER_MAXLENGTH
  \/ reader.at = "dropped"

Push(e) ==
  /\ ring' = Pushed(ring, e)
  /\ pending' = Append(IF ring.count = BUFFER_MAXLENGTH /\ pending # <<>>
                         THEN Tail(pending) ELSE pending, e)
  /\ typed' = IF reader.at # "none" /\ reader.kind = "line" THEN Append(typed, e) ELSE <<>>
  /\ torn' = (torn \/ Spoils)

NoPush == UNCHANGED <<ring, pending, typed, torn>>

-----------------------------------------------------------------------------
(* keyboardPressed and addKeyToBuffer, called with one byte; n is the      *)
(* number of times the present press of c has interrupted.                 *)

Ctrl(down) ==
  mode' = [mode EXCEPT !.e0 = FALSE, !.ctrl = down, !.latch = IF down THEN @ ELSE FALSE]

\* kill_foreground_process returns how many it killed: none if the shell reads.
\* A child that reads is killed, but goes on until the next tick.
Interrupts(n) ==
  /\ mode' = [mode EXCEPT !.latch = TRUE]
  /\ shots' = n + 1
  /\ \/ /\ reader.at = "none" \/ reader.who = "shell" \/ reader.killed
        /\ Push(Cancel)
        /\ UNCHANGED reader
     \/ /\ reader.at = "none"
        /\ UNCHANGED reader /\ NoPush
     \/ /\ reader.at # "none" /\ reader.who = "child" /\ ~reader.killed
        /\ reader' = [reader EXCEPT !.killed = TRUE]
        /\ NoPush

\* Mutant: the latch is not looked at.
LatchedNever == FALSE
Latched == mode.latch

Silent(n) == shots' = n /\ UNCHANGED reader

\* Letters with Ctrl are events of their own, other keys with Ctrl are none.
KeyEvent(k) ==
  CASE k = "d" /\ mode.ctrl -> Push("^D")
    [] k \notin Letters /\ mode.ctrl -> NoPush
    [] OTHER -> Push(k)

\* A byte after E0; of the codes without a meaning none is in Keys.
Extended(b, n) ==
  /\ IF b.key = "ctrl" THEN Ctrl(~b.release) ELSE mode' = [mode EXCEPT !.e0 = FALSE]
  /\ IF b.key = "up" THEN Push("up") ELSE NoPush
  /\ Silent(n)

Plain(b, n) ==
  \/ b.key = "ctrl" /\ Ctrl(~b.release) /\ NoPush /\ Silent(n)
  \/ /\ b.key = "c" /\ b.release
     /\ mode' = [mode EXCEPT !.latch = FALSE]
     /\ NoPush /\ Silent(n)
  \/ /\ b.key = "c" /\ ~b.release /\ mode.ctrl
     /\ IF Latched THEN NoPush /\ Silent(n) /\ UNCHANGED mode ELSE Interrupts(n)
  \/ /\ b.key # "ctrl" /\ (b.key = "c" => ~b.release /\ ~mode.ctrl)
     /\ KeyEvent(b.key) /\ Silent(n) /\ UNCHANGED mode

KeyboardPressed(b, n) ==
  IF b.key = "E0" THEN mode' = [mode EXCEPT !.e0 = TRUE] /\ NoPush /\ Silent(n)
  ELSE IF mode.e0 THEN Extended(b, n) ELSE Plain(b, n)

-----------------------------------------------------------------------------
(* The keyboard itself.  It interrupts for each byte; right Ctrl and the   *)
(* arrows send two.  Keys other than c and the two Ctrls are released at   *)
(* once: the handler ignores it.                                           *)

Bytes(k, release) ==
  (IF k \in {"rctrl", "up"} THEN <<[key |-> "E0", release |-> FALSE]>> ELSE <<>>)
  \o <<[key |-> IF k \in Ctrls THEN "ctrl" ELSE k, release |-> release]>>

Sends(bytes, n) ==
  /\ wire = <<>>
  /\ wire' = Tail(bytes)
  /\ KeyboardPressed(Head(bytes), n)

Press(k) ==
  LET fresh == k \notin held.down
      down  == held.down \cup ({k} \cap (Ctrls \cup {"c"}))
  IN
  /\ kbd_budget.presses > 0
  /\ fresh \/ k = held.last
  /\ held' = [down |-> down, last |-> k, both |-> held.both \/ Ctrls \subseteq down,
              due |-> IF k = "c" /\ fresh
                        THEN held.down \cap Ctrls # {} /\ ~held.both ELSE held.due]
  /\ kbd_budget' = [kbd_budget EXCEPT !.presses = @ - 1]
  /\ Sends(Bytes(k, FALSE), IF k = "c" /\ fresh THEN 0 ELSE shots)

Release(k) ==
  LET down == held.down \ {k} IN
  /\ k \in held.down
  /\ held' = [held EXCEPT !.down = down, !.last = IF k = @ THEN "none" ELSE @,
                          !.both = @ /\ down \cap Ctrls # {}]
  /\ Sends(Bytes(k, TRUE), shots)
  /\ UNCHANGED kbd_budget

SecondByte ==
  /\ wire # <<>>
  /\ wire' = Tail(wire)
  /\ KeyboardPressed(Head(wire), shots)
  /\ UNCHANGED <<held, kbd_budget>>

-----------------------------------------------------------------------------
(* The system calls: read of a line, getchar, and the wait for Enter after *)
(* an exception.                                                           *)

\* clearKeyboardBuffer.  Mutant: only the number of events is reset.
ClearedCount(r) == [r EXCEPT !.count = 0]
Cleared(r) == [r EXCEPT !.nextkey = 0, !.lastkey = 0, !.count = 0]

Begins(kind, who) ==
  /\ reader.at = "none" /\ kbd_budget.reads > 0
  /\ reader' = [NoReader EXCEPT !.at = "loop", !.kind = kind, !.who = who]
  /\ kbd_budget' = [kbd_budget EXCEPT !.reads = @ - 1]
  /\ typed' = <<>>
  /\ IF kind = "char" THEN UNCHANGED <<ring, pending, torn>>
                      ELSE ring' = Cleared(ring) /\ pending' = <<>> /\ torn' = FALSE
  /\ UNCHANGED <<held, wire, mode, shots>>

At(from, to) ==
  /\ reader.at = from
  /\ UNCHANGED <<held, wire, mode, kbd_budget, typed, torn, shots>>
  /\ reader' = [reader EXCEPT !.at = to]

\* hasNextKey, and the same test in getNextKey.
HasNextKey == ring.count > 0 /\ At("loop", "fetch") /\ UNCHANGED <<ring, pending>>

\* buf[nextkey]; nextkey = (nextkey + 1) % BUFFER_MAXLENGTH; count--;
Step(from, to, reg) ==
  /\ reader.at = from
  /\ reader' = [reader EXCEPT !.at = to, !.reg = reg]
  /\ UNCHANGED <<held, wire, mode, kbd_budget, typed, torn, shots>>
Fetch ==
  /\ reader.at = "fetch"
  /\ reader' = [reader EXCEPT !.at = "advance", !.ev = ring.buf[ring.nextkey],
                              !.taken = IF pending = <<>> THEN NoEvent
                                                              ELSE Head(pending)]
  /\ pending' = IF pending = <<>> THEN pending ELSE Tail(pending)
  /\ UNCHANGED <<held, wire, mode, ring, kbd_budget, typed, torn, shots>>
LoadNext  == Step("advance", "advanced", ring.nextkey) /\ UNCHANGED <<ring, pending>>
StoreNext ==
  /\ Step("advanced", "drop", 0)
  /\ ring' = [ring EXCEPT !.nextkey = Wrapped(reader.reg + 1)]
  /\ UNCHANGED pending
LoadCount == Step("drop", "dropped", ring.count) /\ UNCHANGED <<ring, pending>>
StoreCount ==
  /\ Step("dropped", "use", 0)
  /\ ring' = [ring EXCEPT !.count = reader.reg - 1]
  /\ UNCHANGED pending

GoOn(text) == reader' = [reader EXCEPT !.at = "loop", !.ev = NoEvent, !.text = text]
Return(text, code) ==
  reader' = [reader EXCEPT !.at = "done", !.ev = NoEvent, !.text = text, !.code = code]

\* Mutant: an empty line returns 0.
LineLength(text) == Len(text)
OneIfEmpty(text) == IF text = <<>> THEN 1 ELSE Len(text)
UseInLine(e, text) ==
  CASE e = "enter" -> Return(text, OneIfEmpty(text))
    [] e = "back"  -> GoOn(IF text = <<>> THEN text ELSE Front(text))
    [] e = "^D"    -> Return(text, 0)
    [] e = "^C"    -> Return(<<>>, 0)
    [] OTHER           -> IF Len(text) + 1 < LINE THEN GoOn(Append(text, e))
                                                  ELSE Return(text, Len(text))

UseInBatch(e, text) ==
  LET more == Append(text, e) IN
  IF Len(more) >= MaxLen THEN Return(more, Len(more)) ELSE GoOn(more)

UseKey ==
  /\ reader.at = "use"
  /\ CASE reader.kind = "line"  -> UseInLine(reader.ev, reader.text)
       [] reader.kind = "char"  -> UseInBatch(reader.ev, reader.text)
       [] reader.kind = "enter" -> IF reader.ev = "enter" THEN Return(<<>>, 1)
                                                              ELSE GoOn(<<>>)
  /\ UNCHANGED <<held, wire, mode, ring, kbd_budget, pending, typed, torn, shots>>

\* getchar gives up when 10 ms have gone by, which it may find between any two
\* keys, since other processes run meanwhile.
TimesOut ==
  /\ reader.at = "loop" /\ reader.kind = "char"
  /\ Return(reader.text, Len(reader.text))
  /\ UNCHANGED <<held, wire, mode, ring, kbd_budget, pending, typed, torn, shots>>

CallReturns ==
  /\ reader.at = "done"
  /\ reader' = NoReader
  /\ typed' = <<>>
  /\ UNCHANGED <<held, wire, mode, ring, kbd_budget, pending, torn, shots>>

\* The tick after a reader was killed.
ReaderGone ==
  /\ reader.killed
  /\ reader' = NoReader
  /\ torn' = (torn \/ reader.at \in {"advance", "advanced", "drop", "dropped"})
  /\ typed' = <<>>
  /\ UNCHANGED <<held, wire, mode, ring, kbd_budget, pending, shots>>

-----------------------------------------------------------------------------
KbdNext ==
  \/ \E k \in Keys : Press(k) \/ Release(k)
  \/ SecondByte
  \/ Begins("line", "shell")
  \/ \E kind \in {"line", "char", "enter"} : Begins(kind, "child")
  \/ HasNextKey \/ Fetch \/ LoadNext \/ StoreNext \/ LoadCount \/ StoreCount
  \/ UseKey \/ TimesOut \/ CallReturns \/ ReaderGone

KbdSpec == KbdInit /\ [][KbdNext]_kbdvars

-----------------------------------------------------------------------------
\* The events between nextkey and lastkey.
Content == [i \in 1..ring.count |-> ring.buf[Wrapped(ring.nextkey + i - 1)]]

\* Outside getNextKey the ring holds the latest events in the order they were
\* typed, and the oldest alone is lost when it is full; only an interrupt inside
\* getNextKey at the places Spoils names, or the death of the process there, can
\* break that, until the next clear.
RingHoldsPending ==
  ~torn /\ reader.at \in {"none", "loop", "use", "done"} =>
    /\ Content = pending
    /\ ring.lastkey = Wrapped(ring.nextkey + ring.count)

\* One press of c with Ctrl interrupts once, however long it is held.
CtrlCOncePerPress ==
  /\ shots <= 1
  /\ held.due => shots = 1

\* What a line says was typed while it was read, and is not what was typed
\* before.  0 means that the user typed Ctrl+D or Ctrl+C during this very call,
\* so an empty line is no end of file, and an old Ctrl+C cancels no new line.
Subsequence(s, t) ==
  \E f \in [1..Len(s) -> 1..Len(t)] :
    (\A i \in 1..Len(s) : t[f[i]] = s[i]) /\ (\A i, j \in 1..Len(s) : i < j => f[i] < f[j])
LinesAreFresh ==
  reader.at = "done" /\ reader.kind = "line" /\ ~torn =>
    /\ Subsequence(reader.text, typed)
    /\ (reader.code = 0) <=> \E i \in 1..Len(typed) :
         typed[i] \in {"^C", "^D"} /\ reader.taken = typed[i]
=============================================================================
