----------------------------- MODULE UserlandProofs ----------------------------
(***************************************************************************)
(* Proofs about the parts of Userland that share no lemmas with others.    *)
(* Keyboard: one interrupt for each press of Ctrl+C, a ring that holds     *)
(* what was typed, lines that were typed while they were read, for any     *)
(* ring, keys, presses and system calls.  Speaker: beeps that are heard,   *)
(* for any processes, tones and durations.  Tron: a bot that survives      *)
(* where it can, on any board.  Console: a screen that shows the line the  *)
(* shell is editing, for any screen, letter sizes and outputs that fit.    *)
(***************************************************************************)
EXTENDS Keyboard, Speaker, Tron, Console, SequenceTheorems, FiniteSetTheorems,
        WellFoundedInduction, TLAPS

-----------------------------------------------------------------------------
(* Keyboard: one interrupt per press.                                      *)

Names == {"lctrl", "rctrl", "c", "d", "enter", "back", "up", "^C", "^D", "none"}
SecondBytes == [key : {"ctrl", "up"}, release : BOOLEAN]
Hands == [down : SUBSET {"lctrl", "rctrl", "c"}, last : Names, both : BOOLEAN, due : BOOLEAN]
Modes == [e0 : BOOLEAN, ctrl : BOOLEAN, latch : BOOLEAN]
HandShapes ==
  /\ held \in Hands
  /\ mode \in Modes
  /\ wire = <<>> \/ \E b \in SecondBytes : wire = <<b>>
  /\ shots \in {0, 1}
  /\ mode.e0 <=> wire # <<>>

\* What the handler will know of Ctrl once it has had the byte on its way.
CtrlKnown == IF wire # <<>> /\ wire[1].key = "ctrl" THEN ~wire[1].release ELSE mode.ctrl
CtrlFollowed ==
  /\ held.down \cap Ctrls = {} => ~CtrlKnown /\ ~held.both
  /\ Ctrls \subseteq held.down => held.both
  /\ ~held.both /\ held.down \cap Ctrls # {} => CtrlKnown

\* A press of c that has interrupted does not again: c repeats only while it is
\* the last key pressed, and so with the latch set or with Ctrl up.
LatchFollows ==
  /\ mode.latch => "c" \in held.down
  /\ held.last = "c" => "c" \in held.down
  /\ held.last = "c" /\ shots = 1 => mode.latch \/ ~CtrlKnown
  /\ wire # <<>> /\ wire[1] = [key |-> "ctrl", release |-> FALSE] => held.last # "c"
  /\ held.due => shots = 1

HandInv == HandShapes /\ CtrlFollowed /\ LatchFollows

-----------------------------------------------------------------------------
(* Keyboard: the ring.                                                     *)

ReadCalls ==
  [at : {"none", "loop", "fetch", "advance", "advanced", "drop", "dropped", "use", "done"},
   kind : {"line", "char", "enter"}, who : {"shell", "child"}, killed : BOOLEAN,
   reg : Nat, ev : Names, text : Seq(Names), taken : Names, code : Nat]
RingShapes ==
  /\ ring \in [buf : [Places -> Names], nextkey : Places, lastkey : Places,
               count : 0..BUFFER_MAXLENGTH]
  /\ reader \in ReadCalls
  /\ pending \in Seq(Names) /\ typed \in Seq(Names)
  /\ torn \in BOOLEAN

Inside == reader.at \in {"advance", "advanced", "drop", "dropped"}
KeysThere ==
  /\ Inside \/ reader.at = "fetch" => ring.count > 0
  /\ reader.at = "advanced" => reader.reg \in Places
  /\ reader.at = "dropped" => reader.reg \in 1..BUFFER_MAXLENGTH

\* Where the events begin that are still to be taken, and how many they are,
\* when getNextKey has taken one and not yet said so in nextkey or in count.
First == IF reader.at \in {"advance", "advanced"} THEN Wrapped(ring.nextkey + 1) ELSE ring.nextkey
Left  == IF Inside THEN ring.count - 1 ELSE ring.count

RingTrue ==
  /\ Len(pending) = Left
  /\ \A i \in 1..Left : pending[i] = ring.buf[Wrapped(First + i - 1)]
  /\ ring.lastkey = Wrapped(First + Left)
  /\ reader.at = "advanced" => reader.reg = ring.nextkey
  /\ reader.at = "dropped" => reader.reg = ring.count

RingInv == RingShapes /\ KeysThere /\ (~torn => RingTrue)

-----------------------------------------------------------------------------
(* Keyboard: the line.                                                     *)

\* The events s are drawn, in order, from the first m of t.
DrawnFrom(s, t, m) ==
  \E f \in [1..Len(s) -> 1..m] :
    /\ \A i \in 1..Len(s) : t[f[i]] = s[i]
    /\ \A i, j \in 1..Len(s) : i < j => f[i] < f[j]

Past == Len(typed) - Len(pending)       \* events taken or dropped
TakenAt(m) ==
  /\ reader.taken = typed[m]
  /\ reader.at # "done" => reader.ev = reader.taken /\ DrawnFrom(reader.text, typed, m - 1)

LineTrue ==
  /\ Past >= 0
  /\ \A i \in 1..Len(pending) : pending[i] = typed[Past + i]
  /\ reader.at \in {"loop", "fetch", "done"} => DrawnFrom(reader.text, typed, Past)
  /\ Inside \/ reader.at \in {"use", "done"} => \E m \in 1..Past : TakenAt(m)
  /\ reader.at = "done" => (reader.code = 0 <=> reader.taken \in {"^C", "^D"})

Reads == reader.kind = "line" /\ reader.at # "none"
LineInv == Reads /\ ~torn => LineTrue

-----------------------------------------------------------------------------
(* Keyboard, one interrupt per press: proof.                               *)

\* What one byte does to mode and shots.
LEMMA ByteShots ==
  ASSUME HandInv, NEW b, NEW n, KeyboardPressed(b, n)
  PROVE  \/ shots' = n /\ (~mode.e0 /\ b.key = "c" /\ ~b.release /\ mode.ctrl => mode.latch)
         \/ /\ ~mode.e0 /\ b.key = "c" /\ ~b.release /\ mode.ctrl /\ ~mode.latch
            /\ shots' = n + 1
PROOF
BY DEF KeyboardPressed, Extended, Plain, Silent, Interrupts, Latched

LEMMA ByteMode ==
  ASSUME HandInv, NEW b, NEW n, KeyboardPressed(b, n), b.release \in BOOLEAN
  PROVE  /\ mode' \in Modes
         /\ mode'.e0 <=> b.key = "E0"
         /\ IF b.key = "ctrl" THEN mode'.ctrl <=> ~b.release ELSE mode'.ctrl = mode.ctrl
         /\ mode'.latch <=> /\ mode.latch \/ (~mode.e0 /\ b.key = "c" /\ mode.ctrl)
                            /\ b.key = "ctrl" \/ (~mode.e0 /\ b.key = "c") => ~b.release
PROOF
BY DEF HandInv, HandShapes, Modes, KeyboardPressed, Extended, Plain, Silent, Interrupts,
       Latched, Ctrl

LEMMA TwoBytes ==
  ASSUME NEW a, NEW b
  PROVE  <<a>> \o <<b>> = <<a, b>>
PROOF
<1>1. <<a>> \in Seq({a, b}) /\ <<b>> \in Seq({a, b}) /\ Len(<<a>>) = 1 /\ Len(<<b>>) = 1
  OBVIOUS
<1>2. /\ <<a>> \o <<b>> \in Seq({a, b}) /\ Len(<<a>> \o <<b>>) = 2
      /\ \A i \in 1..2 : (<<a>> \o <<b>>)[i] = IF i = 1 THEN a ELSE b
  BY <1>1
<1>3. /\ <<a, b>> \in Seq({a, b}) /\ Len(<<a, b>>) = 2
      /\ <<a, b>>[1] = a /\ <<a, b>>[2] = b
  OBVIOUS
<1>. DEFINE s == <<a>> \o <<b>>  t == <<a, b>>
<1>4. s \in Seq({a, b}) /\ t \in Seq({a, b}) /\ Len(s) = Len(t) /\ \A i \in 1..Len(s) : s[i] = t[i]
  BY <1>2, <1>3
<1>. HIDE DEF s, t
<1>5. s = t
  BY <1>4, SeqEqual
<1> QED BY <1>5 DEF s, t

LEMMA FirstByteSent ==
  ASSUME NEW k \in Keys, NEW release \in BOOLEAN, NEW n, Sends(Bytes(k, release), n)
  PROVE  /\ wire = <<>>
         /\ k \in {"rctrl", "up"} =>
              /\ wire' = <<[key |-> IF k = "up" THEN "up" ELSE "ctrl", release |-> release]>>
              /\ KeyboardPressed([key |-> "E0", release |-> FALSE], n)
         /\ k \notin {"rctrl", "up"} =>
              /\ wire' = <<>>
              /\ KeyboardPressed([key |-> IF k = "lctrl" THEN "ctrl" ELSE k,
                                  release |-> release], n)
PROOF
<1>. DEFINE e0 == [key |-> "E0", release |-> FALSE]
            b == [key |-> IF k \in Ctrls THEN "ctrl" ELSE k, release |-> release]
<1>1. CASE k \in {"rctrl", "up"}
  <2>1. Bytes(k, release) = <<e0>> \o <<b>>
    BY <1>1 DEF Bytes
  <2>2. Head(<<e0, b>>) = e0 /\ Tail(<<e0, b>>) = <<b>>
    OBVIOUS
  <2> QED BY <1>1, <2>1, <2>2, TwoBytes DEF Sends, Ctrls
<1>2. CASE k \notin {"rctrl", "up"}
  <2>1. Bytes(k, release) = <<b>>
    BY <1>2 DEF Bytes
  <2>2. Head(<<b>>) = b /\ Tail(<<b>>) = <<>>
    OBVIOUS
  <2> QED BY <1>2, <2>1, <2>2 DEF Sends, Ctrls
<1> QED BY <1>1, <1>2

LEMMA PressKeepsHands ==
  ASSUME HandInv, NEW k \in Keys, Press(k)
  PROVE  HandInv'
PROOF
<1>. DEFINE repeats == k \in held.down
            n == IF k = "c" /\ ~repeats THEN 0 ELSE shots
            down == held.down \cup ({k} \cap (Ctrls \cup {"c"}))
<1>. USE DEF HandInv
<1>1. /\ Sends(Bytes(k, FALSE), n)
      /\ ~repeats \/ k = held.last
      /\ held' = [down |-> down, last |-> k, both |-> held.both \/ Ctrls \subseteq down,
                  due |-> IF k = "c" /\ ~repeats
                            THEN held.down \cap Ctrls # {} /\ ~held.both ELSE held.due]
  BY DEF Press
<1>2. k \in Ctrls \cup Letters \cup {"enter", "back", "up"}
  BY KeyboardAssumption
<1>3a. held' \in Hands
  <2>1. k \in Names /\ down \in SUBSET {"lctrl", "rctrl", "c"}
    <3>1. k \in Names /\ {k} \cap (Ctrls \cup {"c"}) \subseteq {"lctrl", "rctrl", "c"}
      BY <1>2 DEF Ctrls, Letters, Names
    <3>2. held.down \subseteq {"lctrl", "rctrl", "c"}
      BY DEF HandShapes, Hands
    <3> QED BY <3>1, <3>2
  <2>. DEFINE due == IF k = "c" /\ ~repeats THEN held.down \cap Ctrls # {} /\ ~held.both
                                            ELSE held.due
              both == held.both \/ Ctrls \subseteq down
  <2>2. due \in BOOLEAN /\ both \in BOOLEAN
    BY DEF HandShapes, Hands
  <2>. HIDE DEF due, both, down
  <2> QED BY <1>1, <2>1, <2>2 DEF Hands, due, both
<1>3. wire = <<>> /\ mode.e0 = FALSE
  <2>1. wire = <<>>
    BY <1>1, FirstByteSent
  <2> QED BY <2>1 DEF HandShapes, Modes
<1>4. CASE k \in {"rctrl", "up"}
  <2>. DEFINE b == [key |-> "E0", release |-> FALSE]
  <2>1. /\ wire' = <<[key |-> IF k = "up" THEN "up" ELSE "ctrl", release |-> FALSE]>>
        /\ KeyboardPressed(b, n)
    BY <1>1, <1>4, FirstByteSent
  <2>2. mode' \in Modes /\ mode'.e0 /\ mode'.ctrl = mode.ctrl /\ (mode'.latch <=> mode.latch)
    <3>. DEFINE byte == [key |-> "E0", release |-> FALSE]
    <3>1. byte.key = "E0" /\ byte.release = FALSE /\ byte.release \in BOOLEAN
      OBVIOUS
    <3>. HIDE DEF byte
    <3> QED BY <2>1, <1>3, <3>1, ByteMode DEF byte
  <2>3. shots' = shots
    BY <2>1, <1>4, ByteShots
  <2>4. HandShapes'
    <3>2. mode' \in Modes
      BY <2>2
    <3>3. wire' # <<>> /\ \E c \in SecondBytes : wire' = <<c>>
      <4>. DEFINE c == [key |-> IF k = "up" THEN "up" ELSE "ctrl", release |-> FALSE]
      <4>1. c \in SecondBytes
        BY DEF SecondBytes
      <4> QED BY <2>1, <4>1
    <3> QED BY <2>2, <2>3, <1>3a, <3>2, <3>3 DEF HandShapes
  <2>5. CtrlFollowed'
    BY <1>1, <1>3, <1>4, <2>1, <2>2, <2>3 DEF HandShapes, Hands, Modes, CtrlFollowed, CtrlKnown,
                                              Ctrls
  <2>6. LatchFollows'
    BY <1>1, <1>3, <1>4, <2>1, <2>2, <2>3 DEF HandShapes, Hands, Modes, LatchFollows, CtrlKnown,
                                              Ctrls
  <2> QED BY <2>4, <2>5, <2>6
<1>5. CASE k \notin {"rctrl", "up"}
  <2>. DEFINE b == [key |-> IF k = "lctrl" THEN "ctrl" ELSE k, release |-> FALSE]
  <2>1. wire' = <<>> /\ KeyboardPressed(b, n)
    BY <1>1, <1>5, FirstByteSent
  <2>2. /\ mode' \in Modes /\ ~mode'.e0
        /\ IF k = "lctrl" THEN mode'.ctrl ELSE mode'.ctrl = mode.ctrl
        /\ mode'.latch <=> mode.latch \/ (k = "c" /\ mode.ctrl)
    <3>1. b.release = FALSE /\ b.release \in BOOLEAN /\ b.key = IF k = "lctrl" THEN "ctrl" ELSE k
      OBVIOUS
    <3>2. k # "E0" /\ k # "ctrl"
      BY <1>2 DEF Ctrls, Letters
    <3>. HIDE DEF b
    <3> QED BY <1>3, <1>5, <2>1, <3>1, <3>2, ByteMode
  <2>3. \/ shots' = n /\ (k = "c" /\ mode.ctrl => mode.latch)
        \/ k = "c" /\ mode.ctrl /\ ~mode.latch /\ shots' = n + 1
    BY <1>3, <1>5, <2>1, ByteShots
  <2>4. CtrlKnown = mode.ctrl /\ CtrlKnown' = mode'.ctrl
    BY <1>3, <2>1 DEF CtrlKnown
  <2>5. CASE k = "c"
    <3>1. n = 1 => mode.latch \/ ~mode.ctrl
      BY <1>1, <2>4, <2>5 DEF LatchFollows
    <3>2. shots' \in {0, 1}
      BY <2>3, <3>1 DEF HandShapes
    <3>3. HandShapes'
      <4>2. mode' \in Modes
        BY <2>2
      <4> QED BY <2>1, <2>2, <3>2, <1>3a, <4>2 DEF HandShapes
    <3>4. CtrlFollowed'
      BY <1>1, <2>2, <2>4, <2>5 DEF HandShapes, Hands, Modes, CtrlFollowed, Ctrls
    <3>5. ~repeats /\ held.down \cap Ctrls # {} /\ ~held.both => shots' = 1
      BY <2>3, <2>4, <2>5 DEF CtrlFollowed, LatchFollows
    <3>6. repeats /\ held.due => shots' = 1
      BY <2>3, <2>5, <3>2, <3>1 DEF LatchFollows, HandShapes, Hands, Modes
    <3>7. held'.due => shots' = 1
      BY <1>1, <2>5, <3>5, <3>6
    <3>8. LatchFollows'
      BY <1>1, <2>1, <2>2, <2>4, <2>5, <3>7 DEF LatchFollows, HandShapes, Hands, Modes
    <3> QED BY <3>3, <3>4, <3>8
  <2>6. CASE k # "c"
    <3>1. shots' = shots
      BY <2>3, <2>6
    <3>2. HandShapes'
      <4>2. mode' \in Modes
        BY <2>2
      <4> QED BY <2>1, <2>2, <3>1, <1>3a, <4>2 DEF HandShapes
    <3>3. CtrlFollowed'
      BY <1>1, <1>2, <1>5, <2>2, <2>4, <2>6 DEF HandShapes, Hands, Modes, CtrlFollowed, Ctrls,
                                                Letters
    <3>4. LatchFollows'
      BY <1>1, <2>1, <2>2, <2>4, <2>6, <3>1 DEF LatchFollows, HandShapes, Hands, Modes, Ctrls
    <3> QED BY <3>2, <3>3, <3>4
  <2> QED BY <2>5, <2>6
<1> QED BY <1>4, <1>5

LEMMA ReleaseKeepsHands ==
  ASSUME HandInv, NEW k \in Keys, Release(k)
  PROVE  HandInv'
PROOF
<1>. USE DEF HandInv
<1>1. /\ k \in held.down /\ Sends(Bytes(k, TRUE), shots)
      /\ held' = [held EXCEPT !.down = held.down \ {k},
                              !.last = IF k = held.last THEN "none" ELSE held.last,
                              !.both = held.both /\ (held.down \ {k}) \cap Ctrls # {}]
  BY DEF Release, HandShapes, Hands
<1>2. k \in {"lctrl", "rctrl", "c"}
  BY <1>1 DEF HandShapes, Hands
<1>3a. held' \in Hands
  <2>. DEFINE last == IF k = held.last THEN "none" ELSE held.last
              both == held.both /\ (held.down \ {k}) \cap Ctrls # {}
  <2>1. held' = [down |-> held.down \ {k}, last |-> last, both |-> both, due |-> held.due]
    BY <1>1 DEF HandShapes, Hands
  <2>2. last \in Names /\ both \in BOOLEAN
    BY DEF HandShapes, Hands, Names
  <2>3. held.down \ {k} \in SUBSET {"lctrl", "rctrl", "c"} /\ held.due \in BOOLEAN
    BY DEF HandShapes, Hands
  <2>. HIDE DEF last, both
  <2> QED BY <2>1, <2>2, <2>3 DEF Hands
<1>3. wire = <<>> /\ mode.e0 = FALSE
  <2>1. wire = <<>>
    BY <1>1, FirstByteSent
  <2> QED BY <2>1 DEF HandShapes, Modes
<1>4. CASE k = "rctrl"
  <2>1. /\ wire' = <<[key |-> "ctrl", release |-> TRUE]>>
        /\ KeyboardPressed([key |-> "E0", release |-> FALSE], shots)
    BY <1>1, <1>4, FirstByteSent
  <2>2. mode' \in Modes /\ mode'.e0 /\ mode'.ctrl = mode.ctrl /\ (mode'.latch <=> mode.latch)
    <3>. DEFINE byte == [key |-> "E0", release |-> FALSE]
    <3>1. byte.key = "E0" /\ byte.release = FALSE /\ byte.release \in BOOLEAN
      OBVIOUS
    <3>. HIDE DEF byte
    <3> QED BY <2>1, <1>3, <3>1, ByteMode DEF byte
  <2>3. shots' = shots
    BY <2>1, ByteShots
  <2>4. CtrlKnown' = FALSE
    BY <2>1 DEF CtrlKnown
  <2>5. HandShapes'
    <3>2. mode' \in Modes
      BY <2>2
    <3>3. wire' # <<>> /\ \E c \in SecondBytes : wire' = <<c>>
      BY <2>1 DEF SecondBytes
    <3> QED BY <2>2, <2>3, <1>3a, <3>2, <3>3 DEF HandShapes
  <2>6. CtrlFollowed'
    BY <1>1, <1>3, <1>4, <2>4 DEF HandShapes, Hands, Modes, CtrlFollowed, Ctrls
  <2>7. LatchFollows'
    BY <1>1, <1>3, <1>4, <2>1, <2>2, <2>3, <2>4 DEF HandShapes, Hands, Modes, LatchFollows, Ctrls
  <2> QED BY <2>5, <2>6, <2>7
<1>5. CASE k \in {"lctrl", "c"}
  <2>. DEFINE b == [key |-> IF k = "lctrl" THEN "ctrl" ELSE k, release |-> TRUE]
  <2>1. wire' = <<>> /\ KeyboardPressed(b, shots)
    BY <1>1, <1>5, FirstByteSent
  <2>2. /\ mode' \in Modes /\ ~mode'.e0 /\ ~mode'.latch
        /\ IF k = "lctrl" THEN ~mode'.ctrl ELSE mode'.ctrl = mode.ctrl
    <3>1. b.release /\ b.release \in BOOLEAN /\ b.key = IF k = "lctrl" THEN "ctrl" ELSE k
      OBVIOUS
    <3>. HIDE DEF b
    <3> QED BY <1>3, <1>5, <2>1, <3>1, ByteMode
  <2>3. shots' = shots
    BY <2>1, ByteShots
  <2>4. CtrlKnown = mode.ctrl /\ CtrlKnown' = mode'.ctrl
    BY <1>3, <2>1 DEF CtrlKnown
  <2>5. HandShapes'
    <3>2. mode' \in Modes
      BY <2>2
    <3> QED BY <2>1, <2>2, <2>3, <1>3a, <3>2 DEF HandShapes
  <2>6. CtrlFollowed'
    BY <1>1, <1>5, <2>2, <2>4 DEF HandShapes, Hands, Modes, CtrlFollowed, Ctrls
  <2>7. LatchFollows'
    BY <1>1, <1>5, <2>1, <2>2, <2>3, <2>4 DEF HandShapes, Hands, Modes, LatchFollows, Ctrls
  <2> QED BY <2>5, <2>6, <2>7
<1> QED BY <1>2, <1>4, <1>5

LEMMA SecondByteKeepsHands ==
  ASSUME HandInv, SecondByte
  PROVE  HandInv'
PROOF
<1>. USE DEF HandInv
<1>1. PICK b \in SecondBytes : wire = <<b>>
  BY DEF SecondByte, HandShapes
<1>2. wire' = <<>> /\ KeyboardPressed(b, shots) /\ held' = held
  BY <1>1 DEF SecondByte
<1>3. mode.e0 /\ b.key \in {"ctrl", "up"} /\ b.release \in BOOLEAN
  BY <1>1 DEF HandShapes, SecondBytes
<1>4. /\ mode' \in Modes /\ ~mode'.e0
      /\ IF b.key = "ctrl" THEN mode'.ctrl <=> ~b.release ELSE mode'.ctrl = mode.ctrl
      /\ mode'.latch <=> mode.latch /\ (b.key = "ctrl" => ~b.release)
  BY <1>2, <1>3, ByteMode
<1>5. shots' = shots
  BY <1>2, <1>3, ByteShots
<1>6. CtrlKnown' = CtrlKnown
  BY <1>1, <1>2, <1>3, <1>4 DEF CtrlKnown, Modes
<1>7. HandShapes'
  BY <1>2, <1>4, <1>5 DEF HandShapes
<1>8. CtrlFollowed'
  BY <1>2, <1>6 DEF CtrlFollowed
<1>9. LatchFollows'
  BY <1>1, <1>2, <1>3, <1>4, <1>5, <1>6 DEF LatchFollows, CtrlKnown, HandShapes, Hands, Modes,
                                            SecondBytes
<1> QED BY <1>7, <1>8, <1>9

LEMMA InitHands == KbdInit => HandInv
PROOF
<1>. SUFFICES ASSUME KbdInit PROVE HandInv
  OBVIOUS
<1>1. held \in Hands /\ mode \in Modes
  BY DEF KbdInit, Hands, Modes, Names
<1>1a. HandShapes
  BY <1>1 DEF KbdInit, HandShapes
<1>2. CtrlFollowed /\ LatchFollows
  BY DEF KbdInit, CtrlFollowed, LatchFollows, CtrlKnown, Ctrls
<1> QED BY <1>1a, <1>2 DEF HandInv

LEMMA StepKeepsHands ==
  ASSUME HandInv, [KbdNext]_kbdvars
  PROVE  HandInv'
PROOF
<1>1. CASE UNCHANGED <<held, wire, mode, shots>>
  BY <1>1 DEF HandInv, HandShapes, CtrlFollowed, LatchFollows, CtrlKnown
<1>2. CASE \E k \in Keys : Press(k) \/ Release(k)
  BY <1>2, PressKeepsHands, ReleaseKeepsHands
<1>3. CASE SecondByte
  BY <1>3, SecondByteKeepsHands
<1> QED BY <1>1, <1>2, <1>3 DEF KbdNext, kbdvars, Begins, HasNextKey, At, Fetch, Step, LoadNext,
     StoreNext, LoadCount, StoreCount, UseKey, TimesOut, CallReturns, ReaderGone

-----------------------------------------------------------------------------
(* Keyboard, the ring: proof.                                              *)

SameCall == reader' \in {reader, [reader EXCEPT !.killed = TRUE]}

LEMMA ModOnce ==
  ASSUME NEW L \in Nat \ {0}, NEW x \in Nat, x >= L, x < L + L
  PROVE  x % L = x - L
PROOF OBVIOUS

LEMMA WrapValue ==
  ASSUME NEW k \in 0..(2 * BUFFER_MAXLENGTH - 1)
  PROVE  Wrapped(k) = IF k < BUFFER_MAXLENGTH THEN k ELSE k - BUFFER_MAXLENGTH
PROOF
<1>. DEFINE L == BUFFER_MAXLENGTH
<1>1. L \in Nat \ {0}
  BY KeyboardAssumption
<1>. HIDE DEF L
<1>2. ASSUME NEW x \in 0..(2 * L - 1) PROVE x % L = IF x < L THEN x ELSE x - L
  <2>1. CASE x < L
    BY <1>1, <2>1
  <2>2. CASE x >= L
    <3>1. x \in Nat /\ x < L + L
      BY <1>1
    <3>2. x % L = x - L
      BY ONLY <1>1, <2>2, <3>1, ModOnce
    <3>3. ~(x < L)
      BY <1>1, <2>2, <3>1
    <3> QED BY <3>2, <3>3
  <2> QED BY <1>1, <2>1, <2>2
<1> QED BY <1>2 DEF Wrapped, L

\* What one byte does to the ring and to the call that reads.
LEMMA ByteEvents ==
  ASSUME NEW b, b.key \in Names \cup {"ctrl", "E0"}, NEW n, KeyboardPressed(b, n)
  PROVE  SameCall /\ (NoPush \/ \E e \in Names : Push(e))
PROOF
<1>1. SameCall
  BY DEF KeyboardPressed, Extended, Plain, Silent, Interrupts, SameCall
<1>2. CASE b.key = "E0"
  BY <1>1, <1>2 DEF KeyboardPressed
<1>3. CASE b.key # "E0" /\ mode.e0
  <2>1. NoPush \/ Push("up")
    BY <1>3 DEF KeyboardPressed, Extended
  <2> QED BY <1>1, <2>1 DEF Names
<1>4. CASE b.key # "E0" /\ ~mode.e0
  <2>1. NoPush \/ Push("^C") \/ (b.key # "ctrl" /\ KeyEvent(b.key))
    BY <1>4 DEF KeyboardPressed, Plain, Interrupts, Cancel
  <2>2. b.key # "ctrl" /\ KeyEvent(b.key) => NoPush \/ Push("^D") \/ Push(b.key)
    BY DEF KeyEvent
  <2> QED BY <1>1, <1>4, <2>1, <2>2 DEF Names
<1> QED BY <1>2, <1>3, <1>4

LEMMA HandEvents ==
  ASSUME HandInv, SecondByte \/ \E k \in Keys : Press(k) \/ Release(k)
  PROVE  SameCall /\ (NoPush \/ \E e \in Names : Push(e))
PROOF
<1>1. CASE SecondByte
  <2>1. PICK b \in SecondBytes : wire = <<b>>
    BY <1>1 DEF SecondByte, HandInv, HandShapes
  <2>2. KeyboardPressed(b, shots) /\ b.key \in {"ctrl", "up"}
    BY <1>1, <2>1 DEF SecondByte, SecondBytes
  <2> QED BY <2>2, ByteEvents DEF Names
<1>2. ASSUME NEW k \in Keys, NEW release \in BOOLEAN, NEW n, Sends(Bytes(k, release), n)
      PROVE  SameCall /\ (NoPush \/ \E e \in Names : Push(e))
  <2>. DEFINE first == [key |-> IF k = "lctrl" THEN "ctrl" ELSE k, release |-> release]
              e0 == [key |-> "E0", release |-> FALSE]
  <2>1. KeyboardPressed(e0, n) \/ KeyboardPressed(first, n)
    BY <1>2, FirstByteSent
  <2>2. e0.key \in Names \cup {"ctrl", "E0"} /\ first.key \in Names \cup {"ctrl", "E0"}
    BY KeyboardAssumption DEF Names, Letters, Ctrls
  <2>. HIDE DEF e0, first
  <2> QED BY <2>1, <2>2, ByteEvents
<1> QED BY <1>1, <1>2 DEF Press, Release

LEMMA PushShapes ==
  ASSUME RingShapes, SameCall, NEW e \in Names, Push(e)
  PROVE  RingShapes'
PROOF
<1>. USE DEF RingShapes
<1>1. reader' \in ReadCalls
  BY DEF SameCall, ReadCalls
<1>2. pending' \in Seq(Names) /\ typed' \in Seq(Names)
  BY DEF Push
<1>3. torn' \in BOOLEAN
  BY DEF Push, Spoils
<1>. DEFINE full == ring.count = BUFFER_MAXLENGTH
<1>4. /\ ring'.buf = [ring.buf EXCEPT ![ring.lastkey] = e]
      /\ ring'.lastkey = Wrapped(ring.lastkey + 1)
      /\ ring'.nextkey = IF full THEN Wrapped(ring.nextkey + 1) ELSE ring.nextkey
      /\ ring'.count = IF full THEN ring.count ELSE ring.count + 1
      /\ ring' = [buf |-> ring'.buf, lastkey |-> ring'.lastkey, nextkey |-> ring'.nextkey,
                  count |-> ring'.count]
  BY DEF Push, Pushed
<1>5. ring'.buf \in [Places -> Names] /\ ring'.count \in 0..BUFFER_MAXLENGTH
  BY <1>4, KeyboardAssumption
<1>6. Wrapped(ring.lastkey + 1) \in Places /\ Wrapped(ring.nextkey + 1) \in Places
  BY WrapValue, KeyboardAssumption DEF Places
<1>7. ring'.nextkey \in Places /\ ring'.lastkey \in Places
  BY <1>4, <1>6
<1>8. ring' \in [buf : [Places -> Names], nextkey : Places, lastkey : Places,
                 count : 0..BUFFER_MAXLENGTH]
  BY <1>4, <1>5, <1>7
<1> QED BY <1>1, <1>2, <1>3, <1>8

LEMMA PushKeepsRing ==
  ASSUME RingInv, SameCall, NEW e \in Names, Push(e)
  PROVE  RingInv'
PROOF
<1>. USE DEF RingInv
<1>1. RingShapes'
  BY PushShapes
<1>. DEFINE L == BUFFER_MAXLENGTH
            full == ring.count = L
<1>2. /\ ring'.buf = [ring.buf EXCEPT ![ring.lastkey] = e]
      /\ ring'.lastkey = Wrapped(ring.lastkey + 1)
      /\ ring'.nextkey = IF full THEN Wrapped(ring.nextkey + 1) ELSE ring.nextkey
      /\ ring'.count = IF full THEN ring.count ELSE ring.count + 1
  BY DEF Push, Pushed
<1>3. L \in Nat \ {0} /\ ring.count \in 0..L /\ ring.nextkey \in 0..(L - 1)
      /\ ring.lastkey \in 0..(L - 1) /\ ring.buf \in [0..(L - 1) -> Names]
  BY KeyboardAssumption DEF RingShapes, Places
<1>4. reader'.at = reader.at /\ reader'.reg = reader.reg
  BY DEF SameCall, RingShapes, ReadCalls
<1>5. KeysThere'
  BY <1>2, <1>3, <1>4 DEF KeysThere, Inside
<1>6. ASSUME ~torn' PROVE RingTrue'
  <2>1. ~torn /\ RingTrue /\ ~Spoils
    BY <1>6 DEF Push
  <2>2. reader.at # "dropped" /\ (full => reader.at \notin {"fetch", "advance", "advanced", "drop"})
    BY <2>1 DEF Spoils
  <2>3. First \in 0..(L - 1)
    BY <1>3, WrapValue DEF First
  <2>4. Left \in 0..L /\ (~full => Left < L) /\ (Inside' <=> Inside)
    BY <1>3, <1>4, <2>2 DEF Left, Inside, RingInv, KeysThere
  <2>5. ring.lastkey = Wrapped(First + Left) /\ Len(pending) = Left
    BY <2>1 DEF RingTrue
  <2>6. CASE ~full
    <3>1. First' = First /\ Left' = Left + 1
      BY <1>2, <1>3, <1>4, <2>4, <2>6 DEF First, Left
    <3>2. ring'.lastkey = Wrapped(First + Left + 1)
      BY <1>2, <1>3, <2>3, <2>4, <2>5, <2>6, WrapValue
    <3>3. pending' = Append(pending, e)
      BY <2>6 DEF Push
    <3>4. ASSUME NEW i \in 1..(Left + 1) PROVE pending'[i] = ring'.buf[Wrapped(First + i - 1)]
      <4>1. CASE i = Left + 1
        BY <1>2, <1>3, <2>4, <2>5, <3>3, <4>1 DEF RingShapes
      <4>2. CASE i # Left + 1
        <5>1. i \in 1..Left /\ pending'[i] = pending[i]
          BY <2>4, <2>5, <3>3, <4>2 DEF RingShapes
        <5>2. /\ Wrapped(First + i - 1) # Wrapped(First + Left)
              /\ Wrapped(First + i - 1) \in 0..(L - 1)
          BY <1>3, <2>3, <2>4, <2>6, <5>1, WrapValue
        <5> QED BY <1>2, <1>3, <2>1, <2>5, <5>1, <5>2 DEF RingTrue
      <4> QED BY <4>1, <4>2
    <3>5. Len(pending') = Left + 1
      BY <2>5, <3>3 DEF RingShapes
    <3>6. reader'.at = "advanced" => reader'.reg = ring'.nextkey
      BY <1>2, <1>4, <2>1, <2>6 DEF RingTrue
    <3> QED BY <1>4, <2>2, <2>3, <2>4, <3>1, <3>2, <3>4, <3>5, <3>6 DEF RingTrue
  <2>7. CASE full
    <3>1. /\ First = ring.nextkey /\ First' = Wrapped(ring.nextkey + 1)
          /\ Left = L /\ Left' = L
      BY <1>2, <1>4, <2>2, <2>7 DEF First, Left, Inside
    <3>2. ring.lastkey = First
      BY <1>3, <2>3, <2>5, <3>1, WrapValue
    <3>3. ring'.lastkey = Wrapped(First' + Left')
      BY <1>2, <1>3, <2>3, <3>1, <3>2, WrapValue
    <3>4. pending' = Append(Tail(pending), e)
      BY <1>3, <2>5, <2>7, <3>1 DEF Push, RingShapes
    <3>5. /\ Tail(pending) \in Seq(Names) /\ Len(Tail(pending)) = L - 1
          /\ \A i \in 1..(L - 1) : Tail(pending)[i] = pending[i + 1]
      <4>1. pending \in Seq(Names) /\ Len(pending) = L /\ L \in Nat \ {0}
        BY <1>3, <2>5, <3>1 DEF RingShapes
      <4> QED BY <4>1
    <3>6. ASSUME NEW i \in 1..L PROVE pending'[i] = ring'.buf[Wrapped(First' + i - 1)]
      <4>1. CASE i = L
        <5>1. Wrapped(First' + i - 1) = First
          BY <1>3, <2>3, <3>1, <4>1, WrapValue
        <5> QED BY <1>2, <1>3, <2>3, <3>2, <3>4, <3>5, <4>1, <5>1
      <4>2. CASE i # L
        <5>1. pending'[i] = pending[i + 1] /\ i + 1 \in 1..L
          BY <1>3, <3>4, <3>5, <4>2
        <5>2. First' = IF First = L - 1 THEN 0 ELSE First + 1
          BY <1>3, <2>3, <3>1, WrapValue
        <5>3. Wrapped(First' + i - 1) = IF First + i < L THEN First + i ELSE First + i - L
          BY <1>3, <2>3, <5>2, <4>2, WrapValue
        <5>4. Wrapped(First + (i + 1) - 1) = IF First + i < L THEN First + i ELSE First + i - L
          BY <1>3, <2>3, <4>2, WrapValue
        <5>5. /\ Wrapped(First' + i - 1) = Wrapped(First + (i + 1) - 1)
              /\ Wrapped(First' + i - 1) # First
              /\ Wrapped(First' + i - 1) \in 0..(L - 1)
          <6>1. Wrapped(First' + i - 1) = Wrapped(First + (i + 1) - 1)
            BY <5>3, <5>4
          <6>. DEFINE w == Wrapped(First' + i - 1)
          <6>2. w = IF First + i < L THEN First + i ELSE First + i - L
            BY <5>3
          <6>. HIDE DEF w
          <6>3. w # First /\ w \in 0..(L - 1)
            BY <1>3, <2>3, <4>2, <6>2
          <6> QED BY <6>1, <6>3 DEF w
        <5>6. pending[i + 1] = ring.buf[Wrapped(First + (i + 1) - 1)]
          BY <2>1, <3>1, <5>1 DEF RingTrue
        <5>7. ring'.buf[Wrapped(First' + i - 1)] = ring.buf[Wrapped(First' + i - 1)]
          BY <1>2, <1>3, <3>2, <5>5
        <5> QED BY <5>1, <5>5, <5>6, <5>7
      <4> QED BY <4>1, <4>2
    <3>7. Len(pending') = L
      BY <1>3, <3>4, <3>5
    <3> QED BY <1>4, <2>2, <2>7, <3>1, <3>3, <3>6, <3>7 DEF RingTrue
  <2> QED BY <2>6, <2>7
<1> QED BY <1>1, <1>5, <1>6

\* The steps of a system call that do not touch the ring.
LEMMA QuietKeepsRing ==
  ASSUME RingInv, UNCHANGED <<ring, pending>>, typed' \in Seq(Names), reader' \in ReadCalls,
         torn' \in BOOLEAN, torn => torn',
         reader'.at \in {"none", "loop", "use", "done"} \/ reader'.at = reader.at,
         reader'.at = reader.at => reader'.reg = reader.reg,
         ~torn' /\ reader'.at # reader.at => ~Inside
  PROVE  RingInv'
PROOF
<1>. USE DEF RingInv
<1>1. RingShapes'
  BY DEF RingShapes
<1>2. KeysThere'
  BY DEF KeysThere, Inside
<1>3. ASSUME ~torn' PROVE RingTrue'
  <2>1. First' = First /\ Left' = Left
    BY <1>3 DEF First, Left, Inside
  <2> QED BY <1>3, <2>1 DEF RingTrue, Inside
<1> QED BY <1>1, <1>2, <1>3

LEMMA NoReaderIsCall == NoReader \in ReadCalls /\ <<>> \in Seq(Names)
PROOF BY DEF ReadCalls, NoReader, NoEvent, Names

LEMMA BeginsKeepsRing ==
  ASSUME RingInv, NEW kind \in {"line", "char", "enter"}, NEW who \in {"shell", "child"},
         Begins(kind, who)
  PROVE  RingInv'
PROOF
<1>. USE DEF RingInv
<1>1. /\ reader.at = "none" /\ typed' = <<>>
      /\ reader' = [NoReader EXCEPT !.at = "loop", !.kind = kind, !.who = who]
  BY DEF Begins
<1>2. reader' \in ReadCalls /\ reader'.at = "loop"
  <2>. HIDE DEF NoReader
  <2> QED BY <1>1, NoReaderIsCall DEF ReadCalls
<1>3. CASE kind = "char"
  <2>1. UNCHANGED <<ring, pending, torn>>
    BY <1>3 DEF Begins
  <2> QED BY <1>1, <1>2, <2>1, QuietKeepsRing DEF RingShapes, Inside
<1>4. CASE kind # "char"
  <2>1. ring' = Cleared(ring) /\ pending' = <<>> /\ torn' = FALSE
    BY <1>4 DEF Begins
  <2>2. /\ ring' \in [buf : [Places -> Names], nextkey : Places, lastkey : Places,
                      count : 0..BUFFER_MAXLENGTH]
        /\ ring'.nextkey = 0 /\ ring'.lastkey = 0 /\ ring'.count = 0
    <3>1. 0 \in Places /\ 0 \in 0..BUFFER_MAXLENGTH
      BY KeyboardAssumption DEF Places
    <3> QED BY <2>1, <3>1 DEF RingShapes, Cleared
  <2>3. RingShapes'
    BY <1>1, <1>2, <2>1, <2>2, NoReaderIsCall DEF RingShapes
  <2>4. First' = 0 /\ Left' = 0
    BY <1>2, <2>2 DEF First, Left, Inside
  <2>5. Wrapped(0) = 0
    BY WrapValue, KeyboardAssumption
  <2>6. RingTrue'
    BY <1>2, <2>1, <2>2, <2>4, <2>5 DEF RingTrue
  <2> QED BY <1>2, <2>3, <2>6 DEF KeysThere, Inside
<1> QED BY <1>3, <1>4

LEMMA HasNextKeyKeepsRing ==
  ASSUME RingInv, HasNextKey
  PROVE  RingInv'
PROOF
<1>. USE DEF RingInv
<1>1. /\ ring.count > 0 /\ reader.at = "loop" /\ reader' = [reader EXCEPT !.at = "fetch"]
      /\ UNCHANGED <<ring, pending, typed, torn>>
  BY DEF HasNextKey, At
<1>2. reader' \in ReadCalls /\ reader'.at = "fetch"
  BY <1>1 DEF RingShapes, ReadCalls
<1>3. RingShapes' /\ KeysThere'
  BY <1>1, <1>2 DEF RingShapes, KeysThere, Inside
<1>4. First' = First /\ Left' = Left
  BY <1>1, <1>2 DEF First, Left, Inside
<1> QED BY <1>1, <1>2, <1>3, <1>4 DEF RingTrue

LEMMA FetchKeepsRing ==
  ASSUME RingInv, Fetch
  PROVE  /\ RingInv'
         /\ ~torn => pending # <<>> /\ reader'.ev = Head(pending) /\ reader'.taken = Head(pending)
PROOF
<1>. USE DEF RingInv
<1>. DEFINE L == BUFFER_MAXLENGTH
            taken == IF pending = <<>> THEN NoEvent ELSE Head(pending)
<1>1. /\ reader.at = "fetch" /\ UNCHANGED <<ring, typed, torn>>
      /\ reader' = [reader EXCEPT !.at = "advance", !.ev = ring.buf[ring.nextkey], !.taken = taken]
      /\ pending' = IF pending = <<>> THEN pending ELSE Tail(pending)
  BY DEF Fetch
<1>2. L \in Nat \ {0} /\ ring.count \in 1..L /\ ring.nextkey \in 0..(L - 1)
      /\ ring.buf[ring.nextkey] \in Names
  BY <1>1, KeyboardAssumption DEF RingShapes, KeysThere, Places
<1>3. taken \in Names
  BY DEF RingShapes, NoEvent, Names
<1>. HIDE DEF taken
<1>4. /\ reader' \in ReadCalls /\ reader'.at = "advance"
      /\ reader'.ev = ring.buf[ring.nextkey] /\ reader'.taken = taken
  BY <1>1, <1>2, <1>3 DEF RingShapes, ReadCalls
<1>5. RingShapes' /\ KeysThere'
  BY <1>1, <1>2, <1>4 DEF RingShapes, KeysThere, Inside
<1>6. ASSUME ~torn
      PROVE  RingTrue' /\ pending # <<>> /\ reader'.ev = Head(pending) /\ taken = Head(pending)
  <2>1. First = ring.nextkey /\ Left = ring.count
    BY <1>1 DEF First, Left, Inside
  <2>2. First' = Wrapped(First + 1) /\ Left' = Left - 1
    BY <1>1, <1>4, <2>1 DEF First, Left, Inside
  <2>3. RingTrue /\ Len(pending) = Left /\ pending # <<>>
    BY <1>2, <1>6, <2>1 DEF RingTrue, RingShapes
  <2>4. /\ pending' = Tail(pending) /\ Len(pending') = Left - 1
        /\ \A i \in 1..(Left - 1) : pending'[i] = pending[i + 1]
    BY <1>1, <1>2, <2>1, <2>3 DEF RingShapes
  <2>5. ASSUME NEW i \in 1..(Left - 1)
        PROVE  pending'[i] = ring'.buf[Wrapped(First' + i - 1)]
    <3>1. pending[i + 1] = ring.buf[Wrapped(First + (i + 1) - 1)]
      <4>1. Left \in Int
        BY <1>2, <2>1
      <4>2. i + 1 \in 1..Left
        BY <4>1
      <4>3. \A k \in 1..Left : pending[k] = ring.buf[Wrapped(First + k - 1)]
        BY <2>3 DEF RingTrue
      <4> QED BY <4>2, <4>3
    <3>2. Wrapped(First' + i - 1) = Wrapped(First + (i + 1) - 1)
      <4>1. First' = IF First = L - 1 THEN 0 ELSE First + 1
        BY <1>2, <2>1, <2>2, WrapValue
      <4>2. Wrapped(First' + i - 1) = IF First + i < L THEN First + i ELSE First + i - L
        BY <1>2, <2>1, <4>1, WrapValue
      <4>3. Wrapped(First + (i + 1) - 1) = IF First + i < L THEN First + i ELSE First + i - L
        BY <1>2, <2>1, WrapValue
      <4> QED BY <4>2, <4>3
    <3> QED BY <1>1, <2>4, <3>1, <3>2
  <2>6. ring'.lastkey = Wrapped(First' + Left')
    <3>1. First' = IF First = L - 1 THEN 0 ELSE First + 1
      BY <1>2, <2>1, <2>2, WrapValue
    <3>2. Wrapped(First' + Left') = IF First + Left < L THEN First + Left ELSE First + Left - L
      BY <1>2, <2>1, <2>2, <3>1, WrapValue
    <3>3. Wrapped(First + Left) = IF First + Left < L THEN First + Left ELSE First + Left - L
      BY <1>2, <2>1, WrapValue
    <3> QED BY <1>1, <2>3, <3>2, <3>3 DEF RingTrue
  <2>7. RingTrue'
    BY <1>4, <2>2, <2>4, <2>5, <2>6 DEF RingTrue
  <2>8. Head(pending) = ring.buf[Wrapped(First)]
    BY <1>2, <2>1, <2>3 DEF RingTrue
  <2>9. Wrapped(First) = First
    BY <1>2, <2>1, WrapValue
  <2> QED BY <1>4, <2>1, <2>3, <2>7, <2>8, <2>9 DEF taken
<1> QED BY <1>1, <1>4, <1>5, <1>6

LEMMA LoadNextKeepsRing ==
  ASSUME RingInv, LoadNext
  PROVE  RingInv'
PROOF
<1>. USE DEF RingInv
<1>1. /\ reader.at = "advance" /\ UNCHANGED <<ring, pending, typed, torn>>
      /\ reader' = [reader EXCEPT !.at = "advanced", !.reg = ring.nextkey]
  BY DEF LoadNext, Step
<1>2. reader' \in ReadCalls /\ reader'.at = "advanced" /\ reader'.reg = ring.nextkey
  <2>1. ring.nextkey \in Nat
    BY KeyboardAssumption DEF RingShapes, Places
  <2> QED BY <1>1, <2>1 DEF RingShapes, ReadCalls
<1>3. RingShapes' /\ KeysThere'
  BY <1>1, <1>2 DEF RingShapes, KeysThere, Inside
<1>4. First' = First /\ Left' = Left
  BY <1>1, <1>2 DEF First, Left, Inside
<1> QED BY <1>1, <1>2, <1>3, <1>4 DEF RingTrue

LEMMA StoreNextKeepsRing ==
  ASSUME RingInv, StoreNext
  PROVE  RingInv'
PROOF
<1>. USE DEF RingInv
<1>1. /\ reader.at = "advanced" /\ UNCHANGED <<pending, typed, torn>>
      /\ reader' = [reader EXCEPT !.at = "drop", !.reg = 0]
      /\ ring' = [ring EXCEPT !.nextkey = Wrapped(reader.reg + 1)]
  BY DEF StoreNext, Step
<1>2. reader' \in ReadCalls /\ reader'.at = "drop"
  BY <1>1 DEF RingShapes, ReadCalls
<1>3. Wrapped(reader.reg + 1) \in Places
  BY <1>1, WrapValue, KeyboardAssumption DEF KeysThere, Places
<1>4. /\ ring' \in [buf : [Places -> Names], nextkey : Places, lastkey : Places,
                    count : 0..BUFFER_MAXLENGTH]
      /\ ring'.nextkey = Wrapped(reader.reg + 1)
      /\ ring'.lastkey = ring.lastkey /\ ring'.count = ring.count /\ ring'.buf = ring.buf
  BY <1>1, <1>3 DEF RingShapes
<1>5. RingShapes' /\ KeysThere'
  BY <1>1, <1>2, <1>4 DEF RingShapes, KeysThere, Inside
<1>6. ASSUME ~torn PROVE RingTrue'
  <2>1. First' = First /\ Left' = Left
    BY <1>1, <1>2, <1>4, <1>6 DEF First, Left, Inside, RingTrue
  <2> QED BY <1>1, <1>2, <1>4, <1>6, <2>1 DEF RingTrue
<1> QED BY <1>1, <1>5, <1>6

LEMMA LoadCountKeepsRing ==
  ASSUME RingInv, LoadCount
  PROVE  RingInv'
PROOF
<1>. USE DEF RingInv
<1>1. /\ reader.at = "drop" /\ UNCHANGED <<ring, pending, typed, torn>>
      /\ reader' = [reader EXCEPT !.at = "dropped", !.reg = ring.count]
  BY DEF LoadCount, Step
<1>2. reader' \in ReadCalls /\ reader'.at = "dropped" /\ reader'.reg = ring.count
  <2>1. ring.count \in Nat
    BY KeyboardAssumption DEF RingShapes
  <2> QED BY <1>1, <2>1 DEF RingShapes, ReadCalls
<1>3. RingShapes' /\ KeysThere'
  BY <1>1, <1>2, KeyboardAssumption DEF RingShapes, KeysThere, Inside
<1>4. First' = First /\ Left' = Left
  BY <1>1, <1>2 DEF First, Left, Inside
<1> QED BY <1>1, <1>2, <1>3, <1>4 DEF RingTrue

LEMMA StoreCountKeepsRing ==
  ASSUME RingInv, StoreCount
  PROVE  RingInv'
PROOF
<1>. USE DEF RingInv
<1>1. /\ reader.at = "dropped" /\ UNCHANGED <<pending, typed, torn>>
      /\ reader' = [reader EXCEPT !.at = "use", !.reg = 0]
      /\ ring' = [ring EXCEPT !.count = reader.reg - 1]
  BY DEF StoreCount, Step
<1>2. reader' \in ReadCalls /\ reader'.at = "use"
  BY <1>1 DEF RingShapes, ReadCalls
<1>3. reader.reg - 1 \in 0..BUFFER_MAXLENGTH
  BY <1>1, KeyboardAssumption DEF KeysThere
<1>4. /\ ring' \in [buf : [Places -> Names], nextkey : Places, lastkey : Places,
                    count : 0..BUFFER_MAXLENGTH]
      /\ ring'.count = reader.reg - 1
      /\ ring'.lastkey = ring.lastkey /\ ring'.nextkey = ring.nextkey /\ ring'.buf = ring.buf
  BY <1>1, <1>3 DEF RingShapes
<1>5. RingShapes' /\ KeysThere'
  BY <1>1, <1>2, <1>4 DEF RingShapes, KeysThere, Inside
<1>6. ASSUME ~torn PROVE RingTrue'
  <2>1. First' = First /\ Left' = Left
    BY <1>1, <1>2, <1>4, <1>6 DEF First, Left, Inside, RingTrue
  <2> QED BY <1>1, <1>2, <1>4, <1>6, <2>1 DEF RingTrue
<1> QED BY <1>1, <1>5, <1>6

\* The rest of a call: it uses the event, goes on or returns.
LEMMA UseShapes ==
  ASSUME RingInv, UseKey \/ TimesOut
  PROVE  /\ reader' \in ReadCalls /\ reader'.at \in {"loop", "done"} /\ ~Inside
         /\ reader'.at # reader.at /\ UNCHANGED <<ring, pending, typed, torn>>
PROOF
<1>. USE DEF RingInv
<1>1. reader \in ReadCalls /\ reader.text \in Seq(Names) /\ reader.ev \in Names
  BY DEF RingShapes, ReadCalls
<1>2. ASSUME NEW text \in Seq(Names), NEW code \in Nat, GoOn(text) \/ Return(text, code)
      PROVE  /\ reader' \in ReadCalls /\ reader'.at \in {"loop", "done"}
             /\ Return(text, code) => reader'.at = "done"
  <2>0. Return(text, code) => reader'.at = "done"
    BY <1>1 DEF Return, ReadCalls
  <2>1. CASE GoOn(text)
    BY <1>1, <2>0, <2>1 DEF GoOn, ReadCalls, NoEvent, Names
  <2>2. CASE Return(text, code)
    BY <1>1, <2>2 DEF Return, ReadCalls, NoEvent, Names
  <2> QED BY <1>2, <2>1, <2>2
<1>3. CASE TimesOut
  <2>1. reader.at = "loop" /\ Return(reader.text, Len(reader.text)) /\ Len(reader.text) \in Nat
    BY <1>1, <1>3 DEF TimesOut
  <2> QED BY <1>1, <1>2, <1>3, <2>1 DEF TimesOut, Inside
<1>4. CASE UseKey
  <2>. DEFINE text == reader.text  e == reader.ev
  <2>1. /\ Append(text, e) \in Seq(Names) /\ Len(Append(text, e)) \in Nat /\ Len(text) \in Nat
        /\ <<>> \in Seq(Names)
        /\ text # <<>> => Front(text) \in Seq(Names)
    BY <1>1 DEF Front
  <2>2. OneIfEmpty(text) \in Nat
    BY <2>1 DEF OneIfEmpty
  <2>3. CASE reader.kind = "line"
    <3>1. UseInLine(e, text)
      BY <1>4, <2>3 DEF UseKey
    <3>2. \E t \in Seq(Names), c \in Nat : GoOn(t) \/ Return(t, c)
      BY <1>1, <2>1, <2>2, <3>1 DEF UseInLine
    <3> QED BY <1>2, <1>4, <3>2 DEF UseKey, Inside
  <2>4. CASE reader.kind = "char"
    <3>1. \E t \in Seq(Names), c \in Nat : GoOn(t) \/ Return(t, c)
      BY <1>1, <1>4, <2>1, <2>4 DEF UseKey, UseInBatch
    <3> QED BY <1>2, <1>4, <3>1 DEF UseKey, Inside
  <2>5. CASE reader.kind = "enter"
    <3>1. GoOn(<<>>) \/ Return(<<>>, 1)
      BY <1>4, <2>5 DEF UseKey
    <3> QED BY <1>2, <1>4, <2>1, <3>1 DEF UseKey, Inside
  <2> QED BY <1>1, <2>3, <2>4, <2>5 DEF ReadCalls
<1> QED BY <1>3, <1>4

LEMMA RestKeepsRing ==
  ASSUME RingInv, UseKey \/ TimesOut \/ CallReturns \/ ReaderGone
  PROVE  RingInv'
PROOF
<1>1. NoReader \in ReadCalls /\ <<>> \in Seq(Names)
  BY NoReaderIsCall
<1>2. CASE UseKey \/ TimesOut
  BY <1>2, UseShapes, QuietKeepsRing DEF RingInv, RingShapes, Inside
<1>3. CASE CallReturns
  <2>1. /\ reader.at = "done" /\ reader' = NoReader /\ typed' = <<>>
        /\ UNCHANGED <<ring, pending, torn>>
    BY <1>3 DEF CallReturns
  <2> QED BY <1>1, <2>1, QuietKeepsRing DEF RingInv, RingShapes, Inside, NoReader
<1>4. CASE ReaderGone
  <2>1. /\ reader' = NoReader /\ typed' = <<>> /\ torn' = (torn \/ Inside)
        /\ UNCHANGED <<ring, pending>>
    BY <1>4 DEF ReaderGone, Inside
  <2>2. torn' \in BOOLEAN
    BY <2>1
  <2>3. ASSUME reader.at = "none" PROVE ~Inside
    BY <2>3 DEF Inside
  <2>4. reader'.at = "none"
    BY <2>1 DEF NoReader
  <2>5. CASE reader.at # "none"
    BY <1>1, <2>1, <2>2, <2>4, <2>5, QuietKeepsRing
  <2>6. CASE reader.at = "none"
    <3>1. torn' = torn
      BY <2>1, <2>3, <2>6 DEF RingInv, RingShapes
    <3>2. First' = First /\ Left' = Left
      BY <2>1, <2>4, <2>6 DEF First, Left, Inside
    <3> QED BY <1>1, <2>1, <2>4, <2>6, <3>1, <3>2 DEF RingInv, RingShapes, KeysThere, RingTrue,
                                                      Inside
  <2> QED BY <2>5, <2>6
<1> QED BY <1>2, <1>3, <1>4

LEMMA InitRing == KbdInit => RingInv
PROOF
<1>. SUFFICES ASSUME KbdInit PROVE RingInv
  OBVIOUS
<1>1. 0 \in Places /\ 0 \in 0..BUFFER_MAXLENGTH /\ Wrapped(0) = 0
  BY WrapValue, KeyboardAssumption DEF Places
<1>2. /\ ring \in [buf : [Places -> Names], nextkey : Places, lastkey : Places,
                   count : 0..BUFFER_MAXLENGTH]
      /\ ring.nextkey = 0 /\ ring.lastkey = 0 /\ ring.count = 0
  BY <1>1 DEF KbdInit, NoEvent, Names
<1>3. reader = NoReader /\ pending = <<>> /\ typed = <<>> /\ torn = FALSE
  BY DEF KbdInit
<1>4. reader.at = "none"
  BY <1>3 DEF NoReader
<1>5. RingShapes
  BY <1>2, <1>3, NoReaderIsCall DEF RingShapes
<1>6. First = 0 /\ Left = 0
  BY <1>2, <1>4 DEF First, Left, Inside
<1> QED BY <1>1, <1>2, <1>3, <1>4, <1>5, <1>6 DEF RingInv, KeysThere, RingTrue, Inside

LEMMA StepKeepsRing ==
  ASSUME HandInv, RingInv, [KbdNext]_kbdvars
  PROVE  RingInv'
PROOF
<1>1. CASE SecondByte \/ \E k \in Keys : Press(k) \/ Release(k)
  <2>1. SameCall /\ (NoPush \/ \E e \in Names : Push(e))
    BY <1>1, HandEvents
  <2>2. CASE NoPush
    <3>1. reader' \in ReadCalls /\ reader'.at = reader.at /\ reader'.reg = reader.reg
      BY <2>1 DEF SameCall, RingInv, RingShapes, ReadCalls
    <3> QED BY <2>2, <3>1, QuietKeepsRing DEF NoPush, RingInv, RingShapes
  <2> QED BY <2>1, <2>2, PushKeepsRing
<1>2. CASE Begins("line", "shell") \/ \E kind \in {"line", "char", "enter"} : Begins(kind, "child")
  BY <1>2, BeginsKeepsRing
<1>3. CASE HasNextKey \/ Fetch \/ LoadNext \/ StoreNext \/ LoadCount \/ StoreCount
  BY <1>3, HasNextKeyKeepsRing, FetchKeepsRing, LoadNextKeepsRing, StoreNextKeepsRing,
     LoadCountKeepsRing, StoreCountKeepsRing
<1>4. CASE UseKey \/ TimesOut \/ CallReturns \/ ReaderGone
  BY <1>4, RestKeepsRing
<1>5. CASE UNCHANGED kbdvars
  BY <1>5, QuietKeepsRing DEF kbdvars, RingInv, RingShapes
<1> QED BY <1>1, <1>2, <1>3, <1>4, <1>5 DEF KbdNext

THEOREM KeyboardInvariant == KbdSpec => [](HandInv /\ RingInv)
PROOF
<1>1. KbdInit => HandInv /\ RingInv
  BY InitHands, InitRing
<1>2. HandInv /\ RingInv /\ [KbdNext]_kbdvars => (HandInv /\ RingInv)'
  BY StepKeepsHands, StepKeepsRing
<1> QED BY <1>1, <1>2, PTL DEF KbdSpec

\* Outside getNextKey the ring holds, in order, the latest events that were typed
\* and not read, unless an interrupt came where Spoils says (pushEvent and
\* getNextKey), for a buffer of any length.
THEOREM RingAlwaysHoldsPending == KbdSpec => []RingHoldsPending
PROOF
<1>1. ASSUME RingInv PROVE RingHoldsPending
  <2>. USE <1>1 DEF RingInv
  <2>1. SUFFICES ASSUME ~torn, reader.at \in {"none", "loop", "use", "done"}
                 PROVE  Content = pending /\ ring.lastkey = Wrapped(ring.nextkey + ring.count)
    BY DEF RingHoldsPending
  <2>2. First = ring.nextkey /\ Left = ring.count /\ RingTrue
    BY <2>1 DEF First, Left, Inside
  <2>3. ring.count \in Nat /\ pending \in Seq(Names) /\ Len(pending) = ring.count
    BY <2>2, KeyboardAssumption DEF RingShapes, RingTrue
  <2>4. pending = [i \in 1..ring.count |-> pending[i]]
    BY <2>3
  <2>5. \A i \in 1..ring.count : pending[i] = ring.buf[Wrapped(ring.nextkey + i - 1)]
    BY <2>2 DEF RingTrue
  <2> QED BY <2>2, <2>4, <2>5 DEF RingTrue, Content
<1> QED BY <1>1, KeyboardInvariant, PTL

\* Holding Ctrl+C down kills or cancels once, and every press of c with one Ctrl
\* down does so (keyboardPressed, with ctrlC_latch).
THEOREM OneInterruptPerPress == KbdSpec => []CtrlCOncePerPress
PROOF
<1>1. HandInv => CtrlCOncePerPress
  BY DEF HandInv, HandShapes, LatchFollows, CtrlCOncePerPress
<1> QED BY <1>1, KeyboardInvariant, PTL

-----------------------------------------------------------------------------
(* Keyboard, the line: proof.                                              *)

LEMMA DrawnNothing ==
  ASSUME NEW t, NEW m \in Nat
  PROVE  DrawnFrom(<<>>, t, m)
PROOF
<1>. DEFINE f == [i \in 1..0 |-> 1]
<1>1. 1..Len(<<>>) = {} /\ 1..0 = {}
  OBVIOUS
<1>2. f \in [1..Len(<<>>) -> 1..m]
  BY <1>1
<1> QED BY <1>1, <1>2 DEF DrawnFrom

LEMMA DrawnMore ==
  ASSUME NEW s \in Seq(Names), NEW t, NEW u, NEW m \in Nat, NEW n \in Nat, m <= n,
         DrawnFrom(s, t, m), \A i \in 1..m : u[i] = t[i]
  PROVE  DrawnFrom(s, u, n)
PROOF
<1>1. PICK f \in [1..Len(s) -> 1..m] :
        /\ \A i \in 1..Len(s) : t[f[i]] = s[i]
        /\ \A i, j \in 1..Len(s) : i < j => f[i] < f[j]
  BY DEF DrawnFrom
<1>2. f \in [1..Len(s) -> 1..n]
  BY <1>1
<1>3. \A i \in 1..Len(s) : u[f[i]] = s[i]
  BY <1>1
<1> QED BY <1>1, <1>2, <1>3 DEF DrawnFrom

LEMMA DrawnFront ==
  ASSUME NEW s \in Seq(Names), s # <<>>, NEW t, NEW m \in Nat, DrawnFrom(s, t, m)
  PROVE  DrawnFrom(Front(s), t, m)
PROOF
<1>1. PICK f \in [1..Len(s) -> 1..m] :
        /\ \A i \in 1..Len(s) : t[f[i]] = s[i]
        /\ \A i, j \in 1..Len(s) : i < j => f[i] < f[j]
  BY DEF DrawnFrom
<1>. DEFINE n == Len(s) - 1
            g == [i \in 1..n |-> f[i]]
<1>2. n \in Nat /\ Len(Front(s)) = n /\ \A i \in 1..n : Front(s)[i] = s[i]
  <2>1. Len(s) \in Nat /\ Len(s) # 0
    OBVIOUS
  <2>2. n \in 0..Len(s) /\ Front(s) = SubSeq(s, 1, n)
    BY <2>1 DEF Front
  <2>. HIDE DEF n
  <2>3. Len(SubSeq(s, 1, n)) = n /\ \A i \in 1..n : SubSeq(s, 1, n)[i] = s[i]
    BY <2>1, <2>2, SubSeqProperties
  <2> QED BY <2>2, <2>3
<1>3. g \in [1..n -> 1..m]
  BY <1>1, <1>2
<1>4. \A i \in 1..n : t[g[i]] = Front(s)[i]
  BY <1>1, <1>2
<1>5. \A i, j \in 1..n : i < j => g[i] < g[j]
  BY <1>1, <1>2
<1>. HIDE DEF g, n
<1> QED BY <1>2, <1>3, <1>4, <1>5 DEF DrawnFrom

LEMMA DrawnAppend ==
  ASSUME NEW s \in Seq(Names), NEW t, NEW m \in Nat \ {0}, t[m] \in Names, DrawnFrom(s, t, m - 1)
  PROVE  DrawnFrom(Append(s, t[m]), t, m)
PROOF
<1>1. PICK f \in [1..Len(s) -> 1..(m - 1)] :
        /\ \A i \in 1..Len(s) : t[f[i]] = s[i]
        /\ \A i, j \in 1..Len(s) : i < j => f[i] < f[j]
  BY DEF DrawnFrom
<1>. DEFINE n == Len(s) + 1
            more == Append(s, t[m])
            g == [i \in 1..n |-> IF i = n THEN m ELSE f[i]]
<1>2. /\ n \in Nat /\ Len(more) = n /\ more[n] = t[m]
      /\ \A i \in 1..n : i # n => i \in 1..Len(s) /\ more[i] = s[i]
  OBVIOUS
<1>3. g \in [1..n -> 1..m]
  BY <1>1, <1>2
<1>4. \A i \in 1..n : t[g[i]] = more[i]
  BY <1>1, <1>2
<1>5. ASSUME NEW i \in 1..n, NEW j \in 1..n, i < j PROVE g[i] < g[j]
  <2>1. i \in 1..Len(s) /\ g[i] = f[i] /\ f[i] \in 1..(m - 1)
    BY <1>1, <1>2, <1>5
  <2>2. CASE j = n
    BY <2>1, <2>2
  <2>3. CASE j # n
    BY <1>1, <1>2, <1>5, <2>1, <2>3
  <2> QED BY <2>2, <2>3
<1>. HIDE DEF g, n, more
<1>6. DrawnFrom(more, t, m)
  BY <1>2, <1>3, <1>4, <1>5 DEF DrawnFrom
<1> QED BY <1>6 DEF more

LEMMA PushKeepsLine ==
  ASSUME RingInv, LineInv, SameCall, NEW e \in Names, Push(e)
  PROVE  LineInv'
PROOF
<1>. SUFFICES ASSUME Reads', ~torn' PROVE LineTrue'
  BY DEF LineInv
<1>. USE DEF RingInv
<1>1. /\ reader'.at = reader.at /\ reader'.kind = reader.kind /\ reader'.ev = reader.ev
      /\ reader'.text = reader.text /\ reader'.taken = reader.taken /\ reader'.code = reader.code
      /\ reader.text \in Seq(Names)
  BY DEF SameCall, RingShapes, ReadCalls
<1>2. Reads /\ ~torn /\ ~Spoils /\ RingTrue /\ LineTrue
  BY <1>1 DEF Reads, LineInv, Push
<1>3. pending \in Seq(Names) /\ typed \in Seq(Names)
  BY DEF RingShapes
<1>. DEFINE dropped == ring.count = BUFFER_MAXLENGTH
            step == IF dropped THEN 1 ELSE 0
<1>4. dropped => pending # <<>> /\ ~Inside /\ reader.at # "fetch"
  BY <1>2, <1>3, KeyboardAssumption DEF Spoils, RingTrue, Left, Inside
<1>5. /\ typed' = Append(typed, e) /\ Len(typed') = Len(typed) + 1
      /\ \A i \in 1..Len(typed) : typed'[i] = typed[i]
      /\ typed'[Len(typed) + 1] = e
  BY <1>2, <1>3 DEF Push, Reads
<1>6. pending' = Append(IF dropped THEN Tail(pending) ELSE pending, e)
  BY <1>4 DEF Push
<1>7. /\ Len(pending') = Len(pending) + 1 - step
      /\ \A i \in 1..(Len(pending) - step) : pending'[i] = pending[i + step]
      /\ pending'[Len(pending) + 1 - step] = e
  BY <1>3, <1>4, <1>6
<1>8. Past' = Past + step /\ Past \in Nat /\ Past <= Len(typed)
  BY <1>2, <1>3, <1>5, <1>7 DEF Past, LineTrue
<1>9. ASSUME NEW i \in 1..Len(pending') PROVE pending'[i] = typed'[Past' + i]
  <2>1. CASE i = Len(pending')
    BY <1>3, <1>5, <1>7, <1>8, <2>1 DEF Past
  <2>2. CASE i # Len(pending')
    <3>1. /\ i \in 1..(Len(pending) - step) /\ i + step \in 1..Len(pending)
          /\ Past + (i + step) \in 1..Len(typed)
      BY <1>3, <1>7, <1>8, <2>2 DEF Past
    <3>2. pending[i + step] = typed[Past + (i + step)]
      BY <1>2, <3>1 DEF LineTrue
    <3>3. Past' + i = Past + (i + step)
      BY <1>8, <3>1
    <3> QED BY <1>5, <1>7, <3>1, <3>2, <3>3
  <2> QED BY <2>1, <2>2
<1>10. ASSUME NEW m \in Nat, NEW n \in Nat, m <= Past, m <= n, DrawnFrom(reader.text, typed, m)
       PROVE  DrawnFrom(reader.text, typed', n)
  <2>1. \A i \in 1..m : typed'[i] = typed[i]
    BY <1>3, <1>5, <1>8, <1>10
  <2> QED BY <1>1, <1>10, <2>1, DrawnMore
<1>11. reader.at \in {"loop", "fetch", "done"} => DrawnFrom(reader'.text, typed', Past')
  BY <1>1, <1>2, <1>8, <1>10 DEF LineTrue
<1>12. ASSUME Inside \/ reader.at \in {"use", "done"} PROVE \E m \in 1..Past' : TakenAt(m)'
  <2>1. PICK m \in 1..Past : TakenAt(m)
    BY <1>2, <1>12 DEF LineTrue
  <2>2. m \in 1..Past' /\ typed'[m] = typed[m] /\ m - 1 \in Nat /\ m - 1 <= Past
    BY <1>5, <1>8
  <2>3. TakenAt(m)'
    BY <1>1, <1>10, <2>1, <2>2 DEF TakenAt
  <2> QED BY <2>2, <2>3
<1>13. Inside' <=> Inside
  BY <1>1 DEF Inside
<1> QED BY <1>1, <1>2, <1>8, <1>9, <1>11, <1>12, <1>13 DEF LineTrue

\* The steps inside getNextKey after it has taken the event, and those before.
LEMMA InsideKeepsLine ==
  ASSUME RingInv, LineInv, UNCHANGED <<pending, typed, torn>>, reader' \in ReadCalls,
         reader'.ev = reader.ev, reader'.text = reader.text, reader'.taken = reader.taken,
         reader'.kind = reader.kind, reader'.code = reader.code,
         \/ reader'.at = reader.at
         \/ reader.at = "loop" /\ reader'.at = "fetch"
         \/ Inside /\ reader'.at \in {"advanced", "drop", "dropped", "use"}
  PROVE  LineInv'
PROOF
<1>. SUFFICES ASSUME Reads', ~torn' PROVE LineTrue'
  BY DEF LineInv
<1>1. Reads /\ LineTrue
  BY DEF LineInv, Reads, Inside
<1>2. Past' = Past
  BY DEF Past
<1>3. \A m \in 1..Past : TakenAt(m) /\ (Inside \/ reader'.at = reader.at) => TakenAt(m)'
  BY DEF TakenAt, Inside
<1> QED BY <1>1, <1>2, <1>3 DEF LineTrue, Inside

LEMMA FetchKeepsLine ==
  ASSUME RingInv, LineInv, Fetch
  PROVE  LineInv'
PROOF
<1>. SUFFICES ASSUME Reads', ~torn' PROVE LineTrue'
  BY DEF LineInv
<1>. USE DEF RingInv
<1>1. /\ reader.at = "fetch" /\ UNCHANGED <<typed, torn>>
      /\ pending' = IF pending = <<>> THEN pending ELSE Tail(pending)
      /\ reader'.at = "advance" /\ reader'.text = reader.text /\ reader'.kind = reader.kind
  BY DEF Fetch, RingShapes, ReadCalls
<1>2. Reads /\ LineTrue /\ pending \in Seq(Names) /\ typed \in Seq(Names)
  BY <1>1 DEF LineInv, Reads, RingShapes
<1>3. pending # <<>> /\ reader'.ev = Head(pending) /\ reader'.taken = Head(pending)
  BY <1>1, FetchKeepsRing
<1>4. /\ pending' = Tail(pending) /\ Len(pending') = Len(pending) - 1
      /\ \A i \in 1..Len(pending') : pending'[i] = pending[i + 1] /\ i + 1 \in 1..Len(pending)
  BY <1>1, <1>2, <1>3
<1>5. Past' = Past + 1 /\ Past \in Nat
  <2>1. Len(typed) \in Nat /\ Len(pending) \in Nat /\ Len(typed') = Len(typed)
    BY <1>1, <1>2
  <2>2. Past >= 0
    BY <1>2 DEF LineTrue
  <2>3. Past = Len(typed) - Len(pending) /\ Past' = Len(typed') - Len(pending')
    BY DEF Past
  <2>4. Len(pending') = Len(pending) - 1
    BY <1>4
  <2>. HIDE DEF Past
  <2> QED BY <2>1, <2>2, <2>3, <2>4
<1>6. ASSUME NEW i \in 1..Len(pending') PROVE pending'[i] = typed'[Past' + i]
  <2>1. i \in Int /\ i + 1 \in 1..Len(pending) /\ pending'[i] = pending[i + 1]
    BY <1>2, <1>4
  <2>2. pending[i + 1] = typed[Past + (i + 1)]
    BY <1>2, <2>1 DEF LineTrue
  <2>3. Past' + i = Past + (i + 1)
    <3>. HIDE DEF Past
    <3> QED BY <1>5, <2>1
  <2>4. typed' = typed
    BY <1>1
  <2> QED BY <2>1, <2>2, <2>3, <2>4
<1>7. Head(pending) = typed[Past + 1]
  BY <1>2, <1>3, <1>5 DEF LineTrue
<1>8. DrawnFrom(reader.text, typed, Past) /\ (Past + 1) - 1 = Past
  BY <1>1, <1>2, <1>5 DEF LineTrue
<1>9. \E m \in 1..Past' : TakenAt(m)'
  <2>1. Past + 1 \in 1..Past'
    BY <1>5
  <2>2. PICK m \in 1..Past' : m = Past + 1
    BY <2>1
  <2>3. TakenAt(m)'
    BY <1>1, <1>3, <1>7, <1>8, <2>2 DEF TakenAt
  <2> QED BY <2>3
<1>10. Past' >= 0 /\ reader'.at \notin {"loop", "fetch", "done"}
  BY <1>1, <1>5
<1> QED BY <1>6, <1>9, <1>10 DEF LineTrue

LEMMA UseKeepsLine ==
  ASSUME RingInv, LineInv, UseKey
  PROVE  LineInv'
PROOF
<1>. SUFFICES ASSUME Reads', ~torn' PROVE LineTrue'
  BY DEF LineInv
<1>. DEFINE text == reader.text  e == reader.ev
<1>1. /\ reader.at = "use" /\ UNCHANGED <<pending, typed, torn>>
      /\ reader \in ReadCalls /\ text \in Seq(Names) /\ e \in Names /\ pending \in Seq(Names)
      /\ typed \in Seq(Names)
  BY DEF UseKey, RingInv, RingShapes, ReadCalls
<1>2. ASSUME NEW s, NEW c, GoOn(s) \/ Return(s, c)
      PROVE  /\ reader'.text = s /\ reader'.kind = reader.kind /\ reader'.taken = reader.taken
             /\ GoOn(s) => reader'.at = "loop"
             /\ Return(s, c) => reader'.at = "done" /\ reader'.code = c
  BY <1>1, <1>2 DEF GoOn, Return, ReadCalls
<1>3. reader.kind = "line"
  <2>1. \E s, c : GoOn(s) \/ Return(s, c)
    BY <1>1 DEF UseKey, UseInLine, UseInBatch, ReadCalls
  <2> QED BY <1>2, <2>1 DEF Reads
<1>4. UseInLine(e, text)
  BY <1>3 DEF UseKey
<1>5. Reads /\ LineTrue
  BY <1>1, <1>3 DEF LineInv, Reads
<1>6. PICK m \in 1..Past : TakenAt(m)
  BY <1>1, <1>5 DEF LineTrue
<1>7. /\ Past \in Nat /\ Past' = Past /\ m \in 1..Len(typed) /\ typed[m] \in Names
      /\ reader.taken = typed[m] /\ e = typed[m] /\ DrawnFrom(text, typed, m - 1)
  BY <1>1, <1>5, <1>6 DEF Past, LineTrue, TakenAt
<1>8. ASSUME NEW s \in Seq(Names), NEW k \in 0..Past, DrawnFrom(s, typed, k)
      PROVE  DrawnFrom(s, typed, Past)
  <2>1. k \in Nat /\ k <= Past
    BY <1>7
  <2> QED BY <1>7, <1>8, <2>1, DrawnMore
<1>9. /\ DrawnFrom(text, typed, Past) /\ DrawnFrom(<<>>, typed, Past)
      /\ text # <<>> => DrawnFrom(Front(text), typed, Past)
      /\ DrawnFrom(Append(text, e), typed, Past)
  <2>1. m - 1 \in 0..Past /\ m \in 0..Past /\ m \in Nat \ {0}
    BY <1>7
  <2>2. DrawnFrom(text, typed, Past)
    BY <1>1, <1>7, <1>8, <2>1
  <2>3. DrawnFrom(Append(text, e), typed, m)
    BY <1>1, <1>7, <2>1, DrawnAppend
  <2>4. Append(text, e) \in Seq(Names)
    BY <1>1
  <2> QED BY <1>1, <1>7, <1>8, <2>1, <2>2, <2>3, <2>4, DrawnNothing, DrawnFront
<1>10. reader'.taken = typed'[m] /\ m \in 1..Past'
  <2>1. reader'.taken = reader.taken
    BY <1>2, <1>4 DEF UseInLine
  <2> QED BY <1>1, <1>7, <2>1
<1>11. /\ DrawnFrom(reader'.text, typed, Past)
       /\ reader'.at = "loop" \/ (reader'.at = "done" /\ (reader'.code = 0 <=> e \in {"^C", "^D"}))
  <2>1. OneIfEmpty(text) # 0
    BY <1>1 DEF OneIfEmpty
  <2>2. CASE e = "enter"
    <3>1. Return(text, OneIfEmpty(text))
      BY <1>4, <2>2 DEF UseInLine
    <3> QED BY <1>2, <1>9, <2>1, <2>2, <3>1
  <2>3. CASE e = "back"
    <3>1. GoOn(IF text = <<>> THEN text ELSE Front(text))
      BY <1>4, <2>3 DEF UseInLine
    <3> QED BY <1>2, <1>9, <3>1
  <2>4. CASE e = "^D"
    <3>1. Return(text, 0)
      BY <1>4, <2>4 DEF UseInLine
    <3> QED BY <1>2, <1>9, <2>4, <3>1
  <2>5. CASE e = "^C"
    <3>1. Return(<<>>, 0)
      BY <1>4, <2>5 DEF UseInLine
    <3> QED BY <1>2, <1>9, <2>5, <3>1
  <2>6. CASE e \notin {"enter", "back", "^D", "^C"}
    <3>1. IF Len(text) + 1 < LINE THEN GoOn(Append(text, e)) ELSE Return(text, Len(text))
      BY <1>4, <2>6 DEF UseInLine
    <3>2. ~(Len(text) + 1 < LINE) => Len(text) # 0
      BY <1>1, KeyboardAssumption
    <3> QED BY <1>2, <1>9, <2>6, <3>1, <3>2
  <2> QED BY <2>2, <2>3, <2>4, <2>5, <2>6
<1>12. reader'.at = "done" => \E n \in 1..Past' : TakenAt(n)'
  BY <1>10 DEF TakenAt
<1>13. Past' >= 0 /\ \A i \in 1..Len(pending') : pending'[i] = typed'[Past' + i]
  BY <1>1, <1>5, <1>7 DEF LineTrue
<1>14. reader'.at = "done" => (reader'.code = 0 <=> reader'.taken \in {"^C", "^D"})
  BY <1>1, <1>7, <1>10, <1>11
<1> QED BY <1>1, <1>7, <1>11, <1>12, <1>13, <1>14 DEF LineTrue, Inside

LEMMA StepKeepsLine ==
  ASSUME HandInv, RingInv, LineInv, [KbdNext]_kbdvars
  PROVE  LineInv'
PROOF
<1>. USE DEF RingInv
<1>0. reader \in ReadCalls
  BY DEF RingShapes
<1>1. CASE SecondByte \/ \E k \in Keys : Press(k) \/ Release(k)
  <2>1. SameCall /\ (NoPush \/ \E e \in Names : Push(e))
    BY <1>1, HandEvents
  <2>2. CASE NoPush
    <3>1. /\ reader' \in ReadCalls /\ reader'.at = reader.at /\ reader'.ev = reader.ev
          /\ reader'.text = reader.text /\ reader'.taken = reader.taken
          /\ reader'.kind = reader.kind /\ reader'.code = reader.code
      BY <1>0, <2>1 DEF SameCall, ReadCalls
    <3> QED BY <2>2, <3>1, InsideKeepsLine DEF NoPush
  <2> QED BY <2>1, <2>2, PushKeepsLine
<1>2. ASSUME NEW kind \in {"line", "char", "enter"}, NEW who \in {"shell", "child"},
             Begins(kind, who), Reads'
      PROVE  LineTrue'
  <2>1. reader' = [NoReader EXCEPT !.at = "loop", !.kind = kind, !.who = who]
    BY <1>2 DEF Begins
  <2>2. reader'.at = "loop" /\ reader'.kind = kind /\ reader'.text = <<>>
    BY <2>1 DEF NoReader
  <2>3. pending' = <<>> /\ typed' = <<>>
    BY <1>2, <2>2 DEF Begins, Reads
  <2>4. Past' = 0
    BY <2>3 DEF Past
  <2>5. DrawnFrom(<<>>, typed', 0)
    BY DrawnNothing
  <2> QED BY <2>2, <2>3, <2>4, <2>5 DEF LineTrue, Inside
<1>3. CASE HasNextKey \/ LoadNext \/ StoreNext \/ LoadCount \/ StoreCount
  <2>1. /\ UNCHANGED <<pending, typed, torn>>
        /\ reader'.ev = reader.ev /\ reader'.text = reader.text /\ reader'.taken = reader.taken
        /\ reader'.kind = reader.kind /\ reader'.code = reader.code
        /\ \/ reader.at = "loop" /\ reader'.at = "fetch"
           \/ Inside /\ reader'.at \in {"advanced", "drop", "dropped", "use"}
    BY <1>0, <1>3 DEF HasNextKey, At, LoadNext, StoreNext, LoadCount, StoreCount, Step, Inside,
                      ReadCalls
  <2>2. reader' \in ReadCalls
    BY <1>3, StepKeepsRing DEF RingShapes
  <2> QED BY <2>1, <2>2, InsideKeepsLine
<1>4. CASE TimesOut \/ CallReturns \/ ReaderGone
  <2>1. TimesOut => reader'.kind = "char"
    BY <1>0 DEF TimesOut, Return, ReadCalls
  <2>2. CallReturns \/ ReaderGone => reader'.at = "none"
    BY DEF CallReturns, ReaderGone, NoReader
  <2>3. ~Reads'
    BY <1>4, <2>1, <2>2 DEF Reads
  <2> QED BY <2>3 DEF LineInv
<1>5. CASE UNCHANGED kbdvars
  BY <1>0, <1>5, InsideKeepsLine DEF kbdvars
<1> QED BY <1>1, <1>2, <1>3, <1>4, <1>5, FetchKeepsLine, UseKeepsLine DEF KbdNext, LineInv

\* What read returns was typed during the call, in that order, and it returns 0
\* exactly when it came upon a Ctrl+D or a Ctrl+C typed during the call
\* (syscall_read), for lines and buffers of any length.
THEOREM LinesAlwaysFresh == KbdSpec => []LinesAreFresh
PROOF
<1>1. KbdInit => LineInv
  BY DEF KbdInit, LineInv, Reads, NoReader
<1>2. HandInv /\ RingInv /\ LineInv /\ [KbdNext]_kbdvars => LineInv'
  BY StepKeepsLine
<1>3. ASSUME RingInv, LineInv PROVE LinesAreFresh
  <2>. USE <1>3 DEF RingInv
  <2>1. SUFFICES ASSUME reader.at = "done", reader.kind = "line", ~torn
                 PROVE  /\ Subsequence(reader.text, typed)
                        /\ (reader.code = 0) <=> \E i \in 1..Len(typed) :
                             typed[i] \in {"^C", "^D"} /\ reader.taken = typed[i]
    BY DEF LinesAreFresh
  <2>2. LineTrue /\ reader.text \in Seq(Names) /\ typed \in Seq(Names) /\ pending \in Seq(Names)
    BY <2>1 DEF LineInv, Reads, RingShapes, ReadCalls
  <2>3. Past \in Nat /\ Past <= Len(typed) /\ Len(typed) \in Nat
    BY <2>2 DEF LineTrue, Past
  <2>4. DrawnFrom(reader.text, typed, Len(typed))
    BY <2>1, <2>2, <2>3, DrawnMore DEF LineTrue
  <2>5. Subsequence(reader.text, typed)
    BY <2>4 DEF DrawnFrom, Subsequence
  <2>6. PICK m \in 1..Past : reader.taken = typed[m]
    BY <2>1, <2>2 DEF LineTrue, TakenAt
  <2>7. m \in 1..Len(typed)
    BY <2>3
  <2>8. reader.code = 0 <=> reader.taken \in {"^C", "^D"}
    BY <2>1, <2>2 DEF LineTrue
  <2> QED BY <2>5, <2>6, <2>7, <2>8
<1> QED BY <1>1, <1>2, <1>3, KeyboardInvariant, PTL DEF KbdSpec

-----------------------------------------------------------------------------
(* Speaker.                                                                *)

\* While nobody else touches the speaker a beep sounds at its tone, or silent if
\* that is 0, and has been heard for as long as it has slept.
Sleepers == [call : {"none", "sleep", "beep", "dead"}, ms : Nat, tone : Nat, ticks : Nat,
             heard : Nat, alone : BOOLEAN]
SpeakerShapes ==
  /\ speaker \in [on : BOOLEAN, tone : Nat]
  /\ sleeper \in [Sounders -> Sleepers]
BeepSounds(s) ==
  s.call = "beep" /\ s.alone =>
    /\ s.heard = s.ticks \/ s.tone = 0
    /\ speaker.on <=> s.tone # 0
    /\ s.tone # 0 => speaker = [on |-> TRUE, tone |-> Tone(s.tone)]
SpeakerInv == SpeakerShapes /\ \A p \in Sounders : BeepSounds(sleeper[p])

LEMMA TickFacts ==
  ASSUME NEW ms \in Nat
  PROVE  TicksToWait(ms) \in Nat /\ \A n \in Nat : Capped(n, ms) \in Nat
PROOF
<1>1. ms * TICK_HZ \in Nat
  BY SpeakerAssumption
<1>. DEFINE k == ms * TICK_HZ
<1>. HIDE DEF k
<1>2. k \div 1000 \in Nat
  BY <1>1 DEF k
<1> QED BY <1>2 DEF TicksToWait, Capped, k

LEMMA ToneFacts == \A f \in Nat : Tone(f) \in Nat
PROOF BY DEF Tone, SPK_MIN_FREQ, SPK_MAX_FREQ

\* Whoever touches the speaker leaves no other beep alone.
LEMMA IntrudedShapes ==
  ASSUME SpeakerInv, NEW p \in Sounders, NEW s \in Sleepers,
         sleeper' = [Intrudes(p) EXCEPT ![p] = s], speaker' \in [on : BOOLEAN, tone : Nat],
         BeepSounds(s)'
  PROVE  SpeakerInv'
PROOF
<1>1. Intrudes(p) \in [Sounders -> Sleepers]
  BY DEF SpeakerInv, SpeakerShapes, Intrudes, Sleepers
<1>2. sleeper' \in [Sounders -> Sleepers] /\ sleeper'[p] = s
  BY <1>1
<1>3. ASSUME NEW q \in Sounders, q # p PROVE ~sleeper'[q].alone
  BY <1>3 DEF SpeakerInv, SpeakerShapes, Intrudes, Sleepers
<1>4. ASSUME NEW q \in Sounders PROVE BeepSounds(sleeper[q])'
  BY <1>2, <1>3 DEF BeepSounds
<1> QED BY <1>2, <1>4 DEF SpeakerInv, SpeakerShapes

LEMMA TimerKeeps ==
  ASSUME SpeakerInv, TimerOnIrq
  PROVE  SpeakerInv'
PROOF
<1>. DEFINE Ticked(s) ==
       [s EXCEPT !.ticks = Capped(s.ticks + 1, s.ms),
                 !.heard = IF speaker = [on |-> TRUE, tone |-> Tone(s.tone)]
                             THEN Capped(s.heard + 1, s.ms) ELSE s.heard]
<1>1. /\ speaker' = speaker
      /\ sleeper' = [p \in Sounders |-> IF Halted(p) THEN Ticked(sleeper[p]) ELSE sleeper[p]]
  BY DEF TimerOnIrq
<1>2. ASSUME NEW s \in Sleepers
      PROVE  /\ Ticked(s) \in Sleepers
             /\ Ticked(s).call = s.call /\ Ticked(s).alone = s.alone /\ Ticked(s).tone = s.tone
             /\ BeepSounds(s) => BeepSounds(Ticked(s))
  <2>1. /\ s.ticks + 1 \in Nat /\ s.heard + 1 \in Nat /\ s.ms \in Nat /\ s.heard \in Nat
    BY DEF Sleepers
  <2>2. Capped(s.ticks + 1, s.ms) \in Nat /\ Capped(s.heard + 1, s.ms) \in Nat
    BY <2>1, TickFacts
  <2> QED BY <2>1, <2>2 DEF Sleepers, BeepSounds
<1>. HIDE DEF Ticked
<1>3. \A p \in Sounders : sleeper[p] \in Sleepers /\ BeepSounds(sleeper[p])
  BY DEF SpeakerInv, SpeakerShapes
<1>4. sleeper' \in [Sounders -> Sleepers]
  BY <1>1, <1>2, <1>3
<1>5. ASSUME NEW p \in Sounders PROVE BeepSounds(sleeper[p])'
  <2>1. BeepSounds(sleeper'[p])
    BY <1>1, <1>2, <1>3
  <2> QED BY <1>1, <2>1 DEF BeepSounds
<1> QED BY <1>1, <1>4, <1>5 DEF SpeakerInv, SpeakerShapes

LEMMA SpeakerStep ==
  ASSUME SpeakerInv, [SpeakerNext]_speakervars
  PROVE  SpeakerInv'
PROOF
<1>1. /\ speaker \in [on : BOOLEAN, tone : Nat] /\ speaker.on \in BOOLEAN
      /\ sleeper \in [Sounders -> Sleepers]
  BY DEF SpeakerInv, SpeakerShapes
<1>2. Awake \in Sleepers /\ [Awake EXCEPT !.call = "dead"] \in Sleepers
  BY DEF Awake, Sleepers
<1>3. Stopped \in [on : BOOLEAN, tone : Nat] /\ ~Stopped.on
  BY <1>1 DEF Stopped
<1>4. ASSUME NEW f \in Nat
      PROVE  /\ Played(f) \in [on : BOOLEAN, tone : Nat]
             /\ IF f = 0 THEN ~Played(f).on ELSE Played(f) = [on |-> TRUE, tone |-> Tone(f)]
  BY <1>1, ToneFacts DEF Played
<1>5. CASE UNCHANGED speakervars
  BY <1>5 DEF speakervars, SpeakerInv, SpeakerShapes, BeepSounds
<1>6. CASE TimerOnIrq
  BY <1>6, TimerKeeps
<1>7. ASSUME NEW p \in Sounders, sleeper' = Intrudes(p), Calls(p),
             speaker' \in [on : BOOLEAN, tone : Nat]
      PROVE  SpeakerInv'
  <2>1. sleeper[p] \in Sleepers /\ sleeper[p].call = "none"
    BY <1>1, <1>7 DEF Calls
  <2>2. sleeper' = [Intrudes(p) EXCEPT ![p] = sleeper[p]]
    BY <1>7 DEF Intrudes
  <2>3. BeepSounds(sleeper[p]) /\ sleeper'[p] = sleeper[p]
    BY <2>1, <2>2 DEF BeepSounds, Intrudes
  <2>4. PICK s \in Sleepers : s = sleeper[p]
    BY <2>1
  <2>5. BeepSounds(s)'
    BY <2>1, <2>4 DEF BeepSounds
  <2> QED BY <1>7, <2>2, <2>4, <2>5, IntrudedShapes
<1>8. ASSUME NEW p \in Sounders, NEW s \in Sleepers, s.call # "beep",
             sleeper' = [sleeper EXCEPT ![p] = s], speaker' = speaker
      PROVE  SpeakerInv'
  <2>1. sleeper' \in [Sounders -> Sleepers]
    BY <1>1, <1>8
  <2>2. ASSUME NEW q \in Sounders PROVE BeepSounds(sleeper[q])'
    BY <1>1, <1>8 DEF BeepSounds, SpeakerInv
  <2> QED BY <1>1, <1>8, <2>1, <2>2 DEF SpeakerInv, SpeakerShapes
<1>9. ASSUME NEW p \in Sounders, NEW f \in Tones, PlaySound(p, f) PROVE SpeakerInv'
  <2>1. f \in Nat
    BY SpeakerAssumption
  <2> QED BY <1>4, <1>7, <1>9, <2>1 DEF PlaySound
<1>10. ASSUME NEW p \in Sounders, StopSound(p) PROVE SpeakerInv'
  BY <1>3, <1>7, <1>10 DEF StopSound
<1>11. ASSUME NEW p \in Sounders, NEW ms \in Durations, SleepMs(p, ms) PROVE SpeakerInv'
  <2>1. PICK s \in Sleepers : s = [Awake EXCEPT !.call = "sleep", !.ms = ms]
    BY SpeakerAssumption DEF Awake, Sleepers
  <2>2. s.call # "beep"
    BY <2>1 DEF Awake
  <2> QED BY <1>8, <1>11, <2>1, <2>2 DEF SleepMs
<1>12. ASSUME NEW p \in Sounders, NEW f \in Tones, NEW ms \in Durations, Beep(p, f, ms)
       PROVE  SpeakerInv'
  <2>1. f \in Nat /\ ms \in Nat
    BY SpeakerAssumption
  <2>2. PICK s \in Sleepers : s = [Awake EXCEPT !.call = "beep", !.ms = ms, !.tone = f]
    BY <2>1 DEF Awake, Sleepers
  <2>3. s.tone = f /\ s.heard = s.ticks
    BY <2>2 DEF Awake
  <2>4. speaker' = Played(f) /\ sleeper' = [Intrudes(p) EXCEPT ![p] = s]
    BY <1>12, <2>2 DEF Beep
  <2>5. BeepSounds(s)'
    BY <1>4, <2>1, <2>3, <2>4 DEF BeepSounds
  <2> QED BY <1>4, <2>1, <2>4, <2>5, IntrudedShapes
<1>13. ASSUME NEW p \in Sounders, SleepOver(p) PROVE SpeakerInv'
  <2>1. PICK s \in Sleepers : s = Awake
    BY <1>2
  <2>2. s.call # "beep"
    BY <2>1 DEF Awake
  <2>3. BeepSounds(s)'
    BY <2>2 DEF BeepSounds
  <2>4. CASE sleeper[p].call = "beep"
    BY <1>3, <1>13, <2>1, <2>3, <2>4, IntrudedShapes DEF SleepOver
  <2>5. CASE sleeper[p].call # "beep"
    BY <1>8, <1>13, <2>1, <2>2, <2>5 DEF SleepOver
  <2> QED BY <2>4, <2>5
<1>14. ASSUME NEW p \in Sounders, KilledAsleep(p) PROVE SpeakerInv'
  <2>1. PICK s \in Sleepers : s = [Awake EXCEPT !.call = "dead"]
    BY <1>2
  <2>2. s.call # "beep"
    BY <2>1 DEF Awake
  <2> QED BY <1>8, <1>14, <2>1, <2>2 DEF KilledAsleep
<1> QED BY <1>5, <1>6, <1>9, <1>10, <1>11, <1>12, <1>13, <1>14 DEF SpeakerNext

\* A beep that no other process disturbs is heard at its tone for as long as it
\* was asked to last and leaves silence (play_sound, sleep_ms and stop_sound in
\* audio.c and timer.c), whatever the clock's frequency and whoever else sleeps.
THEOREM BeepsAreHeard == SpeakerSpec => BeepHeard
PROOF
<1>1. SpeakerInit => SpeakerInv
  BY DEF SpeakerInit, SpeakerInv, SpeakerShapes, BeepSounds, Awake, Sleepers
<1>2. SpeakerInv /\ [SpeakerNext]_speakervars => SpeakerInv'
  BY SpeakerStep
<1>3. SpeakerInv /\ [SpeakerNext]_speakervars =>
        [\A p \in Sounders :
           LET s == sleeper[p] IN
           s.call = "beep" /\ sleeper'[p].call = "none" /\ s.alone =>
             /\ s.tone # 0 => s.heard >= (s.ms * TICK_HZ) \div 1000
             /\ ~speaker'.on]_speakervars
  <2>. SUFFICES ASSUME SpeakerInv, SpeakerNext, NEW p \in Sounders, sleeper[p].call = "beep",
                       sleeper'[p].call = "none", sleeper[p].alone
                PROVE  /\ sleeper[p].tone # 0 => sleeper[p].heard >= TicksToWait(sleeper[p].ms)
                       /\ ~speaker'.on
    BY DEF TicksToWait, speakervars
  <2>1. /\ speaker \in [on : BOOLEAN, tone : Nat] /\ sleeper \in [Sounders -> Sleepers]
        /\ BeepSounds(sleeper[p])
    BY DEF SpeakerInv, SpeakerShapes
  <2>2. ASSUME NEW q \in Sounders, sleeper' = Intrudes(q) PROVE FALSE
    BY <2>1, <2>2 DEF Intrudes, Sleepers
  <2>3. ASSUME NEW q \in Sounders, NEW s, s.call # "none" \/ q # p,
               sleeper' = [sleeper EXCEPT ![q] = s] \/ sleeper' = [Intrudes(q) EXCEPT ![q] = s]
        PROVE  FALSE
    BY <2>1, <2>3 DEF Intrudes, Sleepers
  <2>4. ~TimerOnIrq
    <3>1. ASSUME TimerOnIrq PROVE sleeper'[p].call = sleeper[p].call
      BY <2>1, <3>1 DEF TimerOnIrq, Sleepers
    <3> QED BY <3>1
  <2>5. SleepOver(p)
    <3>1. ASSUME NEW q \in Sounders, NEW f \in Tones, PlaySound(q, f) PROVE FALSE
      BY <2>2, <3>1 DEF PlaySound
    <3>2. ASSUME NEW q \in Sounders, StopSound(q) PROVE FALSE
      BY <2>2, <3>2 DEF StopSound
    <3>3. ASSUME NEW q \in Sounders, NEW ms \in Durations, SleepMs(q, ms) PROVE FALSE
      <4>1. [Awake EXCEPT !.call = "sleep", !.ms = ms].call # "none"
        BY DEF Awake
      <4> QED BY <2>3, <3>3, <4>1 DEF SleepMs
    <3>4. ASSUME NEW q \in Sounders, NEW f \in Tones, NEW ms \in Durations, Beep(q, f, ms)
          PROVE  FALSE
      <4>1. [Awake EXCEPT !.call = "beep", !.ms = ms, !.tone = f].call # "none"
        BY DEF Awake
      <4> QED BY <2>3, <3>4, <4>1 DEF Beep
    <3>5. ASSUME NEW q \in Sounders, KilledAsleep(q) PROVE FALSE
      <4>1. [Awake EXCEPT !.call = "dead"].call # "none"
        BY DEF Awake
      <4> QED BY <2>3, <3>5, <4>1 DEF KilledAsleep
    <3>6. ASSUME NEW q \in Sounders, q # p, SleepOver(q) PROVE FALSE
      BY <2>3, <3>6 DEF SleepOver
    <3> QED BY <2>4, <3>1, <3>2, <3>3, <3>4, <3>5, <3>6 DEF SpeakerNext
  <2>6. speaker' = Stopped /\ sleeper[p].ticks >= TicksToWait(sleeper[p].ms)
    BY <2>5 DEF SleepOver
  <2>7. ~speaker'.on
    BY <2>1, <2>6 DEF Stopped
  <2>8. sleeper[p].tone # 0 => sleeper[p].heard = sleeper[p].ticks
    BY <2>1 DEF BeepSounds
  <2> QED BY <2>6, <2>7, <2>8
<1> QED BY <1>1, <1>2, <1>3, PTL DEF SpeakerSpec, BeepHeard

-----------------------------------------------------------------------------
(* Tron.                                                                   *)

\* During a round the bot cannot turn back into a free cell: behind it lies its
\* own trail, or it stands where it was put, with the player ahead of it.
BoardCells == (0..(Cols - 1)) \X (0..(Rows - 1))
PlayerShapes == [cell : BoardCells, dir : Dirs]
TrailBehind ==
  \/ player = Spawned
  \/ ~CellIsFree(NextCell(player[2], Opposite(player[2].dir)))
TronInv ==
  /\ player \in [Players -> PlayerShapes]
  /\ OccIdx(player[2].cell) \in occ
  /\ intent \in [Players -> Dirs]
  /\ score \in [Players -> Nat]
  /\ TrailBehind

LEMMA DirFacts ==
  ASSUME NEW d \in Dirs
  PROVE  /\ d[1] \in {-1, 0, 1} /\ d[2] \in {-1, 0, 1} /\ d = <<d[1], d[2]>>
         /\ Opposite(d) \in Dirs /\ DirLeft(d) \in Dirs /\ DirRight(d) \in Dirs
         /\ Opposite(d) # d /\ DirLeft(d) # Opposite(d) /\ DirRight(d) # Opposite(d)
PROOF BY DEF Dirs, Opposite, DirLeft, DirRight

\* The cell behind the next cell is the one it was left from.
LEMMA StepBack ==
  ASSUME NEW p \in PlayerShapes, NEW q, q.dir = p.dir, q.cell = NextCell(p, p.dir),
         GridContains(q.cell)
  PROVE  q.cell \in BoardCells /\ NextCell(q, Opposite(p.dir)) = p.cell
PROOF
<1>1. /\ Cols \in 4..128 /\ Rows \in 1..128 /\ p.dir \in Dirs
      /\ p.cell[1] \in 0..(Cols - 1) /\ p.cell[2] \in 0..(Rows - 1)
      /\ p.cell = <<p.cell[1], p.cell[2]>>
  BY TronAssumption DEF PlayerShapes, BoardCells
<1>2. ASSUME NEW x \in 0..127, NEW d \in {-1, 0, 1}, (x + d) % 65536 < 128
      PROVE  (x + d) % 65536 = x + d /\ (x + d - d) % 65536 = x /\ x + d >= 0
  BY <1>2
<1>3. /\ q.cell[1] = (p.cell[1] + p.dir[1]) % 65536 /\ q.cell[1] < Cols
      /\ q.cell[2] = (p.cell[2] + p.dir[2]) % 65536 /\ q.cell[2] < Rows
      /\ q.cell = <<q.cell[1], q.cell[2]>>
  BY DEF NextCell, GridContains
<1>4. p.dir[1] \in {-1, 0, 1} /\ p.dir[2] \in {-1, 0, 1}
  BY <1>1, DirFacts
<1>5. p.cell[1] \in 0..127 /\ p.cell[2] \in 0..127
  BY <1>1
<1>6. /\ q.cell[1] = p.cell[1] + p.dir[1] /\ q.cell[2] = p.cell[2] + p.dir[2]
      /\ q.cell[1] >= 0 /\ q.cell[2] >= 0
      /\ (q.cell[1] - p.dir[1]) % 65536 = p.cell[1]
      /\ (q.cell[2] - p.dir[2]) % 65536 = p.cell[2]
  BY <1>1, <1>2, <1>3, <1>4, <1>5
<1>7. q.cell \in BoardCells
  <2>. DEFINE x == q.cell[1]  y == q.cell[2]
  <2>1. x \in Int /\ y \in Int /\ x >= 0 /\ y >= 0 /\ x < Cols /\ y < Rows
    <3>1. /\ p.cell[1] \in Int /\ p.dir[1] \in Int /\ p.cell[2] \in Int /\ p.dir[2] \in Int
      BY <1>4, <1>5
    <3>2. x \in Int /\ y \in Int
      BY <1>6, <3>1
    <3> QED BY <1>3, <1>6, <3>2
  <2>2. Cols \in Int /\ Rows \in Int
    BY <1>1
  <2>. HIDE DEF x, y
  <2>3. x \in 0..(Cols - 1) /\ y \in 0..(Rows - 1)
    BY <2>1, <2>2
  <2>4. q.cell = <<x, y>>
    BY <1>3 DEF x, y
  <2> QED BY <2>3, <2>4 DEF BoardCells
<1>8. NextCell(q, Opposite(p.dir)) =
        <<(q.cell[1] - p.dir[1]) % 65536, (q.cell[2] - p.dir[2]) % 65536>>
  <2>1. PICK o : o = Opposite(p.dir)
    OBVIOUS
  <2>2. o[1] = -p.dir[1] /\ o[2] = -p.dir[2]
    BY <2>1 DEF Opposite
  <2>3. q.cell[1] + o[1] = q.cell[1] - p.dir[1] /\ q.cell[2] + o[2] = q.cell[2] - p.dir[2]
    BY <1>4, <1>5, <1>6, <2>2
  <2>4. NextCell(q, o) = <<(q.cell[1] + o[1]) % 65536, (q.cell[2] + o[2]) % 65536>>
    BY DEF NextCell
  <2> QED BY <2>1, <2>3, <2>4
<1> QED BY <1>1, <1>6, <1>7, <1>8

\* The spawns are on the board, player 1 to the left of player 2 in one row.
LEMMA SpawnFacts ==
  /\ Spawned \in [Players -> PlayerShapes] /\ SpawnIntents \in [Players -> Dirs]
  /\ Spawned[1].cell[1] < Spawned[2].cell[1] /\ Spawned[1].cell[2] = Spawned[2].cell[2]
  /\ Spawned[2].dir = <<-1, 0>>
  /\ \A O : OccIdx(Spawned[2].cell) \in SpawnCells(O)
PROOF
<1>. DEFINE left == Cols \div 4  right == (3 * Cols) \div 4  row == Rows \div 2
            a == [cell |-> <<left, row>>, dir |-> <<1, 0>>]
            b == [cell |-> <<right, row>>, dir |-> <<-1, 0>>]
<1>1. /\ left \in 0..(Cols - 1) /\ right \in 0..(Cols - 1) /\ row \in 0..(Rows - 1)
      /\ left < right
  BY TronAssumption
<1>2. Spawned = <<a, b>>
  BY DEF Spawned
<1>. HIDE DEF left, right, row
<1>3. a \in PlayerShapes /\ b \in PlayerShapes
  BY <1>1 DEF PlayerShapes, BoardCells, Dirs
<1>4. /\ Spawned[1] = a /\ Spawned[2] = b /\ a.cell = <<left, row>> /\ b.cell = <<right, row>>
      /\ a.dir = <<1, 0>> /\ b.dir = <<-1, 0>>
  BY <1>2
<1>5. Spawned \in [Players -> PlayerShapes]
  BY <1>2, <1>3 DEF Players
<1>6. SpawnIntents \in [Players -> Dirs]
  BY <1>4 DEF SpawnIntents, Players, Dirs
<1>7. ASSUME NEW O PROVE OccIdx(Spawned[2].cell) \in SpawnCells(O)
  <2>1. GridContains(Spawned[2].cell)
    BY <1>1, <1>4, TronAssumption DEF GridContains
  <2> QED BY <2>1 DEF SpawnCells, OccSet
<1> QED BY <1>1, <1>4, <1>5, <1>6, <1>7

\* The first free direction of a list, or the other one if it has none.
LEMMA FirstFreeFacts ==
  ASSUME NEW p, NEW seq, NEW otherwise, DOMAIN seq \subseteq 1..3
  PROVE  \/ /\ FirstFree(p, seq, otherwise) = otherwise
            /\ \A k \in DOMAIN seq : ~CellIsFree(NextCell(p, seq[k]))
         \/ \E k \in DOMAIN seq : /\ FirstFree(p, seq, otherwise) = seq[k]
                                  /\ CellIsFree(NextCell(p, seq[k]))
PROOF
<1>. DEFINE Free == {k \in DOMAIN seq : CellIsFree(NextCell(p, seq[k]))}
<1>1. CASE Free = {}
  BY <1>1 DEF FirstFree
<1>2. CASE Free # {}
  <2>1. \E k \in Free : \A j \in Free : k <= j
    <3>1. CASE 1 \in Free
      BY <3>1
    <3>2. CASE 1 \notin Free /\ 2 \in Free
      BY <3>2
    <3>3. CASE 1 \notin Free /\ 2 \notin Free
      BY <1>2, <3>3
    <3> QED BY <3>1, <3>2, <3>3
  <2>. DEFINE k == CHOOSE k \in Free : \A j \in Free : k <= j
  <2>2. k \in Free
    BY <2>1
  <2>3. FirstFree(p, seq, otherwise) = seq[k]
    BY <1>2 DEF FirstFree
  <2> QED BY <2>2, <2>3
<1> QED BY <1>1, <1>2

LEMMA TowardsFacts ==
  ASSUME NEW dc \in Int, NEW dr \in Int
  PROVE  /\ DOMAIN Towards(dc, dr) \subseteq 1..3
         /\ \A k \in DOMAIN Towards(dc, dr) :
              /\ Towards(dc, dr)[k] \in Dirs
              /\ dc < 0 /\ dr = 0 => Towards(dc, dr)[k] = <<-1, 0>>
PROOF
<1>. DEFINE horizontal == IF dc > 0 THEN <<<<1, 0>>>> ELSE IF dc < 0 THEN <<<<-1, 0>>>> ELSE <<>>
            vertical   == IF dr > 0 THEN <<<<0, 1>>>> ELSE IF dr < 0 THEN <<<<0, -1>>>> ELSE <<>>
            Join(s, t) == [k \in 1..(Cardinality(DOMAIN s) + Cardinality(DOMAIN t)) |->
                             IF k \in DOMAIN s THEN s[k] ELSE t[k - Cardinality(DOMAIN s)]]
            Short(s) == s = <<>> \/ \E d : s = <<d>>
<1>1. ASSUME NEW s, Short(s)
      PROVE  \/ s = <<>> /\ DOMAIN s = {} /\ Cardinality(DOMAIN s) = 0
             \/ DOMAIN s = {1} /\ Cardinality(DOMAIN s) = 1
  <2>1. CASE s = <<>>
    BY <2>1, FS_EmptySet
  <2>2. CASE \E d : s = <<d>>
    <3>1. DOMAIN s = {1}
      BY <2>2
    <3> QED BY <3>1, FS_Singleton
  <2> QED BY <1>1, <2>1, <2>2
<1>2. ASSUME NEW s, NEW t, Short(s), Short(t)
      PROVE  /\ DOMAIN Join(s, t) \subseteq 1..3
             /\ \A k \in DOMAIN Join(s, t) :
                  \/ DOMAIN s = {1} /\ Join(s, t)[k] = s[1]
                  \/ DOMAIN t = {1} /\ Join(s, t)[k] = t[1]
  <2>. DEFINE m == Cardinality(DOMAIN s)  n == Cardinality(DOMAIN t)
  <2>1. /\ (DOMAIN s = {} /\ m = 0) \/ (DOMAIN s = {1} /\ m = 1)
        /\ (DOMAIN t = {} /\ n = 0) \/ (DOMAIN t = {1} /\ n = 1)
    BY <1>1, <1>2
  <2>. HIDE DEF m, n
  <2>2. Join(s, t) = [k \in 1..(m + n) |-> IF k \in DOMAIN s THEN s[k] ELSE t[k - m]]
    BY DEF m, n
  <2>. HIDE DEF Join
  <2>3. DOMAIN Join(s, t) = 1..(m + n)
    BY <2>2
  <2>4. ASSUME NEW k \in 1..(m + n)
        PROVE  \/ DOMAIN s = {1} /\ Join(s, t)[k] = s[1]
               \/ DOMAIN t = {1} /\ Join(s, t)[k] = t[1]
    <3>1. CASE k \in DOMAIN s
      BY <2>1, <2>2, <3>1
    <3>2. CASE k \notin DOMAIN s
      <4>1. DOMAIN t = {1} /\ k - m = 1
        BY <2>1, <3>2
      <4> QED BY <2>2, <3>2, <4>1
    <3> QED BY <3>1, <3>2
  <2> QED BY <2>1, <2>3, <2>4
<1>3. Short(horizontal) /\ Short(vertical)
  OBVIOUS
<1>4. /\ DOMAIN horizontal = {1} => /\ horizontal[1] \in Dirs
                                    /\ dc < 0 => horizontal[1] = <<-1, 0>>
      /\ DOMAIN vertical = {1} => vertical[1] \in Dirs /\ dr # 0
  BY DEF Dirs
<1>5. Towards(dc, dr) = Join(horizontal, vertical) \/ Towards(dc, dr) = Join(vertical, horizontal)
  BY DEF Towards
<1>. HIDE DEF horizontal, vertical, Join, Short
<1> QED BY <1>2, <1>3, <1>4, <1>5

\* The bot chooses a way it can go, if there is one ahead, to its left or to its
\* right, and never to turn back.
LEMMA BotChoice ==
  ASSUME TronInv, NEW pick \in 0..3
  PROVE  /\ BotIntent(pick) \in Dirs
         /\ (\E d \in {player[2].dir, DirLeft(player[2].dir), DirRight(player[2].dir)} :
               CellIsFree(NextCell(player[2], d)))
            => /\ CellIsFree(NextCell(player[2], BotIntent(pick)))
               /\ BotIntent(pick) # Opposite(player[2].dir)
PROOF
<1>. DEFINE p == player[2]  here == player[2].dir
            otherwise == intent[2]
            flow == <<here, DirLeft(here), DirRight(here)>>
            Good(d) == d \in Dirs /\ CellIsFree(NextCell(p, d)) /\ d # Opposite(here)
            stuck == \A d \in {here, DirLeft(here), DirRight(here)} : ~CellIsFree(NextCell(p, d))
<1>1. /\ p \in PlayerShapes /\ player[1] \in PlayerShapes /\ here \in Dirs /\ otherwise \in Dirs
      /\ p.cell[1] \in Int /\ p.cell[2] \in Int
      /\ player[1].cell[1] \in Int /\ player[1].cell[2] \in Int
  BY TronAssumption DEF TronInv, Players, PlayerShapes, BoardCells
<1>2. /\ here \in Dirs /\ DirLeft(here) \in Dirs /\ DirRight(here) \in Dirs
      /\ here # Opposite(here) /\ DirLeft(here) # Opposite(here) /\ DirRight(here) # Opposite(here)
  BY <1>1, DirFacts
<1>3. \/ Good(FirstFree(p, flow, otherwise))
      \/ FirstFree(p, flow, otherwise) = otherwise /\ stuck
  <2>1. /\ DOMAIN flow = 1..3
        /\ flow[1] = here /\ flow[2] = DirLeft(here) /\ flow[3] = DirRight(here)
    OBVIOUS
  <2>2. \A k \in 1..3 : k \in {1, 2, 3}
    OBVIOUS
  <2>. HIDE DEF flow
  <2>3. \/ /\ FirstFree(p, flow, otherwise) = otherwise
           /\ \A k \in DOMAIN flow : ~CellIsFree(NextCell(p, flow[k]))
        \/ \E k \in DOMAIN flow : /\ FirstFree(p, flow, otherwise) = flow[k]
                                  /\ CellIsFree(NextCell(p, flow[k]))
    BY <2>1, FirstFreeFacts
  <2> QED BY <1>2, <2>1, <2>2, <2>3
<1>4. ASSUME NEW o, NEW seq, DOMAIN seq \subseteq 1..3,
             \A k \in DOMAIN seq : CellIsFree(NextCell(p, seq[k])) => Good(seq[k])
      PROVE  Good(FirstFree(p, seq, o)) \/ FirstFree(p, seq, o) = o
  BY <1>4, FirstFreeFacts
<1>5. ASSUME NEW o, o = FirstFree(p, flow, otherwise)
      PROVE  Good(FirstFree(p, Jitter(p, pick), o)) \/ FirstFree(p, Jitter(p, pick), o) = o
  <2>1. \/ Jitter(p, pick) = <<>>
        \/ \E d \in {here, DirLeft(here), DirRight(here)} : Jitter(p, pick) = <<d>>
    BY DEF Jitter
  <2>2. CASE Jitter(p, pick) = <<>>
    BY <1>4, <2>2
  <2>3. ASSUME NEW d \in {here, DirLeft(here), DirRight(here)}, Jitter(p, pick) = <<d>>
        PROVE  Good(FirstFree(p, Jitter(p, pick), o)) \/ FirstFree(p, Jitter(p, pick), o) = o
    <3>1. DOMAIN <<d>> = {1} /\ <<d>>[1] = d
      OBVIOUS
    <3>2. CellIsFree(NextCell(p, d)) => Good(d)
      BY <1>2, <2>3
    <3> QED BY <1>4, <2>3, <3>1, <3>2
  <2> QED BY <2>1, <2>2, <2>3
<1>. DEFINE simple == ChooseDirSimple(p, pick, otherwise)
<1>6. Good(simple) \/ (simple = otherwise /\ stuck)
  <2>1. simple = FirstFree(p, Jitter(p, pick), FirstFree(p, flow, otherwise))
    BY DEF ChooseDirSimple, SimpleFlow
  <2>. HIDE DEF simple, flow
  <2> QED BY <1>3, <1>5, <2>1
<1>7. Good(BotIntent(pick)) \/ (BotIntent(pick) = otherwise /\ stuck)
  <2>1. CASE ~(level >= 2)
    BY <1>6, <2>1 DEF BotIntent
  <2>2. CASE level >= 2
    <3>. DEFINE dc == player[1].cell[1] - p.cell[1]  dr == player[1].cell[2] - p.cell[2]
                toward == Towards(dc, dr)
                ahead == FirstFree(p, <<here>>, simple)
    <3>1. BotIntent(pick) = FirstFree(p, toward, ahead)
      BY <2>2 DEF BotIntent, ChooseDirTrack
    <3>2. dc \in Int /\ dr \in Int
      BY <1>1
    <3>3. ASSUME player = Spawned PROVE dc < 0 /\ dr = 0 /\ here = <<-1, 0>>
      BY <1>1, <3>3, SpawnFacts
    <3>4. /\ DOMAIN toward \subseteq 1..3
          /\ \A k \in DOMAIN toward : /\ toward[k] \in Dirs
                                      /\ dc < 0 /\ dr = 0 => toward[k] = <<-1, 0>>
      BY <3>2, TowardsFacts
    <3>5. \A k \in DOMAIN toward : CellIsFree(NextCell(p, toward[k])) => Good(toward[k])
      BY <1>2, <3>3, <3>4 DEF TronInv, TrailBehind
    <3>. HIDE DEF simple, toward, flow
    <3>6. Good(ahead) \/ ahead = simple
      <4>1. DOMAIN <<here>> = {1} /\ <<here>>[1] = here
        OBVIOUS
      <4> QED BY <1>2, <1>4, <4>1
    <3>. HIDE DEF ahead
    <3> QED BY <1>4, <1>6, <3>1, <3>4, <3>5, <3>6
  <2> QED BY <2>1, <2>2
<1>. HIDE DEF flow, simple
<1> QED BY <1>1, <1>7

LEMMA NewRoundKeeps ==
  ASSUME NEW O, NewRound(O), score' \in [Players -> Nat]
  PROVE  TronInv'
PROOF
<1>1. /\ Spawned' = Spawned /\ player' = Spawned /\ intent' = SpawnIntents
      /\ occ' = SpawnCells(O)
  BY DEF NewRound, Spawned
<1> QED BY <1>1, SpawnFacts DEF TronInv, TrailBehind, OccIdx

\* What surviving a tick does to a player and to the board.
LEMMA SurvivorMoves ==
  ASSUME NEW p \in PlayerShapes, NEW O, Survives(p, O)
  PROVE  /\ Stepped(p, O) \in PlayerShapes /\ Stepped(p, O).dir = p.dir
         /\ NextCell(Stepped(p, O), Opposite(p.dir)) = p.cell
         /\ Painted(p, O) = O \cup {OccIdx(Stepped(p, O).cell)}
PROOF
<1>. DEFINE q == Stepped(p, O)
<1>1. /\ q = [p EXCEPT !.cell = NextCell(p, p.dir)] /\ GridContains(NextCell(p, p.dir))
  BY DEF Stepped, Survives
<1>2. q.dir = p.dir /\ q.cell = NextCell(p, p.dir) /\ p.dir \in Dirs
  BY <1>1 DEF PlayerShapes
<1>3. q.cell \in BoardCells /\ NextCell(q, Opposite(p.dir)) = p.cell
  BY <1>1, <1>2, StepBack
<1>4. q \in PlayerShapes
  BY <1>1, <1>2, <1>3 DEF PlayerShapes
<1>5. Painted(p, O) = O \cup {OccIdx(q.cell)}
  BY <1>1, <1>2 DEF Painted, OccSet
<1> QED BY <1>2, <1>3, <1>4, <1>5

LEMMA TickKeeps ==
  ASSUME TronInv, NEW d1 \in Dirs, NEW d2 \in Dirs, Tick(d1, d2)
  PROVE  TronInv'
PROOF
<1>. DEFINE p1 == Turned(player[1], d1)
            p2 == Turned(player[2], d2)
            occ2 == Painted(p2, occ)
            lives == <<Survives(p1, occ2), Survives(p2, occ)>>
<1>1. /\ player[1] \in PlayerShapes /\ player[2] \in PlayerShapes
      /\ p1 \in PlayerShapes /\ p2 \in PlayerShapes /\ p2.cell = player[2].cell
  <2>1. ASSUME NEW p \in PlayerShapes, NEW d \in Dirs
        PROVE  Turned(p, d) \in PlayerShapes /\ Turned(p, d).cell = p.cell
    BY DEF Turned, PlayerShapes
  <2>2. player[1] \in PlayerShapes /\ player[2] \in PlayerShapes
    BY DEF TronInv, Players
  <2> QED BY <2>1, <2>2
<1>2. CASE lives = <<TRUE, TRUE>>
  <2>1. /\ player' = <<Stepped(p1, occ2), Stepped(p2, occ)>>
        /\ intent' = <<d1, d2>> /\ occ' = Painted(p1, occ2) /\ score' = score
    BY <1>2 DEF Tick
  <2>2. Survives(p1, occ2) /\ Survives(p2, occ)
    BY <1>2
  <2>3. PICK q1 \in PlayerShapes, q2 \in PlayerShapes :
          q1 = Stepped(p1, occ2) /\ q2 = Stepped(p2, occ)
    BY <1>1, <2>2, SurvivorMoves
  <2>4. /\ occ' = occ \cup {OccIdx(q2.cell)} \cup {OccIdx(q1.cell)}
        /\ NextCell(q2, Opposite(q2.dir)) = player[2].cell
    BY <1>1, <2>1, <2>2, <2>3, SurvivorMoves
  <2>5. player'[1] = q1 /\ player'[2] = q2 /\ player' = <<q1, q2>>
    BY <2>1, <2>3
  <2>6. player' \in [Players -> PlayerShapes] /\ intent' \in [Players -> Dirs]
    BY <2>1, <2>5 DEF Players
  <2>7. OccIdx(player[2].cell) \in occ /\ score \in [Players -> Nat]
    BY DEF TronInv
  <2>8. OccIdx(player'[2].cell) \in occ' /\ OccIdx(player[2].cell) \in occ'
    BY <2>4, <2>5, <2>7
  <2>9. PICK c : c = player[2].cell
    OBVIOUS
  <2>10. ~CellIsFree(c)'
    BY <2>8, <2>9 DEF CellIsFree, OccGet
  <2>11. NextCell(player'[2], Opposite(player'[2].dir)) = c
    BY <2>4, <2>5, <2>9
  <2>12. TrailBehind'
    <3>1. NextCell(player[2], Opposite(player[2].dir))' = c
      BY <2>11 DEF NextCell, Opposite
    <3> QED BY <2>10, <3>1 DEF TrailBehind
  <2>13. (OccIdx(player[2].cell) \in occ)'
    BY <2>8 DEF OccIdx
  <2> QED BY <2>1, <2>6, <2>7, <2>12, <2>13 DEF TronInv
<1>3. CASE lives # <<TRUE, TRUE>>
  <2>1. RoundOver(lives)
    BY <1>3 DEF Tick
  <2>2. score' = <<score[1] + Points(lives)[1], score[2] + Points(lives)[2]>>
        /\ NewRound(MapFree(occ))
    BY <2>1 DEF RoundOver
  <2>3. score' \in [Players -> Nat]
    BY <2>2 DEF TronInv, Players, Points
  <2> QED BY <2>2, <2>3, NewRoundKeeps
<1> QED BY <1>2, <1>3

LEMMA TronStart == TronInit => TronInv
PROOF
<1>. SUFFICES ASSUME TronInit PROVE TronInv
  OBVIOUS
<1>1. /\ player = Spawned /\ intent = SpawnIntents /\ occ = SpawnCells(MapInit)
      /\ score = <<0, 0>>
  BY DEF TronInit
<1>2. score \in [Players -> Nat]
  BY <1>1 DEF Players
<1> QED BY <1>1, <1>2, SpawnFacts DEF TronInv, TrailBehind

LEMMA TronStep ==
  ASSUME TronInv, [TronNext]_tronvars
  PROVE  TronInv'
PROOF
<1>1. ASSUME UNCHANGED <<player, occ, intent>>, score' \in [Players -> Nat]
      PROVE  TronInv'
  <2>1. TrailBehind' <=> TrailBehind
    BY <1>1 DEF TrailBehind, Spawned, CellIsFree, OccGet, OccIdx, GridContains, NextCell,
                Opposite
  <2> QED BY <1>1, <2>1 DEF TronInv, OccIdx
<1>2. score \in [Players -> Nat] /\ <<0, 0>> \in [Players -> Nat]
  BY DEF TronInv, Players
<1>3. CASE UNCHANGED tronvars
  BY <1>1, <1>2, <1>3 DEF tronvars
<1>4. CASE Ticks
  <2>1. ASSUME NEW i \in Players PROVE Keyed(i) \subseteq Dirs
    BY DEF Keyed, TronInv
  <2>2. ASSUME NEW d1 \in Keyed(1), NEW pick \in 0..3, SingleTick(d1, pick) PROVE TronInv'
    BY <2>1, <2>2, BotChoice, TickKeeps DEF SingleTick, Players
  <2>3. ASSUME NEW d1 \in Keyed(1), NEW d2 \in Keyed(2), CoopTick(d1, d2) PROVE TronInv'
    BY <2>1, <2>3, TickKeeps DEF CoopTick, Players
  <2> QED BY <1>4, <2>2, <2>3 DEF Ticks
<1>5. CASE AnyKey
  BY <1>1, <1>2, <1>5 DEF AnyKey
<1>6. ASSUME StartMatch PROVE TronInv'
  <2>1. NewRound(MapInit) /\ score' = <<0, 0>>
    BY <1>6 DEF StartMatch
  <2> QED BY <1>2, <2>1, NewRoundKeeps
<1>7. ASSUME NEW ch \in MenuKeys, ShowStartMenu(ch) PROVE TronInv'
  <2>1. CASE ExitMenu
    BY <1>1, <1>2, <2>1 DEF ExitMenu
  <2>2. ASSUME NEW m, StartGame(m) PROVE TronInv'
    BY <1>6, <2>2 DEF StartGame
  <2> QED BY <1>7, <2>1, <2>2 DEF ShowStartMenu
<1>8. ASSUME NEW ch \in MenuKeys, ShowEndMenu(ch) PROVE TronInv'
  <2>1. CASE ContinuePlaying
    BY <1>6, <2>1 DEF ContinuePlaying
  <2>2. CASE ReturnToMenu
    BY <1>1, <1>2, <2>2 DEF ReturnToMenu
  <2>3. CASE ExitGame
    BY <1>1, <1>2, <2>3 DEF ExitGame
  <2> QED BY <1>8, <2>1, <2>2, <2>3 DEF ShowEndMenu
<1> QED BY <1>3, <1>4, <1>5, <1>7, <1>8 DEF TronNext

\* At every level and on every board, the program loses a round only where it
\* could not have gone on: ai_choose_dir_simple and ai_choose_dir_track (bot.c)
\* never leave a free way ahead or to a side for a crash, and never ask
\* player_set_dir (player.c) for a turn back, which it would ignore.
THEOREM BotAlwaysSurvives == TronSpec => BotSurvives
PROOF
<1>1. TronInit => TronInv
  BY TronStart
<1>2. TronInv /\ [TronNext]_tronvars => TronInv'
  BY TronStep
<1>3. TronInv /\ [TronNext]_tronvars =>
        [at = "round" /\ game_mode = Single /\ score'[1] > score[1] =>
           \A d \in {player[2].dir, DirLeft(player[2].dir), DirRight(player[2].dir)} :
             ~CellIsFree(NextCell(player[2], d))]_tronvars
  <2>. SUFFICES ASSUME TronInv, TronNext, at = "round", game_mode = Single,
                       score'[1] > score[1],
                       NEW d \in {player[2].dir, DirLeft(player[2].dir), DirRight(player[2].dir)},
                       CellIsFree(NextCell(player[2], d))
                PROVE  FALSE
    BY DEF tronvars
  <2>1. score[1] \in Nat /\ player[2] \in PlayerShapes
    BY DEF TronInv, Players
  <2>2. PICK d1 \in Keyed(1), pick \in 0..3 : Tick(d1, BotIntent(pick))
    <3>1. ~AnyKey /\ ~\E ch \in MenuKeys : ShowStartMenu(ch) \/ ShowEndMenu(ch)
      BY DEF AnyKey, ShowStartMenu, ShowEndMenu, ExitMenu, StartGame, ContinuePlaying,
             ReturnToMenu, ExitGame
    <3>2. ~\E e1 \in Keyed(1), e2 \in Keyed(2) : CoopTick(e1, e2)
      BY DEF CoopTick, Single, Coop
    <3> QED BY <3>1, <3>2 DEF TronNext, Ticks, SingleTick
  <2>. DEFINE d2 == BotIntent(pick)
              p1 == Turned(player[1], d1)
              p2 == Turned(player[2], d2)
              occ2 == Painted(p2, occ)
              lives == <<Survives(p1, occ2), Survives(p2, occ)>>
  <2>3. /\ CellIsFree(NextCell(player[2], d2)) /\ d2 # Opposite(player[2].dir)
    BY BotChoice
  <2>4. p2.dir = d2 /\ p2.cell = player[2].cell
    BY <2>1, <2>3 DEF Turned, PlayerShapes
  <2>5. Survives(p2, occ)
    <3>1. NextCell(p2, p2.dir) = NextCell(player[2], d2)
      BY <2>4 DEF NextCell
    <3> QED BY <2>3, <3>1 DEF Survives, CellIsFree
  <2>. HIDE DEF d2
  <2>6. RoundOver(lives)
    <3>1. lives = <<TRUE, TRUE>> => score' = score
      BY <2>2 DEF Tick, d2
    <3>2. lives # <<TRUE, TRUE>> => RoundOver(lives)
      BY <2>2 DEF Tick, d2
    <3>3. score' # score
      BY <2>1
    <3>. HIDE DEF lives
    <3> QED BY <3>1, <3>2, <3>3
  <2>7. lives[2] = Survives(p2, occ)
    OBVIOUS
  <2>. HIDE DEF lives
  <2>8. score'[1] = score[1] + Points(lives)[1] /\ Points(lives)[1] = 0
    BY <2>5, <2>6, <2>7 DEF RoundOver, Points
  <2> QED BY <2>1, <2>8
<1> QED BY <1>1, <1>2, <1>3, PTL DEF TronSpec, BotSurvives

-----------------------------------------------------------------------------
(* Console: the line on the screen.                                        *)

\* A set with 0 and with the next of each of its numbers has all of them.
LEMMA Counting ==
  ASSUME NEW S, 0 \in S, \A k \in Nat : k \in S => k + 1 \in S
  PROVE  Nat \subseteq S
PROOF
<1>. DEFINE Missing == Nat \ S
<1>. SUFFICES ASSUME Missing # {} PROVE FALSE
  OBVIOUS
<1>1. PICK m \in Missing : \A j \in Missing : ~(<<j, m>> \in OpToRel(<, Nat))
  BY NatLessThanWellFounded, WFMin
<1>2. m \in Nat /\ m # 0 /\ m - 1 \in Nat
  OBVIOUS
<1>3. m - 1 \notin S
  BY <1>2
<1>4. <<m - 1, m>> \in OpToRel(<, Nat)
  BY <1>2 DEF OpToRel
<1> QED BY <1>1, <1>2, <1>3, <1>4

-----------------------------------------------------------------------------
(* The places of the glyphs.                                               *)

\* A console whose letters fit, with a prompt that begins at column x0.
LettersFit(s, x0) == s \in 1..4 /\ s <= ScreenW /\ x0 \in Nat /\ x0 + s <= ScreenW

LEMMA ScreenSize == ScreenW \in Nat \ {0} /\ ScreenH \in Nat \ {0}
PROOF
<1> QED BY ConsoleAssumption

\* Division of the next number.
LEMMA NextDivided ==
  ASSUME NEW k \in Nat, NEW r \in Nat \ {0}
  PROVE  /\ k % r \in 0..(r - 1) /\ k \div r \in Nat
         /\ (k % r) + 1 < r => (k + 1) % r = (k % r) + 1 /\ (k + 1) \div r = k \div r
         /\ (k % r) + 1 = r => (k + 1) % r = 0 /\ (k + 1) \div r = k \div r + 1
PROOF
<1>1. PICK q : q = k \div r
  OBVIOUS
<1>2. PICK m : m = k % r
  OBVIOUS
<1>3. q \in Nat /\ m \in 0..(r - 1) /\ k = r * q + m
  BY <1>1, <1>2
<1>4. ASSUME NEW a \in Nat, NEW b \in 0..(r - 1), k + 1 = r * a + b
      PROVE  (k + 1) \div r = a /\ (k + 1) % r = b
  BY <1>4
<1>5. CASE m + 1 < r
  <2>1. m + 1 \in 0..(r - 1) /\ k + 1 = r * q + (m + 1)
    BY <1>3, <1>5
  <2>2. (k + 1) \div r = q /\ (k + 1) % r = m + 1
    BY <1>3, <1>4, <2>1
  <2> QED BY <1>1, <1>2, <1>3, <1>5, <2>2
<1>6. CASE m + 1 = r
  <2>1. 0 \in 0..(r - 1) /\ q + 1 \in Nat /\ k + 1 = r * (q + 1) + 0
    BY <1>3, <1>6
  <2>2. (k + 1) \div r = q + 1 /\ (k + 1) % r = 0
    BY <1>4, <2>1
  <2> QED BY <1>1, <1>2, <1>3, <1>6, <2>2
<1> QED BY <1>1, <1>2, <1>3, <1>5, <1>6

\* How many glyphs fit from a column on.
LEMMA RoomIs ==
  ASSUME NEW s \in 1..4, NEW w \in Nat
  PROVE  /\ w \div s \in Nat
         /\ \A i \in Nat : i < w \div s <=> i * s + s <= w
PROOF
<1>1. CASE s = 1
  BY <1>1
<1>2. CASE s = 2
  BY <1>2
<1>3. CASE s = 3
  BY <1>3
<1>4. CASE s = 4
  BY <1>4
<1> QED BY <1>1, <1>2, <1>3, <1>4

LEMMA Product ==
  ASSUME NEW s \in 1..4, NEW i \in Nat
  PROVE  i * s \in Nat /\ (i + 1) * s = i * s + s
PROOF
<1>1. CASE s = 1
  BY <1>1
<1>2. CASE s = 2
  BY <1>2
<1>3. CASE s = 3
  BY <1>3
<1>4. CASE s = 4
  BY <1>4
<1> QED BY <1>1, <1>2, <1>3, <1>4

\* A glyph lies within the screen's width, and the next one right behind it or, where
\* there is no more room, at the beginning of the next row.
LEMMA PlaceNext ==
  ASSUME NEW c, NEW x0, LettersFit(c.s, x0), c.top \in Int, NEW i \in Nat,
         NEW P, P = Place(c, x0, i), NEW Q, Q = Place(c, x0, i + 1)
  PROVE  /\ P = <<P[1], P[2]>> /\ P[1] \in Nat /\ P[2] \in Int /\ P[1] + c.s <= ScreenW
         /\ P[1] + c.s + c.s <= ScreenW => Q = <<P[1] + c.s, P[2]>>
         /\ P[1] + c.s + c.s > ScreenW  => Q = <<0, P[2] + c.s>>
PROOF
<1>1. ScreenW \in Nat \ {0}
  BY ScreenSize
<1>2. PICK s : s = c.s
  OBVIOUS
<1>3. s \in 1..4 /\ s <= ScreenW /\ x0 \in Nat /\ x0 + s <= ScreenW
  BY <1>2 DEF LettersFit
<1>4. PICK first : first = (ScreenW - x0) \div s
  OBVIOUS
<1>5. PICK row : row = ScreenW \div s
  OBVIOUS
<1>6. first \in Nat /\ \A k \in Nat : k < first <=> k * s + s <= ScreenW - x0
  <2>1. ScreenW - x0 \in Nat
    BY <1>1, <1>3
  <2> QED BY <1>3, <1>4, <2>1, RoomIs
<1>7. row \in Nat /\ \A k \in Nat : k < row <=> k * s + s <= ScreenW
  BY <1>1, <1>3, <1>5, RoomIs
<1>8. row # 0
  <2>1. 0 * s = 0
    BY <1>3
  <2> QED BY <1>3, <1>7, <2>1
<1>. DEFINE Spot(k) == IF k < first THEN <<x0 + k * s, c.top>>
                       ELSE <<((k - first) % row) * s, c.top + (1 + (k - first) \div row) * s>>
<1>9. \A k \in Nat : Place(c, x0, k) = Spot(k)
  BY <1>2, <1>4, <1>5 DEF Place
<1>10. P = Spot(i)
  BY <1>9
<1>11. Q = Spot(i + 1)
  <2>1. i + 1 \in Nat
    OBVIOUS
  <2>. HIDE DEF Spot
  <2> QED BY <1>9, <2>1
<1>12. CASE i < first
  <2>1. PICK a : a = i * s
    OBVIOUS
  <2>2. a \in Nat /\ (i + 1) * s = a + s /\ a + s <= ScreenW - x0
    BY <1>3, <1>6, <1>12, <2>1, Product
  <2>3. P = <<x0 + a, c.top>>
    BY <1>10, <1>12, <2>1
  <2>4. P = <<P[1], P[2]>> /\ P[1] = x0 + a /\ P[2] = c.top
    BY <2>3
  <2>5. i + 1 < first <=> a + s + s <= ScreenW - x0
    BY <1>6, <2>2
  <2>6. i + 1 < first => Q = <<x0 + (a + s), c.top>>
    BY <1>11, <2>2
  <2>7. ~(i + 1 < first) => Q = <<0, c.top + s>>
    <3>. SUFFICES ASSUME ~(i + 1 < first) PROVE Q = <<0, c.top + s>>
      OBVIOUS
    <3>1. i + 1 - first = 0
      BY <1>6, <1>12
    <3>2. 0 % row = 0 /\ 0 \div row = 0
      BY <1>7, <1>8
    <3>3. 0 * s = 0 /\ (1 + 0) * s = s
      BY <1>3
    <3>4. PICK n : n = i + 1
      OBVIOUS
    <3>5. ~(n < first) /\ n - first = 0
      BY <1>6, <3>1, <3>4
    <3>6. Q = Spot(n)
      BY <1>11, <3>4
    <3>7. Spot(n) = <<(0 % row) * s, c.top + (1 + 0 \div row) * s>>
      BY <3>5, Zenon
    <3> QED BY <3>2, <3>3, <3>6, <3>7
  <2>8. x0 + a \in Nat /\ x0 + a + s <= ScreenW
        /\ (x0 + a + s + s <= ScreenW <=> a + s + s <= ScreenW - x0) /\ x0 + (a + s) = x0 + a + s
    BY <1>1, <1>3, <2>2
  <2>9. i + 1 < first <=> x0 + a + s + s <= ScreenW
    BY <2>5, <2>8
  <2>10. ~(x0 + a + s + s > ScreenW /\ x0 + a + s + s <= ScreenW)
    BY <1>1, <1>3, <2>2
  <2> QED BY <1>2, <2>4, <2>6, <2>7, <2>8, <2>9, <2>10
<1>13. CASE ~(i < first)
  <2>1. PICK k : k = i - first
    OBVIOUS
  <2>2. k \in Nat /\ i + 1 - first = k + 1 /\ ~(i + 1 < first)
    BY <1>6, <1>13, <2>1
  <2>3. PICK m : m = k % row
    OBVIOUS
  <2>4. PICK d : d = k \div row
    OBVIOUS
  <2>5. /\ m \in Nat /\ m < row /\ d \in Nat
        /\ m + 1 < row => (k + 1) % row = m + 1 /\ (k + 1) \div row = d
        /\ m + 1 = row => (k + 1) % row = 0 /\ (k + 1) \div row = d + 1
    <3>1. row \in Nat \ {0} /\ k \in Nat
      BY <1>7, <1>8, <2>2
    <3>2. /\ k % row \in 0..(row - 1) /\ k \div row \in Nat
          /\ (k % row) + 1 < row => (k + 1) % row = (k % row) + 1 /\ (k + 1) \div row = k \div row
          /\ (k % row) + 1 = row => (k + 1) % row = 0 /\ (k + 1) \div row = k \div row + 1
      BY <3>1, NextDivided
    <3>3. m \in 0..(row - 1) => m \in Nat /\ m < row
      BY <3>1
    <3> QED BY <2>3, <2>4, <3>2, <3>3
  <2>6. PICK a : a = m * s
    OBVIOUS
  <2>7. a \in Nat /\ (m + 1) * s = a + s /\ a + s <= ScreenW
    BY <1>3, <1>7, <2>5, <2>6, Product
  <2>8. PICK h : h = (1 + d) * s
    OBVIOUS
  <2>9. h \in Nat /\ (1 + (d + 1)) * s = h + s
    <3>1. 1 + d \in Nat /\ 1 + (d + 1) = (1 + d) + 1
      BY <2>5
    <3> QED BY <1>3, <2>8, <3>1, Product
  <2>10. P = <<a, c.top + h>>
    BY <1>10, <1>13, <2>1, <2>3, <2>4, <2>6, <2>8
  <2>11. P = <<P[1], P[2]>> /\ P[1] = a /\ P[2] = c.top + h
    BY <2>10
  <2>12. m + 1 < row <=> a + s + s <= ScreenW
    BY <1>7, <2>5, <2>7
  <2>13. Q = <<((k + 1) % row) * s, c.top + (1 + (k + 1) \div row) * s>>
    <3>1. PICK n : n = i + 1
      OBVIOUS
    <3>2. ~(n < first) /\ n - first = k + 1
      BY <1>6, <2>2, <3>1
    <3>3. Q = Spot(n)
      BY <1>11, <3>1
    <3>4. Spot(n) = <<((k + 1) % row) * s, c.top + (1 + (k + 1) \div row) * s>>
      BY <3>2, Zenon
    <3> QED BY <3>3, <3>4
  <2>14. m + 1 < row => Q = <<a + s, c.top + h>>
    BY <2>5, <2>7, <2>8, <2>13
  <2>15. m + 1 = row => Q = <<0, c.top + h + s>>
    <3>1. 0 * s = 0
      BY <1>3
    <3>2. c.top + (h + s) = c.top + h + s
      BY <1>3, <2>9
    <3> QED BY <2>5, <2>9, <2>13, <3>1, <3>2
  <2>16. c.top + h \in Int /\ (a + s + s > ScreenW <=> ~(m + 1 < row)) /\ (m + 1 < row \/ m + 1 = row)
    BY <1>1, <1>3, <1>7, <2>5, <2>7, <2>9, <2>12
  <2> QED BY <1>2, <2>7, <2>11, <2>12, <2>14, <2>15, <2>16
<1> QED BY <1>12, <1>13

\* A glyph lies in an earlier row than a later one, or to the left of it.
LEMMA PlacesApart ==
  ASSUME NEW c, NEW x0, LettersFit(c.s, x0), c.top \in Int, NEW i \in Nat, NEW j \in Nat, i < j,
         NEW P, P = Place(c, x0, i), NEW Q, Q = Place(c, x0, j)
  PROVE  P[2] + c.s <= Q[2] \/ (P[2] = Q[2] /\ P[1] + c.s <= Q[1])
PROOF
<1>. DEFINE Behind(R) == P[2] + c.s <= R[2] \/ (P[2] = R[2] /\ P[1] + c.s <= R[1])
            D == {d \in Nat : Behind(Place(c, x0, i + (d + 1)))}
<1>1. c.s \in 1..4 /\ ScreenW \in Nat
  BY ScreenSize DEF LettersFit
<1>2. 0 \in D
  <2>1. PICK R : R = Place(c, x0, i + 1)
    OBVIOUS
  <2>2. /\ P[1] \in Nat /\ P[2] \in Int
        /\ P[1] + c.s + c.s <= ScreenW => R = <<P[1] + c.s, P[2]>>
        /\ P[1] + c.s + c.s > ScreenW  => R = <<0, P[2] + c.s>>
    BY <2>1, PlaceNext
  <2>3. P[1] + c.s + c.s <= ScreenW \/ P[1] + c.s + c.s > ScreenW
    BY <1>1, <2>2
  <2>4. Behind(R)
    BY <1>1, <2>2, <2>3
  <2>5. i + (0 + 1) = i + 1
    OBVIOUS
  <2> QED BY <2>1, <2>4, <2>5
<1>3. ASSUME NEW d \in Nat, d \in D PROVE d + 1 \in D
  <2>1. PICK n : n = i + (d + 1)
    OBVIOUS
  <2>2. n \in Nat /\ i + ((d + 1) + 1) = n + 1
    BY <2>1
  <2>3. PICK R : R = Place(c, x0, n)
    OBVIOUS
  <2>4. PICK T : T = Place(c, x0, n + 1)
    OBVIOUS
  <2>5. Behind(R)
    BY <1>3, <2>1, <2>3
  <2>6. /\ R[1] \in Nat /\ R[2] \in Int
        /\ R[1] + c.s + c.s <= ScreenW => T = <<R[1] + c.s, R[2]>>
        /\ R[1] + c.s + c.s > ScreenW  => T = <<0, R[2] + c.s>>
    BY <2>2, <2>3, <2>4, PlaceNext
  <2>7. P[1] \in Nat /\ P[2] \in Int
    BY PlaceNext
  <2>8. R[1] + c.s + c.s <= ScreenW \/ R[1] + c.s + c.s > ScreenW
    BY <1>1, <2>6
  <2>9. Behind(T)
    BY <1>1, <2>5, <2>6, <2>7, <2>8
  <2> QED BY <2>2, <2>4, <2>9
<1>4. Nat \subseteq D
  <2>. HIDE DEF D
  <2> QED BY <1>2, <1>3, Counting
<1>5. j - i - 1 \in Nat /\ i + ((j - i - 1) + 1) = j
  OBVIOUS
<1> QED BY <1>4, <1>5

-----------------------------------------------------------------------------
(* Consoles, and what an operation makes of one.                           *)

Written   == UNION {{str[i] : i \in 1..Len(str)} : str \in Outputs}
Typeable  == {"-", Space} \cup EchoKeys
Contents  == Typeable \cup Written
Sizes     == {n \in 1..4 : n <= ScreenW /\ n <= ScreenH}
Screens   == [Cells -> Contents]
Consoles  ==
  [x : Nat, y : Nat, s : Sizes, cells : Screens, top : Int, askew : BOOLEAN]

\* The cursor is on the screen; or in a column of it, whatever its row.
Fits(c)   == c.askew \/ OnScreen(c)
Across(c) == c.askew \/ c.x + c.s <= ScreenW

LEMMA SizesFit ==
  ASSUME NEW s \in Sizes
  PROVE  s \in 1..4 /\ s <= ScreenW /\ s <= ScreenH
PROOF
<1> QED BY DEF Sizes

LEMMA CellIs ==
  ASSUME NEW p \in Cells
  PROVE  /\ p = <<p[1], p[2]>> /\ p[1] \in Nat /\ p[2] \in Nat /\ p[1] < ScreenW /\ p[2] < ScreenH
         /\ \A y \in Nat : y < ScreenH => <<p[1], y>> \in Cells
PROOF
<1>1. ScreenW \in Nat /\ ScreenH \in Nat
  BY ScreenSize
<1> QED BY <1>1 DEF Cells

LEMMA ScrolledIs ==
  ASSUME NEW c \in Consoles, NEW d, d = Scrolled(c)
  PROVE  /\ d \in Consoles /\ d.s = c.s /\ d.askew = c.askew /\ d.top = c.top - c.s
         /\ d.x = (IF c.s >= ScreenH \/ c.x + c.s > ScreenW THEN 0 ELSE c.x)
         /\ OnScreen(d)
         /\ c.s <= c.y /\ c.y <= ScreenH => d.y = c.y - c.s
         /\ \A p \in Cells : p[2] + c.s < ScreenH => d.cells[p] = c.cells[<<p[1], p[2] + c.s>>]
PROOF
<1>1. ScreenW \in Nat /\ ScreenH \in Nat
  BY ScreenSize
<1>2. c.x \in Nat /\ c.y \in Nat /\ c.top \in Int /\ c.s \in 1..4 /\ c.s <= ScreenW /\ c.s <= ScreenH
  BY SizesFit DEF Consoles
<1>3. PICK y : y = IF c.y >= c.s THEN c.y - c.s ELSE 0
  OBVIOUS
<1>4. PICK cs : cs = [p \in Cells |-> IF p[2] + c.s < ScreenH THEN c.cells[<<p[1], p[2] + c.s>>] ELSE Space]
  OBVIOUS
<1>5. d = [c EXCEPT !.cells = cs, !.x = IF c.s >= ScreenH \/ c.x + c.s > ScreenW THEN 0 ELSE c.x,
                    !.y = IF y + c.s > ScreenH THEN ScreenH - c.s ELSE y, !.top = c.top - c.s]
  BY <1>3, <1>4 DEF Scrolled
<1>6. cs \in Screens
  <2>1. ASSUME NEW p \in Cells
        PROVE  (IF p[2] + c.s < ScreenH THEN c.cells[<<p[1], p[2] + c.s>>] ELSE Space) \in Contents
    <3>1. Space \in Contents
      BY DEF Contents, Typeable
    <3>2. c.cells \in [Cells -> Contents]
      BY DEF Consoles, Screens
    <3>3. p[2] + c.s < ScreenH => <<p[1], p[2] + c.s>> \in Cells
      BY <1>2, CellIs
    <3> QED BY <3>1, <3>2, <3>3
  <2> QED BY <1>4, <2>1 DEF Screens
<1>7. y \in Nat
  BY <1>2, <1>3
<1>8. PICK nx : nx = IF c.s >= ScreenH \/ c.x + c.s > ScreenW THEN 0 ELSE c.x
  OBVIOUS
<1>9. PICK ny : ny = IF y + c.s > ScreenH THEN ScreenH - c.s ELSE y
  OBVIOUS
<1>10. nx \in Nat /\ ny \in Nat /\ nx + c.s <= ScreenW /\ ny + c.s <= ScreenH
  BY <1>1, <1>2, <1>7, <1>8, <1>9
<1>11. c = [x |-> c.x, y |-> c.y, s |-> c.s, cells |-> c.cells, top |-> c.top, askew |-> c.askew]
  BY DEF Consoles
<1>12. d = [x |-> nx, y |-> ny, s |-> c.s, cells |-> cs, top |-> c.top - c.s, askew |-> c.askew]
  BY <1>5, <1>8, <1>9, <1>11
<1>13. /\ d.x = nx /\ d.y = ny /\ d.s = c.s /\ d.cells = cs /\ d.top = c.top - c.s
       /\ d.askew = c.askew
  BY <1>12
<1>14. d \in Consoles
  <2>1. c.s \in Sizes /\ c.askew \in BOOLEAN /\ c.top - c.s \in Int
    BY <1>2 DEF Consoles
  <2> QED BY <1>6, <1>10, <1>12, <2>1 DEF Consoles
<1>15. OnScreen(d)
  BY <1>10, <1>13 DEF OnScreen
<1>16. c.s <= c.y /\ c.y <= ScreenH => ny = c.y - c.s
  BY <1>1, <1>2, <1>3, <1>9
<1>17. \A p \in Cells : p[2] + c.s < ScreenH => cs[p] = c.cells[<<p[1], p[2] + c.s>>]
  BY <1>4
<1> QED BY <1>8, <1>13, <1>14, <1>15, <1>16, <1>17

LEMMA NextRowIs ==
  ASSUME NEW c \in Consoles, NEW d, d = NextRow(c)
  PROVE  /\ d \in Consoles /\ d.x = 0 /\ d.y = c.y + c.s /\ d.s = c.s /\ d.cells = c.cells
         /\ d.top = c.top /\ d.askew = c.askew /\ Across(d)
PROOF
<1>1. c.x \in Nat /\ c.y \in Nat /\ c.s \in 1..4 /\ c.s <= ScreenW
  BY SizesFit DEF Consoles
<1>2. c = [x |-> c.x, y |-> c.y, s |-> c.s, cells |-> c.cells, top |-> c.top, askew |-> c.askew]
  BY DEF Consoles
<1>3. d = [x |-> 0, y |-> c.y + c.s, s |-> c.s, cells |-> c.cells, top |-> c.top, askew |-> c.askew]
  BY <1>2 DEF NextRow
<1>4. /\ d.x = 0 /\ d.y = c.y + c.s /\ d.s = c.s /\ d.cells = c.cells /\ d.top = c.top
      /\ d.askew = c.askew
  BY <1>3
<1>5. c.y + c.s \in Nat /\ 0 + c.s <= ScreenW
  BY <1>1
<1>6. d \in Consoles
  BY <1>3, <1>5 DEF Consoles
<1> QED BY <1>4, <1>5, <1>6 DEF Across

LEMMA MovedIs ==
  ASSUME NEW c \in Consoles, NEW x \in Nat, NEW d, d = Moved(c, x)
  PROVE  /\ d \in Consoles /\ d.x = x /\ d.y = c.y /\ d.s = c.s /\ d.cells = c.cells
         /\ d.top = c.top /\ d.askew = c.askew
PROOF
<1>1. c = [x |-> c.x, y |-> c.y, s |-> c.s, cells |-> c.cells, top |-> c.top, askew |-> c.askew]
  BY DEF Consoles
<1>2. d = [x |-> x, y |-> c.y, s |-> c.s, cells |-> c.cells, top |-> c.top, askew |-> c.askew]
  BY <1>1 DEF Moved
<1>3. /\ d.x = x /\ d.y = c.y /\ d.s = c.s /\ d.cells = c.cells /\ d.top = c.top
      /\ d.askew = c.askew
  BY <1>2
<1>4. d \in Consoles
  BY <1>2 DEF Consoles
<1> QED BY <1>3, <1>4

\* The cells a glyph at the cursor covers.
Covered(c, p) == p[1] \in c.x..(c.x + c.s - 1) /\ p[2] \in c.y..(c.y + c.s - 1)

LEMMA DrawnIs ==
  ASSUME NEW c \in Consoles, NEW g \in Contents, NEW d, d = Drawn(c, g)
  PROVE  /\ d \in Consoles /\ d.x = c.x /\ d.y = c.y /\ d.s = c.s /\ d.top = c.top
         /\ d.askew = c.askew
         /\ \A p \in Cells : d.cells[p] = IF Covered(c, p) THEN g ELSE c.cells[p]
PROOF
<1>1. PICK cs : cs = [p \in Cells |-> IF Covered(c, p) THEN g ELSE c.cells[p]]
  OBVIOUS
<1>2. cs \in Screens
  <2>1. c.cells \in [Cells -> Contents]
    BY DEF Consoles, Screens
  <2>2. ASSUME NEW p \in Cells PROVE (IF Covered(c, p) THEN g ELSE c.cells[p]) \in Contents
    BY <2>1
  <2> QED BY <1>1, <2>2 DEF Screens
<1>3. c = [x |-> c.x, y |-> c.y, s |-> c.s, cells |-> c.cells, top |-> c.top, askew |-> c.askew]
  BY DEF Consoles
<1>4. d = [c EXCEPT !.cells = cs]
  BY <1>1 DEF Drawn, Covered
<1>5. d = [x |-> c.x, y |-> c.y, s |-> c.s, cells |-> cs, top |-> c.top, askew |-> c.askew]
  BY <1>3, <1>4
<1>6. /\ d.x = c.x /\ d.y = c.y /\ d.s = c.s /\ d.cells = cs /\ d.top = c.top
      /\ d.askew = c.askew
  BY <1>5
<1>7. d \in Consoles
  BY <1>2, <1>5 DEF Consoles
<1>8. \A p \in Cells : cs[p] = IF Covered(c, p) THEN g ELSE c.cells[p]
  BY <1>1
<1> QED BY <1>6, <1>7, <1>8

\* Fitted scrolls where the cursor has left the last row, and does nothing else.
LEMMA FittedIs ==
  ASSUME NEW c \in Consoles, NEW e, e = (IF c.y + c.s > ScreenH THEN Scrolled(c) ELSE c),
         NEW d, d = Fitted(c)
  PROVE  /\ e \in Consoles /\ d \in Consoles /\ d.x = e.x /\ d.y = e.y /\ d.s = c.s /\ e.s = c.s
         /\ d.cells = e.cells /\ d.top = e.top /\ (~c.askew => ~d.askew)
         /\ Across(c) => Fits(d)
PROOF
<1>1. e \in Consoles /\ e.s = c.s /\ e.askew = c.askew
      /\ (c.y + c.s > ScreenH => OnScreen(e)) /\ (~(c.y + c.s > ScreenH) => e = c)
  BY ScrolledIs
<1>2. e = [x |-> e.x, y |-> e.y, s |-> e.s, cells |-> e.cells, top |-> e.top, askew |-> e.askew]
  BY <1>1 DEF Consoles
<1>3. PICK a : a = (e.askew /\ ~OnScreen(e))
  OBVIOUS
<1>4. d = [e EXCEPT !.askew = a]
  BY <1>3 DEF Fitted
<1>5. d = [x |-> e.x, y |-> e.y, s |-> e.s, cells |-> e.cells, top |-> e.top, askew |-> a]
  BY <1>2, <1>4
<1>6. d.x = e.x /\ d.y = e.y /\ d.s = e.s /\ d.cells = e.cells /\ d.top = e.top /\ d.askew = a
  BY <1>5
<1>7. d \in Consoles
  <2>1. a \in BOOLEAN
    BY <1>3
  <2> QED BY <1>1, <1>5, <2>1 DEF Consoles
<1>8. OnScreen(d) <=> OnScreen(e)
  BY <1>6 DEF OnScreen
<1>9. ~c.askew => ~d.askew
  BY <1>1, <1>3, <1>6
<1>10. ASSUME Across(c) PROVE Fits(d)
  <2>1. c.y \in Nat /\ c.s \in 1..4 /\ ScreenH \in Nat
    BY ScreenSize, SizesFit DEF Consoles
  <2>2. CASE c.y + c.s > ScreenH
    BY <1>1, <1>8, <2>2 DEF Fits
  <2>3. CASE ~(c.y + c.s > ScreenH)
    <3>1. e = c /\ c.y + c.s <= ScreenH
      BY <1>1, <2>1, <2>3
    <3>2. CASE c.askew
      <4>1. a \/ OnScreen(e)
        BY <1>1, <1>3, <3>2
      <4> QED BY <1>6, <1>8, <4>1 DEF Fits
    <3>3. CASE ~c.askew
      BY <1>8, <1>10, <3>1, <3>3 DEF Fits, Across, OnScreen
    <3> QED BY <3>2, <3>3
  <2> QED BY <2>2, <2>3
<1> QED BY <1>1, <1>6, <1>7, <1>9, <1>10

\* What an operation that anybody calls keeps: the size of the letters, and a cursor
\* that is where it should be.
Keeps(c, d) ==
  d \in Consoles /\ d.s = c.s /\ (Fits(c) => Fits(d)) /\ (Across(c) => Across(d))

LEMMA FitsAcross ==
  ASSUME NEW c, Fits(c)
  PROVE  Across(c)
PROOF
<1> QED BY DEF Fits, Across, OnScreen

LEMMA VdNewlineIs ==
  ASSUME NEW c \in Consoles, NEW d, d = VdNewline(c)
  PROVE  Keeps(c, d) /\ Fits(d)
PROOF
<1>1. PICK r : r = NextRow(c)
  OBVIOUS
<1>2. r \in Consoles /\ r.s = c.s /\ Across(r)
  BY <1>1, NextRowIs
<1>3. d = Fitted(r)
  BY <1>1 DEF VdNewline
<1>4. PICK e : e = (IF r.y + r.s > ScreenH THEN Scrolled(r) ELSE r)
  OBVIOUS
<1>5. d \in Consoles /\ d.s = r.s /\ Fits(d)
  BY <1>2, <1>3, <1>4, FittedIs
<1> QED BY <1>2, <1>5, FitsAcross DEF Keeps

LEMMA GlyphKeeps ==
  ASSUME NEW c \in Consoles, NEW g \in Contents, NEW d, d = Glyph(c, g)
  PROVE  Keeps(c, d)
PROOF
<1>1. PICK b : b = Drawn(c, g)
  OBVIOUS
<1>2. b \in Consoles /\ b.x = c.x /\ b.y = c.y /\ b.s = c.s /\ b.askew = c.askew
  BY <1>1, DrawnIs
<1>3. PICK m : m = Moved(b, c.x + c.s)
  OBVIOUS
<1>4. c.x + c.s \in Nat /\ c.x \in Nat /\ c.y \in Nat /\ c.s \in 1..4 /\ ScreenW \in Nat /\ ScreenH \in Nat
  BY ScreenSize, SizesFit DEF Consoles
<1>5. m \in Consoles /\ m.x = c.x + c.s /\ m.y = c.y /\ m.s = c.s /\ m.askew = c.askew
  <2>1. PICK x : x = c.x + c.s
    OBVIOUS
  <2>2. x \in Nat /\ m = Moved(b, x)
    BY <1>3, <1>4, <2>1
  <2>3. m \in Consoles /\ m.x = x /\ m.y = b.y /\ m.s = b.s /\ m.askew = b.askew
    BY <1>2, <2>2, MovedIs
  <2> QED BY <1>2, <2>1, <2>3
<1>6. d = IF Wraps(m) THEN VdNewline(m) ELSE m
  BY <1>1, <1>3 DEF Glyph
<1>7. CASE Wraps(m)
  <2>1. Keeps(m, d) /\ Fits(d)
    BY <1>5, <1>6, <1>7, VdNewlineIs
  <2> QED BY <1>5, <2>1, FitsAcross DEF Keeps
<1>8. CASE ~Wraps(m)
  <2>1. d = m
    BY <1>6, <1>8
  <2>2. m.x + m.s <= ScreenW
    BY <1>4, <1>5, <1>8 DEF Wraps
  <2>3. Across(m)
    BY <2>2 DEF Across
  <2>4. Fits(c) => Fits(m)
    BY <1>5, <2>2 DEF Fits, OnScreen
  <2> QED BY <1>5, <2>1, <2>3, <2>4 DEF Keeps
<1> QED BY <1>7, <1>8

LEMMA BackSpacedKeeps ==
  ASSUME NEW c \in Consoles, NEW d, d = BackSpaced(c)
  PROVE  Keeps(c, d)
PROOF
<1>1. /\ c.x \in Nat /\ c.y \in Nat /\ c.s \in 1..4 /\ ScreenW \in Nat /\ ScreenH \in Nat
      /\ Space \in Contents
  BY ScreenSize, SizesFit DEF Consoles, Contents, Typeable
<1>2. CASE c.x >= c.s
  <2>1. PICK m : m = Moved(c, c.x - c.s)
    OBVIOUS
  <2>2. c.x - c.s \in Nat
    BY <1>1, <1>2
  <2>3. m \in Consoles /\ m.x = c.x - c.s /\ m.y = c.y /\ m.s = c.s /\ m.askew = c.askew
    BY <2>1, <2>2, MovedIs
  <2>4. d = Drawn(m, Space)
    BY <1>2, <2>1 DEF BackSpaced
  <2>5. d \in Consoles /\ d.x = m.x /\ d.y = m.y /\ d.s = m.s /\ d.askew = m.askew
    BY <1>1, <2>3, <2>4, DrawnIs
  <2>6. (Fits(c) => Fits(d)) /\ (Across(c) => Across(d))
    BY <1>1, <2>3, <2>5 DEF Fits, Across, OnScreen
  <2> QED BY <2>3, <2>5, <2>6 DEF Keeps
<1>3. CASE ~(c.x >= c.s) /\ c.y >= c.s
  <2>1. PICK w : w = (ScreenW \div c.s) * c.s
    OBVIOUS
  <2>2. w \in Nat /\ c.y - c.s \in Nat
    <3>1. ScreenW \div c.s \in Nat
      BY <1>1, RoomIs
    <3>2. w \in Nat
      BY <1>1, <2>1, <3>1, Product
    <3> QED BY <1>1, <1>3, <3>2
  <2>3. PICK m : m = [c EXCEPT !.x = w, !.y = c.y - c.s, !.askew = TRUE]
    OBVIOUS
  <2>4. c = [x |-> c.x, y |-> c.y, s |-> c.s, cells |-> c.cells, top |-> c.top, askew |-> c.askew]
    BY DEF Consoles
  <2>5. m = [x |-> w, y |-> c.y - c.s, s |-> c.s, cells |-> c.cells, top |-> c.top, askew |-> TRUE]
    BY <2>3, <2>4
  <2>6. m \in Consoles /\ m.s = c.s /\ m.askew
    BY <2>2, <2>5 DEF Consoles
  <2>7. d = Drawn(m, Space)
    BY <1>3, <2>1, <2>3 DEF BackSpaced
  <2>8. d \in Consoles /\ d.s = m.s /\ d.askew = m.askew
    BY <1>1, <2>6, <2>7, DrawnIs
  <2> QED BY <2>6, <2>8 DEF Keeps, Fits, Across
<1>4. CASE ~(c.x >= c.s) /\ ~(c.y >= c.s)
  BY <1>4 DEF BackSpaced, Keeps
<1> QED BY <1>2, <1>3, <1>4

LEMMA KeepsOn ==
  ASSUME NEW c, NEW d, NEW e, Keeps(c, d), Keeps(d, e)
  PROVE  Keeps(c, e)
PROOF
<1> QED BY DEF Keeps

LEMMA PrintedKeeps ==
  ASSUME NEW c \in Consoles, NEW ch \in Contents, NEW d, d = Printed(c, ch)
  PROVE  Keeps(c, d)
PROOF
<1>1. CASE ch = NL
  <2>1. d = VdNewline(c)
    BY <1>1 DEF Printed, NL, BS, TAB
  <2> QED BY <2>1, VdNewlineIs
<1>2. CASE ch = BS
  <2>1. d = BackSpaced(c)
    BY <1>2 DEF Printed, NL, BS, TAB
  <2> QED BY <2>1, BackSpacedKeeps
<1>3. CASE ch = TAB
  <2>1. PICK d1 : d1 = Glyph(c, Space)
    OBVIOUS
  <2>2. PICK d2 : d2 = Glyph(d1, Space)
    OBVIOUS
  <2>3. PICK d3 : d3 = Glyph(d2, Space)
    OBVIOUS
  <2>4. d = Glyph(d3, Space)
    BY <1>3, <2>1, <2>2, <2>3 DEF Printed, NL, BS, TAB
  <2>5. Space \in Contents
    BY DEF Contents, Typeable
  <2>6. Keeps(c, d1) /\ d1 \in Consoles
    BY <2>1, <2>5, GlyphKeeps DEF Keeps
  <2>7. Keeps(d1, d2) /\ d2 \in Consoles
    BY <2>2, <2>5, <2>6, GlyphKeeps DEF Keeps
  <2>8. Keeps(d2, d3) /\ d3 \in Consoles
    BY <2>3, <2>5, <2>7, GlyphKeeps DEF Keeps
  <2>9. Keeps(d3, d)
    BY <2>4, <2>5, <2>8, GlyphKeeps
  <2> QED BY <2>6, <2>7, <2>8, <2>9, KeepsOn
<1>4. CASE ch # NL /\ ch # BS /\ ch # TAB
  <2>1. d = Glyph(c, ch)
    BY <1>4 DEF Printed
  <2> QED BY <2>1, GlyphKeeps
<1> QED BY <1>1, <1>2, <1>3, <1>4

\* The function of PrintStr.
After(c, str, f, n) == IF n = 0 THEN c ELSE Printed(f[n - 1], str[n])
Prints(c, str, f)   == f = [n \in 0..Len(str) |-> After(c, str, f, n)]

LEMMA PrintsExist ==
  ASSUME NEW c, NEW str, Len(str) \in Nat
  PROVE  \E f : Prints(c, str, f) /\ PrintStr(c, str) = f[Len(str)]
PROOF
<1>. DEFINE R == 0..Len(str)
            Good(f, d) == \A n \in R : n <= d => f[n] = After(c, str, f, n)
            S == {d \in Nat : \E f : f = [n \in R |-> f[n]] /\ Good(f, d)}
<1>2. 0 \in S
  <2>1. PICK f : f = [n \in R |-> c]
    OBVIOUS
  <2>2. f = [n \in R |-> f[n]]
    BY <2>1
  <2>3. Good(f, 0)
    BY <2>1 DEF After
  <2> QED BY <2>2, <2>3
<1>3. ASSUME NEW d \in Nat, d \in S PROVE d + 1 \in S
  <2>1. PICK f : f = [n \in R |-> f[n]] /\ Good(f, d)
    BY <1>3
  <2>2. PICK g : g = [n \in R |-> After(c, str, f, n)]
    OBVIOUS
  <2>3. g = [n \in R |-> g[n]]
    BY <2>2
  <2>4. \A n \in R : n <= d => f[n] = g[n]
    BY <2>1, <2>2
  <2>5. ASSUME NEW n \in R, n <= d + 1 PROVE g[n] = After(c, str, g, n)
    <3>1. n # 0 => n - 1 \in R /\ n - 1 <= d
      BY <2>5
    <3>2. n # 0 => f[n - 1] = g[n - 1]
      BY <2>4, <3>1
    <3>3. After(c, str, f, n) = After(c, str, g, n)
      BY <3>2 DEF After
    <3> QED BY <2>2, <3>3
  <2> QED BY <2>3, <2>5
<1>4. Len(str) \in S
  <2>. HIDE DEF S
  <2> QED BY <1>2, <1>3, Counting
<1>5. PICK f : f = [n \in R |-> f[n]] /\ Good(f, Len(str))
  BY <1>4
<1>6. \A n \in R : f[n] = After(c, str, f, n)
  BY <1>5
<1>7. Prints(c, str, f)
  <2>1. f = [n \in R |-> After(c, str, f, n)]
    BY <1>5, <1>6
  <2> QED BY <2>1 DEF Prints
<1>8. PICK g : g = CHOOSE h : Prints(c, str, h)
  OBVIOUS
<1>9. Prints(c, str, g)
  BY <1>7, <1>8
<1>10. PrintStr(c, str) = g[Len(str)]
  BY <1>8 DEF PrintStr, Prints, After
<1> QED BY <1>9, <1>10

LEMMA PrintStrKeeps ==
  ASSUME NEW c \in Consoles, NEW str, Len(str) \in Nat, \A i \in 1..Len(str) : str[i] \in Contents,
         NEW d, d = PrintStr(c, str)
  PROVE  Keeps(c, d)
PROOF
<1>1. Len(str) \in Nat /\ \A i \in 1..Len(str) : str[i] \in Contents
  OBVIOUS
<1>2. PICK f : Prints(c, str, f) /\ d = f[Len(str)]
  BY <1>1, PrintsExist
<1>3. \A n \in 0..Len(str) : f[n] = After(c, str, f, n)
  BY <1>2 DEF Prints
<1>. DEFINE D == {n \in Nat : n <= Len(str) => Keeps(c, f[n])}
<1>4. 0 \in D
  <2>1. f[0] = c
    BY <1>1, <1>3 DEF After
  <2>2. Keeps(c, c)
    BY DEF Keeps
  <2> QED BY <2>1, <2>2
<1>5. ASSUME NEW n \in Nat, n \in D PROVE n + 1 \in D
  <2>. SUFFICES ASSUME n + 1 <= Len(str) PROVE Keeps(c, f[n + 1])
    OBVIOUS
  <2>1. n + 1 \in 0..Len(str) /\ n + 1 # 0 /\ (n + 1) - 1 = n /\ n <= Len(str)
        /\ n + 1 \in 1..Len(str)
    BY <1>1
  <2>2. f[n + 1] = Printed(f[n], str[n + 1])
    BY <1>3, <2>1 DEF After
  <2>3. Keeps(c, f[n])
    BY <1>5, <2>1
  <2>4. f[n] \in Consoles
    BY <2>3 DEF Keeps
  <2>5. Keeps(f[n], f[n + 1])
    BY <1>1, <2>1, <2>2, <2>4, PrintedKeeps
  <2> QED BY <2>3, <2>5, KeepsOn
<1>6. Nat \subseteq D
  <2>. HIDE DEF D
  <2> QED BY <1>4, <1>5, Counting
<1> QED BY <1>1, <1>2, <1>6

-----------------------------------------------------------------------------
(* The echo of the glyphs g on a console, from the prompt at column x0 on. *)

InGlyph(P, s, p) == P[1] <= p[1] /\ p[1] < P[1] + s /\ P[2] <= p[2] /\ p[2] < P[2] + s
Shows(c, x0, g, n) ==
  \A i \in 1..n : \A p \in Cells : InGlyph(Place(c, x0, i - 1), c.s, p) => c.cells[p] = g[i]
Reaches(c, x0, n) == <<c.x, c.y>> = Place(c, x0, n)
Ready(c, x0)  == c \in Consoles /\ LettersFit(c.s, x0) /\ ~c.askew

\* The first n glyphs are shown and the cursor is behind them; the next one is drawn,
\* too; the cursor is in a row that may be below the screen.
Stands(c, x0, g, n) == Ready(c, x0) /\ OnScreen(c) /\ Reaches(c, x0, n) /\ Shows(c, x0, g, n)
Half(c, x0, g, n)   == Ready(c, x0) /\ OnScreen(c) /\ Reaches(c, x0, n) /\ Shows(c, x0, g, n + 1)
Below(c, x0, g, n)  ==
  Ready(c, x0) /\ Reaches(c, x0, n) /\ Shows(c, x0, g, n) /\ c.x = 0 /\ c.s <= c.y /\ c.y <= ScreenH

LEMMA SamePlace ==
  ASSUME NEW c, NEW d, c.s = d.s, c.top = d.top, NEW x0, NEW i
  PROVE  Place(c, x0, i) = Place(d, x0, i)
PROOF
<1> QED BY DEF Place

LEMMA PlaceTypes ==
  ASSUME NEW c, NEW x0, LettersFit(c.s, x0), c.top \in Int, NEW i \in Nat, NEW P, P = Place(c, x0, i)
  PROVE  P = <<P[1], P[2]>> /\ P[1] \in Nat /\ P[2] \in Int /\ P[1] + c.s <= ScreenW
PROOF
<1>1. PICK Q : Q = Place(c, x0, i + 1)
  OBVIOUS
<1> QED BY <1>1, PlaceNext

\* A scroll takes the places with it.
LEMMA PlaceScrolls ==
  ASSUME NEW c, NEW d, NEW x0, LettersFit(c.s, x0), c.top \in Int, d.s = c.s, d.top = c.top - c.s,
         NEW i \in Nat, NEW P, P = Place(c, x0, i), NEW Q, Q = Place(d, x0, i)
  PROVE  Q = <<P[1], P[2] - c.s>>
PROOF
<1>1. c.s \in 1..4
  BY DEF LettersFit
<1>2. PICK first : first = (ScreenW - x0) \div c.s
  OBVIOUS
<1>3. PICK row : row = ScreenW \div c.s
  OBVIOUS
<1>4. PICK a : a = x0 + i * c.s
  OBVIOUS
<1>5. PICK b : b = ((i - first) % row) * c.s
  OBVIOUS
<1>6. PICK h : h = (1 + (i - first) \div row) * c.s
  OBVIOUS
<1>7. P = IF i < first THEN <<a, c.top>> ELSE <<b, c.top + h>>
  BY <1>2, <1>3, <1>4, <1>5, <1>6 DEF Place
<1>8. Q = IF i < first THEN <<a, c.top - c.s>> ELSE <<b, (c.top - c.s) + h>>
  BY <1>2, <1>3, <1>4, <1>5, <1>6 DEF Place
<1>9. CASE i < first
  <2>1. P[1] = a /\ P[2] = c.top
    BY <1>7, <1>9
  <2> QED BY <1>8, <1>9, <2>1
<1>10. CASE ~(i < first)
  <2>1. P[1] = b /\ P[2] = c.top + h
    BY <1>7, <1>10
  <2>2. h \in Int
    <3>1. c.top + h \in Int
      BY <2>1, PlaceTypes
    <3>2. h \in Int
      <4>1. i - first \in Nat /\ row \in Nat \ {0}
        <5>1. ScreenW \in Nat /\ x0 \in Nat /\ x0 + c.s <= ScreenW /\ ScreenW - x0 \in Nat
          BY <1>1, ScreenSize DEF LettersFit
        <5>2. first \in Nat /\ row \in Nat /\ (0 < row <=> 0 * c.s + c.s <= ScreenW)
          BY <1>1, <1>2, <1>3, <5>1, RoomIs
        <5>3. 0 * c.s + c.s <= ScreenW
          BY <1>1, <5>1
        <5> QED BY <1>10, <5>2, <5>3
      <4>2. 1 + (i - first) \div row \in Nat
        BY <4>1, NextDivided
      <4> QED BY <1>1, <1>6, <4>2, Product
    <3> QED BY <3>2
  <2>3. (c.top - c.s) + h = (c.top + h) - c.s
    BY <1>1, <2>2
  <2> QED BY <1>8, <1>10, <2>1, <2>3
<1> QED BY <1>9, <1>10

\* vdPrintCharStyled draws the glyph without touching those before it.
LEMMA DrawStep ==
  ASSUME NEW c, NEW x0, NEW g, NEW n \in Nat, Stands(c, x0, g, n), g[n + 1] \in Contents,
         NEW d, d = Drawn(c, g[n + 1])
  PROVE  Half(d, x0, g, n)
PROOF
<1>1. c \in Consoles /\ LettersFit(c.s, x0) /\ ~c.askew /\ c.top \in Int /\ c.s \in 1..4
      /\ c.x \in Nat /\ c.y \in Nat
  BY SizesFit DEF Stands, Ready, Consoles
<1>2. /\ d \in Consoles /\ d.x = c.x /\ d.y = c.y /\ d.s = c.s /\ d.top = c.top /\ d.askew = c.askew
      /\ \A p \in Cells : d.cells[p] = IF Covered(c, p) THEN g[n + 1] ELSE c.cells[p]
  BY <1>1, DrawnIs
<1>3. \A i : Place(d, x0, i) = Place(c, x0, i)
  BY <1>2, SamePlace
<1>4. Ready(d, x0) /\ OnScreen(d) /\ Reaches(d, x0, n)
  BY <1>1, <1>2, <1>3 DEF Stands, Ready, OnScreen, Reaches
<1>5. PICK Q : Q = Place(c, x0, n)
  OBVIOUS
<1>6. Q[1] = c.x /\ Q[2] = c.y
  BY <1>5 DEF Stands, Reaches
<1>7. ASSUME NEW i \in 1..(n + 1), NEW p \in Cells, InGlyph(Place(c, x0, i - 1), c.s, p)
      PROVE  d.cells[p] = g[i]
  <2>1. p[1] \in Nat /\ p[2] \in Nat
    BY CellIs
  <2>2. PICK P : P = Place(c, x0, i - 1)
    OBVIOUS
  <2>3. i - 1 \in Nat
    OBVIOUS
  <2>4. P[1] \in Nat /\ P[2] \in Int
    BY <1>1, <2>2, <2>3, PlaceTypes
  <2>5. InGlyph(P, c.s, p)
    BY <1>7, <2>2
  <2>6. CASE i = n + 1
    <3>1. P = Q
      BY <1>5, <2>2, <2>6
    <3>2. Covered(c, p)
      BY <1>1, <1>6, <2>1, <2>5, <3>1 DEF InGlyph, Covered
    <3> QED BY <1>2, <2>6, <3>2
  <2>7. CASE i # n + 1
    <3>1. i \in 1..n /\ i - 1 < n
      BY <2>7
    <3>2. P[2] + c.s <= Q[2] \/ (P[2] = Q[2] /\ P[1] + c.s <= Q[1])
      BY <1>1, <1>5, <2>2, <2>3, <3>1, PlacesApart
    <3>3. ~Covered(c, p)
      BY <1>1, <1>6, <2>1, <2>4, <2>5, <3>2 DEF InGlyph, Covered
    <3>4. c.cells[p] = g[i]
      BY <1>7, <3>1 DEF Stands, Shows
    <3> QED BY <1>2, <3>3, <3>4
  <2> QED BY <2>6, <2>7
<1>8. Shows(d, x0, g, n + 1)
  BY <1>2, <1>3, <1>7 DEF Shows
<1> QED BY <1>4, <1>8 DEF Half

\* The cursor goes on, to the next row if there is no more room.
LEMMA AdvanceStep ==
  ASSUME NEW c, NEW x0, NEW g, NEW n \in Nat, Half(c, x0, g, n), NEW m, m = Moved(c, c.x + c.s)
  PROVE  /\ Wraps(m)  => Below(NextRow(m), x0, g, n + 1)
         /\ ~Wraps(m) => Stands(m, x0, g, n + 1)
PROOF
<1>1. c \in Consoles /\ LettersFit(c.s, x0) /\ ~c.askew /\ c.top \in Int /\ c.s \in 1..4
      /\ c.x \in Nat /\ c.y \in Nat
  BY SizesFit DEF Half, Ready, Consoles
<1>2. ScreenW \in Nat /\ ScreenH \in Nat /\ c.y + c.s <= ScreenH
  BY ScreenSize DEF Half, OnScreen
<1>3. PICK x : x = c.x + c.s
  OBVIOUS
<1>4. x \in Nat
  BY <1>1, <1>3
<1>5. /\ m \in Consoles /\ m.x = x /\ m.y = c.y /\ m.s = c.s /\ m.cells = c.cells
      /\ m.top = c.top /\ m.askew = c.askew
  <2>1. c \in Consoles /\ m = Moved(c, x)
    BY <1>1, <1>3
  <2> QED BY <1>4, <2>1, MovedIs
<1>6. PICK P : P = Place(c, x0, n)
  OBVIOUS
<1>7. PICK Q : Q = Place(c, x0, n + 1)
  OBVIOUS
<1>8. P[1] = c.x /\ P[2] = c.y
  BY <1>6 DEF Half, Reaches
<1>9. /\ P[1] + c.s + c.s <= ScreenW => Q = <<P[1] + c.s, P[2]>>
      /\ P[1] + c.s + c.s > ScreenW  => Q = <<0, P[2] + c.s>>
  BY <1>1, <1>6, <1>7, PlaceNext
<1>10. /\ x + c.s <= ScreenW => Q = <<x, c.y>>
       /\ x + c.s > ScreenW  => Q = <<0, c.y + c.s>>
  BY <1>3, <1>8, <1>9
<1>11. Wraps(m) <=> x + c.s > ScreenW
  BY <1>5 DEF Wraps
<1>12. CASE Wraps(m)
  <2>1. PICK r : r = NextRow(m)
    OBVIOUS
  <2>2. /\ r \in Consoles /\ r.x = 0 /\ r.y = c.y + c.s /\ r.s = c.s /\ r.cells = c.cells
        /\ r.top = c.top /\ r.askew = c.askew
    BY <1>5, <2>1, NextRowIs
  <2>3. \A i : Place(r, x0, i) = Place(c, x0, i)
    BY <2>2, SamePlace
  <2>4. Ready(r, x0) /\ Reaches(r, x0, n + 1)
    BY <1>1, <1>7, <1>10, <1>11, <1>12, <2>2, <2>3 DEF Ready, Reaches
  <2>5. Shows(r, x0, g, n + 1)
    BY <2>2, <2>3 DEF Half, Shows
  <2>6. r.s <= r.y /\ r.y <= ScreenH
    BY <1>1, <1>2, <2>2
  <2> QED BY <1>12, <2>1, <2>2, <2>4, <2>5, <2>6 DEF Below
<1>13. CASE ~Wraps(m)
  <2>1. \A i : Place(m, x0, i) = Place(c, x0, i)
    BY <1>5, SamePlace
  <2>2. x + c.s <= ScreenW
    BY <1>1, <1>2, <1>4, <1>11, <1>13
  <2>3. Ready(m, x0) /\ Reaches(m, x0, n + 1) /\ OnScreen(m)
    BY <1>1, <1>2, <1>5, <1>7, <1>10, <2>1, <2>2 DEF Ready, Reaches, OnScreen
  <2>4. Shows(m, x0, g, n + 1)
    BY <1>5, <2>1 DEF Half, Shows
  <2> QED BY <1>13, <2>3, <2>4 DEF Stands
<1> QED BY <1>12, <1>13

\* The scroll keeps what is shown, as far as it is still on the screen.
LEMMA ScrollStep ==
  ASSUME NEW c, NEW x0, NEW g, NEW n \in Nat, Below(c, x0, g, n), NEW d, d = Fitted(c)
  PROVE  Stands(d, x0, g, n)
PROOF
<1>1. c \in Consoles /\ LettersFit(c.s, x0) /\ ~c.askew /\ c.top \in Int /\ c.s \in 1..4
      /\ c.x = 0 /\ c.y \in Nat /\ c.s <= c.y /\ c.y <= ScreenH /\ c.s <= ScreenW
  BY SizesFit DEF Below, Ready, Consoles
<1>2. ScreenW \in Nat /\ ScreenH \in Nat
  BY ScreenSize
<1>3. PICK e : e = IF c.y + c.s > ScreenH THEN Scrolled(c) ELSE c
  OBVIOUS
<1>4. /\ e \in Consoles /\ d \in Consoles /\ d.x = e.x /\ d.y = e.y /\ d.s = c.s /\ e.s = c.s
      /\ d.cells = e.cells /\ d.top = e.top /\ ~d.askew /\ Fits(d)
  <2>1. Across(c)
    BY <1>1, <1>2 DEF Across
  <2> QED BY <1>1, <1>3, <2>1, FittedIs
<1>5. Ready(d, x0) /\ OnScreen(d)
  BY <1>1, <1>4 DEF Ready, Fits
<1>6. CASE c.y + c.s > ScreenH
  <2>1. /\ e.x = (IF c.s >= ScreenH \/ c.x + c.s > ScreenW THEN 0 ELSE c.x) /\ e.y = c.y - c.s /\ e.top = c.top - c.s
        /\ \A p \in Cells : p[2] + c.s < ScreenH => e.cells[p] = c.cells[<<p[1], p[2] + c.s>>]
    BY <1>1, <1>3, <1>6, ScrolledIs
  <2>2. d.x = 0 /\ d.y = c.y - c.s /\ d.top = c.top - c.s
    BY <1>1, <1>4, <2>1
  <2>3. PICK Q : Q = Place(c, x0, n)
    OBVIOUS
  <2>4. Q[1] = 0 /\ Q[2] = c.y
    BY <1>1, <2>3 DEF Below, Reaches
  <2>5. Place(d, x0, n) = <<Q[1], Q[2] - c.s>>
    BY <1>1, <1>4, <2>2, <2>3, PlaceScrolls
  <2>6. Reaches(d, x0, n)
    BY <2>2, <2>4, <2>5 DEF Reaches
  <2>7. ASSUME NEW i \in 1..n, NEW p \in Cells, InGlyph(Place(d, x0, i - 1), d.s, p)
        PROVE  d.cells[p] = g[i]
    <3>1. p[1] \in Nat /\ p[2] \in Nat
      BY CellIs
    <3>2. i - 1 \in Nat /\ i - 1 < n
      OBVIOUS
    <3>3. PICK P : P = Place(c, x0, i - 1)
      OBVIOUS
    <3>4. P[1] \in Nat /\ P[2] \in Int
      BY <1>1, <3>2, <3>3, PlaceTypes
    <3>5. PICK R : R = Place(d, x0, i - 1)
      OBVIOUS
    <3>6. R[1] = P[1] /\ R[2] = P[2] - c.s
      BY <1>1, <1>4, <2>2, <3>2, <3>3, <3>5, PlaceScrolls
    <3>7. P[2] + c.s <= Q[2] \/ (P[2] = Q[2] /\ P[1] + c.s <= Q[1])
      BY <1>1, <2>3, <3>2, <3>3, PlacesApart
    <3>8. P[2] + c.s <= c.y
      BY <1>1, <2>4, <3>4, <3>7
    <3>9. InGlyph(R, c.s, p)
      BY <1>4, <2>7, <3>5
    <3>10. P[1] <= p[1] /\ p[1] < P[1] + c.s /\ P[2] <= p[2] + c.s /\ p[2] + c.s < P[2] + c.s
      BY <1>1, <3>1, <3>4, <3>6, <3>9 DEF InGlyph
    <3>11. p[2] + c.s < ScreenH /\ p[2] + c.s \in Nat
      BY <1>1, <1>2, <3>1, <3>4, <3>8, <3>10
    <3>12. PICK q : q = <<p[1], p[2] + c.s>>
      OBVIOUS
    <3>13. q \in Cells
      BY <3>11, <3>12, CellIs
    <3>14. InGlyph(P, c.s, q)
      BY <3>10, <3>12 DEF InGlyph
    <3>15. c.cells[q] = g[i]
      BY <3>3, <3>13, <3>14 DEF Below, Shows
    <3> QED BY <1>4, <2>1, <3>11, <3>12, <3>15
  <2>8. Shows(d, x0, g, n)
    BY <2>7 DEF Shows
  <2> QED BY <1>5, <2>6, <2>8 DEF Stands
<1>7. CASE ~(c.y + c.s > ScreenH)
  <2>1. d.x = c.x /\ d.y = c.y /\ d.s = c.s /\ d.cells = c.cells /\ d.top = c.top
    BY <1>3, <1>4, <1>7
  <2>2. \A i : Place(d, x0, i) = Place(c, x0, i)
    BY <2>1, SamePlace
  <2>3. Reaches(d, x0, n) /\ Shows(d, x0, g, n)
    BY <2>1, <2>2 DEF Below, Reaches, Shows
  <2> QED BY <1>5, <2>3 DEF Stands
<1> QED BY <1>6, <1>7

\* A glyph that is printed whole.
LEMMA GlyphStep ==
  ASSUME NEW c, NEW x0, NEW g, NEW n \in Nat, Stands(c, x0, g, n), g[n + 1] \in Contents,
         NEW d, d = Glyph(c, g[n + 1])
  PROVE  Stands(d, x0, g, n + 1)
PROOF
<1>1. PICK b : b = Drawn(c, g[n + 1])
  OBVIOUS
<1>2. Half(b, x0, g, n)
  BY <1>1, DrawStep
<1>3. b.x = c.x /\ b.s = c.s
  <2>1. c \in Consoles
    BY DEF Stands, Ready
  <2> QED BY <1>1, <2>1, DrawnIs
<1>4. PICK m : m = Moved(b, b.x + b.s)
  OBVIOUS
<1>5. d = IF Wraps(m) THEN VdNewline(m) ELSE m
  BY <1>1, <1>3, <1>4 DEF Glyph
<1>6. (Wraps(m) => Below(NextRow(m), x0, g, n + 1)) /\ (~Wraps(m) => Stands(m, x0, g, n + 1))
  BY <1>2, <1>4, AdvanceStep
<1>7. CASE Wraps(m)
  <2>1. d = Fitted(NextRow(m)) /\ n + 1 \in Nat
    BY <1>5, <1>7 DEF VdNewline
  <2> QED BY <1>6, <1>7, <2>1, ScrollStep
<1>8. CASE ~Wraps(m)
  BY <1>5, <1>6, <1>8
<1> QED BY <1>7, <1>8

\* vdBackSpace within a row.
LEMMA RuboutStep ==
  ASSUME NEW c, NEW x0, NEW g, NEW n \in Nat, Stands(c, x0, g, n + 1), c.x >= c.s,
         NEW d, d = BackSpaced(c)
  PROVE  Stands(d, x0, g, n)
PROOF
<1>1. c \in Consoles /\ LettersFit(c.s, x0) /\ ~c.askew /\ c.top \in Int /\ c.s \in 1..4
      /\ c.x \in Nat /\ c.y \in Nat
  BY SizesFit DEF Stands, Ready, Consoles
<1>2. ScreenW \in Nat /\ ScreenH \in Nat /\ c.x + c.s <= ScreenW /\ c.y + c.s <= ScreenH
  BY ScreenSize DEF Stands, OnScreen
<1>3. PICK x : x = c.x - c.s
  OBVIOUS
<1>4. x \in Nat
  BY <1>1, <1>3
<1>5. PICK m : m = Moved(c, x)
  OBVIOUS
<1>6. /\ m \in Consoles /\ m.x = x /\ m.y = c.y /\ m.s = c.s /\ m.cells = c.cells
      /\ m.top = c.top /\ m.askew = c.askew
  <2>1. c \in Consoles
    BY <1>1
  <2> QED BY <1>4, <1>5, <2>1, MovedIs
<1>7. d = Drawn(m, Space) /\ Space \in Contents
  BY <1>3, <1>5 DEF BackSpaced, Contents, Typeable
<1>8. /\ d \in Consoles /\ d.x = x /\ d.y = c.y /\ d.s = c.s /\ d.top = c.top /\ d.askew = c.askew
      /\ \A p \in Cells : d.cells[p] = IF Covered(m, p) THEN Space ELSE c.cells[p]
  BY <1>6, <1>7, DrawnIs
<1>9. PICK P : P = Place(c, x0, n)
  OBVIOUS
<1>10. PICK Q : Q = Place(c, x0, n + 1)
  OBVIOUS
<1>11. Q[1] = c.x /\ Q[2] = c.y
  BY <1>10 DEF Stands, Reaches
<1>12. /\ P = <<P[1], P[2]>> /\ P[1] \in Nat /\ P[2] \in Int
       /\ P[1] + c.s + c.s <= ScreenW => Q = <<P[1] + c.s, P[2]>>
       /\ P[1] + c.s + c.s > ScreenW  => Q = <<0, P[2] + c.s>>
  BY <1>1, <1>9, <1>10, PlaceNext
<1>13. P[1] = x /\ P[2] = c.y
  <2>1. P[1] + c.s + c.s <= ScreenW \/ P[1] + c.s + c.s > ScreenW
    BY <1>1, <1>2, <1>12
  <2>2. Q = <<P[1] + c.s, P[2]>>
    <3>1. Q # <<0, P[2] + c.s>>
      BY <1>1, <1>11
    <3> QED BY <1>12, <2>1, <3>1
  <2>3. c.x = P[1] + c.s /\ c.y = P[2]
    BY <1>11, <2>2
  <2> QED BY <1>1, <1>3, <1>12, <2>3
<1>14. \A i : Place(d, x0, i) = Place(c, x0, i)
  BY <1>8, SamePlace
<1>15. Ready(d, x0) /\ OnScreen(d) /\ Reaches(d, x0, n)
  <2>1. x + c.s <= ScreenW
    BY <1>1, <1>2, <1>3
  <2>2. <<x, c.y>> = P
    BY <1>12, <1>13
  <2> QED BY <1>1, <1>2, <1>8, <1>9, <1>14, <2>1, <2>2 DEF Ready, OnScreen, Reaches
<1>16. ASSUME NEW i \in 1..n, NEW p \in Cells, InGlyph(Place(c, x0, i - 1), c.s, p)
       PROVE  d.cells[p] = g[i]
  <2>1. p[1] \in Nat /\ p[2] \in Nat
    BY CellIs
  <2>2. PICK R : R = Place(c, x0, i - 1)
    OBVIOUS
  <2>3. i - 1 \in Nat /\ i - 1 < n /\ i \in 1..(n + 1)
    OBVIOUS
  <2>4. R[1] \in Nat /\ R[2] \in Int
    BY <1>1, <2>2, <2>3, PlaceTypes
  <2>5. R[2] + c.s <= P[2] \/ (R[2] = P[2] /\ R[1] + c.s <= P[1])
    BY <1>1, <1>9, <2>2, <2>3, PlacesApart
  <2>6. InGlyph(R, c.s, p)
    BY <1>16, <2>2
  <2>7. ~Covered(m, p)
    BY <1>1, <1>4, <1>6, <1>13, <2>1, <2>4, <2>5, <2>6 DEF InGlyph, Covered
  <2>8. c.cells[p] = g[i]
    BY <1>16, <2>3 DEF Stands, Shows
  <2> QED BY <1>8, <2>7, <2>8
<1>17. Shows(d, x0, g, n)
  BY <1>8, <1>14, <1>16 DEF Shows
<1> QED BY <1>15, <1>17 DEF Stands

\* What is typed next, or rubbed out, changes nothing of what is shown.
LEMMA StandsLonger ==
  ASSUME NEW c, NEW x0, NEW g, NEW h, NEW n, Stands(c, x0, g, n), \A i \in 1..n : g[i] = h[i]
  PROVE  Stands(c, x0, h, n)
PROOF
<1> QED BY DEF Stands, Shows

-----------------------------------------------------------------------------
(* The glyphs of a line.                                                   *)

Cat(u, v) == u \o v

\* The function of Shown.
Upto(text, f, n)  == IF n = 0 THEN PromptText ELSE Cat(f[n - 1], Expanded(text[n]))
Unrolls(text, f)  == f = [n \in 0..Len(text) |-> Upto(text, f, n)]

LEMMA UnrollsExist ==
  ASSUME NEW text, Len(text) \in Nat
  PROVE  \E f : Unrolls(text, f) /\ Shown(text) = f[Len(text)]
PROOF
<1>. DEFINE R == 0..Len(text)
            Good(f, d) == \A n \in R : n <= d => f[n] = Upto(text, f, n)
            S == {d \in Nat : \E f : f = [n \in R |-> f[n]] /\ Good(f, d)}
<1>2. 0 \in S
  <2>1. PICK f : f = [n \in R |-> PromptText]
    OBVIOUS
  <2>2. f = [n \in R |-> f[n]]
    BY <2>1
  <2>3. Good(f, 0)
    BY <2>1 DEF Upto
  <2> QED BY <2>2, <2>3
<1>3. ASSUME NEW d \in Nat, d \in S PROVE d + 1 \in S
  <2>1. PICK f : f = [n \in R |-> f[n]] /\ Good(f, d)
    BY <1>3
  <2>2. PICK g : g = [n \in R |-> Upto(text, f, n)]
    OBVIOUS
  <2>3. g = [n \in R |-> g[n]]
    BY <2>2
  <2>4. \A n \in R : n <= d => f[n] = g[n]
    BY <2>1, <2>2
  <2>5. ASSUME NEW n \in R, n <= d + 1 PROVE g[n] = Upto(text, g, n)
    <3>1. n # 0 => n - 1 \in R /\ n - 1 <= d
      BY <2>5
    <3>2. n # 0 => f[n - 1] = g[n - 1]
      BY <2>4, <3>1
    <3>3. Upto(text, f, n) = Upto(text, g, n)
      BY <3>2 DEF Upto
    <3> QED BY <2>2, <3>3
  <2> QED BY <2>3, <2>5
<1>4. Len(text) \in S
  <2>. HIDE DEF S
  <2> QED BY <1>2, <1>3, Counting
<1>5. PICK f : f = [n \in R |-> f[n]] /\ Good(f, Len(text))
  BY <1>4
<1>6. \A n \in R : f[n] = Upto(text, f, n)
  BY <1>5
<1>7. Unrolls(text, f)
  <2>1. f = [n \in R |-> Upto(text, f, n)]
    BY <1>5, <1>6
  <2> QED BY <2>1 DEF Unrolls
<1>8. PICK g : g = CHOOSE h : Unrolls(text, h)
  OBVIOUS
<1>9. Unrolls(text, g)
  BY <1>7, <1>8
<1>10. Shown(text) = g[Len(text)]
  BY <1>8 DEF Shown, Unrolls, Upto, Cat
<1> QED BY <1>9, <1>10

IsGlyphs(g) == g \in Seq(Typeable)

LEMMA PromptIs ==
  /\ IsGlyphs(PromptText) /\ Len(PromptText) = 2
  /\ PromptText[1] = "-" /\ PromptText[2] = Space
PROOF
<1> QED BY DEF IsGlyphs, PromptText, Typeable

LEMMA ExpandedIs ==
  ASSUME NEW ch \in EchoKeys
  PROVE  /\ IsGlyphs(Expanded(ch)) /\ Expanded(ch) # <<>>
         /\ ch # TAB => Len(Expanded(ch)) = 1
PROOF
<1>1. Space \in Typeable /\ ch \in Typeable
  BY DEF Typeable
<1>2. CASE ch = TAB
  <2>1. PICK e : e = <<Space, Space, Space, Space>>
    OBVIOUS
  <2>2. e \in Seq(Typeable) /\ Len(e) = 4
    BY <1>1, <2>1
  <2>3. Expanded(ch) = e /\ e # <<>>
    BY <1>2, <2>1, <2>2 DEF Expanded
  <2> QED BY <1>2, <2>2, <2>3 DEF IsGlyphs
<1>3. CASE ch # TAB
  <2>1. PICK e : e = <<ch>>
    OBVIOUS
  <2>2. e \in Seq(Typeable) /\ Len(e) = 1
    BY <1>1, <2>1
  <2>3. Expanded(ch) = e /\ e # <<>>
    BY <1>3, <2>1, <2>2 DEF Expanded
  <2> QED BY <2>2, <2>3 DEF IsGlyphs
<1> QED BY <1>2, <1>3

LEMMA CatIs ==
  ASSUME NEW u, NEW v, IsGlyphs(u), IsGlyphs(v)
  PROVE  /\ IsGlyphs(Cat(u, v)) /\ Len(u) \in Nat /\ Len(v) \in Nat
         /\ Len(Cat(u, v)) = Len(u) + Len(v)
         /\ \A i \in 1..Len(u) : Cat(u, v)[i] = u[i]
         /\ \A i \in 1..Len(v) : Cat(u, v)[Len(u) + i] = v[i]
PROOF
<1>1. u \in Seq(Typeable) /\ v \in Seq(Typeable)
  BY DEF IsGlyphs
<1>2. PICK w : w = u \o v
  OBVIOUS
<1>3. /\ w \in Seq(Typeable) /\ Len(w) = Len(u) + Len(v)
      /\ \A i \in 1..Len(u) + Len(v) : w[i] = IF i <= Len(u) THEN u[i] ELSE v[i - Len(u)]
  BY <1>1, <1>2, ConcatProperties
<1>4. Len(u) \in Nat /\ Len(v) \in Nat
  BY <1>1, LenProperties
<1>5. \A i \in 1..Len(u) : w[i] = u[i]
  BY <1>3, <1>4
<1>6. ASSUME NEW i \in 1..Len(v) PROVE w[Len(u) + i] = v[i]
  <2>1. PICK k : k = Len(u) + i
    OBVIOUS
  <2>2. k \in 1..(Len(u) + Len(v)) /\ ~(k <= Len(u)) /\ k - Len(u) = i
    BY <1>4, <2>1
  <2> QED BY <1>3, <2>1, <2>2
<1> QED BY <1>2, <1>3, <1>4, <1>5, <1>6 DEF IsGlyphs, Cat

\* What f has after each character, if Shown goes by f.
Collects(text, f) ==
  /\ Shown(text) = f[Len(text)] /\ f[0] = PromptText
  /\ \A n \in 1..Len(text) : f[n] = Cat(f[n - 1], Expanded(text[n]))

LEMMA ShownIs ==
  ASSUME NEW text, Len(text) \in Nat
  PROVE  \E f : Collects(text, f)
PROOF
<1>1. PICK f : Unrolls(text, f) /\ Shown(text) = f[Len(text)]
  BY UnrollsExist
<1>2. \A n \in 0..Len(text) : f[n] = Upto(text, f, n)
  BY <1>1 DEF Unrolls
<1>3. f[0] = PromptText
  BY <1>2 DEF Upto
<1>4. ASSUME NEW n \in 1..Len(text) PROVE f[n] = Cat(f[n - 1], Expanded(text[n]))
  <2>1. n \in 0..Len(text) /\ n # 0
    OBVIOUS
  <2> QED BY <1>2, <2>1 DEF Upto
<1> QED BY <1>1, <1>3, <1>4 DEF Collects

LEMMA ShownType ==
  ASSUME NEW text, Len(text) \in Nat, \A i \in 1..Len(text) : text[i] \in EchoKeys
  PROVE  IsGlyphs(Shown(text))
PROOF
<1>1. PICK f : Collects(text, f)
  BY ShownIs
<1>. DEFINE D == {n \in Nat : n <= Len(text) => IsGlyphs(f[n])}
<1>2. 0 \in D
  BY <1>1, PromptIs DEF Collects
<1>3. ASSUME NEW n \in Nat, n \in D PROVE n + 1 \in D
  <2>. SUFFICES ASSUME n + 1 <= Len(text) PROVE IsGlyphs(f[n + 1])
    OBVIOUS
  <2>1. n + 1 \in 1..Len(text) /\ (n + 1) - 1 = n /\ IsGlyphs(f[n])
    BY <1>3
  <2>2. f[n + 1] = Cat(f[n], Expanded(text[n + 1]))
    BY <1>1, <2>1 DEF Collects
  <2>3. IsGlyphs(Expanded(text[n + 1]))
    BY <2>1, ExpandedIs
  <2> QED BY <2>1, <2>2, <2>3, CatIs
<1>4. Nat \subseteq D
  <2>. HIDE DEF D
  <2> QED BY <1>2, <1>3, Counting
<1> QED BY <1>1, <1>4 DEF Collects

LEMMA ShownNothing ==
  ASSUME NEW text, Len(text) = 0
  PROVE  Shown(text) = PromptText
PROOF
<1>1. PICK f : Collects(text, f)
  BY ShownIs
<1> QED BY <1>1 DEF Collects

LEMMA ShownMore ==
  ASSUME NEW t, NEW u, Len(t) \in Nat, Len(u) = Len(t) + 1, \A i \in 1..Len(t) : u[i] = t[i]
  PROVE  Shown(u) = Cat(Shown(t), Expanded(u[Len(u)]))
PROOF
<1>1. PICK f : Collects(t, f)
  BY ShownIs
<1>2. PICK h : Collects(u, h)
  BY ShownIs
<1>. DEFINE D == {n \in Nat : n <= Len(t) => f[n] = h[n]}
<1>3. 0 \in D
  BY <1>1, <1>2 DEF Collects
<1>4. ASSUME NEW n \in Nat, n \in D PROVE n + 1 \in D
  <2>. SUFFICES ASSUME n + 1 <= Len(t) PROVE f[n + 1] = h[n + 1]
    OBVIOUS
  <2>1. n + 1 \in 1..Len(t) /\ n + 1 \in 1..Len(u) /\ (n + 1) - 1 = n /\ f[n] = h[n]
    BY <1>4
  <2>2. f[n + 1] = Cat(f[n], Expanded(t[n + 1]))
    BY <1>1, <2>1 DEF Collects
  <2>3. h[n + 1] = Cat(h[n], Expanded(u[n + 1]))
    BY <1>2, <2>1 DEF Collects
  <2> QED BY <2>1, <2>2, <2>3
<1>5. Nat \subseteq D
  <2>. HIDE DEF D
  <2> QED BY <1>3, <1>4, Counting
<1>6. f[Len(t)] = h[Len(t)]
  BY <1>5
<1>7. Len(u) \in 1..Len(u) /\ Len(u) - 1 = Len(t)
  OBVIOUS
<1>8. h[Len(u)] = Cat(h[Len(t)], Expanded(u[Len(u)]))
  BY <1>2, <1>7 DEF Collects
<1> QED BY <1>1, <1>2, <1>6, <1>8 DEF Collects

-----------------------------------------------------------------------------
(* The inductive invariant.                                                *)

EchoStates == {"idle", "editing", "echo", "drawn", "wrapped", "ended"}
ConShapes ==
  /\ con \in Consoles
  /\ echo \in [at : EchoStates, rest : Seq(Typeable), reg : Nat, text : Seq(EchoKeys), x0 : Nat,
               clean : BOOLEAN]

\* Whoever prints: the cursor is on the screen, or on its way to the next row.
CursorTrue ==
  /\ echo.at \in {"idle", "editing", "echo", "drawn"} => Fits(con)
  /\ echo.at \in {"wrapped", "ended"} => Across(con)

\* While nothing else has touched the screen: rest is what is not shown yet of the line.
Following(c, e) ==
  LET g == Shown(e.text)
      n == Len(g) - Len(e.rest)
  IN
  /\ Len(e.rest) <= Len(g) /\ \A i \in 1..Len(e.rest) : g[n + i] = e.rest[i]
  /\ e.at = "editing" => e.rest = <<>>
  /\ e.at = "echo" => e.rest # <<>>
  /\ e.at \in {"editing", "echo"} => Stands(c, e.x0, g, n)
  /\ e.at = "drawn" => n >= 1 /\ Half(c, e.x0, g, n - 1) /\ e.reg = c.x + c.s
  /\ e.at = "wrapped" => Below(c, e.x0, g, n)
LineFollows == echo.clean /\ echo.at \in {"editing", "echo", "drawn", "wrapped"} => Following(con, echo)
RestTrue ==
  /\ echo.at = "editing" => echo.rest = <<>>
  /\ echo.at = "echo" => echo.rest # <<>>

ConInv == ConShapes /\ CursorTrue /\ RestTrue /\ LineFollows

LEMMA ShapesOfEcho ==
  ASSUME ConShapes
  PROVE  /\ echo.at \in EchoStates /\ echo.rest \in Seq(Typeable) /\ echo.reg \in Nat
         /\ echo.text \in Seq(EchoKeys) /\ echo.x0 \in Nat /\ echo.clean \in BOOLEAN
         /\ echo = [at |-> echo.at, rest |-> echo.rest, reg |-> echo.reg, text |-> echo.text,
                    x0 |-> echo.x0, clean |-> echo.clean]
PROOF
<1> QED BY DEF ConShapes

LEMMA NoEchoShape ==
  NoEcho \in [at : EchoStates, rest : Seq(Typeable), reg : Nat, text : Seq(EchoKeys), x0 : Nat,
             clean : BOOLEAN]
PROOF
<1>1. PICK z : z = <<>>
  OBVIOUS
<1>2. z \in Seq(Typeable) /\ z \in Seq(EchoKeys)
  BY <1>1
<1> QED BY <1>1, <1>2 DEF NoEcho, EchoStates

LEMMA ConStart == ConInit => ConInv
PROOF
<1>. SUFFICES ASSUME ConInit PROVE ConInv
  OBVIOUS
<1>1. /\ con = [x |-> 0, y |-> 0, s |-> 1, cells |-> BlankScreen, top |-> 0, askew |-> FALSE]
      /\ echo = NoEcho
  BY DEF ConInit
<1>2. ScreenW \in Nat \ {0} /\ ScreenH \in Nat \ {0}
  BY ScreenSize
<1>3. BlankScreen \in Screens
  BY DEF BlankScreen, Screens, Contents, Typeable
<1>4. 1 \in Sizes
  BY <1>2 DEF Sizes
<1>5. con \in Consoles
  BY <1>1, <1>3, <1>4 DEF Consoles
<1>6. ConShapes
  BY <1>1, <1>5, NoEchoShape DEF ConShapes
<1>7. con.x = 0 /\ con.y = 0 /\ con.s = 1 /\ echo.at = "idle"
  BY <1>1 DEF NoEcho
<1>8. Fits(con)
  BY <1>2, <1>7 DEF Fits, OnScreen
<1> QED BY <1>6, <1>7, <1>8 DEF ConInv, CursorTrue, RestTrue, LineFollows

\* What others print, in whatever state of the echo.
LEMMA OthersKeep ==
  ASSUME ConInv, Disturb, con' \in Consoles, Fits(con) => Fits(con'), Across(con) => Across(con')
  PROVE  ConInv'
PROOF
<1>1. echo' = [at |-> echo.at, rest |-> echo.rest, reg |-> echo.reg, text |-> echo.text,
               x0 |-> echo.x0, clean |-> FALSE]
  BY ShapesOfEcho DEF ConInv, Disturb
<1>2. echo'.at = echo.at /\ echo'.rest = echo.rest /\ echo'.clean = FALSE
  BY <1>1
<1>3. ConShapes'
  BY <1>1, ShapesOfEcho DEF ConInv, ConShapes
<1>4. CursorTrue' /\ RestTrue' /\ LineFollows'
  BY <1>2 DEF ConInv, CursorTrue, RestTrue, LineFollows, Fits, Across, OnScreen
<1> QED BY <1>3, <1>4 DEF ConInv

LEMMA OutputIs ==
  ASSUME NEW str \in Outputs
  PROVE  Len(str) \in Nat /\ \A i \in 1..Len(str) : str[i] \in Contents
PROOF
<1>1. Len(str) \in Nat
  BY ConsoleAssumption
<1>2. \A i \in 1..Len(str) : str[i] \in Written
  BY DEF Written
<1> QED BY <1>1, <1>2 DEF Contents

LEMMA WriteKeeps ==
  ASSUME ConInv, NEW str \in Outputs, Write(str)
  PROVE  ConInv'
PROOF
<1>1. con \in Consoles
  BY DEF ConInv, ConShapes
<1>2. PICK d : d = PrintStr(con, str)
  OBVIOUS
<1>3. Keeps(con, d)
  BY <1>1, <1>2, OutputIs, PrintStrKeeps
<1>4. con' = d /\ Disturb
  BY <1>2 DEF Write
<1> QED BY <1>3, <1>4, OthersKeep DEF Keeps

LEMMA WriteAtVramKeeps ==
  ASSUME ConInv, NEW str \in Outputs, WriteAtVram(str, 1, 1)
  PROVE  ConInv'
PROOF
<1>1. con \in Consoles
  BY DEF ConInv, ConShapes
<1>2. con = [x |-> con.x, y |-> con.y, s |-> con.s, cells |-> con.cells, top |-> con.top, askew |-> con.askew]
      /\ con.x \in Nat /\ con.y \in Nat /\ con.s \in Sizes /\ con.askew \in BOOLEAN
      /\ con.s \in 1..4
  BY <1>1, SizesFit DEF Consoles
<1>3. PICK c : c = [con EXCEPT !.x = 1 * con.s, !.y = 1 * con.s]
  OBVIOUS
<1>4. c \in Consoles /\ c.s = con.s
  <2>1. 1 * con.s \in Nat
    BY <1>2
  <2>2. c = [x |-> 1 * con.s, y |-> 1 * con.s, s |-> con.s, cells |-> con.cells, top |-> con.top,
             askew |-> con.askew]
    BY <1>2, <1>3
  <2> QED BY <1>1, <2>1, <2>2 DEF Consoles
<1>5. PICK d : d = PrintStr(c, str)
  OBVIOUS
<1>6. d \in Consoles /\ d.s = con.s
  BY <1>4, <1>5, OutputIs, PrintStrKeeps DEF Keeps
<1>7. d = [x |-> d.x, y |-> d.y, s |-> d.s, cells |-> d.cells, top |-> d.top, askew |-> d.askew]
  BY <1>6 DEF Consoles
<1>8. con' = [d EXCEPT !.x = con.x, !.y = con.y, !.askew = con.askew] /\ Disturb
  BY <1>3, <1>5 DEF WriteAtVram, PrintAt
<1>9. con' = [x |-> con.x, y |-> con.y, s |-> d.s, cells |-> d.cells, top |-> d.top, askew |-> con.askew]
  BY <1>7, <1>8
<1>10. con' \in Consoles /\ con'.x = con.x /\ con'.y = con.y /\ con'.s = con.s /\ con'.askew = con.askew
  <2>1. con'.x = con.x /\ con'.y = con.y /\ con'.s = con.s /\ con'.askew = con.askew
    BY <1>6, <1>9
  <2>2. con' \in Consoles
    BY <1>2, <1>6, <1>9 DEF Consoles
  <2> QED BY <2>1, <2>2
<1>11. (Fits(con) => Fits(con')) /\ (Across(con) => Across(con'))
  BY <1>10 DEF Fits, Across, OnScreen
<1> QED BY <1>8, <1>10, <1>11, OthersKeep

LEMMA ResizeKeeps ==
  ASSUME ConInv, NEW n \in FontScales, Resize(n)
  PROVE  ConInv'
PROOF
<1>1. con \in Consoles
  BY DEF ConInv, ConShapes
<1>2. con = [x |-> con.x, y |-> con.y, s |-> con.s, cells |-> con.cells, top |-> con.top, askew |-> con.askew]
      /\ con.askew \in BOOLEAN
  BY <1>1 DEF Consoles
<1>3. PICK s : s = Clamped(n)
  OBVIOUS
<1>4. s \in Sizes
  <2>1. s <= ScreenW /\ s <= ScreenH /\ n \in Int
    BY <1>3, ConsoleAssumption
  <2>2. s \in 1..4
    BY <1>3, <2>1 DEF Clamped
  <2> QED BY <2>1, <2>2 DEF Sizes
<1>5. PICK c : c = [con EXCEPT !.s = s]
  OBVIOUS
<1>6. PICK a : a = (con.askew \/ ~OnScreen(c))
  OBVIOUS
<1>7. con' = [con EXCEPT !.s = s, !.askew = a] /\ Disturb
  BY <1>3, <1>5, <1>6 DEF Resize
<1>8. c = [x |-> con.x, y |-> con.y, s |-> s, cells |-> con.cells, top |-> con.top, askew |-> con.askew]
  BY <1>2, <1>5
<1>9. con' = [x |-> con.x, y |-> con.y, s |-> s, cells |-> con.cells, top |-> con.top, askew |-> a]
  BY <1>2, <1>7
<1>10. con'.x = c.x /\ con'.y = c.y /\ con'.s = c.s /\ con'.askew = a
  BY <1>8, <1>9
<1>11. con' \in Consoles
  <2>1. a \in BOOLEAN
    BY <1>2, <1>6
  <2> QED BY <1>1, <1>4, <1>9, <2>1 DEF Consoles
<1>12. Fits(con')
  BY <1>6, <1>10 DEF Fits, OnScreen
<1> QED BY <1>7, <1>11, <1>12, FitsAcross, OthersKeep

LEMMA ClearWindowKeeps ==
  ASSUME ConInv, ClearWindow
  PROVE  ConInv'
PROOF
<1>1. con \in Consoles
  BY DEF ConInv, ConShapes
<1>2. con = [x |-> con.x, y |-> con.y, s |-> con.s, cells |-> con.cells, top |-> con.top, askew |-> con.askew]
  BY <1>1 DEF Consoles
<1>3. PICK c : c = [con EXCEPT !.x = 0, !.y = 0]
  OBVIOUS
<1>4. PICK a : a = ~OnScreen(c)
  OBVIOUS
<1>5. con' = [con EXCEPT !.x = 0, !.y = 0, !.cells = BlankScreen, !.askew = a] /\ Disturb
  BY <1>3, <1>4 DEF ClearWindow
<1>6. c = [x |-> 0, y |-> 0, s |-> con.s, cells |-> con.cells, top |-> con.top, askew |-> con.askew]
  BY <1>2, <1>3
<1>7. con' = [x |-> 0, y |-> 0, s |-> con.s, cells |-> BlankScreen, top |-> con.top, askew |-> a]
  BY <1>2, <1>5
<1>8. con'.x = c.x /\ con'.y = c.y /\ con'.s = c.s /\ con'.askew = a
  BY <1>6, <1>7
<1>9. con' \in Consoles
  <2>1. a \in BOOLEAN
    BY <1>4
  <2>2. BlankScreen \in Screens
    BY DEF BlankScreen, Screens, Contents, Typeable
  <2> QED BY <1>1, <1>7, <2>1, <2>2 DEF Consoles
<1>10. Fits(con')
  BY <1>4, <1>8 DEF Fits, OnScreen
<1> QED BY <1>5, <1>9, <1>10, FitsAcross, OthersKeep

\* The prompt: two glyphs, from wherever the cursor is.
LEMMA PromptPrinted ==
  ASSUME NEW c, NEW d, d = PrintStr(c, PromptText)
  PROVE  d = Glyph(Glyph(c, "-"), Space)
PROOF
<1>1. Len(PromptText) = 2 /\ PromptText[1] = "-" /\ PromptText[2] = Space
  BY PromptIs
<1>2. PICK f : Prints(c, PromptText, f) /\ d = f[Len(PromptText)]
  <2>1. Len(PromptText) \in Nat
    BY <1>1
  <2> QED BY <2>1, PrintsExist
<1>3. \A n \in 0..2 : f[n] = After(c, PromptText, f, n)
  BY <1>1, <1>2 DEF Prints
<1>4. f[0] = c
  BY <1>3 DEF After
<1>5. f[1] = Printed(c, "-")
  <2>1. f[1] = After(c, PromptText, f, 1) /\ 1 - 1 = 0
    BY <1>3
  <2> QED BY <1>1, <1>4, <2>1 DEF After
<1>6. f[2] = Printed(f[1], Space)
  <2>1. f[2] = After(c, PromptText, f, 2) /\ 2 - 1 = 1
    BY <1>3
  <2> QED BY <1>1, <2>1 DEF After
<1>7. \A e : Printed(e, "-") = Glyph(e, "-") /\ Printed(e, Space) = Glyph(e, Space)
  BY DEF Printed, NL, BS, TAB, Space
<1> QED BY <1>1, <1>2, <1>5, <1>6, <1>7

LEMMA WritePromptKeeps ==
  ASSUME ConInv, WritePrompt
  PROVE  ConInv'
PROOF
<1>1. con \in Consoles /\ echo.at = "idle" /\ Fits(con)
  BY DEF ConInv, ConShapes, CursorTrue, WritePrompt
<1>2. con = [x |-> con.x, y |-> con.y, s |-> con.s, cells |-> con.cells, top |-> con.top, askew |-> con.askew]
      /\ con.x \in Nat /\ con.y \in Nat /\ con.askew \in BOOLEAN /\ con.s \in 1..4 /\ con.s <= ScreenW
      /\ con.s \in Sizes
  BY <1>1, SizesFit DEF Consoles
<1>3. PICK c : c = [con EXCEPT !.top = con.y]
  OBVIOUS
<1>4. c = [x |-> con.x, y |-> con.y, s |-> con.s, cells |-> con.cells, top |-> con.y, askew |-> con.askew]
  BY <1>2, <1>3
<1>5. c.x = con.x /\ c.y = con.y /\ c.s = con.s /\ c.top = con.y /\ c.askew = con.askew
  BY <1>4
<1>6. c \in Consoles
  BY <1>1, <1>2, <1>4 DEF Consoles
<1>7. Fits(c)
  BY <1>1, <1>5 DEF Fits, OnScreen
<1>8. con' = PrintStr(c, PromptText)
  BY <1>3 DEF WritePrompt
<1>9. PICK b : b = Glyph(c, "-")
  OBVIOUS
<1>10. con' = Glyph(b, Space)
  BY <1>8, <1>9, PromptPrinted
<1>11. "-" \in Contents /\ Space \in Contents
  BY DEF Contents, Typeable
<1>12. Keeps(c, b) /\ b \in Consoles
  BY <1>6, <1>9, <1>11, GlyphKeeps DEF Keeps
<1>13. Keeps(b, con')
  BY <1>10, <1>11, <1>12, GlyphKeeps
<1>14. con' \in Consoles /\ Fits(con')
  BY <1>7, <1>12, <1>13 DEF Keeps
<1>15. PICK z : z = <<>>
  OBVIOUS
<1>16. z \in Seq(Typeable) /\ z \in Seq(EchoKeys) /\ Len(z) = 0
  BY <1>15
<1>17. echo' = [at |-> "editing", rest |-> z, reg |-> 0, text |-> z, x0 |-> con.x, clean |-> ~con.askew]
  BY <1>15 DEF WritePrompt, NoEcho
<1>18. echo'.at = "editing" /\ echo'.rest = z /\ echo'.text = z /\ echo'.x0 = con.x /\ echo'.clean = ~con.askew
  BY <1>17
<1>19. ConShapes'
  <2>1. (~con.askew) \in BOOLEAN
    BY <1>2
  <2> QED BY <1>2, <1>14, <1>16, <1>17, <2>1 DEF ConShapes, EchoStates
<1>20. CursorTrue' /\ RestTrue'
  <2>1. CursorTrue'
    BY <1>14, <1>18 DEF CursorTrue, Fits, OnScreen
  <2> QED BY <1>15, <1>18, <2>1 DEF RestTrue
<1>21. ASSUME ~con.askew PROVE Stands(con', con.x, PromptText, 2)
  <2>1. ScreenW \in Nat /\ con.x + con.s <= ScreenW /\ OnScreen(c)
    <3>1. OnScreen(c) /\ OnScreen(con)
      BY <1>1, <1>5, <1>7, <1>21 DEF Fits
    <3> QED BY <3>1, ScreenSize DEF OnScreen
  <2>2. LettersFit(c.s, con.x)
    BY <1>2, <1>5, <2>1 DEF LettersFit
  <2>3. Ready(c, con.x)
    BY <1>5, <1>6, <1>21, <2>2 DEF Ready
  <2>4. Reaches(c, con.x, 0)
    <3>1. PICK first : first = (ScreenW - con.x) \div c.s
      OBVIOUS
    <3>2. 0 < first
      <4>1. ScreenW - con.x \in Nat /\ 0 * c.s + c.s <= ScreenW - con.x
        BY <1>2, <1>5, <2>1
      <4> QED BY <1>2, <1>5, <3>1, <4>1, RoomIs
    <3>3. Place(c, con.x, 0) = <<con.x + 0 * c.s, c.top>>
      BY <3>1, <3>2 DEF Place
    <3>4. con.x + 0 * c.s = c.x /\ c.top = c.y
      BY <1>2, <1>5
    <3> QED BY <3>3, <3>4 DEF Reaches
  <2>5. Stands(c, con.x, PromptText, 0)
    <3>1. Shows(c, con.x, PromptText, 0)
      BY DEF Shows
    <3> QED BY <2>1, <2>3, <2>4, <3>1 DEF Stands
  <2>6. PromptText[0 + 1] = "-" /\ PromptText[(0 + 1) + 1] = Space
    BY PromptIs
  <2>7. Stands(b, con.x, PromptText, 0 + 1)
    BY <1>9, <1>11, <2>5, <2>6, GlyphStep
  <2>8. Stands(con', con.x, PromptText, (0 + 1) + 1)
    <3>1. 0 + 1 \in Nat
      OBVIOUS
    <3> QED BY <1>10, <1>11, <2>6, <2>7, <3>1, GlyphStep
  <2> QED BY <2>8
<1>22. LineFollows'
  <2>1. SUFFICES ASSUME ~con.askew PROVE Following(con', echo')
    BY <1>18 DEF LineFollows
  <2>2. Shown(z) = PromptText /\ Len(PromptText) = 2
    BY <1>16, ShownNothing, PromptIs
  <2>3. Stands(con', con.x, PromptText, 2)
    BY <1>21, <2>1
  <2>4. PICK g : g = Shown(echo'.text)
    OBVIOUS
  <2>5. PICK n : n = Len(g) - Len(echo'.rest)
    OBVIOUS
  <2>6. g = PromptText /\ n = 2 /\ Len(echo'.rest) = 0
    BY <1>16, <1>18, <2>2, <2>4, <2>5
  <2>7. Stands(con', echo'.x0, g, n)
    BY <1>18, <2>3, <2>6
  <2>8. Len(echo'.rest) <= Len(g) /\ \A i \in 1..Len(echo'.rest) : g[n + i] = echo'.rest[i]
    BY <2>2, <2>6
  <2> QED BY <1>15, <1>18, <2>4, <2>5, <2>7, <2>8 DEF Following
<1> QED BY <1>19, <1>20, <1>22 DEF ConInv

LEMMA SeqIs ==
  ASSUME NEW S, NEW s \in Seq(S)
  PROVE  Len(s) \in Nat /\ (\A i \in 1..Len(s) : s[i] \in S) /\ (s = <<>> <=> Len(s) = 0)
PROOF
<1> QED OBVIOUS

LEMMA ShownTyped ==
  ASSUME NEW text \in Seq(EchoKeys)
  PROVE  IsGlyphs(Shown(text)) /\ Len(Shown(text)) \in Nat
PROOF
<1>1. IsGlyphs(Shown(text))
  BY SeqIs, ShownType
<1> QED BY <1>1, SeqIs DEF IsGlyphs

LEMMA TypeKeyKeeps ==
  ASSUME ConInv, NEW ch \in EchoKeys, TypeKey(ch)
  PROVE  ConInv'
PROOF
<1>1. /\ echo.at = "editing" /\ echo.rest = <<>> /\ echo.rest \in Seq(Typeable) /\ echo.reg \in Nat
      /\ echo.text \in Seq(EchoKeys) /\ echo.x0 \in Nat /\ echo.clean \in BOOLEAN
      /\ con \in Consoles /\ Fits(con) /\ con' = con
  BY ShapesOfEcho DEF ConInv, ConShapes, CursorTrue, RestTrue, TypeKey
<1>2. PICK u : u = Append(echo.text, ch)
  OBVIOUS
<1>3. /\ u \in Seq(EchoKeys) /\ Len(u) = Len(echo.text) + 1 /\ u[Len(u)] = ch
      /\ \A i \in 1..Len(echo.text) : u[i] = echo.text[i]
  BY <1>1, <1>2, AppendProperties
<1>4. PICK r : r = Expanded(ch)
  OBVIOUS
<1>5. r \in Seq(Typeable) /\ r # <<>> /\ IsGlyphs(r)
  BY <1>4, ExpandedIs DEF IsGlyphs
<1>6. echo' = [at |-> "echo", rest |-> r, reg |-> echo.reg, text |-> u, x0 |-> echo.x0, clean |-> echo.clean]
  <2>1. echo' = [echo EXCEPT !.at = "echo", !.text = u, !.rest = r]
    BY <1>2, <1>4 DEF TypeKey
  <2> QED BY <2>1, ShapesOfEcho DEF ConInv
<1>7. /\ echo'.at = "echo" /\ echo'.rest = r /\ echo'.text = u /\ echo'.x0 = echo.x0
      /\ echo'.clean = echo.clean
  BY <1>6
<1>8. ConShapes'
  BY <1>1, <1>3, <1>5, <1>6 DEF ConShapes, EchoStates
<1>9. CursorTrue' /\ RestTrue'
  <2>1. CursorTrue'
    BY <1>1, <1>7 DEF CursorTrue
  <2> QED BY <1>5, <1>7, <2>1 DEF RestTrue
<1>10. LineFollows'
  <2>1. SUFFICES ASSUME echo.clean PROVE Following(con', echo')
    BY <1>7 DEF LineFollows
  <2>2. Following(con, echo)
    BY <1>1, <2>1 DEF ConInv, LineFollows
  <2>3. PICK g : g = Shown(echo.text)
    OBVIOUS
  <2>4. IsGlyphs(g) /\ Len(g) \in Nat
    BY <1>1, <2>3, ShownTyped
  <2>5. Stands(con, echo.x0, g, Len(g))
    <3>1. Len(echo.rest) = 0 /\ Len(g) - 0 = Len(g)
      BY <1>1, <2>4
    <3>2. Stands(con, echo.x0, g, Len(g) - Len(echo.rest))
      BY <1>1, <2>2, <2>3 DEF Following
    <3> QED BY <3>1, <3>2
  <2>6. PICK h : h = Shown(u)
    OBVIOUS
  <2>7. h = Cat(g, r)
    <3>1. Len(echo.text) \in Nat
      BY <1>1, SeqIs
    <3> QED BY <1>3, <1>4, <2>3, <2>6, <3>1, ShownMore
  <2>8. /\ Len(r) \in Nat /\ Len(h) = Len(g) + Len(r)
        /\ \A i \in 1..Len(g) : h[i] = g[i]
        /\ \A i \in 1..Len(r) : h[Len(g) + i] = r[i]
    BY <1>5, <2>4, <2>7, CatIs
  <2>9. PICK n : n = Len(h) - Len(r)
    OBVIOUS
  <2>10. n = Len(g) /\ Len(r) <= Len(h)
    BY <2>4, <2>8, <2>9
  <2>11. Stands(con', echo'.x0, h, n)
    BY <1>1, <1>7, <2>5, <2>8, <2>10, StandsLonger
  <2>12. \A i \in 1..Len(r) : h[n + i] = r[i]
    BY <2>8, <2>10
  <2> QED BY <1>5, <1>7, <2>6, <2>9, <2>10, <2>11, <2>12 DEF Following
<1> QED BY <1>8, <1>9, <1>10 DEF ConInv

\* The first of what is not shown yet, and the others.
LEMMA HeadTail ==
  ASSUME NEW r \in Seq(Typeable), r # <<>>
  PROVE  /\ Head(r) = r[1] /\ r[1] \in Typeable /\ Tail(r) \in Seq(Typeable) /\ Len(r) \in Nat \ {0}
         /\ Len(Tail(r)) = Len(r) - 1
         /\ \A i \in 1..(Len(r) - 1) : Tail(r)[i] = r[i + 1]
PROOF
<1> QED BY SeqIs, HeadTailProperties

LEMMA EchoGlyphKeeps ==
  ASSUME ConInv, EchoGlyph
  PROVE  ConInv'
PROOF
<1>1. /\ echo.at = "echo" /\ echo.rest # <<>> /\ echo.rest \in Seq(Typeable) /\ echo.reg \in Nat
      /\ echo.text \in Seq(EchoKeys) /\ echo.x0 \in Nat /\ echo.clean \in BOOLEAN
      /\ con \in Consoles /\ Fits(con)
  BY ShapesOfEcho DEF ConInv, ConShapes, CursorTrue, RestTrue, EchoGlyph
<1>2. PICK r : r = echo.rest
  OBVIOUS
<1>3. PICK s : s = Tail(r)
  OBVIOUS
<1>4. /\ Head(r) = r[1] /\ r[1] \in Typeable /\ s \in Seq(Typeable) /\ Len(r) \in Nat \ {0}
      /\ Len(s) = Len(r) - 1 /\ \A i \in 1..(Len(r) - 1) : s[i] = r[i + 1]
  BY <1>1, <1>2, <1>3, HeadTail
<1>5. PICK x : x = con.x + con.s
  OBVIOUS
<1>6. x \in Nat
  BY <1>1, <1>5, SizesFit DEF Consoles
<1>7. echo' = [at |-> "drawn", rest |-> s, reg |-> x, text |-> echo.text, x0 |-> echo.x0, clean |-> echo.clean]
  <2>1. echo' = [echo EXCEPT !.at = "drawn", !.rest = s, !.reg = x]
    BY <1>2, <1>3, <1>5 DEF EchoGlyph
  <2> QED BY <2>1, ShapesOfEcho DEF ConInv
<1>8. /\ echo'.at = "drawn" /\ echo'.rest = s /\ echo'.text = echo.text /\ echo'.x0 = echo.x0
      /\ echo'.clean = echo.clean /\ echo'.reg = x
  BY <1>7
<1>9. con' = Drawn(con, r[1]) /\ r[1] \in Contents
  BY <1>2, <1>4 DEF EchoGlyph, Contents
<1>10. con' \in Consoles /\ con'.x = con.x /\ con'.y = con.y /\ con'.s = con.s /\ con'.askew = con.askew
  BY <1>1, <1>9, DrawnIs
<1>11. ConShapes'
  BY <1>1, <1>4, <1>6, <1>7, <1>10 DEF ConShapes, EchoStates
<1>12. CursorTrue' /\ RestTrue'
  <2>1. Fits(con')
    BY <1>1, <1>10 DEF Fits, OnScreen
  <2>2. CursorTrue'
    BY <1>8, <2>1 DEF CursorTrue, Fits, OnScreen
  <2> QED BY <1>8, <2>2 DEF RestTrue
<1>13. LineFollows'
  <2>1. SUFFICES ASSUME echo.clean PROVE Following(con', echo')
    BY <1>8 DEF LineFollows
  <2>2. Following(con, echo)
    BY <1>1, <2>1 DEF ConInv, LineFollows
  <2>3. PICK g : g = Shown(echo.text)
    OBVIOUS
  <2>4. IsGlyphs(g) /\ Len(g) \in Nat
    BY <1>1, <2>3, ShownTyped
  <2>5. PICK n : n = Len(g) - Len(r)
    OBVIOUS
  <2>6. /\ Len(r) <= Len(g) /\ (\A i \in 1..Len(r) : g[n + i] = r[i]) /\ Stands(con, echo.x0, g, n)
    BY <1>1, <1>2, <2>2, <2>3, <2>5 DEF Following
  <2>7. PICK m : m = Len(g) - Len(s)
    OBVIOUS
  <2>8. n \in Nat /\ m = n + 1 /\ m - 1 = n /\ m >= 1 /\ Len(s) <= Len(g)
    BY <1>4, <2>4, <2>5, <2>6, <2>7
  <2>9. g[n + 1] = r[1]
    BY <1>4, <2>6
  <2>10. Half(con', echo'.x0, g, m - 1)
    BY <1>8, <1>9, <2>6, <2>8, <2>9, DrawStep
  <2>11. \A i \in 1..Len(s) : g[m + i] = s[i]
    <3>1. ASSUME NEW i \in 1..Len(s) PROVE g[m + i] = s[i]
      <4>1. i \in 1..(Len(r) - 1) /\ i + 1 \in 1..Len(r) /\ m + i = n + (i + 1)
        BY <1>4, <2>8
      <4> QED BY <1>4, <2>6, <4>1
    <3> QED BY <3>1
  <2>12. echo'.reg = con'.x + con'.s
    BY <1>5, <1>8, <1>10
  <2> QED BY <1>8, <2>3, <2>7, <2>8, <2>10, <2>11, <2>12 DEF Following
<1> QED BY <1>11, <1>12, <1>13 DEF ConInv

\* What goes on after a glyph: the next one or the next key.
LEMMA OnwardIs ==
  /\ Onward \in {"editing", "echo"}
  /\ Onward = "editing" => echo.rest = <<>>
  /\ Onward = "echo" => echo.rest # <<>>
PROOF
<1> QED BY DEF Onward

LEMMA EchoAdvanceKeeps ==
  ASSUME ConInv, EchoAdvance
  PROVE  ConInv'
PROOF
<1>1. /\ echo.at = "drawn" /\ echo.rest \in Seq(Typeable) /\ echo.reg \in Nat
      /\ echo.text \in Seq(EchoKeys) /\ echo.x0 \in Nat /\ echo.clean \in BOOLEAN
      /\ con \in Consoles /\ Fits(con)
  BY ShapesOfEcho DEF ConInv, ConShapes, CursorTrue, EchoAdvance
<1>2. PICK c : c = Moved(con, echo.reg)
  OBVIOUS
<1>3. /\ c \in Consoles /\ c.x = echo.reg /\ c.y = con.y /\ c.s = con.s /\ c.askew = con.askew
  <2>1. con \in Consoles /\ echo.reg \in Nat /\ c = Moved(con, echo.reg)
    BY <1>1, <1>2
  <2> QED BY <2>1, MovedIs
<1>4. PICK a : a = IF Wraps(c) THEN "wrapped" ELSE Onward
  OBVIOUS
<1>5. echo' = [at |-> a, rest |-> echo.rest, reg |-> 0, text |-> echo.text, x0 |-> echo.x0, clean |-> echo.clean]
  <2>1. echo' = [echo EXCEPT !.at = a, !.reg = 0]
    BY <1>2, <1>4 DEF EchoAdvance
  <2> QED BY <2>1, ShapesOfEcho DEF ConInv
<1>6. /\ echo'.at = a /\ echo'.rest = echo.rest /\ echo'.text = echo.text /\ echo'.x0 = echo.x0
      /\ echo'.clean = echo.clean
  BY <1>5
<1>7. con' = IF Wraps(c) THEN NextRow(c) ELSE c
  BY <1>2 DEF EchoAdvance
<1>8. a \in EchoStates /\ (a = "editing" => echo.rest = <<>>) /\ (a = "echo" => echo.rest # <<>>)
      /\ (Wraps(c) => a = "wrapped") /\ (~Wraps(c) => a \in {"editing", "echo"})
  BY <1>4, OnwardIs DEF EchoStates
<1>9. con' \in Consoles /\ (Wraps(c) => Across(con')) /\ (~Wraps(c) => Fits(con'))
  <2>1. CASE Wraps(c)
    <3>1. PICK d : d = NextRow(c)
      OBVIOUS
    <3>2. d \in Consoles /\ Across(d)
      BY <1>3, <3>1, NextRowIs
    <3> QED BY <1>7, <2>1, <3>1, <3>2
  <2>2. CASE ~Wraps(c)
    <3>1. con' = c
      BY <1>7, <2>2
    <3>2. c.x + c.s <= ScreenW
      <4>1. c.x \in Nat /\ c.s \in 1..4 /\ ScreenW \in Nat
        BY <1>3, ScreenSize, SizesFit DEF Consoles
      <4> QED BY <2>2, <4>1 DEF Wraps
    <3>3. Fits(c)
      BY <1>1, <1>3, <3>2 DEF Fits, OnScreen
    <3> QED BY <1>3, <2>2, <3>1, <3>3
  <2> QED BY <2>1, <2>2
<1>10. ConShapes'
  BY <1>1, <1>5, <1>8, <1>9 DEF ConShapes
<1>11. CursorTrue' /\ RestTrue'
  <2>1. (a \in {"idle", "editing", "echo", "drawn"} => Fits(con')) /\ (a \in {"wrapped", "ended"} => Across(con'))
    BY <1>8, <1>9
  <2>2. CursorTrue'
    BY <1>6, <2>1 DEF CursorTrue, Fits, Across, OnScreen
  <2> QED BY <1>6, <1>8, <2>2 DEF RestTrue
<1>12. LineFollows'
  <2>1. SUFFICES ASSUME echo.clean PROVE Following(con', echo')
    BY <1>6 DEF LineFollows
  <2>2. Following(con, echo)
    BY <1>1, <2>1 DEF ConInv, LineFollows
  <2>3. PICK g : g = Shown(echo.text)
    OBVIOUS
  <2>4. PICK n : n = Len(g) - Len(echo.rest)
    OBVIOUS
  <2>5. /\ Len(echo.rest) <= Len(g) /\ (\A i \in 1..Len(echo.rest) : g[n + i] = echo.rest[i])
        /\ n >= 1 /\ Half(con, echo.x0, g, n - 1) /\ echo.reg = con.x + con.s
    BY <1>1, <2>2, <2>3, <2>4 DEF Following
  <2>6. n - 1 \in Nat /\ (n - 1) + 1 = n
    <3>1. Len(g) \in Nat /\ Len(echo.rest) \in Nat
      BY <1>1, <2>3, ShownTyped, SeqIs
    <3> QED BY <2>4, <2>5, <3>1
  <2>7. c = Moved(con, con.x + con.s)
    BY <1>2, <2>5
  <2>8. (Wraps(c) => Below(NextRow(c), echo.x0, g, n)) /\ (~Wraps(c) => Stands(c, echo.x0, g, n))
    <3>1. (Wraps(c) => Below(NextRow(c), echo.x0, g, (n - 1) + 1))
          /\ (~Wraps(c) => Stands(c, echo.x0, g, (n - 1) + 1))
      BY <2>5, <2>6, <2>7, AdvanceStep
    <3> QED BY <2>6, <3>1
  <2>9. (a = "wrapped" => Below(con', echo'.x0, g, n)) /\ (a \in {"editing", "echo"} => Stands(con', echo'.x0, g, n))
    BY <1>6, <1>7, <1>8, <2>8
  <2>10. a # "drawn"
    BY <1>8
  <2> QED BY <1>6, <1>8, <2>3, <2>4, <2>5, <2>9, <2>10 DEF Following
<1> QED BY <1>10, <1>11, <1>12 DEF ConInv

LEMMA EchoScrollKeeps ==
  ASSUME ConInv, EchoScroll
  PROVE  ConInv'
PROOF
<1>1. /\ echo.at = "wrapped" /\ echo.rest \in Seq(Typeable) /\ echo.reg \in Nat
      /\ echo.text \in Seq(EchoKeys) /\ echo.x0 \in Nat /\ echo.clean \in BOOLEAN
      /\ con \in Consoles /\ Across(con)
  BY ShapesOfEcho DEF ConInv, ConShapes, CursorTrue, EchoScroll
<1>2. PICK a : a = Onward
  OBVIOUS
<1>3. echo' = [at |-> a, rest |-> echo.rest, reg |-> echo.reg, text |-> echo.text, x0 |-> echo.x0, clean |-> echo.clean]
  <2>1. echo' = [echo EXCEPT !.at = a]
    BY <1>2 DEF EchoScroll
  <2> QED BY <2>1, ShapesOfEcho DEF ConInv
<1>4. /\ echo'.at = a /\ echo'.rest = echo.rest /\ echo'.text = echo.text /\ echo'.x0 = echo.x0
      /\ echo'.clean = echo.clean
  BY <1>3
<1>5. a \in {"editing", "echo"} /\ (a = "editing" => echo.rest = <<>>) /\ (a = "echo" => echo.rest # <<>>)
  BY <1>2, OnwardIs
<1>6. con' = Fitted(con)
  BY DEF EchoScroll
<1>7. con' \in Consoles /\ Fits(con')
  <2>1. PICK e : e = IF con.y + con.s > ScreenH THEN Scrolled(con) ELSE con
    OBVIOUS
  <2> QED BY <1>1, <1>6, <2>1, FittedIs
<1>8. ConShapes'
  BY <1>1, <1>3, <1>5, <1>7 DEF ConShapes, EchoStates
<1>9. CursorTrue' /\ RestTrue'
  <2>1. CursorTrue'
    BY <1>4, <1>5, <1>7 DEF CursorTrue, Fits, OnScreen
  <2> QED BY <1>4, <1>5, <2>1 DEF RestTrue
<1>10. LineFollows'
  <2>1. SUFFICES ASSUME echo.clean PROVE Following(con', echo')
    BY <1>4 DEF LineFollows
  <2>2. Following(con, echo)
    BY <1>1, <2>1 DEF ConInv, LineFollows
  <2>3. PICK g : g = Shown(echo.text)
    OBVIOUS
  <2>4. PICK n : n = Len(g) - Len(echo.rest)
    OBVIOUS
  <2>5. /\ Len(echo.rest) <= Len(g) /\ (\A i \in 1..Len(echo.rest) : g[n + i] = echo.rest[i])
        /\ Below(con, echo.x0, g, n)
    BY <1>1, <2>2, <2>3, <2>4 DEF Following
  <2>6. n \in Nat
    <3>1. Len(g) \in Nat /\ Len(echo.rest) \in Nat
      BY <1>1, <2>3, ShownTyped, SeqIs
    <3> QED BY <2>4, <2>5, <3>1
  <2>7. Stands(con', echo'.x0, g, n)
    BY <1>4, <1>6, <2>5, <2>6, ScrollStep
  <2> QED BY <1>4, <1>5, <2>3, <2>4, <2>5, <2>7 DEF Following
<1> QED BY <1>8, <1>9, <1>10 DEF ConInv

LEMMA RuboutKeeps ==
  ASSUME ConInv, Rubout
  PROVE  ConInv'
PROOF
<1>1. /\ echo.at = "editing" /\ echo.rest = <<>> /\ echo.rest \in Seq(Typeable) /\ echo.reg \in Nat
      /\ echo.text \in Seq(EchoKeys) /\ echo.x0 \in Nat /\ echo.clean \in BOOLEAN
      /\ con \in Consoles /\ Fits(con) /\ echo.text # <<>>
  BY ShapesOfEcho DEF ConInv, ConShapes, CursorTrue, RestTrue, Rubout
<1>2. PICK u : u = echo.text
  OBVIOUS
<1>3. u \in Seq(EchoKeys) /\ Len(u) \in Nat \ {0} /\ u[Len(u)] \in EchoKeys
  BY <1>1, <1>2, SeqIs
<1>4. PICK w : w = SubSeq(u, 1, Len(u) - 1)
  OBVIOUS
<1>5. w \in Seq(EchoKeys) /\ Len(w) \in Nat /\ Len(u) = Len(w) + 1 /\ \A i \in 1..Len(w) : u[i] = w[i]
  <2>1. Len(u) - 1 \in 0..Len(u) /\ \A i \in 1..(Len(u) - 1) : u[i] \in EchoKeys
    BY <1>3, SeqIs
  <2>2. PICK n : n = Len(u) - 1
    OBVIOUS
  <2>3. 1 \in Int /\ n \in Nat /\ n \in Int /\ \A i \in 1..n : u[i] \in EchoKeys
    BY <1>3, <2>1, <2>2
  <2>4. w = SubSeq(u, 1, n)
    BY <1>4, <2>2
  <2>5. /\ w \in Seq(EchoKeys)
        /\ Len(w) = IF 1 <= n THEN n - 1 + 1 ELSE 0
        /\ \A i \in 1..(n - 1 + 1) : w[i] = u[1 + i - 1]
    BY <2>3, <2>4, SubSeqProperties
  <2>6. Len(w) = n
    BY <2>3, <2>5
  <2>7. ASSUME NEW i \in 1..n PROVE u[i] = w[i]
    <3>1. i \in 1..(n - 1 + 1) /\ 1 + i - 1 = i
      BY <2>3, <2>7
    <3> QED BY <2>5, <3>1
  <2>8. Len(w) \in Nat /\ Len(u) = Len(w) + 1
    BY <1>3, <2>2, <2>3, <2>6
  <2> QED BY <2>5, <2>6, <2>7, <2>8
<1>6. PICK b : b = (echo.clean /\ con.x >= con.s /\ u[Len(u)] # TAB)
  OBVIOUS
<1>7. echo' = [at |-> "editing", rest |-> echo.rest, reg |-> echo.reg, text |-> w, x0 |-> echo.x0, clean |-> b]
  <2>1. echo' = [echo EXCEPT !.text = w, !.clean = b]
    BY <1>2, <1>4, <1>6 DEF Rubout
  <2> QED BY <1>1, <2>1, ShapesOfEcho DEF ConInv
<1>8. /\ echo'.at = "editing" /\ echo'.rest = echo.rest /\ echo'.text = w /\ echo'.x0 = echo.x0
      /\ echo'.clean = b
  BY <1>7
<1>9. con' = BackSpaced(con)
  BY DEF Rubout
<1>10. con' \in Consoles /\ Fits(con')
  BY <1>1, <1>9, BackSpacedKeeps DEF Keeps
<1>11. ConShapes'
  <2>1. b \in BOOLEAN
    BY <1>6
  <2> QED BY <1>1, <1>5, <1>7, <1>10, <2>1 DEF ConShapes, EchoStates
<1>12. CursorTrue' /\ RestTrue'
  <2>1. CursorTrue'
    BY <1>8, <1>10 DEF CursorTrue, Fits, OnScreen
  <2> QED BY <1>1, <1>8, <2>1 DEF RestTrue
<1>13. LineFollows'
  <2>1. SUFFICES ASSUME b PROVE Following(con', echo')
    BY <1>8 DEF LineFollows
  <2>2. echo.clean /\ con.x >= con.s /\ u[Len(u)] # TAB
    BY <1>6, <2>1
  <2>3. Following(con, echo)
    BY <1>1, <2>2 DEF ConInv, LineFollows
  <2>4. PICK g : g = Shown(u)
    OBVIOUS
  <2>5. PICK h : h = Shown(w)
    OBVIOUS
  <2>6. IsGlyphs(h) /\ Len(h) \in Nat /\ Len(g) \in Nat
    BY <1>3, <1>5, <2>4, <2>5, ShownTyped
  <2>7. PICK e : e = Expanded(u[Len(u)])
    OBVIOUS
  <2>8. IsGlyphs(e) /\ Len(e) = 1
    BY <1>3, <2>2, <2>7, ExpandedIs
  <2>9. g = Cat(h, e)
    BY <1>5, <2>4, <2>5, <2>7, ShownMore
  <2>10. Len(g) = Len(h) + 1 /\ \A i \in 1..Len(h) : g[i] = h[i]
    <3>1. /\ Len(Cat(h, e)) = Len(h) + Len(e)
          /\ \A i \in 1..Len(h) : Cat(h, e)[i] = h[i]
      BY <2>6, <2>8, CatIs
    <3>2. Len(g) = Len(h) + Len(e) /\ \A i \in 1..Len(h) : g[i] = h[i]
      BY <2>9, <3>1
    <3> QED BY <2>8, <3>2
  <2>11. Stands(con, echo.x0, g, Len(h) + 1)
    <3>1. Len(echo.rest) = 0
      BY <1>1
    <3>2. Stands(con, echo.x0, g, Len(g) - Len(echo.rest))
      BY <1>1, <1>2, <2>3, <2>4 DEF Following
    <3>3. Len(g) - 0 = Len(h) + 1
      BY <2>6, <2>10
    <3> QED BY <3>1, <3>2, <3>3
  <2>12. Stands(con', echo.x0, g, Len(h))
    BY <1>9, <2>2, <2>6, <2>11, RuboutStep
  <2>13. Stands(con', echo'.x0, h, Len(h))
    BY <1>8, <2>10, <2>12, StandsLonger
  <2>14. PICK n : n = Len(h) - Len(echo'.rest)
    OBVIOUS
  <2>15. Len(echo'.rest) = 0
    BY <1>1, <1>8
  <2>16. n = Len(h) /\ Len(echo'.rest) <= Len(h)
    BY <2>6, <2>14, <2>15
  <2>17. \A i \in 1..Len(echo'.rest) : h[n + i] = echo'.rest[i]
    BY <2>15
  <2>18. Stands(con', echo'.x0, h, n)
    BY <2>13, <2>16
  <2> QED BY <1>1, <1>8, <2>5, <2>14, <2>16, <2>17, <2>18 DEF Following
<1> QED BY <1>11, <1>12, <1>13 DEF ConInv

LEMMA EndLineKeeps ==
  ASSUME ConInv, EndLine
  PROVE  ConInv'
PROOF
<1>1. con \in Consoles /\ con' = NextRow(con)
  BY DEF ConInv, ConShapes, EndLine
<1>2. con' \in Consoles /\ Across(con')
  BY <1>1, NextRowIs
<1>3. echo' = [at |-> "ended", rest |-> echo.rest, reg |-> echo.reg, text |-> echo.text, x0 |-> echo.x0, clean |-> echo.clean]
  <2>1. echo' = [echo EXCEPT !.at = "ended"]
    BY DEF EndLine
  <2> QED BY <2>1, ShapesOfEcho DEF ConInv
<1>4. echo'.at = "ended"
  BY <1>3
<1>5. ConShapes'
  BY <1>2, <1>3, ShapesOfEcho DEF ConInv, ConShapes, EchoStates
<1>6. CursorTrue' /\ RestTrue' /\ LineFollows'
  BY <1>2, <1>4 DEF CursorTrue, RestTrue, LineFollows, Across
<1> QED BY <1>5, <1>6 DEF ConInv

\* The line is over and the cursor on the screen.
LEMMA IdleKeeps ==
  ASSUME con' \in Consoles, Fits(con'), echo' = NoEcho
  PROVE  ConInv'
PROOF
<1>1. echo'.at = "idle"
  BY DEF NoEcho
<1>2. ConShapes'
  BY NoEchoShape DEF ConShapes
<1>3. CursorTrue' /\ RestTrue' /\ LineFollows'
  BY <1>1 DEF CursorTrue, RestTrue, LineFollows, Fits, OnScreen
<1> QED BY <1>2, <1>3 DEF ConInv

LEMMA EndScrollKeeps ==
  ASSUME ConInv, EndScroll
  PROVE  ConInv'
PROOF
<1>1. con \in Consoles /\ Across(con) /\ con' = Fitted(con) /\ echo' = NoEcho
  BY DEF ConInv, ConShapes, CursorTrue, EndScroll
<1>2. PICK e : e = IF con.y + con.s > ScreenH THEN Scrolled(con) ELSE con
  OBVIOUS
<1>3. con' \in Consoles /\ Fits(con')
  BY <1>1, <1>2, FittedIs
<1> QED BY <1>1, <1>3, IdleKeeps

LEMMA CancelLineKeeps ==
  ASSUME ConInv, CancelLine
  PROVE  ConInv'
PROOF
<1>1. con \in Consoles /\ Fits(con) /\ con' = con /\ echo' = NoEcho
  BY DEF ConInv, ConShapes, CursorTrue, CancelLine
<1> QED BY <1>1, IdleKeeps

\* What anybody prints and every step of the echo keep the invariant (video.c,
\* syscall_read).
THEOREM ConsoleInvariant == ConSpec => []ConInv
PROOF
<1>1. ConInv /\ [ConNext]_convars => ConInv'
  <2>. SUFFICES ASSUME ConInv, [ConNext]_convars PROVE ConInv'
    OBVIOUS
  <2>1. ASSUME NEW str \in Outputs, Write(str) \/ WriteAtVram(str, 1, 1) PROVE ConInv'
    BY <2>1, WriteKeeps, WriteAtVramKeeps
  <2>2. ASSUME NEW n \in FontScales, Resize(n) PROVE ConInv'
    BY <2>2, ResizeKeeps
  <2>3. CASE ClearWindow
    BY <2>3, ClearWindowKeeps
  <2>4. CASE WritePrompt
    BY <2>4, WritePromptKeeps
  <2>5. ASSUME NEW ch \in EchoKeys, TypeKey(ch) PROVE ConInv'
    BY <2>5, TypeKeyKeeps
  <2>6. CASE EchoGlyph
    BY <2>6, EchoGlyphKeeps
  <2>7. CASE EchoAdvance
    BY <2>7, EchoAdvanceKeeps
  <2>8. CASE EchoScroll
    BY <2>8, EchoScrollKeeps
  <2>9. CASE Rubout
    BY <2>9, RuboutKeeps
  <2>10. CASE EndLine
    BY <2>10, EndLineKeeps
  <2>11. CASE EndScroll
    BY <2>11, EndScrollKeeps
  <2>12. CASE CancelLine
    BY <2>12, CancelLineKeeps
  <2>13. CASE UNCHANGED convars
    BY <2>13 DEF ConInv, ConShapes, CursorTrue, RestTrue, LineFollows, convars, Fits, Across, OnScreen
  <2> QED BY <2>1, <2>2, <2>3, <2>4, <2>5, <2>6, <2>7, <2>8, <2>9, <2>10, <2>11, <2>12, <2>13 DEF ConNext
<1> QED BY <1>1, ConStart, PTL DEF ConSpec

\* The screen shows the prompt and the line where they belong, and the cursor behind
\* them, for any screen, strings, sizes of letters and lines (vdPrintCharStyled,
\* vdBackSpace, vdScrollUp_pixels against syscall_read).
THEOREM EchoAlwaysShown == ConSpec => []EchoShown
PROOF
<1>1. ConInv => EchoShown
  <2>. SUFFICES ASSUME ConInv, echo.at \in {"idle", "editing"}
                PROVE  /\ con.askew \/ OnScreen(con)
                       /\ echo.at = "editing" /\ echo.clean =>
                            LET shown == Shown(echo.text) IN
                            /\ <<con.x, con.y>> = Place(con, echo.x0, Len(shown))
                            /\ \A i \in 1..Len(shown) : \A dx, dy \in 0..(con.s - 1) :
                                 LET p == <<Place(con, echo.x0, i - 1)[1] + dx,
                                            Place(con, echo.x0, i - 1)[2] + dy>> IN
                                 p \in Cells => con.cells[p] = shown[i]
    BY DEF EchoShown
  <2>1. con.askew \/ OnScreen(con)
    BY DEF ConInv, CursorTrue, Fits
  <2>2. PICK g : g = Shown(echo.text)
    OBVIOUS
  <2>3. ASSUME echo.at = "editing", echo.clean
        PROVE  /\ <<con.x, con.y>> = Place(con, echo.x0, Len(g))
               /\ \A i \in 1..Len(g) : \A dx, dy \in 0..(con.s - 1) :
                    <<Place(con, echo.x0, i - 1)[1] + dx, Place(con, echo.x0, i - 1)[2] + dy>> \in Cells =>
                      con.cells[<<Place(con, echo.x0, i - 1)[1] + dx, Place(con, echo.x0, i - 1)[2] + dy>>] = g[i]
    <3>1. Following(con, echo) /\ echo.rest = <<>> /\ echo.text \in Seq(EchoKeys)
      BY <2>3, ShapesOfEcho DEF ConInv, LineFollows, RestTrue
    <3>2. Stands(con, echo.x0, g, Len(g))
      <4>1. Len(g) \in Nat
        BY <2>2, <3>1, ShownTyped
      <4>2. Len(echo.rest) = 0 /\ Len(g) - 0 = Len(g)
        BY <3>1, <4>1
      <4>3. Stands(con, echo.x0, g, Len(g) - Len(echo.rest))
        BY <2>2, <2>3, <3>1 DEF Following
      <4> QED BY <4>2, <4>3
    <3>3. con.s \in 1..4 /\ con.top \in Int /\ LettersFit(con.s, echo.x0)
      BY <3>2, SizesFit DEF Stands, Ready, Consoles
    <3>4. ASSUME NEW i \in 1..Len(g), NEW dx \in 0..(con.s - 1), NEW dy \in 0..(con.s - 1), NEW p,
                 p = <<Place(con, echo.x0, i - 1)[1] + dx, Place(con, echo.x0, i - 1)[2] + dy>>, p \in Cells
          PROVE  con.cells[p] = g[i]
      <4>1. PICK P : P = Place(con, echo.x0, i - 1)
        OBVIOUS
      <4>2. P[1] \in Nat /\ P[2] \in Int
        <5>1. i - 1 \in Nat
          OBVIOUS
        <5> QED BY <3>3, <4>1, <5>1, PlaceTypes
      <4>3. p[1] = P[1] + dx /\ p[2] = P[2] + dy
        BY <3>4, <4>1
      <4>4. InGlyph(P, con.s, p)
        <5>1. dx \in Nat /\ dx < con.s /\ dy \in Nat /\ dy < con.s /\ con.s \in Int
          BY <3>3, <3>4
        <5>2. P[1] <= P[1] + dx /\ P[1] + dx < P[1] + con.s
          BY <4>2, <5>1
        <5>3. P[2] <= P[2] + dy /\ P[2] + dy < P[2] + con.s
          BY <4>2, <5>1
        <5> QED BY <4>3, <5>2, <5>3 DEF InGlyph
      <4> QED BY <3>2, <3>4, <4>1, <4>4 DEF Stands, Shows
    <3>5. <<con.x, con.y>> = Place(con, echo.x0, Len(g))
      BY <3>2 DEF Stands, Reaches
    <3> QED BY <3>4, <3>5
  <2> QED BY <2>1, <2>2, <2>3
<1> QED BY <1>1, ConsoleInvariant, PTL

=============================================================================
