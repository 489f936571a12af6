--------------------------------- MODULE Speaker --------------------------------
(***************************************************************************)
(* The speaker (Kernel/drivers/audio.c) and sleep_ms                       *)
(* (Kernel/interrupts/timer.c), as the system calls for sound and sleep    *)
(* use them.  There is one speaker and one tone for all processes; a beep  *)
(* sleeps with interrupts on, so others run, and may be killed, while it   *)
(* sounds.  What a call does before its first halt, and after its last     *)
(* one, is one step: the writes to the speaker leave the same bits in any  *)
(* order with those of another process.                                    *)
(***************************************************************************)
EXTENDS Integers

CONSTANTS
  Sounders,      \* the processes that use the speaker
  TICK_HZ,       \* 1000: what init_interrupts asks of timer_init
  Tones,         \* frequencies, 0 among them
  Durations,     \* milliseconds
  MaxSounds      \* bound of the model: system calls

SPK_MIN_FREQ == 37
SPK_MAX_FREQ == 32767

ASSUME SpeakerAssumption ==
  /\ TICK_HZ \in Nat \ {0} /\ Tones \subseteq Nat /\ Durations \subseteq Nat
  /\ MaxSounds \in Nat

VARIABLES
  speaker,     \* the gate and the tone of channel 2
  sleeper,     \* each process: its call, how long it is, g_ticks - start; ghosts:
               \* ticks for which its tone was heard, whether another process or
               \* the death of one has touched the speaker since it began
  sounds_left  \* what is left of the bound

speakervars == <<speaker, sleeper, sounds_left>>

Awake == [call |-> "none", ms |-> 0, tone |-> 0, ticks |-> 0, heard |-> 0, alone |-> TRUE]

SpeakerInit ==
  /\ speaker = [on |-> FALSE, tone |-> 0]
  /\ sleeper = [p \in Sounders |-> Awake]
  /\ sounds_left = MaxSounds

Halted(p) == sleeper[p].call \in {"sleep", "beep"}
Calls(p) == sleeper[p].call = "none" /\ sounds_left > 0 /\ sounds_left' = sounds_left - 1

\* ticks_to_wait.  Mutant: the tick that is under way counts as a whole one.
TicksLessOne(ms) == IF ms = 0 THEN 0 ELSE (ms * TICK_HZ) \div 1000 - 1
TicksToWait(ms) == (ms * TICK_HZ) \div 1000

\* pit_set_frequency and play_sound; a tone of 0 is silence, and the system call
\* refuses to play it.
Tone(f) == IF f < SPK_MIN_FREQ THEN SPK_MIN_FREQ
           ELSE IF f > SPK_MAX_FREQ THEN SPK_MAX_FREQ ELSE f
Played(f) == IF f = 0 THEN [speaker EXCEPT !.on = FALSE] ELSE [on |-> TRUE, tone |-> Tone(f)]
Stopped == [speaker EXCEPT !.on = FALSE]

\* Everyone else who beeps is no longer alone.
Intrudes(p) == [q \in Sounders |-> IF q = p THEN sleeper[q] ELSE [sleeper[q] EXCEPT !.alone = FALSE]]

PlaySound(p, f) ==
  /\ Calls(p) /\ f # 0
  /\ speaker' = Played(f)
  /\ sleeper' = Intrudes(p)

StopSound(p) ==
  /\ Calls(p)
  /\ speaker' = Stopped
  /\ sleeper' = Intrudes(p)

\* sleep_ms up to its first look at the clock; a sleep of no ticks returns at once.
SleepMs(p, ms) ==
  /\ Calls(p)
  /\ sleeper' = [sleeper EXCEPT ![p] = [Awake EXCEPT !.call = "sleep", !.ms = ms]]
  /\ UNCHANGED speaker

Beep(p, f, ms) ==
  /\ Calls(p)
  /\ speaker' = Played(f)
  /\ sleeper' = [Intrudes(p) EXCEPT ![p] =
                   [Awake EXCEPT !.call = "beep", !.ms = ms, !.tone = f]]

\* The timer interrupt.  Beyond the end of a sleep g_ticks says no more.
Capped(n, ms) == IF n > TicksToWait(ms) THEN TicksToWait(ms) ELSE n
TimerOnIrq ==
  /\ \E p \in Sounders : Halted(p) /\ sleeper[p].ticks < TicksToWait(sleeper[p].ms)
  /\ sleeper' = [p \in Sounders |->
       IF Halted(p)
         THEN [sleeper[p] EXCEPT
                !.ticks = Capped(@ + 1, sleeper[p].ms),
                !.heard = IF speaker = [on |-> TRUE, tone |-> Tone(sleeper[p].tone)]
                            THEN Capped(@ + 1, sleeper[p].ms) ELSE @]
         ELSE sleeper[p]]
  /\ UNCHANGED <<speaker, sounds_left>>

\* The process runs again, finds that it has slept enough, and returns.
SleepOver(p) ==
  /\ Halted(p) /\ sleeper[p].ticks >= TicksToWait(sleeper[p].ms)
  /\ IF sleeper[p].call = "beep"
       THEN speaker' = Stopped /\ sleeper' = [Intrudes(p) EXCEPT ![p] = Awake]
       ELSE UNCHANGED speaker /\ sleeper' = [sleeper EXCEPT ![p] = Awake]
  /\ UNCHANGED sounds_left

\* Ctrl+C or kill: nobody stops the speaker for it.
KilledAsleep(p) ==
  /\ Halted(p)
  /\ sleeper' = [sleeper EXCEPT ![p] = [Awake EXCEPT !.call = "dead"]]
  /\ UNCHANGED <<speaker, sounds_left>>

SpeakerNext ==
  \/ TimerOnIrq
  \/ \E p \in Sounders :
       \/ \E f \in Tones : PlaySound(p, f) \/ \E ms \in Durations : Beep(p, f, ms)
       \/ \E ms \in Durations : SleepMs(p, ms)
       \/ StopSound(p) \/ SleepOver(p) \/ KilledAsleep(p)

SpeakerSpec == SpeakerInit /\ [][SpeakerNext]_speakervars
-----------------------------------------------------------------------------
\* A beep with which no other process interferes is heard at its tone for as many
\* ticks as it was asked to last, and the speaker is silent when it returns,
\* whatever sounded before it and whoever sleeps or is killed meanwhile.
BeepHeard ==
  [][\A p \in Sounders :
       LET s == sleeper[p] IN
       s.call = "beep" /\ sleeper'[p].call = "none" /\ s.alone =>
         /\ s.tone # 0 => s.heard >= (s.ms * TICK_HZ) \div 1000
         /\ ~speaker'.on]_speakervars
=============================================================================
