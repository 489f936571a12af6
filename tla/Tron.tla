---------------------------------- MODULE Tron ----------------------------------
(***************************************************************************)
(* The game tron (Userland/shell/commands/tron_game.c, tron2/): two        *)
(* players leave a trail on a grid and who runs into a trail or the border *)
(* loses the round; three points end a match.  Player 2 is the program in  *)
(* single mode.  A tick is one step; drawing and the length of a tick are  *)
(* left out, and whether the program swerves at a tick (its counter and    *)
(* the clock decide) is left open.                                         *)
(***************************************************************************)
EXTENDS Integers, FiniteSets

CONSTANTS
  Cols, Rows,      \* the cells of the board
  MatchPoints,     \* 3
  MaxLevel,        \* 99
  MaxMatches       \* bound of the model: matches of one start

ASSUME TronAssumption ==
  /\ Cols \in 4..128 /\ Rows \in 1..128 /\ MatchPoints \in Nat \ {0}
  /\ MaxLevel \in Nat \ {0} /\ MaxMatches \in Nat

Single == 1
Coop   == 2

VARIABLES
  at,        \* "menu", "round", "pause", "end", "over": where startGame stands
  game_mode,
  level,
  score,     \* of player 1 and player 2
  occ,       \* the occupied cells
  player,    \* col, row, dx, dy of each
  intent,    \* p1_Intent and p2_Intent
  matches    \* what is left of the bound

tronvars == <<at, game_mode, level, score, occ, player, intent, matches>>

Players == {1, 2}
Dirs == {<<0, -1>>, <<0, 1>>, <<-1, 0>>, <<1, 0>>}
Opposite(d) == <<-d[1], -d[2]>>
DirLeft(d)  == <<d[2], -d[1]>>
DirRight(d) == <<-d[2], d[1]>>
Abs(x) == IF x < 0 THEN -x ELSE x

\* Coordinates are 16 bits: one to the left of 0 is beyond the board.
NextCell(p, d) == <<(p.cell[1] + d[1]) % 65536, (p.cell[2] + d[2]) % 65536>>
GridContains(c) == c[1] < Cols /\ c[2] < Rows

\* occ is one row of bytes; O is the set of places that hold a 1.
OccIdx(c) == c[2] * Cols + c[1]
OccGet(O, c) == GridContains(c) /\ OccIdx(c) \in O
OccSet(O, c) == IF GridContains(c) THEN O \cup {OccIdx(c)} ELSE O
MapInit == {}
MapFree(O) == O \ {OccIdx(<<col, row>>) : col \in 0..(Cols - 1), row \in 0..(Rows - 1)}

CellIsFree(c) == GridContains(c) /\ ~OccGet(occ, c)

\* The spawns, the first intents and the cells they take.
Spawned ==
  <<[cell |-> <<Cols \div 4, Rows \div 2>>, dir |-> <<1, 0>>],
    [cell |-> <<(3 * Cols) \div 4, Rows \div 2>>, dir |-> <<-1, 0>>]>>
SpawnIntents == <<Spawned[1].dir, Spawned[2].dir>>
SpawnCells(O) == OccSet(OccSet(O, Spawned[1].cell), Spawned[2].cell)
NewRound(O) == player' = Spawned /\ intent' = SpawnIntents /\ occ' = SpawnCells(O)

TronInit ==
  /\ at = "menu" /\ game_mode = 0 /\ level = 1
  /\ score = <<0, 0>>
  /\ player = Spawned /\ intent = SpawnIntents /\ occ = SpawnCells(MapInit)
  /\ matches = MaxMatches

\* tron_setup_match and the start of play_Game.
StartMatch ==
  /\ matches > 0 /\ matches' = matches - 1
  /\ at' = "round" /\ score' = <<0, 0>>
  /\ NewRound(MapInit)

StartGame(m) ==
  /\ at = "menu"
  /\ game_mode' = m /\ level' = 1
  /\ StartMatch

ExitMenu ==
  /\ at = "menu"
  /\ at' = "over"
  /\ UNCHANGED <<game_mode, level, score, occ, player, intent, matches>>

-----------------------------------------------------------------------------
(* The bot: ai_choose_dir_simple and ai_choose_dir_track.  The directions  *)
(* it tries in order; it takes the first whose cell is free, and otherwise *)
(* keeps its intent.                                                       *)

FirstFree(p, seq, otherwise) ==
  LET Free == {k \in DOMAIN seq : CellIsFree(NextCell(p, seq[k]))} IN
  IF Free = {} THEN otherwise ELSE seq[CHOOSE k \in Free : \A j \in Free : k <= j]

\* Mutant: it never looks to its right.
SimpleNoRight(p) == <<p.dir, DirLeft(p.dir)>>
SimpleFlow(p) == <<p.dir, DirLeft(p.dir), DirRight(p.dir)>>

\* ai_jitter3_simple tries the one the clock picks, 0 when it is not its turn.
Jitter(p, pick) ==
  CASE pick = 0 -> <<>>
    [] pick = 1 -> <<p.dir>>
    [] pick = 2 -> <<DirLeft(p.dir)>>
    [] pick = 3 -> <<DirRight(p.dir)>>
ChooseDirSimple(p, pick, otherwise) ==
  FirstFree(p, Jitter(p, pick), FirstFree(p, SimpleFlow(p), otherwise))

\* Towards the target, along the longer distance first.
Towards(dc, dr) ==
  LET horizontal == IF dc > 0 THEN <<<<1, 0>>>> ELSE IF dc < 0 THEN <<<<-1, 0>>>> ELSE <<>>
      vertical   == IF dr > 0 THEN <<<<0, 1>>>> ELSE IF dr < 0 THEN <<<<0, -1>>>> ELSE <<>>
      Join(s, t) == [k \in 1..(Cardinality(DOMAIN s) + Cardinality(DOMAIN t)) |->
                       IF k \in DOMAIN s THEN s[k] ELSE t[k - Cardinality(DOMAIN s)]]
  IN IF Abs(dc) >= Abs(dr) THEN Join(horizontal, vertical) ELSE Join(vertical, horizontal)
ChooseDirTrack(p, target, pick, otherwise) ==
  FirstFree(p, Towards(target.cell[1] - p.cell[1], target.cell[2] - p.cell[2]),
    FirstFree(p, <<p.dir>>, ChooseDirSimple(p, pick, otherwise)))

BotIntent(pick) ==
  IF level >= 2 THEN ChooseDirTrack(player[2], player[1], pick, intent[2])
                ELSE ChooseDirSimple(player[2], pick, intent[2])

-----------------------------------------------------------------------------
(* A tick of play_Game: player 2 moves before player 1.                    *)

\* player_set_dir: no player turns back.
Turned(p, d) == [p EXCEPT !.dir = IF d = Opposite(p.dir) THEN p.dir ELSE d]
\* player_step_and_paint.
Survives(p, O) == LET c == NextCell(p, p.dir) IN GridContains(c) /\ ~OccGet(O, c)
Stepped(p, O) == IF Survives(p, O) THEN [p EXCEPT !.cell = NextCell(p, p.dir)] ELSE p
Painted(p, O) ==
  IF Survives(p, O) THEN OccSet(O, Stepped(p, O).cell) ELSE O

\* Who dies gives the other one a point, in a head-on crash both get one; the
\* board is cleared between rounds.
Points(lives) == <<IF lives[2] THEN 0 ELSE 1, IF lives[1] THEN 0 ELSE 1>>
RoundOver(lives) ==
  /\ score' = <<score[1] + Points(lives)[1], score[2] + Points(lives)[2]>>
  /\ at' = IF \E i \in Players : score'[i] = MatchPoints THEN "end" ELSE "pause"
  /\ NewRound(MapFree(occ))
Tick(d1, d2) ==
  /\ at = "round"
  /\ \E p1 \in {Turned(player[1], d1)}, p2 \in {Turned(player[2], d2)} :
     LET occ2  == Painted(p2, occ)
         lives == <<Survives(p1, occ2), Survives(p2, occ)>>
     IN IF lives = <<TRUE, TRUE>>
          THEN /\ player' = <<Stepped(p1, occ2), Stepped(p2, occ)>>
               /\ intent' = <<d1, d2>>
               /\ occ' = Painted(p1, occ2)
               /\ UNCHANGED <<at, score>>
          ELSE RoundOver(lives)
  /\ UNCHANGED <<game_mode, level, matches>>

\* The last key of a player in the batch, or the intent there was.
Keyed(i) == Dirs \cup {intent[i]}
SingleTick(d1, pick) == game_mode = Single /\ \E d2 \in {BotIntent(pick)} : Tick(d1, d2)
CoopTick(d1, d2)    == game_mode = Coop /\ Tick(d1, d2)
Ticks ==
  \/ \E d1 \in Keyed(1), pick \in 0..3 : SingleTick(d1, pick)
  \/ \E d1 \in Keyed(1), d2 \in Keyed(2) : CoopTick(d1, d2)

AnyKey ==
  /\ at = "pause"
  /\ at' = "round"
  /\ UNCHANGED <<game_mode, level, score, occ, player, intent, matches>>

-----------------------------------------------------------------------------
(* The end menu.                                                           *)

NextLevel ==
  IF game_mode = Single /\ score[1] = MatchPoints /\ score[2] < MatchPoints /\ level < MaxLevel
    THEN level + 1 ELSE level
ContinuePlaying ==
  /\ at = "end"
  /\ level' = NextLevel
  /\ StartMatch
  /\ UNCHANGED game_mode

ReturnToMenu ==
  /\ at = "end"
  /\ at' = "menu" /\ game_mode' = 0 /\ level' = 1 /\ score' = <<0, 0>>
  /\ UNCHANGED <<occ, player, intent, matches>>

ExitGame ==
  /\ at = "end"
  /\ at' = "over"
  /\ UNCHANGED <<game_mode, level, score, occ, player, intent, matches>>

\* What the menus return for the keys they know; they wait until one comes.
MenuKeys == {"a", "b", "enter"}
MenuChoice(ch) == CASE ch = "a" -> 1 [] ch = "b" -> 2 [] ch = "enter" -> 0

ShowStartMenu(ch) ==
  \/ MenuChoice(ch) = 0 /\ ExitMenu
  \/ MenuChoice(ch) \in {Single, Coop} /\ StartGame(MenuChoice(ch))
ShowEndMenu(ch) ==
  \/ MenuChoice(ch) = 2 /\ ContinuePlaying
  \/ MenuChoice(ch) = 1 /\ ReturnToMenu
  \/ MenuChoice(ch) = 0 /\ ExitGame

TronNext ==
  \/ Ticks \/ AnyKey
  \/ \E ch \in MenuKeys : ShowStartMenu(ch) \/ ShowEndMenu(ch)

TronSpec == TronInit /\ [][TronNext]_tronvars

-----------------------------------------------------------------------------
\* The program loses a round only where it could not have gone on: no cell
\* ahead, to its left or to its right was free, whatever the clock picked and
\* wherever the player was.
BotSurvives ==
  [][at = "round" /\ game_mode = Single /\ score'[1] > score[1] =>
       \A d \in {player[2].dir, DirLeft(player[2].dir), DirRight(player[2].dir)} :
         ~CellIsFree(NextCell(player[2], d))]_tronvars
=============================================================================
