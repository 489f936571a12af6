-------------------------------- MODULE Userland --------------------------------
(***************************************************************************)
(* The parts of user space, and of the kernel's input, that share nothing  *)
(* the models of them keep: the first state says which one is looked at,   *)
(* and the others stand still.                                             *)
(***************************************************************************)
EXTENDS TestSync, TestPrio, Mvar, Keyboard, CommandLine, Shell, PipePrograms, Tron,
        Console, Speaker

VARIABLE part

uservars == <<part, syncvars, priovars, mvarvars, kbdvars, line, shellvars, progvars, tronvars,
              convars, speakervars>>

Parts == {"sync", "prio", "mvar", "keyboard", "line", "shell", "programs", "tron",
          "console", "speaker"}

UserInit ==
  /\ part \in Parts
  /\ SyncInit /\ PrioInit /\ MvarInit /\ KbdInit /\ LineInit /\ ShellInit /\ TronInit
  /\ ConInit /\ SpeakerInit
  /\ ProgInit
  /\ part # "programs" => program = "cat" /\ stream = <<>>

Only(p) ==
  /\ part = p /\ part' = p
  /\ p # "sync"     => UNCHANGED syncvars
  /\ p # "prio"     => UNCHANGED priovars
  /\ p # "mvar"     => UNCHANGED mvarvars
  /\ p # "keyboard" => UNCHANGED kbdvars
  /\ p # "line"     => UNCHANGED line
  /\ p # "shell"    => UNCHANGED shellvars
  /\ p # "programs" => UNCHANGED progvars
  /\ p # "tron"     => UNCHANGED tronvars
  /\ p # "console"  => UNCHANGED convars
  /\ p # "speaker"  => UNCHANGED speakervars

UserNext ==
  \/ Only("sync")     /\ SyncNext
  \/ Only("prio")     /\ PrioNext
  \/ Only("mvar")     /\ MvarNext
  \/ Only("keyboard") /\ KbdNext
  \/ Only("line")     /\ LineNext
  \/ Only("shell")    /\ ShellNext
  \/ Only("programs") /\ ProgNext
  \/ Only("tron")     /\ TronNext
  \/ Only("console")  /\ ConNext
  \/ Only("speaker")  /\ SpeakerNext

\* The fairness each part states, one formula for those that ask for one step:
\* no two of them can be enabled in the same state.
UserFairness ==
  /\ WF_uservars(\/ Only("sync")  /\ SyncSystem
                 \/ Only("prio")  /\ PrioSystem
                 \/ Only("shell") /\ ShellSystem)
  /\ \A p \in MvarProcs : WF_uservars(Only("mvar") /\ PartyStep(p))

UserSpec == UserInit /\ [][UserNext]_uservars /\ UserFairness
=============================================================================
