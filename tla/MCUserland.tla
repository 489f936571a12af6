------------------------------- MODULE MCUserland -------------------------------
(***************************************************************************)
(* An instance of Userland for TLC.                                        *)
(***************************************************************************)
EXTENDS Userland

\* What other processes print, as a set of strings.
OutputStrings == {<<"x">>, <<"x", NL>>}

\* mvar 2 1, mvar 1 1, and numbers out of range on both sides.
MvarRuns == {[writers |-> 2, readers |-> 1], [writers |-> 1, readers |-> 1],
             [writers |-> 0, readers |-> 3]}
=============================================================================
