------------------------------ MODULE MCApply ------------------------------
(***************************************************************************)
(* Three releases in two waves, the file's order against the waves'; a     *)
(* file, an edit of two releases' files and a second team's file that      *)
(* claims one of its releases.                                             *)
(***************************************************************************)
EXTENDS Apply, TLC

CONSTANTS plain, old, new, prod, team

MCWave == <<1, 0, 0>>

Base    == [manifest |-> plain, files |-> old]
Refiled == [manifest |-> plain, files |-> new]

MCContents == {Base, Refiled}

MCDeployed == {Base}

MCFiles ==
  {[owner |-> prod, want |-> <<Base, Base, Base>>],
   [owner |-> prod, want |-> <<Refiled, Refiled, Base>>],
   [owner |-> team, want |-> (2 :> Base)]}
=============================================================================
