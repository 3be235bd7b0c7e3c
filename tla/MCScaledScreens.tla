-------------------------- MODULE MCScaledScreens --------------------------
(* Instances of ScaledScreens for TLC.                                     *)
EXTENDS ScaledScreens

\* Orientations are interchangeable; used in safety runs only.
ScalingSymmetry == Permutations(Orientations)

\* So are viewers.
PairSymmetry == Permutations(Viewers)
=============================================================================
