----------------------------- MODULE MCRotation -----------------------------
(* Instances of Rotation for TLC.                                          *)
EXTENDS Rotation

\* Every command line of up to four of these words.
MCCommands ==
  BoundedSeq({"-r", "-o", "-z", "-P", "portrait", "landscape", "deg90", "deg45"}, 4)
=============================================================================
