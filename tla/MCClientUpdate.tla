--------------------------- MODULE MCClientUpdate ---------------------------
(* Instances of ClientUpdate for TLC.                                      *)
EXTENDS ClientUpdate, TLC

CONSTANTS portrait, landscape   \* the two dimensions of the display

\* The display turns back and forth, without end.
AnyTurn == {<<portrait, landscape>>, <<landscape, portrait>>}

\* The display turns once and then rests, or never turns.
OneTurn == {<<portrait, landscape>>}

\* The display never turns.
NoTurn == {}

\* Tiles are interchangeable, and so are dimensions under AnyTurn; used in the
\* safety run only.
UpdateSymmetry == Permutations(Tiles) \cup Permutations(Sizes)
=============================================================================
