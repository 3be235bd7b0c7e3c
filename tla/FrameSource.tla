----------------------------- MODULE FrameSource -----------------------------
(***************************************************************************)
(* What the capture loop makes of minicap, its callbacks and the count of  *)
(* FrameWaiter: a source that owes main frames of one orientation and      *)
(* lends them one at a time.  Every frame it announced is lent or fails,   *)
(* once; the frames of an orientation are forgotten together, with none    *)
(* lent.                                                                   *)
(***************************************************************************)
EXTENDS Naturals

CONSTANT Orientations

VARIABLES
  due,    \* frames announced, neither lent nor failed
  left,   \* frames that failed: they stay queued
  lent,   \* main holds a frame
  turn    \* the orientation of the frames

Init == due = 0 /\ left = 0 /\ lent = FALSE /\ turn \in Orientations

Announce ==
  /\ due' = due + 1
  /\ UNCHANGED <<left, lent, turn>>

Lend ==
  /\ due > 0 /\ ~lent
  /\ due' = due - 1 /\ lent' = TRUE
  /\ UNCHANGED <<left, turn>>

Fail ==
  /\ due > 0 /\ ~lent
  /\ due' = due - 1 /\ left' = left + 1
  /\ UNCHANGED <<lent, turn>>

GiveBack ==
  /\ lent
  /\ lent' = FALSE
  /\ UNCHANGED <<due, left, turn>>

Replace ==
  /\ ~lent
  /\ due' = 0 /\ left' = 0 /\ turn' \in Orientations
  /\ UNCHANGED lent

Next == Announce \/ Lend \/ Fail \/ GiveBack \/ Replace

Spec == Init /\ [][Next]_<<due, left, lent, turn>>
=============================================================================
