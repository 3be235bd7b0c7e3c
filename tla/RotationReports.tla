-------------------------- MODULE RotationReports --------------------------
(***************************************************************************)
(* What the server relies on the rotation watcher for: the rotations are   *)
(* seen as they were reported, each once and in order.                     *)
(***************************************************************************)
EXTENDS Sequences

CONSTANT Rotations

VARIABLES
  reports,  \* reported and not seen yet, oldest first
  seen      \* the rotation last seen

Init == reports = <<>> /\ seen \in Rotations

Report ==
  /\ \E r \in Rotations : reports' = Append(reports, r)
  /\ UNCHANGED seen

See ==
  /\ reports # <<>>
  /\ seen' = Head(reports) /\ reports' = Tail(reports)

Next == Report \/ See

Spec == Init /\ [][Next]_<<reports, seen>>
=============================================================================
