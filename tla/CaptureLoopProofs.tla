-------------------------- MODULE CaptureLoopProofs --------------------------
(***************************************************************************)
(* Proofs about CaptureLoop, for any queue length, any number of failures  *)
(* and any set of orientations.                                            *)
(***************************************************************************)
EXTENDS CaptureLoop, TLAPS

\* What main is about, given where it stands, and which objects exist then.
Control ==
  /\ listener = (pc \notin {"free", "delete", "create"})
  /\ mStopped = TRUE => pc \in {"free", "delete", "create"}
  /\ waiter = (pc # "create")
  /\ calling = TRUE => waiter = TRUE
  /\ pc \in {"delete", "create"} => calling = FALSE /\ queue = 0
  /\ held = TRUE => pc \in {"draw", "release"}
  /\ pc = "draw" /\ mode # "first" => held = TRUE
  /\ pc = "rotation" \/ pc = "skip" => mode = "loop"
  /\ pc = "wait" => mode \in {"startup", "first", "loop"}
  /\ pc \in {"unlisten", "free", "delete"} => mode = "loop"
  /\ pc = "create" => mode \in {"startup", "first"}
  /\ pc \in {"consume", "draw", "release"} => mode # "loop"
  /\ pc = "more" => mode = "drain"
  /\ pc = "draw" => mode # "skip"
  /\ pc \in {"consume", "release"} /\ mode = "skip" => pending >= 1
  /\ pc = "skip" => pending > 1 /\ mPendingFrames >= pending - 1
  /\ pc \notin {"unlisten", "free", "delete", "create"} => configured = screenRotation

USE OrientationsAssumption, QueueAssumption, FailuresAssumption, NoReportAssumption
    DEF NoReport

\* The counts stay natural numbers: main never takes more frames off the count
\* than the callbacks put on it.
LEMMA ControlHolds == Spec => [](TypeOK /\ Control)
<1>1. Init => TypeOK /\ Control
  <2> SUFFICES ASSUME Init PROVE TypeOK /\ Control
    OBVIOUS
  <2>1. held \in BOOLEAN /\ waiter \in BOOLEAN /\ mStopped \in BOOLEAN
        /\ listener \in BOOLEAN /\ calling \in BOOLEAN
    BY Zenon DEF Init
  <2> QED
    BY <2>1 DEF Init, TypeOK, Control
<1>2. TypeOK /\ Control /\ [Next]_vars => TypeOK' /\ Control'
  <2> SUFFICES ASSUME TypeOK, Control, [Next]_vars PROVE TypeOK' /\ Control'
    OBVIOUS
  <2> USE DEF TypeOK, Control, waiterVars, minicapVars
  <2>1. CASE RotationChanged
    BY <2>1 DEF RotationChanged
  <2>2. CASE NoRotation
    BY <2>2 DEF NoRotation
  <2>3. CASE StopListening
    BY <2>3 DEF StopListening
  <2>4. CASE FreeMinicap
    BY <2>4 DEF FreeMinicap
  <2>5. CASE DeleteWaiter
    BY <2>5 DEF DeleteWaiter
  <2>6. CASE CreateMinicap
    <3>1. mStopped' \in BOOLEAN /\ listener' \in BOOLEAN /\ waiter' \in BOOLEAN
      BY <2>6, Zenon DEF CreateMinicap
    <3>2. TypeOK'
      BY <2>6, <3>1 DEF CreateMinicap
    <3>3. Control'
      BY <2>6, <3>1 DEF CreateMinicap
    <3> QED
      BY <3>2, <3>3
  <2>7. CASE WaitForFrame
    BY <2>7 DEF WaitForFrame
  <2>8. CASE ReportExtraConsumption
    BY <2>8 DEF ReportExtraConsumption
  <2>9. CASE ConsumeFrame
    BY <2>9 DEF ConsumeFrame
  <2>10. CASE ConsumeFails
    BY <2>10 DEF ConsumeFails
  <2>11. CASE UpdateScreen
    BY <2>11 DEF UpdateScreen
  <2>12. CASE ReleaseFrame
    <3>1. held' \in BOOLEAN
      BY <2>12, Zenon DEF ReleaseFrame, Released
    <3> QED
      BY <2>12, <3>1 DEF ReleaseFrame, Released
  <2>13. CASE MoreFrames
    BY <2>13 DEF MoreFrames
  <2>14. CASE NoMoreFrames
    BY <2>14 DEF NoMoreFrames
  <2>15. CASE QueueFrame
    BY <2>15 DEF QueueFrame
  <2>16. CASE OnFrameAvailable
    <3>1. calling' \in BOOLEAN
      BY <2>16, Zenon DEF OnFrameAvailable
    <3> QED
      BY <2>16, <3>1 DEF OnFrameAvailable
  <2>17. CASE ReportRotation
    BY <2>17 DEF ReportRotation
  <2>18. CASE UNCHANGED vars
    BY <2>18 DEF vars
  <2> HIDE DEF TypeOK, Control, waiterVars, minicapVars
  <2> QED
    BY <2>1, <2>2, <2>3, <2>4, <2>5, <2>6, <2>7, <2>8, <2>9, <2>10,
       <2>11, <2>12, <2>13, <2>14, <2>15, <2>16, <2>17, <2>18 DEF Next,
       Main
<1> QED
  BY <1>1, <1>2, PTL DEF Spec

\* The types of CaptureLoop: in particular the count of FrameWaiter never
\* becomes negative, whatever main reports as extra consumption.
THEOREM CountsAreNatural == Spec => []TypeOK
BY ControlHolds, PTL

\* Every frame minicap announced is consumed once: FrameWaiter's count, main's
\* skip and drain loops and the callbacks agree on what is queued.
THEOREM FramesAreAccounted == Spec => []FramesAccounted
<1>1. Init => FramesAccounted
  BY DEF Init, FramesAccounted
<1>2. TypeOK /\ Control /\ FramesAccounted /\ [Next]_vars => FramesAccounted'
  <2> SUFFICES ASSUME TypeOK, Control, FramesAccounted, [Next]_vars
               PROVE  FramesAccounted'
    OBVIOUS
  <2> USE DEF TypeOK, Control, FramesAccounted, Announced, Owed, waiterVars, minicapVars
  <2>1. CASE RotationChanged
    BY <2>1 DEF RotationChanged
  <2>2. CASE NoRotation
    BY <2>2 DEF NoRotation
  <2>3. CASE StopListening
    BY <2>3 DEF StopListening
  <2>4. CASE FreeMinicap
    BY <2>4 DEF FreeMinicap
  <2>5. CASE DeleteWaiter
    BY <2>5 DEF DeleteWaiter
  <2>6. CASE CreateMinicap
    BY <2>6 DEF CreateMinicap
  <2>7. CASE WaitForFrame
    BY <2>7 DEF WaitForFrame
  <2>8. CASE ReportExtraConsumption
    BY <2>8 DEF ReportExtraConsumption
  <2>9. CASE ConsumeFrame
    BY <2>9 DEF ConsumeFrame
  <2>10. CASE ConsumeFails
    BY <2>10 DEF ConsumeFails
  <2>11. CASE UpdateScreen
    BY <2>11 DEF UpdateScreen
  <2>12. CASE ReleaseFrame
    BY <2>12 DEF ReleaseFrame, Released
  <2>13. CASE MoreFrames
    BY <2>13 DEF MoreFrames
  <2>14. CASE NoMoreFrames
    BY <2>14 DEF NoMoreFrames
  <2>15. CASE QueueFrame
    BY <2>15 DEF QueueFrame
  <2>16. CASE OnFrameAvailable
    BY <2>16 DEF OnFrameAvailable
  <2>17. CASE ReportRotation
    BY <2>17 DEF ReportRotation
  <2>18. CASE UNCHANGED vars
    BY <2>18 DEF vars
  <2> HIDE DEF TypeOK, Control, FramesAccounted, Announced, Owed, waiterVars, minicapVars
  <2> QED
    BY <2>1, <2>2, <2>3, <2>4, <2>5, <2>6, <2>7, <2>8, <2>9, <2>10,
       <2>11, <2>12, <2>13, <2>14, <2>15, <2>16, <2>17, <2>18 DEF Next,
       Main
<1> QED
  BY ControlHolds, <1>1, <1>2, PTL DEF Spec

\* Main never asks minicap for a frame it does not have, nor for a second one
\* while it holds a first.
THEOREM ConsumptionFindsAFrame == Spec => []FrameToConsume
<1>1. TypeOK /\ Control /\ FramesAccounted => FrameToConsume
  <2> SUFFICES ASSUME TypeOK, Control, FramesAccounted, pc = "consume"
               PROVE  queue > 0 /\ ~held
    BY DEF FrameToConsume
  <2>1. ~held
    BY DEF TypeOK, Control
  <2>2. queue > 0
    <3>1. listener
      BY DEF Control
    <3>5. Owed > 0
      BY DEF TypeOK, Control, Owed
    <3>2. Owed \in Nat
      BY DEF TypeOK, Control, Owed
    <3> DEFINE announced == IF calling THEN 1 ELSE 0
    <3>3. announced \in Nat
      OBVIOUS
    <3>4. queue = mPendingFrames + announced + Owed + failed
      BY <3>1 DEF FramesAccounted, Announced
    <3> HIDE DEF announced
    <3> QED
      BY <3>2, <3>3, <3>4, <3>5 DEF TypeOK
  <2> QED
    BY <2>1, <2>2
<1> QED
  BY ControlHolds, FramesAreAccounted, <1>1, PTL

\* What update_screen draws in the loop is a frame main holds, turned the way
\* it was computed for.
THEOREM DrawingReadsAFrame == Spec => []DrawsHeldFrame
<1>1. Control => DrawsHeldFrame
  BY DEF Control, DrawsHeldFrame
<1> QED
  BY ControlHolds, <1>1, PTL

\* The order of the teardown keeps callbacks off the deleted FrameWaiter.
THEOREM WaiterOutlivesCallbacks == Spec => []WaiterLives
<1>1. Control => WaiterLives
  BY DEF Control, WaiterLives
<1> QED
  BY ControlHolds, <1>1, PTL

-----------------------------------------------------------------------------
(* The refinement.                                                         *)

SourceDue  == IF listener THEN Announced ELSE 0
SourceLeft == IF listener THEN failed ELSE 0
sourceVars == <<SourceDue, SourceLeft, held, configured>>

\* The capture loop implements FrameSource: what FrameWaiter counts, what its
\* callbacks are about to count and what main has taken off the count are
\* together a queue of announced frames that main empties one by one
\* (droidvncserver.cpp:1065).
THEOREM LoopImplementsSource == Spec => SourceSpec
<1>1. Init => Source!Init
  BY DEF Init, Source!Init
<1>2. TypeOK /\ Control /\ FrameToConsume /\ [Next]_vars => [Source!Next]_sourceVars
  <2> SUFFICES ASSUME TypeOK, Control, FrameToConsume, [Next]_vars
               PROVE  Source!Next \/ UNCHANGED sourceVars
    OBVIOUS
  <2> USE DEF TypeOK, Control, Announced, Owed, SourceDue, SourceLeft, sourceVars,
              waiterVars, minicapVars
  <2>1. ASSUME RotationChanged PROVE UNCHANGED sourceVars
    BY <2>1 DEF RotationChanged
  <2>2. ASSUME NoRotation PROVE UNCHANGED sourceVars
    BY <2>2 DEF NoRotation
  <2>3. ASSUME StopListening PROVE Source!Replace
    BY <2>3 DEF StopListening, Source!Replace
  <2>4. ASSUME FreeMinicap PROVE UNCHANGED sourceVars
    BY <2>4 DEF FreeMinicap
  <2>5. ASSUME DeleteWaiter PROVE UNCHANGED sourceVars
    BY <2>5 DEF DeleteWaiter
  <2>6. ASSUME CreateMinicap PROVE Source!Replace
    BY <2>6 DEF CreateMinicap, Source!Replace
  <2>7. ASSUME WaitForFrame PROVE UNCHANGED sourceVars
    BY <2>7 DEF WaitForFrame
  <2>8. ASSUME ReportExtraConsumption PROVE UNCHANGED sourceVars
    BY <2>8 DEF ReportExtraConsumption
  <2>9. ASSUME ConsumeFrame PROVE Source!Lend
    <3>1. listener /\ listener' = listener /\ ~held /\ held' = TRUE
      BY <2>9 DEF ConsumeFrame
    <3>2. PICK n \in Nat : Owed = n + 1 /\ Owed' = n
      BY <2>9 DEF ConsumeFrame
    <3>3. PICK k \in {0, 1} : k = IF calling THEN 1 ELSE 0
      OBVIOUS
    <3>4. /\ UNCHANGED <<mPendingFrames, calling, failed, configured>>
          /\ mPendingFrames \in Nat
      BY <2>9 DEF ConsumeFrame
    <3>5. SourceDue = mPendingFrames + k + (n + 1) /\ SourceLeft = failed
      BY <3>1, <3>2, <3>3
    <3>6. SourceDue' = mPendingFrames + k + n /\ SourceLeft' = failed
      BY <3>1, <3>2, <3>3, <3>4
    <3>7. /\ SourceDue > 0 /\ SourceDue' = SourceDue - 1
          /\ SourceLeft' = SourceLeft /\ configured' = configured
      <4> HIDE DEF SourceDue, SourceLeft
      <4> QED
        BY <3>4, <3>5, <3>6
    <3> QED
      BY <3>1, <3>7, Zenon DEF Source!Lend, SourceDue, SourceLeft
  <2>10. ASSUME ConsumeFails PROVE Source!Fail
    <3>1. listener /\ listener' = listener /\ ~held /\ held' = held /\ queue > 0
      BY <2>10 DEF ConsumeFails, FrameToConsume
    <3>2. Owed \in Nat /\ Owed' \in Nat /\ Owed = Owed' + 1
      BY <2>10 DEF ConsumeFails
    <3>3. /\ SourceDue > 0 /\ SourceDue' = SourceDue - 1
          /\ SourceLeft' = SourceLeft + 1 /\ UNCHANGED configured
      <4> HIDE DEF Owed
      <4> QED
        BY <2>10, <3>1, <3>2 DEF ConsumeFails
    <3> QED
      BY <3>1, <3>3, Zenon DEF Source!Fail, SourceDue, SourceLeft
  <2>11. ASSUME UpdateScreen PROVE UNCHANGED sourceVars
    BY <2>11 DEF UpdateScreen
  <2>12. ASSUME ReleaseFrame PROVE Source!GiveBack \/ UNCHANGED sourceVars
    <3>1. listener /\ listener' = listener /\ held' = FALSE
      BY <2>12 DEF ReleaseFrame, Released
    <3>2. Owed' = Owed
      BY <2>12 DEF ReleaseFrame, Released
    <3>3. UNCHANGED <<SourceDue, SourceLeft, configured>>
      <4> HIDE DEF Owed
      <4> QED
        BY <2>12, <3>1, <3>2 DEF ReleaseFrame
    <3>4. held = TRUE \/ held = FALSE
      OBVIOUS
    <3> QED
      BY <3>1, <3>3, <3>4, Zenon DEF Source!GiveBack, SourceDue, SourceLeft, sourceVars
  <2>13. ASSUME MoreFrames PROVE UNCHANGED sourceVars
    BY <2>13 DEF MoreFrames
  <2>14. ASSUME NoMoreFrames PROVE UNCHANGED sourceVars
    BY <2>14 DEF NoMoreFrames
  <2>15. ASSUME QueueFrame PROVE Source!Announce \/ UNCHANGED sourceVars
    BY <2>15 DEF QueueFrame, Source!Announce
  <2>16. ASSUME OnFrameAvailable PROVE UNCHANGED sourceVars
    BY <2>16 DEF OnFrameAvailable
  <2>17. ASSUME ReportRotation PROVE UNCHANGED sourceVars
    BY <2>17 DEF ReportRotation
  <2>18. ASSUME UNCHANGED vars PROVE UNCHANGED sourceVars
    BY <2>18 DEF vars
  <2> HIDE DEF TypeOK, Control, Announced, Owed, SourceDue, SourceLeft, sourceVars,
               waiterVars, minicapVars
  <2> QED
    BY <2>1, <2>2, <2>3, <2>4, <2>5, <2>6, <2>7, <2>8, <2>9, <2>10, <2>11, <2>12,
       <2>13, <2>14, <2>15, <2>16, <2>17, <2>18 DEF Next, Main, Source!Next
<1> QED
  BY ControlHolds, ConsumptionFindsAFrame, <1>1, <1>2, PTL
     DEF Spec, SourceSpec, Source!Spec, sourceVars, SourceDue, SourceLeft
=============================================================================
