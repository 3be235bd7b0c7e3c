----------------------------- MODULE CaptureLoop -----------------------------
(***************************************************************************)
(* The capture loop of droidvncserver.cpp: main, its FrameWaiter and the   *)
(* minicap instance it replaces at every rotation.                         *)
(*                                                                         *)
(* minicap is external.  As the loop uses it: an instance queues frames of *)
(* the orientation it was configured with, calls onFrameAvailable of its   *)
(* listener once for each, on a thread of its own and one at a time;       *)
(* consumePendingFrame hands out the oldest queued frame or fails and      *)
(* leaves the queue alone; minicap_free returns once no callback runs.     *)
(***************************************************************************)
EXTENDS Integers

CONSTANTS
  Orientations,  \* rotations the rotation watcher reports
  MaxQueue,      \* bound: frames minicap keeps queued
  MaxFailures    \* bound: failed consumptions of an instance's frames

ASSUME OrientationsAssumption == Orientations # {}
ASSUME QueueAssumption == MaxQueue \in Nat
ASSUME FailuresAssumption == MaxFailures \in Nat

NoReport == "none"
ASSUME NoReportAssumption == NoReport \notin Orientations

VARIABLES
  \* main
  pc,
  mode,            \* which consumption of the loop main is about
  skipFrames,      \* option -f
  pending,
  screenRotation,  \* imageRotation is computed from it at once
  held,            \* a consumed frame has not been released
  \* FrameWaiter
  waiter,          \* gWaiter points to a live object
  mPendingFrames, mStopped,
  \* minicap
  listener,        \* gWaiter is set as its listener
  queue,           \* frames queued
  calling,         \* it is about to call onFrameAvailable
  configured,      \* orientation of its frames
  failed,          \* consumptions of this instance that failed
  \* rotation watcher
  reported         \* the last rotation in its pipe, not read yet

waiterVars  == <<waiter, mPendingFrames, mStopped>>
minicapVars == <<listener, queue, calling, configured>>
vars == <<pc, mode, skipFrames, pending, screenRotation, held, waiterVars,
          minicapVars, failed, reported>>

\* The first rotation report has been read, no minicap instance runs yet.
Init ==
  /\ pc = "create" /\ mode = "startup" /\ skipFrames \in BOOLEAN
  /\ pending = 0 /\ held = FALSE
  /\ screenRotation \in Orientations
  /\ waiter = FALSE /\ mPendingFrames = 0 /\ mStopped = FALSE
  /\ listener = FALSE /\ queue = 0 /\ calling = FALSE /\ failed = 0
  /\ configured = screenRotation
  /\ reported = NoReport

-----------------------------------------------------------------------------
(* minicap and the rotation watcher.                                       *)

\* minicap queues a frame and, if it has a listener, prepares to call it.
QueueFrame ==
  /\ pc \notin {"delete", "create", "exit"}
  /\ ~calling /\ queue < MaxQueue
  /\ queue' = queue + 1 /\ calling' = listener
  /\ UNCHANGED <<pc, mode, skipFrames, pending, screenRotation, held, waiterVars,
                 listener, configured, failed, reported>>

\* Mutant of OnFrameAvailable: a flag instead of a counter.
OnFrameAvailableFlag ==
  /\ calling
  /\ calling' = FALSE
  /\ mPendingFrames' = 1
  /\ UNCHANGED <<pc, mode, skipFrames, pending, screenRotation, held, waiter,
                 mStopped, listener, queue, configured, failed, reported>>

\* FrameWaiter::onFrameAvailable, under its mutex.
OnFrameAvailable ==
  /\ calling
  /\ calling' = FALSE
  /\ mPendingFrames' = mPendingFrames + 1
  /\ UNCHANGED <<pc, mode, skipFrames, pending, screenRotation, held, waiter,
                 mStopped, listener, queue, configured, failed, reported>>

ReportRotation ==
  /\ reported' \in Orientations
  /\ UNCHANGED <<pc, mode, skipFrames, pending, screenRotation, held, waiterVars,
                 minicapVars, failed>>

-----------------------------------------------------------------------------
(* A rotation: the instance and its waiter are replaced.                   *)

\* check_rotation_change returns the last rotation of the pipe.
RotationChanged ==
  /\ pc = "rotation" /\ reported # NoReport
  /\ screenRotation' = reported /\ reported' = NoReport
  /\ pc' = "unlisten"
  /\ UNCHANGED <<mode, skipFrames, pending, held, waiterVars, minicapVars, failed>>

NoRotation ==
  /\ pc = "rotation" /\ reported = NoReport
  /\ pc' = "wait"
  /\ UNCHANGED <<mode, skipFrames, pending, screenRotation, held, waiterVars,
                 minicapVars, failed, reported>>

\* Mutant of StopListening: the waiter is deleted before minicap_free, which is
\* what waits for a callback that runs.
StopAndDelete ==
  /\ pc = "unlisten"
  /\ listener' = FALSE /\ mStopped' = TRUE /\ waiter' = FALSE
  /\ pc' = "free"
  /\ UNCHANGED <<mode, skipFrames, pending, screenRotation, held, mPendingFrames,
                 queue, calling, configured, failed, reported>>

\* setFrameAvailableListener(NULL); gWaiter->stop()
StopListening ==
  /\ pc = "unlisten"
  /\ listener' = FALSE /\ mStopped' = TRUE
  /\ pc' = "free"
  /\ UNCHANGED <<mode, skipFrames, pending, screenRotation, held, waiter,
                 mPendingFrames, queue, calling, configured, failed, reported>>

\* minicap_free
FreeMinicap ==
  /\ pc = "free" /\ ~calling
  /\ queue' = 0 /\ pc' = "delete"
  /\ UNCHANGED <<mode, skipFrames, pending, screenRotation, held, waiterVars,
                 listener, calling, configured, failed, reported>>

DeleteWaiter ==
  /\ pc = "delete"
  /\ waiter' = FALSE /\ pc' = "create"
  /\ mode' = "first"
  /\ UNCHANGED <<skipFrames, pending, screenRotation, held, mPendingFrames,
                 mStopped, minicapVars, failed, reported>>

\* Mutant of CreateMinicap: resetMinicapOrientation is missing.
CreateUnoriented ==
  /\ pc = "create"
  /\ waiter' = TRUE /\ mPendingFrames' = 0 /\ mStopped' = FALSE
  /\ listener' = TRUE /\ failed' = 0
  /\ pc' = "wait"
  /\ UNCHANGED <<mode, skipFrames, pending, screenRotation, held, queue, calling,
                 configured, reported>>

\* minicap_create, new FrameWaiter, resetMinicapOrientation
CreateMinicap ==
  /\ pc = "create"
  /\ waiter' = TRUE /\ mPendingFrames' = 0 /\ mStopped' = FALSE
  /\ listener' = TRUE /\ configured' = screenRotation /\ failed' = 0
  /\ pc' = "wait"
  /\ UNCHANGED <<mode, skipFrames, pending, screenRotation, held, queue, calling,
                 reported>>

-----------------------------------------------------------------------------
(* Consuming frames.                                                       *)

\* waitForFrame returns the count and takes one off it.
WaitForFrame ==
  /\ pc = "wait" /\ ~mStopped /\ mPendingFrames > 0
  /\ pending' = mPendingFrames
  /\ mPendingFrames' = mPendingFrames - 1
  /\ \/ mode \in {"startup", "first"} /\ pc' = "consume" /\ mode' = mode
     \/ mode = "loop" /\ skipFrames /\ pending' > 1 /\ pc' = "skip" /\ mode' = mode
     \/ mode = "loop" /\ ~(skipFrames /\ pending' > 1) /\ pc' = "consume" /\ mode' = "drain"
  /\ UNCHANGED <<skipFrames, screenRotation, held, waiter, mStopped, minicapVars,
                 failed, reported>>

\* Mutant of ReportExtraConsumption: the other frames stay on the count.
ReportNothing ==
  /\ pc = "skip"
  /\ pending' = pending - 1
  /\ mode' = "skip" /\ pc' = "consume"
  /\ UNCHANGED <<skipFrames, screenRotation, held, waiterVars, minicapVars, failed,
                 reported>>

\* Mutant of ReportExtraConsumption: the frame waitForFrame took is reported too.
ReportAll ==
  /\ pc = "skip"
  /\ mPendingFrames' = mPendingFrames - pending
  /\ pending' = pending - 1
  /\ mode' = "skip" /\ pc' = "consume"
  /\ UNCHANGED <<skipFrames, screenRotation, held, waiter, mStopped, minicapVars,
                 failed, reported>>

\* reportExtraConsumption(pending - 1); then --pending >= 1
ReportExtraConsumption ==
  /\ pc = "skip"
  /\ mPendingFrames' = mPendingFrames - (pending - 1)
  /\ pending' = pending - 1
  /\ mode' = "skip" /\ pc' = "consume"
  /\ UNCHANGED <<skipFrames, screenRotation, held, waiter, mStopped, minicapVars,
                 failed, reported>>

\* consumePendingFrame returns 0; skipped frames are not drawn.
ConsumeFrame ==
  /\ pc = "consume" /\ queue > 0
  /\ queue' = queue - 1 /\ held' = TRUE
  /\ pc' = IF mode = "skip" THEN "release" ELSE "draw"
  /\ UNCHANGED <<mode, skipFrames, pending, screenRotation, waiterVars, listener,
                 calling, configured, failed, reported>>

\* It fails: fatal at startup, logged in the loop, unchecked after a rotation.
ConsumeFails ==
  /\ pc = "consume" /\ (queue = 0 \/ failed < MaxFailures)
  /\ failed' = IF queue = 0 THEN failed ELSE failed + 1
  /\ pc' = CASE mode = "startup" -> "exit"
             [] mode = "first" -> "draw"
             [] OTHER -> "release"
  /\ UNCHANGED <<mode, skipFrames, pending, screenRotation, held, waiterVars,
                 minicapVars, reported>>

\* update_screen and rfbMarkRectAsModified (see ClientUpdate)
UpdateScreen ==
  /\ pc = "draw"
  /\ pc' = "release"
  /\ UNCHANGED <<mode, skipFrames, pending, screenRotation, held, waiterVars,
                 minicapVars, failed, reported>>

\* Mutant of Released: a skipped frame is not given back.
ReleasedIfDrawn == held /\ mode = "skip"

\* Every path of main reaches releaseConsumedFrame: it holds no frame afterwards.
Released == FALSE

ReleaseFrame ==
  /\ pc = "release"
  /\ held' = Released
  /\ \/ mode = "startup" /\ pc' = "rotation" /\ mode' = "loop" /\ UNCHANGED pending
     \/ mode = "first" /\ pc' = "wait" /\ mode' = "loop" /\ UNCHANGED pending
     \/ mode = "skip" /\ pc' = "consume" /\ pending' = pending - 1
        /\ mode' = IF pending' >= 1 THEN "skip" ELSE "last"
     \/ mode = "last" /\ pc' = "rotation" /\ mode' = "loop" /\ UNCHANGED pending
     \/ mode = "drain" /\ pc' = "more" /\ UNCHANGED <<mode, pending>>
  /\ UNCHANGED <<skipFrames, screenRotation, waiterVars, minicapVars, failed, reported>>

\* Mutant of MoreFrames: getPendingFrames only reads the count.
MoreUncounted ==
  /\ pc = "more" /\ mPendingFrames > 0
  /\ pending' = mPendingFrames
  /\ pc' = "consume"
  /\ UNCHANGED <<mode, skipFrames, screenRotation, held, waiterVars, minicapVars,
                 failed, reported>>

\* getPendingFrames returns a count and takes one off it: drain another frame.
MoreFrames ==
  /\ pc = "more" /\ mPendingFrames > 0
  /\ pending' = mPendingFrames
  /\ mPendingFrames' = mPendingFrames - 1
  /\ pc' = "consume"
  /\ UNCHANGED <<mode, skipFrames, screenRotation, held, waiter, mStopped,
                 minicapVars, failed, reported>>

\* getPendingFrames returns 0: the loop is done.
NoMoreFrames ==
  /\ pc = "more" /\ mPendingFrames = 0
  /\ mode' = "loop" /\ pc' = "rotation"
  /\ UNCHANGED <<skipFrames, pending, screenRotation, held, waiterVars,
                 minicapVars, failed, reported>>

-----------------------------------------------------------------------------
Main ==
  \/ RotationChanged \/ NoRotation \/ StopListening \/ FreeMinicap
  \/ DeleteWaiter \/ CreateMinicap \/ WaitForFrame \/ ReportExtraConsumption
  \/ ConsumeFrame \/ ConsumeFails \/ UpdateScreen \/ ReleaseFrame
  \/ MoreFrames \/ NoMoreFrames

Next == Main \/ QueueFrame \/ OnFrameAvailable \/ ReportRotation

Spec == Init /\ [][Next]_vars

\* Main runs and minicap's callbacks are delivered.
FairSpec == Spec /\ WF_vars(Main) /\ WF_vars(OnFrameAvailable)

-----------------------------------------------------------------------------
(* Properties.                                                             *)

TypeOK ==
  /\ pc \in {"rotation", "unlisten", "free", "delete", "create", "wait", "skip",
             "consume", "draw", "release", "more", "exit"}
  /\ mode \in {"startup", "first", "loop", "skip", "last", "drain"}
  /\ skipFrames \in BOOLEAN /\ pending \in Nat
  /\ screenRotation \in Orientations /\ configured \in Orientations
  /\ held \in BOOLEAN /\ waiter \in BOOLEAN /\ mStopped \in BOOLEAN
  /\ listener \in BOOLEAN /\ calling \in BOOLEAN
  /\ mPendingFrames \in Nat /\ queue \in 0..MaxQueue /\ failed \in 0..MaxFailures
  /\ reported \in Orientations \cup {NoReport}

\* Frames main has taken off the count and still has to consume.
Owed ==
  CASE pc = "skip" -> 1
    [] pc = "consume" /\ mode = "skip" -> pending + 1
    [] pc = "release" /\ mode = "skip" -> pending
    [] pc = "consume" /\ mode # "skip" -> 1
    [] OTHER -> 0

\* Frames counted by the waiter, announced and not counted yet, or owed by main.
Announced == mPendingFrames + (IF calling THEN 1 ELSE 0) + Owed

\* "This loop should be the only consumer": while minicap has a listener, every
\* queued frame is accounted for exactly once: counted by the waiter, announced
\* and not counted yet, owed by main, or left behind by a failed consumption.
FramesAccounted ==
  listener => queue = Announced + failed

Source == INSTANCE FrameSource WITH
  due  <- IF listener THEN Announced ELSE 0,
  left <- IF listener THEN failed ELSE 0,
  lent <- held,
  turn <- configured

\* To main the counter, the callbacks and its own loops are a source that lends
\* frames: main takes no frame that was not announced, none twice, and leaves
\* none out, although it may take several off the count at once.
SourceSpec == Source!Spec

\* Main asks minicap for a frame only when one is queued for it, and never with
\* an earlier frame unreleased.
FrameToConsume == pc = "consume" => queue > 0 /\ ~held

\* update_screen reads the frame main holds, which has the orientation the
\* image rotation was computed for.  (After a rotation main does not look at the
\* result of consumePendingFrame, and may draw with none.)
DrawsHeldFrame ==
  pc = "draw" /\ mode # "first" => held /\ configured = screenRotation

\* minicap never calls a deleted FrameWaiter, and main never waits on one.
WaiterLives == calling \/ pc \in {"wait", "more"} => waiter

\* What the display shows is current as far as this loop knows: nothing is
\* queued beyond what failed, nothing is counted or held.
CaughtUp == queue = failed /\ ~held /\ ~calling

\* Unless frames keep coming, the last one is eventually consumed: the loop
\* never goes to sleep on a frame it was told about.
EventuallyCaughtUp ==
  []<>(CaughtUp \/ pc = "exit") \/ []<><<QueueFrame>>_vars
=============================================================================
