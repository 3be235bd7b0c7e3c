----------------------------- MODULE Screenshot -----------------------------
(***************************************************************************)
(* Screenshots of a running server (option -U of droidvncserver.cpp): the  *)
(* requesting process, the signal handler of the server and the file they  *)
(* share.                                                                  *)
(*                                                                         *)
(* External: SIGCONT is delivered to any thread of the server and pending  *)
(* signals merge; the allocator's lock is not reentrant, and the handler   *)
(* allocates; what is written to an unlinked file is lost.                 *)
(***************************************************************************)
EXTENDS Integers

CONSTANTS
  Requesters,    \* processes started with -U
  Main,          \* the main thread of the server
  Others,        \* its listener and client threads
  Orientations,  \* of the screen
  Contents,      \* what a frame can show
  MaxStarts,     \* bound: servers started
  MaxRotations   \* bound: rotations followed

Threads == {Main} \cup Others
Writers == Threads \cup Requesters

ASSUME ThreadsAssumption == Main \notin Others /\ Requesters \cap Threads = {}
ASSUME OrientationsAssumption == Orientations # {}
ASSUME ContentsAssumption == Contents # {}
ASSUME StartsAssumption == MaxStarts \in Nat \ {0}
ASSUME RotationsAssumption == MaxRotations \in Nat

NoOne == "no one"
ASSUME NoOneAssumption == NoOne \notin Writers

VARIABLES
  \* the server
  server,         \* down, init, ready (its handler is installed), up
  starts,         \* servers started: the pid of the last
  pending,        \* the process whose SIGCONT is pending
  handler,        \* the handler that runs on each thread
  heap,           \* the thread that holds the allocator's lock
  \* its main thread
  mainpc,
  imageRotation,  \* the orientation it was computed for
  frame,          \* the frame last consumed: its orientation and what it shows
  drawn,          \* the pictures in vncbuf: two while one is drawn over another
  rotations,
  \* files
  pidFile,        \* the pid in PID_FILE, zero if there is no such file
  file,           \* SCREENSHOT_SIGNAL_FILE
  \* requesters
  pc,
  alone           \* history: nobody else asks or writes

serverVars == <<server, starts, pidFile>>
screenVars == <<mainpc, imageRotation, frame, drawn, rotations>>
askVars    == <<pc, alone>>
vars == <<serverVars, pending, handler, heap, screenVars, file, askVars>>

\* The picture imageRotation and frame are about.
Captures == [of : Orientations, shows : Contents]
Pictures == [turn : Orientations, frame : Captures]
Current  == [turn |-> imageRotation, frame |-> frame]

\* What decides the dimensions of a picture.
Sizes     == [turn : Orientations, of : Orientations]
SizeOf(p) == [turn |-> p.turn, of |-> p.frame.of]

\* A screenshot has the dimensions of one picture and the pixels of some; steady:
\* main stayed in its loop meanwhile, with nothing to draw or to follow; calm: it
\* did not draw.
NoShot == [by |-> NoOne]
Shots  == [by : Writers, for : Requesters, size : Sizes, pixels : SUBSET Pictures,
           steady : BOOLEAN, calm : BOOLEAN]

Idle == [step |-> "idle"]
Steps == {"open", "rows", "close", "answer"}

Ended == {"answered", "done", "failed", "crashed"}

\* A screenshot and a pid may be left from earlier.
Init ==
  /\ server = "down" /\ starts \in {0, 1} /\ pidFile = starts
  /\ pending = NoOne /\ handler = [t \in Threads |-> Idle] /\ heap = NoOne
  /\ mainpc = "loop" /\ rotations = 0
  /\ imageRotation \in Orientations
  /\ frame \in {f \in Captures : f.of = imageRotation} /\ drawn = {Current}
  /\ \E old \in BOOLEAN :
       file = [exists |-> old, writers |-> {}, spoilt |-> FALSE, shot |-> NoShot]
  /\ pc = [q \in Requesters |-> "idle"] /\ alone = [q \in Requesters |-> FALSE]

-----------------------------------------------------------------------------
(* writeScreenToFile: fopen "w+", then the pixels, then fclose.            *)

OpenFile(w) ==
  file' = [exists |-> TRUE, writers |-> file.writers \cup {w},
           spoilt |-> file.writers # {}, shot |-> NoShot]

\* Mutant of CloseFile: the file is not closed.
LeakFile(w, shot) ==
  file' = IF w \in file.writers THEN [file EXCEPT !.shot = shot] ELSE file

CloseFile(w, shot) ==
  file' = IF w \in file.writers
          THEN [file EXCEPT !.writers = @ \ {w}, !.shot = shot] ELSE file

Whole == file.exists /\ file.writers = {} /\ ~file.spoilt /\ file.shot # NoShot

-----------------------------------------------------------------------------
(* The server starts and stops.                                            *)

StartServer ==
  /\ server = "down" /\ starts < MaxStarts
  /\ server' = "init" /\ starts' = starts + 1
  /\ UNCHANGED <<pidFile, pending, handler, heap, screenVars, file, askVars>>

SetupScreenshotSignalHandler ==
  /\ server = "init" /\ server' = "ready"
  /\ UNCHANGED <<starts, pidFile, pending, handler, heap, screenVars, file, askVars>>

\* writeServerPid; main ignores its failure.
WriteServerPid ==
  /\ server = "ready" /\ server' = "up"
  /\ pidFile' \in {pidFile, starts}
  /\ UNCHANGED <<starts, pending, handler, heap, screenVars, file, askVars>>

\* The pid file stays, and a file that was being written is cut off.
StopServer ==
  /\ server # "down" /\ server' = "down"
  /\ pending' = NoOne /\ handler' = [t \in Threads |-> Idle] /\ heap' = NoOne
  /\ mainpc' = "loop" /\ frame' = [frame EXCEPT !.of = imageRotation]
  /\ drawn' = {[turn |-> imageRotation, frame |-> frame']}
  /\ file' = [file EXCEPT !.writers = @ \ Threads,
                          !.spoilt = @ \/ file.writers \cap Threads # {}]
  /\ UNCHANGED <<starts, pidFile, imageRotation, rotations, askVars>>

-----------------------------------------------------------------------------
(* Its threads.                                                            *)

\* A thread that no handler has interrupted.
Runs(t) == server # "down" /\ handler[t] = Idle

Allocate(t) ==
  /\ Runs(t) /\ heap = NoOne
  /\ heap' = t
  /\ UNCHANGED <<serverVars, pending, handler, screenVars, file, askVars>>

Allocated(t) ==
  /\ Runs(t) /\ heap = t
  /\ heap' = NoOne
  /\ UNCHANGED <<serverVars, pending, handler, screenVars, file, askVars>>

\* What main does meanwhile is part of the screenshots that are taken.
MainGoes(to) ==
  /\ mainpc' = to
  /\ handler' = [t \in Threads |->
                   IF handler[t] = Idle THEN Idle
                   ELSE [handler[t] EXCEPT !.steady = @ /\ to = "loop",
                                           !.calm = @ /\ to # "drawing"]]

\* imageRotation = getImageRotation(); minicap is replaced.
TurnImage ==
  /\ server = "up" /\ Runs(Main) /\ heap \in {NoOne, Main}
  /\ mainpc = "loop" /\ rotations < MaxRotations
  /\ imageRotation' \in Orientations \ {imageRotation}
  /\ rotations' = rotations + 1
  /\ MainGoes("consume")
  /\ UNCHANGED <<serverVars, pending, heap, frame, drawn, file, askVars>>

\* The first frame after a rotation; if it is not consumed main goes on with the
\* one it had.
ConsumeFirst ==
  /\ Runs(Main) /\ mainpc = "consume"
  /\ frame' \in {frame} \cup [of : {imageRotation}, shows : Contents]
  /\ MainGoes("draw")
  /\ UNCHANGED <<serverVars, pending, heap, imageRotation, drawn, rotations, file, askVars>>

\* A frame of the loop that follows, which shows something else.
ConsumeFrame ==
  /\ server = "up" /\ Runs(Main) /\ mainpc = "loop"
  /\ frame' \in [of : {imageRotation}, shows : Contents \ {frame.shows}]
  /\ MainGoes("draw")
  /\ UNCHANGED <<serverVars, pending, heap, imageRotation, drawn, rotations, file, askVars>>

\* Mutant of BeginDraw: the frame is left to the next pass of the loop.
SkipDraw ==
  /\ Runs(Main) /\ mainpc = "draw"
  /\ MainGoes("loop")
  /\ UNCHANGED <<serverVars, pending, heap, imageRotation, frame, drawn, rotations, file,
                 askVars>>

\* updateScreen writes the frame over the picture in vncbuf, pixel by pixel.
BeginDraw ==
  /\ Runs(Main) /\ mainpc = "draw"
  /\ drawn' = drawn \cup {Current}
  /\ MainGoes("drawing")
  /\ UNCHANGED <<serverVars, pending, heap, imageRotation, frame, rotations, file, askVars>>

EndDraw ==
  /\ Runs(Main) /\ mainpc = "drawing"
  /\ drawn' = {Current}
  /\ MainGoes("loop")
  /\ UNCHANGED <<serverVars, pending, heap, imageRotation, frame, rotations, file, askVars>>

-----------------------------------------------------------------------------
(* takeScreenshot, on the thread the signal interrupts.                    *)

Deliver(t) ==
  /\ Runs(t) /\ pending # NoOne
  /\ handler' = [handler EXCEPT ![t] =
                   [step |-> "open", asker |-> pending, size |-> SizeOf(Current),
                    pixels |-> {}, steady |-> mainpc = "loop",
                    calm |-> mainpc # "drawing"]]
  /\ pending' = NoOne
  /\ UNCHANGED <<serverVars, heap, screenVars, file, askVars>>

\* The dimensions are read and the file is opened, by functions that allocate.
OpenShot(t) ==
  /\ handler[t].step = "open" /\ heap = NoOne
  /\ OpenFile(t)
  /\ handler' = [handler EXCEPT ![t].step = "rows", ![t].size = SizeOf(Current)]
  /\ UNCHANGED <<serverVars, pending, heap, screenVars, askVars>>

\* kill(si_pid, SIGCONT) ends the asker if it still waits, and is ignored else.
Reply(q) == pc' = [pc EXCEPT ![q] = IF @ = "sleep" THEN "answered" ELSE @]

\* Mutant of CopyRows: the answer is sent before the file is closed.
CopyAndAnswer(t) ==
  /\ handler[t].step = "rows" /\ heap = NoOne
  /\ \E p \in drawn :
       handler' = [handler EXCEPT ![t].step = "close", ![t].pixels = @ \cup {p}]
  /\ Reply(handler[t].asker)
  /\ UNCHANGED <<serverVars, pending, heap, screenVars, file, alone>>

\* Rows are read from vncbuf, and then the others.
CopyRows(t) ==
  /\ handler[t].step = "rows" /\ heap = NoOne
  /\ \E p \in drawn, next \in {"rows", "close"} :
       handler' = [handler EXCEPT ![t].step = next, ![t].pixels = @ \cup {p}]
  /\ UNCHANGED <<serverVars, pending, heap, screenVars, file, askVars>>

CloseShot(t) ==
  /\ handler[t].step = "close"
  /\ CloseFile(t, [by |-> t, for |-> handler[t].asker, size |-> handler[t].size,
                   pixels |-> handler[t].pixels, steady |-> handler[t].steady,
                   calm |-> handler[t].calm])
  /\ handler' = [handler EXCEPT ![t].step = "answer"]
  /\ UNCHANGED <<serverVars, pending, heap, screenVars, askVars>>

Answer(t) ==
  /\ handler[t].step = "answer"
  /\ Reply(handler[t].asker)
  /\ handler' = [handler EXCEPT ![t] = Idle]
  /\ UNCHANGED <<serverVars, pending, heap, screenVars, file, alone>>

-----------------------------------------------------------------------------
(* A requester.                                                            *)

Active(q) == pc[q] \notin Ended \cup {"idle"}
Serves(t, q, steps) == handler[t].step \in steps /\ handler[t].asker = q

\* The thread that holds the allocator's lock has been interrupted by the handler:
\* the server takes no more screenshots.
Hangs == heap # NoOne /\ handler[heap] # Idle

\* The server may still write the file for q.
Owes(q) ==
  \/ ~Hangs /\ (pending = q \/ \E t \in Threads : Serves(t, q, {"open"}))
  \/ \E t \in Threads : Serves(t, q, {"rows", "close"})

\* dispatchScreenshotSignal: unlink, FATAL if there is no file.
Unlink(q) ==
  /\ pc[q] = "idle"
  /\ pc' = [pc EXCEPT ![q] = IF file.exists THEN "pid" ELSE "failed"]
  /\ file' = [exists |-> FALSE, writers |-> {}, spoilt |-> FALSE, shot |-> NoShot]
  /\ alone' = [r \in Requesters |->
                 IF r = q THEN ~\E s \in Requesters \ {q} : Active(s) \/ Owes(s)
                 ELSE alone[r] /\ ~Active(r)]
  /\ UNCHANGED <<serverVars, pending, handler, heap, screenVars>>

Alive(pid) == server # "down" /\ pid = starts

\* getRunningServerPid: without a pid file it reads from no stream.
GetRunningServerPid(q) ==
  /\ pc[q] = "pid"
  /\ pc' = [pc EXCEPT ![q] = IF pidFile = 0 THEN "crashed"
                             ELSE IF Alive(pidFile) THEN "kill" ELSE "normal"]
  /\ UNCHANGED <<serverVars, pending, handler, heap, screenVars, file, alone>>

\* signal(SIGCONT, waitForScreenshot); kill(pid, SIGCONT)
Kill(q) ==
  /\ pc[q] = "kill"
  /\ pc' = [pc EXCEPT ![q] = "sleep"]
  /\ pending' = IF server \in {"ready", "up"} /\ pending = NoOne THEN q ELSE pending
  /\ UNCHANGED <<serverVars, handler, heap, screenVars, file, alone>>

\* Mutant of Timeout: the requester gives up only when the server is gone.
TimeoutIfDown(q) ==
  /\ pc[q] = "sleep" /\ server = "down"
  /\ pc' = [pc EXCEPT ![q] = "normal"]
  /\ alone' = [alone EXCEPT ![q] = @ /\ ~Owes(q)]
  /\ UNCHANGED <<serverVars, pending, handler, heap, screenVars, file>>

\* sleep(4) is over; signal(SIGCONT, SIG_DFL)
Timeout(q) ==
  /\ pc[q] = "sleep"
  /\ pc' = [pc EXCEPT ![q] = "normal"]
  /\ alone' = [alone EXCEPT ![q] = @ /\ ~Owes(q)]
  /\ UNCHANGED <<serverVars, pending, handler, heap, screenVars, file>>

\* The normal screenshot.  A process of its own starts; FATAL on the way.
StartNormal(q) ==
  /\ pc[q] = "normal"
  /\ \E to \in {"wait", "failed"} : pc' = [pc EXCEPT ![q] = to]
  /\ UNCHANGED <<serverVars, pending, handler, heap, screenVars, file, alone>>

\* It waits as long as it takes for a first rotation and a first frame (with -X a
\* second); FATAL if there is an error instead.
FirstFrame(q) ==
  /\ pc[q] = "wait"
  /\ \E to \in {"shoot", "failed"} : pc' = [pc EXCEPT ![q] = to]
  /\ UNCHANGED <<serverVars, pending, handler, heap, screenVars, file, alone>>

\* It writes this frame to the same file.
OpenNormal(q) ==
  /\ pc[q] = "shoot"
  /\ OpenFile(q)
  /\ pc' = [pc EXCEPT ![q] = "write"]
  /\ UNCHANGED <<serverVars, pending, handler, heap, screenVars, alone>>

CloseNormal(q) ==
  /\ pc[q] = "write"
  /\ \E o \in Orientations, c \in Contents :
       LET picture == [turn |-> o, frame |-> [of |-> o, shows |-> c]]
       IN CloseFile(q, [by |-> q, for |-> q, size |-> SizeOf(picture), pixels |-> {picture},
                        steady |-> TRUE, calm |-> TRUE])
  /\ pc' = [pc EXCEPT ![q] = "done"]
  /\ UNCHANGED <<serverVars, pending, handler, heap, screenVars, alone>>

-----------------------------------------------------------------------------
Server == StartServer \/ SetupScreenshotSignalHandler \/ WriteServerPid \/ StopServer

MainLoop == TurnImage \/ ConsumeFirst \/ ConsumeFrame \/ BeginDraw \/ EndDraw

Allocator(t) == Allocate(t) \/ Allocated(t)

TakeScreenshot(t) ==
  Deliver(t) \/ OpenShot(t) \/ CopyRows(t) \/ CloseShot(t) \/ Answer(t)

\* What the requester does once it has begun.
Proceed(q) ==
  \/ GetRunningServerPid(q) \/ Kill(q) \/ Timeout(q)
  \/ StartNormal(q) \/ OpenNormal(q) \/ CloseNormal(q)

Next ==
  \/ Server \/ MainLoop
  \/ \E t \in Threads : Allocator(t) \/ TakeScreenshot(t)
  \/ \E q \in Requesters : Unlink(q) \/ Proceed(q) \/ FirstFrame(q)

Spec == Init /\ [][Next]_vars

\* A requester runs on and its sleep ends.  Nothing is asked of the server, nor of
\* the display a normal screenshot waits for.
FairSpec == Spec /\ \A q \in Requesters : WF_vars(Proceed(q))

-----------------------------------------------------------------------------
(* Properties.                                                             *)

\* With the types: who writes the file is at it, no descriptor stays open.
TypeOK ==
  /\ server \in {"down", "init", "ready", "up"}
  /\ starts \in 0 .. MaxStarts /\ pidFile \in 0 .. starts
  /\ pending \in Requesters \cup {NoOne} /\ heap \in Threads \cup {NoOne}
  /\ handler \in [Threads -> {Idle} \cup [step : Steps, asker : Requesters,
                    size : Sizes, pixels : SUBSET Pictures, steady : BOOLEAN,
                    calm : BOOLEAN]]
  /\ mainpc \in {"loop", "consume", "draw", "drawing"} /\ rotations \in 0 .. MaxRotations
  /\ imageRotation \in Orientations /\ frame \in Captures /\ drawn \in SUBSET Pictures
  /\ file \in [exists : BOOLEAN, writers : SUBSET Writers, spoilt : BOOLEAN,
               shot : Shots \cup {NoShot}]
  /\ pc \in [Requesters -> Ended \cup {"idle", "pid", "kill", "sleep", "normal", "wait",
                                 "shoot", "write"}]
  /\ alone \in [Requesters -> BOOLEAN]
  /\ \A w \in file.writers :
       IF w \in Threads THEN handler[w].step \in {"rows", "close"} ELSE pc[w] = "write"

\* A requester that ends well has its screenshot: a whole one, taken for it by the
\* server or by itself; if nobody else asks, and if the server owes nothing when the
\* sleep is over: because it has answered, never got the signal, has stopped, or
\* hangs in its handler before it opens the file.  It may stop, start or go on
\* hanging while the requester takes its own.  A server that answers later would
\* write the same file.
EndsWithShot ==
  [][\A q \in Requesters :
       pc'[q] # pc[q] /\ pc'[q] \in {"answered", "done"} /\ alone[q]
         => Whole' /\ file'.shot.for = q]_vars

\* Whichever thread takes it, its pixels are of one frame if nothing is drawn
\* meanwhile, and the dimensions theirs if main is in its loop, also after a
\* rotation whose first frame was lost: main returns to its loop only when what it
\* last consumed has been drawn.
SteadyShot ==
  file.shot # NoShot /\ file.shot.calm =>
    \E p \in Pictures :
      file.shot.pixels = {p} /\ (file.shot.steady => file.shot.size = SizeOf(p))

\* A requester is not held by the server it asked, be it gone, or hanging in its
\* handler on the lock of the allocator it interrupted: in the end it has ended, or
\* waits for the display as any server that starts.
RequesterEnds == \A q \in Requesters : <>[](pc[q] \in Ended \cup {"idle", "wait"})
=============================================================================
