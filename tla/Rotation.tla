------------------------------ MODULE Rotation ------------------------------
(***************************************************************************)
(* Turning the screen: main of droidvncserver.cpp from its command line to *)
(* the loop that follows the rotation watcher, with the pipe, the frames,  *)
(* the VNC screen's dimensions and the pixels it serves.                   *)
(*                                                                         *)
(* What CaptureLoop models of the waiter and its queue is one flag here: a *)
(* frame has been announced or not.  A frame may fail to be consumed, the  *)
(* first one after a rotation too.  Left out: -f, which skips frames.      *)
(***************************************************************************)
EXTENDS RotationWatcher, Orientation, Options

CONSTANTS
  Width, Height,  \* of the panel, held upright
  Commands        \* command lines, sequences of words

ASSUME PanelAssumption == Width \in Nat \ {0} /\ Height \in Nat \ {0}
ASSUME CommandsAssumption == Commands # {} /\ Commands \subseteq Seq(STRING)
\* The quarter turns of a display, upright among them.
ASSUME DisplayAssumption == 0 \in Rotations /\ Rotations \subseteq {0, 90, 180, 270}

VARIABLES
  pc,
  argv,
  allowed, rotate180,   \* options
  imageRotation,
  configured,           \* minicap's desired orientation
  frame,                \* orientation of the frame last consumed
  ready,                \* minicap has announced a frame main has not taken
  lost,                 \* history: the rotation whose first frame was lost, if any:
                        \* "no", the last one ("now") or the one before ("before")
  vncscr,               \* dimensions of the VNC screen
  vncbuf                \* its pixels, none before initVncServer

watch   == <<watcherVars, rotateBuffer, changed, screenRotation>>
options == <<argv, allowed, rotate180>>
frames  == <<frame, ready, lost>>
screen  == <<vncscr, vncbuf>>
vars    == <<pc, watch, options, imageRotation, configured, frames, screen>>

NoSize == [width |-> 0, height |-> 0]
NoPixel == -1

\* Pictures of the panel in its four orientations.
Panel == LET turned == Capture(Width, Height) IN [s \in ROT_ALL |-> turned[s]]

Init ==
  /\ pc = "argv" /\ argv \in Commands
  /\ allowed = ROT_ALL /\ rotate180 = FALSE
  /\ WatcherInit
  /\ imageRotation = 0 /\ configured = 0
  /\ frame = 0 /\ ready = FALSE /\ lost = "no"
  /\ vncscr = NoSize /\ vncbuf = [i \in Pixels(Width, Height) |-> NoPixel]

Started == pc \in {"check", "image", "minicap", "consume", "reinit", "draw", "frames",
                     "drain"}
             /\ vncscr # NoSize

-----------------------------------------------------------------------------
(* Starting up.                                                            *)

\* The command line; the options other than those of Options are left out.
ReadOptions ==
  /\ pc = "argv"
  /\ IF Parse(argv).fatal
     THEN pc' = "exit" /\ UNCHANGED <<allowed, rotate180>>
     ELSE /\ pc' = "start"
          /\ allowed' = Parse(argv).allowed /\ rotate180' = Parse(argv).rotate180
  /\ argv' = <<>>
  /\ UNCHANGED <<watch, imageRotation, configured, frames, screen>>

\* fgets in check_rotation_change, which stays in its loop.
CheckLine ==
  /\ pc \in {"start", "check"} /\ ReadLine
  /\ UNCHANGED <<pc, options, imageRotation, configured, frames, screen>>

\* check_rotation_change returns: main asks again until it has a rotation, the
\* loop goes on to the frames if nothing changed.
Return ==
  pc' = IF changed THEN "image" ELSE IF pc = "start" THEN "start" ELSE "frames"

\* Mutant of CheckPart: a line that is not complete means that nothing changed.
CheckPartUnchanged ==
  /\ pc \in {"start", "check"} /\ ReadPart
  /\ pc' = IF pc = "start" THEN "start" ELSE "frames"
  /\ UNCHANGED <<options, imageRotation, configured, frames, screen>>

CheckPart ==
  /\ pc \in {"start", "check"} /\ ReadPart
  /\ Return
  /\ UNCHANGED <<options, imageRotation, configured, frames, screen>>

CheckNothing ==
  /\ pc \in {"start", "check"} /\ NothingToRead
  /\ Return
  /\ UNCHANGED <<watch, options, imageRotation, configured, frames, screen>>

\* FATAL("Error reading rotation change")
CheckFails ==
  /\ pc \in {"start", "check"} /\ ReadFails
  /\ pc' = "exit"
  /\ UNCHANGED <<watch, options, imageRotation, configured, frames, screen>>

-----------------------------------------------------------------------------
(* Following a rotation.                                                   *)

\* imageRotation = getImageRotation()
TurnImage ==
  /\ pc = "image"
  /\ imageRotation' = GetImageRotation(allowed, rotate180, screenRotation)
  /\ changed' = FALSE
  /\ pc' = "minicap"
  /\ UNCHANGED <<watcherVars, rotateBuffer, screenRotation, options, configured,
                 frames, screen>>

\* A new minicap instance and waiter, and resetMinicapOrientation.
ConfigureMinicap ==
  /\ pc = "minicap"
  /\ configured' = screenRotation \div 90 /\ ready' = FALSE
  /\ pc' = "consume"
  /\ UNCHANGED <<watch, options, imageRotation, frame, lost, screen>>

\* waitForFrame and consumePendingFrame.
ConsumeFrame ==
  /\ pc = "consume" /\ ready
  /\ frame' = configured /\ ready' = FALSE
  /\ lost' = IF lost = "now" THEN "before" ELSE "no"
  /\ pc' = "reinit"
  /\ UNCHANGED <<watch, options, imageRotation, configured, screen>>

\* The first frame is not consumed: FATAL when the server starts; after a rotation
\* the result is ignored and main goes on with the frame it had.
ConsumeFails ==
  /\ pc = "consume" /\ ready
  /\ ready' = FALSE
  /\ IF vncscr = NoSize THEN pc' = "exit" /\ UNCHANGED lost
                         ELSE pc' = "reinit" /\ lost' = "now"
  /\ UNCHANGED <<watch, options, imageRotation, configured, frame, screen>>

\* FATAL: the orientation is refused, the frame's size is not the expected one; or
\* the frame that was not consumed is read in the memory of the instance before.
MinicapFails ==
  /\ \/ pc \in {"minicap", "reinit"}
     \/ pc = "draw" /\ lost = "now"
  /\ pc' = "exit"
  /\ UNCHANGED <<watch, options, imageRotation, configured, frames, screen>>

\* Mutant of ReinitScreen: the screen is not swapped with the picture.
ReinitUnturned ==
  /\ pc = "reinit"
  /\ vncscr' = [width |-> Panel[frame].width, height |-> Panel[frame].height]
  /\ pc' = "draw"
  /\ UNCHANGED <<watch, options, imageRotation, configured, frames, vncbuf>>

\* initVncServer, then reinitVncServer: the screen gets the picture's size.
ReinitScreen ==
  /\ pc = "reinit"
  /\ vncscr' = TargetSize(allowed, imageRotation, Panel[frame])
  /\ pc' = "draw"
  /\ UNCHANGED <<watch, options, imageRotation, configured, frames, vncbuf>>

\* updateScreenFn(imageRotation), rfbMarkRectAsModified: the new orientation's
\* first frame.  When the server starts, main looks at the pipe again first.
DrawFirst ==
  /\ pc = "draw"
  /\ vncbuf' = UpdateScreen(vncbuf, imageRotation, Panel[frame])
  /\ pc' = IF \A i \in DOMAIN vncbuf : vncbuf[i] = NoPixel THEN "check" ELSE "frames"
  /\ UNCHANGED <<watch, options, imageRotation, configured, frames, vncscr>>

\* waitForFrame, which blocks until a frame is ready, and the frames after it.
TakeFrame ==
  /\ pc \in {"frames", "drain"} /\ ready
  /\ ready' = FALSE
  /\ pc' = "drain"
  /\ UNCHANGED <<watch, options, imageRotation, configured, lost, vncscr>>

DrawFrame ==
  /\ TakeFrame
  /\ frame' = configured
  /\ vncbuf' = UpdateScreen(vncbuf, imageRotation, Panel[configured])

\* It is not consumed.
SkipFrame == TakeFrame /\ UNCHANGED <<frame, vncbuf>>

\* getPendingFrames is zero: the loop begins again.
DrainEnds ==
  /\ pc = "drain" /\ ~ready
  /\ pc' = "check" /\ changed' = FALSE
  /\ UNCHANGED <<watcherVars, rotateBuffer, screenRotation, options, imageRotation,
                 configured, frames, screen>>

-----------------------------------------------------------------------------
(* The environment.                                                        *)

\* minicap's thread announces a frame, while an instance is configured.
FrameComes ==
  /\ pc \in {"consume", "reinit", "draw", "check", "frames", "drain"} /\ ~ready
  /\ ready' = TRUE
  /\ UNCHANGED <<pc, watch, options, imageRotation, configured, frame, lost, screen>>

\* Started after the command line is read.
Watcher ==
  /\ pc # "argv"
  /\ PrintRotation \/ WritePipe \/ WatcherDies
  /\ UNCHANGED <<pc, options, imageRotation, configured, frames, screen>>

-----------------------------------------------------------------------------
Check == CheckLine \/ CheckPart \/ CheckNothing \/ CheckFails

Follow ==
  \/ TurnImage \/ ConfigureMinicap \/ ConsumeFrame \/ ConsumeFails \/ MinicapFails
  \/ ReinitScreen \/ DrawFirst

Frames == DrawFrame \/ SkipFrame \/ DrainEnds

Main == ReadOptions \/ Check \/ Follow \/ Frames

Next == Main \/ Watcher \/ FrameComes

Spec == Init /\ [][Next]_vars

\* main runs on, and waits for frames as long as none comes.  What it follows a
\* rotation under is asked of others: the display changes, so that frames come;
\* it pauses, so that the frames are drained; and minicap does not fail for ever.
\* The watcher owes nothing.
FairSpec ==
  /\ Spec /\ WF_vars(Main)
  /\ WF_vars(FrameComes) /\ SF_vars(DrainEnds) /\ SF_vars(DrawFrame)

-----------------------------------------------------------------------------
(* Properties.                                                             *)

TypeOK ==
  /\ pc \in {"argv", "start", "check", "image", "minicap", "consume", "reinit", "draw",
             "frames", "drain", "exit"}
  /\ argv \in Seq(STRING)
  /\ allowed \in (SUBSET ROT_ALL) \ {{}} /\ rotate180 \in BOOLEAN
  /\ alive \in BOOLEAN /\ nreports \in 0 .. MaxReports /\ changed \in BOOLEAN
  /\ {unsent, pipe, rotateBuffer} \subseteq Seq(Characters)
  /\ Len(rotateBuffer) <= BufferSize
  /\ screenRotation \in Rotations
  /\ imageRotation \in {0, 90, 180, 270}
  /\ configured \in ROT_ALL /\ frame \in ROT_ALL
  /\ ready \in BOOLEAN /\ lost \in {"no", "now", "before"}
  /\ vncscr \in [width : {0, Width, Height}, height : {0, Width, Height}]
  /\ vncbuf \in [Pixels(Width, Height) -> Pixels(Width, Height) \cup {NoPixel}]

\* What a viewer sees.
View == [width |-> vncscr.width, height |-> vncscr.height, pixel |-> vncbuf]

\* The turns the panel may be shown at: the display's own if it is allowed, else
\* any allowed one; and half a turn more with -z.
Wanted ==
  LET turns == IF frame \in allowed THEN {frame} ELSE allowed
  IN IF rotate180 THEN {(s + 2) % 4 : s \in turns} ELSE turns

Shows == View \in {Panel[s] : s \in Wanted}

\* Between frames the picture is the whole panel in an orientation the options
\* ask for, in its own dimensions: the rotation was computed for the frame that
\* was drawn with it.  A lost first frame spoils it, until the rotation after.
ImageShowsAllowed ==
  Started /\ pc \notin {"reinit", "draw"} /\ lost # "now" => Shows

\* A forced rotation or orientation never resizes the viewers' screens, except for
\* a lost first frame and to make up for it.
SizeSteady ==
  [][vncscr # NoSize /\ allowed # ROT_ALL /\ lost = "no" => vncscr' = vncscr]_vars

\* An accepted command line is given the meaning the usage describes, unless
\* its -z hides an option.
OptionsHonoured ==
  [][pc = "argv" /\ pc' = "start" /\ ZLast(argv)
       => Honours(argv, allowed', rotate180')]_vars

\* The server catches up with the rotation watcher: at last the frames are those
\* of the last rotation that was reported whole, unless the server ended.
EventuallyFollowed ==
  <>[](\/ pc = "exit"
       \/ /\ Complete(rotateBuffer \o pipe) = <<>>
          /\ frame = screenRotation \div 90
          /\ pc \in {"start", "check", "frames", "drain"})
=============================================================================
