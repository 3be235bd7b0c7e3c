---------------------------- MODULE Orientation ----------------------------
(***************************************************************************)
(* How droidvncserver turns a captured frame into the picture it serves:   *)
(* getImageRotation, the dimensions of the VNC screen and updateScreen.    *)
(*                                                                         *)
(* A picture is a record of its dimensions and of its pixels in row-major  *)
(* order.  Depth and stride are left out: a pixel is its place on the      *)
(* panel, so that a picture says where every point of the panel went.      *)
(***************************************************************************)
EXTENDS Integers

\* The bit mask ROT_0 .. ROT_270 as the set of its quarter turns.
ROT_ALL == 0 .. 3

Pixels(w, h) == 0 .. w * h - 1

\* Mutant of GetImageRotation: 90 and 270 swapped.
GetSwappedRotation(allowed, rotate180, screenRotation) ==
  LET s   == screenRotation \div 90
      rot == IF s \in allowed THEN 0
             ELSE IF (s + 2) % 4 \in allowed THEN 180
             ELSE IF (s + 1) % 4 \in allowed THEN 90
             ELSE 270
  IN IF rotate180 THEN (rot + 180) % 360 ELSE rot

\* The clockwise turn, in degrees, that a frame of a rotation needs.
GetImageRotation(allowed, rotate180, screenRotation) ==
  LET s   == screenRotation \div 90
      rot == IF s \in allowed THEN 0
             ELSE IF (s + 2) % 4 \in allowed THEN 180
             ELSE IF (s + 1) % 4 \in allowed THEN 270
             ELSE 90
  IN IF rotate180 THEN (rot + 180) % 360 ELSE rot

\* The picture's width is the frame's height.
Swapped(allowed, imageRotation) ==
  allowed # ROT_ALL /\ imageRotation \in {90, 270}

TargetSize(allowed, imageRotation, frame) ==
  IF Swapped(allowed, imageRotation)
  THEN [width |-> frame.height, height |-> frame.width]
  ELSE [width |-> frame.width, height |-> frame.height]

-----------------------------------------------------------------------------
(* updateScreen: where pixel (x, y) of a w * h frame goes in vncbuf.       *)

Place(rotation, w, h, x, y) ==
  CASE rotation = 0   -> y * w + x
    [] rotation = 90  -> x * h + (h - y - 1)
    [] rotation = 180 -> (h - y - 1) * w + (w - 1 - x)
    [] rotation = 270 -> (w - x - 1) * h + y

\* vncbuf after updateScreen(rotation): every pixel of the frame is stored, in
\* the frame's dimensions and not those of the screen.
UpdateScreen(vncbuf, rotation, frame) ==
  LET w     == frame.width
      h     == frame.height
      to(i) == Place(rotation, w, h, i % w, i \div w)
  IN [j \in DOMAIN vncbuf |->
        IF \E i \in Pixels(w, h) : to(i) = j
        THEN frame.pixel[CHOOSE i \in Pixels(w, h) : to(i) = j]
        ELSE vncbuf[j]]

-----------------------------------------------------------------------------
(* Reference: pictures of a panel, turned a quarter at a time.             *)

\* A picture turned a quarter turn counterclockwise: its right column becomes
\* the top row.
QuarterTurn(picture) ==
  LET w == picture.height
      h == picture.width
  IN [width  |-> w, height |-> h,
      pixel  |-> [j \in Pixels(w, h) |->
                    picture.pixel[(j % w) * h + (h - 1 - j \div w)]]]

\* What minicap captures of a panel of width * height when the display stands
\* at turn s: the panel after s quarter turns.
Capture(width, height) ==
  LET turned[s \in Nat] ==
        IF s = 0 THEN [width |-> width, height |-> height,
                       pixel |-> [j \in Pixels(width, height) |-> j]]
        ELSE QuarterTurn(turned[s - 1])
  IN turned
=============================================================================
