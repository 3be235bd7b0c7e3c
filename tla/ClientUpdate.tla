---------------------------- MODULE ClientUpdate ----------------------------
(***************************************************************************)
(* The update cycle of libvncserver as the droid VNC server drives it.     *)
(*                                                                         *)
(* Threads: the capture loop of droidvncserver.cpp (redraws the            *)
(* framebuffer, marks it modified, follows display rotations), the         *)
(* listener (accepts clients) and, per client, clientInput (reads the      *)
(* viewer's messages) and clientOutput (waits on updateCond and sends).    *)
(*                                                                         *)
(* A region is a set of tiles.  A critical section of cl->updateMutex is   *)
(* one step: what it touches is touched under that mutex only, except      *)
(* sock, useNewFBSize, newFBSizePending and cursorWasChanged, which the    *)
(* code also reads without it, in steps of their own here.  The app never  *)
(* schedules a copy, so cl->copyRegion stays empty and is left out.        *)
(***************************************************************************)
EXTENDS Naturals

CONSTANTS
  Clients,       \* client records the server can hold at a time
  Tiles,         \* tiles of the framebuffer
  Sizes,         \* dimensions the screen takes as the display rotates
  Turns          \* bound: the rotations, as pairs of different dimensions

ASSUME SizesAssumption == Sizes # {}
ASSUME TurnsAssumption == Turns \subseteq Sizes \X Sizes

VARIABLES
  \* capture loop
  mainPc, toScale, toDraw, toMark,
  screenSize,    \* vncscr->width, vncscr->height
  target,        \* targetWidth, targetHeight of reinitVncServer
  \* rfbClientRec
  sock, normal,  \* cl->sock; cl->state = RFB_NORMAL
  modified, requested,
  useNewFBSize, newFBSizePending,
  cursorDue,     \* the shape or position of the cursor is to be sent
  ownCopy,       \* cl->scaledScreen # cl->screen
  clientSize,    \* dimensions of cl->scaledScreen
  \* clientInput, clientOutput and its locals
  inPc, outPc, given, sendCursor, update,
  \* history: what the bytes sent to the client say
  stale,         \* tiles redrawn since they were last read for this client
  toldSize       \* dimensions last announced to this client

mainVars   == <<mainPc, toScale, toDraw, toMark, screenSize, target>>
regionVars == <<modified, requested>>
sizeVars   == <<useNewFBSize, newFBSizePending, ownCopy, clientSize, toldSize>>
localVars  == <<given, sendCursor, update>>
vars == <<mainVars, sock, normal, regionVars, sizeVars, cursorDue,
          inPc, outPc, localVars, stale>>

\* clients in the screen's list with a live socket: what an iterator visits
Live == {c \in Clients : sock[c] = "open"}

\* Mutant of Signalled: the TSIGNAL is missing.
SignalNobody(c) == outPc

\* TSIGNAL(cl->updateCond): the output thread, if it waits, retries its loop.
Signalled(c) == IF outPc[c] = "wait" THEN [outPc EXCEPT ![c] = "check"] ELSE outPc

-----------------------------------------------------------------------------
Init ==
  /\ mainPc = "idle" /\ toScale = {} /\ toDraw = {} /\ toMark = {}
  /\ screenSize \in Sizes /\ target = screenSize
  /\ sock = [c \in Clients |-> "none"]
  /\ normal = [c \in Clients |-> FALSE]
  /\ modified = [c \in Clients |-> {}]
  /\ requested = [c \in Clients |-> {}]
  /\ useNewFBSize = [c \in Clients |-> FALSE]
  /\ newFBSizePending = [c \in Clients |-> FALSE]
  /\ cursorDue = [c \in Clients |-> FALSE]
  /\ ownCopy = [c \in Clients |-> FALSE]
  /\ clientSize = [c \in Clients |-> screenSize]
  /\ toldSize = [c \in Clients |-> screenSize]
  /\ inPc = [c \in Clients |-> "none"]
  /\ outPc = [c \in Clients |-> "none"]
  /\ given = [c \in Clients |-> {}]
  /\ sendCursor = [c \in Clients |-> FALSE]
  /\ update = [c \in Clients |-> {}]
  /\ stale = [c \in Clients |-> Tiles]

-----------------------------------------------------------------------------
(* The capture loop.                                                       *)

\* A frame was consumed: update_screen is about to rewrite every tile.
BeginFrame ==
  /\ mainPc = "idle"
  /\ mainPc' = "draw" /\ toDraw' = Tiles
  /\ UNCHANGED <<toScale, toMark, screenSize, target, sock, normal,
                 regionVars, sizeVars, cursorDue, inPc, outPc, localVars, stale>>

\* Mutant of Rotated: the target is assigned on one branch only.
RotatedUnset == {"unset"}

\* The dimensions reinitVncServer may find different from vncscr's.
Rotated == {size \in Sizes : <<screenSize, size>> \in Turns}

\* A rotation swapped width and height: reinitVncServer starts its iteration.
BeginReinit ==
  /\ mainPc = "idle"
  /\ target' \in Rotated
  /\ mainPc' = "scale" /\ toScale' = Live
  /\ UNCHANGED <<toDraw, toMark, screenSize, sock, normal, regionVars, sizeVars,
                 cursorDue, inPc, outPc, localVars, stale>>

\* rfbScalingSetup(cl, target) gives the client a scaled copy of the new
\* dimensions; no thread is signalled.
ScalingSetup(c) ==
  /\ mainPc = "scale" /\ c \in toScale
  /\ toScale' = toScale \ {c}
  /\ ownCopy' = [ownCopy EXCEPT ![c] = TRUE]
  /\ clientSize' = [clientSize EXCEPT ![c] = target]
  /\ newFBSizePending' = [newFBSizePending EXCEPT ![c] = TRUE]
  /\ stale' = [stale EXCEPT ![c] = Tiles]
  /\ UNCHANGED <<mainPc, toDraw, toMark, screenSize, target, sock,
                 normal, regionVars, useNewFBSize, toldSize, cursorDue, inPc,
                 outPc, localVars>>

\* Without memory for the copy, rfbScalingSetup leaves things alone.
ScalingFails(c) ==
  /\ mainPc = "scale" /\ c \in toScale
  /\ toScale' = toScale \ {c}
  /\ UNCHANGED <<mainPc, toDraw, toMark, screenSize, target, sock,
                 normal, regionVars, sizeVars, cursorDue, inPc, outPc, localVars,
                 stale>>

\* The iterator skips closed clients; then vncscr takes the new dimensions,
\* and with it every client that reads vncscr itself.
AssignSize ==
  /\ mainPc = "scale" /\ toScale \cap Live = {}
  /\ toScale' = {} /\ screenSize' = target
  /\ clientSize' = [c \in Clients |-> IF ownCopy[c] THEN clientSize[c] ELSE target]
  /\ stale' = [c \in Clients |-> IF ownCopy[c] THEN stale[c] ELSE Tiles]
  /\ mainPc' = "draw" /\ toDraw' = Tiles
  /\ UNCHANGED <<toMark, target, sock, normal, regionVars,
                 useNewFBSize, newFBSizePending, ownCopy, toldSize, cursorDue,
                 inPc, outPc, localVars>>

\* update_screen writes a tile of vncscr; clients may be reading it meanwhile.
DrawTile(t) ==
  /\ mainPc = "draw" /\ t \in toDraw
  /\ toDraw' = toDraw \ {t}
  /\ stale' = [c \in Clients |-> IF ownCopy[c] THEN stale[c] ELSE stale[c] \cup {t}]
  /\ UNCHANGED <<mainPc, toScale, toMark, screenSize, target, sock,
                 normal, regionVars, sizeVars, cursorDue, inPc, outPc, localVars>>

\* rfbMarkRectAsModified(vncscr, 0, 0, width, height) first brings the scaled
\* copies up to date.
BeginRescale ==
  /\ mainPc = "draw" /\ toDraw = {}
  /\ mainPc' = "rescale" /\ toDraw' = Tiles
  /\ UNCHANGED <<toScale, toMark, screenSize, target, sock, normal,
                 regionVars, sizeVars, cursorDue, inPc, outPc, localVars, stale>>

\* rfbScaledScreenUpdate writes a tile of the scaled copies.
RescaleTile(t) ==
  /\ mainPc = "rescale" /\ t \in toDraw
  /\ toDraw' = toDraw \ {t}
  /\ stale' = [c \in Clients |-> IF ownCopy[c] THEN stale[c] \cup {t} ELSE stale[c]]
  /\ UNCHANGED <<mainPc, toScale, toMark, screenSize, target, sock,
                 normal, regionVars, sizeVars, cursorDue, inPc, outPc, localVars>>

\* Then rfbMarkRegionAsModified starts its iteration.
BeginMark ==
  /\ mainPc = "rescale" /\ toDraw = {}
  /\ mainPc' = "mark" /\ toMark' = Live
  /\ UNCHANGED <<toScale, toDraw, screenSize, target, sock, normal,
                 regionVars, sizeVars, cursorDue, inPc, outPc, localVars, stale>>

\* One client's turn in rfbMarkRegionAsModified.
MarkRegionAsModified(c) ==
  /\ mainPc = "mark" /\ c \in toMark
  /\ toMark' = toMark \ {c}
  /\ modified' = [modified EXCEPT ![c] = Tiles]
  /\ outPc' = Signalled(c)
  /\ UNCHANGED <<mainPc, toScale, toDraw, screenSize, target, sock,
                 normal, requested, sizeVars, cursorDue, inPc, localVars, stale>>

EndMark ==
  /\ mainPc = "mark" /\ toMark \cap Live = {}
  /\ mainPc' = "idle" /\ toMark' = {}
  /\ UNCHANGED <<toScale, toDraw, screenSize, target, sock, normal,
                 regionVars, sizeVars, cursorDue, inPc, outPc, localVars, stale>>

-----------------------------------------------------------------------------
(* The listener, and clientInput.                                          *)

\* rfbNewTCPOrUDPClient fills a record, with the whole screen modified, and
\* puts it in the list; rfbStartOnHoldClient creates the client thread.
Accept(c) ==
  /\ sock[c] = "none"
  /\ sock' = [sock EXCEPT ![c] = "open"]
  /\ modified' = [modified EXCEPT ![c] = Tiles]
  /\ clientSize' = [clientSize EXCEPT ![c] = screenSize]
  /\ inPc' = [inPc EXCEPT ![c] = "start"]
  /\ UNCHANGED <<mainVars, normal, requested, useNewFBSize, newFBSizePending,
                 ownCopy, toldSize, cursorDue, outPc, localVars, stale>>

\* clientInput creates the output thread.
StartOutput(c) ==
  /\ inPc[c] = "start"
  /\ inPc' = [inPc EXCEPT ![c] = "select"]
  /\ outPc' = [outPc EXCEPT ![c] = "check"]
  /\ UNCHANGED <<mainVars, sock, normal, regionVars, sizeVars, cursorDue,
                 localVars, stale>>

\* The handshake ends with rfbProcessClientInitMessage: ServerInit carries the
\* dimensions of cl->screen, not those of cl->scaledScreen.
ProcessClientInit(c) ==
  /\ inPc[c] = "select" /\ sock[c] = "open" /\ ~normal[c]
  /\ toldSize' = [toldSize EXCEPT ![c] = screenSize]
  /\ normal' = [normal EXCEPT ![c] = TRUE]
  /\ UNCHANGED <<mainVars, sock, regionVars, useNewFBSize, newFBSizePending,
                 ownCopy, clientSize, cursorDue, inPc, outPc, localVars, stale>>

\* SetEncodings first resets every capability ...
ResetEncodings(c) ==
  /\ inPc[c] = "select" /\ sock[c] = "open" /\ normal[c]
  /\ useNewFBSize' = [useNewFBSize EXCEPT ![c] = FALSE]
  /\ cursorDue' = [cursorDue EXCEPT ![c] = FALSE]
  /\ inPc' = [inPc EXCEPT ![c] = "encodings"]
  /\ UNCHANGED <<mainVars, sock, normal, regionVars, newFBSizePending, ownCopy,
                 clientSize, toldSize, outPc, localVars, stale>>

\* ... then reads the list, an encoding at a time, and turns on what it names.
ReadsEncodings(c) == inPc[c] \in {"encodings", "shaped"} /\ sock[c] = "open"

EnableNewFBSize(c) ==
  /\ ReadsEncodings(c)
  /\ useNewFBSize' = [useNewFBSize EXCEPT ![c] = TRUE]
  /\ UNCHANGED <<mainVars, sock, normal, regionVars, newFBSizePending, ownCopy,
                 clientSize, toldSize, cursorDue, inPc, outPc, localVars, stale>>

\* The first cursor encoding: rfbRedrawAfterHideCursor marks the tiles a cursor
\* was drawn on, under updateMutex, and signals nobody ...
HideCursor(c, hidden) ==
  /\ inPc[c] = "encodings" /\ sock[c] = "open"
  /\ modified' = [modified EXCEPT ![c] = @ \cup hidden]
  /\ inPc' = [inPc EXCEPT ![c] = "hidden"]
  /\ UNCHANGED <<mainVars, sock, normal, requested, sizeVars, cursorDue, outPc,
                 localVars, stale>>

\* ... then its shape is due.
EnableCursorShape(c) ==
  /\ inPc[c] = "hidden"
  /\ cursorDue' = [cursorDue EXCEPT ![c] = TRUE]
  /\ inPc' = [inPc EXCEPT ![c] = "shaped"]
  /\ UNCHANGED <<mainVars, sock, normal, regionVars, sizeVars, outPc, localVars,
                 stale>>

\* The position, or a second shape encoding (rich and X cursor): it is due.
EnableCursorPos(c) ==
  /\ ReadsEncodings(c)
  /\ cursorDue' = [cursorDue EXCEPT ![c] = TRUE]
  /\ UNCHANGED <<mainVars, sock, normal, regionVars, sizeVars, inPc, outPc,
                 localVars, stale>>

\* The list is read; without a shape the position is disabled again.
EndEncodings(c) ==
  /\ ReadsEncodings(c)
  /\ cursorDue' = [cursorDue EXCEPT ![c] = @ /\ inPc[c] = "shaped"]
  /\ inPc' = [inPc EXCEPT ![c] = "select"]
  /\ UNCHANGED <<mainVars, sock, normal, regionVars, sizeVars, outPc, localVars,
                 stale>>

FramebufferUpdateRequest(c, region, incremental) ==
  /\ inPc[c] = "select" /\ sock[c] = "open" /\ normal[c]
  /\ requested' = [requested EXCEPT ![c] = @ \cup region]
  /\ modified' = IF incremental THEN modified
                 ELSE [modified EXCEPT ![c] = @ \cup region]
  /\ outPc' = Signalled(c)
  /\ UNCHANGED <<mainVars, sock, normal, sizeVars, cursorDue, inPc, localVars,
                 stale>>

\* A read fails or the viewer hangs up: rfbCloseClient.
ReadFails(c) ==
  /\ (inPc[c] = "select" /\ sock[c] = "open") \/ ReadsEncodings(c)
  /\ sock' = [sock EXCEPT ![c] = "closed"]
  /\ outPc' = Signalled(c)
  /\ inPc' = [inPc EXCEPT ![c] = "select"]
  /\ UNCHANGED <<mainVars, normal, regionVars, sizeVars, cursorDue, localVars,
                 stale>>

\* The output thread has closed the socket: reading the list fails.
ReadClosed(c) ==
  /\ inPc[c] \in {"encodings", "shaped"} /\ sock[c] = "closed"
  /\ outPc' = Signalled(c)
  /\ inPc' = [inPc EXCEPT ![c] = "select"]
  /\ UNCHANGED <<mainVars, sock, normal, regionVars, sizeVars, cursorDue, localVars,
                 stale>>

\* select fails, as when the program's own SIGCONT handler interrupts it: the
\* loop is left although the socket is open.
SelectFails(c) ==
  /\ inPc[c] = "select" /\ sock[c] = "open"
  /\ inPc' = [inPc EXCEPT ![c] = "signal"]
  /\ UNCHANGED <<mainVars, sock, normal, regionVars, sizeVars, cursorDue, outPc,
                 localVars, stale>>

\* The loop sees cl->sock = -1 and leaves.
LeaveLoop(c) ==
  /\ inPc[c] = "select" /\ sock[c] = "closed"
  /\ inPc' = [inPc EXCEPT ![c] = "signal"]
  /\ UNCHANGED <<mainVars, sock, normal, regionVars, sizeVars, cursorDue, outPc,
                 localVars, stale>>

\* "Get rid of the output thread."
SignalOutput(c) ==
  /\ inPc[c] = "signal"
  /\ outPc' = Signalled(c)
  /\ inPc' = [inPc EXCEPT ![c] = "join"]
  /\ UNCHANGED <<mainVars, sock, normal, regionVars, sizeVars, cursorDue,
                 localVars, stale>>

\* Mutant of OutputJoined: the output thread is not waited for.
OutputDetached(c) == TRUE

\* pthread_join(output_thread) can return.
OutputJoined(c) == outPc[c] = "dead"

\* pthread_join returns; rfbClientConnectionGone unlinks and frees the record.
JoinAndFree(c) ==
  /\ inPc[c] = "join" /\ OutputJoined(c)
  /\ sock' = [sock EXCEPT ![c] = "none"]
  /\ normal' = [normal EXCEPT ![c] = FALSE]
  /\ modified' = [modified EXCEPT ![c] = {}]
  /\ requested' = [requested EXCEPT ![c] = {}]
  /\ useNewFBSize' = [useNewFBSize EXCEPT ![c] = FALSE]
  /\ newFBSizePending' = [newFBSizePending EXCEPT ![c] = FALSE]
  /\ cursorDue' = [cursorDue EXCEPT ![c] = FALSE]
  /\ ownCopy' = [ownCopy EXCEPT ![c] = FALSE]
  /\ inPc' = [inPc EXCEPT ![c] = "none"]
  /\ outPc' = [outPc EXCEPT ![c] = "none"]
  /\ given' = [given EXCEPT ![c] = {}]
  /\ sendCursor' = [sendCursor EXCEPT ![c] = FALSE]
  /\ stale' = [stale EXCEPT ![c] = Tiles]
  /\ toScale' = toScale \ {c} /\ toMark' = toMark \ {c}
  /\ UNCHANGED <<mainPc, toDraw, screenSize, target, clientSize,
                 toldSize, update>>

-----------------------------------------------------------------------------
(* clientOutput, with rfbSendFramebufferUpdate.                            *)

\* cl->sock = -1 is read without the mutex: the thread ends.
OutputExit(c) ==
  /\ outPc[c] = "check" /\ sock[c] = "closed"
  /\ outPc' = [outPc EXCEPT ![c] = "dead"]
  /\ UNCHANGED <<mainVars, sock, normal, regionVars, sizeVars, cursorDue, inPc,
                 localVars, stale>>

\* Alive and RFB_NORMAL: go and take the mutex (else sleep and look again).
OutputProceed(c) ==
  /\ outPc[c] = "check" /\ sock[c] = "open" /\ normal[c]
  /\ outPc' = [outPc EXCEPT ![c] = "lock"]
  /\ UNCHANGED <<mainVars, sock, normal, regionVars, sizeVars, cursorDue, inPc,
                 localVars, stale>>

\* FB_UPDATE_PENDING(cl)
FBUpdatePending(c) ==
  \/ cursorDue[c]
  \/ useNewFBSize[c] /\ newFBSizePending[c]
  \/ modified[c] # {}

\* Under updateMutex: is there an update to send?  Else WAIT, atomically.
OutputTest(c) ==
  /\ outPc[c] = "lock"
  /\ outPc' = [outPc EXCEPT ![c] =
                 IF requested[c] # {} /\ FBUpdatePending(c) THEN "defer" ELSE "wait"]
  /\ UNCHANGED <<mainVars, sock, normal, regionVars, sizeVars, cursorDue, inPc,
                 localVars, stale>>

\* POSIX lets pthread_cond_wait return unsignalled.
SpuriousWakeup(c) ==
  /\ outPc[c] = "wait"
  /\ outPc' = [outPc EXCEPT ![c] = "check"]
  /\ UNCHANGED <<mainVars, sock, normal, regionVars, sizeVars, cursorDue, inPc,
                 localVars, stale>>

\* Mutant of Snapshot: modifiedRegion is emptied when it is copied.
SnapshotClears(c) ==
  /\ outPc[c] = "defer"
  /\ given' = [given EXCEPT ![c] = modified[c]]
  /\ modified' = [modified EXCEPT ![c] = {}]
  /\ outPc' = [outPc EXCEPT ![c] = "begin"]
  /\ UNCHANGED <<mainVars, sock, normal, requested, sizeVars, cursorDue, inPc,
                 sendCursor, update, stale>>

\* After the deferral, a copy of modifiedRegion is taken under the mutex.
Snapshot(c) ==
  /\ outPc[c] = "defer"
  /\ given' = [given EXCEPT ![c] = modified[c]]
  /\ outPc' = [outPc EXCEPT ![c] = "begin"]
  /\ UNCHANGED <<mainVars, sock, normal, regionVars, sizeVars, cursorDue, inPc,
                 sendCursor, update, stale>>

\* A pending size change is answered with a NewFBSize rectangle alone; the
\* snapshot is dropped.
BeginSize(c) ==
  /\ outPc[c] = "begin" /\ useNewFBSize[c] /\ newFBSizePending[c]
  /\ newFBSizePending' = [newFBSizePending EXCEPT ![c] = FALSE]
  /\ given' = [given EXCEPT ![c] = {}]
  /\ outPc' = [outPc EXCEPT ![c] = "size"]
  /\ UNCHANGED <<mainVars, sock, normal, regionVars, useNewFBSize, ownCopy,
                 clientSize, toldSize, cursorDue, inPc, sendCursor, update, stale>>

\* Mutant of SendNewFBSize: cl->screen's dimensions, not cl->scaledScreen's.
SendMainSize(c) ==
  /\ outPc[c] = "size" /\ sock[c] = "open"
  /\ toldSize' = [toldSize EXCEPT ![c] = screenSize]
  /\ outPc' = [outPc EXCEPT ![c] = "check"]
  /\ UNCHANGED <<mainVars, sock, normal, regionVars, useNewFBSize,
                 newFBSizePending, ownCopy, clientSize, cursorDue, inPc,
                 localVars, stale>>

\* rfbSendNewFBSize reads the dimensions after the flag was cleared.
SendNewFBSize(c) ==
  /\ outPc[c] = "size" /\ sock[c] = "open"
  /\ toldSize' = [toldSize EXCEPT ![c] = clientSize[c]]
  /\ outPc' = [outPc EXCEPT ![c] = "check"]
  /\ UNCHANGED <<mainVars, sock, normal, regionVars, useNewFBSize,
                 newFBSizePending, ownCopy, clientSize, cursorDue, inPc,
                 localVars, stale>>

\* No size change seen: decide, without the mutex, about the cursor shape.
BeginUpdate(c) ==
  /\ outPc[c] = "begin" /\ ~(useNewFBSize[c] /\ newFBSizePending[c])
  /\ sendCursor' = [sendCursor EXCEPT ![c] = cursorDue[c]]
  /\ outPc' = [outPc EXCEPT ![c] = "region"]
  /\ UNCHANGED <<mainVars, sock, normal, regionVars, sizeVars, cursorDue, inPc,
                 given, update, stale>>

\* Mutant of UpdateRegion: the intersection with requestedRegion is missing.
UpdateRegionUnasked(c) == given[c]

\* updateRegion = givenUpdateRegion /\ requestedRegion
UpdateRegion(c) == given[c] \cap requested[c]

\* Under updateMutex: nothing of the snapshot is requested, no update.
NothingToSend(c) ==
  /\ outPc[c] = "region"
  /\ UpdateRegion(c) = {} /\ ~sendCursor[c]
  /\ given' = [given EXCEPT ![c] = {}]
  /\ outPc' = [outPc EXCEPT ![c] = "check"]
  /\ UNCHANGED <<mainVars, sock, normal, regionVars, sizeVars, cursorDue, inPc,
                 sendCursor, update, stale>>

\* What is sent for a region: the region itself or, when it has more than
\* maxRectsPerUpdate rectangles, its bounding box.
Rectangles(region) ==
  {region} \cup {box \in SUBSET Tiles : region # {} /\ region \subseteq box}

\* Under updateMutex: updateRegion leaves modifiedRegion, the request is spent.
TakeRegion(c) ==
  /\ outPc[c] = "region"
  /\ UpdateRegion(c) # {} \/ sendCursor[c]
  /\ \E sent \in Rectangles(UpdateRegion(c)) : update' = [update EXCEPT ![c] = sent]
  /\ modified' = [modified EXCEPT ![c] = @ \ UpdateRegion(c)]
  /\ requested' = [requested EXCEPT ![c] = {}]
  /\ given' = [given EXCEPT ![c] = {}]
  /\ outPc' = [outPc EXCEPT ![c] = "send"]
  /\ UNCHANGED <<mainVars, sock, normal, sizeVars, cursorDue, inPc, sendCursor,
                 stale>>

\* The cursor's rectangles go first; its flag is cleared before it is encoded.
SendCursorShape(c) ==
  /\ outPc[c] = "send" /\ sendCursor[c]
  /\ cursorDue' = [cursorDue EXCEPT ![c] = FALSE]
  /\ sendCursor' = [sendCursor EXCEPT ![c] = FALSE]
  /\ UNCHANGED <<mainVars, sock, normal, regionVars, sizeVars, inPc, outPc,
                 given, update, stale>>

\* An encoder reads a tile of the framebuffer, without any lock.
SendRect(c, t) ==
  /\ outPc[c] = "send" /\ ~sendCursor[c] /\ sock[c] = "open"
  /\ t \in update[c]
  /\ update' = [update EXCEPT ![c] = @ \ {t}]
  /\ stale' = [stale EXCEPT ![c] = @ \ {t}]
  /\ UNCHANGED <<mainVars, sock, normal, regionVars, sizeVars, cursorDue, inPc,
                 outPc, given, sendCursor>>

FinishUpdate(c) ==
  /\ outPc[c] = "send" /\ ~sendCursor[c] /\ update[c] = {}
  /\ outPc' = [outPc EXCEPT ![c] = "check"]
  /\ UNCHANGED <<mainVars, sock, normal, regionVars, sizeVars, cursorDue, inPc,
                 localVars, stale>>

\* rfbSendUpdateBuf fails and calls rfbCloseClient: the update is abandoned.
WriteFails(c) ==
  /\ outPc[c] \in {"size", "send"}
  /\ sock' = [sock EXCEPT ![c] = "closed"]
  /\ outPc' = [outPc EXCEPT ![c] = "check"]
  /\ update' = [update EXCEPT ![c] = {}]
  /\ sendCursor' = [sendCursor EXCEPT ![c] = FALSE]
  /\ UNCHANGED <<mainVars, normal, regionVars, sizeVars, cursorDue, inPc, given,
                 stale>>

-----------------------------------------------------------------------------
MainPass ==
  \/ \E c \in Clients : ScalingSetup(c) \/ ScalingFails(c) \/ MarkRegionAsModified(c)
  \/ AssignSize
  \/ \E t \in Tiles : DrawTile(t) \/ RescaleTile(t)
  \/ BeginRescale \/ BeginMark \/ EndMark

\* clientInput, where it does not wait for the viewer.
InputRuns(c) ==
  \/ StartOutput(c) \/ EnableCursorShape(c) \/ ReadClosed(c)
  \/ LeaveLoop(c) \/ SignalOutput(c) \/ JoinAndFree(c)

\* clientInput, moved by the viewer or by a signal.
Viewer(c) ==
  \/ Accept(c) \/ ProcessClientInit(c) \/ ResetEncodings(c) \/ EnableNewFBSize(c)
  \/ EnableCursorPos(c) \/ EndEncodings(c) \/ ReadFails(c) \/ SelectFails(c)
  \/ \E hidden \in SUBSET Tiles : HideCursor(c, hidden)
  \/ \E region \in SUBSET Tiles, incremental \in BOOLEAN :
        FramebufferUpdateRequest(c, region, incremental)

OutputRuns(c) ==
  \/ OutputExit(c) \/ OutputProceed(c) \/ OutputTest(c) \/ Snapshot(c)
  \/ BeginSize(c) \/ SendNewFBSize(c) \/ BeginUpdate(c) \/ NothingToSend(c)
  \/ TakeRegion(c) \/ SendCursorShape(c) \/ FinishUpdate(c) \/ WriteFails(c)
  \/ \E t \in Tiles : SendRect(c, t)

Next ==
  \/ BeginFrame \/ BeginReinit \/ MainPass
  \/ \E c \in Clients : InputRuns(c) \/ Viewer(c) \/ OutputRuns(c) \/ SpuriousWakeup(c)

Spec == Init /\ [][Next]_vars

\* Threads that can run do run: the scheduler is fair, mutexes are short.
ThreadFairness ==
  /\ WF_vars(MainPass)
  /\ \A c \in Clients : WF_vars(InputRuns(c)) /\ WF_vars(OutputRuns(c))

FairSpec == Spec /\ ThreadFairness

\* A viewer that stays connected ends its handshake and its SetEncodings, and
\* keeps asking for the screen, as the protocol expects of it.
ViewerFairness ==
  \A c \in Clients :
    /\ WF_vars(ProcessClientInit(c))
    /\ WF_vars(EndEncodings(c))
    /\ SF_vars(FramebufferUpdateRequest(c, Tiles, TRUE))

LiveSpec == FairSpec /\ ViewerFairness

-----------------------------------------------------------------------------
\* The cycle implements UpdateService: the request and the update in progress
\* are its asked and sending, the redrawn tiles its behind.
Service == INSTANCE UpdateService WITH behind <- stale, asked <- requested,
                                       sending <- update
ServiceSpec == Service!Spec

-----------------------------------------------------------------------------
(* Properties.                                                             *)

TypeOK ==
  /\ mainPc \in {"idle", "scale", "draw", "rescale", "mark"}
  /\ toScale \subseteq Clients /\ toDraw \subseteq Tiles /\ toMark \subseteq Clients
  /\ screenSize \in Sizes /\ target \in Sizes
  /\ sock \in [Clients -> {"none", "open", "closed"}]
  /\ normal \in [Clients -> BOOLEAN]
  /\ modified \in [Clients -> SUBSET Tiles]
  /\ requested \in [Clients -> SUBSET Tiles]
  /\ useNewFBSize \in [Clients -> BOOLEAN]
  /\ newFBSizePending \in [Clients -> BOOLEAN]
  /\ cursorDue \in [Clients -> BOOLEAN]
  /\ ownCopy \in [Clients -> BOOLEAN]
  /\ clientSize \in [Clients -> Sizes]
  /\ toldSize \in [Clients -> Sizes]
  /\ inPc \in [Clients -> {"none", "start", "select", "encodings", "hidden", "shaped",
                           "signal", "join"}]
  /\ outPc \in [Clients -> {"none", "check", "lock", "wait", "defer", "begin",
                            "size", "region", "send", "dead"}]
  /\ given \in [Clients -> SUBSET Tiles]
  /\ sendCursor \in [Clients -> BOOLEAN]
  /\ update \in [Clients -> SUBSET Tiles]
  /\ stale \in [Clients -> SUBSET Tiles]

\* The capture loop is in a pass that will still mark c's whole screen.
MarkComing(c) ==
  \/ mainPc \in {"scale", "draw", "rescale"}
  \/ mainPc = "mark" /\ c \in toMark

\* No update is lost: a tile whose last redraw a live client has not been sent
\* is in its modifiedRegion, in the update its output thread is sending, or
\* about to be marked by the capture loop, however the three interleave.
NoLostUpdate ==
  \A c \in Live : MarkComing(c) \/ stale[c] \subseteq modified[c] \cup update[c]

\* No wakeup is lost: while the output thread of a live client waits on updateCond
\* with a request open, the client has been sent every tile as it was last drawn,
\* or the capture loop is still to mark, and so to signal.
NoLostWakeup ==
  \A c \in Live :
    outPc[c] = "wait" /\ requested[c] # {} => stale[c] = {} \/ MarkComing(c)

\* No size change is lost: a client that was given a scaled screen knows its
\* dimensions, or newFBSizePending is set, or NewFBSize is being written.
NoLostResize ==
  \A c \in Live : normal[c] /\ ownCopy[c] =>
    \/ toldSize[c] = clientSize[c]
    \/ newFBSizePending[c]
    \/ outPc[c] = "size"

\* A client's record outlives its threads: while either runs the record is in
\* use, past the handshake only once RFB_NORMAL, past the wait only with an open
\* request, and with no leftover of an earlier update or client.  (Together with
\* this the invariants above are inductive.)
RecordInUse ==
  \A c \in Clients :
    /\ sock[c] = "none" <=> inPc[c] = "none"
    /\ outPc[c] = "none" <=> inPc[c] \in {"none", "start"}
    /\ outPc[c] = "dead" => sock[c] = "closed"
    /\ outPc[c] \notin {"none", "check", "dead"} => normal[c]
    /\ outPc[c] \in {"defer", "begin", "region"} => requested[c] # {}
    /\ outPc[c] # "send" => update[c] = {}
    /\ outPc[c] \notin {"region", "send"} => ~sendCursor[c]
    /\ sock[c] = "none" => ~normal[c] /\ ~ownCopy[c] /\ c \notin toScale
    /\ ownCopy[c] /\ ~normal[c] => newFBSizePending[c]

\* The connection is up and clientInput still reads what the viewer sends.
Served(c) == sock[c] = "open" /\ inPc[c] \notin {"signal", "join"}

\* A redrawn tile eventually reaches every client that keeps asking, for as long
\* as its requests are read, whatever the capture loop and the other threads do.
EventuallyRefreshed ==
  \A c \in Clients, t \in Tiles :
    Served(c) /\ t \in stale[c] ~> ~Served(c) \/ t \notin stale[c]

\* A client that supports NewFBSize is eventually told the dimensions of the
\* scaled screen a rotation gave it, for as long as its requests are read.
EventuallyResized ==
  \A c \in Clients :
    (Served(c) /\ normal[c] /\ ownCopy[c] /\ useNewFBSize[c])
      ~> (~Served(c) \/ ~useNewFBSize[c] \/ toldSize[c] = clientSize[c])

\* newFBSizePending says "framebuffer size was changed" (rfb.h): outside the
\* iteration of reinitVncServer, a client that reads vncscr itself and was
\* told other dimensions has the flag set.
ResizeFlagged ==
  \A c \in Live : normal[c] /\ ~ownCopy[c] /\ mainPc # "scale" =>
    toldSize[c] = clientSize[c] \/ newFBSizePending[c]

\* "Get rid of the output thread." (main.c): once its socket is closed, a
\* client's output thread ends, and the client is freed.
ClosedClientFreed ==
  \A c \in Clients : sock[c] = "closed" ~> sock[c] = "none"
=============================================================================
