# droid VNC server: TLA+ models and proofs

The droid VNC server mirrors an Android display: a native program receives
frames from *minicap*, draws them into a framebuffer and serves it to VNC
viewers with a vendored *libvncserver*, run with a background thread
(`rfbRunEventLoop(vncscr, -1, TRUE)`) and two threads per viewer. This directory
models the parts of it where threads meet, checks them with TLC and proves the
main invariants with TLAPS. Paths below are relative to `src/jni/vnc/`; `LIB` is
`libvncserver/libvncserver/`.

## Inventory

| Component | State | Operations | Interacts through |
|---|---|---|---|
| Capture loop (`droidvncserver.cpp` main) | the frame held, `pending`, `imageRotation`, `minicap`, `gWaiter` | wait, consume, skip, draw, release, follow a rotation | FrameWaiter's counter, minicap, the framebuffer, `rfbMarkRectAsModified` |
| FrameWaiter (`droidvncserver.cpp`) | `mPendingFrames`, `mStopped` | waitForFrame, getPendingFrames, reportExtraConsumption, onFrameAvailable, stop | called by main and by minicap's thread |
| Screen orientation (`droidvncserver.cpp`, `update_screen*.cpp`) | `screenRotation`, `imageRotation`, `allowedRotation` | getImageRotation, index maps of update_screen | main |
| reinitVncServer (`droidvncserver.cpp`) | `vncscr->width`, `height` | switch every client to a scaled copy, assign the dimensions | iterates the client list, `rfbScalingSetup` |
| Update cycle (`LIB/main.c`, `LIB/rfbserver.c`) | per client: `sock`, `state`, `modifiedRegion`, `requestedRegion`, `newFBSizePending`, encodings | clientInput, clientOutput, rfbSendFramebufferUpdate, message handlers | `updateMutex`, `updateCond`, `sendMutex`, unlocked reads |
| Client list (`LIB/rfbserver.c`) | `clientHead`, `next`, `prev`, `refCount` | link, iterate, reference, unlink, drain, free | `rfbClientListMutex`, `refCountMutex`, `deleteCond` |
| Scaled screens (`LIB/scale.c`) | chain of copies, `scaledScreenRefCount` | find, allocate, link, refresh, switch a client | main, clientInput, listener |
| Listener (`LIB/main.c`) | the local `cl` | accept, create the record, start the client thread | client list |
| Handshake, authentication (`LIB/rfbserver.c`, `LIB/auth.c`) | `cl->state`, the challenge | version, security type, response, ClientInit | clientInput only |
| Cursor (`LIB/cursor.c`) | pixels under the cursor | show, hide, send the shape | the shared framebuffer |
| Rotation watcher (`rotation_watcher.cpp`) | the pipe, `rotateBuffer`, `screenRotation` | check_rotation_change, line by line | main, a process of its own |
| Screenshot requests (`droidvncserver.cpp`) | pid file, screenshot file, pending signals | request, deliver, write, answer, time out | processes, a signal handler on any thread |
| Options (`droidvncserver.cpp`) | the option variables | parse | main, before anything runs |
| Encoders, translation, regions (`LIB/tight.c`, `zrle.c`, `rfbregion.c`, ...) | buffers | pure functions of the framebuffer | the output thread |

The behaviours that are hard to test:

* the **output thread** copies `modifiedRegion`, tests for a size change, and
  takes the region it sends in separate critical sections, while frames are
  drawn and marked, requests arrive and the screen is switched;
* sockets, `useNewFBSize` and `newFBSizePending` are also read **outside** the mutex;
* the **client list** is walked without its mutex, on references that are
  counted after the record was reached;
* **scaled copies** are linked and counted by the threads of every client, each
  under its own mutex or none, while main refreshes those that are in use;
* a **rotation** arrives through a pipe in pieces and changes the picture, the
  capture and the screen's dimensions one after the other;
* a **screenshot** is taken by a signal handler that may interrupt any thread
  anywhere, for a process that waits four seconds, and either may stop;
* the **capture loop** counts frames in one thread and consumes them in another,
  in three different ways, and tears minicap down at every rotation;
* what must eventually happen: a redrawn pixel reaches the viewer, a rotation is
  followed, a client that left is freed.

What makes each component correct, in short: no tile is forgotten and no wakeup
missed (update cycle); a record is in the list exactly while it runs and is not
freed under a reference (client list); every announced frame is consumed once
(capture loop); a copy that has viewers is refreshed (scaled screens); the
picture is the whole panel in an orientation the options ask for, and the last
report is followed (orientation, watcher, options); who asks for a screenshot
gets one, whole and its own (screenshots). `PROJECT.json`
lists each hazard at its line, with the properties that cover it or the reason
there is none yet.

## Modules

| Module | Models | Composition |
|---|---|---|
| `UpdateService` | abstract specification: what a viewer is promised | |
| `ClientUpdate` | capture loop's drawing and marking, listener, clientInput, clientOutput, per client | implements `UpdateService` (`Service == INSTANCE`) |
| `ClientList` | records, links, iterators, references | |
| `FrameSource` | abstract specification: frames are lent one at a time, each once | |
| `CaptureLoop` | main loop, FrameWaiter, minicap (external) | implements `FrameSource` (`Source == INSTANCE`) |
| `ScaledScreens` | scale.c and all callers of `rfbScalingSetup` | |
| `Orientation` | getImageRotation, dimensions, index maps of updateScreen; a reference for them | operators only |
| `Options` | the options that turn the screen; what the usage says of them | operators only |
| `RotationReports` | abstract specification: reports are seen once, in order | |
| `RotationWatcher` | the watcher process (external), the pipe, check_rotation_change | implements `RotationReports` (`Reports == INSTANCE`) |
| `Rotation` | main from its command line to the picture it serves | composes the three modules above with main |
| `Screenshot` | requesting processes, the server's threads and handler, the files | |
| `MCClientUpdate`, `MCRotation`, `MCScaledScreens` | symmetry and inputs of the instances TLC checks | extend the modules above |
| `ClientUpdateProofs`, `ClientListProofs`, `CaptureLoopProofs`, `ScaledScreensProofs`, `ScalingProofs`, `OrientationProofs`, `RotationProofs`, `ScreenshotProofs` | theorems | extend the modules above |

### ClientUpdate

`mainPc` says where the capture loop stands: `scale` is the iteration of
`reinitVncServer`, `draw` the writes of `update_screen`, `rescale` those of
`rfbScaledScreenUpdate`, `mark` the iteration of `rfbMarkRegionAsModified`. `inPc`
and `outPc` are the threads of a client. `outPc` follows the source: `check`
(main.c:452), `lock` (462), `wait` (476), `defer` (484), `begin`
(rfbserver.c:2729), `size` (2736), `region` (2813), `send` (3055).

A region is a set of tiles. What happens under one hold of `cl->updateMutex` is
one step; the reads the code makes outside it (`sock`, `newFBSizePending`,
`useNewFBSize`, the cursor flags) are steps of their own. Drawing, refreshing a
scaled copy and reading by an encoder are one step per tile, so an update can
mix old and new tiles. A region with more than `maxRectsPerUpdate` rectangles
may be sent as a larger set (its bounding box).

`clientInput` leaves its loop in two ways: the socket is closed (`LeaveLoop`), or
`select` fails while it is open (`SelectFails`, main.c:538-541), as when the
program's own SIGCONT handler interrupts it. Then it waits for an output thread
that goes on: the viewer stays connected and is not read any more. `Served`
says that this has not happened. SetEncodings is read from the socket in pieces
and follows the code's order: capabilities reset, the hidden cursor's region
added to `modifiedRegion` without a signal (`HideCursor`, cursor.c:698-701), the
shape due, the size changes enabled.

Two history variables say what the viewer knows: `stale` holds the tiles
redrawn since they were last read for it, `toldSize` the dimensions last sent.
A freed record is reset, and the client of the model may connect again.

`UpdateService` has only `behind`, `asked` and `sending`, mapped to `stale`,
`requested` and `update`: no answer without an open request, one answer at a
time, each spends the whole request, and one with pixels holds some that were
asked for. It does not promise that *only* requested tiles are sent, because
of the bounding box.

Left out, so not claimed: pixel formats, copy regions (the program schedules no
copy; they stay empty), SetScale messages, a scaling other than 100, pseudo-rectangles other than the cursor's,
cursor painting, regions that keep their old geometry after a rotation.

### ClientList

One step is one critical section or one unlocked access of
`rfbClientIteratorNext`: test the socket, follow `next`, take the reference,
move on, drop the reference. `output[c]` is the client's output thread, which takes
a reference around every update it sends (main.c:495, 499) and is joined before
the record is unlinked. Addresses of freed records are allocated again.
As soon as an iterator is left with a freed record (`dangling`) the behaviour
of the C program is undefined and the model stops; this is why its runs do not
check for deadlock. `owner` follows a record: `run` (linked), `drain` (unlinked,
waiting for `refCount` 0), `free`, `none`.

### CaptureLoop

`pc` and `mode` follow `main`: `mode` tells the consumption at startup, after a
rotation (`first`), of skipped frames, of the last frame after skipping, and of
the drain loop. minicap is external and modelled as the loop uses it: it queues
frames of the configured orientation, calls the listener once per frame, never
twice at a time, `consumePendingFrame` returns the oldest or fails, and
`minicap_free` waits for a running callback. The rotation watcher reports any
orientation at any time. Both values of option `-f` are initial states.

### ScaledScreens

A thread of `rfbScalingSetup` stands in `op[t]`: `find` (scale.c:345), `allocate`
(284), `link` and `linked` (326-329), `refresh` (369), `lock` to `join` (378-383).
Three kinds of thread run it: a client's input thread (SetScale), the listener
(option `-s` when a client connects) and main (`reinitVncServer`). The head of
the chain and every count are plain memory, so a change is a read and a write;
`updateMutex` is one per client, as in the code. `walk` is the rest of the chain
that `rfbScaledScreenUpdate` has not come to. `rfbClientConnectionGone` gives the
count back without a lock, once no iterator holds the record. Copies are never
freed by the code, nor here. The history variable `settled` tells which viewers
had their screen when the frame was drawn. The history variable `raced` holds the
counts, and whether the chain, were read for one client between the read and the
write for another: what the updates of two clients have met in may be wrong from
then on, and nothing else. `MaxRaces` bounds how often that is followed.

Left out: how pixels are averaged, and the message of `rfbSendNewScaleSize`.
An allocation may fail at any time; the client then stays as it is (scale.c:387,
`AllocateFails`).

### Rotation: Orientation, Options, RotationWatcher

`Rotation` is main as one thread, with the watcher writing and minicap announcing
frames between any two steps. `waitForFrame` blocks: `TakeFrame` needs a frame that
is `ready`, and main looks at the pipe again only when none is left (`DrainEnds`).
The first frame after a rotation may not be consumed, which main does not look
at (droidvncserver.cpp:1047): `ConsumeFails` keeps the old frame, and the history
variable `lost` tells until when this shows. Any of the FATALs on the way may end
the server. `Orientation` keeps every pixel: a picture says where each point of the
panel is, so that a wrong index map, swapped dimensions or a rotation computed
for another frame all show in `View`. Its reference turns a picture a quarter at
a time. `RotationWatcher` keeps characters, because the property is about lines
that are cut: one step is one `fgets`. At the end of the file the code compares an
`errno` an earlier call left; both outcomes are steps (`CheckNothing`,
`CheckFails`). `Options` reads a command line word by word as main does, where
`-z` passes over the word behind it. `Honours` is what the usage says; `OptionsHonoured`
asks it of the accepted command lines where `ZLast` holds: the word behind -z is not itself an option (`-P` stands for the
other options with a value, `-f` for those without; neither turns the screen).
Of the queue of frames that `CaptureLoop` follows one by one, `ready` says here
only whether it is empty; frame skipping (`-f`) is in `CaptureLoop` alone.

### Screenshot

A requester (`-U`) unlinks the file, reads the pid file, sends SIGCONT and sleeps;
`pc` follows `dispatchScreenshotSignal`. A server's thread that the signal
interrupts runs `handler[t]`: `open`, `rows`, `close`, `answer`. Its functions
allocate, so it waits for ever when the thread it interrupted holds `heap`.
The steps of `MainLoop` are main's, as far as the handler sees them:
it follows a rotation and draws frames, the first after a rotation as those of the
loop. `drawn` holds the pictures that are in `vncbuf`, two of them between
`BeginDraw` and `EndDraw`; a handler on any thread may copy rows of either, at any time,
and reads the dimensions from `imageRotation` and `frame`, which change earlier.
Servers start and stop at any step; the pid file
stays behind, and a new server may install its handler and be signalled under
it. The file remembers who writes it, whether two wrote it at once or a writer
was cut off (`spoilt`), and what it holds.

What a screenshot met is history: `calm`, that nothing was drawn meanwhile,
`steady`, that main stayed in its loop with nothing to draw or to follow. `alone[q]`
is history too: no other requester is active, and when q's sleep ends the server
does not owe it a file (`Owes`: the signal is pending or the handler has not
closed the file, unless the server hangs before it opened it). The hanging
server that never writes is thus among the cases of `EndsWithShot`, and goes on
hanging while q takes its own screenshot; the late one is not. A normal screenshot starts a process of its own, waits for a
rotation and a frame (`FirstFrame`, for as long as it takes) and writes the same file.

`-U` uses the branch of `writeScreenToFile` for `.png` names, and so does the model.
The JPEG branch (595-620), which `-S` reaches, writes through an uninitialised
`FILE *f` that shadows the one opened before; it is not modelled.

## Runs

| Run | Question | Bounds | Result |
|---|---|---|---|
| `UpdateSafety` | are redraws, wakeups, size changes lost; do records outlive threads; is the service implemented | 1 client, 2 tiles, 2 sizes, any rotations | 2.0 million states, pass |
| `UpdateLive` | does every redrawn tile, and every size, arrive while the viewer is read | 1 client, 1 tile, at most 1 rotation | 134 thousand states, pass |
| `UpdateNewcomer` | is every client told of a size change (rfb.h:635) | 1 client, 1 tile, 1 rotation | violated |
| `UpdateJoin` | does a closed client end (comment main.c:564) | no rotation | violated |
| `CaptureFrames` | is every frame consumed once, as `FrameSource` says; does a callback meet a deleted waiter; is the last frame reached | queue of 4, 1 failure, 2 orientations | 10 thousand states, pass |
| `ListSafety` | is the list intact, are references exact, is no walk incomplete; is a client that left freed in the end | 2 records, 2 walks | 80 thousand states, pass |
| `ListReference` | is no record freed while an iterator has it (rfb.h:641) | 2 records, 1 walk | violated |
| `Rotation` | is the picture the whole panel in a wanted orientation; are reports read once, in order; does a forced rotation keep the size; is the command line given its meaning; is the last report followed | 3 rotations, 3 reports, a panel of 2 by 3, command lines of up to 4 of 8 words | 320 thousand states, pass |
| `Screenshot` | is a screenshot whole and its asker's; is it of one frame when none is drawn meanwhile; does a requester end | 1 requester, 2 threads, 2 servers, 2 orientations, 2 contents, 1 rotation | 1 million states, pass |
| `Scaling` | are counts and chain exact, do frames reach the viewer | 1 viewer, 3 copies, 2 orientations, factors 1 and 2 | 1.7 million states, pass |
| `ScalingPair` | the same of two viewers, but for what their updates met in | 2 viewers, 2 copies, 1 orientation, 1 race | 2.1 million states, pass |
| `ScalingShared` | does a viewer with a copy see every frame (scale.c:274) | 2 viewers, 1 copy, 1 orientation | violated |

Why the bounds are enough. Clients of the update cycle share only the capture
loop's pass over them, so one client meets every interleaving with it; the
theorems hold for any number. Two tiles separate what is requested from what
is modified, and both from what is sent; liveness follows one tile, for which
the other does not matter once safety holds. `UpdateSafety` lets the display turn
without end, as the theorems do; for liveness it turns once at most and then rests
(a size is announced in an update of its own, so a display that turned before every
update would leave no room for pixels). Two records are a head and an end of
the list, come back at the same address, and two walks and an output thread share a
reference count; a record with neighbours on both sides is left to the
theorems, which hold for any number. A queue of four lets the skip loop
and the drain loop take several frames; one failure per minicap instance leaves
a frame behind. Three reports meet a call of `check_rotation_change` that reads
one, half of one or more than one line; 0, 90 and 180 give one, two and three
digits and each branch of `getImageRotation` that a forced rotation takes; a
panel of 2 by 3 tells width from height and has no pixel that a quarter turn
leaves in place; the buffer never fills, as a report has at most four characters
(the guard is there). Three copies are
fewer than the four sizes, so memory runs out for the last one too (an
allocation may fail at any time besides). With two viewers every race is one between them; after one race each of the
threads goes on to use what it spoilt, and the theorems hold for any number of
viewers and races. Two servers give a requester a
predecessor that left a file, a pid or a pending signal behind. A second requester is
left to the theorems: it cannot hold the first, and `EndsWithShot` asks nothing of
two that ask at one time. Two orientations and two contents make the two pictures a
screenshot could mix, with a rotation between them or without.

### What the violated runs show

* `UpdateJoin`: `clientOutput` reads `cl->sock` before it locks `updateMutex`. If
  the connection closes and `clientInput` signals in between, the thread waits
  and is never signalled again, since iterators skip closed clients:
  `pthread_join` does not return, the record stays in the list. (A spurious
  wakeup would save it; the model allows one and does not promise it.)
* `UpdateNewcomer`: a client accepted while `reinitVncServer` iterates reads
  `vncscr`, is told its old dimensions, and never learns the new ones.
* `ListReference`: between reading `next` and counting the reference, the record
  can be unlinked, drained and freed. `PinnedNotFreed` is what does hold.
* `ScalingShared`: two clients have two mutexes, so their changes of one count
  can be lost, and a copy that has a viewer, counted below 1, is skipped by
  `rfbScaledScreenUpdate` from then on. `FramesReach` is what does hold.

### What the passing properties except

Some properties hold only with an exception, because the code does otherwise. The
models contain the steps; without the exception TLC finds the following.

| Exception | In | What the code does |
|---|---|---|
| `Served` | `EventuallyRefreshed`, `EventuallyResized` | after `select` has failed (main.c:538-541) `clientInput` joins an output thread that sees no closed socket: the connection stays open, nobody reads it, and the client is freed only if a write fails one day |
| `stale`, not `modified` | `NoLostWakeup` | SetEncodings marks the region of a drawn cursor, and makes its shape due, without a signal (cursor.c:699): an output thread with an open request sleeps on until a frame is drawn or the viewer asks again, on no tile the viewer lacks |
| `lost` | `ImageShowsAllowed`, `SizeSteady` | main does not look at whether the first frame after a rotation was consumed (droidvncserver.cpp:1047): if not, the screen gets the dimensions of the frame before, against `src/README.md`:30, and the frames after it are drawn in these until the next rotation |
| `ZLast` | `OptionsHonoured` | `-z` takes no value (467) and passes over a word (735): of `-z -r 90` nothing is forced |
| `calm` | `SteadyShot` | the handler copies `vncbuf` while main, interrupted or on another processor, is in the middle of `updateScreen`: the file mixes two frames, against "the current frame" of `src/README.md`:36 |
| `steady` | `SteadyShot` (dimensions only) | in a rotation `imageRotation` and `frame` change before `vncbuf` does: the file has the dimensions of the picture to come |
| `alone` | `EndsWithShot` | the server may open the file when the four seconds are over, and cut off what the requester writes by then |
| `raced` | `CountExact`, `ChainIntact`, `FramesReach` | two clients have two mutexes: an update of a count is lost, as `ScalingShared` shows, or a copy falls out of the chain (scale.c:327) and is never refreshed again |
| `settled` | `FramesReach` | an unused copy is refreshed before its new viewer is counted (scale.c:369); a frame drawn in between skips it, and the viewer starts on the pixels before it |

Noted on the way, with no run of its own: a rotation after the test at
rfbserver.c:2729 sends pixels of the new screen under the old size, which the next
update corrects; while frames come as fast as they are drawn the drain loop
(droidvncserver.cpp:1112) does not end and the rotation is not looked at; the
first `-U` gives up when there is no old screenshot to unlink (671), and without a pid file
`getRunningServerPid` reads from no stream (654): in `Screenshot` that requester
has `crashed`.

### Fairness

`ThreadFairness` is weak fairness of the capture loop's pass, of clientInput's
exit path and of clientOutput: they are OS threads whose mutexes are held for
short, finite times. It does not include new frames, rotations, connections or
spurious wakeups, which may never come. `ViewerFairness` is about the viewer:
it ends what it has begun to send, and keeps asking for the screen as long as
it can (strong fairness, since SetEncodings interrupts it again and again).
Without it nothing is sent, as the protocol demands. `CaptureLoop` assumes that
main runs and that minicap delivers its callbacks. `Rotation` assumes that main
runs. `waitForFrame` blocks and the drain loop repeats, so that following a
rotation also takes something of the display and of minicap, which the code does
not see to and `FairSpec` states: frames go on coming (`FrameComes`), the display
pauses now and then (strong fairness of `DrainEnds`), and minicap does not fail for
ever (strong fairness of `DrawFrame`). The watcher owes
nothing, it may stop within a line or die. `Screenshot` assumes that a
requester runs on and its sleep ends; it asks nothing of the server, which may
hang in its handler or be gone: that is the point of `RequesterEnds`. A normal
screenshot waits for a rotation and a frame without limit (890, 903), so
`RequesterEnds` lets a requester wait there, and no fairness is assumed of `FirstFrame`.
`ClientList` assumes that owners
finish their cleanup and that walks go on once started.

## Proofs

All theorems hold for every value of the constants, under the assumptions named
in the modules: `Sizes` and `Orientations` are not empty, bounds are naturals,
`Null` is no record and `NoOne` no thread, threads of different kinds differ, the
set of iterators is finite, words are strings and a display stands at one of the
four quarter turns (what `Display.getRotation` returns, which the watcher prints
in degrees), at first upright as `screenRotation` is. The set of viewers of
`ScaledScreens` is finite, since they are counted.

* `ClientUpdateProofs`. `TypeCorrect`, then `IInv`, the conjunction of
  `NoLostUpdate`, `NoLostWakeup`, `NoLostResize` and `RecordInUse`, is inductive on
  top of it. `NoLostWakeup` speaks of the tiles a viewer lacks, not of
  `modifiedRegion`: what a hidden cursor adds to that region without a signal is
  among the tiles it has. `NoLostUpdate` alone is not: that abandoning an update loses
  nothing needs the socket closed, that a new client starts with no leftover
  update needs the record's life cycle, and that a waiting thread keeps its
  request needs where the thread stands. `RecordInUse` states just that.
  `CycleImplementsService` shows by cases that every step is a step of
  `UpdateService` or a stutter; the answer step uses `RecordInUse` (nothing is
  being sent yet, and a request is open).
* `CaptureLoopProofs`. `Control` relates `pc`, `mode`, the listener, the waiter and
  what main holds; with it `FramesAccounted` is inductive, and `FrameToConsume`,
  `DrawsHeldFrame` and `WaiterLives` follow. `LoopImplementsSource` maps what the
  waiter counts, what a callback is about to count and what main owes to the
  frames that are due: every step lends one, loses one, gives one back, announces
  one, replaces the source, or stutters, and only a consumption may change the
  sum while the listener is set. `Control` compares Booleans with `TRUE`
  and `FALSE` so that the SMT backend knows their type.
* `ClientListProofs`. `ListStaysIntact` needs only the types. `ReferencesAreCounted`
  relates `refCount` to the cardinality of `Holders(c)`, the walks and the output
  thread that hold the record, with `CountAfterTake`, `CountAfterDrop` and
  `CountAfterOutput` as lemmas; that it is natural, and so
  `TypeOK`, comes with it. `PinnedRecordsSurvive` follows: a holder makes the
  count positive, and the owner waits. `WalkComplete` is about records a walk has not come to yet, which
  the links alone tell only by following them. `Aged` says instead that *some*
  relation of records, their age, is such that a link passes over no linked
  record that is older, also when its own record is unlinked; then all a walk
  must visit is at or behind where it stands. A new client makes itself the
  youngest (`AgedNewClient`), and unlinking hands on the link (`AgedUnlink`).
* `ScaledScreensProofs`. `TypeCorrect` for any number of viewers, with `MutexHeld`: a
  client's mutex is held by exactly the thread that links or switches for it.
* `ScalingProofs`, for any number of viewers. The `updateMutex` of a client keeps
  apart the threads that scale for *it*; the history `raced` tells where two clients
  met, and the invariants are about everything else. `ChainInv`: a thread that
  links a copy has it to itself, and what it read of the chain is the chain still,
  as a second reader would belong to another client. `Roles` says what the threads
  may do for a viewer in each of its states (the listener before its thread starts,
  nobody once it left but its own cleanup); from it and the mutexes follows
  `CountAlone`: at most one thread at a time changes counts for one client. With it
  `Counts` follows each count through every read and write: a screen's count
  is the number of viewers on it that nobody is moving, corrected by the
  writes to come. `Reached` and `Seen` then say that a viewer's copy is in the
  chain, and shows the frame, is still ahead of main's walk, or is being left.
* `OrientationProofs`. The operators, for every size of frame: `TurnsToAllowed`, and
  `PlacesInside` with `PlacesApart` say that updateScreen permutes the pixels of
  the frame; `PictureTurned` compares it with the reference, the panel turned a
  quarter at a time, four turns of which (`FullyTurned`) are none.
* `RotationProofs`. The invariant `RotationInv` has two parts. `PipeInv` is about
  characters: what was printed and not read makes whole lines, each the digits
  of a rotation, while `rotateBuffer` never holds the end of a line, so that
  one `fgets` ends at most one report. With it `ReportsSeen` shows that every step
  reports a rotation, sees the oldest, or does neither. `MainInv` is about
  main: from `getImageRotation` to the first frame drawn, `imageRotation`,
  `configured`, `frame` and the screen's size each belong to the rotation that is
  being followed (`Followed`), the last two unless its first frame was lost, and
  between frames `imageRotation` is still the one for `configured`, which neither
  the drawing of a frame nor the picture being right says by itself. `ImageShowsAllowed`, `SizeSteady` and `TypeOK` follow.
  `OptionsMeant` compares the fold over the words with the places where options
  are expected (`Meant` relates the two for every prefix of a command line).
* `ScreenshotProofs`. `TypesHold` with who writes the file; `Steady`: what main has
  consumed last is what `vncbuf` shows whenever it is in its loop, also after a lost
  first frame, and until main draws again all that a handler has copied is of this
  one frame. `Asking` is the invariant of `ShotsAreForTheirAsker`: a requester asks once (`Once`), and while
  it is alone nobody else writes the file, which stays whole until it ends
  (`Mine`).

Induction over data is not out of reach for the functions of these modules. The
library's induction theorems take an operator as a parameter, which the provers
cannot instantiate; but that a set of naturals has a least element is a first-order
fact of its `WellFoundedInduction`, and with the naturals that have a property given
as a *set* it yields `InductionUpTo` and, by constructing the function, the existence
of what a recursive definition chooses (`RecursionUpTo`, `RecursionOnNat`). So `Atoi`,
`Complete`, `Capture`, `OptionAt` and the fold of `Parse` are shown to satisfy
their recursions before anything else is said of them.

Only model-checked: the liveness properties (`EventuallyFollowed` in the run
`Rotation` among them), for which there is no proof rule here. The violated
properties are not theorems. Every invariant, action property and refinement that a
passing run checks is a theorem.

## Plan

What is left, in this order:

1. `Listener` and `Handshake`: the connection's state machine up to
   `RFB_NORMAL`, the `cl` that listenerRun keeps, the error paths of
   `rfbNewTCPOrUDPClient`.
2. `CursorOverlay`: cursor painting in the shared framebuffer.
3. `Regions`, for the operations the update cycle uses and the geometry they keep
   after a rotation.
4. Pixel formats that change under the output thread.

Not modelled, and not planned: encoders and pixel translation (data
transformation; one step of `ClientUpdate` each), HTTP server, WebSockets and file
transfer (optional services of libvncserver this program leaves off), the
vendored openssl, libpng and libjpeg, minicap itself. These are nearly all of the
repository's lines: what is modelled is the program's own code and the part of
libvncserver where its threads meet.

## Running

    tlc -workers 2 -config UpdateSafety.cfg MCClientUpdate.tla
    tlc -workers 2 -config ListSafety.cfg   ClientList.tla
    tlc -workers 2 -config CaptureFrames.cfg CaptureLoop.tla
    tlc -workers 2 -config Rotation.cfg     MCRotation.tla
    tlc -workers 2 -config Scaling.cfg      MCScaledScreens.tla
    tlc -workers 2 -config ScalingPair.cfg  MCScaledScreens.tla
    tlc -workers 2 -config Screenshot.cfg   Screenshot.tla
    tlapm ClientUpdateProofs.tla            (and each *Proofs module)

Definitions introduced by "Mutant of" are variations of the definition they
name, each a plausible mistake in that code; `PROJECT.json` tells which property
notices it. They are not part of `Next`.
