--------------------------- MODULE ScaledScreens ---------------------------
(***************************************************************************)
(* Scaled copies of the screen (scale.c): viewers switch to a copy on      *)
(* their own request, when they connect (option -s) and when the screen is *)
(* rotated; main refreshes after every frame the copies that are in use.   *)
(*                                                                         *)
(* Copies are linked at the head of a chain and never freed, so that the   *)
(* chain is the sequence of its copies.  A size is the orientation and the *)
(* factor it was computed from.  The counts and the chain's head are plain *)
(* memory: an update of either is a read and a write.                      *)
(***************************************************************************)
EXTENDS Integers, Sequences, SequencesExt

CONSTANTS
  Viewers,       \* clients
  Main,          \* the thread that captures frames
  Listener,      \* the thread that accepts clients
  Orientations,  \* of the screen
  Factors,       \* scale factors, one of them 1
  MaxCopies,     \* bound: copies there is memory for
  MaxRaces       \* bound: races between two clients that are followed

\* The threads that set scales; a viewer stands for its input thread.
Threads == Viewers \cup {Main, Listener}

ASSUME ViewersAssumption == IsFiniteSet(Viewers)
ASSUME ThreadsAssumption == Main # Listener /\ {Main, Listener} \cap Viewers = {}
ASSUME OrientationsAssumption == Orientations # {}
ASSUME FactorsAssumption == 1 \in Factors
ASSUME CopiesAssumption == MaxCopies \in Nat
ASSUME RacesAssumption == MaxRaces \in Nat

\* The screen itself heads every search for a size.
Base    == 0
Copies  == 1 .. MaxCopies
Screens == {Base} \cup Copies
Sizes   == [of : Orientations, by : Factors]

NoOne == "no one"
ASSUME NoOneAssumption == NoOne \notin Threads

VARIABLES
  scaling,      \* option -s, as a factor
  orientation,  \* of the screen
  copies,       \* sizes of the copies that were allocated
  chain,        \* scaledScreenNext
  refs,         \* scaledScreenRefCount
  fresh,        \* a copy shows the frame drawn last
  state,        \* of each viewer: absent, new, running, leaving
  screen,       \* its scaledScreen
  updateMutex,  \* of each viewer: the thread that holds it
  op,           \* what each thread is doing
  turning,      \* main: viewers left to set up for the orientation to come
  walk,         \* main: copies left to refresh
  settled,       \* history: the viewer had its screen when the frame was drawn
  raced          \* history: the counts that were read for a client while another's
                 \* update was under way, whether the chain was, and how often

chainVars  == <<copies, chain>>
viewerVars == <<state, screen, settled>>
mainVars   == <<orientation, turning, walk>>
vars == <<scaling, raced, chainVars, refs, fresh, viewerVars, updateMutex, op, mainVars>>

NoSize == [of |-> NoOne, by |-> 0]

\* A thread's step, with the client and the size it is about, the screen it has
\* found, the count it has read, and the chain behind the copy it links.
At(step, cl, size, count) ==
  [step |-> step, cl |-> cl, size |-> size, ptr |-> Base, count |-> count, tail |-> <<>>]

Idle == At("idle", NoOne, NoSize, 0)

NotTurning == [to |-> NoOne, left |-> {}]
NotWalking == [on |-> FALSE, left |-> <<>>]

Init ==
  /\ scaling \in Factors /\ orientation \in Orientations
  /\ copies = <<>> /\ chain = <<>>
  /\ refs = [s \in Screens |-> 0] /\ fresh = [c \in Copies |-> FALSE]
  /\ state = [v \in Viewers |-> "absent"] /\ screen = [v \in Viewers |-> Base]
  /\ settled = [v \in Viewers |-> FALSE]
  /\ updateMutex = [v \in Viewers |-> NoOne]
  /\ op = [t \in Threads |-> Idle]
  /\ turning = NotTurning /\ walk = NotWalking
  /\ raced = [counts |-> {}, chain |-> FALSE, reads |-> 0]

SizeOf(s) == IF s = Base THEN [of |-> orientation, by |-> 1] ELSE copies[s]

\* Its record is in the client list.
Linked(v) == state[v] \in {"new", "running"}

\* A thread's next step, with the screen it has found or the count it has read.
Go(t, step)        == op' = [op EXCEPT ![t].step = step]
Found(t, step, s)  == op' = [op EXCEPT ![t].step = step, ![t].ptr = s]
Counted(t, step, s) == op' = [op EXCEPT ![t].step = step, ![t].count = refs[s]]
Done(t)            == op' = [op EXCEPT ![t] = Idle]

\* A thread is between the read and the write of the count of s.
Counting(t, s) ==
  \/ op[t].step \in {"leave", "gone"} /\ s = screen[op[t].cl]
  \/ op[t].step = "join" /\ s = op[t].ptr
  \/ op[t].step = "accept" /\ s = Base

\* A thread reads the count of s, or the chain's head, for cl: it races with the
\* threads that have read it for another client, and have not written it yet.
ReadsCount(cl, s) ==
  IF \E u \in Threads : Counting(u, s) /\ op[u].cl # cl
  THEN /\ raced.reads < MaxRaces
       /\ raced' = [raced EXCEPT !.counts = @ \cup {s}, !.reads = @ + 1]
  ELSE UNCHANGED raced
ReadsHead(cl) ==
  IF \E u \in Threads : op[u].step = "linked" /\ op[u].cl # cl
  THEN /\ raced.reads < MaxRaces
       /\ raced' = [raced EXCEPT !.chain = TRUE, !.reads = @ + 1]
  ELSE UNCHANGED raced

Lock(t, cl) ==
  updateMutex[cl] = NoOne /\ updateMutex' = [updateMutex EXCEPT ![cl] = t]
Unlock(t, cl) ==
  updateMutex' = [updateMutex EXCEPT ![cl] = IF @ = t THEN NoOne ELSE @]

-----------------------------------------------------------------------------
(* rfbScalingSetup(op[t].cl, op[t].size)                                   *)

Setup(cl, size) == At("find", cl, size, 0)

\* rfbScalingFind: the first screen of that size.
Find(t) ==
  LET screens == <<Base>> \o chain
      fits    == {i \in DOMAIN screens : SizeOf(screens[i]) = op[t].size}
  IN /\ op[t].step = "find"
     /\ \/ fits = {} /\ Go(t, "allocate")
        \/ \E i \in fits : (\A j \in fits : i <= j) /\ Found(t, "refresh", screens[i])
     /\ UNCHANGED <<scaling, raced, chainVars, refs, fresh, viewerVars, updateMutex,
                    mainVars>>

\* rfbScaledScreenAllocate: a copy of the screen, not linked yet.
Allocate(t) ==
  /\ op[t].step = "allocate" /\ Len(copies) < MaxCopies
  /\ copies' = Append(copies, op[t].size)
  /\ fresh' = [fresh EXCEPT ![Len(copies) + 1] = TRUE]
  /\ Found(t, "link", Len(copies) + 1)
  /\ UNCHANGED <<scaling, raced, chain, refs, viewerVars, updateMutex, mainVars>>

\* Without memory things are left alone.
AllocateFails(t) ==
  /\ op[t].step = "allocate"
  /\ Done(t)
  /\ UNCHANGED <<scaling, raced, chainVars, refs, fresh, viewerVars, updateMutex,
                 mainVars>>

\* Mutant of ReadHead: the chain is not locked.
ReadHeadUnlocked(t) ==
  /\ op[t].step = "link"
  /\ op' = [op EXCEPT ![t].step = "linked", ![t].tail = chain]
  /\ ReadsHead(op[t].cl)
  /\ UNCHANGED <<scaling, chainVars, refs, fresh, viewerVars, updateMutex, mainVars>>

\* ptr->scaledScreenNext = cl->screen->scaledScreenNext, locked
ReadHead(t) ==
  /\ op[t].step = "link" /\ Lock(t, op[t].cl)
  /\ op' = [op EXCEPT ![t].step = "linked", ![t].tail = chain]
  /\ ReadsHead(op[t].cl)
  /\ UNCHANGED <<scaling, chainVars, refs, fresh, viewerVars, mainVars>>

\* Mutant of WriteHead: the copy's own link was not set first.
WriteHeadOnly(t) ==
  /\ op[t].step = "linked" /\ Unlock(t, op[t].cl)
  /\ chain' = <<op[t].ptr>>
  /\ Go(t, "refresh")
  /\ UNCHANGED <<scaling, raced, copies, refs, fresh, viewerVars, mainVars>>

\* cl->screen->scaledScreenNext = ptr: the chain is the copy and what has been
\* linked behind it.
WriteHead(t) ==
  /\ op[t].step = "linked" /\ Unlock(t, op[t].cl)
  /\ chain' = <<op[t].ptr>> \o op[t].tail
  /\ Go(t, "refresh")
  /\ UNCHANGED <<scaling, raced, copies, refs, fresh, viewerVars, mainVars>>

\* A copy that nobody uses may be out of date.
Refresh(t) ==
  /\ op[t].step = "refresh"
  /\ fresh' = [c \in Copies |-> fresh[c] \/ (c = op[t].ptr /\ refs[c] < 1)]
  /\ Go(t, "lock")
  /\ UNCHANGED <<scaling, raced, chainVars, refs, viewerVars, updateMutex, mainVars>>

\* Mutant of LeaveOld: cl's mutex is not taken.
LeaveUnlocked(t) ==
  /\ op[t].step = "lock"
  /\ Counted(t, "leave", screen[op[t].cl])
  /\ ReadsCount(op[t].cl, screen[op[t].cl])
  /\ UNCHANGED <<scaling, chainVars, refs, fresh, viewerVars, updateMutex, mainVars>>

\* cl->scaledScreen->scaledScreenRefCount--, locked
LeaveOld(t) ==
  /\ op[t].step = "lock" /\ Lock(t, op[t].cl)
  /\ Counted(t, "leave", screen[op[t].cl])
  /\ ReadsCount(op[t].cl, screen[op[t].cl])
  /\ UNCHANGED <<scaling, chainVars, refs, fresh, viewerVars, mainVars>>

LeftOld(t) ==
  /\ op[t].step = "leave"
  /\ refs' = [refs EXCEPT ![screen[op[t].cl]] = op[t].count - 1]
  /\ Go(t, "left")
  /\ UNCHANGED <<scaling, raced, chainVars, fresh, viewerVars, updateMutex, mainVars>>

\* ptr->scaledScreenRefCount++
JoinNew(t) ==
  /\ op[t].step = "left"
  /\ Counted(t, "join", op[t].ptr)
  /\ ReadsCount(op[t].cl, op[t].ptr)
  /\ UNCHANGED <<scaling, chainVars, refs, fresh, viewerVars, updateMutex, mainVars>>

\* Mutant of Switch: the copy is not counted.
SwitchUncounted(t) ==
  /\ op[t].step = "join" /\ Unlock(t, op[t].cl)
  /\ screen' = [screen EXCEPT ![op[t].cl] = op[t].ptr]
  /\ settled' = [settled EXCEPT ![op[t].cl] = FALSE]
  /\ Done(t)
  /\ UNCHANGED <<scaling, raced, chainVars, refs, fresh, state, mainVars>>

\* cl->scaledScreen = ptr, and the mutex is released.
Switch(t) ==
  /\ op[t].step = "join" /\ Unlock(t, op[t].cl)
  /\ refs' = [refs EXCEPT ![op[t].ptr] = op[t].count + 1]
  /\ screen' = [screen EXCEPT ![op[t].cl] = op[t].ptr]
  /\ settled' = [settled EXCEPT ![op[t].cl] = FALSE]
  /\ Done(t)
  /\ UNCHANGED <<scaling, raced, chainVars, fresh, state, mainVars>>

-----------------------------------------------------------------------------
(* Clients come and go.                                                    *)

\* rfbNewTCPOrUDPClient: scaledScreen = screen, scaledScreenRefCount++
Accept(v) ==
  /\ op[Listener] = Idle /\ state[v] = "absent"
  /\ op' = [op EXCEPT ![Listener] = At("accept", v, NoSize, refs[Base])]
  /\ ReadsCount(v, Base)
  /\ UNCHANGED <<scaling, chainVars, refs, fresh, viewerVars, updateMutex, mainVars>>

\* The record is linked, and onClientConnect scales it with option -s.
Connect(v) ==
  /\ op[Listener].step = "accept" /\ op[Listener].cl = v
  /\ refs' = [refs EXCEPT ![Base] = op[Listener].count + 1]
  /\ state' = [state EXCEPT ![v] = "new"] /\ screen' = [screen EXCEPT ![v] = Base]
  /\ settled' = [settled EXCEPT ![v] = FALSE]
  /\ op' = [op EXCEPT ![Listener] =
              IF scaling = 1 THEN Idle
              ELSE Setup(v, [of |-> orientation, by |-> scaling])]
  /\ UNCHANGED <<scaling, raced, chainVars, fresh, updateMutex, mainVars>>

\* Its input thread starts.
StartInput(v) ==
  /\ op[Listener] = Idle /\ state[v] = "new"
  /\ state' = [state EXCEPT ![v] = "running"]
  /\ UNCHANGED <<scaling, raced, chainVars, refs, fresh, screen, settled, updateMutex, op,
                 mainVars>>

\* rfbSetScale, rfbPalmVNCSetScaleFactor
SetScale(v) ==
  /\ op[v] = Idle /\ state[v] = "running"
  /\ \E f \in Factors :
       op' = [op EXCEPT ![v] = Setup(v, [of |-> orientation, by |-> f])]
  /\ UNCHANGED <<scaling, raced, chainVars, refs, fresh, viewerVars, updateMutex,
                 mainVars>>

\* rfbClientConnectionGone: the record is unlinked; when no iterator holds it its
\* count is given back, without a lock.
Leave(v) ==
  /\ op[v] = Idle /\ state[v] = "running"
  /\ state' = [state EXCEPT ![v] = "leaving"]
  /\ UNCHANGED <<scaling, raced, chainVars, refs, fresh, screen, settled, updateMutex, op,
                 mainVars>>

\* Mutant of ReadGone: the iterators are not waited for.
ReadGoneAtOnce(v) ==
  /\ op[v] = Idle /\ state[v] = "leaving"
  /\ op' = [op EXCEPT ![v] = At("gone", v, NoSize, refs[screen[v]])]
  /\ ReadsCount(v, screen[v])
  /\ UNCHANGED <<scaling, chainVars, refs, fresh, viewerVars, updateMutex, mainVars>>

ReadGone(v) ==
  /\ op[v] = Idle /\ state[v] = "leaving" /\ op[Main].cl # v
  /\ op' = [op EXCEPT ![v] = At("gone", v, NoSize, refs[screen[v]])]
  /\ ReadsCount(v, screen[v])
  /\ UNCHANGED <<scaling, chainVars, refs, fresh, viewerVars, updateMutex, mainVars>>

Gone(v) ==
  /\ op[v].step = "gone"
  /\ refs' = [refs EXCEPT ![screen[v]] = op[v].count - 1]
  /\ state' = [state EXCEPT ![v] = "absent"]
  /\ Done(v)
  /\ UNCHANGED <<scaling, raced, chainVars, fresh, screen, settled, updateMutex, mainVars>>

-----------------------------------------------------------------------------
(* The main thread: frames and rotations.                                  *)

MainIdle == op[Main] = Idle /\ ~walk.on

Switching(v) ==
  \E t \in Threads : op[t].cl = v /\ op[t].step \in {"leave", "left", "join"}

\* A frame is drawn, and rfbScaledScreenUpdate starts at the head of the chain.
DrawFrame ==
  /\ fresh' = [c \in Copies |-> FALSE]
  /\ settled' = [v \in Viewers |-> Linked(v) /\ ~Switching(v)]
  /\ walk' = [on |-> TRUE, left |-> chain]
  /\ UNCHANGED <<scaling, raced, chainVars, refs, state, screen, updateMutex, op>>

NextFrame ==
  /\ MainIdle /\ turning = NotTurning
  /\ DrawFrame
  /\ UNCHANGED <<orientation, turning>>

\* Only copies that are in use are brought up to date.
UpdateCopy ==
  /\ walk.on /\ walk.left # <<>>
  /\ fresh' = [fresh EXCEPT ![Head(walk.left)] = @ \/ refs[Head(walk.left)] > 0]
  /\ walk' = [walk EXCEPT !.left = Tail(@)]
  /\ UNCHANGED <<scaling, raced, chainVars, refs, viewerVars, updateMutex, op, orientation,
                 turning>>

EndUpdate ==
  /\ walk.on /\ walk.left = <<>>
  /\ walk' = NotWalking
  /\ UNCHANGED <<scaling, raced, chainVars, refs, fresh, viewerVars, updateMutex, op,
                 orientation, turning>>

\* reinitVncServer: every client is scaled for the new dimensions first.
Turn ==
  /\ MainIdle /\ turning = NotTurning
  /\ \E o \in Orientations \ {orientation} :
       turning' = [to |-> o, left |-> {v \in Viewers : Linked(v)}]
  /\ UNCHANGED <<scaling, raced, chainVars, refs, fresh, viewerVars, updateMutex, op,
                 orientation, walk>>

TurnViewer(v) ==
  /\ MainIdle /\ v \in turning.left
  /\ turning' = [turning EXCEPT !.left = @ \ {v}]
  /\ op' = [op EXCEPT ![Main] =
              IF Linked(v) THEN Setup(v, [of |-> turning.to, by |-> scaling]) ELSE Idle]
  /\ UNCHANGED <<scaling, raced, chainVars, refs, fresh, viewerVars, updateMutex,
                 orientation, walk>>

\* Then the dimensions change, and the first frame is drawn.
TurnScreen ==
  /\ MainIdle /\ turning # NotTurning /\ turning.left = {}
  /\ orientation' = turning.to /\ turning' = NotTurning
  /\ DrawFrame

-----------------------------------------------------------------------------
ScalingSetup(t) ==
  \/ Find(t) \/ Allocate(t) \/ AllocateFails(t) \/ ReadHead(t) \/ WriteHead(t)
  \/ Refresh(t) \/ LeaveOld(t) \/ LeftOld(t) \/ JoinNew(t) \/ Switch(t)

Client(v) ==
  Accept(v) \/ Connect(v) \/ StartInput(v) \/ SetScale(v) \/ Leave(v) \/ ReadGone(v) \/ Gone(v)

MainThread ==
  NextFrame \/ UpdateCopy \/ EndUpdate \/ Turn \/ TurnScreen \/ \E v \in Viewers : TurnViewer(v)

Next ==
  \/ MainThread
  \/ \E t \in Threads : ScalingSetup(t)
  \/ \E v \in Viewers : Client(v)

Spec == Init /\ [][Next]_vars

-----------------------------------------------------------------------------
(* Properties.                                                             *)

Steps ==
  {"idle", "find", "allocate", "link", "linked", "refresh", "lock", "leave", "left",
   "join", "accept", "gone"}

Operations ==
  [step : Steps, cl : Viewers \cup {NoOne}, size : Sizes \cup {NoSize}, ptr : Screens,
   count : Int, tail : Seq(Copies)]

\* The updateMutex of a client is held by the thread that links a copy or
\* switches the screen for it.
Locked(t) == op[t].step \in {"linked", "leave", "left", "join"}

MutexHeld ==
  \A v \in Viewers, t \in Threads : updateMutex[v] = t <=> op[t].cl = v /\ Locked(t)

\* With the types: a thread that holds a mutex is linking or switching.
TypeOK ==
  /\ scaling \in Factors /\ orientation \in Orientations
  /\ copies \in Seq(Sizes) /\ Len(copies) <= MaxCopies /\ chain \in Seq(Copies)
  /\ refs \in [Screens -> Int] /\ fresh \in [Copies -> BOOLEAN]
  /\ state \in [Viewers -> {"absent", "new", "running", "leaving"}]
  /\ screen \in [Viewers -> Screens] /\ settled \in [Viewers -> BOOLEAN]
  /\ raced \in [counts : SUBSET Screens, chain : BOOLEAN, reads : 0 .. MaxRaces]
  /\ updateMutex \in [Viewers -> Threads \cup {NoOne}]
  /\ op \in [Threads -> Operations]
  /\ MutexHeld
  /\ turning \in [to : Orientations \cup {NoOne}, left : SUBSET Viewers]
  /\ walk \in [on : BOOLEAN, left : Seq(Copies)]

\* A count that was never updated for two clients at once is the number of viewers
\* that have that screen, when nobody is about to switch to or from a screen.
CountExact ==
  (\A t \in Threads : op[t].step \notin {"leave", "left", "join", "accept", "gone"})
    => \A s \in Screens \ raced.counts :
         refs[s] = Cardinality({v \in Viewers : state[v] # "absent" /\ screen[v] = s})

Linking(c) == \E t \in Threads : op[t].ptr = c /\ op[t].step \in {"link", "linked"}
InChain(c) == \E i \in DOMAIN chain : chain[i] = c

\* rfbScaledScreenUpdate updates each and every copy: the chain has them all, but for
\* those that are being linked.  Not so when two clients link theirs at once.
CopiesLinked == \A c \in DOMAIN copies : Linking(c) \/ InChain(c)

\* It has, each of them once, as long as no two clients do.
ChainIntact ==
  ~raced.chain =>
    /\ CopiesLinked
    /\ \A i, j \in DOMAIN chain : chain[i] = chain[j] => i = j

\* The viewer is on a copy that lags behind the frame drawn last.
Lags(v) == Linked(v) /\ ~Switching(v) /\ screen[v] # Base /\ ~fresh[screen[v]]

\* rfbScaledScreenUpdate brings every copy that has active clients up to date: a
\* viewer that had its screen when a frame was drawn gets to see this frame.
ViewerCurrent == ~walk.on => \A v \in Viewers : settled[v] => ~Lags(v)

\* It does for a viewer whose copy has not been counted, nor any copy linked, for two
\* clients at once: counts that are off harm the viewers of their screens only.
FramesReach ==
  ~walk.on /\ ~raced.chain =>
    \A v \in Viewers : settled[v] /\ screen[v] \notin raced.counts => ~Lags(v)
=============================================================================
