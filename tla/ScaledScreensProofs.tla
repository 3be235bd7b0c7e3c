------------------------- MODULE ScaledScreensProofs -------------------------
(***************************************************************************)
(* Proofs about ScaledScreens for any viewers, orientations, factors,      *)
(* number of copies and races: the types and the mutexes.                  *)
(***************************************************************************)
EXTENDS ScaledScreens, FiniteSetTheorems, TLAPS

USE ThreadsAssumption, CopiesAssumption, NoOneAssumption, RacesAssumption

\* What a thread has when it stands at a step of rfbScalingSetup.
SetupSteps == {"find", "allocate", "link", "linked", "refresh", "lock", "leave", "left", "join"}

Pointers ==
  /\ \A t \in Threads :
       /\ op[t].step \in SetupSteps => op[t].cl \in Viewers
       /\ op[t].step \in {"find", "allocate"} => op[t].size \in Sizes
       /\ op[t].step \in {"link", "linked"} => op[t].ptr \in DOMAIN copies
  /\ turning = NotTurning \/ turning.to \in Orientations

\* The types but for the mutexes.
Typed ==
  /\ scaling \in Factors /\ orientation \in Orientations
  /\ copies \in Seq(Sizes) /\ Len(copies) <= MaxCopies /\ chain \in Seq(Copies)
  /\ refs \in [Screens -> Int] /\ fresh \in [Copies -> BOOLEAN]
  /\ state \in [Viewers -> {"absent", "new", "running", "leaving"}]
  /\ screen \in [Viewers -> Screens] /\ settled \in [Viewers -> BOOLEAN]
  /\ updateMutex \in [Viewers -> Threads \cup {NoOne}]
  /\ op \in [Threads -> Operations]
  /\ turning \in [to : Orientations \cup {NoOne}, left : SUBSET Viewers]
  /\ walk \in [on : BOOLEAN, left : Seq(Copies)]

TInv == Typed /\ Pointers /\ MutexHeld

RacedTyped == raced \in [counts : SUBSET Screens, chain : BOOLEAN, reads : 0 .. MaxRaces]

LEMMA InitTyped == Init => TInv
BY FactorsAssumption DEF Init, TInv, Typed, MutexHeld, Locked, Pointers, Operations, Steps, Idle, At, NoSize, Copies, Screens,
   Base, NotTurning, NotWalking, Threads, SetupSteps

-----------------------------------------------------------------------------
(* What a step does to op, field by field.                                 *)

Others(t) == \A u \in Threads \ {t} : op'[u] = op[u]
Keeps(t)  == op'[t].cl = op[t].cl /\ op'[t].size = op[t].size

\* A thread goes on, or on with the screen it found, the count or the tail it read.
LEMMA OpGo ==
  ASSUME op \in [Threads -> Operations], NEW t \in Threads, NEW s \in Steps, Go(t, s)
  PROVE  /\ op' \in [Threads -> Operations] /\ Others(t) /\ Keeps(t)
         /\ op'[t].step = s /\ op'[t].ptr = op[t].ptr
         /\ op'[t].count = op[t].count /\ op'[t].tail = op[t].tail
BY DEF Go, Operations, Others, Keeps

LEMMA OpFound ==
  ASSUME op \in [Threads -> Operations], NEW t \in Threads, NEW s \in Steps,
         NEW p \in Screens, Found(t, s, p)
  PROVE  /\ op' \in [Threads -> Operations] /\ Others(t) /\ Keeps(t)
         /\ op'[t].step = s /\ op'[t].ptr = p
BY DEF Found, Operations, Others, Keeps

LEMMA OpCounted ==
  ASSUME op \in [Threads -> Operations], refs \in [Screens -> Int],
         NEW t \in Threads, NEW s \in Steps, NEW p \in Screens, Counted(t, s, p)
  PROVE  /\ op' \in [Threads -> Operations] /\ Others(t) /\ Keeps(t)
         /\ op'[t].step = s /\ op'[t].ptr = op[t].ptr /\ op'[t].count = refs[p]
BY DEF Counted, Operations, Others, Keeps

LEMMA OpTail ==
  ASSUME op \in [Threads -> Operations], chain \in Seq(Copies), NEW t \in Threads,
         op' = [op EXCEPT ![t].step = "linked", ![t].tail = chain]
  PROVE  /\ op' \in [Threads -> Operations] /\ Others(t) /\ Keeps(t)
         /\ op'[t].step = "linked" /\ op'[t].ptr = op[t].ptr /\ op'[t].tail = chain
BY DEF Operations, Others, Keeps, Steps

\* A thread begins, or is done.
LEMMA OpBegin ==
  ASSUME op \in [Threads -> Operations], NEW t \in Threads, NEW s \in Steps,
         NEW c \in Viewers \cup {NoOne}, NEW z \in Sizes \cup {NoSize}, NEW n \in Int,
         op' = [op EXCEPT ![t] = At(s, c, z, n)]
  PROVE  /\ op' \in [Threads -> Operations] /\ Others(t)
         /\ op'[t].step = s /\ op'[t].cl = c /\ op'[t].size = z /\ op'[t].count = n
<1> DEFINE r == At(s, c, z, n)
<1>1. r \in Operations
  BY DEF Operations, At, Screens, Base
<1>2. r.step = s /\ r.cl = c /\ r.size = z /\ r.count = n
  BY DEF At
<1>3. op' = [op EXCEPT ![t] = r]
  OBVIOUS
<1> HIDE DEF r
<1> QED
  BY <1>1, <1>2, <1>3 DEF Others

LEMMA OpTyped == Typed => op \in [Threads -> Operations]
BY DEF Typed

LEMMA OpDone ==
  ASSUME op \in [Threads -> Operations], NEW t \in Threads, Done(t)
  PROVE  /\ op' \in [Threads -> Operations] /\ Others(t)
         /\ op'[t].step = "idle" /\ op'[t].cl = NoOne
<1>1. op' = [op EXCEPT ![t] = At("idle", NoOne, NoSize, 0)]
  BY DEF Done, Idle
<1>2. "idle" \in Steps
  BY DEF Steps
<1>3. NoOne \in Viewers \cup {NoOne} /\ NoSize \in Sizes \cup {NoSize} /\ 0 \in Int
  OBVIOUS
<1> QED
  BY <1>1, <1>2, <1>3, OpBegin

-----------------------------------------------------------------------------
(* What a step is, in these terms.                                         *)

\* Only op changes.
OnlyOp == UNCHANGED <<scaling, copies, chain, refs, fresh, state, screen, settled,
                      updateMutex, orientation, turning, walk>>

LEMMA FindStep ==
  ASSUME Typed, NEW t \in Threads, Find(t)
  PROVE  /\ op[t].step = "find" /\ OnlyOp
         /\ op' \in [Threads -> Operations] /\ Others(t) /\ Keeps(t)
         /\ \/ op'[t].step = "allocate"
            \/ op'[t].step = "refresh" /\ \/ op'[t].ptr = Base
                                          \/ \E i \in DOMAIN chain : op'[t].ptr = chain[i]
<1> DEFINE screens == <<Base>> \o chain
<1>1. \A i \in DOMAIN screens : /\ screens[i] \in Screens
                                /\ screens[i] = Base \/ \E j \in DOMAIN chain : screens[i] = chain[j]
  BY DEF Typed, Screens
<1>2. \/ Go(t, "allocate")
      \/ \E i \in DOMAIN screens : Found(t, "refresh", screens[i])
  BY DEF Find
<1>3. CASE Go(t, "allocate")
  BY <1>3, OpGo DEF Typed, Steps, Find, OnlyOp, chainVars, viewerVars, mainVars
<1>4. ASSUME NEW i \in DOMAIN screens, Found(t, "refresh", screens[i])
      PROVE  /\ op' \in [Threads -> Operations] /\ Others(t) /\ Keeps(t)
             /\ op'[t].step = "refresh" /\ op'[t].ptr = screens[i]
  <2> HIDE DEF screens
  <2> QED
    BY <1>1, <1>4, OpFound DEF Typed, Steps
<1>5. op[t].step = "find" /\ OnlyOp
  BY DEF Find, OnlyOp, chainVars, viewerVars, mainVars
<1> HIDE DEF screens
<1> QED
  BY <1>1, <1>2, <1>3, <1>4, <1>5

LEMMA AllocateStep ==
  ASSUME Typed, NEW t \in Threads, Allocate(t)
  PROVE  /\ op[t].step = "allocate" /\ Len(copies) < MaxCopies
         /\ copies' = Append(copies, op[t].size)
         /\ fresh' = [fresh EXCEPT ![Len(copies) + 1] = TRUE]
         /\ UNCHANGED <<scaling, chain, refs, state, screen, settled, updateMutex,
                        orientation, turning, walk>>
         /\ op' \in [Threads -> Operations] /\ Others(t) /\ Keeps(t)
         /\ op'[t].step = "link" /\ op'[t].ptr = Len(copies) + 1
<1>1. Len(copies) + 1 \in Screens
  BY DEF Typed, Allocate, Screens, Copies
<1>2. Found(t, "link", Len(copies) + 1)
  BY DEF Allocate
<1>3. "link" \in Steps
  BY DEF Steps
<1>4. /\ op' \in [Threads -> Operations] /\ Others(t) /\ Keeps(t)
      /\ op'[t].step = "link" /\ op'[t].ptr = Len(copies) + 1
  BY <1>1, <1>2, <1>3, OpFound DEF Typed
<1> QED
  BY <1>4 DEF Allocate, viewerVars, mainVars

LEMMA AllocateFailsStep ==
  ASSUME Typed, NEW t \in Threads, AllocateFails(t)
  PROVE  /\ op[t].step = "allocate" /\ OnlyOp
         /\ op' \in [Threads -> Operations] /\ Others(t)
         /\ op'[t].step = "idle" /\ op'[t].cl = NoOne
<1>1. /\ op' \in [Threads -> Operations] /\ Others(t)
      /\ op'[t].step = "idle" /\ op'[t].cl = NoOne
  BY OpDone DEF AllocateFails, Typed
<1> QED
  BY <1>1 DEF AllocateFails, OnlyOp, chainVars, viewerVars, mainVars

LEMMA ReadHeadStep ==
  ASSUME Typed, NEW t \in Threads, ReadHead(t)
  PROVE  /\ op[t].step = "link" /\ updateMutex[op[t].cl] = NoOne
         /\ updateMutex' = [updateMutex EXCEPT ![op[t].cl] = t]
         /\ UNCHANGED <<scaling, copies, chain, refs, fresh, state, screen, settled,
                        orientation, turning, walk>>
         /\ op' \in [Threads -> Operations] /\ Others(t) /\ Keeps(t)
         /\ op'[t].step = "linked" /\ op'[t].ptr = op[t].ptr /\ op'[t].tail = chain
BY OpTail DEF ReadHead, Lock, Typed, chainVars, viewerVars, mainVars

LEMMA WriteHeadStep ==
  ASSUME Typed, NEW t \in Threads, WriteHead(t)
  PROVE  /\ op[t].step = "linked"
         /\ updateMutex' = [updateMutex EXCEPT ![op[t].cl] = IF @ = t THEN NoOne ELSE @]
         /\ chain' = <<op[t].ptr>> \o op[t].tail
         /\ UNCHANGED <<scaling, copies, refs, fresh, state, screen, settled,
                        orientation, turning, walk>>
         /\ op' \in [Threads -> Operations] /\ Others(t) /\ Keeps(t)
         /\ op'[t].step = "refresh" /\ op'[t].ptr = op[t].ptr
<1>1. "refresh" \in Steps /\ Go(t, "refresh")
  BY DEF Steps, WriteHead
<1>2. /\ op' \in [Threads -> Operations] /\ Others(t) /\ Keeps(t)
      /\ op'[t].step = "refresh" /\ op'[t].ptr = op[t].ptr
  BY <1>1, OpGo DEF Typed
<1> QED
  BY <1>2 DEF WriteHead, Unlock, viewerVars, mainVars

LEMMA RefreshStep ==
  ASSUME Typed, NEW t \in Threads, Refresh(t)
  PROVE  /\ op[t].step = "refresh"
         /\ fresh' = [c \in Copies |-> fresh[c] \/ (c = op[t].ptr /\ refs[c] < 1)]
         /\ UNCHANGED <<scaling, copies, chain, refs, state, screen, settled, updateMutex,
                        orientation, turning, walk>>
         /\ op' \in [Threads -> Operations] /\ Others(t) /\ Keeps(t)
         /\ op'[t].step = "lock" /\ op'[t].ptr = op[t].ptr
<1>1. "lock" \in Steps /\ Go(t, "lock")
  BY DEF Steps, Refresh
<1>2. /\ op' \in [Threads -> Operations] /\ Others(t) /\ Keeps(t)
      /\ op'[t].step = "lock" /\ op'[t].ptr = op[t].ptr
  BY <1>1, OpGo DEF Typed
<1> QED
  BY <1>2 DEF Refresh, chainVars, viewerVars, mainVars

LEMMA LeaveOldStep ==
  ASSUME Typed, NEW t \in Threads, op[t].cl \in Viewers, LeaveOld(t)
  PROVE  /\ op[t].step = "lock" /\ updateMutex[op[t].cl] = NoOne
         /\ updateMutex' = [updateMutex EXCEPT ![op[t].cl] = t]
         /\ UNCHANGED <<scaling, copies, chain, refs, fresh, state, screen, settled,
                        orientation, turning, walk>>
         /\ op' \in [Threads -> Operations] /\ Others(t) /\ Keeps(t)
         /\ op'[t].step = "leave" /\ op'[t].ptr = op[t].ptr
         /\ op'[t].count = refs[screen[op[t].cl]]
<1>1. "leave" \in Steps /\ Counted(t, "leave", screen[op[t].cl])
  BY DEF Steps, LeaveOld
<1>2. screen[op[t].cl] \in Screens
  BY DEF Typed
<1>3. /\ op' \in [Threads -> Operations] /\ Others(t) /\ Keeps(t)
      /\ op'[t].step = "leave" /\ op'[t].ptr = op[t].ptr
      /\ op'[t].count = refs[screen[op[t].cl]]
  BY <1>1, <1>2, OpCounted DEF Typed
<1> QED
  BY <1>3 DEF LeaveOld, Lock, chainVars, viewerVars, mainVars

LEMMA LeftOldStep ==
  ASSUME Typed, NEW t \in Threads, LeftOld(t)
  PROVE  /\ op[t].step = "leave"
         /\ refs' = [refs EXCEPT ![screen[op[t].cl]] = op[t].count - 1]
         /\ UNCHANGED <<scaling, copies, chain, fresh, state, screen, settled, updateMutex,
                        orientation, turning, walk>>
         /\ op' \in [Threads -> Operations] /\ Others(t) /\ Keeps(t)
         /\ op'[t].step = "left" /\ op'[t].ptr = op[t].ptr
<1>1. "left" \in Steps /\ Go(t, "left")
  BY DEF Steps, LeftOld
<1>2. /\ op' \in [Threads -> Operations] /\ Others(t) /\ Keeps(t)
      /\ op'[t].step = "left" /\ op'[t].ptr = op[t].ptr
  BY <1>1, OpGo DEF Typed
<1> QED
  BY <1>2 DEF LeftOld, chainVars, viewerVars, mainVars

LEMMA JoinNewStep ==
  ASSUME Typed, NEW t \in Threads, JoinNew(t)
  PROVE  /\ op[t].step = "left" /\ OnlyOp
         /\ op' \in [Threads -> Operations] /\ Others(t) /\ Keeps(t)
         /\ op'[t].step = "join" /\ op'[t].ptr = op[t].ptr
         /\ op'[t].count = refs[op[t].ptr]
<1>1. "join" \in Steps /\ Counted(t, "join", op[t].ptr) /\ op[t].ptr \in Screens
  BY DEF Steps, JoinNew, Typed, Operations
<1>2. /\ op' \in [Threads -> Operations] /\ Others(t) /\ Keeps(t)
      /\ op'[t].step = "join" /\ op'[t].ptr = op[t].ptr
      /\ op'[t].count = refs[op[t].ptr]
  BY <1>1, OpCounted DEF Typed
<1> QED
  BY <1>2 DEF JoinNew, OnlyOp, chainVars, viewerVars, mainVars

LEMMA SwitchStep ==
  ASSUME Typed, NEW t \in Threads, Switch(t)
  PROVE  /\ op[t].step = "join"
         /\ updateMutex' = [updateMutex EXCEPT ![op[t].cl] = IF @ = t THEN NoOne ELSE @]
         /\ refs' = [refs EXCEPT ![op[t].ptr] = op[t].count + 1]
         /\ screen' = [screen EXCEPT ![op[t].cl] = op[t].ptr]
         /\ settled' = [settled EXCEPT ![op[t].cl] = FALSE]
         /\ UNCHANGED <<scaling, copies, chain, fresh, state, orientation, turning, walk>>
         /\ op' \in [Threads -> Operations] /\ Others(t)
         /\ op'[t].step = "idle" /\ op'[t].cl = NoOne
<1>1. /\ op' \in [Threads -> Operations] /\ Others(t)
      /\ op'[t].step = "idle" /\ op'[t].cl = NoOne
  BY OpDone DEF Switch, Typed
<1> QED
  BY <1>1 DEF Switch, Unlock, chainVars, mainVars

-----------------------------------------------------------------------------
(* Clients and main.                                                       *)

LEMMA AcceptStep ==
  ASSUME Typed, NEW v \in Viewers, Accept(v)
  PROVE  /\ op[Listener] = Idle /\ state[v] = "absent" /\ OnlyOp
         /\ op' \in [Threads -> Operations] /\ Others(Listener)
         /\ op'[Listener].step = "accept" /\ op'[Listener].cl = v
         /\ op'[Listener].count = refs[Base]
<1> DEFINE n == refs[Base]
<1>1. /\ op' = [op EXCEPT ![Listener] = At("accept", v, NoSize, n)]
      /\ "accept" \in Steps /\ Listener \in Threads /\ NoSize \in Sizes \cup {NoSize}
      /\ v \in Viewers \cup {NoOne}
  BY DEF Accept, Steps, Threads
<1>2. n \in Int
  BY DEF Typed, Screens
<1> HIDE DEF n
<1>3. /\ op' \in [Threads -> Operations] /\ Others(Listener)
      /\ op'[Listener].step = "accept" /\ op'[Listener].cl = v
      /\ op'[Listener].count = n
  BY <1>1, <1>2, OpTyped, OpBegin
<1>4. op[Listener] = Idle /\ state[v] = "absent" /\ OnlyOp
  BY DEF Accept, OnlyOp, chainVars, viewerVars, mainVars
<1> QED
  BY <1>3, <1>4 DEF n

LEMMA ConnectStep ==
  ASSUME Typed, NEW v \in Viewers, Connect(v)
  PROVE  /\ op[Listener].step = "accept" /\ op[Listener].cl = v
         /\ refs' = [refs EXCEPT ![Base] = op[Listener].count + 1]
         /\ state' = [state EXCEPT ![v] = "new"]
         /\ screen' = [screen EXCEPT ![v] = Base]
         /\ settled' = [settled EXCEPT ![v] = FALSE]
         /\ UNCHANGED <<scaling, copies, chain, fresh, updateMutex, orientation, turning, walk>>
         /\ op' \in [Threads -> Operations] /\ Others(Listener)
         /\ \/ op'[Listener].step = "idle" /\ op'[Listener].cl = NoOne
            \/ op'[Listener].step = "find" /\ op'[Listener].cl = v /\ op'[Listener].size \in Sizes
<1>0. /\ op[Listener].step = "accept" /\ op[Listener].cl = v
      /\ refs' = [refs EXCEPT ![Base] = op[Listener].count + 1]
      /\ state' = [state EXCEPT ![v] = "new"]
      /\ screen' = [screen EXCEPT ![v] = Base]
      /\ settled' = [settled EXCEPT ![v] = FALSE]
      /\ UNCHANGED <<scaling, copies, chain, fresh, updateMutex, orientation, turning, walk>>
  BY DEF Connect, chainVars, mainVars
<1>1. CASE scaling = 1
  <2>1. op' = [op EXCEPT ![Listener] = At("idle", NoOne, NoSize, 0)]
    BY <1>1 DEF Connect, Idle
  <2>2. "idle" \in Steps /\ NoOne \in Viewers \cup {NoOne} /\ NoSize \in Sizes \cup {NoSize}
        /\ 0 \in Int /\ Listener \in Threads
    BY DEF Steps, Threads
  <2>3. /\ op' \in [Threads -> Operations] /\ Others(Listener)
        /\ op'[Listener].step = "idle" /\ op'[Listener].cl = NoOne
    BY <2>1, <2>2, OpTyped, OpBegin
  <2> QED
    BY <1>0, <2>3
<1>2. CASE scaling # 1
  <2> DEFINE z == [of |-> orientation, by |-> scaling]
  <2>1. op' = [op EXCEPT ![Listener] = At("find", v, z, 0)]
    BY <1>2 DEF Connect, Setup
  <2>2. "find" \in Steps /\ z \in Sizes /\ 0 \in Int /\ Listener \in Threads
    BY DEF Steps, Threads, Sizes, Typed
  <2> HIDE DEF z
  <2>3. /\ op' \in [Threads -> Operations] /\ Others(Listener)
        /\ op'[Listener].step = "find" /\ op'[Listener].cl = v /\ op'[Listener].size = z
    BY <2>1, <2>2, OpTyped, OpBegin
  <2> QED
    BY <1>0, <2>2, <2>3
<1> QED
  BY <1>1, <1>2

LEMMA SetScaleStep ==
  ASSUME Typed, NEW v \in Viewers, SetScale(v)
  PROVE  /\ op[v] = Idle /\ state[v] = "running" /\ OnlyOp
         /\ op' \in [Threads -> Operations] /\ Others(v)
         /\ op'[v].step = "find" /\ op'[v].cl = v /\ op'[v].size \in Sizes
<1>1. PICK f \in Factors :
        op' = [op EXCEPT ![v] = At("find", v, [of |-> orientation, by |-> f], 0)]
  BY DEF SetScale, Setup
<1> DEFINE z == [of |-> orientation, by |-> f]
<1>2. "find" \in Steps /\ z \in Sizes /\ 0 \in Int /\ v \in Threads
  BY DEF Steps, Threads, Sizes, Typed
<1> HIDE DEF z
<1>3. /\ op' \in [Threads -> Operations] /\ Others(v)
      /\ op'[v].step = "find" /\ op'[v].cl = v /\ op'[v].size = z
  BY <1>1, <1>2, OpTyped, OpBegin DEF z
<1> QED
  BY <1>2, <1>3 DEF SetScale, OnlyOp, chainVars, viewerVars, mainVars

LEMMA ReadGoneStep ==
  ASSUME Typed, NEW v \in Viewers, ReadGone(v)
  PROVE  /\ op[v] = Idle /\ state[v] = "leaving" /\ op[Main].cl # v /\ OnlyOp
         /\ op' \in [Threads -> Operations] /\ Others(v)
         /\ op'[v].step = "gone" /\ op'[v].cl = v /\ op'[v].count = refs[screen[v]]
<1> DEFINE n == refs[screen[v]]
<1>1. op' = [op EXCEPT ![v] = At("gone", v, NoSize, n)]
  BY DEF ReadGone
<1>2. /\ "gone" \in Steps /\ v \in Threads /\ v \in Viewers \cup {NoOne}
      /\ NoSize \in Sizes \cup {NoSize} /\ n \in Int
  BY DEF Steps, Threads, Typed
<1> HIDE DEF n
<1>3. /\ op' \in [Threads -> Operations] /\ Others(v)
      /\ op'[v].step = "gone" /\ op'[v].cl = v /\ op'[v].count = n
  BY <1>1, <1>2, OpTyped, OpBegin
<1>4. op[v] = Idle /\ state[v] = "leaving" /\ op[Main].cl # v /\ OnlyOp
  BY DEF ReadGone, OnlyOp, chainVars, viewerVars, mainVars
<1> QED
  BY <1>3, <1>4 DEF n

LEMMA GoneStep ==
  ASSUME Typed, NEW v \in Viewers, Gone(v)
  PROVE  /\ op[v].step = "gone"
         /\ refs' = [refs EXCEPT ![screen[v]] = op[v].count - 1]
         /\ state' = [state EXCEPT ![v] = "absent"]
         /\ UNCHANGED <<scaling, copies, chain, fresh, screen, settled, updateMutex,
                        orientation, turning, walk>>
         /\ op' \in [Threads -> Operations] /\ Others(v)
         /\ op'[v].step = "idle" /\ op'[v].cl = NoOne
<1>1. /\ op' \in [Threads -> Operations] /\ Others(v)
      /\ op'[v].step = "idle" /\ op'[v].cl = NoOne
  BY OpDone DEF Gone, Typed, Threads
<1> QED
  BY <1>1 DEF Gone, chainVars, mainVars

LEMMA TurnViewerStep ==
  ASSUME Typed, turning = NotTurning \/ turning.to \in Orientations,
         NEW v \in Viewers, TurnViewer(v)
  PROVE  /\ op[Main] = Idle /\ ~walk.on /\ v \in turning.left
         /\ turning' = [turning EXCEPT !.left = @ \ {v}]
         /\ UNCHANGED <<scaling, copies, chain, refs, fresh, state, screen, settled,
                        updateMutex, orientation, walk>>
         /\ op' \in [Threads -> Operations] /\ Others(Main)
         /\ \/ op'[Main].step = "idle" /\ op'[Main].cl = NoOne
            \/ Linked(v) /\ op'[Main].step = "find" /\ op'[Main].cl = v /\ op'[Main].size \in Sizes
<1>0. /\ Main \in Threads
      /\ op[Main] = Idle /\ ~walk.on /\ v \in turning.left
      /\ turning' = [turning EXCEPT !.left = @ \ {v}]
      /\ UNCHANGED <<scaling, copies, chain, refs, fresh, state, screen, settled,
                     updateMutex, orientation, walk>>
  BY DEF TurnViewer, MainIdle, chainVars, viewerVars, Threads
<1>1. CASE ~Linked(v)
  <2>1. op' = [op EXCEPT ![Main] = At("idle", NoOne, NoSize, 0)]
    BY <1>1 DEF TurnViewer, Idle
  <2>2. "idle" \in Steps /\ NoOne \in Viewers \cup {NoOne} /\ NoSize \in Sizes \cup {NoSize}
        /\ 0 \in Int
    BY DEF Steps
  <2>3. /\ op' \in [Threads -> Operations] /\ Others(Main)
        /\ op'[Main].step = "idle" /\ op'[Main].cl = NoOne
    BY <1>0, <2>1, <2>2, OpTyped, OpBegin
  <2> QED
    BY <1>0, <2>3
<1>2. CASE Linked(v)
  <2> DEFINE z == [of |-> turning.to, by |-> scaling]
  <2>1. op' = [op EXCEPT ![Main] = At("find", v, z, 0)]
    BY <1>2 DEF TurnViewer, Setup
  <2>2. "find" \in Steps /\ z \in Sizes /\ 0 \in Int
    BY DEF Steps, Sizes, Typed, TurnViewer, NotTurning
  <2> HIDE DEF z
  <2>3. /\ op' \in [Threads -> Operations] /\ Others(Main)
        /\ op'[Main].step = "find" /\ op'[Main].cl = v /\ op'[Main].size = z
    BY <1>0, <2>1, <2>2, OpTyped, OpBegin
  <2> QED
    BY <1>0, <1>2, <2>2, <2>3
<1> QED
  BY <1>1, <1>2

-----------------------------------------------------------------------------
(* Types and mutexes.                                                      *)

\* Steps that neither take nor release a mutex.
LEMMA MutexKept ==
  ASSUME MutexHeld, UNCHANGED updateMutex,
         \A u \in Threads : Locked(u)' <=> Locked(u),
         \A u \in Threads : Locked(u) => op'[u].cl = op[u].cl
  PROVE  MutexHeld'
BY DEF MutexHeld, Threads

\* A thread takes the mutex of its client, or gives it back.
LEMMA MutexTaken ==
  ASSUME Typed, MutexHeld, NEW t \in Threads, op[t].cl \in Viewers, Others(t),
         ~Locked(t), Locked(t)', op'[t].cl = op[t].cl, updateMutex[op[t].cl] = NoOne,
         updateMutex' = [updateMutex EXCEPT ![op[t].cl] = t]
  PROVE  MutexHeld'
BY DEF MutexHeld, Typed, Others, Locked

LEMMA MutexReleased ==
  ASSUME Typed, MutexHeld, NEW t \in Threads, op[t].cl \in Viewers, Others(t),
         Locked(t), ~Locked(t)',
         updateMutex' = [updateMutex EXCEPT ![op[t].cl] = IF @ = t THEN NoOne ELSE @]
  PROVE  MutexHeld'
BY DEF MutexHeld, Typed, Others, Locked

\* The types of single variables, to be used instead of all of Typed.
LEMMA MutexType == Typed => updateMutex \in [Viewers -> Threads \cup {NoOne}]
BY DEF Typed
LEMMA RefsType == Typed => refs \in [Screens -> Int]
BY DEF Typed
LEMMA ScreenType == Typed => screen \in [Viewers -> Screens]
BY DEF Typed
LEMMA OpFields ==
  ASSUME Typed, NEW t \in Threads
  PROVE  /\ op[t].cl \in Viewers \cup {NoOne} /\ op[t].ptr \in Screens
         /\ op[t].count \in Int /\ op[t].tail \in Seq(Copies) /\ op[t].step \in Steps
BY DEF Typed, Operations

LEMMA SetupTyped ==
  ASSUME TInv, NEW t \in Threads, ScalingSetup(t)
  PROVE  TInv'
<1> USE DEF TInv
<1>0. op[t].step \in SetupSteps => op[t].cl \in Viewers
  BY DEF Pointers
<1>1. CASE Find(t)
  <2>1. Typed'
    BY <1>1, FindStep DEF Typed, OnlyOp
  <2>2. Pointers'
    BY <1>1, FindStep DEF Pointers, OnlyOp, Others, Keeps, SetupSteps
  <2>3. MutexHeld'
    BY <1>1, FindStep, MutexKept DEF OnlyOp, Others, Keeps, Locked
  <2> QED
    BY <2>1, <2>2, <2>3
<1>2. CASE Allocate(t)
  <2>1. Typed'
    <3>1. op[t].size \in Sizes
      BY <1>2, AllocateStep DEF Pointers
    <3>2. copies' \in Seq(Sizes) /\ Len(copies') <= MaxCopies
      <4>1. copies' = Append(copies, op[t].size) /\ Len(copies) < MaxCopies
        BY <1>2, AllocateStep
      <4>2. copies \in Seq(Sizes) /\ MaxCopies \in Nat
        BY DEF Typed
      <4> DEFINE z == op[t].size
      <4> HIDE DEF z
      <4>3. z \in Sizes /\ copies' = Append(copies, z)
        BY <3>1, <4>1 DEF z
      <4> HIDE DEF Typed, TInv
      <4> QED
        BY <4>1, <4>2, <4>3
    <3>3. fresh' \in [Copies -> BOOLEAN]
      BY <1>2, AllocateStep DEF Typed
    <3>4. UNCHANGED <<scaling, chain, refs, state, screen, settled, updateMutex,
                      orientation, turning, walk>> /\ op' \in [Threads -> Operations]
      BY <1>2, AllocateStep
    <3> QED
      BY <3>2, <3>3, <3>4 DEF Typed
  <2>2. Pointers'
    <3>1. DOMAIN copies' = 1 .. Len(copies) + 1 /\ DOMAIN copies = 1 .. Len(copies)
      BY <1>2, AllocateStep DEF Typed
    <3>2. /\ op'[t].step = "link" /\ op'[t].ptr = Len(copies) + 1 /\ Len(copies) \in Nat
          /\ Others(t) /\ Keeps(t) /\ op[t].step = "allocate" /\ UNCHANGED turning
      BY <1>2, AllocateStep DEF Typed
    <3> QED
      BY <3>1, <3>2 DEF Pointers, Others, Keeps, SetupSteps
  <2>3. MutexHeld'
    BY <1>2, AllocateStep, MutexKept DEF Others, Keeps, Locked
  <2> QED
    BY <2>1, <2>2, <2>3
<1>3. CASE AllocateFails(t)
  <2>1. Typed'
    BY <1>3, AllocateFailsStep DEF Typed, OnlyOp
  <2>2. Pointers'
    BY <1>3, AllocateFailsStep DEF Pointers, OnlyOp, Others, SetupSteps
  <2>3. MutexHeld'
    BY <1>3, AllocateFailsStep, MutexKept DEF OnlyOp, Others, Locked
  <2> QED
    BY <2>1, <2>2, <2>3
<1>4. CASE ReadHead(t)
  <2>0. op[t].cl \in Viewers /\ op[t].step = "link"
    BY <1>0, <1>4, ReadHeadStep DEF SetupSteps
  <2>1. Typed'
    <3>1. updateMutex' \in [Viewers -> Threads \cup {NoOne}]
      BY <2>0, <1>4, ReadHeadStep DEF Typed
    <3>2. UNCHANGED <<scaling, copies, chain, refs, fresh, state, screen, settled,
                      orientation, turning, walk>> /\ op' \in [Threads -> Operations]
      BY <2>0, <1>4, ReadHeadStep
    <3> QED
      BY <3>1, <3>2 DEF Typed
  <2>2. Pointers'
    BY <1>4, ReadHeadStep DEF Pointers, Others, Keeps, SetupSteps
  <2>3. MutexHeld'
    BY <2>0, <1>4, ReadHeadStep, MutexTaken DEF Keeps, Locked
  <2> QED
    BY <2>1, <2>2, <2>3
<1>5. CASE WriteHead(t)
  <2>0. op[t].cl \in Viewers /\ op[t].step = "linked"
    BY <1>0, <1>5, WriteHeadStep DEF SetupSteps
  <2>1. Typed'
    <3>1. op[t].ptr \in Copies /\ op[t].tail \in Seq(Copies)
      BY <2>0 DEF Pointers, Typed, Copies, Operations
    <3>2. updateMutex' \in [Viewers -> Threads \cup {NoOne}]
      <4>1. updateMutex' = [updateMutex EXCEPT ![op[t].cl] = IF @ = t THEN NoOne ELSE @]
        BY <1>5 DEF WriteHead, Unlock
      <4> QED
        BY <4>1, MutexType
    <3>3. chain' \in Seq(Copies)
      <4>1. chain' = <<op[t].ptr>> \o op[t].tail
        BY <1>5 DEF WriteHead
      <4>2. <<op[t].ptr>> \in Seq(Copies)
        BY <3>1
      <4> DEFINE a == <<op[t].ptr>>
                 b == op[t].tail
      <4>3. a \in Seq(Copies) /\ b \in Seq(Copies) /\ chain' = a \o b
        BY <3>1, <4>1, <4>2
      <4> HIDE DEF a, b
      <4> QED
        BY <4>3
    <3>4. UNCHANGED <<scaling, copies, refs, fresh, state, screen, settled, orientation,
                      turning, walk>> /\ op' \in [Threads -> Operations]
      BY <1>5, WriteHeadStep
    <3> QED
      BY <3>2, <3>3, <3>4 DEF Typed
  <2>2. Pointers'
    BY <1>5, WriteHeadStep DEF Pointers, Others, Keeps, SetupSteps
  <2>3. MutexHeld'
    BY <2>0, <1>5, WriteHeadStep, MutexReleased DEF Keeps, Locked
  <2> QED
    BY <2>1, <2>2, <2>3
<1>6. CASE Refresh(t)
  <2>1. Typed'
    <3>1. fresh' \in [Copies -> BOOLEAN]
      BY <1>6, RefreshStep DEF Typed
    <3>2. UNCHANGED <<scaling, copies, chain, refs, state, screen, settled, updateMutex,
                      orientation, turning, walk>> /\ op' \in [Threads -> Operations]
      BY <1>6, RefreshStep
    <3> QED
      BY <3>1, <3>2 DEF Typed
  <2>2. Pointers'
    BY <1>6, RefreshStep DEF Pointers, Others, Keeps, SetupSteps
  <2>3. MutexHeld'
    BY <1>6, RefreshStep, MutexKept DEF Others, Keeps, Locked
  <2> QED
    BY <2>1, <2>2, <2>3
<1>7. CASE LeaveOld(t)
  <2>0. op[t].step = "lock" /\ op[t].cl \in Viewers
    BY <1>0, <1>7 DEF LeaveOld, SetupSteps
  <2>1. Typed'
    <3>1. updateMutex' \in [Viewers -> Threads \cup {NoOne}]
      <4>1. updateMutex' = [updateMutex EXCEPT ![op[t].cl] = t]
        BY <1>7 DEF LeaveOld, Lock
      <4> QED
        BY <4>1, MutexType
    <3>2. UNCHANGED <<scaling, copies, chain, refs, fresh, state, screen, settled,
                      orientation, turning, walk>> /\ op' \in [Threads -> Operations]
      BY <2>0, <1>7, LeaveOldStep
    <3> QED
      BY <3>1, <3>2 DEF Typed
  <2>2. Pointers'
    BY <2>0, <1>7, LeaveOldStep DEF Pointers, Others, Keeps, SetupSteps
  <2>3. MutexHeld'
    BY <2>0, <1>7, LeaveOldStep, MutexTaken DEF Keeps, Locked
  <2> QED
    BY <2>1, <2>2, <2>3
<1>8. CASE LeftOld(t)
  <2>1. Typed'
    <3>1. op[t].count - 1 \in Int
      BY OpFields
    <3>2. refs' \in [Screens -> Int]
      <4> DEFINE n == op[t].count - 1
      <4>1. refs' = [refs EXCEPT ![screen[op[t].cl]] = n]
        BY <1>8 DEF LeftOld
      <4>2. n \in Int
        BY <3>1
      <4> HIDE DEF n
      <4> QED
        BY <4>1, <4>2, RefsType
    <3>3. UNCHANGED <<scaling, copies, chain, fresh, state, screen, settled, updateMutex,
                      orientation, turning, walk>> /\ op' \in [Threads -> Operations]
      BY <1>8, LeftOldStep
    <3> QED
      BY <3>2, <3>3 DEF Typed
  <2>2. Pointers'
    BY <1>8, LeftOldStep DEF Pointers, Others, Keeps, SetupSteps
  <2>3. MutexHeld'
    BY <1>8, LeftOldStep, MutexKept DEF Others, Keeps, Locked
  <2> QED
    BY <2>1, <2>2, <2>3
<1>9. CASE JoinNew(t)
  <2>1. Typed'
    BY <1>9, JoinNewStep DEF Typed, OnlyOp
  <2>2. Pointers'
    BY <1>9, JoinNewStep DEF Pointers, OnlyOp, Others, Keeps, SetupSteps
  <2>3. MutexHeld'
    BY <1>9, JoinNewStep, MutexKept DEF OnlyOp, Others, Keeps, Locked
  <2> QED
    BY <2>1, <2>2, <2>3
<1>10. CASE Switch(t)
  <2>0. op[t].cl \in Viewers /\ op[t].step = "join"
    BY <1>0, <1>10, SwitchStep DEF SetupSteps
  <2>1. Typed'
    <3>1. op[t].count \in Int /\ op[t].ptr \in Screens
      BY DEF Typed, Operations
    <3>2. updateMutex' \in [Viewers -> Threads \cup {NoOne}]
      <4>1. updateMutex' = [updateMutex EXCEPT ![op[t].cl] = IF @ = t THEN NoOne ELSE @]
        BY <1>10 DEF Switch, Unlock
      <4> QED
        BY <4>1, MutexType
    <3>3. refs' \in [Screens -> Int]
      <4> DEFINE n == op[t].count + 1
      <4>1. refs' = [refs EXCEPT ![op[t].ptr] = n]
        BY <1>10 DEF Switch
      <4>2. n \in Int
        BY <3>1
      <4> HIDE DEF n
      <4> QED
        BY <4>1, <4>2, RefsType
    <3>4. screen' \in [Viewers -> Screens]
      <4>1. screen' = [screen EXCEPT ![op[t].cl] = op[t].ptr]
        BY <1>10 DEF Switch
      <4>2. op[t].ptr \in Screens
        BY <3>1
      <4> QED
        BY <4>1, <4>2, ScreenType
    <3>5. settled' \in [Viewers -> BOOLEAN]
      BY <2>0, <1>10, SwitchStep DEF Typed
    <3>6. UNCHANGED <<scaling, copies, chain, fresh, state, orientation, turning, walk>>
           /\ op' \in [Threads -> Operations]
      BY <1>10, SwitchStep
    <3> QED
      BY <3>2, <3>3, <3>4, <3>5, <3>6 DEF Typed
  <2>2. Pointers'
    BY <1>10, SwitchStep DEF Pointers, Others, SetupSteps
  <2>3. MutexHeld'
    BY <2>0, <1>10, SwitchStep, MutexReleased DEF Locked
  <2> QED
    BY <2>1, <2>2, <2>3
<1> QED
  BY <1>1, <1>2, <1>3, <1>4, <1>5, <1>6, <1>7, <1>8, <1>9, <1>10 DEF ScalingSetup

LEMMA StateType == Typed => state \in [Viewers -> {"absent", "new", "running", "leaving"}]
BY DEF Typed
LEMMA SettledType == Typed => settled \in [Viewers -> BOOLEAN]
BY DEF Typed

LEMMA ClientTyped ==
  ASSUME TInv, NEW v \in Viewers, Client(v)
  PROVE  TInv'
<1> USE DEF TInv
<1>0. v \in Threads /\ Listener \in Threads
  BY DEF Threads
<1>1. CASE Accept(v)
  <2>1. Typed'
    BY <1>1, AcceptStep DEF Typed, OnlyOp
  <2>2. Pointers'
    BY <1>1, AcceptStep DEF Pointers, OnlyOp, Others, SetupSteps
  <2>3. MutexHeld'
    <3>1. op[Listener].step = "idle"
      BY <1>1, AcceptStep DEF Idle, At
    <3> QED
      BY <3>1, <1>0, <1>1, AcceptStep, MutexKept DEF OnlyOp, Others, Locked
  <2> QED
    BY <2>1, <2>2, <2>3
<1>2. CASE Connect(v)
  <2>1. Typed'
    <3>1. refs' \in [Screens -> Int]
      <4> DEFINE n == op[Listener].count + 1
      <4>1. refs' = [refs EXCEPT ![Base] = n]
        BY <1>2 DEF Connect
      <4>2. n \in Int
        BY <1>0, OpFields
      <4> HIDE DEF n
      <4> QED
        BY <4>1, <4>2, RefsType
    <3>2. state' \in [Viewers -> {"absent", "new", "running", "leaving"}]
      <4>1. state' = [state EXCEPT ![v] = "new"]
        BY <1>2 DEF Connect
      <4> QED
        BY <4>1, StateType
    <3>3. screen' \in [Viewers -> Screens]
      <4>1. screen' = [screen EXCEPT ![v] = Base]
        BY <1>2 DEF Connect
      <4> QED
        BY <4>1, ScreenType DEF Screens
    <3>4. settled' \in [Viewers -> BOOLEAN]
      <4>1. settled' = [settled EXCEPT ![v] = FALSE]
        BY <1>2 DEF Connect
      <4> QED
        BY <4>1, SettledType
    <3>5. /\ UNCHANGED <<scaling, copies, chain, fresh, updateMutex, orientation, turning, walk>>
          /\ op' \in [Threads -> Operations]
      BY <1>2, ConnectStep
    <3> QED
      BY <3>1, <3>2, <3>3, <3>4, <3>5 DEF Typed
  <2>2. Pointers'
    BY <1>2, ConnectStep DEF Pointers, Others, SetupSteps
  <2>3. MutexHeld'
    BY <1>0, <1>2, ConnectStep, MutexKept DEF Others, Locked
  <2> QED
    BY <2>1, <2>2, <2>3
<1>3. CASE StartInput(v)
  <2>0. /\ state' = [state EXCEPT ![v] = "running"]
        /\ UNCHANGED <<scaling, copies, chain, refs, fresh, screen, settled, updateMutex, op,
                       orientation, turning, walk>>
    BY <1>3 DEF StartInput, chainVars, mainVars
  <2>1. state' \in [Viewers -> {"absent", "new", "running", "leaving"}]
    BY <2>0, StateType
  <2>2. Typed'
    BY <2>0, <2>1 DEF Typed
  <2>3. Pointers' /\ MutexHeld'
    BY <2>0 DEF Pointers, MutexHeld, Locked
  <2> QED
    BY <2>2, <2>3
<1>4. CASE SetScale(v)
  <2>1. Typed'
    BY <1>4, SetScaleStep DEF Typed, OnlyOp
  <2>2. Pointers'
    BY <1>4, SetScaleStep DEF Pointers, OnlyOp, Others, SetupSteps
  <2>3. MutexHeld'
    <3>1. op[v].step = "idle"
      BY <1>4, SetScaleStep DEF Idle, At
    <3> QED
      BY <3>1, <1>0, <1>4, SetScaleStep, MutexKept DEF OnlyOp, Others, Locked
  <2> QED
    BY <2>1, <2>2, <2>3
<1>5. CASE Leave(v)
  <2>0. /\ state' = [state EXCEPT ![v] = "leaving"]
        /\ UNCHANGED <<scaling, copies, chain, refs, fresh, screen, settled, updateMutex, op,
                       orientation, turning, walk>>
    BY <1>5 DEF Leave, chainVars, mainVars
  <2>1. state' \in [Viewers -> {"absent", "new", "running", "leaving"}]
    BY <2>0, StateType
  <2>2. Typed'
    BY <2>0, <2>1 DEF Typed
  <2>3. Pointers' /\ MutexHeld'
    BY <2>0 DEF Pointers, MutexHeld, Locked
  <2> QED
    BY <2>2, <2>3
<1>6. CASE ReadGone(v)
  <2>1. Typed'
    BY <1>6, ReadGoneStep DEF Typed, OnlyOp
  <2>2. Pointers'
    BY <1>6, ReadGoneStep DEF Pointers, OnlyOp, Others, SetupSteps
  <2>3. MutexHeld'
    <3>1. op[v].step = "idle"
      BY <1>6, ReadGoneStep DEF Idle, At
    <3> QED
      BY <3>1, <1>0, <1>6, ReadGoneStep, MutexKept DEF OnlyOp, Others, Locked
  <2> QED
    BY <2>1, <2>2, <2>3
<1>7. CASE Gone(v)
  <2>1. Typed'
    <3>1. refs' \in [Screens -> Int]
      <4> DEFINE n == op[v].count - 1
      <4>1. refs' = [refs EXCEPT ![screen[v]] = n]
        BY <1>7 DEF Gone
      <4>2. n \in Int
        BY <1>0, OpFields
      <4> HIDE DEF n
      <4> QED
        BY <4>1, <4>2, RefsType
    <3>2. state' \in [Viewers -> {"absent", "new", "running", "leaving"}]
      <4>1. state' = [state EXCEPT ![v] = "absent"]
        BY <1>7 DEF Gone
      <4> QED
        BY <4>1, StateType
    <3>3. /\ UNCHANGED <<scaling, copies, chain, fresh, screen, settled, updateMutex,
                         orientation, turning, walk>>
          /\ op' \in [Threads -> Operations]
      BY <1>7, GoneStep
    <3> QED
      BY <3>1, <3>2, <3>3 DEF Typed
  <2>2. Pointers'
    BY <1>7, GoneStep DEF Pointers, Others, SetupSteps
  <2>3. MutexHeld'
    BY <1>0, <1>7, GoneStep, MutexKept DEF Others, Locked
  <2> QED
    BY <2>1, <2>2, <2>3
<1> QED
  BY <1>1, <1>2, <1>3, <1>4, <1>5, <1>6, <1>7 DEF Client

\* Main's steps but for the viewers' turns leave op and the mutexes alone.
LEMMA DrawTyped ==
  ASSUME Typed, DrawFrame
  PROVE  /\ UNCHANGED <<scaling, copies, chain, refs, state, screen, updateMutex, op>>
         /\ fresh' = [c \in Copies |-> FALSE]
         /\ settled' = [v \in Viewers |-> Linked(v) /\ ~Switching(v)]
         /\ walk' = [on |-> TRUE, left |-> chain]
         /\ settled' \in [Viewers -> BOOLEAN] /\ fresh' \in [Copies -> BOOLEAN]
         /\ walk' \in [on : BOOLEAN, left : Seq(Copies)]
BY DEF DrawFrame, chainVars, Typed, Linked, Switching

LEMMA MainTyped ==
  ASSUME TInv, MainThread
  PROVE  TInv'
<1> USE DEF TInv
<1>1. CASE NextFrame
  <2>1. UNCHANGED <<orientation, turning>>
    BY <1>1 DEF NextFrame
  <2>2. Typed'
    BY <1>1, <2>1, DrawTyped DEF NextFrame, Typed
  <2>3. UNCHANGED <<op, updateMutex, copies, turning>>
    BY <1>1, <2>1, DrawTyped DEF NextFrame
  <2> QED
    BY <2>2, <2>3 DEF Pointers, MutexHeld, Locked
<1>2. CASE UpdateCopy
  <2>1. /\ fresh' = [fresh EXCEPT ![Head(walk.left)] = @ \/ refs[Head(walk.left)] > 0]
        /\ walk' = [walk EXCEPT !.left = Tail(@)] /\ walk.left # <<>>
        /\ UNCHANGED <<scaling, copies, chain, refs, state, screen, settled, updateMutex, op,
                       orientation, turning>>
    BY <1>2 DEF UpdateCopy, chainVars, viewerVars
  <2>2. fresh' \in [Copies -> BOOLEAN]
    <3> DEFINE b == fresh[Head(walk.left)] \/ refs[Head(walk.left)] > 0
    <3>1. fresh' = [fresh EXCEPT ![Head(walk.left)] = b] /\ b \in BOOLEAN
      BY <2>1 DEF Typed
    <3>2. fresh \in [Copies -> BOOLEAN]
      BY DEF Typed
    <3> HIDE DEF b
    <3> QED
      BY <3>1, <3>2
  <2>3. walk' \in [on : BOOLEAN, left : Seq(Copies)]
    <3>1. walk \in [on : BOOLEAN, left : Seq(Copies)]
      BY DEF Typed
    <3>2. Tail(walk.left) \in Seq(Copies)
      BY <2>1, <3>1
    <3> QED
      BY <2>1, <3>1, <3>2
  <2>4. Typed'
    BY <2>1, <2>2, <2>3 DEF Typed
  <2> QED
    BY <2>1, <2>4 DEF Pointers, MutexHeld, Locked
<1>3. CASE EndUpdate
  <2>1. /\ walk' = NotWalking
        /\ UNCHANGED <<scaling, copies, chain, refs, fresh, state, screen, settled,
                       updateMutex, op, orientation, turning>>
    BY <1>3 DEF EndUpdate, chainVars, viewerVars
  <2>2. Typed'
    BY <2>1 DEF Typed, NotWalking
  <2> QED
    BY <2>1, <2>2 DEF Pointers, MutexHeld, Locked
<1>4. CASE Turn
  <2>1. /\ \E o \in Orientations \ {orientation} :
              turning' = [to |-> o, left |-> {v \in Viewers : Linked(v)}]
        /\ UNCHANGED <<scaling, copies, chain, refs, fresh, state, screen, settled,
                       updateMutex, op, orientation, walk>>
    BY <1>4 DEF Turn, chainVars, viewerVars
  <2>2. /\ turning' \in [to : Orientations \cup {NoOne}, left : SUBSET Viewers]
        /\ turning'.to \in Orientations
    BY <2>1
  <2>3. Typed'
    BY <2>1, <2>2 DEF Typed
  <2> QED
    BY <2>1, <2>2, <2>3 DEF Pointers, MutexHeld, Locked
<1>5. CASE TurnScreen
  <2>1. turning # NotTurning /\ orientation' = turning.to /\ turning' = NotTurning
    BY <1>5 DEF TurnScreen
  <2>2. /\ orientation' \in Orientations
        /\ turning' \in [to : Orientations \cup {NoOne}, left : SUBSET Viewers]
    BY <2>1 DEF Pointers, NotTurning
  <2>3. Typed'
    BY <1>5, <2>2, DrawTyped DEF TurnScreen, Typed
  <2>4. UNCHANGED <<op, updateMutex, copies>>
    BY <1>5, DrawTyped DEF TurnScreen
  <2> QED
    BY <2>1, <2>3, <2>4 DEF Pointers, MutexHeld, Locked
<1>6. ASSUME NEW v \in Viewers, TurnViewer(v)
      PROVE  TInv'
  <2>0. turning = NotTurning \/ turning.to \in Orientations
    BY DEF Pointers
  <2>a. Main \in Threads /\ op[Main].step = "idle"
    BY <1>6 DEF TurnViewer, MainIdle, Idle, At, Threads
  <2>1. /\ v \in turning.left
        /\ turning' = [turning EXCEPT !.left = @ \ {v}]
        /\ UNCHANGED <<scaling, copies, chain, refs, fresh, state, screen, settled,
                       updateMutex, orientation, walk>>
        /\ op' \in [Threads -> Operations] /\ Others(Main)
        /\ \/ op'[Main].step = "idle"
           \/ op'[Main].step = "find" /\ op'[Main].cl = v /\ op'[Main].size \in Sizes
    BY <1>6, <2>0, TurnViewerStep
  <2>2. turning' \in [to : Orientations \cup {NoOne}, left : SUBSET Viewers]
        /\ turning'.to = turning.to
    <3>1. turning \in [to : Orientations \cup {NoOne}, left : SUBSET Viewers]
      BY DEF Typed
    <3> QED
      BY <2>1, <3>1
  <2>3. Typed'
    BY <2>1, <2>2 DEF Typed
  <2>4. Pointers'
    <3>1. turning # NotTurning
      BY <2>1 DEF NotTurning
    <3> QED
      BY <2>0, <2>a, <2>1, <2>2, <3>1 DEF Pointers, Others, SetupSteps
  <2>5. MutexHeld'
    BY <2>a, <2>1, MutexKept DEF Others, Locked
  <2> QED
    BY <2>3, <2>4, <2>5
<1> QED
  BY <1>1, <1>2, <1>3, <1>4, <1>5, <1>6 DEF MainThread

\* Races are remembered.
Remembered == raced.counts \subseteq raced'.counts /\ (raced.chain => raced'.chain)

LEMMA CountRead ==
  ASSUME RacedTyped, NEW cl, NEW s \in Screens, ReadsCount(cl, s)
  PROVE  /\ RacedTyped' /\ Remembered
         /\ s \notin raced'.counts =>
              \A u \in Threads : Counting(u, s) => op[u].cl = cl
<1>1. CASE UNCHANGED raced /\ \A u \in Threads : Counting(u, s) => op[u].cl = cl
  BY <1>1 DEF RacedTyped, Remembered
<1>2. CASE /\ raced.reads < MaxRaces
           /\ raced' = [raced EXCEPT !.counts = @ \cup {s}, !.reads = @ + 1]
  <2> DEFINE c == raced.counts \cup {s}
             n == raced.reads + 1
  <2>1. /\ raced' = [raced EXCEPT !.counts = c, !.reads = n]
        /\ c \in SUBSET Screens /\ n \in 0 .. MaxRaces
    BY <1>2 DEF RacedTyped
  <2>2. raced.counts \subseteq c /\ s \in c
    OBVIOUS
  <2> HIDE DEF c, n
  <2>3. RacedTyped' /\ raced'.counts = c /\ raced'.chain = raced.chain
    BY <2>1 DEF RacedTyped
  <2> QED
    BY <2>2, <2>3 DEF Remembered
<1> QED
  BY <1>1, <1>2 DEF ReadsCount

LEMMA HeadRead ==
  ASSUME RacedTyped, NEW cl, ReadsHead(cl)
  PROVE  /\ RacedTyped' /\ Remembered /\ raced'.counts = raced.counts
         /\ ~raced'.chain => \A u \in Threads : op[u].step = "linked" => op[u].cl = cl
<1>1. CASE UNCHANGED raced /\ \A u \in Threads : op[u].step = "linked" => op[u].cl = cl
  BY <1>1 DEF RacedTyped, Remembered
<1>2. CASE /\ raced.reads < MaxRaces
           /\ raced' = [raced EXCEPT !.chain = TRUE, !.reads = @ + 1]
  <2> DEFINE n == raced.reads + 1
  <2>1. raced' = [raced EXCEPT !.chain = TRUE, !.reads = n] /\ n \in 0 .. MaxRaces
    BY <1>2 DEF RacedTyped
  <2> HIDE DEF n
  <2>2. RacedTyped' /\ raced'.counts = raced.counts /\ raced'.chain
    BY <2>1 DEF RacedTyped
  <2> QED
    BY <2>2 DEF Remembered
<1> QED
  BY <1>1, <1>2 DEF ReadsHead

LEMMA StepRaced ==
  ASSUME TInv, RacedTyped, [Next]_vars
  PROVE  RacedTyped' /\ Remembered
<1>0. UNCHANGED raced => RacedTyped' /\ Remembered
  BY DEF RacedTyped, Remembered
<1>1. ASSUME NEW t \in Threads, ScalingSetup(t) PROVE RacedTyped' /\ Remembered
  <2>1. op[t].step \in SetupSteps => op[t].cl \in Viewers
    BY DEF TInv, Pointers
  <2>2. op[t].ptr \in Screens /\ \A v \in Viewers : screen[v] \in Screens
    BY DEF TInv, Typed, Operations
  <2>3. CASE ReadHead(t)
    BY <2>3, HeadRead DEF ReadHead
  <2>4. CASE LeaveOld(t)
    BY <2>1, <2>2, <2>4, CountRead DEF LeaveOld, SetupSteps
  <2>5. CASE JoinNew(t)
    BY <2>2, <2>5, CountRead DEF JoinNew
  <2>6. CASE ~ReadHead(t) /\ ~LeaveOld(t) /\ ~JoinNew(t)
    BY <1>0, <1>1, <2>6 DEF ScalingSetup, Find, Allocate, AllocateFails, WriteHead, Refresh,
       LeftOld, Switch
  <2> QED
    BY <2>3, <2>4, <2>5, <2>6
<1>2. ASSUME NEW v \in Viewers, Client(v) PROVE RacedTyped' /\ Remembered
  <2>1. Base \in Screens /\ screen[v] \in Screens
    BY DEF TInv, Typed, Screens
  <2>2. CASE Accept(v)
    BY <2>1, <2>2, CountRead DEF Accept
  <2>3. CASE ReadGone(v)
    BY <2>1, <2>3, CountRead DEF ReadGone
  <2>4. CASE ~Accept(v) /\ ~ReadGone(v)
    BY <1>0, <1>2, <2>4 DEF Client, Connect, StartInput, SetScale, Leave, Gone
  <2> QED
    BY <2>2, <2>3, <2>4
<1>3. CASE MainThread
  BY <1>0, <1>3 DEF MainThread, NextFrame, UpdateCopy, EndUpdate, Turn, TurnScreen, TurnViewer,
     DrawFrame
<1>4. CASE UNCHANGED vars
  BY <1>0, <1>4 DEF vars
<1> QED
  BY <1>1, <1>2, <1>3, <1>4 DEF Next

LEMMA InitRaced == Init => RacedTyped
BY DEF Init, RacedTyped

LEMMA StepTyped == TInv /\ [Next]_vars => TInv'
<1>1. ASSUME TInv, UNCHANGED vars PROVE TInv'
  BY <1>1 DEF TInv, Typed, Pointers, MutexHeld, Locked, vars, chainVars, viewerVars, mainVars
<1> QED
  BY <1>1, SetupTyped, ClientTyped, MainTyped DEF Next

\* Whatever the number of viewers, threads stay at the steps of the functions they
\* run, and a client's updateMutex is held by the thread that links a copy or
\* switches the screen for it, and by nobody else (rfbScalingSetup, scale.c:354-392).
THEOREM TypeCorrect == Spec => []TypeOK
<1>1. TInv /\ RacedTyped => TypeOK
  BY DEF TInv, Typed, RacedTyped, TypeOK
<1> QED
  BY <1>1, InitTyped, InitRaced, StepTyped, StepRaced, PTL DEF Spec
=============================================================================
