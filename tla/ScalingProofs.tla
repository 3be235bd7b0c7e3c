---------------------------- MODULE ScalingProofs ----------------------------
(***************************************************************************)
(* What ScaledScreens guarantees to any number of viewers: the counts, the *)
(* chain and what a viewer sees.  A client's updateMutex keeps apart the   *)
(* threads that scale for this client; a count or the chain goes wrong     *)
(* only where the updates of two clients meet.                             *)
(***************************************************************************)
EXTENDS ScaledScreensProofs

USE ThreadsAssumption, CopiesAssumption, NoOneAssumption, RacesAssumption

-----------------------------------------------------------------------------
(* The chain.                                                              *)

LinkSteps == {"link", "linked"}

\* A thread that links a copy has it to itself, and the chain it has read is the
\* chain still.
ChainGood ==
  /\ \A i, j \in DOMAIN chain : chain[i] = chain[j] => i = j
  /\ \A i \in DOMAIN chain : chain[i] \in DOMAIN copies
  /\ \A c \in DOMAIN copies : Linking(c) \/ InChain(c)
  /\ \A t \in Threads : op[t].step \in LinkSteps => ~InChain(op[t].ptr)
  /\ \A t, u \in Threads :
       op[t].step \in LinkSteps /\ op[u].step \in LinkSteps /\ op[t].ptr = op[u].ptr => t = u
  /\ \A t \in Threads : op[t].step = "linked" => op[t].tail = chain
  /\ \A t, u \in Threads : op[t].step = "linked" /\ op[u].step = "linked" => t = u

ChainInv == ~raced.chain => ChainGood

LEMMA InitChain == Init => ChainInv
BY DEF Init, ChainInv, ChainGood, Linking, InChain, LinkSteps, Idle, At

\* A step of a thread that links no copy before or after it.
Aside(t) ==
  t \in Threads /\ Others(t) /\ op[t].step \notin LinkSteps /\ op'[t].step \notin LinkSteps

LEMMA ChainAside ==
  ASSUME ChainGood, UNCHANGED <<chain, copies>>, NEW t, UNCHANGED op \/ Aside(t)
  PROVE  ChainGood'
<1>1. \A u \in Threads : /\ op'[u].step \in LinkSteps <=> op[u].step \in LinkSteps
                         /\ op[u].step \in LinkSteps => op'[u] = op[u]
  BY DEF Aside, Others
<1>2. \A c : Linking(c)' <=> Linking(c)
  BY <1>1 DEF Linking, LinkSteps
<1>3. \A c : InChain(c)' <=> InChain(c)
  BY DEF InChain
<1> QED
  BY <1>1, <1>2, <1>3 DEF ChainGood, LinkSteps

\* The copy goes to the head of the chain as it is.
LEMMA HeadWritten ==
  ASSUME TInv, ChainGood, NEW t \in Threads, WriteHead(t)
  PROVE  /\ ~InChain(op[t].ptr) /\ op[t].ptr \in DOMAIN copies
         /\ Len(chain) \in Nat /\ DOMAIN chain = 1 .. Len(chain)
         /\ DOMAIN chain' = 1 .. Len(chain) + 1
         /\ chain'[1] = op[t].ptr /\ \A i \in 1 .. Len(chain) : chain'[i + 1] = chain[i]
         /\ \A i \in DOMAIN chain' :
              chain'[i] = op[t].ptr \/ \E j \in DOMAIN chain : chain'[i] = chain[j]
         /\ \A c : InChain(c)' <=> c = op[t].ptr \/ InChain(c)
<1> DEFINE p == op[t].ptr
<1>0. Typed
  BY DEF TInv
<1>1. chain' = <<p>> \o op[t].tail /\ op[t].step = "linked"
  BY <1>0, WriteHeadStep
<1>2. chain' = <<p>> \o chain /\ ~InChain(p) /\ p \in DOMAIN copies /\ chain \in Seq(Copies)
  BY <1>0, <1>1 DEF ChainGood, TInv, Pointers, Typed, LinkSteps
<1> HIDE DEF p
<1>3. /\ Len(chain) \in Nat /\ DOMAIN chain = 1 .. Len(chain)
      /\ DOMAIN chain' = 1 .. Len(chain) + 1
      /\ chain'[1] = p /\ \A i \in 1 .. Len(chain) : chain'[i + 1] = chain[i]
  BY <1>2
<1>a. \A i \in DOMAIN chain' : chain'[i] = p \/ \E j \in DOMAIN chain : chain'[i] = chain[j]
  <2> SUFFICES ASSUME NEW i \in 1 .. Len(chain) + 1, i # 1
               PROVE  \E j \in DOMAIN chain : chain'[i] = chain[j]
    BY <1>3
  <2>1. i - 1 \in 1 .. Len(chain) /\ (i - 1) + 1 = i
    BY <1>3
  <2> QED
    BY <1>3, <2>1
<1>4. \A c : InChain(c)' <=> c = p \/ InChain(c)
  <2>1. ASSUME NEW c, InChain(c)' PROVE c = p \/ InChain(c)
    <3>1. PICK i \in 1 .. Len(chain) + 1 : chain'[i] = c
      BY <1>3, <2>1 DEF InChain
    <3>2. i = 1 \/ i - 1 \in 1 .. Len(chain)
      BY <1>3
    <3>3. i - 1 \in 1 .. Len(chain) => chain'[i] = chain[i - 1]
      BY <1>3
    <3> QED
      BY <1>3, <3>1, <3>2, <3>3 DEF InChain
  <2>2. ASSUME NEW c, c = p \/ InChain(c) PROVE InChain(c)'
    BY <1>3, <2>2 DEF InChain
  <2> QED
    BY <2>1, <2>2
<1> QED
  BY <1>2, <1>3, <1>a, <1>4 DEF p

LEMMA ChainSetup ==
  ASSUME TInv, RacedTyped, ChainGood, NEW t \in Threads, ScalingSetup(t), ~raced'.chain
  PROVE  ChainGood'
<1>0. Typed /\ (op[t].step \in SetupSteps => op[t].cl \in Viewers)
  BY DEF TInv, Pointers
<1>1. CASE Find(t)
  BY <1>0, <1>1, FindStep, ChainAside DEF OnlyOp, Aside, LinkSteps
<1>2. CASE Allocate(t)
  <2> DEFINE n == Len(copies) + 1
  <2>1. /\ copies' = Append(copies, op[t].size) /\ UNCHANGED chain /\ Others(t)
        /\ op[t].step = "allocate" /\ op'[t].step = "link" /\ op'[t].ptr = n
    BY <1>0, <1>2, AllocateStep
  <2>2. n \notin DOMAIN copies /\ DOMAIN copies' = DOMAIN copies \cup {n}
    BY <1>0, <2>1 DEF Typed
  <2> HIDE DEF n
  <2>3. ~InChain(n)
    BY <2>2 DEF ChainGood, InChain
  <2>4. \A u \in Threads : op[u].step \in LinkSteps => op[u].ptr # n
    BY <2>2 DEF TInv, Pointers, LinkSteps
  <2>5. \A c : InChain(c)' <=> InChain(c)
    BY <2>1 DEF InChain
  <2>6. \A c : Linking(c) \/ c = n => Linking(c)'
    BY <2>1 DEF Linking, Others
  <2> QED
    BY <2>1, <2>2, <2>3, <2>4, <2>5, <2>6 DEF ChainGood, Others, LinkSteps
<1>3. CASE AllocateFails(t)
  BY <1>0, <1>3, AllocateFailsStep, ChainAside DEF OnlyOp, Aside, LinkSteps
<1>4. CASE ReadHead(t)
  <2>1. /\ UNCHANGED <<chain, copies>> /\ Others(t) /\ op[t].step = "link"
        /\ op'[t].step = "linked" /\ op'[t].ptr = op[t].ptr /\ op'[t].tail = chain
    BY <1>0, <1>4, ReadHeadStep
  <2>2. \A u \in Threads : /\ op'[u].step \in LinkSteps <=> op[u].step \in LinkSteps
                           /\ op'[u].step \in LinkSteps => op'[u].ptr = op[u].ptr
    BY <2>1 DEF Others, LinkSteps
  <2>3. \A c : (Linking(c)' <=> Linking(c)) /\ (InChain(c)' <=> InChain(c))
    BY <2>1, <2>2 DEF Linking, InChain, LinkSteps
  <2>4. \A u \in Threads : op'[u].step = "linked" => op'[u].tail = chain
    BY <2>1 DEF Others, ChainGood
  <2>5. \A u \in Threads : op[u].step # "linked"
    <3> SUFFICES ASSUME NEW u \in Threads, op[u].step = "linked"
                 PROVE  FALSE
      OBVIOUS
    <3>1. ReadsHead(op[t].cl) /\ updateMutex[op[t].cl] = NoOne
      BY <1>4 DEF ReadHead, Lock
    <3>2. op[u].cl = op[t].cl
      BY <3>1, HeadRead
    <3>3. updateMutex[op[t].cl] = u
      BY <1>0, <2>1, <3>2 DEF TInv, MutexHeld, Locked, SetupSteps
    <3> QED
      BY <3>1, <3>3
  <2>6. \A u, w \in Threads : op'[u].step = "linked" /\ op'[w].step = "linked" => u = w
    BY <2>1, <2>5 DEF Others
  <2> QED
    BY <2>1, <2>2, <2>3, <2>4, <2>6 DEF ChainGood
<1>5. CASE WriteHead(t)
  <2> DEFINE p == op[t].ptr
  <2>1. /\ UNCHANGED copies /\ Others(t)
        /\ op[t].step = "linked" /\ op'[t].step = "refresh"
    BY <1>0, <1>5, WriteHeadStep
  <2>2. ~InChain(p) /\ p \in DOMAIN copies
    BY <1>5, HeadWritten
  <2>3. /\ Len(chain) \in Nat /\ DOMAIN chain = 1 .. Len(chain)
        /\ DOMAIN chain' = 1 .. Len(chain) + 1
        /\ chain'[1] = p /\ \A i \in 1 .. Len(chain) : chain'[i + 1] = chain[i]
    BY <1>5, HeadWritten
  <2>a. \A i \in DOMAIN chain' : chain'[i] = p \/ \E j \in DOMAIN chain : chain'[i] = chain[j]
    BY <1>5, HeadWritten
  <2>4. \A c : InChain(c)' <=> c = p \/ InChain(c)
    BY <1>5, HeadWritten
  <2> HIDE DEF p
  <2>5. \A i, j \in DOMAIN chain' : chain'[i] = chain'[j] => i = j
    <3> SUFFICES ASSUME NEW i \in 1 .. Len(chain) + 1, NEW j \in 1 .. Len(chain) + 1,
                        chain'[i] = chain'[j]
                 PROVE  i = j
      BY <2>3
    <3>1. /\ i # 1 => i - 1 \in 1 .. Len(chain) /\ chain'[i] = chain[i - 1]
          /\ j # 1 => j - 1 \in 1 .. Len(chain) /\ chain'[j] = chain[j - 1]
      BY <2>3
    <3>2. CASE i = 1 /\ j # 1
      BY <2>2, <2>3, <3>1, <3>2 DEF InChain
    <3>3. CASE i # 1 /\ j = 1
      BY <2>2, <2>3, <3>1, <3>3 DEF InChain
    <3>4. CASE i # 1 /\ j # 1
      <4>1. i - 1 = j - 1
        BY <2>3, <3>1, <3>4 DEF ChainGood
      <4> QED
        BY <4>1, <2>3
    <3> QED
      BY <3>2, <3>3, <3>4
  <2>6. \A i \in DOMAIN chain' : chain'[i] \in DOMAIN copies'
    BY <2>a, <2>1, <2>2 DEF ChainGood
  <2>7. \A u \in Threads : op'[u].step \in LinkSteps =>
          op[u].step \in LinkSteps /\ op'[u] = op[u] /\ u # t
    BY <2>1 DEF Others, LinkSteps
  <2>8. \A u \in Threads : op'[u].step # "linked"
    <3> SUFFICES ASSUME NEW u \in Threads, op'[u].step = "linked"
                 PROVE  FALSE
      OBVIOUS
    <3>1. u # t /\ op[u].step = "linked"
      BY <2>7 DEF LinkSteps
    <3> QED
      BY <2>1, <3>1 DEF ChainGood
  <2>9. \A c : Linking(c) => Linking(c)' \/ c = p
    BY <2>1 DEF Linking, Others, p
  <2>10. \A u \in Threads : op'[u].step \in LinkSteps => op'[u].ptr # p
    BY <2>1, <2>7 DEF ChainGood, LinkSteps, p
  <2>11. \A c \in DOMAIN copies' : Linking(c)' \/ InChain(c)'
    BY <2>1, <2>4, <2>9 DEF ChainGood
  <2>12. \A u \in Threads : op'[u].step \in LinkSteps => ~InChain(op[u].ptr)'
    <3> SUFFICES ASSUME NEW u \in Threads, op'[u].step \in LinkSteps
                 PROVE  ~InChain(op[u].ptr)'
      OBVIOUS
    <3>1. op'[u].ptr = op[u].ptr /\ op[u].ptr # p /\ ~InChain(op[u].ptr)
      BY <2>7, <2>10 DEF ChainGood
    <3> QED
      BY <3>1, <2>a DEF InChain
  <2>13. \A u, w \in Threads :
           op'[u].step \in LinkSteps /\ op'[w].step \in LinkSteps /\ op'[u].ptr = op'[w].ptr
             => u = w
    BY <2>7 DEF ChainGood
  <2> QED
    BY <2>5, <2>6, <2>8, <2>11, <2>12, <2>13 DEF ChainGood
<1>6. CASE Refresh(t)
  BY <1>0, <1>6, RefreshStep, ChainAside DEF Aside, LinkSteps
<1>7. CASE LeaveOld(t)
  <2>1. op[t].cl \in Viewers
    BY <1>0, <1>7 DEF LeaveOld, SetupSteps
  <2> QED
    BY <1>0, <1>7, <2>1, LeaveOldStep, ChainAside DEF Aside, LinkSteps
<1>8. CASE LeftOld(t)
  BY <1>0, <1>8, LeftOldStep, ChainAside DEF Aside, LinkSteps
<1>9. CASE JoinNew(t)
  BY <1>0, <1>9, JoinNewStep, ChainAside DEF OnlyOp, Aside, LinkSteps
<1>10. CASE Switch(t)
  BY <1>0, <1>10, SwitchStep, ChainAside DEF Aside, LinkSteps
<1> QED
  BY <1>1, <1>2, <1>3, <1>4, <1>5, <1>6, <1>7, <1>8, <1>9, <1>10 DEF ScalingSetup

LEMMA ChainClient ==
  ASSUME TInv, ChainGood, NEW v \in Viewers, Client(v)
  PROVE  ChainGood'
<1>0. Typed /\ v \in Threads /\ Listener \in Threads /\ Idle.step = "idle"
  BY DEF TInv, Threads, Idle, At
<1>1. CASE Accept(v)
  BY <1>0, <1>1, AcceptStep, ChainAside DEF OnlyOp, Aside, LinkSteps
<1>2. CASE Connect(v)
  BY <1>0, <1>2, ConnectStep, ChainAside DEF Aside, LinkSteps
<1>3. CASE StartInput(v)
  BY <1>3, ChainAside DEF StartInput, chainVars
<1>4. CASE SetScale(v)
  BY <1>0, <1>4, SetScaleStep, ChainAside DEF OnlyOp, Aside, LinkSteps
<1>5. CASE Leave(v)
  BY <1>5, ChainAside DEF Leave, chainVars
<1>6. CASE ReadGone(v)
  BY <1>0, <1>6, ReadGoneStep, ChainAside DEF OnlyOp, Aside, LinkSteps
<1>7. CASE Gone(v)
  BY <1>0, <1>7, GoneStep, ChainAside DEF Aside, LinkSteps
<1> QED
  BY <1>1, <1>2, <1>3, <1>4, <1>5, <1>6, <1>7 DEF Client

LEMMA ChainMain ==
  ASSUME TInv, ChainGood, MainThread
  PROVE  ChainGood'
<1>1. CASE ~\E v \in Viewers : TurnViewer(v)
  <2>1. UNCHANGED <<chain, copies, op>>
    BY <1>1 DEF MainThread, NextFrame, UpdateCopy, EndUpdate, Turn, TurnScreen, DrawFrame,
       chainVars
  <2> QED
    BY <2>1, ChainAside
<1>2. ASSUME NEW v \in Viewers, TurnViewer(v)
      PROVE  ChainGood'
  <2>1. Typed /\ (turning = NotTurning \/ turning.to \in Orientations) /\ Main \in Threads
        /\ Idle.step = "idle"
    BY DEF TInv, Pointers, Threads, Idle, At
  <2> QED
    BY <1>2, <2>1, TurnViewerStep, ChainAside DEF Aside, LinkSteps
<1> QED
  BY <1>1, <1>2

LEMMA StepChain ==
  ASSUME TInv, RacedTyped, ChainInv, [Next]_vars
  PROVE  ChainInv'
<1> SUFFICES ASSUME ~raced'.chain PROVE ChainGood'
  BY DEF ChainInv
<1>0. ChainGood
  BY StepRaced DEF ChainInv, Remembered
<1>1. CASE UNCHANGED vars
  BY <1>0, <1>1, ChainAside DEF vars, chainVars
<1> QED
  BY <1>0, <1>1, ChainSetup, ChainClient, ChainMain DEF Next

\* Whatever the number of viewers, no copy falls out of the chain of scaled screens or
\* is linked twice as long as no two clients link copies at once, though for each of
\* them three threads do (rfbScaledScreenAllocate, scale.c:326-329).
THEOREM ChainStaysIntact == Spec => []ChainIntact
<1> DEFINE Inv == TInv /\ RacedTyped /\ ChainInv
<1>1. Init => Inv
  BY InitTyped, InitRaced, InitChain
<1>2. Inv /\ [Next]_vars => Inv'
  BY StepTyped, StepRaced, StepChain
<1>3. Inv => ChainIntact
  BY DEF ChainInv, ChainGood, ChainIntact, CopiesLinked
<1> QED
  BY <1>1, <1>2, <1>3, PTL DEF Spec

-----------------------------------------------------------------------------
(* The counts.                                                             *)

\* Who scales for a viewer in each of its states.
Roles ==
  /\ op[Listener].step \in SetupSteps \cup {"idle", "accept"}
  /\ op[Main].step \in SetupSteps \cup {"idle"}
  /\ op[Listener].step = "accept" => op[Listener].cl \in Viewers
                                     /\ state[op[Listener].cl] = "absent"
  /\ op[Listener].step \in SetupSteps => state[op[Listener].cl] = "new"
  /\ op[Main].step \in SetupSteps => state[op[Main].cl] # "absent"
  /\ \A v \in Viewers :
       /\ op[v].step \in SetupSteps \cup {"idle", "gone"}
       /\ op[v].step \in SetupSteps => op[v].cl = v /\ state[v] = "running"
       /\ op[v].step = "gone" =>
            /\ op[v].cl = v /\ state[v] = "leaving"
            /\ op[Main].step \in SetupSteps => op[Main].cl # v

AwaySteps  == {"left", "join"}
CountSteps == {"leave", "left", "join", "accept", "gone"}

LEMMA StepsApart == /\ {"leave", "left", "join"} \subseteq SetupSteps
                    /\ {"idle", "accept", "gone"} \cap SetupSteps = {}
BY DEF SetupSteps

\* For one client one thread changes counts at a time.
Alone ==
  \A t, u \in Threads :
    op[t].cl = op[u].cl /\ op[t].step \in CountSteps /\ op[u].step \in CountSteps => t = u

LEMMA CountAlone == TInv /\ Roles => Alone
<1> SUFFICES ASSUME TInv, Roles, NEW t \in Threads, NEW u \in Threads, op[t].cl = op[u].cl,
                    op[t].step \in CountSteps, op[u].step \in CountSteps
             PROVE  t = u
  BY DEF Alone
<1>1. \A w \in Threads :
        \/ w = Listener \/ w = Main \/ w \in Viewers
  BY DEF Threads
<1>2. \A w \in Threads : op[w].step \in {"leave", "left", "join"} => op[w].cl \in Viewers /\ Locked(w)
  BY DEF TInv, Pointers, SetupSteps, Locked
<1>3. \A w \in Threads : Locked(w) /\ op[w].cl \in Viewers => updateMutex[op[w].cl] = w
  BY DEF TInv, MutexHeld
<1>4. CASE op[t].step \in {"leave", "left", "join"} /\ op[u].step \in {"leave", "left", "join"}
  BY <1>2, <1>3, <1>4
<1>5. ASSUME NEW w \in Threads, NEW x \in Threads, op[w].cl = op[x].cl, op[w].step = "accept",
             op[x].step \in CountSteps
      PROVE  w = x
  <2>1. w = Listener
    BY <1>1, <1>5, StepsApart DEF Roles
  <2>2. op[x].cl \in Viewers /\ state[op[x].cl] = "absent"
    BY <1>5, <2>1 DEF Roles
  <2> QED
    BY <1>1, <1>5, <2>1, <2>2, StepsApart DEF Roles, CountSteps
<1>6. ASSUME NEW w \in Threads, NEW x \in Threads, op[w].cl = op[x].cl, op[w].step = "gone",
             op[x].step \in CountSteps
      PROVE  w = x
  <2>1. w \in Viewers
    BY <1>1, <1>6, StepsApart DEF Roles
  <2>2. op[x].cl = w /\ state[w] = "leaving" /\ (op[Main].step \in SetupSteps => op[Main].cl # w)
    BY <1>6, <2>1 DEF Roles
  <2>3. x # Listener
    BY <1>6, <2>2, StepsApart DEF Roles, CountSteps
  <2>4. x # Main
    BY <1>6, <2>2, StepsApart DEF Roles, CountSteps
  <2>5. x \in Viewers => op[x].cl = x
    BY <1>6, StepsApart DEF Roles, CountSteps
  <2> QED
    BY <1>1, <2>2, <2>3, <2>4, <2>5
<1> QED
  BY <1>4, <1>5, <1>6 DEF CountSteps

LEMMA CountAloneNext == TInv' /\ Roles' => Alone'
BY CountAlone, PTL

\* The viewers that have a screen and are counted there: a viewer is not from LeftOld
\* to Switch.
Away(v) == \E t \in Threads : op[t].cl = v /\ op[t].step \in AwaySteps
Here(s) == {v \in Viewers : state[v] # "absent" /\ screen[v] = s /\ ~Away(v)}

\* Unless it was raced for, a count is theirs, and the one thread that has read it will
\* write it from what is there.
Count(s) ==
  s \notin raced.counts =>
    /\ refs[s] = Cardinality(Here(s))
    /\ \A t \in Threads : Counting(t, s) => op[t].count = refs[s]
    /\ \A t, u \in Threads : Counting(t, s) /\ Counting(u, s) => t = u

Counts == \A s \in Screens : Count(s)

LEMMA CountingSteps == \A t, s : Counting(t, s) => op[t].step \in CountSteps
BY DEF Counting, CountSteps

LEMMA HereFinite == \A s : Here(s) \subseteq Viewers /\ IsFiniteSet(Here(s))
BY ViewersAssumption, FS_Subset DEF Here

LEMMA InitCounts == Init => Roles /\ Counts
<1> SUFFICES ASSUME Init PROVE Roles /\ Counts
  OBVIOUS
<1>1. /\ \A t \in Threads : op[t].step = "idle"
      /\ \A v \in Viewers : state[v] = "absent" /\ screen[v] = Base
      /\ \A s \in Screens : refs[s] = 0
  BY DEF Init, Idle, At
<1>2. Roles
  BY <1>1, StepsApart DEF Roles, Threads
<1>3. \A s : Here(s) = {}
  BY <1>1 DEF Here
<1>4. Counts
  BY <1>1, <1>3, FS_EmptySet, CountingSteps DEF Counts, Count, CountSteps
<1> QED
  BY <1>2, <1>4

\* The viewers at a screen are the same.
LEMMA HereKept ==
  ASSUME UNCHANGED screen, \A v \in Viewers : state'[v] = "absent" <=> state[v] = "absent",
         \A u \in Threads : /\ op'[u].step \in AwaySteps <=> op[u].step \in AwaySteps
                            /\ op[u].step \in AwaySteps => op'[u].cl = op[u].cl
  PROVE  \A s : Here(s)' = Here(s)
<1>1. \A v : Away(v)' <=> Away(v)
  BY DEF Away
<1> QED
  BY <1>1 DEF Here

\* A step that reads or writes no count.
LEMMA CountsAside ==
  ASSUME Counts, Remembered, UNCHANGED refs, \A s : Here(s)' = Here(s),
         \A u \in Threads, s \in Screens :
           Counting(u, s)' => Counting(u, s) /\ op'[u].count = op[u].count
  PROVE  Counts'
BY DEF Counts, Count, Remembered

LEMMA OpAside ==
  ASSUME Counts, Remembered, UNCHANGED <<refs, screen>>,
         \A v \in Viewers : state'[v] = "absent" <=> state[v] = "absent",
         \A u \in Threads : \/ op'[u] = op[u]
                            \/ op[u].step \notin CountSteps /\ op'[u].step \notin CountSteps
  PROVE  Counts'
<1>1. \A s : Here(s)' = Here(s)
  BY HereKept DEF AwaySteps, CountSteps
<1>2. \A u \in Threads, s \in Screens :
        Counting(u, s)' => Counting(u, s) /\ op'[u].count = op[u].count
  BY DEF Counting, CountSteps
<1> QED
  BY <1>1, <1>2, CountsAside

\* A step that reads the count of s.
LEMMA CountsRead ==
  ASSUME Counts, Remembered, TInv', Roles', NEW t \in Threads, NEW s \in Screens, Others(t),
         UNCHANGED <<refs, screen>>, \A z : Here(z)' = Here(z),
         op'[t].step \in CountSteps, op'[t].count = refs[s],
         \A z : Counting(t, z)' <=> z = s,
         s \notin raced'.counts => \A u \in Threads : Counting(u, s) => op[u].cl = op'[t].cl
  PROVE  Counts'
<1>1. \A z : \A u \in Threads \ {t} : Counting(u, z)' <=> Counting(u, z)
  BY DEF Counting, Others
<1>2. ASSUME NEW z \in Screens, z # s PROVE Count(z)'
  BY <1>1, <1>2 DEF Counts, Count, Remembered, Others
<1>3. ASSUME s \notin raced'.counts, NEW u \in Threads, Counting(u, s)' PROVE u = t
  <2> SUFFICES ASSUME u # t PROVE FALSE
    OBVIOUS
  <2>1. Counting(u, s) /\ op'[u] = op[u]
    BY <1>1, <1>3 DEF Others
  <2>2. op'[u].cl = op'[t].cl /\ op'[u].step \in CountSteps
    BY <1>3, <2>1, CountingSteps
  <2> QED
    BY <2>2, CountAloneNext DEF Alone
<1>4. Count(s)'
  BY <1>3 DEF Counts, Count, Remembered
<1> QED
  BY <1>2, <1>4 DEF Counts

\* A step that writes it.
LEMMA CountsWritten ==
  ASSUME Counts, Remembered, NEW t \in Threads, NEW s \in Screens, Others(t),
         Counting(t, s), \A z : Counting(t, z) => z = s, \A z : ~Counting(t, z)',
         \A z : \A u \in Threads \ {t} : Counting(u, z)' <=> Counting(u, z),
         \A z \in Screens \ {s} : refs'[z] = refs[z] /\ Here(z)' = Here(z),
         op[t].count = Cardinality(Here(s)) => refs'[s] = Cardinality(Here(s)')
  PROVE  Counts'
<1>1. ASSUME NEW z \in Screens \ {s} PROVE Count(z)'
  BY <1>1 DEF Counts, Count, Remembered, Others
<1>2. Count(s)'
  BY DEF Counts, Count, Remembered, Others
<1> QED
  BY <1>1, <1>2 DEF Counts

\* A step of rfbScalingSetup goes on to another or ends it.
LEMMA SetupMoves ==
  ASSUME TInv, NEW t \in Threads, ScalingSetup(t)
  PROVE  /\ op[t].step \in SetupSteps /\ op[t].cl \in Viewers
         /\ op'[t].step \in SetupSteps \cup {"idle"}
         /\ op'[t].step \in SetupSteps => op'[t].cl = op[t].cl
         /\ Others(t) /\ UNCHANGED <<state, walk>>
<1>0. Typed /\ (op[t].step \in SetupSteps => op[t].cl \in Viewers)
  BY DEF TInv, Pointers
<1>1. CASE Find(t)
  BY <1>0, <1>1, FindStep DEF OnlyOp, SetupSteps, Keeps
<1>2. CASE Allocate(t)
  BY <1>0, <1>2, AllocateStep DEF SetupSteps, Keeps
<1>3. CASE AllocateFails(t)
  BY <1>0, <1>3, AllocateFailsStep DEF OnlyOp, SetupSteps
<1>4. CASE ReadHead(t)
  BY <1>0, <1>4, ReadHeadStep DEF SetupSteps, Keeps
<1>5. CASE WriteHead(t)
  BY <1>0, <1>5, WriteHeadStep DEF SetupSteps, Keeps
<1>6. CASE Refresh(t)
  BY <1>0, <1>6, RefreshStep DEF SetupSteps, Keeps
<1>7. CASE LeaveOld(t)
  <2>1. op[t].cl \in Viewers
    BY <1>0, <1>7 DEF LeaveOld, SetupSteps
  <2> QED
    BY <1>0, <1>7, <2>1, LeaveOldStep DEF SetupSteps, Keeps
<1>8. CASE LeftOld(t)
  BY <1>0, <1>8, LeftOldStep DEF SetupSteps, Keeps
<1>9. CASE JoinNew(t)
  BY <1>0, <1>9, JoinNewStep DEF OnlyOp, SetupSteps, Keeps
<1>10. CASE Switch(t)
  BY <1>0, <1>10, SwitchStep DEF SetupSteps
<1> QED
  BY <1>1, <1>2, <1>3, <1>4, <1>5, <1>6, <1>7, <1>8, <1>9, <1>10 DEF ScalingSetup

LEMMA RolesSetup ==
  ASSUME TInv, Roles, NEW t \in Threads, ScalingSetup(t)
  PROVE  Roles'
<1>1. /\ op[t].step \in SetupSteps
      /\ op'[t].step \in SetupSteps \cup {"idle"}
      /\ op'[t].step \in SetupSteps => op'[t].cl = op[t].cl
      /\ Others(t) /\ UNCHANGED state
  BY SetupMoves
<1>2. Listener \in Threads /\ Main \in Threads /\ \A v \in Viewers : v \in Threads
  BY DEF Threads
<1> QED
  BY <1>1, <1>2, StepsApart DEF Roles, Others

LEMMA CountSetup ==
  ASSUME TInv, TInv', RacedTyped, Remembered, Roles, Roles', Counts, NEW t \in Threads,
         ScalingSetup(t)
  PROVE  Counts'
<1>z. PICK v \in Viewers, p \in Screens : v = op[t].cl /\ p = op[t].ptr
  BY SetupMoves, OpFields DEF TInv
<1>0. /\ Typed /\ op[t].step \in SetupSteps /\ v = op[t].cl /\ p = op[t].ptr /\ Others(t)
      /\ op'[t].step \in SetupSteps \cup {"idle"} /\ UNCHANGED state
      /\ op[t].count \in Int
  BY <1>z, SetupMoves, OpFields DEF TInv
<1>1. state[v] # "absent" /\ screen[v] \in Screens /\ p \in Screens
  <2>1. state[v] # "absent"
    BY <1>0 DEF Roles, Threads
  <2> QED
    BY <1>0, <2>1, ScreenType
\* Nobody else is to write a count for v.
<1>2. op[t].step \in CountSteps =>
        \A u \in Threads \ {t} : op[u].step \in CountSteps => op[u].cl # v
  BY <1>0, CountAlone DEF Alone
<1>3. CASE Find(t)
  BY <1>0, <1>3, FindStep, OpAside DEF OnlyOp, Others, CountSteps
<1>4. CASE Allocate(t)
  BY <1>0, <1>4, AllocateStep, OpAside DEF Others, CountSteps
<1>5. CASE AllocateFails(t)
  BY <1>0, <1>5, AllocateFailsStep, OpAside DEF OnlyOp, Others, CountSteps
<1>6. CASE ReadHead(t)
  BY <1>0, <1>6, ReadHeadStep, OpAside DEF Others, CountSteps
<1>7. CASE WriteHead(t)
  BY <1>0, <1>7, WriteHeadStep, OpAside DEF Others, CountSteps
<1>8. CASE Refresh(t)
  BY <1>0, <1>8, RefreshStep, OpAside DEF Others, CountSteps
<1>9. CASE LeaveOld(t)
  <2>1. /\ op[t].step = "lock" /\ op'[t].step = "leave" /\ op'[t].count = refs[screen[v]]
        /\ op'[t].cl = v /\ UNCHANGED <<refs, screen>>
    BY <1>0, <1>9, LeaveOldStep DEF Keeps
  <2>2. \A s : Here(s)' = Here(s)
    BY <1>0, <2>1, HereKept DEF Others, AwaySteps
  <2>3. \A s : Counting(t, s)' <=> s = screen[v]
    BY <2>1 DEF Counting
  <2>4. screen[v] \notin raced'.counts =>
          \A u \in Threads : Counting(u, screen[v]) => op[u].cl = v
    BY <1>0, <1>1, <1>9, CountRead DEF LeaveOld
  <2> QED
    BY <1>0, <1>1, <2>1, <2>2, <2>3, <2>4, CountsRead DEF CountSteps
<1>10. CASE LeftOld(t)
  <2>0. PICK s \in Screens, n \in Int : s = screen[v] /\ n = op[t].count - 1
    BY <1>0, <1>1
  <2>1. /\ op[t].step = "leave" /\ op'[t].step = "left" /\ UNCHANGED screen /\ op'[t].cl = v
        /\ refs' = [refs EXCEPT ![s] = n]
    BY <1>0, <1>10, <2>0, LeftOldStep DEF Keeps
  <2>2. ~Away(v) /\ Away(v)' /\ \A w \in Viewers \ {v} : Away(w)' <=> Away(w)
    BY <1>0, <1>2, <2>1 DEF Away, Others, CountSteps, AwaySteps
  <2>3. v \in Here(s) /\ Here(s)' = Here(s) \ {v}
    BY <1>0, <1>1, <2>0, <2>1, <2>2 DEF Here
  <2>4. \A z \in Screens \ {s} : refs'[z] = refs[z] /\ Here(z)' = Here(z)
    BY <1>0, <1>1, <2>0, <2>1, <2>2, RefsType DEF Here
  <2>5. refs'[s] = n
    BY <1>0, <2>1, RefsType
  <2>6. Cardinality(Here(s)') = Cardinality(Here(s)) - 1
    BY <2>3, HereFinite, FS_RemoveElement
  <2>7. Counting(t, s) /\ (\A z : Counting(t, z) => z = s) /\ (\A z : ~Counting(t, z)')
    BY <1>0, <2>0, <2>1 DEF Counting
  <2>8. \A z : \A u \in Threads \ {t} : Counting(u, z)' <=> Counting(u, z)
    BY <1>0, <2>1 DEF Counting, Others
  <2>9. op[t].count = Cardinality(Here(s)) => refs'[s] = Cardinality(Here(s)')
    BY <2>0, <2>5, <2>6
  <2> QED
    BY <1>0, <2>4, <2>7, <2>8, <2>9, CountsWritten
<1>11. CASE JoinNew(t)
  <2>1. /\ op[t].step = "left" /\ op'[t].step = "join" /\ UNCHANGED <<refs, screen>>
        /\ op'[t].ptr = p /\ op'[t].count = refs[p] /\ op'[t].cl = v
    BY <1>0, <1>11, JoinNewStep DEF OnlyOp, Keeps
  <2>2. \A s : Here(s)' = Here(s)
    BY <1>0, <2>1, HereKept DEF Others, AwaySteps
  <2>3. \A s : Counting(t, s)' <=> s = p
    BY <2>1 DEF Counting
  <2>4. p \notin raced'.counts => \A u \in Threads : Counting(u, p) => op[u].cl = v
    BY <1>0, <1>1, <1>11, CountRead DEF JoinNew
  <2> QED
    BY <1>0, <1>1, <2>1, <2>2, <2>3, <2>4, CountsRead DEF CountSteps
<1>12. CASE Switch(t)
  <2>0. PICK n \in Int : n = op[t].count + 1
    BY <1>0
  <2>1. /\ op[t].step = "join" /\ op'[t].step = "idle"
        /\ refs' = [refs EXCEPT ![p] = n] /\ screen' = [screen EXCEPT ![v] = p]
    BY <1>0, <1>12, <2>0, SwitchStep
  <2>2. Away(v) /\ ~Away(v)' /\ \A w \in Viewers \ {v} : Away(w)' <=> Away(w)
    BY <1>0, <1>2, <2>1 DEF Away, Others, CountSteps, AwaySteps
  <2>3. screen'[v] = p /\ \A w \in Viewers \ {v} : screen'[w] = screen[w]
    BY <1>0, <2>1, ScreenType
  <2>4. v \notin Here(p) /\ Here(p)' = Here(p) \cup {v}
    BY <1>0, <1>1, <2>2, <2>3 DEF Here
  <2>5. \A z \in Screens \ {p} : refs'[z] = refs[z] /\ Here(z)' = Here(z)
    BY <1>0, <1>1, <2>1, <2>2, <2>3, RefsType DEF Here
  <2>6. refs'[p] = n
    BY <1>0, <2>1, RefsType
  <2>7. Cardinality(Here(p)') = Cardinality(Here(p)) + 1
    BY <2>4, HereFinite, FS_AddElement
  <2>8. Counting(t, p) /\ (\A z : Counting(t, z) => z = p) /\ (\A z : ~Counting(t, z)')
    BY <1>0, <2>1 DEF Counting
  <2>9. \A z : \A u \in Threads \ {t} : Counting(u, z)' <=> Counting(u, z)
    <3> SUFFICES ASSUME NEW u \in Threads \ {t}, NEW z PROVE Counting(u, z)' <=> Counting(u, z)
      OBVIOUS
    <3>1. op'[u] = op[u] /\ (op[u].step \in CountSteps => op[u].cl # v)
      BY <1>0, <1>2, <2>1 DEF Others, CountSteps
    <3>2. op[u].step \in {"leave", "gone"} => screen'[op[u].cl] = screen[op[u].cl]
      <4>1. op[u].step \in {"leave", "gone"} => op[u].cl \in Viewers
        BY StepsApart DEF TInv, Pointers, Roles, Threads
      <4> QED
        BY <2>3, <3>1, <4>1 DEF CountSteps
    <3> QED
      BY <3>1, <3>2 DEF Counting
  <2>10. op[t].count = Cardinality(Here(p)) => refs'[p] = Cardinality(Here(p)')
    BY <2>0, <2>6, <2>7
  <2> QED
    BY <1>0, <2>5, <2>8, <2>9, <2>10, CountsWritten
<1> QED
  BY <1>3, <1>4, <1>5, <1>6, <1>7, <1>8, <1>9, <1>10, <1>11, <1>12 DEF ScalingSetup

LEMMA RolesClient ==
  ASSUME TInv, Roles, NEW v \in Viewers, Client(v)
  PROVE  Roles'
<1>0. /\ Typed /\ Listener \in Threads /\ Main \in Threads /\ \A w \in Viewers : w \in Threads
      /\ Idle.step = "idle" /\ Listener \notin Viewers /\ Main \notin Viewers
      /\ state \in [Viewers -> {"absent", "new", "running", "leaving"}]
      /\ \A w \in Threads : op[w].step \in SetupSteps => op[w].cl \in Viewers
  BY StateType DEF TInv, Pointers, Threads, Idle, At
<1> USE DEF Others
<1>1. CASE Accept(v)
  <2>1. /\ op[Listener].step = "idle" /\ state[v] = "absent" /\ UNCHANGED state
        /\ Others(Listener) /\ op'[Listener].step = "accept" /\ op'[Listener].cl = v
    BY <1>0, <1>1, AcceptStep DEF OnlyOp
  <2> QED
    BY <1>0, <2>1, StepsApart DEF Roles
<1>2. CASE Connect(v)
  <2>1. /\ op[Listener].step = "accept" /\ op[Listener].cl = v /\ Others(Listener)
        /\ state' = [state EXCEPT ![v] = "new"]
        /\ op'[Listener].step = "idle" \/ (op'[Listener].step = "find" /\ op'[Listener].cl = v)
    BY <1>0, <1>2, ConnectStep
  <2>2. /\ state[v] = "absent" /\ state'[v] = "new"
        /\ \A w \in Viewers \ {v} : state'[w] = state[w]
    BY <1>0, <2>1 DEF Roles
  <2>3. op[v].step = "idle"
    BY <2>2 DEF Roles
  <2> QED
    BY <1>0, <2>1, <2>2, <2>3, StepsApart DEF Roles, SetupSteps
<1>3. CASE StartInput(v)
  <2>1. /\ op[Listener].step = "idle" /\ state[v] = "new" /\ state'[v] = "running"
        /\ UNCHANGED op /\ \A w \in Viewers \ {v} : state'[w] = state[w]
    BY <1>0, <1>3 DEF StartInput
  <2> QED
    BY <1>0, <2>1, StepsApart DEF Roles
<1>4. CASE SetScale(v)
  <2>1. /\ op[v].step = "idle" /\ state[v] = "running" /\ Others(v) /\ op'[v].step = "find"
        /\ op'[v].cl = v /\ UNCHANGED state
    BY <1>0, <1>4, SetScaleStep DEF OnlyOp
  <2> QED
    BY <1>0, <2>1, StepsApart DEF Roles, SetupSteps
<1>5. CASE Leave(v)
  <2>1. /\ op[v].step = "idle" /\ state[v] = "running" /\ state'[v] = "leaving"
        /\ UNCHANGED op /\ \A w \in Viewers \ {v} : state'[w] = state[w]
    BY <1>0, <1>5 DEF Leave
  <2> QED
    BY <1>0, <2>1, StepsApart DEF Roles
<1>6. CASE ReadGone(v)
  <2>1. /\ op[v].step = "idle" /\ state[v] = "leaving" /\ Others(v) /\ op'[v].step = "gone"
        /\ op'[v].cl = v /\ op[Main].cl # v /\ UNCHANGED state
    BY <1>0, <1>6, ReadGoneStep DEF OnlyOp
  <2> QED
    BY <1>0, <2>1, StepsApart DEF Roles
<1>7. CASE Gone(v)
  <2>1. /\ op[v].step = "gone" /\ Others(v) /\ op'[v].step = "idle"
        /\ state' = [state EXCEPT ![v] = "absent"]
    BY <1>0, <1>7, GoneStep
  <2>2. /\ state[v] = "leaving" /\ state'[v] = "absent"
        /\ \A w \in Viewers \ {v} : state'[w] = state[w]
    BY <1>0, <2>1 DEF Roles
  <2>3. op[Main].step \in SetupSteps => op[Main].cl # v
    BY <2>1 DEF Roles
  <2> QED
    BY <1>0, <2>1, <2>2, <2>3, StepsApart DEF Roles
<1> QED
  BY <1>1, <1>2, <1>3, <1>4, <1>5, <1>6, <1>7 DEF Client

LEMMA CountClient ==
  ASSUME TInv, TInv', RacedTyped, Remembered, Roles, Roles', Counts, NEW v \in Viewers,
         Client(v)
  PROVE  Counts'
<1>0. /\ Typed /\ v \in Threads /\ Listener \in Threads /\ Main \in Threads
      /\ Idle.step = "idle" /\ screen[v] \in Screens /\ Base \in Screens
      /\ state \in [Viewers -> {"absent", "new", "running", "leaving"}]
  BY StateType, ScreenType DEF TInv, Threads, Idle, At, Screens
<1>1. CASE Accept(v)
  <2>1. /\ op[Listener].step = "idle" /\ UNCHANGED <<refs, state, screen>>
        /\ Others(Listener) /\ op'[Listener].step = "accept" /\ op'[Listener].count = refs[Base]
        /\ op'[Listener].cl = v
    BY <1>0, <1>1, AcceptStep DEF OnlyOp
  <2>2. \A s : Here(s)' = Here(s)
    BY <1>0, <2>1, HereKept DEF Others, AwaySteps
  <2>3. \A s : Counting(Listener, s)' <=> s = Base
    BY <2>1 DEF Counting
  <2>4. Base \notin raced'.counts => \A u \in Threads : Counting(u, Base) => op[u].cl = v
    BY <1>0, <1>1, CountRead DEF Accept
  <2> QED
    BY <1>0, <2>1, <2>2, <2>3, <2>4, CountsRead DEF CountSteps
<1>2. CASE Connect(v)
  <2>1. /\ op[Listener].step = "accept" /\ op[Listener].cl = v /\ Others(Listener)
        /\ refs' = [refs EXCEPT ![Base] = op[Listener].count + 1]
        /\ state' = [state EXCEPT ![v] = "new"] /\ screen' = [screen EXCEPT ![v] = Base]
        /\ op'[Listener].step \in {"idle", "find"}
    BY <1>0, <1>2, ConnectStep
  <2>2. /\ state[v] = "absent" /\ state'[v] = "new" /\ screen'[v] = Base
        /\ \A w \in Viewers \ {v} : state'[w] = state[w] /\ screen'[w] = screen[w]
    BY <1>0, <2>1, ScreenType DEF Roles
  <2>3. \A u \in Threads \ {Listener} : op[u].step \in CountSteps => op[u].cl # v
    BY <1>0, <2>1, CountAlone DEF Alone, CountSteps
  <2>4. ~Away(v)' /\ \A w \in Viewers \ {v} : Away(w)' <=> Away(w)
    BY <1>0, <2>1, <2>3 DEF Away, Others, CountSteps, AwaySteps
  <2>5. v \notin Here(Base) /\ Here(Base)' = Here(Base) \cup {v}
    BY <2>2, <2>4 DEF Here
  <2>6. \A s \in Screens \ {Base} : refs'[s] = refs[s] /\ Here(s)' = Here(s)
    BY <1>0, <2>1, <2>2, <2>4, RefsType DEF Here
  <2>7. refs'[Base] = op[Listener].count + 1
    BY <1>0, <2>1, RefsType
  <2>8. Cardinality(Here(Base)') = Cardinality(Here(Base)) + 1
    BY <2>5, HereFinite, FS_AddElement
  <2>9. /\ Counting(Listener, Base) /\ \A s : Counting(Listener, s) => s = Base
        /\ \A s : ~Counting(Listener, s)'
    BY <2>1 DEF Counting
  <2>10. \A s : \A u \in Threads \ {Listener} : Counting(u, s)' <=> Counting(u, s)
    <3> SUFFICES ASSUME NEW u \in Threads \ {Listener}, NEW s
                 PROVE  Counting(u, s)' <=> Counting(u, s)
      OBVIOUS
    <3>1. op'[u] = op[u] /\ (op[u].step \in CountSteps => op[u].cl # v)
      BY <2>1, <2>3 DEF Others
    <3>2. op[u].step \in {"leave", "gone"} => op[u].cl \in Viewers
      BY StepsApart DEF TInv, Pointers, Roles, Threads
    <3> QED
      BY <2>2, <3>1, <3>2 DEF Counting, CountSteps
  <2> QED
    BY <1>0, <2>1, <2>6, <2>7, <2>8, <2>9, <2>10, CountsWritten
<1>3. CASE StartInput(v)
  <2>1. /\ state[v] = "new" /\ state' = [state EXCEPT ![v] = "running"]
        /\ UNCHANGED <<refs, screen, op>>
    BY <1>3 DEF StartInput
  <2> QED
    BY <1>0, <2>1, OpAside
<1>4. CASE SetScale(v)
  <2>1. /\ op[v].step = "idle" /\ Others(v) /\ op'[v].step = "find"
        /\ UNCHANGED <<refs, screen, state>>
    BY <1>0, <1>4, SetScaleStep DEF OnlyOp
  <2> QED
    BY <2>1, OpAside DEF Others, CountSteps
<1>5. CASE Leave(v)
  <2>1. /\ state[v] = "running" /\ state' = [state EXCEPT ![v] = "leaving"]
        /\ UNCHANGED <<refs, screen, op>>
    BY <1>5 DEF Leave
  <2> QED
    BY <1>0, <2>1, OpAside
<1>6. CASE ReadGone(v)
  <2>1. /\ op[v].step = "idle" /\ Others(v) /\ op'[v].step = "gone" /\ op'[v].cl = v
        /\ op'[v].count = refs[screen[v]] /\ UNCHANGED <<refs, screen, state>>
    BY <1>0, <1>6, ReadGoneStep DEF OnlyOp
  <2>2. \A s : Here(s)' = Here(s)
    BY <1>0, <2>1, HereKept DEF Others, AwaySteps
  <2>3. \A s : Counting(v, s)' <=> s = screen[v]
    BY <2>1 DEF Counting
  <2>4. screen[v] \notin raced'.counts =>
          \A u \in Threads : Counting(u, screen[v]) => op[u].cl = v
    BY <1>0, <1>6, CountRead DEF ReadGone
  <2> QED
    BY <1>0, <2>1, <2>2, <2>3, <2>4, CountsRead DEF CountSteps
<1>7. CASE Gone(v)
  <2>1. /\ op[v].step = "gone" /\ Others(v) /\ op'[v].step = "idle" /\ UNCHANGED screen
        /\ refs' = [refs EXCEPT ![screen[v]] = op[v].count - 1]
        /\ state' = [state EXCEPT ![v] = "absent"] /\ op[v].cl = v /\ state[v] = "leaving"
    BY <1>0, <1>7, GoneStep DEF Roles
  <2>2. \A u \in Threads \ {v} : op[u].step \in CountSteps => op[u].cl # v
    BY <1>0, <2>1, CountAlone DEF Alone, CountSteps
  <2>3. ~Away(v) /\ \A w \in Viewers : Away(w)' <=> Away(w)
    BY <1>0, <2>1, <2>2 DEF Away, Others, CountSteps, AwaySteps
  <2>4. state'[v] = "absent" /\ \A w \in Viewers \ {v} : state'[w] = state[w]
    BY <1>0, <2>1
  <2>5. v \in Here(screen[v]) /\ Here(screen[v])' = Here(screen[v]) \ {v}
    BY <2>1, <2>3, <2>4 DEF Here
  <2>6. \A s \in Screens \ {screen[v]} : refs'[s] = refs[s] /\ Here(s)' = Here(s)
    BY <1>0, <2>1, <2>3, <2>4, RefsType DEF Here
  <2>7. refs'[screen[v]] = op[v].count - 1
    BY <1>0, <2>1, RefsType
  <2>8. Cardinality(Here(screen[v])') = Cardinality(Here(screen[v])) - 1
    BY <2>5, HereFinite, FS_RemoveElement
  <2>9. /\ Counting(v, screen[v]) /\ \A s : Counting(v, s) => s = screen[v]
        /\ \A s : ~Counting(v, s)'
        /\ \A s : \A u \in Threads \ {v} : Counting(u, s)' <=> Counting(u, s)
    BY <2>1 DEF Counting, Others
  <2> QED
    BY <1>0, <2>1, <2>6, <2>7, <2>8, <2>9, CountsWritten
<1> QED
  BY <1>1, <1>2, <1>3, <1>4, <1>5, <1>6, <1>7 DEF Client

LEMMA CountMain ==
  ASSUME TInv, Remembered, Roles, Counts, MainThread
  PROVE  Roles' /\ Counts'
<1>1. CASE ~\E v \in Viewers : TurnViewer(v)
  <2>1. UNCHANGED <<refs, screen, state, op>>
    BY <1>1 DEF MainThread, NextFrame, UpdateCopy, EndUpdate, Turn, TurnScreen, DrawFrame,
       viewerVars
  <2> QED
    BY <2>1, OpAside DEF Roles
<1>2. ASSUME NEW v \in Viewers, TurnViewer(v) PROVE Roles' /\ Counts'
  <2>1. /\ Typed /\ (turning = NotTurning \/ turning.to \in Orientations) /\ Main \in Threads
        /\ Idle.step = "idle" /\ Listener \in Threads /\ \A w \in Viewers : w \in Threads
        /\ Main \notin Viewers
    BY DEF TInv, Pointers, Threads, Idle, At
  <2>2. /\ op[Main].step = "idle" /\ Others(Main) /\ UNCHANGED <<refs, screen, state>>
        /\ \/ op'[Main].step = "idle"
           \/ op'[Main].step = "find" /\ op'[Main].cl = v /\ Linked(v)
    BY <1>2, <2>1, TurnViewerStep
  <2>3. Roles'
    BY <2>1, <2>2, StepsApart DEF Roles, Others, Linked, SetupSteps
  <2>4. Counts'
    BY <2>2, OpAside DEF Others, CountSteps
  <2> QED
    BY <2>3, <2>4
<1> QED
  BY <1>1, <1>2

LEMMA StepCounts ==
  ASSUME TInv, RacedTyped, Roles, Counts, [Next]_vars
  PROVE  Roles' /\ Counts'
<1>0. TInv' /\ Remembered
  BY StepTyped, StepRaced
<1>1. CASE UNCHANGED vars
  BY <1>0, <1>1, OpAside DEF vars, viewerVars, Roles
<1>2. ASSUME NEW t \in Threads, ScalingSetup(t) PROVE Roles' /\ Counts'
  BY <1>0, <1>2, RolesSetup, CountSetup
<1>3. ASSUME NEW v \in Viewers, Client(v) PROVE Roles' /\ Counts'
  BY <1>0, <1>3, RolesClient, CountClient
<1> QED
  BY <1>0, <1>1, <1>2, <1>3, CountMain DEF Next

\* Whatever the number of viewers, a reference count is the number of viewers on the
\* screen whenever no thread changes counts, unless it was once updated for two of them
\* at the same time: a client's mutex, and the wait for its iterators, are enough for
\* each client (rfbScalingSetup, scale.c:378-383; rfbserver.c:325, 550-566).
THEOREM CountsStayExact == Spec => []CountExact
<1> DEFINE Inv == TInv /\ RacedTyped /\ Roles /\ Counts
<1>1. Init => Inv
  BY InitTyped, InitRaced, InitCounts
<1>2. Inv /\ [Next]_vars => Inv'
  BY StepTyped, StepRaced, StepCounts
<1>3. Inv => CountExact
  <2> SUFFICES ASSUME Counts, NEW s \in Screens \ raced.counts,
                      \A t \in Threads : op[t].step \notin CountSteps
               PROVE  refs[s] = Cardinality({w \in Viewers : state[w] # "absent" /\ screen[w] = s})
    BY DEF CountExact, CountSteps
  <2>1. \A w : ~Away(w)
    BY DEF Away, AwaySteps, CountSteps
  <2>2. Here(s) = {w \in Viewers : state[w] # "absent" /\ screen[w] = s}
    BY <2>1 DEF Here
  <2> QED
    BY <2>2 DEF Counts, Count
<1> QED
  BY <1>1, <1>2, <1>3, PTL DEF Spec

-----------------------------------------------------------------------------
(* What a viewer sees.                                                     *)

InWalk(c) == \E i \in DOMAIN walk.left : walk.left[i] = c

\* A screen that a viewer has, or that a thread has found for it, is the base or in
\* the chain.
FoundSteps == {"refresh", "lock", "leave", "left", "join"}

Reached ==
  /\ \A v \in Viewers : screen[v] = Base \/ InChain(screen[v])
  /\ \A t \in Threads :
       op[t].step \in FoundSteps => op[t].ptr = Base \/ InChain(op[t].ptr)

\* A copy that the viewer had when the frame was drawn, and whose count is right, shows
\* the frame, or is still to be refreshed, or the viewer is about to switch away from it.
Seen(v) ==
  Linked(v) /\ settled[v] /\ screen[v] # Base /\ screen[v] \notin raced.counts =>
    fresh[screen[v]] \/ Switching(v) \/ (walk.on /\ InWalk(screen[v]))

SeenInv == ~raced.chain => Reached /\ \A v \in Viewers : Seen(v)

LEMMA InitSeen == Init => SeenInv
BY DEF Init, SeenInv, Reached, Seen, Linked, Idle, At, FoundSteps

LEMMA ReachedAside ==
  ASSUME Reached, UNCHANGED <<chain, screen>>,
         \A u \in Threads : \/ op'[u] = op[u]
                            \/ op'[u].step \notin FoundSteps
                            \/ op[u].step \in FoundSteps /\ op'[u].ptr = op[u].ptr
  PROVE  Reached'
BY DEF Reached, InChain

LEMMA ReachedSetup ==
  ASSUME TInv, ChainGood, Reached, NEW t \in Threads, ScalingSetup(t)
  PROVE  Reached'
<1>0. /\ Typed /\ op[t].step \in SetupSteps /\ op[t].cl \in Viewers /\ Others(t)
  BY SetupMoves DEF TInv
<1>1. CASE Find(t)
  <2>1. UNCHANGED <<chain, screen>>
    BY <1>0, <1>1, FindStep DEF OnlyOp
  <2>2. op'[t].step \in FoundSteps => op'[t].ptr = Base \/ InChain(op'[t].ptr)
    BY <1>0, <1>1, FindStep DEF FoundSteps, InChain
  <2> QED
    BY <1>0, <2>1, <2>2 DEF Reached, Others, InChain
<1>2. CASE Allocate(t)
  BY <1>0, <1>2, AllocateStep, ReachedAside DEF Others, FoundSteps
<1>3. CASE AllocateFails(t)
  BY <1>0, <1>3, AllocateFailsStep, ReachedAside DEF OnlyOp, Others, FoundSteps
<1>4. CASE ReadHead(t)
  BY <1>0, <1>4, ReadHeadStep, ReachedAside DEF Others, FoundSteps
<1>5. CASE WriteHead(t)
  <2>1. /\ op[t].step = "linked" /\ op'[t].step = "refresh" /\ op'[t].ptr = op[t].ptr
        /\ UNCHANGED screen
    BY <1>0, <1>5, WriteHeadStep
  <2>2. \A c : InChain(c) \/ c = op[t].ptr => InChain(c)'
    BY <1>5, HeadWritten
  <2>3. ASSUME NEW v \in Viewers PROVE screen[v] = Base \/ InChain(screen[v])'
    BY <2>1, <2>2 DEF Reached
  <2>4. ASSUME NEW u \in Threads, op'[u].step \in FoundSteps, op'[u].ptr # Base
        PROVE  InChain(op[u].ptr)'
    <3>1. op'[u].ptr = op[u].ptr
      BY <1>0, <2>1 DEF Others
    <3>2. op[u].ptr = op[t].ptr \/ InChain(op[u].ptr)
      BY <1>0, <2>1, <2>4, <3>1 DEF Others, Reached
    <3> QED
      BY <2>2, <3>1, <3>2 DEF InChain
  <2> QED
    BY <2>1, <2>3, <2>4 DEF Reached
<1>6. CASE Refresh(t)
  BY <1>0, <1>6, RefreshStep, ReachedAside DEF Others, FoundSteps
<1>7. CASE LeaveOld(t)
  BY <1>0, <1>7, LeaveOldStep, ReachedAside DEF Others, FoundSteps
<1>8. CASE LeftOld(t)
  BY <1>0, <1>8, LeftOldStep, ReachedAside DEF Others, FoundSteps
<1>9. CASE JoinNew(t)
  BY <1>0, <1>9, JoinNewStep, ReachedAside DEF OnlyOp, Others, FoundSteps
<1>10. CASE Switch(t)
  <2>1. /\ op[t].step = "join" /\ op'[t].step = "idle" /\ UNCHANGED chain
        /\ screen' = [screen EXCEPT ![op[t].cl] = op[t].ptr]
    BY <1>0, <1>10, SwitchStep
  <2>2. \A v \in Viewers : screen'[v] = screen[v] \/ screen'[v] = op[t].ptr
    BY <1>0, <2>1, ScreenType
  <2> QED
    BY <1>0, <2>1, <2>2 DEF Reached, Others, InChain, FoundSteps
<1> QED
  BY <1>1, <1>2, <1>3, <1>4, <1>5, <1>6, <1>7, <1>8, <1>9, <1>10 DEF ScalingSetup

SwitchSteps == {"leave", "left", "join"}

\* A step that lets a viewer see no less than before.
LEMMA SeenAside ==
  ASSUME TInv, Remembered, NEW v \in Viewers, Seen(v),
         settled'[v] = settled[v], screen'[v] = screen[v], UNCHANGED walk,
         Linked(v)' => Linked(v),
         \A c \in Copies : fresh[c] => fresh'[c],
         \A u \in Threads : \/ op'[u] = op[u]
                            \/ op[u].step \notin SwitchSteps
                            \/ op[u].cl # v
                            \/ op'[u].step \in SwitchSteps /\ op'[u].cl = op[u].cl
  PROVE  Seen(v)'
<1>1. Switching(v) => Switching(v)'
  BY DEF Switching, SwitchSteps
<1>2. screen[v] # Base => screen[v] \in Copies
  BY ScreenType DEF TInv, Screens
<1>3. InWalk(screen[v])' <=> InWalk(screen[v])
  BY DEF InWalk
<1> QED
  BY <1>1, <1>2, <1>3 DEF Seen, Remembered

LEMMA SeenSetup ==
  ASSUME TInv, Remembered, NEW v \in Viewers, Seen(v), NEW t \in Threads, ScalingSetup(t)
  PROVE  Seen(v)'
<1>0. /\ Typed /\ op[t].step \in SetupSteps /\ op[t].cl \in Viewers /\ Others(t)
      /\ UNCHANGED <<state, walk>> /\ Linked(v)' = Linked(v)
  BY SetupMoves DEF TInv, Linked
<1> USE DEF Others, Keeps, SwitchSteps
<1>1. CASE Find(t)
  BY <1>0, <1>1, FindStep, SeenAside DEF OnlyOp
<1>2. CASE Allocate(t)
  <2>1. \A c \in Copies : fresh[c] => fresh'[c]
    BY <1>0, <1>2, AllocateStep DEF Typed
  <2> QED
    BY <1>0, <1>2, <2>1, AllocateStep, SeenAside
<1>3. CASE AllocateFails(t)
  BY <1>0, <1>3, AllocateFailsStep, SeenAside DEF OnlyOp
<1>4. CASE ReadHead(t)
  BY <1>0, <1>4, ReadHeadStep, SeenAside
<1>5. CASE WriteHead(t)
  BY <1>0, <1>5, WriteHeadStep, SeenAside
<1>6. CASE Refresh(t)
  <2>1. \A c \in Copies : fresh[c] => fresh'[c]
    BY <1>0, <1>6, RefreshStep
  <2> QED
    BY <1>0, <1>6, <2>1, RefreshStep, SeenAside
<1>7. CASE LeaveOld(t)
  BY <1>0, <1>7, LeaveOldStep, SeenAside
<1>8. CASE LeftOld(t)
  BY <1>0, <1>8, LeftOldStep, SeenAside
<1>9. CASE JoinNew(t)
  BY <1>0, <1>9, JoinNewStep, SeenAside DEF OnlyOp
<1>10. CASE Switch(t)
  <2>1. /\ settled' = [settled EXCEPT ![op[t].cl] = FALSE] /\ UNCHANGED fresh
        /\ screen' = [screen EXCEPT ![op[t].cl] = op[t].ptr]
    BY <1>0, <1>10, SwitchStep
  <2>2. CASE v = op[t].cl
    <3>1. settled'[v] = FALSE
      BY <1>0, <2>1, <2>2, SettledType
    <3> QED
      BY <3>1 DEF Seen
  <2>3. CASE v # op[t].cl
    <3>1. settled'[v] = settled[v] /\ screen'[v] = screen[v]
      BY <1>0, <2>1, <2>3, ScreenType, SettledType
    <3> QED
      BY <1>0, <2>1, <2>3, <3>1, SeenAside
  <2> QED
    BY <2>2, <2>3
<1> QED
  BY <1>1, <1>2, <1>3, <1>4, <1>5, <1>6, <1>7, <1>8, <1>9, <1>10 DEF ScalingSetup

LEMMA SeenClient ==
  ASSUME TInv, Remembered, Reached, \A v \in Viewers : Seen(v), NEW w \in Viewers, Client(w)
  PROVE  Reached' /\ \A v \in Viewers : Seen(v)'
<1>0. /\ Typed /\ w \in Threads /\ Listener \in Threads /\ Idle.step = "idle"
      /\ state \in [Viewers -> {"absent", "new", "running", "leaving"}]
  BY StateType DEF TInv, Threads, Idle, At
<1> USE DEF Others, SwitchSteps, FoundSteps, Linked
<1>1. CASE Accept(w)
  BY <1>0, <1>1, AcceptStep, ReachedAside, SeenAside DEF OnlyOp
<1>2. CASE Connect(w)
  <2>1. /\ screen' = [screen EXCEPT ![w] = Base] /\ settled' = [settled EXCEPT ![w] = FALSE]
        /\ UNCHANGED <<chain, fresh, walk>> /\ Others(Listener)
        /\ op[Listener].step = "accept" /\ op'[Listener].step \in {"idle", "find"}
        /\ state' = [state EXCEPT ![w] = "new"]
    BY <1>0, <1>2, ConnectStep
  <2>2. /\ screen'[w] = Base /\ settled'[w] = FALSE
        /\ \A v \in Viewers \ {w} : /\ screen'[v] = screen[v] /\ settled'[v] = settled[v]
                                    /\ state'[v] = state[v]
    BY <1>0, <2>1, ScreenType, SettledType
  <2>3. Reached'
    BY <1>0, <2>1, <2>2 DEF Reached, InChain
  <2>4. Seen(w)'
    BY <2>2 DEF Seen
  <2>5. ASSUME NEW v \in Viewers \ {w} PROVE Seen(v)'
    BY <1>0, <2>1, <2>2, <2>5, SeenAside
  <2> QED
    BY <2>3, <2>4, <2>5
<1>3. CASE StartInput(w)
  <2>1. /\ UNCHANGED <<chain, screen, settled, walk, fresh, op>> /\ state[w] = "new"
        /\ state' = [state EXCEPT ![w] = "running"]
    BY <1>3 DEF StartInput, chainVars, mainVars
  <2> QED
    BY <1>0, <2>1, ReachedAside, SeenAside
<1>4. CASE SetScale(w)
  BY <1>0, <1>4, SetScaleStep, ReachedAside, SeenAside DEF OnlyOp
<1>5. CASE Leave(w)
  <2>1. /\ UNCHANGED <<chain, screen, settled, walk, fresh, op>> /\ state[w] = "running"
        /\ state' = [state EXCEPT ![w] = "leaving"]
    BY <1>5 DEF Leave, chainVars, mainVars
  <2> QED
    BY <1>0, <2>1, ReachedAside, SeenAside
<1>6. CASE ReadGone(w)
  BY <1>0, <1>6, ReadGoneStep, ReachedAside, SeenAside DEF OnlyOp
<1>7. CASE Gone(w)
  <2>1. /\ UNCHANGED <<chain, screen, settled, walk, fresh>>
        /\ state' = [state EXCEPT ![w] = "absent"]
        /\ op[w].step = "gone" /\ Others(w) /\ op'[w].step = "idle"
    BY <1>0, <1>7, GoneStep
  <2> QED
    BY <1>0, <2>1, ReachedAside, SeenAside
<1> QED
  BY <1>1, <1>2, <1>3, <1>4, <1>5, <1>6, <1>7 DEF Client

\* A copy with a viewer has a count above zero, if the count is right.
LEMMA UsedCounted ==
  ASSUME TInv, Counts, NEW v \in Viewers, NEW s \in Screens, Linked(v), ~Switching(v),
         screen[v] = s, s \notin raced.counts
  PROVE  refs[s] > 0
<1>1. ~Away(v)
  BY DEF Away, AwaySteps, Switching
<1>2. v \in Here(s)
  BY <1>1 DEF Here, Linked
<1>3. IsFiniteSet(Here(s)) /\ refs[s] = Cardinality(Here(s))
  BY HereFinite DEF Counts, Count
<1>4. Cardinality(Here(s)) \in Nat /\ Cardinality(Here(s)) # 0
  BY <1>2, <1>3, FS_CardinalityType, FS_EmptySet
<1> QED
  BY <1>3, <1>4

LEMMA SeenWalk ==
  ASSUME TInv, Remembered, Counts, NEW v \in Viewers, Seen(v), UpdateCopy
  PROVE  Seen(v)'
<1>0. Typed
  BY DEF TInv
<1> DEFINE h == Head(walk.left)
<1>1. /\ UNCHANGED <<raced, screen, settled, state, op>>
      /\ walk.left # <<>> /\ walk' = [walk EXCEPT !.left = Tail(@)]
      /\ fresh' = [fresh EXCEPT ![h] = @ \/ refs[h] > 0]
  BY DEF UpdateCopy, viewerVars
<1>2. /\ walk'.left = Tail(walk.left) /\ walk'.on = walk.on /\ walk.left \in Seq(Copies)
      /\ fresh \in [Copies -> BOOLEAN] /\ h \in Copies
  BY <1>0, <1>1 DEF Typed
<1>3. \A c : InWalk(c) => c = h \/ InWalk(c)'
  <2> SUFFICES ASSUME NEW i \in DOMAIN walk.left, i # 1
               PROVE  \E j \in DOMAIN walk'.left : walk'.left[j] = walk.left[i]
    BY <1>2 DEF InWalk
  <2>1. /\ DOMAIN walk.left = 1 .. Len(walk.left) /\ Len(walk.left) \in Nat
        /\ DOMAIN walk'.left = 1 .. Len(walk.left) - 1
        /\ \A j \in 1 .. Len(walk.left) - 1 : walk'.left[j] = walk.left[j + 1]
    BY <1>1, <1>2
  <2>2. i - 1 \in 1 .. Len(walk.left) - 1 /\ (i - 1) + 1 = i
    BY <2>1
  <2> QED
    BY <2>1, <2>2
<1> HIDE DEF h
<1>4. (\A c \in Copies : fresh[c] => fresh'[c]) /\ (refs[h] > 0 => fresh'[h])
  BY <1>1, <1>2
<1>5. screen[v] # Base => screen[v] \in Copies
  BY <1>0, ScreenType DEF Screens
<1>6. Switching(v)' <=> Switching(v)
  BY <1>1 DEF Switching
<1> SUFFICES ASSUME Linked(v), settled[v], screen[v] # Base, ~Switching(v),
                    screen[v] \notin raced.counts
             PROVE  fresh'[screen[v]] \/ (walk'.on /\ InWalk(screen[v])')
  BY <1>1, <1>6 DEF Seen, Linked
<1>7. CASE fresh[screen[v]]
  BY <1>4, <1>5, <1>7
<1>8. CASE walk.on /\ InWalk(screen[v])
  <2>1. CASE screen[v] = h
    <3>1. h \in Screens
      BY <1>2 DEF Screens
    <3> QED
      BY <1>4, <2>1, <3>1, UsedCounted
  <2>2. CASE screen[v] # h
    <3>1. PICK c : c = screen[v]
      OBVIOUS
    <3>2. InWalk(c)'
      BY <1>3, <1>8, <2>2, <3>1
    <3> QED
      BY <1>1, <1>2, <1>8, <3>1, <3>2
  <2> QED
    BY <2>1, <2>2
<1> QED
  BY <1>7, <1>8 DEF Seen

LEMMA SeenMain ==
  ASSUME TInv, Remembered, Counts, Reached, \A v \in Viewers : Seen(v), MainThread
  PROVE  Reached' /\ \A v \in Viewers : Seen(v)'
<1>0. Typed
  BY DEF TInv
<1>1. CASE DrawFrame
  <2>1. /\ UNCHANGED <<chain, screen, state, op>>
        /\ settled' = [w \in Viewers |-> Linked(w) /\ ~Switching(w)]
        /\ walk' = [on |-> TRUE, left |-> chain]
    BY <1>0, <1>1, DrawTyped
  <2>2. walk'.on /\ walk'.left = chain
    BY <2>1
  <2>3. \A v \in Viewers : screen[v] # Base => InWalk(screen[v])'
    BY <2>1, <2>2 DEF Reached, InChain, InWalk
  <2>4. Reached'
    BY <2>1, ReachedAside
  <2> QED
    BY <2>1, <2>2, <2>3, <2>4 DEF Seen
<1>2. CASE UpdateCopy
  <2>1. Reached'
    BY <1>2, ReachedAside DEF UpdateCopy, chainVars, viewerVars
  <2> QED
    BY <1>2, <2>1, SeenWalk
<1>3. CASE EndUpdate
  <2>1. UNCHANGED <<raced, chain, screen, settled, state, op, fresh>> /\ walk.left = <<>>
    BY <1>3 DEF EndUpdate, chainVars, viewerVars
  <2>2. \A c : ~InWalk(c)
    BY <2>1 DEF InWalk
  <2>3. \A v : Switching(v)' <=> Switching(v)
    BY <2>1 DEF Switching
  <2>4. Reached'
    BY <2>1, ReachedAside
  <2> QED
    BY <2>1, <2>2, <2>3, <2>4 DEF Seen, Linked
<1>4. CASE Turn
  <2>1. UNCHANGED <<chain, screen, settled, state, op, fresh, walk>>
    BY <1>4 DEF Turn, chainVars, viewerVars
  <2> QED
    BY <2>1, ReachedAside, SeenAside DEF Linked
<1>5. ASSUME NEW w \in Viewers, TurnViewer(w) PROVE Reached' /\ \A v \in Viewers : Seen(v)'
  <2>1. (turning = NotTurning \/ turning.to \in Orientations) /\ Idle.step = "idle"
    BY DEF TInv, Pointers, Idle, At
  <2>2. /\ UNCHANGED <<chain, screen, settled, state, fresh, walk>>
        /\ op[Main].step = "idle" /\ Others(Main) /\ op'[Main].step \in {"idle", "find"}
    BY <1>0, <1>5, <2>1, TurnViewerStep
  <2> QED
    BY <2>2, ReachedAside, SeenAside DEF Others, FoundSteps, SwitchSteps, Linked
<1> QED
  BY <1>1, <1>2, <1>3, <1>4, <1>5 DEF MainThread, NextFrame, TurnScreen

LEMMA StepSeen ==
  ASSUME TInv, RacedTyped, ChainInv, Counts, SeenInv, [Next]_vars
  PROVE  SeenInv'
<1> SUFFICES ASSUME ~raced'.chain PROVE Reached' /\ \A v \in Viewers : Seen(v)'
  BY DEF SeenInv
<1>0. Remembered
  BY StepRaced
<1>1. ChainGood /\ Reached /\ \A v \in Viewers : Seen(v)
  BY <1>0 DEF ChainInv, SeenInv, Remembered
<1>2. CASE UNCHANGED vars
  <2>1. UNCHANGED <<chain, screen, settled, walk, fresh, op, state>>
    BY <1>2 DEF vars, chainVars, viewerVars, mainVars
  <2> QED
    BY <1>0, <1>1, <2>1, ReachedAside, SeenAside DEF Linked
<1> QED
  BY <1>0, <1>1, <1>2, ReachedSetup, SeenSetup, SeenClient, SeenMain DEF Next

\* Whatever the number of viewers, a viewer that had its copy when a frame was drawn is
\* not left on the frame before once the copies in use have been brought up to date,
\* unless its copy was counted for two clients at once or two clients linked copies at
\* once (rfbScaledScreenUpdate, scale.c:271-281).
THEOREM FramesReachViewers == Spec => []FramesReach
<1> DEFINE Inv == TInv /\ RacedTyped /\ ChainInv /\ Roles /\ Counts /\ SeenInv
<1>1. Init => Inv
  BY InitTyped, InitRaced, InitChain, InitCounts, InitSeen
<1>2. Inv /\ [Next]_vars => Inv'
  BY StepTyped, StepRaced, StepChain, StepCounts, StepSeen
<1>3. Inv => FramesReach
  BY DEF SeenInv, Seen, FramesReach, Lags
<1> QED
  BY <1>1, <1>2, <1>3, PTL DEF Spec
=============================================================================
