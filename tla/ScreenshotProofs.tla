-------------------------- MODULE ScreenshotProofs --------------------------
(***************************************************************************)
(* Proofs about Screenshot for any number of requesters and threads, any   *)
(* orientations, servers started and rotations followed.                   *)
(***************************************************************************)
EXTENDS Screenshot, TLAPS

USE ThreadsAssumption, StartsAssumption, RotationsAssumption, NoOneAssumption

Handlers == [step : Steps, asker : Requesters, size : Sizes, pixels : SUBSET Pictures,
             steady : BOOLEAN, calm : BOOLEAN]
Files    == [exists : BOOLEAN, writers : SUBSET Writers, spoilt : BOOLEAN,
             shot : Shots \cup {NoShot}]
PCs      == Ended \cup {"idle", "pid", "kill", "sleep", "normal", "wait", "shoot",
                       "write"}

\* TypeOK in parts: what the server keeps, the handlers, the file, the requesters,
\* and who writes the file.
ServerTyped ==
  /\ server \in {"down", "init", "ready", "up"}
  /\ starts \in 0 .. MaxStarts /\ pidFile \in 0 .. starts
  /\ pending \in Requesters \cup {NoOne} /\ heap \in Threads \cup {NoOne}
ScreenTyped ==
  /\ mainpc \in {"loop", "consume", "draw", "drawing"} /\ rotations \in 0 .. MaxRotations
  /\ imageRotation \in Orientations /\ frame \in Captures /\ drawn \in SUBSET Pictures
HandlersTyped == handler \in [Threads -> {Idle} \cup Handlers]
FileTyped == file \in Files
AskTyped == pc \in [Requesters -> PCs] /\ alone \in [Requesters -> BOOLEAN]

Writing ==
  \A w \in file.writers :
    IF w \in Threads THEN handler[w].step \in {"rows", "close"} ELSE pc[w] = "write"

Typed ==
  ServerTyped /\ ScreenTyped /\ HandlersTyped /\ FileTyped /\ AskTyped /\ Writing

LEMMA TypeParts == Typed <=> TypeOK
BY DEF Typed, TypeOK, ServerTyped, ScreenTyped, HandlersTyped, FileTyped, AskTyped, Writing, Handlers,
   Files, PCs

LEMMA CurrentTyped == ScreenTyped => Current \in Pictures /\ SizeOf(Current) \in Sizes
BY DEF ScreenTyped, Current, Pictures, SizeOf, Sizes, Captures

LEMMA SizeTyped == \A p \in Pictures : SizeOf(p) \in Sizes
BY DEF Pictures, SizeOf, Sizes, Captures

\* A thread is idle or takes a screenshot.
Takes(t) == handler[t].step \in Steps

LEMMA HandlerCases ==
  ASSUME HandlersTyped, NEW t \in Threads
  PROVE  /\ handler[t] = Idle \/ handler[t] \in Handlers
         /\ Takes(t) <=> handler[t] # Idle
         /\ Takes(t) => handler[t] \in Handlers
BY DEF HandlersTyped, Handlers, Idle, Steps, Takes

\* A handler's next step.
LEMMA HandlerGoes ==
  ASSUME HandlersTyped, NEW t \in Threads, Takes(t), NEW h \in Handlers,
         handler' = [handler EXCEPT ![t] = h]
  PROVE  HandlersTyped' /\ handler'[t] = h /\ \A u \in Threads \ {t} : handler'[u] = handler[u]
BY DEF HandlersTyped

LEMMA InitType == Init => Typed
<1> SUFFICES ASSUME Init PROVE Typed
  OBVIOUS
<1>1. ServerTyped
  BY DEF Init, ServerTyped
<1>2. ScreenTyped
  <2>1. mainpc = "loop" /\ rotations = 0 /\ imageRotation \in Orientations
        /\ frame \in Captures /\ drawn = {Current}
    BY DEF Init
  <2>2. Current \in Pictures
    BY <2>1 DEF Current, Pictures
  <2> QED
    BY <2>1, <2>2 DEF ScreenTyped
<1>3. HandlersTyped
  BY DEF Init, HandlersTyped
<1>4. FileTyped
  BY DEF Init, FileTyped, Files
<1>5. AskTyped
  BY DEF Init, AskTyped, PCs
<1>6. Writing
  BY DEF Init, Writing
<1> QED
  BY <1>1, <1>2, <1>3, <1>4, <1>5, <1>6 DEF Typed

-----------------------------------------------------------------------------
(* Steps.                                                                  *)

LEMMA ServerType ==
  ASSUME Typed, Server
  PROVE  Typed'
<1>0. ServerTyped /\ ScreenTyped /\ HandlersTyped /\ FileTyped /\ AskTyped /\ Writing
  BY DEF Typed
<1>1. CASE ~StopServer
  <2>1. /\ UNCHANGED <<pending, handler, heap, screenVars, file, askVars>>
        /\ server' \in {"down", "init", "ready", "up"}
        /\ starts' \in 0 .. MaxStarts /\ pidFile' \in 0 .. starts'
    BY <1>0, <1>1 DEF Server, StartServer, SetupScreenshotSignalHandler, WriteServerPid, ServerTyped
  <2>2. ServerTyped'
    BY <1>0, <2>1 DEF ServerTyped
  <2>3. ScreenTyped' /\ HandlersTyped' /\ FileTyped' /\ AskTyped' /\ Writing'
    BY <1>0, <2>1 DEF ScreenTyped, HandlersTyped, FileTyped, AskTyped, Writing, screenVars, askVars
  <2> QED
    BY <2>2, <2>3 DEF Typed
<1>2. CASE StopServer
  <2>1. ServerTyped'
    BY <1>0, <1>2 DEF StopServer, ServerTyped
  <2>2. ScreenTyped'
    <3> DEFINE p == [turn |-> imageRotation, frame |-> frame']
    <3>1. /\ mainpc' = "loop" /\ UNCHANGED <<imageRotation, rotations>> /\ drawn' = {p}
          /\ frame' = [frame EXCEPT !.of = imageRotation]
      BY <1>2 DEF StopServer
    <3>2. frame' \in Captures
      BY <1>0, <3>1 DEF ScreenTyped, Captures
    <3>3. p \in Pictures
      BY <1>0, <3>2 DEF ScreenTyped, Pictures
    <3> HIDE DEF p
    <3> QED
      BY <1>0, <3>1, <3>2, <3>3 DEF ScreenTyped
  <2>3. HandlersTyped'
    BY <1>2 DEF StopServer, HandlersTyped
  <2>4. FileTyped' /\ file'.writers = file.writers \ Threads
    <3> DEFINE b == file.spoilt \/ file.writers \cap Threads # {}
    <3>1. /\ file' = [file EXCEPT !.writers = file.writers \ Threads, !.spoilt = b]
          /\ b \in BOOLEAN
      BY <1>0, <1>2 DEF StopServer, FileTyped, Files
    <3> HIDE DEF b
    <3> QED
      BY <1>0, <3>1 DEF FileTyped, Files
  <2>5. AskTyped' /\ pc' = pc
    BY <1>0, <1>2 DEF StopServer, AskTyped, askVars
  <2>6. Writing'
    BY <1>0, <2>4, <2>5 DEF Writing
  <2> QED
    BY <2>1, <2>2, <2>3, <2>4, <2>5, <2>6 DEF Typed
<1> QED
  BY <1>1, <1>2

\* What main does leaves every handler at its step, for its asker.
LEMMA MainGoesStep ==
  ASSUME HandlersTyped, NEW to, MainGoes(to)
  PROVE  /\ mainpc' = to /\ HandlersTyped'
         /\ \A t \in Threads :
              /\ (handler'[t] = Idle <=> handler[t] = Idle) /\ (Takes(t)' <=> Takes(t))
              /\ Takes(t) =>
                   /\ handler'[t].step = handler[t].step /\ handler'[t].asker = handler[t].asker
                   /\ handler'[t].size = handler[t].size
                   /\ handler'[t].pixels = handler[t].pixels
                   /\ handler'[t].steady => handler[t].steady /\ to = "loop"
                   /\ handler'[t].calm => handler[t].calm /\ to # "drawing"
<1>1. /\ mainpc' = to /\ handler' = [t \in Threads |-> handler'[t]]
      /\ \A t \in Threads :
           handler'[t] = IF handler[t] = Idle THEN Idle
                         ELSE [handler[t] EXCEPT !.steady = @ /\ to = "loop",
                                                 !.calm = @ /\ to # "drawing"]
  BY DEF MainGoes
<1>2. ASSUME NEW t \in Threads
      PROVE  /\ handler'[t] \in {Idle} \cup Handlers
             /\ (handler'[t] = Idle <=> handler[t] = Idle) /\ (Takes(t)' <=> Takes(t))
             /\ Takes(t) =>
                  /\ handler'[t].step = handler[t].step /\ handler'[t].asker = handler[t].asker
                  /\ handler'[t].size = handler[t].size
                  /\ handler'[t].pixels = handler[t].pixels
                  /\ handler'[t].steady => handler[t].steady /\ to = "loop"
                  /\ handler'[t].calm => handler[t].calm /\ to # "drawing"
  <2>1. CASE handler[t] = Idle
    <3>1. handler'[t] = Idle
      BY <1>1, <2>1
    <3>2. ~Takes(t) /\ ~Takes(t)'
      BY <2>1, <3>1 DEF Takes, Idle, Steps
    <3> QED
      BY <2>1, <3>1, <3>2
  <2>2. CASE handler[t] # Idle
    <3> DEFINE a == handler[t].steady /\ to = "loop"
               b == handler[t].calm /\ to # "drawing"
    <3>1. handler[t] \in Handlers /\ Takes(t)
      BY <2>2, HandlerCases
    <3>2. handler'[t] = [handler[t] EXCEPT !.steady = a, !.calm = b]
      BY <1>1, <2>2
    <3>3. /\ a \in BOOLEAN /\ b \in BOOLEAN
          /\ a => handler[t].steady /\ to = "loop"
          /\ b => handler[t].calm /\ to # "drawing"
      OBVIOUS
    <3> HIDE DEF a, b
    <3>4. handler'[t] \in Handlers /\ handler'[t].steady = a /\ handler'[t].calm = b
          /\ handler'[t].step = handler[t].step /\ handler'[t].asker = handler[t].asker
          /\ handler'[t].size = handler[t].size /\ handler'[t].pixels = handler[t].pixels
      BY <3>1, <3>2, <3>3 DEF Handlers
    <3>5. Takes(t)' /\ handler'[t] # Idle
      BY <3>1, <3>4 DEF Takes, Idle, Steps
    <3> QED
      BY <2>2, <3>1, <3>3, <3>4, <3>5
  <2> QED
    BY <2>1, <2>2
<1>3. HandlersTyped'
  BY <1>1, <1>2 DEF HandlersTyped
<1> QED
  BY <1>1, <1>2, <1>3

\* Every step of main is one of these.
LEMMA MainLoopSteps ==
  ASSUME MainLoop
  PROVE  /\ UNCHANGED <<serverVars, pending, heap, file, askVars>>
         /\ \E to \in {"loop", "consume", "draw", "drawing"} : MainGoes(to)
BY DEF MainLoop, TurnImage, ConsumeFirst, ConsumeFrame, BeginDraw, EndDraw

LEMMA MainLoopType ==
  ASSUME Typed, MainLoop
  PROVE  Typed'
<1>0. ServerTyped /\ ScreenTyped /\ HandlersTyped /\ FileTyped /\ AskTyped /\ Writing
  BY DEF Typed
<1>1. UNCHANGED <<serverVars, pending, heap, file, askVars>>
  BY MainLoopSteps
<1>2. ServerTyped' /\ FileTyped' /\ AskTyped'
  BY <1>0, <1>1 DEF ServerTyped, FileTyped, AskTyped, serverVars, askVars
<1>3. ScreenTyped'
  <2>0. [of : {imageRotation}, shows : Contents] \subseteq Captures
    BY <1>0 DEF ScreenTyped, Captures
  <2>1. CASE TurnImage
    <3>1. /\ mainpc' = "consume" /\ imageRotation' \in Orientations
          /\ rotations < MaxRotations /\ rotations' = rotations + 1
          /\ UNCHANGED <<frame, drawn>>
      BY <2>1 DEF TurnImage, MainGoes
    <3>2. rotations' \in 0 .. MaxRotations
      BY <1>0, <3>1 DEF ScreenTyped
    <3> QED
      BY <1>0, <3>1, <3>2 DEF ScreenTyped
  <2>2. CASE ConsumeFirst
    BY <1>0, <2>0, <2>2 DEF ConsumeFirst, MainGoes, ScreenTyped
  <2>3. CASE ConsumeFrame
    <3>1. frame' \in Captures
      BY <1>0, <2>3 DEF ConsumeFrame, ScreenTyped, Captures
    <3> QED
      BY <1>0, <2>3, <3>1 DEF ConsumeFrame, MainGoes, ScreenTyped
  <2>4. CASE BeginDraw
    BY <1>0, <2>4, CurrentTyped DEF BeginDraw, MainGoes, ScreenTyped
  <2>5. CASE EndDraw
    BY <1>0, <2>5, CurrentTyped DEF EndDraw, MainGoes, ScreenTyped
  <2> QED
    BY <2>1, <2>2, <2>3, <2>4, <2>5 DEF MainLoop
<1>4. PICK to \in {"loop", "consume", "draw", "drawing"} : MainGoes(to)
  BY MainLoopSteps
<1>5. HandlersTyped' /\ \A t \in Threads : Takes(t) => handler'[t].step = handler[t].step
  BY <1>0, <1>4, MainGoesStep
<1>6. Writing'
  <2>1. file' = file /\ pc' = pc
    BY <1>1 DEF askVars
  <2>2. \A t \in Threads : handler[t].step \in {"rows", "close"} => Takes(t)
    BY DEF Takes, Steps
  <2> QED
    BY <1>0, <1>5, <2>1, <2>2 DEF Writing
<1> QED
  BY <1>2, <1>3, <1>5, <1>6 DEF Typed

\* What a step of takeScreenshot leaves alone.
LEMMA TakeKeeps ==
  ASSUME NEW t \in Threads, TakeScreenshot(t)
  PROVE  UNCHANGED <<serverVars, heap, screenVars, alone>>
BY DEF TakeScreenshot, Deliver, OpenShot, CopyRows, CloseShot, Answer, askVars

\* The steps of takeScreenshot one by one.
LEMMA DeliverStep ==
  ASSUME Typed, NEW t \in Threads, Deliver(t)
  PROVE  /\ handler[t] = Idle /\ ~Takes(t) /\ pending \in Requesters /\ pending' = NoOne
         /\ UNCHANGED <<file, pc>> /\ HandlersTyped'
         /\ handler'[t].step = "open" /\ handler'[t].asker = pending /\ handler'[t] \in Handlers
         /\ handler'[t].size = SizeOf(Current) /\ handler'[t].pixels = {}
         /\ handler'[t].steady = (mainpc = "loop") /\ handler'[t].calm = (mainpc # "drawing")
         /\ \A u \in Threads \ {t} : handler'[u] = handler[u]
<1> DEFINE h == [step |-> "open", asker |-> pending, size |-> SizeOf(Current), pixels |-> {},
                 steady |-> mainpc = "loop", calm |-> mainpc # "drawing"]
<1>1. HandlersTyped /\ ServerTyped /\ SizeOf(Current) \in Sizes
  BY CurrentTyped DEF Typed, ScreenTyped
<1>2. /\ handler[t] = Idle /\ pending \in Requesters /\ pending' = NoOne
      /\ UNCHANGED <<file, pc>> /\ handler' = [handler EXCEPT ![t] = h]
  BY <1>1 DEF Deliver, Runs, ServerTyped, askVars
<1>3. h \in Handlers
  BY <1>1, <1>2 DEF Handlers, Steps
<1>4. /\ h.step = "open" /\ h.asker = pending /\ h.size = SizeOf(Current) /\ h.pixels = {}
      /\ h.steady = (mainpc = "loop") /\ h.calm = (mainpc # "drawing")
  OBVIOUS
<1> HIDE DEF h
<1>5. HandlersTyped' /\ handler'[t] = h /\ \A u \in Threads \ {t} : handler'[u] = handler[u]
  BY <1>1, <1>2, <1>3 DEF HandlersTyped
<1>6. ~Takes(t)
  BY <1>1, <1>2, HandlerCases
<1> QED
  BY <1>2, <1>3, <1>4, <1>5, <1>6

LEMMA OpenShotStep ==
  ASSUME Typed, NEW t \in Threads, OpenShot(t)
  PROVE  /\ handler[t].step = "open" /\ Takes(t) /\ UNCHANGED <<pending, pc>>
         /\ HandlersTyped' /\ handler'[t] \in Handlers
         /\ handler'[t].step = "rows" /\ handler'[t].asker = handler[t].asker
         /\ handler'[t].size = SizeOf(Current) /\ handler'[t].pixels = handler[t].pixels
         /\ handler'[t].steady = handler[t].steady /\ handler'[t].calm = handler[t].calm
         /\ \A u \in Threads \ {t} : handler'[u] = handler[u]
         /\ file'.exists /\ file'.writers = file.writers \cup {t}
         /\ file'.spoilt = (file.writers # {}) /\ file'.shot = NoShot /\ FileTyped'
<1> DEFINE h == [handler[t] EXCEPT !.step = "rows", !.size = SizeOf(Current)]
<1>1. HandlersTyped /\ FileTyped /\ SizeOf(Current) \in Sizes
  BY CurrentTyped DEF Typed
<1>2. /\ handler[t].step = "open" /\ handler' = [handler EXCEPT ![t] = h]
      /\ UNCHANGED <<pending, pc>> /\ OpenFile(t)
  BY DEF OpenShot, askVars
<1>3. Takes(t)
  BY <1>2 DEF Takes, Steps
<1>4. handler[t] \in Handlers
  BY <1>1, <1>3, HandlerCases
<1>5. /\ h \in Handlers /\ h.step = "rows" /\ h.asker = handler[t].asker
      /\ h.size = SizeOf(Current) /\ h.pixels = handler[t].pixels
      /\ h.steady = handler[t].steady /\ h.calm = handler[t].calm
  BY <1>1, <1>4 DEF Handlers, Steps
<1> HIDE DEF h
<1>6. HandlersTyped' /\ handler'[t] = h /\ \A u \in Threads \ {t} : handler'[u] = handler[u]
  BY <1>1, <1>2, <1>3, <1>5, HandlerGoes
<1>7. /\ file'.exists /\ file'.writers = file.writers \cup {t}
      /\ file'.spoilt = (file.writers # {}) /\ file'.shot = NoShot /\ FileTyped'
  BY <1>1, <1>2 DEF OpenFile, FileTyped, Files, Writers
<1> QED
  BY <1>2, <1>3, <1>5, <1>6, <1>7

LEMMA CopyRowsStep ==
  ASSUME Typed, NEW t \in Threads, CopyRows(t)
  PROVE  /\ handler[t].step = "rows" /\ Takes(t) /\ UNCHANGED <<pending, pc, file>>
         /\ HandlersTyped' /\ handler'[t] \in Handlers
         /\ handler'[t].step \in {"rows", "close"} /\ handler'[t].asker = handler[t].asker
         /\ handler'[t].size = handler[t].size
         /\ \E p \in drawn : handler'[t].pixels = handler[t].pixels \cup {p}
         /\ handler'[t].steady = handler[t].steady /\ handler'[t].calm = handler[t].calm
         /\ \A u \in Threads \ {t} : handler'[u] = handler[u]
<1>1. HandlersTyped /\ drawn \subseteq Pictures
  BY DEF Typed, ScreenTyped
<1>2. PICK p \in drawn, next \in {"rows", "close"} :
        handler' = [handler EXCEPT ![t].step = next,
                                   ![t].pixels = handler[t].pixels \cup {p}]
  BY <1>1 DEF CopyRows, HandlersTyped
<1> DEFINE h == [handler[t] EXCEPT !.step = next, !.pixels = handler[t].pixels \cup {p}]
<1>3. /\ handler[t].step = "rows" /\ UNCHANGED <<pending, pc, file>>
      /\ handler' = [handler EXCEPT ![t] = h]
  BY <1>1, <1>2 DEF CopyRows, askVars, HandlersTyped
<1>4. Takes(t)
  BY <1>3 DEF Takes, Steps
<1>5. handler[t] \in Handlers
  BY <1>1, <1>4, HandlerCases
<1>6. /\ h \in Handlers /\ h.step = next /\ h.asker = handler[t].asker
      /\ h.size = handler[t].size /\ h.pixels = handler[t].pixels \cup {p}
      /\ h.steady = handler[t].steady /\ h.calm = handler[t].calm
  BY <1>1, <1>5 DEF Handlers, Steps
<1> HIDE DEF h
<1>7. HandlersTyped' /\ handler'[t] = h /\ \A u \in Threads \ {t} : handler'[u] = handler[u]
  BY <1>1, <1>3, <1>4, <1>6, HandlerGoes
<1> QED
  BY <1>3, <1>4, <1>6, <1>7

\* The record of the screenshot that t closes.
Taken(t) == [by |-> t, for |-> handler[t].asker, size |-> handler[t].size,
             pixels |-> handler[t].pixels, steady |-> handler[t].steady,
             calm |-> handler[t].calm]

LEMMA CloseShotStep ==
  ASSUME Typed, NEW t \in Threads, CloseShot(t)
  PROVE  /\ handler[t].step = "close" /\ Takes(t) /\ UNCHANGED <<pending, pc>>
         /\ HandlersTyped' /\ handler'[t] \in Handlers
         /\ handler'[t].step = "answer" /\ handler'[t].asker = handler[t].asker
         /\ handler'[t].size = handler[t].size /\ handler'[t].pixels = handler[t].pixels
         /\ handler'[t].steady = handler[t].steady /\ handler'[t].calm = handler[t].calm
         /\ \A u \in Threads \ {t} : handler'[u] = handler[u]
         /\ FileTyped' /\ file'.exists = file.exists /\ file'.spoilt = file.spoilt
         /\ file'.writers = file.writers \ {t}
         /\ file'.shot = IF t \in file.writers THEN Taken(t) ELSE file.shot
         /\ Taken(t) \in Shots /\ Taken(t) # NoShot
<1> DEFINE h == [handler[t] EXCEPT !.step = "answer"]
<1>1. HandlersTyped /\ FileTyped
  BY DEF Typed
<1>2. /\ handler[t].step = "close" /\ handler' = [handler EXCEPT ![t] = h]
      /\ UNCHANGED <<pending, pc>> /\ CloseFile(t, Taken(t))
  BY DEF CloseShot, askVars, Taken
<1>3. Takes(t)
  BY <1>2 DEF Takes, Steps
<1>4. handler[t] \in Handlers
  BY <1>1, <1>3, HandlerCases
<1>5. /\ h \in Handlers /\ h.step = "answer" /\ h.asker = handler[t].asker
      /\ h.size = handler[t].size /\ h.pixels = handler[t].pixels
      /\ h.steady = handler[t].steady /\ h.calm = handler[t].calm
  BY <1>1, <1>4 DEF Handlers, Steps
<1> HIDE DEF h
<1>6. HandlersTyped' /\ handler'[t] = h /\ \A u \in Threads \ {t} : handler'[u] = handler[u]
  BY <1>1, <1>2, <1>3, <1>5, HandlerGoes
<1>7. Taken(t) \in Shots /\ Taken(t).by # NoOne
  BY <1>4 DEF Taken, Shots, Handlers, Writers
<1>8. Taken(t) # NoShot
  BY <1>7 DEF NoShot
<1> DEFINE s == Taken(t)
<1>9. s \in Shots /\ CloseFile(t, s)
  BY <1>2, <1>7
<1> HIDE DEF s
<1>10. /\ FileTyped' /\ file'.exists = file.exists /\ file'.spoilt = file.spoilt
       /\ file'.writers = file.writers \ {t}
       /\ file'.shot = IF t \in file.writers THEN s ELSE file.shot
  BY <1>1, <1>9 DEF CloseFile, FileTyped, Files
<1> QED
  BY <1>2, <1>3, <1>5, <1>6, <1>7, <1>8, <1>10 DEF s

LEMMA AnswerStep ==
  ASSUME Typed, NEW t \in Threads, Answer(t)
  PROVE  /\ handler[t].step = "answer" /\ Takes(t) /\ UNCHANGED <<pending, file>>
         /\ handler[t].asker \in Requesters /\ Reply(handler[t].asker)
         /\ HandlersTyped' /\ handler'[t] = Idle
         /\ \A u \in Threads \ {t} : handler'[u] = handler[u]
<1>1. HandlersTyped
  BY DEF Typed
<1>2. /\ handler[t].step = "answer" /\ handler' = [handler EXCEPT ![t] = Idle]
      /\ UNCHANGED <<pending, file>> /\ Reply(handler[t].asker)
  BY DEF Answer
<1>3. Takes(t)
  BY <1>2 DEF Takes, Steps
<1>4. handler[t].asker \in Requesters
  BY <1>1, <1>3, HandlerCases DEF Handlers
<1>5. HandlersTyped' /\ handler'[t] = Idle /\ \A u \in Threads \ {t} : handler'[u] = handler[u]
  BY <1>1, <1>2 DEF HandlersTyped
<1> QED
  BY <1>2, <1>3, <1>4, <1>5

LEMMA ReplyStep ==
  ASSUME AskTyped, NEW r \in Requesters, Reply(r)
  PROVE  /\ pc' \in [Requesters -> PCs]
         /\ \A q \in Requesters \ {r} : pc'[q] = pc[q]
         /\ pc'[r] = IF pc[r] = "sleep" THEN "answered" ELSE pc[r]
BY DEF AskTyped, Reply, PCs, Ended

LEMMA TakeType ==
  ASSUME Typed, NEW t \in Threads, TakeScreenshot(t)
  PROVE  Typed'
<1>0. ServerTyped /\ ScreenTyped /\ HandlersTyped /\ FileTyped /\ AskTyped /\ Writing
  BY DEF Typed
<1>1. UNCHANGED <<serverVars, heap, screenVars, alone>>
  BY TakeKeeps
<1>2. ScreenTyped'
  BY <1>0, <1>1 DEF ScreenTyped, screenVars
<1>3. CASE Deliver(t)
  <2>1. ServerTyped' /\ FileTyped' /\ AskTyped' /\ HandlersTyped'
    BY <1>0, <1>1, <1>3, DeliverStep DEF ServerTyped, FileTyped, AskTyped, serverVars
  <2>2. handler[t].step = "idle"
    BY <1>3, DeliverStep DEF Idle
  <2>3. Writing'
    BY <1>0, <1>3, <2>2, DeliverStep DEF Writing
  <2> QED
    BY <1>2, <2>1, <2>3 DEF Typed
<1>4. CASE OpenShot(t)
  <2>1. ServerTyped' /\ FileTyped' /\ AskTyped' /\ HandlersTyped'
    BY <1>0, <1>1, <1>4, OpenShotStep DEF ServerTyped, AskTyped, serverVars
  <2>2. Writing'
    BY <1>0, <1>4, OpenShotStep DEF Writing
  <2> QED
    BY <1>2, <2>1, <2>2 DEF Typed
<1>5. CASE CopyRows(t)
  <2>1. ServerTyped' /\ FileTyped' /\ AskTyped' /\ HandlersTyped'
    BY <1>0, <1>1, <1>5, CopyRowsStep DEF ServerTyped, FileTyped, AskTyped, serverVars
  <2>2. Writing'
    BY <1>0, <1>5, CopyRowsStep DEF Writing
  <2> QED
    BY <1>2, <2>1, <2>2 DEF Typed
<1>6. CASE CloseShot(t)
  <2>1. ServerTyped' /\ FileTyped' /\ AskTyped' /\ HandlersTyped'
    BY <1>0, <1>1, <1>6, CloseShotStep DEF ServerTyped, AskTyped, serverVars
  <2>2. Writing'
    BY <1>0, <1>6, CloseShotStep DEF Writing
  <2> QED
    BY <1>2, <2>1, <2>2 DEF Typed
<1>7. CASE Answer(t)
  <2>1. ServerTyped' /\ FileTyped' /\ HandlersTyped'
    BY <1>0, <1>1, <1>7, AnswerStep DEF ServerTyped, FileTyped, serverVars
  <2>2. AskTyped'
    BY <1>0, <1>1, <1>7, AnswerStep, ReplyStep DEF AskTyped
  <2>3. \A q \in Requesters : pc[q] = "write" => pc'[q] = "write"
    BY <1>0, <1>7, AnswerStep, ReplyStep
  <2>4. Writing'
    <3> SUFFICES ASSUME NEW w \in file.writers
                 PROVE  IF w \in Threads THEN handler'[w].step \in {"rows", "close"}
                        ELSE pc'[w] = "write"
      BY <1>7, AnswerStep DEF Writing
    <3>1. w \in Writers
      BY <1>0 DEF FileTyped, Files
    <3> QED
      BY <1>0, <1>7, <2>3, <3>1, AnswerStep DEF Writing, Writers
  <2> QED
    BY <1>2, <2>1, <2>2, <2>4 DEF Typed
<1> QED
  BY <1>3, <1>4, <1>5, <1>6, <1>7 DEF TakeScreenshot

-----------------------------------------------------------------------------
(* Requesters.                                                             *)

NoFile == [exists |-> FALSE, writers |-> {}, spoilt |-> FALSE, shot |-> NoShot]

LEMMA UnlinkStep ==
  ASSUME Typed, NEW q \in Requesters, Unlink(q)
  PROVE  /\ pc[q] = "idle" /\ pc'[q] \in {"pid", "failed"} /\ file' = NoFile
         /\ \A r \in Requesters \ {q} :
              pc'[r] = pc[r] /\ (alone'[r] => alone[r] /\ ~Active(r))
         /\ alone'[q] => ~\E s \in Requesters \ {q} : Active(s) \/ Owes(s)
         /\ UNCHANGED <<serverVars, pending, handler, heap, screenVars>>
         /\ AskTyped' /\ FileTyped'
<1>1. AskTyped
  BY DEF Typed
<1>2. FileTyped'
  BY DEF Unlink, FileTyped, Files
<1>3. AskTyped' /\ pc'[q] \in {"pid", "failed"} /\ \A r \in Requesters \ {q} : pc'[r] = pc[r]
  BY <1>1 DEF Unlink, AskTyped, PCs, Ended
<1>4. /\ pc[q] = "idle" /\ file' = NoFile
      /\ UNCHANGED <<serverVars, pending, handler, heap, screenVars>>
      /\ alone' = [r \in Requesters |->
                     IF r = q THEN ~\E s \in Requesters \ {q} : Active(s) \/ Owes(s)
                     ELSE alone[r] /\ ~Active(r)]
  BY DEF Unlink, NoFile
<1>5. \A r \in Requesters \ {q} : alone'[r] => alone[r] /\ ~Active(r)
  BY <1>4
<1>6. alone'[q] => ~\E s \in Requesters \ {q} : Active(s) \/ Owes(s)
  BY <1>4
<1> QED
  BY <1>2, <1>3, <1>4, <1>5, <1>6

\* The screenshot a requester takes itself.
OwnShot(q, p) == [by |-> q, for |-> q, size |-> SizeOf(p), pixels |-> {p},
                  steady |-> TRUE, calm |-> TRUE]

LEMMA OwnTyped == \A q \in Requesters, p \in Pictures : OwnShot(q, p) \in Shots
BY SizeTyped DEF OwnShot, Shots, Writers

LEMMA OwnPicture ==
  ASSUME NEW q, CloseNormal(q)
  PROVE  \E p \in Pictures : CloseFile(q, OwnShot(q, p))
<1>1. PICK o \in Orientations, c \in Contents :
        CloseFile(q, OwnShot(q, [turn |-> o, frame |-> [of |-> o, shows |-> c]]))
  BY DEF CloseNormal, OwnShot
<1>2. [turn |-> o, frame |-> [of |-> o, shows |-> c]] \in Pictures
  BY DEF Pictures, Captures
<1> QED
  BY <1>1, <1>2

\* All a requester does once it has begun.
Goes(q) == Proceed(q) \/ FirstFrame(q)

\* What the requester does next leaves the others alone.
LEMMA ProceedStep ==
  ASSUME Typed, NEW q \in Requesters, Goes(q)
  PROVE  /\ Active(q) /\ AskTyped' /\ FileTyped'
         /\ \A r \in Requesters \ {q} : pc'[r] = pc[r] /\ alone'[r] = alone[r]
         /\ alone'[q] => alone[q]
         /\ UNCHANGED <<serverVars, handler, heap, screenVars>>
         /\ pending' = pending \/ (pending = NoOne /\ pending' = q)
<1> USE DEF Goes
<1>0. AskTyped /\ FileTyped /\ pc[q] \in PCs
  BY DEF Typed, AskTyped
<1>1. UNCHANGED <<serverVars, handler, heap, screenVars>> /\ Active(q)
  BY DEF Proceed, GetRunningServerPid, Kill, Timeout, StartNormal, FirstFrame, OpenNormal,
     CloseNormal, Active, Ended
<1>2. PICK x \in PCs : pc' = [pc EXCEPT ![q] = x]
  BY DEF Proceed, GetRunningServerPid, Kill, Timeout, StartNormal, FirstFrame, OpenNormal,
     CloseNormal, PCs, Ended
<1>3. \E b \in BOOLEAN : alone' = [alone EXCEPT ![q] = b] /\ (b => alone[q])
  <2>1. CASE Timeout(q)
    <3> DEFINE b == alone[q] /\ ~Owes(q)
    <3>1. alone' = [alone EXCEPT ![q] = b] /\ b \in BOOLEAN /\ (b => alone[q])
      BY <2>1 DEF Timeout
    <3> HIDE DEF b
    <3> QED
      BY <3>1
  <2>2. CASE UNCHANGED alone
    <3>1. alone' = [alone EXCEPT ![q] = alone[q]] /\ alone[q] \in BOOLEAN
      BY <1>0, <2>2 DEF AskTyped
    <3> QED
      BY <3>1
  <2> QED
    BY <2>1, <2>2 DEF Proceed, GetRunningServerPid, Kill, StartNormal, FirstFrame, OpenNormal,
       CloseNormal
<1>4. AskTyped' /\ \A r \in Requesters \ {q} : pc'[r] = pc[r] /\ alone'[r] = alone[r]
  BY <1>0, <1>2, <1>3 DEF AskTyped
<1>5. alone'[q] => alone[q]
  BY <1>0, <1>3 DEF AskTyped
<1>6. FileTyped'
  <2>1. CASE OpenNormal(q)
    BY <1>0, <2>1 DEF OpenNormal, OpenFile, FileTyped, Files, Writers
  <2>2. CASE CloseNormal(q)
    <3>1. PICK s \in Shots : CloseFile(q, s)
      <4>1. PICK p \in Pictures : CloseFile(q, OwnShot(q, p))
        BY <2>2, OwnPicture
      <4> QED
        BY <4>1, OwnTyped
    <3> QED
      BY <1>0, <3>1 DEF CloseFile, FileTyped, Files
  <2>3. CASE UNCHANGED file
    BY <1>0, <2>3 DEF FileTyped
  <2> QED
    BY <2>1, <2>2, <2>3 DEF Proceed, GetRunningServerPid, Kill, Timeout, StartNormal, FirstFrame
<1>7. pending' = pending \/ (pending = NoOne /\ pending' = q)
  BY DEF Proceed, GetRunningServerPid, Kill, Timeout, StartNormal, FirstFrame, OpenNormal,
     CloseNormal
<1> QED
  BY <1>1, <1>4, <1>5, <1>6, <1>7

LEMMA CloseNormalStep ==
  ASSUME Typed, NEW q \in Requesters, CloseNormal(q)
  PROVE  /\ pc[q] = "write" /\ pc'[q] = "done" /\ UNCHANGED <<pending, alone>>
         /\ file'.writers = file.writers \ {q} /\ file'.exists = file.exists
         /\ file'.spoilt = file.spoilt
         /\ \/ q \notin file.writers /\ file'.shot = file.shot
            \/ /\ q \in file.writers /\ file'.shot # NoShot /\ file'.shot.for = q
               /\ \E p \in Pictures : file'.shot.pixels = {p} /\ file'.shot.size = SizeOf(p)
<1>0. AskTyped /\ FileTyped
  BY DEF Typed
<1>1. PICK p \in Pictures : CloseFile(q, OwnShot(q, p))
  BY OwnPicture
<1> DEFINE s == OwnShot(q, p)
<1>2. s.for = q /\ s.pixels = {p} /\ s.size = SizeOf(p) /\ s.by = q /\ q # NoOne
  BY DEF Writers, OwnShot
<1>3. s # NoShot
  BY <1>2 DEF NoShot
<1>4. CloseFile(q, s)
  BY <1>1
<1> HIDE DEF s
<1>5. /\ file'.writers = file.writers \ {q} /\ file'.exists = file.exists
      /\ file'.spoilt = file.spoilt
      /\ file'.shot = IF q \in file.writers THEN s ELSE file.shot
  BY <1>0, <1>4 DEF CloseFile, FileTyped, Files
<1>6. pc[q] = "write" /\ pc'[q] = "done" /\ UNCHANGED <<pending, alone>>
  BY <1>0 DEF CloseNormal, AskTyped
<1> QED
  BY <1>2, <1>3, <1>5, <1>6

LEMMA RequesterType ==
  ASSUME Typed, NEW q \in Requesters, Unlink(q) \/ Goes(q)
  PROVE  Typed'
<1>0. ServerTyped /\ ScreenTyped /\ HandlersTyped /\ FileTyped /\ AskTyped /\ Writing
  BY DEF Typed
<1>1. CASE Unlink(q)
  <2>1. ServerTyped' /\ ScreenTyped' /\ HandlersTyped' /\ FileTyped' /\ AskTyped'
    BY <1>0, <1>1, UnlinkStep DEF ServerTyped, ScreenTyped, HandlersTyped, serverVars, screenVars
  <2>2. Writing'
    BY <1>1, UnlinkStep DEF Writing, NoFile
  <2> QED
    BY <2>1, <2>2 DEF Typed
<1>2. CASE Goes(q)
  <2>1. pending' \in Requesters \cup {NoOne}
    BY <1>0, <1>2, ProceedStep DEF ServerTyped
  <2>2. ServerTyped' /\ ScreenTyped' /\ HandlersTyped' /\ FileTyped' /\ AskTyped'
    BY <1>0, <1>2, <2>1, ProceedStep DEF ServerTyped, ScreenTyped, HandlersTyped, serverVars,
       screenVars
  <2>3. q \notin Threads /\ UNCHANGED handler /\ \A r \in Requesters \ {q} : pc'[r] = pc[r]
    BY <1>2, ProceedStep
  <2>4. \A w \in file.writers : w \in Threads \/ w \in Requesters
    BY <1>0 DEF FileTyped, Files, Writers
  <2>5. file'.writers \subseteq file.writers \cup {q}
        /\ (q \in file'.writers => pc'[q] = "write")
    <3>1. CASE OpenNormal(q)
      BY <1>0, <3>1 DEF OpenNormal, OpenFile, AskTyped
    <3>2. CASE CloseNormal(q)
      BY <3>2, CloseNormalStep
    <3>3. CASE UNCHANGED file /\ pc[q] # "write"
      BY <1>0, <2>3, <3>3 DEF Writing
    <3> QED
      BY <1>2, <3>1, <3>2, <3>3
         DEF Goes, Proceed, GetRunningServerPid, Kill, Timeout, StartNormal, FirstFrame
  <2>6. Writing'
    BY <1>0, <2>3, <2>4, <2>5 DEF Writing
  <2> QED
    BY <2>2, <2>6 DEF Typed
<1> QED
  BY <1>1, <1>2

LEMMA AllocatorType ==
  ASSUME Typed, NEW t \in Threads, Allocator(t)
  PROVE  Typed'
<1>1. /\ UNCHANGED <<serverVars, pending, handler, screenVars, file, askVars>>
      /\ heap' \in Threads \cup {NoOne}
  BY DEF Allocator, Allocate, Allocated
<1> QED
  BY <1>1 DEF Typed, ServerTyped, ScreenTyped, HandlersTyped, FileTyped, AskTyped, Writing,
     serverVars, screenVars, askVars

LEMMA StepType == Typed /\ [Next]_vars => Typed'
<1>1. ASSUME Typed, UNCHANGED vars PROVE Typed'
  BY <1>1 DEF Typed, ServerTyped, ScreenTyped, HandlersTyped, FileTyped, AskTyped, Writing,
     vars, serverVars, screenVars, askVars
<1> QED
  BY <1>1, ServerType, MainLoopType, AllocatorType, TakeType, RequesterType DEF Next, Goes

\* Whatever the number of processes and threads, whoever is counted as a writer of the
\* screenshot file is between its fopen and its fclose: no descriptor stays open
\* (writeScreenToFile and its callers, droidvncserver.cpp).
THEOREM TypesHold == Spec => []TypeOK
BY InitType, StepType, TypeParts, PTL DEF Spec

-----------------------------------------------------------------------------
(* Steady screenshots.                                                     *)

\* Unless main draws, vncbuf shows one picture, in the loop the one imageRotation and
\* frame are about; and a handler beside which nothing was drawn has read of this
\* picture only, its dimensions too if main stayed in its loop.
Steady ==
  /\ mainpc # "drawing" => \E p \in Pictures : drawn = {p}
  /\ mainpc = "loop" => drawn = {Current}
  /\ \A t \in Threads :
       Takes(t) /\ handler[t].calm =>
         /\ mainpc # "drawing"
         /\ handler[t].pixels \subseteq drawn
         /\ handler[t].step \in {"close", "answer"} => handler[t].pixels # {}
         /\ handler[t].steady => mainpc = "loop" /\ handler[t].size = SizeOf(Current)
  /\ SteadyShot

LEMMA InitSteady == Init => Steady
<1> SUFFICES ASSUME Init PROVE Steady
  OBVIOUS
<1>1. Current \in Pictures
  BY InitType, CurrentTyped DEF Typed
<1>2. drawn = {Current} /\ file.shot = NoShot /\ \A t \in Threads : ~Takes(t)
  BY DEF Init, Takes, Steps, Idle
<1> QED
  BY <1>1, <1>2 DEF Steady, SteadyShot

\* A step that leaves the handlers and the picture alone.
LEMMA SteadyAside ==
  ASSUME Steady, UNCHANGED <<handler, mainpc, imageRotation, frame, drawn>>,
         \/ file'.shot = file.shot \/ file'.shot = NoShot
         \/ \E p \in Pictures : file'.shot.pixels = {p} /\ file'.shot.size = SizeOf(p)
  PROVE  Steady'
BY DEF Steady, SteadyShot, Takes, Current

LEMMA SteadyMain ==
  ASSUME Typed, Steady, MainLoop
  PROVE  Steady'
<1>0. HandlersTyped /\ Current \in Pictures /\ file' = file
  BY CurrentTyped, MainLoopSteps DEF Typed
<1>1. SteadyShot'
  BY <1>0 DEF Steady, SteadyShot
<1>2. ASSUME NEW to, MainGoes(to), to # "drawing", drawn' = drawn, to # "loop",
             mainpc # "drawing"
      PROVE  Steady'
  <2>1. mainpc' = to
    BY <1>0, <1>2, MainGoesStep
  <2>2. ASSUME NEW t \in Threads, Takes(t)', handler'[t].calm
        PROVE  /\ handler'[t].pixels \subseteq drawn'
               /\ handler'[t].step \in {"close", "answer"} => handler'[t].pixels # {}
               /\ ~handler'[t].steady
    BY <1>0, <1>2, <2>2, MainGoesStep DEF Steady
  <2> QED
    BY <1>1, <1>2, <2>1, <2>2 DEF Steady
<1>3. CASE TurnImage
  BY <1>2, <1>3 DEF TurnImage
<1>4. CASE ConsumeFirst
  BY <1>2, <1>4 DEF ConsumeFirst
<1>5. CASE ConsumeFrame
  BY <1>2, <1>5 DEF ConsumeFrame
<1>6. CASE BeginDraw
  <2>1. MainGoes("drawing")
    BY <1>6 DEF BeginDraw
  <2>2. mainpc' = "drawing" /\ \A t \in Threads : Takes(t)' => ~handler'[t].calm
    BY <1>0, <2>1, MainGoesStep
  <2> QED
    BY <1>1, <2>2 DEF Steady
<1>7. CASE EndDraw
  <2>1. MainGoes("loop") /\ mainpc = "drawing" /\ drawn' = {Current} /\ Current' = Current
    BY <1>7 DEF EndDraw, Current
  <2>2. mainpc' = "loop" /\ \A t \in Threads : Takes(t)' => ~handler'[t].calm
    BY <1>0, <2>1, MainGoesStep DEF Steady
  <2> QED
    BY <1>0, <1>1, <2>1, <2>2 DEF Steady
<1> QED
  BY <1>3, <1>4, <1>5, <1>6, <1>7 DEF MainLoop

\* The thread t has taken a step of its screenshot, the file is as it should be.
LEMMA SteadyGoes ==
  ASSUME Steady, UNCHANGED <<mainpc, imageRotation, frame, drawn>>, SteadyShot',
         NEW t \in Threads, \A u \in Threads \ {t} : handler'[u] = handler[u],
         Takes(t)' /\ handler'[t].calm =>
           /\ mainpc # "drawing" /\ handler'[t].pixels \subseteq drawn
           /\ handler'[t].step \in {"close", "answer"} => handler'[t].pixels # {}
           /\ handler'[t].steady => mainpc = "loop" /\ handler'[t].size = SizeOf(Current)
  PROVE  Steady'
BY DEF Steady, Takes, Current

LEMMA SteadyTake ==
  ASSUME Typed, Steady, NEW t \in Threads, TakeScreenshot(t)
  PROVE  Steady'
<1>1. UNCHANGED <<mainpc, imageRotation, frame, drawn>> /\ Current' = Current
  BY TakeKeeps DEF screenVars, Current
<1>2. CASE Deliver(t)
  BY <1>1, <1>2, DeliverStep, SteadyGoes DEF Steady, SteadyShot
<1>3. CASE OpenShot(t)
  BY <1>1, <1>3, OpenShotStep, SteadyGoes DEF Steady, SteadyShot
<1>4. CASE CopyRows(t)
  <2>1. handler'[t].pixels # {} /\ (handler[t].pixels \subseteq drawn => handler'[t].pixels \subseteq drawn)
    BY <1>4, CopyRowsStep
  <2>2. SteadyShot'
    BY <1>4, CopyRowsStep DEF Steady, SteadyShot
  <2> QED
    BY <1>1, <1>4, <2>1, <2>2, CopyRowsStep, SteadyGoes DEF Steady
<1>5. CASE CloseShot(t)
  <2>1. /\ Takes(t) /\ \A u \in Threads \ {t} : handler'[u] = handler[u]
        /\ handler'[t].size = handler[t].size /\ handler'[t].pixels = handler[t].pixels
        /\ handler'[t].steady = handler[t].steady /\ handler'[t].calm = handler[t].calm
        /\ handler[t].step = "close"
        /\ file'.shot = IF t \in file.writers THEN Taken(t) ELSE file.shot
    BY <1>5, CloseShotStep
  <2>2. /\ Taken(t).steady = handler[t].steady /\ Taken(t).size = handler[t].size
        /\ Taken(t).pixels = handler[t].pixels /\ Taken(t).calm = handler[t].calm
    BY DEF Taken
  <2>3. ASSUME handler[t].calm
        PROVE  \E p \in Pictures : /\ handler[t].pixels = {p}
                                   /\ handler[t].steady => handler[t].size = SizeOf(p)
    <3>1. /\ mainpc # "drawing" /\ handler[t].pixels \subseteq drawn /\ handler[t].pixels # {}
          /\ handler[t].steady => mainpc = "loop" /\ handler[t].size = SizeOf(Current)
      BY <2>1, <2>3 DEF Steady
    <3>2. PICK p \in Pictures : drawn = {p}
      BY <3>1 DEF Steady
    <3>3. handler[t].pixels = {p}
      BY <3>1, <3>2
    <3>4. mainpc = "loop" => p = Current
      BY <3>2 DEF Steady
    <3> QED
      BY <3>1, <3>3, <3>4
  <2>4. SteadyShot'
    BY <2>1, <2>2, <2>3 DEF Steady, SteadyShot
  <2> QED
    BY <1>1, <2>1, <2>4, SteadyGoes DEF Steady
<1>6. CASE Answer(t)
  <2>1. ~Takes(t)'
    BY <1>6, AnswerStep DEF Takes, Idle, Steps
  <2>2. SteadyShot'
    BY <1>6, AnswerStep DEF Steady, SteadyShot
  <2> QED
    BY <1>1, <1>6, <2>1, <2>2, AnswerStep, SteadyGoes
<1> QED
  BY <1>2, <1>3, <1>4, <1>5, <1>6 DEF TakeScreenshot

LEMMA StepSteady ==
  ASSUME Typed, Steady, [Next]_vars
  PROVE  Steady'
<1>1. CASE Server
  <2>1. CASE StopServer
    <3>1. /\ mainpc' = "loop" /\ handler' = [t \in Threads |-> Idle]
          /\ drawn' = {[turn |-> imageRotation, frame |-> frame']}
          /\ imageRotation' = imageRotation
      BY <2>1 DEF StopServer
    <3>2. drawn' = {Current'}
      BY <3>1 DEF Current
    <3>3. file'.shot = file.shot
      BY <2>1 DEF StopServer, Typed, FileTyped, Files
    <3>4. \A t \in Threads : ~Takes(t)'
      BY <3>1 DEF Takes, Idle, Steps
    <3>5. Typed' /\ Current' \in Pictures
      BY <1>1, ServerType, CurrentTyped, StepType DEF Typed, Current, Pictures, ScreenTyped
    <3> QED
      BY <3>1, <3>2, <3>3, <3>4, <3>5 DEF Steady, SteadyShot
  <2>2. CASE ~StopServer
    BY <1>1, <2>2, SteadyAside
       DEF Server, StartServer, SetupScreenshotSignalHandler, WriteServerPid, screenVars
  <2> QED
    BY <2>1, <2>2
<1>2. ASSUME NEW t \in Threads, Allocator(t) PROVE Steady'
  BY <1>2, SteadyAside DEF Allocator, Allocate, Allocated, screenVars
<1>3. ASSUME NEW q \in Requesters, Unlink(q) PROVE Steady'
  BY <1>3, UnlinkStep, SteadyAside DEF screenVars, NoFile
<1>4. ASSUME NEW q \in Requesters, Goes(q) PROVE Steady'
  <2>1. \/ file'.shot = file.shot \/ file'.shot = NoShot
        \/ \E p \in Pictures : file'.shot.pixels = {p} /\ file'.shot.size = SizeOf(p)
    <3>1. CASE CloseNormal(q)
      BY <3>1, CloseNormalStep
    <3>2. CASE ~CloseNormal(q)
      BY <1>4, <3>2 DEF Goes, Proceed, GetRunningServerPid, Kill, Timeout, StartNormal,
         FirstFrame, OpenNormal, OpenFile
    <3> QED
      BY <3>1, <3>2
  <2> QED
    BY <1>4, <2>1, ProceedStep, SteadyAside DEF screenVars
<1>5. CASE UNCHANGED vars
  BY <1>5, SteadyAside DEF vars, screenVars
<1> QED
  BY <1>1, <1>2, <1>3, <1>4, <1>5, SteadyMain, SteadyTake DEF Next, Goes

\* A screenshot beside which nothing is drawn has the pixels of one frame, and its
\* dimensions if main follows no rotation either, whichever thread takes it, whatever it
\* interrupts and however many orientations, rotations and frames there are
\* (takeScreenshot and the loop of main, droidvncserver.cpp).
THEOREM SteadyShotsAreWhole == Spec => []SteadyShot
<1>1. Steady => SteadyShot
  BY DEF Steady
<1>2. Typed /\ Steady /\ [Next]_vars => Steady'
  BY StepSteady
<1> QED
  BY <1>1, <1>2, InitType, StepType, InitSteady, PTL DEF Spec

-----------------------------------------------------------------------------
(* Requesters that are alone.                                              *)

TakesFor(t, q) == Takes(t) /\ handler[t].asker = q

\* The server has been asked by q and has not answered.
Asked(q) == pending = q \/ \E t \in Threads : TakesFor(t, q)

\* A requester asks once: its signal is pending, or one thread handles it.
Once(q) ==
  /\ pc[q] \in {"idle", "pid", "kill"} => ~Asked(q)
  /\ \A t \in Threads : TakesFor(t, q) =>
       pending # q /\ \A u \in Threads : TakesFor(u, q) => u = t

\* The handler that interrupted the holder of the allocator's lock does not get on.
Stuck == Hangs => handler[heap].step = "open"

\* The file belongs to a requester that is alone and to the thread that answers it.
Mine(q) ==
  alone[q] /\ Active(q) =>
    /\ \A r \in Requesters \ {q} : ~Active(r) /\ ~Owes(r)
    /\ pc[q] \in {"normal", "wait", "shoot", "write"} => ~Owes(q)
    /\ pc[q] = "write" => file.exists /\ file.writers = {q} /\ ~file.spoilt
    /\ \A t \in Threads : TakesFor(t, q) =>
         /\ handler[t].step \in {"rows", "close"} =>
              file.exists /\ file.writers = {t} /\ ~file.spoilt
         /\ handler[t].step = "answer" /\ pc[q] = "sleep" => Whole /\ file.shot.for = q

Asking == Stuck /\ \A q \in Requesters : Once(q) /\ Mine(q)

\* What the server owes, by the threads that take a screenshot.
LEMMA OwesBy ==
  ASSUME NEW q
  PROVE  Owes(q) <=>
           \/ ~Hangs /\ (pending = q \/ \E t \in Threads : TakesFor(t, q) /\ handler[t].step = "open")
           \/ \E t \in Threads : TakesFor(t, q) /\ handler[t].step \in {"rows", "close"}
BY DEF Owes, Serves, TakesFor, Takes, Steps

LEMMA OwesNext ==
  ASSUME NEW q
  PROVE  Owes(q)' <=>
           \/ ~Hangs' /\ (pending' = q \/ \E t \in Threads : TakesFor(t, q)' /\ handler'[t].step = "open")
           \/ \E t \in Threads : TakesFor(t, q)' /\ handler'[t].step \in {"rows", "close"}
BY DEF Owes, Serves, TakesFor, Takes, Steps

LEMMA HangsBy ==
  /\ HandlersTyped => (Hangs <=> heap # NoOne /\ (heap \in Threads => Takes(heap)) /\ handler[heap] # Idle)
  /\ HandlersTyped' => (Hangs' <=> heap' # NoOne /\ (heap' \in Threads => Takes(heap)') /\ handler'[heap'] # Idle)
BY HandlerCases DEF Hangs, HandlersTyped, Takes, Handlers, Steps, Idle

LEMMA InitAsking == Init => Asking
<1> SUFFICES ASSUME Init PROVE Asking
  OBVIOUS
<1>1. heap = NoOne /\ pending = NoOne /\ \A t \in Threads : ~Takes(t)
  BY DEF Init, Takes, Idle, Steps
<1>2. ASSUME NEW q \in Requesters PROVE Once(q) /\ Mine(q)
  <2>1. pc[q] = "idle" /\ pending # q /\ ~Active(q)
    BY <1>1 DEF Init, Active, Writers
  <2> QED
    BY <1>1, <2>1 DEF Once, Mine, Asked, TakesFor
<1> QED
  BY <1>1, <1>2 DEF Asking, Stuck, Hangs

\* Nobody writes the file but the requester that is alone and the thread that answers it.
LEMMA NoWriters ==
  ASSUME Typed, NEW q \in Requesters, Mine(q), alone[q], Active(q), pc[q] # "write",
         \A t \in Threads : TakesFor(t, q) => handler[t].step \notin {"rows", "close"}
  PROVE  file.writers = {}
<1> SUFFICES ASSUME NEW w \in file.writers
             PROVE  FALSE
  BY DEF Typed, FileTyped, Files
<1>0. HandlersTyped /\ w \in Writers
  BY DEF Typed, FileTyped, Files
<1>1. CASE w \in Threads
  <2>1. handler[w].step \in {"rows", "close"}
    BY <1>1 DEF Typed, Writing
  <2>2. Takes(w)
    BY <2>1 DEF Takes, Steps
  <2>3. handler[w].asker \in Requesters
    BY <1>0, <1>1, <2>2, HandlerCases DEF Handlers
  <2>4. TakesFor(w, handler[w].asker)
    BY <2>2 DEF TakesFor
  <2>5. Owes(handler[w].asker)
    BY <1>1, <2>1, <2>4, OwesBy
  <2>6. handler[w].asker = q
    BY <2>3, <2>5 DEF Mine
  <2> QED
    BY <1>1, <2>1, <2>4, <2>6
<1>2. CASE w \notin Threads
  <2>1. w \in Requesters /\ pc[w] = "write"
    BY <1>0, <1>2 DEF Typed, Writing, Writers
  <2>2. Active(w)
    BY <2>1 DEF Active, Ended
  <2> QED
    BY <2>1, <2>2 DEF Mine
<1> QED
  BY <1>1, <1>2

\* A step that leaves the requesters and the file alone, and every handler at its step
\* and for its asker.
LEMMA AskingAside ==
  ASSUME Typed, Typed', Asking, UNCHANGED <<pc, alone, file, pending>>,
         Hangs' <=> Hangs, Hangs => heap' = heap, heap \in Threads \cup {NoOne},
         \A t \in Threads : /\ Takes(t)' <=> Takes(t)
                            /\ Takes(t) => /\ handler'[t].step = handler[t].step
                                           /\ handler'[t].asker = handler[t].asker
  PROVE  Asking'
<1>0. HandlersTyped /\ HandlersTyped' /\ Stuck
  BY DEF Typed, Asking
<1>1. \A r, t : t \in Threads => (TakesFor(t, r)' <=> TakesFor(t, r))
  BY DEF TakesFor
<1>2. \A r : \A t \in Threads : TakesFor(t, r) => handler'[t].step = handler[t].step
  BY DEF TakesFor
<1>3. \A r : /\ Asked(r)' <=> Asked(r)
             /\ Active(r)' <=> Active(r)
             /\ Owes(r)' <=> Owes(r)
  BY <1>1, <1>2, OwesBy, OwesNext DEF Asked, Active
<1>4. Stuck'
  BY <1>0, HangsBy DEF Stuck, Hangs
<1>5. ASSUME NEW q \in Requesters PROVE Once(q)' /\ Mine(q)'
  <2>0. Once(q) /\ Mine(q)
    BY DEF Asking
  <2>1. Once(q)'
    BY <1>1, <1>3, <2>0 DEF Once
  <2>2. Mine(q)'
    BY <1>1, <1>2, <1>3, <2>0 DEF Mine, Whole
  <2> QED
    BY <2>1, <2>2
<1> QED
  BY <1>4, <1>5 DEF Asking

\* The thread t that takes a screenshot for q goes on, not because it was stuck: the
\* server owes no more than before, and nobody else is concerned.
LEMMA AskingGoes ==
  ASSUME Typed, Typed', Asking, UNCHANGED <<pc, alone, pending, heap>>, NEW t \in Threads,
         NEW q \in Requesters, TakesFor(t, q), TakesFor(t, q)',
         \A u \in Threads \ {t} : handler'[u] = handler[u],
         Owes(q), handler'[t].step # "open", heap # t,
         Mine(q) /\ alone[q] /\ Active(q) =>
           /\ handler'[t].step \in {"rows", "close"} =>
                file'.exists /\ file'.writers = {t} /\ ~file'.spoilt
           /\ handler'[t].step = "answer" => Whole' /\ file'.shot.for = q
  PROVE  Asking'
<1>0. HandlersTyped /\ HandlersTyped' /\ Stuck /\ \A r \in Requesters : Once(r) /\ Mine(r)
  BY DEF Typed, Asking
<1>h. heap \in Threads \cup {NoOne}
  BY DEF Typed, ServerTyped
<1>1. \A r, u : u \in Threads => (TakesFor(u, r)' <=> TakesFor(u, r))
  BY DEF TakesFor, Takes
<1>2. /\ \A r : (Asked(r)' <=> Asked(r)) /\ (Active(r)' <=> Active(r))
      /\ Hangs' <=> Hangs
  BY <1>h, <1>1 DEF Asked, Active, Hangs
<1>3. \A r : Owes(r)' => Owes(r)
  <2> SUFFICES ASSUME NEW r, Owes(r)' PROVE Owes(r)
    OBVIOUS
  <2>1. CASE r = q
    BY <2>1
  <2>2. CASE r # q
    <3>1. ~TakesFor(t, r)
      BY <2>2 DEF TakesFor
    <3> QED
      BY <1>1, <1>2, <3>1, OwesBy, OwesNext
  <2> QED
    BY <2>1, <2>2
<1>4. \A r \in Requesters : Once(r)'
  BY <1>0, <1>1, <1>2 DEF Once
<1>5. ASSUME NEW r \in Requesters, r # q PROVE Mine(r)'
  <2>1. ~(alone[r] /\ Active(r))
    BY <1>0, <1>5 DEF Mine
  <2> QED
    BY <1>2, <2>1 DEF Mine
<1>6. Mine(q)'
  <2> SUFFICES ASSUME alone[q], Active(q) PROVE Mine(q)'
    BY <1>2 DEF Mine
  <2>2. pc[q] \notin {"normal", "wait", "shoot", "write"}
    BY <1>0 DEF Mine
  <2>3. \A u \in Threads : TakesFor(u, q)' => u = t
    BY <1>0, <1>1 DEF Once
  <2>4. \A r \in Requesters \ {q} : ~Active(r)' /\ ~Owes(r)'
    BY <1>0, <1>2, <1>3 DEF Mine
  <2> QED
    BY <1>0, <2>2, <2>3, <2>4 DEF Mine
<1>7. Stuck'
  BY <1>0, <1>2, <1>h DEF Stuck, Hangs
<1> QED
  BY <1>4, <1>5, <1>6, <1>7 DEF Asking

LEMMA AskingTake ==
  ASSUME Typed, Typed', Asking, NEW t \in Threads, TakeScreenshot(t)
  PROVE  Asking'
<1>0. HandlersTyped /\ HandlersTyped' /\ AskTyped /\ UNCHANGED <<alone, heap>>
      /\ Stuck /\ heap \in Threads \cup {NoOne} /\ \A r \in Requesters : Once(r) /\ Mine(r)
  BY TakeKeeps DEF Typed, Asking, ServerTyped
<1>1. CASE Deliver(t)
  <2>p. PICK p \in Requesters : p = pending
    BY <1>1, DeliverStep
  <2>1. /\ ~Takes(t) /\ p \in Requesters /\ pending' = NoOne /\ UNCHANGED <<file, pc>>
        /\ handler[t] = Idle /\ handler'[t].step = "open" /\ TakesFor(t, p)'
        /\ \A u \in Threads \ {t} : handler'[u] = handler[u]
    <3>1. handler'[t].step = "open" /\ handler'[t].asker = p /\ ~Takes(t)
      BY <1>1, <2>p, DeliverStep
    <3>2. TakesFor(t, p)'
      BY <3>1 DEF TakesFor, Takes, Steps
    <3> QED
      BY <1>1, <3>1, <3>2, DeliverStep
  <2>2. /\ \A r, u : u \in Threads \ {t} => (TakesFor(u, r)' <=> TakesFor(u, r))
        /\ \A r : TakesFor(t, r)' <=> r = p
        /\ \A r : ~TakesFor(t, r)
    BY <2>1 DEF TakesFor, Takes
  <2>3. Hangs => Hangs'
    BY <1>0, <2>1 DEF Hangs
  <2>4. \A r \in Requesters : /\ Asked(r)' <=> Asked(r)
                              /\ Active(r)' <=> Active(r)
                              /\ Owes(r)' => Owes(r)
    <3> SUFFICES ASSUME NEW r \in Requesters
                 PROVE  /\ Asked(r)' <=> Asked(r)
                        /\ Active(r)' <=> Active(r)
                        /\ Owes(r)' => Owes(r)
      OBVIOUS
    <3>1. pending' # r
      BY <2>1 DEF Writers
    <3>2. (Asked(r)' <=> Asked(r)) /\ (Active(r)' <=> Active(r))
      BY <2>p, <2>1, <2>2, <3>1 DEF Asked, Active
    <3>3. Owes(r)' => Owes(r)
      BY <2>p, <2>1, <2>2, <2>3, <3>1, OwesBy, OwesNext
    <3> QED
      BY <3>2, <3>3
  <2>5. \A u \in Threads : ~TakesFor(u, p)
    BY <1>0, <2>p, <2>1 DEF Once
  <2>6. \A r \in Requesters : Once(r)'
    <3> SUFFICES ASSUME NEW r \in Requesters PROVE Once(r)'
      OBVIOUS
    <3>1. pc'[r] \in {"idle", "pid", "kill"} => ~Asked(r)'
      BY <1>0, <2>1, <2>4 DEF Once
    <3>2. pending' # r
      BY <2>1 DEF Writers
    <3>3. \A u, w \in Threads : TakesFor(u, r)' /\ TakesFor(w, r)' => w = u
      BY <1>0, <2>2, <2>5 DEF Once
    <3> QED
      BY <3>1, <3>2, <3>3 DEF Once
  <2>7. \A r \in Requesters : Mine(r)'
    <3> SUFFICES ASSUME NEW r \in Requesters, alone[r], Active(r) PROVE Mine(r)'
      BY <1>0, <2>4 DEF Mine
    <3>1. /\ \A x \in Requesters \ {r} : ~Active(x)' /\ ~Owes(x)'
          /\ pc'[r] \in {"normal", "wait", "shoot", "write"} => ~Owes(r)'
          /\ pc'[r] = "write" => file'.exists /\ file'.writers = {r} /\ ~file'.spoilt
      BY <1>0, <2>1, <2>4 DEF Mine
    <3>2. \A u \in Threads : TakesFor(u, r)' =>
            \/ handler'[u].step = "open"
            \/ TakesFor(u, r) /\ handler'[u] = handler[u]
      BY <2>1, <2>2
    <3>3. Whole' <=> Whole
      BY <2>1 DEF Whole
    <3> QED
      BY <1>0, <2>1, <3>1, <3>2, <3>3 DEF Mine
  <2>8. Stuck'
    BY <1>0, <2>1 DEF Stuck, Hangs
  <2> QED
    BY <2>6, <2>7, <2>8 DEF Asking
<1>2. ASSUME OpenShot(t) \/ CopyRows(t) \/ CloseShot(t) PROVE Asking'
  <2>q. PICK q \in Requesters : q = handler[t].asker
    <3>1. Takes(t)
      BY <1>2, OpenShotStep, CopyRowsStep, CloseShotStep
    <3> QED
      BY <1>0, <3>1, HandlerCases DEF Handlers
  <2>0. UNCHANGED <<pc, alone, pending, heap>> /\ \A u \in Threads \ {t} : handler'[u] = handler[u]
    BY <1>0, <1>2, OpenShotStep, CopyRowsStep, CloseShotStep
  <2>1. Takes(t) /\ handler'[t].asker = q /\ handler'[t].step \in {"rows", "close", "answer"}
    BY <1>2, <2>q, OpenShotStep, CopyRowsStep, CloseShotStep
  <2>2. TakesFor(t, q) /\ TakesFor(t, q)'
    BY <2>q, <2>1 DEF TakesFor, Takes, Steps
  <2>o. Owes(q) /\ heap # t
    <3>1. CASE OpenShot(t)
      <4>1. handler[t].step = "open" /\ heap = NoOne
        BY <3>1 DEF OpenShot
      <4> QED
        BY <2>2, <4>1, OwesBy DEF Hangs, Writers
    <3>2. CASE CopyRows(t) \/ CloseShot(t)
      <4>1. handler[t].step \in {"rows", "close"} /\ handler[t] # Idle
        BY <3>2 DEF CopyRows, CloseShot, Idle
      <4> QED
        BY <1>0, <2>2, <4>1, OwesBy DEF Stuck, Hangs, Writers
    <3> QED
      BY <1>2, <3>1, <3>2
  <2>3. ASSUME alone[q], Active(q)
        PROVE  /\ handler'[t].step \in {"rows", "close"} =>
                    file'.exists /\ file'.writers = {t} /\ ~file'.spoilt
               /\ handler'[t].step = "answer" => Whole' /\ file'.shot.for = q
    <3>0. Mine(q) /\ Once(q) /\ \A u \in Threads : TakesFor(u, q) => u = t
      BY <1>0, <2>1, <2>2 DEF Once
    <3>1. CASE OpenShot(t)
      <4>1. pc[q] # "write"
        BY <2>o, <2>3, <3>0 DEF Mine
      <4>2. file.writers = {}
        BY <2>1, <2>3, <3>0, <3>1, <4>1, NoWriters, OpenShotStep
      <4> QED
        BY <3>1, <4>2, OpenShotStep
    <3>2. CASE CopyRows(t)
      BY <2>2, <2>3, <3>0, <3>2, CopyRowsStep DEF Mine
    <3>3. CASE CloseShot(t)
      <4>1. file.exists /\ file.writers = {t} /\ ~file.spoilt
        BY <2>2, <2>3, <3>0, <3>3, CloseShotStep DEF Mine
      <4>2. /\ file'.exists /\ file'.writers = {} /\ ~file'.spoilt
            /\ file'.shot = Taken(t) /\ Taken(t) # NoShot /\ handler'[t].step = "answer"
        BY <3>3, <4>1, CloseShotStep
      <4>3. Taken(t).for = q
        BY <2>q DEF Taken
      <4> QED
        BY <4>2, <4>3 DEF Whole
    <3> QED
      BY <1>2, <3>1, <3>2, <3>3
  <2> QED
    BY <2>0, <2>1, <2>2, <2>o, <2>3, AskingGoes
<1>3. CASE Answer(t)
  <2>q. PICK q \in Requesters : q = handler[t].asker
    BY <1>3, AnswerStep
  <2>1. /\ handler[t].step = "answer" /\ Takes(t) /\ UNCHANGED <<pending, file>>
        /\ q \in Requesters /\ Reply(q) /\ handler'[t] = Idle
        /\ \A u \in Threads \ {t} : handler'[u] = handler[u]
    BY <1>3, <2>q, AnswerStep
  <2>2. heap # t
    <3>1. handler[t] # Idle
      BY <2>1 DEF Idle
    <3> QED
      BY <1>0, <2>1, <3>1 DEF Stuck, Hangs, Writers
  <2>3. \A r, u : u \in Threads => (TakesFor(u, r)' => TakesFor(u, r) /\ handler'[u] = handler[u])
    BY <2>1 DEF TakesFor, Takes, Idle, Steps
  <2>h. Hangs' <=> Hangs
    BY <1>0, <2>1, <2>2 DEF Hangs
  <2>4. \A r : (Asked(r)' => Asked(r)) /\ (Owes(r)' => Owes(r))
    <3> SUFFICES ASSUME NEW r PROVE (Asked(r)' => Asked(r)) /\ (Owes(r)' => Owes(r))
      OBVIOUS
    <3>1. Asked(r)' => Asked(r)
      BY <2>1, <2>3 DEF Asked
    <3>2. Owes(r)' => Owes(r)
      BY <2>1, <2>3, <2>h, OwesBy, OwesNext
    <3> QED
      BY <3>1, <3>2
  <2>5. /\ \A r \in Requesters \ {q} : pc'[r] = pc[r]
        /\ pc'[q] = IF pc[q] = "sleep" THEN "answered" ELSE pc[q]
    BY <1>0, <2>1, ReplyStep
  <2>6. \A r \in Requesters : pc'[r] = pc[r] \/ (pc'[r] = "answered" /\ ~Active(r)')
    BY <2>5 DEF Active, Ended
  <2>7. \A r \in Requesters : Active(r)' => Active(r) /\ pc'[r] = pc[r]
    BY <2>6 DEF Active
  <2>8. \A r \in Requesters : Once(r)'
    BY <1>0, <2>1, <2>3, <2>4, <2>6 DEF Once
  <2>9. \A r \in Requesters : Mine(r)'
    <3> SUFFICES ASSUME NEW r \in Requesters, alone[r], Active(r), pc'[r] = pc[r] PROVE Mine(r)'
      BY <1>0, <2>7 DEF Mine
    <3>1. \A x \in Requesters \ {r} : ~Active(x)' /\ ~Owes(x)'
      BY <1>0, <2>4, <2>7 DEF Mine
    <3>2. Whole' <=> Whole
      BY <2>1 DEF Whole
    <3> QED
      BY <1>0, <2>1, <2>3, <2>4, <3>1, <3>2 DEF Mine
  <2>10. Stuck'
    BY <1>0, <2>1, <2>2 DEF Stuck, Hangs
  <2> QED
    BY <2>8, <2>9, <2>10 DEF Asking
<1> QED
  BY <1>1, <1>2, <1>3 DEF TakeScreenshot

LEMMA AskingServer ==
  ASSUME Typed, Typed', Asking, Server
  PROVE  Asking'
<1>1. CASE ~StopServer
  <2>1. UNCHANGED <<pc, alone, file, pending, handler, heap>> /\ heap \in Threads \cup {NoOne}
    BY <1>1 DEF Server, StartServer, SetupScreenshotSignalHandler, WriteServerPid, askVars,
       Typed, ServerTyped
  <2>2. (\A t : Takes(t)' <=> Takes(t)) /\ (Hangs' <=> Hangs)
    BY <2>1 DEF Takes, Hangs
  <2> QED
    BY <2>1, <2>2, AskingAside
<1>2. CASE StopServer
  <2>0. FileTyped /\ \A r \in Requesters : Mine(r)
    BY DEF Typed, Asking
  <2>1. /\ pending' = NoOne /\ UNCHANGED <<pc, alone>> /\ heap' = NoOne
        /\ \A t \in Threads : handler'[t] = Idle
    BY <1>2 DEF StopServer, askVars
  <2>2. \A r : \A t \in Threads : ~TakesFor(t, r)'
    BY <2>1 DEF TakesFor, Takes, Idle, Steps
  <2>3. \A r \in Requesters : ~Asked(r)' /\ ~Owes(r)' /\ (Active(r)' <=> Active(r))
    BY <2>1, <2>2, OwesNext DEF Asked, Writers, Active
  <2>4. \A r \in Requesters : file.exists /\ file.writers = {r} /\ ~file.spoilt
                                => file'.exists /\ file'.writers = {r} /\ ~file'.spoilt
    <3> DEFINE b == file.spoilt \/ file.writers \cap Threads # {}
    <3>1. file' = [file EXCEPT !.writers = file.writers \ Threads, !.spoilt = b]
      BY <1>2 DEF StopServer
    <3>2. \A r \in Requesters : file.writers = {r} /\ ~file.spoilt
                                  => ~b /\ file.writers \ Threads = {r}
      OBVIOUS
    <3> HIDE DEF b
    <3> QED
      BY <2>0, <3>1, <3>2 DEF FileTyped, Files
  <2>5. Stuck'
    BY <2>1 DEF Stuck, Hangs
  <2>6. \A r \in Requesters : Once(r)' /\ Mine(r)'
    BY <2>0, <2>1, <2>2, <2>3, <2>4 DEF Once, Mine
  <2> QED
    BY <2>5, <2>6 DEF Asking
<1> QED
  BY <1>1, <1>2

LEMMA AskingMain ==
  ASSUME Typed, Typed', Asking, MainLoop
  PROVE  Asking'
<1>0. HandlersTyped /\ heap \in Threads \cup {NoOne}
  BY DEF Typed, ServerTyped
<1>1. UNCHANGED <<pc, alone, file, pending, heap>>
  BY MainLoopSteps DEF askVars
<1>2. PICK to : MainGoes(to)
  BY MainLoopSteps
<1>3. \A t \in Threads :
        /\ (handler'[t] = Idle <=> handler[t] = Idle) /\ (Takes(t)' <=> Takes(t))
        /\ Takes(t) => /\ handler'[t].step = handler[t].step
                       /\ handler'[t].asker = handler[t].asker
  BY <1>0, <1>2, MainGoesStep
<1>4. Hangs' <=> Hangs
  BY <1>0, <1>1, <1>3 DEF Hangs
<1> QED
  BY <1>0, <1>1, <1>3, <1>4, AskingAside

\* The lock of the allocator is taken and released by threads no handler interrupts.
LEMMA AskingAllocator ==
  ASSUME Typed, Typed', Asking, NEW t \in Threads, Allocator(t)
  PROVE  Asking'
<1>1. /\ UNCHANGED <<pc, alone, file, pending, handler>> /\ heap \in Threads \cup {NoOne}
      /\ handler[t] = Idle
      /\ (heap = NoOne /\ heap' = t) \/ (heap = t /\ heap' = NoOne)
  BY DEF Allocator, Allocate, Allocated, Runs, askVars, Typed, ServerTyped
<1>2. ~Hangs /\ ~Hangs' /\ \A u : Takes(u)' <=> Takes(u)
  BY <1>1 DEF Takes, Hangs
<1> QED
  BY <1>1, <1>2, AskingAside

LEMMA AskingUnlink ==
  ASSUME Typed, Typed', Asking, NEW q \in Requesters, Unlink(q)
  PROVE  Asking'
<1>0. Stuck /\ \A r \in Requesters : Once(r) /\ Mine(r)
  BY DEF Asking
<1>1. /\ pc[q] = "idle" /\ pc'[q] \in {"pid", "failed"} /\ UNCHANGED <<pending, handler, heap>>
      /\ \A r \in Requesters \ {q} :
           pc'[r] = pc[r] /\ (alone'[r] => alone[r] /\ ~Active(r))
      /\ alone'[q] => ~\E s \in Requesters \ {q} : Active(s) \/ Owes(s)
  BY UnlinkStep
<1>2. \A r, t : TakesFor(t, r)' <=> TakesFor(t, r)
  BY <1>1 DEF TakesFor, Takes
<1>3. \A r : (Asked(r)' <=> Asked(r)) /\ (Owes(r)' <=> Owes(r))
  BY <1>1, <1>2 DEF Asked, Owes, Serves, Hangs
<1>4. \A r \in Requesters \ {q} : Active(r)' <=> Active(r)
  BY <1>1 DEF Active
<1>5. ~Asked(q) /\ \A t \in Threads : ~TakesFor(t, q)
  BY <1>0, <1>1 DEF Once, Asked
<1>6. \A r \in Requesters : Once(r)'
  BY <1>0, <1>1, <1>2, <1>3, <1>5 DEF Once
<1>7. \A r \in Requesters \ {q} : Mine(r)'
  BY <1>1, <1>4 DEF Mine
<1>8. Mine(q)'
  BY <1>1, <1>2, <1>3, <1>4, <1>5 DEF Mine
<1>9. Stuck'
  BY <1>0, <1>1 DEF Stuck, Hangs
<1> QED
  BY <1>6, <1>7, <1>8, <1>9 DEF Asking

LEMMA AskingProceed ==
  ASSUME Typed, Typed', Asking, NEW q \in Requesters, Goes(q)
  PROVE  Asking'
<1>0. AskTyped /\ FileTyped /\ Stuck /\ \A r \in Requesters : Once(r) /\ Mine(r)
  BY DEF Typed, Asking
<1>1. /\ Active(q) /\ UNCHANGED <<handler, heap>> /\ (alone'[q] => alone[q])
      /\ \A r \in Requesters \ {q} : pc'[r] = pc[r] /\ alone'[r] = alone[r]
      /\ pending' = pending \/ (pending = NoOne /\ pending' = q)
  BY ProceedStep
<1>2. \A r, t : TakesFor(t, r)' <=> TakesFor(t, r)
  BY <1>1 DEF TakesFor, Takes
<1>s. Stuck' /\ (Hangs' <=> Hangs)
  BY <1>0, <1>1 DEF Stuck, Hangs
<1>3. \A r \in Requesters \ {q} :
        /\ pending' = r <=> pending = r
        /\ Asked(r)' <=> Asked(r)
        /\ Owes(r)' <=> Owes(r)
        /\ Active(r)' <=> Active(r)
  <2>1. \A r \in Requesters \ {q} : pending' = r <=> pending = r
    BY <1>1 DEF Writers
  <2> QED
    BY <1>1, <1>2, <1>s, <2>1 DEF Asked, Owes, Serves, Active
<1>4. \A r \in Requesters \ {q} : Once(r)'
  BY <1>0, <1>1, <1>2, <1>3 DEF Once
<1>5. \A r \in Requesters \ {q} : Mine(r)'
  BY <1>0, <1>1, <1>3 DEF Mine
<1>6. \A r \in Requesters \ {q} : alone'[q] => ~Active(r)' /\ ~Owes(r)'
  BY <1>0, <1>1, <1>3 DEF Mine
<1>7. CASE Kill(q)
  <2>1. pc[q] = "kill" /\ pc'[q] = "sleep"
    BY <1>0, <1>7 DEF Kill, AskTyped
  <2>2. \A t \in Threads : ~TakesFor(t, q)
    BY <1>0, <2>1 DEF Once, Asked
  <2>3. Once(q)'
    BY <1>2, <2>1, <2>2 DEF Once
  <2>4. Mine(q)'
    BY <1>6, <1>2, <2>1, <2>2 DEF Mine
  <2> QED
    BY <1>4, <1>5, <1>s, <2>3, <2>4 DEF Asking
<1>8. CASE ~Kill(q)
  <2> USE DEF Goes
  <2>1. pending' = pending
    BY <1>8 DEF Proceed, GetRunningServerPid, Timeout, StartNormal, FirstFrame, OpenNormal,
       CloseNormal
  <2>2. (Asked(q)' <=> Asked(q)) /\ (Owes(q)' <=> Owes(q))
    BY <1>1, <1>2, <1>s, <2>1 DEF Asked, Owes, Serves
  <2>3. pc'[q] \in {"idle", "pid", "kill"} => pc[q] = "pid"
    BY <1>0, <1>8 DEF Proceed, GetRunningServerPid, Timeout, StartNormal, FirstFrame, OpenNormal,
       CloseNormal, AskTyped
  <2>4. Once(q)'
    BY <1>0, <1>2, <2>1, <2>2, <2>3 DEF Once
  <2>5. ASSUME alone'[q], Active(q)'
        PROVE  ~Owes(q) /\ (pc'[q] = "write" =>
                              file'.exists /\ file'.writers = {q} /\ ~file'.spoilt)
    <3>1. CASE GetRunningServerPid(q)
      <4>1. ~Asked(q)
        BY <1>0, <3>1 DEF GetRunningServerPid, Once
      <4>2. ~Owes(q)
        BY <4>1, OwesBy DEF Asked
      <4> QED
        BY <1>0, <3>1, <4>2 DEF GetRunningServerPid, AskTyped
    <3>2. CASE Timeout(q)
      BY <1>0, <2>5, <3>2 DEF Timeout, AskTyped
    <3>3. CASE StartNormal(q) \/ FirstFrame(q)
      BY <1>0, <1>1, <2>5, <3>3 DEF StartNormal, FirstFrame, AskTyped, Mine
    <3>4. CASE OpenNormal(q)
      <4>1. pc[q] = "shoot" /\ OpenFile(q)
        BY <3>4 DEF OpenNormal
      <4>2. ~Owes(q)
        BY <1>0, <1>1, <2>5, <4>1 DEF Mine
      <4>3. \A t \in Threads : TakesFor(t, q) => handler[t].step \notin {"rows", "close"}
        BY <4>2, OwesBy
      <4>4. file.writers = {}
        BY <1>0, <1>1, <2>5, <4>1, <4>3, NoWriters
      <4> QED
        BY <4>1, <4>2, <4>4 DEF OpenFile
    <3>5. CASE CloseNormal(q)
      BY <2>5, <3>5, CloseNormalStep DEF Active, Ended
    <3> QED
      BY <1>8, <3>1, <3>2, <3>3, <3>4, <3>5 DEF Proceed
  <2>6. Mine(q)'
    <3> SUFFICES ASSUME alone'[q], Active(q)' PROVE Mine(q)'
      BY DEF Mine
    <3>1. ~Owes(q)' /\ \A t \in Threads : TakesFor(t, q)' =>
                          handler'[t].step \notin {"rows", "close"}
      BY <2>2, <2>5, OwesNext
    <3>2. pc'[q] # "sleep"
      BY <1>0, <1>8 DEF Proceed, GetRunningServerPid, Timeout, StartNormal, FirstFrame, OpenNormal,
         CloseNormal, AskTyped
    <3> QED
      BY <1>6, <2>5, <3>1, <3>2 DEF Mine
  <2> QED
    BY <1>4, <1>5, <1>s, <2>4, <2>6 DEF Asking
<1> QED
  BY <1>7, <1>8

LEMMA StepAsking ==
  ASSUME Typed, Asking, [Next]_vars
  PROVE  Asking'
<1>0. Typed' /\ heap \in Threads \cup {NoOne}
  BY StepType DEF Typed, ServerTyped
<1>1. CASE UNCHANGED vars
  <2>1. UNCHANGED <<pc, alone, file, pending, handler, heap>>
    BY <1>1 DEF vars, askVars
  <2>2. (\A t : Takes(t)' <=> Takes(t)) /\ (Hangs' <=> Hangs)
    BY <2>1 DEF Takes, Hangs
  <2> QED
    BY <1>0, <2>1, <2>2, AskingAside
<1> QED
  BY <1>0, <1>1, AskingServer, AskingMain, AskingAllocator, AskingTake, AskingUnlink, AskingProceed
     DEF Next, Goes

\* The end of a requester that is alone.
LEMMA EndsWhole ==
  ASSUME Typed, Asking, [Next]_vars, NEW q \in Requesters, alone[q],
         pc'[q] # pc[q], pc'[q] \in {"answered", "done"}
  PROVE  Whole' /\ file'.shot.for = q
<1>0. HandlersTyped /\ AskTyped /\ Mine(q)
  BY DEF Typed, Asking
<1>1. ASSUME NEW t \in Threads, Answer(t) PROVE Whole' /\ file'.shot.for = q
  <2>1. PICK p \in Requesters : p = handler[t].asker
    BY <1>1, AnswerStep
  <2>2. Reply(p) /\ handler[t].step = "answer" /\ Takes(t) /\ UNCHANGED file
    BY <1>1, <2>1, AnswerStep
  <2>3. p = q /\ pc[q] = "sleep"
    BY <1>0, <2>2, ReplyStep
  <2>4. TakesFor(t, q) /\ Active(q)
    BY <2>1, <2>2, <2>3 DEF TakesFor, Active, Ended
  <2>5. Whole /\ file.shot.for = q
    <3>1. TakesFor(t, q) => (handler[t].step = "answer" /\ pc[q] = "sleep"
                               => Whole /\ file.shot.for = q)
      BY <1>0, <2>4 DEF Mine
    <3> QED
      BY <2>2, <2>3, <2>4, <3>1
  <2> QED
    BY <2>2, <2>5 DEF Whole
<1>2. ASSUME NEW r \in Requesters, Goes(r) PROVE Whole' /\ file'.shot.for = q
  <2>1. r = q
    BY <1>2, ProceedStep
  <2>2. CloseNormal(q)
    BY <1>0, <1>2, <2>1 DEF Goes, Proceed, GetRunningServerPid, Kill, Timeout, StartNormal,
       FirstFrame, OpenNormal, AskTyped
  <2>3. Active(q) /\ pc[q] = "write"
    BY <2>2 DEF CloseNormal, Active, Ended
  <2>4. file.exists /\ file.writers = {q} /\ ~file.spoilt
    BY <1>0, <2>3 DEF Mine
  <2> QED
    BY <2>2, <2>4, CloseNormalStep DEF Whole
<1>3. ASSUME NEW r \in Requesters, Unlink(r) PROVE FALSE
  BY <1>3, UnlinkStep
<1>4. \/ \E t \in Threads : Answer(t)
      \/ \E r \in Requesters : Unlink(r) \/ Goes(r)
      \/ UNCHANGED pc
  BY DEF Next, Server, StartServer, SetupScreenshotSignalHandler, WriteServerPid, StopServer,
     MainLoop, TurnImage, ConsumeFirst, ConsumeFrame, BeginDraw, EndDraw, Goes, Allocator, Allocate, Allocated,
     TakeScreenshot, Deliver, OpenShot, CopyRows, CloseShot, askVars, vars
<1> QED
  BY <1>1, <1>2, <1>3, <1>4

\* A requester that ends well, answered or by itself, leaves a whole screenshot taken
\* for it, unless another asks too or the server may still write the file when the
\* requester gives up: a server that hangs before it opened the file does not, and may
\* hang on while the requester takes its own (dispatchScreenshotSignal, takeScreenshot
\* and the screenshot of main, droidvncserver.cpp).
THEOREM ShotsAreForTheirAsker == Spec => EndsWithShot
<1>1. Typed /\ Asking /\ [Next]_vars
        => [\A q \in Requesters :
              pc'[q] # pc[q] /\ pc'[q] \in {"answered", "done"} /\ alone[q]
                => Whole' /\ file'.shot.for = q]_vars
  BY EndsWhole
<1>2. Typed /\ Asking /\ [Next]_vars => Typed' /\ Asking'
  BY StepType, StepAsking
<1> QED
  BY <1>1, <1>2, InitType, InitAsking, PTL DEF Spec, EndsWithShot
=============================================================================
