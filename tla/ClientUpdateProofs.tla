------------------------- MODULE ClientUpdateProofs -------------------------
(***************************************************************************)
(* Proofs about ClientUpdate, for any number of clients, tiles, sizes and  *)
(* rotations.                                                              *)
(***************************************************************************)
EXTENDS ClientUpdate, TLAPS

\* Every action keeps the types: in particular a rotation always has a target,
\* and what is being sent are tiles of the framebuffer.
THEOREM TypeCorrect == Spec => []TypeOK
<1>1. Init => TypeOK
  BY DEF Init, TypeOK
<1>2. TypeOK /\ [Next]_vars => TypeOK'
  <2> SUFFICES ASSUME TypeOK, [Next]_vars PROVE TypeOK'
    OBVIOUS
  <2> USE DEF TypeOK, Signalled, Live, mainVars, regionVars, sizeVars, localVars
  <2>1. CASE BeginFrame
    BY <2>1 DEF BeginFrame
  <2>2. CASE BeginReinit
    BY <2>2 DEF BeginReinit, Rotated
  <2>3. CASE AssignSize
    BY <2>3 DEF AssignSize
  <2>4. CASE BeginMark
    BY <2>4 DEF BeginMark
  <2>5. CASE EndMark
    BY <2>5 DEF EndMark
  <2>6. ASSUME NEW t \in Tiles, DrawTile(t) PROVE TypeOK'
    BY <2>6 DEF DrawTile
  <2>34. ASSUME NEW t \in Tiles, RescaleTile(t) PROVE TypeOK'
    BY <2>34 DEF RescaleTile
  <2>35. CASE BeginRescale
    BY <2>35 DEF BeginRescale
  <2>7. ASSUME NEW c \in Clients, ScalingSetup(c) PROVE TypeOK'
    BY <2>7 DEF ScalingSetup
  <2>8. ASSUME NEW c \in Clients, MarkRegionAsModified(c) PROVE TypeOK'
    BY <2>8 DEF MarkRegionAsModified
  <2>9. ASSUME NEW c \in Clients, Accept(c) PROVE TypeOK'
    BY <2>9 DEF Accept
  <2>10. ASSUME NEW c \in Clients, StartOutput(c) PROVE TypeOK'
    BY <2>10 DEF StartOutput
  <2>11. ASSUME NEW c \in Clients, ProcessClientInit(c) PROVE TypeOK'
    BY <2>11 DEF ProcessClientInit
  <2>12. ASSUME NEW c \in Clients, ResetEncodings(c) PROVE TypeOK'
    BY <2>12 DEF ResetEncodings
  <2>13. ASSUME NEW c \in Clients, ReadFails(c) PROVE TypeOK'
    BY <2>13 DEF ReadFails, ReadsEncodings
  <2>14. ASSUME NEW c \in Clients, LeaveLoop(c) PROVE TypeOK'
    BY <2>14 DEF LeaveLoop
  <2>15. ASSUME NEW c \in Clients, SignalOutput(c) PROVE TypeOK'
    BY <2>15 DEF SignalOutput
  <2>16. ASSUME NEW c \in Clients, JoinAndFree(c) PROVE TypeOK'
    BY <2>16 DEF JoinAndFree, OutputJoined
  <2>17. ASSUME NEW c \in Clients, OutputExit(c) PROVE TypeOK'
    BY <2>17 DEF OutputExit
  <2>18. ASSUME NEW c \in Clients, OutputProceed(c) PROVE TypeOK'
    BY <2>18 DEF OutputProceed
  <2>19. ASSUME NEW c \in Clients, OutputTest(c) PROVE TypeOK'
    BY <2>19 DEF OutputTest
  <2>20. ASSUME NEW c \in Clients, SpuriousWakeup(c) PROVE TypeOK'
    BY <2>20 DEF SpuriousWakeup
  <2>21. ASSUME NEW c \in Clients, Snapshot(c) PROVE TypeOK'
    BY <2>21 DEF Snapshot
  <2>22. ASSUME NEW c \in Clients, BeginSize(c) PROVE TypeOK'
    BY <2>22 DEF BeginSize
  <2>23. ASSUME NEW c \in Clients, SendNewFBSize(c) PROVE TypeOK'
    BY <2>23 DEF SendNewFBSize
  <2>24. ASSUME NEW c \in Clients, BeginUpdate(c) PROVE TypeOK'
    BY <2>24 DEF BeginUpdate
  <2>25. ASSUME NEW c \in Clients, NothingToSend(c) PROVE TypeOK'
    BY <2>25 DEF NothingToSend, UpdateRegion
  <2>26. ASSUME NEW c \in Clients, TakeRegion(c) PROVE TypeOK'
    BY <2>26 DEF TakeRegion, UpdateRegion, Rectangles
  <2>27. ASSUME NEW c \in Clients, SendCursorShape(c) PROVE TypeOK'
    BY <2>27 DEF SendCursorShape
  <2>28. ASSUME NEW c \in Clients, FinishUpdate(c) PROVE TypeOK'
    BY <2>28 DEF FinishUpdate
  <2>29. ASSUME NEW c \in Clients, WriteFails(c) PROVE TypeOK'
    BY <2>29 DEF WriteFails
  <2>30. ASSUME NEW c \in Clients, EnableNewFBSize(c) PROVE TypeOK'
    BY <2>30 DEF EnableNewFBSize, ReadsEncodings
  <2>36. ASSUME NEW c \in Clients, NEW hidden \in SUBSET Tiles, HideCursor(c, hidden)
      PROVE  TypeOK'
    BY <2>36 DEF HideCursor
  <2>37. ASSUME NEW c \in Clients, EnableCursorShape(c) PROVE TypeOK'
    BY <2>37 DEF EnableCursorShape
  <2>38. ASSUME NEW c \in Clients, EnableCursorPos(c) PROVE TypeOK'
    BY <2>38 DEF EnableCursorPos, ReadsEncodings
  <2>39. ASSUME NEW c \in Clients, EndEncodings(c) PROVE TypeOK'
    BY <2>39 DEF EndEncodings, ReadsEncodings
  <2>40. ASSUME NEW c \in Clients, ReadClosed(c) PROVE TypeOK'
    BY <2>40 DEF ReadClosed
  <2>41. ASSUME NEW c \in Clients, SelectFails(c) PROVE TypeOK'
    BY <2>41 DEF SelectFails
  <2>42. ASSUME NEW c \in Clients, ScalingFails(c) PROVE TypeOK'
    BY <2>42 DEF ScalingFails
  <2>31. ASSUME NEW c \in Clients, NEW region \in SUBSET Tiles, NEW incremental \in BOOLEAN,
             FramebufferUpdateRequest(c, region, incremental)
      PROVE  TypeOK'
    BY <2>31 DEF FramebufferUpdateRequest
  <2>32. ASSUME NEW c \in Clients, NEW t \in Tiles, SendRect(c, t) PROVE TypeOK'
    BY <2>32 DEF SendRect
  <2>33. CASE UNCHANGED vars
    BY <2>33 DEF vars
  <2> QED
    BY <2>1, <2>2, <2>3, <2>4, <2>5, <2>6, <2>7, <2>8, <2>9, <2>10, <2>11,
       <2>12, <2>13, <2>14, <2>15, <2>16, <2>17, <2>18, <2>19, <2>20, <2>21,
       <2>22, <2>23, <2>24, <2>25, <2>26, <2>27, <2>28, <2>29, <2>30, <2>31,
       <2>32, <2>33, <2>34, <2>35, <2>36, <2>37, <2>38, <2>39, <2>40, <2>41,
       <2>42
       DEF Next, MainPass, InputRuns, Viewer, OutputRuns
<1> QED
  BY <1>1, <1>2, PTL DEF Spec

(***************************************************************************)
(* The invariants hold together: which tiles the capture loop still owes a *)
(* client depends on which thread holds them, and that on the state of the *)
(* record, so RecordInUse is part of the induction.                        *)
(***************************************************************************)
IInv == NoLostUpdate /\ NoLostWakeup /\ NoLostResize /\ RecordInUse

\* The four invariants, inductive together on top of the types: no update,
\* wakeup or size change is lost and records outlive their threads.
LEMMA InvariantsHold == Spec => []IInv
<1> USE DEF IInv, NoLostUpdate, NoLostWakeup, NoLostResize, RecordInUse,
            MarkComing, Live
<1>1. Init => IInv
  BY DEF Init
<1>2. TypeOK /\ IInv /\ [Next]_vars => IInv'
  <2> SUFFICES ASSUME TypeOK, IInv, [Next]_vars PROVE IInv'
    OBVIOUS
  <2> USE DEF TypeOK, Signalled, mainVars, regionVars, sizeVars, localVars
  <2>1. CASE BeginFrame
    BY <2>1 DEF BeginFrame
  <2>2. CASE BeginReinit
    BY <2>2 DEF BeginReinit, Rotated
  <2>3. CASE AssignSize
    BY <2>3 DEF AssignSize
  <2>4. CASE BeginMark
    BY <2>4 DEF BeginMark
  <2>5. CASE EndMark
    BY <2>5 DEF EndMark
  <2>6. ASSUME NEW t \in Tiles, DrawTile(t) PROVE IInv'
    BY <2>6 DEF DrawTile
  <2>34. ASSUME NEW t \in Tiles, RescaleTile(t) PROVE IInv'
    BY <2>34 DEF RescaleTile
  <2>35. CASE BeginRescale
    BY <2>35 DEF BeginRescale
  <2>7. ASSUME NEW c \in Clients, ScalingSetup(c) PROVE IInv'
    BY <2>7 DEF ScalingSetup
  <2>8. ASSUME NEW c \in Clients, MarkRegionAsModified(c) PROVE IInv'
    BY <2>8 DEF MarkRegionAsModified
  <2>9. ASSUME NEW c \in Clients, Accept(c) PROVE IInv'
    BY <2>9 DEF Accept
  <2>10. ASSUME NEW c \in Clients, StartOutput(c) PROVE IInv'
    BY <2>10 DEF StartOutput
  <2>11. ASSUME NEW c \in Clients, ProcessClientInit(c) PROVE IInv'
    BY <2>11 DEF ProcessClientInit
  <2>12. ASSUME NEW c \in Clients, ResetEncodings(c) PROVE IInv'
    BY <2>12 DEF ResetEncodings
  <2>13. ASSUME NEW c \in Clients, ReadFails(c) PROVE IInv'
    BY <2>13 DEF ReadFails, ReadsEncodings
  <2>14. ASSUME NEW c \in Clients, LeaveLoop(c) PROVE IInv'
    BY <2>14 DEF LeaveLoop
  <2>15. ASSUME NEW c \in Clients, SignalOutput(c) PROVE IInv'
    BY <2>15 DEF SignalOutput
  <2>16. ASSUME NEW c \in Clients, JoinAndFree(c) PROVE IInv'
    BY <2>16 DEF JoinAndFree, OutputJoined
  <2>17. ASSUME NEW c \in Clients, OutputExit(c) PROVE IInv'
    BY <2>17 DEF OutputExit
  <2>18. ASSUME NEW c \in Clients, OutputProceed(c) PROVE IInv'
    BY <2>18 DEF OutputProceed
  <2>19. ASSUME NEW c \in Clients, OutputTest(c) PROVE IInv'
    BY <2>19 DEF OutputTest, FBUpdatePending
  <2>20. ASSUME NEW c \in Clients, SpuriousWakeup(c) PROVE IInv'
    BY <2>20 DEF SpuriousWakeup
  <2>21. ASSUME NEW c \in Clients, Snapshot(c) PROVE IInv'
    BY <2>21 DEF Snapshot
  <2>22. ASSUME NEW c \in Clients, BeginSize(c) PROVE IInv'
    BY <2>22 DEF BeginSize
  <2>23. ASSUME NEW c \in Clients, SendNewFBSize(c) PROVE IInv'
    BY <2>23 DEF SendNewFBSize
  <2>24. ASSUME NEW c \in Clients, BeginUpdate(c) PROVE IInv'
    BY <2>24 DEF BeginUpdate
  <2>25. ASSUME NEW c \in Clients, NothingToSend(c) PROVE IInv'
    BY <2>25 DEF NothingToSend, UpdateRegion
  <2>26. ASSUME NEW c \in Clients, TakeRegion(c) PROVE IInv'
    BY <2>26 DEF TakeRegion, UpdateRegion, Rectangles
  <2>27. ASSUME NEW c \in Clients, SendCursorShape(c) PROVE IInv'
    BY <2>27 DEF SendCursorShape
  <2>28. ASSUME NEW c \in Clients, FinishUpdate(c) PROVE IInv'
    BY <2>28 DEF FinishUpdate
  <2>29. ASSUME NEW c \in Clients, WriteFails(c) PROVE IInv'
    BY <2>29 DEF WriteFails
  <2>30. ASSUME NEW c \in Clients, EnableNewFBSize(c) PROVE IInv'
    BY <2>30 DEF EnableNewFBSize, ReadsEncodings
  <2>36. ASSUME NEW c \in Clients, NEW hidden \in SUBSET Tiles, HideCursor(c, hidden)
      PROVE  IInv'
    BY <2>36 DEF HideCursor
  <2>37. ASSUME NEW c \in Clients, EnableCursorShape(c) PROVE IInv'
    BY <2>37 DEF EnableCursorShape
  <2>38. ASSUME NEW c \in Clients, EnableCursorPos(c) PROVE IInv'
    BY <2>38 DEF EnableCursorPos, ReadsEncodings
  <2>39. ASSUME NEW c \in Clients, EndEncodings(c) PROVE IInv'
    BY <2>39 DEF EndEncodings, ReadsEncodings
  <2>40. ASSUME NEW c \in Clients, ReadClosed(c) PROVE IInv'
    BY <2>40 DEF ReadClosed
  <2>41. ASSUME NEW c \in Clients, SelectFails(c) PROVE IInv'
    BY <2>41 DEF SelectFails
  <2>42. ASSUME NEW c \in Clients, ScalingFails(c) PROVE IInv'
    BY <2>42 DEF ScalingFails
  <2>31. ASSUME NEW c \in Clients, NEW region \in SUBSET Tiles, NEW incremental \in BOOLEAN,
             FramebufferUpdateRequest(c, region, incremental)
      PROVE  IInv'
    BY <2>31 DEF FramebufferUpdateRequest
  <2>32. ASSUME NEW c \in Clients, NEW t \in Tiles, SendRect(c, t) PROVE IInv'
    BY <2>32 DEF SendRect
  <2>33. CASE UNCHANGED vars
    BY <2>33 DEF vars
  <2> HIDE DEF IInv, TypeOK, Signalled, mainVars, regionVars, sizeVars, localVars
  <2> QED
    BY <2>1, <2>2, <2>3, <2>4, <2>5, <2>6, <2>7, <2>8, <2>9, <2>10, <2>11,
       <2>12, <2>13, <2>14, <2>15, <2>16, <2>17, <2>18, <2>19, <2>20, <2>21,
       <2>22, <2>23, <2>24, <2>25, <2>26, <2>27, <2>28, <2>29, <2>30, <2>31,
       <2>32, <2>33, <2>34, <2>35, <2>36, <2>37, <2>38, <2>39, <2>40, <2>41,
       <2>42
       DEF Next, MainPass, InputRuns, Viewer, OutputRuns
<1> QED
  BY TypeCorrect, <1>1, <1>2, PTL DEF Spec

\* However the capture loop, the viewer and the output thread interleave, no
\* tile a live client lacks is forgotten by the server.
THEOREM UpdatesAreNotLost == Spec => []NoLostUpdate
BY InvariantsHold, PTL DEF IInv

\* While an output thread waits with a request open, its viewer has every pixel
\* or a mark, and with it a signal, is still to come: a thread goes to sleep only
\* under the mutex that guards every mark.
THEOREM WakeupsAreNotLost == Spec => []NoLostWakeup
BY InvariantsHold, PTL DEF IInv

\* A client moved to a scaled screen knows its size or is about to be told.
THEOREM ResizesAreNotLost == Spec => []NoLostResize
BY InvariantsHold, PTL DEF IInv

\* No thread of a client runs on a record that was freed or handed over to
\* another connection.
THEOREM RecordsOutliveThreads == Spec => []RecordInUse
BY InvariantsHold, PTL DEF IInv

(***************************************************************************)
(* Refinement: each step of the cycle is a step of UpdateService or leaves *)
(* its variables alone.                                                    *)
(***************************************************************************)
\* The server starts with nothing sent, asked or being sent.
LEMMA ServiceInit == Init => Service!Init
BY DEF Init, Service!Init

\* Every step of a thread is a step of the service, or the viewer sees nothing.
LEMMA ServiceStep ==
  ASSUME TypeOK, RecordInUse, [Next]_vars
  PROVE  [Service!Next]_Service!vars
<1> USE DEF TypeOK, Service!vars
<1>1. CASE AssignSize
  <2>1. Service!Redraw
    BY <1>1 DEF AssignSize, regionVars, localVars, Service!Redraw
  <2> QED
    BY <2>1 DEF Service!Next
<1>2. ASSUME NEW t \in Tiles, DrawTile(t)
      PROVE  [Service!Next]_Service!vars
  <2>1. Service!Redraw
    BY <1>2 DEF DrawTile, regionVars, localVars, Service!Redraw
  <2> QED
    BY <2>1 DEF Service!Next
<1>13. ASSUME NEW t \in Tiles, RescaleTile(t)
      PROVE  [Service!Next]_Service!vars
  <2>1. Service!Redraw
    BY <1>13 DEF RescaleTile, regionVars, localVars, Service!Redraw
  <2> QED
    BY <2>1 DEF Service!Next
<1>3. ASSUME NEW c \in Clients, ScalingSetup(c)
      PROVE  [Service!Next]_Service!vars
  <2>1. Service!Redraw
    BY <1>3 DEF ScalingSetup, regionVars, localVars, Service!Redraw
  <2> QED
    BY <2>1 DEF Service!Next
<1>4. ASSUME NEW c \in Clients, NEW region \in SUBSET Tiles, NEW incremental \in BOOLEAN,
             FramebufferUpdateRequest(c, region, incremental)
      PROVE  [Service!Next]_Service!vars
  <2>1. Service!Ask(c)
    BY <1>4 DEF FramebufferUpdateRequest, localVars, Service!Ask
  <2> QED
    BY <2>1 DEF Service!Next
<1>5. ASSUME NEW c \in Clients, TakeRegion(c)
      PROVE  [Service!Next]_Service!vars
  <2>1. update[c] = {} /\ requested[c] # {}
    BY <1>5 DEF TakeRegion, RecordInUse
  <2>2. PICK sent \in Rectangles(UpdateRegion(c)) : update' = [update EXCEPT ![c] = sent]
    BY <1>5 DEF TakeRegion
  <2>3. sent \in SUBSET Tiles /\ (sent = {} \/ sent \cap requested[c] # {})
    BY <2>2 DEF Rectangles, UpdateRegion
  <2>4. requested' = [requested EXCEPT ![c] = {}] /\ stale' = stale
    BY <1>5 DEF TakeRegion
  <2>5. Service!Answer(c)
    BY <2>1, <2>2, <2>3, <2>4 DEF Service!Answer
  <2> QED
    BY <2>5 DEF Service!Next
<1>6. ASSUME NEW c \in Clients, NEW t \in Tiles, SendRect(c, t)
      PROVE  [Service!Next]_Service!vars
  <2>1. Service!Deliver(c)
    BY <1>6 DEF SendRect, regionVars, Service!Deliver
  <2> QED
    BY <2>1 DEF Service!Next
<1>7. ASSUME NEW c \in Clients, WriteFails(c)
      PROVE  [Service!Next]_Service!vars
  <2>1. Service!Abandon(c)
    BY <1>7 DEF WriteFails, regionVars, Service!Abandon
  <2> QED
    BY <2>1 DEF Service!Next
<1>8. ASSUME NEW c \in Clients, JoinAndFree(c)
      PROVE  [Service!Next]_Service!vars
  <2>1. update[c] = {}
    BY <1>8 DEF JoinAndFree, OutputJoined, RecordInUse
  <2>2. Service!Forget(c)
    BY <1>8, <2>1 DEF JoinAndFree, Service!Forget
  <2> QED
    BY <2>2 DEF Service!Next
<1>9. CASE BeginFrame \/ BeginReinit \/ BeginRescale \/ BeginMark \/ EndMark
  BY <1>9 DEF BeginFrame, BeginRescale, BeginReinit, BeginMark, EndMark, regionVars, localVars
<1>10. ASSUME NEW c \in Clients,
             \/ MarkRegionAsModified(c) \/ ScalingFails(c)
             \/ Accept(c) \/ StartOutput(c) \/ ProcessClientInit(c)
             \/ ResetEncodings(c) \/ EnableNewFBSize(c)
             \/ \E hidden \in SUBSET Tiles : HideCursor(c, hidden)
             \/ EnableCursorShape(c) \/ EnableCursorPos(c) \/ EndEncodings(c)
             \/ ReadFails(c) \/ ReadClosed(c) \/ SelectFails(c)
             \/ LeaveLoop(c) \/ SignalOutput(c)
      PROVE  UNCHANGED Service!vars
  BY <1>10 DEF MarkRegionAsModified, ScalingFails, Accept, StartOutput,
       ProcessClientInit, ResetEncodings, EnableNewFBSize, HideCursor,
       EnableCursorShape, EnableCursorPos, EndEncodings, ReadFails, ReadClosed,
       SelectFails, LeaveLoop, SignalOutput, regionVars, localVars
<1>11. ASSUME NEW c \in Clients,
             \/ OutputExit(c) \/ OutputProceed(c) \/ OutputTest(c)
             \/ SpuriousWakeup(c) \/ Snapshot(c) \/ BeginSize(c)
             \/ SendNewFBSize(c) \/ BeginUpdate(c) \/ NothingToSend(c)
             \/ SendCursorShape(c) \/ FinishUpdate(c)
      PROVE  UNCHANGED Service!vars
  BY <1>11 DEF OutputExit, OutputProceed, OutputTest, SpuriousWakeup, Snapshot,
       BeginSize, SendNewFBSize, BeginUpdate, NothingToSend, SendCursorShape,
       FinishUpdate, regionVars, localVars
<1>12. CASE UNCHANGED vars
  BY <1>12 DEF vars, regionVars, localVars
<1> QED
  BY <1>1, <1>2, <1>3, <1>4, <1>5, <1>6, <1>7, <1>8, <1>9, <1>10, <1>11, <1>12,
     <1>13 DEF Next, MainPass, InputRuns, Viewer, OutputRuns

\* The threads, regions and flags of the update cycle implement the promise to
\* the viewer: pixels only in answer to a request, one answer at a time.
THEOREM CycleImplementsService == Spec => ServiceSpec
<1>1. TypeOK /\ RecordInUse /\ [Next]_vars => [Service!Next]_Service!vars
  BY ServiceStep
<1> QED
  BY ServiceInit, <1>1, TypeCorrect, RecordsOutliveThreads, PTL
     DEF Spec, ServiceSpec, Service!Spec
=============================================================================
