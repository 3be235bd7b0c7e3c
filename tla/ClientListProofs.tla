--------------------------- MODULE ClientListProofs ---------------------------
(***************************************************************************)
(* Proofs about ClientList, for any set of records and any finite set of   *)
(* iterators.                                                              *)
(***************************************************************************)
EXTENDS ClientList, FiniteSetTheorems, TLAPS

USE NullAssumption DEF Null

\* References are only pinned while held, and the record an iterator holds is
\* allocated until something went wrong.
Control ==
  \A i \in Iterators :
    /\ i \in pinned => itPc[i] \in {"body", "next", "unref"}
    /\ dangling = {} => Held(i) = Null \/ Allocated(Held(i))

\* Types but for the lower bound of refCount, which counting gives, and where
\* a walk stands tells that it points to a record.
Typed ==
  /\ head \in Records \cup {Null}
  /\ next \in [Records -> Records \cup {Null}]
  /\ prev \in [Records -> Records \cup {Null}]
  /\ sock \in [Records -> {"open", "closed"}]
  /\ refCount \in [Records -> Int]
  /\ owner \in [Records -> {"none", "run", "drain", "free"}]
  /\ output \in [Records -> {"loop", "ready", "send", "ended"}]
  /\ it \in [Iterators -> Records \cup {Null}]
  /\ itPc \in [Iterators -> {"idle", "test", "skip", "ref", "body", "next", "unref"}]
  /\ leaving \in [Iterators -> Records \cup {Null}]
  /\ todo \in [Iterators -> SUBSET Records]
  /\ pinned \subseteq Iterators
  /\ dangling \subseteq Iterators
  /\ \A i \in Iterators :
       /\ itPc[i] \in {"skip", "ref", "body", "next"} => it[i] \in Records
       /\ itPc[i] = "unref" => leaving[i] \in Records

\* Each step keeps the types, but for the lower bound of refCount.
LEMMA TypedHolds == Spec => []Typed
<1>1. Init => Typed
  BY DEF Init, Typed
<1>2. Typed /\ [Next]_vars => Typed'
  <2> SUFFICES ASSUME Typed, [Next]_vars PROVE Typed'
    OBVIOUS
  <2> USE DEF Typed, listVars, walkVars
  <2>1. ASSUME NEW c \in Records, NewClient(c) PROVE Typed'
    BY <2>1 DEF NewClient
  <2>2. ASSUME NEW c \in Records, CloseClient(c) PROVE Typed'
    BY <2>2 DEF CloseClient
  <2>3. ASSUME NEW c \in Records, Unlink(c) PROVE Typed'
    BY <2>3 DEF Unlink, Successor, PredecessorOf
  <2>4. ASSUME NEW c \in Records, SeeUnreferenced(c) PROVE Typed'
    BY <2>4 DEF SeeUnreferenced
  <2>5. ASSUME NEW c \in Records, FreeRecord(c) PROVE Typed'
    BY <2>5 DEF FreeRecord
  <2>6. ASSUME NEW i \in Iterators, StartWalk(i) PROVE Typed'
    BY <2>6 DEF StartWalk, Linked
  <2>7. ASSUME NEW i \in Iterators, EndWalk(i) PROVE Typed'
    BY <2>7 DEF EndWalk
  <2>8. ASSUME NEW i \in Iterators, TestSocket(i) PROVE Typed'
    BY <2>8 DEF TestSocket
  <2>9. ASSUME NEW i \in Iterators, SkipClosed(i) PROVE Typed'
    BY <2>9 DEF SkipClosed, Allocated
  <2>10. ASSUME NEW i \in Iterators, TakeReference(i) PROVE Typed'
    BY <2>10 DEF TakeReference
  <2>11. ASSUME NEW i \in Iterators, Visit(i) PROVE Typed'
    BY <2>11 DEF Visit
  <2>12. ASSUME NEW i \in Iterators, Advance(i) PROVE Typed'
    BY <2>12 DEF Advance
  <2>13. ASSUME NEW i \in Iterators, DropReference(i) PROVE Typed'
    BY <2>13 DEF DropReference, References
  <2>14. ASSUME NEW i \in Iterators, UseFreed(i) PROVE Typed'
    BY <2>14 DEF UseFreed
  <2>16. ASSUME NEW c \in Records, Output(c) PROVE Typed'
    BY <2>16 DEF Output, OutputTest, OutputWaits, OutputTakes, OutputDrops, References
  <2>15. CASE UNCHANGED vars
    BY <2>15 DEF vars
  <2> HIDE DEF Typed, listVars, walkVars
  <2> QED
    BY <2>1, <2>2, <2>3, <2>4, <2>5, <2>6, <2>7, <2>8, <2>9, <2>10, <2>11,
       <2>12, <2>13, <2>14, <2>15, <2>16 DEF Next, Owner, Walk
<1> QED
  BY <1>1, <1>2, PTL DEF Spec

\* Linking in front and unlinking under the mutex keep the links in agreement,
\* whatever links the unlinked records keep.
THEOREM ListStaysIntact == Spec => []ListIntact
<1>1. Init => ListIntact
  BY DEF Init, ListIntact, Linked
<1>2. Typed /\ ListIntact /\ [Next]_vars => ListIntact'
  <2> SUFFICES ASSUME Typed, ListIntact, [Next]_vars PROVE ListIntact'
    OBVIOUS
  <2>1. ASSUME NEW c \in Records, NewClient(c) PROVE ListIntact'
    BY <2>1 DEF Typed, ListIntact, Linked, NewClient, Allocated
  <2>2. ASSUME NEW c \in Records, Unlink(c) PROVE ListIntact'
    BY <2>2 DEF Typed, ListIntact, Linked, Unlink, Successor, PredecessorOf
  <2>3. ASSUME UNCHANGED listVars, Linked' = Linked PROVE ListIntact'
    BY <2>3 DEF ListIntact, listVars
  <2>4. ASSUME NEW c \in Records, SeeUnreferenced(c) \/ FreeRecord(c)
        PROVE  UNCHANGED listVars /\ Linked' = Linked
    <3>1. \A r \in Records : owner'[r] = "run" <=> owner[r] = "run"
      BY <2>4 DEF Typed, SeeUnreferenced, FreeRecord
    <3> QED
      BY <2>4, <3>1 DEF Linked, SeeUnreferenced, FreeRecord
  <2>5. ASSUME NEW c \in Records, CloseClient(c)
        PROVE  UNCHANGED listVars /\ Linked' = Linked
    BY <2>5 DEF Linked, CloseClient
  <2>6. ASSUME NEW i \in Iterators, StartWalk(i) \/ Walk(i)
        PROVE  UNCHANGED listVars /\ Linked' = Linked
    BY <2>6 DEF Linked, StartWalk, Walk, EndWalk, TestSocket, SkipClosed,
         TakeReference, Visit, Advance, DropReference, UseFreed
  <2>7. CASE UNCHANGED vars
    BY <2>7, <2>3 DEF vars, Linked
  <2>8. ASSUME NEW c \in Records, Output(c)
        PROVE  UNCHANGED listVars /\ Linked' = Linked
    BY <2>8 DEF Linked, Output, OutputTest, OutputWaits, OutputTakes, OutputDrops
  <2> QED
    BY <2>1, <2>2, <2>3, <2>4, <2>5, <2>6, <2>7, <2>8 DEF Next, Owner
<1> QED
  BY TypedHolds, <1>1, <1>2, PTL DEF Spec

-----------------------------------------------------------------------------
(* Reference counting.                                                     *)

\* Steps that change neither what iterators hold nor the counts, and allocate
\* nothing, keep the counts right.
LEMMA CountsUnchanged ==
  ASSUME ReferencesCounted, UNCHANGED <<refCount, output>>, dangling = {},
         \A i \in Iterators : Held(i)' = Held(i),
         \A c \in Records : Allocated(c)' => Allocated(c),
         \A c \in Records : owner'[c] # "run" => owner[c] # "run" \/ output[c] = "ended"
  PROVE  ReferencesCounted'
<1>1. \A c \in Records : Holders(c)' = Holders(c) /\ OwnReference(c)' = OwnReference(c)
  BY DEF Holders, OwnReference
<1> QED
  BY <1>1 DEF ReferencesCounted

\* What an iterator holds is decided by its own state.
LEMMA HeldUnchanged ==
  ASSUME UNCHANGED <<it, itPc, leaving>>
  PROVE  \A i \in Iterators : Held(i)' = Held(i)
BY DEF Held

\* The holders of a record are finitely many.
LEMMA HoldersFinite ==
  ASSUME NEW c PROVE IsFiniteSet(Holders(c)) /\ Cardinality(Holders(c)) \in Nat
<1>1. Holders(c) \subseteq Iterators
  BY DEF Holders
<1> QED
  BY <1>1, IteratorsAssumption, FS_Subset, FS_CardinalityType

\* Every step keeps Control.
LEMMA ControlHolds == Spec => []Control
<1>1. Init => Control
  BY DEF Init, Control, Held
<1>2. Typed /\ Control /\ [Next]_vars => Control'
  <2> SUFFICES ASSUME Typed, Control, [Next]_vars PROVE Control'
    OBVIOUS
  <2>0. ASSUME Next PROVE dangling = {}
    BY <2>0 DEF Next
  <2>1. ASSUME UNCHANGED <<it, itPc, leaving, pinned>>, dangling' = dangling,
               \A c \in Records : Allocated(c) => Allocated(c)'
        PROVE  Control'
    BY <2>1, HeldUnchanged DEF Control, Typed, Held
  <2>2. ASSUME NEW c \in Records,
               NewClient(c) \/ CloseClient(c) \/ Unlink(c) \/ SeeUnreferenced(c)
        PROVE  Control'
    BY <2>1, <2>2 DEF Typed, Allocated, walkVars, NewClient, CloseClient, Unlink,
         SeeUnreferenced
  <2>13. ASSUME NEW c \in Records, Output(c) PROVE Control'
    BY <2>1, <2>13 DEF Allocated, walkVars, Output, OutputTest, OutputWaits, OutputTakes,
         OutputDrops
  <2>3. ASSUME NEW c \in Records, Next, FreeRecord(c) PROVE Control'
    <3>1. \A r \in Records : r # c /\ Allocated(r) => Allocated(r)'
      BY <2>3 DEF Typed, Allocated, FreeRecord
    <3>2. dangling' = {} => \A i \in Iterators : Held(i) # c
      BY <2>3 DEF Held, FreeRecord
    <3>3. UNCHANGED <<it, itPc, leaving, pinned>> /\ dangling = {}
      BY <2>3, <2>0 DEF FreeRecord, walkVars
    <3>4. \A i \in Iterators : Held(i)' = Held(i) /\ (Held(i) = Null \/ Held(i) \in Records)
      BY <3>3 DEF Held, Typed
    <3> QED
      BY <3>1, <3>2, <3>3, <3>4 DEF Control
  <2>4. ASSUME NEW i \in Iterators, UseFreed(i) PROVE Control'
    BY <2>4 DEF Control, Held, UseFreed, walkVars
  <2>5. ASSUME NEW i \in Iterators, StartWalk(i) \/ EndWalk(i) PROVE Control'
    BY <2>5 DEF Typed, Control, Held, StartWalk, EndWalk, Allocated
  <2>6. ASSUME NEW i \in Iterators, TestSocket(i) PROVE Control'
    BY <2>6 DEF Typed, Control, Held, TestSocket, Allocated
  <2>7. ASSUME NEW i \in Iterators, SkipClosed(i) PROVE Control'
    BY <2>7 DEF Typed, Control, Held, SkipClosed, Allocated
  <2>8. ASSUME NEW i \in Iterators, TakeReference(i) PROVE Control'
    BY <2>8 DEF Typed, Control, Held, TakeReference, Allocated
  <2>9. ASSUME NEW i \in Iterators, Visit(i) PROVE Control'
    BY <2>9 DEF Typed, Control, Held, Visit, Allocated
  <2>10. ASSUME NEW i \in Iterators, Advance(i) PROVE Control'
    BY <2>10 DEF Typed, Control, Held, Advance, Allocated
  <2>11. ASSUME NEW i \in Iterators, DropReference(i) PROVE Control'
    BY <2>11 DEF Typed, Control, Held, DropReference, Allocated
  <2>12. CASE UNCHANGED vars
    BY <2>12, <2>1 DEF vars, walkVars, Allocated
  <2> QED
    BY <2>2, <2>3, <2>4, <2>5, <2>6, <2>7, <2>8, <2>9, <2>10, <2>11, <2>12, <2>13
       DEF Next, Owner, Walk
<1> QED
  BY TypedHolds, <1>1, <1>2, PTL DEF Spec

\* What an iterator holds is a record, or nothing.
LEMMA HeldIsRecord ==
  ASSUME Typed, NEW i \in Iterators PROVE Held(i) = Null \/ Held(i) \in Records
BY DEF Typed, Held

\* Iterator i starts to hold record c.
LEMMA CountAfterTake ==
  ASSUME Typed, NEW i \in Iterators, TakeReference(i), dangling = {}, ReferencesCounted
  PROVE  ReferencesCounted'
<1>1. it[i] \in Records /\ Held(i) = Null /\ Held(i)' = it[i]
  BY DEF Typed, Held, TakeReference
<1>2. \A j \in Iterators : j # i => Held(j)' = Held(j)
  BY DEF Typed, Held, TakeReference
<1> SUFFICES ASSUME NEW c \in Records, Allocated(c)'
             PROVE  refCount'[c] = Cardinality(Holders(c)') + OwnReference(c)'
  BY DEF ReferencesCounted, TakeReference
<1>3. /\ refCount[c] = Cardinality(Holders(c)) + OwnReference(c)
      /\ OwnReference(c)' = OwnReference(c) /\ OwnReference(c) \in 0..1
      /\ Cardinality(Holders(c)) \in Nat
  BY HoldersFinite DEF ReferencesCounted, TakeReference, Allocated, OwnReference
<1>4. CASE c = it[i]
  <2>1. Holders(c)' = Holders(c) \cup {i} /\ i \notin Holders(c)
    BY <1>1, <1>2, <1>4 DEF Holders
  <2>2. Cardinality(Holders(c)') = Cardinality(Holders(c)) + 1
    BY <2>1, HoldersFinite, FS_AddElement
  <2> QED
    BY <1>3, <1>4, <2>2 DEF Typed, TakeReference
<1>5. CASE c # it[i]
  <2>1. Holders(c)' = Holders(c)
    BY <1>1, <1>2, <1>5 DEF Holders
  <2> QED
    BY <1>1, <1>3, <1>5, <2>1 DEF Typed, TakeReference
<1> QED
  BY <1>4, <1>5

\* Iterator i gives back record c: the count was positive.
LEMMA CountAfterDrop ==
  ASSUME Typed, NEW i \in Iterators, DropReference(i), dangling = {}, ReferencesCounted
  PROVE  ReferencesCounted' /\ refCount[leaving[i]] > 0
<1>1. leaving[i] \in Records /\ Held(i) = leaving[i] /\ Held(i)' = Null
  BY DEF Typed, Held, DropReference
<1>2. \A j \in Iterators : j # i => Held(j)' = Held(j)
  BY DEF Typed, Held, DropReference
<1>3. \A c \in Records :
        /\ Allocated(c) => refCount[c] = Cardinality(Holders(c)) + OwnReference(c)
        /\ OwnReference(c)' = OwnReference(c) /\ OwnReference(c) \in 0..1
  BY DEF ReferencesCounted, DropReference, OwnReference
<1>4. Allocated(leaving[i])
  BY DEF DropReference
<1>5. i \in Holders(leaving[i])
  BY <1>1 DEF Holders
<1> DEFINE l == leaving[i]
<1>6. Cardinality(Holders(l) \ {i}) = Cardinality(Holders(l)) - 1
  BY <1>5, HoldersFinite, FS_RemoveElement
<1>7. Cardinality(Holders(l) \ {i}) \in Nat
  BY HoldersFinite, FS_RemoveElement, FS_CardinalityType
<1>8. refCount[l] > 0
  BY <1>1, <1>3, <1>4, <1>6, <1>7, HoldersFinite
<1>9. ASSUME NEW c \in Records, Allocated(c)'
      PROVE  refCount'[c] = Cardinality(Holders(c)') + OwnReference(c)'
  <2>1. CASE c = l
    <3>1. Holders(c)' = Holders(c) \ {i}
      BY <1>1, <1>2, <2>1 DEF Holders
    <3> QED
      BY <1>1, <1>3, <1>4, <1>6, <2>1, <3>1, HoldersFinite
         DEF Typed, DropReference, References
  <2>2. CASE c # l
    <3>1. Holders(c)' = Holders(c)
      BY <1>1, <1>2, <2>2 DEF Holders
    <3> QED
      BY <1>1, <1>3, <1>9, <2>2, <3>1 DEF Typed, DropReference, Allocated
  <2> QED
    BY <2>1, <2>2
<1> QED
  BY <1>8, <1>9 DEF ReferencesCounted, DropReference

\* The output thread of record c takes a reference, or gives it back, and holds one
\* while it sends; no other count is touched.
LEMMA CountAfterOutput ==
  ASSUME Typed, NEW c \in Records, Output(c), dangling = {}, ReferencesCounted,
         refCount \in [Records -> Nat]
  PROVE  ReferencesCounted' /\ refCount' \in [Records -> Nat]
<1>1. /\ \A r \in Records : Holders(r)' = Holders(r) /\ (Allocated(r)' <=> Allocated(r))
      /\ output[c] # "ended" /\ owner' = owner
      /\ \A r \in Records \ {c} : output'[r] = output[r] /\ refCount'[r] = refCount[r]
  BY HeldUnchanged DEF Typed, Holders, Allocated, walkVars, Output, OutputTest,
     OutputWaits, OutputTakes, OutputDrops
<1>2. owner[c] = "run" /\ refCount[c] = Cardinality(Holders(c)) + OwnReference(c)
  BY <1>1 DEF ReferencesCounted, Allocated
<1>3. /\ refCount'[c] = Cardinality(Holders(c)) + OwnReference(c)'
      /\ refCount' \in [Records -> Nat]
  <2>1. Cardinality(Holders(c)) \in Nat
    BY HoldersFinite
  <2>2. CASE OutputTest(c) \/ OutputWaits(c)
    BY <1>2, <2>2 DEF Typed, OutputTest, OutputWaits, OwnReference
  <2>3. CASE OutputTakes(c)
    BY <1>2, <2>1, <2>3 DEF Typed, OutputTakes, OwnReference
  <2>4. CASE OutputDrops(c)
    BY <1>2, <2>1, <2>4 DEF Typed, OutputDrops, OwnReference, References
  <2> QED
    BY <2>2, <2>3, <2>4 DEF Output
<1>4. \A r \in Records \ {c} : OwnReference(r)' = OwnReference(r)
  BY <1>1 DEF OwnReference
<1> QED
  BY <1>1, <1>2, <1>3, <1>4 DEF ReferencesCounted

\* The reference count equals the number of threads that hold the record, iterators
\* and the record's own output thread, in every order of walks, updates,
\* disconnections and reuse of addresses; it is a natural.
THEOREM ReferencesAreCounted == Spec => [](ReferencesCounted /\ TypeOK)
<1> DEFINE Counted == ReferencesCounted /\ refCount \in [Records -> Nat]
<1>1. Init => Counted
  <2> SUFFICES ASSUME Init PROVE Counted
    OBVIOUS
  <2>1. \A c \in Records : ~Allocated(c) /\ refCount[c] = 0 /\ output[c] = "ended"
    BY DEF Init, Allocated
  <2>2. refCount \in [Records -> Nat]
    BY DEF Init
  <2> QED
    BY <2>1, <2>2 DEF ReferencesCounted
<1>2. Typed /\ Control /\ Counted /\ [Next]_vars => Counted'
  <2> SUFFICES ASSUME Typed, Control, Counted, [Next]_vars PROVE Counted'
    OBVIOUS
  <2>1. CASE UNCHANGED vars
    <3>1. ReferencesCounted'
      BY <2>1 DEF ReferencesCounted, Holders, Held, Allocated, OwnReference, vars, walkVars
    <3> QED
      BY <2>1, <3>1 DEF vars
  <2> SUFFICES ASSUME Next PROVE Counted'
    BY <2>1
  <2>2. dangling = {}
    BY DEF Next
  <2>3. ASSUME UNCHANGED <<refCount, output>>, \A j \in Iterators : Held(j)' = Held(j),
               \A c \in Records : Allocated(c)' => Allocated(c),
               \A c \in Records : owner'[c] # "run" => owner[c] # "run" \/ output[c] = "ended"
        PROVE  Counted'
    BY <2>2, <2>3, CountsUnchanged
  <2>4. ASSUME NEW c \in Records, NewClient(c) PROVE Counted'
    <3>1. \A r \in Records : Holders(r)' = Holders(r)
      BY <2>4, HeldUnchanged DEF Holders, NewClient, walkVars
    <3>2. Holders(c) = {}
      BY <2>2, <2>4 DEF Control, Holders, NewClient
    <3>3. /\ refCount' = [refCount EXCEPT ![c] = 0]
          /\ owner'[c] = "run" /\ OwnReference(c)' = 0
      BY <2>4 DEF NewClient, Typed, OwnReference
    <3>4. /\ \A r \in Records : r # c /\ Allocated(r)' => Allocated(r)
          /\ \A r \in Records \ {c} : output'[r] = output[r] /\ owner'[r] = owner[r]
          /\ \A r \in Records \ {c} : OwnReference(r)' = OwnReference(r)
      BY <2>4 DEF Typed, Allocated, NewClient, OwnReference
    <3>5. Cardinality(Holders(c)') = 0
      BY <3>1, <3>2, FS_EmptySet
    <3>6. \A r \in Records : Allocated(r)' =>
            refCount'[r] = Cardinality(Holders(r)') + OwnReference(r)'
      BY <2>2, <3>1, <3>3, <3>4, <3>5 DEF ReferencesCounted
    <3>7. \A r \in Records : owner'[r] # "run" => output'[r] = "ended"
      BY <2>2, <3>3, <3>4 DEF ReferencesCounted
    <3> QED
      BY <3>3, <3>6, <3>7 DEF ReferencesCounted
  <2>5. ASSUME NEW c \in Records,
               CloseClient(c) \/ Unlink(c) \/ SeeUnreferenced(c) \/ FreeRecord(c)
        PROVE  Counted'
    <3>1. UNCHANGED <<refCount, output, it, itPc, leaving>>
      BY <2>5 DEF CloseClient, Unlink, SeeUnreferenced, FreeRecord, walkVars
    <3>2. \A r \in Records :
            /\ Allocated(r)' => Allocated(r)
            /\ owner'[r] # "run" => owner[r] # "run" \/ output[r] = "ended"
      BY <2>5 DEF Typed, Allocated, CloseClient, Unlink, SeeUnreferenced, FreeRecord
    <3> QED
      BY <2>3, <3>1, <3>2, HeldUnchanged
  <2>6. ASSUME NEW i \in Iterators, StartWalk(i) \/ EndWalk(i) \/ TestSocket(i)
                \/ SkipClosed(i) \/ Visit(i) \/ Advance(i)
        PROVE  Counted'
    <3>1. \A j \in Iterators : Held(j)' = Held(j)
      BY <2>6 DEF Typed, Held, StartWalk, EndWalk, TestSocket, SkipClosed, Visit, Advance
    <3>2. UNCHANGED <<refCount, output, owner>>
      BY <2>6 DEF StartWalk, EndWalk, TestSocket, SkipClosed, Visit, Advance
    <3> QED
      BY <2>3, <3>1, <3>2 DEF Allocated
  <2>7. ASSUME NEW i \in Iterators, TakeReference(i) PROVE Counted'
    <3>1. it[i] \in Records
      BY <2>7 DEF Typed, TakeReference
    <3>2. refCount' \in [Records -> Nat]
      BY <2>7, <3>1 DEF TakeReference
    <3> QED
      BY <2>2, <2>7, <3>2, CountAfterTake
  <2>8. ASSUME NEW i \in Iterators, DropReference(i) PROVE Counted'
    <3>1. leaving[i] \in Records /\ refCount[leaving[i]] > 0 /\ ReferencesCounted'
      BY <2>2, <2>8, CountAfterDrop DEF Typed, DropReference
    <3>2. refCount' \in [Records -> Nat]
      BY <2>8, <3>1 DEF DropReference, References
    <3> QED
      BY <3>1, <3>2
  <2>9. ASSUME NEW i \in Iterators, UseFreed(i) PROVE Counted'
    BY <2>9 DEF ReferencesCounted, UseFreed
  <2>10. ASSUME NEW c \in Records, Output(c) PROVE Counted'
    BY <2>2, <2>10, CountAfterOutput
  <2> QED
    BY <2>4, <2>5, <2>6, <2>7, <2>8, <2>9, <2>10 DEF Next, Owner, Walk
<1>3. Typed /\ Counted => TypeOK
  BY DEF Typed, TypeOK
<1> QED
  BY TypedHolds, ControlHolds, <1>1, <1>2, <1>3, PTL DEF Spec

\* A record whose reference was taken while it was linked is not freed before
\* that reference is dropped: the wait in rfbClientConnectionGone is enough for
\* every walk that got its reference in time.
THEOREM PinnedRecordsSurvive == Spec => []PinnedNotFreed
<1>1. Init => PinnedNotFreed
  BY DEF Init, PinnedNotFreed
<1>2. Typed /\ Control /\ ReferencesCounted /\ PinnedNotFreed /\ [Next]_vars
        => PinnedNotFreed'
  <2> SUFFICES ASSUME Typed, Control, ReferencesCounted, PinnedNotFreed, [Next]_vars
               PROVE  PinnedNotFreed'
    OBVIOUS
  <2>1. \A i \in pinned : i \in Iterators /\ Held(i) \in Records
    BY DEF Typed, Control, Held
  <2>2. ASSUME NEW c \in Records, NewClient(c) \/ CloseClient(c) \/ Unlink(c)
        PROVE  PinnedNotFreed'
    <3>1. pinned' = pinned /\ \A i \in pinned : Held(i)' = Held(i)
      BY <2>1, <2>2, HeldUnchanged DEF NewClient, CloseClient, Unlink, walkVars
    <3>2. \A r \in Records : owner[r] \in {"run", "drain"} => owner'[r] \in {"run", "drain"}
      BY <2>2 DEF Typed, Allocated, NewClient, CloseClient, Unlink
    <3> QED
      BY <2>1, <3>1, <3>2 DEF PinnedNotFreed
  <2>3. ASSUME NEW c \in Records, Next, SeeUnreferenced(c) PROVE PinnedNotFreed'
    <3>1. dangling = {} /\ Allocated(c)
      BY <2>3 DEF Next, SeeUnreferenced, Allocated
    <3>2. refCount[c] = Cardinality(Holders(c)) /\ refCount[c] <= 0
      BY <2>3, <3>1, HoldersFinite
         DEF ReferencesCounted, SeeUnreferenced, Unreferenced, OwnReference
    <3>3. Holders(c) = {}
      BY <3>2, HoldersFinite, FS_EmptySet
    <3>4. \A i \in pinned : Held(i) # c
      BY <2>1, <3>3 DEF Holders
    <3>5. pinned' = pinned /\ \A i \in pinned : Held(i)' = Held(i)
      BY <2>1, <2>3, HeldUnchanged DEF SeeUnreferenced, walkVars
    <3>6. \A r \in Records : r # c => owner'[r] = owner[r]
      BY <2>3 DEF Typed, SeeUnreferenced
    <3> QED
      BY <2>1, <3>4, <3>5, <3>6 DEF PinnedNotFreed
  <2>4. ASSUME NEW c \in Records, FreeRecord(c) PROVE PinnedNotFreed'
    <3>1. \A i \in pinned : Held(i) # c
      BY <2>4 DEF PinnedNotFreed, FreeRecord
    <3>2. pinned' = pinned /\ \A i \in pinned : Held(i)' = Held(i)
      BY <2>1, <2>4, HeldUnchanged DEF FreeRecord, walkVars
    <3>3. \A r \in Records : r # c => owner'[r] = owner[r]
      BY <2>4 DEF Typed, FreeRecord
    <3> QED
      BY <2>1, <3>1, <3>2, <3>3 DEF PinnedNotFreed
  <2>5. ASSUME NEW i \in Iterators, StartWalk(i) \/ EndWalk(i) \/ TestSocket(i)
                \/ SkipClosed(i) \/ Visit(i) \/ Advance(i) \/ UseFreed(i)
        PROVE  PinnedNotFreed'
    <3>1. pinned' = pinned /\ owner' = owner
      BY <2>5 DEF StartWalk, EndWalk, TestSocket, SkipClosed, Visit, Advance,
           UseFreed, walkVars
    <3>2. \A j \in Iterators : Held(j)' = Held(j)
      BY <2>5 DEF Typed, Held, StartWalk, EndWalk, TestSocket, SkipClosed, Visit,
           Advance, UseFreed, walkVars
    <3> QED
      BY <2>1, <3>1, <3>2 DEF PinnedNotFreed
  <2>6. ASSUME NEW i \in Iterators, TakeReference(i) PROVE PinnedNotFreed'
    <3>1. Held(i)' = it[i] /\ \A j \in Iterators : j # i => Held(j)' = Held(j)
      BY <2>6 DEF Typed, Held, TakeReference
    <3>2. i \notin pinned
      BY <2>6 DEF Control, TakeReference
    <3> QED
      BY <2>1, <2>6, <3>1, <3>2 DEF PinnedNotFreed, TakeReference, Linked
  <2>7. ASSUME NEW i \in Iterators, DropReference(i) PROVE PinnedNotFreed'
    <3>1. \A j \in Iterators : j # i => Held(j)' = Held(j)
      BY <2>7 DEF Typed, Held, DropReference
    <3> QED
      BY <2>1, <2>7, <3>1 DEF PinnedNotFreed, DropReference
  <2>9. ASSUME NEW c \in Records, Output(c) PROVE PinnedNotFreed'
    BY <2>1, <2>9, HeldUnchanged DEF PinnedNotFreed, walkVars, Output, OutputTest,
       OutputWaits, OutputTakes, OutputDrops
  <2>8. CASE UNCHANGED vars
    BY <2>1, <2>8, HeldUnchanged DEF PinnedNotFreed, vars, walkVars
  <2> QED
    BY <2>2, <2>3, <2>4, <2>5, <2>6, <2>7, <2>8, <2>9 DEF Next, Owner, Walk
<1> QED
  BY TypedHolds, ControlHolds, ReferencesAreCounted, <1>1, <1>2, PTL DEF Spec

-----------------------------------------------------------------------------
(***************************************************************************)
(* A walk of the client list meets every client that stays.  The links     *)
(* alone do not say which records a walk will come to without following    *)
(* them.  Age does: a link leads from a record to the youngest one that is *)
(* older and linked, and so it does once its record is unlinked, because   *)
(* new clients only come in front.  The age of a record is no variable of  *)
(* ClientList: the invariant says that there is a relation of records      *)
(* like that.                                                              *)
(***************************************************************************)

\* Record c is r, or older.
UpTo(o, c, r) == r # Null /\ (c = r \/ <<c, r>> \in o)

\* A link passes over no linked record, nor does the head of the list.
Dense(o) ==
  /\ \A p \in Records, c \in Linked :
       Allocated(p) /\ <<c, p>> \in o => UpTo(o, c, next[p])
  /\ \A c \in Linked : UpTo(o, c, head)

\* What a walk must still visit is connected, and ahead of it.
Ahead(o) ==
  \A i \in Iterators : \A c \in todo[i] :
    /\ c \in Linked /\ sock[c] = "open"
    /\ UpTo(o, c, it[i])
    /\ itPc[i] \in {"skip", "next"} => c # it[i]

Ages == SUBSET (Records \X Records)

Aged == \E o \in Ages : Dense(o) /\ Ahead(o)

LEMMA InitAged == Init => Aged
<1> SUFFICES ASSUME Init PROVE Dense({}) /\ Ahead({})
  BY DEF Aged, Ages
<1>1. Linked = {} /\ \A i \in Iterators : todo[i] = {}
  BY DEF Init, Linked
<1> QED
  BY <1>1 DEF Dense, Ahead

\* A new client is younger than all others.
LEMMA AgedNewClient ==
  ASSUME Typed, ListIntact, Aged, NEW c \in Records, NewClient(c)
  PROVE  Aged'
<1>1. PICK o \in Ages : Dense(o) /\ Ahead(o)
  BY DEF Aged
<1> DEFINE o2 == {e \in Records \X Records :
                    e[1] # c /\ (e[2] = c \/ e \in o)}
<1>2. o2 \in Ages
  BY DEF Ages
<1>3. \A x, y \in Records : <<x, y>> \in o2 <=> x # c /\ (y = c \/ <<x, y>> \in o)
  OBVIOUS
<1> HIDE DEF o2
<1>4. /\ c \notin Linked /\ Linked' = Linked \cup {c} /\ ~Allocated(c)
      /\ \A p \in Records \ {c} : Allocated(p)' => Allocated(p)
      /\ next'[c] = head /\ head' = c
      /\ \A p \in Records \ {c} : next'[p] = next[p]
      /\ UNCHANGED <<it, itPc, todo>>
      /\ \A r \in Records \ {c} : sock'[r] = sock[r]
  BY DEF NewClient, Typed, Linked, Allocated, walkVars
<1>5. ASSUME NEW x \in Records \ {c}, NEW r \in Records \cup {Null}, UpTo(o, x, r)
      PROVE  UpTo(o2, x, r)
  BY <1>3, <1>5 DEF UpTo
<1>6. \A x \in Linked' : UpTo(o2, x, head')
  BY <1>3, <1>4 DEF UpTo, Linked
<1>7. ASSUME NEW p \in Records, NEW x \in Linked', Allocated(p)', <<x, p>> \in o2
      PROVE  UpTo(o2, x, next'[p])
  <2>1. x \in Records \ {c} /\ x \in Linked
    BY <1>3, <1>4, <1>7 DEF Linked
  <2>2. head \in Records \cup {Null} /\ next[p] \in Records \cup {Null}
    BY DEF Typed
  <2>3. CASE p = c
    BY <1>1, <1>4, <1>5, <2>1, <2>2, <2>3 DEF Dense
  <2>4. CASE p # c
    <3>1. Allocated(p) /\ <<x, p>> \in o
      BY <1>3, <1>4, <1>7, <2>1, <2>4
    <3> QED
      BY <1>1, <1>4, <1>5, <2>1, <2>2, <2>4, <3>1 DEF Dense
  <2> QED
    BY <2>3, <2>4
<1>8. Ahead(o2)'
  <2> SUFFICES ASSUME NEW i \in Iterators, NEW x \in todo[i]
               PROVE  /\ x \in Linked' /\ sock'[x] = "open" /\ UpTo(o2, x, it[i])
                      /\ itPc[i] \in {"skip", "next"} => x # it[i]
    BY <1>4 DEF Ahead, UpTo
  <2>1. /\ x \in Linked /\ sock[x] = "open" /\ UpTo(o, x, it[i])
        /\ itPc[i] \in {"skip", "next"} => x # it[i]
    BY <1>1 DEF Ahead
  <2>2. x \in Records \ {c} /\ it[i] \in Records \cup {Null}
    BY <1>4, <2>1 DEF Linked, Typed
  <2> QED
    BY <1>4, <1>5, <2>1, <2>2
<1>9. Dense(o2)'
  BY <1>6, <1>7 DEF Dense, UpTo
<1> QED
  BY <1>2, <1>8, <1>9 DEF Aged

\* Whoever pointed to an unlinked record points to what comes after it.
LEMMA AgedUnlink ==
  ASSUME Typed, ListIntact, Aged, NEW c \in Records, Unlink(c)
  PROVE  Aged'
<1>1. PICK o \in Ages : Dense(o) /\ Ahead(o)
  BY DEF Aged
<1>2. /\ c \in Linked /\ sock[c] = "closed" /\ Linked' = Linked \ {c} /\ Allocated(c)
      /\ \A p \in Records : Allocated(p)' <=> Allocated(p)
      /\ \A p \in Records : next'[p] = IF p = prev[c] THEN next[c] ELSE next[p]
      /\ head' = IF prev[c] = Null THEN next[c] ELSE head
      /\ UNCHANGED <<it, itPc, todo, sock>>
  BY DEF Unlink, Successor, Typed, Linked, Allocated, walkVars
<1>3. ASSUME NEW x \in Linked', UpTo(o, x, c)
      PROVE  UpTo(o, x, next[c])
  BY <1>1, <1>2, <1>3 DEF Dense, UpTo
<1>4. \A x \in Linked' : UpTo(o, x, head')
  <2>1. prev[c] = Null => head = c
    BY <1>2 DEF ListIntact
  <2> QED
    BY <1>1, <1>2, <1>3, <2>1 DEF Dense
<1>5. ASSUME NEW p \in Records, NEW x \in Linked', Allocated(p)', <<x, p>> \in o
      PROVE  UpTo(o, x, next'[p])
  <2>1. UpTo(o, x, next[p])
    BY <1>1, <1>2, <1>5 DEF Dense
  <2>2. CASE p = prev[c]
    <3>1. next[p] = c
      BY <1>2, <2>2 DEF ListIntact
    <3> QED
      BY <1>2, <1>3, <2>1, <2>2, <3>1
  <2> QED
    BY <1>2, <2>1, <2>2
<1>6. Dense(o)'
  BY <1>4, <1>5 DEF Dense, UpTo
<1>7. Ahead(o)'
  BY <1>1, <1>2 DEF Ahead, UpTo
<1> QED
  BY <1>6, <1>7 DEF Aged

\* Links, clients and what is allocated stay: only walks go on.
LEMMA DenseKept ==
  ASSUME NEW o, Dense(o), UNCHANGED <<next, head>>, Linked' = Linked,
         \A p \in Records : Allocated(p)' => Allocated(p)
  PROVE  Dense(o)'
BY DEF Dense, UpTo

\* Iterator i follows a link from a record it is done with.
LEMMA AgedFollow ==
  ASSUME Typed, Aged, NEW i \in Iterators, SkipClosed(i) \/ Advance(i)
  PROVE  Aged'
<1>1. PICK o \in Ages : Dense(o) /\ Ahead(o)
  BY DEF Aged
<1>2. /\ itPc[i] \in {"skip", "next"} /\ Allocated(it[i]) /\ it[i] \in Records
      /\ it'[i] = next[it[i]] /\ itPc'[i] \in {"test", "unref"}
      /\ \A j \in Iterators \ {i} : it'[j] = it[j] /\ itPc'[j] = itPc[j]
      /\ UNCHANGED <<listVars, sock, owner, todo>>
  BY DEF SkipClosed, Advance, Typed
<1>3. Linked' = Linked /\ \A p : Allocated(p)' <=> Allocated(p)
  BY <1>2 DEF Linked, Allocated
<1>4. Dense(o)'
  BY <1>1, <1>2, <1>3, DenseKept DEF listVars
<1>5. \A c \in todo[i] : UpTo(o, c, next[it[i]])
  BY <1>1, <1>2 DEF Ahead, Dense, UpTo
<1>6. Ahead(o)'
  BY <1>1, <1>2, <1>3, <1>5 DEF Ahead, UpTo
<1> QED
  BY <1>4, <1>6 DEF Aged

\* The other steps of a walk.
LEMMA AgedWalk ==
  ASSUME Typed, Aged, NEW i \in Iterators,
         StartWalk(i) \/ (Walk(i) /\ ~SkipClosed(i) /\ ~Advance(i))
  PROVE  Aged'
<1>1. PICK o \in Ages : Dense(o) /\ Ahead(o)
  BY DEF Aged
<1>2. UNCHANGED <<listVars, sock, owner>>
  BY DEF StartWalk, Walk, EndWalk, TestSocket, SkipClosed, TakeReference, Visit, Advance,
     DropReference, UseFreed
<1>3. Linked' = Linked /\ \A p : Allocated(p)' <=> Allocated(p)
  BY <1>2 DEF Linked, Allocated
<1>4. Dense(o)'
  BY <1>1, <1>2, <1>3, DenseKept DEF listVars
<1>5. \A j \in Iterators \ {i} : it'[j] = it[j] /\ itPc'[j] = itPc[j] /\ todo'[j] = todo[j]
  BY DEF Typed, StartWalk, Walk, EndWalk, TestSocket, TakeReference, Visit, DropReference,
     UseFreed, walkVars
<1>6. ASSUME NEW c \in todo'[i]
      PROVE  /\ c \in Linked /\ sock[c] = "open" /\ UpTo(o, c, it'[i])
             /\ itPc'[i] \in {"skip", "next"} => c # it'[i]
  <2>1. CASE StartWalk(i)
    <3>1. it'[i] = head /\ itPc'[i] = "test" /\ todo'[i] = {r \in Linked : sock[r] = "open"}
      BY <2>1 DEF StartWalk, Typed
    <3> QED
      BY <1>1, <1>6, <3>1 DEF Dense
  <2>2. CASE EndWalk(i)
    BY <1>6, <2>2 DEF EndWalk, Typed
  <2>3. CASE TestSocket(i)
    BY <1>1, <1>6, <2>3 DEF TestSocket, Typed, Ahead
  <2>4. CASE Visit(i)
    BY <1>1, <1>6, <2>4 DEF Visit, Typed, Ahead
  <2>5. CASE TakeReference(i) \/ DropReference(i) \/ UseFreed(i)
    <3>1. it'[i] = it[i] /\ todo'[i] = todo[i] /\ itPc'[i] \in {"body", "test", itPc[i]}
      BY <2>5 DEF TakeReference, DropReference, UseFreed, Typed, walkVars
    <3> QED
      BY <1>1, <1>6, <3>1 DEF Ahead
  <2> QED
    BY <2>1, <2>2, <2>3, <2>4, <2>5 DEF Walk
<1>7. Ahead(o)'
  BY <1>1, <1>2, <1>3, <1>5, <1>6 DEF Ahead, UpTo
<1> QED
  BY <1>4, <1>7 DEF Aged

\* A client closes, or its record is freed.
LEMMA AgedOwner ==
  ASSUME Typed, Aged, NEW c \in Records, CloseClient(c) \/ SeeUnreferenced(c) \/ FreeRecord(c)
  PROVE  Aged'
<1>1. PICK o \in Ages : Dense(o) /\ Ahead(o)
  BY DEF Aged
<1>2. /\ UNCHANGED <<listVars, it, itPc>>
      /\ \A r \in Records : owner'[r] = "run" <=> owner[r] = "run"
      /\ \A r \in Records : Allocated(r)' => Allocated(r)
      /\ \A i \in Iterators : todo'[i] \subseteq todo[i]
      /\ \A i \in Iterators : \A r \in todo'[i] : sock'[r] = sock[r]
  BY DEF Typed, CloseClient, SeeUnreferenced, FreeRecord, Allocated, walkVars
<1>3. Linked' = Linked
  BY <1>2 DEF Linked
<1>4. Dense(o)'
  BY <1>1, <1>2, <1>3, DenseKept DEF listVars
<1>5. Ahead(o)'
  BY <1>1, <1>2, <1>3 DEF Ahead, UpTo
<1> QED
  BY <1>4, <1>5 DEF Aged

\* Every step keeps the ages: those of output threads have no part in them.
LEMMA StepAged ==
  ASSUME Typed, ListIntact, Aged, [Next]_vars
  PROVE  Aged'
<1>1. CASE UNCHANGED vars \/ \E c \in Records : Output(c)
  <2>1. PICK o \in Ages : Dense(o) /\ Ahead(o)
    BY DEF Aged
  <2>2. /\ UNCHANGED <<listVars, it, itPc, todo, sock>> /\ Linked' = Linked
        /\ \A r \in Records : Allocated(r)' => Allocated(r)
    BY <1>1 DEF vars, walkVars, Linked, Allocated, Output, OutputTest, OutputWaits,
       OutputTakes, OutputDrops
  <2>3. Dense(o)'
    BY <2>1, <2>2, DenseKept DEF listVars
  <2>4. Ahead(o)'
    BY <2>1, <2>2 DEF Ahead, UpTo
  <2> QED
    BY <2>3, <2>4 DEF Aged
<1> QED
  BY <1>1, AgedNewClient, AgedUnlink, AgedFollow, AgedWalk, AgedOwner DEF Next, Owner

\* A walk that ends has visited every client that was connected when it began and still
\* is, however many others were linked, unlinked and freed under it, and whatever the
\* unlinked ones it stood on pointed to (rfbClientIteratorNext, rfbserver.c:213-236).
THEOREM WalksAreComplete == Spec => []WalkComplete
<1>1. Aged => WalkComplete
  BY DEF Aged, Ahead, UpTo, WalkComplete
<1>2. Typed /\ ListIntact /\ Aged /\ [Next]_vars => Aged'
  BY StepAged
<1> QED
  BY <1>1, <1>2, InitAged, TypedHolds, ListStaysIntact, PTL DEF Spec

\* Everything in the list has its type: a reference count is never negative
\* (rfbDecrClientRef, rfbserver.c:142).
THEOREM TypeCorrect == Spec => []TypeOK
BY ReferencesAreCounted, PTL
=============================================================================
