------------------------------ MODULE ClientList ------------------------------
(***************************************************************************)
(* The client list of libvncserver's rfbserver.c: records linked and       *)
(* unlinked under rfbClientListMutex, walked by iterators that only count  *)
(* references, and freed by the thread that owns them.                     *)
(*                                                                         *)
(* One step is one critical section or one access to a record.  The        *)
(* iterators of the app are those of the capture loop (marking, scaling)   *)
(* and of the listener (which logs the other clients).  The output thread  *)
(* of a client counts a reference to its own record around every update it *)
(* sends.                                                                  *)
(***************************************************************************)
EXTENDS Integers, FiniteSets

CONSTANTS
  Records,     \* addresses of client records; freed ones are used again
  Iterators    \* threads that walk the list

Null == "null"
ASSUME NullAssumption == Null \notin Records
ASSUME IteratorsAssumption == IsFiniteSet(Iterators)

VARIABLES
  head, next, prev,  \* screen->clientHead and the links
  sock,              \* "open", or "closed" for -1
  refCount,
  owner,             \* the owning thread: see TypeOK; "none" when freed
  output,            \* where the output thread of the record stands
  it, itPc,          \* i->next, and where the walk stands
  leaving,           \* the record rfbClientIteratorNext moves off
  \* history
  todo,              \* records the walk must still visit
  pinned,            \* iterators that took their reference on a linked record
  dangling           \* iterators left with a freed record: undefined from here on

listVars == <<head, next, prev>>
walkVars == <<it, itPc, leaving, todo, pinned>>
vars == <<listVars, sock, refCount, owner, output, walkVars, dangling>>

Allocated(c) == owner[c] # "none"
Linked == {c \in Records : owner[c] = "run"}

Init ==
  /\ head = Null
  /\ next = [c \in Records |-> Null] /\ prev = [c \in Records |-> Null]
  /\ sock = [c \in Records |-> "closed"]
  /\ refCount = [c \in Records |-> 0]
  /\ owner = [c \in Records |-> "none"]
  /\ output = [c \in Records |-> "ended"]
  /\ it = [i \in Iterators |-> Null] /\ itPc = [i \in Iterators |-> "idle"]
  /\ leaving = [i \in Iterators |-> Null]
  /\ todo = [i \in Iterators |-> {}] /\ pinned = {}
  /\ dangling = {}

-----------------------------------------------------------------------------
(* The owner of a record: the listener until the client thread runs.       *)

\* rfbNewTCPOrUDPClient allocates a record and links it in front; its threads run.
NewClient(c) ==
  /\ ~Allocated(c)
  /\ owner' = [owner EXCEPT ![c] = "run"]
  /\ output' = [output EXCEPT ![c] = "loop"]
  /\ sock' = [sock EXCEPT ![c] = "open"]
  /\ refCount' = [refCount EXCEPT ![c] = 0]
  /\ next' = [next EXCEPT ![c] = head]
  /\ prev' = [r \in Records |-> IF r = c THEN Null ELSE IF r = head THEN c ELSE prev[r]]
  /\ head' = c
  /\ UNCHANGED <<walkVars, dangling>>

\* rfbCloseClient
CloseClient(c) ==
  /\ owner[c] = "run" /\ sock[c] = "open"
  /\ sock' = [sock EXCEPT ![c] = "closed"]
  /\ todo' = [i \in Iterators |-> todo[i] \ {c}]
  /\ UNCHANGED <<listVars, refCount, owner, output, it, itPc, leaving, pinned, dangling>>

\* Mutant of Successor: the record is unlinked and its link cleared first.
SuccessorCleared(c) == Null

\* What an unlinked record points to: the link is left as it was.
Successor(c) == next[c]

\* Mutant of PredecessorOf: cl->next->prev is not updated.
PredecessorKept(c, r) == prev[r]

\* prev of r once c is unlinked.
PredecessorOf(c, r) == IF r = next[c] THEN prev[c] ELSE prev[r]

\* clientInput has joined the output thread; rfbClientConnectionGone unlinks the
\* record under the list mutex.
Unlink(c) ==
  /\ owner[c] = "run" /\ sock[c] = "closed" /\ output[c] = "ended"
  /\ owner' = [owner EXCEPT ![c] = "drain"]
  /\ next' = [r \in Records |-> IF r = prev[c] THEN next[c]
                                ELSE IF r = c THEN Successor(c) ELSE next[r]]
  /\ head' = IF prev[c] = Null THEN next[c] ELSE head
  /\ prev' = [r \in Records |-> PredecessorOf(c, r)]
  /\ UNCHANGED <<sock, refCount, output, walkVars, dangling>>

\* Mutant of Unreferenced: rfbClientConnectionGone does not wait.
UnreferencedAssumed(c) == TRUE

\* refCount as read under refCountMutex; while positive, WAIT(deleteCond).
Unreferenced(c) == refCount[c] <= 0

SeeUnreferenced(c) ==
  /\ owner[c] = "drain" /\ Unreferenced(c)
  /\ owner' = [owner EXCEPT ![c] = "free"]
  /\ UNCHANGED <<listVars, sock, refCount, output, walkVars, dangling>>

\* free(cl); an iterator that still points to it will use it next.
FreeRecord(c) ==
  /\ owner[c] = "free"
  /\ owner' = [owner EXCEPT ![c] = "none"]
  /\ dangling' = {i \in Iterators : it[i] = c \/ leaving[i] = c}
  /\ UNCHANGED <<listVars, sock, refCount, output, walkVars>>

-----------------------------------------------------------------------------
(* References, and those of clientOutput.                                  *)

\* Mutant of References: the reference is given back twice.
ReferencesTwice(c) == refCount[c] - 2

\* Mutant of References: rfbDecrClientRef is forgotten.
ReferencesKept(c) == refCount[c]

\* refCount once a reference is given back.
References(c) == refCount[c] - 1

\* cl->sock is tested without a lock: the thread ends, or goes on to an update.
OutputTest(c) ==
  /\ output[c] = "loop"
  /\ output' = [output EXCEPT ![c] = IF sock[c] = "closed" THEN "ended" ELSE "ready"]
  /\ UNCHANGED <<listVars, sock, refCount, owner, walkVars, dangling>>

\* It waited, or slept, instead of sending.
OutputWaits(c) ==
  /\ output[c] = "ready"
  /\ output' = [output EXCEPT ![c] = "loop"]
  /\ UNCHANGED <<listVars, sock, refCount, owner, walkVars, dangling>>

\* rfbIncrClientRef(cl) before rfbSendFramebufferUpdate, though the socket may be
\* closed by now
OutputTakes(c) ==
  /\ output[c] = "ready"
  /\ refCount' = [refCount EXCEPT ![c] = @ + 1]
  /\ output' = [output EXCEPT ![c] = "send"]
  /\ UNCHANGED <<listVars, sock, owner, walkVars, dangling>>

\* rfbDecrClientRef(cl) after it
OutputDrops(c) ==
  /\ output[c] = "send"
  /\ refCount' = [refCount EXCEPT ![c] = References(c)]
  /\ output' = [output EXCEPT ![c] = "loop"]
  /\ UNCHANGED <<listVars, sock, owner, walkVars, dangling>>

-----------------------------------------------------------------------------
(* A walk: rfbGetClientIterator and calls of rfbClientIteratorNext.        *)

\* i->next = clientHead, under the list mutex.
StartWalk(i) ==
  /\ itPc[i] = "idle"
  /\ it' = [it EXCEPT ![i] = head]
  /\ itPc' = [itPc EXCEPT ![i] = "test"]
  /\ todo' = [todo EXCEPT ![i] = {c \in Linked : sock[c] = "open"}]
  /\ UNCHANGED <<listVars, sock, refCount, owner, output, leaving, pinned, dangling>>

\* The walk is over.
EndWalk(i) ==
  /\ itPc[i] = "test" /\ it[i] = Null
  /\ itPc' = [itPc EXCEPT ![i] = "idle"]
  /\ todo' = [todo EXCEPT ![i] = {}]
  /\ UNCHANGED <<listVars, sock, refCount, owner, output, it, leaving, pinned, dangling>>

\* The record iterator i reads or writes next.
InUse(i) == IF itPc[i] = "unref" THEN leaving[i] ELSE it[i]

\* What InUse(i) points to was freed before i got there.
UseFreed(i) ==
  /\ itPc[i] # "idle" /\ InUse(i) # Null /\ ~Allocated(InUse(i))
  /\ dangling' = {i}
  /\ UNCHANGED <<listVars, sock, refCount, owner, output, walkVars>>

\* i->next->sock < 0, without a lock
TestSocket(i) ==
  /\ itPc[i] = "test" /\ it[i] # Null /\ Allocated(it[i])
  /\ itPc' = [itPc EXCEPT ![i] = IF sock[it[i]] = "closed" THEN "skip" ELSE "ref"]
  /\ UNCHANGED <<listVars, sock, refCount, owner, output, it, leaving, todo, pinned, dangling>>

\* i->next = i->next->next, without a lock
SkipClosed(i) ==
  /\ itPc[i] = "skip" /\ Allocated(it[i])
  /\ it' = [it EXCEPT ![i] = next[it[i]]]
  /\ itPc' = [itPc EXCEPT ![i] = "test"]
  /\ UNCHANGED <<listVars, sock, refCount, owner, output, leaving, todo, pinned, dangling>>

\* rfbIncrClientRef(i->next)
TakeReference(i) ==
  /\ itPc[i] = "ref" /\ Allocated(it[i])
  /\ refCount' = [refCount EXCEPT ![it[i]] = @ + 1]
  /\ pinned' = IF it[i] \in Linked THEN pinned \cup {i} ELSE pinned
  /\ itPc' = [itPc EXCEPT ![i] = "body"]
  /\ UNCHANGED <<listVars, sock, owner, output, it, leaving, todo, dangling>>

\* The body of the caller's loop.
Visit(i) ==
  /\ itPc[i] = "body" /\ Allocated(it[i])
  /\ todo' = [todo EXCEPT ![i] = @ \ {it[i]}]
  /\ itPc' = [itPc EXCEPT ![i] = "next"]
  /\ UNCHANGED <<listVars, sock, refCount, owner, output, it, leaving, pinned, dangling>>

\* cl = i->next; i->next = i->next->next, without a lock
Advance(i) ==
  /\ itPc[i] = "next" /\ Allocated(it[i])
  /\ leaving' = [leaving EXCEPT ![i] = it[i]]
  /\ it' = [it EXCEPT ![i] = next[it[i]]]
  /\ itPc' = [itPc EXCEPT ![i] = "unref"]
  /\ UNCHANGED <<listVars, sock, refCount, owner, output, todo, pinned, dangling>>

\* rfbDecrClientRef(cl)
DropReference(i) ==
  /\ itPc[i] = "unref" /\ Allocated(leaving[i])
  /\ refCount' = [refCount EXCEPT ![leaving[i]] = References(leaving[i])]
  /\ leaving' = [leaving EXCEPT ![i] = Null]
  /\ pinned' = pinned \ {i}
  /\ itPc' = [itPc EXCEPT ![i] = "test"]
  /\ UNCHANGED <<listVars, sock, owner, output, it, todo, dangling>>

-----------------------------------------------------------------------------
Owner(c) == Unlink(c) \/ SeeUnreferenced(c) \/ FreeRecord(c)

Output(c) == OutputTest(c) \/ OutputWaits(c) \/ OutputTakes(c) \/ OutputDrops(c)

Walk(i) ==
  \/ EndWalk(i) \/ TestSocket(i) \/ SkipClosed(i) \/ TakeReference(i)
  \/ Visit(i) \/ Advance(i) \/ DropReference(i)
  \/ UseFreed(i)

\* Once a freed record was used the behaviour is undefined: the model stops.
Next ==
  /\ dangling = {}
  /\ \/ \E c \in Records : NewClient(c) \/ CloseClient(c) \/ Owner(c) \/ Output(c)
     \/ \E i \in Iterators : StartWalk(i) \/ Walk(i)

Spec == Init /\ [][Next]_vars

\* Threads run: owners finish their cleanup, walks that started go on.  Whether
\* the output thread ends is the question of ClientUpdate.
FairSpec ==
  /\ Spec
  /\ \A c \in Records : WF_vars(dangling = {} /\ Owner(c))
  /\ \A i \in Iterators : WF_vars(dangling = {} /\ Walk(i))

-----------------------------------------------------------------------------
(* Properties.                                                             *)

TypeOK ==
  /\ head \in Records \cup {Null}
  /\ next \in [Records -> Records \cup {Null}]
  /\ prev \in [Records -> Records \cup {Null}]
  /\ sock \in [Records -> {"open", "closed"}]
  /\ refCount \in [Records -> Nat]
  /\ owner \in [Records -> {"none", "run", "drain", "free"}]
  /\ output \in [Records -> {"loop", "ready", "send", "ended"}]
  /\ it \in [Iterators -> Records \cup {Null}]
  /\ itPc \in [Iterators -> {"idle", "test", "skip", "ref", "body", "next", "unref"}]
  /\ leaving \in [Iterators -> Records \cup {Null}]
  /\ todo \in [Iterators -> SUBSET Records]
  /\ pinned \subseteq Iterators
  /\ dangling \subseteq Iterators

\* The links of the list agree in both directions and never lead to a record
\* that is freed or being cleaned up, though unlinked records keep their links.
ListIntact ==
  /\ head # Null => head \in Linked
  /\ \A c \in Linked :
       /\ next[c] # Null => next[c] \in Linked /\ prev[next[c]] = c
       /\ prev[c] # Null => prev[c] \in Linked /\ next[prev[c]] = c
       /\ prev[c] = Null <=> head = c

\* The record an iterator holds a counted reference to.
Held(i) ==
  CASE itPc[i] \in {"body", "next"} -> it[i]
    [] itPc[i] = "unref" -> leaving[i]
    [] OTHER -> Null

Holders(c) == {i \in Iterators : Held(i) = c}

\* The reference of the record's own output thread.
OwnReference(c) == IF output[c] = "send" THEN 1 ELSE 0

\* refCount counts the iterators that hold the record and its own output thread
\* while that sends, no more and no fewer, whatever order they come and go in; the
\* output thread holds none once the record is unlinked.
ReferencesCounted ==
  dangling = {} => \A c \in Records :
    /\ Allocated(c) => refCount[c] = Cardinality(Holders(c)) + OwnReference(c)
    /\ owner[c] # "run" => output[c] = "ended"

\* A record referenced before it was unlinked is not freed until the reference
\* is dropped: what refCount does guarantee.
PinnedNotFreed ==
  \A i \in pinned : owner[Held(i)] \in {"run", "drain"}

\* A walk that ends has visited every client that was connected when it began
\* and still is, however many others came, went or were unlinked under it: no
\* client misses a mark or a resize.
WalkComplete ==
  \A i \in Iterators : itPc[i] = "test" /\ it[i] = Null => todo[i] = {}

\* A client that is gone is eventually freed: walks do not hold it forever.
EventuallyFreed ==
  \A c \in Records : owner[c] = "drain" ~> owner[c] = "none" \/ dangling # {}

\* "the refCount has to be incremented ... so that the client is not cleaned up
\* while being referenced" (rfb.h): no iterator is left with a freed record.
NotFreedWhileReferenced == dangling = {}
=============================================================================
