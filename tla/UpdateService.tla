--------------------------- MODULE UpdateService ----------------------------
(***************************************************************************)
(* What the update cycle promises a viewer, without threads, locks or      *)
(* regions waiting to be sent: pixels travel only inside an answer, there  *)
(* is no answer without an open request, an answer with pixels holds some  *)
(* that were asked for, it spends the whole request, and one answer ends   *)
(* before the next begins.                                                 *)
(***************************************************************************)
CONSTANTS Clients, Tiles

VARIABLES
  behind,    \* tiles of which the viewer lacks the latest pixels
  asked,     \* tiles the viewer has asked for
  sending    \* tiles of the answer still to be sent

vars == <<behind, asked, sending>>

Init ==
  /\ behind = [c \in Clients |-> Tiles]
  /\ asked = [c \in Clients |-> {}]
  /\ sending = [c \in Clients |-> {}]

\* The screen changes, for some viewers more than for others.
Redraw ==
  /\ behind' \in [Clients -> SUBSET Tiles]
  /\ \A c \in Clients : behind[c] \subseteq behind'[c]
  /\ UNCHANGED <<asked, sending>>

Ask(c) ==
  /\ \E region \in SUBSET Tiles : asked' = [asked EXCEPT ![c] = @ \cup region]
  /\ UNCHANGED <<behind, sending>>

Answer(c) ==
  /\ sending[c] = {} /\ asked[c] # {}
  /\ \E region \in SUBSET Tiles :
       /\ region = {} \/ region \cap asked[c] # {}
       /\ sending' = [sending EXCEPT ![c] = region]
  /\ asked' = [asked EXCEPT ![c] = {}]
  /\ UNCHANGED behind

Deliver(c) ==
  /\ \E t \in sending[c] :
       /\ sending' = [sending EXCEPT ![c] = @ \ {t}]
       /\ behind' = [behind EXCEPT ![c] = @ \ {t}]
  /\ UNCHANGED asked

\* The connection breaks in the middle of an answer.
Abandon(c) ==
  /\ sending' = [sending EXCEPT ![c] = {}]
  /\ UNCHANGED <<behind, asked>>

\* The record is freed for the next viewer.
Forget(c) ==
  /\ sending[c] = {}
  /\ behind' = [behind EXCEPT ![c] = Tiles]
  /\ asked' = [asked EXCEPT ![c] = {}]
  /\ UNCHANGED sending

Next ==
  \/ Redraw
  \/ \E c \in Clients : Ask(c) \/ Answer(c) \/ Deliver(c) \/ Abandon(c) \/ Forget(c)

Spec == Init /\ [][Next]_vars
=============================================================================
