-------------------------- MODULE RotationWatcher --------------------------
(***************************************************************************)
(* check_rotation_change of rotation_watcher.cpp and the pipe it reads.    *)
(*                                                                         *)
(* The watcher is a process of its own (external): it prints a rotation in *)
(* degrees and a newline, which may reach the pipe in pieces, and it may   *)
(* die.  The server's end does not block.  A call of check_rotation_change *)
(* is one step for every fgets, between which the watcher writes.          *)
(***************************************************************************)
EXTENDS Integers, Sequences, SequencesExt

CONSTANTS
  Rotations,   \* degrees the watcher reports
  BufferSize,  \* characters fgets may leave in rotateBuffer
  MaxReports   \* bound: rotations reported in a behaviour

ASSUME RotationsAssumption == Rotations \subseteq 0 .. 999
ASSUME BufferAssumption == BufferSize \in Nat \ {0}
ASSUME ReportsAssumption == MaxReports \in Nat

VARIABLES
  alive,           \* the watcher runs
  nreports,        \* rotations it has begun to print
  unsent,          \* characters it has not written yet
  pipe,            \* characters written and not read
  rotateBuffer,    \* the line read so far, kept between calls
  changed,         \* of the call that runs
  screenRotation

watcherVars == <<alive, nreports, unsent, pipe>>

\* Characters: digits and the end of a line.
NewLine == 10
Characters == 0 .. 10

Digits(n) ==
  IF n < 10 THEN <<n>>
  ELSE IF n < 100 THEN <<n \div 10, n % 10>>
  ELSE <<n \div 100, (n \div 10) % 10, n % 10>>

Atoi(digits) ==
  LET n[i \in 0 .. Len(digits)] == IF i = 0 THEN 0 ELSE 10 * n[i - 1] + digits[i]
  IN n[Len(digits)]

\* screenRotation is zero until the first report is read.
WatcherInit ==
  /\ alive = TRUE /\ nreports = 0
  /\ unsent = <<>> /\ pipe = <<>> /\ rotateBuffer = <<>>
  /\ changed = FALSE /\ screenRotation = 0

-----------------------------------------------------------------------------
(* The watcher.                                                            *)

PrintRotation ==
  /\ alive /\ unsent = <<>> /\ nreports < MaxReports
  /\ \E r \in Rotations : unsent' = Append(Digits(r), NewLine)
  /\ nreports' = nreports + 1
  /\ UNCHANGED <<alive, pipe, rotateBuffer, changed, screenRotation>>

WritePipe ==
  /\ alive
  /\ \E n \in 1 .. Len(unsent) :
       /\ pipe' = pipe \o SubSeq(unsent, 1, n)
       /\ unsent' = SubSeq(unsent, n + 1, Len(unsent))
  /\ UNCHANGED <<alive, nreports, rotateBuffer, changed, screenRotation>>

WatcherDies ==
  /\ alive
  /\ alive' = FALSE /\ unsent' = <<>>
  /\ UNCHANGED <<nreports, pipe, rotateBuffer, changed, screenRotation>>

-----------------------------------------------------------------------------
(* check_rotation_change.                                                  *)

\* The characters fgets takes: up to a newline, as far as there is room.
LineEnd == SelectInSeq(pipe, LAMBDA c : c = NewLine)

Taken ==
  LET room == BufferSize - Len(rotateBuffer)
      line == IF LineEnd = 0 THEN Len(pipe) ELSE LineEnd
  IN IF line < room THEN line ELSE room

\* Mutant of Line: a call starts at the front of rotateBuffer.
FreshLine == SubSeq(pipe, 1, Taken)

\* rotateBuffer after fgets.
Line == rotateBuffer \o SubSeq(pipe, 1, Taken)

\* fgets returns a line that is not complete: the call ends.
ReadPart ==
  /\ pipe # <<>> /\ ~(Last(Line) = NewLine /\ Len(Line) > 1)
  /\ rotateBuffer' = Line
  /\ pipe' = SubSeq(pipe, Taken + 1, Len(pipe))
  /\ UNCHANGED <<alive, nreports, unsent, changed, screenRotation>>

\* Mutant of ReadLine: only the first line of a call counts.
ReadFirstLine ==
  /\ pipe # <<>> /\ Last(Line) = NewLine /\ Len(Line) > 1
  /\ rotateBuffer' = <<>>
  /\ pipe' = SubSeq(pipe, Taken + 1, Len(pipe))
  /\ changed' = TRUE
  /\ screenRotation' = IF changed THEN screenRotation ELSE Atoi(Front(Line))
  /\ UNCHANGED <<alive, nreports, unsent>>

\* It returns a line's end: the line is the rotation, and the loop goes on.
ReadLine ==
  /\ pipe # <<>> /\ Last(Line) = NewLine /\ Len(Line) > 1
  /\ rotateBuffer' = <<>>
  /\ pipe' = SubSeq(pipe, Taken + 1, Len(pipe))
  /\ IF Atoi(Front(Line)) <= 360
     THEN screenRotation' = Atoi(Front(Line)) /\ changed' = TRUE
     ELSE UNCHANGED <<screenRotation, changed>>
  /\ UNCHANGED <<alive, nreports, unsent>>

\* It returns NULL.  At the end of the file errno is what an earlier call left:
\* the call may return as if nothing had come.
NothingToRead == pipe = <<>>

\* Or it is taken as a failure.
ReadFails == pipe = <<>> /\ ~alive

-----------------------------------------------------------------------------
(* The reports in a sequence of characters, complete lines only.           *)

Complete(chars) ==
  LET read[i \in 0 .. Len(chars)] ==
        IF i = 0 THEN [lines |-> <<>>, rest |-> <<>>]
        ELSE IF chars[i] = NewLine
        THEN [lines |-> Append(read[i - 1].lines, Atoi(read[i - 1].rest)), rest |-> <<>>]
        ELSE [read[i - 1] EXCEPT !.rest = Append(@, chars[i])]
  IN read[Len(chars)].lines

Reports == INSTANCE RotationReports WITH
  reports <- Complete(rotateBuffer \o pipe), seen <- screenRotation

\* The reports that are complete are read in order, each once, however the
\* pipe cuts them up and whatever a call of check_rotation_change leaves.
ReportsSpec == Reports!Spec
=============================================================================
