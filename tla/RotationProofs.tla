--------------------------- MODULE RotationProofs ---------------------------
(***************************************************************************)
(* Proofs about Rotation, for every panel, set of command lines, size of   *)
(* rotateBuffer and number of reports.                                     *)
(*                                                                         *)
(* Four parts: what the watcher's characters say and how fgets cuts them   *)
(* (Complete and Atoi); what main reads of a command line (the fold of     *)
(* Parse and the recursion of OptionAt); how updateScreen turns the panel; *)
(* and the inductive invariant RotationInv with the theorems.  A recursive *)
(* function is first shown to satisfy its recursion (AtoiSteps,            *)
(* CompleteReads, FoldIs, OptionPlaces, Captured), by OrientationProofs's  *)
(* RecursionUpTo and RecursionOnNat; induction then is InductionUpTo.      *)
(***************************************************************************)
EXTENDS Rotation, OrientationProofs, SequenceTheorems

(* Digits and reports.                                                     *)

\* The sequences of characters the watcher prints for a rotation.
LEMMA DigitsPrinted ==
  ASSUME NEW r \in 0 .. 999
  PROVE  /\ Digits(r) \in Seq(0 .. 9) /\ Digits(r) \in Seq(Characters)
         /\ Len(Digits(r)) \in 1 .. 3
<1>1. /\ r \div 100 \in 0 .. 9 /\ (r \div 10) % 10 \in 0 .. 9 /\ r % 10 \in 0 .. 9
      /\ r < 100 => r \div 10 \in 0 .. 9
  OBVIOUS
<1>2. Digits(r) \in Seq(0 .. 9) /\ Len(Digits(r)) \in 1 .. 3
  <2>1. CASE r < 10
    <3>1. Digits(r) = <<r>> /\ r \in 0 .. 9
      BY <2>1 DEF Digits
    <3> QED
      BY <3>1
  <2>2. CASE 10 <= r /\ r < 100
    <3>1. Digits(r) = <<r \div 10, r % 10>>
      BY <2>2 DEF Digits
    <3> QED
      BY <1>1, <2>2, <3>1
  <2>3. CASE 100 <= r
    <3>1. Digits(r) = <<r \div 100, (r \div 10) % 10, r % 10>>
      BY <2>3 DEF Digits
    <3> QED
      BY <1>1, <3>1
  <2> QED
    BY <2>1, <2>2, <2>3
<1>3. Digits(r) \in Seq(Characters)
  <2>1. 0 .. 9 \subseteq Characters
    BY DEF Characters
  <2> QED
    BY <1>2, <2>1, SeqMonotonic
<1> QED
  BY <1>2, <1>3

\* atoi satisfies its recursion.
LEMMA AtoiSteps ==
  ASSUME NEW digits \in Seq(Nat)
  PROVE  \E n \in [0 .. Len(digits) -> Nat] :
           /\ n[0] = 0
           /\ \A i \in 1 .. Len(digits) : n[i] = 10 * n[i - 1] + digits[i]
           /\ Atoi(digits) = n[Len(digits)]
<1> DEFINE len == Len(digits)
           step == [q \in Nat \X Nat |-> 10 * q[2] + IF q[1] \in 1 .. len THEN digits[q[1]] ELSE 0]
           IsValue(n) == n = [i \in 0 .. len |-> IF i = 0 THEN 0 ELSE 10 * n[i - 1] + digits[i]]
           value == CHOOSE n : IsValue(n)
<1>1. len \in Nat /\ \A i \in 1 .. len : digits[i] \in Nat
  OBVIOUS
<1>2. step \in [Nat \X Nat -> Nat]
  <2> SUFFICES ASSUME NEW q \in Nat \X Nat
               PROVE  10 * q[2] + (IF q[1] \in 1 .. len THEN digits[q[1]] ELSE 0) \in Nat
    OBVIOUS
  <2> QED
    BY <1>1
<1>3. \A i \in 1 .. len, v \in Nat : step[<<i, v>>] = 10 * v + digits[i]
  BY <1>1
<1>4. Atoi(digits) = value[len]
  BY DEF Atoi
<1> HIDE DEF len, step, value
<1>5. PICK f : Recursive(f, len, Nat, 0, step)
  BY <1>1, <1>2, RecursionUpTo, Zenon
<1>6. IsValue(f)
  <2>1. ASSUME NEW i \in 0 .. len
        PROVE  f[i] = IF i = 0 THEN 0 ELSE 10 * f[i - 1] + digits[i]
    <3>1. CASE i = 0
      BY <1>5, <3>1 DEF Recursive
    <3>2. CASE i # 0
      <4>1. i \in 1 .. len /\ f[i - 1] \in Nat
        BY <1>1, <1>5, <3>2 DEF Recursive
      <4> QED
        BY <1>3, <1>5, <3>2, <4>1 DEF Recursive
    <3> QED
      BY <3>1, <3>2
  <2> QED
    BY <1>5, <2>1 DEF Recursive
<1> HIDE DEF IsValue
<1>7. IsValue(value)
  BY <1>6 DEF value
<1>8. value = [i \in 0 .. len |-> IF i = 0 THEN 0 ELSE 10 * value[i - 1] + digits[i]]
  BY <1>7 DEF IsValue
<1>9. value[0] = 0
  BY <1>1, <1>8
<1>10. \A i \in 1 .. len : value[i] = 10 * value[i - 1] + digits[i]
  BY <1>1, <1>8
<1>11. value \in [0 .. len -> Nat]
  <2> DEFINE S == {i \in 0 .. len : value[i] \in Nat}
  <2>1. 0 \in S
    BY <1>1, <1>9
  <2>2. ASSUME NEW i \in 0 .. len, i \in S, i < len
        PROVE  i + 1 \in S
    <3>1. i + 1 \in 1 .. len /\ (i + 1) - 1 = i /\ i + 1 \in 0 .. len
      BY <1>1, <2>2
    <3>2. value[i + 1] = 10 * value[i] + digits[i + 1]
      BY <1>10, <3>1
    <3> QED
      BY <1>1, <2>2, <3>1, <3>2
  <2>3. 0 .. len \subseteq S
    BY <1>1, <2>1, <2>2, InductionUpTo
  <2> QED
    BY <1>8, <2>3
<1> QED
  BY <1>4, <1>9, <1>10, <1>11 DEF len

\* atoi returns a natural.
LEMMA AtoiNatural ==
  ASSUME NEW s \in Seq(Characters)
  PROVE  Atoi(s) \in Nat
<1>1. s \in Seq(Nat)
  <2>1. Characters \subseteq Nat
    BY DEF Characters
  <2> QED
    BY <2>1, SeqMonotonic
<1>2. PICK n \in [0 .. Len(s) -> Nat] : Atoi(s) = n[Len(s)]
  BY <1>1, AtoiSteps
<1>3. Len(s) \in 0 .. Len(s)
  OBVIOUS
<1> QED
  BY <1>2, <1>3

\* atoi reads the rotation that was printed.
LEMMA AtoiOfDigits ==
  ASSUME NEW r \in 0 .. 999
  PROVE  Atoi(Digits(r)) = r
<1>1. Digits(r) \in Seq(Nat)
  <2>1. 0 .. 9 \subseteq Nat
    OBVIOUS
  <2> QED
    BY <2>1, DigitsPrinted, SeqMonotonic
<1>2. PICK n \in [0 .. Len(Digits(r)) -> Nat] :
        /\ n[0] = 0
        /\ \A i \in 1 .. Len(Digits(r)) : n[i] = 10 * n[i - 1] + Digits(r)[i]
        /\ Atoi(Digits(r)) = n[Len(Digits(r))]
  BY <1>1, AtoiSteps
<1>3. CASE r < 10
  <2>1. Digits(r) = <<r>>
    BY <1>3 DEF Digits
  <2> QED
    BY <1>2, <2>1
<1>4. CASE 10 <= r /\ r < 100
  <2>1. Digits(r) = <<r \div 10, r % 10>> /\ r = 10 * (r \div 10) + (r % 10)
    BY <1>4 DEF Digits
  <2>2. n[1] = r \div 10 /\ n[2] = 10 * n[1] + (r % 10) /\ Atoi(Digits(r)) = n[2]
    BY <1>2, <2>1
  <2> QED
    BY <2>1, <2>2
<1>5. CASE 100 <= r
  <2>1. Digits(r) = <<r \div 100, (r \div 10) % 10, r % 10>>
    BY <1>5 DEF Digits
  <2>2. r = 100 * (r \div 100) + 10 * ((r \div 10) % 10) + (r % 10)
    OBVIOUS
  <2>3. /\ n[1] = r \div 100 /\ n[2] = 10 * n[1] + ((r \div 10) % 10)
        /\ n[3] = 10 * n[2] + (r % 10) /\ Atoi(Digits(r)) = n[3]
    BY <1>2, <2>1
  <2> QED
    BY <2>2, <2>3
<1> QED
  BY <1>3, <1>4, <1>5

-----------------------------------------------------------------------------
(* Characters that make reports.                                           *)

\* The end of a line at i follows the digits of a rotation, a whole line.
EndsReport(s, i, r) ==
  LET d == Len(Digits(r))
  IN /\ d < i
     /\ d + 1 = i \/ s[i - d - 1] = NewLine
     /\ \A j \in 1 .. d : s[i - d - 1 + j] = Digits(r)[j]

\* Every end of a line in s ends a report.
Reported(s) ==
  \A i \in 1 .. Len(s) : s[i] = NewLine => \E r \in Rotations : EndsReport(s, i, r)

\* A line, whose end is its last character.
OneLine(s) == s # <<>> /\ \A i \in 1 .. Len(s) : s[i] = NewLine <=> i = Len(s)

\* A rotation is printed in up to three digits, and read back by atoi.
LEMMA RotationDigits ==
  ASSUME NEW r \in Rotations
  PROVE  /\ r \in 0 .. 999 /\ Digits(r) \in Seq(Characters) /\ Len(Digits(r)) \in 1 .. 3
         /\ \A j \in 1 .. Len(Digits(r)) : Digits(r)[j] # NewLine
         /\ Atoi(Digits(r)) = r
<1>1. r \in 0 .. 999
  BY RotationsAssumption
<1>2. Digits(r) \in Seq(0 .. 9) /\ Digits(r) \in Seq(Characters) /\ Len(Digits(r)) \in 1 .. 3
  BY <1>1, DigitsPrinted
<1> QED
  <2>1. Atoi(Digits(r)) = r
    BY <1>1, AtoiOfDigits
  <2> QED
    BY <1>1, <1>2, <2>1 DEF NewLine

\* The front of what makes reports makes reports.
LEMMA ReportedPart ==
  ASSUME NEW s \in Seq(Characters), NEW t \in Seq(Characters), Reported(s \o t)
  PROVE  Reported(s)
<1> SUFFICES ASSUME NEW i \in 1 .. Len(s), s[i] = NewLine
             PROVE  \E r \in Rotations : EndsReport(s, i, r)
  BY DEF Reported
<1> DEFINE w == s \o t
<1>1. /\ Len(s) \in Nat /\ Len(t) \in Nat /\ Len(w) = Len(s) + Len(t)
      /\ \A k \in 1 .. Len(s) : w[k] = s[k]
  OBVIOUS
<1> HIDE DEF w
<1>2. i \in 1 .. Len(w) /\ w[i] = NewLine
  BY <1>1
<1>3. PICK r \in Rotations : EndsReport(w, i, r)
  BY <1>2 DEF Reported, w
<1> DEFINE d == Len(Digits(r))
<1>4. d \in 1 .. 3
  BY RotationDigits
<1>5. d < i /\ (d + 1 = i \/ w[i - d - 1] = NewLine)
      /\ \A j \in 1 .. d : w[i - d - 1 + j] = Digits(r)[j]
  BY <1>3 DEF EndsReport
<1> HIDE DEF d
<1>6. d + 1 = i \/ s[i - d - 1] = NewLine
  BY <1>1, <1>4, <1>5
<1>7. \A j \in 1 .. d : i - d - 1 + j \in 1 .. Len(s)
  BY <1>1, <1>4, <1>5
<1>8. EndsReport(s, i, r)
  BY <1>1, <1>5, <1>6, <1>7 DEF EndsReport, d
<1> QED
  BY <1>8

\* So does what follows the end of a line.
LEMMA ReportedRest ==
  ASSUME NEW s \in Seq(Characters), NEW t \in Seq(Characters), Reported(s \o t),
         s # <<>>, s[Len(s)] = NewLine
  PROVE  Reported(t)
<1> SUFFICES ASSUME NEW i \in 1 .. Len(t), t[i] = NewLine
             PROVE  \E r \in Rotations : EndsReport(t, i, r)
  BY DEF Reported
<1> DEFINE w == s \o t
           k == Len(s)
<1>1. /\ k \in Nat \ {0} /\ Len(w) = k + Len(t) /\ w[k] = NewLine
      /\ \A n \in 1 .. Len(t) : w[k + n] = t[n]
  OBVIOUS
<1> HIDE DEF w, k
<1>2. k + i \in 1 .. Len(w) /\ w[k + i] = NewLine
  BY <1>1
<1>3. PICK r \in Rotations : EndsReport(w, k + i, r)
  BY <1>2 DEF Reported, w
<1> DEFINE d == Len(Digits(r))
<1>4. d \in 1 .. 3 /\ \A j \in 1 .. d : Digits(r)[j] # NewLine
  BY RotationDigits
<1>5. d < k + i /\ (d + 1 = k + i \/ w[(k + i) - d - 1] = NewLine)
      /\ \A j \in 1 .. d : w[(k + i) - d - 1 + j] = Digits(r)[j]
  BY <1>3 DEF EndsReport
<1> HIDE DEF d
<1>6. d < i
  <2> SUFFICES ASSUME i <= d PROVE FALSE
    BY <1>4
  <2>1. d + 1 - i \in 1 .. d /\ (k + i) - d - 1 + (d + 1 - i) = k
    BY <1>1, <1>4
  <2> QED
    BY <1>1, <1>4, <1>5, <2>1
<1>7. d + 1 = i \/ t[i - d - 1] = NewLine
  <2> SUFFICES ASSUME d + 1 # i PROVE t[i - d - 1] = NewLine
    OBVIOUS
  <2>1. i - d - 1 \in 1 .. Len(t) /\ (k + i) - d - 1 = k + (i - d - 1) /\ d + 1 # k + i
    BY <1>1, <1>4, <1>6
  <2> QED
    BY <1>1, <1>5, <2>1
<1>8. \A j \in 1 .. d : t[i - d - 1 + j] = Digits(r)[j]
  <2> SUFFICES ASSUME NEW j \in 1 .. d PROVE t[i - d - 1 + j] = Digits(r)[j]
    OBVIOUS
  <2>1. i - d - 1 + j \in 1 .. Len(t) /\ (k + i) - d - 1 + j = k + (i - d - 1 + j)
    BY <1>1, <1>4, <1>6
  <2> QED
    BY <1>1, <1>5, <2>1
<1>9. EndsReport(t, i, r)
  BY <1>6, <1>7, <1>8 DEF EndsReport, d
<1> QED
  BY <1>9

\* The watcher prints one more line.
LEMMA ReportedOneMore ==
  ASSUME NEW s \in Seq(Characters), Reported(s), s = <<>> \/ s[Len(s)] = NewLine,
         NEW r \in Rotations
  PROVE  Reported(s \o Append(Digits(r), NewLine))
<1> DEFINE k == Len(s)
           d == Len(Digits(r))
           w == s \o Append(Digits(r), NewLine)
<1>1. /\ d \in 1 .. 3 /\ Digits(r) \in Seq(Characters)
      /\ \A j \in 1 .. d : Digits(r)[j] # NewLine
  BY RotationDigits
<1>2. /\ k \in Nat /\ Len(w) = k + d + 1 /\ w[k + d + 1] = NewLine
      /\ \A n \in 1 .. k : w[n] = s[n]
      /\ \A j \in 1 .. d : w[k + j] = Digits(r)[j]
  <2>1. NewLine \in Characters
    BY DEF NewLine, Characters
  <2>2. Append(Digits(r), NewLine) \in Seq(Characters) /\ Len(Append(Digits(r), NewLine)) = d + 1
        /\ Append(Digits(r), NewLine)[d + 1] = NewLine
        /\ \A j \in 1 .. d : Append(Digits(r), NewLine)[j] = Digits(r)[j]
    BY <1>1, <2>1
  <2> QED
    BY <1>1, <2>2
<1> SUFFICES ASSUME NEW i \in 1 .. Len(w), w[i] = NewLine
             PROVE  \E q \in Rotations : EndsReport(w, i, q)
  BY DEF Reported
<1>3. k # 0 => w[k] = NewLine
  BY <1>2
<1> HIDE DEF w
<1>4. CASE i <= k
  <2>1. i \in 1 .. k /\ s[i] = NewLine
    BY <1>2, <1>4
  <2>2. PICK q \in Rotations : EndsReport(s, i, q)
    BY <2>1 DEF Reported
  <2> DEFINE e == Len(Digits(q))
  <2>3. e \in 1 .. 3
    BY RotationDigits
  <2>4. e < i /\ (e + 1 = i \/ s[i - e - 1] = NewLine)
        /\ \A j \in 1 .. e : s[i - e - 1 + j] = Digits(q)[j]
    BY <2>2 DEF EndsReport
  <2> HIDE DEF e, k
  <2>5. e + 1 = i \/ w[i - e - 1] = NewLine
    BY <1>2, <2>1, <2>3, <2>4
  <2>6. \A j \in 1 .. e : i - e - 1 + j \in 1 .. k
    BY <1>2, <2>1, <2>3, <2>4
  <2>7. EndsReport(w, i, q)
    BY <1>2, <2>4, <2>5, <2>6 DEF EndsReport, e
  <2> QED
    BY <2>7
<1>5. CASE i > k
  <2> HIDE DEF k, d
  <2>1. i = k + d + 1
    <3> SUFFICES ASSUME i # k + d + 1 PROVE FALSE
      OBVIOUS
    <3>1. i - k \in 1 .. d /\ i = k + (i - k)
      BY <1>1, <1>2, <1>5
    <3> QED
      BY <1>1, <1>2, <3>1
  <2>2. i - d - 1 = k /\ \A j \in 1 .. d : i - d - 1 + j = k + j
    BY <1>1, <1>2, <2>1
  <2>3. d < i /\ (d + 1 = i \/ w[i - d - 1] = NewLine)
    BY <1>1, <1>2, <1>3, <2>1, <2>2
  <2>4. EndsReport(w, i, r)
    BY <1>2, <2>2, <2>3 DEF EndsReport, d
  <2> QED
    BY <2>4
<1> QED
  BY <1>2, <1>4, <1>5

\* A line is the digits of a rotation.
LEMMA LineReports ==
  ASSUME NEW s \in Seq(Characters), Reported(s), OneLine(s)
  PROVE  \E r \in Rotations : Front(s) = Digits(r) /\ Atoi(Front(s)) = r
<1> DEFINE i == Len(s)
<1>1. i \in Nat /\ i # 0 /\ s[i] = NewLine /\ \A n \in 1 .. i - 1 : s[n] # NewLine
  BY DEF OneLine
<1>2. PICK r \in Rotations : EndsReport(s, i, r)
  BY <1>1 DEF Reported
<1> DEFINE d == Len(Digits(r))
<1>3. d \in 1 .. 3 /\ Digits(r) \in Seq(Characters) /\ r \in 0 .. 999
  BY RotationDigits
<1>4. d < i /\ (d + 1 = i \/ s[i - d - 1] = NewLine)
      /\ \A j \in 1 .. d : s[i - d - 1 + j] = Digits(r)[j]
  BY <1>2 DEF EndsReport
<1>5. d + 1 = i
  <2> HIDE DEF d, i
  <2> SUFFICES ASSUME d + 1 # i PROVE FALSE
    OBVIOUS
  <2>1. i - d - 1 \in 1 .. i - 1
    BY <1>1, <1>3, <1>4
  <2> QED
    BY <1>1, <1>4, <2>1
<1>6. \A j \in 1 .. d : s[j] = Digits(r)[j]
  <2> HIDE DEF d, i
  <2>1. \A j \in 1 .. d : i - d - 1 + j = j
    BY <1>1, <1>3, <1>5
  <2> QED
    BY <1>4, <2>1
<1>7. Front(s) \in Seq(Characters) /\ Len(Front(s)) = d /\ \A j \in 1 .. d : Front(s)[j] = s[j]
  BY <1>1, <1>3, <1>5 DEF Front
<1>8. Front(s) = Digits(r)
  BY <1>3, <1>6, <1>7, SeqEqual
<1> QED
  BY <1>8, RotationDigits

-----------------------------------------------------------------------------
(* The line that check_rotation_change reads.                              *)

\* LineEnd is the first end of a line in the pipe, zero if there is none.
LEMMA LineEndFound ==
  ASSUME pipe \in Seq(Characters)
  PROVE  \/ LineEnd = 0 /\ \A i \in 1 .. Len(pipe) : pipe[i] # NewLine
         \/ /\ LineEnd \in 1 .. Len(pipe) /\ pipe[LineEnd] = NewLine
            /\ \A i \in 1 .. LineEnd - 1 : pipe[i] # NewLine
<1> DEFINE I == {i \in 1 .. Len(pipe) : pipe[i] = NewLine}
<1>1. LineEnd = IF I # {} THEN CHOOSE x \in I : \A y \in I : x <= y ELSE 0
  BY DEF LineEnd, SelectInSeq, Min
<1>2. CASE I = {}
  BY <1>1, <1>2
<1>3. CASE I # {}
  <2>1. I \subseteq Nat
    OBVIOUS
  <2> HIDE DEF I
  <2>2. PICK x \in I : \A y \in I : ~(y < x)
    BY <1>3, <2>1, LeastNatural
  <2>3. x \in I /\ \A y \in I : x <= y
    BY <2>1, <2>2
  <2>4. LineEnd \in I /\ \A y \in I : LineEnd <= y
    BY <1>1, <1>3, <2>3
  <2>5. LineEnd \in 1 .. Len(pipe) /\ pipe[LineEnd] = NewLine
    BY <2>4 DEF I
  <2>6. ASSUME NEW i \in 1 .. LineEnd - 1, pipe[i] = NewLine
        PROVE  FALSE
    <3>1. i \in 1 .. Len(pipe)
      BY <2>5
    <3>2. i \in I
      BY <2>6, <3>1 DEF I
    <3> QED
      BY <2>4, <2>5, <3>2
  <2> QED
    BY <2>5, <2>6
<1> QED
  BY <1>2, <1>3

\* Joining sequences of characters is associative.
LEMMA Joined ==
  \A a, b, c \in Seq(Characters) : (a \o b) \o c = a \o (b \o c)
BY ConcatAssociative

\* fgets takes characters from the front of the pipe, none after the end of a line,
\* and leaves the others.
LEMMA LineTaken ==
  ASSUME pipe \in Seq(Characters), rotateBuffer \in Seq(Characters), pipe # <<>>,
         BufferSize \in Nat \ {0}, Len(rotateBuffer) <= BufferSize,
         \A i \in 1 .. Len(rotateBuffer) : rotateBuffer[i] # NewLine
  PROVE  /\ Line \in Seq(Characters) /\ Line # <<>> /\ Len(Line) <= BufferSize
         /\ \A i \in 1 .. Len(Line) - 1 : Line[i] # NewLine
         /\ SubSeq(pipe, Taken + 1, Len(pipe)) \in Seq(Characters)
         /\ Line \o SubSeq(pipe, Taken + 1, Len(pipe)) = rotateBuffer \o pipe
<1>1. Len(pipe) \in Nat \ {0} /\ Len(rotateBuffer) \in Nat
  OBVIOUS
<1>2. /\ Taken \in 0 .. Len(pipe) /\ Len(rotateBuffer) + Taken <= BufferSize
      /\ Len(rotateBuffer) + Taken > 0
      /\ \A i \in 1 .. Taken - 1 : pipe[i] # NewLine
      /\ Taken = 0 => Len(rotateBuffer) > 0
  BY <1>1, LineEndFound DEF Taken
<1> DEFINE t == SubSeq(pipe, 1, Taken)
           u == SubSeq(pipe, Taken + 1, Len(pipe))
<1>3. t \in Seq(Characters) /\ Len(t) = Taken /\ \A i \in 1 .. Taken : t[i] = pipe[i]
  BY <1>1, <1>2
<1>4. u \in Seq(Characters) /\ Len(u) = Len(pipe) - Taken
      /\ \A i \in 1 .. Len(pipe) - Taken : u[i] = pipe[Taken + i]
  BY <1>1, <1>2
<1> HIDE DEF t, u
<1>5. t \o u = pipe
  <2>1. t \o u \in Seq(Characters) /\ Len(t \o u) = Len(pipe)
    <3>1. t \o u \in Seq(Characters) /\ Len(t \o u) = Len(t) + Len(u)
      BY <1>3, <1>4, ConcatProperties
    <3> QED
      BY <1>1, <1>2, <1>3, <1>4, <3>1
  <2>2. ASSUME NEW i \in 1 .. Len(pipe)
        PROVE  (t \o u)[i] = pipe[i]
    <3>1. CASE i <= Taken
      BY <1>2, <1>3, <1>4, <3>1
    <3>2. CASE i > Taken
      <4>1. i - Taken \in 1 .. Len(u) /\ Taken + (i - Taken) = i
        BY <1>1, <1>2, <1>4, <3>2
      <4>2. (t \o u)[i] = u[i - Taken]
        BY <1>2, <1>3, <1>4, <3>2
      <4> QED
        BY <1>4, <4>1, <4>2
    <3>3. i <= Taken \/ i > Taken
      BY <1>1, <1>2
    <3> QED
      BY <3>1, <3>2, <3>3
  <2> QED
    BY <2>1, <2>2, SeqEqual
<1>6. Line = rotateBuffer \o t
  BY DEF Line, t
<1>7. Line \in Seq(Characters) /\ Len(Line) = Len(rotateBuffer) + Taken
  BY <1>3, <1>6, ConcatProperties
<1>8. \A i \in 1 .. Len(Line) - 1 : Line[i] # NewLine
  <2> SUFFICES ASSUME NEW i \in 1 .. Len(Line) - 1 PROVE Line[i] # NewLine
    OBVIOUS
  <2>1. CASE i <= Len(rotateBuffer)
    BY <1>1, <1>3, <1>6, <1>7, <2>1
  <2>2. CASE i > Len(rotateBuffer)
    <3>1. i - Len(rotateBuffer) \in 1 .. Taken - 1
      BY <1>1, <1>2, <1>7, <2>2
    <3>2. Line[i] = t[i - Len(rotateBuffer)]
      BY <1>1, <1>3, <1>6, <1>7, <2>2
    <3>3. \A j \in 1 .. Taken - 1 : j \in 1 .. Taken /\ pipe[j] # NewLine
      BY <1>2
    <3>4. t[i - Len(rotateBuffer)] # NewLine
      BY <1>3, <3>1, <3>3
    <3> QED
      BY <3>2, <3>4
  <2> QED
    BY <1>1, <1>2, <1>7, <2>1, <2>2
<1>9. Line \o u = rotateBuffer \o pipe
  <2>1. (rotateBuffer \o t) \o u = rotateBuffer \o (t \o u)
    BY <1>3, <1>4, Joined, Zenon
  <2> QED
    BY <1>5, <1>6, <2>1
<1>10. Line # <<>> /\ Len(Line) <= BufferSize
  BY <1>1, <1>2, <1>7
<1> QED
  BY <1>4, <1>7, <1>8, <1>9, <1>10 DEF u

-----------------------------------------------------------------------------
(* The reports in a sequence of characters.                                *)

\* What Complete has read: whole lines, and the characters since.
Reading == [lines : Seq(Nat), rest : Seq(Characters)]

\* One character more.
NextReading(q, c) ==
  IF c = NewLine THEN [lines |-> Append(q.lines, Atoi(q.rest)), rest |-> <<>>]
  ELSE [lines |-> q.lines, rest |-> Append(q.rest, c)]

\* read[i]: what the first i characters of s make.
Reads(read, s) ==
  /\ read \in [0 .. Len(s) -> Reading]
  /\ read[0] = [lines |-> <<>>, rest |-> <<>>]
  /\ \A i \in 1 .. Len(s) : read[i] = NextReading(read[i - 1], s[i])

\* What is read stays a Reading.
LEMMA NextReadingType ==
  ASSUME NEW q \in Reading, NEW c \in Characters
  PROVE  NextReading(q, c) \in Reading
<1>1. q.lines \in Seq(Nat) /\ q.rest \in Seq(Characters)
  BY DEF Reading
<1>2. Atoi(q.rest) \in Nat
  BY <1>1, AtoiNatural
<1>3. Append(q.lines, Atoi(q.rest)) \in Seq(Nat) /\ Append(q.rest, c) \in Seq(Characters)
  BY <1>1, <1>2
<1>4. <<>> \in Seq(Characters)
  OBVIOUS
<1> QED
  BY <1>1, <1>3, <1>4 DEF NextReading, Reading

\* Complete satisfies its recursion.
LEMMA CompleteReads ==
  ASSUME NEW s \in Seq(Characters)
  PROVE  \E read : Reads(read, s) /\ Complete(s) = read[Len(s)].lines
<1> DEFINE len == Len(s)
           base == [lines |-> <<>>, rest |-> <<>>]
           step == [q \in Nat \X Reading |->
                      NextReading(q[2], IF q[1] \in 1 .. len THEN s[q[1]] ELSE 0)]
           Is(read) == read = [i \in 0 .. len |->
                         IF i = 0 THEN [lines |-> <<>>, rest |-> <<>>]
                         ELSE IF s[i] = NewLine
                         THEN [lines |-> Append(read[i - 1].lines, Atoi(read[i - 1].rest)),
                               rest |-> <<>>]
                         ELSE [read[i - 1] EXCEPT !.rest = Append(@, s[i])]]
           chosen == CHOOSE read : Is(read)
<1>1. len \in Nat /\ \A i \in 1 .. len : s[i] \in Characters
  OBVIOUS
<1>2. base \in Reading
  BY DEF Reading
<1>3. step \in [Nat \X Reading -> Reading]
  <2> SUFFICES ASSUME NEW q \in Nat \X Reading
               PROVE  NextReading(q[2], IF q[1] \in 1 .. len THEN s[q[1]] ELSE 0) \in Reading
    OBVIOUS
  <2>1. (IF q[1] \in 1 .. len THEN s[q[1]] ELSE 0) \in Characters /\ q[2] \in Reading
    BY <1>1 DEF Characters
  <2> QED
    BY <2>1, NextReadingType
<1>4. \A i \in 1 .. len, q \in Reading : step[<<i, q>>] = NextReading(q, s[i])
  BY <1>1
<1>5. Complete(s) = chosen[len].lines
  BY DEF Complete
<1>6. ASSUME NEW q \in Reading, NEW c
      PROVE  NextReading(q, c) =
               IF c = NewLine THEN [lines |-> Append(q.lines, Atoi(q.rest)), rest |-> <<>>]
               ELSE [q EXCEPT !.rest = Append(@, c)]
  BY DEF Reading, NextReading
<1> HIDE DEF len, step, chosen, base
<1>7. PICK f : Recursive(f, len, Reading, base, step)
  BY <1>1, <1>2, <1>3, RecursionUpTo, Zenon
<1>8. /\ f \in [0 .. len -> Reading] /\ f[0] = base
      /\ \A i \in 1 .. len : f[i - 1] \in Reading /\ f[i] = NextReading(f[i - 1], s[i])
  <2>1. f \in [0 .. len -> Reading] /\ f[0] = base
        /\ \A i \in 1 .. len : f[i] = step[<<i, f[i - 1]>>]
    BY <1>7 DEF Recursive
  <2>2. ASSUME NEW i \in 1 .. len
        PROVE  f[i - 1] \in Reading
    <3>1. i - 1 \in 0 .. len
      BY <1>1
    <3> QED
      BY <2>1, <3>1
  <2> QED
    BY <1>4, <2>1, <2>2
<1>9. Is(f)
  <2>1. ASSUME NEW i \in 0 .. len
        PROVE  f[i] = IF i = 0 THEN [lines |-> <<>>, rest |-> <<>>]
                      ELSE IF s[i] = NewLine
                      THEN [lines |-> Append(f[i - 1].lines, Atoi(f[i - 1].rest)), rest |-> <<>>]
                      ELSE [f[i - 1] EXCEPT !.rest = Append(@, s[i])]
    <3>1. CASE i = 0
      BY <1>8, <3>1 DEF base
    <3>2. CASE i # 0
      <4>1. i \in 1 .. len
        BY <1>1, <3>2
      <4> QED
        BY <1>6, <1>8, <3>2, <4>1
    <3> QED
      BY <3>1, <3>2
  <2> QED
    BY <1>8, <2>1
<1> HIDE DEF Is
<1>10. Is(chosen)
  BY <1>9 DEF chosen
<1>11. chosen = [i \in 0 .. len |->
                  IF i = 0 THEN [lines |-> <<>>, rest |-> <<>>]
                  ELSE IF s[i] = NewLine
                  THEN [lines |-> Append(chosen[i - 1].lines, Atoi(chosen[i - 1].rest)),
                        rest |-> <<>>]
                  ELSE [chosen[i - 1] EXCEPT !.rest = Append(@, s[i])]]
  BY <1>10 DEF Is
<1>12. chosen[0] = base
  BY <1>1, <1>11 DEF base
<1>13. ASSUME NEW i \in 1 .. len, chosen[i - 1] \in Reading
       PROVE  chosen[i] = NextReading(chosen[i - 1], s[i])
  <2> DEFINE q == chosen[i - 1]
  <2>1. i \in 0 .. len /\ i # 0
    BY <1>1
  <2>2. chosen[i] = IF s[i] = NewLine THEN [lines |-> Append(q.lines, Atoi(q.rest)), rest |-> <<>>]
                    ELSE [q EXCEPT !.rest = Append(@, s[i])]
    BY <1>11, <2>1
  <2> HIDE DEF q
  <2>3. q \in Reading
    BY <1>13 DEF q
  <2>4. chosen[i] = NextReading(q, s[i])
    BY <1>6, <2>2, <2>3
  <2> QED
    BY <2>4 DEF q
<1>14. \A i \in 0 .. len : chosen[i] \in Reading
  <2> DEFINE S == {i \in 0 .. len : chosen[i] \in Reading}
  <2>1. 0 \in S
    BY <1>1, <1>2, <1>12
  <2>2. ASSUME NEW i \in 0 .. len, i \in S, i < len
        PROVE  i + 1 \in S
    <3>1. i + 1 \in 1 .. len /\ (i + 1) - 1 = i /\ i + 1 \in 0 .. len /\ chosen[i] \in Reading
      BY <1>1, <2>2
    <3>2. chosen[i + 1] = NextReading(chosen[i], s[i + 1])
      BY <1>13, <3>1
    <3> QED
      BY <1>1, <3>1, <3>2, NextReadingType
  <2>3. 0 .. len \subseteq S
    BY <1>1, <2>1, <2>2, InductionUpTo
  <2> QED
    BY <2>3
<1>15. \A i \in 1 .. len : chosen[i] = NextReading(chosen[i - 1], s[i])
  BY <1>1, <1>13, <1>14
<1>16. chosen \in [0 .. len -> Reading]
  BY <1>11, <1>14
<1>17. Reads(chosen, s)
  BY <1>12, <1>15, <1>16 DEF Reads, len, base
<1> QED
  BY <1>5, <1>17 DEF len

\* What was read does not depend on what comes after.
LEMMA ReadsPart ==
  ASSUME NEW s \in Seq(Characters), NEW t \in Seq(Characters),
         NEW f, Reads(f, s), NEW g, Reads(g, s \o t)
  PROVE  \A i \in 0 .. Len(s) : g[i] = f[i]
<1> DEFINE len == Len(s)
           S == {i \in 0 .. len : g[i] = f[i]}
<1>1. len \in Nat /\ Len(s \o t) = len + Len(t) /\ Len(t) \in Nat
      /\ \A i \in 1 .. len : (s \o t)[i] = s[i]
  OBVIOUS
<1>2. 0 \in S
  BY <1>1 DEF Reads
<1>3. ASSUME NEW i \in 0 .. len, i \in S, i < len
      PROVE  i + 1 \in S
  <2>1. i + 1 \in 1 .. len /\ i + 1 \in 1 .. Len(s \o t) /\ (i + 1) - 1 = i /\ i + 1 \in 0 .. len
    BY <1>1, <1>3
  <2>2. f[i + 1] = NextReading(f[i], s[i + 1]) /\ g[i + 1] = NextReading(g[i], (s \o t)[i + 1])
    BY <2>1 DEF Reads
  <2> QED
    BY <1>1, <1>3, <2>1, <2>2
<1>4. 0 .. len \subseteq S
  BY <1>1, <1>2, <1>3, InductionUpTo
<1> QED
  BY <1>4

\* Characters without the end of a line complete nothing.
LEMMA ReadsOn ==
  ASSUME NEW s \in Seq(Characters), NEW t \in Seq(Characters),
         NEW f, Reads(f, s), NEW g, Reads(g, s \o t),
         NEW n \in 0 .. Len(t), \A i \in 1 .. n : t[i] # NewLine
  PROVE  g[Len(s) + n].lines = f[Len(s)].lines
<1> DEFINE len == Len(s)
           S == {i \in 0 .. n : g[len + i].lines = f[len].lines}
<1>1. len \in Nat /\ Len(s \o t) = len + Len(t) /\ Len(t) \in Nat /\ n \in Nat /\ n <= Len(t)
      /\ \A i \in 1 .. Len(t) : (s \o t)[len + i] = t[i]
  OBVIOUS
<1>2. 0 \in S
  <2>1. g[len] = f[len]
    BY <1>1, ReadsPart
  <2> QED
    BY <1>1, <2>1
<1>3. ASSUME NEW i \in 0 .. n, i \in S, i < n
      PROVE  i + 1 \in S
  <2>1. /\ len + (i + 1) \in 1 .. Len(s \o t) /\ (len + (i + 1)) - 1 = len + i
        /\ i + 1 \in 1 .. Len(t) /\ i + 1 \in 0 .. n /\ t[i + 1] # NewLine
    BY <1>1, <1>3
  <2>2. g[len + (i + 1)] = NextReading(g[len + i], (s \o t)[len + (i + 1)])
    BY <2>1 DEF Reads
  <2>3. g[len + (i + 1)].lines = g[len + i].lines
    BY <1>1, <2>1, <2>2 DEF NextReading
  <2> QED
    BY <1>3, <2>1, <2>3
<1>4. 0 .. n \subseteq S
  BY <1>1, <1>2, <1>3, InductionUpTo
<1> QED
  BY <1>1, <1>4

\* Appending after joining.
LEMMA JoinedAppend ==
  \A a, b \in Seq(Nat) : \A e \in Nat : a \o Append(b, e) = Append(a \o b, e)
<1> SUFFICES ASSUME NEW a \in Seq(Nat), NEW b \in Seq(Nat), NEW e \in Nat
             PROVE  a \o Append(b, e) = Append(a \o b, e)
  OBVIOUS
<1>1. <<e>> \in Seq(Nat) /\ a \o b \in Seq(Nat)
  BY ConcatProperties
<1>2. Append(b, e) = b \o <<e>> /\ Append(a \o b, e) = (a \o b) \o <<e>>
  BY <1>1, AppendIsConcat
<1> QED
  BY <1>1, <1>2, ConcatAssociative

\* Characters that do not end a line complete no report.
LEMMA CompleteUnfinished ==
  ASSUME NEW s \in Seq(Characters), NEW t \in Seq(Characters),
         \A i \in 1 .. Len(t) : t[i] # NewLine
  PROVE  Complete(s \o t) = Complete(s)
<1>1. PICK f : Reads(f, s) /\ Complete(s) = f[Len(s)].lines
  BY CompleteReads
<1>2. s \o t \in Seq(Characters) /\ Len(s \o t) = Len(s) + Len(t) /\ Len(t) \in 0 .. Len(t)
  BY ConcatProperties
<1>3. PICK g : Reads(g, s \o t) /\ Complete(s \o t) = g[Len(s \o t)].lines
  BY <1>2, CompleteReads
<1>4. g[Len(s) + Len(t)].lines = f[Len(s)].lines
  BY <1>1, <1>2, <1>3, ReadsOn
<1> QED
  BY <1>1, <1>2, <1>3, <1>4

\* What is left of a report are the characters since the end of a line.
LEMMA RestSinceLine ==
  ASSUME NEW s \in Seq(Characters), NEW f, Reads(f, s)
  PROVE  \A i \in 0 .. Len(s) : \E k \in 0 .. i :
           /\ f[i].rest = SubSeq(s, k + 1, i)
           /\ k = 0 \/ s[k] = NewLine
           /\ \A j \in k + 1 .. i : s[j] # NewLine
<1> DEFINE len == Len(s)
           Since(i, k) == /\ f[i].rest = SubSeq(s, k + 1, i)
                          /\ k = 0 \/ s[k] = NewLine
                          /\ \A j \in k + 1 .. i : s[j] # NewLine
           S == {i \in 0 .. len : \E k \in 0 .. i : Since(i, k)}
<1>1. len \in Nat
  OBVIOUS
<1>2. Since(0, 0)
  <2>1. f[0] = [lines |-> <<>>, rest |-> <<>>]
    BY DEF Reads
  <2>2. SubSeq(s, 0 + 1, 0) = <<>>
    OBVIOUS
  <2> QED
    BY <2>1, <2>2
<1>3. ASSUME NEW i \in 0 .. len, NEW k \in 0 .. i, Since(i, k), i < len
      PROVE  \E m \in 0 .. i + 1 : Since(i + 1, m)
  <2>1. i + 1 \in 1 .. len /\ (i + 1) - 1 = i
    BY <1>1, <1>3
  <2>2. f[i + 1] = NextReading(f[i], s[i + 1])
    BY <2>1 DEF Reads
  <2>3. CASE s[i + 1] = NewLine
    <3>1. f[i + 1].rest = <<>>
      BY <2>2, <2>3 DEF NextReading
    <3>2. SubSeq(s, (i + 1) + 1, i + 1) = <<>>
      BY <2>1, SubSeqEmpty
    <3>3. Since(i + 1, i + 1)
      BY <2>1, <2>3, <3>1, <3>2
    <3> HIDE DEF Since
    <3> QED
      BY <2>1, <3>3
  <2>4. CASE s[i + 1] # NewLine
    <3>1. f[i + 1].rest = Append(SubSeq(s, k + 1, i), s[i + 1])
      BY <1>3, <2>2, <2>4 DEF NextReading
    <3>2. Append(SubSeq(s, k + 1, i), s[i + 1]) = SubSeq(s, k + 1, i + 1)
      BY <1>1, <1>3, <2>1
    <3>3. Since(i + 1, k)
      BY <1>3, <2>1, <2>4, <3>1, <3>2
    <3> HIDE DEF Since
    <3> QED
      BY <2>1, <3>3
  <2> QED
    BY <2>3, <2>4
<1> HIDE DEF Since
<1>4. 0 .. len \subseteq S
  <2>1. 0 \in S
    BY <1>1, <1>2
  <2>2. \A i \in 0 .. len : i \in S /\ i < len => i + 1 \in S
    BY <1>1, <1>3
  <2> QED
    BY <1>1, <2>1, <2>2, InductionUpTo
<1> QED
  BY <1>4 DEF Since

\* A line that ends is a rotation.
LEMMA LineRead ==
  ASSUME NEW s \in Seq(Characters), Reported(s), NEW f, Reads(f, s),
         NEW i \in 0 .. Len(s) - 1, s[i + 1] = NewLine
  PROVE  Atoi(f[i].rest) \in Rotations
<1>1. i + 1 \in 1 .. Len(s) /\ i \in 0 .. Len(s) /\ (i + 1) - 1 = i /\ Len(s) \in Nat
  OBVIOUS
<1>2. PICK r \in Rotations : EndsReport(s, i + 1, r)
  BY <1>1 DEF Reported
<1> DEFINE d == Len(Digits(r))
<1>3. /\ d \in 1 .. 3 /\ Digits(r) \in Seq(Characters)
      /\ \A j \in 1 .. d : Digits(r)[j] # NewLine
  BY RotationDigits
<1>4. d < i + 1 /\ (d + 1 = i + 1 \/ s[(i + 1) - d - 1] = NewLine)
      /\ \A j \in 1 .. d : s[(i + 1) - d - 1 + j] = Digits(r)[j]
  BY <1>2 DEF EndsReport
<1>5. PICK k \in 0 .. i : /\ f[i].rest = SubSeq(s, k + 1, i)
                          /\ k = 0 \/ s[k] = NewLine
                          /\ \A j \in k + 1 .. i : s[j] # NewLine
  BY <1>1, RestSinceLine
<1> HIDE DEF d
<1>6. d <= i /\ (i + 1) - d - 1 = i - d
  BY <1>3, <1>4
<1>7. k <= i - d
  <2> SUFFICES ASSUME i - d < k PROVE FALSE
    BY <1>3, <1>6
  <2> DEFINE j == k - (i - d)
  <2>1. j \in 1 .. d /\ (i + 1) - d - 1 + j = k /\ k # 0
    BY <1>3, <1>6
  <2> HIDE DEF j
  <2>2. s[k] = Digits(r)[j] /\ Digits(r)[j] # NewLine
    BY <1>3, <1>4, <2>1
  <2> QED
    BY <1>5, <2>1, <2>2
<1>8. i - d <= k
  <2> SUFFICES ASSUME k < i - d PROVE FALSE
    BY <1>3, <1>6
  <2>1. i - d \in k + 1 .. i /\ i - d # 0
    BY <1>3, <1>6
  <2> QED
    BY <1>3, <1>4, <1>5, <1>6, <2>1
<1>9. k = i - d
  BY <1>3, <1>7, <1>8
<1> DEFINE t == SubSeq(s, k + 1, i)
<1>10. t \in Seq(Characters) /\ Len(t) = d /\ \A j \in 1 .. d : t[j] = s[k + j]
  <2>1. \A j \in k + 1 .. i : s[j] \in Characters
    BY <1>1
  <2>2. /\ t \in Seq(Characters)
        /\ Len(t) = IF k + 1 <= i THEN i - (k + 1) + 1 ELSE 0
        /\ \A j \in 1 .. i - (k + 1) + 1 : t[j] = s[(k + 1) + j - 1]
    BY <2>1, SubSeqProperties
  <2> HIDE DEF t
  <2>3. k + 1 <= i /\ i - (k + 1) + 1 = d /\ \A j \in 1 .. d : (k + 1) + j - 1 = k + j
    BY <1>3, <1>6, <1>9
  <2> QED
    BY <2>2, <2>3
<1> HIDE DEF t
<1>11. \A j \in 1 .. d : t[j] = Digits(r)[j]
  BY <1>4, <1>6, <1>9, <1>10
<1>12. t = Digits(r)
  BY <1>3, <1>10, <1>11, SeqEqual DEF d
<1>13. f[i].rest = Digits(r)
  BY <1>5, <1>12 DEF t
<1>14. Atoi(Digits(r)) = r
  BY RotationDigits
<1> QED
  BY <1>13, <1>14

\* The end of a line completes one report.
LEMMA CompleteOneMore ==
  ASSUME NEW s \in Seq(Characters), NEW t \in Seq(Characters), OneLine(t),
         Reported(s \o t)
  PROVE  \E v \in Rotations : Complete(s \o t) = Append(Complete(s), v)
<1> DEFINE n == Len(t) - 1
<1>1. PICK f : Reads(f, s) /\ Complete(s) = f[Len(s)].lines
  BY CompleteReads
<1>2. s \o t \in Seq(Characters) /\ Len(s \o t) = Len(s) + Len(t)
  BY ConcatProperties
<1>3. PICK g : Reads(g, s \o t) /\ Complete(s \o t) = g[Len(s \o t)].lines
  BY <1>2, CompleteReads
<1>4. /\ n \in 0 .. Len(t) /\ Len(s) \in Nat /\ t[n + 1] = NewLine
      /\ \A i \in 1 .. n : t[i] # NewLine
  BY DEF OneLine
<1>5. /\ Len(s \o t) \in 1 .. Len(s \o t) /\ Len(s \o t) - 1 = Len(s) + n
      /\ (s \o t)[Len(s \o t)] = NewLine /\ Len(s) + n \in 0 .. Len(s \o t)
  <2>1. Len(s \o t) = Len(s) + (n + 1) /\ n + 1 \in 1 .. Len(t)
    BY <1>2, <1>4
  <2>2. (s \o t)[Len(s) + (n + 1)] = t[n + 1]
    BY <2>1
  <2> QED
    BY <1>4, <2>1, <2>2
<1> HIDE DEF n
<1>6. g[Len(s) + n].lines = f[Len(s)].lines
  BY <1>1, <1>2, <1>3, <1>4, ReadsOn
<1> DEFINE q == g[Len(s) + n]
<1>7. q \in Reading
  BY <1>3, <1>5 DEF Reads
<1>8. g[Len(s \o t)] = NextReading(q, NewLine)
  BY <1>3, <1>5 DEF Reads
<1> HIDE DEF q
<1>9. NextReading(q, NewLine).lines = Append(q.lines, Atoi(q.rest))
  BY DEF NextReading
<1>10. Atoi(q.rest) \in Rotations
  <2>1. Len(s) + n \in 0 .. Len(s \o t) - 1 /\ (s \o t)[(Len(s) + n) + 1] = NewLine
    BY <1>2, <1>4, <1>5
  <2> QED
    BY <1>2, <1>3, <2>1, LineRead DEF q
<1> QED
  BY <1>1, <1>3, <1>6, <1>8, <1>9, <1>10 DEF q

\* The first line is the first report, the rest are those of the rest.
LEMMA CompleteFirst ==
  ASSUME NEW s \in Seq(Characters), NEW t \in Seq(Characters), OneLine(s)
  PROVE  /\ Complete(s \o t) # <<>>
         /\ Head(Complete(s \o t)) = Atoi(Front(s))
         /\ Tail(Complete(s \o t)) = Complete(t)
<1> DEFINE len == Len(s)
           v == Atoi(Front(s))
<1>1. PICK f : Reads(f, s)
  BY CompleteReads
<1>2. PICK h : Reads(h, t) /\ Complete(t) = h[Len(t)].lines
  BY CompleteReads
<1>3. s \o t \in Seq(Characters) /\ Len(s \o t) = len + Len(t)
  BY ConcatProperties
<1>4. PICK g : Reads(g, s \o t) /\ Complete(s \o t) = g[Len(s \o t)].lines
  BY <1>3, CompleteReads
<1>5. /\ len \in Nat \ {0} /\ Len(t) \in Nat /\ s[len] = NewLine
      /\ \A i \in 1 .. len - 1 : s[i] # NewLine
      /\ \A i \in 1 .. Len(t) : (s \o t)[len + i] = t[i]
  BY DEF OneLine
<1>6. /\ Front(s) \in Seq(Characters) /\ Len(Front(s)) = len - 1
      /\ \A i \in 1 .. len - 1 : Front(s)[i] = s[i]
  <2>1. Front(s) = SubSeq(s, 1, len - 1) /\ \A i \in 1 .. len - 1 : s[i] \in Characters
    BY <1>5 DEF Front
  <2>2. /\ Front(s) \in Seq(Characters)
        /\ Len(Front(s)) = IF 1 <= len - 1 THEN (len - 1) - 1 + 1 ELSE 0
        /\ \A i \in 1 .. (len - 1) - 1 + 1 : Front(s)[i] = s[1 + i - 1]
    BY <1>5, <2>1, SubSeqProperties
  <2> HIDE DEF len
  <2>3. \A i \in 1 .. len - 1 : i \in 1 .. (len - 1) - 1 + 1 /\ 1 + i - 1 = i
    BY <1>5
  <2> QED
    BY <1>5, <2>2, <2>3
<1>7. v \in Nat
  BY <1>6, AtoiNatural
<1> HIDE DEF len, v
<1>8. f[len - 1] = [lines |-> <<>>, rest |-> Front(s)]
  <2> DEFINE Part(i) == [lines |-> <<>>, rest |-> SubSeq(s, 1, i)]
             S == {i \in 0 .. len - 1 : f[i] = Part(i)}
  <2>1. f[0] = Part(0)
    <3>1. f[0] = [lines |-> <<>>, rest |-> <<>>]
      BY <1>1 DEF Reads
    <3>2. SubSeq(s, 1, 0) = <<>>
      OBVIOUS
    <3> QED
      BY <3>1, <3>2
  <2>2. ASSUME NEW i \in 0 .. len - 1, i < len - 1, f[i] = Part(i)
        PROVE  f[i + 1] = Part(i + 1)
    <3>1. i + 1 \in 1 .. len /\ (i + 1) - 1 = i /\ s[i + 1] # NewLine
      BY <1>5, <2>2
    <3>2. f[i + 1] = NextReading(f[i], s[i + 1])
      BY <1>1, <3>1 DEF Reads, len
    <3>3. f[i + 1] = [lines |-> <<>>, rest |-> Append(SubSeq(s, 1, i), s[i + 1])]
      BY <2>2, <3>1, <3>2 DEF NextReading
    <3>4. Append(SubSeq(s, 1, i), s[i + 1]) = SubSeq(s, 1, i + 1)
      BY <1>5, <3>1 DEF len
    <3> QED
      BY <3>3, <3>4
  <2> HIDE DEF Part
  <2>3. 0 .. len - 1 \subseteq S
    <3>1. len - 1 \in Nat /\ 0 \in S
      BY <1>5, <2>1
    <3>2. \A i \in 0 .. len - 1 : i \in S /\ i < len - 1 => i + 1 \in S
      BY <1>5, <2>2
    <3> QED
      BY <3>1, <3>2, InductionUpTo
  <2>4. SubSeq(s, 1, len - 1) = Front(s)
    BY DEF Front, len
  <2>5. f[len - 1] = Part(len - 1)
    BY <1>5, <2>3
  <2> QED
    BY <2>4, <2>5 DEF Part
<1>9. f[len] = [lines |-> <<v>>, rest |-> <<>>]
  <2>1. f[len] = NextReading(f[len - 1], NewLine)
    BY <1>1, <1>5 DEF Reads, len
  <2>2. Append(<<>>, v) = <<v>>
    BY <1>7
  <2> QED
    BY <1>8, <2>1, <2>2 DEF NextReading, v
<1>10. g[len] = [lines |-> <<v>>, rest |-> <<>>]
  <2>1. \A i \in 0 .. Len(s) : g[i] = f[i]
    BY <1>1, <1>4, ReadsPart
  <2> QED
    BY <1>5, <1>9, <2>1 DEF len
<1>11. g[len + Len(t)].lines = <<v>> \o h[Len(t)].lines
  <2> DEFINE Same(i) == g[len + i] = [lines |-> <<v>> \o h[i].lines, rest |-> h[i].rest]
             S == {i \in 0 .. Len(t) : Same(i)}
  <2>1. Same(0)
    <3>1. h[0] = [lines |-> <<>>, rest |-> <<>>] /\ len + 0 = len
      BY <1>2, <1>5 DEF Reads
    <3>2. <<v>> \o <<>> = <<v>>
      BY <1>7
    <3> QED
      BY <1>10, <3>1, <3>2
  <2>2. ASSUME NEW i \in 0 .. Len(t), i < Len(t), Same(i)
        PROVE  Same(i + 1)
    <3>1. /\ i + 1 \in 1 .. Len(t) /\ (i + 1) - 1 = i
          /\ len + (i + 1) \in 1 .. Len(s \o t) /\ (len + (i + 1)) - 1 = len + i
      BY <1>3, <1>5, <2>2
    <3>2. h[i + 1] = NextReading(h[i], t[i + 1])
      BY <1>2, <3>1 DEF Reads
    <3>3. g[len + (i + 1)] = NextReading(g[len + i], t[i + 1])
      BY <1>4, <1>5, <3>1 DEF Reads
    <3>4. h[i] \in Reading
      BY <1>2 DEF Reads
    <3>5. h[i].lines \in Seq(Nat) /\ h[i].rest \in Seq(Characters)
      BY <3>4 DEF Reading
    <3>6. Atoi(h[i].rest) \in Nat
      BY <3>5, AtoiNatural
    <3>7. <<v>> \o Append(h[i].lines, Atoi(h[i].rest))
            = Append(<<v>> \o h[i].lines, Atoi(h[i].rest))
      <4>1. <<v>> \in Seq(Nat)
        BY <1>7
      <4> QED
        BY <3>5, <3>6, <4>1, JoinedAppend, Zenon
    <3>8. CASE t[i + 1] = NewLine
      <4>1. h[i + 1] = [lines |-> Append(h[i].lines, Atoi(h[i].rest)), rest |-> <<>>]
        BY <3>2, <3>8 DEF NextReading
      <4>2. g[len + (i + 1)]
              = [lines |-> Append(<<v>> \o h[i].lines, Atoi(h[i].rest)), rest |-> <<>>]
        BY <2>2, <3>3, <3>8 DEF NextReading
      <4> QED
        <5>1. h[i + 1].lines = Append(h[i].lines, Atoi(h[i].rest)) /\ h[i + 1].rest = <<>>
          BY <4>1
        <5> QED
          BY <3>7, <4>2, <5>1
    <3>9. CASE t[i + 1] # NewLine
      BY <2>2, <3>2, <3>3, <3>9 DEF NextReading
    <3> QED
      BY <3>8, <3>9
  <2> HIDE DEF Same
  <2>3. 0 .. Len(t) \subseteq S
    <3>1. 0 \in S
      BY <1>5, <2>1
    <3>2. \A i \in 0 .. Len(t) : i \in S /\ i < Len(t) => i + 1 \in S
      BY <1>5, <2>2
    <3> QED
      BY <1>5, <3>1, <3>2, InductionUpTo
  <2>4. Same(Len(t))
    BY <1>5, <2>3
  <2> QED
    BY <2>4 DEF Same
<1>12. Complete(t) \in Seq(Nat)
  <2>1. h[Len(t)] \in Reading
    BY <1>2, <1>5 DEF Reads
  <2> QED
    BY <1>2, <2>1 DEF Reading
<1>13. Complete(s \o t) = <<v>> \o Complete(t)
  BY <1>2, <1>3, <1>4, <1>11
<1> QED
  BY <1>7, <1>12, <1>13 DEF v

-----------------------------------------------------------------------------
(* The pipe.                                                               *)

\* What the server has been sent, and what the watcher has printed besides.
Text == rotateBuffer \o pipe

\* The values of the pipe and its two ends.
PipeTypeOK ==
  /\ alive \in BOOLEAN /\ nreports \in 0 .. MaxReports
  /\ unsent \in Seq(Characters) /\ pipe \in Seq(Characters)
  /\ rotateBuffer \in Seq(Characters) /\ Len(rotateBuffer) <= BufferSize

\* All of it makes reports, in whole lines while the watcher lives; the server
\* keeps less than a line, and the watcher the end of one.
PipeInv ==
  /\ PipeTypeOK
  /\ \A i \in 1 .. Len(rotateBuffer) : rotateBuffer[i] # NewLine
  /\ unsent # <<>> => OneLine(unsent)
  /\ Reported(Text \o unsent)
  /\ alive /\ Text \o unsent # <<>> => Last(Text \o unsent) = NewLine
  /\ ~alive => unsent = <<>>

\* The last character of what is joined is that of the second part, if it has one.
LEMMA EmptyLast ==
  ASSUME NEW s \in Seq(Characters), NEW t \in Seq(Characters)
  PROVE  /\ t # <<>> => s \o t # <<>> /\ Last(s \o t) = Last(t)
         /\ t = <<>> => s \o t = s
<1>1. CASE t # <<>>
  <2>1. Len(t) \in Nat \ {0} /\ Len(s) \in Nat /\ Len(s \o t) = Len(s) + Len(t)
    BY <1>1
  <2>2. (s \o t)[Len(s) + Len(t)] = t[Len(t)]
    BY <2>1
  <2>3. s \o t # <<>>
    BY <2>1
  <2> QED
    BY <1>1, <2>1, <2>2, <2>3 DEF Last
<1>2. CASE t = <<>>
  BY <1>2
<1> QED
  BY <1>1, <1>2

\* At first nothing is printed.
LEMMA PipeInit == WatcherInit => PipeInv
<1> SUFFICES ASSUME WatcherInit PROVE PipeInv
  OBVIOUS
<1>1. <<>> \in Seq(Characters) /\ Len(<<>>) = 0 /\ <<>> \o <<>> = <<>> /\ 0 \in 0 .. MaxReports
  BY ReportsAssumption
<1>2. Text = <<>> /\ Text \o unsent = <<>>
  BY <1>1 DEF WatcherInit, Text
<1>3. Reported(Text \o unsent)
  BY <1>1, <1>2 DEF Reported
<1> QED
  BY <1>1, <1>2, <1>3, BufferAssumption DEF WatcherInit, PipeInv, PipeTypeOK

\* A report is printed.
LEMMA PrintKeeps ==
  ASSUME PipeInv, PrintRotation
  PROVE  PipeInv' /\ Text' = Text
<1>1. /\ Text \in Seq(Characters) /\ Text \o <<>> = Text /\ unsent = <<>>
      /\ nreports' \in 0 .. MaxReports /\ Text' = Text /\ alive
  <2>1. Text \in Seq(Characters)
    BY ConcatProperties DEF PipeInv, PipeTypeOK, Text
  <2> QED
    BY <2>1, ReportsAssumption DEF PipeInv, PipeTypeOK, PrintRotation, Text
<1>2. PICK r \in Rotations : unsent' = Append(Digits(r), NewLine)
  BY DEF PrintRotation
<1>3. unsent' \in Seq(Characters) /\ OneLine(unsent') /\ Last(unsent') = NewLine
  <2>1. NewLine \in Characters
    BY DEF NewLine, Characters
  <2>2. /\ Digits(r) \in Seq(Characters) /\ Len(Digits(r)) \in 1 .. 3
        /\ \A j \in 1 .. Len(Digits(r)) : Digits(r)[j] # NewLine
    BY RotationDigits
  <2>3. /\ unsent' \in Seq(Characters) /\ Len(unsent') = Len(Digits(r)) + 1
        /\ unsent'[Len(Digits(r)) + 1] = NewLine
        /\ \A j \in 1 .. Len(Digits(r)) : unsent'[j] = Digits(r)[j]
    BY <1>2, <2>1, <2>2
  <2> QED
    BY <2>2, <2>3 DEF OneLine, Last
<1>4. Reported(Text' \o unsent')
  <2>1. Reported(Text) /\ (Text = <<>> \/ Text[Len(Text)] = NewLine)
    BY <1>1 DEF PipeInv, Last
  <2> QED
    BY <1>1, <1>2, <2>1, ReportedOneMore
<1>5. Last(Text' \o unsent') = NewLine
  <2>1. unsent' # <<>>
    BY <1>3 DEF OneLine
  <2> QED
    BY <1>1, <1>3, <2>1, EmptyLast
<1>6. /\ alive' = alive /\ pipe' = pipe /\ rotateBuffer' = rotateBuffer
  BY DEF PrintRotation
<1> QED
  BY <1>1, <1>3, <1>4, <1>5, <1>6 DEF PipeInv, PipeTypeOK

\* Characters are sent: one report may become complete.
LEMMA WriteKeeps ==
  ASSUME PipeInv, WritePipe
  PROVE  /\ PipeInv'
         /\ \/ Complete(Text') = Complete(Text)
            \/ \E r \in Rotations : Complete(Text') = Append(Complete(Text), r)
<1>1. PICK n \in 1 .. Len(unsent) : /\ pipe' = pipe \o SubSeq(unsent, 1, n)
                                    /\ unsent' = SubSeq(unsent, n + 1, Len(unsent))
  BY DEF WritePipe
<1> DEFINE t == SubSeq(unsent, 1, n)
           u == SubSeq(unsent, n + 1, Len(unsent))
<1>2. /\ unsent \in Seq(Characters) /\ pipe \in Seq(Characters)
      /\ rotateBuffer \in Seq(Characters) /\ Len(unsent) \in Nat /\ unsent # <<>>
      /\ OneLine(unsent)
  BY <1>1 DEF PipeInv, PipeTypeOK
<1>3. t \in Seq(Characters) /\ Len(t) = n /\ \A i \in 1 .. n : t[i] = unsent[i]
  BY <1>2
<1>4. u \in Seq(Characters) /\ Len(u) = Len(unsent) - n
      /\ \A i \in 1 .. Len(unsent) - n : u[i] = unsent[n + i]
  BY <1>2
<1>5. pipe' = pipe \o t /\ unsent' = u
  BY <1>1
<1> HIDE DEF t, u
<1>6. t \o u = unsent
  <2>1. t \o u \in Seq(Characters) /\ Len(t \o u) = Len(unsent)
    <3>1. t \o u \in Seq(Characters) /\ Len(t \o u) = Len(t) + Len(u)
      BY <1>3, <1>4, ConcatProperties
    <3> QED
      BY <1>2, <1>3, <1>4, <3>1
  <2>2. ASSUME NEW i \in 1 .. Len(unsent)
        PROVE  (t \o u)[i] = unsent[i]
    <3>1. CASE i <= n
      BY <1>2, <1>3, <1>4, <3>1
    <3>2. CASE i > n
      <4>1. i - n \in 1 .. Len(u) /\ n + (i - n) = i
        BY <1>2, <1>4, <3>2
      <4>2. (t \o u)[i] = u[i - n]
        BY <1>2, <1>3, <1>4, <3>2
      <4> QED
        BY <1>4, <4>1, <4>2
    <3>3. i <= n \/ i > n
      BY <1>2
    <3> QED
      BY <3>1, <3>2, <3>3
  <2> QED
    BY <1>2, <2>1, <2>2, SeqEqual
<1>7. Text \in Seq(Characters) /\ Text' = Text \o t /\ Text' \in Seq(Characters)
  <2>1. Text \in Seq(Characters)
    BY <1>2, ConcatProperties DEF Text
  <2>2. rotateBuffer' = rotateBuffer
    BY DEF WritePipe
  <2>3. (rotateBuffer \o pipe) \o t = rotateBuffer \o (pipe \o t)
    BY <1>2, <1>3, Joined, Zenon
  <2>4. Text' = Text \o t
    BY <1>5, <2>2, <2>3 DEF Text
  <2> QED
    BY <1>3, <2>1, <2>4, ConcatProperties
<1>8. Text' \o unsent' = Text \o unsent
  <2>1. (Text \o t) \o u = Text \o (t \o u)
    BY <1>3, <1>4, <1>7, Joined, Zenon
  <2> QED
    BY <1>5, <1>6, <1>7, <2>1
<1>9. CASE n = Len(unsent)
  <2>1. unsent' = <<>> /\ OneLine(t)
    BY <1>2, <1>3, <1>4, <1>5, <1>9 DEF OneLine
  <2>2. Reported(Text \o t)
    <3>1. Reported(Text' \o unsent')
      BY <1>8 DEF PipeInv
    <3> QED
      BY <1>4, <1>5, <1>7, <3>1, ReportedPart
  <2>3. \E r \in Rotations : Complete(Text') = Append(Complete(Text), r)
    BY <1>3, <1>7, <2>1, <2>2, CompleteOneMore
  <2> QED
    BY <1>2, <1>4, <1>5, <1>8, <2>1, <2>3, <1>7, ConcatProperties, <1>3
       DEF PipeInv, PipeTypeOK, WritePipe
<1>10. CASE n # Len(unsent)
  <2>1. \A i \in 1 .. Len(t) : t[i] # NewLine
    BY <1>2, <1>3, <1>10 DEF OneLine
  <2>2. Complete(Text') = Complete(Text)
    BY <1>3, <1>7, <2>1, CompleteUnfinished
  <2>3. OneLine(unsent')
    <3>1. Len(u) \in Nat \ {0}
      BY <1>2, <1>4, <1>10
    <3>2. ASSUME NEW i \in 1 .. Len(u)
          PROVE  u[i] = NewLine <=> i = Len(u)
      <4>1. n + i \in 1 .. Len(unsent) /\ u[i] = unsent[n + i]
            /\ (n + i = Len(unsent) <=> i = Len(u))
        BY <1>2, <1>4
      <4> QED
        BY <1>2, <4>1 DEF OneLine
    <3> QED
      BY <1>5, <3>1, <3>2 DEF OneLine
  <2> QED
    BY <1>2, <1>3, <1>4, <1>5, <1>7, <1>8, <2>2, <2>3, ConcatProperties
       DEF PipeInv, PipeTypeOK, WritePipe
<1> QED
  BY <1>9, <1>10

\* The watcher dies: what it had not sent is lost.
LEMMA DiesKeeps ==
  ASSUME PipeInv, WatcherDies
  PROVE  PipeInv' /\ Text' = Text
<1>1. /\ Text' = Text /\ unsent' = <<>> /\ ~alive' /\ alive' \in BOOLEAN /\ nreports' = nreports
      /\ pipe' = pipe /\ rotateBuffer' = rotateBuffer
  BY DEF WatcherDies, Text
<1>2. Text \in Seq(Characters) /\ unsent \in Seq(Characters) /\ <<>> \in Seq(Characters)
  BY ConcatProperties DEF Text, PipeInv, PipeTypeOK
<1>3. Reported(Text) /\ Text \o <<>> = Text
  BY <1>2, ReportedPart DEF PipeInv
<1>4. Reported(Text' \o unsent')
  BY <1>1, <1>3
<1> QED
  BY <1>1, <1>2, <1>4 DEF PipeInv, PipeTypeOK

\* What fgets returns is the front of what came.
LEMMA TextTaken ==
  ASSUME PipeInv, pipe # <<>>
  PROVE  LET rest == SubSeq(pipe, Taken + 1, Len(pipe))
         IN /\ Line \in Seq(Characters) /\ Line # <<>> /\ Len(Line) <= BufferSize
            /\ rest \in Seq(Characters) /\ Line \o rest = Text
            /\ \A i \in 1 .. Len(Line) - 1 : Line[i] # NewLine
            /\ Last(Line) = NewLine => OneLine(Line) /\ Len(Line) > 1
<1> DEFINE rest == SubSeq(pipe, Taken + 1, Len(pipe))
<1>1. /\ Line \in Seq(Characters) /\ Line # <<>> /\ Len(Line) <= BufferSize
      /\ \A i \in 1 .. Len(Line) - 1 : Line[i] # NewLine
      /\ rest \in Seq(Characters) /\ Line \o rest = Text
  BY LineTaken, BufferAssumption DEF PipeInv, PipeTypeOK, Text
<1>2. unsent \in Seq(Characters) /\ Reported(Text \o unsent) /\ Text \in Seq(Characters)
  BY ConcatProperties DEF PipeInv, PipeTypeOK, Text
<1> HIDE DEF rest
<1>3. Reported(Text)
  BY <1>2, ReportedPart
<1>4. Reported(Line)
  BY <1>1, <1>3, ReportedPart
<1>5. ASSUME Last(Line) = NewLine
      PROVE  OneLine(Line) /\ Len(Line) > 1
  <2>1. Len(Line) \in 1 .. Len(Line) /\ Line[Len(Line)] = NewLine /\ Len(Line) \in Nat
    BY <1>1, <1>5 DEF Last
  <2>2. OneLine(Line)
    BY <1>1, <2>1 DEF OneLine
  <2>3. PICK r \in Rotations : EndsReport(Line, Len(Line), r)
    BY <1>4, <2>1 DEF Reported
  <2>4. Len(Digits(r)) < Len(Line) /\ Len(Digits(r)) \in 1 .. 3
    BY <2>3, RotationDigits DEF EndsReport
  <2> QED
    BY <2>1, <2>2, <2>4
<1> QED
  BY <1>1, <1>5 DEF rest

\* fgets returns a part of a line: it stays in rotateBuffer.
LEMMA PartKeeps ==
  ASSUME PipeInv, ReadPart
  PROVE  PipeInv' /\ Text' = Text
<1>1. /\ pipe # <<>> /\ rotateBuffer' = Line /\ pipe' = SubSeq(pipe, Taken + 1, Len(pipe))
      /\ ~(Last(Line) = NewLine /\ Len(Line) > 1)
      /\ alive' = alive /\ nreports' = nreports /\ unsent' = unsent
  BY DEF ReadPart
<1> DEFINE rest == SubSeq(pipe, Taken + 1, Len(pipe))
<1>2. /\ Line \in Seq(Characters) /\ Line # <<>> /\ Len(Line) <= BufferSize
      /\ rest \in Seq(Characters) /\ Line \o rest = Text
      /\ \A i \in 1 .. Len(Line) - 1 : Line[i] # NewLine
      /\ Last(Line) # NewLine
  BY <1>1, TextTaken
<1>3. pipe' = rest
  BY <1>1
<1> HIDE DEF rest
<1>4. Text' = Text
  BY <1>1, <1>2, <1>3 DEF Text
<1>5. \A i \in 1 .. Len(rotateBuffer') : rotateBuffer'[i] # NewLine
  <2>1. Len(Line) \in Nat /\ Line[Len(Line)] # NewLine
    BY <1>2 DEF Last
  <2>2. \A i \in 1 .. Len(Line) : i \in 1 .. Len(Line) - 1 \/ i = Len(Line)
    BY <2>1
  <2> QED
    BY <1>1, <1>2, <2>1, <2>2
<1> QED
  BY <1>1, <1>2, <1>3, <1>4, <1>5 DEF PipeInv, PipeTypeOK

\* A line is read: the oldest report that is complete.
LEMMA LineKeeps ==
  ASSUME PipeInv, ReadLine
  PROVE  /\ PipeInv'
         /\ Atoi(Front(Line)) \in Rotations
         /\ Complete(Text) # <<>> /\ Head(Complete(Text)) = Atoi(Front(Line))
         /\ Complete(Text') = Tail(Complete(Text))
<1>1. /\ pipe # <<>> /\ rotateBuffer' = <<>> /\ pipe' = SubSeq(pipe, Taken + 1, Len(pipe))
      /\ Last(Line) = NewLine
      /\ alive' = alive /\ nreports' = nreports /\ unsent' = unsent
  BY DEF ReadLine
<1> DEFINE rest == SubSeq(pipe, Taken + 1, Len(pipe))
<1>2. /\ Line \in Seq(Characters) /\ Line # <<>> /\ OneLine(Line)
      /\ rest \in Seq(Characters) /\ Line \o rest = Text
  BY <1>1, TextTaken
<1>3. pipe' = rest
  BY <1>1
<1> HIDE DEF rest
<1>4. Text' = rest
  BY <1>1, <1>2, <1>3 DEF Text
<1>5. /\ unsent \in Seq(Characters) /\ Reported(Text \o unsent)
      /\ rest \o unsent \in Seq(Characters)
  BY <1>2, ConcatProperties DEF PipeInv, PipeTypeOK
<1>6. Text \o unsent = Line \o (rest \o unsent)
  <2>1. (Line \o rest) \o unsent = Line \o (rest \o unsent)
    BY <1>2, <1>5, Joined, Zenon
  <2> QED
    BY <1>2, <2>1
<1>7. Reported(rest \o unsent)
  BY <1>1, <1>2, <1>5, <1>6, ReportedRest DEF Last
<1>8. rest \o unsent # <<>> => Last(rest \o unsent) = Last(Text \o unsent) /\ Text \o unsent # <<>>
  BY <1>2, <1>5, <1>6, EmptyLast
<1>9. PipeInv'
  <2>1. <<>> \in Seq(Characters) /\ Len(<<>>) = 0
    OBVIOUS
  <2>2. Reported(Text' \o unsent')
    BY <1>1, <1>4, <1>7
  <2>3. alive' /\ Text' \o unsent' # <<>> => Last(Text' \o unsent') = NewLine
    BY <1>1, <1>4, <1>8 DEF PipeInv
  <2>4. PipeTypeOK'
    <3>1. PipeTypeOK
      BY DEF PipeInv
    <3>2. rotateBuffer' \in Seq(Characters) /\ Len(rotateBuffer') <= BufferSize
      BY <1>1, <2>1, BufferAssumption
    <3> QED
      BY <1>1, <1>2, <1>3, <3>1, <3>2 DEF PipeTypeOK
  <2> QED
    BY <1>1, <2>1, <2>2, <2>3, <2>4 DEF PipeInv
<1>10. Reported(Line)
  <2>1. Line \o (rest \o unsent) = Text \o unsent
    BY <1>6
  <2> QED
    BY <1>2, <1>5, <2>1, ReportedPart
<1>11. Atoi(Front(Line)) \in Rotations
  BY <1>2, <1>10, LineReports
<1>12. /\ Complete(Text) # <<>> /\ Head(Complete(Text)) = Atoi(Front(Line))
       /\ Tail(Complete(Text)) = Complete(rest)
  BY <1>2, CompleteFirst
<1> QED
  BY <1>4, <1>9, <1>11, <1>12

-----------------------------------------------------------------------------
(* The command line.                                                       *)

\* The fold of Parse: what has been read of the words in a set of places.
Greatest(s) == CHOOSE x \in s : \A y \in s : x >= y

\* The recursion that FoldLeft stands for: f[s] is what has been read of the first n
\* words at the places s.
IsFold(f, n, words) ==
  f = [s \in SUBSET (1 .. n) |->
         IF s = {} THEN Start ELSE Read(f[s \ {Greatest(s)}], words[Greatest(s)])]

\* The fold of Parse is this recursion's, for all the words.
LEMMA FoldIs ==
  ASSUME NEW words \in Seq(STRING)
  PROVE  FoldLeft(Read, Start, words) = (CHOOSE f : IsFold(f, Len(words), words))[1 .. Len(words)]
<1>1. DOMAIN words = 1 .. Len(words)
  OBVIOUS
<1> QED
  BY <1>1 DEF FoldLeft, MapThenFoldSet, IsFold, Greatest, Max

\* The greatest place.
LEMMA GreatestIs ==
  ASSUME NEW n \in Nat, NEW s \in SUBSET (1 .. n + 1), n + 1 \in s
  PROVE  Greatest(s) = n + 1
<1>1. \A y \in s : n + 1 >= y
  OBVIOUS
<1>2. Greatest(s) \in s /\ \A y \in s : Greatest(s) >= y
  BY <1>1 DEF Greatest
<1>3. Greatest(s) \in 1 .. n + 1 /\ Greatest(s) >= n + 1
  BY <1>2
<1> QED
  BY <1>3

\* The recursion has a solution, by induction over the words.
LEMMA FoldExists ==
  ASSUME NEW n \in Nat, NEW words
  PROVE  \E f : IsFold(f, n, words)
<1> DEFINE S == {m \in Nat : \E f : IsFold(f, m, words)}
<1>1. 0 \in S
  <2> DEFINE f == [s \in SUBSET (1 .. 0) |-> Start]
  <2>1. \A s \in SUBSET (1 .. 0) : s = {}
    OBVIOUS
  <2>2. IsFold(f, 0, words)
    BY <2>1 DEF IsFold
  <2> HIDE DEF f
  <2> QED
    BY <2>2
<1>2. ASSUME NEW m \in Nat, m \in S
      PROVE  m + 1 \in S
  <2>1. PICK f : IsFold(f, m, words)
    BY <1>2
  <2> DEFINE g == [s \in SUBSET (1 .. m + 1) |->
                     IF m + 1 \in s THEN Read(f[s \ {m + 1}], words[m + 1]) ELSE f[s]]
  <2>2. ASSUME NEW s \in SUBSET (1 .. m + 1)
        PROVE  g[s] = IF s = {} THEN Start
                      ELSE Read(g[s \ {Greatest(s)}], words[Greatest(s)])
    <3>1. CASE m + 1 \in s
      <4>1. Greatest(s) = m + 1
        BY <3>1, GreatestIs
      <4>2. s \ {m + 1} \in SUBSET (1 .. m + 1) /\ m + 1 \notin s \ {m + 1}
        OBVIOUS
      <4>3. g[s \ {m + 1}] = f[s \ {m + 1}] /\ g[s] = Read(f[s \ {m + 1}], words[m + 1])
        BY <3>1, <4>2
      <4> HIDE DEF g
      <4> QED
        BY <3>1, <4>1, <4>3
    <3>2. CASE m + 1 \notin s
      <4>1. s \in SUBSET (1 .. m)
        <5>1. \A i \in s : i \in 1 .. m + 1 /\ i # m + 1
          BY <3>2
        <5>2. \A i \in 1 .. m + 1 : i # m + 1 => i \in 1 .. m
          OBVIOUS
        <5> QED
          BY <5>1, <5>2
      <4>2. g[s] = f[s]
        BY <3>2
      <4>3. f[s] = IF s = {} THEN Start ELSE Read(f[s \ {Greatest(s)}], words[Greatest(s)])
        BY <2>1, <4>1 DEF IsFold
      <4>4. g[s \ {Greatest(s)}] = f[s \ {Greatest(s)}]
        <5>1. s \ {Greatest(s)} \in SUBSET (1 .. m + 1) /\ m + 1 \notin s \ {Greatest(s)}
          BY <3>2
        <5> QED
          BY <5>1
      <4> HIDE DEF g
      <4> QED
        BY <4>2, <4>3, <4>4
    <3> QED
      BY <3>1, <3>2
  <2>3. DOMAIN g = SUBSET (1 .. m + 1)
    OBVIOUS
  <2>4. g = [s \in SUBSET (1 .. m + 1) |-> g[s]]
    OBVIOUS
  <2> HIDE DEF g
  <2>5. IsFold(g, m + 1, words)
    BY <2>2, <2>4 DEF IsFold
  <2> QED
    BY <2>5
<1>3. Nat \subseteq S
  BY <1>1, <1>2, InductionOnNat
<1> QED
  BY <1>3

\* The states main goes through as it reads the words.
ReadsWords(state, words) ==
  /\ DOMAIN state = 0 .. Len(words)
  /\ state[0] = Start
  /\ \A i \in 1 .. Len(words) : state[i] = Read(state[i - 1], words[i])

\* Parse goes through such states, and returns the last.
LEMMA ParseReads ==
  ASSUME NEW words \in Seq(STRING)
  PROVE  \E state : /\ ReadsWords(state, words)
                    /\ FoldLeft(Read, Start, words) = state[Len(words)]
<1> DEFINE n == Len(words)
           f == CHOOSE g : IsFold(g, n, words)
           state == [i \in 0 .. n |-> f[1 .. i]]
<1>1. n \in Nat
  OBVIOUS
<1> HIDE DEF n
<1>2. IsFold(f, n, words)
  BY <1>1, FoldExists
<1> HIDE DEF f
<1>3. state[0] = Start
  <2>1. 1 .. 0 = {} /\ {} \in SUBSET (1 .. n)
    OBVIOUS
  <2>2. f[{}] = Start
    BY <1>2, <2>1 DEF IsFold
  <2> QED
    BY <1>1, <2>1, <2>2
<1>4. ASSUME NEW i \in 1 .. n
      PROVE  state[i] = Read(state[i - 1], words[i])
  <2>1. i - 1 \in Nat /\ i - 1 \in 0 .. n /\ i \in 0 .. n
    BY <1>1
  <2>2. 1 .. i \in SUBSET (1 .. n) /\ 1 .. i # {} /\ i \in 1 .. i
    BY <1>1
  <2>3. Greatest(1 .. i) = i
    <3>1. (i - 1) + 1 = i
      BY <2>1
    <3> QED
      BY <2>1, <2>2, <3>1, GreatestIs
  <2>4. (1 .. i) \ {i} = 1 .. i - 1
    BY <2>1
  <2>5. f[1 .. i] = Read(f[(1 .. i) \ {i}], words[i])
    BY <1>2, <2>2, <2>3 DEF IsFold
  <2> QED
    BY <2>1, <2>4, <2>5
<1>5. state[n] = f[1 .. n]
  BY <1>1
<1>6. FoldLeft(Read, Start, words) = state[n]
  BY <1>5, FoldIs DEF f, n
<1>7. DOMAIN state = 0 .. n
  OBVIOUS
<1> HIDE DEF state
<1> QED
  BY <1>3, <1>4, <1>6, <1>7 DEF ReadsWords, n

-----------------------------------------------------------------------------
(* What the options allow.                                                 *)

\* Every turn, those of an orientation, or one.
TurnChoices == {All, {0, 2}, {1, 3}} \cup {{t} : t \in All}

\* -r allows one turn or is refused.
LEMMA ForcedRotationIs ==
  ASSUME NEW word
  PROVE  ForcedRotation(word) \in {{}} \cup {{t} : t \in All}
<1>1. AtoiWord(word) \in {0, 45, 90, 180, 270, 360}
  <2>1. CASE word \in DOMAIN Degrees
    <3>1. word \in {"deg90", "deg180", "deg270", "deg360", "deg45"}
      BY <2>1 DEF Degrees
    <3> QED
      BY <2>1, <3>1 DEF AtoiWord, Degrees
  <2>2. CASE word \notin DOMAIN Degrees
    BY <2>2 DEF AtoiWord
  <2> QED
    BY <2>1, <2>2
<1> DEFINE r == AtoiWord(word)
<1>2. ForcedRotation(word) = IF r \in {0, 90, 180, 270, 360} THEN {(r \div 90) % 4} ELSE {}
  BY DEF ForcedRotation
<1>3. r \in {0, 45, 90, 180, 270, 360}
  BY <1>1
<1> HIDE DEF r
<1>4. (r \div 90) % 4 \in All
  BY <1>3 DEF All
<1> QED
  BY <1>2, <1>4

\* -o allows the two turns of an orientation or is refused.
LEMMA ForcedOrientationIs ==
  ASSUME NEW word
  PROVE  ForcedOrientation(word) \in {{}, {0, 2}, {1, 3}}
BY DEF ForcedOrientation

\* What they allow is never every turn.
LEMMA ForcedSome ==
  ASSUME NEW turns, turns # {},
         (\E word : turns = ForcedRotation(word)) \/ (\E word : turns = ForcedOrientation(word))
  PROVE  turns \in TurnChoices /\ turns # All
<1>1. turns \in {{0, 2}, {1, 3}} \cup {{t} : t \in All}
  BY ForcedRotationIs, ForcedOrientationIs
<1>2. 0 \in All /\ 1 \in All /\ 2 \in All
  BY DEF All
<1>3. turns # All
  BY <1>1, <1>2
<1> QED
  BY <1>1, <1>3 DEF TurnChoices

\* What has been read of a command line.
States == [allowed : SUBSET All, rotate180 : BOOLEAN,
           takes : {"none", "skip", "value", "-r", "-o"}, fatal : BOOLEAN]

\* Reading a word keeps this type.
LEMMA ReadType ==
  ASSUME NEW q \in States, NEW word
  PROVE  Read(q, word) \in States
<1>1. Option(q, word) \in States
  <2>1. CASE word \in {"-r", "-o"}
    BY <2>1 DEF Option, States
  <2>2. CASE word = "-z"
    BY <2>2 DEF Option, States
  <2>3. CASE word = "-P"
    BY <2>3 DEF Option, States
  <2>4. CASE word \notin {"-r", "-o", "-z", "-P"}
    BY <2>4 DEF Option
  <2> QED
    BY <2>1, <2>2, <2>3, <2>4
<1>2. \A turns \in SUBSET All : Allow(q, turns) \in States
  BY DEF Allow, States
<1>3. ForcedRotation(word) \in SUBSET All /\ ForcedOrientation(word) \in SUBSET All
  <2>1. {0, 2} \subseteq All /\ {1, 3} \subseteq All
    BY DEF All
  <2> QED
    BY <2>1, ForcedRotationIs, ForcedOrientationIs
<1>4. Value(q, word) \in States
  <2>1. CASE q.takes = "-r"
    BY <1>2, <1>3, <2>1 DEF Value
  <2>2. CASE q.takes = "-o"
    BY <1>2, <1>3, <2>2 DEF Value
  <2>3. CASE q.takes \notin {"-r", "-o"}
    BY <2>3 DEF Value, States
  <2> QED
    BY <2>1, <2>2, <2>3
<1> QED
  BY <1>1, <1>4 DEF Read

\* Unless it is refused, what has been read allows some turn.
LEMMA StatesRead ==
  ASSUME NEW words \in Seq(STRING), NEW state, ReadsWords(state, words)
  PROVE  \A i \in 0 .. Len(words) :
           state[i] \in States /\ (state[i].fatal \/ state[i].allowed \in TurnChoices)
<1> DEFINE Good(q) == q \in States /\ (q.fatal \/ q.allowed \in TurnChoices)
           n == Len(words)
           S == {i \in 0 .. n : Good(state[i])}
<1>1. Good(Start)
  BY DEF Start, States, TurnChoices
<1>2. ASSUME NEW q, Good(q), NEW word
      PROVE  Good(Read(q, word))
  <2>1. Read(q, word) \in States
    BY <1>2, ReadType
  <2>2. CASE q.fatal
    BY <1>2, <2>2 DEF Read
  <2>3. CASE ~q.fatal /\ q.takes = "none"
    <3>1. Option(q, word).allowed = q.allowed
      BY <1>2 DEF Option, States
    <3> QED
      BY <1>2, <2>1, <2>3, <3>1 DEF Read
  <2>4. CASE ~q.fatal /\ q.takes # "none"
    <3>1. Read(q, word) = Value(q, word)
      BY <2>4 DEF Read
    <3>2. CASE q.takes = "-r"
      <4>1. /\ Value(q, word).allowed = ForcedRotation(word)
            /\ Value(q, word).fatal = (ForcedRotation(word) = {})
        BY <1>2, <3>2 DEF Value, Allow, States
      <4> QED
        BY <2>1, <3>1, <4>1, ForcedSome
    <3>3. CASE q.takes = "-o"
      <4>1. /\ Value(q, word).allowed = ForcedOrientation(word)
            /\ Value(q, word).fatal = (ForcedOrientation(word) = {})
        BY <1>2, <3>3 DEF Value, Allow, States
      <4> QED
        BY <2>1, <3>1, <4>1, ForcedSome
    <3>4. CASE q.takes \notin {"-r", "-o"}
      <4>1. Value(q, word).allowed = q.allowed /\ Value(q, word).fatal = q.fatal
        BY <1>2, <3>4 DEF Value, States
      <4> QED
        BY <1>2, <2>1, <2>4, <3>1, <4>1
    <3> QED
      BY <3>2, <3>3, <3>4
  <2> QED
    BY <2>2, <2>3, <2>4
<1> HIDE DEF Good
<1>3. n \in Nat
  OBVIOUS
<1>4. 0 \in S
  BY <1>1, <1>3 DEF ReadsWords
<1>5. ASSUME NEW i \in 0 .. n, i \in S, i < n
      PROVE  i + 1 \in S
  <2>1. i + 1 \in 1 .. n /\ (i + 1) - 1 = i /\ i + 1 \in 0 .. n
    BY <1>3, <1>5
  <2>2. state[i + 1] = Read(state[i], words[i + 1])
    BY <2>1 DEF ReadsWords
  <2> QED
    BY <1>2, <1>5, <2>1, <2>2
<1>6. 0 .. n \subseteq S
  BY <1>3, <1>4, <1>5, InductionUpTo
<1> QED
  BY <1>6 DEF Good

\* A command line that is accepted allows some turn.
LEMMA ParseType ==
  ASSUME NEW words \in Seq(STRING)
  PROVE  /\ Parse(words).fatal \in BOOLEAN
         /\ ~Parse(words).fatal =>
              Parse(words).allowed \in TurnChoices /\ Parse(words).rotate180 \in BOOLEAN
<1>1. PICK state : /\ ReadsWords(state, words)
                   /\ FoldLeft(Read, Start, words) = state[Len(words)]
  BY ParseReads
<1> DEFINE end == state[Len(words)]
<1>2. end \in States /\ (end.fatal \/ end.allowed \in TurnChoices)
  <2>1. Len(words) \in 0 .. Len(words)
    OBVIOUS
  <2> QED
    BY <1>1, <2>1, StatesRead
<1>3. Parse(words) = [end EXCEPT !.fatal = @ \/ end.takes \notin {"none", "skip"}]
  BY <1>1 DEF Parse
<1> HIDE DEF end
<1>4. /\ Parse(words).fatal = (end.fatal \/ end.takes \notin {"none", "skip"})
      /\ Parse(words).allowed = end.allowed /\ Parse(words).rotate180 = end.rotate180
  BY <1>2, <1>3 DEF States
<1> QED
  BY <1>2, <1>4 DEF States

-----------------------------------------------------------------------------
\* The options that take a value.
Valued == {"-r", "-o", "-P"}

\* Where an option is expected: is, as OptionAt defines it.
Expected(is, words) ==
  /\ is \in [Nat -> BOOLEAN]
  /\ is[1]
  /\ \A i \in Nat \ {0} : is[i + 1] <=> ~(is[i] /\ words[i] \in Valued)

\* The recursion of OptionAt has a solution, which says where options are.
LEMMA OptionPlaces ==
  ASSUME NEW words \in Seq(STRING)
  PROVE  \E is : Expected(is, words) /\ OptionAt(words) = {i \in DOMAIN words : is[i]}
<1> DEFINE Here(f, i) == i = 1 \/ (i > 1 /\ ~(f[i - 1] /\ words[i - 1] \in {"-r", "-o", "-P"}))
           IsPlaces(f) == f = [i \in Nat |-> Here(f, i)]
           step == [q \in Nat \X BOOLEAN |->
                      q[1] = 1 \/ (q[1] > 1 /\ ~(q[2] /\ words[q[1] - 1] \in {"-r", "-o", "-P"}))]
<1>1. step \in [Nat \X BOOLEAN -> BOOLEAN]
  OBVIOUS
<1>2. \A i \in Nat, b \in BOOLEAN :
        step[<<i, b>>] = (i = 1 \/ (i > 1 /\ ~(b /\ words[i - 1] \in {"-r", "-o", "-P"})))
  OBVIOUS
<1> HIDE DEF step
<1>3. FALSE \in BOOLEAN
  OBVIOUS
<1>4. PICK f : RecursiveOnNat(f, BOOLEAN, FALSE, step)
  BY <1>1, <1>3, RecursionOnNat, Zenon
<1>5. f \in [Nat -> BOOLEAN] /\ f[0] = FALSE
      /\ \A i \in Nat \ {0} : f[i] = step[<<i, f[i - 1]>>]
  BY <1>4 DEF RecursiveOnNat
<1>6. IsPlaces(f)
  <2>1. ASSUME NEW i \in Nat
        PROVE  f[i] = Here(f, i)
    <3>1. CASE i = 0
      <4>1. Here(f, i) = FALSE
        BY <3>1
      <4> QED
        BY <1>5, <3>1, <4>1
    <3>2. CASE i # 0
      <4>1. i - 1 \in Nat /\ i \in Nat \ {0}
        BY <3>2
      <4>2. f[i - 1] \in BOOLEAN
        BY <1>5, <4>1
      <4> QED
        BY <1>2, <1>5, <4>1, <4>2
    <3> QED
      BY <3>1, <3>2
  <2> QED
    BY <1>5, <2>1
<1> DEFINE is == CHOOSE g : IsPlaces(g)
<1>7. OptionAt(words) = {i \in DOMAIN words : is[i]}
  BY DEF OptionAt
<1> HIDE DEF IsPlaces
<1>8. IsPlaces(is)
  BY <1>6
<1> HIDE DEF is
<1>9. is = [i \in Nat |-> Here(is, i)]
  BY <1>8 DEF IsPlaces
<1>10. \A i \in Nat : is[i] = Here(is, i)
  BY <1>9
<1>11. is \in [Nat -> BOOLEAN]
  <2>1. \A i \in Nat : Here(is, i) \in BOOLEAN
    OBVIOUS
  <2> HIDE DEF Here
  <2> QED
    BY <1>9, <2>1
<1>12. is[1]
  <2>1. Here(is, 1)
    OBVIOUS
  <2> QED
    BY <1>10, <2>1
<1>13. ASSUME NEW i \in Nat \ {0}
       PROVE  is[i + 1] <=> ~(is[i] /\ words[i] \in Valued)
  <2>1. i + 1 \in Nat /\ i + 1 # 1 /\ i + 1 > 1 /\ (i + 1) - 1 = i
    OBVIOUS
  <2>2. Here(is, i + 1) <=> ~(is[i] /\ words[i] \in Valued)
    BY <2>1 DEF Valued
  <2>3. is[i + 1] = Here(is, i + 1)
    BY <1>10, <2>1
  <2> QED
    BY <2>2, <2>3
<1> QED
  BY <1>7, <1>11, <1>12, <1>13 DEF Expected

-----------------------------------------------------------------------------
\* What q, read of the first i words, says of them.
Meant(q, i, is, words) ==
  /\ q.takes \in {"none", "skip"} <=> is[i + 1]
  /\ q.takes = "skip" => i >= 1 /\ words[i] = "-z"
  /\ q.takes = "value" => words[i] = "-P"
  /\ q.takes \in {"-r", "-o"} => q.takes = words[i] /\ q.allowed = All
  /\ q.rotate180 <=> \E j \in 1 .. i : is[j] /\ words[j] = "-z"
  /\ \A j \in 1 .. i - 1 : is[j] /\ words[j] = "-r" => q.allowed = ForcedRotation(words[j + 1])
  /\ \A j \in 1 .. i - 1 : is[j] /\ words[j] = "-o" => q.allowed = ForcedOrientation(words[j + 1])
  /\ (\A j \in 1 .. i : is[j] => words[j] \notin {"-r", "-o"}) => q.allowed = All

\* Reading the next word keeps what was meant.
LEMMA OneMeant ==
  ASSUME NEW words \in Seq(STRING), ZLast(words), NEW is, Expected(is, words),
         NEW i \in Nat, i < Len(words), NEW q \in States, Meant(q, i, is, words),
         ~Read(q, words[i + 1]).fatal
  PROVE  q.fatal \/ Meant(Read(q, words[i + 1]), i + 1, is, words)
<1> DEFINE w == words[i + 1]
           p == Read(q, w)
<1> SUFFICES ASSUME ~q.fatal PROVE Meant(p, i + 1, is, words)
  OBVIOUS
<1>1. /\ i + 1 \in 1 .. Len(words) /\ i + 1 \in Nat \ {0} /\ (i + 1) + 1 = i + 2
      /\ (i + 1) - 1 = i /\ Len(words) \in Nat
      /\ 1 .. i + 1 = (1 .. i) \cup {i + 1}
      /\ i # 0 => 1 .. i = (1 .. i - 1) \cup {i} /\ i \in 1 .. i /\ i \in Nat \ {0}
      /\ i = 0 => 1 .. i = {}
  OBVIOUS
<1>2. /\ is[i + 1] \in BOOLEAN /\ is[i + 2] <=> ~(is[i + 1] /\ w \in Valued)
  BY <1>1 DEF Expected
<1>3. i # 0 => (is[i + 1] <=> ~(is[i] /\ words[i] \in Valued))
  BY <1>1 DEF Expected
<1>4. p \in States
  BY ReadType
<1>5. \A word : ForcedRotation(word) # All /\ ForcedOrientation(word) # All
  <2>1. {0, 2} # All /\ {1, 3} # All /\ {} # All /\ \A t \in All : {t} # All
    <3>1. 0 \in All /\ 1 \in All
      BY DEF All
    <3>2. 1 \notin {0, 2} /\ 0 \notin {1, 3} /\ \A t : ~(0 \in {t} /\ 1 \in {t})
      OBVIOUS
    <3> QED
      BY <3>1, <3>2
  <2> QED
    BY <2>1, ForcedRotationIs, ForcedOrientationIs
\* An option is read.
<1>6. CASE q.takes = "none"
  <2>1. p = Option(q, w) /\ is[i + 1] /\ ~p.fatal
    BY <1>6 DEF Read, Meant
  <2>2. i # 0 => ~(is[i] /\ words[i] \in {"-r", "-o"})
    BY <1>3, <2>1 DEF Valued
  <2> HIDE DEF w
  <2>3. CASE w \in {"-r", "-o"}
    <3>1. /\ p.takes = w /\ p.allowed = q.allowed /\ p.rotate180 = q.rotate180
          /\ p.fatal = (q.allowed # All)
      BY <2>1, <2>3 DEF Option, States
    <3>2. q.allowed = All
      BY <2>1, <3>1
    <3>3. w \in Valued /\ w # "-z" /\ w # "skip" /\ w # "none"
      BY <2>3 DEF Valued
    <3> HIDE DEF p
    <3>4. p.takes \in {"none", "skip"} <=> is[i + 2]
      BY <1>2, <2>1, <3>1, <3>3
    <3>5. p.rotate180 <=> \E j \in 1 .. i + 1 : is[j] /\ words[j] = "-z"
      BY <1>1, <3>1, <3>3 DEF Meant, w
    <3>6. /\ \A j \in 1 .. i : is[j] /\ words[j] = "-r" => p.allowed = ForcedRotation(words[j + 1])
          /\ \A j \in 1 .. i : is[j] /\ words[j] = "-o" => p.allowed = ForcedOrientation(words[j + 1])
      BY <1>1, <2>2, <3>1 DEF Meant
    <3> QED
      BY <1>1, <2>3, <3>1, <3>2, <3>3, <3>4, <3>5, <3>6 DEF Meant, w
  <2>4. CASE w \notin {"-r", "-o"}
    <3>1. /\ p.allowed = q.allowed
          /\ p.takes = (IF w = "-z" THEN "skip" ELSE IF w = "-P" THEN "value" ELSE "none")
          /\ p.rotate180 = (IF w = "-z" THEN TRUE ELSE q.rotate180)
      <4>1. CASE w = "-z"
        BY <2>1, <2>4, <4>1 DEF Option, States
      <4>2. CASE w = "-P"
        BY <2>1, <2>4, <4>2 DEF Option, States
      <4>3. CASE w # "-z" /\ w # "-P"
        BY <1>6, <2>1, <2>4, <4>3 DEF Option, States
      <4> QED
        BY <4>1, <4>2, <4>3
    <3> HIDE DEF p
    <3>2. p.takes \in {"none", "skip"} <=> is[i + 2]
      BY <1>2, <2>1, <2>4, <3>1 DEF Valued
    <3>3. p.rotate180 <=> \E j \in 1 .. i + 1 : is[j] /\ words[j] = "-z"
      <4>1. CASE w = "-z"
        BY <1>1, <2>1, <3>1, <4>1 DEF w
      <4>2. CASE w # "-z"
        BY <1>1, <3>1, <4>2 DEF Meant, w
      <4> QED
        BY <4>1, <4>2
    <3>4. /\ \A j \in 1 .. i : is[j] /\ words[j] = "-r" => p.allowed = ForcedRotation(words[j + 1])
          /\ \A j \in 1 .. i : is[j] /\ words[j] = "-o" => p.allowed = ForcedOrientation(words[j + 1])
      BY <1>1, <2>2, <3>1 DEF Meant
    <3>5. (\A j \in 1 .. i + 1 : is[j] => words[j] \notin {"-r", "-o"}) => p.allowed = All
      BY <1>1, <3>1 DEF Meant
    <3>6. /\ p.takes = "skip" => i + 1 >= 1 /\ words[i + 1] = "-z"
          /\ p.takes = "value" => words[i + 1] = "-P"
          /\ p.takes \notin {"-r", "-o"}
      BY <1>1, <3>1 DEF w
    <3> QED
      BY <1>1, <3>2, <3>3, <3>4, <3>5, <3>6 DEF Meant
  <2> QED
    BY <2>3, <2>4
\* The value of -r or -o.
<1>7. CASE q.takes \in {"-r", "-o"}
  <2>1. p = Value(q, w) /\ ~is[i + 1] /\ is[i + 2]
    BY <1>2, <1>7 DEF Read, Meant
  <2>2. /\ i # 0 /\ is[i] /\ words[i] = q.takes /\ q.allowed = All
    <3>1. i # 0
      BY <2>1 DEF Expected
    <3> QED
      BY <1>1, <1>3, <1>7, <2>1, <3>1 DEF Meant
  <2>3. \A j \in 1 .. i - 1 : ~(is[j] /\ words[j] \in {"-r", "-o"})
    BY <1>5, <2>2 DEF Meant
  <2>4. /\ p.takes = "none" /\ p.rotate180 = q.rotate180
        /\ q.takes = "-r" => p.allowed = ForcedRotation(w)
        /\ q.takes = "-o" => p.allowed = ForcedOrientation(w)
    <3>1. \A turns : /\ Allow(q, turns).takes = "none" /\ Allow(q, turns).allowed = turns
                     /\ Allow(q, turns).rotate180 = q.rotate180
      BY DEF Allow, States
    <3>2. q.takes = "-r" => p = Allow(q, ForcedRotation(w))
      BY <2>1 DEF Value
    <3>3. q.takes = "-o" => p = Allow(q, ForcedOrientation(w))
      BY <2>1 DEF Value
    <3> QED
      BY <1>7, <3>1, <3>2, <3>3
  <2> HIDE DEF p
  <2>5. p.rotate180 <=> \E j \in 1 .. i + 1 : is[j] /\ words[j] = "-z"
    BY <1>1, <2>1, <2>4 DEF Meant
  <2>6. /\ \A j \in 1 .. i : is[j] /\ words[j] = "-r" => p.allowed = ForcedRotation(words[j + 1])
        /\ \A j \in 1 .. i : is[j] /\ words[j] = "-o" => p.allowed = ForcedOrientation(words[j + 1])
    BY <1>1, <1>7, <2>2, <2>3, <2>4
  <2>7. ~ \A j \in 1 .. i + 1 : is[j] => words[j] \notin {"-r", "-o"}
    BY <1>1, <1>7, <2>2
  <2> QED
    BY <1>1, <2>1, <2>4, <2>5, <2>6, <2>7 DEF Meant
\* A word that is passed over.
<1>8. CASE q.takes \in {"skip", "value"}
  <2>1. /\ p = Value(q, w) /\ p.takes = "none" /\ p.allowed = q.allowed
        /\ p.rotate180 = q.rotate180
    <3>1. p = Value(q, w)
      BY <1>8 DEF Read
    <3> QED
      BY <1>8, <3>1 DEF Value, States
  <2>2. (w \notin Valued /\ w # "-z") \/ ~is[i + 1]
    <3>1. CASE q.takes = "skip"
      <4>1. i >= 1 /\ words[i] = "-z"
        BY <3>1 DEF Meant
      <4>2. i \in DOMAIN words
        BY <1>1, <4>1
      <4>3. w \notin {"-r", "-o", "-z", "-P", "-f"}
        BY <4>1, <4>2 DEF ZLast
      <4> QED
        BY <4>3 DEF Valued
    <3>2. CASE q.takes = "value"
      BY <3>2 DEF Meant
    <3> QED
      BY <1>8, <3>1, <3>2
  <2>3. is[i + 2]
    BY <1>2, <2>2
  <2> HIDE DEF p
  <2>4. i # 0 => ~(is[i] /\ words[i] \in {"-r", "-o"})
    <3>1. CASE q.takes = "skip"
      BY <3>1 DEF Meant
    <3>2. CASE q.takes = "value"
      BY <3>2 DEF Meant
    <3> QED
      BY <1>8, <3>1, <3>2
  <2> QED
    BY <1>1, <2>1, <2>2, <2>3, <2>4 DEF Meant, Valued
<1> QED
  BY <1>6, <1>7, <1>8 DEF States

\* A command line that is accepted is given its meaning.
LEMMA ParseHonours ==
  ASSUME NEW words \in Seq(STRING), ZLast(words), ~Parse(words).fatal
  PROVE  Honours(words, Parse(words).allowed, Parse(words).rotate180)
<1>1. PICK state : /\ ReadsWords(state, words)
                   /\ FoldLeft(Read, Start, words) = state[Len(words)]
  BY ParseReads
<1>2. PICK is : Expected(is, words) /\ OptionAt(words) = {i \in DOMAIN words : is[i]}
  BY OptionPlaces
<1> DEFINE n == Len(words)
           Good(i) == state[i].fatal \/ Meant(state[i], i, is, words)
           S == {i \in 0 .. n : Good(i)}
<1>3. n \in Nat /\ DOMAIN words = 1 .. n
  OBVIOUS
<1>4. 0 \in S
  <2>1. Meant(Start, 0, is, words)
    <3>1. /\ 1 .. 0 = {} /\ 1 .. (0 - 1) = {} /\ is[0 + 1]
          /\ Start.takes = "none" /\ Start.rotate180 = FALSE /\ Start.allowed = All
      BY <1>2 DEF Expected, Start
    <3> QED
      BY <3>1 DEF Meant
  <2> QED
    BY <1>1, <1>3, <2>1 DEF ReadsWords
<1>5. ASSUME NEW i \in 0 .. n, i \in S, i < n
      PROVE  i + 1 \in S
  <2>1. i + 1 \in 1 .. n /\ (i + 1) - 1 = i /\ i + 1 \in 0 .. n /\ i \in Nat
    BY <1>3, <1>5
  <2>2. state[i + 1] = Read(state[i], words[i + 1]) /\ state[i] \in States
    BY <1>1, <2>1, StatesRead DEF ReadsWords
  <2>3. CASE state[i].fatal
    <3>1. state[i + 1] = state[i]
      BY <2>2, <2>3 DEF Read
    <3> QED
      BY <2>1, <2>3, <3>1
  <2>4. CASE ~state[i].fatal
    <3>1. Meant(state[i], i, is, words)
      BY <1>5, <2>4
    <3>2. state[i + 1].fatal \/ Meant(state[i + 1], i + 1, is, words)
      BY <1>2, <1>5, <2>1, <2>2, <2>4, <3>1, OneMeant
    <3> QED
      BY <2>1, <3>2
  <2> QED
    BY <2>3, <2>4
<1> HIDE DEF Good
<1>6. 0 .. n \subseteq S
  BY <1>3, <1>4, <1>5, InductionUpTo
<1> DEFINE end == state[n]
<1>7. end \in States /\ Good(n)
  BY <1>1, <1>3, <1>6, StatesRead
<1>8. Parse(words) = [end EXCEPT !.fatal = @ \/ end.takes \notin {"none", "skip"}]
  BY <1>1 DEF Parse
<1> HIDE DEF end
<1>9. /\ ~end.fatal /\ end.takes \in {"none", "skip"}
      /\ Parse(words).allowed = end.allowed /\ Parse(words).rotate180 = end.rotate180
  BY <1>7, <1>8 DEF States
<1>10. Meant(end, n, is, words)
  BY <1>7, <1>9 DEF Good, end
<1> DEFINE at == OptionAt(words)
<1>11. /\ at = {i \in 1 .. n : is[i]} /\ is[n + 1]
       /\ n # 0 => ~(is[n] /\ words[n] \in Valued)
  BY <1>2, <1>3, <1>9, <1>10 DEF Meant, Expected
<1>12. \A i \in at : words[i] \in {"-r", "-o"} => i \in 1 .. n - 1 /\ is[i]
  BY <1>3, <1>11 DEF Valued
<1>13. \A i : i \in at <=> i \in 1 .. n /\ is[i]
  BY <1>11
<1> HIDE DEF at
<1>14. end.rotate180 <=> \E i \in at : words[i] = "-z"
  BY <1>10, <1>13 DEF Meant
<1>15. /\ \A i \in at : words[i] = "-r" =>
            i < n /\ end.allowed = ForcedRotation(words[i + 1])
       /\ \A i \in at : words[i] = "-o" =>
            i < n /\ end.allowed = ForcedOrientation(words[i + 1])
  BY <1>3, <1>10, <1>12 DEF Meant
<1>16. (\A i \in at : words[i] \notin {"-r", "-o"}) => end.allowed = All
  BY <1>10, <1>13 DEF Meant
<1> QED
  BY <1>9, <1>14, <1>15, <1>16 DEF Honours, at

-----------------------------------------------------------------------------
(* What the screen shows of the panel.                                     *)

\* The dimensions of the panel's picture at turn t.
Across(t) == IF t \in {0, 2} THEN Width ELSE Height
Down(t)   == IF t \in {0, 2} THEN Height ELSE Width
Size(t)   == [width |-> Across(t), height |-> Down(t)]

\* The panel at each turn is the one before, a quarter turned.
LEMMA PanelTurned ==
  ASSUME NEW f \in ROT_ALL
  PROVE  /\ Panel[f] \in Pictures(Across(f), Down(f))
         /\ Panel[(f + 1) % 4] = QuarterTurn(Panel[f])
<1> USE PanelAssumption
<1> DEFINE t == Capture(Width, Height)
<1>1. t[0] \in Pictures(Width, Height) /\ \A s \in Nat : t[s + 1] = QuarterTurn(t[s])
  BY Captured
<1>2. Panel = [s \in ROT_ALL |-> t[s]]
  BY DEF Panel
<1> HIDE DEF t
<1>3. t[1] = QuarterTurn(t[0]) /\ t[2] = QuarterTurn(t[1]) /\ t[3] = QuarterTurn(t[2])
  <2>1. 0 + 1 = 1 /\ 1 + 1 = 2 /\ 2 + 1 = 3
    OBVIOUS
  <2>2. t[0 + 1] = QuarterTurn(t[0]) /\ t[1 + 1] = QuarterTurn(t[1]) /\ t[2 + 1] = QuarterTurn(t[2])
    BY <1>1
  <2> QED
    BY <2>1, <2>2
<1>4. t[1] \in Pictures(Height, Width) /\ t[2] \in Pictures(Width, Height)
      /\ t[3] \in Pictures(Height, Width)
  <2>1. t[1] \in Pictures(Height, Width)
    BY <1>1, <1>3, QuarterTurned
  <2>2. t[2] \in Pictures(Width, Height)
    BY <1>3, <2>1, QuarterTurned
  <2> QED
    BY <1>3, <2>1, <2>2, QuarterTurned
<1>5. QuarterTurn(t[3]) = t[0]
  BY <1>1, <1>3, FullyTurned
<1>6. Panel[0] = t[0] /\ Panel[1] = t[1] /\ Panel[2] = t[2] /\ Panel[3] = t[3]
  BY <1>2 DEF ROT_ALL
<1>7. f \in {0, 1, 2, 3}
  BY DEF ROT_ALL
<1>8. CASE f = 0
  <2>1. (f + 1) % 4 = 1 /\ Across(f) = Width /\ Down(f) = Height
    BY <1>8 DEF Across, Down
  <2> QED
    BY <1>1, <1>3, <1>6, <1>8, <2>1
<1>9. CASE f = 1
  <2>1. (f + 1) % 4 = 2 /\ Across(f) = Height /\ Down(f) = Width
    BY <1>9 DEF Across, Down
  <2> QED
    BY <1>3, <1>4, <1>6, <1>9, <2>1
<1>10. CASE f = 2
  <2>1. (f + 1) % 4 = 3 /\ Across(f) = Width /\ Down(f) = Height
    BY <1>10 DEF Across, Down
  <2> QED
    BY <1>3, <1>4, <1>6, <1>10, <2>1
<1>11. CASE f = 3
  <2>1. (f + 1) % 4 = 0 /\ Across(f) = Height /\ Down(f) = Width
    BY <1>11 DEF Across, Down
  <2> QED
    BY <1>4, <1>5, <1>6, <1>11, <2>1
<1> QED
  BY <1>7, <1>8, <1>9, <1>10, <1>11

\* The turn at which a frame of turn f appears when it is turned clockwise.
Shown(f, rotation) == (f + (4 - rotation \div 90)) % 4

\* updateScreen shows a frame of the panel at that turn, whatever vncbuf held.
LEMMA PanelShown ==
  ASSUME NEW f \in ROT_ALL, NEW rotation \in {0, 90, 180, 270},
         NEW buf, DOMAIN buf = Pixels(Width, Height)
  PROVE  /\ Shown(f, rotation) \in ROT_ALL
         /\ UpdateScreen(buf, rotation, Panel[f]) = Panel[Shown(f, rotation)].pixel
<1> USE PanelAssumption
<1> DEFINE w == Across(f)
           h == Down(f)
           n1 == (f + 1) % 4
           n2 == (f + 2) % 4
           n3 == (f + 3) % 4
<1>1. w \in Nat \ {0} /\ h \in Nat \ {0} /\ Pixels(w, h) = Pixels(Width, Height)
      /\ Pixels(h, w) = Pixels(w, h)
  BY DEF Across, Down, Pixels
<1>2. f \in {0, 1, 2, 3}
  BY DEF ROT_ALL
<1>3. /\ n1 \in ROT_ALL /\ n2 \in ROT_ALL /\ n3 \in ROT_ALL
      /\ n2 = (n1 + 1) % 4 /\ f = (n3 + 1) % 4 /\ f % 4 = f
  BY <1>2 DEF ROT_ALL
<1>4. Across(n3) = h /\ Down(n3) = w
  <2>1. n3 \in {0, 2} <=> f \notin {0, 2}
    BY <1>2
  <2> HIDE DEF n3
  <2> QED
    BY <2>1 DEF Across, Down
<1> HIDE DEF w, h
<1>5. Panel[f] \in Pictures(w, h) /\ Panel[n1] = QuarterTurn(Panel[f])
  BY PanelTurned DEF w, h
<1> HIDE DEF n1, n2, n3
<1>6. Panel[n2] = QuarterTurn(Panel[n1])
  BY <1>3, PanelTurned
<1>7. Panel[n3] \in Pictures(h, w) /\ Panel[f] = QuarterTurn(Panel[n3])
  BY <1>3, <1>4, PanelTurned
<1>8. CASE rotation = 0
  <2>1. Shown(f, rotation) = f
    BY <1>2, <1>8 DEF Shown
  <2> QED
    BY <1>1, <1>5, <1>8, <2>1, PictureTurned
<1>9. CASE rotation = 90
  <2>1. Shown(f, rotation) = n3
    BY <1>2, <1>9 DEF Shown, n3
  <2>2. UpdateScreen(buf, 90, QuarterTurn(Panel[n3])) = Panel[n3].pixel
    BY <1>1, <1>7, PictureTurned
  <2> QED
    BY <1>3, <1>7, <1>9, <2>1, <2>2
<1>10. CASE rotation = 180
  <2>1. Shown(f, rotation) = n2
    BY <1>2, <1>10 DEF Shown, n2
  <2>2. UpdateScreen(buf, 180, Panel[f]) = QuarterTurn(QuarterTurn(Panel[f])).pixel
    BY <1>1, <1>5, PictureTurned
  <2> QED
    BY <1>3, <1>5, <1>6, <1>10, <2>1, <2>2
<1>11. CASE rotation = 270
  <2>1. Shown(f, rotation) = n1
    BY <1>2, <1>11 DEF Shown, n1
  <2>2. UpdateScreen(buf, 270, Panel[f]) = QuarterTurn(Panel[f]).pixel
    BY <1>1, <1>5, PictureTurned
  <2> QED
    BY <1>3, <1>5, <1>11, <2>1, <2>2
<1> QED
  BY <1>8, <1>9, <1>10, <1>11

\* What Wanted says for turns that are allowed, with half a turn or without.
WantedAt(turns, half, f) ==
  LET w == IF f \in turns THEN {f} ELSE turns
  IN IF half THEN {(s + 2) % 4 : s \in w} ELSE w

\* getImageRotation for a frame of turn f shows it at a turn that is wanted, in
\* the picture's own dimensions, which are those of the allowed turns.
LEMMA RotationShows ==
  ASSUME NEW turns \in TurnChoices, NEW half \in BOOLEAN, NEW f \in ROT_ALL
  PROVE  LET rotation == GetImageRotation(turns, half, 90 * f)
         IN /\ rotation \in {0, 90, 180, 270}
            /\ Shown(f, rotation) \in WantedAt(turns, half, f)
            /\ TargetSize(turns, rotation, Panel[f]) = Size(Shown(f, rotation))
            /\ turns # ROT_ALL => \A a \in turns : Size(Shown(f, rotation)) = Size(a)
<1> DEFINE rotation == GetImageRotation(turns, half, 90 * f)
<1>1. f \in {0, 1, 2, 3} /\ (90 * f) \div 90 = f
  BY DEF ROT_ALL
<1>2. \/ turns = {0, 1, 2, 3} /\ turns = ROT_ALL
      \/ turns = {0, 2} \/ turns = {1, 3}
      \/ turns = {0} \/ turns = {1} \/ turns = {2} \/ turns = {3}
  <2>1. All = {0, 1, 2, 3} /\ All = ROT_ALL
    BY DEF All, ROT_ALL
  <2> QED
    BY <2>1 DEF TurnChoices
<1> DEFINE r0 == IF f \in turns THEN 0
                 ELSE IF (f + 2) % 4 \in turns THEN 180
                 ELSE IF (f + 1) % 4 \in turns THEN 270
                 ELSE 90
<1>3. rotation = IF half THEN (r0 + 180) % 360 ELSE r0
  BY <1>1 DEF GetImageRotation
<1> DEFINE t0 == Shown(f, r0)
<1>4. /\ r0 \in {0, 90, 180, 270} /\ t0 \in {0, 1, 2, 3}
      /\ t0 = IF f \in turns THEN f
              ELSE IF (f + 2) % 4 \in turns THEN (f + 2) % 4
              ELSE IF (f + 1) % 4 \in turns THEN (f + 1) % 4
              ELSE (f + 3) % 4
      /\ (r0 \in {90, 270}) <=> (t0 \in {0, 2} <=> f \notin {0, 2})
      /\ (r0 + 180) % 360 \in {0, 90, 180, 270}
      /\ r0 \in {90, 270} <=> (r0 + 180) % 360 \in {90, 270}
      /\ Shown(f, (r0 + 180) % 360) = (t0 + 2) % 4
  BY <1>1 DEF Shown
<1>5. t0 \in turns /\ (f \in turns => t0 = f)
  BY <1>1, <1>2, <1>4
<1>6. turns = ROT_ALL => r0 \in {0, 180}
  BY DEF ROT_ALL
<1>7. turns # ROT_ALL => \A a \in turns : a \in {0, 2} <=> t0 \in {0, 2}
  BY <1>2, <1>5
<1> HIDE DEF r0, t0
<1> DEFINE t == Shown(f, rotation)
<1>8. t = (IF half THEN (t0 + 2) % 4 ELSE t0) /\ t \in {0, 1, 2, 3}
      /\ (t \in {0, 2} <=> t0 \in {0, 2})
  BY <1>3, <1>4 DEF t0
<1>9. rotation \in {0, 90, 180, 270} /\ (rotation \in {90, 270} <=> r0 \in {90, 270})
  BY <1>3, <1>4
<1> HIDE DEF rotation, t
<1>10. t \in WantedAt(turns, half, f)
  BY <1>5, <1>8 DEF WantedAt
<1>11. Panel[f].width = Across(f) /\ Panel[f].height = Down(f)
  BY PanelTurned DEF Pictures
<1>12. TargetSize(turns, rotation, Panel[f]) = Size(t)
  <2>1. Swapped(turns, rotation) <=> (t \in {0, 2} <=> f \notin {0, 2})
    BY <1>4, <1>6, <1>8, <1>9 DEF Swapped
  <2>2. /\ Swapped(turns, rotation) => Across(t) = Down(f) /\ Down(t) = Across(f)
        /\ ~Swapped(turns, rotation) => Across(t) = Across(f) /\ Down(t) = Down(f)
    BY <2>1 DEF Across, Down
  <2> QED
    BY <1>11, <2>2 DEF TargetSize, Size
<1>13. turns # ROT_ALL => \A a \in turns : Size(t) = Size(a)
  BY <1>7, <1>8 DEF Size, Across, Down
<1> QED
  BY <1>9, <1>10, <1>12, <1>13 DEF rotation, t

-----------------------------------------------------------------------------
(* The invariant.                                                          *)

\* The values of what main keeps.
MainTypeOK ==
  /\ pc \in {"argv", "start", "check", "image", "minicap", "consume", "reinit", "draw",
             "frames", "drain", "exit"}
  /\ argv \in Seq(STRING)
  /\ allowed \in TurnChoices /\ rotate180 \in BOOLEAN
  /\ changed \in BOOLEAN /\ screenRotation \in Rotations
  /\ imageRotation \in {0, 90, 180, 270}
  /\ configured \in ROT_ALL /\ frame \in ROT_ALL
  /\ ready \in BOOLEAN /\ lost \in {"no", "now", "before"}
  /\ vncscr \in {NoSize} \cup {Size(t) : t \in ROT_ALL}
  /\ vncbuf \in [Pixels(Width, Height) -> Pixels(Width, Height) \cup {NoPixel}]

\* How far main has followed a rotation; as long as its first frame was not lost, the
\* frame and the screen's size go with it.
Followed ==
  /\ pc \in {"argv", "start"} => vncscr = NoSize
  /\ pc \in {"minicap", "consume", "reinit", "draw"} =>
       imageRotation = GetImageRotation(allowed, rotate180, screenRotation)
  /\ pc \in {"consume", "reinit", "draw"} => configured = screenRotation \div 90
  /\ pc \in {"frames", "drain", "check"} =>
       imageRotation = GetImageRotation(allowed, rotate180, 90 * configured)
  /\ pc \in {"reinit", "draw", "frames", "drain", "check"} /\ lost # "now" =>
       frame = configured
  /\ pc \in {"draw", "frames", "drain", "check"} /\ lost # "now" =>
       vncscr = TargetSize(allowed, imageRotation, Panel[frame])

\* A forced orientation has one size, and it is the screen's, unless the last first
\* frame was lost and the next has not made up for it.
SizeAllowed ==
  vncscr # NoSize /\ allowed # ROT_ALL /\ pc # "exit" =>
    \/ \E a \in allowed : vncscr = Size(a)
    \/ lost = "now"
    \/ lost = "before" /\ pc = "reinit"

\* The part of the invariant about main.
MainInv == MainTypeOK /\ Followed /\ SizeAllowed /\ ImageShowsAllowed

\* The inductive invariant.
RotationInv == PipeInv /\ MainInv

\* A picture of the panel has a size.
LEMMA Sizes ==
  /\ Size(0) = [width |-> Width, height |-> Height]
  /\ \A t : Size(t) # NoSize
  /\ \A t : Size(t) \in [width : {0, Width, Height}, height : {0, Width, Height}]
  /\ NoSize \in [width : {0, Width, Height}, height : {0, Width, Height}]
BY PanelAssumption DEF Size, Across, Down, NoSize

\* The turns of a display.
LEMMA Turns ==
  ASSUME NEW r \in Rotations
  PROVE  r \div 90 \in ROT_ALL /\ 90 * (r \div 90) = r /\ r <= 360
<1>1. r \in {0, 90, 180, 270}
  BY DisplayAssumption
<1> QED
  BY <1>1 DEF ROT_ALL

\* The options leave some turn.
LEMMA ChoicesAllow ==
  ASSUME NEW turns \in TurnChoices
  PROVE  turns \in (SUBSET ROT_ALL) \ {{}}
<1>1. All = ROT_ALL /\ 0 \in ROT_ALL /\ 1 \in ROT_ALL /\ 2 \in ROT_ALL /\ 3 \in ROT_ALL
  BY DEF All, ROT_ALL
<1>2. CASE turns \in {ROT_ALL, {0, 2}, {1, 3}}
  <2>1. \A t \in turns : t \in ROT_ALL
    BY <1>1, <1>2
  <2>2. turns # {}
    BY <1>1, <1>2
  <2> QED
    BY <2>1, <2>2
<1>3. CASE turns \in {{t} : t \in ROT_ALL}
  BY <1>3
<1> QED
  BY <1>1, <1>2, <1>3 DEF TurnChoices

\* The invariant implies the types of Rotation.
LEMMA InvTypeOK == RotationInv => TypeOK
<1> SUFFICES ASSUME RotationInv PROVE TypeOK
  OBVIOUS
<1>1. vncscr \in [width : {0, Width, Height}, height : {0, Width, Height}]
  BY Sizes DEF RotationInv, MainInv, MainTypeOK
<1>2. allowed \in (SUBSET ROT_ALL) \ {{}}
  BY ChoicesAllow DEF RotationInv, MainInv, MainTypeOK
<1> QED
  BY <1>1, <1>2 DEF RotationInv, MainInv, MainTypeOK, PipeInv, PipeTypeOK, TypeOK

\* main begins with no options, no screen and the display upright.
LEMMA MainInit == Init => MainInv
<1> SUFFICES ASSUME Init PROVE MainInv
  OBVIOUS
<1>1. ROT_ALL = All /\ 0 \in ROT_ALL
  BY DEF ROT_ALL, All
<1>2. MainTypeOK
  BY <1>1, CommandsAssumption, DisplayAssumption
     DEF Init, WatcherInit, MainTypeOK, TurnChoices
<1> QED
  BY <1>2 DEF Init, MainInv, Followed, SizeAllowed, ImageShowsAllowed, Started

\* The watcher, and what fgets returns, leave all but the pipe as it was.
LEMMA PipeAside ==
  ASSUME MainInv, UNCHANGED <<pc, options, imageRotation, configured, frames, screen>>,
         changed' \in BOOLEAN, screenRotation' \in Rotations,
         pc \in {"start", "check"} \/ screenRotation' = screenRotation
  PROVE  MainInv'
BY DEF MainInv, MainTypeOK, Followed, SizeAllowed, ImageShowsAllowed, Started, Shows, View,
       Wanted, options, frames, screen

\* The command line is read before there is a screen.
LEMMA OptionsKeep ==
  ASSUME MainInv, ReadOptions
  PROVE  MainInv'
<1>1. /\ pc = "argv" /\ argv \in Seq(STRING) /\ vncscr = NoSize /\ pc' \in {"start", "exit"}
      /\ argv' = <<>> /\ UNCHANGED <<watch, imageRotation, configured, frames, screen>>
  BY DEF MainInv, MainTypeOK, Followed, ReadOptions
<1>2. allowed' \in TurnChoices /\ rotate180' \in BOOLEAN
  BY <1>1, ParseType DEF MainInv, MainTypeOK, ReadOptions
<1>3. MainTypeOK'
  <2>1. <<>> \in Seq(STRING)
    OBVIOUS
  <2> QED
    BY <1>1, <1>2, <2>1 DEF MainInv, MainTypeOK, watch, watcherVars, frames, screen
<1> QED
  BY <1>1, <1>3 DEF MainInv, Followed, SizeAllowed, ImageShowsAllowed, Started, frames, screen

\* check_rotation_change returns, or fails.
LEMMA ReturnKeeps ==
  ASSUME MainInv, pc \in {"start", "check"}, Return \/ pc' = "exit",
         UNCHANGED <<changed, screenRotation, options, imageRotation, configured, frames,
                     screen>>
  PROVE  MainInv'
<1>1. /\ pc' \in {"image", "start", "frames", "exit"}
      /\ pc' = "start" => pc = "start"
      /\ pc' = "frames" => pc = "check"
  BY DEF Return
<1>2. MainTypeOK'
  BY <1>1 DEF MainInv, MainTypeOK, options, frames, screen
<1>3. Followed'
  BY <1>1 DEF MainInv, Followed, options, frames, screen
<1>4. SizeAllowed'
  BY <1>1 DEF MainInv, SizeAllowed, options, frames, screen
<1>5. ImageShowsAllowed'
  <2>1. Started' => Started \/ vncscr = NoSize
    BY <1>1 DEF Started, MainInv, Followed, screen
  <2> QED
    BY <1>1, <2>1 DEF MainInv, ImageShowsAllowed, Started, Shows, View, Wanted, options, frames,
                      screen
<1> QED
  BY <1>2, <1>3, <1>4, <1>5 DEF MainInv

\* What the viewers see stays while main follows a rotation.
LEMMA Unseen ==
  ASSUME MainInv, UNCHANGED <<options, frame, lost, screen>>, pc \in {"image", "minicap"}
  PROVE  ImageShowsAllowed'
<1>1. Shows' = Shows
  BY DEF Shows, View, Wanted, options, screen
<1>2. Started' => Started
  BY DEF Started, screen
<1> QED
  BY <1>1, <1>2 DEF MainInv, ImageShowsAllowed

\* The rotation is computed; what the viewers see stays.
LEMMA TurnKeeps ==
  ASSUME MainInv, TurnImage
  PROVE  MainInv'
<1>1. imageRotation' \in {0, 90, 180, 270}
  <2>1. /\ screenRotation \div 90 \in ROT_ALL /\ 90 * (screenRotation \div 90) = screenRotation
        /\ allowed \in TurnChoices /\ rotate180 \in BOOLEAN
    BY Turns DEF MainInv, MainTypeOK
  <2> QED
    BY <2>1, RotationShows DEF TurnImage
<1> QED
  <2>1. ImageShowsAllowed'
    BY Unseen DEF TurnImage, frames
  <2>2. /\ pc = "image" /\ pc' = "minicap" /\ changed' \in BOOLEAN
        /\ imageRotation' = GetImageRotation(allowed, rotate180, screenRotation)
        /\ UNCHANGED <<screenRotation, argv, allowed, rotate180, configured, frame, ready, lost,
                       vncscr, vncbuf>>
    BY DEF TurnImage, options, frames, screen
  <2>3. MainTypeOK'
    BY <1>1, <2>2 DEF MainInv, MainTypeOK
  <2>4. Followed'
    BY <2>2 DEF MainInv, Followed
  <2>5. SizeAllowed'
    BY <2>2 DEF MainInv, SizeAllowed
  <2> QED
    BY <2>1, <2>3, <2>4, <2>5 DEF MainInv

\* minicap is asked for the display's orientation.
LEMMA ConfigureKeeps ==
  ASSUME MainInv, ConfigureMinicap
  PROVE  MainInv'
<1>1. configured' \in ROT_ALL
  BY Turns DEF MainInv, MainTypeOK, ConfigureMinicap
<1> QED
  <2>1. ImageShowsAllowed'
    BY Unseen DEF ConfigureMinicap
  <2> QED
    BY <1>1, <2>1 DEF MainInv, MainTypeOK, Followed, SizeAllowed, ConfigureMinicap, watch,
                      watcherVars, options, screen

\* A frame of that orientation comes, which is consumed or lost; or main ends.
LEMMA ConsumeKeeps ==
  ASSUME MainInv, ConsumeFrame \/ ConsumeFails \/ MinicapFails
  PROVE  MainInv'
<1>1. CASE ConsumeFrame
  BY <1>1 DEF MainInv, MainTypeOK, Followed, SizeAllowed, ImageShowsAllowed, ConsumeFrame,
              watch, watcherVars, options, screen
<1>2. CASE ConsumeFails
  BY <1>2 DEF MainInv, MainTypeOK, Followed, SizeAllowed, ImageShowsAllowed, Started, ConsumeFails,
              watch, watcherVars, options, screen
<1>3. CASE MinicapFails
  BY <1>3 DEF MainInv, MainTypeOK, Followed, SizeAllowed, ImageShowsAllowed, Started, MinicapFails,
              watch, watcherVars, options, frames, screen
<1> QED
  BY <1>1, <1>2, <1>3

\* Whatever frame is drawn, the panel's pixels are, and its dimensions are the panel's.
LEMMA DrawnTypes ==
  ASSUME MainTypeOK, NEW f \in ROT_ALL
  PROVE  /\ UpdateScreen(vncbuf, imageRotation, Panel[f])
              \in [Pixels(Width, Height) -> Pixels(Width, Height)]
         /\ TargetSize(allowed, imageRotation, Panel[f]) \in {Size(t) : t \in ROT_ALL}
<1>1. imageRotation \in {0, 90, 180, 270} /\ DOMAIN vncbuf = Pixels(Width, Height)
  BY DEF MainTypeOK
<1> DEFINE s == Shown(f, imageRotation)
           n == (f + 1) % 4
<1>2. s \in ROT_ALL /\ UpdateScreen(vncbuf, imageRotation, Panel[f]) = Panel[s].pixel
  BY <1>1, PanelShown
<1>3. n \in ROT_ALL /\ (n \in {0, 2} <=> f \notin {0, 2})
  BY DEF ROT_ALL
<1> HIDE DEF s, n
<1>4. Panel[s] \in Pictures(Across(s), Down(s)) /\ Panel[f] \in Pictures(Across(f), Down(f))
  BY <1>2, PanelTurned
<1>5. Pixels(Across(s), Down(s)) = Pixels(Width, Height)
  BY PanelAssumption DEF Across, Down, Pixels
<1>6. Panel[f].width = Across(f) /\ Panel[f].height = Down(f)
  BY <1>4 DEF Pictures
<1>7. Size(n) = [width |-> Down(f), height |-> Across(f)]
  BY <1>3 DEF Size, Across, Down
<1>8. TargetSize(allowed, imageRotation, Panel[f]) \in {Size(f), Size(n)}
  BY <1>6, <1>7 DEF TargetSize, Size
<1> QED
  BY <1>2, <1>3, <1>4, <1>5, <1>8 DEF Pictures

\* What main draws: the frame's turn is the one the rotation was computed for.
LEMMA Drawn ==
  ASSUME MainTypeOK, imageRotation = GetImageRotation(allowed, rotate180, 90 * frame)
  PROVE  \E s \in Wanted :
           /\ s \in ROT_ALL
           /\ TargetSize(allowed, imageRotation, Panel[frame]) = Size(s)
           /\ Panel[s] = [width |-> Across(s), height |-> Down(s), pixel |-> Panel[s].pixel]
           /\ Panel[s].pixel \in [Pixels(Width, Height) -> Pixels(Width, Height)]
           /\ UpdateScreen(vncbuf, imageRotation, Panel[frame]) = Panel[s].pixel
           /\ allowed # ROT_ALL => \A a \in allowed : Size(s) = Size(a)
<1> DEFINE s == Shown(frame, imageRotation)
<1>1. allowed \in TurnChoices /\ rotate180 \in BOOLEAN /\ frame \in ROT_ALL
      /\ imageRotation \in {0, 90, 180, 270} /\ DOMAIN vncbuf = Pixels(Width, Height)
  BY DEF MainTypeOK
<1>2. /\ s \in WantedAt(allowed, rotate180, frame)
      /\ TargetSize(allowed, imageRotation, Panel[frame]) = Size(s)
      /\ allowed # ROT_ALL => \A a \in allowed : Size(s) = Size(a)
  BY <1>1, RotationShows
<1>3. s \in ROT_ALL /\ UpdateScreen(vncbuf, imageRotation, Panel[frame]) = Panel[s].pixel
  BY <1>1, PanelShown
<1> HIDE DEF s
<1>4. s \in Wanted
  BY <1>2 DEF WantedAt, Wanted
<1>5. Panel[s] \in Pictures(Across(s), Down(s))
  BY <1>3, PanelTurned
<1>6. Pixels(Across(s), Down(s)) = Pixels(Width, Height)
  BY PanelAssumption DEF Across, Down, Pixels
<1> QED
  BY <1>2, <1>3, <1>4, <1>5, <1>6 DEF Pictures

\* The screen gets the size of the turn that will be drawn, which a forced orientation
\* had before, unless a first frame was lost.
LEMMA ReinitKeeps ==
  ASSUME MainInv, ReinitScreen
  PROVE  /\ MainInv'
         /\ vncscr # NoSize /\ allowed # ROT_ALL /\ lost = "no" => vncscr' = vncscr
<1>1. /\ pc = "reinit" /\ pc' = "draw" /\ MainTypeOK /\ frame \in ROT_ALL
      /\ vncscr' = TargetSize(allowed, imageRotation, Panel[frame])
      /\ UNCHANGED <<watch, options, imageRotation, configured, frames, vncbuf>>
  BY DEF MainInv, MainTypeOK, ReinitScreen
<1>2. vncscr' \in {Size(t) : t \in ROT_ALL}
  BY <1>1, DrawnTypes
<1>3. ASSUME lost # "now"
      PROVE  \E s \in ROT_ALL :
               /\ vncscr' = Size(s)
               /\ allowed # ROT_ALL => \A a \in allowed : Size(s) = Size(a)
  <2>1. imageRotation = GetImageRotation(allowed, rotate180, 90 * frame)
    BY <1>1, <1>3, Turns DEF MainInv, MainTypeOK, Followed
  <2> QED
    BY <1>1, <2>1, Drawn
<1>4. MainTypeOK'
  BY <1>1, <1>2 DEF MainTypeOK, watch, watcherVars, options, frames
<1>5. Followed'
  BY <1>1 DEF MainInv, Followed, watch, watcherVars, options, frames
<1>6. allowed # {}
  <2>1. allowed \in TurnChoices
    BY DEF MainInv, MainTypeOK
  <2>2. allowed \in (SUBSET ROT_ALL) \ {{}}
    BY <2>1, ChoicesAllow
  <2> QED
    BY <2>2
<1>7. SizeAllowed'
  <2>1. CASE lost = "now"
    BY <1>1, <2>1 DEF SizeAllowed, frames
  <2>2. CASE lost # "now"
    BY <1>1, <1>3, <1>6, <2>2 DEF SizeAllowed, options
  <2> QED
    BY <2>1, <2>2
<1>8. vncscr # NoSize /\ allowed # ROT_ALL /\ lost = "no" => vncscr' = vncscr
  BY <1>1, <1>3 DEF MainInv, SizeAllowed
<1> QED
  BY <1>1, <1>4, <1>5, <1>7, <1>8 DEF MainInv, ImageShowsAllowed

\* A frame is drawn: unless the first was lost, the viewers see the panel at a turn that
\* is wanted.
LEMMA DrawKeeps ==
  ASSUME MainInv, DrawFirst \/ DrawFrame
  PROVE  MainInv'
<1>1. /\ pc \in {"draw", "frames", "drain"} /\ pc' \in {"frames", "drain", "check"}
      /\ vncbuf' = UpdateScreen(vncbuf, imageRotation, Panel[frame'])
      /\ frame' \in ROT_ALL /\ ready' \in BOOLEAN /\ MainTypeOK
      /\ pc # "draw" => frame' = configured
      /\ pc = "draw" => frame' = frame
      /\ UNCHANGED <<changed, screenRotation, options, imageRotation, configured, lost, vncscr>>
  <2>1. MainTypeOK
    BY DEF MainInv
  <2>2. CASE DrawFirst
    BY <2>1, <2>2 DEF MainTypeOK, DrawFirst, watch, frames
  <2>3. CASE DrawFrame
    BY <2>1, <2>3 DEF MainTypeOK, DrawFrame, TakeFrame, watch
  <2> QED
    BY <2>2, <2>3
<1>2. vncbuf' \in [Pixels(Width, Height) -> Pixels(Width, Height)]
  BY <1>1, DrawnTypes
<1>3. MainTypeOK'
  BY <1>1, <1>2 DEF MainTypeOK, options
<1>4. imageRotation = GetImageRotation(allowed, rotate180, 90 * configured)
  BY <1>1, Turns DEF MainTypeOK, MainInv, Followed
<1>5. lost # "now" => frame = configured /\ frame' = frame
  BY <1>1 DEF MainInv, Followed
<1>6. Followed'
  BY <1>1, <1>4, <1>5 DEF MainInv, Followed, options
<1>7. SizeAllowed'
  BY <1>1 DEF MainInv, SizeAllowed, options
<1>8. ASSUME lost # "now" PROVE Shows'
  <2>1. PICK s \in Wanted :
             /\ TargetSize(allowed, imageRotation, Panel[frame]) = Size(s)
             /\ Panel[s] = [width |-> Across(s), height |-> Down(s), pixel |-> Panel[s].pixel]
             /\ UpdateScreen(vncbuf, imageRotation, Panel[frame]) = Panel[s].pixel
    BY <1>1, <1>4, <1>5, <1>8, Drawn
  <2>2. vncscr' = Size(s) /\ vncbuf' = Panel[s].pixel
    BY <1>1, <1>5, <1>8, <2>1 DEF MainInv, Followed
  <2>3. View' = Panel[s]
    BY <2>1, <2>2 DEF View, Size
  <2>4. Wanted' = Wanted
    BY <1>1, <1>5, <1>8 DEF Wanted, options
  <2> QED
    BY <2>3, <2>4 DEF Shows
<1> QED
  BY <1>1, <1>3, <1>6, <1>7, <1>8 DEF MainInv, ImageShowsAllowed

\* Frames that come, that are not consumed, and the end of those that are ready.
LEMMA FramesAside ==
  ASSUME MainInv, SkipFrame \/ DrainEnds \/ FrameComes
  PROVE  MainInv'
<1>1. /\ pc' = pc \/ (pc \in {"frames", "drain"} /\ pc' \in {"drain", "check"})
      /\ changed' \in BOOLEAN /\ ready' \in BOOLEAN
      /\ UNCHANGED <<screenRotation, options, imageRotation, configured, frame, lost, screen>>
  BY DEF MainInv, MainTypeOK, SkipFrame, TakeFrame, DrainEnds, FrameComes, watch, frames, screen
<1>2. MainTypeOK'
  BY <1>1 DEF MainInv, MainTypeOK, options, screen
<1>3. Followed' /\ SizeAllowed'
  BY <1>1 DEF MainInv, Followed, SizeAllowed, options, screen
<1>4. Started' => Started
  BY <1>1 DEF Started, screen
<1>5. Shows' = Shows
  BY <1>1 DEF Shows, View, Wanted, options, screen
<1> QED
  BY <1>1, <1>2, <1>3, <1>4, <1>5 DEF MainInv, ImageShowsAllowed

-----------------------------------------------------------------------------
(* The steps, and the theorems.                                            *)

\* What a step of the rotation watcher, or of fgets, is to its reader.
ReportsStep ==
  \/ \E r \in Rotations : Complete(Text') = Append(Complete(Text), r)
                          /\ screenRotation' = screenRotation
  \/ /\ Complete(Text) # <<>> /\ screenRotation' = Head(Complete(Text))
     /\ Complete(Text') = Tail(Complete(Text))
  \/ Complete(Text') = Complete(Text) /\ screenRotation' = screenRotation

\* The watcher's steps.
LEMMA WatcherKeeps ==
  ASSUME RotationInv, Watcher
  PROVE  RotationInv' /\ ReportsStep /\ UNCHANGED <<pc, argv, options, vncscr>>
<1>1. /\ UNCHANGED <<pc, options, imageRotation, configured, frames, screen>>
      /\ UNCHANGED <<changed, screenRotation>>
  BY DEF Watcher, PrintRotation, WritePipe, WatcherDies
<1>2. /\ PipeInv'
      /\ \/ Complete(Text') = Complete(Text)
         \/ \E r \in Rotations : Complete(Text') = Append(Complete(Text), r)
  <2>1. CASE PrintRotation
    BY <2>1, PrintKeeps DEF RotationInv
  <2>2. CASE WritePipe
    BY <2>2, WriteKeeps DEF RotationInv
  <2>3. CASE WatcherDies
    BY <2>3, DiesKeeps DEF RotationInv
  <2> QED
    BY <2>1, <2>2, <2>3 DEF Watcher
<1>3. MainInv'
  <2>1. changed' \in BOOLEAN /\ screenRotation' \in Rotations
    BY <1>1 DEF RotationInv, MainInv, MainTypeOK
  <2> QED
    BY <1>1, <2>1, PipeAside DEF RotationInv
<1> QED
  BY <1>1, <1>2, <1>3 DEF RotationInv, ReportsStep, options, screen

\* A call of fgets returns a line, or part of one.
LEMMA CheckKeeps ==
  ASSUME RotationInv, CheckLine \/ CheckPart
  PROVE  RotationInv' /\ ReportsStep /\ UNCHANGED <<argv, options, vncscr>> /\ pc # "argv"
<1>1. CASE CheckLine
  <2>1. /\ pc \in {"start", "check"} /\ ReadLine
        /\ UNCHANGED <<pc, options, imageRotation, configured, frames, screen>>
    BY <1>1 DEF CheckLine
  <2>2. /\ PipeInv'
        /\ Atoi(Front(Line)) \in Rotations
        /\ Complete(Text) # <<>> /\ Head(Complete(Text)) = Atoi(Front(Line))
        /\ Complete(Text') = Tail(Complete(Text))
    BY <2>1, LineKeeps DEF RotationInv
  <2>3. screenRotation' = Atoi(Front(Line)) /\ changed' = TRUE
    <3>1. Atoi(Front(Line)) <= 360
      BY <2>2, Turns
    <3> QED
      BY <2>1, <3>1 DEF ReadLine
  <2>4. MainInv'
    <3>1. changed' \in BOOLEAN /\ screenRotation' \in Rotations
      BY <2>2, <2>3
    <3> QED
      BY <2>1, <3>1, PipeAside DEF RotationInv
  <2> QED
    BY <2>1, <2>2, <2>3, <2>4 DEF RotationInv, ReportsStep, options, screen
<1>2. CASE CheckPart
  <2>1. /\ pc \in {"start", "check"} /\ ReadPart /\ Return
        /\ UNCHANGED <<options, imageRotation, configured, frames, screen>>
        /\ UNCHANGED <<changed, screenRotation>>
    BY <1>2 DEF CheckPart, ReadPart
  <2>2. PipeInv' /\ Text' = Text
    BY <2>1, PartKeeps DEF RotationInv
  <2>3. MainInv'
    BY <2>1, ReturnKeeps DEF RotationInv
  <2> QED
    BY <2>1, <2>2, <2>3 DEF RotationInv, ReportsStep, options, screen
<1> QED
  BY <1>1, <1>2

\* Steps of main that leave the pipe alone.
LEMMA PipeUntouched ==
  ASSUME PipeInv, UNCHANGED <<watcherVars, rotateBuffer, screenRotation>>
  PROVE  PipeInv' /\ ReportsStep
<1>1. Text' = Text
  BY DEF Text, watcherVars
<1> QED
  BY <1>1 DEF PipeInv, PipeTypeOK, ReportsStep, watcherVars

\* Every step keeps the invariant, is one of the reader's or none, and resizes no
\* screen of a forced orientation; options are only read once.
LEMMA StepKeeps ==
  ASSUME RotationInv, [Next]_vars
  PROVE  /\ RotationInv' /\ ReportsStep
         /\ vncscr # NoSize /\ allowed # ROT_ALL /\ lost = "no" => vncscr' = vncscr
         /\ pc = "argv" /\ pc' = "start" => ReadOptions
<1>0. PipeInv /\ MainInv
  BY DEF RotationInv
<1>1. CASE ReadOptions
  <2>1. UNCHANGED <<watcherVars, rotateBuffer, screenRotation>> /\ vncscr' = vncscr
    BY <1>1 DEF ReadOptions, watch, screen
  <2> QED
    BY <1>0, <1>1, <2>1, OptionsKeep, PipeUntouched DEF RotationInv
<1>2. CASE CheckLine \/ CheckPart
  BY <1>2, CheckKeeps DEF options
<1>3. CASE CheckNothing \/ CheckFails
  <2>1. /\ pc \in {"start", "check"} /\ (Return \/ pc' = "exit")
        /\ UNCHANGED <<watch, options, imageRotation, configured, frames, screen>>
    BY <1>3 DEF CheckNothing, CheckFails
  <2>2. UNCHANGED <<watcherVars, rotateBuffer, changed, screenRotation>> /\ vncscr' = vncscr
    BY <2>1 DEF watch, screen
  <2>3. MainInv'
    BY <1>0, <2>1, <2>2, ReturnKeeps
  <2> QED
    BY <1>0, <2>1, <2>2, <2>3, PipeUntouched DEF RotationInv
<1>4. CASE TurnImage
  <2>1. /\ UNCHANGED <<watcherVars, rotateBuffer, screenRotation>> /\ vncscr' = vncscr
        /\ pc # "argv"
    BY <1>4 DEF TurnImage, screen
  <2> QED
    BY <1>0, <1>4, <2>1, TurnKeeps, PipeUntouched DEF RotationInv
<1>5. CASE ConfigureMinicap
  <2>1. /\ UNCHANGED <<watcherVars, rotateBuffer, screenRotation>> /\ vncscr' = vncscr
        /\ pc # "argv"
    BY <1>5 DEF ConfigureMinicap, watch, screen
  <2> QED
    BY <1>0, <1>5, <2>1, ConfigureKeeps, PipeUntouched DEF RotationInv
<1>6. CASE ConsumeFrame \/ ConsumeFails \/ MinicapFails
  <2>1. /\ UNCHANGED <<watcherVars, rotateBuffer, screenRotation>> /\ vncscr' = vncscr
        /\ pc # "argv"
    BY <1>0, <1>6 DEF ConsumeFrame, ConsumeFails, MinicapFails, watch, screen
  <2> QED
    BY <1>0, <1>6, <2>1, ConsumeKeeps, PipeUntouched DEF RotationInv
<1>7. CASE ReinitScreen
  <2>1. UNCHANGED <<watcherVars, rotateBuffer, screenRotation>> /\ pc # "argv"
    BY <1>7 DEF ReinitScreen, watch
  <2> QED
    BY <1>0, <1>7, <2>1, ReinitKeeps, PipeUntouched DEF RotationInv
<1>8. CASE DrawFirst \/ DrawFrame
  <2>1. /\ UNCHANGED <<watcherVars, rotateBuffer, screenRotation>> /\ vncscr' = vncscr
        /\ pc # "argv"
    BY <1>8 DEF DrawFirst, DrawFrame, TakeFrame, watch
  <2> QED
    BY <1>0, <1>8, <2>1, DrawKeeps, PipeUntouched DEF RotationInv
<1>11. CASE SkipFrame \/ DrainEnds \/ FrameComes
  <2>1. /\ UNCHANGED <<watcherVars, rotateBuffer, screenRotation>> /\ vncscr' = vncscr
        /\ pc # "argv"
    BY <1>11 DEF SkipFrame, DrainEnds, FrameComes, TakeFrame, watch, screen
  <2> QED
    BY <1>0, <1>11, <2>1, FramesAside, PipeUntouched DEF RotationInv
<1>9. CASE Watcher
  BY <1>9, WatcherKeeps DEF Watcher
<1>10. CASE UNCHANGED vars
  <2>1. /\ UNCHANGED <<pc, options, imageRotation, configured, frames, screen>>
        /\ UNCHANGED <<watcherVars, rotateBuffer, screenRotation, changed>>
    BY <1>10 DEF vars, watch
  <2>2. changed' \in BOOLEAN /\ screenRotation' \in Rotations
    BY <1>0, <2>1 DEF MainInv, MainTypeOK
  <2>3. MainInv'
    BY <1>0, <2>1, <2>2, PipeAside
  <2> QED
    BY <1>0, <2>1, <2>3, PipeUntouched DEF RotationInv, screen
<1> QED
  BY <1>1, <1>2, <1>3, <1>4, <1>5, <1>6, <1>7, <1>8, <1>9, <1>10, <1>11
  DEF Next, Main, Check, Follow, Frames

\* The pipe holds what the watcher printed, and the image's rotation, minicap's
\* orientation, the frame and the screen's size follow one another in main's order
\* (droidvncserver.cpp:1027-1062), the frame and the size only if the rotation's first
\* frame was consumed: an inductive invariant.
THEOREM RotationInvariant == Spec => []RotationInv
<1>1. Init => RotationInv
  BY PipeInit, MainInit DEF Init, RotationInv
<1>2. RotationInv /\ [Next]_vars => RotationInv'
  BY StepKeeps
<1> QED
  BY <1>1, <1>2, PTL DEF Spec

\* Every variable of the rotation keeps its type; rotateBuffer is never overrun
\* (rotation_watcher.cpp:117), and some turn is allowed whatever the command line.
THEOREM RotationTypes == Spec => []TypeOK
<1>1. RotationInv => TypeOK
  BY InvTypeOK
<1> QED
  BY <1>1, RotationInvariant, PTL

\* Unless the first frame of the last rotation was lost (droidvncserver.cpp:1047), what
\* the viewers see between frames is the whole panel, no pixel lost or left over, at a turn that the options and the display ask for and in its own dimensions
\* (droidvncserver.cpp:441, update_screen_template.cpp:19), for every size
\* of the panel, command line and cutting up of the watcher's output.
THEOREM ImageAllowed == Spec => []ImageShowsAllowed
<1>1. RotationInv => ImageShowsAllowed
  BY DEF RotationInv, MainInv
<1> QED
  BY <1>1, RotationInvariant, PTL

\* With -r or -o the viewers' screens are never resized (reinitVncServer,
\* droidvncserver.cpp:117) but for a first frame that was lost, and after it.
THEOREM SizeKept == Spec => SizeSteady
<1>1. RotationInv /\ [Next]_vars
        => [vncscr # NoSize /\ allowed # ROT_ALL /\ lost = "no" => vncscr' = vncscr]_vars
  BY StepKeeps
<1> QED
  BY <1>1, RotationInvariant, PTL DEF Spec, SizeSteady

\* Every command line that main accepts is given the meaning the usage describes, of
\* any length and in any order, but for the word after -z (droidvncserver.cpp:734).
THEOREM OptionsMeant == Spec => OptionsHonoured
<1>1. ASSUME RotationInv, [Next]_vars, pc = "argv", pc' = "start", ZLast(argv)
      PROVE  Honours(argv, allowed', rotate180')
  <2>1. ReadOptions
    BY <1>1, StepKeeps
  <2>2. /\ ~Parse(argv).fatal
        /\ allowed' = Parse(argv).allowed /\ rotate180' = Parse(argv).rotate180
    BY <1>1, <2>1 DEF ReadOptions
  <2>3. argv \in Seq(STRING)
    BY <1>1 DEF RotationInv, MainInv, MainTypeOK
  <2> QED
    BY <1>1, <2>2, <2>3, ParseHonours
<1>2. RotationInv /\ [Next]_vars
        => [pc = "argv" /\ pc' = "start" /\ ZLast(argv) => Honours(argv, allowed', rotate180')]_vars
  BY <1>1
<1> QED
  BY <1>2, RotationInvariant, PTL DEF Spec, OptionsHonoured

\* check_rotation_change implements RotationReports: the rotations are seen as they
\* were printed, in order and each once, wherever the pipe and rotateBuffer cut them.
THEOREM ReportsSeen == Spec => ReportsSpec
<1>1. Init => Reports!Init
  <2> SUFFICES ASSUME Init PROVE Reports!Init
    OBVIOUS
  <2>1. rotateBuffer \o pipe = <<>> /\ screenRotation \in Rotations
    BY DisplayAssumption DEF Init, WatcherInit
  <2>2. PICK read : Reads(read, <<>>) /\ Complete(<<>>) = read[Len(<<>>)].lines
    <3>1. <<>> \in Seq(Characters)
      OBVIOUS
    <3> QED
      BY <3>1, CompleteReads
  <2>3. Complete(<<>>) = <<>>
    BY <2>2 DEF Reads
  <2> QED
    BY <2>1, <2>3 DEF Reports!Init
<1>2. RotationInv /\ [Next]_vars
        => [Reports!Next]_<<Complete(rotateBuffer \o pipe), screenRotation>>
  <2> SUFFICES ASSUME RotationInv, [Next]_vars
               PROVE  [Reports!Next]_<<Complete(rotateBuffer \o pipe), screenRotation>>
    OBVIOUS
  <2>1. ReportsStep
    BY StepKeeps
  <2>2. Text = rotateBuffer \o pipe /\ Text' = rotateBuffer' \o pipe'
    BY DEF Text
  <2> QED
    BY <2>1, <2>2 DEF ReportsStep, Reports!Next, Reports!Report, Reports!See
<1> QED
  BY <1>1, <1>2, RotationInvariant, PTL DEF Spec, ReportsSpec, Reports!Spec
=============================================================================
