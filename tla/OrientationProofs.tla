-------------------------- MODULE OrientationProofs --------------------------
(***************************************************************************)
(* Facts about Orientation for every set of allowed turns and every size   *)
(* of frame: the rotation, where a pixel goes, and what picture that       *)
(* makes.                                                                  *)
(*                                                                         *)
(* Between them stand induction and recursion over the naturals, which     *)
(* follow from a set of naturals having a least element: the set of those  *)
(* that have a property is given as a set, so that no lemma needs an       *)
(* operator for a parameter.                                               *)
(***************************************************************************)
EXTENDS Orientation, WellFoundedInduction, TLAPS

\* The turn that main computes brings the display to a turn that is allowed, and
\* half a turn further with -z (getImageRotation, droidvncserver.cpp:441).
THEOREM TurnsToAllowed ==
  ASSUME NEW allowed \in SUBSET ROT_ALL, allowed # {}, NEW s \in ROT_ALL,
         NEW rotate180 \in BOOLEAN
  PROVE  LET rotation == GetImageRotation(allowed, rotate180, 90 * s)
             turn     == (s + 4 - rotation \div 90) % 4
         IN /\ rotation \in {0, 90, 180, 270}
            /\ IF rotate180 THEN (turn + 2) % 4 \in allowed ELSE turn \in allowed
<1>1. (90 * s) \div 90 = s
  <2>1. \A n \in Nat : n \div 90 = s <=> 90 * s <= n /\ n < 90 * s + 90
    BY DEF ROT_ALL
  <2> QED
    BY <2>1 DEF ROT_ALL
<1>2. s \in {0, 1, 2, 3} /\ \E a \in {0, 1, 2, 3} : a \in allowed
  <2>1. ROT_ALL = {0, 1, 2, 3}
    BY DEF ROT_ALL
  <2>2. PICK a \in allowed : TRUE
    OBVIOUS
  <2> QED
    BY <2>1, <2>2
<1>3. CASE s = 0
  BY <1>1, <1>2, <1>3 DEF GetImageRotation
<1>4. CASE s = 1
  BY <1>1, <1>2, <1>4 DEF GetImageRotation
<1>5. CASE s = 2
  BY <1>1, <1>2, <1>5 DEF GetImageRotation
<1>6. CASE s = 3
  BY <1>1, <1>2, <1>6 DEF GetImageRotation
<1> QED
  BY <1>2, <1>3, <1>4, <1>5, <1>6

-----------------------------------------------------------------------------
(* Pixels.                                                                 *)

\* Place in a picture of rows of w pixels.
At(w, row, column) == row * w + column

\* A row ends where the next begins, or before.
LEMMA RowsFollow ==
  ASSUME NEW w \in Nat, NEW a \in Nat, NEW b \in Nat, a < b
  PROVE  a * w + w <= b * w
<1>1. PICK d \in Nat : b = a + 1 + d
  <2>1. b - a - 1 \in Nat /\ b = a + 1 + (b - a - 1)
    OBVIOUS
  <2> QED
    BY <2>1
<1>2. (a + 1 + d) * w = a * w + w + d * w /\ d * w >= 0
  OBVIOUS
<1> QED
  BY <1>1, <1>2

\* A place of a picture is one of its pixels.
LEMMA AtInRange ==
  ASSUME NEW w \in Nat, NEW h \in Nat, NEW r \in 0 .. h - 1, NEW c \in 0 .. w - 1
  PROVE  At(w, r, c) \in Pixels(w, h)
<1>1. r * w + w <= h * w /\ h * w = w * h /\ r * w \in Nat
  BY RowsFollow
<1> QED
  BY <1>1 DEF At, Pixels

\* No two places of a picture are the same pixel.
LEMMA AtInjective ==
  ASSUME NEW w \in Nat, NEW r \in Nat, NEW r2 \in Nat, NEW c \in 0 .. w - 1,
         NEW c2 \in 0 .. w - 1, At(w, r, c) = At(w, r2, c2)
  PROVE  r = r2 /\ c = c2
<1>0. r * w \in Nat /\ r2 * w \in Nat /\ r * w + c = r2 * w + c2
  BY DEF At
<1>1. ~(r < r2)
  <2> SUFFICES ASSUME r < r2 PROVE FALSE
    OBVIOUS
  <2>1. r * w + w <= r2 * w
    BY RowsFollow
  <2> QED
    BY <1>0, <2>1
<1>2. ~(r2 < r)
  <2> SUFFICES ASSUME r2 < r PROVE FALSE
    OBVIOUS
  <2>1. r2 * w + w <= r * w
    BY RowsFollow
  <2> QED
    BY <1>0, <2>1
<1>3. r = r2
  BY <1>1, <1>2
<1> QED
  BY <1>0, <1>3

\* updateScreen stores every pixel of a frame inside vncbuf, for every size and each
\* of its four rotations: it never writes outside the frame's own number of pixels
\* (update_screen_template.cpp:25).
THEOREM PlacesInside ==
  ASSUME NEW w \in Nat, NEW h \in Nat, NEW x \in 0 .. w - 1, NEW y \in 0 .. h - 1,
         NEW rotation \in {0, 90, 180, 270}
  PROVE  Place(rotation, w, h, x, y) \in Pixels(w, h)
<1>1. /\ x \in Nat /\ y \in Nat /\ w - 1 - x \in 0 .. w - 1 /\ h - 1 - y \in 0 .. h - 1
      /\ h - y - 1 = h - 1 - y /\ w - x - 1 = w - 1 - x /\ Pixels(h, w) = Pixels(w, h)
  BY DEF Pixels
<1>2. CASE rotation = 0
  BY <1>2, AtInRange DEF Place, At
<1>3. CASE rotation = 90
  <2>1. Place(rotation, w, h, x, y) = At(h, x, h - 1 - y)
    BY <1>1, <1>3 DEF Place, At
  <2> QED
    BY <1>1, <2>1, AtInRange
<1>4. CASE rotation = 180
  <2>1. Place(rotation, w, h, x, y) = At(w, h - 1 - y, w - 1 - x)
    BY <1>1, <1>4 DEF Place, At
  <2> QED
    BY <1>1, <2>1, AtInRange
<1>5. CASE rotation = 270
  <2>1. Place(rotation, w, h, x, y) = At(h, w - 1 - x, y)
    BY <1>1, <1>5 DEF Place, At
  <2> QED
    BY <1>1, <2>1, AtInRange
<1> QED
  BY <1>2, <1>3, <1>4, <1>5

\* And no two of them in the same place: with PlacesInside, nothing of an earlier
\* picture of these dimensions is left, and nothing of the frame is lost.
THEOREM PlacesApart ==
  ASSUME NEW w \in Nat, NEW h \in Nat, NEW rotation \in {0, 90, 180, 270},
         NEW x \in 0 .. w - 1, NEW y \in 0 .. h - 1,
         NEW x2 \in 0 .. w - 1, NEW y2 \in 0 .. h - 1,
         Place(rotation, w, h, x, y) = Place(rotation, w, h, x2, y2)
  PROVE  x = x2 /\ y = y2
<1>1. /\ w - 1 - x \in 0 .. w - 1 /\ h - 1 - y \in 0 .. h - 1
      /\ w - 1 - x2 \in 0 .. w - 1 /\ h - 1 - y2 \in 0 .. h - 1
      /\ x \in Nat /\ y \in Nat /\ x2 \in Nat /\ y2 \in Nat
      /\ h - y - 1 = h - 1 - y /\ w - x - 1 = w - 1 - x
      /\ h - y2 - 1 = h - 1 - y2 /\ w - x2 - 1 = w - 1 - x2
  OBVIOUS
<1>2. CASE rotation = 0
  <2>1. At(w, y, x) = At(w, y2, x2)
    BY <1>2 DEF Place, At
  <2> QED
    BY <1>1, <2>1, AtInjective
<1>3. CASE rotation = 90
  <2>1. At(h, x, h - 1 - y) = At(h, x2, h - 1 - y2)
    BY <1>1, <1>3 DEF Place, At
  <2>2. x = x2 /\ h - 1 - y = h - 1 - y2
    BY <1>1, <2>1, AtInjective
  <2> QED
    BY <2>2
<1>4. CASE rotation = 180
  <2>1. At(w, h - 1 - y, w - 1 - x) = At(w, h - 1 - y2, w - 1 - x2)
    BY <1>1, <1>4 DEF Place, At
  <2>2. h - 1 - y = h - 1 - y2 /\ w - 1 - x = w - 1 - x2
    BY <1>1, <2>1, AtInjective
  <2> QED
    BY <2>2
<1>5. CASE rotation = 270
  <2>1. At(h, w - 1 - x, y) = At(h, w - 1 - x2, y2)
    BY <1>1, <1>5 DEF Place, At
  <2>2. w - 1 - x = w - 1 - x2 /\ y = y2
    BY <1>1, <2>1, AtInjective
  <2> QED
    BY <2>2
<1> QED
  BY <1>2, <1>3, <1>4, <1>5

-----------------------------------------------------------------------------
(* Induction and recursion over the naturals.                              *)

\* A set of naturals has a least element.
LEMMA LeastNatural ==
  ASSUME NEW T, T \subseteq Nat, T # {}
  PROVE  \E x \in T : \A y \in T : ~(y < x)
<1> DEFINE R == {ss \in Nat \X Nat : ss[1] < ss[2]}
<1>1. IsWellFoundedOn(R, Nat)
  BY NatLessThanWellFounded DEF OpToRel
<1>2. \A x, y \in Nat : y < x => <<y, x>> \in R
  OBVIOUS
<1> HIDE DEF R
<1>3. \E x \in T : \A y \in T : ~ (<<y, x>> \in R)
  BY <1>1, WFMin
<1> QED
  BY <1>2, <1>3

\* Induction: S is the set of the naturals that have a property.
LEMMA InductionUpTo ==
  ASSUME NEW n \in Nat, NEW S, 0 \in S, \A i \in 0 .. n : i \in S /\ i < n => i + 1 \in S
  PROVE  0 .. n \subseteq S
<1> DEFINE T == {i \in 0 .. n : i \notin S}
<1> SUFFICES ASSUME T # {} PROVE FALSE
  OBVIOUS
<1>0. T \subseteq Nat
  OBVIOUS
<1> HIDE DEF T
<1>1. PICK x \in T : \A y \in T : ~(y < x)
  BY <1>0, LeastNatural
<1> USE DEF T
<1>2. x \in 0 .. n /\ x \notin S /\ x # 0
  BY <1>1
<1>3. x - 1 \in 0 .. n /\ x - 1 < n /\ (x - 1) + 1 = x
  BY <1>2
<1>4. x - 1 \in S
  BY <1>1, <1>3
<1> QED
  BY <1>2, <1>3, <1>4

\* The same for all naturals.
LEMMA InductionOnNat ==
  ASSUME NEW S, 0 \in S, \A i \in Nat : i \in S => i + 1 \in S
  PROVE  Nat \subseteq S
<1> SUFFICES ASSUME NEW n \in Nat PROVE n \in S
  OBVIOUS
<1>1. 0 .. n \subseteq S
  BY InductionUpTo
<1> QED
  BY <1>1

\* Recursion: f is defined by its value at zero and by a step.
Recursive(f, n, A, base, step) ==
  /\ f \in [0 .. n -> A]
  /\ f[0] = base
  /\ \A i \in 1 .. n : f[i] = step[<<i, f[i - 1]>>]

\* Every step and value at zero define such a function.
LEMMA RecursionUpTo ==
  ASSUME NEW n \in Nat, NEW A, NEW base \in A, NEW step \in [Nat \X A -> A]
  PROVE  \E f : Recursive(f, n, A, base, step)
<1> DEFINE S == {m \in 0 .. n : \E f : Recursive(f, m, A, base, step)}
<1>1. 0 \in S
  <2> DEFINE g == [i \in 0 .. 0 |-> base]
  <2>1. Recursive(g, 0, A, base, step) /\ 0 \in 0 .. n
    BY DEF Recursive
  <2> HIDE DEF g
  <2> QED
    BY <2>1
<1>2. ASSUME NEW m \in 0 .. n, m \in S, m < n
      PROVE  m + 1 \in S
  <2>1. PICK f : Recursive(f, m, A, base, step)
    BY <1>2
  <2> DEFINE g == [i \in 0 .. m + 1 |-> IF i = m + 1 THEN step[<<m + 1, f[m]>>] ELSE f[i]]
  <2>2. f \in [0 .. m -> A] /\ <<m + 1, f[m]>> \in Nat \X A
    BY <2>1 DEF Recursive
  <2>3. step[<<m + 1, f[m]>>] \in A
    BY <2>2
  <2>4. g \in [0 .. m + 1 -> A]
    BY <2>2, <2>3
  <2>5. g[0] = base
    BY <2>1 DEF Recursive
  <2>6. ASSUME NEW i \in 1 .. m + 1
        PROVE  g[i] = step[<<i, g[i - 1]>>]
    <3>1. i - 1 \in 0 .. m /\ g[i - 1] = f[i - 1]
      OBVIOUS
    <3>2. CASE i = m + 1
      <4>1. g[i] = step[<<m + 1, f[m]>>] /\ i - 1 = m
        BY <3>2
      <4> QED
        BY <3>1, <3>2, <4>1
    <3>3. CASE i \in 1 .. m
      BY <2>1, <3>1, <3>3 DEF Recursive
    <3> QED
      BY <3>2, <3>3
  <2>7. m + 1 \in 0 .. n
    BY <1>2
  <2> HIDE DEF g
  <2>8. Recursive(g, m + 1, A, base, step)
    BY <2>4, <2>5, <2>6 DEF Recursive
  <2> QED
    BY <2>7, <2>8
<1>3. 0 .. n \subseteq S
  BY <1>1, <1>2, InductionUpTo
<1> QED
  BY <1>3

\* The same on all naturals.
RecursiveOnNat(f, A, base, step) ==
  /\ f \in [Nat -> A]
  /\ f[0] = base
  /\ \A i \in Nat \ {0} : f[i] = step[<<i, f[i - 1]>>]

\* There too: what a recursive definition of a module chooses exists.
LEMMA RecursionOnNat ==
  ASSUME NEW A, NEW base \in A, NEW step \in [Nat \X A -> A]
  PROVE  \E f : RecursiveOnNat(f, A, base, step)
<1> DEFINE F(n) == CHOOSE f : Recursive(f, n, A, base, step)
           g == [n \in Nat |-> F(n)[n]]
<1>1. ASSUME NEW n \in Nat
      PROVE  Recursive(F(n), n, A, base, step)
  <2>1. \E f : Recursive(f, n, A, base, step)
    BY RecursionUpTo, Zenon
  <2> QED
    BY <2>1
<1> HIDE DEF F
<1>2. ASSUME NEW n \in Nat, NEW f, NEW h,
             Recursive(f, n, A, base, step), Recursive(h, n + 1, A, base, step)
      PROVE  h[n] = f[n]
  <2> DEFINE S == {i \in 0 .. n : h[i] = f[i]}
  <2>1. 0 \in S
    BY <1>2 DEF Recursive
  <2>2. ASSUME NEW i \in 0 .. n, i \in S, i < n
        PROVE  i + 1 \in S
    <3>1. i + 1 \in 1 .. n /\ i + 1 \in 1 .. n + 1 /\ i + 1 \in 0 .. n /\ (i + 1) - 1 = i
      BY <2>2
    <3>2. f[i + 1] = step[<<i + 1, f[i]>>] /\ h[i + 1] = step[<<i + 1, h[i]>>]
      BY <1>2, <3>1 DEF Recursive
    <3>3. h[i] = f[i]
      BY <2>2
    <3> QED
      BY <3>1, <3>2, <3>3
  <2>3. 0 .. n \subseteq S
    BY <2>1, <2>2, InductionUpTo
  <2> QED
    BY <2>3
<1>3. g \in [Nat -> A]
  BY <1>1 DEF Recursive
<1>4. g[0] = base
  BY <1>1 DEF Recursive
<1>5. ASSUME NEW i \in Nat \ {0}
      PROVE  g[i] = step[<<i, g[i - 1]>>]
  <2>1. i - 1 \in Nat /\ (i - 1) + 1 = i /\ i \in 1 .. i
    OBVIOUS
  <2>2. Recursive(F(i), i, A, base, step) /\ Recursive(F(i - 1), i - 1, A, base, step)
    BY <1>1, <2>1
  <2>3. F(i)[i - 1] = F(i - 1)[i - 1]
    BY <1>2, <2>1, <2>2
  <2>4. F(i)[i] = step[<<i, F(i)[i - 1]>>]
    BY <2>1, <2>2 DEF Recursive
  <2> QED
    BY <2>1, <2>3, <2>4
<1> HIDE DEF g
<1>6. RecursiveOnNat(g, A, base, step)
  BY <1>3, <1>4, <1>5 DEF RecursiveOnNat
<1> QED
  BY <1>6

-----------------------------------------------------------------------------
(* Pictures.                                                               *)

\* The pictures of w * h pixels of a panel.
Pictures(w, h) == [width : {w}, height : {h}, pixel : [Pixels(w, h) -> Pixels(w, h)]]

\* Every pixel has its place.
LEMMA PlaceOfPixel ==
  ASSUME NEW w \in Nat \ {0}, NEW h \in Nat, NEW j \in Pixels(w, h)
  PROVE  /\ j % w \in 0 .. w - 1 /\ j \div w \in 0 .. h - 1
         /\ j = At(w, j \div w, j % w)
<1>1. j \in Nat /\ j < w * h
  BY DEF Pixels
<1>2. j % w \in 0 .. w - 1 /\ j \div w \in Nat /\ j = w * (j \div w) + (j % w)
  BY <1>1
<1>3. w * (j \div w) = (j \div w) * w
  BY <1>2
<1>4. j \div w < h
  <2> SUFFICES ASSUME h <= j \div w PROVE FALSE
    BY <1>2
  <2>1. h * w <= (j \div w) * w
    BY <1>2
  <2> QED
    BY <1>1, <1>2, <2>1
<1> QED
  BY <1>2, <1>3, <1>4 DEF At

\* And a place is that of one pixel.
LEMMA PixelOfPlace ==
  ASSUME NEW w \in Nat \ {0}, NEW h \in Nat, NEW r \in 0 .. h - 1, NEW c \in 0 .. w - 1
  PROVE  At(w, r, c) \div w = r /\ At(w, r, c) % w = c
<1> DEFINE j == At(w, r, c)
<1>1. j \in Pixels(w, h)
  BY AtInRange
<1> HIDE DEF j
<1>2. j \div w \in Nat /\ j % w \in 0 .. w - 1 /\ j = At(w, j \div w, j % w)
  BY <1>1, PlaceOfPixel
<1>3. At(w, j \div w, j % w) = At(w, r, c)
  BY <1>2 DEF j
<1>4. r = j \div w /\ c = j % w
  BY <1>2, <1>3, AtInjective
<1> QED
  BY <1>4 DEF j

\* A quarter turn counterclockwise takes row r of the result from column w - 1 - r.
LEMMA QuarterTurned ==
  ASSUME NEW w \in Nat \ {0}, NEW h \in Nat \ {0}, NEW p \in Pictures(w, h)
  PROVE  /\ QuarterTurn(p) \in Pictures(h, w)
         /\ \A r \in 0 .. w - 1, c \in 0 .. h - 1 :
              QuarterTurn(p).pixel[At(h, r, c)] = p.pixel[At(w, c, w - 1 - r)]
<1>1. /\ p.width = w /\ p.height = h /\ p.pixel \in [Pixels(w, h) -> Pixels(w, h)]
      /\ Pixels(h, w) = Pixels(w, h)
  BY DEF Pictures, Pixels
<1> DEFINE f == [j \in Pixels(h, w) |-> p.pixel[(j % h) * w + (w - 1 - j \div h)]]
<1>2. QuarterTurn(p) = [width |-> h, height |-> w, pixel |-> f]
  BY <1>1 DEF QuarterTurn
<1>3. ASSUME NEW r \in 0 .. w - 1, NEW c \in 0 .. h - 1
      PROVE  f[At(h, r, c)] = p.pixel[At(w, c, w - 1 - r)]
  <2>1. At(h, r, c) \in Pixels(h, w)
    BY AtInRange
  <2>2. At(h, r, c) \div h = r /\ At(h, r, c) % h = c
    BY PixelOfPlace
  <2> QED
    BY <2>1, <2>2 DEF At
<1>4. ASSUME NEW j \in Pixels(h, w)
      PROVE  p.pixel[(j % h) * w + (w - 1 - j \div h)] \in Pixels(h, w)
  <2>1. j % h \in 0 .. h - 1 /\ j \div h \in 0 .. w - 1
    BY PlaceOfPixel
  <2>2. w - 1 - j \div h \in 0 .. w - 1
    BY <2>1
  <2>3. At(w, j % h, w - 1 - j \div h) \in Pixels(w, h)
    BY <2>1, <2>2, AtInRange
  <2> QED
    BY <1>1, <2>3 DEF At
<1>5. f \in [Pixels(h, w) -> Pixels(h, w)]
  BY <1>4
<1> HIDE DEF f
<1> QED
  BY <1>2, <1>3, <1>5 DEF Pictures

\* Two pictures with the same pixels at every place are the same.
LEMMA SamePixels ==
  ASSUME NEW w \in Nat \ {0}, NEW h \in Nat,
         NEW f \in [Pixels(w, h) -> Pixels(w, h)], NEW g \in [Pixels(w, h) -> Pixels(w, h)],
         \A r \in 0 .. h - 1, c \in 0 .. w - 1 : f[At(w, r, c)] = g[At(w, r, c)]
  PROVE  f = g
<1>1. ASSUME NEW j \in Pixels(w, h)
      PROVE  f[j] = g[j]
  <2>1. j % w \in 0 .. w - 1 /\ j \div w \in 0 .. h - 1 /\ j = At(w, j \div w, j % w)
    BY PlaceOfPixel
  <2> QED
    BY <2>1
<1> QED
  BY <1>1

\* Two quarter turns are half a turn, four are none.
LEMMA HalfTurned ==
  ASSUME NEW w \in Nat \ {0}, NEW h \in Nat \ {0}, NEW p \in Pictures(w, h)
  PROVE  /\ QuarterTurn(QuarterTurn(p)) \in Pictures(w, h)
         /\ \A r \in 0 .. h - 1, c \in 0 .. w - 1 :
              QuarterTurn(QuarterTurn(p)).pixel[At(w, r, c)]
                = p.pixel[At(w, h - 1 - r, w - 1 - c)]
<1> DEFINE q == QuarterTurn(p)
           s == QuarterTurn(q)
<1>1. /\ q \in Pictures(h, w)
      /\ \A r \in 0 .. w - 1, c \in 0 .. h - 1 :
           q.pixel[At(h, r, c)] = p.pixel[At(w, c, w - 1 - r)]
  BY QuarterTurned
<1> HIDE DEF q
<1>2. /\ s \in Pictures(w, h)
      /\ \A r \in 0 .. h - 1, c \in 0 .. w - 1 :
           s.pixel[At(w, r, c)] = q.pixel[At(h, c, h - 1 - r)]
  BY <1>1, QuarterTurned
<1> HIDE DEF s
<1>3. ASSUME NEW r \in 0 .. h - 1, NEW c \in 0 .. w - 1
      PROVE  s.pixel[At(w, r, c)] = p.pixel[At(w, h - 1 - r, w - 1 - c)]
  <2>1. h - 1 - r \in 0 .. h - 1
    OBVIOUS
  <2>2. q.pixel[At(h, c, h - 1 - r)] = p.pixel[At(w, h - 1 - r, w - 1 - c)]
    BY <1>1, <2>1
  <2> QED
    BY <1>2, <2>2
<1> QED
  BY <1>2, <1>3 DEF q, s

\* Four quarter turns leave the picture as it was.
LEMMA FullyTurned ==
  ASSUME NEW w \in Nat \ {0}, NEW h \in Nat \ {0}, NEW p \in Pictures(w, h)
  PROVE  QuarterTurn(QuarterTurn(QuarterTurn(QuarterTurn(p)))) = p
<1> DEFINE q == QuarterTurn(QuarterTurn(p))
           s == QuarterTurn(QuarterTurn(q))
<1>1. /\ q \in Pictures(w, h)
      /\ \A r \in 0 .. h - 1, c \in 0 .. w - 1 :
           q.pixel[At(w, r, c)] = p.pixel[At(w, h - 1 - r, w - 1 - c)]
  BY HalfTurned
<1> HIDE DEF q
<1>2. /\ s \in Pictures(w, h)
      /\ \A r \in 0 .. h - 1, c \in 0 .. w - 1 :
           s.pixel[At(w, r, c)] = q.pixel[At(w, h - 1 - r, w - 1 - c)]
  BY <1>1, HalfTurned
<1> HIDE DEF s
<1>3. ASSUME NEW r \in 0 .. h - 1, NEW c \in 0 .. w - 1
      PROVE  s.pixel[At(w, r, c)] = p.pixel[At(w, r, c)]
  <2>1. /\ h - 1 - r \in 0 .. h - 1 /\ w - 1 - c \in 0 .. w - 1
        /\ h - 1 - (h - 1 - r) = r /\ w - 1 - (w - 1 - c) = c
    OBVIOUS
  <2>2. q.pixel[At(w, h - 1 - r, w - 1 - c)]
          = p.pixel[At(w, h - 1 - (h - 1 - r), w - 1 - (w - 1 - c))]
    BY <1>1, <2>1
  <2> QED
    BY <1>2, <2>1, <2>2
<1>4. /\ s = [width |-> w, height |-> h, pixel |-> s.pixel]
      /\ p = [width |-> w, height |-> h, pixel |-> p.pixel]
      /\ s.pixel \in [Pixels(w, h) -> Pixels(w, h)]
      /\ p.pixel \in [Pixels(w, h) -> Pixels(w, h)]
  BY <1>2 DEF Pictures
<1>5. s.pixel = p.pixel
  BY <1>3, <1>4, SamePixels
<1>6. s = p
  BY <1>4, <1>5
<1> QED
  BY <1>6 DEF q, s

\* And every place of the picture is stored.
LEMMA PlacesReached ==
  ASSUME NEW w \in Nat \ {0}, NEW h \in Nat \ {0}, NEW rotation \in {0, 90, 180, 270},
         NEW j \in Pixels(w, h)
  PROVE  \E x \in 0 .. w - 1, y \in 0 .. h - 1 : Place(rotation, w, h, x, y) = j
<1>1. /\ j % w \in 0 .. w - 1 /\ j \div w \in 0 .. h - 1
      /\ j = (j \div w) * w + (j % w)
  BY PlaceOfPixel DEF At
<1>2. Pixels(w, h) = Pixels(h, w)
  BY DEF Pixels
<1>3. /\ j % h \in 0 .. h - 1 /\ j \div h \in 0 .. w - 1
      /\ j = (j \div h) * h + (j % h)
  BY <1>2, PlaceOfPixel DEF At
<1>4. CASE rotation = 0
  <2>1. Place(rotation, w, h, j % w, j \div w) = j
    BY <1>1, <1>4 DEF Place
  <2> QED
    BY <1>1, <2>1
<1>5. CASE rotation = 90
  <2> DEFINE y == h - 1 - (j % h)
  <2>1. y \in 0 .. h - 1 /\ h - y - 1 = j % h
    BY <1>3
  <2> HIDE DEF y
  <2>2. Place(rotation, w, h, j \div h, y) = j
    BY <1>3, <1>5, <2>1 DEF Place
  <2> QED
    BY <1>3, <2>1, <2>2
<1>6. CASE rotation = 180
  <2> DEFINE y == h - 1 - (j \div w)
             x == w - 1 - (j % w)
  <2>1. /\ y \in 0 .. h - 1 /\ h - y - 1 = j \div w
        /\ x \in 0 .. w - 1 /\ w - 1 - x = j % w
    BY <1>1
  <2> HIDE DEF x, y
  <2>2. Place(rotation, w, h, x, y) = j
    BY <1>1, <1>6, <2>1 DEF Place
  <2> QED
    BY <2>1, <2>2
<1>7. CASE rotation = 270
  <2> DEFINE x == w - 1 - (j \div h)
  <2>1. x \in 0 .. w - 1 /\ w - x - 1 = j \div h
    BY <1>3
  <2> HIDE DEF x
  <2>2. Place(rotation, w, h, x, j % h) = j
    BY <1>3, <1>7, <2>1 DEF Place
  <2> QED
    BY <1>3, <2>1, <2>2
<1> QED
  BY <1>4, <1>5, <1>6, <1>7

\* updateScreen stores pixel (x, y) at its place and leaves nothing of vncbuf.
LEMMA ScreenUpdated ==
  ASSUME NEW w \in Nat \ {0}, NEW h \in Nat \ {0}, NEW p \in Pictures(w, h),
         NEW rotation \in {0, 90, 180, 270}, NEW buf, DOMAIN buf = Pixels(w, h)
  PROVE  /\ UpdateScreen(buf, rotation, p) \in [Pixels(w, h) -> Pixels(w, h)]
         /\ \A x \in 0 .. w - 1, y \in 0 .. h - 1 :
              UpdateScreen(buf, rotation, p)[Place(rotation, w, h, x, y)] = p.pixel[At(w, y, x)]
<1> DEFINE to(i) == Place(rotation, w, h, i % w, i \div w)
           from(j) == CHOOSE i \in Pixels(w, h) : to(i) = j
           b == UpdateScreen(buf, rotation, p)
<1>1. /\ p.width = w /\ p.height = h /\ p.pixel \in [Pixels(w, h) -> Pixels(w, h)]
  BY DEF Pictures
<1>2. b = [j \in Pixels(w, h) |->
             IF \E i \in Pixels(w, h) : to(i) = j THEN p.pixel[from(j)] ELSE buf[j]]
  BY <1>1 DEF UpdateScreen
<1>3. ASSUME NEW x \in 0 .. w - 1, NEW y \in 0 .. h - 1
      PROVE  /\ At(w, y, x) \in Pixels(w, h)
             /\ to(At(w, y, x)) = Place(rotation, w, h, x, y)
  BY AtInRange, PixelOfPlace
<1>4. ASSUME NEW i \in Pixels(w, h), NEW k \in Pixels(w, h), to(i) = to(k)
      PROVE  i = k
  <2>1. /\ i % w \in 0 .. w - 1 /\ i \div w \in 0 .. h - 1 /\ i = At(w, i \div w, i % w)
        /\ k % w \in 0 .. w - 1 /\ k \div w \in 0 .. h - 1 /\ k = At(w, k \div w, k % w)
    BY PlaceOfPixel
  <2>2. i % w = k % w /\ i \div w = k \div w
    BY <1>4, <2>1, PlacesApart
  <2> QED
    BY <2>1, <2>2
<1>5. ASSUME NEW j \in Pixels(w, h)
      PROVE  \E i \in Pixels(w, h) : to(i) = j
  <2>1. PICK x \in 0 .. w - 1, y \in 0 .. h - 1 : Place(rotation, w, h, x, y) = j
    BY PlacesReached
  <2> QED
    BY <1>3, <2>1
<1> HIDE DEF to
<1>6. ASSUME NEW j \in Pixels(w, h)
      PROVE  from(j) \in Pixels(w, h) /\ to(from(j)) = j
  BY <1>5
<1> HIDE DEF from, b
<1>7. \A j \in Pixels(w, h) : b[j] = p.pixel[from(j)]
  BY <1>2, <1>5
<1>8. b \in [Pixels(w, h) -> Pixels(w, h)]
  BY <1>1, <1>2, <1>5, <1>6
<1>9. ASSUME NEW x \in 0 .. w - 1, NEW y \in 0 .. h - 1
      PROVE  b[Place(rotation, w, h, x, y)] = p.pixel[At(w, y, x)]
  <2> DEFINE j == Place(rotation, w, h, x, y)
  <2>1. j \in Pixels(w, h)
    BY PlacesInside
  <2> HIDE DEF j
  <2>2. to(At(w, y, x)) = j /\ At(w, y, x) \in Pixels(w, h)
    BY <1>3 DEF j
  <2>3. from(j) = At(w, y, x)
    BY <1>4, <1>6, <2>1, <2>2
  <2>4. b[j] = p.pixel[At(w, y, x)]
    BY <1>7, <2>1, <2>3
  <2> QED
    BY <2>4 DEF j
<1> QED
  BY <1>8, <1>9 DEF b

\* updateScreen turns a picture clockwise, whatever vncbuf held before
\* (update_screen_template.cpp:19).
THEOREM PictureTurned ==
  ASSUME NEW w \in Nat \ {0}, NEW h \in Nat \ {0}, NEW p \in Pictures(w, h),
         NEW buf, DOMAIN buf = Pixels(w, h)
  PROVE  /\ UpdateScreen(buf, 0, p) = p.pixel
         /\ UpdateScreen(buf, 90, QuarterTurn(p)) = p.pixel
         /\ UpdateScreen(buf, 180, p) = QuarterTurn(QuarterTurn(p)).pixel
         /\ UpdateScreen(buf, 270, p) = QuarterTurn(p).pixel
<1>1. /\ p.pixel \in [Pixels(w, h) -> Pixels(w, h)] /\ Pixels(h, w) = Pixels(w, h)
  BY DEF Pictures, Pixels
<1>2. UpdateScreen(buf, 0, p) = p.pixel
  <2> DEFINE b == UpdateScreen(buf, 0, p)
  <2>1. /\ b \in [Pixels(w, h) -> Pixels(w, h)]
        /\ \A x \in 0 .. w - 1, y \in 0 .. h - 1 :
             b[Place(0, w, h, x, y)] = p.pixel[At(w, y, x)]
    BY ScreenUpdated
  <2> HIDE DEF b
  <2>2. \A r \in 0 .. h - 1, c \in 0 .. w - 1 : Place(0, w, h, c, r) = At(w, r, c)
    BY DEF Place, At
  <2>3. \A r \in 0 .. h - 1, c \in 0 .. w - 1 : b[At(w, r, c)] = p.pixel[At(w, r, c)]
    BY <2>1, <2>2
  <2>4. b = p.pixel
    BY <1>1, <2>1, <2>3, SamePixels
  <2> QED
    BY <2>4 DEF b
<1>3. UpdateScreen(buf, 90, QuarterTurn(p)) = p.pixel
  <2> DEFINE q == QuarterTurn(p)
             b == UpdateScreen(buf, 90, q)
  <2>1. /\ q \in Pictures(h, w)
        /\ \A r \in 0 .. w - 1, c \in 0 .. h - 1 :
             q.pixel[At(h, r, c)] = p.pixel[At(w, c, w - 1 - r)]
    BY QuarterTurned
  <2> HIDE DEF q
  <2>2. /\ b \in [Pixels(w, h) -> Pixels(w, h)]
        /\ \A x \in 0 .. h - 1, y \in 0 .. w - 1 :
             b[Place(90, h, w, x, y)] = q.pixel[At(h, y, x)]
    BY <1>1, <2>1, ScreenUpdated
  <2> HIDE DEF b
  <2>3. ASSUME NEW r \in 0 .. h - 1, NEW c \in 0 .. w - 1
        PROVE  b[At(w, r, c)] = p.pixel[At(w, r, c)]
    <3>1. w - 1 - c \in 0 .. w - 1 /\ w - 1 - (w - 1 - c) = c /\ w - (w - 1 - c) - 1 = c
      OBVIOUS
    <3>2. Place(90, h, w, r, w - 1 - c) = At(w, r, c)
      BY <3>1 DEF Place, At
    <3>3. b[Place(90, h, w, r, w - 1 - c)] = q.pixel[At(h, w - 1 - c, r)]
      BY <2>2, <3>1
    <3>4. q.pixel[At(h, w - 1 - c, r)] = p.pixel[At(w, r, w - 1 - (w - 1 - c))]
      BY <2>1, <3>1
    <3> QED
      BY <3>1, <3>2, <3>3, <3>4
  <2>4. b = p.pixel
    BY <1>1, <2>2, <2>3, SamePixels
  <2> QED
    BY <2>4 DEF b, q
<1>4. UpdateScreen(buf, 180, p) = QuarterTurn(QuarterTurn(p)).pixel
  <2> DEFINE q == QuarterTurn(QuarterTurn(p))
             b == UpdateScreen(buf, 180, p)
  <2>1. /\ q \in Pictures(w, h)
        /\ \A r \in 0 .. h - 1, c \in 0 .. w - 1 :
             q.pixel[At(w, r, c)] = p.pixel[At(w, h - 1 - r, w - 1 - c)]
    BY HalfTurned
  <2> HIDE DEF q
  <2>2. /\ b \in [Pixels(w, h) -> Pixels(w, h)]
        /\ \A x \in 0 .. w - 1, y \in 0 .. h - 1 :
             b[Place(180, w, h, x, y)] = p.pixel[At(w, y, x)]
    BY ScreenUpdated
  <2> HIDE DEF b
  <2>3. ASSUME NEW r \in 0 .. h - 1, NEW c \in 0 .. w - 1
        PROVE  b[At(w, r, c)] = q.pixel[At(w, r, c)]
    <3>1. /\ w - 1 - c \in 0 .. w - 1 /\ w - 1 - (w - 1 - c) = c
          /\ h - 1 - r \in 0 .. h - 1 /\ h - (h - 1 - r) - 1 = r
      OBVIOUS
    <3>2. Place(180, w, h, w - 1 - c, h - 1 - r) = At(w, r, c)
      BY <3>1 DEF Place, At
    <3>3. b[Place(180, w, h, w - 1 - c, h - 1 - r)] = p.pixel[At(w, h - 1 - r, w - 1 - c)]
      BY <2>2, <3>1
    <3> QED
      BY <2>1, <3>2, <3>3
  <2>4. q.pixel \in [Pixels(w, h) -> Pixels(w, h)]
    BY <2>1 DEF Pictures
  <2>5. b = q.pixel
    BY <2>2, <2>3, <2>4, SamePixels
  <2> QED
    BY <2>5 DEF b, q
<1>5. UpdateScreen(buf, 270, p) = QuarterTurn(p).pixel
  <2> DEFINE q == QuarterTurn(p)
             b == UpdateScreen(buf, 270, p)
  <2>1. /\ q \in Pictures(h, w)
        /\ \A r \in 0 .. w - 1, c \in 0 .. h - 1 :
             q.pixel[At(h, r, c)] = p.pixel[At(w, c, w - 1 - r)]
    BY QuarterTurned
  <2> HIDE DEF q
  <2>2. /\ b \in [Pixels(w, h) -> Pixels(w, h)]
        /\ \A x \in 0 .. w - 1, y \in 0 .. h - 1 :
             b[Place(270, w, h, x, y)] = p.pixel[At(w, y, x)]
    BY ScreenUpdated
  <2> HIDE DEF b
  <2>3. ASSUME NEW r \in 0 .. w - 1, NEW c \in 0 .. h - 1
        PROVE  b[At(h, r, c)] = q.pixel[At(h, r, c)]
    <3>1. w - 1 - r \in 0 .. w - 1 /\ w - (w - 1 - r) - 1 = r
      OBVIOUS
    <3>2. Place(270, w, h, w - 1 - r, c) = At(h, r, c)
      BY <3>1 DEF Place, At
    <3>3. b[Place(270, w, h, w - 1 - r, c)] = p.pixel[At(w, c, w - 1 - r)]
      BY <2>2, <3>1
    <3> QED
      BY <2>1, <3>2, <3>3
  <2>4. q.pixel \in [Pixels(h, w) -> Pixels(h, w)] /\ b \in [Pixels(h, w) -> Pixels(h, w)]
    BY <1>1, <2>1, <2>2 DEF Pictures
  <2>5. b = q.pixel
    BY <2>3, <2>4, SamePixels
  <2> QED
    BY <2>5 DEF b, q
<1> QED
  BY <1>2, <1>3, <1>4, <1>5

-----------------------------------------------------------------------------
\* Capture satisfies its recursion.
LEMMA Captured ==
  ASSUME NEW w \in Nat \ {0}, NEW h \in Nat \ {0}
  PROVE  /\ Capture(w, h)[0] \in Pictures(w, h)
         /\ \A s \in Nat : Capture(w, h)[s + 1] = QuarterTurn(Capture(w, h)[s])
<1> DEFINE P == Pictures(w, h) \cup Pictures(h, w)
           base == [width |-> w, height |-> h, pixel |-> [j \in Pixels(w, h) |-> j]]
           step == [q \in Nat \X P |-> QuarterTurn(q[2])]
           IsCapture(t) == t = [s \in Nat |-> IF s = 0 THEN base ELSE QuarterTurn(t[s - 1])]
<1>1. base \in Pictures(w, h)
  BY DEF Pictures
<1> HIDE DEF base
<1>2. step \in [Nat \X P -> P]
  <2> SUFFICES ASSUME NEW q \in Nat \X P PROVE QuarterTurn(q[2]) \in P
    OBVIOUS
  <2>1. q[2] \in Pictures(w, h) \/ q[2] \in Pictures(h, w)
    OBVIOUS
  <2> QED
    BY <2>1, QuarterTurned
<1>3. \A i \in Nat, p \in P : step[<<i, p>>] = QuarterTurn(p)
  OBVIOUS
<1> HIDE DEF step
<1>4. base \in P
  BY <1>1
<1> HIDE DEF P
<1>5. PICK f : RecursiveOnNat(f, P, base, step)
  BY <1>2, <1>4, RecursionOnNat, Zenon
<1>6. IsCapture(f)
  <2>1. ASSUME NEW i \in Nat
        PROVE  f[i] = IF i = 0 THEN base ELSE QuarterTurn(f[i - 1])
    <3>1. CASE i = 0
      BY <1>5, <3>1 DEF RecursiveOnNat
    <3>2. CASE i # 0
      <4>1. i - 1 \in Nat /\ f[i - 1] \in P
        BY <1>5, <3>2 DEF RecursiveOnNat
      <4> QED
        BY <1>3, <1>5, <3>2, <4>1 DEF RecursiveOnNat
    <3> QED
      BY <3>1, <3>2
  <2> QED
    BY <1>5, <2>1 DEF RecursiveOnNat
<1>7. Capture(w, h) = CHOOSE t : IsCapture(t)
  BY DEF Capture, base
<1> HIDE DEF IsCapture
<1>8. IsCapture(Capture(w, h))
  BY <1>6, <1>7
<1> DEFINE t == Capture(w, h)
<1>9. t = [s \in Nat |-> IF s = 0 THEN base ELSE QuarterTurn(t[s - 1])]
  BY <1>8 DEF IsCapture
<1> HIDE DEF t
<1>10. t[0] = base
  BY <1>9
<1>11. ASSUME NEW s \in Nat
       PROVE  t[s + 1] = QuarterTurn(t[s])
  <2>1. s + 1 \in Nat /\ s + 1 # 0 /\ (s + 1) - 1 = s
    OBVIOUS
  <2> QED
    BY <1>9, <2>1
<1> QED
  BY <1>1, <1>10, <1>11 DEF t
=============================================================================
