------------------------- MODULE PreEditStreamProofs -------------------------
(***************************************************************************)
(* Whole characters never overtake each other, and none vanishes on the    *)
(* way: the composition implements TextStream, and the keys that are not   *)
(* meant to erase keep the text, for every value of the constants.         *)
(***************************************************************************)
EXTENDS PreEditTextProofs

-----------------------------------------------------------------------------
(* The order of a sequence                                                 *)

\* a stands before b in s.
Before(s, a, b) == \E i, j \in DOMAIN s : i < j /\ s[i] = a /\ s[j] = b

LEMMA BeforeInside ==
    ASSUME NEW s, NEW a, NEW b, Before(s, a, b)
    PROVE  a \in Elements(s) /\ b \in Elements(s)
BY DEF Before, Elements

LEMMA NothingBefore ==
    ASSUME NEW t \in Nat, NEW a, NEW b
    PROVE  ~Before(<<>>, a, b) /\ ~Before(<<t>>, a, b)
<1>1. DOMAIN <<>> = {} /\ DOMAIN <<t>> = {1}
  OBVIOUS
<1>2. QED
  BY <1>1 DEF Before

\* Of two characters of a concatenation, the first is before the second in one
\* of the parts, or stands in the first part and the second in the second.
LEMMA BeforeConcat ==
    ASSUME NEW x \in Seq(Nat), NEW y \in Seq(Nat), NEW a, NEW b
    PROVE  Before(x \o y, a, b) <=>
             \/ Before(x, a, b) \/ Before(y, a, b)
             \/ a \in Elements(x) /\ b \in Elements(y)
<1> DEFINE xy == x \o y
           m  == Len(x)
<1>1. /\ xy \in Seq(Nat) /\ Len(xy) = Len(x) + Len(y)
      /\ \A i \in 1 .. Len(x) + Len(y) :
            xy[i] = IF i <= Len(x) THEN x[i] ELSE y[i - Len(x)]
  BY ConcatProperties
<1>2. /\ m \in Nat /\ Len(y) \in Nat
      /\ DOMAIN x = 1 .. m /\ DOMAIN y = 1 .. Len(y) /\ DOMAIN xy = 1 .. m + Len(y)
  BY <1>1, LenProperties
<1> HIDE DEF xy
<1>3. \A i \in 1 .. m : i \in 1 .. m + Len(y) /\ xy[i] = x[i]
  BY <1>1, <1>2
<1>4. \A j \in 1 .. Len(y) : m + j \in 1 .. m + Len(y) /\ xy[m + j] = y[j]
  <2> SUFFICES ASSUME NEW j \in 1 .. Len(y)
               PROVE  m + j \in 1 .. m + Len(y) /\ xy[m + j] = y[j]
    OBVIOUS
  <2> DEFINE k == m + j
  <2>1. k \in 1 .. Len(x) + Len(y) /\ ~(k <= Len(x)) /\ k - Len(x) = j
    BY <1>2
  <2> HIDE DEF k
  <2>2. xy[k] = y[j]
    BY <1>1, <2>1
  <2>3. QED
    BY <1>2, <2>1, <2>2 DEF k
<1>5. \A k \in 1 .. m + Len(y) :
        \/ k \in 1 .. m /\ xy[k] = x[k]
        \/ k - m \in 1 .. Len(y) /\ xy[k] = y[k - m] /\ k > m
  BY <1>1, <1>2
<1> HIDE DEF m
<1>6. ASSUME Before(xy, a, b)
      PROVE  \/ Before(x, a, b) \/ Before(y, a, b)
             \/ a \in Elements(x) /\ b \in Elements(y)
  <2>1. PICK i \in 1 .. m + Len(y), j \in 1 .. m + Len(y) :
               i < j /\ xy[i] = a /\ xy[j] = b
    BY <1>2, <1>6 DEF Before
  <2>2. CASE j \in 1 .. m
    <3>1. i \in 1 .. m /\ x[i] = a /\ x[j] = b
      BY <1>2, <1>3, <2>1, <2>2
    <3>2. QED
      BY <1>2, <2>1, <2>2, <3>1 DEF Before
  <2>3. CASE i \notin 1 .. m
    <3>1. /\ i - m \in 1 .. Len(y) /\ j - m \in 1 .. Len(y) /\ i - m < j - m
          /\ y[i - m] = a /\ y[j - m] = b
      BY <1>2, <1>5, <2>1, <2>3
    <3>2. QED
      BY <1>2, <3>1 DEF Before
  <2>4. CASE i \in 1 .. m /\ j \notin 1 .. m
    BY <1>2, <1>3, <1>5, <2>1, <2>4 DEF Elements
  <2>5. QED
    BY <2>2, <2>3, <2>4
<1>7. ASSUME Before(x, a, b) PROVE Before(xy, a, b)
  <2>1. PICK i \in 1 .. m, j \in 1 .. m : i < j /\ x[i] = a /\ x[j] = b
    BY <1>2, <1>7 DEF Before
  <2>2. QED
    BY <1>2, <1>3, <2>1 DEF Before
<1>8. ASSUME Before(y, a, b) PROVE Before(xy, a, b)
  <2>1. PICK i \in 1 .. Len(y), j \in 1 .. Len(y) : i < j /\ y[i] = a /\ y[j] = b
    BY <1>2, <1>8 DEF Before
  <2>2. m + i < m + j
    BY <1>2, <2>1
  <2>3. QED
    BY <1>2, <1>4, <2>1, <2>2 DEF Before
<1>9. ASSUME a \in Elements(x), b \in Elements(y) PROVE Before(xy, a, b)
  <2>1. PICK i \in 1 .. m : x[i] = a
    BY <1>2, <1>9 DEF Elements
  <2>2. PICK j \in 1 .. Len(y) : y[j] = b
    BY <1>2, <1>9 DEF Elements
  <2>3. i < m + j
    BY <1>2, <2>1, <2>2
  <2>4. QED
    BY <1>2, <1>3, <1>4, <2>1, <2>2, <2>3 DEF Before
<1>10. QED
  BY <1>6, <1>7, <1>8, <1>9 DEF xy

\* Three parts, and the same after taking the middle away.
LEMMA BeforeThree ==
    ASSUME NEW x \in Seq(Nat), NEW m \in Seq(Nat), NEW y \in Seq(Nat)
    PROVE  /\ x \o m \o y \in Seq(Nat)
           /\ Elements(x \o m \o y) = Elements(x) \cup Elements(m) \cup Elements(y)
           /\ \A a, b : Before(x \o m \o y, a, b) <=>
                 \/ Before(x, a, b) \/ Before(m, a, b) \/ Before(y, a, b)
                 \/ a \in Elements(x) /\ b \in Elements(m) \cup Elements(y)
                 \/ a \in Elements(m) /\ b \in Elements(y)
<1> DEFINE xm == x \o m
<1>1. /\ xm \in Seq(Nat) /\ Elements(xm) = Elements(x) \cup Elements(m)
      /\ \A a, b : Before(xm, a, b) <=>
            \/ Before(x, a, b) \/ Before(m, a, b)
            \/ a \in Elements(x) /\ b \in Elements(m)
  BY ConcatProperties, ConcatOnce, BeforeConcat
<1> HIDE DEF xm
<1>2. /\ xm \o y \in Seq(Nat) /\ Elements(xm \o y) = Elements(xm) \cup Elements(y)
      /\ \A a, b : Before(xm \o y, a, b) <=>
            \/ Before(xm, a, b) \/ Before(y, a, b)
            \/ a \in Elements(xm) /\ b \in Elements(y)
  BY <1>1, ConcatProperties, ConcatOnce, BeforeConcat
<1>3. QED
  BY <1>1, <1>2 DEF xm

\* A sequence cut in two, and the two put together again.
LEMMA CutInTwo ==
    ASSUME NEW s \in Seq(Nat), NEW i \in 0 .. Len(s)
    PROVE  \E x, y \in Seq(Nat) :
              /\ s = x \o y /\ Len(x) = i
              /\ x = SubSeq(s, 1, i) /\ y = SubSeq(s, i + 1, Len(s))
<1>1. Len(s) \in Nat /\ i \in Nat
  BY LenProperties
<1> DEFINE x == SubSeq(s, 1, i)
           y == SubSeq(s, i + 1, Len(s))
<1>2. x \in Seq(Nat) /\ Len(x) = i /\ y \in Seq(Nat)
  BY <1>1, SubSeqInside
<1> DEFINE n == Len(s)
<1>3. x \o y = SubSeq(s, 1, Len(s))
  <2>1. 1 \in 1 .. n + 1 /\ i \in 1 - 1 .. n /\ n \in i .. n
    BY <1>1
  <2>2. SubSeq(s, 1, i) \o SubSeq(s, i + 1, n) = SubSeq(s, 1, n)
    BY <2>1, ConcatAdjacentSubSeq
  <2>3. QED
    BY <2>2
<1>4. SubSeq(s, 1, Len(s)) = s
  BY SubSeqFull
<1>5. QED
  BY <1>2, <1>3, <1>4

\* Concatenation may be read from either end.
LEMMA ConcatFromEither ==
    ASSUME NEW a \in Seq(Nat), NEW b \in Seq(Nat), NEW d \in Seq(Nat)
    PROVE  (a \o b) \o d = a \o (b \o d)
<1> DEFINE ab == a \o b
           bd == b \o d
<1>1. /\ ab \in Seq(Nat) /\ Len(ab) = Len(a) + Len(b)
      /\ \A i \in 1 .. Len(a) + Len(b) :
            ab[i] = IF i <= Len(a) THEN a[i] ELSE b[i - Len(a)]
  BY ConcatProperties
<1>2. /\ bd \in Seq(Nat) /\ Len(bd) = Len(b) + Len(d)
      /\ \A i \in 1 .. Len(b) + Len(d) :
            bd[i] = IF i <= Len(b) THEN b[i] ELSE d[i - Len(b)]
  BY ConcatProperties
<1>a. ab \in Seq(Nat)
  BY <1>1
<1>b. bd \in Seq(Nat)
  BY <1>2
<1>3. Len(a) \in Nat /\ Len(b) \in Nat /\ Len(d) \in Nat
  BY LenProperties
<1> HIDE DEF ab, bd
<1> DEFINE u == ab \o d
           v == a \o bd
<1>4. /\ u \in Seq(Nat) /\ Len(u) = Len(ab) + Len(d)
      /\ \A i \in 1 .. Len(ab) + Len(d) :
            u[i] = IF i <= Len(ab) THEN ab[i] ELSE d[i - Len(ab)]
  BY <1>a, ConcatProperties
<1>5. /\ v \in Seq(Nat) /\ Len(v) = Len(a) + Len(bd)
      /\ \A i \in 1 .. Len(a) + Len(bd) :
            v[i] = IF i <= Len(a) THEN a[i] ELSE bd[i - Len(a)]
  BY <1>b, ConcatProperties
<1> HIDE DEF u, v
<1>6. Len(u) = Len(v)
  BY <1>1, <1>2, <1>3, <1>4, <1>5
<1>7. ASSUME NEW i \in 1 .. Len(u) PROVE u[i] = v[i]
  <2> DEFINE k == i - Len(a)
             l == i - Len(ab)
  <2>a. /\ Len(ab) = Len(a) + Len(b) /\ Len(bd) = Len(b) + Len(d)
        /\ i \in 1 .. Len(ab) + Len(d)
    BY <1>1, <1>2, <1>4
  <2>1. /\ i \in 1 .. Len(ab) + Len(d) /\ i \in 1 .. Len(a) + Len(bd)
        /\ i <= Len(a) => i \in 1 .. Len(a) + Len(b) /\ i <= Len(ab)
        /\ ~(i <= Len(a)) => k \in 1 .. Len(b) + Len(d)
        /\ ~(i <= Len(a)) /\ i <= Len(ab) => i \in 1 .. Len(a) + Len(b)
        /\ ~(i <= Len(a)) => (k <= Len(b) <=> i <= Len(ab))
        /\ k - Len(b) = l
    BY <1>3, <2>a
  <2>2. u[i] = IF i <= Len(ab) THEN ab[i] ELSE d[l]
    BY <1>4, <2>1
  <2>3. v[i] = IF i <= Len(a) THEN a[i] ELSE bd[k]
    BY <1>5, <2>1
  <2>4. i <= Len(ab) => ab[i] = IF i <= Len(a) THEN a[i] ELSE b[k]
    BY <1>1, <2>1
  <2> HIDE DEF k
  <2>5. ~(i <= Len(a)) => bd[k] = IF k <= Len(b) THEN b[k] ELSE d[l]
    BY <1>2, <2>1
  <2> HIDE DEF l
  <2>6. QED
    BY <2>1, <2>2, <2>3, <2>4, <2>5
<1>8. u = v
  BY <1>4, <1>5, <1>6, <1>7, SeqEqual
<1>9. QED
  BY <1>8 DEF u, v, ab, bd

LEMMA PutTogether ==
    ASSUME NEW x \in Seq(Nat), NEW y \in Seq(Nat)
    PROVE  /\ SubSeq(x \o y, 1, Len(x)) = x
           /\ SubSeq(x \o y, Len(x) + 1, Len(x \o y)) = y
<1> DEFINE s == x \o y
           m == Len(x)
           n == Len(y)
<1>1. /\ s \in Seq(Nat) /\ Len(s) = m + n
      /\ \A i \in 1 .. m + n : s[i] = IF i <= m THEN x[i] ELSE y[i - m]
  BY ConcatProperties
<1>2. m \in Nat /\ n \in Nat
  BY LenProperties
<1> HIDE DEF s
<1> DEFINE front == SubSeq(s, 1, m)
           back  == SubSeq(s, m + 1, m + n)
<1>3. \A i \in 1 .. m + n : s[i] \in Nat
  BY <1>1, ElementOfSeq
<1>4. /\ front \in Seq(Nat) /\ Len(front) = m
      /\ \A i \in 1 .. m : front[i] = s[i]
  <2>1. \A i \in 1 .. m : s[i] \in Nat
    BY <1>2, <1>3
  <2>2. front \in Seq(Nat) /\ Len(front) = m
    BY <1>1, <1>2, SubSeqInside
  <2>3. \A i \in 1 .. m : front[i] = s[1 + i - 1]
    BY <1>2, <2>1, SubSeqProperties
  <2>4. QED
    BY <2>2, <2>3, <1>2
<1>5. /\ back \in Seq(Nat) /\ Len(back) = n
      /\ \A i \in 1 .. n : back[i] = s[m + i]
  <2> DEFINE first == m + 1
             last  == m + n
             p     == SubSeq(s, first, last)
  <2>1. /\ first \in Nat /\ last \in Nat /\ 1 <= first /\ first <= last + 1
        /\ last <= Len(s) /\ last - first + 1 = n
        /\ \A i \in first .. last : s[i] \in Nat
    BY <1>1, <1>2, <1>3
  <2> HIDE DEF first, last
  <2>2. p \in Seq(Nat) /\ Len(p) = n
    BY <1>1, <2>1, SubSeqInside
  <2>3. \A i \in 1 .. last - first + 1 : p[i] = s[first + i - 1]
    BY <2>1, SubSeqProperties
  <2>4. \A i \in 1 .. n : first + i - 1 = m + i
    BY <1>2 DEF first
  <2> HIDE DEF p
  <2>5. p \in Seq(Nat) /\ Len(p) = n /\ \A i \in 1 .. n : p[i] = s[m + i]
    BY <2>1, <2>2, <2>3, <2>4
  <2>6. p = back
    BY DEF p, first, last
  <2>7. QED
    BY <2>5, <2>6
<1> HIDE DEF front, back
<1>6. front = x
  <2>1. \A i \in 1 .. m : front[i] = x[i]
    BY <1>1, <1>2, <1>4
  <2>2. QED
    BY <1>4, <2>1, SeqEqual
<1>7. back = y
  <2>1. ASSUME NEW i \in 1 .. n PROVE back[i] = y[i]
    <3> DEFINE k == m + i
    <3>1. k \in 1 .. m + n /\ ~(k <= m) /\ k - m = i
      BY <1>2
    <3> HIDE DEF k
    <3>2. s[k] = y[i]
      BY <1>1, <3>1
    <3>3. QED
      BY <1>5, <3>2 DEF k
  <2>2. QED
    BY <1>5, <2>1, SeqEqual
<1>8. QED
  BY <1>1, <1>6, <1>7 DEF front, back, s

LEMMA SplicedBetween ==
    ASSUME NEW x \in Seq(Nat), NEW y \in Seq(Nat), NEW m
    PROVE  Spliced(x \o y, Len(x), m) = x \o m \o y
BY PutTogether DEF Spliced

-----------------------------------------------------------------------------
(* What is shown, and what becomes of it                                   *)

\* The cursor cuts the buffer in two, and the syllable is shown in between.
LEMMA ShownInPieces ==
    ASSUME NEW c, ContextOK(c)
    PROVE  \E x, y \in Seq(Nat) :
              /\ c.buf = x \o y /\ Len(x) = c.cursor
              /\ Shown(c) = x \o c.bpmf \o y
<1>1. c.buf \in Seq(Nat) /\ c.cursor \in 0 .. Len(c.buf)
  BY DEF ContextOK, Context
<1>2. PICK x \in Seq(Nat), y \in Seq(Nat) : c.buf = x \o y /\ Len(x) = c.cursor
  BY <1>1, CutInTwo
<1>3. Shown(c) = x \o c.bpmf \o y
  <2>1. Spliced(x \o y, Len(x), c.bpmf) = x \o c.bpmf \o y
    BY SplicedBetween
  <2>2. Shown(c) = Spliced(c.buf, c.cursor, c.bpmf)
    BY DEF Shown
  <2>3. QED
    BY <1>2, <2>1, <2>2, Zenon
<1>4. QED
  BY <1>2, <1>3

LEMMA ShownTyped ==
    ASSUME NEW c, ContextOK(c)
    PROVE  /\ Shown(c) \in Seq(Nat)
           /\ Elements(Shown(c)) = Elements(c.buf) \cup Elements(c.bpmf)
           /\ c.bpmf = <<>> => Shown(c) = c.buf
           /\ c.buf = <<>> => Shown(c) = c.bpmf
<1>1. c.buf \in Seq(Nat) /\ c.bpmf \in Seq(Nat)
  BY DEF ContextOK, Context
<1>2. PICK x \in Seq(Nat), y \in Seq(Nat) :
             c.buf = x \o y /\ Shown(c) = x \o c.bpmf \o y
  BY ShownInPieces
<1>3. Elements(c.buf) = Elements(x) \cup Elements(y)
  BY <1>2, ConcatOnce
<1>4. /\ Shown(c) \in Seq(Nat)
      /\ Elements(Shown(c)) = Elements(x) \cup Elements(c.bpmf) \cup Elements(y)
  BY <1>1, <1>2, BeforeThree
<1>5. c.bpmf = <<>> => Shown(c) = c.buf
  BY <1>2, ConcatEmptySeq
<1>6. ASSUME c.buf = <<>> PROVE Shown(c) = c.bpmf
  <2>1. x = <<>> /\ y = <<>>
    <3>1. x \o y = <<>>
      BY <1>2, <1>6
    <3>2. Len(x) + Len(y) = Len(x \o y) /\ Len(x) \in Nat /\ Len(y) \in Nat
      BY ConcatProperties, LenProperties
    <3>3. Len(x) = 0 /\ Len(y) = 0
      BY <3>1, <3>2
    <3>4. QED
      BY <3>3, EmptySeq
  <2>2. <<>> \o c.bpmf = c.bpmf /\ c.bpmf \o <<>> = c.bpmf
    BY <1>1, ConcatEmptySeq
  <2>3. QED
    BY <1>2, <2>1, <2>2
<1>7. QED
  BY <1>3, <1>4, <1>5, <1>6

\* u is made of characters of s, in their order, and possibly of t.
Keeps(u, s, t) ==
    /\ Elements(u) \subseteq Elements(s) \cup {t}
    /\ \A a, b \in Elements(s) : Before(u, a, b) => Before(s, a, b)

LEMMA KeepsItself ==
    ASSUME NEW s, NEW t
    PROVE  Keeps(s, s, t)
BY DEF Keeps

LEMMA KeepsNothing ==
    ASSUME NEW s, NEW t \in Nat
    PROVE  Keeps(<<>>, s, t) /\ Keeps(<<t>>, s, t)
BY NothingOnce, OneOnce, NothingBefore DEF Keeps

LEMMA KeepsTransitive ==
    ASSUME NEW u, NEW v, NEW s, NEW t, t \notin Elements(s),
           Keeps(u, v, t), Keeps(v, s, t)
    PROVE  Keeps(u, s, t)
<1>1. Elements(u) \subseteq Elements(s) \cup {t}
  BY DEF Keeps
<1>2. ASSUME NEW a \in Elements(s), NEW b \in Elements(s), Before(u, a, b)
      PROVE  Before(s, a, b)
  <2>1. a \in Elements(v) /\ b \in Elements(v)
    BY <1>2, BeforeInside DEF Keeps
  <2>2. QED
    BY <1>2, <2>1 DEF Keeps
<1>3. QED
  BY <1>1, <1>2 DEF Keeps

\* Parts taken away, and a new character put in.
LEMMA KeepsParts ==
    ASSUME NEW x \in Seq(Nat), NEW m \in Seq(Nat), NEW y \in Seq(Nat),
           NEW t \in Nat
    PROVE  LET s == x \o m \o y
           IN  /\ Keeps(x, s, t) /\ Keeps(m, s, t) /\ Keeps(y, s, t)
               /\ Keeps(x \o y, s, t) /\ Keeps(x \o m, s, t) /\ Keeps(m \o y, s, t)
               /\ t \notin Elements(s) => Keeps((x \o <<t>>) \o m \o y, s, t)
<1> DEFINE s == x \o m \o y
           one == <<t>>
<1>1. /\ Elements(s) = Elements(x) \cup Elements(m) \cup Elements(y)
      /\ \A a, b : Before(s, a, b) <=>
            \/ Before(x, a, b) \/ Before(m, a, b) \/ Before(y, a, b)
            \/ a \in Elements(x) /\ b \in Elements(m) \cup Elements(y)
            \/ a \in Elements(m) /\ b \in Elements(y)
  BY BeforeThree
<1>2. one \in Seq(Nat) /\ Elements(one) = {t} /\ \A a, b : ~Before(one, a, b)
  BY OneToken, OneOnce, NothingBefore
<1> HIDE DEF s, one
<1>3. Keeps(x, s, t) /\ Keeps(m, s, t) /\ Keeps(y, s, t)
  BY <1>1 DEF Keeps
<1>4. Keeps(x \o y, s, t)
  BY <1>1, ConcatOnce, BeforeConcat DEF Keeps
<1>5. Keeps(x \o m, s, t)
  BY <1>1, ConcatOnce, BeforeConcat DEF Keeps
<1>6. Keeps(m \o y, s, t)
  BY <1>1, ConcatOnce, BeforeConcat DEF Keeps
<1>7. ASSUME t \notin Elements(s) PROVE Keeps((x \o one) \o m \o y, s, t)
  <2> DEFINE xt == x \o one
  <2>1. /\ xt \in Seq(Nat) /\ Elements(xt) = Elements(x) \cup {t}
        /\ \A a, b : Before(xt, a, b) <=>
              Before(x, a, b) \/ (a \in Elements(x) /\ b = t)
    BY <1>2, ConcatProperties, ConcatOnce, BeforeConcat
  <2> HIDE DEF xt
  <2>2. /\ Elements(xt \o m \o y) = Elements(xt) \cup Elements(m) \cup Elements(y)
        /\ \A a, b : Before(xt \o m \o y, a, b) <=>
              \/ Before(xt, a, b) \/ Before(m, a, b) \/ Before(y, a, b)
              \/ a \in Elements(xt) /\ b \in Elements(m) \cup Elements(y)
              \/ a \in Elements(m) /\ b \in Elements(y)
    BY <2>1, BeforeThree
  <2>3. Keeps(xt \o m \o y, s, t)
    BY <1>1, <1>7, <2>1, <2>2 DEF Keeps
  <2>4. QED
    BY <2>3 DEF xt
<1>8. QED
  BY <1>3, <1>4, <1>5, <1>6, <1>7 DEF s, one

\* The characters u and s share stand in s before those v and s share.
Ahead(u, v, s) ==
    \A a \in Elements(u), b \in Elements(v) :
        a \in Elements(s) /\ b \in Elements(s) => Before(s, a, b)

LEMMA NothingAhead ==
    ASSUME NEW s, NEW u
    PROVE  Ahead(<<>>, u, s) /\ Ahead(u, <<>>, s)
BY NothingOnce DEF Ahead

LEMMA ConcatAhead ==
    ASSUME NEW p \in Seq(Nat), NEW q \in Seq(Nat)
    PROVE  Ahead(p, q, p \o q)
BY BeforeConcat DEF Ahead

LEMMA AheadTransitive ==
    ASSUME NEW u, NEW w, NEW v, NEW s, NEW t, t \notin Elements(s),
           Keeps(v, s, t), Ahead(u, w, v),
           Elements(u) \subseteq Elements(v) \cup {t},
           Elements(w) \subseteq Elements(v) \cup {t}
    PROVE  Ahead(u, w, s)
<1>1. ASSUME NEW a \in Elements(u), NEW b \in Elements(w),
             a \in Elements(s), b \in Elements(s)
      PROVE  Before(s, a, b)
  <2>1. a \in Elements(v) /\ b \in Elements(v)
    BY <1>1
  <2>2. Before(v, a, b)
    BY <1>1, <2>1 DEF Ahead
  <2>3. QED
    BY <1>1, <2>2 DEF Keeps
<1>2. QED
  BY <1>1 DEF Ahead

\* The front of the buffer stands before the rest of it, wherever the syllable
\* is shown.
LEMMA FrontAhead ==
    ASSUME NEW c, ContextOK(c), NEW p \in Seq(Nat), NEW q \in Seq(Nat),
           c.buf = p \o q
    PROVE  Ahead(p, q, Shown(c))
<1>1. PICK x \in Seq(Nat), y \in Seq(Nat) :
             c.buf = x \o y /\ Shown(c) = x \o c.bpmf \o y
  BY ShownInPieces
<1> DEFINE B == c.bpmf
<1>2. B \in Seq(Nat)
  BY DEF ContextOK, Context
<1> HIDE DEF B
<1>3. \A a, b : Before(p \o q, a, b) => Before(x \o B \o y, a, b)
  <2>1. \A a, b : Before(x \o y, a, b) <=>
          \/ Before(x, a, b) \/ Before(y, a, b)
          \/ a \in Elements(x) /\ b \in Elements(y)
    BY BeforeConcat
  <2>2. \A a, b : Before(x \o B \o y, a, b) <=>
          \/ Before(x, a, b) \/ Before(B, a, b) \/ Before(y, a, b)
          \/ a \in Elements(x) /\ b \in Elements(B) \cup Elements(y)
          \/ a \in Elements(B) /\ b \in Elements(y)
    BY <1>2, BeforeThree
  <2>3. p \o q = x \o y
    BY <1>1
  <2>4. \A a, b : Before(x \o y, a, b) => Before(x \o B \o y, a, b)
    BY <2>1, <2>2
  <2>5. QED
    BY <2>3, <2>4
<1>4. \A a \in Elements(p), b \in Elements(q) : Before(p \o q, a, b)
  BY BeforeConcat
<1>5. QED
  BY <1>1, <1>3, <1>4 DEF Ahead, B

-----------------------------------------------------------------------------
(* Calls of libchewing                                                     *)

\* What a call shows and what it commits keep the order of what was shown, and
\* what it commits stood before the whole characters it keeps; t is the
\* character that may begin.
ContextKeeps(c, d, t) ==
    /\ Keeps(Shown(d), Shown(c), t)
    /\ d.bpmf \in {<<>>, c.bpmf, <<t>>}
    /\ d.check => Keeps(d.commit, Shown(c), t) /\ Ahead(d.commit, d.buf, Shown(c))

\* Everything that was shown is still shown, or committed.
LosesNothing(c, d) ==
    Elements(Shown(c)) \subseteq
        Elements(Shown(d)) \cup (IF d.check THEN Elements(d.commit) ELSE {})

\* A call that only moves lists and modes.
LEMMA SameTextKeeps ==
    ASSUME NEW c, NEW d, NEW t,
           d.buf = c.buf, d.cursor = c.cursor, d.bpmf = c.bpmf, d.check = FALSE
    PROVE  /\ Shown(d) = Shown(c)
           /\ ContextKeeps(c, d, t) /\ LosesNothing(c, d)
<1>1. Shown(d) = Shown(c)
  BY DEF Shown
<1>2. QED
  BY <1>1, KeepsItself DEF ContextKeeps, LosesNothing

\* A syllable given up.
LEMMA DroppedKeeps ==
    ASSUME NEW c, ContextOK(c), NEW d, NEW t \in Nat,
           d.buf = c.buf, d.cursor = c.cursor, d.bpmf = <<>>, d.check = FALSE
    PROVE  ContextKeeps(c, d, t)
<1>1. PICK x \in Seq(Nat), y \in Seq(Nat) :
             /\ c.buf = x \o y /\ Len(x) = c.cursor
             /\ Shown(c) = x \o c.bpmf \o y
  BY ShownInPieces
<1>2. Spliced(x \o y, Len(x), <<>>) = x \o <<>> \o y
  BY SplicedBetween
<1>3. x \o <<>> = x /\ c.bpmf \in Seq(Nat)
  BY ConcatEmptySeq DEF ContextOK, Context
<1>4. Shown(d) = x \o y
  BY <1>1, <1>2, <1>3 DEF Shown
<1>5. Keeps(Shown(d), Shown(c), t)
  BY <1>1, <1>3, <1>4, KeepsParts
<1>6. QED
  BY <1>5 DEF ContextKeeps

\* A syllable begun.
LEMMA BegunKeeps ==
    ASSUME NEW c, ContextOK(c), NEW d, NEW t \in Nat, t \notin Elements(Shown(c)),
           c.bpmf = <<>>,
           d.buf = c.buf, d.cursor = c.cursor, d.bpmf = <<t>>, d.check = FALSE
    PROVE  ContextKeeps(c, d, t) /\ LosesNothing(c, d)
<1> DEFINE one == <<t>>
           nil == <<>>
<1>1. PICK x \in Seq(Nat), y \in Seq(Nat) :
             /\ c.buf = x \o y /\ Len(x) = c.cursor
             /\ Shown(c) = x \o c.bpmf \o y
  BY ShownInPieces
<1>2. Spliced(x \o y, Len(x), one) = (x \o one) \o y
  BY SplicedBetween
<1>3. Shown(d) = (x \o one) \o y
  BY <1>1, <1>2 DEF Shown
<1>4. one \in Seq(Nat) /\ nil \in Seq(Nat)
  BY OneToken, EmptySeq
<1>5. x \o one \in Seq(Nat)
  BY <1>4, ConcatProperties
<1>6. (x \o one) \o nil = x \o one
  BY <1>5, ConcatEmptySeq
<1>7. Shown(c) = x \o nil \o y
  BY <1>1
<1>8. t \notin Elements(x \o nil \o y) => Keeps((x \o one) \o nil \o y, x \o nil \o y, t)
  BY <1>4, KeepsParts
<1> HIDE DEF one, nil
<1>9. Keeps(Shown(d), Shown(c), t)
  BY <1>3, <1>6, <1>7, <1>8
<1>10. Elements(Shown(c)) \subseteq Elements(Shown(d))
  <2>1. Elements(Shown(c)) = Elements(x) \cup Elements(nil) \cup Elements(y)
    BY <1>4, <1>7, BeforeThree
  <2>2. Elements(Shown(d)) = Elements(x) \cup Elements(one) \cup Elements(y)
    BY <1>3, <1>4, BeforeThree
  <2>3. Elements(nil) = {}
    BY NothingOnce DEF nil
  <2>4. QED
    BY <2>1, <2>2, <2>3
<1>11. QED
  BY <1>9, <1>10 DEF ContextKeeps, LosesNothing

\* An overflow splits the buffer; the cursor stays where it was in the text.
LEMMA OverflowSplits ==
    ASSUME NEW c, ContextOK(c)
    PROVE  LET d == Overflow(c)
           IN  /\ d.bpmf = c.bpmf
               /\ \/ d.buf = c.buf /\ d.cursor = c.cursor /\ d.check = FALSE
                  \/ \E p, q \in Seq(Nat) :
                        /\ c.buf = p \o q /\ d.commit = p /\ d.buf = q
                        /\ d.check = TRUE
                        /\ d.cursor = IF c.cursor < Len(p) THEN 0
                                      ELSE c.cursor - Len(p)
<1> DEFINE n    == IF PhraseLen < Len(c.buf) THEN PhraseLen ELSE Len(c.buf)
           head == SubSeq(c.buf, 1, n)
           tail == SubSeq(c.buf, n + 1, Len(c.buf))
           left == IF c.cursor < n THEN 0 ELSE c.cursor - n
           d    == Overflow(c)
<1>1. c \in Context /\ c.buf \in Seq(Nat) /\ Len(c.buf) \in Nat
  BY LenProperties DEF ContextOK, Context
<1>2. n \in 0 .. Len(c.buf)
  BY <1>1, PhraseLenAssumption
<1>3. d = IF Len(c.buf) <= c.max THEN Quiet(c)
          ELSE [Committed(c, head) EXCEPT !.buf = tail, !.cursor = left]
  BY DEF Overflow
<1> HIDE DEF n, d
<1>4. \E x, y \in Seq(Nat) :
         /\ c.buf = x \o y /\ Len(x) = n
         /\ x = SubSeq(c.buf, 1, n) /\ y = SubSeq(c.buf, n + 1, Len(c.buf))
  BY <1>1, <1>2, CutInTwo
<1>5. /\ head \in Seq(Nat) /\ tail \in Seq(Nat)
      /\ c.buf = head \o tail /\ Len(head) = n
  BY <1>4
<1>6. left = IF c.cursor < Len(head) THEN 0 ELSE c.cursor - Len(head)
  BY <1>5
<1> HIDE DEF head, tail, left
<1>7. CASE Len(c.buf) <= c.max
  BY <1>1, <1>3, <1>7 DEF Quiet, Context, d
<1>8. CASE ~(Len(c.buf) <= c.max)
  <2>1. d = [c EXCEPT !.check = TRUE, !.commit = head,
                      !.buf = tail, !.cursor = left]
    BY <1>1, <1>3, <1>8 DEF Committed, Context
  <2>2. /\ d.bpmf = c.bpmf /\ d.buf = tail /\ d.commit = head
        /\ d.check = TRUE /\ d.cursor = left
    BY <1>1, <2>1 DEF Context
  <2>3. QED
    BY <1>5, <1>6, <2>2 DEF d
<1>9. QED
  BY <1>7, <1>8

\* Two ways to cut a sequence: the longer front begins with the shorter one.
BeginsWith(x, y, p, q) == \E m \in Seq(Nat) : x = p \o m /\ q = m \o y

LEMMA CutTwice ==
    ASSUME NEW p \in Seq(Nat), NEW q \in Seq(Nat), NEW x \in Seq(Nat),
           NEW y \in Seq(Nat), p \o q = x \o y, Len(p) <= Len(x)
    PROVE  BeginsWith(x, y, p, q)
<1> DEFINE n == Len(p)
<1>1. n \in 0 .. Len(x)
  BY LenProperties
<1> HIDE DEF n
<1>2. \E u, v \in Seq(Nat) :
         /\ x = u \o v /\ Len(u) = n
         /\ u = SubSeq(x, 1, n) /\ v = SubSeq(x, n + 1, Len(x))
  BY <1>1, CutInTwo
<1>3. PICK r \in Seq(Nat), m \in Seq(Nat) : x = r \o m /\ Len(r) = Len(p)
  BY <1>2 DEF n
<1> DEFINE my == m \o y
           s  == x \o y
<1>4. my \in Seq(Nat)
  BY <1>3, ConcatProperties
<1>5. s = r \o my
  <2>1. (r \o m) \o y = r \o (m \o y)
    BY ConcatFromEither
  <2>2. QED
    BY <1>3, <2>1
<1>6. s = p \o q
  OBVIOUS
<1> HIDE DEF my, s
<1>7. SubSeq(s, 1, Len(p)) = p /\ SubSeq(s, Len(p) + 1, Len(s)) = q
  BY <1>6, PutTogether
<1>8. SubSeq(s, 1, Len(r)) = r /\ SubSeq(s, Len(r) + 1, Len(s)) = my
  BY <1>4, <1>5, PutTogether
<1>9. x = p \o m /\ q = m \o y
  BY <1>3, <1>7, <1>8 DEF my
<1>10. QED
  BY <1>9 DEF BeginsWith

\* Wherever an overflow cuts the buffer, the syllable stays between what is
\* left of it on either side of the cursor.
LEMMA OverflowKeeps ==
    ASSUME NEW c, ContextOK(c), NEW t \in Nat
    PROVE  ContextKeeps(c, Overflow(c), t) /\ LosesNothing(c, Overflow(c))
<1> DEFINE d == Overflow(c)
           n == c.cursor
           B == c.bpmf
<1>1. ContextOK(d) /\ d.bpmf = B /\ B \in Seq(Nat)
  BY OverflowFollows DEF Follows, ContextOK, Context
<1>2. PICK x \in Seq(Nat), y \in Seq(Nat) :
             c.buf = x \o y /\ Len(x) = n /\ Shown(c) = x \o B \o y
  BY ShownInPieces
<1>3. \/ d.buf = c.buf /\ d.cursor = n /\ d.check = FALSE
      \/ \E p, q \in Seq(Nat) :
            /\ c.buf = p \o q /\ d.commit = p /\ d.buf = q /\ d.check = TRUE
            /\ d.cursor = IF n < Len(p) THEN 0 ELSE n - Len(p)
  BY OverflowSplits
<1>4. n \in Nat
  BY DEF ContextOK, Context
<1> HIDE DEF d, n, B
<1>5. CASE d.buf = c.buf /\ d.cursor = n /\ d.check = FALSE
  BY <1>1, <1>5, SameTextKeeps DEF d, n, B
<1>6. ASSUME NEW p \in Seq(Nat), NEW q \in Seq(Nat),
             c.buf = p \o q, d.commit = p, d.buf = q, d.check = TRUE,
             d.cursor = IF n < Len(p) THEN 0 ELSE n - Len(p)
      PROVE  ContextKeeps(c, d, t) /\ LosesNothing(c, d)
  <2>1. Len(p) \in Nat
    BY <1>6, LenProperties
  <2>a. p \o q = x \o y /\ x \o y = p \o q
    BY <1>2, <1>6
  <2>b. Ahead(p, q, Shown(c))
    BY <1>6, FrontAhead
  <2>2. Elements(Shown(c)) = Elements(p) \cup Elements(q) \cup Elements(B)
    <3>1. Elements(Shown(c)) = Elements(c.buf) \cup Elements(B)
      BY ShownTyped DEF B
    <3>2. Elements(p \o q) = Elements(p) \cup Elements(q)
      BY ConcatOnce
    <3>3. QED
      BY <1>6, <3>1, <3>2
  <2>3. Elements(Shown(d)) = Elements(q) \cup Elements(B)
    BY <1>1, <1>6, ShownTyped
  <2>4. LosesNothing(c, d)
    BY <1>6, <2>2, <2>3 DEF LosesNothing
  <2>5. CASE Len(p) <= n
    <3>1. PICK m \in Seq(Nat) : x = p \o m /\ q = m \o y
      <4>1. Len(p) <= Len(x)
        BY <1>2, <2>5
      <4>2. BeginsWith(x, y, p, q)
        BY <2>a, <4>1, CutTwice
      <4>3. QED
        BY <4>2 DEF BeginsWith
    <3>2. Len(m) = n - Len(p) /\ d.cursor = Len(m)
      <4>1. Len(p \o m) = Len(p) + Len(m) /\ Len(m) \in Nat
        BY ConcatProperties, LenProperties
      <4>2. QED
        BY <1>2, <1>4, <1>6, <2>1, <2>5, <3>1, <4>1
    <3>3. Spliced(m \o y, Len(m), B) = m \o B \o y
      BY SplicedBetween
    <3>4. Shown(d) = m \o B \o y
      BY <1>1, <1>6, <3>1, <3>2, <3>3 DEF Shown
    <3> DEFINE mB == m \o B
    <3>5. mB \in Seq(Nat)
      BY <1>1, ConcatProperties
    <3>6. (p \o m) \o B = p \o mB
      BY <1>1, ConcatFromEither
    <3> HIDE DEF mB
    <3>7. Shown(c) = p \o mB \o y /\ Shown(d) = mB \o y
      BY <1>2, <3>1, <3>4, <3>6 DEF mB
    <3>8. Keeps(p, Shown(c), t) /\ Keeps(mB \o y, Shown(c), t)
      BY <3>5, <3>7, KeepsParts
    <3>9. QED
      BY <1>1, <1>6, <2>4, <2>b, <3>7, <3>8 DEF ContextKeeps, B
  <2>6. CASE n < Len(p)
    <3>1. PICK m \in Seq(Nat) : p = x \o m /\ y = m \o q
      <4>1. Len(x) <= Len(p)
        BY <1>2, <1>4, <2>1, <2>6
      <4>2. BeginsWith(p, q, x, y)
        BY <2>a, <4>1, CutTwice
      <4>3. QED
        BY <4>2 DEF BeginsWith
    <3> DEFINE nil == <<>>
    <3>2. nil \o q = q /\ Len(nil) = 0 /\ nil \in Seq(Nat) /\ nil \o B = B
      BY <1>1, ConcatEmptySeq, EmptySeq
    <3>3. Spliced(nil \o q, Len(nil), B) = nil \o B \o q
      BY <3>2, SplicedBetween
    <3> HIDE DEF nil
    <3>4. Shown(d) = B \o q
      BY <1>1, <1>6, <2>6, <3>2, <3>3 DEF Shown
    <3>5. Keeps(B \o q, Shown(c), t) /\ Keeps(x \o m, Shown(c), t)
      <4>1. /\ Elements(x \o B \o y) = Elements(x) \cup Elements(B) \cup Elements(y)
            /\ \A a, b : Before(x \o B \o y, a, b) <=>
                  \/ Before(x, a, b) \/ Before(B, a, b) \/ Before(y, a, b)
                  \/ a \in Elements(x) /\ b \in Elements(B) \cup Elements(y)
                  \/ a \in Elements(B) /\ b \in Elements(y)
        BY <1>1, BeforeThree
      <4>2. /\ Elements(y) = Elements(m) \cup Elements(q)
            /\ \A a, b : Before(y, a, b) <=>
                  \/ Before(m, a, b) \/ Before(q, a, b)
                  \/ a \in Elements(m) /\ b \in Elements(q)
        BY <3>1, ConcatOnce, BeforeConcat
      <4>3. /\ Elements(B \o q) = Elements(B) \cup Elements(q)
            /\ \A a, b : Before(B \o q, a, b) <=>
                  \/ Before(B, a, b) \/ Before(q, a, b)
                  \/ a \in Elements(B) /\ b \in Elements(q)
        BY <1>1, ConcatOnce, BeforeConcat
      <4>4. /\ Elements(x \o m) = Elements(x) \cup Elements(m)
            /\ \A a, b : Before(x \o m, a, b) <=>
                  \/ Before(x, a, b) \/ Before(m, a, b)
                  \/ a \in Elements(x) /\ b \in Elements(m)
        BY ConcatOnce, BeforeConcat
      <4>5. Keeps(B \o q, x \o B \o y, t)
        BY <4>1, <4>2, <4>3 DEF Keeps
      <4>6. Keeps(x \o m, x \o B \o y, t)
        BY <4>1, <4>2, <4>4 DEF Keeps
      <4>7. QED
        BY <1>2, <4>5, <4>6
    <3>6. QED
      BY <1>1, <1>6, <2>4, <2>b, <3>1, <3>4, <3>5 DEF ContextKeeps, B
  <2>7. QED
    BY <1>4, <2>1, <2>5, <2>6
<1>7. QED
  BY <1>3, <1>5, <1>6 DEF d

\* Contexts with the same text cannot be told apart here.
LEMMA SameShownKeeps ==
    ASSUME NEW c, NEW o, NEW d, NEW r, NEW t,
           o.buf = c.buf, o.cursor = c.cursor, o.bpmf = c.bpmf,
           r.buf = d.buf, r.cursor = d.cursor, r.bpmf = d.bpmf,
           r.check = d.check, r.commit = d.commit
    PROVE  /\ ContextKeeps(o, d, t) => ContextKeeps(c, r, t)
           /\ LosesNothing(o, d) => LosesNothing(c, r)
<1>1. Shown(o) = Shown(c) /\ Shown(r) = Shown(d)
  BY DEF Shown
<1>2. QED
  BY <1>1 DEF ContextKeeps, LosesNothing

LEMMA ContextKeepsTransitive ==
    ASSUME NEW c, NEW o, NEW d, ContextOK(d), NEW t, t \notin Elements(Shown(c)),
           Keeps(Shown(o), Shown(c), t), o.bpmf = c.bpmf, ContextKeeps(o, d, t)
    PROVE  ContextKeeps(c, d, t)
<1>1. Elements(d.buf) \subseteq Elements(Shown(o)) \cup {t}
  BY ShownTyped DEF ContextKeeps, Keeps
<1>2. ASSUME d.check
      PROVE  Keeps(d.commit, Shown(c), t) /\ Ahead(d.commit, d.buf, Shown(c))
  <2>1. /\ Keeps(d.commit, Shown(o), t) /\ Ahead(d.commit, d.buf, Shown(o))
        /\ Elements(d.commit) \subseteq Elements(Shown(o)) \cup {t}
    BY <1>2 DEF ContextKeeps, Keeps
  <2>2. QED
    BY <1>1, <2>1, KeepsTransitive, AheadTransitive
<1>3. Keeps(Shown(d), Shown(c), t)
  BY KeepsTransitive DEF ContextKeeps
<1>4. QED
  BY <1>2, <1>3 DEF ContextKeeps

LEMMA InsertKeeps ==
    ASSUME NEW c, ContextOK(c), NEW t \in Nat, t \notin Elements(Shown(c)),
           NEW k \in {"none", "chars", "symbols"}
    PROVE  LET d == Insert(c, <<t>>)
               r == [d EXCEPT !.cand = k]
           IN  /\ ContextKeeps(c, d, t) /\ LosesNothing(c, d)
               /\ ContextKeeps(c, r, t) /\ LosesNothing(c, r)
<1> DEFINE one    == <<t>>
           longer == Spliced(c.buf, c.cursor, one)
           place  == c.cursor + Len(one)
           o      == [c EXCEPT !.buf = longer, !.cursor = place]
           d      == Insert(c, one)
           B      == c.bpmf
<1>1. /\ c \in Context /\ c.buf \in Seq(Nat) /\ Len(c.buf) \in Nat /\ B \in Seq(Nat)
      /\ c.cursor \in 0 .. Len(c.buf)
  BY LenProperties DEF ContextOK, Context
<1>2. one \in Seq(Nat) /\ Len(one) = 1 /\ Elements(one) = {t}
  BY OneToken, OneOnce
<1>3. longer \in Seq(Nat) /\ Len(longer) = Len(c.buf) + Len(one)
  BY <1>1, <1>2, SplicedProperties
<1>4. place \in Nat /\ place \in 0 .. Len(longer)
  BY <1>1, <1>2, <1>3
<1>5. d = Overflow(o)
  BY DEF Insert
<1>6. PICK x \in Seq(Nat), y \in Seq(Nat) :
             c.buf = x \o y /\ Len(x) = c.cursor /\ Shown(c) = x \o B \o y
  BY ShownInPieces
<1> DEFINE xt == x \o one
<1>7. xt \in Seq(Nat) /\ Len(xt) = place
  BY <1>2, <1>6, ConcatProperties
<1>8. longer = xt \o y
  BY <1>6, SplicedBetween
<1> HIDE DEF one, longer, place, d
<1>9. /\ ContextOK(o) /\ o.bpmf = B /\ o.buf = longer /\ o.cursor = place
  BY <1>1, <1>3, <1>4 DEF ContextOK, Context
<1> HIDE DEF o, B
<1>10. Shown(o) = xt \o B \o y
  <2> HIDE DEF xt
  <2>1. Spliced(xt \o y, Len(xt), B) = xt \o B \o y
    BY <1>7, SplicedBetween
  <2>2. QED
    BY <1>7, <1>8, <1>9, <2>1 DEF Shown
<1>11. Keeps(Shown(o), Shown(c), t)
  <2>1. t \notin Elements(x \o B \o y) => Keeps((x \o <<t>>) \o B \o y, x \o B \o y, t)
    BY <1>1, KeepsParts
  <2>2. QED
    BY <1>6, <1>10, <2>1 DEF one
<1>12. Elements(Shown(c)) \subseteq Elements(Shown(o))
  <2>1. Elements(xt) = Elements(x) \cup Elements(one)
    BY <1>2, ConcatOnce
  <2> HIDE DEF xt
  <2>2. Elements(xt \o B \o y) = Elements(xt) \cup Elements(B) \cup Elements(y)
    BY <1>1, <1>7, BeforeThree
  <2>3. Elements(x \o B \o y) = Elements(x) \cup Elements(B) \cup Elements(y)
    BY <1>1, BeforeThree
  <2>4. QED
    BY <1>6, <1>10, <2>1, <2>2, <2>3
<1>13. ContextKeeps(o, d, t) /\ LosesNothing(o, d)
  BY <1>5, <1>9, OverflowKeeps
<1>14. ContextKeeps(c, d, t)
  <2>1. ContextOK(d)
    BY <1>1, <1>2, InsertFollows DEF Follows, d
  <2>2. QED
    BY <1>9, <1>11, <1>13, <2>1, ContextKeepsTransitive DEF B
<1>15. LosesNothing(c, d)
  BY <1>12, <1>13 DEF LosesNothing
<1>16. d \in Context
  BY <1>1, <1>2, InsertFollows DEF Follows, ContextOK, d
<1> DEFINE r == [d EXCEPT !.cand = k]
<1>17. /\ r.buf = d.buf /\ r.cursor = d.cursor /\ r.bpmf = d.bpmf
       /\ r.check = d.check /\ r.commit = d.commit
  BY <1>16 DEF Context
<1> HIDE DEF r
<1>18. ContextKeeps(c, r, t) /\ LosesNothing(c, r)
  BY <1>14, <1>15, <1>17, SameShownKeeps
<1>19. QED
  BY <1>14, <1>15, <1>18 DEF d, one, r

\* The syllable becomes a character where it was shown.
LEMMA CompleteKeeps ==
    ASSUME NEW c, ContextOK(c), NEW t \in Nat
    PROVE  ContextKeeps(c, Complete(c), t) /\ LosesNothing(c, Complete(c))
<1> DEFINE B      == c.bpmf
           longer == Spliced(c.buf, c.cursor, B)
           place  == c.cursor + Len(B)
           o      == [c EXCEPT !.buf = longer, !.cursor = place]
           d      == Insert(c, B)
           nil    == <<>>
           r      == Complete(c)
<1>1. /\ c \in Context /\ c.buf \in Seq(Nat) /\ Len(c.buf) \in Nat /\ B \in Seq(Nat)
      /\ Len(B) \in Nat /\ c.cursor \in 0 .. Len(c.buf)
  BY LenProperties DEF ContextOK, Context
<1>2. longer = Shown(c)
  BY DEF Shown
<1>3. longer \in Seq(Nat) /\ Len(longer) = Len(c.buf) + Len(B)
  BY <1>1, SplicedProperties
<1>4. place \in Nat /\ place \in 0 .. Len(longer)
  <2> HIDE DEF longer, B
  <2>1. c.cursor \in Nat /\ c.cursor <= Len(c.buf)
    BY <1>1
  <2>2. place = c.cursor + Len(B)
    OBVIOUS
  <2> HIDE DEF place
  <2>3. QED
    BY <1>1, <1>3, <2>1, <2>2
<1>5. d = Overflow(o) /\ r = [d EXCEPT !.bpmf = nil]
  BY DEF Insert, Complete
<1> HIDE DEF longer, place, d, r, B
<1>6. ContextOK(o) /\ o.buf = longer
  BY <1>1, <1>3, <1>4 DEF ContextOK, Context
<1> HIDE DEF o
<1>7. ContextOK(d)
  BY <1>5, <1>6, OverflowFollows DEF Follows
<1>8. ContextOK(r)
  BY CompleteFollows DEF r, Follows
<1>9. /\ r.buf = d.buf /\ r.check = d.check /\ r.commit = d.commit /\ r.bpmf = nil
  BY <1>5, <1>7 DEF ContextOK, Context
<1>10. Shown(r) = d.buf
  BY <1>8, <1>9, ShownTyped
<1>11. \/ d.buf = longer /\ d.check = FALSE
       \/ \E p, q \in Seq(Nat) :
             longer = p \o q /\ d.commit = p /\ d.buf = q /\ d.check = TRUE
  BY <1>5, <1>6, OverflowSplits
<1>12. CASE d.buf = longer /\ d.check = FALSE
  BY <1>2, <1>9, <1>10, <1>12, KeepsItself DEF ContextKeeps, LosesNothing, r, nil
<1>13. ASSUME NEW p \in Seq(Nat), NEW q \in Seq(Nat),
              longer = p \o q, d.commit = p, d.buf = q, d.check = TRUE
       PROVE  ContextKeeps(c, r, t) /\ LosesNothing(c, r)
  <2>1. nil \in Seq(Nat) /\ p \o nil = p
    BY EmptySeq, ConcatEmptySeq
  <2>2. Keeps(p, p \o nil \o q, t) /\ Keeps(q, p \o nil \o q, t)
    BY <2>1, KeepsParts
  <2> HIDE DEF nil
  <2>3. Keeps(p, longer, t) /\ Keeps(q, longer, t)
    BY <1>13, <2>1, <2>2
  <2>4. Elements(p \o q) = Elements(p) \cup Elements(q)
    BY ConcatOnce
  <2>5. QED
    BY <1>2, <1>9, <1>10, <1>13, <2>3, <2>4, ConcatAhead
       DEF ContextKeeps, LosesNothing, nil
<1>14. QED
  BY <1>11, <1>12, <1>13 DEF r

LEMMA DirectKeeps ==
    ASSUME NEW c, ContextOK(c), NEW t \in Nat, t \notin Elements(Shown(c))
    PROVE  ContextKeeps(c, Direct(c, t), t) /\ LosesNothing(c, Direct(c, t))
<1> DEFINE one == <<t>>
           d   == Committed(c, one)
<1>1. Direct(c, t) = IF c.buf = <<>> THEN d ELSE Insert(c, one)
  BY DEF Direct
<1>2. Keeps(one, Shown(c), t) /\ Ahead(one, c.buf, Shown(c))
  BY KeepsNothing, OneOnce DEF Ahead
<1> HIDE DEF one
<1>3. /\ d.buf = c.buf /\ d.cursor = c.cursor /\ d.bpmf = c.bpmf
      /\ d.check = TRUE /\ d.commit = one
  BY DEF Committed, ContextOK, Context
<1>4. Shown(d) = Shown(c)
  BY <1>3 DEF Shown
<1> HIDE DEF d
<1>5. ContextKeeps(c, d, t) /\ LosesNothing(c, d)
  BY <1>2, <1>3, <1>4, KeepsItself DEF ContextKeeps, LosesNothing
<1>6. ContextKeeps(c, Insert(c, one), t) /\ LosesNothing(c, Insert(c, one))
  BY InsertKeeps DEF one
<1>7. QED
  BY <1>1, <1>5, <1>6

\* The same characters, and a call that commits nothing and leaves them.
SameWords(c, d) == Shown(d) = Shown(c) /\ d.buf = c.buf /\ d.bpmf = c.bpmf

SameText(c, d) == SameWords(c, d) /\ d.check = FALSE

LEMMA QuietSame ==
    ASSUME NEW c, ContextOK(c), NEW k
    PROVE  SameText(c, Quiet(c)) /\ SameText(c, [Quiet(c) EXCEPT !.cand = k])
BY DEF SameText, SameWords, Shown, Quiet, ContextOK, Context

LEMMA SameKeeps ==
    ASSUME NEW c, NEW d, NEW t, SameText(c, d)
    PROVE  ContextKeeps(c, d, t) /\ LosesNothing(c, d)
BY KeepsItself DEF SameText, SameWords, ContextKeeps, LosesNothing

LEMMA QuietKeeps ==
    ASSUME NEW c, ContextOK(c), NEW t, NEW k
    PROVE  /\ ContextKeeps(c, Quiet(c), t) /\ LosesNothing(c, Quiet(c))
           /\ ContextKeeps(c, [Quiet(c) EXCEPT !.cand = k], t)
           /\ LosesNothing(c, [Quiet(c) EXCEPT !.cand = k])
BY QuietSame, SameKeeps

LEMMA ChooseKeeps ==
    ASSUME NEW c, ContextOK(c), NEW kind, NEW t \in Nat, t \notin Elements(Shown(c))
    PROVE  ContextKeeps(c, Choose(c, kind, t), t) /\ LosesNothing(c, Choose(c, kind, t))
<1>1. /\ ContextKeeps(c, [Insert(c, <<t>>) EXCEPT !.cand = "none"], t)
      /\ LosesNothing(c, [Insert(c, <<t>>) EXCEPT !.cand = "none"])
  BY InsertKeeps
<1>2. QED
  BY <1>1, QuietKeeps DEF Choose

\* There is no syllable to be refused, or a list is open and takes the key.
Accepts(c, kind) == kind = "reject" => c.cand # "none" \/ c.bpmf = <<>>

\* A text key: only a syllable libchewing does not know gives something up.
LEMMA DefaultKeeps ==
    ASSUME NEW c, ContextOK(c), NEW kind, NEW t \in Nat, t \notin Elements(Shown(c))
    PROVE  /\ ContextKeeps(c, handle_Default(c, kind, t), t)
           /\ Accepts(c, kind) => LosesNothing(c, handle_Default(c, kind, t))
<1> DEFINE d     == handle_Default(c, kind, t)
           one   == <<t>>
           nil   == <<>>
           begun == [Quiet(c) EXCEPT !.bpmf = IF @ = <<>> THEN <<t>> ELSE @]
           given == [Quiet(c) EXCEPT !.bpmf = nil]
<1>1. /\ ContextKeeps(c, Choose(c, kind, t), t)
      /\ LosesNothing(c, Choose(c, kind, t))
  BY ChooseKeeps
<1>2. ContextKeeps(c, Direct(c, t), t) /\ LosesNothing(c, Direct(c, t))
  BY DirectKeeps
<1>3. ContextKeeps(c, Insert(c, one), t) /\ LosesNothing(c, Insert(c, one))
  BY InsertKeeps
<1>4. ContextKeeps(c, Complete(c), t) /\ LosesNothing(c, Complete(c))
  BY CompleteKeeps
<1>5. /\ ContextKeeps(c, Quiet(c), t) /\ LosesNothing(c, Quiet(c))
      /\ ContextKeeps(c, [Quiet(c) EXCEPT !.cand = "symbols"], t)
      /\ LosesNothing(c, [Quiet(c) EXCEPT !.cand = "symbols"])
  BY QuietKeeps
<1>6. ContextKeeps(c, begun, t) /\ LosesNothing(c, begun)
  <2>1. /\ begun.buf = c.buf /\ begun.cursor = c.cursor /\ begun.check = FALSE
        /\ begun.bpmf = IF c.bpmf = <<>> THEN one ELSE c.bpmf
    BY DEF Quiet, ContextOK, Context
  <2> HIDE DEF begun
  <2>2. CASE c.bpmf = <<>>
    BY <2>1, <2>2, BegunKeeps
  <2>3. CASE c.bpmf # <<>>
    BY <2>1, <2>3, SameTextKeeps
  <2>4. QED
    BY <2>2, <2>3
<1>7. ContextKeeps(c, given, t)
  <2>1. /\ given.buf = c.buf /\ given.cursor = c.cursor /\ given.check = FALSE
        /\ given.bpmf = nil
    BY DEF Quiet, ContextOK, Context
  <2> HIDE DEF given
  <2>2. QED
    BY <2>1, DroppedKeeps
<1>8. c.bpmf = nil => LosesNothing(c, given)
  <2>1. /\ given.buf = c.buf /\ given.cursor = c.cursor /\ given.check = FALSE
        /\ given.bpmf = nil
    BY DEF Quiet, ContextOK, Context
  <2> HIDE DEF given, nil
  <2>2. QED
    BY <2>1, SameTextKeeps
<1>9. \/ d \in {Choose(c, kind, t), Direct(c, t), Insert(c, one), Complete(c),
                Quiet(c), [Quiet(c) EXCEPT !.cand = "symbols"], begun}
      \/ d = given /\ kind = "reject" /\ c.cand = "none"
  BY DEF handle_Default
<1> HIDE DEF d, begun, given
<1>10. ContextKeeps(c, d, t) /\ (Accepts(c, kind) => LosesNothing(c, d))
  BY <1>1, <1>2, <1>3, <1>4, <1>5, <1>6, <1>7, <1>8, <1>9 DEF Accepts
<1>11. QED
  BY <1>10 DEF d

LEMMA SpaceKeeps ==
    ASSUME NEW c, ContextOK(c), NEW t \in Nat, t \notin Elements(Shown(c))
    PROVE  /\ ContextKeeps(c, handle_Space(c, t), t)
           /\ LosesNothing(c, handle_Space(c, t))
BY QuietKeeps, CompleteKeeps, DirectKeeps DEF handle_Space

\* Enter takes the buffer and leaves the syllable; it commits nothing when
\* nothing is shown.
LEMMA EnterKeeps ==
    ASSUME NEW c, ContextOK(c), NEW t \in Nat
    PROVE  /\ ContextKeeps(c, handle_Enter(c), t)
           /\ LosesNothing(c, handle_Enter(c))
           /\ Shown(c) = <<>> => handle_Enter(c).check = FALSE
<1> DEFINE nil == <<>>
           w   == [Committed(c, c.buf) EXCEPT !.buf = nil, !.cursor = 0]
           d   == handle_Enter(c)
<1>1. /\ d = IF c.cand # "none" \/ (c.buf = <<>> /\ c.bpmf = <<>>)
             THEN Quiet(c) ELSE w
      /\ ContextOK(d)
  BY EnterFollows DEF handle_Enter, Follows
<1>2. c.buf \in Seq(Nat) /\ c.bpmf \in Seq(Nat)
  BY DEF ContextOK, Context
<1> HIDE DEF d
<1>3. CASE d = Quiet(c)
  <2>1. d.check = FALSE
    BY <1>3 DEF Quiet, ContextOK, Context
  <2>2. ContextKeeps(c, Quiet(c), t) /\ LosesNothing(c, Quiet(c))
    BY QuietKeeps
  <2>3. QED
    BY <1>3, <2>1, <2>2 DEF d
<1>4. CASE d = w /\ ~(c.buf = <<>> /\ c.bpmf = <<>>)
  <2>1. /\ d.buf = nil /\ d.bpmf = c.bpmf /\ d.check = TRUE /\ d.commit = c.buf
    BY <1>4 DEF Committed, ContextOK, Context
  <2>2. Shown(d) = c.bpmf
    BY <1>1, <2>1, ShownTyped
  <2>3. PICK x \in Seq(Nat), y \in Seq(Nat) :
               c.buf = x \o y /\ Shown(c) = x \o c.bpmf \o y
    BY ShownInPieces
  <2>4. /\ Keeps(c.buf, Shown(c), t) /\ Keeps(c.bpmf, Shown(c), t)
        /\ Ahead(c.buf, nil, Shown(c))
    BY <1>2, <2>3, KeepsParts, NothingAhead
  <2>5. Elements(Shown(c)) = Elements(c.buf) \cup Elements(c.bpmf)
    BY ShownTyped
  <2>6. Shown(c) # <<>>
    BY <1>4, NothingSpliced DEF Shown, ContextOK, Context
  <2>7. ContextKeeps(c, d, t) /\ LosesNothing(c, d)
    BY <2>1, <2>2, <2>4, <2>5 DEF ContextKeeps, LosesNothing
  <2>8. QED
    BY <2>6, <2>7 DEF d
<1>5. QED
  BY <1>1, <1>3, <1>4

\* A piece of a sequence keeps its order.
LEMMA SubSeqBefore ==
    ASSUME NEW s \in Seq(Nat), NEW m \in Nat, NEW n \in Nat,
           1 <= m, m <= n + 1, n <= Len(s), NEW a, NEW b,
           Before(SubSeq(s, m, n), a, b)
    PROVE  Before(s, a, b)
<1> DEFINE p == SubSeq(s, m, n)
<1>1. Len(s) \in Nat /\ \A i \in m .. n : i \in 1 .. Len(s) /\ s[i] \in Nat
  BY ElementOfSeq, LenProperties
<1>2. /\ p \in Seq(Nat) /\ Len(p) = n - m + 1
      /\ \A i \in 1 .. n - m + 1 : p[i] = s[m + i - 1]
  <2>1. p \in Seq(Nat) /\ Len(p) = n - m + 1
    BY SubSeqInside
  <2>2. \A i \in m .. n : s[i] \in Nat
    BY <1>1
  <2>3. \A i \in 1 .. n - m + 1 : p[i] = s[m + i - 1]
    BY <2>2, SubSeqProperties
  <2>4. QED
    BY <2>1, <2>3
<1> HIDE DEF p
<1>3. DOMAIN p = 1 .. Len(p) /\ DOMAIN s = 1 .. Len(s)
  BY <1>2, LenProperties
<1>4. Before(p, a, b)
  BY DEF p
<1>5. PICK i \in 1 .. Len(p), j \in 1 .. Len(p) : i < j /\ p[i] = a /\ p[j] = b
  BY <1>3, <1>4 DEF Before
<1> DEFINE k == m + i - 1
           l == m + j - 1
<1>6. k \in m .. n /\ l \in m .. n /\ k < l /\ p[i] = s[k] /\ p[j] = s[l]
  <2>1. \A x \in 1 .. Len(p) : m + x - 1 \in m .. n /\ p[x] = s[m + x - 1]
    BY <1>2
  <2>2. k < l
    BY <1>1, <1>2, <1>5
  <2>3. QED
    BY <1>5, <2>1, <2>2
<1> HIDE DEF k, l
<1>7. QED
  BY <1>1, <1>3, <1>5, <1>6 DEF Before

LEMMA WithoutKeeps ==
    ASSUME NEW s \in Seq(Nat), NEW i \in 1 .. Len(s), NEW t
    PROVE  Keeps(Without(s, i), s, t)
<1> DEFINE front == SubSeq(s, 1, i - 1)
           back  == SubSeq(s, i + 1, Len(s))
           n     == Len(s)
<1>1. n \in Nat /\ i - 1 \in Nat /\ i + 1 \in Nat /\ DOMAIN s = 1 .. n
  BY LenProperties
<1>2. /\ front \in Seq(Nat) /\ Elements(front) \subseteq Elements(s)
      /\ \A x \in Elements(front) : \E k \in 1 .. i - 1 : x = s[k]
  <2>1. 1 <= i - 1 + 1 /\ i - 1 <= Len(s)
    BY <1>1
  <2>2. QED
    BY <1>1, <2>1, SubSeqOnce
<1>3. /\ back \in Seq(Nat) /\ Elements(back) \subseteq Elements(s)
      /\ \A x \in Elements(back) : \E k \in i + 1 .. n : x = s[k]
  <2>1. 1 <= i + 1 /\ i + 1 <= n + 1 /\ n <= Len(s)
    BY <1>1
  <2>2. QED
    BY <1>1, <2>1, SubSeqOnce
<1>4. \A a, b : Before(front, a, b) \/ Before(back, a, b) => Before(s, a, b)
  <2>1. /\ 1 <= i - 1 + 1 /\ i - 1 <= Len(s)
        /\ 1 <= i + 1 /\ i + 1 <= n + 1 /\ n <= Len(s)
    BY <1>1
  <2>2. \A a, b : Before(front, a, b) => Before(s, a, b)
    BY <1>1, <2>1, SubSeqBefore
  <2>3. \A a, b : Before(back, a, b) => Before(s, a, b)
    BY <1>1, <2>1, SubSeqBefore
  <2>4. QED
    BY <2>2, <2>3
<1>5. Without(s, i) = front \o back
  BY DEF Without
<1> HIDE DEF front, back, n
<1>6. Elements(front \o back) = Elements(front) \cup Elements(back)
  BY <1>2, <1>3, ConcatOnce
<1>7. ASSUME NEW a, NEW b, Before(front \o back, a, b) PROVE Before(s, a, b)
  <2>1. \/ Before(front, a, b) \/ Before(back, a, b)
        \/ a \in Elements(front) /\ b \in Elements(back)
    BY <1>2, <1>3, <1>7, BeforeConcat
  <2>2. CASE a \in Elements(front) /\ b \in Elements(back)
    <3>1. PICK k \in 1 .. i - 1 : a = s[k]
      BY <1>2, <2>2
    <3>2. PICK l \in i + 1 .. n : b = s[l]
      BY <1>3, <2>2
    <3>3. k < l /\ k \in 1 .. n /\ l \in 1 .. n
      BY <1>1, <3>1, <3>2 DEF n
    <3>4. QED
      BY <1>1, <3>1, <3>2, <3>3 DEF Before
  <2>3. QED
    BY <1>4, <2>1, <2>2
<1>8. QED
  BY <1>2, <1>3, <1>5, <1>6, <1>7 DEF Keeps

\* The context after a call that empties it, takes a syllable or a character
\* away, or moves the cursor, with no syllable under way in the last two.
LEMMA EscKeeps ==
    ASSUME NEW c, ContextOK(c), NEW t \in Nat
    PROVE  ContextKeeps(c, handle_Esc(c), t)
<1> DEFINE nil == <<>>
           w   == [Quiet(c) EXCEPT !.buf = nil, !.bpmf = nil,
                                   !.cursor = 0, !.cand = "none"]
           x   == [Quiet(c) EXCEPT !.bpmf = nil]
           d   == handle_Esc(c)
<1>1. /\ d \in {w, x, [Quiet(c) EXCEPT !.cand = "none"]}
      /\ ContextOK(d)
  BY EscFollows DEF handle_Esc, Follows
<1> HIDE DEF d
<1>2. CASE d = w
  <2>1. d.buf = nil /\ d.bpmf = nil /\ d.check = FALSE
    BY <1>2 DEF Quiet, ContextOK, Context
  <2>2. Shown(d) = nil
    BY <1>1, <2>1, ShownTyped
  <2>3. QED
    BY <2>1, <2>2, KeepsNothing DEF ContextKeeps, d
<1>3. CASE d = x
  <2>1. d.buf = c.buf /\ d.cursor = c.cursor /\ d.bpmf = nil /\ d.check = FALSE
    BY <1>3 DEF Quiet, ContextOK, Context
  <2>2. QED
    BY <2>1, DroppedKeeps DEF d
<1>4. CASE d = [Quiet(c) EXCEPT !.cand = "none"]
  <2>1. ContextKeeps(c, [Quiet(c) EXCEPT !.cand = "none"], t)
    BY QuietKeeps
  <2>2. QED
    BY <1>4, <2>1 DEF d
<1>5. QED
  BY <1>1, <1>2, <1>3, <1>4

LEMMA BackspaceKeeps ==
    ASSUME NEW c, ContextOK(c), NEW t \in Nat
    PROVE  ContextKeeps(c, handle_Backspace(c), t)
<1> DEFINE nil     == <<>>
           shorter == Without(c.buf, c.cursor)
           place   == c.cursor - 1
           w       == [Quiet(c) EXCEPT !.buf = shorter, !.cursor = place]
           x       == [Quiet(c) EXCEPT !.bpmf = nil]
           d       == handle_Backspace(c)
<1>1. /\ c.buf \in Seq(Nat) /\ Len(c.buf) \in Nat /\ c.cursor \in 0 .. Len(c.buf)
  BY LenProperties DEF ContextOK, Context
<1>2. /\ \/ d = w /\ c.bpmf = nil /\ c.cursor > 0
         \/ d = x
         \/ d = Quiet(c)
      /\ ContextOK(d)
  <2>1. \/ d = w /\ c.bpmf = nil /\ c.cursor > 0
        \/ d = x
        \/ d = Quiet(c)
    BY DEF handle_Backspace, Editing, Quiet
  <2>2. ContextOK(d)
    BY BackspaceFollows DEF Follows
  <2>3. QED
    BY <2>1, <2>2
<1> HIDE DEF d, shorter, place
<1>3. CASE d = w /\ c.bpmf = nil /\ c.cursor > 0
  <2>1. d.buf = shorter /\ d.bpmf = nil /\ d.check = FALSE
    BY <1>3 DEF Quiet, ContextOK, Context
  <2>2. Shown(d) = shorter /\ Shown(c) = c.buf
    BY <1>2, <1>3, <2>1, ShownTyped
  <2>3. c.cursor \in 1 .. Len(c.buf)
    BY <1>1, <1>3
  <2>4. Keeps(shorter, c.buf, t)
    BY <1>1, <2>3, WithoutKeeps DEF shorter
  <2>5. QED
    BY <2>1, <2>2, <2>4 DEF ContextKeeps, d
<1>4. CASE d = x
  <2>1. d.buf = c.buf /\ d.cursor = c.cursor /\ d.bpmf = nil /\ d.check = FALSE
    BY <1>4 DEF Quiet, ContextOK, Context
  <2>2. QED
    BY <2>1, DroppedKeeps DEF d
<1>5. CASE d = Quiet(c)
  <2>1. ContextKeeps(c, Quiet(c), t)
    BY QuietKeeps
  <2>2. QED
    BY <1>5, <2>1 DEF d
<1>6. QED
  BY <1>2, <1>3, <1>4, <1>5

LEMMA DelKeeps ==
    ASSUME NEW c, ContextOK(c), NEW t \in Nat
    PROVE  ContextKeeps(c, handle_Del(c), t)
<1> DEFINE nil     == <<>>
           next    == c.cursor + 1
           shorter == Without(c.buf, next)
           w       == [Quiet(c) EXCEPT !.buf = shorter]
           d       == handle_Del(c)
<1>1. /\ c.buf \in Seq(Nat) /\ Len(c.buf) \in Nat /\ c.cursor \in 0 .. Len(c.buf)
  BY LenProperties DEF ContextOK, Context
<1>2. /\ \/ d = w /\ c.bpmf = nil /\ c.cursor < Len(c.buf)
         \/ d = Quiet(c)
      /\ ContextOK(d)
  BY DelFollows DEF handle_Del, Editing, Follows
<1> HIDE DEF d, shorter
<1>3. CASE d = w /\ c.bpmf = nil /\ c.cursor < Len(c.buf)
  <2>1. d.buf = shorter /\ d.bpmf = nil /\ d.check = FALSE
    BY <1>2, <1>3 DEF Quiet, ContextOK, Context
  <2>2. Shown(d) = shorter /\ Shown(c) = c.buf
    BY <1>2, <1>3, <2>1, ShownTyped
  <2>3. next \in 1 .. Len(c.buf)
    BY <1>1, <1>3
  <2> HIDE DEF next
  <2>4. Keeps(shorter, c.buf, t)
    BY <1>1, <2>3, WithoutKeeps DEF shorter
  <2>5. QED
    BY <2>1, <2>2, <2>4 DEF ContextKeeps, d
<1>4. CASE d = Quiet(c)
  <2>1. ContextKeeps(c, Quiet(c), t)
    BY QuietKeeps
  <2>2. QED
    BY <1>4, <2>1 DEF d
<1>5. QED
  BY <1>2, <1>3, <1>4

LEMMA MovedSame ==
    ASSUME NEW c, ContextOK(c), NEW i, ContextOK(MoveTo(c, i))
    PROVE  SameText(c, MoveTo(c, i))
<1> DEFINE w == [Quiet(c) EXCEPT !.cursor = i]
           d == MoveTo(c, i)
<1>1. \/ d = w /\ c.bpmf = <<>>
      \/ d = Quiet(c)
  BY DEF MoveTo, Editing
<1> HIDE DEF d
<1>2. CASE d = w /\ c.bpmf = <<>>
  <2>1. d.buf = c.buf /\ d.bpmf = <<>> /\ d.check = FALSE
    BY <1>2 DEF Quiet, ContextOK, Context
  <2>2. Shown(d) = c.buf /\ Shown(c) = c.buf
    BY <1>2, <2>1, ShownTyped DEF d
  <2>3. QED
    BY <1>2, <2>1, <2>2 DEF SameText, SameWords, d
<1>3. CASE d = Quiet(c)
  BY <1>3, QuietSame DEF d
<1>4. QED
  BY <1>1, <1>2, <1>3

LEMMA MovesSame ==
    ASSUME NEW c, ContextOK(c), NEW choices, NEW kSym
    PROVE  /\ SameText(c, handle_Left(c)) /\ SameText(c, handle_Right(c))
           /\ SameText(c, handle_Home(c)) /\ SameText(c, handle_End(c))
           /\ SameText(c, handle_Up(c)) /\ SameText(c, handle_Down(c, choices))
           /\ SameText(c, handle_CtrlNum(c, kSym))
<1>1. SameText(c, handle_Up(c))
  BY QuietSame DEF handle_Up
<1>2. SameText(c, handle_Down(c, choices))
  BY QuietSame DEF handle_Down
<1>3. SameText(c, handle_CtrlNum(c, kSym))
  BY QuietSame DEF handle_CtrlNum
<1>4. /\ SameText(c, handle_Left(c)) /\ SameText(c, handle_Right(c))
      /\ SameText(c, handle_Home(c)) /\ SameText(c, handle_End(c))
  BY CursorKeysFollow, MovedSame
     DEF handle_Left, handle_Right, handle_Home, handle_End, Follows
<1>5. QED
  BY <1>1, <1>2, <1>3, <1>4

\* What the editing keys do; only Backspace, Delete and Escape erase, and none
\* of them commits.
LEMMA EditCallKeeps ==
    ASSUME NEW h, NEW c, ContextOK(c), NEW e, NEW t \in Nat
    PROVE  /\ ContextKeeps(c, EditCall(h, c, e), t)
           /\ h \notin {"backspace", "delete", "escape"}
                => SameText(c, EditCall(h, c, e))
<1> DEFINE d == EditCall(h, c, e)
<1>1. \/ d \in {handle_Left(c), handle_Right(c), handle_Home(c), handle_End(c),
                handle_Up(c), handle_Down(c, e.choices), Quiet(c)}
      \/ /\ h \in {"backspace", "delete", "escape"}
         /\ d \in {handle_Backspace(c), handle_Del(c), handle_Esc(c)}
  BY DEF EditCall
<1> HIDE DEF d
<1>2. \/ SameText(c, d)
      \/ /\ h \in {"backspace", "delete", "escape"}
         /\ d \in {handle_Backspace(c), handle_Del(c), handle_Esc(c)}
  BY <1>1, MovesSame, QuietSame
<1>3. /\ ContextKeeps(c, d, t)
      /\ h \notin {"backspace", "delete", "escape"} => SameText(c, d)
  BY <1>2, SameKeeps, EscKeeps, BackspaceKeeps, DelKeeps
<1>4. QED
  BY <1>3 DEF d

-----------------------------------------------------------------------------
(* What leaves the structure within one operation                          *)

\* A commit libchewing reports and update has yet to append.
Pending(r) == r.ctx.check /\ ~r.updated

PendingText(r) == IF Pending(r) THEN Elements(r.ctx.commit) ELSE {}

\* On the way from s to r the characters `sent` have gone to outgoing.  They,
\* what is shown and a pending commit stand as s showed them, but for t; what
\* is sent and what is pending stood before the whole characters that are left;
\* a commit is pending only while nothing was sent; and a later one is appended
\* only if nothing was sent or nothing is left to send.  With `whole`, nothing
\* that was shown is gone.
Parted(s, r, t, whole, sent) ==
    /\ r.outgoing = s.outgoing \o sent
    /\ Keeps(sent, Shown(s.ctx), t)
    /\ Ahead(sent, r.ctx.buf, Shown(s.ctx))
    /\ Keeps(Shown(r.ctx), Shown(s.ctx), t)
    /\ r.ctx.bpmf \in {<<>>, s.ctx.bpmf, <<t>>}
    /\ Pending(r) => /\ sent = <<>>
                     /\ Keeps(r.ctx.commit, Shown(s.ctx), t)
                     /\ Ahead(r.ctx.commit, r.ctx.buf, Shown(s.ctx))
    /\ r.updated \/ sent = <<>> \/ Shown(r.ctx) = <<>>
    /\ whole => Elements(Shown(s.ctx)) \subseteq
                    Elements(sent) \cup Elements(Shown(r.ctx)) \cup PendingText(r)

Flow(s, r, t, whole) == \E sent \in Seq(Nat) : Parted(s, r, t, whole, sent)

\* The same for a structure whose text and flags are those of another.
LEMMA SamePartsFlow ==
    ASSUME NEW s, NEW p, NEW r, NEW t, NEW whole, Flow(s, p, t, whole),
           r.outgoing = p.outgoing, r.updated = p.updated,
           SameWords(p.ctx, r.ctx),
           r.ctx.check = p.ctx.check, r.ctx.commit = p.ctx.commit
    PROVE  Flow(s, r, t, whole)
BY DEF Flow, Parted, Pending, PendingText, SameWords

LEMMA FlowWeaker ==
    ASSUME NEW s, NEW r, NEW t, NEW whole, Flow(s, r, t, whole),
           NEW less, less => whole
    PROVE  Flow(s, r, t, less)
BY DEF Flow, Parted

LEMMA NothingFlows ==
    ASSUME NEW s, NEW g, Good(s, g), NEW t \in Nat, NEW whole
    PROVE  Flow(s, s, t, whole)
<1> DEFINE nil == <<>>
<1>1. /\ nil \in Seq(Nat) /\ s.outgoing \o nil = s.outgoing
      /\ Keeps(nil, Shown(s.ctx), t) /\ \A u : Ahead(nil, u, Shown(s.ctx))
  BY EmptySeq, ConcatEmptySeq, KeepsNothing, NothingAhead
     DEF Good, Loose, PreEditStruct
<1>2. ~Pending(s)
  BY DEF Pending, Good
<1>3. nil = <<>>
  OBVIOUS
<1> HIDE DEF nil
<1>4. Parted(s, s, t, whole, nil)
  BY <1>1, <1>2, <1>3, KeepsItself DEF Parted
<1>5. QED
  BY <1>1, <1>4 DEF Flow

\* A call whose commit waits for update.
LEMMA ProcessedFlows ==
    ASSUME NEW s, NEW g, Good(s, g), NEW t \in Nat, NEW c,
           ContextKeeps(s.ctx, c, t), NEW whole, whole => SameText(s.ctx, c)
    PROVE  Flow(s, WithContext(s, c), t, whole)
<1> DEFINE nil == <<>>
           r   == WithContext(s, c)
<1>1. /\ nil \in Seq(Nat) /\ s.outgoing \o nil = s.outgoing
      /\ Keeps(nil, Shown(s.ctx), t) /\ \A u : Ahead(nil, u, Shown(s.ctx))
  BY EmptySeq, ConcatEmptySeq, KeepsNothing, NothingAhead
     DEF Good, Loose, PreEditStruct
<1>2. r.ctx = c /\ r.outgoing = s.outgoing /\ r.updated = s.updated
  BY DEF WithContext, Good, Loose, PreEditStruct
<1>3. nil = <<>>
  OBVIOUS
<1> HIDE DEF nil, r
<1>4. Pending(r) => /\ Keeps(c.commit, Shown(s.ctx), t)
                    /\ Ahead(c.commit, c.buf, Shown(s.ctx))
  BY <1>2 DEF Pending, ContextKeeps
<1>5. Parted(s, r, t, whole, nil)
  BY <1>1, <1>2, <1>3, <1>4 DEF Parted, ContextKeeps, SameText, SameWords
<1>6. QED
  BY <1>1, <1>5 DEF Flow, r

\* A text key: what libchewing commits goes to outgoing at once.
LEMMA QuickCommitFlows ==
    ASSUME NEW s, NEW g, Good(s, g), NEW t \in Nat, NEW c \in Context,
           ContextKeeps(s.ctx, c, t), NEW whole, whole => LosesNothing(s.ctx, c)
    PROVE  Flow(s, QuickCommit(s, c).self, t, whole)
<1> DEFINE nil == <<>>
           p   == [s EXCEPT !.ctx = c, !.updated = FALSE]
           u   == update_outgoing(p)
           b   == s.ctx.easy
           d   == [u.ctx EXCEPT !.easy = b]
           r   == WithContext(u, d)
<1>1. s \in PreEditStruct /\ s.outgoing \in Seq(Nat) /\ c.commit \in Seq(Nat)
  BY DEF Good, Loose, PreEditStruct, Context
<1>2. /\ nil \in Seq(Nat) /\ s.outgoing \o nil = s.outgoing
      /\ Keeps(nil, Shown(s.ctx), t) /\ Elements(nil) = {}
      /\ \A v : Ahead(nil, v, Shown(s.ctx))
  BY <1>1, EmptySeq, ConcatEmptySeq, KeepsNothing, NothingOnce, NothingAhead
<1>3. p \in PreEditStruct /\ p.ctx = c /\ p.updated = FALSE /\ p.outgoing = s.outgoing
  BY <1>1 DEF PreEditStruct
<1> HIDE DEF p
<1>4. /\ u \in PreEditStruct /\ u.ctx = c
      /\ IF ~c.check THEN u.outgoing = s.outgoing /\ u.updated = FALSE
         ELSE u.outgoing = s.outgoing \o c.commit /\ u.updated = TRUE
  <2>1. u \in PreEditStruct /\ u.ctx = p.ctx
    BY <1>3, UpdateOutgoing
  <2>2. Appends(u, p)
    BY <1>3, UpdateAppends
  <2> HIDE DEF u
  <2>3. QED
    BY <1>3, <2>1, <2>2 DEF Appends
<1> HIDE DEF u, b
<1>5. /\ d.buf = c.buf /\ d.cursor = c.cursor /\ d.bpmf = c.bpmf
      /\ d.check = c.check /\ d.commit = c.commit
  BY <1>4 DEF Context
<1> HIDE DEF d
<1>6. r.ctx = d /\ r.outgoing = u.outgoing /\ r.updated = u.updated
  BY <1>4 DEF WithContext, PreEditStruct
<1>7. QuickCommit(s, c).self = r
  BY DEF QuickCommit, Answer, r, d, u, p, b
<1> HIDE DEF r
<1>8. Shown(d) = Shown(c)
  BY <1>5 DEF Shown
<1>9. ~Pending(r) /\ PendingText(r) = {}
  BY <1>4, <1>5, <1>6 DEF Pending, PendingText
<1>10. nil = <<>>
  OBVIOUS
<1> HIDE DEF nil
<1>11. CASE c.check
  <2>1. Parted(s, r, t, whole, c.commit)
    BY <1>4, <1>5, <1>6, <1>8, <1>9, <1>11 DEF Parted, ContextKeeps, LosesNothing
  <2>2. QED
    BY <1>1, <1>7, <2>1 DEF Flow
<1>12. CASE ~c.check
  <2>1. Parted(s, r, t, whole, nil)
    BY <1>2, <1>4, <1>5, <1>6, <1>8, <1>9, <1>10, <1>12
       DEF Parted, ContextKeeps, LosesNothing
  <2>2. QED
    BY <1>2, <1>7, <2>1 DEF Flow
<1>13. QED
  BY <1>11, <1>12

\* The composition, as displayed, put at the end of outgoing.
LEMMA ForceCommitFlows ==
    ASSUME NEW s, NEW g, Good(s, g), NEW t \in Nat, NEW whole
    PROVE  Flow(s, force_commit(s), t, whole)
<1> DEFINE r == force_commit(s)
<1>1. Good(r, g) /\ r.preEdit = <<>> /\ r.outgoing = s.outgoing \o s.preEdit
  BY ForceCommitGood, ForceCommitMoves DEF Good
<1> HIDE DEF r
<1>2. /\ s.preEdit = Shown(s.ctx) /\ s.preEdit \in Seq(Nat) /\ Shown(r.ctx) = <<>>
      /\ ContextOK(r.ctx)
  BY <1>1 DEF Good, Loose, Mirrors, PreEditStruct
<1>3. ~Pending(r)
  BY <1>1 DEF Good, Pending
<1>4. /\ Keeps(s.preEdit, s.preEdit, t) /\ Keeps(<<>>, s.preEdit, t)
      /\ Ahead(s.preEdit, <<>>, s.preEdit)
  BY KeepsItself, KeepsNothing, NothingAhead
<1>a. r.ctx.buf = <<>> /\ r.ctx.bpmf = <<>>
  BY <1>2, NothingSpliced DEF Shown, ContextOK, Context
<1>5. Parted(s, r, t, whole, s.preEdit)
  BY <1>1, <1>2, <1>3, <1>4, <1>a DEF Parted
<1>6. QED
  BY <1>2, <1>5 DEF Flow, r

LEMMA FlushFlows ==
    ASSUME NEW s, NEW g, Good(s, g), NEW t \in Nat, NEW whole
    PROVE  Flow(s, FlushSyllable(s), t, whole)
BY NothingFlows, ForceCommitFlows DEF FlushSyllable

\* The language and the width.
LEMMA TogglesFlow ==
    ASSUME NEW s, NEW g, Good(s, g), NEW t \in Nat, NEW whole
    PROVE  /\ Flow(s, toggle_chi_eng_mode(s), t, whole)
           /\ Flow(s, toggle_full_half(s), t, whole)
<1> DEFINE f == FlushSyllable(s)
<1>1. Flow(s, f, t, whole) /\ Good(f, g)
  BY FlushFlows, FlushGood
<1> HIDE DEF f
<1>2. f \in PreEditStruct /\ f.ctx \in Context
  BY <1>1 DEF Good, Loose, ContextOK
<1>3. ASSUME NEW c \in {[f.ctx EXCEPT !.chi = ~@], [f.ctx EXCEPT !.full = ~@]}
      PROVE  Flow(s, WithContext(f, c), t, whole)
  <2>1. /\ c.buf = f.ctx.buf /\ c.cursor = f.ctx.cursor /\ c.bpmf = f.ctx.bpmf
        /\ c.check = f.ctx.check /\ c.commit = f.ctx.commit
    BY <1>2, <1>3 DEF Context
  <2> DEFINE w == WithContext(f, c)
  <2>2. w.ctx = c /\ w.outgoing = f.outgoing /\ w.updated = f.updated
    BY <1>2 DEF WithContext, PreEditStruct
  <2> HIDE DEF w
  <2>3. SameWords(f.ctx, w.ctx)
    BY <2>1, <2>2 DEF SameWords, Shown
  <2>4. Flow(s, w, t, whole)
    BY <1>1, <2>1, <2>2, <2>3, SamePartsFlow
  <2>5. QED
    BY <2>4 DEF w
<1>4. QED
  BY <1>3 DEF toggle_chi_eng_mode, toggle_full_half, f

\* A call of libchewing on the way.
LEMMA CallFlows ==
    ASSUME NEW s, NEW p \in PreEditStruct, ContextOK(p.ctx),
           NEW t, t \notin Elements(Shown(s.ctx)),
           NEW whole, Flow(s, p, t, whole), NEW c
    PROVE  /\ /\ ContextKeeps(p.ctx, c, t)
              /\ Elements(c.buf) \subseteq Elements(p.ctx.buf)
              /\ Shown(p.ctx) = <<>> => c.check = FALSE /\ Shown(c) = <<>>
              => Flow(s, WithContext(p, c), t, FALSE)
           /\ ~Pending(p) /\ SameText(p.ctx, c) => Flow(s, WithContext(p, c), t, whole)
<1> DEFINE r == WithContext(p, c)
<1>1. r.ctx = c /\ r.outgoing = p.outgoing /\ r.updated = p.updated
  BY DEF WithContext, PreEditStruct
<1>2. PICK sent \in Seq(Nat) : Parted(s, p, t, whole, sent)
  BY DEF Flow
<1> HIDE DEF r
<1>3. ASSUME ContextKeeps(p.ctx, c, t), Elements(c.buf) \subseteq Elements(p.ctx.buf),
             Shown(p.ctx) = <<>> => c.check = FALSE /\ Shown(c) = <<>>
      PROVE  Parted(s, r, t, FALSE, sent)
  <2>1. Keeps(Shown(c), Shown(s.ctx), t)
    BY <1>2, <1>3, KeepsTransitive DEF Parted, ContextKeeps
  <2>2. ASSUME c.check
        PROVE  Keeps(c.commit, Shown(s.ctx), t) /\ Ahead(c.commit, c.buf, Shown(s.ctx))
    <3>1. /\ Keeps(Shown(p.ctx), Shown(s.ctx), t)
          /\ Keeps(c.commit, Shown(p.ctx), t) /\ Ahead(c.commit, c.buf, Shown(p.ctx))
          /\ Elements(c.commit) \subseteq Elements(Shown(p.ctx)) \cup {t}
      BY <1>2, <1>3, <2>2 DEF Parted, ContextKeeps, Keeps
    <3>2. Elements(c.buf) \subseteq Elements(Shown(p.ctx)) \cup {t}
      BY <1>3, ShownTyped
    <3>3. QED
      BY <3>1, <3>2, KeepsTransitive, AheadTransitive
  <2>3. Pending(r) => sent = <<>>
    BY <1>1, <1>2, <1>3 DEF Parted, Pending
  <2>4. r.updated \/ sent = <<>> \/ Shown(r.ctx) = <<>>
    BY <1>1, <1>2, <1>3 DEF Parted
  <2>5. Ahead(sent, c.buf, Shown(s.ctx))
    BY <1>2, <1>3 DEF Parted, Ahead
  <2>6. c.bpmf \in {<<>>, s.ctx.bpmf, <<t>>}
    BY <1>2, <1>3 DEF Parted, ContextKeeps
  <2>7. QED
    BY <1>1, <1>2, <2>1, <2>2, <2>3, <2>4, <2>5, <2>6 DEF Parted, Pending
<1>4. ASSUME ~Pending(p), SameText(p.ctx, c) PROVE Parted(s, r, t, whole, sent)
  BY <1>1, <1>2, <1>4 DEF Parted, Pending, PendingText, SameText, SameWords
<1>5. QED
  BY <1>2, <1>3, <1>4 DEF Flow, r

-----------------------------------------------------------------------------
(* The handlers                                                            *)

LEMMA ScreenFlows ==
    ASSUME NEW s, NEW t, NEW whole, Flow(s, s, t, whole), NEW e, NEW mask, NEW body,
           Flow(s, body.self, t, whole)
    PROVE  /\ Flow(s, WhenPressed(s, e, mask, body).self, t, whole)
           /\ Flow(s, WhenComposing(s, body).self, t, whole)
BY DEF WhenPressed, WhenComposing, Answer

LEMMA TextKeyFlows ==
    ASSUME NEW s, NEW g, Good(s, g), NEW t \in Nat, t \notin Elements(Shown(s.ctx)),
           NEW e
    PROVE  Flow(s, self_handle_key_sym_default(s, e, t).self, t, Accepts(s.ctx, e.kind))
<1> DEFINE b == s.ctx.easy /\ e.mods = {"shift"}
           o == [s.ctx EXCEPT !.easy = b]
           c == handle_Default(o, e.kind, t)
<1>1. ContextOK(s.ctx) /\ s.ctx \in Context /\ b \in BOOLEAN
  BY DEF Good, Loose, ContextOK, Context
<1>2. self_handle_key_sym_default(s, e, t) =
        IF Refused(e.mods, ShiftMask) THEN Answer(s, "IGNORE")
        ELSE QuickCommit(s, c)
  BY <1>1 DEF self_handle_key_sym_default, Context
<1> HIDE DEF b
<1>3. ContextOK(o)
  BY <1>1, EasyRestored
<1>4. /\ o.buf = s.ctx.buf /\ o.cursor = s.ctx.cursor /\ o.bpmf = s.ctx.bpmf
      /\ o.cand = s.ctx.cand
  BY <1>1 DEF Context
<1> HIDE DEF o
<1>5. Shown(o) = Shown(s.ctx) /\ (Accepts(o, e.kind) <=> Accepts(s.ctx, e.kind))
  BY <1>4 DEF Shown, Accepts
<1>6. /\ c \in Context
      /\ ContextKeeps(o, c, t) /\ (Accepts(o, e.kind) => LosesNothing(o, c))
  BY <1>3, <1>5, DefaultKeeps, DefaultFollows DEF Follows, ContextOK
<1> HIDE DEF c
<1>7. /\ ContextKeeps(s.ctx, c, t)
      /\ Accepts(s.ctx, e.kind) => LosesNothing(s.ctx, c)
  BY <1>4, <1>5, <1>6 DEF ContextKeeps, LosesNothing
<1>8. Flow(s, QuickCommit(s, c).self, t, Accepts(s.ctx, e.kind))
  BY <1>6, <1>7, QuickCommitFlows
<1>9. Flow(s, s, t, Accepts(s.ctx, e.kind))
  BY NothingFlows
<1>10. QED
  BY <1>2, <1>8, <1>9 DEF Answer

LEMMA NumFlows ==
    ASSUME NEW s, NEW g, Good(s, g), NEW t \in Nat, t \notin Elements(Shown(s.ctx)),
           NEW e
    PROVE  Flow(s, self_handle_num(s, e, t).self, t, Accepts(s.ctx, e.kind))
<1> DEFINE whole == Accepts(s.ctx, e.kind)
           c     == handle_CtrlNum(s.ctx, e.sym)
           body  == IF e.mods = {"ctrl"} THEN Processed(s, c)
                    ELSE self_handle_key_sym_default(s, e, t)
<1>1. SameText(s.ctx, c) /\ ContextKeeps(s.ctx, c, t)
  BY MovesSame, SameKeeps DEF Good, Loose
<1> HIDE DEF c
<1>2. Flow(s, Processed(s, c).self, t, whole)
  BY <1>1, ProcessedFlows DEF Processed, Answer
<1>3. Flow(s, self_handle_key_sym_default(s, e, t).self, t, whole)
  BY TextKeyFlows
<1>4. Flow(s, s, t, whole)
  BY NothingFlows
<1> HIDE DEF whole
<1>5. Flow(s, body.self, t, whole)
  BY <1>2, <1>3
<1>6. self_handle_num(s, e, t) = WhenPressed(s, e, ShiftCtrlMask, body)
  BY DEF self_handle_num, c
<1> HIDE DEF body
<1>7. Flow(s, self_handle_num(s, e, t).self, t, whole)
  BY <1>4, <1>5, <1>6, ScreenFlows
<1>8. QED
  BY <1>7 DEF whole

LEMMA CapsLockFlows ==
    ASSUME NEW s, NEW g, Good(s, g), NEW t \in Nat, t \notin Elements(Shown(s.ctx)),
           NEW e, NEW whole
    PROVE  Flow(s, self_handle_caps_lock(s, e).self, t, whole)
<1> DEFINE f == FlushSyllable(s)
           c == handle_Capslock(f.ctx)
<1>1. Flow(s, f, t, whole) /\ Good(f, g)
  BY FlushFlows, FlushGood
<1>2. self_handle_caps_lock(s, e) = WhenPressed(s, e, NoMask, Processed(f, c))
  BY DEF self_handle_caps_lock
<1> HIDE DEF f
<1>3. /\ f \in PreEditStruct /\ f.ctx \in Context /\ ContextOK(f.ctx)
      /\ ~Pending(f)
  BY <1>1 DEF Good, Loose, ContextOK, Pending
<1>4. SameText(f.ctx, c)
  BY <1>3 DEF handle_Capslock, Quiet, Context, SameText, SameWords, Shown
<1> HIDE DEF c
<1>5. Flow(s, Processed(f, c).self, t, whole)
  BY <1>1, <1>3, <1>4, CallFlows DEF Processed, Answer
<1>6. Flow(s, s, t, whole)
  BY NothingFlows
<1>7. QED
  BY <1>2, <1>5, <1>6, ScreenFlows

LEMMA SpaceFlows ==
    ASSUME NEW s, NEW g, Good(s, g), NEW t \in Nat, t \notin Elements(Shown(s.ctx)),
           NEW e, NEW whole
    PROVE  Flow(s, self_handle_space(s, e, t).self, t, whole)
<1> DEFINE o    == [s.ctx EXCEPT !.easy = FALSE]
           c    == handle_Space(o, t)
           body == IF e.mods = {"shift"}
                   THEN Answer(toggle_full_half(s), "PROCESS")
                   ELSE QuickCommit(s, c)
<1>1. ContextOK(s.ctx) /\ s.ctx \in Context
  BY DEF Good, Loose, ContextOK
<1>2. self_handle_space(s, e, t) = WhenPressed(s, e, ShiftCtrlMask, body)
  BY DEF self_handle_space
<1>3. ContextOK(o) /\ Shown(o) = Shown(s.ctx) /\ o.bpmf = s.ctx.bpmf
  BY <1>1, EasyRestored DEF Context, Shown
<1> HIDE DEF o
<1>4. c \in Context /\ ContextKeeps(o, c, t) /\ LosesNothing(o, c)
  BY <1>3, SpaceKeeps, SpaceFollows DEF Follows, ContextOK
<1> HIDE DEF c
<1>5. ContextKeeps(s.ctx, c, t) /\ LosesNothing(s.ctx, c)
  BY <1>3, <1>4 DEF ContextKeeps, LosesNothing
<1>6. Flow(s, QuickCommit(s, c).self, t, whole)
  BY <1>4, <1>5, QuickCommitFlows
<1>7. Flow(s, toggle_full_half(s), t, whole)
  BY TogglesFlow
<1>8. Flow(s, body.self, t, whole)
  BY <1>6, <1>7 DEF Answer
<1> HIDE DEF body
<1>9. Flow(s, s, t, whole)
  BY NothingFlows
<1>10. QED
  BY <1>2, <1>8, <1>9, ScreenFlows

LEMMA ReturnFlows ==
    ASSUME NEW s, NEW g, Good(s, g), NEW t \in Nat, NEW e, NEW whole
    PROVE  Flow(s, self_handle_return(s, e).self, t, whole)
<1>1. ContextOK(s.ctx)
  BY DEF Good, Loose
<1>2. /\ handle_Enter(s.ctx) \in Context
      /\ ContextKeeps(s.ctx, handle_Enter(s.ctx), t)
      /\ LosesNothing(s.ctx, handle_Enter(s.ctx))
  BY <1>1, EnterKeeps, EnterFollows DEF Follows, ContextOK
<1>3. Flow(s, QuickCommit(s, handle_Enter(s.ctx)).self, t, whole)
  BY <1>2, QuickCommitFlows
<1>4. Flow(s, s, t, whole)
  BY NothingFlows
<1>5. QED
  BY <1>3, <1>4, ScreenFlows DEF self_handle_return

LEMMA EditFlows ==
    ASSUME NEW h, NEW s, NEW g, Good(s, g), NEW t \in Nat, NEW e
    PROVE  Flow(s, self_handle_edit(h, s, e).self, t,
                h \notin {"backspace", "delete", "escape"})
<1> DEFINE whole == h \notin {"backspace", "delete", "escape"}
<1>1. /\ ContextKeeps(s.ctx, EditCall(h, s.ctx, e), t)
      /\ whole => SameText(s.ctx, EditCall(h, s.ctx, e))
  BY EditCallKeeps DEF Good, Loose
<1> HIDE DEF whole
<1>2. Flow(s, Processed(s, EditCall(h, s.ctx, e)).self, t, whole)
  BY <1>1, ProcessedFlows DEF Processed, Answer
<1>3. Flow(s, s, t, whole)
  BY NothingFlows
<1>4. Flow(s, self_handle_edit(h, s, e).self, t, whole)
  BY <1>2, <1>3, ScreenFlows DEF self_handle_edit
<1>5. QED
  BY <1>4 DEF whole

\* e is not meant to erase, nor ends a syllable that libchewing refuses.
Spares(s, e) ==
    /\ Handler(e.sym) \notin {"backspace", "delete", "escape"}
    /\ Accepts(s.ctx, e.kind)

LEMMA OthersSpare ==
    ASSUME NEW s, NEW e
    PROVE  ~Erases(e) => Spares(s, e)
BY DEF Erases, Spares, Accepts

\* Every row of keyHandlingRules.
LEMMA KeyFlows ==
    ASSUME NEW s, NEW g, Good(s, g), NEW t \in Nat, t \notin Elements(Shown(s.ctx)),
           NEW e
    PROVE  Flow(s, handle_key(s, g, e, t).self, t, Spares(s, e))
<1> DEFINE whole == Spares(s, e)
           h     == Handler(e.sym)
<1>1. whole => Accepts(s.ctx, e.kind) /\ h \notin {"backspace", "delete", "escape"}
  BY DEF Spares
<1>2. Flow(s, s, t, whole) /\ Flow(s, s, t, Accepts(s.ctx, e.kind))
  BY NothingFlows
<1>3. Flow(s, self_handle_default(s, e, t).self, t, Accepts(s.ctx, e.kind))
  BY <1>2, TextKeyFlows, ScreenFlows DEF self_handle_default
<1>4. Flow(s, self_handle_num(s, e, t).self, t, Accepts(s.ctx, e.kind))
  BY NumFlows
<1>5. Flow(s, self_handle_edit(h, s, e).self, t, h \notin {"backspace", "delete", "escape"})
  BY EditFlows
<1> HIDE DEF whole
<1>6. /\ Flow(s, self_handle_default(s, e, t).self, t, whole)
      /\ Flow(s, self_handle_num(s, e, t).self, t, whole)
      /\ Flow(s, self_handle_edit(h, s, e).self, t, whole)
  BY <1>1, <1>3, <1>4, <1>5, FlowWeaker
<1>7. Flow(s, self_handle_shift(s, g, e).self, t, whole)
  BY <1>2, TogglesFlow DEF self_handle_shift, Answer
<1>8. /\ Flow(s, self_handle_caps_lock(s, e).self, t, whole)
      /\ Flow(s, self_handle_return(s, e).self, t, whole)
      /\ Flow(s, self_handle_space(s, e, t).self, t, whole)
  BY CapsLockFlows, ReturnFlows, SpaceFlows
<1>9. Flow(s, Answer(s, "IGNORE").self, t, whole)
  BY <1>2 DEF Answer
<1>10. Flow(s, handle_key(s, g, e, t).self, t, whole)
  BY <1>6, <1>7, <1>8, <1>9 DEF handle_key
<1>11. QED
  BY <1>10 DEF whole

-----------------------------------------------------------------------------
(* The operations                                                          *)

\* A key after nothing was shown commits nothing and shows nothing.
LEMMA SameIdle ==
    ASSUME NEW c, NEW d, SameText(c, d)
    PROVE  /\ Elements(d.buf) \subseteq Elements(c.buf)
           /\ Shown(c) = <<>> => d.check = FALSE /\ Shown(d) = <<>>
BY DEF SameText, SameWords

LEMMA ClearedFlows ==
    ASSUME NEW s, NEW g, NEW p, Loose(p, g), NEW t \in Nat, NEW whole,
           Flow(s, p, t, whole)
    PROVE  Flow(s, clear_pre_edit(p), t, FALSE)
<1> DEFINE d == clear_pre_edit(p)
<1>1. /\ Loose(d, g) /\ d.ctx.buf = <<>> /\ d.ctx.bpmf = <<>> /\ d.ctx.check = FALSE
      /\ d.outgoing = p.outgoing
  BY LooseIsBare, PreEditCleared
<1> HIDE DEF d
<1>2. Shown(d.ctx) = <<>> /\ ~Pending(d)
  BY <1>1, NothingShown DEF Pending
<1>3. PICK sent \in Seq(Nat) : Parted(s, p, t, whole, sent)
  BY DEF Flow
<1>4. Keeps(<<>>, Shown(s.ctx), t) /\ Ahead(sent, <<>>, Shown(s.ctx))
  BY KeepsNothing, NothingAhead
<1>5. Parted(s, d, t, FALSE, sent)
  BY <1>1, <1>2, <1>3, <1>4 DEF Parted
<1>6. QED
  BY <1>5 DEF Flow, d

\* Enter after the list is closed: the commit of a chosen character.
LEMMA EnterFlows ==
    ASSUME NEW s, NEW g, NEW p, Loose(p, g), NEW t \in Nat,
           t \notin Elements(Shown(s.ctx)), NEW whole, Flow(s, p, t, whole),
           NEW c, ContextOK(c), SameWords(p.ctx, c)
    PROVE  Flow(s, WithContext(p, handle_Enter(c)), t, FALSE)
<1> DEFINE d == handle_Enter(c)
<1>1. /\ ContextOK(d)
      /\ ContextKeeps(c, d, t) /\ (Shown(c) = <<>> => d.check = FALSE)
  BY EnterKeeps, EnterFollows DEF Follows
<1>2. Shown(c) = <<>> => Shown(d) = <<>>
  <2>1. SUFFICES ASSUME Shown(c) = <<>> PROVE Shown(d) = <<>>
    OBVIOUS
  <2>2. c.buf = <<>> /\ c.bpmf = <<>>
    BY <2>1, NothingSpliced DEF Shown, ContextOK, Context
  <2>3. d.buf = c.buf /\ d.cursor = c.cursor /\ d.bpmf = c.bpmf
    BY <2>2 DEF handle_Enter, Quiet, ContextOK, Context
  <2>4. QED
    BY <2>1, <2>3 DEF Shown
<1>a. Elements(d.buf) \subseteq Elements(c.buf)
  <2>1. d.buf = c.buf \/ d.buf = <<>>
    BY DEF handle_Enter, Quiet, Committed, ContextOK, Context
  <2>2. QED
    BY <2>1, NothingOnce
<1> HIDE DEF d
<1>3. /\ ContextKeeps(p.ctx, d, t) /\ Elements(d.buf) \subseteq Elements(p.ctx.buf)
      /\ Shown(p.ctx) = <<>> => d.check = FALSE /\ Shown(d) = <<>>
  BY <1>1, <1>2, <1>a DEF ContextKeeps, SameWords
<1>4. p \in PreEditStruct /\ ContextOK(p.ctx)
  BY DEF Loose
<1>5. Flow(s, WithContext(p, d), t, FALSE)
  BY <1>3, <1>4, CallFlows
<1>6. QED
  BY <1>5 DEF d

LEMMA PlainZhuyinFlows ==
    ASSUME NEW s, NEW g, NEW p, Loose(p, g), NEW t \in Nat,
           t \notin Elements(Shown(s.ctx)), NEW whole, Flow(s, p, t, whole), NEW e
    PROVE  Flow(s, PlainZhuyin(p, g, e), t, whole /\ ~g.plain)
<1> DEFINE moved == IF "shift" \in e.mods THEN handle_Left(p.ctx) ELSE p.ctx
           upped == handle_Up(p.ctx)
           down  == handle_Down(moved, e.choices)
           less  == whole /\ ~g.plain
<1>1. p \in PreEditStruct /\ ContextOK(p.ctx)
  BY DEF Loose
<1>2. ContextOK(moved) /\ SameWords(p.ctx, moved) /\ SameWords(p.ctx, p.ctx)
  BY <1>1, CursorKeysFollow, MovesSame DEF Follows, SameText, SameWords
<1>3. ContextOK(upped) /\ SameWords(p.ctx, upped)
  BY <1>1, ListKeysFollow, MovesSame DEF Follows, SameText
<1>4. PlainZhuyin(p, g, e) \in
        IF ~g.plain THEN {p}
        ELSE {p, clear_pre_edit(p), WithContext(p, handle_Enter(upped)),
              WithContext(p, down), WithContext(p, handle_Enter(p.ctx))}
  BY DEF PlainZhuyin, moved, upped
<1> HIDE DEF moved, upped
<1>5. SameText(moved, down)
  BY <1>2, MovesSame
<1>6. SameText(p.ctx, down)
  BY <1>2, <1>5 DEF SameText, SameWords
<1> HIDE DEF down
<1>7. Flow(s, WithContext(p, down), t, FALSE)
  BY <1>1, <1>6, SameKeeps, SameIdle, CallFlows
<1>8. /\ Flow(s, WithContext(p, handle_Enter(upped)), t, FALSE)
      /\ Flow(s, WithContext(p, handle_Enter(p.ctx)), t, FALSE)
  BY <1>1, <1>2, <1>3, EnterFlows
<1>9. Flow(s, clear_pre_edit(p), t, FALSE)
  BY ClearedFlows
<1>10. Flow(s, p, t, less)
  BY FlowWeaker
<1>11. CASE ~g.plain
  BY <1>4, <1>10, <1>11
<1>12. CASE g.plain
  <2>1. ~less
    BY <1>12
  <2> HIDE DEF less
  <2>2. /\ Flow(s, WithContext(p, down), t, less)
        /\ Flow(s, WithContext(p, handle_Enter(upped)), t, less)
        /\ Flow(s, WithContext(p, handle_Enter(p.ctx)), t, less)
        /\ Flow(s, clear_pre_edit(p), t, less)
    BY <1>7, <1>8, <1>9, <2>1, FlowWeaker
  <2>3. Flow(s, PlainZhuyin(p, g, e), t, less)
    BY <1>4, <1>10, <1>12, <2>2
  <2>4. QED
    BY <2>3 DEF less
<1>13. QED
  BY <1>11, <1>12

\* update puts a pending commit where it belongs.
LEMMA UpdateFlows ==
    ASSUME NEW s \in PreEditStruct, NEW p \in PreEditStruct, NEW t, NEW whole,
           Flow(s, p, t, whole)
    PROVE  Flow(s, update(p), t, whole) /\ ~Pending(update(p))
<1> DEFINE r == update(p)
<1>1. Appends(r, p)
  BY UpdateAppends
<1> HIDE DEF r
<1>2. /\ r.ctx = p.ctx
      /\ IF p.updated \/ ~p.ctx.check
         THEN r.outgoing = p.outgoing /\ r.updated = p.updated
         ELSE r.outgoing = p.outgoing \o p.ctx.commit /\ r.updated = TRUE
  BY <1>1 DEF Appends
<1>3. PICK sent \in Seq(Nat) : Parted(s, p, t, whole, sent)
  BY DEF Flow
<1>4. ~Pending(r) /\ PendingText(r) = {}
  BY <1>2 DEF Pending, PendingText
<1>5. CASE ~Pending(p)
  <2>1. Parted(s, r, t, whole, sent)
    BY <1>2, <1>3, <1>4, <1>5 DEF Parted, Pending, PendingText
  <2>2. QED
    BY <1>4, <2>1 DEF Flow, r
<1>6. CASE Pending(p)
  <2> DEFINE more == p.ctx.commit
  <2>1. /\ sent = <<>> /\ more \in Seq(Nat) /\ s.outgoing \in Seq(Nat)
        /\ Elements(sent) = {}
    BY <1>3, <1>6, NothingOnce DEF Parted, PreEditStruct, Context
  <2>2. p.outgoing = s.outgoing
    BY <1>3, <2>1, ConcatEmptySeq DEF Parted
  <2>3. r.outgoing = s.outgoing \o more /\ r.updated = TRUE
    BY <1>2, <1>6, <2>2 DEF Pending
  <2>4. PendingText(p) = Elements(more)
    BY <1>6 DEF PendingText
  <2>5. Keeps(more, Shown(s.ctx), t) /\ Ahead(more, p.ctx.buf, Shown(s.ctx))
    BY <1>3, <1>6 DEF Parted
  <2> HIDE DEF more
  <2>6. Parted(s, r, t, whole, more)
    BY <1>2, <1>3, <1>4, <2>1, <2>3, <2>4, <2>5 DEF Parted
  <2>7. QED
    BY <1>4, <2>1, <2>6 DEF Flow, r
<1>7. QED
  BY <1>5, <1>6

\* Between two calls no commit is pending, and preEdit is what is shown.
Delivers(s, r, t, whole, sent) ==
    /\ r.outgoing = s.outgoing \o sent
    /\ Keeps(sent, s.preEdit, t) /\ Keeps(r.preEdit, s.preEdit, t)
    /\ Ahead(sent, r.ctx.buf, s.preEdit)
    /\ r.ctx.bpmf \in {<<>>, s.ctx.bpmf, <<t>>}
    /\ whole => Elements(s.preEdit) \subseteq Elements(sent) \cup Elements(r.preEdit)

LEMMA FlowDelivers ==
    ASSUME NEW s, NEW r, NEW g, NEW h, Good(s, g), Good(r, h), NEW t, NEW whole,
           Flow(s, r, t, whole)
    PROVE  \E sent \in Seq(Nat) : Delivers(s, r, t, whole, sent)
<1>1. s.preEdit = Shown(s.ctx) /\ r.preEdit = Shown(r.ctx) /\ ~Pending(r)
  BY DEF Good, Mirrors, Pending
<1>2. PICK sent \in Seq(Nat) : Parted(s, r, t, whole, sent)
  BY DEF Flow
<1>3. Delivers(s, r, t, whole, sent)
  BY <1>1, <1>2 DEF Parted, Delivers, PendingText
<1>4. QED
  BY <1>3

\* What process_key does to the text, by whichever return it leaves.
LEMMA ProcessKeyFlows ==
    ASSUME NEW s, NEW g, Good(s, g), NEW t \in Nat, t \notin Elements(s.preEdit),
           NEW e \in KeyEvent
    PROVE  Flow(s, process_key(s, g, e, t), t, Spares(s, e) /\ ~g.plain)
<1> DEFINE whole == Spares(s, e)
           less  == whole /\ ~g.plain
           r     == handle_key(s, g, e, t)
           k     == [r.self EXCEPT !.keyLast = LastKey(e)]
           p     == PlainZhuyin(k, g, e)
           u     == update(p)
<1>1. t \notin Elements(Shown(s.ctx)) /\ s \in PreEditStruct
  BY DEF Good, Loose, Mirrors
<1>2. Handled(r, g) /\ Flow(s, r.self, t, whole) /\ Untouched(r, s)
  BY <1>1, KeyHandled, KeyFlows, IgnoredUntouched
<1>3. process_key(s, g, e, t) =
        CASE r.response = "ABSORB" -> k
          [] r.response = "IGNORE" ->
               IF s.preEdit = <<>> THEN k ELSE force_commit(k)
          [] OTHER -> RefreshTable(u)
  BY DEF process_key
<1> HIDE DEF r, whole
<1>4. r.self \in PreEditStruct
  BY <1>2 DEF Handled, Loose
<1>5. /\ k.ctx = r.self.ctx /\ k.outgoing = r.self.outgoing
      /\ k.updated = r.self.updated /\ k.preEdit = r.self.preEdit
  BY <1>4 DEF PreEditStruct
<1>6. Loose(k, g) /\ (r.response # "PROCESS" => Good(k, g))
  BY <1>2, LastKeyGood DEF Handled
<1> HIDE DEF k
<1>7. Flow(s, k, t, whole)
  BY <1>2, <1>5, SamePartsFlow DEF SameWords
<1>8. Flow(s, k, t, less)
  BY <1>7, FlowWeaker
<1>9. Loose(p, g) /\ Flow(s, p, t, less)
  BY <1>1, <1>6, <1>7, PlainZhuyinLoose, PlainZhuyinFlows
<1> HIDE DEF p, less
<1>10. Flow(s, u, t, less) /\ u \in PreEditStruct
  BY <1>1, <1>9, UpdateFlows, Updated DEF Loose
<1> HIDE DEF u
<1>11. Flow(s, RefreshTable(u), t, less)
  <2> DEFINE w == RefreshTable(u)
  <2>1. /\ w.ctx = u.ctx /\ w.outgoing = u.outgoing /\ w.updated = u.updated
        /\ SameWords(u.ctx, w.ctx)
    BY <1>10 DEF RefreshTable, PreEditStruct, SameWords
  <2> HIDE DEF w
  <2>2. Flow(s, w, t, less)
    BY <1>10, <2>1, SamePartsFlow
  <2>3. QED
    BY <2>2 DEF w
<1>12. r.response = "IGNORE" => Flow(s, force_commit(k), t, less)
  <2>1. SUFFICES ASSUME r.response = "IGNORE"
                 PROVE  Flow(s, force_commit(k), t, less)
    OBVIOUS
  <2>2. Good(k, g) /\ k.ctx = s.ctx /\ k.outgoing = s.outgoing
    BY <1>2, <1>5, <1>6, <2>1 DEF Untouched
  <2>3. Flow(k, force_commit(k), t, less)
    BY <2>2, ForceCommitFlows
  <2>4. QED
    BY <2>2, <2>3 DEF Flow, Parted
<1>13. Flow(s, process_key(s, g, e, t), t, less)
  BY <1>3, <1>8, <1>11, <1>12
<1>14. QED
  BY <1>13 DEF less, whole

-----------------------------------------------------------------------------
(* The abstract text stream                                                *)

LEMMA StreamWords ==
    ASSUME NEW s, NEW u, NEW t, Keeps(s, u, t)
    PROVE  Text!InOrderOf(s, u)
BY DEF Keeps, Text!InOrderOf, Text!Range, Text!Before, Before, Elements

\* What the invariant says of the places a character can be in.
LEMMA PlacesApart ==
    ASSUME NEW s, NEW g, Good(s, g), NEW T, NEW E, Whole(s, T, E)
    PROVE  /\ s.outgoing \in Seq(Nat) /\ s.preEdit \in Seq(Nat)
           /\ Once(s.outgoing) /\ Once(s.preEdit)
           /\ T \subseteq E
           /\ Elements(s.outgoing) \subseteq E \ T
           /\ Elements(s.preEdit) \subseteq E \ (T \cup Elements(s.outgoing))
<1>1. /\ s.preEdit \in Seq(Nat) /\ Once(s.preEdit)
      /\ Elements(s.preEdit) \subseteq Remaining(s, T, E)
  BY ShownOnce DEF Good, Whole
<1>2. s.outgoing \in Seq(Nat)
  BY DEF Good, Loose, PreEditStruct
<1>3. /\ Once(s.outgoing) /\ T \subseteq E
      /\ Elements(s.outgoing) \subseteq E \ T
  BY DEF Whole
<1>4. QED
  BY <1>1, <1>2, <1>3 DEF Remaining

\* The next character to begin is composed nowhere.
LEMMA NextIsNew ==
    ASSUME NEW s, NEW g, Good(s, g), NEW T, NEW n \in Nat, Whole(s, T, 1 .. n)
    PROVE  /\ n + 1 \in Nat /\ n + 1 \notin 1 .. n
           /\ n + 1 \notin Elements(s.preEdit) /\ n + 1 \notin Elements(s.outgoing)
           /\ n + 1 \notin Elements(Shown(s.ctx)) /\ n + 1 \notin T
<1> DEFINE E == 1 .. n
<1>1. Whole(s, T, E) /\ n + 1 \notin E
  OBVIOUS
<1> HIDE DEF E
<1>2. /\ Elements(s.preEdit) \subseteq E /\ Elements(s.outgoing) \subseteq E
      /\ T \subseteq E
  BY <1>1, PlacesApart
<1>3. s.preEdit = Shown(s.ctx)
  BY DEF Good, Mirrors
<1>4. QED
  BY <1>1, <1>2, <1>3 DEF E

\* Any operation whose text flows is an edit of the abstract stream.
LEMMA FlowIsEdit ==
    ASSUME TextInv, TextInv', taken' = taken, NEW whole,
           Flow(self, self', typed + 1, whole),
           typed + 1 \in 1 .. typed' => typed + 1 <= MaxTyped
    PROVE  Text!Edit
<1> DEFINE t == typed + 1
           T == Elements(taken)
           E == 1 .. typed
           F == 1 .. typed'
           O == self.outgoing
           P == self.outgoing'
           n == Len(O)
           S == self.preEdit
           R == self.preEdit'
           M == self'.ctx.bpmf
<1>1. /\ Good(self, cfg) /\ Good(self', cfg') /\ typed \in Nat /\ typed' \in Nat
      /\ Whole(self, T, E) /\ Whole(self', T, F)
  BY DEF TextInv, IInv
<1> HIDE DEF T, E, F
<1>2. /\ O \in Seq(Nat) /\ S \in Seq(Nat)
      /\ T \subseteq E /\ Elements(O) \subseteq E \ T
      /\ Elements(S) \subseteq E \ (T \cup Elements(O))
  BY <1>1, PlacesApart
<1>3. /\ P \in Seq(Nat) /\ R \in Seq(Nat) /\ Once(P) /\ Once(R)
      /\ Elements(P) \subseteq F \ T
      /\ Elements(R) \subseteq F \ (T \cup Elements(P))
  BY <1>1, PlacesApart
<1>4. PICK sent \in Seq(Nat) : Delivers(self, self', t, whole, sent)
  BY <1>1, FlowDelivers
<1>5. /\ P = O \o sent /\ Keeps(sent, S, t) /\ Keeps(R, S, t)
      /\ Ahead(sent, self'.ctx.buf, S) /\ M \in {<<>>, self.ctx.bpmf, <<t>>}
  BY <1>4 DEF Delivers
<1>a. Elements(R) = Elements(self'.ctx.buf) \cup Elements(M)
  BY <1>1, ShownTyped DEF Good, Loose, Mirrors
<1>6. n \in Nat /\ Len(P) \in Nat /\ n <= Len(P)
  BY <1>2, <1>3, <1>5, ConcatProperties, LenProperties
<1>7. SubSeq(P, 1, n) = O /\ SubSeq(P, n + 1, Len(P)) = sent
  BY <1>2, <1>5, PutTogether
<1> HIDE DEF O, P, S, R, M, n
<1>8. Once(sent) /\ Elements(sent) \subseteq Elements(P)
  <2> DEFINE m == n + 1
             l == Len(P)
  <2>1. m \in Nat /\ l \in Nat /\ 1 <= m /\ m <= l + 1 /\ l <= Len(P)
    BY <1>6
  <2> HIDE DEF m, l
  <2>2. Once(SubSeq(P, m, l)) /\ Elements(SubSeq(P, m, l)) \subseteq Elements(P)
    BY <1>3, <2>1, SubSeqOnce
  <2>3. QED
    BY <1>7, <2>2 DEF m, l
<1>9. Once(sent \o R)
  BY <1>3, <1>8, ConcatOnce
<1>10. Text!InOrderOf(sent, S) /\ Text!InOrderOf(R, S)
  BY <1>5, StreamWords
<1> DEFINE chars == Elements(sent) \cup Elements(R)
           c     == IF t \in chars THEN t ELSE 0
<1>11. /\ c \in 1 .. MaxTyped \cup {0}
       /\ chars \subseteq Elements(S) \cup ({c} \ {0})
       /\ c \notin Elements(S) \cup T \cup Elements(O)
       /\ M \in {<<>>, self.ctx.bpmf, <<c>>}
  <2>1. chars \subseteq Elements(S) \cup {t} /\ chars \subseteq F
    BY <1>3, <1>5, <1>8 DEF Keeps
  <2>2. /\ t \notin Elements(S) \cup T \cup Elements(O)
        /\ 0 \notin Elements(S) \cup T \cup Elements(O) /\ t # 0
    BY <1>1, <1>2 DEF E
  <2>3. CASE t \in chars
    <3>1. t \in 1 .. MaxTyped
      BY <1>1, <2>1, <2>3, PreEditAssumption DEF F
    <3>2. c = t
      BY <2>3
    <3> HIDE DEF c
    <3>3. QED
      BY <1>5, <2>1, <2>2, <3>1, <3>2
  <2>4. CASE t \notin chars
    <3>1. c = 0 /\ M # <<t>>
      <4>1. Elements(<<t>>) = {t}
        BY <1>1, OneOnce
      <4>2. QED
        BY <1>a, <2>4, <4>1
    <3> HIDE DEF c
    <3>2. QED
      BY <1>5, <2>1, <2>2, <2>4, <3>1
  <2>5. QED
    BY <2>3, <2>4
<1>12. n \in 0 .. Len(P)
  BY <1>6
<1> HIDE DEF chars, t, c
<1>13. /\ Text!Range(sent) \cup Text!Range(R) = chars
       /\ Text!Range(S) = Elements(S) /\ Text!Range(taken) = T
       /\ Text!Range(O) = Elements(O)
       /\ Text!Range(sent) = Elements(sent) /\ Text!Range(R) = Elements(R)
       /\ Text!Range(M) = Elements(M)
  BY DEF Text!Range, Elements, chars, T
<1>14. /\ Text!Range(sent) \cup Text!Range(R) \subseteq Text!Range(S) \cup ({c} \ {0})
       /\ c \notin Text!Range(S) \cup Text!Range(O) \cup Text!Range(taken)
       /\ Text!Range(M) \subseteq Text!Range(R)
  BY <1>a, <1>11, <1>13
<1>15. Text!Distinct(sent \o R)
  BY <1>9 DEF Text!Distinct, Once
<1>16. Text!Precedes(Text!Range(sent), Text!Range(R) \ Text!Range(M))
  <2>1. \A a \in Elements(sent), b \in Elements(R) \ Elements(M) :
          a \in Elements(S) /\ b \in Elements(S) => Before(S, a, b)
    BY <1>5, <1>a DEF Ahead
  <2>2. Text!Range(S) = Elements(S) /\ \A a, b : Before(S, a, b) = Text!Before(S, a, b)
    BY <1>13 DEF Before, Text!Before
  <2>3. QED
    BY <1>13, <2>1, <2>2 DEF Text!Precedes, S
<1>17. QED
  BY <1>7, <1>10, <1>11, <1>12, <1>14, <1>15, <1>16 DEF Text!Edit, S, R, M, O, P, n

LEMMA StreamStarts == Init => Text!StreamInit
<1> SUFFICES ASSUME Init PROVE Text!StreamInit
  OBVIOUS
<1>1. /\ self.preEdit = <<>> /\ self.outgoing = <<>> /\ self.ctx.bpmf = <<>>
      /\ taken = <<>>
  BY DEF Init, NewPreEdit, NewContext, use_all_configure, WithContext
<1>2. QED
  BY <1>1 DEF Text!StreamInit

LEMMA StreamSteps ==
    TextInv /\ TextInv' /\ [Next]_vars => [Text!StreamNext]_(Text!streamVars)
<1> SUFFICES ASSUME TextInv, TextInv', [Next]_vars
             PROVE  [Text!StreamNext]_(Text!streamVars)
  OBVIOUS
<1>1. /\ Good(self, cfg) /\ Loose(self, cfg) /\ self \in PreEditStruct
      /\ typed \in Nat /\ Whole(self, Elements(taken), 1 .. typed)
  BY DEF TextInv, IInv, Good, Loose
<1>2. /\ typed + 1 \in Nat /\ typed + 1 \notin Elements(self.preEdit)
      /\ typed + 1 \notin Elements(Shown(self.ctx))
  BY <1>1, NextIsNew
<1>3. ASSUME NEW e \in Events, ProcessKey(e)
      PROVE  Text!Edit
  <2>1. Flow(self, self', typed + 1, Spares(self, e) /\ ~cfg.plain)
    BY <1>1, <1>2, <1>3, ProcessKeyFlows, PreEditAssumption DEF ProcessKey
  <2>2. taken' = taken
    BY <1>3 DEF ProcessKey
  <2>3. typed + 1 \in 1 .. typed' => typed + 1 <= MaxTyped
    BY <1>1, <1>3, PreEditAssumption DEF ProcessKey
  <2>4. QED
    BY <2>1, <2>2, <2>3, FlowIsEdit
<1>4. CASE TakeOutgoing
  BY <1>1, <1>4 DEF TakeOutgoing, clear_outgoing, PreEditStruct, Text!Take,
     Text!StreamNext
<1>5. CASE Clear
  <2>1. Good(self', cfg) /\ self'.preEdit = <<>> /\ self'.outgoing = <<>>
    BY <1>1, <1>5, LooseIsBare, ClearGood DEF Clear
  <2>2. self'.ctx.bpmf = <<>>
    BY <2>1, NothingSpliced DEF Good, Loose, Mirrors, Shown, ContextOK, Context
  <2>3. QED
    BY <1>5, <2>1, <2>2 DEF Clear, Text!Abandon, Text!StreamNext
<1>6. CASE ToggleChiEng
  <2>1. Flow(self, self', typed + 1, FALSE)
    BY <1>1, <1>2, <1>6, TogglesFlow DEF ToggleChiEng
  <2>2. taken' = taken /\ ~(typed + 1 \in 1 .. typed')
    BY <1>1, <1>6 DEF ToggleChiEng
  <2>3. QED
    BY <2>1, <2>2, FlowIsEdit DEF Text!StreamNext
<1>7. ASSUME NEW c \in Configs, UseAllConfigure(c)
      PROVE  UNCHANGED Text!streamVars
  <2>1. self'.ctx.bpmf = self.ctx.bpmf
    BY <1>1, <1>7 DEF UseAllConfigure, use_all_configure, WithContext,
       PreEditStruct, Context
  <2>2. QED
    BY <1>1, <1>7, <2>1, ConfiguredGood DEF UseAllConfigure, Text!streamVars
<1>8. CASE UNCHANGED vars
  BY <1>8 DEF vars, Text!streamVars
<1>9. QED
  BY <1>3, <1>4, <1>5, <1>6, <1>7, <1>8 DEF Next, Text!StreamNext

\* The composition is a text stream: by whichever keys, modes, overflows,
\* quick and forced commits, a character is composed, then waits in outgoing,
\* then is taken.  Two characters change places on the way only if the one left
\* behind is an incomplete syllable: Enter commits the buffer and keeps that.
THEOREM PreEditImplementsTextStream == Spec => DeliversAsTextStream
BY StreamStarts, StreamSteps, TextInvariance, PTL
   DEF Spec, DeliversAsTextStream, Text!Spec

-----------------------------------------------------------------------------
(* Keys that are not meant to erase                                        *)

\* Outside plain Zhuyin mode, where the second of two commits of one key is
\* lost, a key that is not meant to erase loses no character that was composed
\* or waiting.
THEOREM KeysAlwaysKeepText ==
    ASSUME \A c \in Configs : ~c.plain
    PROVE  Spec => KeysKeepText
<1>1. TextInv /\ [Next]_vars =>
        [\/ Visible(self) \subseteq Visible(self')
         \/ \A e \in Events : ProcessKey(e) => Erases(e)]_vars
  <2> SUFFICES ASSUME TextInv, TextInv', NEW e \in Events, ProcessKey(e), ~Erases(e)
               PROVE  Visible(self) \subseteq Visible(self')
    BY NextTextInv
  <2>1. /\ Good(self, cfg) /\ Good(self', cfg') /\ cfg \in Configs /\ typed \in Nat
        /\ Whole(self, Elements(taken), 1 .. typed)
    BY DEF TextInv, IInv
  <2>2. typed + 1 \in Nat /\ typed + 1 \notin Elements(self.preEdit)
    BY <2>1, NextIsNew
  <2>3. Flow(self, self', typed + 1, Spares(self, e) /\ ~cfg.plain)
    BY <2>1, <2>2, ProcessKeyFlows, PreEditAssumption DEF ProcessKey
  <2>4. PICK sent \in Seq(Nat) :
               Delivers(self, self', typed + 1, Spares(self, e) /\ ~cfg.plain, sent)
    BY <2>1, <2>3, FlowDelivers
  <2>5. Spares(self, e) /\ ~cfg.plain /\ self.outgoing \in Seq(Nat)
    BY <2>1, OthersSpare DEF Good, Loose, PreEditStruct
  <2>6. /\ self'.outgoing = self.outgoing \o sent
        /\ Elements(self.preEdit) \subseteq Elements(sent) \cup Elements(self'.preEdit)
    BY <2>4, <2>5 DEF Delivers
  <2>7. Elements(self'.outgoing) = Elements(self.outgoing) \cup Elements(sent)
    BY <2>5, <2>6, ConcatOnce
  <2>8. QED
    BY <2>6, <2>7 DEF Visible
<1>2. QED
  BY <1>1, TextInvariance, PTL DEF Spec, KeysKeepText
=============================================================================
