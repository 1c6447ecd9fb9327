------------------------- MODULE PreEditTextProofs -------------------------
(***************************************************************************)
(* No character is ever in two places, for every value of the constants:   *)
(* whatever keys, modes and settings make of the composition, what has     *)
(* been taken, waits in outgoing or is still composed was typed once and   *)
(* stands there once.                                                      *)
(***************************************************************************)
EXTENDS PreEditProofs

-----------------------------------------------------------------------------
(* Sequences without repetition                                            *)

Once(s) == \A i, j \in DOMAIN s : s[i] = s[j] => i = j

LEMMA ElementsOfSeq ==
    ASSUME NEW s \in Seq(Nat)
    PROVE  /\ DOMAIN s = 1 .. Len(s) /\ Len(s) \in Nat
           /\ \A x : x \in Elements(s) <=> \E i \in 1 .. Len(s) : x = s[i]
BY LenProperties DEF Elements

LEMMA NothingOnce == Elements(<<>>) = {} /\ Once(<<>>)
<1>1. DOMAIN <<>> = {}
  OBVIOUS
<1>2. QED
  BY <1>1 DEF Elements, Once

LEMMA OneOnce ==
    ASSUME NEW t \in Nat
    PROVE  Elements(<<t>>) = {t} /\ Once(<<t>>)
<1>1. DOMAIN <<t>> = {1} /\ <<t>>[1] = t
  OBVIOUS
<1>2. QED
  BY <1>1 DEF Elements, Once

LEMMA ConcatOnce ==
    ASSUME NEW a \in Seq(Nat), NEW b \in Seq(Nat)
    PROVE  /\ Elements(a \o b) = Elements(a) \cup Elements(b)
           /\ Once(a) /\ Once(b) /\ Elements(a) \cap Elements(b) = {}
                => Once(a \o b)
<1> DEFINE ab == a \o b
<1>1. /\ ab \in Seq(Nat) /\ Len(ab) = Len(a) + Len(b)
      /\ \A i \in 1 .. Len(a) + Len(b) :
            ab[i] = IF i <= Len(a) THEN a[i] ELSE b[i - Len(a)]
  BY ConcatProperties
<1>2. Len(a) \in Nat /\ Len(b) \in Nat
  BY LenProperties
<1> HIDE DEF ab
<1>3. \A i \in 1 .. Len(a) : i \in 1 .. Len(ab) /\ ab[i] = a[i]
  BY <1>1, <1>2
<1>4. \A j \in 1 .. Len(b) : Len(a) + j \in 1 .. Len(ab) /\ ab[Len(a) + j] = b[j]
  <2> SUFFICES ASSUME NEW j \in 1 .. Len(b)
               PROVE  Len(a) + j \in 1 .. Len(ab) /\ ab[Len(a) + j] = b[j]
    OBVIOUS
  <2> DEFINE k == Len(a) + j
  <2>1. k \in 1 .. Len(a) + Len(b) /\ ~(k <= Len(a)) /\ k - Len(a) = j
    BY <1>2
  <2> HIDE DEF k
  <2>2. QED
    BY <1>1, <2>1 DEF k
<1>5. \A k \in 1 .. Len(ab) :
        \/ k \in 1 .. Len(a) /\ ab[k] = a[k]
        \/ k - Len(a) \in 1 .. Len(b) /\ ab[k] = b[k - Len(a)] /\ k > Len(a)
  BY <1>1, <1>2
<1>6. Elements(ab) = Elements(a) \cup Elements(b)
  <2>1. ASSUME NEW x \in Elements(ab) PROVE x \in Elements(a) \cup Elements(b)
    <3>1. PICK k \in 1 .. Len(ab) : x = ab[k]
      BY <1>1, ElementsOfSeq
    <3>2. QED
      BY <1>5, <3>1, ElementsOfSeq
  <2>2. ASSUME NEW x \in Elements(a) PROVE x \in Elements(ab)
    <3>1. PICK k \in 1 .. Len(a) : x = a[k]
      BY ElementsOfSeq
    <3>2. QED
      BY <1>1, <1>3, <3>1, ElementsOfSeq
  <2>3. ASSUME NEW x \in Elements(b) PROVE x \in Elements(ab)
    <3>1. PICK k \in 1 .. Len(b) : x = b[k]
      BY ElementsOfSeq
    <3>2. QED
      BY <1>1, <1>4, <3>1, ElementsOfSeq
  <2>4. QED
    BY <2>1, <2>2, <2>3
<1>7. ASSUME Once(a), Once(b), Elements(a) \cap Elements(b) = {}
      PROVE  Once(ab)
  <2> SUFFICES ASSUME NEW i \in 1 .. Len(ab), NEW j \in 1 .. Len(ab), ab[i] = ab[j]
               PROVE  i = j
    BY <1>1, ElementsOfSeq DEF Once
  <2>1. CASE i \in 1 .. Len(a) /\ j \in 1 .. Len(a)
    <3>1. a[i] = a[j]
      BY <1>3, <2>1
    <3>2. i \in DOMAIN a /\ j \in DOMAIN a
      BY <2>1, LenProperties
    <3>3. QED
      BY <1>7, <3>1, <3>2 DEF Once
  <2>2. CASE i \notin 1 .. Len(a) /\ j \notin 1 .. Len(a)
    <3>1. /\ i - Len(a) \in 1 .. Len(b) /\ j - Len(a) \in 1 .. Len(b)
          /\ b[i - Len(a)] = b[j - Len(a)]
      BY <1>5, <2>2
    <3>2. i - Len(a) = j - Len(a)
      <4>1. DOMAIN b = 1 .. Len(b)
        BY LenProperties
      <4>2. QED
        BY <1>7, <3>1, <4>1 DEF Once
    <3>3. QED
      BY <1>2, <3>2
  <2>a. ASSUME NEW k \in 1 .. Len(ab), NEW l \in 1 .. Len(ab), ab[k] = ab[l],
               k \in 1 .. Len(a), l \notin 1 .. Len(a)
        PROVE  FALSE
    <3>1. ab[k] \in Elements(a)
      BY <1>3, <2>a, ElementsOfSeq
    <3>2. l - Len(a) \in 1 .. Len(b) /\ ab[l] = b[l - Len(a)]
      BY <1>5, <2>a
    <3>3. ab[l] \in Elements(b)
      BY <3>2, ElementsOfSeq
    <3>4. QED
      BY <1>7, <2>a, <3>1, <3>3
  <2>3. CASE i \in 1 .. Len(a) /\ j \notin 1 .. Len(a)
    BY <2>3, <2>a
  <2>4. CASE i \notin 1 .. Len(a) /\ j \in 1 .. Len(a)
    BY <2>4, <2>a
  <2>5. QED
    BY <2>1, <2>2, <2>3, <2>4
<1>8. QED
  BY <1>6, <1>7 DEF ab

LEMMA SubSeqOnce ==
    ASSUME NEW s \in Seq(Nat), NEW m \in Nat, NEW n \in Nat,
           1 <= m, m <= n + 1, n <= Len(s)
    PROVE  /\ SubSeq(s, m, n) \in Seq(Nat)
           /\ \A x \in Elements(SubSeq(s, m, n)) : \E i \in m .. n : x = s[i]
           /\ Elements(SubSeq(s, m, n)) \subseteq Elements(s)
           /\ Once(s) => Once(SubSeq(s, m, n))
<1> DEFINE p == SubSeq(s, m, n)
<1>1. Len(s) \in Nat /\ \A i \in m .. n : i \in 1 .. Len(s) /\ s[i] \in Nat
  BY ElementOfSeq, LenProperties
<1>2. /\ p \in Seq(Nat) /\ Len(p) = n - m + 1
      /\ \A i \in 1 .. n - m + 1 : p[i] = s[m + i - 1]
  BY <1>1, SubSeqInside, SubSeqProperties
<1> HIDE DEF p
<1>3. \A i \in 1 .. Len(p) : m + i - 1 \in m .. n /\ p[i] = s[m + i - 1]
  BY <1>2
<1>4. ASSUME NEW x \in Elements(p) PROVE \E i \in m .. n : x = s[i]
  <2>1. PICK i \in 1 .. Len(p) : x = p[i]
    BY <1>2, ElementsOfSeq
  <2>2. QED
    BY <1>3, <2>1
<1>5. Elements(p) \subseteq Elements(s)
  BY <1>1, <1>4, ElementsOfSeq
<1>6. ASSUME Once(s) PROVE Once(p)
  <2> SUFFICES ASSUME NEW i \in 1 .. Len(p), NEW j \in 1 .. Len(p), p[i] = p[j]
               PROVE  i = j
    BY <1>2, ElementsOfSeq DEF Once
  <2>1. /\ m + i - 1 \in 1 .. Len(s) /\ m + j - 1 \in 1 .. Len(s)
        /\ s[m + i - 1] = s[m + j - 1]
    BY <1>1, <1>3
  <2>2. m + i - 1 = m + j - 1
    BY <1>6, <2>1, ElementsOfSeq DEF Once
  <2>3. QED
    BY <2>2
<1>7. QED
  BY <1>2, <1>4, <1>5, <1>6 DEF p

\* Two pieces of a sequence, one after the other, have nothing in common.
LEMMA PiecesApart ==
    ASSUME NEW s \in Seq(Nat), Once(s), NEW m \in Nat, NEW n \in Nat,
           m < n, 1 <= n, n <= Len(s) + 1
    PROVE  Elements(SubSeq(s, 1, m)) \cap Elements(SubSeq(s, n, Len(s))) = {}
<1>1. Len(s) \in Nat
  BY LenProperties
<1>2. \A x \in Elements(SubSeq(s, 1, m)) : \E i \in 1 .. m : x = s[i]
  BY <1>1, SubSeqOnce
<1>3. \A x \in Elements(SubSeq(s, n, Len(s))) : \E i \in n .. Len(s) : x = s[i]
  BY <1>1, SubSeqOnce
<1>4. \A i \in 1 .. m, j \in n .. Len(s) :
        i \in DOMAIN s /\ j \in DOMAIN s /\ i # j
  BY <1>1, ElementsOfSeq
<1>5. QED
  BY <1>2, <1>3, <1>4 DEF Once

LEMMA SplicedOnce ==
    ASSUME NEW s \in Seq(Nat), NEW i \in 0 .. Len(s), NEW text \in Seq(Nat)
    PROVE  /\ Elements(Spliced(s, i, text)) \subseteq Elements(s) \cup Elements(text)
           /\ Once(s) /\ Once(text) /\ Elements(s) \cap Elements(text) = {}
                => Once(Spliced(s, i, text))
<1> DEFINE front == SubSeq(s, 1, i)
           back  == SubSeq(s, i + 1, Len(s))
<1>1. Len(s) \in Nat
  BY LenProperties
<1>2. /\ front \in Seq(Nat) /\ Elements(front) \subseteq Elements(s)
      /\ Once(s) => Once(front)
  BY <1>1, SubSeqOnce
<1>3. /\ back \in Seq(Nat) /\ Elements(back) \subseteq Elements(s)
      /\ Once(s) => Once(back)
  BY <1>1, SubSeqOnce
<1>4. Once(s) => Elements(front) \cap Elements(back) = {}
  BY <1>1, PiecesApart
<1>5. Spliced(s, i, text) = (front \o text) \o back
  BY DEF Spliced
<1> HIDE DEF front, back
<1>6. /\ front \o text \in Seq(Nat)
      /\ Elements(front \o text) = Elements(front) \cup Elements(text)
      /\ Once(front) /\ Once(text) /\ Elements(front) \cap Elements(text) = {}
            => Once(front \o text)
  BY <1>2, ConcatOnce, ConcatProperties
<1>7. /\ Elements((front \o text) \o back)
            = Elements(front \o text) \cup Elements(back)
      /\ Once(front \o text) /\ Once(back)
            /\ Elements(front \o text) \cap Elements(back) = {}
            => Once((front \o text) \o back)
  BY <1>3, <1>6, ConcatOnce
<1>8. QED
  BY <1>2, <1>3, <1>4, <1>5, <1>6, <1>7

LEMMA WithoutOnce ==
    ASSUME NEW s \in Seq(Nat), NEW i \in 1 .. Len(s)
    PROVE  /\ Elements(Without(s, i)) \subseteq Elements(s)
           /\ Once(s) => Once(Without(s, i))
<1> DEFINE front == SubSeq(s, 1, i - 1)
           back  == SubSeq(s, i + 1, Len(s))
<1>1. Len(s) \in Nat /\ i - 1 \in Nat /\ i + 1 \in Nat
  BY LenProperties
<1>2. /\ front \in Seq(Nat) /\ Elements(front) \subseteq Elements(s)
      /\ Once(s) => Once(front)
  BY <1>1, SubSeqOnce
<1>3. /\ back \in Seq(Nat) /\ Elements(back) \subseteq Elements(s)
      /\ Once(s) => Once(back)
  BY <1>1, SubSeqOnce
<1>4. Once(s) => Elements(front) \cap Elements(back) = {}
  BY <1>1, PiecesApart
<1>5. Without(s, i) = front \o back
  BY DEF Without
<1> HIDE DEF front, back
<1>6. QED
  BY <1>2, <1>3, <1>4, <1>5, ConcatOnce

-----------------------------------------------------------------------------
(* Calls of libchewing                                                     *)

\* What is composed are characters of A, each once.
Clean(c, A) ==
    /\ Once(c.buf) /\ Once(c.bpmf)
    /\ Elements(c.buf) \subseteq A /\ Elements(c.bpmf) \subseteq A
    /\ Elements(c.buf) \cap Elements(c.bpmf) = {}

\* Neither is what the call commits anywhere else.
Sent(c, A) ==
    /\ Clean(c, A)
    /\ c.check => /\ Once(c.commit)
                  /\ Elements(c.commit) \subseteq A
                  /\ Elements(c.commit) \cap Elements(c.buf) = {}
                  /\ Elements(c.commit) \cap Elements(c.bpmf) = {}

LEMMA CleanLarger ==
    ASSUME NEW c, NEW A, NEW B, A \subseteq B
    PROVE  /\ Clean(c, A) => Clean(c, B)
           /\ Sent(c, A) => Sent(c, B)
BY DEF Clean, Sent

\* A key that takes nothing away from the composition and commits nothing.
LEMMA QuietSent ==
    ASSUME NEW c \in Context, NEW A, Clean(c, A), NEW k \in {"none", "chars", "symbols"},
           NEW i
    PROVE  /\ Sent(Quiet(c), A)
           /\ Sent([Quiet(c) EXCEPT !.bpmf = <<>>], A)
           /\ Sent([Quiet(c) EXCEPT !.cand = k], A)
           /\ Sent([Quiet(c) EXCEPT !.cursor = i], A)
BY NothingOnce DEF Context, Quiet, Clean, Sent

\* An overflow sends a piece of the buffer and keeps the rest.
LEMMA OverflowParts ==
    ASSUME NEW c, ContextOK(c), Once(c.buf)
    PROVE  LET d == Overflow(c)
           IN  /\ d.bpmf = c.bpmf
               /\ Once(d.buf) /\ Elements(d.buf) \subseteq Elements(c.buf)
               /\ d.check => /\ Once(d.commit)
                             /\ Elements(d.commit) \subseteq Elements(c.buf)
                             /\ Elements(d.commit) \cap Elements(d.buf) = {}
<1> DEFINE n    == IF PhraseLen < Len(c.buf) THEN PhraseLen ELSE Len(c.buf)
           head == SubSeq(c.buf, 1, n)
           tail == SubSeq(c.buf, n + 1, Len(c.buf))
           left == IF c.cursor < n THEN 0 ELSE c.cursor - n
<1>1. c \in Context /\ c.buf \in Seq(Nat) /\ Len(c.buf) \in Nat
  BY LenProperties DEF ContextOK, Context
<1>2. n \in Nat /\ n <= Len(c.buf)
  BY <1>1, PhraseLenAssumption
<1>3. Overflow(c) = IF Len(c.buf) <= c.max THEN Quiet(c)
                    ELSE [Committed(c, head) EXCEPT !.buf = tail, !.cursor = left]
  BY DEF Overflow
<1> HIDE DEF n
<1>4. Once(head) /\ Elements(head) \subseteq Elements(c.buf)
  BY <1>1, <1>2, SubSeqOnce
<1>5. Once(tail) /\ Elements(tail) \subseteq Elements(c.buf)
  BY <1>1, <1>2, SubSeqOnce
<1>6. Elements(head) \cap Elements(tail) = {}
  BY <1>1, <1>2, PiecesApart
<1> HIDE DEF head, tail, left
<1>7. CASE Len(c.buf) <= c.max
  BY <1>1, <1>3, <1>7 DEF Quiet, Context
<1>8. CASE ~(Len(c.buf) <= c.max)
  <2>1. Overflow(c) = [c EXCEPT !.check = TRUE, !.commit = head,
                                !.buf = tail, !.cursor = left]
    BY <1>1, <1>3, <1>8 DEF Committed, Context
  <2>2. /\ Overflow(c).bpmf = c.bpmf /\ Overflow(c).buf = tail
        /\ Overflow(c).commit = head
    BY <1>1, <2>1 DEF Context
  <2>3. QED
    BY <1>4, <1>5, <1>6, <2>2
<1>9. QED
  BY <1>7, <1>8

LEMMA InsertParts ==
    ASSUME NEW c, ContextOK(c), NEW text \in Seq(Nat), Once(c.buf), Once(text),
           Elements(c.buf) \cap Elements(text) = {}
    PROVE  LET d   == Insert(c, text)
               all == Elements(c.buf) \cup Elements(text)
           IN  /\ d \in Context /\ d.bpmf = c.bpmf
               /\ Once(d.buf) /\ Elements(d.buf) \subseteq all
               /\ d.check => /\ Once(d.commit)
                             /\ Elements(d.commit) \subseteq all
                             /\ Elements(d.commit) \cap Elements(d.buf) = {}
<1> DEFINE longer == Spliced(c.buf, c.cursor, text)
           place  == c.cursor + Len(text)
           o      == [c EXCEPT !.buf = longer, !.cursor = place]
<1>1. /\ c \in Context /\ c.buf \in Seq(Nat) /\ Len(c.buf) \in Nat
      /\ Len(text) \in Nat /\ c.cursor \in 0 .. Len(c.buf)
  BY LenProperties DEF ContextOK, Context
<1>2. /\ longer \in Seq(Nat) /\ Len(longer) = Len(c.buf) + Len(text)
      /\ Once(longer)
      /\ Elements(longer) \subseteq Elements(c.buf) \cup Elements(text)
  BY <1>1, SplicedProperties, SplicedOnce
<1>3. place \in Nat /\ place \in 0 .. Len(longer)
  BY <1>1, <1>2
<1>4. Insert(c, text) = Overflow(o)
  BY DEF Insert
<1> HIDE DEF longer, place
<1>5. ContextOK(o) /\ o.bpmf = c.bpmf /\ o.buf = longer
  BY <1>1, <1>2, <1>3 DEF ContextOK, Context
<1> HIDE DEF o
<1> DEFINE d == Overflow(o)
<1>6. d \in Context
  BY <1>5, OverflowFollows DEF Follows, ContextOK
<1>7. /\ d.bpmf = o.bpmf
      /\ Once(d.buf) /\ Elements(d.buf) \subseteq Elements(o.buf)
      /\ d.check => /\ Once(d.commit)
                    /\ Elements(d.commit) \subseteq Elements(o.buf)
                    /\ Elements(d.commit) \cap Elements(d.buf) = {}
  BY <1>2, <1>5, OverflowParts
<1> HIDE DEF d
<1>8. Insert(c, text) = d
  BY <1>4 DEF d
<1>9. QED
  BY <1>2, <1>5, <1>6, <1>7, <1>8

LEMMA InsertSent ==
    ASSUME NEW c, ContextOK(c), NEW A, Clean(c, A), NEW t \in Nat \ A,
           NEW k \in {"none", "chars", "symbols"}
    PROVE  /\ Sent(Insert(c, <<t>>), A \cup {t})
           /\ Sent([Insert(c, <<t>>) EXCEPT !.cand = k], A \cup {t})
<1> DEFINE one == <<t>>
           d   == Insert(c, one)
<1>1. one \in Seq(Nat) /\ Elements(one) = {t} /\ Once(one)
  BY OneToken, OneOnce
<1> HIDE DEF one
<1> DEFINE all == Elements(c.buf) \cup Elements(one)
<1>2. Once(c.buf) /\ Elements(c.buf) \cap Elements(one) = {}
  BY <1>1 DEF Clean
<1>3. /\ d \in Context /\ d.bpmf = c.bpmf
      /\ Once(d.buf) /\ Elements(d.buf) \subseteq all
      /\ d.check => /\ Once(d.commit)
                    /\ Elements(d.commit) \subseteq all
                    /\ Elements(d.commit) \cap Elements(d.buf) = {}
  BY <1>1, <1>2, InsertParts
<1>4. /\ d \in Context /\ d.bpmf = c.bpmf
      /\ Once(d.buf) /\ Elements(d.buf) \subseteq Elements(c.buf) \cup {t}
      /\ d.check => /\ Once(d.commit)
                    /\ Elements(d.commit) \subseteq Elements(c.buf) \cup {t}
                    /\ Elements(d.commit) \cap Elements(d.buf) = {}
  BY <1>1, <1>3
<1> HIDE DEF d
<1>5. Sent(d, A \cup {t})
  <2>1. /\ Elements(c.buf) \subseteq A /\ Elements(c.bpmf) \subseteq A /\ Once(c.bpmf)
        /\ Elements(c.buf) \cap Elements(c.bpmf) = {} /\ t \notin A
    BY DEF Clean
  <2>2. Clean(d, A \cup {t})
    BY <1>4, <2>1 DEF Clean
  <2>3. QED
    BY <1>4, <2>1, <2>2 DEF Sent
<1>6. Sent([d EXCEPT !.cand = k], A \cup {t})
  BY <1>4, <1>5 DEF Sent, Clean, Context
<1>7. QED
  BY <1>5, <1>6 DEF d, one

LEMMA CompleteSent ==
    ASSUME NEW c, ContextOK(c), NEW A, Clean(c, A)
    PROVE  Sent(Complete(c), A)
<1> DEFINE d == Insert(c, c.bpmf)
           w == [d EXCEPT !.bpmf = <<>>]
<1>1. c.bpmf \in Seq(Nat)
  BY DEF ContextOK, Context
<1>2. /\ d \in Context /\ Once(d.buf)
      /\ Elements(d.buf) \subseteq Elements(c.buf) \cup Elements(c.bpmf)
      /\ d.check => /\ Once(d.commit)
                    /\ Elements(d.commit) \subseteq Elements(c.buf) \cup Elements(c.bpmf)
                    /\ Elements(d.commit) \cap Elements(d.buf) = {}
  BY <1>1, InsertParts DEF Clean
<1>3. Complete(c) = w
  BY DEF Complete
<1> HIDE DEF d
<1>4. w.bpmf = <<>> /\ w.buf = d.buf /\ w.check = d.check /\ w.commit = d.commit
  BY <1>2 DEF Context
<1> HIDE DEF w
<1>5. QED
  BY <1>2, <1>3, <1>4, NothingOnce DEF Clean, Sent

LEMMA DirectSent ==
    ASSUME NEW c, ContextOK(c), NEW A, Clean(c, A), NEW t \in Nat \ A
    PROVE  Sent(Direct(c, t), A \cup {t})
<1> DEFINE one == <<t>>
           d   == Committed(c, one)
<1>1. Elements(one) = {t} /\ Once(one)
  BY OneOnce
<1>2. Direct(c, t) = IF c.buf = <<>> THEN d ELSE Insert(c, <<t>>)
  BY DEF Direct
<1> HIDE DEF one
<1>3. d.buf = c.buf /\ d.bpmf = c.bpmf /\ d.commit = one
  BY DEF Committed, ContextOK, Context
<1> HIDE DEF d
<1>4. Sent(d, A \cup {t})
  BY <1>1, <1>3 DEF Clean, Sent
<1>5. Sent(Insert(c, <<t>>), A \cup {t})
  BY InsertSent
<1>6. QED
  BY <1>2, <1>4, <1>5

\* chewing_handle_Default, whatever the key means.
LEMMA DefaultSent ==
    ASSUME NEW c, ContextOK(c), NEW A, Clean(c, A), NEW t \in Nat \ A, NEW kind
    PROVE  Sent(handle_Default(c, kind, t), A \cup {t})
<1> DEFINE B   == A \cup {t}
           one == <<t>>
           new == [Quiet(c) EXCEPT !.bpmf = IF @ = <<>> THEN <<t>> ELSE @]
<1>1. c \in Context
  BY DEF ContextOK
<1>2. /\ Sent(Quiet(c), B) /\ Sent([Quiet(c) EXCEPT !.bpmf = <<>>], B)
      /\ Sent([Quiet(c) EXCEPT !.cand = "none"], B)
      /\ Sent([Quiet(c) EXCEPT !.cand = "symbols"], B)
  BY <1>1, QuietSent, CleanLarger
<1>3. Sent(Direct(c, t), B) /\ Sent(Complete(c), B)
  BY DirectSent, CompleteSent, CleanLarger
<1>4. /\ Sent(Insert(c, <<t>>), B)
      /\ Sent([Insert(c, <<t>>) EXCEPT !.cand = "none"], B)
  BY InsertSent
<1>5. Sent(new, B)
  <2>1. Elements(one) = {t} /\ Once(one)
    BY OneOnce
  <2>2. new = [Quiet(c) EXCEPT !.bpmf = IF c.bpmf = <<>> THEN one ELSE c.bpmf]
    BY <1>1 DEF Quiet, Context
  <2> HIDE DEF one
  <2>3. /\ new.buf = c.buf /\ new.check = FALSE
        /\ new.bpmf = IF c.bpmf = <<>> THEN one ELSE c.bpmf
    BY <1>1, <2>2 DEF Quiet, Context
  <2> HIDE DEF new
  <2>4. QED
    BY <2>1, <2>3 DEF Clean, Sent
<1> HIDE DEF B
<1>6. Sent(Choose(c, kind, t), B)
  BY <1>2, <1>4 DEF Choose
<1>7. Sent(handle_Default(c, kind, t), B)
  BY <1>2, <1>3, <1>4, <1>5, <1>6 DEF handle_Default
<1>8. QED
  BY <1>7 DEF B

LEMMA SpaceSent ==
    ASSUME NEW c, ContextOK(c), NEW A, Clean(c, A), NEW t \in Nat \ A
    PROVE  Sent(handle_Space(c, t), A \cup {t})
<1>1. Sent(Quiet(c), A \cup {t}) /\ Sent(Complete(c), A \cup {t})
  BY QuietSent, CompleteSent, CleanLarger DEF ContextOK
<1>2. QED
  BY <1>1, DirectSent DEF handle_Space

LEMMA EnterSent ==
    ASSUME NEW c, ContextOK(c), NEW A, Clean(c, A)
    PROVE  Sent(handle_Enter(c), A)
<1> DEFINE nil == <<>>
           d   == [Committed(c, c.buf) EXCEPT !.buf = nil, !.cursor = 0]
<1>1. Elements(nil) = {} /\ Once(nil)
  BY NothingOnce
<1>2. handle_Enter(c) =
        IF c.cand # "none" \/ (c.buf = <<>> /\ c.bpmf = <<>>) THEN Quiet(c) ELSE d
  BY DEF handle_Enter
<1> HIDE DEF nil
<1>3. d.buf = nil /\ d.bpmf = c.bpmf /\ d.commit = c.buf
  BY DEF Committed, ContextOK, Context
<1> HIDE DEF d
<1>4. Sent(d, A)
  BY <1>1, <1>3 DEF Clean, Sent
<1>5. QED
  BY <1>2, <1>4, QuietSent DEF ContextOK

\* Esc removes text and commits none.
LEMMA EscSent ==
    ASSUME NEW c, ContextOK(c), NEW A, Clean(c, A)
    PROVE  Sent(handle_Esc(c), A)
<1>1. CASE c.esc = TRUE
  <2>1. /\ handle_Esc(c).buf = <<>> /\ handle_Esc(c).bpmf = <<>>
        /\ handle_Esc(c).check = FALSE
    BY <1>1, EscWipes
  <2>2. QED
    BY <2>1, NothingOnce DEF Clean, Sent
<1>2. CASE c.esc # TRUE
  BY <1>2, QuietSent DEF handle_Esc, ContextOK, Context
<1>3. QED
  BY <1>1, <1>2

\* A shorter buffer.
LEMMA ShorterSent ==
    ASSUME NEW c \in Context, NEW A, Clean(c, A), NEW shorter, NEW i,
           Once(shorter), Elements(shorter) \subseteq Elements(c.buf)
    PROVE  /\ Sent([Quiet(c) EXCEPT !.buf = shorter], A)
           /\ Sent([Quiet(c) EXCEPT !.buf = shorter, !.cursor = i], A)
BY DEF Context, Quiet, Clean, Sent

LEMMA BackspaceSent ==
    ASSUME NEW c, ContextOK(c), NEW A, Clean(c, A)
    PROVE  Sent(handle_Backspace(c), A)
<1> DEFINE shorter == Without(c.buf, c.cursor)
           place   == c.cursor - 1
<1>1. /\ c \in Context /\ c.buf \in Seq(Nat)
      /\ Len(c.buf) \in Nat /\ c.cursor \in 0 .. Len(c.buf)
  BY LenProperties DEF ContextOK, Context
<1>2. c.cursor > 0 => /\ Once(shorter)
                      /\ Elements(shorter) \subseteq Elements(c.buf)
  BY <1>1, WithoutOnce DEF Clean
<1>3. handle_Backspace(c) =
        IF c.cand = "none" /\ c.bpmf # <<>> THEN [Quiet(c) EXCEPT !.bpmf = <<>>]
        ELSE IF Editing(c) /\ c.cursor > 0
        THEN [Quiet(c) EXCEPT !.buf = shorter, !.cursor = place]
        ELSE Quiet(c)
  BY <1>1 DEF handle_Backspace, Quiet, Context
<1> HIDE DEF shorter, place
<1>4. Sent(Quiet(c), A) /\ Sent([Quiet(c) EXCEPT !.bpmf = <<>>], A)
  BY <1>1, QuietSent
<1>5. c.cursor > 0 =>
        Sent([Quiet(c) EXCEPT !.buf = shorter, !.cursor = place], A)
  BY <1>1, <1>2, ShorterSent
<1>6. QED
  BY <1>3, <1>4, <1>5

LEMMA DelSent ==
    ASSUME NEW c, ContextOK(c), NEW A, Clean(c, A)
    PROVE  Sent(handle_Del(c), A)
<1> DEFINE shorter == Without(c.buf, c.cursor + 1)
<1>1. /\ c \in Context /\ c.buf \in Seq(Nat)
      /\ Len(c.buf) \in Nat /\ c.cursor \in 0 .. Len(c.buf)
  BY LenProperties DEF ContextOK, Context
<1>2. c.cursor < Len(c.buf) => c.cursor + 1 \in 1 .. Len(c.buf)
  BY <1>1
<1>3. c.cursor < Len(c.buf) => /\ Once(shorter)
                               /\ Elements(shorter) \subseteq Elements(c.buf)
  BY <1>1, <1>2, WithoutOnce DEF Clean
<1>4. handle_Del(c) = IF Editing(c) /\ c.cursor < Len(c.buf)
                      THEN [Quiet(c) EXCEPT !.buf = shorter] ELSE Quiet(c)
  BY DEF handle_Del
<1> HIDE DEF shorter
<1>5. c.cursor < Len(c.buf) => Sent([Quiet(c) EXCEPT !.buf = shorter], A)
  BY <1>1, <1>3, ShorterSent
<1>6. QED
  BY <1>1, <1>4, <1>5, QuietSent

\* The keys that move the cursor or open and close a list.
LEMMA MovesSent ==
    ASSUME NEW c \in Context, NEW A, Clean(c, A), NEW choices, NEW kSym
    PROVE  /\ Sent(handle_Left(c), A) /\ Sent(handle_Right(c), A)
           /\ Sent(handle_Home(c), A) /\ Sent(handle_End(c), A)
           /\ Sent(handle_Up(c), A) /\ Sent(handle_Down(c, choices), A)
           /\ Sent(handle_CtrlNum(c, kSym), A)
<1>1. ASSUME NEW i PROVE Sent(MoveTo(c, i), A)
  BY QuietSent DEF MoveTo
<1>2. QED
  BY <1>1, QuietSent DEF handle_Left, handle_Right, handle_Home, handle_End,
                         handle_Up, handle_Down, handle_CtrlNum

LEMMA EditCallSent ==
    ASSUME NEW h, NEW c, ContextOK(c), NEW A, Clean(c, A), NEW e
    PROVE  Sent(EditCall(h, c, e), A)
BY BackspaceSent, DelSent, EscSent, MovesSent, QuietSent DEF EditCall, ContextOK

-----------------------------------------------------------------------------
(* The methods of the structure                                            *)

\* Of the characters E, those of T are taken and s has not sent these.
Remaining(s, T, E) == E \ (T \cup Elements(s.outgoing))

\* What waits was not taken, what is composed does neither, and a commit that
\* has yet to be appended is in none of the three.
Whole(s, T, E) ==
    /\ T \subseteq E
    /\ Once(s.outgoing) /\ Elements(s.outgoing) \subseteq E \ T
    /\ Clean(s.ctx, Remaining(s, T, E))
    /\ ~s.updated => Sent(s.ctx, Remaining(s, T, E))

LEMMA WholeLarger ==
    ASSUME NEW s, NEW T, NEW E, Whole(s, T, E), NEW t
    PROVE  Whole(s, T, E \cup {t})
<1>1. Remaining(s, T, E) \subseteq Remaining(s, T, E \cup {t})
  BY DEF Remaining
<1>2. QED
  BY <1>1, CleanLarger DEF Whole

\* A character that is new altogether is new to the composition.
LEMMA RemainingLarger ==
    ASSUME NEW s, NEW T, NEW E, Whole(s, T, E), NEW t \in Nat \ E
    PROVE  /\ Clean(s.ctx, Remaining(s, T, E))
           /\ t \in Nat \ Remaining(s, T, E)
           /\ Remaining(s, T, E) \cup {t} = Remaining(s, T, E \cup {t})
BY DEF Whole, Remaining

LEMMA WithContextWhole ==
    ASSUME NEW s \in PreEditStruct, NEW T, NEW E, Whole(s, T, E),
           NEW c, Sent(c, Remaining(s, T, E))
    PROVE  /\ Whole(WithContext(s, c), T, E)
           /\ Whole([s EXCEPT !.ctx = c, !.updated = FALSE], T, E)
<1>1. ASSUME NEW r \in {WithContext(s, c), [s EXCEPT !.ctx = c, !.updated = FALSE]}
      PROVE  r.ctx = c /\ r.outgoing = s.outgoing
  BY <1>1 DEF WithContext, PreEditStruct
<1>2. ASSUME NEW r, r.ctx = c, r.outgoing = s.outgoing
      PROVE  Whole(r, T, E)
  BY <1>2 DEF Whole, Sent, Remaining
<1>3. QED
  BY <1>1, <1>2

\* A structure with nothing composed and no commit pending.
LEMMA EmptyWhole ==
    ASSUME NEW r, r.ctx.buf = <<>>, r.ctx.bpmf = <<>>, r.ctx.check => r.updated,
           NEW T, NEW E, T \subseteq E,
           Once(r.outgoing), Elements(r.outgoing) \subseteq E \ T
    PROVE  Whole(r, T, E)
<1> DEFINE A == Remaining(r, T, E)
<1>1. Clean(r.ctx, A)
  BY NothingOnce DEF Clean
<1>2. ~r.updated => Sent(r.ctx, A)
  BY <1>1 DEF Sent
<1> HIDE DEF A
<1>3. QED
  BY <1>1, <1>2 DEF Whole, A

\* What update and update_outgoing append, and when.
Appends(r, s) ==
    /\ r.ctx = s.ctx
    /\ IF s.updated \/ ~s.ctx.check
       THEN r.outgoing = s.outgoing /\ r.updated = s.updated
       ELSE r.outgoing = s.outgoing \o s.ctx.commit /\ r.updated = TRUE

LEMMA UpdateAppends ==
    ASSUME NEW s \in PreEditStruct
    PROVE  Appends(update(s), s) /\ Appends(update_outgoing(s), s)
BY DEF Appends, update, update_outgoing, PreEditStruct

LEMMA UpdateWhole ==
    ASSUME NEW s \in PreEditStruct, NEW T, NEW E, Whole(s, T, E)
    PROVE  Whole(update(s), T, E) /\ Whole(update_outgoing(s), T, E)
<1> SUFFICES ASSUME NEW r, Appends(r, s)
             PROVE  Whole(r, T, E)
  BY UpdateAppends
<1>1. /\ r.ctx = s.ctx
      /\ IF s.updated \/ ~s.ctx.check
         THEN r.outgoing = s.outgoing /\ r.updated = s.updated
         ELSE r.outgoing = s.outgoing \o s.ctx.commit /\ r.updated = TRUE
  BY DEF Appends
<1>2. CASE s.updated \/ ~s.ctx.check
  <2>1. r.outgoing = s.outgoing /\ r.updated = s.updated
    BY <1>1, <1>2
  <2>2. QED
    BY <1>1, <2>1 DEF Whole, Remaining
<1>3. CASE ~(s.updated \/ ~s.ctx.check)
  <2> DEFINE A == Remaining(s, T, E)
             B == Remaining(r, T, E)
  <2>1. r.outgoing = s.outgoing \o s.ctx.commit /\ r.updated = TRUE
    BY <1>1, <1>3
  <2>2. /\ Clean(s.ctx, A) /\ Once(s.ctx.commit)
        /\ Elements(s.ctx.commit) \subseteq A
        /\ Elements(s.ctx.commit) \cap Elements(s.ctx.buf) = {}
        /\ Elements(s.ctx.commit) \cap Elements(s.ctx.bpmf) = {}
    BY <1>3 DEF Whole, Sent
  <2>3. s.outgoing \in Seq(Nat) /\ s.ctx.commit \in Seq(Nat)
    BY DEF PreEditStruct, Context
  <2>4. /\ Elements(r.outgoing) = Elements(s.outgoing) \cup Elements(s.ctx.commit)
        /\ Once(r.outgoing)
    BY <2>1, <2>2, <2>3, ConcatOnce DEF Whole, Remaining
  <2>5. B = A \ Elements(s.ctx.commit)
    BY <2>4 DEF Remaining
  <2>6. Clean(s.ctx, B)
    BY <2>2, <2>5 DEF Clean
  <2>7. Elements(r.outgoing) \subseteq E \ T
    BY <2>2, <2>4 DEF Whole, Remaining
  <2>8. QED
    BY <1>1, <2>1, <2>4, <2>6, <2>7 DEF Whole
<1>4. QED
  BY <1>2, <1>3

LEMMA NothingSpliced ==
    ASSUME NEW s \in Seq(Nat), NEW i \in 0 .. Len(s), NEW text \in Seq(Nat),
           Spliced(s, i, text) = <<>>
    PROVE  s = <<>> /\ text = <<>>
<1>1. Len(Spliced(s, i, text)) = Len(s) + Len(text)
  BY SplicedProperties
<1>2. Len(Spliced(s, i, text)) = 0
  BY EmptySeq
<1>3. s # <<>> => Len(s) \in Nat \ {0}
  BY EmptySeq
<1>4. text # <<>> => Len(text) \in Nat \ {0}
  BY EmptySeq
<1>5. Len(s) \in Nat /\ Len(text) \in Nat
  BY LenProperties
<1>6. Len(s) + Len(text) = 0
  BY <1>1, <1>2
<1>7. QED
  BY <1>3, <1>4, <1>5, <1>6

\* What a truthful structure displays is what it composes.
LEMMA ShownOnce ==
    ASSUME NEW s, NEW g, Loose(s, g), Mirrors(s), NEW A, Clean(s.ctx, A)
    PROVE  /\ s.preEdit \in Seq(Nat) /\ Once(s.preEdit)
           /\ Elements(s.preEdit) \subseteq A
<1>1. /\ s.ctx.buf \in Seq(Nat) /\ s.ctx.bpmf \in Seq(Nat)
      /\ s.ctx.cursor \in 0 .. Len(s.ctx.buf)
  BY DEF Loose, ContextOK, Context
<1>2. s.preEdit = Spliced(s.ctx.buf, s.ctx.cursor, s.ctx.bpmf)
  BY DEF Mirrors, Shown
<1>3. s.preEdit \in Seq(Nat)
  BY <1>1, <1>2, SplicedProperties
<1>4. /\ Elements(s.preEdit) \subseteq Elements(s.ctx.buf) \cup Elements(s.ctx.bpmf)
      /\ Once(s.preEdit)
  BY <1>1, <1>2, SplicedOnce DEF Clean
<1>5. QED
  BY <1>3, <1>4 DEF Clean

LEMMA GoodEmptyWhole ==
    ASSUME NEW r, NEW g, Good(r, g), r.preEdit = <<>>, NEW T, NEW E, T \subseteq E,
           Once(r.outgoing), Elements(r.outgoing) \subseteq E \ T
    PROVE  Whole(r, T, E)
<1>1. /\ r.ctx.buf \in Seq(Nat) /\ r.ctx.bpmf \in Seq(Nat)
      /\ r.ctx.cursor \in 0 .. Len(r.ctx.buf)
  BY DEF Good, Loose, ContextOK, Context
<1>2. Spliced(r.ctx.buf, r.ctx.cursor, r.ctx.bpmf) = <<>>
  BY DEF Good, Mirrors, Shown
<1>3. r.ctx.buf = <<>> /\ r.ctx.bpmf = <<>>
  BY <1>1, <1>2, NothingSpliced
<1>4. QED
  BY <1>3, EmptyWhole DEF Good

LEMMA PreEditClearedWhole ==
    ASSUME NEW s, NEW g, Loose(s, g), NEW T, NEW E, Whole(s, T, E)
    PROVE  Whole(clear_pre_edit(s), T, E)
<1> DEFINE d == clear_pre_edit(s)
<1>1. /\ d.ctx.buf = <<>> /\ d.ctx.bpmf = <<>> /\ d.ctx.check = FALSE
      /\ d.outgoing = s.outgoing
  BY LooseIsBare, PreEditCleared
<1> HIDE DEF d
<1>2. Whole(d, T, E)
  BY <1>1, EmptyWhole DEF Whole
<1>3. QED
  BY <1>2 DEF d

LEMMA ForceCommitWhole ==
    ASSUME NEW s, NEW g, Loose(s, g), Mirrors(s), NEW T, NEW E, Whole(s, T, E)
    PROVE  Whole(force_commit(s), T, E)
<1> DEFINE r == force_commit(s)
<1>1. Good(r, g) /\ r.preEdit = <<>> /\ r.outgoing = s.outgoing \o s.preEdit
  BY ForceCommitGood, ForceCommitMoves
<1> HIDE DEF r
<1>2. /\ s.preEdit \in Seq(Nat) /\ Once(s.preEdit)
      /\ Elements(s.preEdit) \subseteq Remaining(s, T, E)
  BY ShownOnce DEF Whole
<1>3. s.outgoing \in Seq(Nat)
  BY DEF Loose, PreEditStruct
<1>4. Elements(s.outgoing) \cap Elements(s.preEdit) = {}
  BY <1>2 DEF Remaining
<1>5. /\ Elements(r.outgoing) = Elements(s.outgoing) \cup Elements(s.preEdit)
      /\ Once(r.outgoing)
  BY <1>1, <1>2, <1>3, <1>4, ConcatOnce DEF Whole
<1>6. Elements(r.outgoing) \subseteq E \ T /\ T \subseteq E
  BY <1>2, <1>5 DEF Whole, Remaining
<1>7. Whole(r, T, E)
  BY <1>1, <1>5, <1>6, GoodEmptyWhole
<1>8. QED
  BY <1>7 DEF r

\* Neither the language nor the width is a character.
LEMMA FlushWhole ==
    ASSUME NEW s, NEW g, Good(s, g), NEW T, NEW E, Whole(s, T, E)
    PROVE  Whole(FlushSyllable(s), T, E)
BY ForceCommitWhole DEF FlushSyllable, Good

LEMMA TogglesWhole ==
    ASSUME NEW s, NEW g, Good(s, g), NEW T, NEW E, Whole(s, T, E)
    PROVE  /\ Whole(toggle_chi_eng_mode(s), T, E)
           /\ Whole(toggle_full_half(s), T, E)
<1> DEFINE f == FlushSyllable(s)
<1>1. Good(f, g) /\ Whole(f, T, E)
  BY FlushGood, FlushWhole
<1> HIDE DEF f
<1>2. f \in PreEditStruct /\ f.ctx \in Context
  BY <1>1 DEF Good, Loose, ContextOK
<1>3. ASSUME NEW c \in {[f.ctx EXCEPT !.chi = ~@], [f.ctx EXCEPT !.full = ~@]}
      PROVE  Whole(WithContext(f, c), T, E)
  <2>1. /\ c.buf = f.ctx.buf /\ c.bpmf = f.ctx.bpmf
        /\ c.check = f.ctx.check /\ c.commit = f.ctx.commit
    BY <1>2, <1>3 DEF Context
  <2> DEFINE w == WithContext(f, c)
  <2>2. w.ctx = c /\ w.outgoing = f.outgoing /\ w.updated = f.updated
    BY <1>2 DEF WithContext, PreEditStruct
  <2> HIDE DEF w
  <2>3. Whole(w, T, E)
    BY <1>1, <2>1, <2>2 DEF Whole, Clean, Sent, Remaining
  <2>4. QED
    BY <2>3 DEF w
<1>4. QED
  BY <1>3 DEF toggle_chi_eng_mode, toggle_full_half, f

-----------------------------------------------------------------------------
(* The handlers                                                            *)

\* Overriding easySymbolInput touches no text.
LEMMA EasyClean ==
    ASSUME NEW c, ContextOK(c), NEW A, NEW b
    PROVE  /\ Clean(c, A) => Clean([c EXCEPT !.easy = b], A)
           /\ c \in Context /\ Sent(c, A) => Sent([c EXCEPT !.easy = b], A)
BY DEF ContextOK, Context, Clean, Sent

LEMMA ScreenWhole ==
    ASSUME NEW s, NEW T, NEW E, Whole(s, T, E), NEW e, NEW mask, NEW body,
           Whole(body.self, T, E)
    PROVE  /\ Whole(WhenPressed(s, e, mask, body).self, T, E)
           /\ Whole(WhenComposing(s, body).self, T, E)
BY DEF WhenPressed, WhenComposing, Answer

LEMMA ProcessedWhole ==
    ASSUME NEW s \in PreEditStruct, NEW T, NEW E, Whole(s, T, E),
           NEW c, Sent(c, Remaining(s, T, E))
    PROVE  Whole(Processed(s, c).self, T, E)
BY WithContextWhole DEF Processed, Answer

LEMMA QuickCommitWhole ==
    ASSUME NEW s \in PreEditStruct, NEW T, NEW E, Whole(s, T, E),
           NEW c \in Context, Sent(c, Remaining(s, T, E))
    PROVE  Whole(QuickCommit(s, c).self, T, E)
<1> DEFINE p == [s EXCEPT !.ctx = c, !.updated = FALSE]
           u == update_outgoing(p)
           b == s.ctx.easy
           w == WithContext(u, [u.ctx EXCEPT !.easy = b])
<1>1. p \in PreEditStruct /\ p.ctx = c
  BY DEF PreEditStruct
<1>2. Whole(p, T, E)
  BY WithContextWhole
<1> HIDE DEF p
<1>3. u \in PreEditStruct /\ u.ctx = c /\ Whole(u, T, E)
  BY <1>1, <1>2, UpdateOutgoing, UpdateWhole
<1> HIDE DEF u, b
<1>4. /\ w.ctx.buf = c.buf /\ w.ctx.bpmf = c.bpmf /\ w.ctx.check = c.check
      /\ w.ctx.commit = c.commit
      /\ w.outgoing = u.outgoing /\ w.updated = u.updated
  BY <1>3 DEF WithContext, PreEditStruct, Context
<1> HIDE DEF w
<1>5. Whole(w, T, E)
  BY <1>3, <1>4 DEF Whole, Remaining, Clean, Sent
<1>6. QuickCommit(s, c).self = w
  BY DEF QuickCommit, Answer, w, u, p, b
<1>7. QED
  BY <1>5, <1>6

LEMMA TextKeyWhole ==
    ASSUME NEW s, NEW g, Good(s, g), NEW T, NEW E, Whole(s, T, E),
           NEW t \in Nat \ E, NEW e
    PROVE  Whole(self_handle_key_sym_default(s, e, t).self, T, E \cup {t})
<1> DEFINE b == s.ctx.easy /\ e.mods = {"shift"}
           o == [s.ctx EXCEPT !.easy = b]
           c == handle_Default(o, e.kind, t)
           A == Remaining(s, T, E)
<1>1. /\ s \in PreEditStruct /\ ContextOK(s.ctx) /\ s.ctx \in Context
      /\ b \in BOOLEAN
  BY DEF Good, Loose, ContextOK, Context
<1>2. Clean(s.ctx, A) /\ t \in Nat \ A /\ A \cup {t} = Remaining(s, T, E \cup {t})
  BY RemainingLarger
<1>3. self_handle_key_sym_default(s, e, t) =
        IF Refused(e.mods, ShiftMask) THEN Answer(s, "IGNORE")
        ELSE QuickCommit(s, c)
  BY <1>1 DEF self_handle_key_sym_default, Context
<1> HIDE DEF A, b
<1>4. ContextOK(o) /\ Clean(o, A)
  BY <1>1, <1>2, EasyRestored, EasyClean
<1> HIDE DEF o
<1>5. Sent(c, A \cup {t}) /\ c \in Context
  BY <1>2, <1>4, DefaultSent, DefaultFollows DEF Follows, ContextOK
<1> HIDE DEF c
<1>6. Whole(s, T, E \cup {t})
  BY WholeLarger
<1>7. Whole(QuickCommit(s, c).self, T, E \cup {t})
  BY <1>1, <1>2, <1>5, <1>6, QuickCommitWhole
<1>8. QED
  BY <1>3, <1>6, <1>7 DEF Answer

LEMMA NumWhole ==
    ASSUME NEW s, NEW g, Good(s, g), NEW T, NEW E, Whole(s, T, E),
           NEW t \in Nat \ E, NEW e
    PROVE  Whole(self_handle_num(s, e, t).self, T, E \cup {t})
<1> DEFINE body == IF e.mods = {"ctrl"}
                   THEN Processed(s, handle_CtrlNum(s.ctx, e.sym))
                   ELSE self_handle_key_sym_default(s, e, t)
<1>1. s \in PreEditStruct /\ s.ctx \in Context
  BY DEF Good, Loose, ContextOK
<1>2. Sent(handle_CtrlNum(s.ctx, e.sym), Remaining(s, T, E))
  BY <1>1, MovesSent DEF Whole
<1>3. Whole(Processed(s, handle_CtrlNum(s.ctx, e.sym)).self, T, E \cup {t})
  BY <1>1, <1>2, ProcessedWhole, WholeLarger
<1>4. Whole(body.self, T, E \cup {t}) /\ Whole(s, T, E \cup {t})
  BY <1>3, TextKeyWhole, WholeLarger
<1>5. self_handle_num(s, e, t) = WhenPressed(s, e, ShiftCtrlMask, body)
  BY DEF self_handle_num
<1> HIDE DEF body
<1>6. QED
  BY <1>4, <1>5, ScreenWhole

LEMMA CapsLockWhole ==
    ASSUME NEW s, NEW g, Good(s, g), NEW T, NEW E, Whole(s, T, E), NEW e
    PROVE  Whole(self_handle_caps_lock(s, e).self, T, E)
<1> DEFINE f == FlushSyllable(s)
           c == handle_Capslock(f.ctx)
<1>1. Whole(f, T, E) /\ f \in PreEditStruct /\ f.ctx \in Context
  BY FlushGood, FlushWhole DEF Good, Loose, ContextOK
<1>2. self_handle_caps_lock(s, e) = WhenPressed(s, e, NoMask, Processed(f, c))
  BY DEF self_handle_caps_lock
<1> HIDE DEF f
<1>3. c.buf = f.ctx.buf /\ c.bpmf = f.ctx.bpmf /\ c.check = FALSE
  BY <1>1 DEF handle_Capslock, Quiet, Context
<1> HIDE DEF c
<1>4. Sent(c, Remaining(f, T, E))
  BY <1>1, <1>3 DEF Whole, Clean, Sent
<1>5. QED
  BY <1>1, <1>2, <1>4, ProcessedWhole, ScreenWhole

LEMMA SpaceWhole ==
    ASSUME NEW s, NEW g, Good(s, g), NEW T, NEW E, Whole(s, T, E),
           NEW t \in Nat \ E, NEW e
    PROVE  Whole(self_handle_space(s, e, t).self, T, E \cup {t})
<1> DEFINE o    == [s.ctx EXCEPT !.easy = FALSE]
           c    == handle_Space(o, t)
           body == IF e.mods = {"shift"}
                   THEN Answer(toggle_full_half(s), "PROCESS")
                   ELSE QuickCommit(s, c)
           A    == Remaining(s, T, E)
<1>1. s \in PreEditStruct /\ ContextOK(s.ctx)
  BY DEF Good, Loose
<1>2. Clean(s.ctx, A) /\ t \in Nat \ A /\ A \cup {t} = Remaining(s, T, E \cup {t})
  BY RemainingLarger
<1>3. self_handle_space(s, e, t) = WhenPressed(s, e, ShiftCtrlMask, body)
  BY DEF self_handle_space
<1> HIDE DEF A
<1>4. ContextOK(o) /\ Clean(o, A)
  BY <1>1, <1>2, EasyRestored, EasyClean
<1> HIDE DEF o
<1>5. Sent(c, A \cup {t}) /\ c \in Context
  BY <1>2, <1>4, SpaceSent, SpaceFollows DEF Follows, ContextOK
<1> HIDE DEF c
<1>6. Whole(s, T, E \cup {t})
  BY WholeLarger
<1>7. Whole(QuickCommit(s, c).self, T, E \cup {t})
  BY <1>1, <1>2, <1>5, <1>6, QuickCommitWhole
<1>8. Whole(toggle_full_half(s), T, E \cup {t})
  BY TogglesWhole, WholeLarger
<1>9. Whole(body.self, T, E \cup {t})
  BY <1>7, <1>8 DEF Answer
<1> HIDE DEF body
<1>10. QED
  BY <1>3, <1>6, <1>9, ScreenWhole

LEMMA ReturnWhole ==
    ASSUME NEW s, NEW g, Good(s, g), NEW T, NEW E, Whole(s, T, E), NEW e
    PROVE  Whole(self_handle_return(s, e).self, T, E)
<1>1. s \in PreEditStruct /\ ContextOK(s.ctx)
  BY DEF Good, Loose
<1>2. /\ Sent(handle_Enter(s.ctx), Remaining(s, T, E))
      /\ handle_Enter(s.ctx) \in Context
  BY <1>1, EnterSent, EnterFollows DEF Whole, Follows, ContextOK
<1>3. Whole(QuickCommit(s, handle_Enter(s.ctx)).self, T, E)
  BY <1>1, <1>2, QuickCommitWhole
<1>4. QED
  BY <1>3, ScreenWhole DEF self_handle_return

LEMMA EditWhole ==
    ASSUME NEW h, NEW s, NEW g, Good(s, g), NEW T, NEW E, Whole(s, T, E), NEW e
    PROVE  Whole(self_handle_edit(h, s, e).self, T, E)
<1>1. s \in PreEditStruct /\ ContextOK(s.ctx) /\ Clean(s.ctx, Remaining(s, T, E))
  BY DEF Good, Loose, Whole
<1>2. Whole(Processed(s, EditCall(h, s.ctx, e)).self, T, E)
  BY <1>1, EditCallSent, ProcessedWhole
<1>3. QED
  BY <1>2, ScreenWhole DEF self_handle_edit

\* Every row of keyHandlingRules.
LEMMA KeyWhole ==
    ASSUME NEW s, NEW g, Good(s, g), NEW T, NEW E, Whole(s, T, E),
           NEW t \in Nat \ E, NEW e
    PROVE  Whole(handle_key(s, g, e, t).self, T, E \cup {t})
<1>1. Whole(s, T, E \cup {t})
  BY WholeLarger
<1>2. Whole(self_handle_default(s, e, t).self, T, E \cup {t})
  BY <1>1, TextKeyWhole, ScreenWhole DEF self_handle_default
<1>3. Whole(toggle_chi_eng_mode(s), T, E \cup {t})
  BY TogglesWhole, WholeLarger
<1>4. Whole(self_handle_shift(s, g, e).self, T, E \cup {t})
  BY <1>1, <1>3 DEF self_handle_shift, Answer
<1>5. /\ Whole(self_handle_caps_lock(s, e).self, T, E \cup {t})
      /\ Whole(self_handle_return(s, e).self, T, E \cup {t})
      /\ \A h : Whole(self_handle_edit(h, s, e).self, T, E \cup {t})
  BY CapsLockWhole, ReturnWhole, EditWhole, WholeLarger
<1>6. Whole(Answer(s, "IGNORE").self, T, E \cup {t})
  BY <1>1 DEF Answer
<1>7. /\ Whole(self_handle_num(s, e, t).self, T, E \cup {t})
      /\ Whole(self_handle_space(s, e, t).self, T, E \cup {t})
  BY NumWhole, SpaceWhole
<1>8. QED
  BY <1>2, <1>4, <1>5, <1>6, <1>7 DEF handle_key

-----------------------------------------------------------------------------
(* The operations                                                          *)

LEMMA PlainZhuyinWhole ==
    ASSUME NEW s, NEW g, Loose(s, g), NEW T, NEW E, Whole(s, T, E), NEW e
    PROVE  Whole(PlainZhuyin(s, g, e), T, E)
<1> DEFINE moved == IF "shift" \in e.mods THEN handle_Left(s.ctx) ELSE s.ctx
           upped == handle_Up(s.ctx)
           A     == Remaining(s, T, E)
<1>1. s \in PreEditStruct /\ ContextOK(s.ctx) /\ s.ctx \in Context /\ Clean(s.ctx, A)
  BY DEF Loose, ContextOK, Whole
<1>2. /\ ContextOK(moved) /\ moved \in Context
      /\ ContextOK(upped) /\ upped \in Context
  BY <1>1, CursorKeysFollow, ListKeysFollow DEF Follows, ContextOK
<1>3. Clean(moved, A) /\ Clean(upped, A)
  BY <1>1, MovesSent DEF Sent
<1> HIDE DEF moved, upped
<1>4. Sent(handle_Down(moved, e.choices), A)
  BY <1>2, <1>3, MovesSent
<1>5. Sent(handle_Enter(upped), A) /\ Sent(handle_Enter(s.ctx), A)
  BY <1>1, <1>2, <1>3, EnterSent
<1>6. /\ Whole(WithContext(s, handle_Down(moved, e.choices)), T, E)
      /\ Whole(WithContext(s, handle_Enter(upped)), T, E)
      /\ Whole(WithContext(s, handle_Enter(s.ctx)), T, E)
  BY <1>1, <1>4, <1>5, WithContextWhole
<1>7. Whole(clear_pre_edit(s), T, E)
  BY PreEditClearedWhole
<1>8. PlainZhuyin(s, g, e) \in
        {s, clear_pre_edit(s), WithContext(s, handle_Enter(upped)),
         WithContext(s, handle_Down(moved, e.choices)),
         WithContext(s, handle_Enter(s.ctx))}
  BY DEF PlainZhuyin, moved, upped
<1>9. QED
  BY <1>6, <1>7, <1>8

\* Fields that hold no text.
LEMMA BookkeepingWhole ==
    ASSUME NEW s \in PreEditStruct, NEW T, NEW E, Whole(s, T, E), NEW e
    PROVE  /\ Whole([s EXCEPT !.keyLast = LastKey(e)], T, E)
           /\ Whole(RefreshTable(s), T, E)
BY DEF RefreshTable, PreEditStruct, Whole, Remaining

LEMMA ProcessKeyWhole ==
    ASSUME NEW s, NEW g, Good(s, g), NEW T, NEW E, Whole(s, T, E),
           NEW t \in Nat \ E, NEW e \in KeyEvent
    PROVE  Whole(process_key(s, g, e, t), T, E \cup {t})
<1> DEFINE r == handle_key(s, g, e, t)
           k == [r.self EXCEPT !.keyLast = LastKey(e)]
           p == PlainZhuyin(k, g, e)
           F == E \cup {t}
<1>1. Handled(r, g) /\ Whole(r.self, T, F)
  BY KeyHandled, KeyWhole
<1>2. process_key(s, g, e, t) =
        CASE r.response = "ABSORB" -> k
          [] r.response = "IGNORE" ->
               IF s.preEdit = <<>> THEN k ELSE force_commit(k)
          [] OTHER -> RefreshTable(update(p))
  BY DEF process_key
<1> HIDE DEF r, F
<1>3. Loose(k, g) /\ (r.response # "PROCESS" => Mirrors(k)) /\ Whole(k, T, F)
  BY <1>1, LastKeyGood, BookkeepingWhole DEF Handled, Good, Loose
<1> HIDE DEF k
<1>4. Loose(p, g) /\ Whole(p, T, F)
  BY <1>3, PlainZhuyinLoose, PlainZhuyinWhole
<1> HIDE DEF p
<1>5. update(p) \in PreEditStruct /\ Whole(update(p), T, F)
  BY <1>4, Updated, UpdateWhole DEF Loose
<1>6. Whole(RefreshTable(update(p)), T, F)
  BY <1>5, BookkeepingWhole
<1>7. r.response = "IGNORE" => Whole(force_commit(k), T, F)
  BY <1>3, ForceCommitWhole
<1>8. Whole(process_key(s, g, e, t), T, F)
  BY <1>2, <1>3, <1>6, <1>7
<1>9. QED
  BY <1>8 DEF F

-----------------------------------------------------------------------------
(* The inductive invariant                                                 *)

\* That no character is twice in the stream is not inductive: a handler may
\* send what is composed, so buffer and syllable must be apart, too, and a new
\* character is new only because `typed` bounds all that are anywhere.
TextInv ==
    /\ IInv
    /\ Once(taken)
    /\ Whole(self, Elements(taken), 1 .. typed)

LEMMA InitTextInv == Init => TextInv
<1> SUFFICES ASSUME Init PROVE TextInv
  OBVIOUS
<1>1. IInv
  BY InitIInv
<1>2. /\ Good(self, cfg) /\ self.preEdit = <<>> /\ self.outgoing = <<>>
      /\ taken = <<>>
  BY NewGood DEF Init
<1>3. Whole(self, {}, 1 .. typed)
  BY <1>2, NothingOnce, GoodEmptyWhole
<1>4. QED
  BY <1>1, <1>2, <1>3, NothingOnce DEF TextInv

\* A character held nowhere may be forgotten.
LEMMA WholeSmaller ==
    ASSUME NEW s, NEW T, NEW E, NEW t, Whole(s, T, E \cup {t}), T \subseteq E,
           t \notin Held(s)
    PROVE  Whole(s, T, E)
<1>1. /\ t \notin Elements(s.ctx.buf) /\ t \notin Elements(s.ctx.bpmf)
      /\ t \notin Elements(s.ctx.commit) /\ t \notin Elements(s.outgoing)
  BY DEF Held
<1> DEFINE A == Remaining(s, T, E)
           B == Remaining(s, T, E \cup {t})
<1>2. B \subseteq A \cup {t}
  BY DEF Remaining
<1> HIDE DEF A, B
<1>3. /\ Clean(s.ctx, B) => Clean(s.ctx, A)
      /\ Sent(s.ctx, B) => Sent(s.ctx, A)
  BY <1>1, <1>2 DEF Clean, Sent
<1>4. /\ Once(s.outgoing) /\ Elements(s.outgoing) \subseteq E \ T
  BY <1>1 DEF Whole
<1>5. Clean(s.ctx, B) /\ (~s.updated => Sent(s.ctx, B))
  BY DEF Whole, B
<1>6. QED
  BY <1>3, <1>4, <1>5 DEF Whole, A

LEMMA NextTextInv == TextInv /\ [Next]_vars => TextInv'
<1> SUFFICES ASSUME TextInv, [Next]_vars PROVE TextInv'
  OBVIOUS
<1> DEFINE T == Elements(taken)
           E == 1 .. typed
<1>1. /\ IInv /\ Once(taken) /\ Whole(self, T, E) /\ Good(self, cfg)
      /\ Loose(self, cfg) /\ self \in PreEditStruct /\ typed \in Nat
      /\ taken \in Seq(Nat) /\ T \subseteq E
  BY DEF TextInv, IInv, Good, Loose, Whole
<1>2. IInv'
  BY <1>1, NextIInv
<1>3. ASSUME NEW e \in Events, ProcessKey(e)
      PROVE  TextInv'
  <2> DEFINE t == typed + 1
  <2>1. e \in KeyEvent /\ t \in Nat \ E /\ E \cup {t} = 1 .. t
    BY <1>1, PreEditAssumption
  <2>2. /\ self' = process_key(self, cfg, e, t)
        /\ typed' = IF t \in Held(self') THEN t ELSE typed
        /\ taken' = taken
    BY <1>3 DEF ProcessKey
  <2> HIDE DEF T, E, t
  <2>3. Whole(self', T, E \cup {t})
    BY <1>1, <2>1, <2>2, ProcessKeyWhole
  <2>4. t \notin Held(self') => Whole(self', T, E)
    BY <1>1, <2>3, WholeSmaller
  <2>5. Whole(self', T, 1 .. typed')
    BY <2>1, <2>2, <2>3, <2>4 DEF E
  <2>6. QED
    BY <1>1, <1>2, <2>2, <2>5 DEF TextInv, T
<1>4. CASE TakeOutgoing
  <2>1. /\ taken' = taken \o self.outgoing /\ typed' = typed
        /\ self' = [self EXCEPT !.outgoing = <<>>]
    BY <1>4 DEF TakeOutgoing, clear_outgoing
  <2>2. /\ self.outgoing \in Seq(Nat) /\ Once(self.outgoing)
        /\ Elements(self.outgoing) \subseteq E \ T
    BY <1>1 DEF PreEditStruct, Whole
  <2> HIDE DEF E
  <2>3. /\ Elements(taken') = T \cup Elements(self.outgoing)
        /\ Once(taken')
    BY <1>1, <2>1, <2>2, ConcatOnce
  <2> DEFINE nil == <<>>
  <2>4. Elements(nil) = {} /\ Once(nil)
    BY NothingOnce
  <2> HIDE DEF nil
  <2>5. /\ self'.ctx = self.ctx /\ self'.updated = self.updated
        /\ self'.outgoing = nil
    BY <1>1, <2>1 DEF PreEditStruct, nil
  <2>6. Remaining(self', Elements(taken'), E) = Remaining(self, T, E)
    BY <2>3, <2>4, <2>5 DEF Remaining
  <2>7. Elements(taken') \subseteq E
    BY <1>1, <2>2, <2>3
  <2>8. Whole(self', Elements(taken'), E)
    BY <1>1, <2>4, <2>5, <2>6, <2>7 DEF Whole
  <2>9. QED
    BY <1>2, <2>1, <2>3, <2>8 DEF TextInv, E
<1>5. CASE Clear
  <2>1. self' = clear(self) /\ taken' = taken /\ typed' = typed
    BY <1>5 DEF Clear
  <2>2. Good(self', cfg) /\ self'.preEdit = <<>> /\ self'.outgoing = <<>>
    BY <1>1, <2>1, LooseIsBare, ClearGood
  <2>3. Whole(self', T, E)
    BY <1>1, <2>2, NothingOnce, GoodEmptyWhole
  <2>4. QED
    BY <1>1, <1>2, <2>1, <2>3 DEF TextInv
<1>6. CASE ToggleChiEng
  BY <1>1, <1>2, <1>6, TogglesWhole DEF ToggleChiEng, TextInv
<1>7. ASSUME NEW c \in Configs, UseAllConfigure(c)
      PROVE  TextInv'
  <2>1. /\ self' = use_all_configure(self, c)
        /\ taken' = taken /\ typed' = typed
    BY <1>7 DEF UseAllConfigure
  <2>2. /\ self'.ctx.buf = self.ctx.buf /\ self'.ctx.bpmf = self.ctx.bpmf
        /\ self'.ctx.check = self.ctx.check /\ self'.ctx.commit = self.ctx.commit
        /\ self'.outgoing = self.outgoing /\ self'.updated = self.updated
    BY <1>1, <2>1 DEF use_all_configure, WithContext, PreEditStruct, Context
  <2>3. Whole(self', T, E)
    BY <1>1, <2>2 DEF Whole, Remaining, Clean, Sent
  <2>4. QED
    BY <1>1, <1>2, <2>1, <2>3 DEF TextInv
<1>8. CASE UNCHANGED vars
  BY <1>1, <1>2, <1>8 DEF vars, TextInv
<1>9. QED
  BY <1>3, <1>4, <1>5, <1>6, <1>7, <1>8 DEF Next

LEMMA TextInvariance == Spec => []TextInv
BY InitTextInv, NextTextInv, PTL DEF Spec

-----------------------------------------------------------------------------
(* The theorems                                                            *)

\* All the text there is: each character typed, once.
LEMMA StreamOnce ==
    ASSUME TextInv
    PROVE  /\ Stream \in Seq(Nat) /\ Once(Stream)
           /\ Elements(Stream) \subseteq 1 .. typed
<1> DEFINE T == Elements(taken)
           E == 1 .. typed
           O == Elements(self.outgoing)
           gone == taken \o self.outgoing
<1>1. /\ Once(taken) /\ taken \in Seq(Nat) /\ T \subseteq E
      /\ Once(self.outgoing) /\ self.outgoing \in Seq(Nat) /\ O \subseteq E \ T
      /\ Clean(self.ctx, E \ (T \cup O))
  BY DEF TextInv, IInv, Good, Loose, PreEditStruct, Whole, Remaining
<1>2. /\ self.preEdit \in Seq(Nat) /\ Once(self.preEdit)
      /\ Elements(self.preEdit) \subseteq E \ (T \cup O)
  BY <1>1, ShownOnce DEF TextInv, IInv, Good
<1> HIDE DEF E
<1>3. gone \in Seq(Nat) /\ Once(gone) /\ Elements(gone) = T \cup O
  BY <1>1, ConcatOnce, ConcatProperties
<1>4. Stream = gone \o self.preEdit
  BY DEF Stream
<1> HIDE DEF gone, T, O
<1>5. /\ Stream \in Seq(Nat) /\ Once(Stream)
      /\ Elements(Stream) = Elements(gone) \cup Elements(self.preEdit)
  BY <1>2, <1>3, <1>4, ConcatOnce, ConcatProperties
<1>6. Elements(Stream) \subseteq E
  BY <1>1, <1>2, <1>3, <1>5
<1>7. QED
  BY <1>5, <1>6 DEF E

\* Through quick commits, overflows, the commits of plain Zhuyin mode and
\* forced commits, no character is delivered twice or is delivered while its
\* copy is still being composed.
THEOREM EachCharacterAlwaysOnce == Spec => []EachCharacterOnce
<1>1. TextInv => EachCharacterOnce
  BY StreamOnce DEF Once, EachCharacterOnce
<1>2. QED
  BY <1>1, TextInvariance, PTL

\* clear_pre_edit wipes the false '1' it types, in every mode and under every
\* setting.
THEOREM FalseKeyIsNeverSeen == Spec => []FalseKeyNeverSeen
<1>1. TextInv => FalseKeyNeverSeen
  BY StreamOnce DEF FalseKeyNeverSeen, Junk
<1>2. QED
  BY <1>1, TextInvariance, PTL
=============================================================================
