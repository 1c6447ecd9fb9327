---------------------------- MODULE PreEditProofs ----------------------------
(***************************************************************************)
(* Proofs about PreEdit for every value of its constants.                  *)
(***************************************************************************)
EXTENDS PreEdit, SequenceTheorems, TLAPS

\* A context of the right type with its cursor inside the buffer.
ContextOK(c) == c \in Context /\ c.cursor \in 0 .. Len(c.buf)

\* What no call of libchewing does: leave the type, touch a setting, change
\* the language, or start a syllable in English mode.
Follows(c, d) ==
    /\ ContextOK(d)
    /\ d.esc = c.esc /\ d.easy = c.easy /\ d.max = c.max /\ d.chi = c.chi
    /\ d.full = c.full
    /\ ~c.chi /\ c.bpmf = <<>> => d.bpmf = <<>>

LEMMA ConcatOfThree ==
    ASSUME NEW a \in Seq(Nat), NEW b \in Seq(Nat), NEW d \in Seq(Nat)
    PROVE  /\ a \o b \o d \in Seq(Nat)
           /\ Len(a \o b \o d) = Len(a) + Len(b) + Len(d)
<1> DEFINE ab == a \o b
<1>1. ab \in Seq(Nat) /\ Len(ab) = Len(a) + Len(b)
  BY ConcatProperties
<1> HIDE DEF ab
<1>2. ab \o d \in Seq(Nat) /\ Len(ab \o d) = Len(ab) + Len(d)
  BY <1>1, ConcatProperties
<1>3. QED
  BY <1>1, <1>2 DEF ab

\* A piece of text spliced into a sequence at a place inside it.
LEMMA SplicedProperties ==
    ASSUME NEW s \in Seq(Nat), NEW i \in 0 .. Len(s), NEW text \in Seq(Nat)
    PROVE  /\ Spliced(s, i, text) \in Seq(Nat)
           /\ Len(Spliced(s, i, text)) = Len(s) + Len(text)
<1> DEFINE front == SubSeq(s, 1, i)
           back  == SubSeq(s, i + 1, Len(s))
<1>1. front \in Seq(Nat) /\ Len(front) = i
  BY SubSeqProperties
<1>2. back \in Seq(Nat) /\ Len(back) = Len(s) - i
  BY SubSeqProperties
<1>3. Spliced(s, i, text) = front \o text \o back
  BY DEF Spliced
<1> HIDE DEF front, back
<1>4. /\ front \o text \o back \in Seq(Nat)
      /\ Len(front \o text \o back) = Len(front) + Len(text) + Len(back)
  BY <1>1, <1>2, ConcatOfThree
<1>5. Len(s) \in Nat /\ Len(text) \in Nat /\ i \in Nat
  BY LenProperties
<1>6. QED
  BY <1>1, <1>2, <1>3, <1>4, <1>5

LEMMA SubSeqInside ==
    ASSUME NEW s \in Seq(Nat), NEW m \in Nat, NEW n \in Nat,
           1 <= m, m <= n + 1, n <= Len(s)
    PROVE  SubSeq(s, m, n) \in Seq(Nat) /\ Len(SubSeq(s, m, n)) = n - m + 1
<1>1. \A i \in m .. n : s[i] \in Nat
  BY ElementOfSeq, LenProperties
<1>2. QED
  BY <1>1, SubSeqProperties

LEMMA QuietFollows ==
    ASSUME NEW c, ContextOK(c)
    PROVE  Follows(c, Quiet(c))
BY EmptySeq DEF ContextOK, Context, Follows, Quiet

LEMMA OverflowFollows ==
    ASSUME NEW c, ContextOK(c)
    PROVE  Follows(c, Overflow(c)) /\ Overflow(c).bpmf = c.bpmf
<1> DEFINE n    == IF PhraseLen < Len(c.buf) THEN PhraseLen ELSE Len(c.buf)
           head == SubSeq(c.buf, 1, n)
           tail == SubSeq(c.buf, n + 1, Len(c.buf))
           left == IF c.cursor < n THEN 0 ELSE c.cursor - n
<1>1. c.buf \in Seq(Nat) /\ Len(c.buf) \in Nat /\ c.cursor \in 0 .. Len(c.buf)
  BY LenProperties DEF ContextOK, Context
<1>2. n \in Nat /\ n <= Len(c.buf)
  BY <1>1, PhraseLenAssumption
<1>3. Overflow(c) = IF Len(c.buf) <= c.max THEN Quiet(c)
                    ELSE [Committed(c, head) EXCEPT !.buf = tail, !.cursor = left]
  BY DEF Overflow
<1> HIDE DEF n
<1>4. head \in Seq(Nat) /\ tail \in Seq(Nat) /\ Len(tail) = Len(c.buf) - n
  BY <1>1, <1>2, SubSeqInside
<1>5. left \in Nat /\ left \in 0 .. Len(tail)
  BY <1>1, <1>2, <1>4
<1> HIDE DEF head, tail, left
<1>6. CASE Len(c.buf) <= c.max
  BY <1>3, <1>6, QuietFollows DEF Quiet, ContextOK, Context
<1>7. CASE ~(Len(c.buf) <= c.max)
  <2>1. Overflow(c) = [c EXCEPT !.check = TRUE, !.commit = head,
                                !.buf = tail, !.cursor = left]
    BY <1>3, <1>7 DEF Committed, ContextOK, Context
  <2>2. Overflow(c) \in Context
    BY <1>4, <1>5, <2>1 DEF ContextOK, Context
  <2>3. QED
    BY <1>4, <1>5, <2>1, <2>2 DEF ContextOK, Context, Follows
<1>8. QED
  BY <1>6, <1>7

LEMMA InsertFollows ==
    ASSUME NEW c, ContextOK(c), NEW text \in Seq(Nat)
    PROVE  Follows(c, Insert(c, text)) /\ Insert(c, text).bpmf = c.bpmf
<1> DEFINE longer == Spliced(c.buf, c.cursor, text)
           place  == c.cursor + Len(text)
           d      == [c EXCEPT !.buf = longer, !.cursor = place]
<1>1. /\ c \in Context /\ c.buf \in Seq(Nat) /\ Len(c.buf) \in Nat
      /\ Len(text) \in Nat /\ c.cursor \in 0 .. Len(c.buf)
  BY LenProperties DEF ContextOK, Context
<1>2. longer \in Seq(Nat) /\ Len(longer) = Len(c.buf) + Len(text)
  BY <1>1, SplicedProperties
<1>3. place \in Nat /\ place \in 0 .. Len(longer)
  BY <1>1, <1>2
<1>4. Insert(c, text) = Overflow(d)
  BY DEF Insert
<1> HIDE DEF longer, place
<1>5. Follows(c, d) /\ d.bpmf = c.bpmf
  BY <1>1, <1>2, <1>3 DEF ContextOK, Context, Follows
<1> HIDE DEF d
<1>6. Follows(d, Overflow(d)) /\ Overflow(d).bpmf = d.bpmf
  BY <1>5, OverflowFollows DEF Follows
<1>7. QED
  BY <1>4, <1>5, <1>6 DEF Follows

LEMMA CommittedFollows ==
    ASSUME NEW c, ContextOK(c), NEW text \in Seq(Nat)
    PROVE  Follows(c, Committed(c, text))
BY DEF ContextOK, Context, Follows, Committed

LEMMA OneToken ==
    ASSUME NEW t \in Nat
    PROVE  <<t>> \in Seq(Nat)
OBVIOUS

LEMMA DirectFollows ==
    ASSUME NEW c, ContextOK(c), NEW t \in Nat
    PROVE  Follows(c, Direct(c, t))
BY OneToken, InsertFollows, CommittedFollows DEF Direct

LEMMA CompleteFollows ==
    ASSUME NEW c, ContextOK(c)
    PROVE  Follows(c, Complete(c))
<1>1. c.bpmf \in Seq(Nat)
  BY DEF ContextOK, Context
<1> DEFINE d == Insert(c, c.bpmf)
<1>2. Follows(c, d)
  BY <1>1, InsertFollows
<1> HIDE DEF d
<1>3. Follows(c, [d EXCEPT !.bpmf = <<>>])
  BY <1>2, EmptySeq DEF ContextOK, Context, Follows
<1>4. QED
  BY <1>3 DEF Complete, d

LEMMA ChooseFollows ==
    ASSUME NEW c, ContextOK(c), NEW kind, NEW t \in Nat
    PROVE  Follows(c, Choose(c, kind, t))
<1> DEFINE d == Insert(c, <<t>>)
<1>1. Follows(c, d)
  BY OneToken, InsertFollows
<1> HIDE DEF d
<1>2. Follows(c, [d EXCEPT !.cand = "none"])
  BY <1>1 DEF ContextOK, Context, Follows
<1>3. Follows(c, [Quiet(c) EXCEPT !.cand = "none"])
  BY EmptySeq DEF ContextOK, Context, Follows, Quiet
<1>4. QED
  BY <1>2, <1>3, QuietFollows DEF Choose, d

\* chewing_handle_Default, whatever the key means.
LEMMA DefaultFollows ==
    ASSUME NEW c, ContextOK(c), NEW kind, NEW t \in Nat
    PROVE  Follows(c, handle_Default(c, kind, t))
<1>1. c.cand # "none" => Follows(c, Choose(c, kind, t))
  BY ChooseFollows
<1>2. Follows(c, Direct(c, t))
  BY DirectFollows
<1>3. Follows(c, Insert(c, <<t>>))
  BY OneToken, InsertFollows
<1>4. c.chi => Follows(c, [Quiet(c) EXCEPT !.bpmf = IF @ = <<>> THEN <<t>> ELSE @])
  BY OneToken, EmptySeq DEF ContextOK, Context, Follows, Quiet
<1>5. Follows(c, Quiet(c)) /\ Follows(c, Complete(c))
  BY QuietFollows, CompleteFollows
<1>6. Follows(c, [Quiet(c) EXCEPT !.bpmf = <<>>])
  BY EmptySeq DEF ContextOK, Context, Follows, Quiet
<1>7. Follows(c, [Quiet(c) EXCEPT !.cand = "symbols"])
  BY EmptySeq DEF ContextOK, Context, Follows, Quiet
<1>8. QED
  BY <1>1, <1>2, <1>3, <1>4, <1>5, <1>6, <1>7 DEF handle_Default

LEMMA WithoutProperties ==
    ASSUME NEW s \in Seq(Nat), NEW i \in 1 .. Len(s)
    PROVE  Without(s, i) \in Seq(Nat) /\ Len(Without(s, i)) = Len(s) - 1
<1> DEFINE front == SubSeq(s, 1, i - 1)
           back  == SubSeq(s, i + 1, Len(s))
<1>1. Len(s) \in Nat
  BY LenProperties
<1>2. front \in Seq(Nat) /\ Len(front) = i - 1
  BY <1>1, SubSeqInside
<1>3. back \in Seq(Nat) /\ Len(back) = Len(s) - i
  BY <1>1, SubSeqInside
<1>4. Without(s, i) = front \o back
  BY DEF Without
<1> HIDE DEF front, back
<1>5. front \o back \in Seq(Nat) /\ Len(front \o back) = Len(front) + Len(back)
  BY <1>2, <1>3, ConcatProperties
<1>6. QED
  BY <1>1, <1>2, <1>3, <1>4, <1>5

LEMMA SpaceFollows ==
    ASSUME NEW c, ContextOK(c), NEW t \in Nat
    PROVE  Follows(c, handle_Space(c, t))
BY QuietFollows, CompleteFollows, DirectFollows DEF handle_Space

LEMMA EnterFollows ==
    ASSUME NEW c, ContextOK(c)
    PROVE  Follows(c, handle_Enter(c))
<1> DEFINE text == c.buf
           nil  == <<>>
           d    == Committed(c, text)
<1>1. text \in Seq(Nat)
  BY DEF ContextOK, Context
<1>2. nil \in Seq(Nat) /\ 0 \in 0 .. Len(nil)
  BY EmptySeq
<1> HIDE DEF text, nil
<1>3. Follows(c, d)
  BY <1>1, CommittedFollows
<1> HIDE DEF d
<1>4. Follows(c, [d EXCEPT !.buf = nil, !.cursor = 0])
  BY <1>2, <1>3 DEF ContextOK, Context, Follows
<1>5. QED
  BY <1>4, QuietFollows DEF handle_Enter, text, nil, d

\* Esc with escCleanAllBuf on leaves nothing of the composition.
LEMMA EscWipes ==
    ASSUME NEW c, ContextOK(c), c.esc = TRUE
    PROVE  /\ Follows(c, handle_Esc(c))
           /\ handle_Esc(c).buf = <<>> /\ handle_Esc(c).bpmf = <<>>
           /\ handle_Esc(c).cand = "none" /\ handle_Esc(c).check = FALSE
<1> DEFINE nil == <<>>
           d   == Quiet(c)
           w   == [d EXCEPT !.buf = nil, !.bpmf = nil,
                            !.cursor = 0, !.cand = "none"]
<1>1. handle_Esc(c) = w
  BY DEF handle_Esc
<1>2. nil \in Seq(Nat) /\ 0 \in 0 .. Len(nil)
  BY EmptySeq
<1>3. Follows(c, d) /\ d.check = FALSE
  BY QuietFollows DEF Quiet, ContextOK, Context
<1>4. w.buf = nil /\ w.bpmf = nil /\ w.cand = "none"
  BY <1>3 DEF ContextOK, Context, Follows
<1> HIDE DEF nil, d
<1>5. Follows(c, w) /\ w.check = FALSE
  <2>1. ~c.chi /\ c.bpmf = <<>> => w.bpmf = <<>>
    BY <1>3 DEF ContextOK, Context, Follows, nil
  <2>2. QED
    BY <1>2, <1>3, <2>1 DEF ContextOK, Context, Follows
<1> HIDE DEF w
<1>6. QED
  BY <1>1, <1>4, <1>5 DEF nil

LEMMA EscFollows ==
    ASSUME NEW c, ContextOK(c)
    PROVE  Follows(c, handle_Esc(c))
<1>1. CASE c.esc = TRUE
  BY <1>1, EscWipes
<1>2. CASE c.esc = FALSE
  BY <1>2, EmptySeq DEF ContextOK, Context, Follows, handle_Esc, Quiet
<1>3. QED
  BY <1>1, <1>2 DEF ContextOK, Context

LEMMA BackspaceFollows ==
    ASSUME NEW c, ContextOK(c)
    PROVE  Follows(c, handle_Backspace(c))
<1> DEFINE shorter == Without(c.buf, c.cursor)
           place   == c.cursor - 1
<1>1. c.buf \in Seq(Nat) /\ Len(c.buf) \in Nat /\ c.cursor \in 0 .. Len(c.buf)
  BY LenProperties DEF ContextOK, Context
<1>2. c.cursor > 0 => /\ shorter \in Seq(Nat)
                      /\ place \in Nat /\ place \in 0 .. Len(shorter)
  BY <1>1, WithoutProperties
<1>3. handle_Backspace(c) =
        IF c.cand = "none" /\ c.bpmf # <<>> THEN [Quiet(c) EXCEPT !.bpmf = <<>>]
        ELSE IF Editing(c) /\ c.cursor > 0
        THEN [Quiet(c) EXCEPT !.buf = shorter, !.cursor = place]
        ELSE Quiet(c)
  BY DEF handle_Backspace, Quiet, ContextOK, Context
<1> HIDE DEF shorter, place
<1>4. c.cursor > 0 =>
        Follows(c, [Quiet(c) EXCEPT !.buf = shorter, !.cursor = place])
  BY <1>2, EmptySeq DEF ContextOK, Context, Follows, Quiet
<1>5. Follows(c, [Quiet(c) EXCEPT !.bpmf = <<>>])
  BY EmptySeq DEF ContextOK, Context, Follows, Quiet
<1>6. QED
  BY <1>3, <1>4, <1>5, QuietFollows

LEMMA DelFollows ==
    ASSUME NEW c, ContextOK(c)
    PROVE  Follows(c, handle_Del(c))
<1> DEFINE shorter == Without(c.buf, c.cursor + 1)
<1>1. c.buf \in Seq(Nat) /\ Len(c.buf) \in Nat /\ c.cursor \in 0 .. Len(c.buf)
  BY LenProperties DEF ContextOK, Context
<1>2. c.cursor < Len(c.buf) => /\ shorter \in Seq(Nat)
                               /\ c.cursor \in 0 .. Len(shorter)
  <2>1. ASSUME c.cursor < Len(c.buf)
        PROVE  c.cursor + 1 \in 1 .. Len(c.buf)
    BY <1>1, <2>1
  <2>2. QED
    BY <1>1, <2>1, WithoutProperties
<1> HIDE DEF shorter
<1>3. c.cursor < Len(c.buf) => Follows(c, [Quiet(c) EXCEPT !.buf = shorter])
  BY <1>2, EmptySeq DEF ContextOK, Context, Follows, Quiet
<1>4. QED
  BY <1>3, QuietFollows DEF handle_Del, shorter

LEMMA CursorKeysFollow ==
    ASSUME NEW c, ContextOK(c)
    PROVE  /\ Follows(c, handle_Left(c)) /\ Follows(c, handle_Right(c))
           /\ Follows(c, handle_Home(c)) /\ Follows(c, handle_End(c))
<1>1. ASSUME NEW i PROVE Follows(c, MoveTo(c, i))
  <2>1. ASSUME i \in 0 .. Len(c.buf)
        PROVE  Follows(c, [Quiet(c) EXCEPT !.cursor = i])
    <3>1. i \in Nat
      BY <2>1, LenProperties DEF ContextOK, Context
    <3>2. QED
      BY <2>1, <3>1, EmptySeq DEF ContextOK, Context, Follows, Quiet
  <2>2. QED
    BY <2>1, QuietFollows DEF MoveTo
<1>2. QED
  BY <1>1 DEF handle_Left, handle_Right, handle_Home, handle_End

LEMMA ListKeysFollow ==
    ASSUME NEW c, ContextOK(c), NEW choices, NEW kSym
    PROVE  /\ Follows(c, handle_Up(c)) /\ Follows(c, handle_Down(c, choices))
           /\ Follows(c, handle_CtrlNum(c, kSym))
<1>1. ASSUME NEW k \in {"none", "chars", "symbols"}
      PROVE  Follows(c, [Quiet(c) EXCEPT !.cand = k])
  BY EmptySeq DEF ContextOK, Context, Follows, Quiet
<1>2. QED
  BY <1>1, QuietFollows DEF handle_Up, handle_Down, handle_CtrlNum

LEMMA FollowsTransitive ==
    ASSUME NEW c, NEW d, NEW f, Follows(c, d), Follows(d, f)
    PROVE  Follows(c, f)
BY DEF Follows

\* What the handlers of the editing keys call.
LEMMA EditCallFollows ==
    ASSUME NEW h, NEW c, ContextOK(c), NEW e \in KeyEvent
    PROVE  Follows(c, EditCall(h, c, e))
BY BackspaceFollows, DelFollows, EscFollows, CursorKeysFollow, ListKeysFollow,
   QuietFollows DEF EditCall

-----------------------------------------------------------------------------
(* The methods of the structure                                            *)

\* The settings of the context are the configured ones, and English mode has
\* no syllable under way.
Settled(c, g) ==
    /\ c.esc = g.esc /\ c.easy = g.shiftToggle /\ c.max = g.max
    /\ ~c.chi => c.bpmf = <<>>

\* What holds at every moment inside process_key, while preEdit may be stale.
Loose(s, g) ==
    /\ s \in PreEditStruct
    /\ ContextOK(s.ctx)
    /\ Settled(s.ctx, g)

\* What holds of preEdit and the lengths once update has run.
Mirrors(s) ==
    /\ s.preEdit = Shown(s.ctx)
    /\ s.bpmfLen = Len(s.ctx.bpmf)
    /\ s.wordLen = Len(s.preEdit)

\* What holds between two calls.
Good(s, g) ==
    /\ Loose(s, g)
    /\ Mirrors(s)
    /\ s.ctx.check => s.updated
    /\ s.ctx.cand # "none" => s.table

LEMMA FollowsSettled ==
    ASSUME NEW c, NEW d, NEW g, Settled(c, g), Follows(c, d)
    PROVE  ContextOK(d) /\ Settled(d, g)
BY DEF Settled, Follows

\* easySymbolInput overridden for one call of libchewing and put back.
LEMMA EasyRestored ==
    ASSUME NEW c, ContextOK(c), NEW b \in BOOLEAN
    PROVE  /\ ContextOK([c EXCEPT !.easy = b])
           /\ \A d : Follows([c EXCEPT !.easy = b], d)
                        => Follows(c, [d EXCEPT !.easy = c.easy])
BY DEF ContextOK, Context, Follows

LEMMA WithContextLoose ==
    ASSUME NEW s, NEW g, Loose(s, g), NEW c, ContextOK(c), Settled(c, g)
    PROVE  /\ Loose(WithContext(s, c), g)
           /\ WithContext(s, c).ctx = c
           /\ WithContext(s, c).table = s.table
BY DEF Loose, PreEditStruct, WithContext, ContextOK

\* A call of libchewing inside a handler.
LEMMA CallLoose ==
    ASSUME NEW s, NEW g, Loose(s, g), NEW c, Follows(s.ctx, c)
    PROVE  Loose(WithContext(s, c), g) /\ WithContext(s, c).ctx = c
BY WithContextLoose, FollowsSettled DEF Loose

LEMMA UpdateOutgoing ==
    ASSUME NEW s \in PreEditStruct
    PROVE  LET r == update_outgoing(s)
           IN  /\ r \in PreEditStruct
               /\ r.ctx = s.ctx /\ r.preEdit = s.preEdit /\ r.table = s.table
               /\ r.bpmfLen = s.bpmfLen /\ r.wordLen = s.wordLen
               /\ r.ctx.check => r.updated
<1> DEFINE more == s.outgoing \o s.ctx.commit
<1>1. more \in Seq(Nat)
  BY ConcatProperties DEF PreEditStruct, Context
<1>2. update_outgoing(s) =
        IF s.updated \/ ~s.ctx.check THEN s
        ELSE [s EXCEPT !.outgoing = more, !.updated = TRUE]
  BY DEF update_outgoing, PreEditStruct
<1> HIDE DEF more
<1>3. QED
  BY <1>1, <1>2 DEF PreEditStruct

\* update makes a loose structure tell the truth about its context.
LEMMA Updated ==
    ASSUME NEW s, NEW g, Loose(s, g)
    PROVE  LET r == update(s)
           IN  /\ Loose(r, g) /\ Mirrors(r)
               /\ r.ctx = s.ctx /\ r.table = s.table
               /\ r.ctx.check => r.updated
<1> DEFINE text   == Shown(s.ctx)
           chars  == Len(s.ctx.buf)
           sounds == Len(s.ctx.bpmf)
           words  == chars + sounds
           u      == [s EXCEPT !.preEdit = text, !.bpmfLen = sounds,
                               !.wordLen = words]
<1>1. /\ s \in PreEditStruct /\ s.ctx.buf \in Seq(Nat)
      /\ s.ctx.bpmf \in Seq(Nat) /\ s.ctx.cursor \in 0 .. Len(s.ctx.buf)
  BY DEF Loose, PreEditStruct, ContextOK, Context
<1>2. text \in Seq(Nat) /\ Len(text) = chars + sounds
  BY <1>1, SplicedProperties DEF Shown
<1>3. chars \in Nat /\ sounds \in Nat
  BY <1>1, LenProperties
<1>4. update(s) = update_outgoing(u)
  BY DEF update
<1>5. Shown(s.ctx) = text /\ Len(s.ctx.bpmf) = sounds
  OBVIOUS
<1> HIDE DEF text, chars, sounds
<1>6. words \in Nat
  BY <1>3
<1> HIDE DEF words
<1>7. u \in PreEditStruct
  BY <1>1, <1>2, <1>3, <1>6 DEF PreEditStruct
<1>8. /\ u.ctx = s.ctx /\ u.preEdit = text /\ u.table = s.table
      /\ u.bpmfLen = sounds /\ u.wordLen = words
  BY <1>1 DEF PreEditStruct
<1> HIDE DEF u
<1>9. Len(text) = words
  BY <1>2 DEF words
<1>10. QED
  BY <1>4, <1>5, <1>7, <1>8, <1>9, UpdateOutgoing DEF Loose, Mirrors

\* A structure whose language has been changed behind its back.
Bare(s, g) ==
    /\ s \in PreEditStruct
    /\ ContextOK(s.ctx)
    /\ s.ctx.esc = g.esc /\ s.ctx.easy = g.shiftToggle /\ s.ctx.max = g.max

LEMMA LooseIsBare ==
    ASSUME NEW s, NEW g, Loose(s, g)
    PROVE  Bare(s, g)
BY DEF Loose, Settled, Bare

\* clear_pre_edit: the false '1' is gone with everything else, and
\* escCleanAllBuf has its value back.
LEMMA PreEditCleared ==
    ASSUME NEW s, NEW g, Bare(s, g)
    PROVE  LET r == clear_pre_edit(s)
           IN  /\ Loose(r, g)
               /\ r.ctx.buf = <<>> /\ r.ctx.bpmf = <<>>
               /\ r.ctx.cand = "none" /\ r.ctx.check = FALSE
               /\ r.ctx.chi = s.ctx.chi /\ r.ctx.full = s.ctx.full
               /\ r.table = s.table /\ r.outgoing = s.outgoing
<1> DEFINE false1 == handle_Default(s.ctx, "select", Junk)
           forced == [false1 EXCEPT !.esc = TRUE]
           wiped  == handle_Esc(forced)
           d      == [wiped EXCEPT !.esc = s.ctx.esc]
<1>1. /\ ContextOK(s.ctx) /\ s \in PreEditStruct
      /\ s.ctx.esc = g.esc /\ s.ctx.easy = g.shiftToggle /\ s.ctx.max = g.max
  BY DEF Bare
<1>2. Follows(s.ctx, false1)
  BY <1>1, DefaultFollows DEF Junk
<1> HIDE DEF false1
<1>3. /\ ContextOK(forced) /\ forced.esc = TRUE /\ forced.easy = s.ctx.easy
      /\ forced.max = s.ctx.max /\ forced.chi = s.ctx.chi
      /\ forced.full = s.ctx.full
  BY <1>2 DEF ContextOK, Context, Follows
<1> HIDE DEF forced
<1>4. /\ Follows(forced, wiped) /\ wiped.buf = <<>> /\ wiped.bpmf = <<>>
      /\ wiped.cand = "none" /\ wiped.check = FALSE
  BY <1>3, EscWipes
<1> HIDE DEF wiped
<1>5. s.ctx.esc \in BOOLEAN
  BY <1>1 DEF ContextOK, Context
<1>6. /\ ContextOK(d) /\ Settled(d, g) /\ d.buf = <<>> /\ d.bpmf = <<>>
      /\ d.cand = "none" /\ d.check = FALSE
      /\ d.chi = s.ctx.chi /\ d.full = s.ctx.full
  BY <1>1, <1>3, <1>4, <1>5 DEF ContextOK, Context, Follows, Settled
<1>7. clear_pre_edit(s) = [s EXCEPT !.ctx = d, !.updated = FALSE]
  BY DEF clear_pre_edit, d, wiped, forced, false1
<1> HIDE DEF d
<1>8. QED
  BY <1>1, <1>6, <1>7 DEF Loose, PreEditStruct, ContextOK

LEMMA OutgoingLoose ==
    ASSUME NEW s, NEW g, Loose(s, g), NEW text \in Seq(Nat)
    PROVE  /\ Loose([s EXCEPT !.outgoing = text], g)
           /\ Mirrors(s) => Mirrors([s EXCEPT !.outgoing = text])
           /\ Good(s, g) => Good([s EXCEPT !.outgoing = text], g)
BY DEF Loose, PreEditStruct, Good, Mirrors

LEMMA ForceCommitGood ==
    ASSUME NEW s, NEW g, Loose(s, g)
    PROVE  LET r == force_commit(s)
           IN  /\ Good(r, g)
               /\ r.ctx.bpmf = <<>> /\ r.ctx.cand = "none"
               /\ r.ctx.chi = s.ctx.chi /\ r.ctx.full = s.ctx.full
<1> DEFINE all == s.outgoing \o s.preEdit
           o   == [s EXCEPT !.outgoing = all]
<1>1. all \in Seq(Nat)
  BY ConcatProperties DEF Loose, PreEditStruct
<1>2. force_commit(s) = update(clear_pre_edit(o))
  BY DEF force_commit, Loose, PreEditStruct
<1> HIDE DEF all
<1>3. Loose(o, g) /\ o.ctx = s.ctx
  BY <1>1, OutgoingLoose DEF Loose, PreEditStruct
<1> DEFINE d == clear_pre_edit(o)
<1> HIDE DEF o
<1>4. /\ Loose(d, g) /\ d.ctx.cand = "none" /\ d.ctx.bpmf = <<>>
      /\ d.ctx.chi = s.ctx.chi /\ d.ctx.full = s.ctx.full
  BY <1>3, LooseIsBare, PreEditCleared
<1> HIDE DEF d
<1>5. QED
  BY <1>2, <1>4, Updated DEF Good, d

LEMMA NothingShown ==
    ASSUME NEW s, NEW g, Loose(s, g), s.ctx.buf = <<>>, s.ctx.bpmf = <<>>
    PROVE  Shown(s.ctx) = <<>>
<1> DEFINE nil == <<>>
<1>1. s.ctx.cursor = 0 /\ nil \o nil = nil /\ SubSeq(nil, 1, 0) = nil /\ Len(nil) = 0
  BY EmptySeq DEF Loose, ContextOK
<1>2. s.ctx.buf = nil /\ s.ctx.bpmf = nil
  OBVIOUS
<1> HIDE DEF nil
<1>3. Shown(s.ctx) = nil
  BY <1>1, <1>2 DEF Shown, Spliced
<1>4. QED
  BY <1>3 DEF nil

\* update only ever adds to outgoing what libchewing reports as committed.
LEMMA NothingCommitted ==
    ASSUME NEW s \in PreEditStruct, s.ctx.check = FALSE
    PROVE  update(s).outgoing = s.outgoing
BY DEF update, update_outgoing, PreEditStruct

LEMMA ClearGood ==
    ASSUME NEW s, NEW g, Bare(s, g)
    PROVE  LET r == clear(s)
           IN  /\ Good(r, g)
               /\ r.preEdit = <<>> /\ r.outgoing = <<>> /\ r.ctx.cand = "none"
               /\ r.ctx.chi = s.ctx.chi /\ r.ctx.full = s.ctx.full
<1> DEFINE d == clear_pre_edit(s)
           o == clear_outgoing(d)
<1>1. /\ Loose(d, g) /\ d.ctx.cand = "none" /\ d.ctx.check = FALSE
      /\ d.ctx.buf = <<>> /\ d.ctx.bpmf = <<>>
      /\ d.ctx.chi = s.ctx.chi /\ d.ctx.full = s.ctx.full
  BY PreEditCleared
<1> HIDE DEF d
<1>2. Loose(o, g) /\ o.ctx = d.ctx /\ o.outgoing = <<>>
  BY <1>1, EmptySeq, OutgoingLoose DEF clear_outgoing, Loose, PreEditStruct
<1> HIDE DEF o
<1>3. update(o).outgoing = <<>>
  BY <1>1, <1>2, NothingCommitted DEF Loose
<1>4. Loose(update(o), g) /\ Mirrors(update(o)) /\ update(o).ctx = o.ctx
  BY <1>2, Updated
<1>5. update(o).preEdit = <<>>
  BY <1>1, <1>2, <1>4, NothingShown DEF Mirrors
<1>6. clear(s) = update(o)
  BY DEF clear, o, d
<1>7. QED
  BY <1>1, <1>2, <1>3, <1>4, <1>5, <1>6, Updated DEF Good

\* Once the syllable is flushed the language can change.
LEMMA FlushGood ==
    ASSUME NEW s, NEW g, Good(s, g)
    PROVE  Good(FlushSyllable(s), g) /\ FlushSyllable(s).ctx.bpmf = <<>>
BY ForceCommitGood DEF FlushSyllable, Good, Loose, Settled

LEMMA TogglesGood ==
    ASSUME NEW s, NEW g, Good(s, g)
    PROVE  Good(toggle_chi_eng_mode(s), g) /\ Good(toggle_full_half(s), g)
<1> DEFINE f == FlushSyllable(s)
<1>1. Good(f, g) /\ f.ctx.bpmf = <<>>
  BY FlushGood
<1> HIDE DEF f
<1>2. f \in PreEditStruct /\ f.ctx \in Context
  BY <1>1 DEF Good, Loose, ContextOK
<1>3. ASSUME NEW c \in {[f.ctx EXCEPT !.chi = ~@], [f.ctx EXCEPT !.full = ~@]}
      PROVE  Good(WithContext(f, c), g)
  <2>1. /\ c \in Context /\ c.buf = f.ctx.buf /\ c.bpmf = f.ctx.bpmf
        /\ c.cursor = f.ctx.cursor /\ c.esc = f.ctx.esc /\ c.easy = f.ctx.easy
        /\ c.max = f.ctx.max /\ c.check = f.ctx.check /\ c.cand = f.ctx.cand
    BY <1>2, <1>3 DEF Context
  <2> DEFINE w == WithContext(f, c)
  <2>2. /\ w \in PreEditStruct /\ w.ctx = c /\ w.preEdit = f.preEdit
        /\ w.bpmfLen = f.bpmfLen /\ w.wordLen = f.wordLen
        /\ w.updated = f.updated /\ w.table = f.table
    BY <1>2, <2>1 DEF WithContext, PreEditStruct
  <2>3. Shown(c) = Shown(f.ctx)
    BY <2>1 DEF Shown
  <2> HIDE DEF w
  <2>4. QED
    BY <1>1, <2>1, <2>2, <2>3
       DEF Good, Loose, Mirrors, Settled, ContextOK, w
<1>4. QED
  BY <1>3 DEF toggle_chi_eng_mode, toggle_full_half, f

-----------------------------------------------------------------------------
(* The handlers                                                            *)

\* A handler that leaves process_key early leaves a truthful structure; one
\* that goes on to update need not.
Handled(r, g) ==
    /\ Loose(r.self, g)
    /\ r.response # "PROCESS" => Good(r.self, g)

LEMMA AnswerHandled ==
    ASSUME NEW s, NEW g, Good(s, g), NEW response
    PROVE  Handled(Answer(s, response), g)
BY DEF Handled, Answer, Good

LEMMA ProcessedHandled ==
    ASSUME NEW s, NEW g, Loose(s, g), NEW c, Follows(s.ctx, c)
    PROVE  Handled(Processed(s, c), g)
BY CallLoose DEF Handled, Processed, Answer

LEMMA ScreenHandled ==
    ASSUME NEW s, NEW g, Good(s, g), NEW e, NEW mask, NEW body,
           Handled(body, g)
    PROVE  /\ Handled(WhenPressed(s, e, mask, body), g)
           /\ Handled(WhenComposing(s, body), g)
BY AnswerHandled DEF WhenPressed, WhenComposing

\* c is what libchewing makes of the context with easySymbolInput at b.
LEMMA QuickCommitHandled ==
    ASSUME NEW s, NEW g, Loose(s, g), NEW b \in BOOLEAN,
           NEW c, Follows([s.ctx EXCEPT !.easy = b], c)
    PROVE  Handled(QuickCommit(s, c), g)
<1> DEFINE p == [s EXCEPT !.ctx = c, !.updated = FALSE]
           u == update_outgoing(p)
           d == [u.ctx EXCEPT !.easy = s.ctx.easy]
<1>1. s \in PreEditStruct /\ ContextOK(s.ctx) /\ Settled(s.ctx, g)
  BY DEF Loose
<1>2. ContextOK(c) /\ Follows(s.ctx, [c EXCEPT !.easy = s.ctx.easy])
  <2> DEFINE o == s.ctx
  <2>1. ContextOK(o) /\ Follows([o EXCEPT !.easy = b], c)
    BY <1>1
  <2> HIDE DEF o
  <2>2. Follows(o, [c EXCEPT !.easy = o.easy])
    BY <2>1, EasyRestored
  <2>3. QED
    BY <2>1, <2>2 DEF Follows, o
<1>3. p \in PreEditStruct /\ p.ctx = c
  BY <1>1, <1>2 DEF PreEditStruct, ContextOK
<1> HIDE DEF p
<1>4. u \in PreEditStruct /\ u.ctx = c
  BY <1>3, UpdateOutgoing
<1> HIDE DEF u
<1>5. ContextOK(d) /\ Settled(d, g)
  BY <1>1, <1>2, <1>4, FollowsSettled
<1> HIDE DEF d
<1>6. Loose(WithContext(u, d), g)
  BY <1>4, <1>5 DEF Loose, PreEditStruct, WithContext, ContextOK
<1>7. QuickCommit(s, c) = Answer(WithContext(u, d), "PROCESS")
  BY DEF QuickCommit, d, u, p
<1>8. QED
  BY <1>6, <1>7 DEF Handled, Answer

LEMMA TextKeyHandled ==
    ASSUME NEW s, NEW g, Good(s, g), NEW e, NEW t \in Nat
    PROVE  Handled(self_handle_key_sym_default(s, e, t), g)
<1> DEFINE b == s.ctx.easy /\ e.mods = {"shift"}
           c == handle_Default([s.ctx EXCEPT !.easy = b], e.kind, t)
<1>1. Loose(s, g) /\ ContextOK(s.ctx) /\ b \in BOOLEAN
  BY DEF Good, Loose, ContextOK, Context
<1>2. Follows([s.ctx EXCEPT !.easy = b], c)
  BY <1>1, EasyRestored, DefaultFollows
<1>3. self_handle_key_sym_default(s, e, t) =
        IF Refused(e.mods, ShiftMask) THEN Answer(s, "IGNORE")
        ELSE QuickCommit(s, c)
  BY <1>1 DEF self_handle_key_sym_default, ContextOK, Context
<1> HIDE DEF c, b
<1>4. Handled(QuickCommit(s, c), g)
  BY <1>1, <1>2, QuickCommitHandled
<1>5. QED
  BY <1>3, <1>4, AnswerHandled

LEMMA NumHandled ==
    ASSUME NEW s, NEW g, Good(s, g), NEW e, NEW t \in Nat
    PROVE  Handled(self_handle_num(s, e, t), g)
<1>1. Handled(Processed(s, handle_CtrlNum(s.ctx, e.sym)), g)
  BY ListKeysFollow, ProcessedHandled DEF Good, Loose
<1>2. Handled(self_handle_key_sym_default(s, e, t), g)
  BY TextKeyHandled
<1>3. QED
  BY <1>1, <1>2, ScreenHandled DEF self_handle_num

LEMMA CapsLockHandled ==
    ASSUME NEW s, NEW g, Good(s, g), NEW e
    PROVE  Handled(self_handle_caps_lock(s, e), g)
<1> DEFINE f == FlushSyllable(s)
           c == handle_Capslock(f.ctx)
<1>1. Loose(f, g) /\ f.ctx.bpmf = <<>>
  BY FlushGood DEF Good
<1>2. self_handle_caps_lock(s, e) =
        WhenPressed(s, e, NoMask, Processed(f, c))
  BY DEF self_handle_caps_lock
<1> HIDE DEF f
<1>3. ContextOK(c) /\ Settled(c, g)
  <2>1. f.ctx \in Context /\ ContextOK(f.ctx) /\ Settled(f.ctx, g)
    BY <1>1 DEF Loose, ContextOK
  <2>2. /\ c \in Context /\ c.cursor = f.ctx.cursor /\ c.buf = f.ctx.buf
        /\ c.bpmf = <<>> /\ c.esc = f.ctx.esc /\ c.easy = f.ctx.easy
        /\ c.max = f.ctx.max
    BY <1>1, <2>1, EmptySeq DEF handle_Capslock, Quiet, Context
  <2>3. QED
    BY <2>1, <2>2 DEF ContextOK, Settled
<1> HIDE DEF c
<1>4. Handled(Processed(f, c), g)
  BY <1>1, <1>3, WithContextLoose DEF Handled, Processed, Answer
<1>5. QED
  BY <1>2, <1>4, ScreenHandled

LEMMA ShiftHandled ==
    ASSUME NEW s, NEW g, Good(s, g), NEW e
    PROVE  Handled(self_handle_shift(s, g, e), g)
BY TogglesGood, AnswerHandled DEF self_handle_shift

LEMMA SpaceHandled ==
    ASSUME NEW s, NEW g, Good(s, g), NEW e, NEW t \in Nat
    PROVE  Handled(self_handle_space(s, e, t), g)
<1> DEFINE c    == handle_Space([s.ctx EXCEPT !.easy = FALSE], t)
           body == IF e.mods = {"shift"}
                   THEN Answer(toggle_full_half(s), "PROCESS")
                   ELSE QuickCommit(s, c)
<1>1. Loose(s, g) /\ ContextOK(s.ctx)
  BY DEF Good, Loose
<1>2. Follows([s.ctx EXCEPT !.easy = FALSE], c)
  BY <1>1, EasyRestored, SpaceFollows
<1>3. self_handle_space(s, e, t) = WhenPressed(s, e, ShiftCtrlMask, body)
  BY DEF self_handle_space
<1> HIDE DEF c
<1>4. Handled(body, g)
  BY <1>1, <1>2, QuickCommitHandled, TogglesGood, AnswerHandled
<1> HIDE DEF body
<1>5. QED
  BY <1>3, <1>4, ScreenHandled

LEMMA ReturnHandled ==
    ASSUME NEW s, NEW g, Good(s, g), NEW e
    PROVE  Handled(self_handle_return(s, e), g)
<1>1. Loose(s, g) /\ s.ctx \in Context /\ ContextOK(s.ctx)
  BY DEF Good, Loose, ContextOK
<1>2. s.ctx.easy \in BOOLEAN /\ s.ctx = [s.ctx EXCEPT !.easy = s.ctx.easy]
  BY <1>1 DEF Context
<1>3. Handled(QuickCommit(s, handle_Enter(s.ctx)), g)
  BY <1>1, <1>2, EnterFollows, QuickCommitHandled
<1>4. QED
  BY <1>3, ScreenHandled DEF self_handle_return

LEMMA EditHandled ==
    ASSUME NEW h, NEW s, NEW g, Good(s, g), NEW e \in KeyEvent
    PROVE  Handled(self_handle_edit(h, s, e), g)
<1>1. Handled(Processed(s, EditCall(h, s.ctx, e)), g)
  BY EditCallFollows, ProcessedHandled DEF Good, Loose
<1>2. QED
  BY <1>1, ScreenHandled DEF self_handle_edit

\* Every row of keyHandlingRules.
LEMMA KeyHandled ==
    ASSUME NEW s, NEW g, Good(s, g), NEW e \in KeyEvent, NEW t \in Nat
    PROVE  Handled(handle_key(s, g, e, t), g)
<1>1. Handled(self_handle_default(s, e, t), g)
  BY TextKeyHandled, ScreenHandled DEF self_handle_default
<1>2. QED
  BY <1>1, NumHandled, CapsLockHandled, ShiftHandled, SpaceHandled,
     ReturnHandled, EditHandled, AnswerHandled DEF handle_key

-----------------------------------------------------------------------------
(* The operations                                                          *)

LEMMA PlainZhuyinLoose ==
    ASSUME NEW s, NEW g, Loose(s, g), NEW e
    PROVE  Loose(PlainZhuyin(s, g, e), g)
<1> DEFINE moved == IF "shift" \in e.mods THEN handle_Left(s.ctx) ELSE s.ctx
           upped == handle_Up(s.ctx)
<1>1. ContextOK(s.ctx) /\ Follows(s.ctx, s.ctx)
  BY DEF Loose, Follows
<1>2. Follows(s.ctx, moved) /\ Follows(s.ctx, upped)
  BY <1>1, CursorKeysFollow, ListKeysFollow
<1> HIDE DEF moved, upped
<1>3. Follows(s.ctx, handle_Down(moved, e.choices))
  <2>1. ContextOK(moved)
    BY <1>2 DEF Follows
  <2>2. Follows(moved, handle_Down(moved, e.choices))
    BY <2>1, ListKeysFollow
  <2>3. QED
    BY <1>2, <2>2, FollowsTransitive
<1>4. Follows(s.ctx, handle_Enter(upped)) /\ Follows(s.ctx, handle_Enter(s.ctx))
  BY <1>1, <1>2, EnterFollows, FollowsTransitive DEF Follows
<1>5. Loose(clear_pre_edit(s), g)
  BY LooseIsBare, PreEditCleared
<1>6. PlainZhuyin(s, g, e) \in
        {s, clear_pre_edit(s), WithContext(s, handle_Enter(upped)),
         WithContext(s, handle_Down(moved, e.choices)),
         WithContext(s, handle_Enter(s.ctx))}
  BY DEF PlainZhuyin, moved, upped
<1>7. QED
  BY <1>3, <1>4, <1>5, <1>6, CallLoose

LEMMA LastKeyGood ==
    ASSUME NEW s, NEW g, NEW e
    PROVE  LET k == [s EXCEPT !.keyLast = LastKey(e)]
           IN  /\ Loose(s, g) => Loose(k, g)
               /\ Good(s, g) => Good(k, g)
<1>1. LastKey(e) \in ShiftKeys \cup {0}
  BY DEF LastKey
<1>2. QED
  BY <1>1 DEF Loose, Good, Mirrors, PreEditStruct

\* By whichever return process_key leaves.
LEMMA ProcessKeyGood ==
    ASSUME NEW s, NEW g, Good(s, g), NEW e \in KeyEvent, NEW t \in Nat
    PROVE  Good(process_key(s, g, e, t), g)
<1> DEFINE r == handle_key(s, g, e, t)
           k == [r.self EXCEPT !.keyLast = LastKey(e)]
           u == update(PlainZhuyin(k, g, e))
<1>1. Handled(r, g)
  BY KeyHandled
<1>2. process_key(s, g, e, t) =
        CASE r.response = "ABSORB" -> k
          [] r.response = "IGNORE" ->
               IF s.preEdit = <<>> THEN k ELSE force_commit(k)
          [] OTHER -> RefreshTable(u)
  BY DEF process_key
<1> HIDE DEF r
<1>3. Loose(k, g) /\ (r.response # "PROCESS" => Good(k, g))
  BY <1>1, LastKeyGood DEF Handled
<1> HIDE DEF k
<1>4. Loose(u, g) /\ Mirrors(u) /\ (u.ctx.check => u.updated)
  BY <1>3, PlainZhuyinLoose, Updated
<1> HIDE DEF u
<1>5. Good(RefreshTable(u), g)
  BY <1>4 DEF RefreshTable, Good, Loose, Mirrors, PreEditStruct
<1>6. Good(force_commit(k), g)
  BY <1>3, ForceCommitGood
<1>7. QED
  BY <1>2, <1>3, <1>5, <1>6

-----------------------------------------------------------------------------
(* The inductive invariant                                                 *)

\* The properties one by one are not inductive: preEdit only stays the
\* picture of the context because no method leaves the cursor outside the
\* buffer, and a change of language leaves no syllable behind only because
\* none was there in English mode before.
IInv ==
    /\ Good(self, cfg)
    /\ cfg \in Configs
    /\ typed \in Nat
    /\ taken \in Seq(Nat)

\* ibus_chewing_pre_edit_new
LEMMA NewGood ==
    ASSUME NEW g \in Configs
    PROVE  LET s == NewPreEdit(g)
           IN  /\ Good(s, g)
               /\ s.preEdit = <<>> /\ s.outgoing = <<>>
               /\ s.ctx.cand = "none" /\ s.ctx.chi = TRUE /\ s.ctx.full = FALSE
<1> DEFINE s   == NewPreEdit(g)
           nil == <<>>
           c == [NewContext EXCEPT !.esc = g.esc, !.easy = g.shiftToggle,
                                   !.max = g.max]
<1>1. g \in Config
  BY PreEditAssumption
<1>2. nil \in Seq(Nat) /\ Len(nil) = 0 /\ nil \o nil = nil
      /\ SubSeq(nil, 1, 0) = nil
  BY EmptySeq DEF nil
<1>3. /\ c \in Context /\ c.buf = nil /\ c.cursor = 0 /\ c.bpmf = nil
      /\ c.chi = TRUE /\ c.full = FALSE /\ c.check = FALSE /\ c.cand = "none"
      /\ c.esc = g.esc /\ c.easy = g.shiftToggle /\ c.max = g.max
  BY <1>1, <1>2 DEF NewContext, Context, Config
<1>4. Shown(c) = nil
  BY <1>2, <1>3 DEF Shown, Spliced
<1>5. s = [ctx |-> c, preEdit |-> nil, outgoing |-> nil, table |-> FALSE,
           updated |-> FALSE, keyLast |-> 0, bpmfLen |-> 0, wordLen |-> 0]
  <2> DEFINE blank == [ctx |-> NewContext, preEdit |-> <<>>, outgoing |-> <<>>,
                       table |-> FALSE, updated |-> FALSE, keyLast |-> 0,
                       bpmfLen |-> 0, wordLen |-> 0]
  <2>1. blank.ctx = NewContext
    OBVIOUS
  <2>2. s = [blank EXCEPT !.ctx = [blank.ctx EXCEPT
                !.esc = g.esc, !.easy = g.shiftToggle, !.max = g.max]]
    BY DEF NewPreEdit, use_all_configure, WithContext
  <2> HIDE DEF s
  <2>3. s = [blank EXCEPT !.ctx = c]
    BY <2>1, <2>2
  <2> HIDE DEF c
  <2>4. QED
    BY <2>3
<1> HIDE DEF c, nil, s
<1>6. Good(s, g)
  BY <1>2, <1>3, <1>4, <1>5
     DEF Good, Loose, Mirrors, PreEditStruct, ContextOK, Settled
<1>7. QED
  BY <1>3, <1>5, <1>6 DEF nil, s

LEMMA InitIInv == Init => IInv
<1>1. Init => Good(self, cfg)
  BY NewGood DEF Init
<1>2. QED
  BY <1>1, EmptySeq DEF Init, IInv

\* use_all_configure changes settings, and nothing that is on screen.
LEMMA ConfiguredGood ==
    ASSUME NEW s, NEW g, Good(s, g), NEW c \in Configs
    PROVE  LET w == use_all_configure(s, c)
           IN  /\ Good(w, c)
               /\ w.preEdit = s.preEdit /\ w.outgoing = s.outgoing
               /\ w.ctx.chi = s.ctx.chi /\ w.ctx.full = s.ctx.full
<1> DEFINE d == [s.ctx EXCEPT !.esc = c.esc, !.easy = c.shiftToggle,
                              !.max = c.max]
           w == WithContext(s, d)
<1>1. c \in Config /\ s \in PreEditStruct /\ s.ctx \in Context
  BY PreEditAssumption DEF Good, Loose, ContextOK
<1>2. /\ d \in Context /\ d.buf = s.ctx.buf /\ d.cursor = s.ctx.cursor
      /\ d.bpmf = s.ctx.bpmf /\ d.check = s.ctx.check
      /\ d.cand = s.ctx.cand /\ d.chi = s.ctx.chi /\ d.full = s.ctx.full
      /\ d.esc = c.esc /\ d.easy = c.shiftToggle /\ d.max = c.max
  BY <1>1 DEF Context, Config
<1>3. use_all_configure(s, c) = w
  BY DEF use_all_configure
<1> HIDE DEF d
<1>4. /\ w \in PreEditStruct /\ w.ctx = d /\ w.preEdit = s.preEdit
      /\ w.bpmfLen = s.bpmfLen /\ w.wordLen = s.wordLen
      /\ w.updated = s.updated /\ w.table = s.table /\ w.outgoing = s.outgoing
  BY <1>1, <1>2 DEF WithContext, PreEditStruct
<1>5. Shown(d) = Shown(s.ctx)
  BY <1>2 DEF Shown
<1> HIDE DEF w
<1>6. Good(w, c)
  BY <1>2, <1>4, <1>5 DEF Good, Loose, Mirrors, Settled, ContextOK
<1>7. QED
  BY <1>2, <1>3, <1>4, <1>6

LEMMA NextIInv == IInv /\ [Next]_vars => IInv'
<1> SUFFICES ASSUME IInv, [Next]_vars PROVE IInv'
  OBVIOUS
<1>1. Good(self, cfg) /\ Loose(self, cfg)
  BY DEF IInv, Good
<1>2. ASSUME NEW e \in Events, ProcessKey(e)
      PROVE  IInv'
  <2>1. e \in KeyEvent /\ typed + 1 \in Nat
    BY PreEditAssumption DEF IInv
  <2>2. Good(self', cfg)
    BY <1>1, <1>2, <2>1, ProcessKeyGood DEF ProcessKey
  <2>3. QED
    BY <1>2, <2>1, <2>2 DEF IInv, ProcessKey
<1>3. CASE TakeOutgoing
  <2>1. Good(self', cfg)
    BY <1>1, <1>3, EmptySeq, OutgoingLoose DEF TakeOutgoing, clear_outgoing
  <2>2. taken' \in Seq(Nat)
    BY <1>1, <1>3, ConcatProperties
       DEF TakeOutgoing, IInv, Loose, PreEditStruct
  <2>3. QED
    BY <1>3, <2>1, <2>2 DEF IInv, TakeOutgoing
<1>4. CASE Clear
  BY <1>1, <1>4, LooseIsBare, ClearGood DEF Clear, IInv
<1>5. CASE ToggleChiEng
  BY <1>1, <1>5, TogglesGood DEF ToggleChiEng, IInv
<1>6. ASSUME NEW c \in Configs, UseAllConfigure(c)
      PROVE  IInv'
  BY <1>1, <1>6, ConfiguredGood DEF UseAllConfigure, IInv
<1>7. CASE UNCHANGED vars
  BY <1>7 DEF vars, IInv
<1>8. QED
  BY <1>2, <1>3, <1>4, <1>5, <1>6, <1>7 DEF Next

LEMMA Invariance == Spec => []IInv
BY InitIInv, NextIInv, PTL DEF Spec

\* Type correctness: in particular the cursor libchewing reports, at which
\* update puts the bopomofo, never leaves the buffer.
THEOREM TypeCorrect == Spec => []TypeOK
<1>1. IInv => TypeOK
  BY DEF IInv, Good, Loose, ContextOK, TypeOK
<1>2. QED
  BY <1>1, Invariance, PTL

\* Whatever sequence of calls came before, preEdit and its lengths are those
\* of the libchewing context when a call returns.
THEOREM PreEditAlwaysMirrors == Spec => []PreEditMirrors
<1>1. IInv => PreEditMirrors
  BY DEF IInv, Good, Mirrors, PreEditMirrors
<1>2. QED
  BY <1>1, Invariance, PTL

\* A commit libchewing reports between calls is under FLAG_UPDATED_OUTGOING:
\* no later update appends it a second time.
THEOREM CommitAlwaysAccounted == Spec => []CommitAccounted
<1>1. IInv => CommitAccounted
  BY DEF IInv, Good, CommitAccounted
<1>2. QED
  BY <1>1, Invariance, PTL

\* The engine never hides a choice list libchewing has open.
THEOREM OpenListAlwaysShown == Spec => []OpenListIsShown
<1>1. IInv => OpenListIsShown
  BY DEF IInv, Good, OpenListIsShown
<1>2. QED
  BY <1>1, Invariance, PTL

\* escCleanAllBuf and easySymbolInput have their configured values whenever
\* no call is running, whatever call overrode them.
THEOREM SettingsAlwaysRestored == Spec => []SettingsRestored
<1>1. IInv => SettingsRestored
  BY DEF IInv, Good, Loose, Settled, SettingsRestored
<1>2. QED
  BY <1>1, Invariance, PTL

\* No way into English mode leaves an incomplete syllable behind.
THEOREM EnglishNeverHasSyllable == Spec => []EnglishHasNoSyllable
<1>1. IInv => EnglishHasNoSyllable
  BY DEF IInv, Good, Loose, Settled, EnglishHasNoSyllable
<1>2. QED
  BY <1>1, Invariance, PTL

-----------------------------------------------------------------------------
(* A key handed on to the application                                      *)

\* A handler that answers IGNORE has done nothing before it does.
Untouched(r, s) == r.response = "IGNORE" => r.self = s

LEMMA IgnoredUntouched ==
    ASSUME NEW s, NEW g, NEW e, NEW t
    PROVE  Untouched(handle_key(s, g, e, t), s)
<1>1. ASSUME NEW body, Untouched(body, s), NEW mask
      PROVE  /\ Untouched(WhenPressed(s, e, mask, body), s)
             /\ Untouched(WhenComposing(s, body), s)
  BY <1>1 DEF Untouched, WhenPressed, WhenComposing, Answer
<1>2. ASSUME NEW f, NEW c
      PROVE  Untouched(QuickCommit(f, c), s) /\ Untouched(Processed(f, c), s)
  BY DEF Untouched, QuickCommit, Processed, Answer
<1>3. ASSUME NEW f, NEW response, response # "IGNORE"
      PROVE  Untouched(Answer(f, response), s)
  BY <1>3 DEF Untouched, Answer
<1>4. Untouched(Answer(s, "IGNORE"), s)
  BY DEF Untouched, Answer
<1>5. Untouched(self_handle_key_sym_default(s, e, t), s)
  BY <1>2, <1>4 DEF self_handle_key_sym_default
<1>6. /\ Untouched(self_handle_num(s, e, t), s)
      /\ Untouched(self_handle_default(s, e, t), s)
  <2>1. Untouched(IF e.mods = {"ctrl"}
                  THEN Processed(s, handle_CtrlNum(s.ctx, e.sym))
                  ELSE self_handle_key_sym_default(s, e, t), s)
    BY <1>2, <1>5
  <2>2. QED
    BY <1>1, <1>5, <2>1 DEF self_handle_num, self_handle_default
<1>7. Untouched(self_handle_caps_lock(s, e), s)
  BY <1>1, <1>2 DEF self_handle_caps_lock
<1>8. Untouched(self_handle_shift(s, g, e), s)
  BY <1>3, <1>4 DEF self_handle_shift
<1>9. Untouched(self_handle_space(s, e, t), s)
  <2> DEFINE body == IF e.mods = {"shift"}
                     THEN Answer(toggle_full_half(s), "PROCESS")
                     ELSE QuickCommit(s, handle_Space(
                                [s.ctx EXCEPT !.easy = FALSE], t))
  <2>1. Untouched(body, s)
    BY <1>2, <1>3
  <2>2. self_handle_space(s, e, t) = WhenPressed(s, e, ShiftCtrlMask, body)
    BY DEF self_handle_space
  <2> HIDE DEF body
  <2>3. QED
    BY <1>1, <2>1, <2>2
<1>10. Untouched(self_handle_return(s, e), s)
  BY <1>1, <1>2 DEF self_handle_return
<1>11. ASSUME NEW h PROVE Untouched(self_handle_edit(h, s, e), s)
  BY <1>1, <1>2 DEF self_handle_edit
<1>12. QED
  BY <1>4, <1>6, <1>7, <1>8, <1>9, <1>10, <1>11 DEF handle_key

\* force_commit moves the composition, as displayed, to the end of outgoing.
LEMMA ForceCommitMoves ==
    ASSUME NEW s, NEW g, Loose(s, g)
    PROVE  /\ force_commit(s).preEdit = <<>>
           /\ force_commit(s).outgoing = s.outgoing \o s.preEdit
<1> DEFINE all == s.outgoing \o s.preEdit
           o   == [s EXCEPT !.outgoing = all]
           d   == clear_pre_edit(o)
<1>1. all \in Seq(Nat) /\ s \in PreEditStruct
  BY ConcatProperties DEF Loose, PreEditStruct
<1>2. force_commit(s) = update(d)
  BY DEF force_commit, Loose, PreEditStruct
<1> HIDE DEF all
<1>3. Loose(o, g) /\ o.outgoing = all
  BY <1>1, OutgoingLoose DEF PreEditStruct
<1> HIDE DEF o
<1>4. /\ Loose(d, g) /\ d.ctx.buf = <<>> /\ d.ctx.bpmf = <<>>
      /\ d.ctx.check = FALSE /\ d.outgoing = all
  BY <1>3, LooseIsBare, PreEditCleared
<1> HIDE DEF d
<1>5. update(d).outgoing = all
  BY <1>4, NothingCommitted DEF Loose
<1>6. Mirrors(update(d)) /\ update(d).ctx = d.ctx
  BY <1>4, Updated
<1>7. update(d).preEdit = <<>>
  BY <1>4, <1>6, NothingShown DEF Mirrors
<1>8. QED
  BY <1>2, <1>5, <1>7 DEF all

\* A key that process_key hands on to the application finds the composition
\* empty and the whole of it, in order, at the end of outgoing.
THEOREM IgnoredKeyAlwaysFlushes == Spec => IgnoredKeyFlushes
<1>1. IInv /\ [Next]_vars =>
        [\A e \in Events :
            ProcessKey(e) /\ ~Consumed(self, cfg, e, typed + 1)
              => /\ self'.preEdit = <<>>
                 /\ self'.outgoing = self.outgoing \o self.preEdit]_vars
  <2> SUFFICES ASSUME IInv, NEW e \in Events, ProcessKey(e),
                      ~Consumed(self, cfg, e, typed + 1)
               PROVE  /\ self'.preEdit = <<>>
                      /\ self'.outgoing = self.outgoing \o self.preEdit
    OBVIOUS
  <2> DEFINE k == [self EXCEPT !.keyLast = LastKey(e)]
  <2>1. Loose(k, cfg) /\ self \in PreEditStruct
    BY LastKeyGood DEF IInv, Good, Loose
  <2>2. k.preEdit = self.preEdit /\ k.outgoing = self.outgoing
    BY <2>1 DEF PreEditStruct
  <2>3. handle_key(self, cfg, e, typed + 1).response = "IGNORE"
    BY DEF Consumed
  <2>4. handle_key(self, cfg, e, typed + 1).self = self
    BY <2>3, IgnoredUntouched DEF Untouched
  <2>5. self' = IF self.preEdit = <<>> THEN k ELSE force_commit(k)
    BY <2>3, <2>4 DEF ProcessKey, process_key
  <2> HIDE DEF k
  <2>6. CASE self.preEdit = <<>>
    <3>1. self.outgoing \o self.preEdit = self.outgoing
      BY <2>1, <2>6, ConcatEmptySeq DEF PreEditStruct
    <3>2. QED
      BY <2>2, <2>5, <2>6, <3>1
  <2>7. CASE self.preEdit # <<>>
    BY <2>1, <2>2, <2>5, <2>7, ForceCommitMoves
  <2>8. QED
    BY <2>6, <2>7
<1>2. IInv /\ [Next]_vars =>
        [\/ /\ self'.preEdit = <<>>
            /\ self'.outgoing = self.outgoing \o self.preEdit
         \/ \A e \in Events :
               Consumed(self, cfg, e, typed + 1) \/ ~ProcessKey(e)]_vars
  BY <1>1
<1>3. QED
  BY <1>2, Invariance, PTL DEF Spec, IgnoredKeyFlushes
=============================================================================
