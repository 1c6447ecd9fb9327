------------------------------- MODULE Chewing -------------------------------
(***************************************************************************)
(* The libchewing context, external to this repository and modelled from   *)
(* how IBusChewingPreEdit.c, its tests and IBusChewingApplier.c use it.    *)
(* Text is abstracted to tokens: one token is one character in the making, *)
(* from its first bopomofo key to the moment it is committed, whatever     *)
(* glyph the conversion currently shows for it.                            *)
(*                                                                         *)
(*   buf, cursor   the characters being composed and the cursor in them    *)
(*   bpmf          the incomplete syllable: empty or one token             *)
(*   cand          the open choice list: of characters, or of symbols      *)
(*   check, commit chewing_commit_Check and chewing_commit_String; every   *)
(*                 chewing_handle_* call recomputes both                   *)
(*   chi, full, esc, easy, max   modes and settings of the context         *)
(***************************************************************************)
EXTENDS Integers, Sequences

CONSTANT PhraseLen   \* characters one overflow releases from the front

ASSUME PhraseLenAssumption == PhraseLen \in Nat \ {0}

\* What a text key means to the conversion: a phonetic key, a phonetic key
\* that also selects from an open list, a tone that completes the syllable,
\* one that completes no known syllable, a symbol, the symbol menu key.
\* Keys that carry no text are "none".
Kinds == {"phone", "select", "tone", "reject", "symbol", "menu", "none"}

Context == [buf : Seq(Nat), cursor : Nat, bpmf : Seq(Nat),
            cand : {"none", "chars", "symbols"},
            check : BOOLEAN, commit : Seq(Nat), chi : BOOLEAN,
            full : BOOLEAN, esc : BOOLEAN, easy : BOOLEAN, max : Nat]

\* A handled key that commits nothing.
Quiet(c) == [c EXCEPT !.check = FALSE, !.commit = <<>>]

Committed(c, text) == [c EXCEPT !.check = TRUE, !.commit = text]

\* A buffer longer than max gives up its first phrase.
Overflow(c) ==
    LET n == IF PhraseLen < Len(c.buf) THEN PhraseLen ELSE Len(c.buf)
    IN  IF Len(c.buf) <= c.max THEN Quiet(c)
        ELSE [Committed(c, SubSeq(c.buf, 1, n)) EXCEPT
                !.buf = SubSeq(c.buf, n + 1, Len(c.buf)),
                !.cursor = IF c.cursor < n THEN 0 ELSE c.cursor - n]

\* s with text put in after its first i elements.
Spliced(s, i, text) == SubSeq(s, 1, i) \o text \o SubSeq(s, i + 1, Len(s))

Insert(c, text) ==
    Overflow([c EXCEPT !.buf = Spliced(c.buf, c.cursor, text),
                       !.cursor = c.cursor + Len(text)])

\* The syllable is complete: it becomes a character at the cursor.
Complete(c) == [Insert(c, c.bpmf) EXCEPT !.bpmf = <<>>]

\* Text that is no syllable goes straight out when nothing is composed.
Direct(c, t) == IF c.buf = <<>> THEN Committed(c, <<t>>) ELSE Insert(c, <<t>>)

\* A key while the choice list is open.
Choose(c, kind, t) ==
    IF kind # "select" THEN Quiet(c)
    ELSE IF c.cand = "symbols" THEN [Insert(c, <<t>>) EXCEPT !.cand = "none"]
    ELSE [Quiet(c) EXCEPT !.cand = "none"]

\* chewing_handle_Default; t is the token of a character that starts here.
\* It answers 0, so the callers see KEYSTROKE values only from other builds.
handle_Default(c, kind, t) ==
    IF c.cand # "none" THEN Choose(c, kind, t)
    ELSE IF ~c.chi THEN Direct(c, t)
    ELSE CASE kind = "phone" /\ c.easy -> Insert(c, <<t>>)
           [] kind \in {"phone", "select"} /\ ~(kind = "phone" /\ c.easy) ->
                [Quiet(c) EXCEPT !.bpmf = IF @ = <<>> THEN <<t>> ELSE @]
           [] kind = "tone"   -> IF c.bpmf = <<>> THEN Quiet(c) ELSE Complete(c)
           [] kind = "reject" -> [Quiet(c) EXCEPT !.bpmf = <<>>]
           [] kind = "symbol" -> Insert(c, <<t>>)
           [] kind = "menu"   -> [Quiet(c) EXCEPT !.cand = "symbols"]
           [] OTHER           -> Quiet(c)

handle_Space(c, t) ==
    IF c.cand # "none" THEN Quiet(c)
    ELSE IF c.bpmf # <<>> THEN Complete(c)
    ELSE Direct(c, t)

\* Enter commits what is composed; an incomplete syllable stays.
handle_Enter(c) ==
    IF c.cand # "none" \/ (c.buf = <<>> /\ c.bpmf = <<>>) THEN Quiet(c)
    ELSE [Committed(c, c.buf) EXCEPT !.buf = <<>>, !.cursor = 0]

\* With escCleanAllBuf set, Esc wipes the whole composition, as
\* clear_pre_edit relies on; else it closes the list or drops the syllable.
handle_Esc(c) ==
    IF c.esc THEN [Quiet(c) EXCEPT !.buf = <<>>, !.bpmf = <<>>,
                                   !.cursor = 0, !.cand = "none"]
    ELSE IF c.cand # "none" THEN [Quiet(c) EXCEPT !.cand = "none"]
    ELSE [Quiet(c) EXCEPT !.bpmf = <<>>]

\* The cursor keys act on the buffer only when no list is open and no
\* syllable is under way.
Editing(c) == c.cand = "none" /\ c.bpmf = <<>>

Without(s, i) == SubSeq(s, 1, i - 1) \o SubSeq(s, i + 1, Len(s))

handle_Backspace(c) ==
    IF c.cand = "none" /\ c.bpmf # <<>> THEN [Quiet(c) EXCEPT !.bpmf = <<>>]
    ELSE IF Editing(c) /\ c.cursor > 0
    THEN [Quiet(c) EXCEPT !.buf = Without(c.buf, c.cursor), !.cursor = @ - 1]
    ELSE Quiet(c)

handle_Del(c) ==
    IF Editing(c) /\ c.cursor < Len(c.buf)
    THEN [Quiet(c) EXCEPT !.buf = Without(c.buf, c.cursor + 1)]
    ELSE Quiet(c)

MoveTo(c, i) ==
    IF Editing(c) /\ i \in 0 .. Len(c.buf) THEN [Quiet(c) EXCEPT !.cursor = i]
    ELSE Quiet(c)

handle_Left(c)  == MoveTo(c, c.cursor - 1)
handle_Right(c) == MoveTo(c, c.cursor + 1)
handle_Home(c)  == MoveTo(c, 0)
handle_End(c)   == MoveTo(c, Len(c.buf))

handle_Up(c) == [Quiet(c) EXCEPT !.cand = "none"]

\* choices: the character at the cursor has alternatives to offer.
handle_Down(c, choices) ==
    IF Editing(c) /\ c.buf # <<>> /\ choices
    THEN [Quiet(c) EXCEPT !.cand = "chars"]
    ELSE Quiet(c)

handle_Capslock(c) == [Quiet(c) EXCEPT !.chi = ~@]

\* Ctrl-0 and Ctrl-1 open the symbol list; the other digits learn phrases.
handle_CtrlNum(c, kSym) ==
    IF kSym \in {48, 49} /\ c.cand = "none"
    THEN [Quiet(c) EXCEPT !.cand = "symbols"]
    ELSE Quiet(c)
=============================================================================
