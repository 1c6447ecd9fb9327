------------------------------- MODULE PreEdit -------------------------------
(***************************************************************************)
(* IBusChewingPreEdit: the composition behind one input context.  The      *)
(* engine is single threaded, so a call of the component is one step; what *)
(* interleaves is the order in which its client issues the calls.          *)
(*                                                                         *)
(* `self` is the C structure (with the libchewing context inside), `cfg`   *)
(* the values of the properties it reads, `taken` the text its client has  *)
(* collected from `outgoing`, and `typed` numbers the characters begun.    *)
(***************************************************************************)
EXTENDS Chewing, KeyRules

CONSTANTS
    Events,    \* the key events a client may deliver
    Configs,   \* the settings use_all_configure may find
    MaxTyped   \* bound on the characters begun in one behaviour

KeyEvent == [sym : Nat, mods : SUBSET Mods, released : BOOLEAN,
             kind : Kinds, choices : BOOLEAN]

Config == [plain : BOOLEAN, shiftToggle : BOOLEAN, easy : BOOLEAN,
           esc : BOOLEAN, max : Nat]

ASSUME PreEditAssumption ==
    /\ Events \subseteq KeyEvent
    /\ Configs \subseteq Config
    /\ MaxTyped \in Nat

VARIABLES self, cfg, typed, taken

vars == <<self, cfg, typed, taken>>

Junk == 0   \* the character begun by the false event of clear_pre_edit

-----------------------------------------------------------------------------
(* Methods                                                                 *)

WithContext(s, c) == [s EXCEPT !.ctx = c]

\* ibus_chewing_pre_edit_use_all_configure: every apply callback in the order
\* of propSpecs.  shift-toggle-chinese comes after easy-symbol-input and has
\* the same callback, so its value is the one the context keeps.
use_all_configure(s, c) ==
    WithContext(s, [s.ctx EXCEPT !.esc = c.esc, !.easy = c.shiftToggle,
                                 !.max = c.max])

\* Mutated forms, here and below, stand before the definition they replace:
\* FLAG_UPDATED_OUTGOING not consulted, and not set.
update_outgoing_unguarded(s) ==
    IF ~s.ctx.check THEN s
    ELSE [s EXCEPT !.outgoing = @ \o s.ctx.commit, !.updated = TRUE]

update_outgoing_unflagged(s) ==
    IF s.updated \/ ~s.ctx.check THEN s
    ELSE [s EXCEPT !.outgoing = @ \o s.ctx.commit]

update_outgoing(s) ==
    IF s.updated \/ ~s.ctx.check THEN s
    ELSE [s EXCEPT !.outgoing = @ \o s.ctx.commit, !.updated = TRUE]

\* The loop of ibus_chewing_pre_edit_update: bopomofo at the cursor.
Shown(c) == Spliced(c.buf, c.cursor, c.bpmf)

\* Mutated: the last word not counted.
update_short(s) ==
    update_outgoing([s EXCEPT !.preEdit = Shown(s.ctx),
                              !.bpmfLen = Len(s.ctx.bpmf),
                              !.wordLen = Len(s.ctx.buf) + Len(s.ctx.bpmf) - 1])

update(s) ==
    update_outgoing([s EXCEPT !.preEdit = Shown(s.ctx),
                              !.bpmfLen = Len(s.ctx.bpmf),
                              !.wordLen = Len(s.ctx.buf) + Len(s.ctx.bpmf)])

\* Mutated: escCleanAllBuf never forced on.
clear_pre_edit_unforced(s) ==
    [s EXCEPT !.ctx = handle_Esc(handle_Default(s.ctx, "select", Junk)),
              !.updated = FALSE]

\* A false '1', then Esc with escCleanAllBuf forced on: whatever the '1' did,
\* the Esc wipes it together with the commit it may have caused.
clear_pre_edit(s) ==
    LET origState == s.ctx.esc
        false1    == handle_Default(s.ctx, "select", Junk)
        wiped     == handle_Esc([false1 EXCEPT !.esc = TRUE])
    IN  [s EXCEPT !.ctx = [wiped EXCEPT !.esc = origState], !.updated = FALSE]

clear_outgoing(s) == [s EXCEPT !.outgoing = <<>>]

\* Mutated: no update, and no clearing.
force_commit_stale(s) ==
    clear_pre_edit([s EXCEPT !.outgoing = @ \o s.preEdit])

force_commit_uncleared(s) == update([s EXCEPT !.outgoing = @ \o s.preEdit])

force_commit(s) ==
    update(clear_pre_edit([s EXCEPT !.outgoing = @ \o s.preEdit]))

clear(s) == update(clear_outgoing(clear_pre_edit(s)))

\* Mutated: the test on the wrong side of the switch, and the syllable
\* thrown away.
FlushSyllable_backwards(s) ==
    IF ~s.ctx.chi /\ s.ctx.bpmf # <<>> THEN force_commit(s) ELSE s

FlushSyllable_dropping(s) ==
    IF s.ctx.chi /\ s.ctx.bpmf # <<>> THEN update(clear_pre_edit(s)) ELSE s

\* Mutated: only the syllable leaves, past the characters composed before it.
FlushSyllable_alone(s) ==
    IF s.ctx.chi /\ s.ctx.bpmf # <<>>
    THEN update([s EXCEPT !.outgoing = @ \o s.ctx.bpmf, !.ctx.bpmf = <<>>])
    ELSE s

\* "When Chi->Eng with incomplete character"
FlushSyllable(s) ==
    IF s.ctx.chi /\ s.ctx.bpmf # <<>> THEN force_commit(s) ELSE s

toggle_chi_eng_mode(s) ==
    LET f == FlushSyllable(s) IN WithContext(f, [f.ctx EXCEPT !.chi = ~@])

toggle_full_half(s) ==
    LET f == FlushSyllable(s) IN WithContext(f, [f.ctx EXCEPT !.full = ~@])

-----------------------------------------------------------------------------
(* Key handlers: each answers the new structure and an EventResponse.      *)

Answer(s, response) == [self |-> s, response |-> response]

Processed(s, c) == Answer(WithContext(s, c), "PROCESS")

\* filter_modifiers, then absorb_when_release, then the handler's own body.
WhenPressed(s, e, mask, body) ==
    IF Refused(e.mods, mask) THEN Answer(s, "IGNORE")
    ELSE IF e.released THEN Answer(s, "ABSORB")
    ELSE body

\* Mutated: easySymbolInput left off.
QuickCommit_unrestored(s, c) ==
    Answer(update_outgoing([s EXCEPT !.ctx = c, !.updated = FALSE]), "PROCESS")

\* The quick commit of a text key: c is the context after libchewing saw the
\* key with easySymbolInput off (unless Shift is held), easy the value to
\* restore.
QuickCommit(s, c) ==
    LET u == update_outgoing([s EXCEPT !.ctx = c, !.updated = FALSE])
    IN  Answer(WithContext(u, [u.ctx EXCEPT !.easy = s.ctx.easy]), "PROCESS")

self_handle_key_sym_default(s, e, t) ==
    IF Refused(e.mods, ShiftMask) THEN Answer(s, "IGNORE")
    ELSE QuickCommit(s, handle_Default(
            [s.ctx EXCEPT !.easy = @ /\ e.mods = {"shift"}], e.kind, t))

\* self_handle_num and self_handle_num_keypad: the latter converts the key
\* only for chewing_handle_CtrlNum and passes the unconverted one on.
self_handle_num(s, e, t) ==
    WhenPressed(s, e, ShiftCtrlMask,
        IF e.mods = {"ctrl"} THEN Processed(s, handle_CtrlNum(s.ctx, e.sym))
        ELSE self_handle_key_sym_default(s, e, t))

self_handle_caps_lock(s, e) ==
    LET f == FlushSyllable(s)
    IN  WhenPressed(s, e, NoMask, Processed(f, handle_Capslock(f.ctx)))

self_handle_shift(s, g, e) ==
    IF Refused(e.mods, ShiftMask) \/ ~g.shiftToggle THEN Answer(s, "IGNORE")
    ELSE IF ~e.released \/ s.keyLast \notin ShiftKeys THEN Answer(s, "ABSORB")
    ELSE Answer(toggle_chi_eng_mode(s), "ABSORB")

self_handle_space(s, e, t) ==
    WhenPressed(s, e, ShiftCtrlMask,
        IF e.mods = {"shift"} THEN Answer(toggle_full_half(s), "PROCESS")
        ELSE QuickCommit(s, handle_Space([s.ctx EXCEPT !.easy = FALSE], t)))

\* ignore_when_buffer_is_empty, then the body.
WhenComposing(s, body) ==
    IF s.preEdit = <<>> THEN Answer(s, "IGNORE") ELSE body

self_handle_return(s, e) ==
    WhenPressed(s, e, NoMask,
        WhenComposing(s, QuickCommit(s, handle_Enter(s.ctx))))

\* The call of libchewing behind each of the editing handlers.  PageUp,
\* PageDown, Tab and the Shift-arrows turn pages and mark ranges: nothing
\* this model keeps.
EditCall(h, c, e) ==
    CASE h = "backspace" -> handle_Backspace(c)
      [] h = "delete"    -> handle_Del(c)
      [] h = "escape"    -> handle_Esc(c)
      [] h = "left"  /\ e.mods = {} -> handle_Left(c)
      [] h = "right" /\ e.mods = {} -> handle_Right(c)
      [] h = "up"        -> handle_Up(c)
      [] h = "down"      -> handle_Down(c, e.choices)
      [] h = "home"      -> handle_Home(c)
      [] h = "end"       -> handle_End(c)
      [] OTHER           -> Quiet(c)

EditHandlers == {"backspace", "delete", "escape", "left", "up", "right",
                 "down", "page_up", "page_down", "tab", "home", "end"}

self_handle_edit(h, s, e) ==
    WhenPressed(s, e, IF h \in {"left", "right"} THEN ShiftMask ELSE NoMask,
        WhenComposing(s, Processed(s, EditCall(h, s.ctx, e))))

self_handle_default(s, e, t) ==
    WhenPressed(s, e, ShiftMask, self_handle_key_sym_default(s, e, t))

handle_key(s, g, e, t) ==
    LET h == Handler(e.sym)
    IN  CASE h \in {"num", "num_keypad"} -> self_handle_num(s, e, t)
          [] h = "caps_lock"     -> self_handle_caps_lock(s, e)
          [] h = "shift"         -> self_handle_shift(s, g, e)
          [] h = "space"         -> self_handle_space(s, e, t)
          [] h = "return"        -> self_handle_return(s, e)
          [] h \in EditHandlers  -> self_handle_edit(h, s, e)
          [] h = "special"       -> Answer(s, "IGNORE")
          [] OTHER               -> self_handle_default(s, e, t)

-----------------------------------------------------------------------------
(* ibus_chewing_pre_edit_process_key                                       *)

\* Mutated: a chosen character is cleared instead of committed.
PlainZhuyin_clearing(s, g, e) ==
    LET c == s.ctx
    IN  IF ~g.plain \/ c.bpmf # <<>> THEN s
        ELSE IF c.chi /\ ~s.table
             THEN WithContext(s, handle_Down(c, e.choices))
        ELSE IF c.cand = "none" THEN clear_pre_edit(s)
        ELSE s

\* The plain Zhuyin step: open the list once a character is complete, commit
\* once one is chosen.  libchewing is called past the handlers' own checks.
PlainZhuyin(s, g, e) ==
    LET c     == s.ctx
        moved == IF "shift" \in e.mods THEN handle_Left(c) ELSE c
    IN  IF ~g.plain \/ c.bpmf # <<>> THEN s
        ELSE IF e.sym = KeyEscape THEN clear_pre_edit(s)
        ELSE IF e.sym = KeyReturn /\ s.table
             THEN WithContext(s, handle_Enter(handle_Up(c)))
        ELSE IF c.chi /\ ~s.table
             THEN WithContext(s, handle_Down(moved, e.choices))
        ELSE IF c.cand = "none" THEN WithContext(s, handle_Enter(c))
        ELSE s

\* Mutated: the flag is cleared but never set.
RefreshTable_clearing(s) == [s EXCEPT !.table = @ /\ s.ctx.cand # "none"]

\* ibus_chewing_lookup_table_update answers the number of candidates on the
\* page, which is what FLAG_TABLE_SHOW records.
RefreshTable(s) == [s EXCEPT !.table = s.ctx.cand # "none"]

\* keyLast is only ever compared with the two Shift keys.
LastKey(e) == IF e.sym \in ShiftKeys THEN e.sym ELSE 0

\* Mutated: an ignored key flushes only whole characters.
process_key_words(s, g, e, t) ==
    LET r == handle_key(s, g, e, t)
        k == [r.self EXCEPT !.keyLast = LastKey(e)]
    IN  CASE r.response = "ABSORB" -> k
          [] r.response = "IGNORE" ->
               IF s.ctx.buf = <<>> THEN k ELSE force_commit(k)
          [] OTHER -> RefreshTable(update(PlainZhuyin(k, g, e)))

process_key(s, g, e, t) ==
    LET r == handle_key(s, g, e, t)
        k == [r.self EXCEPT !.keyLast = LastKey(e)]
    IN  CASE r.response = "ABSORB" -> k
          [] r.response = "IGNORE" ->
               IF s.preEdit = <<>> THEN k ELSE force_commit(k)
          [] OTHER -> RefreshTable(update(PlainZhuyin(k, g, e)))

\* What process_key returns: FALSE passes the key on to the application.
Consumed(s, g, e, t) == handle_key(s, g, e, t).response # "IGNORE"

-----------------------------------------------------------------------------
(* The component and its client                                            *)

NewContext == [buf |-> <<>>, cursor |-> 0, bpmf |-> <<>>, cand |-> "none",
               check |-> FALSE, commit |-> <<>>, chi |-> TRUE, full |-> FALSE,
               esc |-> FALSE, easy |-> FALSE, max |-> 0]

\* ibus_chewing_pre_edit_new
NewPreEdit(c) ==
    use_all_configure(
        [ctx |-> NewContext, preEdit |-> <<>>, outgoing |-> <<>>,
         table |-> FALSE, updated |-> FALSE, keyLast |-> 0,
         bpmfLen |-> 0, wordLen |-> 0], c)

Init ==
    /\ cfg \in Configs
    /\ self = NewPreEdit(cfg)
    /\ typed = 0
    /\ taken = <<>>

Elements(s) == {s[i] : i \in DOMAIN s}

\* The characters the structure still holds somewhere.
Held(s) == UNION {Elements(t) : t \in {s.ctx.buf, s.ctx.bpmf, s.ctx.commit,
                                       s.preEdit, s.outgoing}}

ProcessKey(e) ==
    /\ self' = process_key(self, cfg, e, typed + 1)
    /\ typed' = IF typed + 1 \in Held(self') THEN typed + 1 ELSE typed
    /\ typed' <= MaxTyped
    /\ UNCHANGED <<cfg, taken>>

\* The engine's commit_text: outgoing goes to the application.
TakeOutgoing ==
    /\ self.outgoing # <<>>
    /\ taken' = taken \o self.outgoing
    /\ self' = clear_outgoing(self)
    /\ UNCHANGED <<cfg, typed>>

Clear ==
    /\ self' = clear(self)
    /\ UNCHANGED <<cfg, typed, taken>>

ToggleChiEng ==
    /\ self' = toggle_chi_eng_mode(self)
    /\ UNCHANGED <<cfg, typed, taken>>

UseAllConfigure(c) ==
    /\ cfg' = c
    /\ self' = use_all_configure(self, c)
    /\ UNCHANGED <<typed, taken>>

Next ==
    \/ \E e \in Events : ProcessKey(e)
    \/ TakeOutgoing
    \/ Clear
    \/ ToggleChiEng
    \/ \E c \in Configs : UseAllConfigure(c)

Spec == Init /\ [][Next]_vars

-----------------------------------------------------------------------------
(* Properties                                                              *)

PreEditStruct ==
    [ctx : Context, preEdit : Seq(Nat), outgoing : Seq(Nat),
     table : BOOLEAN, updated : BOOLEAN, keyLast : ShiftKeys \cup {0},
     bpmfLen : Nat, wordLen : Nat]

\* Every field keeps its type, and the cursor of the context stays inside
\* the buffer.
TypeOK ==
    /\ self \in PreEditStruct
    /\ self.ctx.cursor \in 0 .. Len(self.ctx.buf)
    /\ cfg \in Configs
    /\ typed \in Nat
    /\ taken \in Seq(Nat)

\* Whatever call came last, and by whichever early return it left, preEdit
\* and the two lengths are those of the libchewing context: nobody displays,
\* or force-commits, a composition libchewing no longer has.
PreEditMirrors ==
    /\ self.preEdit = Shown(self.ctx)
    /\ self.bpmfLen = Len(self.ctx.bpmf)
    /\ self.wordLen = Len(self.preEdit)

\* Between calls a commit libchewing still reports has already gone to
\* outgoing, so the update of a later call cannot append it again
\* (FLAG_UPDATED_OUTGOING, "to avoid double committing").
CommitAccounted == self.ctx.check => self.updated

\* A choice list open in libchewing is one the engine shows: keys are never
\* swallowed by a list the user cannot see.
OpenListIsShown == self.ctx.cand # "none" => self.table

\* The settings process_key and clear_pre_edit override for the length of a
\* call (easySymbolInput, escCleanAllBuf) are back when it returns.
SettingsRestored ==
    /\ self.ctx.esc = cfg.esc
    /\ self.ctx.easy = cfg.shiftToggle
    /\ self.ctx.max = cfg.max

\* "When Chi->Eng with incomplete character": by whichever key the mode or
\* the language changes, no incomplete syllable is left behind in English
\* mode, where no key could complete it.
EnglishHasNoSyllable == ~self.ctx.chi => self.ctx.bpmf = <<>>

\* All the text in order: collected, waiting, still composed.
Stream == taken \o self.outgoing \o self.preEdit

\* No character is ever delivered twice, or delivered while its copy is
\* still being composed.
EachCharacterOnce ==
    \A i, j \in DOMAIN Stream : Stream[i] = Stream[j] => i = j

\* The false '1' of clear_pre_edit is never shown and never delivered.
FalseKeyNeverSeen == Junk \notin Elements(Stream)

\* Keys meant to remove text, and a syllable libchewing does not know.
Erases(e) ==
    \/ e.kind = "reject"
    \/ Handler(e.sym) \in {"backspace", "delete", "escape"}

Visible(s) == Elements(s.outgoing) \cup Elements(s.preEdit)

\* No other key makes a character vanish: what was composed or waiting is
\* still composed or waiting after it.
KeysKeepText ==
    [][\/ Visible(self) \subseteq Visible(self')
       \/ \A e \in Events : ProcessKey(e) => Erases(e)]_vars

\* "Play conservatively, commit everything when unhandled key is received":
\* a key passed on to the application finds nothing left in the composition,
\* and all of it, as displayed, at the end of outgoing.
IgnoredKeyFlushes ==
    [][\/ /\ self'.preEdit = <<>>
          /\ self'.outgoing = self.outgoing \o self.preEdit
       \/ \A e \in Events :
             Consumed(self, cfg, e, typed + 1) \/ ~ProcessKey(e)]_vars

\* What the component promises its client about the text as a whole: once, and
\* in the order of the composition.  Only the syllable under way may stay while
\* characters behind it leave (Enter, and an overflow, take whole characters).
Text == INSTANCE TextStream WITH
            Char <- 1 .. MaxTyped, shown <- self.preEdit,
            making <- self.ctx.bpmf, outbox <- self.outgoing, taken <- taken

DeliversAsTextStream == Text!Spec

-----------------------------------------------------------------------------
(* What the documentation says and the code does not do                    *)

\* USER-GUIDE, Chinese mode hot-keys: "Ctrl-1 Open symbol selection dialog".
CtrlOneOpensSymbols ==
    \A e \in Events :
        e.sym = 49 /\ e.mods = {"ctrl"} /\ ~e.released /\ self.ctx.cand = "none"
            => process_key(self, cfg, e, typed + 1).ctx.cand = "symbols"

\* ChangeLog: "Fixed behavior of Del, Backspace,  Home, End"; the rule table
\* has a row for End: while composing, End is a cursor key like Home and is
\* not handed to the application.
EndIsHandled ==
    \A e \in Events :
        e.sym = KeyEnd /\ e.mods = {} /\ self.preEdit # <<>>
            => Consumed(self, cfg, e, typed + 1)

\* IBusChewingPreEdit.h: FLAG_UPDATED_OUTGOING, "The commit string is already
\* send to outgoing": what libchewing reports as committed under the flag is
\* in outgoing, or was collected from it.
FlagMeansDelivered ==
    self.ctx.check /\ self.updated
        => Elements(self.ctx.commit) \subseteq Elements(taken \o self.outgoing)
=============================================================================
