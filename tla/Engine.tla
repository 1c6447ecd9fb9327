------------------------------- MODULE Engine -------------------------------
(***************************************************************************)
(* IBusChewingEngine: the engine object between the IBus daemon and one    *)
(* IBusChewingPreEdit.  The daemon calls its methods one at a time: keys,  *)
(* panel buttons and mouse clicks while the input context has the focus,   *)
(* and the focus, enable, reset and property calls around them.            *)
(*                                                                         *)
(* The methods check none of this: the guards on FLAG_ENGINE_ENABLED and   *)
(* FLAG_FOCUS_IN in the calls below are assumptions about the daemon.  It  *)
(* enables an engine before it gives it the focus, takes the focus from it *)
(* before it disables it, never does either twice, and calls the other     *)
(* methods for the context that has the focus.                             *)
(*                                                                         *)
(* `self`, `cfg`, `typed` are those of PreEdit; `taken` is the text the    *)
(* application has received; `panel` is what the user sees; `led` is the   *)
(* Caps Lock light, which the X server and the engine both change; `sync`  *)
(* stands for FLAG_SYNC_FROM_IM and FLAG_SYNC_FROM_KEYBOARD.               *)
(***************************************************************************)
EXTENDS PreEdit

CONSTANTS
    SyncModes,      \* the values of sync-caps-lock use_setting may find
    SelKeys,        \* the selection keys, one event each: candPerPage of them
    UsKey,          \* the event of a physical key on the en_US layout
    SystemLayouts,  \* the values use-system-keyboard-layout may have
    Purposes,       \* the input purposes a client announces
    Capabilities    \* the capability masks a client announces

ASSUME EngineAssumption ==
    /\ SyncModes \subseteq {"disable", "keyboard", "input method"}
    /\ SelKeys \in Seq(KeyEvent)
    /\ UsKey \in [Events -> KeyEvent]
    /\ SystemLayouts \subseteq BOOLEAN
    /\ Purposes \subseteq {"free-form", "password", "pin"}
    /\ Capabilities \subseteq 0 .. 63

\* The strings of selKeys_array are of printable characters.
ASSUME SelKeysAssumption ==
    \A i \in DOMAIN SelKeys : SelKeys[i].sym \in 33 .. 126

VARIABLES statusFlags, panel, led, sync

engineVars == <<self, cfg, typed, taken, statusFlags, panel, led, sync>>

-----------------------------------------------------------------------------
(* statusFlags is a word of bits; the client's capabilities start at 0x20. *)

INITIALIZED           == 1
ENGINE_ENABLED        == 2
FOCUS_IN              == 4
IS_PASSWORD           == 8
PROPERTIES_REGISTERED == 16
CAP_PREEDIT_TEXT      == 32

has_flag(flags, f)   == (flags \div f) % 2 = 1
set_flag(flags, f)   == IF has_flag(flags, f) THEN flags ELSE flags + f
clear_flag(flags, f) == IF has_flag(flags, f) THEN flags - f ELSE flags

Has(f) == has_flag(statusFlags, f)

-----------------------------------------------------------------------------
(* What the methods share                                                  *)

\* key_code_to_key_sym: in Chinese mode and without the system layout, the
\* symbol the physical key has on an en_US keyboard.
key_code_to_key_sym(e, system) ==
    IF ~self.ctx.chi \/ system THEN e ELSE UsKey[e]

\* refresh_property: the panel hears of a label only once registered.
RefreshInputMode(p, s) ==
    IF Has(PROPERTIES_REGISTERED) THEN [p EXCEPT !.chi = s.ctx.chi] ELSE p

RefreshAlnumSize(p, s) ==
    IF Has(PROPERTIES_REGISTERED) THEN [p EXCEPT !.full = s.ctx.full] ELSE p

\* Mutated: the lookup table as it was before the key, and the labels left to
\* their registration.
Redrawn_early(s) == [preEdit |-> s.preEdit, list |-> self.table,
                     chi |-> s.ctx.chi, full |-> s.ctx.full]

Redrawn_unlabelled(s) == [panel EXCEPT !.preEdit = s.preEdit, !.list = s.table]

\* update_pre_edit_text, update_lookup_table and refresh_property_list.
Redrawn(s) == [preEdit |-> s.preEdit, list |-> s.table,
               chi |-> s.ctx.chi, full |-> s.ctx.full]

\* Mutated: outgoing not cleared, and not committed under FLAG_FOCUS_IN.
CommitText_uncleared(s) == taken' = taken \o s.outgoing /\ self' = s

CommitText_unfocused(s) ==
    /\ taken' = IF Has(FOCUS_IN) THEN taken ELSE taken \o s.outgoing
    /\ self' = clear_outgoing(s)

\* commit_text: an empty commit, which it makes without the focus, is no text.
CommitText(s) == taken' = taken \o s.outgoing /\ self' = clear_outgoing(s)

\* self_update
Update(s) ==
    /\ panel' = Redrawn(s)
    /\ CommitText(s)
    /\ statusFlags' = set_flag(statusFlags, PROPERTIES_REGISTERED)

\* ibus_chewing_pre_edit_process_key, then self_update.
SendKey(e) ==
    LET s == process_key(self, cfg, e, typed + 1)
    IN  /\ Update(s)
        /\ typed' = IF typed + 1 \in Held(s) THEN typed + 1 ELSE typed
        /\ typed' <= MaxTyped

\* use_setting, for the values c and m it finds in the configuration.
UseSetting(c, m) == cfg' = c /\ sync' = m

\* Mutated: the light is set to the language instead of its opposite.
RestoredLed_same(s, m) == IF m = "input method" THEN s.ctx.chi ELSE led

\* restore_mode: the Caps Lock light and the language of s, brought together
\* the way sync-caps-lock asks for.
RestoredLed(s, m) == IF m = "input method" THEN ~s.ctx.chi ELSE led

RestoredMode(s, m) ==
    IF m = "keyboard" THEN WithContext(s, [s.ctx EXCEPT !.chi = ~led]) ELSE s

-----------------------------------------------------------------------------
(* Calls of the daemon                                                     *)

\* Where the daemon sends what belongs to an input context.
Focused == Has(FOCUS_IN) /\ Has(ENGINE_ENABLED)

\* A Caps Lock press flips the light before the engine hears of the key.
\* use-system-keyboard-layout is read anew for each key.
ProcessKeyEvent(e) ==
    /\ Focused
    /\ led' = IF e.sym = KeyCapsLock /\ ~e.released THEN ~led ELSE led
    /\ \/ /\ Has(IS_PASSWORD)
          /\ UNCHANGED <<self, typed, taken, panel, statusFlags>>
       \/ /\ ~Has(IS_PASSWORD)
          /\ \E system \in SystemLayouts : SendKey(key_code_to_key_sym(e, system))
    /\ UNCHANGED <<cfg, sync>>

\* page_up, page_down, cursor_up, cursor_down: the buttons of the panel.
PanelButtons ==
    {[sym |-> k, mods |-> {}, released |-> FALSE, kind |-> "none",
      choices |-> TRUE] : k \in {KeyPageUp, KeyPageDown, KeyUp, KeyDown}}

PanelButton(e) ==
    /\ Focused
    /\ ~Has(IS_PASSWORD)
    /\ SendKey(e)
    /\ UNCHANGED <<cfg, sync, led>>

\* A click on a candidate becomes its selection key.
CandidateClicked(i) ==
    /\ Focused
    /\ panel.list
    /\ ~Has(IS_PASSWORD)
    /\ i <= Len(SelKeys)
    /\ self.table
    /\ SendKey(SelKeys[i])
    /\ UNCHANGED <<cfg, sync, led>>

\* property_activate: the composition may move to outgoing, but nothing is
\* committed or redrawn before the next self_update.
ActivateInputMode ==
    /\ Focused
    /\ self' = toggle_chi_eng_mode(self)
    /\ led' = IF sync # "disable" THEN ~self'.ctx.chi ELSE led
    /\ panel' = RefreshInputMode(panel, self')
    /\ UNCHANGED <<cfg, typed, taken, statusFlags, sync>>

ActivateAlnumSize ==
    /\ Focused
    /\ self' = WithContext(self, [self.ctx EXCEPT !.full = ~@])
    /\ panel' = RefreshAlnumSize(panel, self')
    /\ UNCHANGED <<cfg, typed, taken, statusFlags, led, sync>>

\* Mutated: the screen keeps the text that was thrown away.
Reset_undrawn ==
    /\ Focused
    /\ self' = clear(self)
    /\ panel' = [panel EXCEPT !.list = FALSE]
    /\ UNCHANGED <<cfg, typed, taken, statusFlags, led, sync>>

Reset ==
    /\ Focused
    /\ self' = clear(self)
    /\ panel' = [panel EXCEPT !.preEdit = <<>>, !.list = FALSE]
    /\ UNCHANGED <<cfg, typed, taken, statusFlags, led, sync>>

Enable(c, m) ==
    /\ ~Has(ENGINE_ENABLED)
    /\ UseSetting(c, m)
    /\ self' = use_all_configure(self, c)
    /\ statusFlags' = set_flag(statusFlags, ENGINE_ENABLED)
    /\ UNCHANGED <<typed, taken, panel, led>>

Disable ==
    /\ Has(ENGINE_ENABLED) /\ ~Has(FOCUS_IN)
    /\ statusFlags' = clear_flag(statusFlags, ENGINE_ENABLED)
    /\ UNCHANGED <<self, cfg, typed, taken, panel, led, sync>>

\* Mutated: the composition survives the focus change.
FocusIn_kept(c, m) ==
    /\ Has(ENGINE_ENABLED) /\ ~Has(FOCUS_IN)
    /\ UseSetting(c, m)
    /\ LET u == use_all_configure(self, c)
           s == RestoredMode(u, m)
       IN  /\ led' = RestoredLed(u, m)
           /\ panel' = [panel EXCEPT !.chi = s.ctx.chi, !.full = s.ctx.full]
           /\ CommitText(s)
    /\ statusFlags' = set_flag(set_flag(statusFlags, PROPERTIES_REGISTERED),
                               FOCUS_IN)
    /\ UNCHANGED typed

\* Settings and modes first, then the composition is cleared: "Shouldn't have
\* anything to commit when Focus-in".
FocusIn(c, m) ==
    /\ Has(ENGINE_ENABLED) /\ ~Has(FOCUS_IN)
    /\ UseSetting(c, m)
    /\ LET u == use_all_configure(self, c)
           s == RestoredMode(u, m)
       IN  /\ led' = RestoredLed(u, m)
           /\ panel' = [panel EXCEPT !.chi = s.ctx.chi, !.full = s.ctx.full]
           /\ CommitText(clear(s))
    /\ statusFlags' = set_flag(set_flag(statusFlags, PROPERTIES_REGISTERED),
                               FOCUS_IN)
    /\ UNCHANGED typed

\* The engine only drops two flags.  The client, which got the pre-edit text
\* with IBUS_ENGINE_PREEDIT_COMMIT, commits it and takes the panel down.
FocusOut ==
    /\ Focused
    /\ statusFlags' =
          clear_flag(clear_flag(statusFlags, FOCUS_IN), PROPERTIES_REGISTERED)
    /\ taken' = taken \o panel.preEdit
    /\ panel' = [panel EXCEPT !.preEdit = <<>>, !.list = FALSE]
    /\ UNCHANGED <<self, cfg, typed, led, sync>>

SetContentType(purpose) ==
    /\ statusFlags' = IF purpose \in {"password", "pin"}
                      THEN set_flag(statusFlags, IS_PASSWORD)
                      ELSE clear_flag(statusFlags, IS_PASSWORD)
    /\ UNCHANGED <<self, cfg, typed, taken, panel, led, sync>>

SetCapabilities(caps) ==
    /\ statusFlags' = (statusFlags % CAP_PREEDIT_TEXT) + caps * CAP_PREEDIT_TEXT
    /\ UNCHANGED <<self, cfg, typed, taken, panel, led, sync>>

\* Caps Lock pressed while another input context has the focus.
CapsLockElsewhere ==
    /\ ~Has(FOCUS_IN)
    /\ led' = ~led
    /\ UNCHANGED <<self, cfg, typed, taken, statusFlags, panel, sync>>

BlankPanel == [preEdit |-> <<>>, list |-> FALSE, chi |-> TRUE, full |-> FALSE]

\* ibus_disconnected_cb: the process quits, with whatever it composed.  The
\* client takes the panel down, with or without committing what it shows, and
\* the daemon starts another process, whose init reads the settings.
Restart(c, m) ==
    /\ UseSetting(c, m)
    /\ self' = NewPreEdit(c)
    /\ statusFlags' = INITIALIZED
    /\ panel' = BlankPanel
    /\ taken' \in {taken, taken \o panel.preEdit}
    /\ UNCHANGED <<typed, led>>

-----------------------------------------------------------------------------
EngineInit ==
    /\ Init
    /\ sync \in SyncModes
    /\ led \in BOOLEAN
    /\ statusFlags = INITIALIZED
    /\ panel = BlankPanel

\* The calls that are neither keys nor the coming of the focus.
DaemonCall ==
    \/ \E e \in PanelButtons : PanelButton(e)
    \/ \E i \in 1 .. Len(SelKeys) : CandidateClicked(i)
    \/ ActivateInputMode
    \/ ActivateAlnumSize
    \/ Reset
    \/ \E c \in Configs, m \in SyncModes : Enable(c, m)
    \/ Disable
    \/ FocusOut
    \/ \E purpose \in Purposes : SetContentType(purpose)
    \/ \E caps \in Capabilities : SetCapabilities(caps)
    \/ CapsLockElsewhere
    \/ \E c \in Configs, m \in SyncModes : Restart(c, m)

EngineNext ==
    \/ \E e \in Events : ProcessKeyEvent(e)
    \/ \E c \in Configs, m \in SyncModes : FocusIn(c, m)
    \/ DaemonCall

EngineSpec == EngineInit /\ [][EngineNext]_engineVars

-----------------------------------------------------------------------------
(* Properties                                                              *)

\* While the context has the focus, the text on screen is all the text the
\* engine holds: what it composes, and before it what it has set aside for
\* the application without sending it (a click on the language bar).  This
\* is why the client may commit the screen when the focus goes.
PanelShowsAllText ==
    Focused => panel.preEdit = self.outgoing \o self.preEdit

\* The language bar of a registered engine shows the modes libchewing is in,
\* by whichever of the four ways they changed.
LabelsTruthful ==
    Has(PROPERTIES_REGISTERED) =>
        panel.chi = self.ctx.chi /\ panel.full = self.ctx.full

\* A choice list that takes the keys is on the screen.
OpenListOnScreen == Focused /\ self.ctx.cand # "none" => panel.list

\* No character reaches the application twice, whether the engine or the
\* client commits it.
AppTextOnce == \A i, j \in DOMAIN taken : taken[i] = taken[j] => i = j

\* Only an erasing key, the client's reset and a disconnection from the bus
\* make a character vanish: every other character the engine holds stays with
\* it or reaches the application.
NothingLost ==
    [][\/ Visible(self) \subseteq Visible(self') \cup Elements(taken')
       \/ Reset
       \/ \E c \in Configs, m \in SyncModes : Restart(c, m)
       \/ \E e \in Events :
             (Erases(e) \/ Erases(UsKey[e])) /\ ProcessKeyEvent(e)]_engineVars

\* The syllable under way, while a window shows it.
Making == IF Has(FOCUS_IN) THEN self.ctx.bpmf ELSE <<>>

\* From the screen to the application, once and in the order of the screen (but
\* for a syllable under way): the engine with its client is a TextStream whose
\* outbox is the application.
Delivery == INSTANCE TextStream WITH
                Char <- 1 .. MaxTyped, shown <- panel.preEdit, making <- Making,
                outbox <- taken, taken <- <<>>

DeliversOnScreenText == Delivery!Spec

\* What the next property needs of the keyboard: a layout changes nothing of an
\* event but its symbol, Caps Lock is where an en_US keyboard has it, and a
\* Shift is reported held at its own release.
UsualKeyboard ==
    \A e \in Events : \A k \in {e, UsKey[e]} :
        /\ k.mods = e.mods /\ k.released = e.released
        /\ k.sym = KeyCapsLock <=> e.sym = KeyCapsLock
        /\ k.sym \in ShiftKeys /\ k.released => k.mods # {}

\* With sync-caps-lock on, getting the focus brings the language and the Caps
\* Lock light together, and while the context keeps the focus only two things
\* part them again: a key held with a modifier (Shift toggles the language, and
\* Shift-CapsLock the light), and a key the engine ignores in a password field.
LightFollowsLanguage ==
    [][Focused' /\ sync' # "disable" /\ (Focused => led = ~self.ctx.chi)
          => \/ led' = ~self'.ctx.chi
             \/ \E e \in Events :
                   (e.mods # {} \/ Has(IS_PASSWORD)) /\ ProcessKeyEvent(e)]_engineVars
=============================================================================
