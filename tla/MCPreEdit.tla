------------------------------ MODULE MCPreEdit ------------------------------
(***************************************************************************)
(* PreEdit on small key sets.  An event is a press without modifiers       *)
(* unless said otherwise.                                                  *)
(***************************************************************************)
EXTENDS PreEdit

Event(sym, mods, released, kind, choices) ==
    [sym |-> sym, mods |-> mods, released |-> released,
     kind |-> kind, choices |-> choices]

Press(sym)    == Event(sym, {}, FALSE, "none", FALSE)
Types(sym, kind) == Event(sym, {}, FALSE, kind, TRUE)

BackSpace == 65288
Delete    == 65535
Left      == 65361
Right     == 65363
Home      == 65360

Setting(plain, shiftToggle, esc, max) ==
    [plain |-> plain, shiftToggle |-> shiftToggle, easy |-> shiftToggle,
     esc |-> esc, max |-> max]

\* Text and editing keys: 'a' stands for any letter, '1' for a selection key.
TextEvents ==
    {Types(97, kind) : kind \in {"phone", "tone", "reject", "symbol", "menu"}}
    \cup {Types(49, "select"), Types(KeySpace, "none")}

EditEvents ==
    {Press(sym) : sym \in {KeyReturn, BackSpace, Delete, KeyEscape, Left, KeyUp,
                           Home, KeyEnd, KeyCapsLock}}
    \cup {Types(KeyDown, "none")}

\* Shift, Ctrl and releases, with few text keys.
ModeEvents ==
    {Types(97, kind) : kind \in {"phone", "tone"}}
    \cup {Types(49, "select"), Types(KeySpace, "none"), Press(KeyReturn),
          Press(KeyCapsLock), Press(KeyShiftL),
          Event(KeyShiftL, {"shift"}, TRUE, "none", FALSE),
          Event(KeyShiftR, {"shift"}, TRUE, "none", FALSE),
          Event(65, {"shift"}, FALSE, "phone", FALSE),
          Event(KeySpace, {"shift"}, FALSE, "none", FALSE),
          Event(Left, {"shift"}, FALSE, "none", FALSE),
          Event(KeySpace, {}, TRUE, "none", FALSE),
          Event(99, {"ctrl"}, FALSE, "none", FALSE),
          Event(49, {"ctrl"}, FALSE, "none", FALSE),
          Event(97, {"shift", "ctrl"}, TRUE, "none", FALSE)}

\* Plain Zhuyin: a completed character offers its list at once.
PlainEvents ==
    {Types(97, kind) : kind \in {"phone", "tone", "reject", "symbol", "menu"}}
    \cup {Types(49, "select"), Types(KeySpace, "none"), Types(KeyDown, "none"),
          Event(60, {"shift"}, FALSE, "symbol", TRUE),
          Types(KeyShiftL, "none"),
          Event(KeyShiftL, {"shift"}, TRUE, "none", FALSE)}
    \cup {[Press(sym) EXCEPT !.choices = TRUE] :
              sym \in {KeyReturn, BackSpace, KeyEscape, KeyUp, Left, KeyEnd}}

MCTextEvents == TextEvents \cup EditEvents \cup ModeEvents
MCTextConfigs ==
    {Setting(FALSE, TRUE, esc, 2) : esc \in BOOLEAN} \cup {Setting(FALSE, FALSE, FALSE, 2)}

MCModeConfigs ==
    {Setting(FALSE, shiftToggle, FALSE, 2) : shiftToggle \in BOOLEAN}
\* Room for every character: FlagMeansDelivered shows what an overflow does here.
MCPlainConfigs == {Setting(TRUE, TRUE, FALSE, 3)}
MCPlainSwitchConfigs == {Setting(plain, TRUE, FALSE, 2) : plain \in BOOLEAN}
=============================================================================
