------------------------------ MODULE KeyRules ------------------------------
(***************************************************************************)
(* The key handling table of IBusChewingPreEdit.c: which handler a key     *)
(* symbol reaches, and the modifier screen the handlers open with.  Key    *)
(* symbols are their X11 numbers, because the table is made of ranges and  *)
(* a range may be empty.                                                   *)
(***************************************************************************)
EXTENDS Naturals, Sequences, FiniteSetsExt

Mods == {"shift", "ctrl", "mod1"}

KeyReturn == 65293
KeyEscape == 65307
KeyShiftL == 65505
KeyShiftR == 65506
KeyEnd    == 65367
KeySpace  == 32
KeyCapsLock == 65509
KeyUp       == 65362
KeyDown     == 65364
KeyPageUp   == 65365
KeyPageDown == 65366

ShiftKeys == {KeyShiftL, KeyShiftR}

Rule(lower, upper, handler) ==
    [lower |-> lower, upper |-> upper, handler |-> handler]

\* The rules in the order of the source.  G_MAXUINT, the bound of the last
\* range, is cut to TLC's integers (no keysym exceeds 0x1fffffff), and
\* "default" stands for the {0, 0} sentinel.
keyHandlingRules == <<
    Rule(48, 57, "num"),            Rule(65456, 65465, "num_keypad"),
    Rule(KeyCapsLock, KeyCapsLock, "caps_lock"),
    Rule(KeyShiftL, KeyShiftR, "shift"),
    Rule(KeySpace, KeySpace, "space"),
    Rule(KeyReturn, KeyReturn, "return"), Rule(65421, 65421, "return"),
    Rule(65288, 65288, "backspace"), Rule(65535, 65535, "delete"),
    Rule(KeyEscape, KeyEscape, "escape"),
    Rule(65361, 65361, "left"),     Rule(65430, 65430, "left"),
    Rule(KeyUp, KeyUp, "up"),       Rule(65431, 65431, "up"),
    Rule(65363, 65363, "right"),    Rule(65432, 65432, "right"),
    Rule(KeyDown, KeyDown, "down"),     Rule(65433, 65433, "down"),
    Rule(KeyPageUp, KeyPageUp, "page_up"),  Rule(65434, 65434, "page_up"),
    Rule(KeyPageDown, KeyPageDown, "page_down"), Rule(65435, 65435, "page_down"),
    Rule(65289, 65289, "tab"),
    Rule(65360, 65360, "home"),     Rule(65429, 65429, "home"),
    Rule(KeyEnd, 65360, "end"),     Rule(65436, 65436, "end"),
    Rule(128, 2147483647, "special") >>

\* self_key_sym_find_key_handling_rule: the first range that holds the key.
Handler(kSym) ==
    LET matches == {i \in DOMAIN keyHandlingRules :
                        /\ keyHandlingRules[i].lower <= kSym
                        /\ kSym <= keyHandlingRules[i].upper}
    IN  IF matches = {} THEN "default"
        ELSE keyHandlingRules[Min(matches)].handler

\* The test of filter_modifiers(mask).  The macro writes (~mask) without
\* parentheses around mask, so for filter_modifiers(A | B) the preprocessor
\* yields (~A | B): every modifier but A is refused, B included.
Refused(mods, mask) ==
    \/ mods \cap ((Mods \ {mask[1]}) \cup {mask[i] : i \in 2 .. Len(mask)}) # {}
    \/ mods = {"shift", "ctrl"}

\* The masks the handlers pass: filter_modifiers(0), (IBUS_SHIFT_MASK) and
\* (IBUS_SHIFT_MASK | IBUS_CONTROL_MASK).
NoMask        == <<"none">>
ShiftMask     == <<"shift">>
ShiftCtrlMask == <<"shift", "ctrl">>
=============================================================================
