----------------------------- MODULE MCDesktop -----------------------------
(***************************************************************************)
(* Desktop with a handful of keys and two windows.                         *)
(***************************************************************************)
EXTENDS Desktop, TLC

Event(sym, mods, released, kind, choices) ==
    [sym |-> sym, mods |-> mods, released |-> released,
     kind |-> kind, choices |-> choices]

Types(sym, kind) == Event(sym, {}, FALSE, kind, TRUE)

Letter == Types(97, "phone")
Digit  == Types(49, "select")
Ampersand == Types(38, "symbol")

MCEvents ==
    {Letter, Ampersand, Types(97, "tone"), Types(96, "menu"), Types(KeyDown, "none"),
     Types(KeyReturn, "none"), Types(KeyEscape, "none"),
     Types(KeyCapsLock, "none"), Event(99, {"ctrl"}, FALSE, "none", TRUE)}

\* A letter with Shift, for a password.
ShiftedEvents ==
    {Event(65, {"shift"}, FALSE, "phone", FALSE),
     Types(KeyShiftL, "none"), Event(KeyShiftL, {"shift"}, TRUE, "none", TRUE)}

MCConfigs ==
    {[plain |-> FALSE, shiftToggle |-> TRUE, easy |-> TRUE, esc |-> FALSE,
      max |-> 1]}

\* The key of '1' on a French keyboard.
MCUsKey == [e \in Events |-> IF e = Ampersand THEN Digit ELSE e]
SameKey == [e \in Events |-> e]

\* The second key stands for a click on a stale list, which libchewing refuses.
MCSelKeys == <<Digit, Types(99, "reject")>>

\* The events are those of a keyboard the theorem about the light allows.
ASSUME UsualKeyboard

Symmetry == Permutations(Windows)
=============================================================================
