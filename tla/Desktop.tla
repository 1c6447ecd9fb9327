------------------------------ MODULE Desktop ------------------------------
(***************************************************************************)
(* The engine among the windows it serves.  IBus gives all of them one     *)
(* engine, with one composition, and moves it from window to window by     *)
(* focus_out and focus_in; the user has one keyboard, some of whose keys   *)
(* go to windows the engine knows nothing of.                              *)
(*                                                                         *)
(* Every call of the daemon is an action of Engine, taken as it stands;    *)
(* this module adds whom it is for.                                        *)
(***************************************************************************)
EXTENDS Engine

CONSTANTS
    Windows,        \* the windows with an input context
    Nowhere         \* the home of a character that has not been typed

ASSUME DesktopAssumption == Nowhere \notin Windows

VARIABLES
    window,         \* the window that has the focus, or had it last
    home,           \* home[t]: the window character t was typed in
    got,            \* got[i]: the window that received taken[i]
    keyboard        \* whether Shift is down, and the last key of all

deskVars == <<window, home, got, keyboard>>
desktopVars == <<engineVars, deskVars>>

-----------------------------------------------------------------------------
\* The text a call sends goes to the window that has the focus after it, and
\* the character it begins belongs there; focus_out sends to the window left.
InWindow(w) ==
    /\ window' = w
    /\ home' = IF typed' > typed THEN [home EXCEPT ![typed'] = w] ELSE home
    /\ got' = got \o [i \in 1 .. Len(taken') - Len(taken) |-> w]

\* One keyboard: Shift comes up only after it went down, and is reported with
\* the keys pressed in between.
Possible(e) ==
    IF e.sym \in ShiftKeys THEN e.released <=> keyboard.down
    ELSE "shift" \in e.mods <=> keyboard.down

Struck(e) ==
    keyboard' = [down |-> IF e.sym \in ShiftKeys THEN ~e.released ELSE keyboard.down,
                 last |-> LastKey(e)]

KeyHere(e) ==
    /\ Possible(e)
    /\ ProcessKeyEvent(e)
    /\ InWindow(window)
    /\ Struck(e)

\* A key for a window without the engine: of what it does there, only its being
\* the last key matters here.
KeyElsewhere(e) ==
    /\ ~Has(FOCUS_IN)
    /\ Possible(e)
    /\ e.sym # KeyCapsLock
    /\ Struck(e)
    /\ UNCHANGED <<engineVars, window, home, got>>

CallHere ==
    /\ DaemonCall
    /\ InWindow(window)
    /\ UNCHANGED keyboard

FocusWindow(w) ==
    /\ \E c \in Configs, m \in SyncModes : FocusIn(c, m)
    /\ InWindow(w)
    /\ UNCHANGED keyboard

DesktopInit ==
    /\ EngineInit
    /\ window \in Windows
    /\ home = [t \in 1 .. MaxTyped |-> Nowhere]
    /\ got = <<>>
    /\ keyboard = [down |-> FALSE, last |-> 0]

DesktopNext ==
    \/ \E e \in Events : KeyHere(e) \/ KeyElsewhere(e)
    \/ CallHere
    \/ \E w \in Windows : FocusWindow(w)

DesktopSpec == DesktopInit /\ [][DesktopNext]_desktopVars

-----------------------------------------------------------------------------
(* Properties                                                              *)

\* What is typed in a window goes to that window, though the composition of
\* one window is still in the engine when the next one gets the focus.
TextStaysHome == \A i \in DOMAIN taken : got[i] = home[taken[i]]

-----------------------------------------------------------------------------
(* What a comment says and the code does not do                            *)

\* self_handle_shift: "keyLast != Shift means Shift is just part of
\* combination, thus should not be recognized as single Shift key": a Shift
\* that comes up switches the language only when the key struck before was a
\* Shift, too.
CombinationIsNoShift ==
    [][\A e \in Events :
          /\ e.sym \in ShiftKeys
          /\ keyboard.last \notin ShiftKeys
          /\ self'.ctx.chi # self.ctx.chi
          => ~KeyHere(e)]_desktopVars
=============================================================================
