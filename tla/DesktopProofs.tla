--------------------------- MODULE DesktopProofs ---------------------------
(***************************************************************************)
(* Windows and a keyboard around the engine take nothing away from what is *)
(* proved of it: the daemon calls it in ways the engine alone allows for.  *)
(***************************************************************************)
EXTENDS Desktop, EngineProofs

\* Each call for a window is a call of the engine, and a key struck elsewhere
\* is none.
LEMMA DesktopStep ==
    ASSUME DesktopNext
    PROVE  EngineNext \/ UNCHANGED engineVars
<1>1. ASSUME NEW e \in Events, KeyHere(e)
      PROVE  EngineNext
  BY <1>1 DEF KeyHere, EngineNext
<1>2. ASSUME NEW e \in Events, KeyElsewhere(e)
      PROVE  UNCHANGED engineVars
  BY <1>2 DEF KeyElsewhere, engineVars
<1>3. CASE CallHere
  BY <1>3 DEF CallHere, EngineNext
<1>4. ASSUME NEW w \in Windows, FocusWindow(w)
      PROVE  EngineNext
  BY <1>4 DEF FocusWindow, EngineNext
<1>5. QED
  BY <1>1, <1>2, <1>3, <1>4 DEF DesktopNext

\* Any number of windows and any use of the keyboard among them are one of the
\* behaviours of the engine.
THEOREM DesktopImplementsEngine == DesktopSpec => EngineSpec
<1>1. DesktopInit => EngineInit
  BY DEF DesktopInit
<1>2. [DesktopNext]_desktopVars => [EngineNext]_engineVars
  <2>1. UNCHANGED desktopVars => UNCHANGED engineVars
    BY DEF desktopVars
  <2>2. QED
    BY <2>1, DesktopStep
<1>3. QED
  BY <1>1, <1>2, PTL DEF DesktopSpec, EngineSpec

\* In every window the screen, the language bar and the choice list tell the
\* truth about the engine they share.
THEOREM EveryWindowTruthful ==
    DesktopSpec => []PanelShowsAllText /\ []LabelsTruthful /\ []OpenListOnScreen
BY DesktopImplementsEngine, PanelAlwaysShowsAllText, LabelsAlwaysTruthful,
   OpenListAlwaysOnScreen, PTL

\* The text of one window's composition reaches no application twice, whichever
\* window has the focus when it is sent.
THEOREM EveryWindowTextOnce == DesktopSpec => []AppTextOnce
BY DesktopImplementsEngine, AppTextAlwaysOnce, PTL

\* Nor do whole characters change their order on the way, or wait behind the
\* focus: the windows together are served one stream of text.
THEOREM EveryWindowTextStream == DesktopSpec => DeliversOnScreenText
BY DesktopImplementsEngine, EngineImplementsTextStream, PTL

\* No text is lost from one window to the next either, unless the user erased
\* it or the focus went with it, where plain Zhuyin is off.
THEOREM EveryWindowLosesNothing ==
    ASSUME \A c \in Configs : ~c.plain
    PROVE  DesktopSpec => NothingLost
BY DesktopImplementsEngine, EngineLosesNothing, PTL

\* One light serves the language of the engine in every window.
THEOREM EveryWindowLight ==
    ASSUME UsualKeyboard
    PROVE  DesktopSpec => LightFollowsLanguage
BY DesktopImplementsEngine, LightAlwaysFollowsLanguage, PTL

-----------------------------------------------------------------------------
(* Whose text it is                                                        *)

\* The characters typed in the window that has, or last had, the focus.
Homed == {t \in 1 .. typed : home[t] = window}

\* That what is delivered stays home is not inductive: what the engine holds
\* for a focused window must be that window's as well.
HomeInv ==
    /\ EngineTextInv
    /\ typed \in 0 .. MaxTyped
    /\ home \in [1 .. MaxTyped -> Windows \cup {Nowhere}]
    /\ window \in Windows
    /\ got \in Seq(Windows) /\ Len(got) = Len(taken)
    /\ TextStaysHome
    /\ Has(FOCUS_IN) => Whole(self, Elements(taken), Elements(taken) \cup Homed)

LEMMA DesktopInitHome == DesktopInit => HomeInv
<1> SUFFICES ASSUME DesktopInit PROVE HomeInv
  OBVIOUS
<1>1. EngineTextInv
  BY EngineInitTextInv DEF DesktopInit
<1>2. /\ typed = 0 /\ taken = <<>> /\ got = <<>> /\ window \in Windows
      /\ home = [t \in 1 .. MaxTyped |-> Nowhere] /\ ~Has(FOCUS_IN)
  BY DEF DesktopInit, EngineInit, Init, Has, has_flag, INITIALIZED, FOCUS_IN
<1>3. typed \in 0 .. MaxTyped
  BY <1>2, PreEditAssumption
<1>4. got \in Seq(Windows) /\ Len(got) = Len(taken) /\ DOMAIN taken = {}
  BY <1>2, EmptySeq
<1>5. home \in [1 .. MaxTyped -> Windows \cup {Nowhere}]
  BY <1>2
<1>6. QED
  BY <1>1, <1>2, <1>3, <1>4, <1>5 DEF HomeInv, TextStaysHome

\* Text that goes to the window it was typed in: `sent` is what a call commits.
LEMMA SentHome ==
    ASSUME HomeInv, NEW w \in Windows, InWindow(w), NEW sent \in Seq(Nat),
           taken' = taken \o sent, typed' \in {typed, typed + 1}, typed' <= MaxTyped,
           \A x \in Elements(sent) : x \in 1 .. typed' /\ home'[x] = w
    PROVE  /\ typed' \in 0 .. MaxTyped
           /\ home' \in [1 .. MaxTyped -> Windows \cup {Nowhere}]
           /\ \A x \in 1 .. typed : home'[x] = home[x]
           /\ typed' # typed => home'[typed'] = w
           /\ window' \in Windows
           /\ got' \in Seq(Windows) /\ Len(got') = Len(taken')
           /\ TextStaysHome'
<1> DEFINE new == [i \in 1 .. Len(taken') - Len(taken) |-> w]
<1>1. /\ typed \in 0 .. MaxTyped /\ MaxTyped \in Nat
      /\ home \in [1 .. MaxTyped -> Windows \cup {Nowhere}]
      /\ taken \in Seq(Nat) /\ Elements(taken) \subseteq 1 .. typed
      /\ got \in Seq(Windows) /\ Len(got) = Len(taken)
  BY PreEditAssumption DEF HomeInv, EngineTextInv
<1>2. /\ window' = w
      /\ home' = IF typed' > typed THEN [home EXCEPT ![typed'] = w] ELSE home
      /\ got' = got \o new
  BY DEF InWindow
<1>3. typed' \in 0 .. MaxTyped /\ (typed' # typed => typed' > typed /\ typed' \in 1 .. MaxTyped)
  BY <1>1
<1>4. /\ home' \in [1 .. MaxTyped -> Windows \cup {Nowhere}]
      /\ \A x \in 1 .. typed : home'[x] = home[x]
      /\ typed' # typed => home'[typed'] = w
  BY <1>1, <1>2, <1>3
<1>5. /\ Len(taken) \in Nat /\ Len(sent) \in Nat /\ Len(taken') = Len(taken) + Len(sent)
      /\ \A i \in 1 .. Len(taken) + Len(sent) :
            taken'[i] = IF i <= Len(taken) THEN taken[i] ELSE sent[i - Len(taken)]
      /\ DOMAIN taken' = 1 .. Len(taken) + Len(sent)
  BY <1>1, ConcatProperties, LenProperties
<1>6. new \in Seq(Windows) /\ Len(new) = Len(sent)
      /\ \A i \in 1 .. Len(sent) : new[i] = w
  <2>1. new = [i \in 1 .. Len(sent) |-> w]
    BY <1>5
  <2>2. QED
    BY <1>5, <2>1
<1> HIDE DEF new
<1>7. /\ got' \in Seq(Windows) /\ Len(got') = Len(taken')
      /\ \A i \in 1 .. Len(taken) + Len(sent) :
            got'[i] = IF i <= Len(taken) THEN got[i] ELSE new[i - Len(taken)]
  <2> DEFINE both == got \o new
  <2>a. got \in Seq(Windows) /\ new \in Seq(Windows)
    BY <1>1, <1>6
  <2>1. /\ both \in Seq(Windows) /\ Len(both) = Len(got) + Len(new)
        /\ \A i \in 1 .. Len(got) + Len(new) :
              both[i] = IF i <= Len(got) THEN got[i] ELSE new[i - Len(got)]
    BY <2>a, ConcatProperties
  <2> HIDE DEF both
  <2>2. Len(got) = Len(taken) /\ Len(new) = Len(sent) /\ got' = both
    BY <1>1, <1>2, <1>6 DEF both
  <2>3. QED
    BY <1>5, <2>1, <2>2
<1>8. ASSUME NEW i \in DOMAIN taken'
      PROVE  got'[i] = home'[taken'[i]]
  <2>1. i \in 1 .. Len(taken) + Len(sent)
    BY <1>5
  <2>2. CASE i <= Len(taken)
    <3>1. i \in 1 .. Len(taken) /\ taken'[i] = taken[i] /\ got'[i] = got[i]
      BY <1>5, <1>7, <2>1, <2>2
    <3>2. DOMAIN taken = 1 .. Len(taken)
      BY <1>1, LenProperties
    <3>3. taken[i] \in 1 .. typed /\ got[i] = home[taken[i]]
      BY <1>1, <3>1, <3>2 DEF HomeInv, TextStaysHome, Elements
    <3>4. QED
      BY <1>4, <3>1, <3>3
  <2>3. CASE ~(i <= Len(taken))
    <3> DEFINE j == i - Len(taken)
    <3>1. j \in 1 .. Len(sent) /\ taken'[i] = sent[j] /\ got'[i] = new[j]
      BY <1>5, <1>7, <2>1, <2>3
    <3> HIDE DEF j
    <3>2. sent[j] \in Elements(sent)
      BY <3>1, ElementsOfSeq
    <3>3. QED
      BY <1>6, <3>1, <3>2
  <2>4. QED
    BY <2>2, <2>3
<1>9. QED
  BY <1>2, <1>3, <1>4, <1>7, <1>8 DEF TextStaysHome

\* A call that begins no character and sends none, for whatever window.
LEMMA SilentHome ==
    ASSUME HomeInv, EngineTextInv', NEW w \in Windows, InWindow(w),
           UNCHANGED <<typed, taken>>,
           has_flag(statusFlags', FOCUS_IN) =>
              Whole(self', Elements(taken), Elements(taken) \cup {t \in 1 .. typed : home[t] = w})
    PROVE  HomeInv'
<1>1. taken \in Seq(Nat) /\ typed \in 0 .. MaxTyped /\ MaxTyped \in Nat
  BY PreEditAssumption DEF HomeInv, EngineTextInv
<1> DEFINE nil == <<>>
<1>2. nil \in Seq(Nat) /\ Elements(nil) = {} /\ taken' = taken \o nil
  BY <1>1, NothingOnce, EmptySeq, ConcatEmptySeq
<1> HIDE DEF nil
<1>3. /\ typed' \in 0 .. MaxTyped
      /\ home' \in [1 .. MaxTyped -> Windows \cup {Nowhere}]
      /\ window' \in Windows
      /\ got' \in Seq(Windows) /\ Len(got') = Len(taken')
      /\ TextStaysHome'
  <2>1. /\ typed' \in {typed, typed + 1} /\ typed' <= MaxTyped
        /\ \A x \in Elements(nil) : x \in 1 .. typed' /\ home'[x] = w
    BY <1>1, <1>2
  <2>2. QED
    BY <1>2, <2>1, SentHome
<1>4. window' = w /\ home' = home
  BY <1>1 DEF InWindow
<1>5. Has(FOCUS_IN)' => Whole(self', Elements(taken'), Elements(taken') \cup Homed')
  BY <1>4 DEF Homed, Has
<1>6. QED
  BY <1>3, <1>5 DEF HomeInv

\* A key of the focused window, from its keyboard or from its panel.
LEMMA SendKeyHome ==
    ASSUME HomeInv, Has(FOCUS_IN), NEW e \in KeyEvent, SendKey(e), InWindow(window),
           EngineTextInv'
    PROVE  HomeInv'
<1> DEFINE s == process_key(self, cfg, e, typed + 1)
           T == Elements(taken)
           E == T \cup Homed
           F == IF typed' = typed THEN E ELSE E \cup {typed'}
           sent == s.outgoing
<1>1. /\ EngineTextInv /\ typed \in 0 .. MaxTyped /\ T \subseteq 1 .. typed
      /\ window \in Windows
  BY DEF HomeInv, EngineTextInv
<1>2. E \subseteq 1 .. typed /\ Whole(self, T, E)
  BY <1>1 DEF HomeInv, Homed
<1>3. /\ typed' \in {typed, typed + 1} /\ typed' <= MaxTyped
      /\ sent \in Seq(Nat) /\ taken' = taken \o sent
      /\ Elements(sent) \subseteq F \ T
      /\ Elements(taken') \subseteq F
      /\ Whole(self', Elements(taken'), F)
  BY <1>1, <1>2, SendKeyWhole
<1> HIDE DEF s, sent
<1>4. /\ home' = IF typed' > typed THEN [home EXCEPT ![typed'] = window] ELSE home
      /\ home \in [1 .. MaxTyped -> Windows \cup {Nowhere}]
      /\ window' = window
  BY DEF InWindow, HomeInv
<1>5. Homed' = IF typed' = typed THEN Homed ELSE Homed \cup {typed'}
  <2>1. CASE typed' = typed
    BY <1>1, <1>4, <2>1 DEF Homed
  <2>2. CASE typed' # typed
    <3>1. typed' = typed + 1 /\ typed' > typed /\ typed' \in 1 .. MaxTyped
      BY <1>1, <1>3, <2>2
    <3>2. /\ home'[typed'] = window
          /\ \A x \in 1 .. typed : home'[x] = home[x]
      BY <1>1, <1>4, <3>1
    <3>3. 1 .. typed' = (1 .. typed) \cup {typed'}
      BY <1>1, <3>1
    <3>4. QED
      BY <1>4, <2>2, <3>2, <3>3 DEF Homed
  <2>3. QED
    BY <2>1, <2>2
<1>6. F = T \cup Homed' /\ Elements(sent) \subseteq Homed'
  BY <1>3, <1>5
<1>7. \A x \in Elements(sent) : x \in 1 .. typed' /\ home'[x] = window
  BY <1>4, <1>6 DEF Homed
<1>8. /\ typed' \in 0 .. MaxTyped
      /\ home' \in [1 .. MaxTyped -> Windows \cup {Nowhere}]
      /\ window' \in Windows
      /\ got' \in Seq(Windows) /\ Len(got') = Len(taken')
      /\ TextStaysHome'
  BY <1>1, <1>3, <1>7, SentHome
<1>9. Elements(taken') = T \cup Elements(sent)
  BY <1>1, <1>3, ConcatOnce DEF EngineTextInv
<1>10. F = Elements(taken') \cup Homed'
  BY <1>6, <1>9
<1> HIDE DEF F
<1>11. QED
  BY <1>3, <1>8, <1>10 DEF HomeInv

\* What the client commits of the panel is the text of the window left.
LEMMA ScreenHome ==
    ASSUME HomeInv
    PROVE  /\ panel.preEdit \in Seq(Nat)
           /\ \A x \in Elements(panel.preEdit) : x \in 1 .. typed /\ home[x] = window
<1> DEFINE T == Elements(taken)
<1>1. /\ Good(self, cfg) /\ taken \in Seq(Nat) /\ Once(taken) /\ EngineIInv
  BY DEF HomeInv, EngineTextInv, EngineIInv
<1>2. CASE Has(FOCUS_IN)
  <2>1. /\ panel.preEdit = self.outgoing \o self.preEdit
        /\ Whole(self, T, T \cup Homed)
    BY <1>1, <1>2 DEF HomeInv, EngineIInv, TextOnPanel
  <2>2. /\ panel.preEdit \in Seq(Nat)
        /\ Elements(panel.preEdit) \subseteq (T \cup Homed) \ T
    BY <1>1, <2>1, HeldOnce
  <2>3. QED
    BY <2>2 DEF Homed
<1>3. CASE ~Has(FOCUS_IN)
  <2>1. panel.preEdit = <<>>
    BY <1>1, <1>3 DEF EngineIInv, TextOnPanel
  <2>2. QED
    BY <2>1, NothingOnce, EmptySeq
<1>4. QED
  BY <1>2, <1>3

\* The focus leaves, with what was on the screen sent or not.
LEMMA LeavesHome ==
    ASSUME HomeInv, EngineTextInv', InWindow(window), typed' = typed,
           taken' \in {taken, taken \o panel.preEdit},
           ~has_flag(statusFlags', FOCUS_IN)
    PROVE  HomeInv'
<1>1. typed \in 0 .. MaxTyped /\ MaxTyped \in Nat /\ window \in Windows
  BY PreEditAssumption DEF HomeInv
<1>2. CASE taken' = taken
  BY <1>1, <1>2, SilentHome
<1>3. CASE taken' = taken \o panel.preEdit
  <2> DEFINE screen == panel.preEdit
  <2>1. home' = home
    BY <1>1 DEF InWindow
  <2>a. /\ screen \in Seq(Nat) /\ taken' = taken \o screen
        /\ typed' \in {typed, typed + 1} /\ typed' <= MaxTyped
        /\ \A x \in Elements(screen) : x \in 1 .. typed' /\ home'[x] = window
    BY <1>1, <1>3, <2>1, ScreenHome
  <2> HIDE DEF screen
  <2>2. /\ typed' \in 0 .. MaxTyped
        /\ home' \in [1 .. MaxTyped -> Windows \cup {Nowhere}]
        /\ window' \in Windows
        /\ got' \in Seq(Windows) /\ Len(got') = Len(taken')
        /\ TextStaysHome'
    BY <1>1, <2>a, SentHome
  <2>3. QED
    BY <2>2 DEF HomeInv, Has
<1>4. QED
  BY <1>2, <1>3

LEMMA DesktopNextHome == HomeInv /\ [DesktopNext]_desktopVars => HomeInv'
<1> SUFFICES ASSUME HomeInv, [DesktopNext]_desktopVars PROVE HomeInv'
  OBVIOUS
<1>a. /\ EngineTextInv /\ EngineIInv /\ window \in Windows /\ taken \in Seq(Nat)
      /\ Has(FOCUS_IN) <=> has_flag(statusFlags, FOCUS_IN)
      /\ Has(FOCUS_IN) => Whole(self, Elements(taken), Elements(taken) \cup Homed)
  BY DEF HomeInv, EngineTextInv, Has
<1>b. EngineTextInv'
  <2>1. UNCHANGED desktopVars => UNCHANGED engineVars
    BY DEF desktopVars
  <2>2. QED
    BY <1>a, <2>1, DesktopStep, EngineNextTextInv
<1>1. ASSUME NEW e \in Events, KeyHere(e)
      PROVE  HomeInv'
  <2>1. ProcessKeyEvent(e) /\ InWindow(window) /\ Has(FOCUS_IN)
    BY <1>1 DEF KeyHere, ProcessKeyEvent, Focused
  <2>2. CASE Has(IS_PASSWORD)
    <3>1. UNCHANGED <<self, typed, taken>>
      BY <2>1, <2>2 DEF ProcessKeyEvent
    <3>2. QED
      BY <1>a, <1>b, <2>1, <3>1, SilentHome DEF Homed
  <2>3. CASE ~Has(IS_PASSWORD)
    <3>1. PICK system \in SystemLayouts : SendKey(key_code_to_key_sym(e, system))
      BY <2>1, <2>3 DEF ProcessKeyEvent
    <3>2. key_code_to_key_sym(e, system) \in KeyEvent
      BY PreEditAssumption, EngineAssumption DEF key_code_to_key_sym
    <3>3. QED
      BY <1>b, <2>1, <3>1, <3>2, SendKeyHome
  <2>4. QED
    BY <2>2, <2>3
<1>2. ASSUME NEW e \in Events, KeyElsewhere(e)
      PROVE  HomeInv'
  BY <1>2, <1>b DEF KeyElsewhere, engineVars, HomeInv, TextStaysHome, Homed, Has
<1>3. CASE CallHere
  <2>1. DaemonCall /\ InWindow(window)
    BY <1>3 DEF CallHere
  <2>2. ASSUME NEW e \in PanelButtons, PanelButton(e)
        PROVE  HomeInv'
    BY <1>b, <2>1, <2>2, ButtonIsKey, SendKeyHome DEF PanelButton, Focused
  <2>3. ASSUME NEW i \in 1 .. Len(SelKeys), CandidateClicked(i)
        PROVE  HomeInv'
    <3>1. SelKeys[i] \in KeyEvent
      BY EngineAssumption, ElementOfSeq
    <3>2. QED
      BY <1>b, <2>1, <2>3, <3>1, SendKeyHome DEF CandidateClicked, Focused
  <2>4. CASE ActivateInputMode \/ ActivateAlnumSize \/ Reset
    <3>1. Has(FOCUS_IN)
      BY <2>4 DEF ActivateInputMode, ActivateAlnumSize, Reset, Focused
    <3>2. /\ UNCHANGED <<typed, taken>>
          /\ Whole(self', Elements(taken), Elements(taken) \cup Homed)
      BY <1>a, <2>4, <3>1, CallWhole
    <3>3. QED
      BY <1>a, <1>b, <2>1, <3>2, SilentHome DEF Homed
  <2>5. CASE FocusOut
    <3>1. taken' = taken \o panel.preEdit /\ typed' = typed
      BY <2>5 DEF FocusOut
    <3>2. QED
      BY <1>a, <1>b, <2>1, <2>5, <3>1, FocusGone, LeavesHome
  <2>6. ASSUME NEW c \in Configs, NEW m \in SyncModes, Restart(c, m)
        PROVE  HomeInv'
    <3>1. /\ taken' \in {taken, taken \o panel.preEdit} /\ typed' = typed
          /\ ~has_flag(statusFlags', FOCUS_IN)
      BY <2>6 DEF Restart, INITIALIZED, FOCUS_IN, has_flag
    <3>2. QED
      BY <1>b, <2>1, <3>1, LeavesHome
  <2>7. ASSUME \/ \E c \in Configs, m \in SyncModes : Enable(c, m)
               \/ Disable
               \/ \E purpose \in Purposes : SetContentType(purpose)
               \/ \E caps \in Capabilities : SetCapabilities(caps)
               \/ CapsLockElsewhere
        PROVE  HomeInv'
    <3>1. /\ UNCHANGED <<typed, taken>>
          /\ has_flag(statusFlags', FOCUS_IN) => Has(FOCUS_IN) /\ self' = self
      BY <1>a, <2>7, FlagCall
    <3>2. QED
      BY <1>a, <1>b, <2>1, <3>1, SilentHome DEF Homed
  <2>8. QED
    BY <2>1, <2>2, <2>3, <2>4, <2>5, <2>6, <2>7 DEF DaemonCall
<1>4. ASSUME NEW w \in Windows, FocusWindow(w)
      PROVE  HomeInv'
  <2>1. PICK c \in Configs, m \in SyncModes : FocusIn(c, m)
    BY <1>4 DEF FocusWindow
  <2>2. InWindow(w)
    BY <1>4 DEF FocusWindow
  <2> DEFINE E == Elements(taken) \cup {t \in 1 .. typed : home[t] = w}
  <2>3. UNCHANGED <<typed, taken>> /\ Whole(self', Elements(taken), E)
    BY <1>a, <2>1, FocusInEmpty
  <2>4. QED
    BY <1>b, <2>2, <2>3, SilentHome
<1>5. CASE UNCHANGED desktopVars
  BY <1>5, <1>b
     DEF desktopVars, deskVars, engineVars, HomeInv, TextStaysHome, Homed, Has
<1>6. QED
  BY <1>1, <1>2, <1>3, <1>4, <1>5 DEF DesktopNext

\* Though one composition serves all windows, what is typed in a window reaches
\* that window or none, for any number of windows: it leaves with the focus, and
\* focus_in clears the engine's copy before the next window is served.
THEOREM TextAlwaysStaysHome == DesktopSpec => []TextStaysHome
<1>1. DesktopSpec => []HomeInv
  BY DesktopInitHome, DesktopNextHome, PTL DEF DesktopSpec
<1>2. HomeInv => TextStaysHome
  BY DEF HomeInv
<1>3. QED
  BY <1>1, <1>2, PTL
=============================================================================
