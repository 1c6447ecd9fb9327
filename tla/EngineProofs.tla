---------------------------- MODULE EngineProofs ----------------------------
(***************************************************************************)
(* What the user sees is what the engine has, for every set of key events, *)
(* settings, keyboard layouts, input purposes and client capabilities, and *)
(* without a bound on what is typed but MaxTyped itself.                   *)
(***************************************************************************)
EXTENDS Engine, PreEditStreamProofs, WellFoundedInduction

-----------------------------------------------------------------------------
(* statusFlags                                                             *)

EngineFlags == {ENGINE_ENABLED, FOCUS_IN, IS_PASSWORD, PROPERTIES_REGISTERED}

\* Setting or clearing a flag of the engine moves no other.
LEMMA FlagSet ==
    ASSUME NEW x \in Nat, NEW f \in EngineFlags
    PROVE  /\ set_flag(x, f) \in Nat
           /\ has_flag(set_flag(x, f), f)
           /\ \A g \in EngineFlags \ {f} : has_flag(set_flag(x, f), g) <=> has_flag(x, g)
<1>1. f \in {2, 4, 8, 16} /\ EngineFlags = {2, 4, 8, 16}
  BY DEF EngineFlags, ENGINE_ENABLED, FOCUS_IN, IS_PASSWORD, PROPERTIES_REGISTERED
<1>2. CASE f = 2
  BY <1>1, <1>2 DEF set_flag, has_flag
<1>3. CASE f = 4
  BY <1>1, <1>3 DEF set_flag, has_flag
<1>4. CASE f = 8
  BY <1>1, <1>4 DEF set_flag, has_flag
<1>5. CASE f = 16
  BY <1>1, <1>5 DEF set_flag, has_flag
<1>6. QED
  BY <1>1, <1>2, <1>3, <1>4, <1>5

LEMMA FlagCleared ==
    ASSUME NEW x \in Nat, NEW f \in EngineFlags
    PROVE  /\ clear_flag(x, f) \in Nat
           /\ ~has_flag(clear_flag(x, f), f)
           /\ \A g \in EngineFlags \ {f} : has_flag(clear_flag(x, f), g) <=> has_flag(x, g)
<1>1. f \in {2, 4, 8, 16} /\ EngineFlags = {2, 4, 8, 16}
  BY DEF EngineFlags, ENGINE_ENABLED, FOCUS_IN, IS_PASSWORD, PROPERTIES_REGISTERED
<1>2. CASE f = 2
  BY <1>1, <1>2 DEF clear_flag, has_flag
<1>3. CASE f = 4
  BY <1>1, <1>3 DEF clear_flag, has_flag
<1>4. CASE f = 8
  BY <1>1, <1>4 DEF clear_flag, has_flag
<1>5. CASE f = 16
  BY <1>1, <1>5 DEF clear_flag, has_flag
<1>6. QED
  BY <1>1, <1>2, <1>3, <1>4, <1>5

\* set_capabilities: the client's word comes in above the engine's flags.
LEMMA CapabilitiesAbove ==
    ASSUME NEW x \in Nat, NEW caps \in Nat
    PROVE  LET y == (x % CAP_PREEDIT_TEXT) + caps * CAP_PREEDIT_TEXT
           IN  /\ y \in Nat
               /\ \A g \in EngineFlags : has_flag(y, g) <=> has_flag(x, g)
<1> DEFINE y == (x % 32) + caps * 32
<1>1. EngineFlags = {2, 4, 8, 16} /\ CAP_PREEDIT_TEXT = 32
  BY DEF EngineFlags, ENGINE_ENABLED, FOCUS_IN, IS_PASSWORD, PROPERTIES_REGISTERED,
         CAP_PREEDIT_TEXT
<1>2. y \in Nat
  OBVIOUS
<1>3. has_flag(y, 2) <=> has_flag(x, 2)
  BY DEF has_flag
<1>4. has_flag(y, 4) <=> has_flag(x, 4)
  BY DEF has_flag
<1>5. has_flag(y, 8) <=> has_flag(x, 8)
  BY DEF has_flag
<1>6. has_flag(y, 16) <=> has_flag(x, 16)
  BY DEF has_flag
<1> HIDE DEF y
<1>7. QED
  BY <1>1, <1>2, <1>3, <1>4, <1>5, <1>6 DEF y

LEMMA FlagNames ==
    /\ {ENGINE_ENABLED, FOCUS_IN, IS_PASSWORD, PROPERTIES_REGISTERED} = EngineFlags
    /\ FOCUS_IN # ENGINE_ENABLED /\ FOCUS_IN # PROPERTIES_REGISTERED
    /\ FOCUS_IN # IS_PASSWORD /\ ENGINE_ENABLED # PROPERTIES_REGISTERED
    /\ IS_PASSWORD # ENGINE_ENABLED /\ IS_PASSWORD # PROPERTIES_REGISTERED
BY DEF EngineFlags, ENGINE_ENABLED, FOCUS_IN, IS_PASSWORD, PROPERTIES_REGISTERED

-----------------------------------------------------------------------------
(* The methods the engine calls                                            *)

\* Flushing the syllable moves text to outgoing and loses none.
LEMMA FlushKeeps ==
    ASSUME NEW s, NEW g, Good(s, g)
    PROVE  LET f == FlushSyllable(s)
           IN  /\ Good(f, g)
               /\ f.outgoing \o f.preEdit = s.outgoing \o s.preEdit
               /\ f.ctx.chi = s.ctx.chi /\ f.ctx.full = s.ctx.full
               /\ f.ctx.cand \in {s.ctx.cand, "none"}
<1> DEFINE all == s.outgoing \o s.preEdit
           nil == <<>>
<1>1. all \in Seq(Nat) /\ Loose(s, g)
  BY ConcatProperties DEF Good, Loose, PreEditStruct
<1>2. all \o nil = all
  BY <1>1, ConcatEmptySeq
<1> HIDE DEF all
<1>3. CASE FlushSyllable(s) = s
  BY <1>3 DEF all
<1>4. CASE FlushSyllable(s) = force_commit(s)
  BY <1>1, <1>2, <1>4, ForceCommitGood, ForceCommitMoves DEF all
<1>5. QED
  BY <1>3, <1>4 DEF FlushSyllable

LEMMA ToggleKeeps ==
    ASSUME NEW s, NEW g, Good(s, g)
    PROVE  LET t == toggle_chi_eng_mode(s)
           IN  /\ Good(t, g)
               /\ t.outgoing \o t.preEdit = s.outgoing \o s.preEdit
               /\ t.ctx.full = s.ctx.full
               /\ t.ctx.cand \in {s.ctx.cand, "none"}
<1> DEFINE f == FlushSyllable(s)
           c == [f.ctx EXCEPT !.chi = ~@]
           t == toggle_chi_eng_mode(s)
<1>1. /\ Good(f, g)
      /\ f.outgoing \o f.preEdit = s.outgoing \o s.preEdit
      /\ f.ctx.full = s.ctx.full /\ f.ctx.cand \in {s.ctx.cand, "none"}
  BY FlushKeeps
<1>2. t = WithContext(f, c)
  BY DEF toggle_chi_eng_mode
<1> HIDE DEF f, t
<1>3. f \in PreEditStruct /\ f.ctx \in Context
  BY <1>1 DEF Good, Loose, ContextOK
<1>4. c.full = f.ctx.full /\ c.cand = f.ctx.cand
  BY <1>3 DEF Context
<1> HIDE DEF c
<1>5. t.ctx = c /\ t.outgoing = f.outgoing /\ t.preEdit = f.preEdit
  BY <1>2, <1>3 DEF WithContext, PreEditStruct
<1>6. Good(t, g)
  BY TogglesGood DEF t
<1>7. QED
  BY <1>1, <1>4, <1>5, <1>6 DEF t

\* The language never switches with a syllable under way.
LEMMA ToggleEndsSyllable ==
    ASSUME NEW s, NEW g, Good(s, g)
    PROVE  toggle_chi_eng_mode(s).ctx.bpmf = <<>>
<1> DEFINE f == FlushSyllable(s)
<1>1. Good(f, g) /\ f.ctx.bpmf = <<>>
  BY FlushGood
<1> HIDE DEF f
<1>2. f \in PreEditStruct /\ f.ctx \in Context
  BY <1>1 DEF Good, Loose, ContextOK
<1>3. WithContext(f, [f.ctx EXCEPT !.chi = ~@]).ctx.bpmf = <<>>
  BY <1>1, <1>2 DEF WithContext, PreEditStruct, Context
<1>4. QED
  BY <1>3 DEF toggle_chi_eng_mode, f

\* The full width button, which flushes nothing.
LEMMA WidthKeeps ==
    ASSUME NEW s, NEW g, Good(s, g)
    PROVE  LET w == WithContext(s, [s.ctx EXCEPT !.full = ~@])
           IN  /\ Good(w, g)
               /\ w.outgoing = s.outgoing /\ w.preEdit = s.preEdit
               /\ w.ctx.chi = s.ctx.chi /\ w.ctx.cand = s.ctx.cand
<1> DEFINE c == [s.ctx EXCEPT !.full = ~@]
           w == WithContext(s, c)
<1>1. s \in PreEditStruct /\ s.ctx \in Context
  BY DEF Good, Loose, ContextOK
<1>2. /\ c \in Context /\ c.buf = s.ctx.buf /\ c.bpmf = s.ctx.bpmf
      /\ c.cursor = s.ctx.cursor /\ c.esc = s.ctx.esc /\ c.easy = s.ctx.easy
      /\ c.max = s.ctx.max /\ c.check = s.ctx.check /\ c.cand = s.ctx.cand
      /\ c.chi = s.ctx.chi
  BY <1>1 DEF Context
<1>3. Shown(c) = Shown(s.ctx)
  BY <1>2 DEF Shown
<1> HIDE DEF c
<1>4. /\ w \in PreEditStruct /\ w.ctx = c /\ w.preEdit = s.preEdit
      /\ w.bpmfLen = s.bpmfLen /\ w.wordLen = s.wordLen
      /\ w.updated = s.updated /\ w.table = s.table /\ w.outgoing = s.outgoing
  BY <1>1, <1>2 DEF WithContext, PreEditStruct
<1> HIDE DEF w
<1>5. Good(w, g)
  BY <1>2, <1>3, <1>4 DEF Good, Loose, Mirrors, Settled, ContextOK
<1>6. QED
  BY <1>2, <1>4, <1>5 DEF w, c

\* restore_mode changes the language without looking at the syllable.
LEMMA RestoredBare ==
    ASSUME NEW s, NEW g, Good(s, g), NEW m, led \in BOOLEAN
    PROVE  Bare(RestoredMode(s, m), g)
<1> DEFINE c == [s.ctx EXCEPT !.chi = ~led]
<1>1. Bare(s, g)
  BY LooseIsBare DEF Good
<1>2. /\ ContextOK(c)
      /\ c.esc = s.ctx.esc /\ c.easy = s.ctx.easy /\ c.max = s.ctx.max
  BY <1>1 DEF Bare, ContextOK, Context
<1> HIDE DEF c
<1>3. Bare(WithContext(s, c), g)
  BY <1>1, <1>2 DEF Bare, ContextOK, WithContext, PreEditStruct
<1>4. QED
  BY <1>1, <1>3 DEF RestoredMode, c

\* commit_text leaves nothing behind.
LEMMA OutgoingCleared ==
    ASSUME NEW s, NEW g, Good(s, g)
    PROVE  LET r == clear_outgoing(s)
           IN  /\ Good(r, g) /\ r.outgoing = <<>>
               /\ r.preEdit = s.preEdit /\ r.ctx = s.ctx /\ r.table = s.table
               /\ r.outgoing \o r.preEdit = r.preEdit
<1> DEFINE r == clear_outgoing(s)
<1>1. s \in PreEditStruct
  BY DEF Good, Loose
<1>2. /\ r.outgoing = <<>> /\ r.preEdit = s.preEdit /\ r.ctx = s.ctx
      /\ r.table = s.table
  BY <1>1 DEF clear_outgoing, PreEditStruct
<1>3. Good(r, g)
  BY EmptySeq, OutgoingLoose DEF clear_outgoing, Good
<1>4. <<>> \o s.preEdit = s.preEdit
  BY <1>1, ConcatEmptySeq DEF PreEditStruct
<1>5. QED
  BY <1>2, <1>3, <1>4

-----------------------------------------------------------------------------
(* The inductive invariant                                                 *)

\* PanelShowsAllText, also without the focus: then the client has taken the
\* text down.
TextOnPanel ==
    /\ Has(FOCUS_IN) => panel.preEdit = self.outgoing \o self.preEdit
    /\ ~Has(FOCUS_IN) => panel.preEdit = <<>>

ListOnPanel == Has(FOCUS_IN) /\ self.ctx.cand # "none" => panel.list

PanelFields == {"preEdit", "list", "chi", "full"}

\* The structure, then the flags, then what the panel owes to both.
EngineIInv ==
    /\ Good(self, cfg)
    /\ cfg \in Configs
    /\ typed \in Nat
    /\ led \in BOOLEAN
    /\ statusFlags \in Nat
    /\ Has(FOCUS_IN) => Has(ENGINE_ENABLED)
    /\ DOMAIN panel = PanelFields
    /\ TextOnPanel
    /\ ListOnPanel
    /\ LabelsTruthful

\* An engine that has just been made.
LEMMA BlankGood ==
    ASSUME cfg' \in Configs, self' = NewPreEdit(cfg'), statusFlags' = INITIALIZED,
           panel' = BlankPanel, typed' \in Nat, led' \in BOOLEAN
    PROVE  EngineIInv'
<1>1. /\ Good(self', cfg') /\ self'.ctx.chi = TRUE /\ self'.ctx.full = FALSE
  BY NewGood
<1>2. /\ statusFlags' \in Nat
      /\ ~has_flag(statusFlags', FOCUS_IN)
      /\ ~has_flag(statusFlags', PROPERTIES_REGISTERED)
  BY DEF INITIALIZED, FOCUS_IN, PROPERTIES_REGISTERED, has_flag
<1>3. /\ DOMAIN panel' = PanelFields /\ panel'.preEdit = <<>>
      /\ panel'.chi = TRUE /\ panel'.full = FALSE
  BY DEF BlankPanel, PanelFields
<1>4. QED
  BY <1>1, <1>2, <1>3
     DEF EngineIInv, Has, TextOnPanel, ListOnPanel, LabelsTruthful

LEMMA EngineInitIInv == EngineInit => EngineIInv
<1> SUFFICES ASSUME EngineInit PROVE EngineIInv
  OBVIOUS
<1>1. /\ Good(self, cfg) /\ cfg \in Configs
      /\ self.ctx.chi = TRUE /\ self.ctx.full = FALSE
  BY NewGood DEF EngineInit, Init
<1>2. /\ statusFlags \in Nat
      /\ ~has_flag(statusFlags, FOCUS_IN)
      /\ ~has_flag(statusFlags, PROPERTIES_REGISTERED)
  BY DEF EngineInit, INITIALIZED, FOCUS_IN, PROPERTIES_REGISTERED, has_flag
<1>3. /\ DOMAIN panel = PanelFields /\ panel.preEdit = <<>>
      /\ panel.chi = TRUE /\ panel.full = FALSE
  BY DEF EngineInit, BlankPanel, PanelFields
<1>4. typed \in Nat /\ led \in BOOLEAN
  BY DEF EngineInit, Init
<1>5. QED
  BY <1>1, <1>2, <1>3, <1>4
     DEF EngineIInv, Has, TextOnPanel, ListOnPanel, LabelsTruthful

LEMMA ButtonIsKey ==
    ASSUME NEW e \in PanelButtons
    PROVE  e \in KeyEvent
<1>1. PICK k \in {KeyPageUp, KeyPageDown, KeyUp, KeyDown} :
         e = [sym |-> k, mods |-> {}, released |-> FALSE, kind |-> "none",
              choices |-> TRUE]
  BY DEF PanelButtons
<1>2. k \in Nat
  BY DEF KeyPageUp, KeyPageDown, KeyUp, KeyDown
<1>3. "none" \in Kinds /\ {} \in SUBSET Mods
  BY DEF Kinds
<1>4. QED
  BY <1>1, <1>2, <1>3 DEF KeyEvent

\* A click on a candidate is a printable key.
LEMMA SelKeyIsKey ==
    ASSUME NEW i \in 1 .. Len(SelKeys)
    PROVE  SelKeys[i] \in KeyEvent /\ SelKeys[i].sym \in 33 .. 126
<1>1. SelKeys[i] \in KeyEvent
  BY EngineAssumption, ElementOfSeq
<1>2. i \in DOMAIN SelKeys
  BY EngineAssumption, LenProperties
<1>3. QED
  BY <1>1, <1>2, SelKeysAssumption

\* A key, from the keyboard or from the panel, ends in self_update.
LEMMA SendKeyGood ==
    ASSUME EngineIInv, Has(FOCUS_IN), NEW e \in KeyEvent, SendKey(e),
           cfg' = cfg, led' \in BOOLEAN
    PROVE  EngineIInv'
<1> DEFINE s == process_key(self, cfg, e, typed + 1)
<1>1. Good(s, cfg) /\ typed + 1 \in Nat
  BY ProcessKeyGood DEF EngineIInv
<1>2. /\ panel' = Redrawn(s) /\ self' = clear_outgoing(s)
      /\ statusFlags' = set_flag(statusFlags, PROPERTIES_REGISTERED)
      /\ typed' \in {typed, typed + 1}
  BY DEF SendKey, Update, CommitText
<1> HIDE DEF s
<1>3. /\ Good(self', cfg) /\ self'.ctx = s.ctx /\ self'.table = s.table
      /\ self'.preEdit = s.preEdit /\ self'.outgoing \o self'.preEdit = self'.preEdit
  BY <1>1, <1>2, OutgoingCleared
<1>4. /\ DOMAIN panel' = PanelFields
      /\ panel'.preEdit = s.preEdit /\ panel'.list = s.table
      /\ panel'.chi = s.ctx.chi /\ panel'.full = s.ctx.full
  BY <1>2 DEF Redrawn, PanelFields
<1>5. /\ statusFlags' \in Nat /\ has_flag(statusFlags', FOCUS_IN)
      /\ has_flag(statusFlags', ENGINE_ENABLED)
  BY <1>2, FlagSet, FlagNames DEF EngineIInv, Has
<1>6. s.ctx.cand # "none" => s.table
  BY <1>1 DEF Good
<1>7. QED
  BY <1>1, <1>2, <1>3, <1>4, <1>5, <1>6
     DEF EngineIInv, Has, TextOnPanel, ListOnPanel, LabelsTruthful

\* A call that moves only flags, none of them one the panel depends on.
LEMMA FlagsOnly ==
    ASSUME EngineIInv, UNCHANGED <<self, cfg, typed, panel>>, led' \in BOOLEAN,
           statusFlags' \in Nat,
           \A f \in {FOCUS_IN, PROPERTIES_REGISTERED} :
              has_flag(statusFlags', f) <=> has_flag(statusFlags, f),
           has_flag(statusFlags', FOCUS_IN) => has_flag(statusFlags', ENGINE_ENABLED)
    PROVE  EngineIInv'
BY DEF EngineIInv, Has, TextOnPanel, ListOnPanel, LabelsTruthful

\* Every call of the daemon keeps the invariant.
LEMMA EngineNextIInv == EngineIInv /\ [EngineNext]_engineVars => EngineIInv'
<1> SUFFICES ASSUME EngineIInv, [EngineNext]_engineVars PROVE EngineIInv'
  OBVIOUS
<1>a. /\ Good(self, cfg) /\ self \in PreEditStruct /\ typed \in Nat
      /\ statusFlags \in Nat /\ led \in BOOLEAN /\ DOMAIN panel = PanelFields
  BY DEF EngineIInv, Good, Loose
<1>1. ASSUME NEW e \in Events, ProcessKeyEvent(e)
      PROVE  EngineIInv'
  <2>1. led' \in BOOLEAN /\ cfg' = cfg
    BY <1>1, <1>a DEF ProcessKeyEvent
  <2>2. CASE Has(IS_PASSWORD)
    BY <1>1, <1>a, <2>1, <2>2, FlagsOnly DEF ProcessKeyEvent, EngineIInv, Has
  <2>3. CASE ~Has(IS_PASSWORD)
    <3>1. PICK system \in SystemLayouts : SendKey(key_code_to_key_sym(e, system))
      BY <1>1, <2>3 DEF ProcessKeyEvent
    <3>2. key_code_to_key_sym(e, system) \in KeyEvent
      BY PreEditAssumption, EngineAssumption DEF key_code_to_key_sym
    <3>3. QED
      BY <1>1, <2>1, <3>1, <3>2, SendKeyGood DEF ProcessKeyEvent, Focused
  <2>4. QED
    BY <2>2, <2>3
<1>2. ASSUME NEW e \in PanelButtons, PanelButton(e)
      PROVE  EngineIInv'
  BY <1>2, <1>a, ButtonIsKey, SendKeyGood DEF PanelButton, Focused
<1>3. ASSUME NEW i \in 1 .. Len(SelKeys), CandidateClicked(i)
      PROVE  EngineIInv'
  <2>1. SelKeys[i] \in KeyEvent
    BY EngineAssumption, ElementOfSeq
  <2>2. QED
    BY <1>3, <1>a, <2>1, SendKeyGood DEF CandidateClicked, Focused
<1>4. CASE ActivateInputMode
  <2>1. /\ Good(self', cfg)
        /\ self'.outgoing \o self'.preEdit = self.outgoing \o self.preEdit
        /\ self'.ctx.full = self.ctx.full
        /\ self'.ctx.cand \in {self.ctx.cand, "none"}
    BY <1>4, <1>a, ToggleKeeps DEF ActivateInputMode
  <2>2. self'.ctx.chi \in BOOLEAN
    BY <2>1 DEF Good, Loose, ContextOK, Context
  <2>3. /\ DOMAIN panel' = PanelFields /\ panel'.preEdit = panel.preEdit
        /\ panel'.list = panel.list /\ panel'.full = panel.full
        /\ Has(PROPERTIES_REGISTERED) => panel'.chi = self'.ctx.chi
    BY <1>4, <1>a DEF ActivateInputMode, RefreshInputMode, PanelFields
  <2>4. led' \in BOOLEAN /\ Has(FOCUS_IN) /\ UNCHANGED <<cfg, typed, statusFlags>>
    BY <1>4, <1>a DEF ActivateInputMode, Focused
  <2>5. QED
    BY <2>1, <2>3, <2>4 DEF EngineIInv, Has, TextOnPanel, ListOnPanel, LabelsTruthful
<1>5. CASE ActivateAlnumSize
  <2>1. /\ Good(self', cfg)
        /\ self'.outgoing = self.outgoing /\ self'.preEdit = self.preEdit
        /\ self'.ctx.chi = self.ctx.chi /\ self'.ctx.cand = self.ctx.cand
    BY <1>5, <1>a, WidthKeeps DEF ActivateAlnumSize
  <2>2. /\ DOMAIN panel' = PanelFields /\ panel'.preEdit = panel.preEdit
        /\ panel'.list = panel.list /\ panel'.chi = panel.chi
        /\ Has(PROPERTIES_REGISTERED) => panel'.full = self'.ctx.full
    BY <1>5, <1>a DEF ActivateAlnumSize, RefreshAlnumSize, PanelFields
  <2>3. Has(FOCUS_IN) /\ UNCHANGED <<cfg, typed, statusFlags, led>>
    BY <1>5 DEF ActivateAlnumSize, Focused
  <2>4. QED
    BY <2>1, <2>2, <2>3 DEF EngineIInv, Has, TextOnPanel, ListOnPanel, LabelsTruthful
<1>6. CASE Reset
  <2>1. /\ Good(self', cfg)
        /\ self'.preEdit = <<>> /\ self'.outgoing = <<>> /\ self'.ctx.cand = "none"
        /\ self'.ctx.chi = self.ctx.chi /\ self'.ctx.full = self.ctx.full
    BY <1>6, <1>a, LooseIsBare, ClearGood DEF Reset, Good
  <2>2. /\ DOMAIN panel' = PanelFields /\ panel'.preEdit = <<>>
        /\ panel'.chi = panel.chi /\ panel'.full = panel.full
    BY <1>6, <1>a DEF Reset, PanelFields
  <2>3. self'.outgoing \o self'.preEdit = <<>>
    BY <2>1, EmptySeq, ConcatEmptySeq
  <2>4. Has(FOCUS_IN) /\ UNCHANGED <<cfg, typed, statusFlags, led>>
    BY <1>6 DEF Reset, Focused
  <2>5. QED
    BY <2>1, <2>2, <2>3, <2>4 DEF EngineIInv, Has, TextOnPanel, ListOnPanel, LabelsTruthful
<1>7. ASSUME NEW c \in Configs, NEW m \in SyncModes, Enable(c, m)
      PROVE  EngineIInv'
  <2>1. /\ Good(self', c)
        /\ self'.ctx.chi = self.ctx.chi /\ self'.ctx.full = self.ctx.full
    BY <1>7, <1>a, ConfiguredGood DEF Enable
  <2>2. /\ ~Has(ENGINE_ENABLED) /\ ~Has(FOCUS_IN) /\ cfg' = c
        /\ statusFlags' = set_flag(statusFlags, ENGINE_ENABLED)
        /\ UNCHANGED <<typed, panel, led>>
    BY <1>7 DEF Enable, UseSetting, EngineIInv
  <2>3. /\ statusFlags' \in Nat
        /\ has_flag(statusFlags', FOCUS_IN) <=> has_flag(statusFlags, FOCUS_IN)
        /\ has_flag(statusFlags', PROPERTIES_REGISTERED)
              <=> has_flag(statusFlags, PROPERTIES_REGISTERED)
    BY <1>a, <2>2, FlagSet, FlagNames
  <2>4. QED
    BY <2>1, <2>2, <2>3 DEF EngineIInv, Has, TextOnPanel, ListOnPanel, LabelsTruthful
<1>8. CASE Disable
  <2>1. /\ ~Has(FOCUS_IN) /\ statusFlags' = clear_flag(statusFlags, ENGINE_ENABLED)
        /\ UNCHANGED <<self, cfg, typed, panel, led>>
    BY <1>8 DEF Disable
  <2>2. /\ statusFlags' \in Nat
        /\ has_flag(statusFlags', FOCUS_IN) <=> has_flag(statusFlags, FOCUS_IN)
        /\ has_flag(statusFlags', PROPERTIES_REGISTERED)
              <=> has_flag(statusFlags, PROPERTIES_REGISTERED)
    BY <1>a, <2>1, FlagCleared, FlagNames
  <2>3. QED
    BY <1>a, <2>1, <2>2, FlagsOnly DEF Has
<1>9. ASSUME NEW c \in Configs, NEW m \in SyncModes, FocusIn(c, m)
      PROVE  EngineIInv'
  <2> DEFINE u == use_all_configure(self, c)
             s == RestoredMode(u, m)
             k == clear(s)
  <2>1. Good(u, c)
    BY <1>a, ConfiguredGood
  <2>2. /\ panel' = [panel EXCEPT !.chi = s.ctx.chi, !.full = s.ctx.full]
        /\ self' = clear_outgoing(k) /\ led' = RestoredLed(u, m)
        /\ statusFlags' = set_flag(set_flag(statusFlags, PROPERTIES_REGISTERED), FOCUS_IN)
        /\ ~Has(FOCUS_IN) /\ Has(ENGINE_ENABLED) /\ cfg' = c /\ typed' = typed
    BY <1>9 DEF FocusIn, CommitText, UseSetting
  <2> HIDE DEF u
  <2>3. led' \in BOOLEAN
    BY <1>a, <2>1, <2>2 DEF RestoredLed, Good, Loose, ContextOK, Context
  <2>4. Bare(s, c)
    BY <1>a, <2>1, RestoredBare
  <2> HIDE DEF s
  <2>5. /\ Good(k, c) /\ k.preEdit = <<>> /\ k.ctx.cand = "none"
        /\ k.ctx.chi = s.ctx.chi /\ k.ctx.full = s.ctx.full
    BY <2>4, ClearGood
  <2> HIDE DEF k
  <2>6. /\ Good(self', c) /\ self'.ctx = k.ctx
        /\ self'.outgoing \o self'.preEdit = <<>>
    BY <2>2, <2>5, OutgoingCleared
  <2>7. /\ DOMAIN panel' = PanelFields /\ panel'.preEdit = <<>>
        /\ panel'.chi = s.ctx.chi /\ panel'.full = s.ctx.full
    BY <1>a, <2>2 DEF PanelFields, EngineIInv, TextOnPanel
  <2>8. /\ statusFlags' \in Nat /\ has_flag(statusFlags', FOCUS_IN)
        /\ has_flag(statusFlags', ENGINE_ENABLED)
    <3>1. /\ set_flag(statusFlags, PROPERTIES_REGISTERED) \in Nat
          /\ has_flag(set_flag(statusFlags, PROPERTIES_REGISTERED), ENGINE_ENABLED)
      BY <1>a, <2>2, FlagSet, FlagNames DEF Has
    <3>2. QED
      BY <2>2, <3>1, FlagSet, FlagNames
  <2>9. QED
    BY <1>a, <2>2, <2>3, <2>5, <2>6, <2>7, <2>8
       DEF EngineIInv, Has, TextOnPanel, ListOnPanel, LabelsTruthful
<1>10. CASE FocusOut
  <2> DEFINE f == clear_flag(statusFlags, FOCUS_IN)
  <2>1. /\ statusFlags' = clear_flag(f, PROPERTIES_REGISTERED)
        /\ panel' = [panel EXCEPT !.preEdit = <<>>, !.list = FALSE]
        /\ UNCHANGED <<self, cfg, typed, led>>
    BY <1>10 DEF FocusOut
  <2>2. f \in Nat /\ ~has_flag(f, FOCUS_IN)
    BY <1>a, FlagCleared, FlagNames
  <2> HIDE DEF f
  <2>3. /\ statusFlags' \in Nat /\ ~has_flag(statusFlags', FOCUS_IN)
        /\ ~has_flag(statusFlags', PROPERTIES_REGISTERED)
    BY <2>1, <2>2, FlagCleared, FlagNames
  <2>4. DOMAIN panel' = PanelFields /\ panel'.preEdit = <<>>
    BY <1>a, <2>1 DEF PanelFields
  <2>5. QED
    BY <2>1, <2>3, <2>4 DEF EngineIInv, Has, TextOnPanel, ListOnPanel, LabelsTruthful
<1>11. ASSUME NEW purpose \in Purposes, SetContentType(purpose)
      PROVE  EngineIInv'
  <2>1. /\ statusFlags' \in {set_flag(statusFlags, IS_PASSWORD),
                             clear_flag(statusFlags, IS_PASSWORD)}
        /\ UNCHANGED <<self, cfg, typed, panel, led>>
    BY <1>11 DEF SetContentType
  <2>2. /\ statusFlags' \in Nat
        /\ \A f \in {FOCUS_IN, PROPERTIES_REGISTERED, ENGINE_ENABLED} :
              has_flag(statusFlags', f) <=> has_flag(statusFlags, f)
    <3>1. CASE statusFlags' = set_flag(statusFlags, IS_PASSWORD)
      BY <1>a, <3>1, FlagSet, FlagNames
    <3>2. CASE statusFlags' = clear_flag(statusFlags, IS_PASSWORD)
      BY <1>a, <3>2, FlagCleared, FlagNames
    <3>3. QED
      BY <2>1, <3>1, <3>2
  <2>3. UNCHANGED <<self, cfg, typed, panel, led>>
    BY <2>1
  <2>4. QED
    BY <1>a, <2>2, <2>3, FlagsOnly DEF EngineIInv, Has
<1>12. ASSUME NEW caps \in Capabilities, SetCapabilities(caps)
      PROVE  EngineIInv'
  <2>1. caps \in Nat
    <3>1. Capabilities \subseteq 0 .. 63
      BY EngineAssumption
    <3>2. caps \in 0 .. 63
      BY <3>1
    <3>3. QED
      BY <3>2
  <2>2. /\ statusFlags' = (statusFlags % CAP_PREEDIT_TEXT) + caps * CAP_PREEDIT_TEXT
        /\ UNCHANGED <<self, cfg, typed, panel, led>>
    BY <1>12 DEF SetCapabilities
  <2>3. /\ statusFlags' \in Nat
        /\ \A f \in {FOCUS_IN, PROPERTIES_REGISTERED, ENGINE_ENABLED} :
              has_flag(statusFlags', f) <=> has_flag(statusFlags, f)
    BY <1>a, <2>1, <2>2, CapabilitiesAbove, FlagNames
  <2>4. QED
    BY <1>a, <2>2, <2>3, FlagsOnly DEF EngineIInv, Has
<1>13. CASE CapsLockElsewhere
  BY <1>a, <1>13, FlagsOnly DEF CapsLockElsewhere, EngineIInv, Has
<1>14. ASSUME NEW c \in Configs, NEW m \in SyncModes, Restart(c, m)
      PROVE  EngineIInv'
  BY <1>14, <1>a, BlankGood DEF Restart, UseSetting
<1>15. CASE UNCHANGED engineVars
  BY <1>a, <1>15, FlagsOnly DEF engineVars, EngineIInv, Has
<1>16. QED
  BY <1>1, <1>2, <1>3, <1>4, <1>5, <1>6, <1>7, <1>8, <1>9, <1>10, <1>11, <1>12,
     <1>13, <1>14, <1>15 DEF EngineNext, DaemonCall

LEMMA EngineInvariance == EngineSpec => []EngineIInv
BY EngineInitIInv, EngineNextIInv, PTL DEF EngineSpec

-----------------------------------------------------------------------------
(* What the application gets                                               *)

\* All the text an engine with the focus holds, after all that was sent.
LEMMA HeldOnce ==
    ASSUME NEW p \in Seq(Nat), Once(p), NEW s, NEW g, Good(s, g), NEW E,
           Whole(s, Elements(p), E)
    PROVE  LET q == p \o (s.outgoing \o s.preEdit)
           IN  /\ q \in Seq(Nat) /\ Once(q) /\ Elements(q) \subseteq E
               /\ s.outgoing \o s.preEdit \in Seq(Nat)
               /\ Elements(s.outgoing \o s.preEdit) \subseteq E \ Elements(p)
<1> DEFINE T == Elements(p)
           O == Elements(s.outgoing)
           held == s.outgoing \o s.preEdit
           q == p \o held
<1>1. /\ T \subseteq E /\ s.outgoing \in Seq(Nat) /\ Once(s.outgoing)
      /\ O \subseteq E \ T /\ Clean(s.ctx, E \ (T \cup O))
  BY DEF Good, Loose, PreEditStruct, Whole, Remaining
<1>2. /\ s.preEdit \in Seq(Nat) /\ Once(s.preEdit)
      /\ Elements(s.preEdit) \subseteq E \ (T \cup O)
  BY <1>1, ShownOnce DEF Good
<1>3. Elements(s.outgoing) \cap Elements(s.preEdit) = {}
  BY <1>2
<1>4. /\ held \in Seq(Nat) /\ Once(held)
      /\ Elements(held) = Elements(s.outgoing) \cup Elements(s.preEdit)
  BY <1>1, <1>2, <1>3, ConcatOnce, ConcatProperties
<1> HIDE DEF held
<1>5. Elements(p) \cap Elements(held) = {}
  BY <1>1, <1>2, <1>4
<1>6. /\ q \in Seq(Nat) /\ Once(q)
      /\ Elements(q) = Elements(p) \cup Elements(held)
  BY <1>4, <1>5, ConcatOnce, ConcatProperties
<1>7. Elements(q) \subseteq E /\ Elements(held) \subseteq E \ T
  BY <1>1, <1>2, <1>4, <1>6
<1>8. QED
  BY <1>4, <1>6, <1>7 DEF held

\* commit_text: what waits in outgoing becomes the application's.
LEMMA CommitOnce ==
    ASSUME NEW p \in Seq(Nat), Once(p), NEW s \in PreEditStruct, NEW E,
           Whole(s, Elements(p), E)
    PROVE  LET q == p \o s.outgoing
           IN  /\ q \in Seq(Nat) /\ Once(q) /\ Elements(q) \subseteq E
               /\ Whole(clear_outgoing(s), Elements(q), E)
<1> DEFINE q == p \o s.outgoing
           r == clear_outgoing(s)
           nil == <<>>
<1>1. /\ s.outgoing \in Seq(Nat) /\ Once(s.outgoing)
      /\ Elements(s.outgoing) \subseteq E \ Elements(p) /\ Elements(p) \subseteq E
  BY DEF PreEditStruct, Whole
<1>2. Elements(p) \cap Elements(s.outgoing) = {}
  BY <1>1
<1>3. /\ q \in Seq(Nat) /\ Once(q)
      /\ Elements(q) = Elements(p) \cup Elements(s.outgoing)
  BY <1>1, <1>2, ConcatOnce, ConcatProperties
<1>4. r.ctx = s.ctx /\ r.updated = s.updated /\ r.outgoing = nil
  BY DEF PreEditStruct, clear_outgoing
<1>5. Elements(nil) = {} /\ Once(nil)
  BY NothingOnce
<1> HIDE DEF q, r, nil
<1>6. Remaining(r, Elements(q), E) = Remaining(s, Elements(p), E)
  BY <1>3, <1>4, <1>5 DEF Remaining
<1>7. Elements(q) \subseteq E
  BY <1>1, <1>3
<1>8. Whole(r, Elements(q), E)
  BY <1>1, <1>4, <1>5, <1>6, <1>7 DEF Whole
<1>9. QED
  BY <1>3, <1>7, <1>8 DEF q, r

\* While the context has the focus its text is whole.  Without the focus it
\* need not be: the client has committed the screen, and the engine composes
\* the same text until focus_in clears it.
EngineTextInv ==
    /\ EngineIInv
    /\ taken \in Seq(Nat) /\ Once(taken) /\ Elements(taken) \subseteq 1 .. typed
    /\ Has(FOCUS_IN) => Whole(self, Elements(taken), 1 .. typed)

LEMMA EngineInitTextInv == EngineInit => EngineTextInv
<1> SUFFICES ASSUME EngineInit PROVE EngineTextInv
  OBVIOUS
<1>1. EngineIInv
  BY EngineInitIInv
<1>2. taken = <<>> /\ ~Has(FOCUS_IN)
  BY DEF EngineInit, Init, Has, has_flag, INITIALIZED, FOCUS_IN
<1>3. taken \in Seq(Nat) /\ Once(taken) /\ Elements(taken) \subseteq 1 .. typed
  BY <1>2, NothingOnce, EmptySeq
<1>4. QED
  BY <1>1, <1>2, <1>3 DEF EngineTextInv

\* A key, and the commit that follows it.  E are the characters the text may
\* be made of: a key adds at most the one it types.
LEMMA SendKeyWhole ==
    ASSUME EngineTextInv, NEW e \in KeyEvent, SendKey(e),
           NEW E, E \subseteq 1 .. typed, Whole(self, Elements(taken), E)
    PROVE  LET s == process_key(self, cfg, e, typed + 1)
               F == IF typed' = typed THEN E ELSE E \cup {typed'}
           IN  /\ typed' \in {typed, typed + 1} /\ typed' <= MaxTyped
               /\ s.outgoing \in Seq(Nat) /\ taken' = taken \o s.outgoing
               /\ Elements(s.outgoing) \subseteq F \ Elements(taken)
               /\ taken' \in Seq(Nat) /\ Once(taken')
               /\ Elements(taken') \subseteq F
               /\ Whole(self', Elements(taken'), F)
<1> DEFINE T == Elements(taken)
           t == typed + 1
           s == process_key(self, cfg, e, t)
           F == IF typed' = typed THEN E ELSE E \cup {typed'}
<1>1. /\ Good(self, cfg) /\ typed \in Nat /\ taken \in Seq(Nat) /\ Once(taken)
      /\ T \subseteq E
  BY DEF EngineTextInv, EngineIInv, Whole
<1>2. t \in Nat \ E /\ t # typed
  BY <1>1
<1>3. /\ taken' = taken \o s.outgoing /\ self' = clear_outgoing(s)
      /\ typed' = IF t \in Held(s) THEN t ELSE typed
      /\ typed' <= MaxTyped
  BY DEF SendKey, Update, CommitText
<1>4. s \in PreEditStruct
  BY <1>1, <1>2, ProcessKeyGood DEF Good, Loose
<1> HIDE DEF T, t
<1>5. Whole(s, T, E \cup {t})
  BY <1>1, <1>2, ProcessKeyWhole DEF T
<1> HIDE DEF s
<1>6. t \notin Held(s) => Whole(s, T, E)
  BY <1>1, <1>5, WholeSmaller
<1>7. Whole(s, T, F)
  BY <1>2, <1>3, <1>5, <1>6
<1> HIDE DEF F
<1>8. /\ taken' \in Seq(Nat) /\ Once(taken') /\ Elements(taken') \subseteq F
      /\ Whole(self', Elements(taken'), F)
  BY <1>1, <1>3, <1>4, <1>7, CommitOnce DEF T
<1>9. s.outgoing \in Seq(Nat) /\ Elements(s.outgoing) \subseteq F \ T
  BY <1>4, <1>7 DEF PreEditStruct, Whole
<1>10. typed' \in {typed, t}
  BY <1>3
<1>11. QED
  BY <1>3, <1>8, <1>9, <1>10 DEF s, F, T, t

LEMMA SendKeyOnce ==
    ASSUME EngineTextInv, Has(FOCUS_IN), NEW e \in KeyEvent, SendKey(e), EngineIInv'
    PROVE  EngineTextInv'
<1> DEFINE E == 1 .. typed
<1>1. typed \in Nat /\ Whole(self, Elements(taken), E)
  BY DEF EngineTextInv, EngineIInv
<1>2. E \cup {typed + 1} = 1 .. typed + 1
  BY <1>1
<1> DEFINE F == IF typed' = typed THEN E ELSE E \cup {typed'}
<1>3. /\ typed' \in {typed, typed + 1}
      /\ taken' \in Seq(Nat) /\ Once(taken') /\ Elements(taken') \subseteq F
      /\ Whole(self', Elements(taken'), F)
  BY <1>1, SendKeyWhole
<1>4. F = 1 .. typed'
  BY <1>1, <1>2, <1>3
<1> HIDE DEF F
<1>5. QED
  BY <1>3, <1>4 DEF EngineTextInv

\* The language bar and the client's reset, which send nothing.
LEMMA CallWhole ==
    ASSUME EngineIInv, ActivateInputMode \/ ActivateAlnumSize \/ Reset,
           NEW E, Whole(self, Elements(taken), E)
    PROVE  UNCHANGED <<typed, taken>> /\ Whole(self', Elements(taken), E)
<1> DEFINE T == Elements(taken)
<1>1. /\ Good(self, cfg) /\ Loose(self, cfg) /\ T \subseteq E
      /\ self \in PreEditStruct /\ self.ctx \in Context
  BY DEF EngineIInv, Good, Loose, ContextOK, Whole
<1> HIDE DEF T
<1>2. CASE ActivateInputMode
  BY <1>1, <1>2, TogglesWhole DEF ActivateInputMode, T
<1>3. CASE ActivateAlnumSize
  <2>1. /\ self' = WithContext(self, [self.ctx EXCEPT !.full = ~@])
        /\ UNCHANGED <<typed, taken>>
    BY <1>3 DEF ActivateAlnumSize
  <2>2. /\ self'.ctx.buf = self.ctx.buf /\ self'.ctx.bpmf = self.ctx.bpmf
        /\ self'.ctx.check = self.ctx.check /\ self'.ctx.commit = self.ctx.commit
        /\ self'.outgoing = self.outgoing /\ self'.updated = self.updated
    BY <1>1, <2>1 DEF WithContext, PreEditStruct, Context
  <2>3. Whole(self', T, E)
    BY <2>2 DEF Whole, Remaining, Clean, Sent, T
  <2>4. QED
    BY <2>1, <2>3 DEF T
<1>4. CASE Reset
  <2>1. self' = clear(self) /\ UNCHANGED <<typed, taken>>
    BY <1>4 DEF Reset
  <2>2. Good(self', cfg) /\ self'.preEdit = <<>> /\ self'.outgoing = <<>>
    BY <1>1, <2>1, LooseIsBare, ClearGood
  <2>3. Whole(self', T, E)
    BY <1>1, <2>2, NothingOnce, GoodEmptyWhole
  <2>4. QED
    BY <2>1, <2>3 DEF T
<1>5. QED
  BY <1>2, <1>3, <1>4

\* focus_in clears before it commits: nothing is sent and nothing is left.
LEMMA FocusInClears ==
    ASSUME EngineIInv, NEW c \in Configs, NEW m \in SyncModes, FocusIn(c, m)
    PROVE  /\ Good(self', c) /\ self'.preEdit = <<>> /\ self'.outgoing = <<>>
           /\ taken' = taken \o <<>> /\ typed' = typed
           /\ Has(FOCUS_IN)'
<1> DEFINE u == use_all_configure(self, c)
           s == RestoredMode(u, m)
           k == clear(s)
           f == set_flag(statusFlags, PROPERTIES_REGISTERED)
<1>1. Good(u, c) /\ led \in BOOLEAN /\ statusFlags \in Nat
  BY ConfiguredGood DEF EngineIInv
<1>2. /\ taken' = taken \o k.outgoing /\ self' = clear_outgoing(k) /\ typed' = typed
      /\ statusFlags' = set_flag(f, FOCUS_IN)
  BY DEF FocusIn, CommitText
<1> HIDE DEF u
<1>3. Bare(s, c)
  BY <1>1, RestoredBare
<1> HIDE DEF s
<1>4. Good(k, c) /\ k.preEdit = <<>> /\ k.outgoing = <<>>
  BY <1>3, ClearGood
<1> HIDE DEF k
<1>5. Good(self', c) /\ self'.preEdit = <<>> /\ self'.outgoing = <<>>
  BY <1>2, <1>4, OutgoingCleared
<1>6. f \in Nat
  BY <1>1, FlagSet, FlagNames
<1> HIDE DEF f
<1>7. Has(FOCUS_IN)'
  BY <1>2, <1>6, FlagSet, FlagNames DEF Has
<1>8. QED
  BY <1>2, <1>4, <1>5, <1>7

LEMMA FocusInEmpty ==
    ASSUME EngineIInv, taken \in Seq(Nat), NEW c \in Configs, NEW m \in SyncModes,
           FocusIn(c, m), NEW E, Elements(taken) \subseteq E
    PROVE  UNCHANGED <<typed, taken>> /\ Whole(self', Elements(taken), E)
<1>1. Whole(self', Elements(taken), E)
  BY FocusInClears, NothingOnce, GoodEmptyWhole
<1>2. taken \o <<>> = taken
  BY ConcatEmptySeq
<1>3. QED
  BY <1>1, <1>2, FocusInClears

\* The calls that move flags, or a structure that has not the focus.
LEMMA FlagCall ==
    ASSUME EngineIInv,
           \/ \E c \in Configs, m \in SyncModes : Enable(c, m)
           \/ Disable
           \/ \E purpose \in Purposes : SetContentType(purpose)
           \/ \E caps \in Capabilities : SetCapabilities(caps)
           \/ CapsLockElsewhere
           \/ UNCHANGED engineVars
    PROVE  /\ UNCHANGED <<typed, taken>>
           /\ has_flag(statusFlags', FOCUS_IN) <=> has_flag(statusFlags, FOCUS_IN)
           /\ has_flag(statusFlags, FOCUS_IN) => self' = self
<1>1. /\ statusFlags \in Nat
      /\ has_flag(statusFlags, FOCUS_IN) => has_flag(statusFlags, ENGINE_ENABLED)
  BY DEF EngineIInv, Has
<1>2. ASSUME NEW c \in Configs, NEW m \in SyncModes, Enable(c, m)
      PROVE  /\ UNCHANGED <<typed, taken>>
             /\ ~has_flag(statusFlags', FOCUS_IN) /\ ~has_flag(statusFlags, FOCUS_IN)
  BY <1>1, <1>2, FlagSet, FlagNames DEF Enable, Has
<1>3. CASE Disable
  BY <1>1, <1>3, FlagCleared, FlagNames DEF Disable, Has
<1>4. ASSUME NEW purpose \in Purposes, SetContentType(purpose)
      PROVE  /\ UNCHANGED <<typed, taken, self>>
             /\ has_flag(statusFlags', FOCUS_IN) <=> has_flag(statusFlags, FOCUS_IN)
  <2>1. /\ statusFlags' \in {set_flag(statusFlags, IS_PASSWORD),
                             clear_flag(statusFlags, IS_PASSWORD)}
        /\ UNCHANGED <<typed, taken, self>>
    BY <1>4 DEF SetContentType
  <2>2. CASE statusFlags' = set_flag(statusFlags, IS_PASSWORD)
    BY <1>1, <2>1, <2>2, FlagSet, FlagNames
  <2>3. CASE statusFlags' = clear_flag(statusFlags, IS_PASSWORD)
    BY <1>1, <2>1, <2>3, FlagCleared, FlagNames
  <2>4. QED
    BY <2>1, <2>2, <2>3
<1>5. ASSUME NEW caps \in Capabilities, SetCapabilities(caps)
      PROVE  /\ UNCHANGED <<typed, taken, self>>
             /\ has_flag(statusFlags', FOCUS_IN) <=> has_flag(statusFlags, FOCUS_IN)
  <2>1. caps \in Nat
    <3>1. Capabilities \subseteq 0 .. 63
      BY EngineAssumption
    <3>2. caps \in 0 .. 63
      BY <3>1
    <3>3. QED
      BY <3>2
  <2>2. /\ statusFlags' = (statusFlags % CAP_PREEDIT_TEXT) + caps * CAP_PREEDIT_TEXT
        /\ UNCHANGED <<typed, taken, self>>
    BY <1>5 DEF SetCapabilities
  <2>3. QED
    BY <1>1, <2>1, <2>2, CapabilitiesAbove, FlagNames
<1>6. CASE CapsLockElsewhere \/ UNCHANGED engineVars
  BY <1>6 DEF CapsLockElsewhere, engineVars
<1>7. QED
  BY <1>2, <1>3, <1>4, <1>5, <1>6

LEMMA FocusGone ==
    ASSUME EngineIInv, FocusOut
    PROVE  ~has_flag(statusFlags', FOCUS_IN) /\ ~Has(FOCUS_IN)'
<1> DEFINE f == clear_flag(statusFlags, FOCUS_IN)
<1>1. statusFlags \in Nat /\ statusFlags' = clear_flag(f, PROPERTIES_REGISTERED)
  BY DEF EngineIInv, FocusOut
<1>2. f \in Nat /\ ~has_flag(f, FOCUS_IN)
  BY <1>1, FlagCleared, FlagNames
<1> HIDE DEF f
<1>3. QED
  BY <1>1, <1>2, FlagCleared, FlagNames DEF Has

\* The client commits the screen when the focus goes or the engine dies.
LEMMA ScreenTaken ==
    ASSUME EngineTextInv
    PROVE  LET q == taken \o panel.preEdit
           IN  q \in Seq(Nat) /\ Once(q) /\ Elements(q) \subseteq 1 .. typed
<1>1. /\ Good(self, cfg) /\ taken \in Seq(Nat) /\ Once(taken)
      /\ Elements(taken) \subseteq 1 .. typed
  BY DEF EngineTextInv, EngineIInv
<1>2. CASE Has(FOCUS_IN)
  <2>1. /\ panel.preEdit = self.outgoing \o self.preEdit
        /\ Whole(self, Elements(taken), 1 .. typed)
    BY <1>2 DEF EngineTextInv, EngineIInv, TextOnPanel
  <2>2. QED
    BY <1>1, <2>1, HeldOnce
<1>3. CASE ~Has(FOCUS_IN)
  <2>1. panel.preEdit = <<>>
    BY <1>3 DEF EngineTextInv, EngineIInv, TextOnPanel
  <2>2. taken \o <<>> = taken
    BY <1>1, ConcatEmptySeq
  <2>3. QED
    BY <1>1, <2>1, <2>2
<1>4. QED
  BY <1>2, <1>3

\* A call that sends nothing and leaves the composition alone, or the focus away.
LEMMA NothingTaken ==
    ASSUME EngineTextInv, EngineIInv', UNCHANGED <<typed, taken>>,
           has_flag(statusFlags', FOCUS_IN) =>
              has_flag(statusFlags, FOCUS_IN) /\ self' = self
    PROVE  EngineTextInv'
BY DEF EngineTextInv, Has

LEMMA EngineNextTextInv == EngineTextInv /\ [EngineNext]_engineVars => EngineTextInv'
<1> SUFFICES ASSUME EngineTextInv, [EngineNext]_engineVars PROVE EngineTextInv'
  OBVIOUS
<1>a. /\ typed \in Nat /\ EngineIInv
      /\ taken \in Seq(Nat) /\ Once(taken) /\ Elements(taken) \subseteq 1 .. typed
  BY DEF EngineTextInv, EngineIInv
<1>b. EngineIInv'
  BY <1>a, EngineNextIInv
<1>1. ASSUME NEW e \in Events, ProcessKeyEvent(e)
      PROVE  EngineTextInv'
  <2>1. CASE Has(IS_PASSWORD)
    BY <1>1, <1>b, <2>1, NothingTaken DEF ProcessKeyEvent, Has
  <2>2. CASE ~Has(IS_PASSWORD)
    <3>1. PICK system \in SystemLayouts : SendKey(key_code_to_key_sym(e, system))
      BY <1>1, <2>2 DEF ProcessKeyEvent
    <3>2. key_code_to_key_sym(e, system) \in KeyEvent
      BY PreEditAssumption, EngineAssumption DEF key_code_to_key_sym
    <3>3. QED
      BY <1>1, <1>b, <3>1, <3>2, SendKeyOnce DEF ProcessKeyEvent, Focused
  <2>3. QED
    BY <2>1, <2>2
<1>2. ASSUME NEW e \in PanelButtons, PanelButton(e)
      PROVE  EngineTextInv'
  BY <1>2, <1>b, ButtonIsKey, SendKeyOnce DEF PanelButton, Focused
<1>3. ASSUME NEW i \in 1 .. Len(SelKeys), CandidateClicked(i)
      PROVE  EngineTextInv'
  <2>1. SelKeys[i] \in KeyEvent
    BY EngineAssumption, ElementOfSeq
  <2>2. QED
    BY <1>3, <1>b, <2>1, SendKeyOnce DEF CandidateClicked, Focused
<1>4. CASE ActivateInputMode \/ ActivateAlnumSize \/ Reset
  <2>1. Whole(self, Elements(taken), 1 .. typed)
    BY <1>4 DEF EngineTextInv, ActivateInputMode, ActivateAlnumSize, Reset, Focused
  <2>2. QED
    BY <1>4, <1>a, <1>b, <2>1, CallWhole DEF EngineTextInv
<1>5. ASSUME NEW c \in Configs, NEW m \in SyncModes, FocusIn(c, m)
      PROVE  EngineTextInv'
  BY <1>5, <1>a, <1>b, FocusInEmpty DEF EngineTextInv
<1>6. CASE FocusOut
  <2>1. taken' = taken \o panel.preEdit /\ typed' = typed /\ ~Has(FOCUS_IN)'
    BY <1>6, <1>a, FocusGone DEF FocusOut
  <2>2. QED
    BY <1>b, <2>1, ScreenTaken DEF EngineTextInv
<1>7. ASSUME NEW c \in Configs, NEW m \in SyncModes, Restart(c, m)
      PROVE  EngineTextInv'
  <2>1. /\ taken' \in {taken, taken \o panel.preEdit} /\ typed' = typed
        /\ ~Has(FOCUS_IN)'
    BY <1>7 DEF Restart, INITIALIZED, FOCUS_IN, Has, has_flag
  <2>2. taken' \in Seq(Nat) /\ Once(taken') /\ Elements(taken') \subseteq 1 .. typed
    BY <1>a, <2>1, ScreenTaken
  <2>3. QED
    BY <1>b, <2>1, <2>2 DEF EngineTextInv
<1>8. ASSUME \/ \E c \in Configs, m \in SyncModes : Enable(c, m)
             \/ Disable
             \/ \E purpose \in Purposes : SetContentType(purpose)
             \/ \E caps \in Capabilities : SetCapabilities(caps)
             \/ CapsLockElsewhere
             \/ UNCHANGED engineVars
      PROVE  EngineTextInv'
  BY <1>8, <1>a, <1>b, FlagCall, NothingTaken
<1>9. QED
  BY <1>1, <1>2, <1>3, <1>4, <1>5, <1>6, <1>7, <1>8 DEF EngineNext, DaemonCall

LEMMA EngineTextInvariance == EngineSpec => []EngineTextInv
BY EngineInitTextInv, EngineNextTextInv, PTL DEF EngineSpec

-----------------------------------------------------------------------------
(* The theorems                                                            *)

\* Through keys, clicks, the language bar, reset and every change of focus,
\* the text on the screen of a focused context is all the text the engine
\* holds, so that IBUS_ENGINE_PREEDIT_COMMIT may commit the screen.
THEOREM PanelAlwaysShowsAllText == EngineSpec => []PanelShowsAllText
<1>1. EngineIInv => PanelShowsAllText
  BY DEF EngineIInv, TextOnPanel, PanelShowsAllText, Focused
<1>2. QED
  BY <1>1, EngineInvariance, PTL

\* The labels of the language bar are those of libchewing's modes, whichever of
\* refresh_property, refresh_property_list, restore_mode and the keys changed
\* them last.
THEOREM LabelsAlwaysTruthful == EngineSpec => []LabelsTruthful
<1>1. EngineIInv => LabelsTruthful
  BY DEF EngineIInv
<1>2. QED
  BY <1>1, EngineInvariance, PTL

\* A choice list that takes the keys of a focused context is on the screen.
THEOREM OpenListAlwaysOnScreen == EngineSpec => []OpenListOnScreen
<1>1. EngineIInv => OpenListOnScreen
  BY DEF EngineIInv, ListOnPanel, OpenListOnScreen, Focused
<1>2. QED
  BY <1>1, EngineInvariance, PTL

\* restore_mode switches the language without flushing the syllable, and still
\* no syllable is ever found in English mode: focus_in clears after it.
THEOREM EngineEnglishNeverHasSyllable == EngineSpec => []EnglishHasNoSyllable
<1>1. EngineIInv => EnglishHasNoSyllable
  BY DEF EngineIInv, Good, Loose, Settled, EnglishHasNoSyllable
<1>2. QED
  BY <1>1, EngineInvariance, PTL

\* Whether the engine commits a character itself or the client commits the
\* screen when the focus goes or the process dies, the application gets it
\* once: what the engine still composes is cleared before it has the focus
\* again.
THEOREM AppTextAlwaysOnce == EngineSpec => []AppTextOnce
<1>1. EngineTextInv => AppTextOnce
  BY DEF EngineTextInv, Once, AppTextOnce
<1>2. QED
  BY <1>1, EngineTextInvariance, PTL

-----------------------------------------------------------------------------
(* The text stream the user and the application see                        *)

LEMMA DeliveryWords ==
    ASSUME NEW s, NEW u, NEW t, Keeps(s, u, t)
    PROVE  Delivery!InOrderOf(s, u)
BY DEF Keeps, Delivery!InOrderOf, Delivery!Range, Delivery!Before, Before, Elements

\* An edit of the screen: some of its characters go to the application, some
\* stay, and t may be new.  What goes stood before what stays, except M, the
\* syllable under way.
LEMMA ScreenEdit ==
    ASSUME NEW t, NEW sent \in Seq(Nat), NEW S, NEW R \in Seq(Nat), NEW B, NEW M,
           S = panel.preEdit, R = panel.preEdit', M = Making',
           taken \in Seq(Nat), taken' = taken \o sent,
           Once(sent), Once(R), Elements(sent) \cap Elements(R) = {},
           Keeps(sent, S, t), Keeps(R, S, t),
           Ahead(sent, B, S), Elements(R) \subseteq Elements(B) \cup Elements(M),
           M \in {<<>>, Making, <<t>>}, Elements(M) \subseteq Elements(R),
           t \in Nat, t \notin Elements(S) \cup Elements(taken),
           0 \notin Elements(S) \cup Elements(taken),
           t \in Elements(sent) \cup Elements(R) => t \in 1 .. MaxTyped
    PROVE  Delivery!Edit
<1> DEFINE n == Len(taken)
           chars == Elements(sent) \cup Elements(R)
           c == IF t \in chars THEN t ELSE 0
<1>1. /\ taken' \in Seq(Nat) /\ n \in Nat /\ Len(taken') \in Nat
      /\ n <= Len(taken')
  BY ConcatProperties, LenProperties
<1>2. SubSeq(taken', 1, n) = taken /\ SubSeq(taken', n + 1, Len(taken')) = sent
  BY PutTogether
<1>3. n \in 0 .. Len(taken')
  BY <1>1
<1> HIDE DEF n
<1>4. Once(sent \o R)
  BY ConcatOnce
<1>5. Delivery!InOrderOf(sent, S) /\ Delivery!InOrderOf(R, S)
  BY DeliveryWords
<1>6. /\ c \in 1 .. MaxTyped \cup {0}
      /\ chars \subseteq Elements(S) \cup ({c} \ {0})
      /\ c \notin Elements(S) \cup Elements(taken)
      /\ M \in {<<>>, Making, <<c>>}
  <2>1. chars \subseteq Elements(S) \cup {t}
    BY DEF Keeps
  <2>2. CASE t \in chars
    <3>1. t \in 1 .. MaxTyped /\ t # 0 /\ c = t
      BY <2>2, PreEditAssumption DEF chars
    <3> HIDE DEF c
    <3>2. QED
      BY <2>1, <3>1
  <2>3. CASE t \notin chars
    <3>1. c = 0 /\ M # <<t>>
      <4>1. Elements(<<t>>) = {t}
        BY OneOnce
      <4>2. QED
        BY <2>3, <4>1
    <3> HIDE DEF c
    <3>2. QED
      BY <2>1, <2>3, <3>1
  <2>4. QED
    BY <2>2, <2>3
<1> HIDE DEF chars, c
<1>7. /\ Delivery!Range(sent) \cup Delivery!Range(R) = chars
      /\ Delivery!Range(S) = Elements(S) /\ Delivery!Range(taken) = Elements(taken)
      /\ Delivery!Range(sent) = Elements(sent) /\ Delivery!Range(R) = Elements(R)
      /\ Delivery!Range(M) = Elements(M)
      /\ Delivery!Range(<<>>) = {}
  BY NothingOnce DEF Delivery!Range, Elements, chars
<1>8. /\ Delivery!Range(sent) \cup Delivery!Range(R)
            \subseteq Delivery!Range(S) \cup ({c} \ {0})
      /\ c \notin Delivery!Range(S) \cup Delivery!Range(taken) \cup Delivery!Range(<<>>)
      /\ Delivery!Range(M) \subseteq Delivery!Range(R)
  BY <1>6, <1>7
<1>9. Delivery!Distinct(sent \o R)
  BY <1>4 DEF Delivery!Distinct, Once
<1>10. Delivery!Precedes(Delivery!Range(sent), Delivery!Range(R) \ Delivery!Range(M))
  <2>1. \A a \in Elements(sent), b \in Elements(R) \ Elements(M) :
          a \in Elements(S) /\ b \in Elements(S) => Before(S, a, b)
    BY DEF Ahead
  <2>2. \A a, b : Before(S, a, b) = Delivery!Before(S, a, b)
    BY DEF Before, Delivery!Before
  <2>3. QED
    BY <1>7, <2>1, <2>2 DEF Delivery!Precedes
<1>11. QED
  BY <1>2, <1>3, <1>5, <1>6, <1>8, <1>9, <1>10 DEF Delivery!Edit, n

\* What waited stands before what is sent, and both before what stays.
LEMMA KeepsBehind ==
    ASSUME NEW x \in Seq(Nat), NEW y \in Seq(Nat), NEW u \in Seq(Nat), NEW t,
           t \notin Elements(x \o y), Keeps(u, y, t)
    PROVE  Keeps(u, x \o y, t) /\ Keeps(x \o u, x \o y, t)
<1>1. /\ Elements(x \o y) = Elements(x) \cup Elements(y)
      /\ Elements(x \o u) = Elements(x) \cup Elements(u)
  BY ConcatOnce
<1>2. ASSUME NEW a, NEW b
      PROVE  /\ Before(x \o y, a, b) <=>
                  \/ Before(x, a, b) \/ Before(y, a, b)
                  \/ a \in Elements(x) /\ b \in Elements(y)
             /\ Before(x \o u, a, b) <=>
                  \/ Before(x, a, b) \/ Before(u, a, b)
                  \/ a \in Elements(x) /\ b \in Elements(u)
             /\ Before(u, a, b) => a \in Elements(u) /\ b \in Elements(u)
  BY BeforeConcat, BeforeInside
<1>3. /\ Elements(u) \subseteq Elements(y) \cup {t}
      /\ \A a, b \in Elements(y) : Before(u, a, b) => Before(y, a, b)
  BY DEF Keeps
<1>4. ASSUME NEW a \in Elements(x \o y), NEW b \in Elements(x \o y)
      PROVE  /\ Before(u, a, b) => Before(x \o y, a, b)
             /\ Before(x \o u, a, b) => Before(x \o y, a, b)
  <2>1. /\ a \in Elements(u) => a \in Elements(y)
        /\ b \in Elements(u) => b \in Elements(y)
    BY <1>3
  <2>2. QED
    BY <1>2, <1>3, <2>1
<1>5. QED
  BY <1>1, <1>3, <1>4 DEF Keeps

LEMMA AheadBehind ==
    ASSUME NEW x \in Seq(Nat), NEW y \in Seq(Nat), NEW u \in Seq(Nat), NEW v,
           Ahead(u, v, y), Elements(v) \cap Elements(x) = {}
    PROVE  Ahead(x \o u, v, x \o y)
<1>1. /\ Elements(x \o y) = Elements(x) \cup Elements(y)
      /\ Elements(x \o u) = Elements(x) \cup Elements(u)
  BY ConcatOnce
<1>2. ASSUME NEW a \in Elements(x \o u), NEW b \in Elements(v),
             a \in Elements(x \o y), b \in Elements(x \o y)
      PROVE  Before(x \o y, a, b)
  <2>1. b \in Elements(y)
    BY <1>1, <1>2
  <2>2. a \in Elements(x) \/ Before(y, a, b)
    BY <1>1, <1>2, <2>1 DEF Ahead
  <2>3. QED
    BY <2>1, <2>2, BeforeConcat
<1>3. QED
  BY <1>2 DEF Ahead

\* Where the text of a focused context is.
LEMMA FocusedText ==
    ASSUME EngineTextInv, Has(FOCUS_IN)
    PROVE  /\ Good(self, cfg) /\ typed \in Nat
           /\ Whole(self, Elements(taken), 1 .. typed)
           /\ taken \in Seq(Nat) /\ Elements(taken) \subseteq 1 .. typed
           /\ self.outgoing \in Seq(Nat) /\ self.preEdit \in Seq(Nat)
           /\ panel.preEdit = self.outgoing \o self.preEdit
BY DEF EngineTextInv, EngineIInv, TextOnPanel, Good, Loose, PreEditStruct

\* Only a character that has begun is counted in typed.
LEMMA TypedIsHeld ==
    ASSUME NEW s, NEW g, Good(s, g), NEW t, t \in Elements(s.outgoing) \cup Elements(s.preEdit)
    PROVE  t \in Held(s)
BY DEF Held

\* A key, from the keyboard or from the panel, edits the screen.
LEMMA SendKeyEdits ==
    ASSUME EngineTextInv, Has(FOCUS_IN), NEW e \in KeyEvent, SendKey(e)
    PROVE  Delivery!Edit
<1> DEFINE t == typed + 1
           T == Elements(taken)
           E == 1 .. typed
           s == process_key(self, cfg, e, t)
           O == self.outgoing
           S == self.preEdit
           X == s.outgoing
           R == s.preEdit
           whole == Spares(self, e) /\ ~cfg.plain
<1>1. /\ Good(self, cfg) /\ typed \in Nat /\ Whole(self, T, E)
      /\ taken \in Seq(Nat) /\ T \subseteq E
      /\ O \in Seq(Nat) /\ S \in Seq(Nat) /\ panel.preEdit = O \o S
  BY FocusedText
<1>2. /\ t \in Nat /\ t \notin E /\ t \notin Elements(S) /\ t \notin Elements(O)
      /\ t \notin T
  BY <1>1, NextIsNew
<1>3. Flow(self, s, t, whole) /\ Good(s, cfg)
  BY <1>1, <1>2, ProcessKeyFlows, ProcessKeyGood
<1>4. Whole(s, T, E \cup {t})
  BY <1>1, <1>2, ProcessKeyWhole
<1>5. /\ panel' = Redrawn(s) /\ taken' = taken \o X /\ self' = clear_outgoing(s)
      /\ typed' = IF t \in Held(s) THEN t ELSE typed
      /\ typed' <= MaxTyped
      /\ statusFlags' = set_flag(statusFlags, PROPERTIES_REGISTERED)
  BY DEF SendKey, Update, CommitText
<1>a. Has(FOCUS_IN)'
  BY <1>5, FlagSet, FlagNames DEF EngineTextInv, EngineIInv, Has
<1>b. Making = self.ctx.bpmf /\ Making' = s.ctx.bpmf
  <2>1. self'.ctx = s.ctx
    BY <1>3, <1>5 DEF clear_outgoing, Good, Loose, PreEditStruct
  <2>2. QED
    BY <1>a, <2>1 DEF Making
<1>6. 0 \notin E /\ (typed' = t => t \in 1 .. MaxTyped)
  BY <1>1, <1>2, <1>5, PreEditAssumption
<1>7. 0 \notin T
  BY <1>1, <1>6
<1> HIDE DEF t, T, E, s, whole
<1>8. /\ X \in Seq(Nat) /\ R \in Seq(Nat) /\ Once(X) /\ Once(R)
      /\ Elements(X) \cap Elements(R) = {}
  BY <1>3, <1>4, PlacesApart
<1>9. PICK sent \in Seq(Nat) : Delivers(self, s, t, whole, sent)
  BY <1>1, <1>3, FlowDelivers
<1> DEFINE B == s.ctx.buf
           M == s.ctx.bpmf
<1>10. /\ X = O \o sent /\ Keeps(sent, S, t) /\ Keeps(R, S, t)
       /\ Ahead(sent, B, S) /\ M \in {<<>>, self.ctx.bpmf, <<t>>}
  BY <1>9 DEF Delivers
<1>11. panel'.preEdit = R /\ M = Making' /\ M \in {<<>>, Making, <<t>>}
  BY <1>5, <1>10, <1>b DEF Redrawn
<1>12. t \in Elements(X) \cup Elements(R) => t \in 1 .. MaxTyped
  BY <1>3, <1>5, <1>6, TypedIsHeld
<1>13. Elements(R) = Elements(B) \cup Elements(M)
  BY <1>3, ShownTyped DEF Good, Loose, Mirrors
<1>14. /\ Elements(O) \subseteq E /\ Elements(S) \subseteq E
       /\ Elements(O) \cap Elements(S) = {}
  BY <1>1, PlacesApart
<1> HIDE DEF O, S, X, R, B, M
<1>15. Elements(B) \cap Elements(O) = {}
  BY <1>2, <1>10, <1>13, <1>14 DEF Keeps
<1>16. /\ Elements(O \o S) = Elements(O) \cup Elements(S)
       /\ t \notin Elements(O \o S) /\ 0 \notin Elements(O \o S)
  BY <1>1, <1>2, <1>6, <1>14, ConcatOnce
<1>17. Keeps(X, O \o S, t) /\ Keeps(R, O \o S, t)
  BY <1>1, <1>8, <1>10, <1>16, KeepsBehind
<1>18. Ahead(X, B, O \o S)
  BY <1>1, <1>10, <1>15, AheadBehind
<1> DEFINE shown == O \o S
<1>19. shown = panel.preEdit
  BY <1>1
<1>20. /\ Keeps(X, shown, t) /\ Keeps(R, shown, t) /\ Ahead(X, B, shown)
       /\ t \notin Elements(shown) \cup Elements(taken)
       /\ 0 \notin Elements(shown) \cup Elements(taken)
  BY <1>2, <1>7, <1>16, <1>17, <1>18 DEF T
<1> HIDE DEF shown
<1>21. taken \in Seq(Nat) /\ taken' = taken \o X
  BY <1>1, <1>5, <1>6
<1>22. QED
  BY <1>2, <1>8, <1>11, <1>12, <1>13, <1>19, <1>20, <1>21, ScreenEdit

\* The text on the screen, with or without the focus.
LEMMA ScreenOnce ==
    ASSUME EngineTextInv
    PROVE  /\ panel.preEdit \in Seq(Nat) /\ Once(panel.preEdit) /\ taken \in Seq(Nat)
           /\ 0 \notin Elements(panel.preEdit) \cup Elements(taken)
<1> DEFINE shown == panel.preEdit
           T == Elements(taken)
           E == 1 .. typed
           O == self.outgoing
           S == self.preEdit
<1>1. taken \in Seq(Nat) /\ typed \in Nat /\ T \subseteq E /\ 0 \notin E
  BY DEF EngineTextInv, EngineIInv
<1>2. CASE Has(FOCUS_IN)
  <2>1. Good(self, cfg) /\ Whole(self, T, E) /\ shown = O \o S
    BY <1>2, FocusedText
  <2> HIDE DEF T, E, shown
  <2>2. /\ O \in Seq(Nat) /\ S \in Seq(Nat) /\ Once(O) /\ Once(S)
        /\ Elements(O) \subseteq E /\ Elements(S) \subseteq E
        /\ Elements(O) \cap Elements(S) = {}
    BY <2>1, PlacesApart
  <2> HIDE DEF O, S
  <2>3. /\ shown \in Seq(Nat) /\ Once(shown)
        /\ Elements(shown) = Elements(O) \cup Elements(S)
    BY <2>1, <2>2, ConcatOnce, ConcatProperties
  <2>4. 0 \notin Elements(shown) \cup T
    BY <1>1, <2>2, <2>3
  <2>5. QED
    BY <1>1, <2>3, <2>4 DEF shown, T
<1>3. CASE ~Has(FOCUS_IN)
  <2>1. shown = <<>>
    BY <1>3 DEF EngineTextInv, EngineIInv, TextOnPanel
  <2> HIDE DEF shown
  <2>2. shown \in Seq(Nat) /\ Once(shown) /\ Elements(shown) = {}
    BY <2>1, NothingOnce, EmptySeq
  <2>3. QED
    BY <1>1, <2>2 DEF shown
<1>4. QED
  BY <1>2, <1>3

\* The client commits the screen, or throws it away: the focus goes, the
\* process dies, or the client resets.
LEMMA ScreenGoneEdits ==
    ASSUME EngineTextInv, panel'.preEdit = <<>>, Making' = <<>>,
           NEW sent, taken' = taken \o sent, sent \in {<<>>, panel.preEdit}
    PROVE  Delivery!Edit
<1> DEFINE shown == panel.preEdit
           nil   == <<>>
<1>1. /\ shown \in Seq(Nat) /\ Once(shown) /\ taken \in Seq(Nat)
      /\ 0 \notin Elements(shown) \cup Elements(taken)
  BY ScreenOnce
<1>2. /\ nil \in Seq(Nat) /\ Once(nil) /\ Elements(nil) = {} /\ Keeps(nil, shown, 0)
      /\ Keeps(shown, shown, 0) /\ 0 \in Nat
  BY NothingOnce, KeepsNothing, KeepsItself, EmptySeq
<1>3. /\ nil = panel.preEdit' /\ nil = Making' /\ nil \in {<<>>, Making, <<0>>}
      /\ Ahead(sent, nil, shown) /\ shown = panel.preEdit
  BY NothingAhead
<1> HIDE DEF nil, shown
<1>4. /\ sent \in Seq(Nat) /\ Once(sent) /\ Keeps(sent, shown, 0)
      /\ 0 \notin Elements(sent) \cup Elements(nil)
      /\ Elements(sent) \cap Elements(nil) = {}
  BY <1>1, <1>2, <1>3 DEF nil, shown
<1>5. Elements(nil) \subseteq Elements(nil) \cup Elements(nil)
  OBVIOUS
<1>6. QED
  BY <1>1, <1>2, <1>3, <1>4, <1>5, ScreenEdit

\* A click on the language indicator may set the syllable aside: the screen
\* stays as it is.
LEMMA ModeClickEdits ==
    ASSUME EngineTextInv, ActivateInputMode
    PROVE  Delivery!Edit
<1> DEFINE shown == panel.preEdit
           nil   == <<>>
<1>1. /\ shown \in Seq(Nat) /\ Once(shown) /\ taken \in Seq(Nat)
      /\ 0 \notin Elements(shown) \cup Elements(taken)
  BY ScreenOnce
<1>2. /\ nil \in Seq(Nat) /\ Once(nil) /\ Elements(nil) = {} /\ Keeps(nil, shown, 0)
      /\ Keeps(shown, shown, 0) /\ 0 \in Nat /\ Ahead(nil, shown, shown)
  BY NothingOnce, KeepsNothing, KeepsItself, EmptySeq, NothingAhead
<1>3. taken' = taken \o nil
  BY <1>1, ConcatEmptySeq DEF ActivateInputMode
<1>4. panel'.preEdit = shown
  BY DEF ActivateInputMode, RefreshInputMode, EngineTextInv, EngineIInv, PanelFields
<1>5. Making' = nil
  BY ToggleEndsSyllable DEF ActivateInputMode, EngineTextInv, EngineIInv, Making, Has
<1>6. nil \in {<<>>, Making, <<0>>} /\ shown = panel.preEdit
  OBVIOUS
<1> HIDE DEF nil, shown
<1>7. /\ Elements(shown) \subseteq Elements(shown) \cup Elements(nil)
      /\ Elements(nil) \subseteq Elements(shown)
      /\ Elements(nil) \cap Elements(shown) = {}
      /\ 0 \notin Elements(nil) \cup Elements(shown)
  BY <1>1, <1>2
<1>8. QED
  BY <1>1, <1>2, <1>3, <1>4, <1>5, <1>6, <1>7, ScreenEdit

LEMMA DeliveryStarts == EngineInit => Delivery!StreamInit
<1> SUFFICES ASSUME EngineInit PROVE Delivery!StreamInit
  OBVIOUS
<1>1. Making = <<>>
  BY DEF EngineInit, Init, Making, Has, has_flag, INITIALIZED, FOCUS_IN
<1>2. QED
  BY <1>1 DEF EngineInit, Init, BlankPanel, Delivery!StreamInit

\* What shows no text composes no syllable.
LEMMA EmptyMakesNothing ==
    ASSUME NEW s, NEW g, Good(s, g), s.preEdit = <<>>
    PROVE  s.ctx.bpmf = <<>>
BY NothingSpliced DEF Good, Loose, Mirrors, Shown, ContextOK, Context

\* Every call of the daemon is an edit of the screen or leaves it alone.
LEMMA DeliverySteps ==
    EngineTextInv /\ [EngineNext]_engineVars
        => [Delivery!StreamNext]_(Delivery!streamVars)
<1> DEFINE Same == UNCHANGED <<panel.preEdit, Making, taken>>
<1> SUFFICES ASSUME EngineTextInv, [EngineNext]_engineVars
             PROVE  Delivery!Edit \/ Same
  BY DEF Delivery!StreamNext, Delivery!streamVars
<1>a. /\ EngineIInv /\ DOMAIN panel = PanelFields /\ taken \in Seq(Nat)
      /\ Elements(taken) \subseteq 1 .. typed
  BY DEF EngineTextInv, EngineIInv
<1>1. ASSUME NEW e \in Events, ProcessKeyEvent(e)
      PROVE  Delivery!Edit \/ Same
  <2>1. CASE Has(IS_PASSWORD)
    BY <1>1, <2>1 DEF ProcessKeyEvent, Making, Has
  <2>2. CASE ~Has(IS_PASSWORD)
    <3>1. PICK system \in SystemLayouts : SendKey(key_code_to_key_sym(e, system))
      BY <1>1, <2>2 DEF ProcessKeyEvent
    <3>2. key_code_to_key_sym(e, system) \in KeyEvent
      BY PreEditAssumption, EngineAssumption DEF key_code_to_key_sym
    <3>3. QED
      BY <1>1, <3>1, <3>2, SendKeyEdits DEF ProcessKeyEvent, Focused
  <2>3. QED
    BY <2>1, <2>2
<1>2. ASSUME NEW e \in PanelButtons, PanelButton(e)
      PROVE  Delivery!Edit
  BY <1>2, ButtonIsKey, SendKeyEdits DEF PanelButton, Focused
<1>3. ASSUME NEW i \in 1 .. Len(SelKeys), CandidateClicked(i)
      PROVE  Delivery!Edit
  <2>1. SelKeys[i] \in KeyEvent
    BY EngineAssumption, ElementOfSeq
  <2>2. QED
    BY <1>3, <2>1, SendKeyEdits DEF CandidateClicked, Focused
<1>4. CASE ActivateInputMode
  BY <1>4, ModeClickEdits
<1>b. CASE ActivateAlnumSize
  <2>1. panel'.preEdit = panel.preEdit /\ taken' = taken
    BY <1>b, <1>a DEF ActivateAlnumSize, RefreshAlnumSize, PanelFields
  <2>2. self \in PreEditStruct /\ self.ctx \in Context
    BY <1>a DEF EngineIInv, Good, Loose, ContextOK
  <2>3. self'.ctx.bpmf = self.ctx.bpmf
    BY <1>b, <2>2 DEF ActivateAlnumSize, WithContext, PreEditStruct, Context
  <2>4. Making' = Making
    BY <1>b, <2>3 DEF ActivateAlnumSize, Making, Has
  <2>5. QED
    BY <2>1, <2>4
<1>5. ASSUME NEW c \in Configs, NEW m \in SyncModes, FocusIn(c, m)
      PROVE  Same
  <2>1. taken' = taken
    BY <1>5, <1>a, FocusInEmpty
  <2>2. panel'.preEdit = panel.preEdit
    BY <1>5, <1>a DEF FocusIn, PanelFields
  <2>3. Good(self', c) /\ self'.preEdit = <<>>
    BY <1>5, <1>a, FocusInClears
  <2>4. self'.ctx.bpmf = <<>>
    BY <2>3, EmptyMakesNothing
  <2>5. Making = <<>> /\ Making' = <<>>
    BY <1>5, <2>4 DEF FocusIn, Making
  <2>6. QED
    BY <2>1, <2>2, <2>5
<1>6. CASE Reset
  <2>1. panel'.preEdit = <<>> /\ taken' = taken \o <<>>
    BY <1>6, <1>a, ConcatEmptySeq DEF Reset, PanelFields
  <2>2. Good(self', cfg) /\ self'.preEdit = <<>>
    <3>1. Bare(self, cfg) /\ self' = clear(self)
      BY <1>6, <1>a, LooseIsBare DEF Reset, EngineIInv, Good
    <3>2. QED
      BY <3>1, ClearGood
  <2>3. self'.ctx.bpmf = <<>>
    BY <2>2, EmptyMakesNothing
  <2>4. Making' = <<>>
    BY <2>3 DEF Making
  <2>5. QED
    BY <2>1, <2>4, ScreenGoneEdits
<1>7. CASE FocusOut
  <2>1. panel'.preEdit = <<>> /\ taken' = taken \o panel.preEdit
    BY <1>7, <1>a DEF FocusOut, PanelFields
  <2>2. Making' = <<>>
    BY <1>7, <1>a, FocusGone DEF Making
  <2>3. QED
    BY <2>1, <2>2, ScreenGoneEdits
<1>8. ASSUME NEW c \in Configs, NEW m \in SyncModes, Restart(c, m)
      PROVE  Delivery!Edit
  <2>1. panel'.preEdit = <<>>
    BY <1>8 DEF Restart, BlankPanel
  <2>2. taken' = taken \o <<>> \/ taken' = taken \o panel.preEdit
    BY <1>8, <1>a, ConcatEmptySeq DEF Restart
  <2>3. Making' = <<>>
    BY <1>8 DEF Restart, Making, Has, has_flag, INITIALIZED, FOCUS_IN
  <2>4. QED
    BY <2>1, <2>2, <2>3, ScreenGoneEdits
<1>9. ASSUME \/ \E c \in Configs, m \in SyncModes : Enable(c, m)
             \/ Disable
             \/ \E purpose \in Purposes : SetContentType(purpose)
             \/ \E caps \in Capabilities : SetCapabilities(caps)
             \/ CapsLockElsewhere
             \/ UNCHANGED engineVars
      PROVE  Same
  <2>1. UNCHANGED <<panel, taken>>
    BY <1>9 DEF Enable, Disable, SetContentType, SetCapabilities, CapsLockElsewhere,
       engineVars
  <2>2. /\ has_flag(statusFlags', FOCUS_IN) <=> has_flag(statusFlags, FOCUS_IN)
        /\ has_flag(statusFlags, FOCUS_IN) => self' = self
    BY <1>9, <1>a, FlagCall
  <2>3. Making' = Making
    BY <2>2 DEF Making, Has
  <2>4. QED
    BY <2>1, <2>3
<1>10. QED
  BY <1>1, <1>2, <1>3, <1>4, <1>b, <1>5, <1>6, <1>7, <1>8, <1>9
     DEF EngineNext, DaemonCall

\* The engine with its client is a text stream from the screen to the
\* application: whether the engine commits or the client does, no character
\* overtakes another (but for an incomplete syllable, which whole characters
\* shown after it may leave behind), comes back to the screen, or arrives twice.
THEOREM EngineImplementsTextStream == EngineSpec => DeliversOnScreenText
BY DeliveryStarts, DeliverySteps, EngineTextInvariance, PTL
   DEF EngineSpec, DeliversOnScreenText, Delivery!Spec

-----------------------------------------------------------------------------
(* Keys that do not erase                                                  *)

LEMMA LeastPlace ==
    ASSUME NEW M \in SUBSET Nat, M # {}
    PROVE  Min(M) \in M /\ \A j \in M : Min(M) <= j
<1> DEFINE R == OpToRel(<, Nat)
<1>1. ASSUME NEW i \in Nat, NEW j \in Nat, ~ (<<j, i>> \in R)
      PROVE  i <= j
  <2>1. ~(j < i)
    BY <1>1 DEF OpToRel
  <2>2. QED
    BY <2>1
<1>2. IsWellFoundedOn(R, Nat)
  BY NatLessThanWellFounded
<1> HIDE DEF R
<1>3. PICK i \in M : \A j \in M : ~ (<<j, i>> \in R)
  BY <1>2, WFMin
<1>4. ASSUME NEW j \in M PROVE i <= j
  BY <1>1, <1>3
<1>5. QED
  BY <1>4 DEF Min

Covers(i, k) ==
    keyHandlingRules[i].lower <= k /\ k <= keyHandlingRules[i].upper

LEMMA RulesNumbered == DOMAIN keyHandlingRules = 1 .. 28
BY DEF keyHandlingRules

\* The handler of a key is that of the first row that covers it.
LEMMA FirstRule ==
    ASSUME NEW k \in Nat
    PROVE  \/ Handler(k) = "default" /\ \A i \in 1 .. 28 : ~Covers(i, k)
           \/ \E j \in 1 .. 28 : /\ Covers(j, k)
                                 /\ Handler(k) = keyHandlingRules[j].handler
                                 /\ \A i \in 1 .. 28 : Covers(i, k) => j <= i
<1> DEFINE M == {i \in DOMAIN keyHandlingRules :
                    /\ keyHandlingRules[i].lower <= k
                    /\ k <= keyHandlingRules[i].upper}
<1>1. M = {i \in 1 .. 28 : Covers(i, k)}
  BY RulesNumbered DEF Covers
<1>2. Handler(k) = IF M = {} THEN "default" ELSE keyHandlingRules[Min(M)].handler
  BY DEF Handler
<1> HIDE DEF M
<1>3. CASE M = {}
  BY <1>1, <1>2, <1>3
<1>4. CASE M # {}
  <2>1. Min(M) \in M /\ \A j \in M : Min(M) <= j
    BY <1>1, <1>4, LeastPlace
  <2>2. QED
    BY <1>1, <1>2, <1>4, <2>1
<1>5. QED
  BY <1>3, <1>4

\* The rows of keyHandlingRules that erase: BackSpace, Delete and Escape.
LEMMA EraseRules ==
    \A i \in 1 .. 28 :
        keyHandlingRules[i].handler \in {"backspace", "delete", "escape"} =>
            /\ keyHandlingRules[i].lower = keyHandlingRules[i].upper
            /\ keyHandlingRules[i].lower \in {65288, 65535, 65307}
BY RulesNumbered DEF keyHandlingRules, Rule, KeyReturn, KeyEscape, KeyShiftL,
   KeyShiftR, KeyEnd, KeySpace, KeyCapsLock, KeyUp, KeyDown, KeyPageUp, KeyPageDown

LEMMA EraseSymbols ==
    ASSUME NEW k \in Nat, Handler(k) \in {"backspace", "delete", "escape"}
    PROVE  k \in {65288, 65535, 65307}
<1>1. PICK j \in 1 .. 28 : /\ Covers(j, k)
                           /\ Handler(k) = keyHandlingRules[j].handler
  BY FirstRule
<1>2. /\ keyHandlingRules[j].lower = keyHandlingRules[j].upper
      /\ keyHandlingRules[j].lower \in {65288, 65535, 65307}
  BY <1>1, EraseRules
<1>3. QED
  BY <1>1, <1>2 DEF Covers

\* Printable characters and the buttons of the panel are no such keys.
LEMMA PrintableSpares ==
    ASSUME NEW k \in 33 .. 126
    PROVE  Handler(k) \notin {"backspace", "delete", "escape"}
<1>1. k \in Nat /\ k \notin {65288, 65535, 65307}
  OBVIOUS
<1>2. QED
  BY <1>1, EraseSymbols

LEMMA ButtonsSpare ==
    ASSUME NEW s, NEW e \in PanelButtons
    PROVE  Spares(s, e)
<1>1. /\ e.sym \in {KeyPageUp, KeyPageDown, KeyUp, KeyDown} /\ e.kind = "none"
  BY DEF PanelButtons
<1>2. e.sym \in Nat \ {65288, 65535, 65307}
  BY <1>1 DEF KeyPageUp, KeyPageDown, KeyUp, KeyDown
<1>3. QED
  BY <1>1, <1>2, EraseSymbols DEF Spares, Accepts

-----------------------------------------------------------------------------
(* Lists that are out of date                                              *)

\* FLAG_TABLE_SHOW may outlive the choice list, but only when what was composed
\* is gone: a click then finds no syllable.
StaleListEmpty(s) == s.table /\ s.ctx.cand = "none" => s.ctx.bpmf = <<>>

\* A key that is absorbed did nothing, or was a Shift.
OnlyToggles(r, s) == r.response = "ABSORB" => r.self \in {s, toggle_chi_eng_mode(s)}

LEMMA AbsorbedToggles ==
    ASSUME NEW s, NEW g, NEW e, NEW t
    PROVE  OnlyToggles(handle_key(s, g, e, t), s)
<1>1. ASSUME NEW body, OnlyToggles(body, s), NEW mask
      PROVE  /\ OnlyToggles(WhenPressed(s, e, mask, body), s)
             /\ OnlyToggles(WhenComposing(s, body), s)
  BY <1>1 DEF OnlyToggles, WhenPressed, WhenComposing, Answer
<1>2. ASSUME NEW f, NEW c
      PROVE  OnlyToggles(QuickCommit(f, c), s) /\ OnlyToggles(Processed(f, c), s)
  BY DEF OnlyToggles, QuickCommit, Processed, Answer
<1>3. ASSUME NEW f, NEW response, response # "ABSORB"
      PROVE  OnlyToggles(Answer(f, response), s)
  BY <1>3 DEF OnlyToggles, Answer
<1>4. /\ OnlyToggles(Answer(s, "ABSORB"), s)
      /\ OnlyToggles(Answer(toggle_chi_eng_mode(s), "ABSORB"), s)
  BY DEF OnlyToggles, Answer
<1>5. OnlyToggles(self_handle_key_sym_default(s, e, t), s)
  BY <1>2, <1>3 DEF self_handle_key_sym_default
<1>6. /\ OnlyToggles(self_handle_num(s, e, t), s)
      /\ OnlyToggles(self_handle_default(s, e, t), s)
  <2>1. OnlyToggles(IF e.mods = {"ctrl"}
                    THEN Processed(s, handle_CtrlNum(s.ctx, e.sym))
                    ELSE self_handle_key_sym_default(s, e, t), s)
    BY <1>2, <1>5
  <2>2. QED
    BY <1>1, <1>5, <2>1 DEF self_handle_num, self_handle_default
<1>7. OnlyToggles(self_handle_caps_lock(s, e), s)
  BY <1>1, <1>2 DEF self_handle_caps_lock
<1>8. OnlyToggles(self_handle_shift(s, g, e), s)
  BY <1>3, <1>4 DEF self_handle_shift
<1>9. OnlyToggles(self_handle_space(s, e, t), s)
  <2> DEFINE body == IF e.mods = {"shift"}
                     THEN Answer(toggle_full_half(s), "PROCESS")
                     ELSE QuickCommit(s, handle_Space(
                                [s.ctx EXCEPT !.easy = FALSE], t))
  <2>1. OnlyToggles(body, s)
    BY <1>2, <1>3
  <2>2. self_handle_space(s, e, t) = WhenPressed(s, e, ShiftCtrlMask, body)
    BY DEF self_handle_space
  <2> HIDE DEF body
  <2>3. QED
    BY <1>1, <2>1, <2>2
<1>10. OnlyToggles(self_handle_return(s, e), s)
  BY <1>1, <1>2 DEF self_handle_return
<1>11. ASSUME NEW h PROVE OnlyToggles(self_handle_edit(h, s, e), s)
  BY <1>1, <1>2 DEF self_handle_edit
<1>12. QED
  BY <1>3, <1>6, <1>7, <1>8, <1>9, <1>10, <1>11 DEF handle_key

LEMMA GoodEmptyStale ==
    ASSUME NEW s, NEW g, Good(s, g), s.preEdit = <<>>
    PROVE  StaleListEmpty(s)
<1> DEFINE B == s.ctx.bpmf
           nil == <<>>
<1>1. Shown(s.ctx) = nil /\ ContextOK(s.ctx) /\ B \in Seq(Nat)
  BY DEF Good, Loose, Mirrors, ContextOK, Context
<1>2. Elements(Shown(s.ctx)) = Elements(s.ctx.buf) \cup Elements(B)
  BY <1>1, ShownTyped
<1>3. Elements(nil) = {}
  BY NothingOnce
<1> HIDE DEF B, nil
<1>4. Elements(B) = {}
  BY <1>1, <1>2, <1>3
<1>5. B = <<>>
  <2> SUFFICES ASSUME Len(B) # 0 PROVE FALSE
    BY <1>1, EmptySeq
  <2>1. 1 \in 1 .. Len(B)
    BY <1>1, ElementsOfSeq
  <2>2. B[1] \in Elements(B)
    BY <1>1, <2>1, ElementsOfSeq
  <2>3. QED
    BY <1>4, <2>2
<1>6. QED
  BY <1>5 DEF StaleListEmpty, B

LEMMA ToggleStale ==
    ASSUME NEW s, NEW g, Good(s, g)
    PROVE  StaleListEmpty(toggle_chi_eng_mode(s))
<1> DEFINE f == FlushSyllable(s)
           c == [f.ctx EXCEPT !.chi = ~@]
<1>1. f \in PreEditStruct /\ f.ctx \in Context /\ f.ctx.bpmf = <<>>
  BY FlushGood DEF Good, Loose, ContextOK
<1>2. toggle_chi_eng_mode(s) = WithContext(f, c)
  BY DEF toggle_chi_eng_mode
<1> HIDE DEF f
<1>3. c.bpmf = <<>>
  BY <1>1 DEF Context
<1> HIDE DEF c
<1>4. WithContext(f, c).ctx = c
  BY <1>1 DEF WithContext, PreEditStruct
<1>5. QED
  BY <1>2, <1>3, <1>4 DEF StaleListEmpty

LEMMA ProcessKeyStale ==
    ASSUME NEW s, NEW g, Good(s, g), StaleListEmpty(s), NEW e \in KeyEvent,
           NEW t \in Nat
    PROVE  StaleListEmpty(process_key(s, g, e, t))
<1> DEFINE r == handle_key(s, g, e, t)
           k == [r.self EXCEPT !.keyLast = LastKey(e)]
           u == update(PlainZhuyin(k, g, e))
<1>1. Handled(r, g) /\ Untouched(r, s) /\ OnlyToggles(r, s)
  BY KeyHandled, IgnoredUntouched, AbsorbedToggles
<1>2. process_key(s, g, e, t) =
        CASE r.response = "ABSORB" -> k
          [] r.response = "IGNORE" ->
               IF s.preEdit = <<>> THEN k ELSE force_commit(k)
          [] OTHER -> RefreshTable(u)
  BY DEF process_key
<1> HIDE DEF r
<1>3. r.self \in PreEditStruct
  BY <1>1 DEF Handled, Loose
<1>4. Loose(k, g) /\ k.ctx = r.self.ctx /\ k.table = r.self.table
  BY <1>1, <1>3, LastKeyGood DEF Handled, PreEditStruct
<1>5. u \in PreEditStruct
  BY <1>4, PlainZhuyinLoose, Updated DEF Loose
<1> HIDE DEF k, u
<1>6. StaleListEmpty(RefreshTable(u))
  BY <1>5 DEF RefreshTable, PreEditStruct, StaleListEmpty
<1>7. StaleListEmpty(force_commit(k))
  BY <1>4, ForceCommitGood DEF StaleListEmpty
<1>8. r.response \in {"ABSORB", "IGNORE"} => StaleListEmpty(k)
  BY <1>1, <1>4, ToggleStale DEF Untouched, OnlyToggles, StaleListEmpty
<1>9. QED
  BY <1>2, <1>6, <1>7, <1>8

-----------------------------------------------------------------------------
(* Nothing is lost                                                         *)

\* What an engine without the focus still composes, the client has committed:
\* focus_in, which clears it, loses nothing.
LeftIsTaken == ~Has(FOCUS_IN) => Visible(self) \subseteq Elements(taken)

EngineLossInv ==
    /\ EngineTextInv
    /\ StaleListEmpty(self)
    /\ LeftIsTaken

LEMMA EngineInitLossInv == EngineInit => EngineLossInv
<1> SUFFICES ASSUME EngineInit PROVE EngineLossInv
  OBVIOUS
<1>1. EngineTextInv
  BY EngineInitTextInv
<1>2. Good(self, cfg) /\ self.preEdit = <<>> /\ self.outgoing = <<>>
  BY NewGood DEF EngineInit, Init
<1>3. Visible(self) = {}
  BY <1>2, NothingOnce DEF Visible
<1>4. QED
  BY <1>1, <1>2, <1>3, GoodEmptyStale DEF EngineLossInv, LeftIsTaken

\* A key that spares the text: all of it is still held, or was sent.
LEMMA SendKeyLosesNothing ==
    ASSUME EngineTextInv, Has(FOCUS_IN), NEW e \in KeyEvent, SendKey(e),
           Spares(self, e), ~cfg.plain
    PROVE  Visible(self) \subseteq Visible(self') \cup Elements(taken')
<1> DEFINE t == typed + 1
           s == process_key(self, cfg, e, t)
           whole == Spares(self, e) /\ ~cfg.plain
           O == self.outgoing
           X == s.outgoing
<1>1. /\ Good(self, cfg) /\ typed \in Nat /\ Whole(self, Elements(taken), 1 .. typed)
      /\ taken \in Seq(Nat) /\ O \in Seq(Nat)
  BY FocusedText
<1>2. t \in Nat /\ t \notin Elements(self.preEdit)
  BY <1>1, NextIsNew
<1>3. Flow(self, s, t, whole) /\ Good(s, cfg)
  BY <1>1, <1>2, ProcessKeyFlows, ProcessKeyGood
<1>4. taken' = taken \o X /\ self' = clear_outgoing(s)
  BY DEF SendKey, Update, CommitText
<1> HIDE DEF s, t
<1>5. PICK sent \in Seq(Nat) : Delivers(self, s, t, whole, sent)
  BY <1>1, <1>3, FlowDelivers
<1>6. /\ X = O \o sent
      /\ Elements(self.preEdit) \subseteq Elements(sent) \cup Elements(s.preEdit)
  BY <1>5 DEF Delivers
<1>7. X \in Seq(Nat) /\ self'.preEdit = s.preEdit
  BY <1>3, <1>4, OutgoingCleared DEF Good, Loose, PreEditStruct
<1> HIDE DEF X, O
<1>8. /\ Elements(X) = Elements(O) \cup Elements(sent)
      /\ Elements(taken') = Elements(taken) \cup Elements(X)
  BY <1>1, <1>4, <1>6, <1>7, ConcatOnce
<1>9. QED
  BY <1>6, <1>7, <1>8 DEF Visible, O

LEMMA SendKeyStale ==
    ASSUME EngineTextInv, Has(FOCUS_IN), StaleListEmpty(self), NEW e \in KeyEvent,
           SendKey(e)
    PROVE  StaleListEmpty(self') /\ Has(FOCUS_IN)'
<1> DEFINE s == process_key(self, cfg, e, typed + 1)
<1>1. Good(self, cfg) /\ typed + 1 \in Nat /\ statusFlags \in Nat
  BY DEF EngineTextInv, EngineIInv
<1>2. Good(s, cfg) /\ StaleListEmpty(s)
  BY <1>1, ProcessKeyGood, ProcessKeyStale
<1>3. /\ self' = clear_outgoing(s)
      /\ statusFlags' = set_flag(statusFlags, PROPERTIES_REGISTERED)
  BY DEF SendKey, Update, CommitText
<1> HIDE DEF s
<1>4. StaleListEmpty(self')
  BY <1>2, <1>3, OutgoingCleared DEF StaleListEmpty
<1>5. QED
  BY <1>1, <1>3, <1>4, FlagSet, FlagNames DEF Has

\* The settings change neither the text nor the list.
LEMMA ConfiguredSame ==
    ASSUME NEW s, NEW g, Good(s, g), StaleListEmpty(s), NEW c \in Configs
    PROVE  LET w == use_all_configure(s, c)
           IN  StaleListEmpty(w) /\ Visible(w) = Visible(s)
<1> DEFINE d == [s.ctx EXCEPT !.esc = c.esc, !.easy = c.shiftToggle, !.max = c.max]
           w == use_all_configure(s, c)
<1>1. s \in PreEditStruct /\ s.ctx \in Context
  BY DEF Good, Loose, ContextOK
<1>2. d.cand = s.ctx.cand /\ d.bpmf = s.ctx.bpmf
  BY <1>1 DEF Context
<1>3. w = WithContext(s, d)
  BY DEF use_all_configure
<1> HIDE DEF d, w
<1>4. w.ctx = d /\ w.table = s.table
  BY <1>1, <1>3 DEF WithContext, PreEditStruct
<1>5. w.preEdit = s.preEdit /\ w.outgoing = s.outgoing
  BY ConfiguredGood DEF w
<1>6. StaleListEmpty(w) /\ Visible(w) = Visible(s)
  BY <1>2, <1>4, <1>5 DEF StaleListEmpty, Visible
<1>7. QED
  BY <1>6 DEF w

LEMMA WidthStale ==
    ASSUME NEW s, NEW g, Good(s, g), StaleListEmpty(s)
    PROVE  StaleListEmpty(WithContext(s, [s.ctx EXCEPT !.full = ~@]))
<1> DEFINE c == [s.ctx EXCEPT !.full = ~@]
<1>1. s \in PreEditStruct /\ s.ctx \in Context
  BY DEF Good, Loose, ContextOK
<1>2. c.bpmf = s.ctx.bpmf /\ c.cand = s.ctx.cand
  BY <1>1 DEF Context
<1> HIDE DEF c
<1>3. WithContext(s, c).ctx = c /\ WithContext(s, c).table = s.table
  BY <1>1 DEF WithContext, PreEditStruct
<1>4. StaleListEmpty(WithContext(s, c))
  BY <1>2, <1>3 DEF StaleListEmpty
<1>5. QED
  BY <1>4 DEF c

LEMMA EngineNextLossInv == EngineLossInv /\ [EngineNext]_engineVars => EngineLossInv'
<1> SUFFICES ASSUME EngineLossInv, [EngineNext]_engineVars PROVE EngineLossInv'
  OBVIOUS
<1>a. /\ EngineTextInv /\ EngineIInv /\ StaleListEmpty(self) /\ LeftIsTaken
      /\ Good(self, cfg) /\ Bare(self, cfg) /\ taken \in Seq(Nat)
      /\ Elements(taken) \subseteq 1 .. typed
  BY LooseIsBare DEF EngineLossInv, EngineTextInv, EngineIInv, Good
<1>b. EngineTextInv' /\ Good(self', cfg')
  BY <1>a, EngineNextTextInv DEF EngineTextInv, EngineIInv
<1> SUFFICES StaleListEmpty(self') /\ LeftIsTaken'
  BY <1>b DEF EngineLossInv
<1>1. ASSUME NEW e \in Events, ProcessKeyEvent(e)
      PROVE  StaleListEmpty(self') /\ LeftIsTaken'
  <2>1. CASE Has(IS_PASSWORD)
    BY <1>1, <1>a, <2>1 DEF ProcessKeyEvent, LeftIsTaken, Has
  <2>2. CASE ~Has(IS_PASSWORD)
    <3>1. PICK system \in SystemLayouts : SendKey(key_code_to_key_sym(e, system))
      BY <1>1, <2>2 DEF ProcessKeyEvent
    <3>2. key_code_to_key_sym(e, system) \in KeyEvent
      BY PreEditAssumption, EngineAssumption DEF key_code_to_key_sym
    <3>3. QED
      BY <1>1, <1>a, <3>1, <3>2, SendKeyStale DEF ProcessKeyEvent, Focused, LeftIsTaken
  <2>3. QED
    BY <2>1, <2>2
<1>2. ASSUME NEW e \in PanelButtons, PanelButton(e)
      PROVE  StaleListEmpty(self') /\ LeftIsTaken'
  BY <1>2, <1>a, ButtonIsKey, SendKeyStale DEF PanelButton, Focused, LeftIsTaken
<1>3. ASSUME NEW i \in 1 .. Len(SelKeys), CandidateClicked(i)
      PROVE  StaleListEmpty(self') /\ LeftIsTaken'
  <2>1. SelKeys[i] \in KeyEvent
    BY EngineAssumption, ElementOfSeq
  <2>2. QED
    BY <1>3, <1>a, <2>1, SendKeyStale DEF CandidateClicked, Focused, LeftIsTaken
<1>4. CASE ActivateInputMode
  BY <1>4, <1>a, ToggleStale DEF ActivateInputMode, Focused, LeftIsTaken, Has
<1>5. CASE ActivateAlnumSize
  BY <1>5, <1>a, WidthStale DEF ActivateAlnumSize, Focused, LeftIsTaken, Has
<1>6. CASE Reset
  BY <1>6, <1>a, ClearGood, GoodEmptyStale DEF Reset, Focused, LeftIsTaken, Has
<1>7. ASSUME NEW c \in Configs, NEW m \in SyncModes, Enable(c, m)
      PROVE  StaleListEmpty(self') /\ LeftIsTaken'
  BY <1>7, <1>a, ConfiguredSame DEF Enable, EngineIInv, LeftIsTaken, Has
<1>8. CASE \/ Disable
           \/ \E purpose \in Purposes : SetContentType(purpose)
           \/ \E caps \in Capabilities : SetCapabilities(caps)
           \/ CapsLockElsewhere
           \/ UNCHANGED engineVars
  <2>1. has_flag(statusFlags', FOCUS_IN) <=> has_flag(statusFlags, FOCUS_IN)
    BY <1>8, <1>a, FlagCall
  <2>2. self' = self /\ taken' = taken
    BY <1>8 DEF Disable, SetContentType, SetCapabilities, CapsLockElsewhere, engineVars
  <2>3. QED
    BY <1>a, <2>1, <2>2 DEF LeftIsTaken, Has
<1>9. ASSUME NEW c \in Configs, NEW m \in SyncModes, FocusIn(c, m)
      PROVE  StaleListEmpty(self') /\ LeftIsTaken'
  <2>1. Good(self', c) /\ self'.preEdit = <<>> /\ Has(FOCUS_IN)'
    BY <1>9, <1>a, FocusInClears
  <2>2. QED
    BY <2>1, GoodEmptyStale DEF LeftIsTaken
<1>10. CASE FocusOut
  <2>1. self' = self /\ taken' = taken \o panel.preEdit /\ Has(FOCUS_IN)
    BY <1>10 DEF FocusOut, Focused
  <2>2. /\ self.outgoing \in Seq(Nat) /\ self.preEdit \in Seq(Nat)
        /\ panel.preEdit = self.outgoing \o self.preEdit
    BY <1>a, <2>1, FocusedText
  <2> DEFINE shown == self.outgoing \o self.preEdit
  <2>3. shown \in Seq(Nat) /\ Elements(shown) = Visible(self)
    BY <2>2, ConcatProperties, ConcatOnce DEF Visible
  <2> HIDE DEF shown
  <2>4. Elements(taken \o shown) = Elements(taken) \cup Elements(shown)
    BY <1>a, <2>3, ConcatOnce
  <2>5. Visible(self') \subseteq Elements(taken')
    BY <2>1, <2>2, <2>3, <2>4 DEF shown
  <2>6. QED
    BY <1>a, <2>1, <2>5 DEF LeftIsTaken
<1>11. ASSUME NEW c \in Configs, NEW m \in SyncModes, Restart(c, m)
      PROVE  StaleListEmpty(self') /\ LeftIsTaken'
  <2>1. /\ Good(self', c) /\ self'.preEdit = <<>> /\ self'.outgoing = <<>>
    BY <1>11, NewGood DEF Restart
  <2>2. Visible(self') = {}
    BY <2>1, NothingOnce DEF Visible
  <2>3. QED
    BY <2>1, <2>2, GoodEmptyStale DEF LeftIsTaken
<1>12. QED
  BY <1>1, <1>2, <1>3, <1>4, <1>5, <1>6, <1>7, <1>8, <1>9, <1>10, <1>11
     DEF EngineNext, DaemonCall

LEMMA EngineLossInvariance == EngineSpec => []EngineLossInv
BY EngineInitLossInv, EngineNextLossInv, PTL DEF EngineSpec

\* The language bar moves text but keeps it.
LEMMA CallKeepsVisible ==
    ASSUME EngineIInv, ActivateInputMode \/ ActivateAlnumSize
    PROVE  Visible(self') = Visible(self)
<1>1. Good(self, cfg) /\ self.outgoing \in Seq(Nat) /\ self.preEdit \in Seq(Nat)
  BY DEF EngineIInv, Good, Loose, PreEditStruct
<1>2. CASE ActivateInputMode
  <2> DEFINE t == toggle_chi_eng_mode(self)
             held == self.outgoing \o self.preEdit
  <2>1. Good(t, cfg) /\ t.outgoing \o t.preEdit = held
    BY <1>1, ToggleKeeps
  <2>2. self' = t
    BY <1>2 DEF ActivateInputMode
  <2> HIDE DEF t, held
  <2>3. t.outgoing \in Seq(Nat) /\ t.preEdit \in Seq(Nat)
    BY <2>1 DEF Good, Loose, PreEditStruct
  <2>4. Visible(t) = Elements(held)
    BY <2>1, <2>3, ConcatOnce DEF Visible
  <2>5. Visible(self) = Elements(held)
    BY <1>1, ConcatOnce DEF Visible, held
  <2>6. QED
    BY <2>2, <2>4, <2>5
<1>3. CASE ActivateAlnumSize
  BY <1>1, <1>3, WidthKeeps DEF ActivateAlnumSize, Visible
<1>4. QED
  BY <1>2, <1>3

LEMMA NothingLostStep ==
    ASSUME EngineLossInv, EngineNext, ~cfg.plain
    PROVE  \/ Visible(self) \subseteq Visible(self') \cup Elements(taken')
           \/ Reset
           \/ \E c \in Configs, m \in SyncModes : Restart(c, m)
           \/ \E e \in Events :
                 (Erases(e) \/ Erases(UsKey[e])) /\ ProcessKeyEvent(e)
<1> DEFINE Kept == Visible(self) \subseteq Visible(self') \cup Elements(taken')
<1>a. /\ EngineTextInv /\ EngineIInv /\ StaleListEmpty(self) /\ LeftIsTaken
      /\ Good(self, cfg) /\ taken \in Seq(Nat) /\ Elements(taken) \subseteq 1 .. typed
  BY DEF EngineLossInv, EngineTextInv, EngineIInv
<1>1. ASSUME NEW e \in Events, ProcessKeyEvent(e), ~Erases(e), ~Erases(UsKey[e])
      PROVE  Kept
  <2>1. CASE Has(IS_PASSWORD)
    BY <1>1, <2>1 DEF ProcessKeyEvent
  <2>2. CASE ~Has(IS_PASSWORD)
    <3>1. PICK system \in SystemLayouts : SendKey(key_code_to_key_sym(e, system))
      BY <1>1, <2>2 DEF ProcessKeyEvent
    <3> DEFINE k == key_code_to_key_sym(e, system)
    <3>2. k \in KeyEvent /\ ~Erases(k)
      BY <1>1, PreEditAssumption, EngineAssumption DEF key_code_to_key_sym
    <3> HIDE DEF k
    <3>3. Spares(self, k)
      BY <3>2, OthersSpare
    <3>4. SendKey(k) /\ Has(FOCUS_IN)
      BY <1>1, <3>1 DEF k, ProcessKeyEvent, Focused
    <3>5. QED
      BY <1>a, <3>2, <3>3, <3>4, SendKeyLosesNothing
  <2>3. QED
    BY <2>1, <2>2
<1>2. ASSUME NEW e \in PanelButtons, PanelButton(e)
      PROVE  Kept
  BY <1>2, <1>a, ButtonIsKey, ButtonsSpare, SendKeyLosesNothing
     DEF PanelButton, Focused
<1>3. ASSUME NEW i \in 1 .. Len(SelKeys), CandidateClicked(i)
      PROVE  Kept
  <2> DEFINE k == SelKeys[i]
  <2>1. k \in KeyEvent /\ k.sym \in 33 .. 126
    BY SelKeyIsKey
  <2>2. self.table /\ SendKey(k) /\ Has(FOCUS_IN)
    BY <1>3 DEF CandidateClicked, Focused
  <2> HIDE DEF k
  <2>3. Handler(k.sym) \notin {"backspace", "delete", "escape"}
    BY <2>1, PrintableSpares
  <2>4. Spares(self, k)
    BY <1>a, <2>2, <2>3 DEF Spares, Accepts, StaleListEmpty
  <2>5. QED
    BY <1>a, <2>1, <2>2, <2>4, SendKeyLosesNothing
<1>4. CASE ActivateInputMode \/ ActivateAlnumSize
  BY <1>4, <1>a, CallKeepsVisible
<1>5. ASSUME NEW c \in Configs, NEW m \in SyncModes, Enable(c, m)
      PROVE  Kept
  BY <1>5, <1>a, ConfiguredSame DEF Enable
<1>6. ASSUME NEW c \in Configs, NEW m \in SyncModes, FocusIn(c, m)
      PROVE  Kept
  <2>1. taken' = taken /\ ~Has(FOCUS_IN)
    BY <1>6, <1>a, FocusInEmpty DEF FocusIn
  <2>2. QED
    BY <1>a, <2>1 DEF LeftIsTaken
<1>7. CASE \/ Disable
           \/ FocusOut
           \/ \E purpose \in Purposes : SetContentType(purpose)
           \/ \E caps \in Capabilities : SetCapabilities(caps)
           \/ CapsLockElsewhere
  BY <1>7 DEF Disable, FocusOut, SetContentType, SetCapabilities, CapsLockElsewhere
<1>8. QED
  BY <1>1, <1>2, <1>3, <1>4, <1>5, <1>6, <1>7 DEF EngineNext, DaemonCall

\* Outside plain Zhuyin mode, no key but an erasing one, no click, no switch of
\* language or width, no change of settings and no change of focus makes a
\* character vanish: it stays with the engine or reaches the application.
THEOREM EngineLosesNothing ==
    ASSUME \A c \in Configs : ~c.plain
    PROVE  EngineSpec => NothingLost
<1>1. EngineLossInv /\ [EngineNext]_engineVars =>
        [\/ Visible(self) \subseteq Visible(self') \cup Elements(taken')
         \/ Reset
         \/ \E c \in Configs, m \in SyncModes : Restart(c, m)
         \/ \E e \in Events :
               (Erases(e) \/ Erases(UsKey[e])) /\ ProcessKeyEvent(e)]_engineVars
  BY NothingLostStep DEF EngineLossInv, EngineTextInv, EngineIInv
<1>2. QED
  BY <1>1, EngineLossInvariance, PTL DEF EngineSpec, NothingLost
-----------------------------------------------------------------------------
(* The language and the light                                              *)

\* The rows of keyHandlingRules that change the language.
LEMMA LanguageRules ==
    /\ \A i \in 1 .. 28 :
         /\ keyHandlingRules[i].handler = "caps_lock" =>
              keyHandlingRules[i].lower = 65509 /\ keyHandlingRules[i].upper = 65509
         /\ keyHandlingRules[i].handler = "shift" =>
              keyHandlingRules[i].lower = 65505 /\ keyHandlingRules[i].upper = 65506
    /\ Covers(3, 65509) /\ keyHandlingRules[3].handler = "caps_lock"
    /\ ~Covers(1, 65509) /\ ~Covers(2, 65509)
BY RulesNumbered DEF Covers, keyHandlingRules, Rule, KeyReturn, KeyEscape,
   KeyShiftL, KeyShiftR, KeyEnd, KeySpace, KeyCapsLock, KeyUp, KeyDown,
   KeyPageUp, KeyPageDown

LEMMA LanguageSymbols ==
    ASSUME NEW k \in Nat
    PROVE  /\ Handler(k) = "caps_lock" <=> k = KeyCapsLock
           /\ Handler(k) = "shift" => k \in ShiftKeys
<1>1. ASSUME Handler(k) \in {"caps_lock", "shift"}
      PROVE  \E j \in 1 .. 28 : /\ Covers(j, k)
                                /\ Handler(k) = keyHandlingRules[j].handler
  BY <1>1, FirstRule
<1>2. Handler(k) = "caps_lock" => k = KeyCapsLock
  BY <1>1, LanguageRules DEF Covers, KeyCapsLock
<1>3. Handler(k) = "shift" => k \in ShiftKeys
  <2>1. ASSUME Handler(k) = "shift" PROVE 65505 <= k /\ k <= 65506
    BY <1>1, <2>1, LanguageRules DEF Covers
  <2>2. QED
    BY <2>1 DEF ShiftKeys, KeyShiftL, KeyShiftR
<1>4. ASSUME k = KeyCapsLock PROVE Handler(k) = "caps_lock"
  <2>1. k = 65509 /\ Covers(3, k)
    BY <1>4, LanguageRules DEF KeyCapsLock
  <2>2. PICK j \in 1 .. 28 : /\ Covers(j, k)
                             /\ Handler(k) = keyHandlingRules[j].handler
                             /\ \A i \in 1 .. 28 : Covers(i, k) => j <= i
    BY <2>1, FirstRule
  <2>3. j <= 3 /\ j # 1 /\ j # 2
    BY <2>1, <2>2, LanguageRules
  <2>4. j = 3
    BY <2>3
  <2>5. QED
    BY <2>2, <2>4, LanguageRules
<1>5. QED
  BY <1>2, <1>3, <1>4

\* What happens to the language on the way through a handler: nothing.
Speaks(r, s) == r.self.ctx.chi = s.ctx.chi

LEMMA AnswerSpeaks ==
    ASSUME NEW s, NEW response
    PROVE  Speaks(Answer(s, response), s)
BY DEF Speaks, Answer

LEMMA CallSpeaks ==
    ASSUME NEW s, NEW g, Loose(s, g), NEW c, Follows(s.ctx, c)
    PROVE  /\ Speaks(Processed(s, c), s)
           /\ WithContext(s, c).ctx.chi = s.ctx.chi
BY CallLoose DEF Speaks, Processed, Answer, Follows

LEMMA ScreenSpeaks ==
    ASSUME NEW s, NEW e, NEW mask, NEW body, Speaks(body, s)
    PROVE  Speaks(WhenPressed(s, e, mask, body), s) /\ Speaks(WhenComposing(s, body), s)
BY AnswerSpeaks DEF WhenPressed, WhenComposing

LEMMA QuickCommitSpeaks ==
    ASSUME NEW s, NEW g, Loose(s, g), NEW b \in BOOLEAN,
           NEW c, Follows([s.ctx EXCEPT !.easy = b], c)
    PROVE  Speaks(QuickCommit(s, c), s)
<1> DEFINE p == [s EXCEPT !.ctx = c, !.updated = FALSE]
           u == update_outgoing(p)
           d == [u.ctx EXCEPT !.easy = s.ctx.easy]
<1>1. s \in PreEditStruct /\ s.ctx \in Context /\ ContextOK(c) /\ c.chi = s.ctx.chi
  BY DEF Loose, ContextOK, Context, Follows
<1>2. p \in PreEditStruct /\ p.ctx = c
  BY <1>1 DEF PreEditStruct, ContextOK
<1> HIDE DEF p
<1>3. u \in PreEditStruct /\ u.ctx = c
  BY <1>2, UpdateOutgoing
<1> HIDE DEF u
<1>4. d.chi = s.ctx.chi
  BY <1>1, <1>3 DEF ContextOK, Context
<1>5. QuickCommit(s, c) = Answer(WithContext(u, d), "PROCESS")
  BY DEF QuickCommit, d, u, p
<1> HIDE DEF d
<1>6. WithContext(u, d).ctx = d
  BY <1>3 DEF WithContext, PreEditStruct
<1>7. QED
  BY <1>4, <1>5, <1>6 DEF Speaks, Answer

LEMMA FlushSpeaks ==
    ASSUME NEW s, NEW g, Good(s, g)
    PROVE  /\ FlushSyllable(s).ctx.chi = s.ctx.chi
           /\ toggle_full_half(s).ctx.chi = s.ctx.chi
           /\ toggle_chi_eng_mode(s).ctx.chi = ~s.ctx.chi
<1> DEFINE f == FlushSyllable(s)
<1>1. Good(f, g)
  BY FlushGood
<1>2. f.ctx.chi = s.ctx.chi
  BY ForceCommitGood DEF FlushSyllable, Good
<1>3. toggle_full_half(s) = WithContext(f, [f.ctx EXCEPT !.full = ~@])
      /\ toggle_chi_eng_mode(s) = WithContext(f, [f.ctx EXCEPT !.chi = ~@])
  BY DEF toggle_full_half, toggle_chi_eng_mode
<1> HIDE DEF f
<1>4. f \in PreEditStruct /\ f.ctx \in Context
  BY <1>1 DEF Good, Loose, ContextOK
<1>5. \A c : WithContext(f, c).ctx = c
  BY <1>4 DEF WithContext, PreEditStruct
<1>6. /\ [f.ctx EXCEPT !.full = ~@].chi = f.ctx.chi
      /\ [f.ctx EXCEPT !.chi = ~@].chi = ~f.ctx.chi
  BY <1>4 DEF Context
<1>7. QED
  BY <1>2, <1>3, <1>5, <1>6 DEF f

LEMMA TextKeySpeaks ==
    ASSUME NEW s, NEW g, Good(s, g), NEW e, NEW t \in Nat
    PROVE  Speaks(self_handle_key_sym_default(s, e, t), s)
<1> DEFINE b == s.ctx.easy /\ e.mods = {"shift"}
           c == handle_Default([s.ctx EXCEPT !.easy = b], e.kind, t)
<1>1. Loose(s, g) /\ ContextOK(s.ctx) /\ b \in BOOLEAN
  BY DEF Good, Loose, ContextOK, Context
<1>2. Follows([s.ctx EXCEPT !.easy = b], c)
  BY <1>1, EasyRestored, DefaultFollows
<1>3. self_handle_key_sym_default(s, e, t) =
        IF Refused(e.mods, ShiftMask) THEN Answer(s, "IGNORE")
        ELSE QuickCommit(s, c)
  BY <1>1 DEF self_handle_key_sym_default, ContextOK, Context
<1> HIDE DEF c, b
<1>4. Speaks(QuickCommit(s, c), s)
  BY <1>1, <1>2, QuickCommitSpeaks
<1>5. QED
  BY <1>3, <1>4, AnswerSpeaks

LEMMA NumSpeaks ==
    ASSUME NEW s, NEW g, Good(s, g), NEW e, NEW t \in Nat
    PROVE  Speaks(self_handle_num(s, e, t), s)
<1>1. Loose(s, g) /\ ContextOK(s.ctx)
  BY DEF Good, Loose
<1>2. Speaks(Processed(s, handle_CtrlNum(s.ctx, e.sym)), s)
  BY <1>1, ListKeysFollow, CallSpeaks
<1>3. Speaks(self_handle_key_sym_default(s, e, t), s)
  BY TextKeySpeaks
<1>4. QED
  BY <1>2, <1>3, ScreenSpeaks DEF self_handle_num

LEMMA SpaceSpeaks ==
    ASSUME NEW s, NEW g, Good(s, g), NEW e, NEW t \in Nat
    PROVE  Speaks(self_handle_space(s, e, t), s)
<1> DEFINE c    == handle_Space([s.ctx EXCEPT !.easy = FALSE], t)
           body == IF e.mods = {"shift"}
                   THEN Answer(toggle_full_half(s), "PROCESS")
                   ELSE QuickCommit(s, c)
<1>1. Loose(s, g) /\ ContextOK(s.ctx)
  BY DEF Good, Loose
<1>2. Follows([s.ctx EXCEPT !.easy = FALSE], c)
  BY <1>1, EasyRestored, SpaceFollows
<1>3. self_handle_space(s, e, t) = WhenPressed(s, e, ShiftCtrlMask, body)
  BY DEF self_handle_space
<1> HIDE DEF c
<1>4. Speaks(Answer(toggle_full_half(s), "PROCESS"), s)
  BY FlushSpeaks DEF Speaks, Answer
<1>5. Speaks(body, s)
  BY <1>1, <1>2, <1>4, QuickCommitSpeaks
<1> HIDE DEF body
<1>6. QED
  BY <1>3, <1>5, ScreenSpeaks

LEMMA ReturnSpeaks ==
    ASSUME NEW s, NEW g, Good(s, g), NEW e
    PROVE  Speaks(self_handle_return(s, e), s)
<1>1. Loose(s, g) /\ s.ctx \in Context /\ ContextOK(s.ctx)
  BY DEF Good, Loose, ContextOK
<1>2. s.ctx.easy \in BOOLEAN /\ s.ctx = [s.ctx EXCEPT !.easy = s.ctx.easy]
  BY <1>1 DEF Context
<1>3. Speaks(QuickCommit(s, handle_Enter(s.ctx)), s)
  BY <1>1, <1>2, EnterFollows, QuickCommitSpeaks
<1>4. QED
  BY <1>3, ScreenSpeaks DEF self_handle_return

LEMMA EditSpeaks ==
    ASSUME NEW h, NEW s, NEW g, Good(s, g), NEW e \in KeyEvent
    PROVE  Speaks(self_handle_edit(h, s, e), s)
<1>1. Loose(s, g) /\ ContextOK(s.ctx)
  BY DEF Good, Loose
<1>2. Speaks(Processed(s, EditCall(h, s.ctx, e)), s)
  BY <1>1, EditCallFollows, CallSpeaks
<1>3. QED
  BY <1>2, ScreenSpeaks DEF self_handle_edit

\* A handler changes the language for Caps Lock pressed on its own and for a
\* Shift released, and for nothing else.
Switches(e) == e.sym = KeyCapsLock /\ ~e.released

LEMMA CapsLockSpeaks ==
    ASSUME NEW s, NEW g, Good(s, g), NEW e, e.mods = {}
    PROVE  self_handle_caps_lock(s, e).self.ctx.chi =
              IF e.released THEN s.ctx.chi ELSE ~s.ctx.chi
<1> DEFINE f == FlushSyllable(s)
           c == handle_Capslock(f.ctx)
<1>1. ~Refused(e.mods, NoMask)
  <2>1. {} # {"shift", "ctrl"}
    OBVIOUS
  <2>2. QED
    BY <2>1 DEF Refused
<1>2. self_handle_caps_lock(s, e) =
        IF e.released THEN Answer(s, "ABSORB") ELSE Answer(WithContext(f, c), "PROCESS")
  BY <1>1 DEF self_handle_caps_lock, WhenPressed, Processed
<1>3. Good(f, g) /\ f.ctx.chi = s.ctx.chi
  BY FlushGood, FlushSpeaks
<1> HIDE DEF f
<1>4. f \in PreEditStruct /\ f.ctx \in Context
  BY <1>3 DEF Good, Loose, ContextOK
<1>5. c.chi = ~f.ctx.chi
  BY <1>4 DEF handle_Capslock, Quiet, Context
<1> HIDE DEF c
<1>6. WithContext(f, c).ctx = c
  BY <1>4 DEF WithContext, PreEditStruct
<1>7. QED
  BY <1>2, <1>3, <1>5, <1>6 DEF Answer

LEMMA KeySpeaks ==
    ASSUME NEW s, NEW g, Good(s, g), NEW e \in KeyEvent, NEW t \in Nat,
           e.sym = KeyCapsLock => e.mods = {},
           ~ (e.sym \in ShiftKeys /\ e.released)
    PROVE  handle_key(s, g, e, t).self.ctx.chi =
              IF Switches(e) THEN ~s.ctx.chi ELSE s.ctx.chi
<1> DEFINE h == Handler(e.sym)
<1>1. e.sym \in Nat
  BY DEF KeyEvent
<1>2. (h = "caps_lock" <=> e.sym = KeyCapsLock) /\ (h = "shift" => e.sym \in ShiftKeys)
  BY <1>1, LanguageSymbols
<1>3. CASE h = "caps_lock"
  <2>1. handle_key(s, g, e, t) = self_handle_caps_lock(s, e)
    BY <1>3 DEF handle_key, EditHandlers
  <2>2. QED
    BY <1>2, <1>3, <2>1, CapsLockSpeaks DEF Switches
<1>4. CASE h = "shift"
  <2>1. handle_key(s, g, e, t) = self_handle_shift(s, g, e)
    BY <1>4 DEF handle_key, EditHandlers
  <2>2. handle_key(s, g, e, t).self = s
    BY <1>2, <1>4, <2>1 DEF self_handle_shift, Answer
  <2>3. QED
    BY <1>2, <1>4, <2>2 DEF Switches
<1>5. CASE h \notin {"caps_lock", "shift"}
  <2>1. Speaks(self_handle_default(s, e, t), s)
    BY TextKeySpeaks, ScreenSpeaks DEF self_handle_default
  <2>2. Speaks(handle_key(s, g, e, t), s)
    BY <1>5, <2>1, NumSpeaks, SpaceSpeaks, ReturnSpeaks, EditSpeaks, AnswerSpeaks
       DEF handle_key
  <2>3. QED
    BY <1>2, <1>5, <2>2 DEF Speaks, Switches
<1>6. QED
  BY <1>3, <1>4, <1>5

LEMMA PlainZhuyinSpeaks ==
    ASSUME NEW s, NEW g, Loose(s, g), NEW e
    PROVE  PlainZhuyin(s, g, e).ctx.chi = s.ctx.chi
<1> DEFINE moved == IF "shift" \in e.mods THEN handle_Left(s.ctx) ELSE s.ctx
           upped == handle_Up(s.ctx)
           down  == handle_Down(moved, e.choices)
<1>1. ContextOK(s.ctx) /\ Follows(s.ctx, s.ctx)
  BY DEF Loose, Follows
<1>2. Follows(s.ctx, moved) /\ Follows(s.ctx, upped)
  BY <1>1, CursorKeysFollow, ListKeysFollow
<1>3. PlainZhuyin(s, g, e) \in
        {s, clear_pre_edit(s), WithContext(s, handle_Enter(upped)),
         WithContext(s, down), WithContext(s, handle_Enter(s.ctx))}
  BY DEF PlainZhuyin
<1> HIDE DEF moved, upped
<1>4. Follows(s.ctx, down)
  <2>1. ContextOK(moved)
    BY <1>2 DEF Follows
  <2>2. Follows(moved, down)
    BY <2>1, ListKeysFollow
  <2>3. QED
    BY <1>2, <2>2, FollowsTransitive
<1>5. Follows(s.ctx, handle_Enter(upped)) /\ Follows(s.ctx, handle_Enter(s.ctx))
  BY <1>1, <1>2, EnterFollows, FollowsTransitive DEF Follows
<1>6. clear_pre_edit(s).ctx.chi = s.ctx.chi
  BY LooseIsBare, PreEditCleared
<1>7. QED
  BY <1>3, <1>4, <1>5, <1>6, CallSpeaks

\* The rest of process_key leaves the language alone.
LEMMA ProcessKeySpeaks ==
    ASSUME NEW s, NEW g, Good(s, g), NEW e \in KeyEvent, NEW t \in Nat,
           e.sym = KeyCapsLock => e.mods = {},
           ~ (e.sym \in ShiftKeys /\ e.released)
    PROVE  process_key(s, g, e, t).ctx.chi =
              IF Switches(e) THEN ~s.ctx.chi ELSE s.ctx.chi
<1> DEFINE r == handle_key(s, g, e, t)
           k == [r.self EXCEPT !.keyLast = LastKey(e)]
           z == PlainZhuyin(k, g, e)
           u == update(z)
<1>1. Handled(r, g) /\ r.self.ctx.chi = IF Switches(e) THEN ~s.ctx.chi ELSE s.ctx.chi
  BY KeyHandled, KeySpeaks
<1>2. process_key(s, g, e, t) =
        CASE r.response = "ABSORB" -> k
          [] r.response = "IGNORE" ->
               IF s.preEdit = <<>> THEN k ELSE force_commit(k)
          [] OTHER -> RefreshTable(u)
  BY DEF process_key
<1> HIDE DEF r
<1>3. Loose(k, g) /\ k.ctx = r.self.ctx
  BY <1>1, LastKeyGood DEF Handled, Loose, PreEditStruct
<1> HIDE DEF k
<1>4. Loose(z, g) /\ z.ctx.chi = k.ctx.chi
  BY <1>3, PlainZhuyinLoose, PlainZhuyinSpeaks
<1> HIDE DEF z
<1>5. Loose(u, g) /\ u.ctx = z.ctx
  BY <1>4, Updated
<1> HIDE DEF u
<1>6. RefreshTable(u).ctx = u.ctx
  BY <1>5 DEF RefreshTable, Loose, PreEditStruct
<1>7. force_commit(k).ctx.chi = k.ctx.chi
  BY <1>3, ForceCommitGood
<1>8. QED
  BY <1>1, <1>2, <1>3, <1>4, <1>5, <1>6, <1>7

LEMMA SendKeySpeaks ==
    ASSUME EngineIInv, NEW k \in KeyEvent, SendKey(k),
           k.sym = KeyCapsLock => k.mods = {},
           ~ (k.sym \in ShiftKeys /\ k.released)
    PROVE  self'.ctx.chi = IF Switches(k) THEN ~self.ctx.chi ELSE self.ctx.chi
<1> DEFINE s == process_key(self, cfg, k, typed + 1)
<1>1. Good(self, cfg) /\ typed + 1 \in Nat
  BY DEF EngineIInv
<1>2. Good(s, cfg) /\ s.ctx.chi = IF Switches(k) THEN ~self.ctx.chi ELSE self.ctx.chi
  BY <1>1, ProcessKeyGood, ProcessKeySpeaks
<1>3. self' = clear_outgoing(s)
  BY DEF SendKey, Update, CommitText
<1> HIDE DEF s
<1>4. QED
  BY <1>2, <1>3, OutgoingCleared

\* A key of a usual keyboard, struck without a modifier.
LEMMA KeyKeepsLight ==
    ASSUME EngineIInv, UsualKeyboard, NEW e \in Events, ProcessKeyEvent(e),
           e.mods = {}, ~Has(IS_PASSWORD), led = ~self.ctx.chi
    PROVE  led' = ~self'.ctx.chi
<1>1. PICK system \in SystemLayouts : SendKey(key_code_to_key_sym(e, system))
  BY DEF ProcessKeyEvent
<1> DEFINE k == key_code_to_key_sym(e, system)
<1>2. k \in {e, UsKey[e]} /\ k \in KeyEvent
  BY PreEditAssumption, EngineAssumption DEF key_code_to_key_sym
<1>3. SendKey(k)
  BY <1>1
<1> HIDE DEF k
<1>4. /\ k.mods = {} /\ k.released = e.released
      /\ k.sym = KeyCapsLock <=> e.sym = KeyCapsLock
      /\ ~ (k.sym \in ShiftKeys /\ k.released)
  BY <1>2 DEF UsualKeyboard
<1>5. self'.ctx.chi = IF Switches(k) THEN ~self.ctx.chi ELSE self.ctx.chi
  BY <1>2, <1>3, <1>4, SendKeySpeaks
<1>6. led' = IF Switches(k) THEN ~led ELSE led
  BY <1>4 DEF ProcessKeyEvent, Switches
<1>7. self.ctx.chi \in BOOLEAN
  BY DEF EngineIInv, Good, Loose, ContextOK, Context
<1>8. QED
  BY <1>5, <1>6, <1>7

LEMMA ButtonKeepsLight ==
    ASSUME EngineIInv,
           \/ \E e \in PanelButtons : PanelButton(e)
           \/ \E i \in 1 .. Len(SelKeys) : CandidateClicked(i)
    PROVE  led' = led /\ self'.ctx.chi = self.ctx.chi
<1>1. ASSUME NEW k \in KeyEvent, k.sym \notin ShiftKeys \cup {KeyCapsLock}, SendKey(k)
      PROVE  self'.ctx.chi = self.ctx.chi
  BY <1>1, SendKeySpeaks DEF Switches
<1>2. ASSUME NEW e \in PanelButtons, PanelButton(e)
      PROVE  led' = led /\ self'.ctx.chi = self.ctx.chi
  <2>1. e.sym \in {KeyPageUp, KeyPageDown, KeyUp, KeyDown} /\ e \in KeyEvent
    BY ButtonIsKey DEF PanelButtons
  <2>2. e.sym \notin ShiftKeys \cup {KeyCapsLock}
    BY <2>1 DEF KeyPageUp, KeyPageDown, KeyUp, KeyDown, ShiftKeys, KeyShiftL,
       KeyShiftR, KeyCapsLock
  <2>3. QED
    BY <1>1, <1>2, <2>1, <2>2 DEF PanelButton
<1>3. ASSUME NEW i \in 1 .. Len(SelKeys), CandidateClicked(i)
      PROVE  led' = led /\ self'.ctx.chi = self.ctx.chi
  <2> DEFINE sym == SelKeys[i].sym
  <2>1. SelKeys[i] \in KeyEvent /\ sym \in 33 .. 126
    BY SelKeyIsKey
  <2> HIDE DEF sym
  <2>2. sym \notin ShiftKeys \cup {KeyCapsLock}
    BY <2>1 DEF ShiftKeys, KeyShiftL, KeyShiftR, KeyCapsLock
  <2>3. QED
    BY <1>1, <1>3, <2>1, <2>2 DEF CandidateClicked, sym
<1>4. QED
  BY <1>2, <1>3

\* focus_in obeys whichever of the two sync-caps-lock names.
LEMMA FocusInLight ==
    ASSUME EngineIInv, NEW c \in Configs, NEW m \in SyncModes, FocusIn(c, m),
           sync' # "disable"
    PROVE  led' = ~self'.ctx.chi
<1> DEFINE u == use_all_configure(self, c)
           s == RestoredMode(u, m)
           k == clear(s)
<1>1. /\ Good(u, c) /\ led \in BOOLEAN
  BY ConfiguredGood DEF EngineIInv
<1>2. /\ self' = clear_outgoing(k) /\ led' = RestoredLed(u, m)
      /\ m \in {"keyboard", "input method"}
  BY EngineAssumption DEF FocusIn, CommitText, UseSetting
<1> HIDE DEF u
<1>3. Bare(s, c)
  BY <1>1, RestoredBare
<1>4. RestoredLed(u, m) = ~s.ctx.chi
  <2>1. u \in PreEditStruct /\ u.ctx \in Context
    BY <1>1 DEF Good, Loose, ContextOK
  <2>2. [u.ctx EXCEPT !.chi = ~led].chi = ~led
    BY <2>1 DEF Context
  <2>3. \A d : WithContext(u, d).ctx = d
    BY <2>1 DEF WithContext, PreEditStruct
  <2>4. (~(~led)) = led
    BY <1>1
  <2>5. CASE m = "keyboard"
    BY <2>2, <2>3, <2>4, <2>5 DEF RestoredMode, RestoredLed
  <2>6. CASE m = "input method"
    BY <2>6 DEF RestoredMode, RestoredLed
  <2>7. QED
    BY <1>2, <2>5, <2>6
<1> HIDE DEF s
<1>5. Good(k, c) /\ k.ctx.chi = s.ctx.chi
  BY <1>3, ClearGood
<1> HIDE DEF k
<1>6. self'.ctx.chi = k.ctx.chi
  BY <1>2, <1>5, OutgoingCleared
<1>7. QED
  BY <1>2, <1>4, <1>5, <1>6

\* One step of LightFollowsLanguage, from any state of the invariant.
LEMMA LightStep ==
    ASSUME EngineIInv, UsualKeyboard, EngineNext, Focused', sync' # "disable",
           Focused => led = ~self.ctx.chi
    PROVE  \/ led' = ~self'.ctx.chi
           \/ \E e \in Events :
                 (e.mods # {} \/ Has(IS_PASSWORD)) /\ ProcessKeyEvent(e)
<1>a. /\ Good(self, cfg) /\ Bare(self, cfg) /\ statusFlags \in Nat
      /\ Has(FOCUS_IN) => Has(ENGINE_ENABLED)
  BY LooseIsBare DEF EngineIInv, Good
<1>b. has_flag(statusFlags', FOCUS_IN)
  BY DEF Focused, Has
<1>1. ASSUME NEW e \in Events, ProcessKeyEvent(e), e.mods = {}, ~Has(IS_PASSWORD)
      PROVE  led' = ~self'.ctx.chi
  <2>1. Focused
    BY <1>1 DEF ProcessKeyEvent
  <2>2. QED
    BY <1>1, <2>1, KeyKeepsLight
<1>2. CASE \/ \E e \in PanelButtons : PanelButton(e)
           \/ \E i \in 1 .. Len(SelKeys) : CandidateClicked(i)
  <2>1. Focused
    BY <1>2 DEF PanelButton, CandidateClicked
  <2>2. QED
    BY <1>2, <2>1, ButtonKeepsLight
<1>3. CASE ActivateInputMode
  BY <1>3 DEF ActivateInputMode
<1>4. CASE ActivateAlnumSize
  BY <1>4, <1>a, WidthKeeps DEF ActivateAlnumSize
<1>5. CASE Reset
  BY <1>5, <1>a, ClearGood DEF Reset
<1>6. CASE \/ \E c \in Configs, m \in SyncModes : Enable(c, m)
           \/ Disable
           \/ \E purpose \in Purposes : SetContentType(purpose)
           \/ \E caps \in Capabilities : SetCapabilities(caps)
           \/ CapsLockElsewhere
  <2>1. Has(FOCUS_IN) /\ self' = self
    BY <1>6, <1>b, FlagCall DEF Has
  <2>2. Focused
    BY <1>a, <2>1 DEF Focused
  <2>3. led' = led
    BY <1>6, <2>1 DEF Enable, Disable, SetContentType, SetCapabilities,
       CapsLockElsewhere
  <2>4. QED
    BY <2>1, <2>2, <2>3
<1>7. CASE FocusOut
  BY <1>7, <1>b, FocusGone
<1>8. ASSUME NEW c \in Configs, NEW m \in SyncModes, FocusIn(c, m)
      PROVE  led' = ~self'.ctx.chi
  BY <1>8, FocusInLight
<1>9. ASSUME NEW c \in Configs, NEW m \in SyncModes, Restart(c, m)
      PROVE  FALSE
  BY <1>9, <1>b DEF Restart, has_flag, INITIALIZED, FOCUS_IN
<1>10. QED
  BY <1>1, <1>2, <1>3, <1>4, <1>5, <1>6, <1>7, <1>8, <1>9 DEF EngineNext, DaemonCall

\* On a usual keyboard the light tells the language wherever sync-caps-lock
\* is on: restore_mode brings them together when the focus comes, and Caps
\* Lock and the language bar turn both.
THEOREM LightAlwaysFollowsLanguage ==
    ASSUME UsualKeyboard
    PROVE  EngineSpec => LightFollowsLanguage
<1>1. EngineIInv /\ [EngineNext]_engineVars =>
        [Focused' /\ sync' # "disable" /\ (Focused => led = ~self.ctx.chi)
            => \/ led' = ~self'.ctx.chi
               \/ \E e \in Events :
                     (e.mods # {} \/ Has(IS_PASSWORD)) /\ ProcessKeyEvent(e)]_engineVars
  BY LightStep
<1>2. QED
  BY <1>1, EngineInvariance, PTL DEF EngineSpec, LightFollowsLanguage
=============================================================================
