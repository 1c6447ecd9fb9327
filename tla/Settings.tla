------------------------------ MODULE Settings ------------------------------
(***************************************************************************)
(* The settings and the processes that share them: the GSettings store, an *)
(* engine that reads every key in turn whenever it is created, enabled or  *)
(* focused and applies each to libchewing, setup dialogs that write every  *)
(* key back when OK is pressed, the gsettings tool, which writes any key   *)
(* at any time, and an administrator who makes keys read-only.  Nothing    *)
(* makes reading or writing all of the keys one step.                      *)
(***************************************************************************)
EXTENDS Naturals, Sequences, FiniteSets, FiniteSetsExt

CONSTANTS
    Studied,        \* the keys of the properties under study, in their order
    SelKeyLists,    \* selKeys_array, each list a sequence of its characters
    Stored,         \* Stored[k]: the values other tools may store for key k
    Picked,         \* Picked[k]: the values a user of the dialog gives key k
    Lockable,       \* the keys an administrator may make read-only
    Dialogs         \* setup dialogs, each a process

Keys == {Studied[i] : i \in DOMAIN Studied}

VARIABLES
    store,          \* the value of each key in GSettings
    locked,         \* the keys that are read-only
    engine,         \* the pre-edit object, as far as settings reach into it
    dialog,         \* dialog[d]: a setup dialog
    behind          \* behind[p]: the keys process p has not read, or others
                    \* have written since p last read or wrote them

settingsVars == <<store, locked, engine, dialog, behind>>

-----------------------------------------------------------------------------
(* The properties, in the order every loop over them takes.                *)

MAX_SELKEY == 10

kbType_ids == {"default", "hsu", "ibm", "gin_yieh", "eten", "eten26",
               "dvorak", "dvorak_hsu", "dachen_26", "hanyu"}

syncCapsLock_strs == {"disable", "keyboard", "input method"}

\* `widget`: a check button, a spin button, or a combo box, which for the one
\* property without MKDG_PROPERTY_FLAG_NO_NEW has a text entry.
Row(key, widget, valid, apply) ==
    [key |-> key, widget |-> widget, valid |-> valid, apply |-> apply]

Check(key, apply) == Row(key, "check", BOOLEAN, apply)

\* `apply`: the callback hands the value to libchewing ("own"), rebuilds the
\* labels ("resize"), or leaves it in its PropertyContext ("cached").
AllRows == <<
    Row("kb-type", "combo", kbType_ids, "own"),
    Row("sel-keys", "entry", SelKeyLists, "resize"),
    Row("hsu-sel-key-type", "spin", 1 .. 2, "own"),
    Check("auto-shift-cur", "own"),
    Check("add-phrase-direction", "own"),
    Check("easy-symbol-input", "easySymbolInput"),
    Check("esc-clean-all-buf", "own"),
    Row("max-chi-symbol-len", "spin", 8 .. 39, "own"),
    Check("force-lowercase-english", "cached"),
    Row("sync-caps-lock", "combo", syncCapsLock_strs, "syncCapsLock"),
    Check("numpad-always-number", "cached"),
    Check("shift-toggle-chinese", "easySymbolInput"),
    Check("plain-zhuyin", "cached"),
    Row("cand-per-page", "spin", 8 .. 10, "resize"),
    Check("phrase-choice-from-last", "own"),
    Check("space-as-selection", "own")>>

SpecOf(k) == CHOOSE row \in {AllRows[i] : i \in DOMAIN AllRows} : row.key = k

propSpecs == [i \in DOMAIN Studied |-> SpecOf(Studied[i])]

ASSUME SettingsAssumption ==
    /\ Studied \in Seq(STRING)
    /\ \E row \in [DOMAIN Studied -> DOMAIN AllRows] :
          \A i \in DOMAIN Studied :
              /\ Studied[i] = AllRows[row[i]].key
              /\ \A j \in DOMAIN Studied : i < j => row[i] < row[j]
    /\ {"sel-keys", "cand-per-page"} \subseteq Keys
    /\ SelKeyLists \subseteq Seq(STRING) \ {<<>>}
    /\ \E s \in SelKeyLists : s[1] = "1"
    /\ Stored["sel-keys"] \subseteq Seq(STRING)
    /\ Stored["cand-per-page"] \subseteq Nat
    /\ Lockable \subseteq Keys
    /\ {"engine", "other"} \cap Dialogs = {}

Default ==
    [k \in Keys |->
        CASE k = "kb-type" -> "default"
          [] k = "sel-keys" -> CHOOSE s \in SelKeyLists : s[1] = "1"
          [] k = "hsu-sel-key-type" -> 1
          [] k = "max-chi-symbol-len" -> 20
          [] k = "sync-caps-lock" -> "disable"
          [] k = "cand-per-page" -> 10
          [] OTHER -> k \notin {"esc-clean-all-buf", "force-lowercase-english",
                                "plain-zhuyin", "space-as-selection"}]

-----------------------------------------------------------------------------
(* The engine.  cache[k] is the value of k's PropertyContext; `table` is    *)
(* the lookup table, and `chewing` what libchewing and FLAG_SYNC_FROM_*    *)
(* have been told: {} where nothing definite has been said.                *)

Fields == {"easySymbolInput", "candPerPage", "selKey", "sync"}
          \cup {k \in Keys : SpecOf(k).apply = "own"}

NewPreEdit ==
    [phase |-> "new", at |-> 1, cache |-> Default, table |-> {},
     chewing |-> [f \in Fields |-> {}]]

\* The labels of a table when the first of them are set to keys: those of an
\* earlier, longer list stay behind them.
Relabelled(labels, keys) == keys \o SubSeq(labels, Len(keys) + 1, Len(labels))

\* Mutated: every key of the list, however many fit on a page.
Resized_unbounded(e) ==
    LET list == e.cache["sel-keys"]
        keys == SubSeq(list, 1, Min({Len(list), MAX_SELKEY}))
        made == {[t EXCEPT !.labels = Relabelled(@, keys)] : t \in e.table}
    IN  [e EXCEPT !.table = made,
                  !.chewing = [@ EXCEPT !["candPerPage"] = {Len(keys)},
                                        !["selKey"] = IF made = {} THEN {} ELSE {keys}]]

\* ibus_chewing_lookup_table_resize: ibus_lookup_table_clear leaves the labels
\* alone.  Without a table, what libchewing gets is an array of selection keys
\* nobody has filled in.
Resized(e) ==
    LET list == e.cache["sel-keys"]
        keys == SubSeq(list, 1, Min({Len(list), MAX_SELKEY,
                                     e.cache["cand-per-page"]}))
        made == {[t EXCEPT !.labels = Relabelled(@, keys)] : t \in e.table}
    IN  [e EXCEPT !.table = made,
                  !.chewing = [@ EXCEPT !["candPerPage"] = {Len(keys)},
                                        !["selKey"] = IF made = {} THEN {} ELSE {keys}]]

\* The apply callback of a property.
Applied(e, row) ==
    LET v == e.cache[row.key] IN
    CASE row.apply = "own" -> [e EXCEPT !.chewing[row.key] = {v}]
      [] row.apply = "easySymbolInput" ->
            [e EXCEPT !.chewing["easySymbolInput"] = {v}]
      [] row.apply = "syncCapsLock" ->
            [e EXCEPT !.chewing["sync"] = {v} \cap {"keyboard", "input method"}]
      [] row.apply = "resize" -> Resized(e)
      [] OTHER -> e

\* Mutated: the value is never read again.
Load_cached(e, k) == e

\* property_context_read, from GSettings.
Load(e, k) == [e EXCEPT !.cache[k] = store[k]]

\* Process p is now the one that knows key k best.
UpToDate(p, k) == [behind EXCEPT ![p] = @ \ {k}]

Written(p, k) ==
    [q \in DOMAIN behind |-> IF q = p THEN behind[q] \ {k} ELSE behind[q] \cup {k}]

\* enable and focus_in: every property is read and applied again.
UseAll ==
    /\ engine.phase = "idle"
    /\ engine' = [engine EXCEPT !.phase = "using", !.at = 1]
    /\ UNCHANGED <<store, locked, dialog, behind>>

\* One turn of mkdg_properties_use_all: load, then apply.
Use ==
    /\ engine.phase \in {"new", "using"}
    /\ engine.at <= Len(propSpecs)
    /\ LET row == propSpecs[engine.at]
       IN  /\ engine' = [Applied(Load(engine, row.key), row) EXCEPT !.at = @ + 1]
           /\ behind' = UpToDate("engine", row.key)
    /\ UNCHANGED <<store, locked, dialog>>

UsedAll ==
    /\ engine.phase = "using"
    /\ engine.at > Len(propSpecs)
    /\ engine' = [engine EXCEPT !.phase = "idle"]
    /\ UNCHANGED <<store, locked, dialog, behind>>

\* The rest of ibus_chewing_pre_edit_new: the page size is chosen here, once.
NewLookupTable ==
    /\ engine.phase = "new"
    /\ engine.at > Len(propSpecs)
    /\ LET fresh == [pageSize |-> engine.cache["cand-per-page"], labels |-> <<>>]
       IN  engine' = Resized([engine EXCEPT !.phase = "idle", !.table = {fresh}])
    /\ UNCHANGED <<store, locked, dialog, behind>>

\* update_lookup_table, whenever choices are shown.
UpdateLookupTable ==
    /\ engine.phase = "idle"
    /\ engine' = Resized(engine)
    /\ UNCHANGED <<store, locked, dialog, behind>>

\* ibus_disconnected_cb: the process quits in the middle of whatever it did,
\* and the daemon starts another, which knows the defaults only.
Restart ==
    /\ engine' = NewPreEdit
    /\ behind' = [behind EXCEPT !["engine"] = Keys]
    /\ UNCHANGED <<store, locked, dialog>>

-----------------------------------------------------------------------------
(* A setup dialog.  shown[k] is the value its widget has, {} for a combo    *)
(* box without an active row; touched are the keys the user has changed.   *)
(* With MKDG_WIDGET_FLAG_SET_IMMEDIATELY each PropertyContext follows its  *)
(* widget; no other code of this process reads it.                         *)

NewDialog == [phase |-> "closed", at |-> 1, shown |-> [k \in Keys |-> {}],
              touched |-> {}]

\* The process is gone, and what it knew with it.
Gone(d, phase) ==
    /\ dialog' = [dialog EXCEPT ![d] = [NewDialog EXCEPT !.phase = phase]]
    /\ behind' = [behind EXCEPT ![d] = Keys]

Clamped(v, lo, hi) == Max({lo, Min({v, hi})})

\* What mkdg_widget_new shows of value v: a spin button keeps it within its
\* range, a combo box without entry has only the rows of validValues.
Widget(row, v) ==
    CASE row.widget = "spin" -> {Clamped(v, Min(row.valid), Max(row.valid))}
      [] row.widget = "combo" -> {v} \cap row.valid
      [] row.widget \in {"check", "entry"} -> {v}

\* The user starts the setup program.
Open(d) ==
    /\ dialog[d].phase \in {"closed", "saved", "crashed"}
    /\ dialog' = [dialog EXCEPT ![d] = [NewDialog EXCEPT !.phase = "loading"]]
    /\ UNCHANGED <<store, locked, engine, behind>>

\* Mutated: the widgets are made before the values are read.
AddProperty_unread(d) ==
    /\ dialog[d].phase = "loading"
    /\ dialog[d].at <= Len(propSpecs)
    /\ LET row == propSpecs[dialog[d].at]
       IN  /\ dialog' = [dialog EXCEPT
                            ![d].shown[row.key] = Widget(row, Default[row.key]),
                            ![d].at = @ + 1]
           /\ behind' = UpToDate(d, row.key)
    /\ UNCHANGED <<store, locked, engine>>

\* One turn of add_all_properties: load, then a widget.
AddProperty(d) ==
    /\ dialog[d].phase = "loading"
    /\ dialog[d].at <= Len(propSpecs)
    /\ LET row == propSpecs[dialog[d].at]
       IN  /\ dialog' = [dialog EXCEPT
                            ![d].shown[row.key] = Widget(row, store[row.key]),
                            ![d].at = @ + 1]
           /\ behind' = UpToDate(d, row.key)
    /\ UNCHANGED <<store, locked, engine>>

Show(d) ==
    /\ dialog[d].phase = "loading"
    /\ dialog[d].at > Len(propSpecs)
    /\ dialog' = [dialog EXCEPT ![d].phase = "open"]
    /\ UNCHANGED <<store, locked, engine, behind>>

\* The user gives a widget another value.
Edit(d, k, v) ==
    /\ dialog[d].phase = "open"
    /\ v \in SpecOf(k).valid \ dialog[d].shown[k]
    /\ dialog' = [dialog EXCEPT ![d].shown[k] = {v}, ![d].touched = @ \cup {k}]
    /\ UNCHANGED <<store, locked, engine, behind>>

\* Typing in the entry of a combo box leaves it without an active row, and
\* on_comboBox_changed_wrap asks for the type of a NULL value.
TypeText(d, k) ==
    /\ dialog[d].phase = "open"
    /\ SpecOf(k).widget = "entry"
    /\ Gone(d, "crashed")
    /\ UNCHANGED <<store, locked, engine>>

Cancel(d) ==
    /\ dialog[d].phase = "open"
    /\ Gone(d, "closed")
    /\ UNCHANGED <<store, locked, engine>>

Ok(d) ==
    /\ dialog[d].phase = "open"
    /\ dialog' = [dialog EXCEPT ![d].phase = "saving", ![d].at = 1]
    /\ UNCHANGED <<store, locked, engine, behind>>

\* One turn of save_all_widgets_values: the widget's value, then write.
SaveProperty(d) ==
    /\ dialog[d].phase = "saving"
    /\ dialog[d].at <= Len(propSpecs)
    /\ LET k == propSpecs[dialog[d].at].key
       IN  /\ k \notin locked
           /\ \E v \in dialog[d].shown[k] : store' = [store EXCEPT ![k] = v]
           /\ behind' = Written(d, k)
    /\ dialog' = [dialog EXCEPT ![d].at = @ + 1]
    /\ UNCHANGED <<locked, engine>>

\* A write that is refused, whatever the code makes of it.
RefusedWrite(d) ==
    /\ dialog[d].phase = "saving"
    /\ dialog[d].at <= Len(propSpecs)
    /\ LET k == propSpecs[dialog[d].at].key
       IN  k \in locked /\ dialog[d].shown[k] # {}
    /\ UNCHANGED <<store, locked, engine>>

\* Mutated: the refusal is not fatal, and the loop, which does not look at
\* what save returns, goes on.
SaveRefused_ignored(d) ==
    /\ RefusedWrite(d)
    /\ dialog' = [dialog EXCEPT ![d].at = @ + 1]
    /\ UNCHANGED behind

\* Mutated: the write is tried again until it succeeds.
SaveRefused_retried(d) ==
    /\ RefusedWrite(d)
    /\ UNCHANGED <<dialog, behind>>

\* The backend logs the refusal at level ERROR, which GLib makes fatal at any
\* verbosity: the process dies between two properties.
SaveRefused(d) ==
    /\ RefusedWrite(d)
    /\ Gone(d, "crashed")

\* A combo box without an active row has no value to read: the process dies
\* with the properties before it saved and the others not.
SaveNothing(d) ==
    /\ dialog[d].phase = "saving"
    /\ dialog[d].at <= Len(propSpecs)
    /\ dialog[d].shown[propSpecs[dialog[d].at].key] = {}
    /\ Gone(d, "crashed")
    /\ UNCHANGED <<store, locked, engine>>

Saved(d) ==
    /\ dialog[d].phase = "saving"
    /\ dialog[d].at > Len(propSpecs)
    /\ dialog' = [dialog EXCEPT ![d].phase = "saved"]
    /\ UNCHANGED <<store, locked, engine, behind>>

\* The gsettings tool, the dconf editor, or another session of the user.
OtherWrite(k, v) ==
    /\ k \notin locked
    /\ store' = [store EXCEPT ![k] = v]
    /\ behind' = Written("other", k)
    /\ UNCHANGED <<locked, engine, dialog>>

\* An administrator makes a key read-only, or writable again.
Administer(k) ==
    /\ locked' = IF k \in locked THEN locked \ {k} ELSE locked \cup {k}
    /\ UNCHANGED <<store, engine, dialog, behind>>

-----------------------------------------------------------------------------
SettingsInit ==
    /\ store = Default
    /\ locked = {}
    /\ engine = NewPreEdit
    /\ dialog = [d \in Dialogs |-> NewDialog]
    /\ behind = [p \in Dialogs \cup {"engine"} |-> Keys]

EngineStep ==
    \/ UseAll \/ Use \/ UsedAll \/ NewLookupTable \/ UpdateLookupTable
    \/ Restart

DialogStep(d) ==
    \/ Open(d) \/ AddProperty(d) \/ Show(d)
    \/ \E k \in Keys : \E v \in Picked[k] : Edit(d, k, v)
    \/ \E k \in Keys : TypeText(d, k)
    \/ Cancel(d) \/ Ok(d) \/ SaveProperty(d) \/ SaveRefused(d) \/ SaveNothing(d)
    \/ Saved(d)

SettingsNext ==
    \/ EngineStep
    \/ \E d \in Dialogs : DialogStep(d)
    \/ \E k \in Keys : \E v \in Stored[k] : OtherWrite(k, v)
    \/ \E k \in Lockable : Administer(k)

SettingsSpec == SettingsInit /\ [][SettingsNext]_settingsVars

\* The loops over the properties run without waiting for anybody.  Nothing is
\* asked of the user, the administrator, other tools or the daemon.
LoopFairness ==
    /\ WF_settingsVars(Use \/ UsedAll \/ NewLookupTable)
    /\ \A d \in Dialogs :
          /\ WF_settingsVars(AddProperty(d) \/ Show(d))
          /\ WF_settingsVars(SaveProperty(d) \/ SaveRefused(d)
                                \/ SaveNothing(d) \/ Saved(d))

FairSettingsSpec == SettingsSpec /\ LoopFairness

-----------------------------------------------------------------------------
(* Properties                                                              *)

\* Between two readings the engine works with the values it has read, however
\* the order of the rows, the missing table of a new engine and the writes of
\* other processes fell together: the page holds as many choices as there are
\* selection keys for, each labelled with the key that selects it.  Labels left
\* over from a longer list stand beyond the last choice of a page.
ContextFollowsCache ==
    engine.phase = "idle" =>
        LET list == engine.cache["sel-keys"]
            size == Min({Len(list), MAX_SELKEY, engine.cache["cand-per-page"]})
        IN  /\ engine.chewing["candPerPage"] = {size}
            /\ engine.chewing["selKey"] = {SubSeq(list, 1, size)}
            /\ \A t \in engine.table :
                  {SubSeq(t.labels, 1, size)} = engine.chewing["selKey"]

\* A setting nobody has written since the engine last read it is the setting
\* the engine works with.
FreshUnlessWritten ==
    engine.phase = "idle" =>
        \A k \in Keys \ behind["engine"] : engine.cache[k] = store[k]

\* After OK every setting has the value the dialog showed, except those that
\* somebody else has written since: keys that became read-only while the
\* dialog was open are no exception.
OkSaved ==
    \A d \in Dialogs : dialog[d].phase = "saved" =>
        \A k \in Keys \ behind[d] : store[k] \in dialog[d].shown[k]

\* A setting the user has not touched, nor anybody else, is about to be saved
\* with the value it has, if a widget can show that value at all.
UntouchedKept ==
    \A d \in Dialogs : dialog[d].phase \in {"open", "saving"} =>
        \A k \in Keys \ (behind[d] \cup dialog[d].touched) :
            Widget(SpecOf(k), store[k]) = {store[k]} =>
                dialog[d].shown[k] = {store[k]}

\* Once the engine begins to read all of the settings, each of them becomes the
\* stored one at some moment, though the loop may be cut short by a
\* disconnection and begin again, finitely often.
EachIsRead ==
    <>[][~Restart]_settingsVars =>
        \A k \in Keys :
            (engine.phase = "using" /\ engine.at = 1)
                ~> engine.cache[k] = store[k]

\* OK has an end, whatever is locked, unlisted or written by others meanwhile:
\* the setup program exits, or dies.
OkEnds ==
    \A d \in Dialogs :
        dialog[d].phase = "saving" ~> dialog[d].phase \in {"saved", "crashed"}

-----------------------------------------------------------------------------
(* What the documentation says and the code does not do                    *)

\* The description of easy-symbol-input: "Easy symbol input."
EasySymbolHonoured ==
    engine.phase = "idle" =>
        engine.chewing["easySymbolInput"] = {engine.cache["easy-symbol-input"]}

\* ChangeLog: "Sync chewing candPerPage and IBusTable->page_size"; at least,
\* the choices libchewing puts on a page fit on a page of the lookup table.
PageFits ==
    engine.phase = "idle" =>
        \A t \in engine.table, n \in engine.chewing["candPerPage"] : n <= t.pageSize
=============================================================================
