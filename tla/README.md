# A verification project for ibus-chewing

ibus-chewing puts libchewing, a Zhuyin (bopomofo) conversion library, behind
the IBus input framework. The program is small and single threaded. What makes
it hard is that one key press runs several libchewing calls one after the
other, that the same piece of text exists in up to four places at once
(libchewing's buffer, `preEdit`, `outgoing`, the screen), and that keys, focus
changes, mouse clicks and settings arrive in any order from three other
processes.

This directory models that control flow in TLA+, checks it with TLC on small
instances and proves its invariants with TLAPS for every instance. Source
paths below are relative to the root of the repository; the line-by-line
correspondence is the `map` of `PROJECT.json`.

## 1. The system

### Components

| component | source | state it keeps | operations |
| --- | --- | --- | --- |
| IBusChewingPreEdit | `src/IBusChewingPreEdit.c` | `preEdit`, `outgoing`, `flags`, `keyLast`, `bpmfLen`, `wordLen`, and the libchewing context | `process_key`, `clear`, `toggle_chi_eng_mode`, `use_all_configure`, the update and clear methods |
| Key rules | `src/IBusChewingPreEdit.c:227-247, 609-682` | none: a table of key symbol ranges, and the macro `filter_modifiers` | lookup of the handler of a key |
| libchewing | external | composition buffer, cursor, incomplete syllable, choice list, commit, settings | `chewing_handle_*`, `chewing_commit_*`, `chewing_set_*` |
| IBusChewingEngine | `src/IBusChewingEngine.gob`, `-signal.c`, `-input-events.c` | `statusFlags`, the language bar properties, the lookup table | the methods the daemon calls: keys, buttons, clicks, focus, enable, reset, content type, capabilities |
| Lookup table | `src/IBusChewingLookupTable.c` | page size, labels | `new`, `resize`, `update` |
| Properties, appliers, property contexts | `src/IBusChewingProperties.c`, `IBusChewingApplier.c`, `MakerDialogProperty.c` | one cached value per setting | `read`, `load`, `apply`, `use`, `save` and the loops over all properties |
| Backends | `src/GSettingsBackend.c`, `GConf2Backend.c`, `IBusConfigBackend.c` | the store, outside the process | read and write one key, with the names and types of the service |
| Setup dialog | `src/ibus-setup-chewing.c`, `MakerDialog.gob`, `MakerDialogWidget.c` | one widget per setting | load all, edit, cancel, OK |
| Process start | `src/main.c` | none that outlives it | start; quit when the bus disconnects |
| Utilities, generators | `*Util.c`, `generate-*.c` | none | value conversion, logging; printing the schemas |

### How they interact

    client application          panel (screen, language bar)      Caps Lock light
          ^   | focus, reset,           ^   | buttons,                 ^  |
     text |   v content type            |   v clicks                   |  v
       IBus daemon  --- one call at a time -->  IBusChewingEngine  <----+
                                                   |      ^ outgoing, preEdit,
                                       process_key |      | FLAG_TABLE_SHOW
                                                   v      |
                                              IBusChewingPreEdit
                                                   |      ^ buffer, syllable,
                                  chewing_handle_* |      | commit, choices
                                                   v      |
                                                libchewing

    GSettings store --- key by key ---> property contexts --> libchewing settings
       ^   ^   ^
       |   |   +--- gsettings tool, dconf editor
       |   +------- administrator: makes keys read-only
       +----------- setup dialog: reads every key, later writes every key

One engine serves all windows: IBus moves it from one input context to the next
with focus_out and focus_in, and keys struck in windows without an input context
never reach it.

The daemon calls the engine synchronously, so no two calls of the engine or the
pre-edit overlap, and a call is one step of the models. The calls of different
origin (keyboard, mouse, focus, the client's reset) interleave freely, and the
X server and the client act in between. The settings are different: reading or
writing *all* of them is a loop over keys of a store in another process, and
other processes write between two turns of it, so there one key is one step.

### What is hard here

* **One key, several commits.** libchewing reports a commit until its next
  handled key. `update` runs several times for one key, and
  FLAG_UPDATED_OUTGOING alone keeps the same commit from being appended twice,
  or a second one from being overlooked.
* **Early returns.** `process_key` returns at three places. Whatever the
  handlers did by then must leave the structure consistent.
* **Forced state.** `clear_pre_edit` types a false `1` and wipes it with an Esc
  whose meaning it forces; text keys switch easy-symbol input off for one call.
* **A mode change under a half-typed syllable**, from Caps Lock, Shift, the
  language bar, or the focus.
* **Copies that go stale**: the text on screen after a click, the language bar
  after a focus change, FLAG_TABLE_SHOW after a reset, the page size after a
  change of settings, the dialog after somebody else's write.
* **Two parties committing the same text**: the client commits what is on
  screen when the focus goes, while the engine still has it, and the next window
  gets the focus with the other window's composition inside.
* **Death in the middle.** The engine quits when the bus disconnects, whatever it
  composes or reads. The setup program dies at the first write that is refused
  and at a combo box without an active row, with some of its settings saved.
* **The same value in several codings**: the type and default of a setting exist
  in the property table, in the schema, in the service and in the context, under
  names each service makes up for itself.

`hazards` in `PROJECT.json` lists these one by one, each at its line, with the
properties that would catch it.

### What makes each component correct

* PreEdit: no character is lost, doubled, reordered or delivered while it is
  still being composed; a key given back to the application finds the
  composition flushed; the structure tells the truth about libchewing after
  every call; forced settings come back; English mode has no syllable.
* Key rules: each documented key reaches its handler.
* Engine: the screen shows all the text the engine holds; the text reaches the
  application once, no whole character before an earlier one, whoever commits it; the language bar is right;
  an open choice list is visible.
* Settings: the engine works with what it read, and what it read is current
  unless written since; libchewing's page and the labels agree; OK saves what
  the dialog shows and changes nothing else; both loops end.
* Desktop: what is typed in a window reaches that window or none.
* Backend: whichever service is behind it, a store of typed values.

## 2. The modules

    KeyRules   Chewing          TextStream (abstract)
         \       /             /        \
          PreEdit ---refines--+          |
         /   |   \                       |
        /    |    Engine ----refines-----+
       /     |      |  \
      /      |      |   Desktop -- MCDesktop
     /       |      |      |
 MCPreEdit   |      |      |                Settings -- MCSettings
             |      |      |                    |
    PreEditProofs   |      |              SettingsProofs
             |      |      |                    |
    PreEditTextProofs      |              SettingsLabelsProofs
             |      |      |
    PreEditStreamProofs    |            TypedStore (abstract)
             |      |      |                 |
             EngineProofs  |              Backend -- MCBackend
                   |       |                 |
                 DesktopProofs          BackendProofs

| module | models |
| --- | --- |
| `KeyRules` | the rule table with the real X11 key symbols, the first-match search, and `filter_modifiers` as the preprocessor expands it |
| `Chewing` | libchewing, as an external contract |
| `PreEdit` | IBusChewingPreEdit: every method and key handler as an operator on the C structure, one action per call of the component |
| `TextStream` | the abstract promise: characters are shown, then wait, then are taken; never twice, never backwards, none overtaking a whole one |
| `Engine` | IBusChewingEngine around one PreEdit, with the panel, the client, the Caps Lock light and the bus that may disconnect |
| `Desktop` | the windows the one engine serves, and the one keyboard they share |
| `Settings` | store, read-only keys, engine, setup dialogs and other writers |
| `TypedStore` | the abstract promise of a configuration service: one typed value per key, shared by all clients |
| `Backend` | the three backends: names, types, conversions, defaults and errors |
| `MCPreEdit`, `MCDesktop`, `MCSettings`, `MCBackend` | instances for TLC |
| `...Proofs` (eight) | theorems, see section 4 |

### KeyRules and Chewing: the ground

A *token* is one character in the making, from its first bopomofo key to the
moment it leaves the engine; whichever glyph the conversion shows for it in the
meantime is not told apart. `preEdit`, `outgoing` and a commit are sequences of
tokens. An event carries its key symbol, modifiers, whether it is a release,
what the key means to the conversion (`kind`: phonetic, phonetic and selecting,
tone, rejected tone, symbol, symbol menu), and whether the character at the
cursor has alternatives (`choices`). The last two stand for the dictionary and
the keyboard layout and are chosen freely.

libchewing is external, and `Chewing` assumes of it what `PreEdit.c` and the
tests rely on:

* each handled key recomputes `chewing_commit_Check`;
* a buffer longer than max-chi-symbol-len gives up a phrase from its front
  (`PhraseLen` characters);
* Enter commits the composition but not an incomplete syllable;
* Esc with escCleanAllBuf wipes everything (`clear_pre_edit` is built on it, and
  `test/IBusChewingPreEdit-test.c:161-181` tests it);
* the `chewing_handle_*` functions return 0, so the conditions of `PreEdit.c` on
  KEYSTROKE_IGNORE and the like are never true.

A result that depends on another behaviour of libchewing is a result about this
contract.

### PreEdit

`self` is the C structure, `self.ctx` the libchewing context inside it, `cfg`
the settings, `taken` what the client collected from `outgoing`, `typed` a
counter that names new characters. The operators have the names of the C
functions (`update_outgoing`, `clear_pre_edit`, `force_commit`,
`self_handle_space`, `process_key`, ...) and make the same calls in the same
order; a handler answers the new structure and IGNORE, ABSORB or PROCESS. The
macros that open the handlers are `Refused`, `WhenPressed` and `WhenComposing`,
in the order in which the C text has them, so what runs before
`absorb_when_release` also runs for releases. The actions are the calls of the
header file: `ProcessKey`, `TakeOutgoing` (the engine's `commit_text`), `Clear`,
`ToggleChiEng`, `UseAllConfigure`.

`easy-symbol-input` is in `Config` but `use_all_configure` never uses it. That
is what the code does (see the findings).

### TextStream

The abstract specification knows three sequences, `making` (the incomplete syllable
among the shown characters, if there is one) and three steps: an edit (some
characters leave for the outbox, in the order they were shown in; some stay, in
their order; some are deleted; at most one is new), a collection of the outbox, and
abandoning what was not taken. What leaves stood before all that stays (`Precedes`),
with two exceptions. A character that was not shown has no place yet. And whole
characters may leave the one in `making` behind: with the cursor before the last
character, a phone pressed and then Return, libchewing commits the buffer and
keeps the syllable, which was shown in the middle of it. Only a character that has
just begun can be in `making`, so one that is whole is never overtaken again.
Two refinements are checked:

* `DeliversAsTextStream`: PreEdit with `shown <- preEdit`, `making <- ctx.bpmf`,
  `outbox <- outgoing`;
* `DeliversOnScreenText`: Engine with `shown` the text on the *screen*, `making` the
  syllable under way in a context that has the focus, and the application as the
  outbox. The text that has left the screen must be in the application, whether the
  engine or the client committed it.

### Engine

Adds `statusFlags` (the real bits and the real arithmetic of
`set_capabilities`), `panel` (pre-edit text, choice list, two labels), `led` and
`sync`. `Update` is `self_update`: pre-edit, lookup table, labels, commit, in one
call. `FocusIn` follows the order of the code: settings, `restore_mode`, labels,
clear, commit. `key_code_to_key_sym` chooses between the layout of the system and
en_US (`UsKey`). Three pieces of behaviour are external: a Caps Lock press flips
the light before the engine hears of it; the client commits the pre-edit text
on the screen when the focus goes, because the engine hands it over with
`IBUS_ENGINE_PREEDIT_COMMIT`; and when the engine's process quits (`Restart`,
from `ibus_disconnected_cb` in `main.c`) the client may commit the screen or drop
it, and the daemon starts a process that knows nothing.

The methods look at neither FLAG_ENGINE_ENABLED nor FLAG_FOCUS_IN. The guards of the
actions on the two are an assumption about the IBus daemon: it enables an engine before
it gives it the focus, takes the focus away before it disables it, does neither twice in
a row, and sends keys, clicks, `reset` and property calls for the context that has
the focus. `test/ibus-chewing-engine-test.c:33-34` calls `focus_in` before `enable`;
such an order is outside the model, and outside what is checked and proved of
`Engine` and `Desktop`.

`Engine` extends `PreEdit`, so its keys go through the whole of `process_key`.
For it a change of settings is one step (`Enable`, `FocusIn`, `Restart`, with any
member of `Configs`); `Settings` takes that step apart.

### Desktop

Every step of `Desktop` but one is a step of `Engine`, with a note of whom it is
for: `window` has the focus, `home[t]` is the window character `t` was typed in,
`got[i]` the window that received the i-th character. The one step of its own is a
key struck in a window without the engine (`KeyElsewhere`), of which the engine
hears nothing. `keyboard` records whether Shift is down and which key was struck
last of all, so that Shift comes up only after it went down. `LightFollowsLanguage`
and the finding about `keyLast` are about what the engine has missed meanwhile.

### Settings

`store` is GSettings, `locked` its read-only keys; `engine` the property contexts
(`cache`), what libchewing has been told (`chewing`) and the lookup table;
`dialog[d]` one setup program. `behind[p]` is a history variable: the keys others
have written since process `p` last read or wrote them. `Use` is one turn of
`mkdg_properties_use_all`, `AddProperty` one turn of loading the dialog,
`SaveProperty` one turn of OK. The real rows of `propSpecs` with their order,
ranges and callbacks are in `AllRows`; `Studied` picks those under study, in their
order. Indefinite contents (the selection keys libchewing gets before there is a
table; a combo box without an active row) are the empty set, a known value is a
singleton.

`Resized` relabels as `ibus_chewing_lookup_table_resize` does: `ibus_lookup_table_clear`
takes the candidates out and leaves the labels, and only the first of them, one for each
key in use, are set anew (`Relabelled`). After sel-keys has become shorter the table still
has the labels of the longer list behind the new ones. `ContextFollowsCache` is therefore
about the labels beside the choices of a page, of which libchewing gives no more than
there are keys.

A key may be made read-only or writable at any time (`Administer`), in the middle
of OK, too. A refused write is not an error the dialog handles: the backend logs it
at level ERROR, which GLib makes fatal whatever the verbosity
(`src/MakerDialogUtil.c:34`), so the setup program dies between two properties
(`SaveRefused`). It dies in two more places of the code: typing into the entry of
the sel-keys combo box (`TypeText`), and OK with a combo box whose stored value is
not among its rows (`SaveNothing`). The engine may be replaced by a new process at
any moment (`Restart`).

### Backend and TypedStore

`Backend` has one service, chosen when the programs were built, a database, and one
PropertyContext per client and key. Paths are sequences of names and slashes, put
together as `to_real_key` and `to_real_section` do it, a GValue is a pair of its
type and content, and the conversions keep what the C functions keep: which GVariant
and GConf types a GValue takes, unsigned settings stored as signed GConf integers
and back (`AsInt`, `AsUint`), which words mean "false". `ReadFatal`, `ReadNothing`
and `WriteRefused` are the error paths of each backend: GConf2 dies where IBusConfig
warns. Only a schema knows a default; the GConf schemas are written for other paths
than the backend uses, so theirs is never found (`SchemaDefault`).

`TypedStore` is what the property contexts rely on. `StoresTypedValues` says that each
service with its backend is one, with `stored[k]` what a reader of key `k` finds.

## 3. What is checked

Every passing run explores its state space to the end, without deadlock.

| run | states | question | properties |
| --- | --- | --- | --- |
| `MCPreEditText` | 33,480 | text, editing and mode keys, modifiers and releases in every order, both values of esc-clean-all-buf and of shift-toggle-chinese | `TypeOK`, `PreEditMirrors`, `CommitAccounted`, `OpenListIsShown`, `SettingsRestored`, `EnglishHasNoSyllable`, `EachCharacterOnce`, `FalseKeyNeverSeen`, `KeysKeepText`, `DeliversAsTextStream` |
| `MCPreEditPlain` | 1,408 | plain Zhuyin mode, in which `process_key` makes libchewing calls of its own | `PreEditMirrors`, `CommitAccounted`, `OpenListIsShown`, `EachCharacterOnce`, `KeysKeepText`, `IgnoredKeyFlushes`, `DeliversAsTextStream` |
| `MCDesktop` | 29,312 | every call of the daemon, a restart of the engine and a change of window around a composition | `PanelShowsAllText`, `LabelsTruthful`, `OpenListOnScreen`, `AppTextOnce`, `EnglishHasNoSyllable`, `TextStaysHome`, `NothingLost`, `LightFollowsLanguage`, `DeliversOnScreenText` |
| `MCSettings` | 3,385,512 | one engine, one dialog, the gsettings tool and an administrator, key by key | `ContextFollowsCache`, `FreshUnlessWritten`, `OkSaved`, `UntouchedKept` |
| `MCSettingsLive` | 177,590 | do the loops over the settings end, whatever happens meanwhile | `EachIsRead`, `OkEnds` |
| `MCBackend` | 13,264 | two clients and other tools around each of the three services | `ContextsTyped`, `UnsetMeansDefault`, `StoresTypedValues` |

What they show: in every order of calls within the bounds, each character that
is typed reaches the application exactly once and in the window it was typed in,
unless an erasing key, the client's reset or a disconnection takes it away, and none
before a whole character that was shown ahead of it; the screen, the language bar, the Caps Lock light and the structure agree
with libchewing; the settings components keep their promises around each other's
writes, locks and deaths; and the three backends are the same store to their users.

`PanelShowsAllText` and its neighbours are checked in `MCDesktop`, with windows
around the engine, and so need no run of the engine alone.

Every property of a passing run has a mutant in `PROJECT.json`: a plausible bug
in one definition (a dropped guard, a missing clear, a wrong order) that makes
TLC report that property. The mutated operators stand in the modules just before
the definition they would replace and are used nowhere else.

### Where the code and its documentation disagree

Six runs expect a violation. Each checks one property that quotes a line of
the documentation, a comment or a setting's description.

| run | property | what happens |
| --- | --- | --- |
| `MCPreEditCtrlOne` | `CtrlOneOpensSymbols` | `USER-GUIDE:63` documents Ctrl-1 for the symbol dialog. `filter_modifiers(mask)` expands `(~mask)` without parentheses, so with a mask of two modifiers it refuses the second one; Ctrl-1 never reaches libchewing. |
| `MCPreEditEnd` | `EndIsHandled` | The rule for End is the range from `IBUS_KEY_End` to `IBUS_KEY_Home`, which is empty. End force-commits the composition and goes to the application; `ChangeLog:197` calls its behaviour fixed. |
| `MCPreEditLostCommit` | `FlagMeansDelivered` | In plain Zhuyin mode `process_key` may make libchewing commit a second time for one key. The first commit has set FLAG_UPDATED_OUTGOING, so the second is never appended: the text is lost. |
| `MCDesktopShift` | `CombinationIsNoShift` | A Shift that was part of a combination is not to switch the language (`src/IBusChewingPreEdit.c:385`). `keyLast` misses the keys struck in password fields and in windows without the engine, so the release of such a Shift, after the focus has moved, switches it. |
| `MCSettingsEasySymbol` | `EasySymbolHonoured` | shift-toggle-chinese has the apply callback of easy-symbol-input and comes after it: the checkbox easy-symbol-input changes nothing. |
| `MCSettingsPageSize` | `PageFits` | The page size of the lookup table is fixed when the engine is created. Raising cand-per-page puts ten choices on a page of eight. |

### Bounds, and why they are enough

* `MaxTyped`, the number of characters begun in one behaviour, is 2 or 3. Two
  are needed to see a character doubled or overtaken, or one in each window; with
  three, one can be taken, one wait and one still be composed. The sequences of
  calls themselves are not bounded.
* max-chi-symbol-len is 1 to 3 in place of the real 8 to 39, so that the buffer
  overflows after two or three characters; `PhraseLen` is 1. The relation of the
  two matters to the code, not their size.
* `MCPreEditText` has room for two of three characters: overflow, Backspace in the
  middle, Enter with a syllable under way all happen. `MCPreEditPlain` gives
  plain mode room for every character, because an overflow there loses text;
  that is what `MCPreEditLostCommit` shows, with plain mode also being switched
  on in the middle of a composition.
* `MCDesktop` has nine key events, two selection keys (the second one libchewing
  refuses once the list it belonged to has closed), both layouts, the two values
  of sync-caps-lock that synchronise, two purposes, capability masks without and
  with IBUS_CAP_PREEDIT_TEXT, two windows (interchangeable, hence the symmetry) and
  a buffer of one character. Caps Lock and the language bar switch the language
  here; Shift, which would double the states several times over, does so in the
  runs of `MCPreEdit` and, with `MCDesktopShift`, between windows. A key struck in a
  window without the engine matters only through Shift, and only there.
* `MCSettings` has three keys: the two that are combined in `resize` at the two ends
  of the loop, and between them a combo box that can be made read-only. Other
  programs store a value outside the widget's range (20), a value without a row
  ("IM") and a short list of selection keys, after which old labels stay in the table. cand-per-page and the selection keys
  have their real sizes. One dialog and one other writer are enough for two parties to
  overtake the engine; a write, a lock or a restart may come before any turn of a loop.
* `MCSettingsLive` has the two keys of `resize`, one of them lockable: liveness
  needs a loop of more than one turn and each way a turn can fail.
* `MCBackend` has a Boolean, a signed and an unsigned setting with their real
  defaults, one value assigned to each (the unsigned one just too large for a signed
  integer) and foreign values of the right and of a wrong type. Integers are 2 x 32
  values wide instead of 2^32: the conversions wrap at the middle, wherever it is.

### Fairness and liveness

Only `Settings` states fairness, and only of its loops (`LoopFairness`): a turn of
`mkdg_properties_use_all`, of loading a dialog and of saving it is the next
statement of a process that runs, so it comes. Nothing is asked of the user, who may
leave a dialog open for ever, of other tools, of the administrator, who may lock and
unlock keys as often as he likes, or of the daemon.

* `EachIsRead`: every setting becomes the stored one at some moment of each
  reading, though others write on and on. It is conditioned on finitely many
  restarts of the engine: a bus that never stays up is nobody's reading.
* `OkEnds`: OK ends in the program's exit or in its death, whatever is locked
  or unlisted: the loop neither waits nor retries.

`PreEdit`, `Engine` and `Desktop` claim no liveness. The engine only runs when it is
called, and neither the daemon nor the user owes it another call: a composition may
wait for ever, rightly. Within a call the code has no loop that waits for anything.
`Backend` is about single reads and writes.

## 4. What is proved

TLAPS proves the following for every value of the constants: any set of events
(so any key and modifier), any settings, any number of characters, windows, keys,
dialogs and clients.

| theorem | module | statement |
| --- | --- | --- |
| `TypeCorrect` | PreEditProofs | `Spec => []TypeOK` |
| `PreEditAlwaysMirrors` | PreEditProofs | `preEdit` and its lengths are those of the libchewing context after every call |
| `CommitAlwaysAccounted` | PreEditProofs | no commit is left for a later call to append again |
| `OpenListAlwaysShown` | PreEditProofs | a choice list open in libchewing is one FLAG_TABLE_SHOW records |
| `SettingsAlwaysRestored` | PreEditProofs | forced settings are back after every call |
| `EnglishNeverHasSyllable` | PreEditProofs | no incomplete syllable in English mode |
| `IgnoredKeyAlwaysFlushes` | PreEditProofs | a key handed on leaves the composition empty and its text at the end of `outgoing` |
| `EachCharacterAlwaysOnce` | PreEditTextProofs | no character is delivered twice, or while its copy is still composed |
| `FalseKeyIsNeverSeen` | PreEditTextProofs | the false `1` of `clear_pre_edit` reaches nobody |
| `PreEditImplementsTextStream` | PreEditStreamProofs | `Spec => DeliversAsTextStream`: every call is a step of `TextStream` or none, so no character overtakes a whole one |
| `KeysAlwaysKeepText` | PreEditStreamProofs | without plain Zhuyin, only an erasing key makes a character vanish |
| `PanelAlwaysShowsAllText` | EngineProofs | a focused screen shows all the text the engine holds |
| `LabelsAlwaysTruthful` | EngineProofs | a registered language bar shows libchewing's modes |
| `OpenListAlwaysOnScreen` | EngineProofs | an open choice list is on the screen |
| `EngineEnglishNeverHasSyllable` | EngineProofs | nor does a focus change leave a syllable in English mode |
| `AppTextAlwaysOnce` | EngineProofs | no character reaches the application twice, by the engine or by the client |
| `EngineImplementsTextStream` | EngineProofs | `EngineSpec => DeliversOnScreenText`: from the screen to the application, too; what leaves stood before what stays, the syllable under way excepted |
| `EngineLosesNothing` | EngineProofs | without plain Zhuyin, only an erasing key, the client's reset and a disconnection make a character vanish |
| `LightAlwaysFollowsLanguage` | EngineProofs | on a usual keyboard, the Caps Lock light tells the language |
| `DesktopImplementsEngine` | DesktopProofs | `DesktopSpec => EngineSpec` |
| `EveryWindowTruthful`, `EveryWindowTextOnce`, `EveryWindowTextStream`, `EveryWindowLosesNothing`, `EveryWindowLight` | DesktopProofs | hence the theorems about the engine hold in every window |
| `TextAlwaysStaysHome` | DesktopProofs | what is typed in a window reaches that window or none |
| `AlwaysFreshUnlessWritten` | SettingsProofs | a setting in use is the stored one unless it was written since it was read |
| `AlwaysOkSaved` | SettingsProofs | after OK the settings are what the dialog showed |
| `AlwaysUntouchedKept` | SettingsProofs | OK reverts nothing that was not touched |
| `AlwaysContextFollowsCache` | SettingsLabelsProofs | page size, selection keys and the labels beside the choices belong to what the engine read |
| `ContextsAlwaysTyped` | BackendProofs | a context holds a value of its own type |
| `UnsetAlwaysMeansDefault` | BackendProofs | a schema's default, where found, is that of a new context |
| `BackendImplementsTypedStore` | BackendProofs | `BackendSpec => Store!TypedStoreSpec` |

**PreEdit.** The assumptions are `PreEditAssumption` (events and settings have
their types) and `PhraseLenAssumption` (an overflow releases at least one
character). The properties are not inductive one by one: `preEdit` stays a picture
of the context only while the cursor is inside the buffer, and a change of
language leaves no syllable behind only because English mode had none before. The
inductive invariant `IInv` says that the structure is `Good`: it has its type, the
cursor is inside the buffer, the settings are the configured ones, English mode has
no syllable, `preEdit` mirrors the context, a reported commit has been appended, an
open list is recorded. Inside `process_key` less holds, which is `Loose`: type,
settings and syllable, but `preEdit` may be stale. The lemmas climb in four layers:

1. `...Follows`: every libchewing call keeps the type, the cursor inside, the
   settings, the language, and starts no syllable in English mode;
2. `Updated`, `PreEditCleared`, `ForceCommitGood`, `FlushGood`, `TogglesGood`: what
   each method makes of a Loose or a Good structure;
3. `...Handled`: every handler answers a Loose structure, and a Good one unless it
   says PROCESS, because only then does `process_key` update again;
4. `ProcessKeyGood`, then `InitIInv`, `NextIInv` and the theorems.

`IgnoredKeyAlwaysFlushes` needs in addition that a handler that answers IGNORE has
changed nothing before (`IgnoredUntouched`) and that the wiping Esc of
`clear_pre_edit` leaves no commit for the following update to append
(`NothingCommitted`).

**The text.** That no character is twice in the stream is not inductive: a handler
may send any of what is composed. `TextInv` adds to `IInv` that the text is `Whole`:
what waits was not taken, buffer and syllable are apart and have nothing of either,
and a commit not yet appended is in none of the three (`Sent`). A new character is
new only because `typed` bounds all there are. `Whole(s, T, E)` has the characters `E`
the text may be made of as a parameter; the proof of `TextAlwaysStaysHome` puts another
set there. The lemmas climb through the same layers, `...Sent` for libchewing's calls,
`...Whole` for the methods and handlers, up to `ProcessKeyWhole`.

**The order of the text, and none of it lost.** The refinement of `TextStream` needs to
know what one key does to the text as a whole, through as many as three calls of
libchewing and two places where text leaves. `Keeps(u, s, t)` says that `u` is made of
characters of `s`, in the order of `s`, and perhaps of the new character `t`; it is
transitive. `ContextKeeps` says it of what a libchewing call leaves composed and of what
it commits, `LosesNothing` that the two together have everything there was. The lemmas
`...Keeps` prove both for each call; the work is in the cursor, in the syllable in the
middle of the buffer, and in the phrase an overflow cuts off the front, which a character
just inserted may belong to (`SplicedBetween`, `CutTwice`, `OverflowKeeps`).
`Ahead(u, v, s)` is the third part: the characters of `u` stand in `s` before those of `v`.
What a call commits is ahead of the buffer it leaves (`FrontAhead` for an overflow, which
cuts the buffer wherever the syllable is shown), and it stays so through the calls
that follow in the same key (`AheadTransitive`, with `Keeps`). Of the syllable only this
much is known: it is the old one, or the new character, or gone.
`Flow(s, r, t, whole)` carries this through a handler: some characters were sent to
`outgoing`; they, what is composed now and a commit that `update` has yet to append
(`Pending`) each keep what was composed, and what is sent is ahead of the buffer. With `whole`, they lose nothing either; it is a
parameter because the order of the text never depends on it. `ProcessKeyFlows` has both
results at once: `FlowIsEdit` makes of it an `Edit` of `TextStream`, for which `TextInv`
contributes that no character is twice, and with `whole` it is `KeysKeepText`.

The hypothesis of `KeysAlwaysKeepText`, that no configuration has plain Zhuyin on, is not
to be had for less: in plain mode a key may overflow the buffer and then be followed by
`PlainZhuyin`'s own commit, which FLAG_UPDATED_OUTGOING makes `update` ignore. That is
the finding of `MCPreEditLostCommit`. `MCPreEditPlain` checks the property in plain mode
where the buffer has room.

**Engine and Desktop.** `EngineAssumption` gives the inputs their types, and
`SelKeysAssumption` says that selection keys are printable, as all of `selKeys_array`
are. The order of enabling and focus is assumed of the daemon by the guards of the actions,
as said in section 2. `EngineIInv` is
`Good` around the engine: the flags that matter by arithmetic on the word
(`FlagSet`, `FlagCleared`, `CapabilitiesAbove`), the screen in both states of the focus, and
`ListOnPanel`, `LabelsTruthful`. `EngineTextInv` adds what the application has. It cannot
ask that the text be `Whole` at all times: between focus_out and focus_in the client
has committed the screen and the engine composes the same characters still. It is
whole while the context has the focus, and `FocusInEmpty` restores it.

The second refinement of `TextStream` uses the same `Flow`, with the application in
place of `outgoing`: under the focus each call is an `Edit` (`SendKeyEdits`); the focus
going and the process ending are one, too, with the whole screen sent or dropped
(`ScreenGoneEdits`). What a click on the language bar set aside waits in `outgoing` and is
shown before the rest, so it is ahead of all that stays (`AheadBehind`); the click itself
is an `Edit` that sends nothing and makes the syllable whole (`ModeClickEdits`).

`NothingLost` needs two more facts, which `EngineLossInv` adds. A table that is shown for a
list libchewing has closed (`FLAG_TABLE_SHOW` is refreshed only by keys that are
processed) has no syllable behind it (`StaleListEmpty`): otherwise a click on it could
be a key that libchewing refuses, and the syllable would be gone. And what an engine
without the focus still composes, the client has committed (`LeftIsTaken`), so that
`focus_in`, which clears it, loses nothing. That keys of the panel and
selection keys are none that erase is read off the rule table (`FirstRule`,
`EraseSymbols`), as is which keys change the language (`LanguageSymbols`).

`LightAlwaysFollowsLanguage` follows the language through every handler
(`...Speaks`): libchewing never changes it, Caps Lock does where the light has turned
already, and a Shift does at its release. It assumes `UsualKeyboard`, defined in
`Engine`: the layout changes nothing of a key but its symbol, Caps Lock is where an
en_US keyboard has it (the X server turns the light for the symbol of the system's
layout, the engine acts on that of `UsKey`), and X reports Shift as held at its own
release. `MCDesktop` assumes it of its events, so TLC evaluates it.

Each step of
`Desktop` is one of `Engine` or none (`DesktopStep`), so the theorems carry over;
`HomeInv` says of a focused window that the text is whole *among the characters
typed there*, for which the parameter of `Whole` was made.

**Settings.** The assumption is `SettingsAssumption`: the studied keys are rows of the
table in their order and contain the two that `resize` combines, other tools write
selection keys that are lists and page sizes that are numbers (GSettings holds them to
the type of the key), and one list of selection keys begins with "1", which is what
the code looks for. The three modules build on each other:

* `SettingsInv` says `FreshUnlessWritten` in every phase (`CacheFresh`), and gives the
  records their shape. The step that matters is `Use`: only the key it reads leaves
  `behind`, and applying a value changes no cache (`AppliedKeepsCache`).
* `DialogInv` adds, for each dialog, that the rows before `at` have been dealt with
  (`DialogOK`): loaded, then saved. A row is dealt with only once, because no two
  studied rows have the same key.
* `LabelsInv` adds that there is a lookup table as soon as the engine is made, and that
  page size, selection keys and the first labels follow the cache from then on
  (`TableFollows`), in the middle of the loop, too, whatever labels stood there before
  (`KeysFirst`). Before that the labels are right only because
  `NewLookupTable` repeats the call.

**Backend.** `IInv` says that contexts are typed and that a value of the service fits its
own type. The refinement of `TypedStore` maps `stored[k]` to what a reader finds; what it
needs is that conversion to the service and back is the identity on typed values
(with the wrapping of unsigned ones), and that two keys have different real keys.

**Only model-checked**: `EachIsRead` and `OkEnds`, because liveness under fairness is
beyond the prover. Induction over data and RECURSIVE operators would be, too; no module here
has either. Every invariant and every action property of a passing run is the statement
of a theorem.

## 5. What is not modelled, and why

* `main.c` apart from its end: straight-line start-up and registration with the bus.
* `src/IBusChewingUtil.c` and `src/MakerDialogUtil.c` apart from the conversion of strings
  and the fatal level of the log: names, debugging output and X calls without state of
  their own; the one that matters (the Caps Lock light) is inside `Engine`.
* `generate-gsettings-schemas.c` apart from types, defaults and keys: it prints XML at
  build time. `generate-gconf-schemas.c` no longer agrees with the functions it calls (it
  passes four arguments to `ibus_chewing_properties_new` and uses a type that is declared
  nowhere), so only the paths it would print are in `Backend`.
* The 100 byte key buffer of the GConf2 backend: no key of the property table comes
  near it.
* `read_general`: keys of other schemas, which are inputs of `Engine` (`SystemLayouts`).
* Within modelled components: which glyphs a conversion shows, the translation of
  keypad keys and force-lowercase-english (they change which character a key
  types, not what becomes of it), the auxiliary text, cursor decoration, the pages
  of the choice list, surrounding text, dialog layout and the Apply and Save buttons
  the setup program does not have.

## 6. Plan

Done, in this order: KeyRules, Chewing, PreEdit and TextStream with the proofs of
PreEdit; Engine; Settings with locks, deaths, restarts and liveness; Desktop; Backend
and TypedStore; the proofs of the text, of the engine, of the windows, of the dialog, of
the labels and of the backends; the refinements of TextStream, that no text is lost, and
the light.

What is left would add least:

1. keypad translation: numpad-always-number (`src/IBusChewingPreEdit.c:348` passes on
   the unconverted key);
2. the auxiliary text and its reference counting
   (`src/IBusChewingEngine-signal.c:256`);
3. `KeysKeepText` in plain Zhuyin mode as a theorem, for a buffer in which no key can
   overflow: the number of characters composed would have to be part of the invariant.
