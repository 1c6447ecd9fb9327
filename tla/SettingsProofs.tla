--------------------------- MODULE SettingsProofs ---------------------------
(***************************************************************************)
(* The engine never works with a stale setting by its own fault, and the   *)
(* setup dialog saves what it shows, for every set of properties, values,  *)
(* read-only keys and dialogs.                                             *)
(***************************************************************************)
EXTENDS Settings, TLAPS

\* What is known of the engine between any two steps: its fields, and that
\* the cache has a value for each property.
EngineShape(e) ==
    /\ e = [phase |-> e.phase, at |-> e.at, cache |-> e.cache,
            table |-> e.table, chewing |-> e.chewing]
    /\ e.cache = [k \in Keys |-> e.cache[k]]

\* FreshUnlessWritten in every phase, also while use_all is under way.
CacheFresh ==
    \A k \in Keys \ behind["engine"] : engine.cache[k] = store[k]

SettingsInv ==
    /\ EngineShape(engine)
    /\ store = [k \in Keys |-> store[k]]
    /\ behind = [p \in Dialogs \cup {"engine"} |-> behind[p]]
    /\ CacheFresh

\* A change of the engine's phase, table or libchewing context keeps its shape
\* and its cache.
LEMMA FieldKeepsCache ==
    ASSUME NEW e, EngineShape(e), NEW v
    PROVE  /\ EngineShape([e EXCEPT !.phase = v])
           /\ [e EXCEPT !.phase = v].cache = e.cache
           /\ EngineShape([e EXCEPT !.table = v])
           /\ [e EXCEPT !.table = v].cache = e.cache
           /\ EngineShape([e EXCEPT !.chewing = v])
           /\ [e EXCEPT !.chewing = v].cache = e.cache
  BY DEF EngineShape

\* ibus_chewing_lookup_table_resize reads the settings and changes none.
LEMMA ResizedKeepsCache ==
    ASSUME NEW e, EngineShape(e)
    PROVE  EngineShape(Resized(e)) /\ Resized(e).cache = e.cache
<1>1. ASSUME NEW t, NEW c
      PROVE  LET r == [[e EXCEPT !.table = t] EXCEPT !.chewing = c]
             IN  EngineShape(r) /\ r.cache = e.cache
  <2> DEFINE f == [e EXCEPT !.table = t]
  <2>1. EngineShape(f) /\ f.cache = e.cache
    BY FieldKeepsCache
  <2> HIDE DEF f
  <2>2. EngineShape([f EXCEPT !.chewing = c]) /\ [f EXCEPT !.chewing = c].cache = f.cache
    BY <2>1, FieldKeepsCache
  <2> QED
    BY <2>1, <2>2 DEF f
<1> QED
  BY <1>1 DEF Resized

\* The callbacks reach into libchewing and the lookup table, never into the
\* values they were given.
LEMMA AppliedKeepsCache ==
    ASSUME NEW e, EngineShape(e), NEW row
    PROVE  EngineShape(Applied(e, row)) /\ Applied(e, row).cache = e.cache
<1>1. ASSUME NEW f, NEW v
      PROVE  LET r == [e EXCEPT !.chewing[f] = v]
             IN  EngineShape(r) /\ r.cache = e.cache
  BY DEF EngineShape
<1> QED
  BY <1>1, ResizedKeepsCache DEF Applied

\* Reading a key brings the cache up to date for it and changes no other.
LEMMA LoadReads ==
    ASSUME NEW k, EngineShape(engine)
    PROVE  /\ EngineShape(Load(engine, k))
           /\ \A j \in Keys : Load(engine, k).cache[j] =
                 IF j = k THEN store[k] ELSE engine.cache[j]
  BY DEF Load, EngineShape

\* A new engine starts with the defaults, and so does the store.
LEMMA SettingsInitInv == SettingsInit => SettingsInv
  BY DEF SettingsInit, SettingsInv, EngineShape, NewPreEdit, CacheFresh, Default

\* Every step of every process keeps the invariant.
LEMMA SettingsStepInv ==
    SettingsInv /\ [SettingsNext]_settingsVars => SettingsInv'
<1> SUFFICES ASSUME SettingsInv, [SettingsNext]_settingsVars
             PROVE  SettingsInv'
  OBVIOUS
<1>1. CASE UNCHANGED <<engine, store, behind>>
  BY <1>1 DEF SettingsInv, EngineShape, CacheFresh
<1>2. ASSUME UNCHANGED <<store, behind>>, EngineShape(engine'),
             engine'.cache = engine.cache
      PROVE  SettingsInv'
  BY <1>2 DEF SettingsInv, EngineShape, CacheFresh
<1>3. CASE EngineStep
  <2>1. CASE UseAll \/ UsedAll
    BY <2>1, <1>2 DEF UseAll, UsedAll, SettingsInv, EngineShape
  <2>2. CASE Use
    <3> DEFINE row == propSpecs[engine.at]
               l == Load(engine, row.key)
               a == Applied(l, row)
    <3>1. /\ engine' = [a EXCEPT !.at = @ + 1]
          /\ behind' = UpToDate("engine", row.key)
          /\ store' = store
      BY <2>2 DEF Use
    <3>2. /\ EngineShape(l)
          /\ \A j \in Keys : l.cache[j] =
                IF j = row.key THEN store[row.key] ELSE engine.cache[j]
      BY LoadReads DEF SettingsInv
    <3>3. EngineShape(a) /\ a.cache = l.cache
      BY <3>2, AppliedKeepsCache
    <3> HIDE DEF a, l
    <3>4. EngineShape(engine') /\ engine'.cache = l.cache
      BY <3>1, <3>3 DEF EngineShape
    <3>5. /\ behind' = [p \in Dialogs \cup {"engine"} |-> behind'[p]]
          /\ behind'["engine"] = behind["engine"] \ {row.key}
      BY <3>1 DEF UpToDate, SettingsInv
    <3>6. CacheFresh'
      BY <3>1, <3>2, <3>4, <3>5 DEF CacheFresh, SettingsInv
    <3> QED
      BY <3>1, <3>4, <3>5, <3>6 DEF SettingsInv, EngineShape
  <2>3. ASSUME NEW e, EngineShape(e), e.cache = engine.cache,
               engine' = Resized(e), UNCHANGED <<store, behind>>
        PROVE  SettingsInv'
    <3>1. EngineShape(Resized(e)) /\ Resized(e).cache = e.cache
      BY <2>3, ResizedKeepsCache
    <3> QED
      BY <2>3, <3>1, <1>2
  <2>4. CASE NewLookupTable
    <3> DEFINE fresh == [pageSize |-> engine.cache["cand-per-page"],
                         labels |-> <<>>]
               e == [engine EXCEPT !.phase = "idle", !.table = {fresh}]
    <3>1. engine' = Resized(e) /\ UNCHANGED <<store, behind>>
      BY <2>4 DEF NewLookupTable
    <3>2. EngineShape(e) /\ e.cache = engine.cache
      <4> DEFINE f == [engine EXCEPT !.phase = "idle"]
      <4>1. EngineShape(f) /\ f.cache = engine.cache
        BY FieldKeepsCache DEF SettingsInv
      <4> HIDE DEF f
      <4>2. /\ EngineShape([f EXCEPT !.table = {fresh}])
            /\ [f EXCEPT !.table = {fresh}].cache = f.cache
        BY <4>1, FieldKeepsCache
      <4> QED
        BY <4>1, <4>2 DEF f
    <3> QED
      BY <2>3, <3>1, <3>2
  <2>5. CASE UpdateLookupTable
    BY <2>5, <2>3 DEF UpdateLookupTable, SettingsInv
  <2>6. CASE Restart
    <3>1. /\ engine' = NewPreEdit /\ store' = store
          /\ behind' = [p \in Dialogs \cup {"engine"} |-> behind'[p]]
          /\ behind'["engine"] = Keys
      BY <2>6 DEF Restart, SettingsInv
    <3> QED
      BY <3>1 DEF SettingsInv, EngineShape, NewPreEdit, CacheFresh, Default
  <2> QED
    BY <1>3, <2>1, <2>2, <2>4, <2>5, <2>6 DEF EngineStep
<1>4. ASSUME NEW p, p # "engine", NEW k, NEW v,
             store' = [store EXCEPT ![k] = v], behind' = Written(p, k),
             engine' = engine
      PROVE  SettingsInv'
  <2>1. behind' = [q \in Dialogs \cup {"engine"} |-> behind'[q]]
    BY <1>4 DEF Written, SettingsInv
  <2>2. behind'["engine"] = behind["engine"] \cup {k}
    BY <1>4 DEF Written, SettingsInv
  <2>3. store' = [j \in Keys |-> store'[j]]
    BY <1>4 DEF SettingsInv
  <2>4. \A j \in Keys : j # k => store'[j] = store[j]
    BY <1>4 DEF SettingsInv
  <2> QED
    BY <1>4, <2>1, <2>2, <2>3, <2>4 DEF SettingsInv, EngineShape, CacheFresh
<1>5. ASSUME NEW d \in Dialogs, DialogStep(d)
      PROVE  SettingsInv'
  <2>0. ASSUME NEW B, UNCHANGED <<engine, store>>,
               behind' = [behind EXCEPT ![d] = B]
        PROVE  SettingsInv'
    <3>1. /\ behind' = [p \in Dialogs \cup {"engine"} |-> behind'[p]]
          /\ behind'["engine"] = behind["engine"]
      BY <2>0, SettingsAssumption DEF SettingsInv
    <3> QED
      BY <2>0, <3>1 DEF SettingsInv, EngineShape, CacheFresh
  <2>1. CASE AddProperty(d)
    BY <2>1, <2>0 DEF AddProperty, UpToDate
  <2>2. CASE SaveProperty(d)
    BY <2>2, <1>4, SettingsAssumption DEF SaveProperty
  <2>3. CASE Cancel(d) \/ SaveRefused(d) \/ SaveNothing(d)
             \/ \E k \in Keys : TypeText(d, k)
    BY <2>3, <2>0 DEF Cancel, RefusedWrite, SaveRefused, SaveNothing, TypeText, Gone
  <2>4. CASE Open(d) \/ Show(d) \/ Ok(d) \/ Saved(d)
             \/ \E k \in Keys : \E v \in Picked[k] : Edit(d, k, v)
    <3>1. UNCHANGED <<engine, store, behind>>
      BY <2>4 DEF Open, Show, Edit, Ok, Saved
    <3> QED
      BY <3>1, <1>1
  <2> QED
    BY <1>5, <2>1, <2>2, <2>3, <2>4 DEF DialogStep
<1>6. ASSUME NEW k \in Keys, NEW v, OtherWrite(k, v)
      PROVE  SettingsInv'
  BY <1>6, <1>4 DEF OtherWrite
<1>8. ASSUME NEW k \in Lockable, Administer(k)
      PROVE  SettingsInv'
  BY <1>8, <1>1 DEF Administer
<1>7. CASE UNCHANGED settingsVars
  BY <1>7, <1>1 DEF settingsVars
<1> QED
  BY <1>3, <1>5, <1>6, <1>7, <1>8 DEF SettingsNext

\* However its readings of the keys fall between the writes of the dialogs and
\* of other tools, a setting the engine works with is the stored one, unless
\* that key has been written since the engine read it.
THEOREM AlwaysFreshUnlessWritten == SettingsSpec => []FreshUnlessWritten
<1>1. SettingsInv => FreshUnlessWritten
  BY DEF SettingsInv, CacheFresh, FreshUnlessWritten
<1> QED
  BY SettingsInitInv, SettingsStepInv, <1>1, PTL DEF SettingsSpec

-----------------------------------------------------------------------------
(* The table of properties                                                 *)

AllKeys == {AllRows[i].key : i \in DOMAIN AllRows}

LEMMA RowsTyped ==
    ASSUME NEW i \in DOMAIN AllRows
    PROVE  AllRows[i].widget \in {"check", "spin", "combo", "entry"}
BY DEF AllRows, Row, Check

\* The row found for a key is a row of that key.
LEMMA SpecOfKey ==
    ASSUME NEW k \in Keys
    PROVE  /\ SpecOf(k).key = k
           /\ SpecOf(k).widget \in {"check", "spin", "combo", "entry"}
<1>1. \E i \in DOMAIN AllRows : AllRows[i].key = k
  BY SettingsAssumption DEF Keys
<1>2. SpecOf(k) \in {AllRows[i] : i \in DOMAIN AllRows} /\ SpecOf(k).key = k
  <2> HIDE DEF AllRows
  <2> QED
    BY <1>1 DEF SpecOf
<1> QED
  BY <1>2, RowsTyped

\* The loops visit every key.
LEMMA Rows ==
    /\ Len(propSpecs) \in Nat
    /\ \A i \in 1 .. Len(propSpecs) :
          /\ Studied[i] \in Keys
          /\ propSpecs[i] = SpecOf(Studied[i])
          /\ propSpecs[i].key = Studied[i]
    /\ \A k \in Keys : \E i \in 1 .. Len(propSpecs) : Studied[i] = k
<1>1. Studied \in Seq(STRING)
  BY SettingsAssumption
<1>2. Len(Studied) \in Nat /\ DOMAIN Studied = 1 .. Len(Studied)
  BY <1>1
<1>3. Len(propSpecs) = Len(Studied)
  BY <1>2 DEF propSpecs
<1>4. \A i \in DOMAIN Studied : propSpecs[i] = SpecOf(Studied[i]) /\ Studied[i] \in Keys
  BY DEF propSpecs, Keys
<1> QED
  BY <1>2, <1>3, <1>4, SpecOfKey DEF Keys

\* A widget shows one value, or none.
AtMostOne(S) == S = {} \/ \E v : S = {v}

LEMMA WidgetShowsOne ==
    ASSUME NEW k \in Keys, NEW v
    PROVE  AtMostOne(Widget(SpecOf(k), v))
<1> DEFINE row == SpecOf(k)
<1>1. row.widget \in {"check", "spin", "combo", "entry"}
  BY SpecOfKey
<1> HIDE DEF row
<1>2. CASE row.widget = "spin"
  <2>1. Widget(row, v) = {Clamped(v, Min(row.valid), Max(row.valid))}
    BY <1>2 DEF Widget
  <2> QED
    BY <2>1 DEF AtMostOne, row
<1>3. CASE row.widget = "combo"
  <2>1. Widget(row, v) = {v} \cap row.valid
    BY <1>3 DEF Widget
  <2>2. {v} \cap row.valid = {} \/ {v} \cap row.valid = {v}
    OBVIOUS
  <2> QED
    BY <2>1, <2>2 DEF AtMostOne, row
<1>4. CASE row.widget \in {"check", "entry"}
  <2>1. Widget(row, v) = {v}
    BY <1>4 DEF Widget
  <2> QED
    BY <2>1 DEF AtMostOne, row
<1> QED
  BY <1>1, <1>2, <1>3, <1>4 DEF row

-----------------------------------------------------------------------------
(* The inductive invariant                                                 *)

DialogFields == {"phase", "at", "shown", "touched"}

OneShape(x) ==
    /\ DOMAIN x = DialogFields /\ DOMAIN x.shown = Keys
    /\ x.at \in Nat /\ x.at > 0
    /\ \A k \in Keys : AtMostOne(x.shown[k])

DialogShape == DOMAIN dialog = Dialogs /\ \A d \in Dialogs : OneShape(dialog[d])

\* UntouchedKept and OkSaved, of one key.
KeyKept(d, k) ==
    k \notin behind[d] \cup dialog[d].touched =>
        (Widget(SpecOf(k), store[k]) = {store[k]} => dialog[d].shown[k] = {store[k]})

KeySaved(d, k) == k \notin behind[d] => store[k] \in dialog[d].shown[k]

\* The loops have dealt with the rows before `at`.
DialogOK(d) ==
    /\ dialog[d].phase = "loading" =>
          \A i \in 1 .. Len(propSpecs) : i < dialog[d].at => KeyKept(d, Studied[i])
    /\ dialog[d].phase \in {"open", "saving"} => \A k \in Keys : KeyKept(d, k)
    /\ dialog[d].phase = "saving" =>
          \A i \in 1 .. Len(propSpecs) : i < dialog[d].at => KeySaved(d, Studied[i])
    /\ dialog[d].phase = "saved" => \A k \in Keys : KeySaved(d, k)

DialogInv ==
    /\ SettingsInv
    /\ DialogShape
    /\ \A d \in Dialogs : DialogOK(d)

LEMMA NewDialogShape ==
    ASSUME NEW ph
    PROVE  OneShape([NewDialog EXCEPT !.phase = ph]) /\ OneShape(NewDialog)
BY DEF OneShape, NewDialog, AtMostOne, DialogFields

LEMMA DialogInitInv == SettingsInit => DialogInv
<1> SUFFICES ASSUME SettingsInit PROVE DialogInv
  OBVIOUS
<1>1. DialogShape
  <2>1. dialog = [d \in Dialogs |-> NewDialog]
    BY DEF SettingsInit
  <2> QED
    BY <2>1, NewDialogShape DEF DialogShape
<1>2. \A d \in Dialogs : DialogOK(d)
  BY DEF SettingsInit, DialogOK, NewDialog
<1> QED
  BY <1>1, <1>2, SettingsInitInv DEF DialogInv

\* A dialog that does nothing stays right while others write.
LEMMA OthersWrite ==
    ASSUME DialogInv, NEW d \in Dialogs, NEW p, p # d, NEW k \in Keys, NEW v,
           store' = [store EXCEPT ![k] = v], behind' = Written(p, k),
           dialog'[d] = dialog[d]
    PROVE  DialogOK(d)'
<1>1. behind'[d] = behind[d] \cup {k}
  BY DEF Written, DialogInv, SettingsInv
<1>2. \A j \in Keys \ {k} : store'[j] = store[j]
  BY DEF DialogInv, SettingsInv
<1>3. \A j \in Keys : (KeyKept(d, j) => KeyKept(d, j)') /\ (KeySaved(d, j) => KeySaved(d, j)')
  BY <1>1, <1>2 DEF KeyKept, KeySaved
<1> QED
  BY <1>3, Rows DEF DialogInv, DialogOK

\* Nothing it depends on changes.
LEMMA Unconcerned ==
    ASSUME DialogInv, NEW d \in Dialogs, store' = store, behind'[d] = behind[d],
           dialog'[d] = dialog[d]
    PROVE  DialogOK(d)'
<1>1. \A j : (KeyKept(d, j) => KeyKept(d, j)') /\ (KeySaved(d, j) => KeySaved(d, j)')
  BY DEF KeyKept, KeySaved
<1> QED
  BY <1>1 DEF DialogInv, DialogOK

\* Only dialog d changes, and keeps its shape.
LEMMA ShapeKept ==
    ASSUME DialogShape, NEW d \in Dialogs, DOMAIN dialog' = Dialogs,
           \A e \in Dialogs \ {d} : dialog'[e] = dialog[e],
           OneShape(dialog'[d])
    PROVE  DialogShape'
<1>1. \A e \in Dialogs : OneShape(dialog'[e])
  BY DEF DialogShape
<1> QED
  BY <1>1 DEF DialogShape, OneShape, AtMostOne, DialogFields

\* The process is gone, or a new one begins.
LEMMA NewProcess ==
    ASSUME DialogShape, NEW d \in Dialogs, NEW ph,
           dialog' = [dialog EXCEPT ![d] = [NewDialog EXCEPT !.phase = ph]]
    PROVE  DialogShape' /\ dialog'[d].phase = ph /\ dialog'[d].at = 1
<1> DEFINE x == [NewDialog EXCEPT !.phase = ph]
<1>1. OneShape(x)
  BY NewDialogShape
<1>2. x.phase = ph /\ x.at = 1
  BY DEF NewDialog
<1> HIDE DEF x
<1>3. DOMAIN dialog' = Dialogs /\ dialog'[d] = x /\ \A e \in Dialogs \ {d} : dialog'[e] = dialog[e]
  BY DEF DialogShape, x
<1> QED
  BY <1>1, <1>2, <1>3, ShapeKept

\* A step of dialog d keeps what is known of all dialogs.
LEMMA OwnStep ==
    ASSUME DialogInv, NEW d \in Dialogs, DialogStep(d)
    PROVE  DialogShape' /\ DialogOK(d)'
<1> DEFINE D == dialog[d]
<1>a. SettingsInv /\ DialogShape /\ DialogOK(d)
  BY DEF DialogInv
<1>b. D.at \in Nat /\ D.at > 0 /\ \A k \in Keys : AtMostOne(D.shown[k])
  BY <1>a DEF DialogShape, OneShape
<1>1. ASSUME NEW ph, ph \notin {"loading", "open", "saving", "saved"}, Gone(d, ph)
      PROVE  DialogShape' /\ DialogOK(d)'
  <2>1. DialogShape' /\ dialog'[d].phase = ph
    BY <1>a, <1>1, NewProcess DEF Gone
  <2> QED
    BY <1>1, <2>1 DEF DialogOK
<1>2. CASE Open(d)
  <2>1. DialogShape' /\ dialog'[d].phase = "loading" /\ dialog'[d].at = 1
    BY <1>a, <1>2, NewProcess DEF Open
  <2> QED
    BY <1>a, <2>1 DEF DialogOK
<1>3. CASE AddProperty(d)
  <2>1. PICK i \in 1 .. Len(propSpecs) : i = D.at
    BY <1>b, <1>3, Rows DEF AddProperty
  <2>2. PICK k, S :
          /\ k \in Keys
          /\ k = Studied[i] /\ k = propSpecs[i].key
          /\ S = Widget(SpecOf(k), store[k]) /\ S = Widget(propSpecs[i], store[k])
          /\ AtMostOne(S)
    BY <2>1, Rows, WidgetShowsOne
  <2>3. D.phase = "loading" /\ store' = store /\ behind'[d] = behind[d] \ {k}
    BY <1>a, <1>3, <2>1, <2>2 DEF AddProperty, UpToDate, SettingsInv
  <2>4. dialog' = [dialog EXCEPT ![d].shown[k] = S, ![d].at = i + 1]
    BY <1>3, <2>1, <2>2 DEF AddProperty
  <2>5. i + 1 \in Nat /\ i + 1 > 0
    BY <2>1, Rows
  <2>6. /\ DialogShape' /\ dialog'[d].phase = "loading"
        /\ dialog'[d].at = i + 1 /\ dialog'[d].touched = D.touched
        /\ dialog'[d].shown[k] = S
        /\ \A j \in Keys \ {k} : dialog'[d].shown[j] = D.shown[j]
    <3>1. /\ DOMAIN dialog' = Dialogs /\ \A e \in Dialogs \ {d} : dialog'[e] = dialog[e]
          /\ DOMAIN dialog'[d] = DialogFields /\ DOMAIN dialog'[d].shown = Keys
          /\ dialog'[d].phase = D.phase /\ dialog'[d].touched = D.touched
          /\ dialog'[d].at = i + 1 /\ dialog'[d].shown[k] = S
          /\ \A j \in Keys \ {k} : dialog'[d].shown[j] = D.shown[j]
      BY <1>a, <2>2, <2>4 DEF DialogShape, OneShape, DialogFields
    <3>2. OneShape(dialog'[d])
      BY <1>b, <2>2, <2>5, <3>1 DEF OneShape
    <3> QED
      BY <1>a, <2>3, <3>1, <3>2, ShapeKept
  <2>7. KeyKept(d, k)'
    BY <2>2, <2>3, <2>6 DEF KeyKept
  <2>8. \A j \in Keys \ {k} : KeyKept(d, j) => KeyKept(d, j)'
    BY <2>3, <2>6 DEF KeyKept
  <2>9. ASSUME NEW j \in 1 .. Len(propSpecs), j < i + 1
        PROVE  KeyKept(d, Studied[j])'
    <3>1. CASE j = i
      BY <2>2, <2>7, <3>1
    <3>2. CASE j < i
      <4>1. KeyKept(d, Studied[j]) /\ Studied[j] \in Keys
        BY <1>a, <2>1, <2>3, <3>2, Rows DEF DialogOK
      <4> QED
        BY <2>7, <2>8, <4>1
    <3> QED
      BY <2>1, <2>9, <3>1, <3>2, Rows
  <2> QED
    BY <2>6, <2>9 DEF DialogOK
<1>4. CASE Show(d)
  <2>1. dialog' = [dialog EXCEPT ![d].phase = "open"]
    BY <1>4 DEF Show
  <2>2. /\ DialogShape' /\ dialog'[d].phase = "open"
        /\ dialog'[d].shown = D.shown /\ dialog'[d].touched = D.touched
    <3>1. /\ DOMAIN dialog' = Dialogs /\ \A e \in Dialogs \ {d} : dialog'[e] = dialog[e]
          /\ DOMAIN dialog'[d] = DialogFields
          /\ dialog'[d].phase = "open" /\ dialog'[d].at = D.at
          /\ dialog'[d].shown = D.shown /\ dialog'[d].touched = D.touched
      BY <1>a, <2>1 DEF DialogShape, OneShape, DialogFields
    <3>2. OneShape(dialog'[d])
      BY <1>a, <1>b, <3>1 DEF DialogShape, OneShape
    <3> QED
      BY <1>a, <3>1, <3>2, ShapeKept
  <2>3. \A k \in Keys : KeyKept(d, k)
    BY <1>a, <1>b, <1>4, Rows DEF Show, DialogOK
  <2>4. \A k \in Keys : KeyKept(d, k)'
    BY <1>4, <2>2, <2>3 DEF Show, KeyKept
  <2> QED
    BY <2>2, <2>4 DEF DialogOK
<1>5. ASSUME NEW k \in Keys, NEW v, Edit(d, k, v)
      PROVE  DialogShape' /\ DialogOK(d)'
  <2>1. /\ dialog' = [dialog EXCEPT ![d].shown[k] = {v}, ![d].touched = @ \cup {k}]
        /\ D.phase = "open" /\ UNCHANGED <<store, behind>>
    BY <1>5 DEF Edit
  <2>4. /\ DialogShape' /\ dialog'[d].phase = "open"
        /\ dialog'[d].touched = D.touched \cup {k}
        /\ \A j \in Keys \ {k} : dialog'[d].shown[j] = D.shown[j]
    <3>1. /\ DOMAIN dialog' = Dialogs /\ \A e \in Dialogs \ {d} : dialog'[e] = dialog[e]
          /\ DOMAIN dialog'[d] = DialogFields /\ DOMAIN dialog'[d].shown = Keys
          /\ dialog'[d].phase = D.phase /\ dialog'[d].at = D.at
          /\ dialog'[d].touched = D.touched \cup {k}
          /\ dialog'[d].shown[k] = {v}
          /\ \A j \in Keys \ {k} : dialog'[d].shown[j] = D.shown[j]
      BY <1>a, <2>1 DEF DialogShape, OneShape, DialogFields
    <3>2. AtMostOne({v})
      BY DEF AtMostOne
    <3>3. OneShape(dialog'[d])
      BY <1>b, <3>1, <3>2 DEF OneShape
    <3> QED
      BY <1>a, <2>1, <3>1, <3>3, ShapeKept
  <2>5. \A j \in Keys : KeyKept(d, j)
    BY <1>a, <2>1 DEF DialogOK
  <2>6. \A j \in Keys : KeyKept(d, j)'
    BY <2>1, <2>4, <2>5 DEF KeyKept
  <2> QED
    BY <2>4, <2>6 DEF DialogOK
<1>6. CASE Ok(d)
  <2>1. dialog' = [dialog EXCEPT ![d].phase = "saving", ![d].at = 1]
    BY <1>6 DEF Ok
  <2>2. /\ DialogShape' /\ dialog'[d].phase = "saving" /\ dialog'[d].at = 1
        /\ dialog'[d].shown = D.shown /\ dialog'[d].touched = D.touched
    <3>1. /\ DOMAIN dialog' = Dialogs /\ \A e \in Dialogs \ {d} : dialog'[e] = dialog[e]
          /\ DOMAIN dialog'[d] = DialogFields
          /\ dialog'[d].phase = "saving" /\ dialog'[d].at = 1
          /\ dialog'[d].shown = D.shown /\ dialog'[d].touched = D.touched
      BY <1>a, <2>1 DEF DialogShape, OneShape, DialogFields
    <3>2. OneShape(dialog'[d])
      BY <1>a, <1>b, <3>1 DEF DialogShape, OneShape
    <3> QED
      BY <1>a, <3>1, <3>2, ShapeKept
  <2>3. \A k \in Keys : KeyKept(d, k)
    BY <1>a, <1>6 DEF Ok, DialogOK
  <2>4. \A k \in Keys : KeyKept(d, k)'
    BY <1>6, <2>2, <2>3 DEF Ok, KeyKept
  <2> QED
    BY <2>2, <2>4 DEF DialogOK
<1>7. CASE SaveProperty(d)
  <2>1. PICK i \in 1 .. Len(propSpecs) : D.phase = "saving" /\ i = D.at
    BY <1>b, <1>7, Rows DEF SaveProperty
  <2>2. PICK k \in Keys : k = Studied[i] /\ k = propSpecs[i].key
    BY <2>1, Rows
  <2>3. PICK v \in D.shown[k] : store' = [store EXCEPT ![k] = v]
    BY <1>7, <2>1, <2>2 DEF SaveProperty
  <2>4. D.shown[k] = {v}
    BY <1>b, <2>2, <2>3 DEF AtMostOne
  <2>5. /\ store'[k] = v /\ \A j \in Keys \ {k} : store'[j] = store[j]
        /\ behind'[d] = behind[d] \ {k}
    BY <1>a, <1>7, <2>1, <2>2, <2>3 DEF SaveProperty, Written, SettingsInv
  <2>6. dialog' = [dialog EXCEPT ![d].at = i + 1]
    BY <1>7, <2>1 DEF SaveProperty
  <2>7. i + 1 \in Nat /\ i + 1 > 0
    BY <2>1, Rows
  <2>8. /\ DialogShape' /\ dialog'[d].phase = "saving" /\ dialog'[d].at = i + 1
        /\ dialog'[d].shown = D.shown /\ dialog'[d].touched = D.touched
    <3>1. /\ DOMAIN dialog' = Dialogs /\ \A e \in Dialogs \ {d} : dialog'[e] = dialog[e]
          /\ DOMAIN dialog'[d] = DialogFields
          /\ dialog'[d].phase = "saving" /\ dialog'[d].at = i + 1
          /\ dialog'[d].shown = D.shown /\ dialog'[d].touched = D.touched
      BY <1>a, <2>1, <2>6 DEF DialogShape, OneShape, DialogFields
    <3>2. OneShape(dialog'[d])
      BY <1>a, <1>b, <2>7, <3>1 DEF DialogShape, OneShape
    <3> QED
      BY <1>a, <3>1, <3>2, ShapeKept
  <2>9. \A j \in Keys : KeyKept(d, j)'
    <3>1. \A j \in Keys : KeyKept(d, j)
      BY <1>a, <2>1 DEF DialogOK
    <3>2. KeyKept(d, k)'
      BY <2>4, <2>5, <2>8 DEF KeyKept
    <3>3. \A j \in Keys \ {k} : KeyKept(d, j)'
      BY <2>5, <2>8, <3>1 DEF KeyKept
    <3> QED
      BY <3>2, <3>3
  <2>10. ASSUME NEW j \in 1 .. Len(propSpecs), j < i + 1
         PROVE  KeySaved(d, Studied[j])'
    <3>1. CASE Studied[j] = k
      BY <2>4, <2>5, <2>8, <3>1 DEF KeySaved
    <3>2. CASE Studied[j] # k
      <4>1. j < i
        BY <2>1, <2>2, <2>10, <3>2, Rows
      <4>2. KeySaved(d, Studied[j]) /\ Studied[j] \in Keys
        BY <1>a, <2>1, <4>1, Rows DEF DialogOK
      <4> QED
        BY <2>5, <2>8, <3>2, <4>2 DEF KeySaved
    <3> QED
      BY <3>1, <3>2
  <2> QED
    BY <2>8, <2>9, <2>10 DEF DialogOK
<1>8. CASE Saved(d)
  <2>1. dialog' = [dialog EXCEPT ![d].phase = "saved"]
    BY <1>8 DEF Saved
  <2>2. DialogShape' /\ dialog'[d].phase = "saved" /\ dialog'[d].shown = D.shown
    <3>1. /\ DOMAIN dialog' = Dialogs /\ \A e \in Dialogs \ {d} : dialog'[e] = dialog[e]
          /\ DOMAIN dialog'[d] = DialogFields
          /\ dialog'[d].phase = "saved" /\ dialog'[d].at = D.at
          /\ dialog'[d].shown = D.shown /\ dialog'[d].touched = D.touched
      BY <1>a, <2>1 DEF DialogShape, OneShape, DialogFields
    <3>2. OneShape(dialog'[d])
      BY <1>a, <1>b, <3>1 DEF DialogShape, OneShape
    <3> QED
      BY <1>a, <3>1, <3>2, ShapeKept
  <2>3. \A k \in Keys : KeySaved(d, k)
    BY <1>a, <1>b, <1>8, Rows DEF Saved, DialogOK
  <2>4. \A k \in Keys : KeySaved(d, k)'
    BY <1>8, <2>2, <2>3 DEF Saved, KeySaved
  <2> QED
    BY <2>2, <2>4 DEF DialogOK
<1> QED
  BY <1>1, <1>2, <1>3, <1>4, <1>5, <1>6, <1>7, <1>8
     DEF DialogStep, TypeText, Cancel, SaveRefused, SaveNothing

\* Every step of every process keeps the invariant.
LEMMA DialogStepInv == DialogInv /\ [SettingsNext]_settingsVars => DialogInv'
<1> SUFFICES ASSUME DialogInv, [SettingsNext]_settingsVars
             PROVE  DialogInv'
  OBVIOUS
<1>0. SettingsInv'
  BY SettingsStepInv DEF DialogInv
<1>1. ASSUME dialog' = dialog, \A d \in Dialogs : DialogOK(d)'
      PROVE  DialogInv'
  BY <1>0, <1>1 DEF DialogInv, DialogShape, OneShape, AtMostOne, DialogFields
<1>2. ASSUME UNCHANGED <<store, dialog>>,
             \A d \in Dialogs : behind'[d] = behind[d]
      PROVE  DialogInv'
  BY <1>1, <1>2, Unconcerned
<1>3. CASE EngineStep
  <2>1. UNCHANGED <<store, dialog>>
    BY <1>3 DEF EngineStep, UseAll, Use, UsedAll, NewLookupTable, UpdateLookupTable, Restart
  <2>2. behind' = behind \/ \E B : behind' = [behind EXCEPT !["engine"] = B]
    BY <1>3 DEF EngineStep, UseAll, Use, UsedAll, NewLookupTable, UpdateLookupTable,
                Restart, UpToDate
  <2>3. \A d \in Dialogs : behind'[d] = behind[d]
    BY <2>2, SettingsAssumption DEF DialogInv, SettingsInv
  <2> QED
    BY <1>2, <2>1, <2>3
<1>4. ASSUME NEW d \in Dialogs, DialogStep(d)
      PROVE  DialogInv'
  <2>1. DialogShape' /\ DialogOK(d)'
    BY <1>4, OwnStep
  <2>2. ASSUME NEW e \in Dialogs, e # d
        PROVE  DialogOK(e)'
    <3>1. dialog'[e] = dialog[e]
      BY <1>4, <2>2 DEF DialogStep, Open, AddProperty, Show, Edit, TypeText, Cancel, Ok,
             SaveProperty, SaveRefused, SaveNothing, Saved, Gone, DialogInv, DialogShape
    <3>2. CASE SaveProperty(d)
      <4>1. PICK i \in 1 .. Len(propSpecs) : i = dialog[d].at
        BY <3>2, Rows DEF SaveProperty, DialogInv, DialogShape, OneShape
      <4>2. PICK k \in Keys : k = propSpecs[i].key
        BY <4>1, Rows
      <4>3. /\ behind' = Written(d, k)
            /\ \E v : store' = [store EXCEPT ![k] = v]
        BY <3>2, <4>1, <4>2 DEF SaveProperty
      <4> QED
        BY <2>2, <3>1, <4>3, OthersWrite
    <3>3. CASE ~SaveProperty(d)
      <4>1. store' = store
        BY <1>4, <3>3 DEF DialogStep, Open, AddProperty, Show, Edit, TypeText, Cancel, Ok,
               SaveRefused, RefusedWrite, SaveNothing, Saved
      <4>2. behind' = behind \/ \E B : behind' = [behind EXCEPT ![d] = B]
        BY <1>4, <3>3 DEF DialogStep, Open, AddProperty, Show, Edit, TypeText, Cancel, Ok,
               SaveRefused, SaveNothing, Saved, Gone, UpToDate
      <4>3. behind'[e] = behind[e]
        BY <2>2, <4>2 DEF DialogInv, SettingsInv
      <4> QED
        BY <3>1, <4>1, <4>3, Unconcerned
    <3> QED
      BY <3>2, <3>3
  <2> QED
    BY <1>0, <2>1, <2>2 DEF DialogInv
<1>5. ASSUME NEW k \in Keys, NEW v, OtherWrite(k, v)
      PROVE  DialogInv'
  <2>1. \A d \in Dialogs : DialogOK(d)'
    BY <1>5, OthersWrite, SettingsAssumption DEF OtherWrite
  <2> QED
    BY <1>1, <1>5, <2>1 DEF OtherWrite
<1>6. ASSUME NEW k \in Lockable, Administer(k)
      PROVE  DialogInv'
  BY <1>2, <1>6 DEF Administer
<1>7. CASE UNCHANGED settingsVars
  BY <1>2, <1>7 DEF settingsVars
<1> QED
  BY <1>3, <1>4, <1>5, <1>6, <1>7 DEF SettingsNext

-----------------------------------------------------------------------------
(* The theorems                                                            *)

\* save_all_widgets_values writes every property: when the dialog has closed
\* with OK, a setting nobody else has written since has the value it showed.
THEOREM AlwaysOkSaved == SettingsSpec => []OkSaved
<1>1. DialogInv => OkSaved
  BY DEF DialogInv, DialogOK, KeySaved, OkSaved
<1> QED
  BY DialogInitInv, DialogStepInv, <1>1, PTL DEF SettingsSpec

\* add_all_properties reads every property before the dialog appears: OK is
\* never about to overwrite a setting that neither the user of the dialog nor
\* anybody else has changed, if its widget can show the value it has.
THEOREM AlwaysUntouchedKept == SettingsSpec => []UntouchedKept
<1>1. DialogInv => UntouchedKept
  BY DEF DialogInv, DialogOK, KeyKept, UntouchedKept
<1> QED
  BY DialogInitInv, DialogStepInv, <1>1, PTL DEF SettingsSpec
=============================================================================
