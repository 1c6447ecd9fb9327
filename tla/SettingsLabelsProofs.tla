------------------------- MODULE SettingsLabelsProofs -------------------------
(***************************************************************************)
(* The labels beside the choices of a page and the page size of libchewing *)
(* belong to the settings the engine has read, for every set of            *)
(* properties, values, read-only keys and dialogs.                         *)
(***************************************************************************)
EXTENDS SettingsProofs, SequenceTheorems

-----------------------------------------------------------------------------
(* Pure parts                                                              *)

\* The smallest and the largest of a few numbers.
LEMMA MinOfThree ==
    ASSUME NEW a \in Nat, NEW b \in Nat, NEW c \in Nat
    PROVE  LET m == Min({a, b, c})
           IN  m \in Nat /\ m <= a /\ m <= b /\ m <= c
<1>1. \E x \in {a, b, c} : \A y \in {a, b, c} : x <= y
  <2>1. CASE a <= b /\ a <= c
    BY <2>1
  <2>2. CASE b <= a /\ b <= c
    BY <2>2
  <2>3. CASE c <= a /\ c <= b
    BY <2>3
  <2> QED
    BY <2>1, <2>2, <2>3
<1> QED
  BY <1>1 DEF Min

LEMMA ClampedIsNat ==
    ASSUME NEW v \in Nat
    PROVE  Clamped(v, Min(8 .. 10), Max(8 .. 10)) \in Nat
<1>1. Min(8 .. 10) = 8
  BY DEF Min
<1>2. Max(8 .. 10) = 10
  BY DEF Max
<1>3. \E x \in {v, 10} : \A y \in {v, 10} : x <= y
  <2>1. CASE v <= 10
    BY <2>1
  <2>2. CASE 10 <= v
    BY <2>2
  <2> QED
    BY <2>1, <2>2
<1>4. Min({v, 10}) \in Nat
  BY <1>3 DEF Min
<1>5. \A w \in Nat : \E x \in {8, w} : \A y \in {8, w} : x >= y
  <2> SUFFICES ASSUME NEW w \in Nat PROVE \E x \in {8, w} : \A y \in {8, w} : x >= y
    OBVIOUS
  <2>1. CASE w <= 8
    BY <2>1
  <2>2. CASE 8 <= w
    BY <2>2
  <2> QED
    BY <2>1, <2>2
<1>6. \A w \in Nat : Max({8, w}) \in Nat
  BY <1>5 DEF Max
<1> QED
  BY <1>1, <1>2, <1>4, <1>6 DEF Clamped

\* The rows that reach into the labels, and those that do not.
LEMMA RowsApplied ==
    ASSUME NEW i \in DOMAIN AllRows
    PROVE  LET row == AllRows[i]
           IN  /\ row.apply \in {"own", "easySymbolInput", "syncCapsLock", "resize", "cached"}
               /\ row.key \in {"sel-keys", "cand-per-page"} => row.apply = "resize"
               /\ row.key \notin {"candPerPage", "selKey"}
               /\ row.key = "sel-keys" => row.widget = "entry" /\ row.valid = SelKeyLists
               /\ row.key = "cand-per-page" => row.widget = "spin" /\ row.valid = 8 .. 10
<1> DEFINE row == AllRows[i]
<1>1. row.apply \in {"own", "easySymbolInput", "syncCapsLock", "resize", "cached"}
  BY DEF AllRows, Row, Check
<1>2. row.key \in {"sel-keys", "cand-per-page"} => row.apply = "resize"
  BY DEF AllRows, Row, Check
<1>3. row.key \notin {"candPerPage", "selKey"}
  BY DEF AllRows, Row, Check
<1>4. row.key = "sel-keys" => row.widget = "entry" /\ row.valid = SelKeyLists
  BY DEF AllRows, Row, Check
<1>5. row.key = "cand-per-page" => row.widget = "spin" /\ row.valid = 8 .. 10
  <2>1. AllRows[14] = Row("cand-per-page", "spin", 8 .. 10, "resize")
    BY DEF AllRows
  <2>2. row.key = "cand-per-page" => i = 14
    BY DEF AllRows, Row, Check
  <2> QED
    BY <2>1, <2>2 DEF Row
<1> QED
  BY <1>1, <1>2, <1>3, <1>4, <1>5

LEMMA SpecOfApplied ==
    ASSUME NEW k \in Keys
    PROVE  LET row == SpecOf(k)
           IN  /\ row.key = k
               /\ row.apply \in {"own", "easySymbolInput", "syncCapsLock", "resize", "cached"}
               /\ k \in {"sel-keys", "cand-per-page"} => row.apply = "resize"
               /\ k \notin {"candPerPage", "selKey"}
               /\ k = "sel-keys" => row.widget = "entry" /\ row.valid = SelKeyLists
               /\ k = "cand-per-page" => row.widget = "spin" /\ row.valid = 8 .. 10
<1>1. \E i \in DOMAIN AllRows : AllRows[i].key = k
  BY SettingsAssumption DEF Keys
<1>2. PICK i \in DOMAIN AllRows : SpecOf(k) = AllRows[i] /\ SpecOf(k).key = k
  <2> HIDE DEF AllRows
  <2> QED
    BY <1>1 DEF SpecOf
<1> QED
  BY <1>2, RowsApplied

-----------------------------------------------------------------------------
(* The engine                                                              *)

EngineFields == {"phase", "at", "cache", "table", "chewing"}

EngineTyped(e) ==
    /\ DOMAIN e = EngineFields
    /\ DOMAIN e.cache = Keys
    /\ e.cache["sel-keys"] \in Seq(STRING)
    /\ e.cache["cand-per-page"] \in Nat
    /\ DOMAIN e.chewing = Fields
    /\ \A t \in e.table : DOMAIN t = {"pageSize", "labels"} /\ t.labels \in Seq(STRING)

\* ContextFollowsCache, of an engine between any two steps.
Follows(e) ==
    LET list == e.cache["sel-keys"]
        size == Min({Len(list), MAX_SELKEY, e.cache["cand-per-page"]})
    IN  /\ e.chewing["candPerPage"] = {size}
        /\ e.chewing["selKey"] = {SubSeq(list, 1, size)}
        /\ \A t \in e.table : {SubSeq(t.labels, 1, size)} = e.chewing["selKey"]

\* Relabelling puts the keys first.
LEMMA KeysFirst ==
    ASSUME NEW labels \in Seq(STRING), NEW keys \in Seq(STRING)
    PROVE  /\ Relabelled(labels, keys) \in Seq(STRING)
           /\ SubSeq(Relabelled(labels, keys), 1, Len(keys)) = keys
<1> DEFINE rest == SubSeq(labels, Len(keys) + 1, Len(labels))
           made == keys \o rest
           front == SubSeq(made, 1, Len(keys))
<1>1. Len(keys) \in Nat /\ Len(labels) \in Nat
  BY LenProperties
<1>2. rest \in Seq(STRING)
  BY <1>1
<1> HIDE DEF rest
<1>3. /\ made \in Seq(STRING) /\ Len(made) = Len(keys) + Len(rest)
      /\ \A i \in 1 .. Len(keys) : made[i] = keys[i]
  BY <1>1, <1>2
<1>4. Len(rest) \in Nat
  BY <1>2, LenProperties
<1> HIDE DEF made
<1>5. /\ front \in Seq(STRING) /\ Len(front) = Len(keys)
      /\ \A i \in 1 .. Len(keys) : front[i] = made[i]
  BY <1>1, <1>3, <1>4
<1> HIDE DEF front
<1>6. front = keys
  BY <1>1, <1>3, <1>5, SeqEqual
<1> QED
  BY <1>3, <1>6 DEF Relabelled, made, front, rest

\* ibus_chewing_lookup_table_resize brings all three together, if there is a
\* lookup table.
LEMMA ResizedFollows ==
    ASSUME NEW e, EngineTyped(e)
    PROVE  /\ EngineTyped(Resized(e))
           /\ Resized(e).phase = e.phase
           /\ Resized(e).at = e.at
           /\ Resized(e).cache = e.cache
           /\ (Resized(e).table = {}) <=> (e.table = {})
           /\ e.table # {} => Follows(Resized(e))
<1> DEFINE list == e.cache["sel-keys"]
           n == Min({Len(list), MAX_SELKEY, e.cache["cand-per-page"]})
           keys == SubSeq(list, 1, n)
           made == {[t EXCEPT !.labels = Relabelled(@, keys)] : t \in e.table}
           sel == IF made = {} THEN {} ELSE {keys}
           r == Resized(e)
<1>1. n \in Nat /\ n <= Len(list)
  BY MinOfThree DEF EngineTyped, MAX_SELKEY
<1>2. keys \in Seq(STRING) /\ Len(keys) = n
  <2>1. list \in Seq(STRING)
    BY DEF EngineTyped
  <2> HIDE DEF list, n
  <2>2. \A i \in 1 .. n : list[i] \in STRING
    BY <1>1, <2>1
  <2>3. (IF 1 <= n THEN n - 1 + 1 ELSE 0) = n
    BY <1>1
  <2> QED
    BY <1>1, <2>2, <2>3, SubSeqProperties
<1>3. /\ \A t \in made : /\ DOMAIN t = {"pageSize", "labels"}
                         /\ t.labels \in Seq(STRING) /\ SubSeq(t.labels, 1, n) = keys
      /\ (made = {}) <=> (e.table = {})
  <2> HIDE DEF keys, n
  <2>1. ASSUME NEW t \in e.table
        PROVE  LET u == [t EXCEPT !.labels = Relabelled(@, keys)]
               IN  /\ DOMAIN u = {"pageSize", "labels"}
                   /\ u.labels \in Seq(STRING) /\ SubSeq(u.labels, 1, n) = keys
    <3>1. DOMAIN t = {"pageSize", "labels"} /\ t.labels \in Seq(STRING)
      BY DEF EngineTyped
    <3> DEFINE labels == Relabelled(t.labels, keys)
    <3>2. labels \in Seq(STRING) /\ SubSeq(labels, 1, n) = keys
      BY <1>2, <3>1, KeysFirst
    <3> HIDE DEF labels
    <3> DEFINE u == [t EXCEPT !.labels = labels]
    <3>3. DOMAIN u = {"pageSize", "labels"} /\ u.labels = labels
      BY <3>1
    <3> QED
      BY <3>2, <3>3 DEF labels
  <2> QED
    BY <2>1
<1>4. r = [e EXCEPT !.table = made,
                    !.chewing = [@ EXCEPT !["candPerPage"] = {n}, !["selKey"] = sel]]
  BY <1>2 DEF Resized
<1>5. "candPerPage" \in Fields /\ "selKey" \in Fields
  BY DEF Fields
<1> HIDE DEF made, sel, n, keys, r
<1>6. /\ DOMAIN r = EngineFields /\ r.table = made
      /\ r.phase = e.phase /\ r.at = e.at /\ r.cache = e.cache
      /\ DOMAIN r.chewing = Fields
      /\ r.chewing["candPerPage"] = {n} /\ r.chewing["selKey"] = sel
  BY <1>4, <1>5 DEF EngineTyped, EngineFields
<1>7. EngineTyped(r)
  BY <1>3, <1>6 DEF EngineTyped
<1>8. ASSUME e.table # {}
      PROVE  Follows(r)
  <2>1. sel = {keys}
    BY <1>3, <1>8 DEF sel
  <2>2. keys = SubSeq(r.cache["sel-keys"], 1, n)
    BY <1>6 DEF keys
  <2>3. n = Min({Len(r.cache["sel-keys"]), MAX_SELKEY, r.cache["cand-per-page"]})
    BY <1>6 DEF n
  <2> QED
    BY <1>3, <1>6, <2>1, <2>2, <2>3 DEF Follows
<1> QED
  BY <1>3, <1>6, <1>7, <1>8 DEF r

\* A reading of key k and its apply callback: the labels follow what was read,
\* or k is none of their business.
LEMMA UseFollows ==
    ASSUME EngineTyped(engine), NEW k \in Keys,
           store["sel-keys"] \in Seq(STRING), store["cand-per-page"] \in Nat
    PROVE  LET a == Applied(Load(engine, k), SpecOf(k))
           IN  /\ EngineTyped(a)
               /\ a.phase = engine.phase /\ a.at = engine.at
               /\ (a.table = {}) <=> (engine.table = {})
               /\ engine.table # {} /\ Follows(engine) => Follows(a)
<1> DEFINE l == Load(engine, k)
           row == SpecOf(k)
           a == Applied(l, row)
<1>1. /\ EngineTyped(l)
      /\ l.phase = engine.phase /\ l.at = engine.at
      /\ l.table = engine.table /\ l.chewing = engine.chewing
      /\ \A j \in Keys \ {k} : l.cache[j] = engine.cache[j]
  BY SettingsAssumption DEF Load, EngineTyped, EngineFields
<1>2. {"sel-keys", "cand-per-page"} \subseteq Keys
  BY SettingsAssumption
<1>3. /\ row.key = k
      /\ row.apply \in {"own", "easySymbolInput", "syncCapsLock", "resize", "cached"}
      /\ k \in {"sel-keys", "cand-per-page"} => row.apply = "resize"
      /\ k \notin {"candPerPage", "selKey"}
  BY SpecOfApplied
<1> HIDE DEF l, row
<1>4. CASE row.apply = "resize"
  <2>1. a = Resized(l)
    BY <1>4 DEF Applied
  <2> QED
    BY <1>1, <2>1, ResizedFollows DEF l, row
<1>5. CASE row.apply # "resize"
  <2>1. \/ a = l
        \/ \E f, v : /\ f \notin {"candPerPage", "selKey"}
                     /\ a = [l EXCEPT !.chewing[f] = v]
    BY <1>3, <1>5 DEF Applied
  <2>2. k \notin {"sel-keys", "cand-per-page"}
    BY <1>3, <1>5
  <2> HIDE DEF a
  <2> DEFINE Same == /\ EngineTyped(a)
                     /\ a.phase = l.phase /\ a.at = l.at
                     /\ a.table = l.table /\ a.cache = l.cache
                     /\ a.chewing["candPerPage"] = l.chewing["candPerPage"]
                     /\ a.chewing["selKey"] = l.chewing["selKey"]
  <2>3. Same
    <3>1. CASE a = l
      BY <1>1, <3>1
    <3>2. ASSUME NEW f, NEW v, f \notin {"candPerPage", "selKey"},
                 a = [l EXCEPT !.chewing[f] = v]
          PROVE  Same
      <4>1. /\ DOMAIN a = EngineFields /\ a.phase = l.phase /\ a.at = l.at
            /\ a.table = l.table /\ a.cache = l.cache
            /\ a.chewing = [l.chewing EXCEPT ![f] = v]
        BY <1>1, <3>2 DEF EngineTyped, EngineFields
      <4>2. {"candPerPage", "selKey"} \subseteq Fields
        BY DEF Fields
      <4> QED
        BY <1>1, <3>2, <4>1, <4>2 DEF EngineTyped
    <3> QED
      BY <2>1, <3>1, <3>2
  <2>4. /\ l.cache["sel-keys"] = engine.cache["sel-keys"]
        /\ l.cache["cand-per-page"] = engine.cache["cand-per-page"]
    BY <1>1, <1>2, <2>2
  <2>5. Follows(engine) => Follows(a)
    BY <1>1, <2>3, <2>4 DEF Follows
  <2> QED
    BY <1>1, <2>3, <2>5 DEF a, l, row
<1> QED
  BY <1>4, <1>5

-----------------------------------------------------------------------------
(* The inductive invariant                                                 *)

StoreTyped ==
    /\ store["sel-keys"] \in Seq(STRING)
    /\ store["cand-per-page"] \in Nat
    /\ \A d \in Dialogs :
          /\ dialog[d].shown["sel-keys"] \subseteq Seq(STRING)
          /\ dialog[d].shown["cand-per-page"] \subseteq Nat

\* There is a lookup table as soon as the engine has been made, and from then
\* on the labels follow, in the middle of use_all too.
TableFollows ==
    /\ engine.phase \in {"new", "using", "idle"}
    /\ engine.at \in Nat /\ engine.at > 0
    /\ engine.phase # "new" => engine.table # {} /\ Follows(engine)

LabelsInv ==
    /\ DialogInv
    /\ StoreTyped
    /\ EngineTyped(engine)
    /\ TableFollows

LEMMA DefaultTyped ==
    /\ DOMAIN Default = Keys
    /\ Default["sel-keys"] \in Seq(STRING)
    /\ Default["cand-per-page"] \in Nat
<1>1. {"sel-keys", "cand-per-page"} \subseteq Keys
  BY SettingsAssumption
<1>2. (CHOOSE s \in SelKeyLists : s[1] = "1") \in Seq(STRING)
  BY SettingsAssumption
<1>3. /\ DOMAIN Default = Keys
      /\ Default["sel-keys"] = CHOOSE s \in SelKeyLists : s[1] = "1"
      /\ Default["cand-per-page"] = 10
  BY <1>1 DEF Default
<1> QED
  BY <1>2, <1>3

LEMMA NewPreEditTyped == EngineTyped(NewPreEdit)
  BY DefaultTyped DEF EngineTyped, EngineFields, NewPreEdit

LEMMA LabelsInitInv == SettingsInit => LabelsInv
<1> SUFFICES ASSUME SettingsInit PROVE LabelsInv
  OBVIOUS
<1>1. StoreTyped
  <2>1. \A d \in Dialogs : /\ dialog[d].shown["sel-keys"] = {}
                           /\ dialog[d].shown["cand-per-page"] = {}
    BY SettingsAssumption DEF SettingsInit, NewDialog
  <2> QED
    BY <2>1, DefaultTyped DEF SettingsInit, StoreTyped
<1>2. EngineTyped(engine) /\ TableFollows
  BY NewPreEditTyped DEF SettingsInit, TableFollows, NewPreEdit
<1> QED
  BY <1>1, <1>2, DialogInitInv DEF LabelsInv

\* What a dialog shows of a typed setting is typed.
LEMMA WidgetTyped ==
    ASSUME NEW k \in Keys, NEW v
    PROVE  /\ k = "sel-keys" /\ v \in Seq(STRING) =>
                 Widget(SpecOf(k), v) \subseteq Seq(STRING)
           /\ k = "cand-per-page" /\ v \in Nat => Widget(SpecOf(k), v) \subseteq Nat
<1>1. CASE k = "sel-keys"
  <2>1. SpecOf(k).widget = "entry"
    BY <1>1, SpecOfApplied
  <2>2. Widget(SpecOf(k), v) = {v}
    BY <2>1 DEF Widget
  <2> QED
    BY <1>1, <2>2
<1>2. CASE k = "cand-per-page"
  <2>1. SpecOf(k).widget = "spin" /\ SpecOf(k).valid = 8 .. 10
    BY <1>2, SpecOfApplied
  <2>2. Widget(SpecOf(k), v) = {Clamped(v, Min(8 .. 10), Max(8 .. 10))}
    BY <2>1 DEF Widget
  <2> QED
    BY <1>2, <2>2, ClampedIsNat
<1> QED
  BY <1>1, <1>2

\* The values of the two settings that a widget or the store may take.
ValueTyped(k, v) ==
    /\ k = "sel-keys" => v \in Seq(STRING)
    /\ k = "cand-per-page" => v \in Nat

\* A key is written, or none.
LEMMA WriteTyped ==
    ASSUME LabelsInv, NEW k \in Keys, NEW v, ValueTyped(k, v),
           store' = [store EXCEPT ![k] = v],
           \A d \in Dialogs : dialog'[d].shown = dialog[d].shown
    PROVE  StoreTyped'
<1>1. {"sel-keys", "cand-per-page"} \subseteq Keys
  BY SettingsAssumption
<1>2. \A j \in Keys : store'[j] = IF j = k THEN v ELSE store[j]
  BY DEF LabelsInv, DialogInv, SettingsInv
<1> QED
  BY <1>1, <1>2 DEF LabelsInv, StoreTyped, ValueTyped

\* A step of a dialog.
LEMMA DialogTyped ==
    ASSUME LabelsInv, NEW d \in Dialogs, DialogStep(d)
    PROVE  StoreTyped'
<1>a. DialogShape /\ OneShape(dialog[d]) /\ {"sel-keys", "cand-per-page"} \subseteq Keys
  BY SettingsAssumption DEF LabelsInv, DialogInv, DialogShape
<1>1. ASSUME store' = store,
             \A e \in Dialogs \ {d} : dialog'[e] = dialog[e],
             \A k \in Keys : \A v \in dialog'[d].shown[k] :
                v \in dialog[d].shown[k] \/ ValueTyped(k, v)
      PROVE  StoreTyped'
  BY <1>a, <1>1 DEF LabelsInv, StoreTyped, ValueTyped
<1>2. ASSUME NEW ph, NEW T, dialog' = [dialog EXCEPT ![d] = [NewDialog EXCEPT !.phase = ph]],
             store' = store
      PROVE  StoreTyped'
  <2>1. /\ \A e \in Dialogs \ {d} : dialog'[e] = dialog[e]
        /\ \A k \in Keys : dialog'[d].shown[k] = {}
    BY <1>a, <1>2 DEF DialogShape, NewDialog
  <2> QED
    BY <1>1, <1>2, <2>1
<1>3. CASE AddProperty(d)
  <2>1. PICK i \in 1 .. Len(propSpecs) : i = dialog[d].at
    BY <1>a, <1>3, Rows DEF AddProperty, OneShape
  <2>2. PICK k, S :
          /\ k \in Keys
          /\ k = propSpecs[i].key /\ S = Widget(propSpecs[i], store[k])
          /\ S = Widget(SpecOf(k), store[k])
    BY <2>1, Rows
  <2>3. dialog' = [dialog EXCEPT ![d].shown[k] = S, ![d].at = i + 1] /\ store' = store
    BY <1>3, <2>1, <2>2 DEF AddProperty
  <2>4. \A v \in S : ValueTyped(k, v)
    BY <2>2, WidgetTyped DEF LabelsInv, StoreTyped, ValueTyped
  <2>5. /\ \A e \in Dialogs \ {d} : dialog'[e] = dialog[e]
        /\ \A j \in Keys : dialog'[d].shown[j] = IF j = k THEN S ELSE dialog[d].shown[j]
    BY <1>a, <2>3 DEF DialogShape, OneShape, DialogFields
  <2> QED
    BY <1>1, <2>3, <2>4, <2>5
<1>4. ASSUME NEW k \in Keys, NEW v, Edit(d, k, v)
      PROVE  StoreTyped'
  <2>1. /\ dialog' = [dialog EXCEPT ![d].shown[k] = {v}, ![d].touched = @ \cup {k}]
        /\ v \in SpecOf(k).valid /\ store' = store
    BY <1>4 DEF Edit
  <2>2. ValueTyped(k, v)
    <3>1. CASE k = "sel-keys"
      BY <2>1, <3>1, SpecOfApplied, SettingsAssumption DEF ValueTyped
    <3>2. CASE k = "cand-per-page"
      BY <2>1, <3>2, SpecOfApplied DEF ValueTyped
    <3> QED
      BY <3>1, <3>2 DEF ValueTyped
  <2>3. /\ \A e \in Dialogs \ {d} : dialog'[e] = dialog[e]
        /\ \A j \in Keys : dialog'[d].shown[j] = IF j = k THEN {v} ELSE dialog[d].shown[j]
    BY <1>a, <2>1 DEF DialogShape, OneShape, DialogFields
  <2>4. ASSUME NEW j \in Keys, NEW w \in dialog'[d].shown[j]
        PROVE  w \in dialog[d].shown[j] \/ ValueTyped(j, w)
    <3>1. CASE j = k
      BY <2>2, <2>3, <2>4, <3>1
    <3>2. CASE j # k
      BY <2>3, <2>4, <3>2
    <3> QED
      BY <3>1, <3>2
  <2> QED
    BY <1>1, <2>1, <2>3, <2>4
<1>5. CASE Show(d) \/ Ok(d) \/ Saved(d)
  <2>1. /\ store' = store
        /\ \A e \in Dialogs \ {d} : dialog'[e] = dialog[e]
        /\ dialog'[d].shown = dialog[d].shown
    BY <1>a, <1>5 DEF Show, Ok, Saved, DialogShape, OneShape, DialogFields
  <2> QED
    BY <1>1, <2>1
<1>6. CASE SaveProperty(d)
  <2>1. PICK i \in 1 .. Len(propSpecs) : i = dialog[d].at
    BY <1>a, <1>6, Rows DEF SaveProperty, OneShape
  <2>2. PICK k \in Keys : k = propSpecs[i].key
    BY <2>1, Rows
  <2>3. PICK v \in dialog[d].shown[k] : store' = [store EXCEPT ![k] = v]
    BY <1>6, <2>1, <2>2 DEF SaveProperty
  <2>4. ValueTyped(k, v)
    BY <2>3 DEF LabelsInv, StoreTyped, ValueTyped
  <2>5. \A e \in Dialogs : dialog'[e].shown = dialog[e].shown
    BY <1>a, <1>6 DEF SaveProperty, DialogShape, OneShape, DialogFields
  <2> QED
    BY <2>3, <2>4, <2>5, WriteTyped
<1> QED
  BY <1>2, <1>3, <1>4, <1>5, <1>6
     DEF DialogStep, Open, TypeText, Cancel, SaveRefused, RefusedWrite, SaveNothing, Gone

\* Every step of every process keeps the invariant.
LEMMA LabelsStepInv ==
    ASSUME LabelsInv, [SettingsNext]_settingsVars
    PROVE  LabelsInv'
<1>0. DialogInv'
  BY DialogStepInv DEF LabelsInv
<1>a. EngineTyped(engine) /\ TableFollows /\ StoreTyped
  BY DEF LabelsInv
<1>1. ASSUME engine' = engine, StoreTyped'
      PROVE  LabelsInv'
  BY <1>0, <1>1, <1>a DEF LabelsInv, TableFollows
<1>2. ASSUME EngineTyped(engine'), TableFollows', UNCHANGED <<store, dialog>>
      PROVE  LabelsInv'
  <2>1. StoreTyped'
    BY <1>2, <1>a DEF StoreTyped
  <2> QED
    BY <1>0, <1>2, <2>1 DEF LabelsInv, EngineTyped
<1>3. CASE EngineStep
  <2>1. UNCHANGED <<store, dialog>>
    BY <1>3 DEF EngineStep, UseAll, Use, UsedAll, NewLookupTable, UpdateLookupTable, Restart
  <2>2. CASE UseAll \/ UsedAll
    <3>1. /\ engine.phase \in {"idle", "using"}
          /\ \/ engine' = [engine EXCEPT !.phase = "using", !.at = 1]
             \/ engine' = [engine EXCEPT !.phase = "idle"]
      BY <2>2 DEF UseAll, UsedAll
    <3>2. /\ DOMAIN engine' = EngineFields /\ engine'.cache = engine.cache
          /\ engine'.table = engine.table /\ engine'.chewing = engine.chewing
          /\ engine'.phase \in {"using", "idle"} /\ engine'.at \in {1, engine.at}
      BY <1>a, <3>1 DEF EngineTyped, EngineFields
    <3>3. engine'.at \in Nat /\ engine'.at > 0
      BY <1>a, <3>2 DEF TableFollows
    <3> QED
      BY <1>2, <1>a, <2>1, <3>1, <3>2, <3>3 DEF EngineTyped, TableFollows, Follows
  <2>3. CASE Use
    <3>1. PICK i \in 1 .. Len(propSpecs) : i = engine.at /\ engine.phase \in {"new", "using"}
      BY <1>a, <2>3, Rows DEF Use, TableFollows
    <3>2. PICK k \in Keys : k = propSpecs[i].key /\ propSpecs[i] = SpecOf(k)
      BY <3>1, Rows
    <3> DEFINE a == Applied(Load(engine, k), SpecOf(k))
    <3>3. engine' = [a EXCEPT !.at = @ + 1]
      BY <2>3, <3>1, <3>2 DEF Use
    <3>4. /\ EngineTyped(a) /\ a.phase = engine.phase /\ a.at = i
          /\ (a.table = {}) <=> (engine.table = {})
          /\ engine.table # {} /\ Follows(engine) => Follows(a)
      BY <1>a, <3>1, UseFollows DEF StoreTyped
    <3> HIDE DEF a
    <3>5. /\ DOMAIN engine' = EngineFields /\ engine'.cache = a.cache
          /\ engine'.table = a.table /\ engine'.chewing = a.chewing
          /\ engine'.phase = engine.phase /\ engine'.at = i + 1
      BY <3>3, <3>4 DEF EngineTyped, EngineFields
    <3>6. i + 1 \in Nat /\ i + 1 > 0
      BY <3>1, Rows
    <3> QED
      BY <1>2, <1>a, <2>1, <3>4, <3>5, <3>6 DEF EngineTyped, TableFollows, Follows
  <2>4. ASSUME NEW e, EngineTyped(e), e.table # {}, e.phase = "idle",
               e.at = engine.at, engine' = Resized(e)
        PROVE  LabelsInv'
    <3>1. EngineTyped(engine') /\ TableFollows'
      BY <1>a, <2>4, ResizedFollows DEF TableFollows
    <3> QED
      BY <1>2, <2>1, <3>1
  <2>5. CASE NewLookupTable
    <3> DEFINE fresh == [pageSize |-> engine.cache["cand-per-page"], labels |-> <<>>]
               T == {fresh}
               e == [engine EXCEPT !.phase = "idle", !.table = T]
    <3>1. engine' = Resized(e)
      BY <2>5 DEF NewLookupTable
    <3>2. T # {} /\ \A t \in T : DOMAIN t = {"pageSize", "labels"} /\ t.labels \in Seq(STRING)
      BY EmptySeq
    <3> HIDE DEF T
    <3>3. EngineTyped(e) /\ e.table # {} /\ e.phase = "idle" /\ e.at = engine.at
      BY <1>a, <3>2 DEF EngineTyped, EngineFields
    <3> QED
      BY <2>4, <3>1, <3>3
  <2>6. CASE UpdateLookupTable
    BY <1>a, <2>4, <2>6 DEF UpdateLookupTable, TableFollows
  <2>7. CASE Restart
    BY <1>2, <2>1, <2>7, NewPreEditTyped DEF Restart, TableFollows, NewPreEdit
  <2> QED
    BY <1>3, <2>2, <2>3, <2>5, <2>6, <2>7 DEF EngineStep
<1>4. ASSUME NEW d \in Dialogs, DialogStep(d)
      PROVE  LabelsInv'
  <2>1. engine' = engine
    BY <1>4 DEF DialogStep, Open, AddProperty, Show, Edit, TypeText, Cancel, Ok,
           SaveProperty, SaveRefused, RefusedWrite, SaveNothing, Saved
  <2> QED
    BY <1>1, <1>4, <2>1, DialogTyped
<1>5. ASSUME NEW k \in Keys, NEW v \in Stored[k], OtherWrite(k, v)
      PROVE  LabelsInv'
  <2>1. ValueTyped(k, v)
    BY <1>5, SettingsAssumption DEF ValueTyped
  <2>2. StoreTyped'
    BY <1>5, <2>1, WriteTyped DEF OtherWrite
  <2> QED
    BY <1>1, <1>5, <2>2 DEF OtherWrite
<1>6. CASE \/ \E k \in Lockable : Administer(k)
           \/ UNCHANGED settingsVars
  <2>1. UNCHANGED <<store, engine, dialog>>
    BY <1>6 DEF Administer, settingsVars
  <2> QED
    BY <1>1, <1>a, <2>1 DEF StoreTyped
<1> QED
  BY <1>3, <1>4, <1>5, <1>6 DEF SettingsNext

-----------------------------------------------------------------------------
(* The theorem                                                             *)

\* Although use_all reads sel-keys and cand-per-page apart, in the middle of
\* other processes' writes, and although it first runs without a lookup table,
\* an engine between two readings gives libchewing the page size and the
\* selection keys that belong to the values it has read, and the choices of a
\* page are labelled with those keys, whatever labels an earlier list left.
THEOREM AlwaysContextFollowsCache == SettingsSpec => []ContextFollowsCache
<1>1. LabelsInv => ContextFollowsCache
  BY DEF LabelsInv, TableFollows, Follows, ContextFollowsCache
<1>2. LabelsInv /\ [SettingsNext]_settingsVars => LabelsInv'
  BY LabelsStepInv
<1> QED
  BY LabelsInitInv, <1>1, <1>2, PTL DEF SettingsSpec
=============================================================================
