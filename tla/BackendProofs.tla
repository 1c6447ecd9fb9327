--------------------------- MODULE BackendProofs ---------------------------
(***************************************************************************)
(* Each configuration service with its backend is a store of typed values, *)
(* for every set of keys and clients and every width of integers.          *)
(***************************************************************************)
EXTENDS Backend, SequenceTheorems, TLAPS

\* The values a context of key k may hold.
TypedFor(k) == {valueType[k]} \X Content(valueType[k])

\* A value of the service whose content fits its type.
WellFormed(c) ==
    \A t \in ReadTypes(c[1]) : c[2] \in Content(IF c[1] = "int" THEN "int" ELSE t)

CellOK(cell) == cell = {} \/ \E c : cell = {c} /\ WellFormed(c)

DatabaseOK ==
    /\ DOMAIN database = {RealKey(k) : k \in Keys}
    /\ database = [r \in DOMAIN database |-> database[r]]
    /\ \A k \in Keys : CellOK(database[RealKey(k)])

ContextOK ==
    /\ context \in [Clients -> [Keys -> UNION {TypedFor(k) : k \in Keys}]]
    /\ \A p \in Clients, k \in Keys : context[p][k] \in TypedFor(k)

IInv == service \in Services /\ DatabaseOK /\ ContextOK

-----------------------------------------------------------------------------
(* Conversions                                                             *)

LEMMA KnownTypes ==
    ASSUME NEW k \in Keys
    PROVE  valueType[k] \in {"boolean", "int", "uint", "string"}
BY BackendAssumption DEF Types

LEMMA HalfIsNat == HalfRange \in Nat
BY BackendAssumption

LEMMA DefaultTyped ==
    ASSUME NEW k \in Keys
    PROVE  Default(k) \in TypedFor(k)
<1>1. valueType[k] \in {"boolean", "int", "uint", "string"}
  BY KnownTypes
<1>2. defaultValue[k] \in Strings
  BY BackendAssumption
<1>3. valueType[k] \in {"int", "uint"} =>
          Parsed[defaultValue[k]] \in 0 .. HalfRange - 1
  BY BackendAssumption
<1> DEFINE x == CASE valueType[k] = "boolean" ->
                         defaultValue[k] \notin {"", "0", "F", "f", "FALSE", "false"}
                  [] valueType[k] \in {"int", "uint"} -> Parsed[defaultValue[k]]
                  [] valueType[k] = "string" -> defaultValue[k]
<1>4. Default(k) = <<valueType[k], x>>
  BY DEF Default, FromString
<1>5. CASE valueType[k] = "boolean"
  <2>1. x = (defaultValue[k] \notin {"", "0", "F", "f", "FALSE", "false"})
    BY <1>5
  <2> HIDE DEF x
  <2>2. x \in BOOLEAN
    BY <2>1
  <2>3. Content(valueType[k]) = BOOLEAN
    BY <1>5 DEF Content
  <2> QED
    BY <1>4, <2>2, <2>3 DEF TypedFor
<1>6. CASE valueType[k] # "boolean"
  <2>1. x = IF valueType[k] = "string" THEN defaultValue[k]
            ELSE Parsed[defaultValue[k]]
    BY <1>1, <1>6
  <2> HIDE DEF x
  <2>2. x \in Content(valueType[k])
    BY <1>1, <1>2, <1>3, <1>6, <2>1, HalfIsNat DEF Content
  <2> QED
    BY <1>4, <2>2 DEF TypedFor
<1> QED
  BY <1>5, <1>6

\* Writing and reading back gives the value itself.
LEMMA RoundTrip ==
    ASSUME NEW k \in Keys, NEW v \in TypedFor(k)
    PROVE  /\ FromService(ToService(v), valueType[k]) = {v}
           /\ WellFormed(ToService(v))
<1> DEFINE t == valueType[k]
<1>1. t \in {"boolean", "int", "uint", "string"}
  BY KnownTypes
<1>2. v = <<t, v[2]>> /\ v[1] = t /\ v[2] \in Content(t)
  BY DEF TypedFor
<1>3. CASE service # "gconf2"
  <2>1. ToService(v) = <<VariantType[t], v[2]>>
    BY <1>2, <1>3 DEF ToService
  <2>2. VariantType[t] # "int" /\ ReadTypes(VariantType[t]) = {t}
    BY <1>1 DEF VariantType, ReadTypes, Types
  <2> QED
    BY <1>2, <2>1, <2>2 DEF FromService, WellFormed
<1>4. CASE service = "gconf2" /\ t # "uint"
  <2>1. ToService(v) = <<ConfType[t], v[2]>>
    BY <1>2, <1>4 DEF ToService
  <2>2. t \in ReadTypes(ConfType[t])
    BY <1>1, <1>4 DEF ConfType, ReadTypes, Types
  <2>3. WellFormed(ToService(v))
    <3>1. CASE t = "int"
      <4>1. ConfType[t] = "int"
        BY <3>1 DEF ConfType, Types
      <4>2. QED
        BY <1>2, <2>1, <3>1, <4>1 DEF WellFormed
    <3>2. CASE t # "int"
      <4>1. ConfType[t] # "int" /\ ReadTypes(ConfType[t]) = {t}
        BY <1>1, <1>4, <3>2 DEF ConfType, ReadTypes, Types
      <4>2. QED
        BY <1>2, <2>1, <4>1 DEF WellFormed
    <3>3. QED
      BY <3>1, <3>2
  <2> QED
    BY <1>2, <1>4, <2>1, <2>2, <2>3 DEF FromService
<1>5. CASE service = "gconf2" /\ t = "uint"
  <2>1. ToService(v) = <<"int", AsInt(v[2])>>
    BY <1>2, <1>5 DEF ToService, ConfType, Types
  <2>2. v[2] \in 0 .. 2 * HalfRange - 1
    BY <1>2, <1>5 DEF Content
  <2>3. AsInt(v[2]) \in -HalfRange .. HalfRange - 1 /\ AsUint(AsInt(v[2])) = v[2]
    BY <2>2, HalfIsNat DEF AsInt, AsUint
  <2>4. "uint" \in ReadTypes("int")
    BY DEF ReadTypes
  <2>5. WellFormed(ToService(v))
    BY <2>1, <2>3 DEF WellFormed, Content
  <2> QED
    BY <1>2, <1>5, <2>1, <2>3, <2>4, <2>5 DEF FromService
<1> QED
  BY <1>3, <1>4, <1>5

\* What is read is of the type asked for.
LEMMA ReadTyped ==
    ASSUME NEW k \in Keys, NEW c, WellFormed(c)
    PROVE  \/ FromService(c, valueType[k]) = {}
           \/ \E v \in TypedFor(k) : FromService(c, valueType[k]) = {v}
<1> DEFINE t == valueType[k]
           x == IF c[1] = "int" /\ t = "uint" THEN AsUint(c[2]) ELSE c[2]
<1>1. SUFFICES ASSUME t \in ReadTypes(c[1]) PROVE x \in Content(t)
  BY DEF FromService, TypedFor
<1>2. t \in {"boolean", "int", "uint", "string"}
  BY KnownTypes
<1>3. c[2] \in Content(IF c[1] = "int" THEN "int" ELSE t)
  BY <1>1 DEF WellFormed
<1>4. CASE c[1] # "int"
  BY <1>3, <1>4
<1>5. CASE c[1] = "int"
  <2>1. t \in {"int", "uint"}
    BY <1>1, <1>5 DEF ReadTypes
  <2>2. c[2] \in -HalfRange .. HalfRange - 1
    BY <1>3, <1>5 DEF Content
  <2> QED
    BY <1>5, <2>1, <2>2, HalfIsNat DEF Content, AsUint
<1> QED
  BY <1>4, <1>5

\* The default of a schema is well-formed, and read as that of a new context.
LEMMA SchemaAgrees ==
    ASSUME NEW k \in Keys, NEW c \in SchemaDefault(k)
    PROVE  /\ SchemaDefault(k) = {c}
           /\ WellFormed(c)
           /\ FromService(c, valueType[k]) \subseteq {Default(k)}
<1> DEFINE t == valueType[k]
           s == defaultValue[k]
<1>1. t \in {"boolean", "int", "uint", "string"}
  BY KnownTypes
<1>2. /\ t = "boolean" => s \in {"0", "1"}
      /\ t \in {"int", "uint"} => Parsed[s] \in 0 .. HalfRange - 1
      /\ s \in Strings
  BY BackendAssumption
<1>3. Default(k) = <<t, Written(k)>>
  BY <1>1, <1>2 DEF Default, FromString, Written
<1>4. Written(k) \in Content(t)
  BY <1>3, DefaultTyped DEF TypedFor
<1>5. CASE service = "gsettings"
  <2>1. c = <<VariantType[t], Written(k)>> /\ SchemaDefault(k) = {c}
    BY <1>5 DEF SchemaDefault
  <2>2. VariantType[t] # "int" /\ ReadTypes(VariantType[t]) = {t}
    BY <1>1 DEF VariantType, ReadTypes, Types
  <2> QED
    BY <1>3, <1>4, <2>1, <2>2 DEF FromService, WellFormed
<1>6. CASE service # "gsettings"
  <2>1. c = <<ConfType[t], Written(k)>> /\ SchemaDefault(k) = {c}
    BY <1>6 DEF SchemaDefault
  <2>2. t = "uint" => Written(k) \in 0 .. HalfRange - 1
    BY <1>2 DEF Written
  <2>3. t = "uint" => Written(k) \in Content("int") /\ AsUint(Written(k)) = Written(k)
    BY <2>2, HalfIsNat DEF Content, AsUint
  <2>4. WellFormed(c)
    BY <1>1, <1>4, <2>1, <2>3 DEF WellFormed, ConfType, ReadTypes, Types
  <2>5. FromService(c, t) \subseteq {Default(k)}
    BY <1>1, <1>3, <2>1, <2>3 DEF FromService
  <2> QED
    BY <2>1, <2>4, <2>5
<1> QED
  BY <1>5, <1>6

-----------------------------------------------------------------------------
(* Names                                                                   *)

LEMMA ShortSequences ==
    ASSUME NEW S, NEW a \in S, NEW b \in S
    PROVE  <<>> \in Seq(S) /\ <<a>> \in Seq(S) /\ <<a, b>> \in Seq(S)
OBVIOUS

\* Two keys never share a place in the service.
LEMMA KeysApart ==
    ASSUME NEW k \in Keys, NEW l \in Keys, RealKey(k) = RealKey(l)
    PROVE  k = l
<1> DEFINE S == STRING \cup {"/"}
           root == IF service = "gconf2" /\ basePath = <<>> THEN <<"/">> ELSE basePath
           Front(j) == IF service = "gsettings" THEN <<>> ELSE root \o Section(j)
<1>1. ASSUME NEW j \in Keys
      PROVE  Front(j) \in Seq(S) /\ RealKey(j) = Front(j) \o <<j>> /\ j \in S
  <2>1. j \in S /\ subSection[j] \in S /\ basePath \in Seq(S)
    <3>1. basePath \in Seq(S)
      BY BackendAssumption, SeqMonotonic
    <3> QED
      BY <3>1, BackendAssumption
  <2>2. Section(j) \in Seq(S)
    <3>1. <<subSection[j], "/">> \in Seq(S) /\ <<>> \in Seq(S)
      BY <2>1, ShortSequences
    <3>2. Section(j) = <<subSection[j], "/">> \/ Section(j) = <<>>
      BY DEF Section
    <3> QED
      BY <3>1, <3>2
  <2>3. root \in Seq(S)
    <3>1. <<"/">> \in Seq(S)
      BY ShortSequences
    <3>2. root = <<"/">> \/ root = basePath
      OBVIOUS
    <3> HIDE DEF root
    <3> QED
      BY <2>1, <3>1, <3>2
  <2>4. root \o Section(j) \in Seq(S)
    BY <2>2, <2>3, ConcatProperties
  <2>5. Front(j) \in Seq(S)
    <3>1. <<>> \in Seq(S)
      BY ShortSequences
    <3>2. Front(j) = <<>> \/ Front(j) = root \o Section(j)
      OBVIOUS
    <3> HIDE DEF Front
    <3> QED
      BY <2>4, <3>1, <3>2
  <2>6. CASE service = "gsettings"
    <3>1. RealKey(j) = <<j>> /\ Front(j) = <<>>
      BY <2>6 DEF RealKey
    <3>2. <<>> \o <<j>> = <<j>>
      BY <2>1, ConcatEmptySeq
    <3> QED
      BY <2>1, <2>5, <3>1, <3>2
  <2>7. CASE service # "gsettings"
    <3>1. Front(j) = root \o Section(j)
      BY <2>7
    <3>2. RealKey(j) = root \o Section(j) \o <<j>>
      BY <2>7 DEF RealKey
    <3> QED
      BY <2>1, <2>5, <3>1, <3>2
  <2> QED
    BY <2>6, <2>7
<1> HIDE DEF Front
<1>2. Append(Front(k), k) = Front(k) \o <<k>> /\ Append(Front(l), l) = Front(l) \o <<l>>
  BY <1>1, AppendIsConcat
<1> QED
  BY <1>1, <1>2, AppendInjective

-----------------------------------------------------------------------------
(* The inductive invariant                                                 *)

\* A key is read as a value of its type, or not at all.
LEMMA ReadableTyped ==
    ASSUME IInv, NEW k \in Keys
    PROVE  Readable(k) = {} \/ \E v \in TypedFor(k) : Readable(k) = {v}
<1>1. Lookup(k) = {} \/ \E c : Lookup(k) = {c} /\ WellFormed(c)
  <2>1. CASE database[RealKey(k)] = {}
    <3>1. Lookup(k) = SchemaDefault(k)
      BY <2>1 DEF Lookup
    <3>2. CASE SchemaDefault(k) = {}
      BY <3>1, <3>2
    <3>3. CASE SchemaDefault(k) # {}
      <4>1. PICK c : c \in SchemaDefault(k)
        BY <3>3
      <4> QED
        BY <3>1, <4>1, SchemaAgrees
    <3> QED
      BY <3>2, <3>3
  <2>2. CASE database[RealKey(k)] # {}
    BY <2>2 DEF Lookup, IInv, DatabaseOK, CellOK
  <2> QED
    BY <2>1, <2>2
<1>2. CASE Lookup(k) = {}
  <2>1. Readable(k) = {}
    BY <1>2 DEF Readable
  <2> QED
    BY <2>1
<1>3. ASSUME NEW c, Lookup(k) = {c}, WellFormed(c)
      PROVE  Readable(k) = {} \/ \E v \in TypedFor(k) : Readable(k) = {v}
  <2>1. Readable(k) = FromService(c, valueType[k])
    BY <1>3 DEF Readable
  <2> QED
    BY <1>3, <2>1, ReadTyped
<1> QED
  BY <1>1, <1>2, <1>3

LEMMA NewContextTyped ==
    /\ NewContext \in [Keys -> UNION {TypedFor(k) : k \in Keys}]
    /\ \A k \in Keys : NewContext[k] = Default(k) /\ NewContext[k] \in TypedFor(k)
<1>1. \A k \in Keys : Default(k) \in TypedFor(k)
  BY DefaultTyped
<1>2. \A k \in Keys : TypedFor(k) \subseteq UNION {TypedFor(l) : l \in Keys}
  OBVIOUS
<1> HIDE DEF TypedFor
<1> QED
  BY <1>1, <1>2 DEF NewContext

\* A value of the right type may go into a context.
LEMMA ContextKept ==
    ASSUME ContextOK, NEW p \in Clients, NEW k \in Keys, NEW v \in TypedFor(k),
           context' = [context EXCEPT ![p][k] = v]
    PROVE  ContextOK'
<1>1. TypedFor(k) \subseteq UNION {TypedFor(l) : l \in Keys}
  OBVIOUS
<1>2. TypedFor(k)' = TypedFor(k) /\ (\A l \in Keys : TypedFor(l)' = TypedFor(l))
  BY DEF TypedFor, Content
<1> HIDE DEF TypedFor
<1>3. context' \in [Clients -> [Keys -> UNION {TypedFor(l) : l \in Keys}]]
  BY <1>1 DEF ContextOK
<1>4. \A q \in Clients, l \in Keys : context'[q][l] \in TypedFor(l)
  BY DEF ContextOK
<1> QED
  BY <1>2, <1>3, <1>4 DEF ContextOK

LEMMA DeathKeeps ==
    ASSUME ContextOK, NEW p \in Clients, context' = [context EXCEPT ![p] = NewContext]
    PROVE  ContextOK'
<1>1. context' \in [Clients -> [Keys -> UNION {TypedFor(l) : l \in Keys}]]
  BY NewContextTyped DEF ContextOK
<1>2. \A q \in Clients, l \in Keys : context'[q][l] \in TypedFor(l)
  BY NewContextTyped DEF ContextOK
<1> QED
  BY <1>1, <1>2 DEF ContextOK

\* A cell may be given another good content.
LEMMA DatabaseKept ==
    ASSUME DatabaseOK, service' = service, NEW k \in Keys, NEW cell, CellOK(cell),
           database' = [database EXCEPT ![RealKey(k)] = cell]
    PROVE  DatabaseOK'
<1>1. \A l \in Keys : RealKey(l)' = RealKey(l)
  BY DEF RealKey, Section
<1>2. DOMAIN database' = DOMAIN database
  BY DEF DatabaseOK
<1>3. \A l \in Keys : RealKey(l) \in DOMAIN database
  BY DEF DatabaseOK
<1>4. \A l \in Keys : CellOK(database'[RealKey(l)])
  BY <1>3, KeysApart DEF DatabaseOK
<1> QED
  BY <1>1, <1>2, <1>4 DEF DatabaseOK

LEMMA WrittenCell ==
    ASSUME NEW k \in Keys, NEW v \in TypedFor(k)
    PROVE  CellOK({ToService(v)})
BY RoundTrip DEF CellOK

LEMMA ForeignCell ==
    ASSUME service \in Services, NEW c \in Foreign[service]
    PROVE  CellOK({c}) /\ WellFormed(c)
BY BackendAssumption DEF CellOK, WellFormed

LEMMA AssignedTyped ==
    ASSUME NEW k \in Keys, NEW v \in Assigned[k]
    PROVE  v \in TypedFor(k)
BY BackendAssumption DEF TypedFor

LEMMA IInvInit == BackendInit => IInv
<1> SUFFICES ASSUME BackendInit PROVE IInv
  OBVIOUS
<1>1. service \in Services
  BY DEF BackendInit
<1>2. DatabaseOK
  BY DEF BackendInit, DatabaseOK, CellOK
<1>3. ContextOK
  BY NewContextTyped DEF BackendInit, ContextOK
<1> QED
  BY <1>1, <1>2, <1>3 DEF IInv

LEMMA IInvStep == IInv /\ [BackendNext]_backendVars => IInv'
<1> SUFFICES ASSUME IInv, [BackendNext]_backendVars PROVE IInv'
  OBVIOUS
<1> USE DEF IInv
<1>1. ASSUME UNCHANGED <<service, database>>
      PROVE  service' \in Services /\ DatabaseOK'
  BY <1>1 DEF DatabaseOK, RealKey, Section
<1>2. ASSUME NEW p \in Clients, Died(p)
      PROVE  IInv'
  BY <1>1, <1>2, DeathKeeps DEF Died
<1>3. ASSUME NEW p \in Clients, NEW k \in Keys, ReadValue(p, k)
      PROVE  IInv'
  <2>1. PICK v \in Readable(k) : context' = [context EXCEPT ![p][k] = v]
    BY <1>3 DEF ReadValue
  <2>2. v \in TypedFor(k)
    BY <2>1, ReadableTyped
  <2> QED
    BY <1>1, <1>3, <2>1, <2>2, ContextKept DEF ReadValue
<1>4. ASSUME UNCHANGED backendVars
      PROVE  IInv'
  BY <1>1, <1>4 DEF backendVars, ContextOK, TypedFor, Content
<1>5. ASSUME NEW p \in Clients, NEW k \in Keys, NEW v \in Assigned[k],
             WriteValue(p, k, v)
      PROVE  IInv'
  BY <1>5, AssignedTyped, WrittenCell, ContextKept, DatabaseKept DEF WriteValue
<1>6. ASSUME NEW p \in Clients, NEW k \in Keys, NEW v \in Assigned[k],
             WriteRefused(p, k, v)
      PROVE  IInv'
  <2>1. CASE Died(p)
    BY <1>2, <2>1
  <2>2. CASE /\ context' = [context EXCEPT ![p][k] = v]
             /\ UNCHANGED <<service, database>>
    BY <1>1, <2>2, AssignedTyped, ContextKept
  <2> QED
    BY <1>6, <2>1, <2>2 DEF WriteRefused
<1>7. ASSUME NEW k \in Keys, NEW cell, CellOK(cell),
             database' = [database EXCEPT ![RealKey(k)] = cell],
             UNCHANGED <<service, context>>
      PROVE  IInv'
  BY <1>7, DatabaseKept DEF ContextOK, TypedFor, Content
<1>8. ASSUME NEW k \in Keys, NEW c \in Foreign[service], OtherWrite(k, c)
      PROVE  IInv'
  BY <1>7, <1>8, ForeignCell DEF OtherWrite
<1>9. ASSUME NEW k \in Keys, OtherReset(k)
      PROVE  IInv'
  BY <1>7, <1>9 DEF OtherReset, CellOK
<1> QED
  BY <1>2, <1>3, <1>4, <1>5, <1>6, <1>8, <1>9 DEF BackendNext, ReadNothing, ReadFatal

LEMMA IInvAlways == BackendSpec => []IInv
BY IInvInit, IInvStep, PTL DEF BackendSpec

\* However other tools and other types fill the service, every context holds a
\* value of its own type.
THEOREM ContextsAlwaysTyped == BackendSpec => []ContextsTyped
<1>1. IInv => ContextsTyped
  BY DEF IInv, ContextOK, ContextsTyped, TypedFor
<1> QED
  BY <1>1, IInvAlways, PTL

\* A key nobody has set is read as the value a new context has.
THEOREM UnsetAlwaysMeansDefault == BackendSpec => []UnsetMeansDefault
<1>1. UnsetMeansDefault
  <2> SUFFICES ASSUME NEW k \in Keys, database[RealKey(k)] = {}
               PROVE  Readable(k) \subseteq {Default(k)}
    BY DEF UnsetMeansDefault
  <2>1. Lookup(k) = SchemaDefault(k)
    BY DEF Lookup
  <2> QED
    BY <2>1, SchemaAgrees DEF Readable
<1> QED
  BY <1>1, PTL

-----------------------------------------------------------------------------
(* The refinement                                                          *)

\* What the readers of key k find depends on nothing else.
LEMMA ReadableSame ==
    ASSUME service' = service, NEW k \in Keys,
           database'[RealKey(k)] = database[RealKey(k)]
    PROVE  Readable(k)' = Readable(k)
BY DEF Readable, Lookup, SchemaDefault, RealKey, SchemaKey, Section, FromService,
       Written, ReadTypes, AsUint

\* After a change of its place in the service, key k alone is read anew.
LEMMA ReadableChanged ==
    ASSUME IInv, service' = service, NEW k \in Keys, NEW cell, CellOK(cell),
           database' = [database EXCEPT ![RealKey(k)] = cell]
    PROVE  /\ \A l \in Keys \ {k} : Readable(l)' = Readable(l)
           /\ cell # {} => Readable(k)' = UNION {FromService(c, valueType[k]) : c \in cell}
           /\ Readable(k)' \in Store!Cell(k)
<1>1. RealKey(k) \in DOMAIN database /\ RealKey(k)' = RealKey(k)
  BY DEF IInv, DatabaseOK, RealKey, Section
<1>2. ASSUME NEW l \in Keys \ {k}
      PROVE  Readable(l)' = Readable(l)
  BY <1>2, KeysApart, ReadableSame DEF IInv, DatabaseOK
<1>3. Lookup(k)' = IF cell = {} THEN SchemaDefault(k) ELSE cell
  <2>1. database'[RealKey(k)] = cell
    BY <1>1
  <2>2. SchemaDefault(k)' = SchemaDefault(k)
    BY DEF SchemaDefault, RealKey, SchemaKey, Section, Written
  <2> QED
    BY <1>1, <2>1, <2>2 DEF Lookup
<1>4. Readable(k)' = UNION {FromService(c, valueType[k]) : c \in Lookup(k)'}
  BY DEF Readable, FromService, ReadTypes, AsUint
<1>5. Lookup(k)' = {} \/ \E c : Lookup(k)' = {c} /\ WellFormed(c)
  BY <1>3, SchemaAgrees DEF CellOK
<1>6. Readable(k)' = {} \/ \E v \in TypedFor(k) : Readable(k)' = {v}
  <2>1. CASE Lookup(k)' = {}
    BY <1>4, <2>1
  <2>2. ASSUME NEW c, Lookup(k)' = {c}, WellFormed(c)
        PROVE  Readable(k)' = FromService(c, valueType[k])
    BY <1>4, <2>2
  <2> QED
    BY <1>5, <2>1, <2>2, ReadTyped
<1> QED
  BY <1>2, <1>3, <1>4, <1>6 DEF Store!Cell, TypedFor

LEMMA StoreInit == BackendInit => Store!TypedStoreInit
<1> SUFFICES ASSUME BackendInit PROVE Store!TypedStoreInit
  OBVIOUS
<1>1. \A k \in Keys : Readable(k) \in Store!Cell(k)
  BY IInvInit, ReadableTyped DEF Store!Cell, TypedFor
<1> QED
  BY <1>1 DEF Store!TypedStoreInit, BackendInit

\* Every step of a backend is a step of the store, or none.
LEMMA StoreStep == IInv /\ [BackendNext]_backendVars => [Store!TypedStoreNext]_Store!storeVars
<1> SUFFICES ASSUME IInv, [BackendNext]_backendVars
             PROVE  [Store!TypedStoreNext]_Store!storeVars
  OBVIOUS
<1> DEFINE stored == [k \in Keys |-> Readable(k)]
<1>1. ASSUME UNCHANGED <<service, database>>
      PROVE  UNCHANGED stored
  BY <1>1, ReadableSame
<1>2. ASSUME NEW p \in Clients, Died(p)
      PROVE  Store!Start(p)
  BY <1>1, <1>2 DEF Died, Store!Start
<1>3. ASSUME NEW p \in Clients, NEW k \in Keys, ReadValue(p, k)
      PROVE  Store!Read(p, k)
  BY <1>1, <1>3 DEF ReadValue, Store!Read
<1>4. ASSUME UNCHANGED backendVars
      PROVE  UNCHANGED Store!storeVars
  BY <1>1, <1>4 DEF backendVars, Store!storeVars
<1>5. ASSUME NEW k \in Keys, NEW cell, CellOK(cell), service' = service,
             database' = [database EXCEPT ![RealKey(k)] = cell]
      PROVE  /\ stored' = [stored EXCEPT ![k] = Readable(k)']
             /\ Readable(k)' \in Store!Cell(k)
             /\ cell # {} => Readable(k)' = UNION {FromService(c, valueType[k]) : c \in cell}
  BY <1>5, ReadableChanged
<1>6. ASSUME NEW p \in Clients, NEW k \in Keys, NEW v \in Assigned[k],
             WriteValue(p, k, v)
      PROVE  Store!Write(p, k)
  <2>1. v \in TypedFor(k)
    BY AssignedTyped
  <2>2. FromService(ToService(v), valueType[k]) = {v} /\ CellOK({ToService(v)})
    BY <2>1, RoundTrip, WrittenCell
  <2>3. stored' = [stored EXCEPT ![k] = {v}]
    <3> DEFINE cell == {ToService(v)}
    <3>1. CellOK(cell) /\ service' = service /\ database' = [database EXCEPT ![RealKey(k)] = cell]
      BY <1>6, <2>2 DEF WriteValue
    <3>2. cell # {} /\ UNION {FromService(c, valueType[k]) : c \in cell} = {v}
      BY <2>2
    <3> HIDE DEF cell, stored
    <3> QED
      BY <1>5, <3>1, <3>2
  <2> QED
    BY <1>6, <2>1, <2>3 DEF WriteValue, Store!Write, TypedFor
<1>7. ASSUME NEW p \in Clients, NEW k \in Keys, NEW v \in Assigned[k],
             WriteRefused(p, k, v)
      PROVE  Store!Refused(p, k) \/ Store!Start(p)
  <2>1. CASE Died(p)
    BY <1>2, <2>1
  <2>2. CASE /\ context' = [context EXCEPT ![p][k] = v]
             /\ UNCHANGED <<service, database>>
    BY <1>1, <2>2, AssignedTyped DEF Store!Refused, TypedFor
  <2> QED
    BY <1>7, <2>1, <2>2 DEF WriteRefused
<1>8. ASSUME NEW k \in Keys, NEW cell, CellOK(cell),
             database' = [database EXCEPT ![RealKey(k)] = cell],
             UNCHANGED <<service, context>>
      PROVE  Store!Outside(k)
  BY <1>5, <1>8 DEF Store!Outside
<1>9. ASSUME NEW k \in Keys, NEW c \in Foreign[service], OtherWrite(k, c)
      PROVE  Store!Outside(k)
  BY <1>8, <1>9, ForeignCell DEF OtherWrite, IInv
<1>10. ASSUME NEW k \in Keys, OtherReset(k)
       PROVE  Store!Outside(k)
  BY <1>8, <1>10 DEF OtherReset, CellOK
<1>11. CASE \E p \in Clients, k \in Keys :
               \/ ReadValue(p, k) \/ ReadNothing(p, k) \/ ReadFatal(p, k)
               \/ \E v \in Assigned[k] : WriteValue(p, k, v) \/ WriteRefused(p, k, v)
  BY <1>2, <1>3, <1>4, <1>6, <1>7, <1>11
     DEF ReadNothing, ReadFatal, Store!TypedStoreNext
<1>12. CASE \E k \in Keys : (\E c \in Foreign[service] : OtherWrite(k, c)) \/ OtherReset(k)
  BY <1>9, <1>10, <1>12 DEF Store!TypedStoreNext
<1> QED
  BY <1>4, <1>11, <1>12 DEF BackendNext

\* GSettings, GConf2 and IBusConfig, each with its backend, promise property
\* contexts the same: one typed value per key, shared by all.
THEOREM BackendImplementsTypedStore == BackendSpec => StoresTypedValues
BY StoreInit, StoreStep, IInvAlways, PTL
   DEF BackendSpec, StoresTypedValues, Store!TypedStoreSpec
=============================================================================
