------------------------------ MODULE Backend ------------------------------
(***************************************************************************)
(* MkdgBackend: one configuration service behind a read and a write        *)
(* function.  GSettings knows the type and the default of every key,       *)
(* GConf2 the type of every value it holds, IBusConfig neither; each names *)
(* keys in its own way.  Every client (an engine, a setup dialog) has a    *)
(* PropertyContext for each key.                                           *)
(*                                                                         *)
(* A GValue is a pair of its GType and its content; a value in the service *)
(* a pair of its GVariant type or GConf type and its content.  A path is   *)
(* the sequence of its names and slashes.  Integers have 2 * HalfRange     *)
(* values.                                                                 *)
(***************************************************************************)
EXTENDS Integers, Sequences

CONSTANTS
    Services,       \* the services a program may be built for
    Clients, Keys,
    valueType,      \* of the row of propSpecs, like the next two
    subSection,
    defaultValue,
    Strings,        \* the strings under study
    Parsed,         \* Parsed[s]: the number g_ascii_strtoll reads from string s
    basePath,       \* of the backend
    schemasHome,    \* the path GConf schemas are written for
    Assigned,       \* Assigned[k]: the values clients write to key k
    Foreign,        \* Foreign[s]: the values other tools store in service s
    HalfRange       \* 2^31

Types == {"boolean", "int", "uint", "string"}

Content(t) ==
    CASE t = "boolean" -> BOOLEAN
      [] t = "int" -> -HalfRange .. HalfRange - 1
      [] t = "uint" -> 0 .. 2 * HalfRange - 1
      [] t = "string" -> Strings

\* The types of GValue a value of the service can be put into: "n" and "q" are
\* 16 bits wide, a GConf integer has no sign, and doubles are for nobody.
ReadTypes(c) ==
    CASE c \in {"b", "bool"} -> {"boolean"}
      [] c \in {"n", "i"} -> {"int"}
      [] c \in {"q", "u"} -> {"uint"}
      [] c = "int" -> {"int", "uint"}
      [] c \in {"s", "string"} -> {"string"}
      [] OTHER -> {}

ASSUME BackendAssumption ==
    /\ Services \subseteq {"gsettings", "gconf2", "ibus-config"}
    /\ Keys \subseteq STRING
    /\ valueType \in [Keys -> Types]
    /\ subSection \in [Keys -> STRING]
    /\ defaultValue \in [Keys -> Strings]
    /\ basePath \in Seq(STRING)
    /\ HalfRange \in Nat
    /\ \A k \in Keys :
          /\ valueType[k] \in {"int", "uint"} =>
                Parsed[defaultValue[k]] \in 0 .. HalfRange - 1
          /\ valueType[k] = "boolean" => defaultValue[k] \in {"0", "1"}
          /\ Assigned[k] \subseteq {valueType[k]} \X Content(valueType[k])
    /\ \A s \in Services : \A c \in Foreign[s] : \A t \in ReadTypes(c[1]) :
          c[2] \in Content(IF c[1] = "int" THEN "int" ELSE t)

VARIABLES
    service,        \* the service chosen when the programs were built
    database,       \* database[r]: the value of real key r, or {}
    context         \* context[p][k]: the value of a PropertyContext

backendVars == <<service, database, context>>

-----------------------------------------------------------------------------
(* Names                                                                   *)

Section(k) == IF subSection[k] = "" THEN <<>> ELSE <<subSection[k], "/">>

\* to_real_key, to_real_section: one after the other, nothing in between.
\* A GSettings object has its own path and takes the key alone.
RealKey(k) ==
    CASE service = "gsettings" -> <<k>>
      [] service = "gconf2" ->
            (IF basePath = <<>> THEN <<"/">> ELSE basePath) \o Section(k) \o <<k>>
      [] OTHER -> basePath \o Section(k) \o <<k>>

\* The key a GConf schema is written for.
SchemaKey(k) == schemasHome \o <<"/">> \o Section(k) \o <<k>>

-----------------------------------------------------------------------------
(* Conversions                                                             *)

VariantType ==
    [t \in Types |-> CASE t = "boolean" -> "b" [] t = "int" -> "i"
                       [] t = "uint" -> "u" [] t = "string" -> "s"]

ConfType ==
    [t \in Types |-> CASE t = "boolean" -> "bool" [] t = "int" -> "int"
                       [] t = "uint" -> "int" [] t = "string" -> "string"]

AsInt(n)  == IF n >= HalfRange THEN n - 2 * HalfRange ELSE n
AsUint(n) == IF n < 0 THEN n + 2 * HalfRange ELSE n

\* Mutated: all integers are signed.
ToService_signed(v) ==
    <<IF service = "gconf2" THEN ConfType[v[1]]
      ELSE IF v[1] = "uint" THEN "i" ELSE VariantType[v[1]], v[2]>>

\* mkdg_g_value_to_g_variant, gconf_value_new_g_value
ToService(v) ==
    IF service # "gconf2" THEN <<VariantType[v[1]], v[2]>>
    ELSE <<ConfType[v[1]], IF v[1] = "uint" THEN AsInt(v[2]) ELSE v[2]>>

\* Mutated: an integer of either kind is taken as it is.
FromService_signless(c, t) ==
    IF t \in ReadTypes(c[1]) \/ (t = "uint" /\ c[1] = "i") THEN {<<t, c[2]>>} ELSE {}

\* mkdg_g_variant_to_g_value, gconf_value_to_g_value: what a GValue of type t
\* takes of a value of the service.
FromService(c, t) ==
    IF t \notin ReadTypes(c[1]) THEN {}
    ELSE {<<t, IF c[1] = "int" /\ t = "uint" THEN AsUint(c[2]) ELSE c[2]>>}

\* mkdg_g_value_from_string
FromString(t, s) ==
    <<t, CASE t = "boolean" -> s \notin {"", "0", "F", "f", "FALSE", "false"}
           [] t \in {"int", "uint"} -> Parsed[s]
           [] t = "string" -> s>>

Default(k) == FromString(valueType[k], defaultValue[k])

\* Mutated: "0" is not recognised.
Written_word(k) ==
    LET s == defaultValue[k]
    IN  CASE valueType[k] = "boolean" -> s # "false"
          [] valueType[k] \in {"int", "uint"} -> Parsed[s]
          [] valueType[k] = "string" -> s

\* The default in the schema of key k, as the schema's compiler reads it.
Written(k) ==
    LET s == defaultValue[k]
    IN  CASE valueType[k] = "boolean" -> s # "0"
          [] valueType[k] \in {"int", "uint"} -> Parsed[s]
          [] valueType[k] = "string" -> s

\* Only schemas know defaults, and a GConf schema only that of the very key it
\* was written for.
SchemaDefault(k) ==
    CASE service = "gsettings" -> {<<VariantType[valueType[k]], Written(k)>>}
      [] service = "gconf2" /\ SchemaKey(k) = RealKey(k) ->
            {<<ConfType[valueType[k]], Written(k)>>}
      [] OTHER -> {}

-----------------------------------------------------------------------------
(* Reading and writing                                                     *)

\* The value the service has of key k, if any.
Lookup(k) ==
    IF database[RealKey(k)] = {} THEN SchemaDefault(k) ELSE database[RealKey(k)]

\* What of it can be read into the context of key k.
Readable(k) == UNION {FromService(c, valueType[k]) : c \in Lookup(k)}

NewContext == [k \in Keys |-> Default(k)]

\* The process is gone; its successor has new contexts.
Died(p) ==
    /\ context' = [context EXCEPT ![p] = NewContext]
    /\ UNCHANGED <<service, database>>

\* property_context_read of a value of the right type.
ReadValue(p, k) ==
    /\ \E v \in Readable(k) : context' = [context EXCEPT ![p][k] = v]
    /\ UNCHANGED <<service, database>>

\* A value of another type, or none, or an IBusConfig out of reach: the context
\* keeps what it held.
ReadNothing(p, k) ==
    /\ \/ Lookup(k) # {} /\ Readable(k) = {}
       \/ service = "ibus-config"
    /\ UNCHANGED backendVars

\* The GConf2 backend asks for the type of a value that is not there, and logs
\* an error of the service as fatal.
ReadFatal(p, k) ==
    /\ service = "gconf2"
    /\ Died(p)

\* property_context_save: set, then write.
WriteValue(p, k, v) ==
    /\ context' = [context EXCEPT ![p][k] = v]
    /\ database' = [database EXCEPT ![RealKey(k)] = {ToService(v)}]
    /\ UNCHANGED service

\* The service refuses: a warning of the IBusConfig backend, a fatal error of
\* the others.
WriteRefused(p, k, v) ==
    \/ /\ service = "ibus-config"
       /\ context' = [context EXCEPT ![p][k] = v]
       /\ UNCHANGED <<service, database>>
    \/ /\ service # "ibus-config"
       /\ Died(p)

\* Other tools.  GSettings holds them to the type of the key.
OtherWrite(k, c) ==
    /\ service = "gsettings" => c[1] = VariantType[valueType[k]]
    /\ database' = [database EXCEPT ![RealKey(k)] = {c}]
    /\ UNCHANGED <<service, context>>

OtherReset(k) ==
    /\ database' = [database EXCEPT ![RealKey(k)] = {}]
    /\ UNCHANGED <<service, context>>

-----------------------------------------------------------------------------
BackendInit ==
    /\ service \in Services
    /\ database = [r \in {RealKey(k) : k \in Keys} |-> {}]
    /\ context = [p \in Clients |-> NewContext]

BackendNext ==
    \/ \E p \in Clients, k \in Keys :
          \/ ReadValue(p, k) \/ ReadNothing(p, k) \/ ReadFatal(p, k)
          \/ \E v \in Assigned[k] : WriteValue(p, k, v) \/ WriteRefused(p, k, v)
    \/ \E k \in Keys :
          \/ \E c \in Foreign[service] : OtherWrite(k, c)
          \/ OtherReset(k)

BackendSpec == BackendInit /\ [][BackendNext]_backendVars

-----------------------------------------------------------------------------
(* Properties                                                              *)

\* Whatever other tools store, a context holds a value of its own type: the
\* apply callbacks take it out without asking.
ContextsTyped ==
    \A p \in Clients, k \in Keys :
        context[p][k] \in {valueType[k]} \X Content(valueType[k])

\* The two ways to a default agree: a key that was never set, or was reset, is
\* read as the value a new context has, if the service knows its default.
UnsetMeansDefault ==
    \A k \in Keys :
        database[RealKey(k)] = {} => Readable(k) \subseteq {Default(k)}

\* Each of the services, with its backend, is a store of typed values: what one
\* client writes the others read, as the same value, and no other key changes.
Store == INSTANCE TypedStore WITH
            Typed <- [k \in Keys |-> {valueType[k]} \X Content(valueType[k])],
            Initial <- NewContext,
            stored <- [k \in Keys |-> Readable(k)]

StoresTypedValues == Store!TypedStoreSpec
=============================================================================
