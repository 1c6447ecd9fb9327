----------------------------- MODULE MCBackend -----------------------------
(***************************************************************************)
(* Backend with a Boolean and both kinds of integers, two clients, and     *)
(* each of the services in turn.                                           *)
(***************************************************************************)
EXTENDS Backend

\* Rows of propSpecs.
MCType ==
    [k \in Keys |-> CASE k = "plain-zhuyin" -> "boolean"
                      [] k = "max-chi-symbol-len" -> "int"
                      [] k = "cand-per-page" -> "uint"]

MCDefault ==
    [k \in Keys |-> CASE k = "plain-zhuyin" -> "0"
                      [] k = "max-chi-symbol-len" -> "20"
                      [] k = "cand-per-page" -> "10"]

NoSections == [k \in Keys |-> ""]

MCParsed == [s \in {"20", "10"} |-> IF s = "20" THEN 20 ELSE 10]

\* What both users of gconf2_backend_new pass, and PROJECT_SCHEMA_PATH.
MCBasePath == <<"/", "desktop", "/", "ibus", "/", "engine">>
MCSchemasHome == MCBasePath \o <<"/", "chewing", "/">>

\* One value of each key, the unsigned one too large for a signed integer.
MCAssigned ==
    [k \in Keys |-> CASE k = "plain-zhuyin" -> {<<"boolean", TRUE>>}
                      [] k = "max-chi-symbol-len" -> {<<"int", -1>>}
                      [] k = "cand-per-page" -> {<<"uint", HalfRange>>}]

MCForeign ==
    [s \in Services |->
        IF s = "gconf2" THEN {<<"int", -1>>, <<"string", "20">>}
        ELSE {<<"i", -1>>, <<"u", 10>>, <<"s", "20">>}]
=============================================================================
