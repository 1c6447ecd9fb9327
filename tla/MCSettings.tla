----------------------------- MODULE MCSettings -----------------------------
(***************************************************************************)
(* Settings with one dialog and the properties whose callbacks interact.   *)
(***************************************************************************)
EXTENDS Settings

Digits == <<"1", "2", "3", "4", "5", "6", "7", "8", "9", "0">>

\* The selection keys, their number, and a list setting between them.
Lists == <<"sel-keys", "sync-caps-lock", "cand-per-page">>

SelKeys == <<"sel-keys", "cand-per-page">>

Symbols == <<"sel-keys", "easy-symbol-input", "shift-toggle-chinese",
             "cand-per-page">>

MCSelKeyLists == {Digits}

\* Among what other tools store: a value no combo box has a row for ("IM"),
\* one beyond the range of its spin button, a short list of selection keys.
MCStored ==
    [k \in Keys |->
        CASE k = "sel-keys" -> {<<"q", "w">>}
          [] k = "sync-caps-lock" -> {"IM"}
          [] k = "cand-per-page" -> {20}
          [] OTHER -> BOOLEAN]

MCPicked ==
    [k \in Keys |->
        CASE k = "sel-keys" -> {Digits}
          [] k = "sync-caps-lock" -> {"disable"}
          [] k = "cand-per-page" -> {8}
          [] OTHER -> BOOLEAN]
=============================================================================
