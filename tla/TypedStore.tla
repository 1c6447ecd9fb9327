----------------------------- MODULE TypedStore -----------------------------
(***************************************************************************)
(* What property contexts rely on, whatever configuration service is       *)
(* behind them: a store of one typed value per key, shared by all clients. *)
(* A key may be without a value its readers can use; reading it then       *)
(* leaves the reader's context alone.                                      *)
(***************************************************************************)
CONSTANTS
    Clients, Keys,
    Typed,          \* Typed[k]: the values a context of key k may hold
    Initial         \* Initial[k]: what a new context of key k holds

VARIABLES
    stored,         \* stored[k]: the value a reader of key k finds, or {}
    context         \* context[p][k]: the value client p has of key k

storeVars == <<stored, context>>

Cell(k) == {{}} \cup {{v} : v \in Typed[k]}

TypedStoreInit ==
    /\ DOMAIN stored = Keys
    /\ \A k \in Keys : stored[k] \in Cell(k)
    /\ context = [p \in Clients |-> Initial]

\* A client takes over the stored value.
Read(p, k) ==
    /\ \E v \in stored[k] : context' = [context EXCEPT ![p][k] = v]
    /\ UNCHANGED stored

\* A client stores a value: from now on every reader finds it.
Write(p, k) ==
    \E v \in Typed[k] :
        /\ context' = [context EXCEPT ![p][k] = v]
        /\ stored' = [stored EXCEPT ![k] = {v}]

\* The service refuses the value, and only the client has it.
Refused(p, k) ==
    /\ \E v \in Typed[k] : context' = [context EXCEPT ![p][k] = v]
    /\ UNCHANGED stored

\* A client begins anew.
Start(p) ==
    /\ context' = [context EXCEPT ![p] = Initial]
    /\ UNCHANGED stored

\* Somebody else gives one key a value, or takes it away.
Outside(k) ==
    /\ \E cell \in Cell(k) : stored' = [stored EXCEPT ![k] = cell]
    /\ UNCHANGED context

TypedStoreNext ==
    \/ \E p \in Clients, k \in Keys : Read(p, k) \/ Write(p, k) \/ Refused(p, k)
    \/ \E p \in Clients : Start(p)
    \/ \E k \in Keys : Outside(k)

TypedStoreSpec == TypedStoreInit /\ [][TypedStoreNext]_storeVars
=============================================================================
