----------------------------- MODULE TextStream -----------------------------
(***************************************************************************)
(* What a composition promises about the characters typed into it, with no *)
(* word of keys, modes, lists or flags: a character is shown, then waits   *)
(* in the outbox, then is taken; it never goes back and never appears      *)
(* twice.  Characters do not overtake each other: one leaves only after    *)
(* all those shown before it.  The one exception is a character still in   *)
(* the making, an incomplete syllable: whole characters shown after it may *)
(* leave and let it stay.                                                  *)
(***************************************************************************)
EXTENDS Naturals, Sequences

CONSTANT Char

VARIABLES
    shown,    \* the text on display
    making,   \* the character of it still in the making, if there is one
    outbox,
    taken

streamVars == <<shown, making, outbox, taken>>

Range(s) == {s[i] : i \in DOMAIN s}

Distinct(s) == \A i, j \in DOMAIN s : s[i] = s[j] => i = j

\* a stands before b in s.
Before(s, a, b) == \E i, j \in DOMAIN s : i < j /\ s[i] = a /\ s[j] = b

\* The characters s shares with t stand in s as they stand in t.
InOrderOf(s, t) ==
    \A i, j \in DOMAIN s :
        i < j /\ s[i] \in Range(t) /\ s[j] \in Range(t) => Before(t, s[i], s[j])

StreamInit == shown = <<>> /\ making = <<>> /\ outbox = <<>> /\ taken = <<>>

\* No character of `ahead` leaves one of `behind` that is shown before it.
\* A character that was not shown has no place yet, and may get any.
Precedes(ahead, behind) ==
    \A a \in ahead \cap Range(shown), b \in behind \cap Range(shown) :
        Before(shown, a, b)

\* One edit: some characters leave for the outbox, some stay, some are
\* deleted, and at most one, c, is new (0: none).  Only a new character can be
\* in the making, until it is complete.
Edit ==
    \E n \in 0 .. Len(outbox'), c \in Char \cup {0} :
        LET sent == SubSeq(outbox', n + 1, Len(outbox'))
        IN  /\ n = Len(outbox)
            /\ SubSeq(outbox', 1, n) = outbox
            /\ Range(sent) \cup Range(shown') \subseteq Range(shown) \cup ({c} \ {0})
            /\ c \notin Range(shown) \cup Range(outbox) \cup Range(taken)
            /\ making' \in {<<>>, making, <<c>>}
            /\ Range(making') \subseteq Range(shown')
            /\ Distinct(sent \o shown')
            /\ InOrderOf(sent, shown)
            /\ InOrderOf(shown', shown)
            /\ Precedes(Range(sent), Range(shown') \ Range(making'))
            /\ UNCHANGED taken

Take ==
    /\ taken' = taken \o outbox
    /\ outbox' = <<>>
    /\ UNCHANGED <<shown, making>>

\* The client abandons everything it has not taken.
Abandon ==
    /\ shown' = <<>>
    /\ making' = <<>>
    /\ outbox' = <<>>
    /\ UNCHANGED taken

StreamNext == Edit \/ Take \/ Abandon

Spec == StreamInit /\ [][StreamNext]_streamVars
=============================================================================
