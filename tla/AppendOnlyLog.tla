--------------------------- MODULE AppendOnlyLog ---------------------------
(***************************************************************************)
(* What a transparency log promises: the trees it has signed are ordered   *)
(* by extension, so a reader who kept any of them can check every later    *)
(* one against it.  LineageLog implements it with files and a publisher    *)
(* that may die.                                                           *)
(***************************************************************************)
EXTENDS Naturals, Sequences

CONSTANT Records    \* the values a log entry may take

VARIABLE signed     \* the trees the log has signed

StrictlyExtends(t, s) ==
    /\ Len(s) < Len(t)
    /\ \A i \in 1..Len(s) : t[i] = s[i]

Init == signed = {}

\* The next tree extends every tree signed so far.
Sign(t) ==
    /\ t # << >>
    /\ \A s \in signed : StrictlyExtends(t, s)
    /\ signed' = signed \cup {t}

Next == \E t \in signed' : Sign(t)

Spec == Init /\ [][Next]_signed
=============================================================================
