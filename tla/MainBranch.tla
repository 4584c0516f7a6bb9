----------------------------- MODULE MainBranch -----------------------------
(***************************************************************************)
(* main, as the workflows that keep it up see it: every commit has sources *)
(* and the derived files that came with it.  A version is the landing that *)
(* last changed what the derived files should say.                         *)
(***************************************************************************)
EXTENDS Integers, Sequences, FiniteSets

CONSTANTS
    MaxLandings,    \* BOUND: commits that land from outside the bots
    Kinds           \* what they may be

ASSUME MainAssumption ==
    MaxLandings \in Nat /\ Kinds \subseteq {"other", "source", "flawed", "hand"}

Mixed == -1         \* derived files a merge has put together from two versions
Versions == 0..MaxLandings
Contents == Versions \cup {Mixed}

VARIABLES
    main,       \* its commits: want, what the sources call for, and der
    landed,     \* how many have landed
    flawed      \* the versions whose generated text fails the gates

branch == <<main, landed, flawed>>

Tip == Len(main)
Fresh == main[Tip].der = main[Tip].want

MainInit ==
    /\ main = <<[want |-> 0, der |-> 0]>>
    /\ landed = 0 /\ flawed = {}

\* A pull request lands: it leaves the derived files and what they should say
\* alone, or changes the sources (some call for text the gates refuse), or is
\* assembled by hand, with derived files of its own.
Land(kind) ==
    LET v == landed + 1
        c == main[Tip]
    IN  /\ landed < MaxLandings
        /\ landed' = v
        /\ main' = Append(main, CASE kind = "other" -> c
                                  [] kind = "hand" -> [want |-> v, der |-> v]
                                  [] OTHER -> [c EXCEPT !.want = v])
        /\ flawed' = IF kind = "flawed" THEN flawed \cup {v} ELSE flawed

MainTypeOK ==
    /\ main \in Seq([want: Versions, der: Contents]) /\ main # <<>>
    /\ landed \in Versions
    /\ flawed \subseteq 1..MaxLandings
=============================================================================
