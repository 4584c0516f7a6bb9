------------------------------- MODULE Netting -------------------------------
(***************************************************************************)
(* The kernel art-259-compute-multilateral-netting: gross positions are    *)
(* netted per entity, and payers are matched with receivers one after the  *)
(* other, both lists in the order the caller named the entities.  Amounts  *)
(* are counted in the kernel's rounding unit; conversion of currencies is  *)
(* left out.                                                               *)
(*                                                                         *)
(* The kernel checks neither of two things, so the model allows both: the  *)
(* caller's list may hold an id twice, and the party is then matched once  *)
(* for each entry, for the whole of its position each time; and a position *)
(* may name an id that is not in the list, and then moves one side only.   *)
(* An entity here is an entry of that list (a leg names the entry where    *)
(* the code writes its id).                                                *)
(***************************************************************************)
EXTENDS Integers, Sequences, FiniteSets, Sums

CONSTANTS
    Entities,   \* the entries of the caller's list of entities
    Names,      \* the ids that entries and positions may give
    Lists,      \* the lists a caller may pass: the id of each entry
    Amounts,    \* what a gross position may be worth
    MaxGross,   \* BOUND: the gross positions of a portfolio
    Dust        \* the tolerance 0.001, in units

ASSUME NettingAssumption ==
    /\ IsFiniteSet(Entities) /\ Lists \subseteq [Entities -> Names]
    /\ Amounts \subseteq Nat /\ MaxGross \in Nat /\ Dust \in Nat \ {0}

VARIABLES
    ids,                  \* entity_ids, of the caller's list
    gross,                \* how many gross positions were read
    net,                  \* net_pos
    payers, receivers,    \* the two lists
    pi, ri,               \* the places in them
    rem,                  \* what is still owed by a payer, to a receiver
    legs,                 \* settlement_legs
    pc

vars == <<ids, gross, net, payers, receivers, pi, ri, rem, legs, pc>>

Smaller(m, n) == IF m < n THEN m ELSE n
Absolute(n) == IF n < 0 THEN -n ELSE n

Init ==
    /\ ids \in Lists
    /\ gross = 0 /\ net = [e \in Entities |-> 0]
    /\ payers = <<>> /\ receivers = <<>> /\ pi = 1 /\ ri = 1
    /\ rem = [e \in Entities |-> 0] /\ legs = <<>>
    /\ pc = "net"

\* One gross position; one of no worth is passed over.  It moves what is kept for
\* either id, if there is an entry of it; every entry of an id reads the same.
Net(from, to, amt) ==
    /\ pc = "net" /\ gross < MaxGross /\ amt > 0
    /\ gross' = gross + 1
    /\ net' = [e \in Entities |-> net[e] - (IF ids[e] = from THEN amt ELSE 0)
                                         + (IF ids[e] = to THEN amt ELSE 0)]
    /\ UNCHANGED <<ids, payers, receivers, pi, ri, rem, legs, pc>>

\* The lists of a set: every entry once, in the caller's order, whichever.
Listings(S) ==
    {s \in [1..Cardinality(S) -> S] :
        \A i, j \in 1..Cardinality(S) : s[i] = s[j] => i = j}

List ==
    /\ pc = "net"
    /\ payers' \in Listings({e \in Entities : net[e] < 0})
    /\ receivers' \in Listings({e \in Entities : net[e] > 0})
    /\ rem' = [e \in Entities |-> Absolute(net[e])]
    /\ pc' = "match"
    /\ UNCHANGED <<ids, gross, net, pi, ri, legs>>

\* What a match settles, and where that leaves the two lists: a leg is written
\* above the tolerance, a party is done below it.
Match(settle) ==
    LET p    == payers[pi]
        r    == receivers[ri]
        left == [rem EXCEPT ![p] = @ - settle, ![r] = @ - settle]
    IN  /\ legs' = IF settle > Dust
                   THEN Append(legs, [from |-> p, to |-> r, amount |-> settle])
                   ELSE legs
        /\ rem' = left
        /\ pi' = IF left[p] < Dust THEN pi + 1 ELSE pi
        /\ ri' = IF left[r] < Dust THEN ri + 1 ELSE ri
        /\ UNCHANGED <<ids, gross, net, payers, receivers, pc>>

BothLeft == pi <= Len(payers) /\ ri <= Len(receivers)

\* Mutant: no leg is larger than one lot.
SettleByLots ==
    /\ pc = "match" /\ BothLeft
    /\ Match(Smaller(2 * Dust, Smaller(rem[payers[pi]], rem[receivers[ri]])))

\* Mutant: the larger of the two.
SettleLarger ==
    /\ pc = "match" /\ BothLeft
    /\ Match(rem[payers[pi]])

Settle ==
    /\ pc = "match" /\ BothLeft
    /\ Match(Smaller(rem[payers[pi]], rem[receivers[ri]]))

End ==
    /\ pc = "match" /\ ~BothLeft
    /\ pc' = "done"
    /\ UNCHANGED <<ids, gross, net, payers, receivers, pi, ri, rem, legs>>

Next ==
    \/ \E from, to \in Names, amt \in Amounts : Net(from, to, amt)
    \/ List \/ Settle \/ End

Spec == Init /\ [][Next]_vars

-----------------------------------------------------------------------------
\* What the legs of a list carry for an entry.
CarriedBy(list, e) ==
    SumTo([k \in DOMAIN list |-> IF e \in {list[k].from, list[k].to} THEN list[k].amount ELSE 0],
          Len(list))

Carried(e) == CarriedBy(legs, e)

Parties == Len(payers) + Len(receivers)

\* The sum of f over the entries, taken in some fixed order.
Number   == Cardinality(Entities)
Order    == CHOOSE s \in Listings(Entities) : TRUE
Total(f) == SumTo([i \in 1..Number |-> f[Order[i]]], Number)

\* What the entries are to receive, all in all, more than they are to pay.
Excess == Total(net)

\* The portfolio is closed: every id a position may give has one entry.
Closed == \A name \in Names : \E e \in Entities : \A f \in Entities : ids[f] = name <=> f = e

\* Types, and no more settled of anybody than is owed.
TypeOK ==
    /\ ids \in [Entities -> Names] /\ gross \in 0..MaxGross /\ net \in [Entities -> Int]
    /\ payers \in Seq(Entities) /\ receivers \in Seq(Entities)
    /\ pi \in 1..(Len(payers) + 1) /\ ri \in 1..(Len(receivers) + 1)
    /\ rem \in [Entities -> Nat]
    /\ legs \in Seq([from: Entities, to: Entities, amount: Nat])
    /\ pc \in {"net", "match", "done"}

\* Netting saves wires: fewer legs than parties, whatever the portfolio, since
\* every match finishes one of the two.
FewLegs == legs # <<>> => Len(legs) < Parties

\* In a closed portfolio the entries' positions cancel out and each is settled,
\* payers and receivers alike, but for the tolerance once a match.  In any other,
\* with ids listed twice or not at all, what stays unsettled of an entry is no
\* more than that and the amount by which the portfolio is out of balance.  No
\* entry ever pays or is paid more than its position.
Settled ==
    pc = "done" =>
       /\ Closed => Excess = 0
       /\ \A e \in Entities :
             LET unsent == Absolute(net[e]) - Carried(e)
             IN  unsent \in 0..(Absolute(Excess)
                                   + (IF Parties = 0 THEN 0 ELSE Dust * (Parties - 1)))
=============================================================================
