-------------------------- MODULE AlgorithmsProofs --------------------------
(***************************************************************************)
(* What holds of the small machines on every input.                        *)
(*                                                                         *)
(* Netting, for any portfolio, ids listed twice or not at all included:    *)
(* nobody is settled beyond what is owed, there are fewer legs than        *)
(* parties, and in the end every net position is settled but for the       *)
(* tolerance and for what the portfolio is out of balance, which is        *)
(* nothing when every id has one entry.  A match leaves nothing of one of  *)
(* its two parties, so a leg is paid for by a place passed in one of the   *)
(* lists, and a place passed lets go of the tolerance at most; what the    *)
(* two sides still have unsent differs by the imbalance to the end, so     *)
(* that the side whose list ran out speaks for the other.                  *)
(*                                                                         *)
(* Id reservations, for any ids, entries and number of edits: only Sync    *)
(* settles a merge and nothing changes after it, so both properties come   *)
(* down to what one Sync does with each id.                                *)
(*                                                                         *)
(* The drive loop of runKernelInVM, for kernels of any number of tasks and *)
(* host calls: a call in flight is always one the loop is going to await,  *)
(* or awaits (Tracked), since the loop empties the array only into a batch *)
(* and gives up a batch only when all of it is answered.                   *)
(***************************************************************************)
EXTENDS Netting, Reservations, KernelVM, Recursion, SequenceTheorems

\* The two lists never name one entity.
Sided ==
    /\ \A i \in 1..Len(payers) : net[payers[i]] < 0
    /\ \A j \in 1..Len(receivers) : net[receivers[j]] > 0

\* Before the lists are made.
NotYet == pc = "net" => legs = <<>> /\ pi = 1 /\ ri = 1
                          /\ payers = <<>> /\ receivers = <<>>

\* Every leg has finished a party, and the last one both if both lists are over.
PaidFor ==
    /\ Len(legs) <= (pi - 1) + (ri - 1)
    /\ legs # <<>> /\ pi = Len(payers) + 1 /\ ri = Len(receivers) + 1
          => Len(legs) < (pi - 1) + (ri - 1)

IInv == TypeOK /\ Sided /\ NotYet /\ PaidFor

\* A listing is a sequence of members of the set.
LEMMA ListingsAreLists ==
    ASSUME NEW S \in SUBSET Entities, NEW s \in Listings(S)
    PROVE  s \in Seq(S) /\ \A i \in 1..Len(s) : s[i] \in S
<1>1. IsFiniteSet(S)
  BY FS_Subset, NettingAssumption
<1>2. Cardinality(S) \in Nat
  BY <1>1, FS_CardinalityType
<1>3. s \in [1..Cardinality(S) -> S]
  BY DEF Listings
<1> QED BY <1>2, <1>3

\* The smaller of two numbers is one of them, and no larger than either.
LEMMA SmallerIsLeast ==
    ASSUME NEW m \in Nat, NEW n \in Nat
    PROVE  /\ Smaller(m, n) \in Nat /\ Smaller(m, n) \in {m, n}
           /\ m - Smaller(m, n) \in Nat /\ n - Smaller(m, n) \in Nat
BY DEF Smaller

\* One leg more, and at least one place more.
LEMMA OneLegAPlace ==
    ASSUME NEW m \in Nat, NEW n \in Nat, NEW i \in Nat, NEW j \in Nat, NEW k \in Nat, NEW l \in Nat,
           n <= m + 1, m <= (i - 1) + (j - 1), k + l >= i + j + 1
    PROVE  /\ n <= (k - 1) + (l - 1)
           /\ k + l = i + j + 2 => n < (k - 1) + (l - 1)
OBVIOUS

LEMMA InitIInv == Init => IInv
<1> SUFFICES ASSUME Init PROVE IInv
  OBVIOUS
<1> USE NettingAssumption DEF Init
<1>1. TypeOK
  BY DEF TypeOK
<1>2. Sided /\ NotYet /\ PaidFor
  BY DEF Sided, NotYet, PaidFor
<1> QED BY <1>1, <1>2 DEF IInv

LEMMA NetIInv ==
    ASSUME IInv, NEW from \in Names, NEW to \in Names, NEW amt \in Amounts,
           Net(from, to, amt)
    PROVE  IInv'
<1>1. amt \in Nat
  BY NettingAssumption
<1>2. payers = <<>> /\ receivers = <<>>
  BY DEF Net, IInv, NotYet
<1>3. gross' \in 0..MaxGross
  BY NettingAssumption DEF Net, IInv, TypeOK
<1>4. net' \in [Entities -> Int]
  BY <1>1 DEF Net, IInv, TypeOK
<1>5. TypeOK'
  BY <1>3, <1>4 DEF Net, IInv, TypeOK
<1>6. Sided' /\ NotYet' /\ PaidFor'
  BY <1>2 DEF Net, IInv, Sided, NotYet, PaidFor
<1> QED BY <1>5, <1>6 DEF IInv

LEMMA ListIInv ==
    ASSUME IInv, List
    PROVE  IInv'
<1> DEFINE P == {e \in Entities : net[e] < 0}
           R == {e \in Entities : net[e] > 0}
<1>1. /\ payers' \in Seq(P) /\ \A i \in 1..Len(payers') : payers'[i] \in P
      /\ receivers' \in Seq(R) /\ \A i \in 1..Len(receivers') : receivers'[i] \in R
  BY ListingsAreLists, P \in SUBSET Entities, R \in SUBSET Entities DEF List
<1>2. legs = <<>> /\ pi = 1 /\ ri = 1
  BY DEF List, IInv, NotYet
<1>3. TypeOK'
  <2>1. payers' \in Seq(Entities) /\ receivers' \in Seq(Entities)
    BY <1>1
  <2>2. pi' \in 1..(Len(payers') + 1) /\ ri' \in 1..(Len(receivers') + 1)
    BY <1>2, <2>1 DEF List
  <2>3. rem' \in [Entities -> Nat]
    BY DEF List, IInv, TypeOK, Absolute
  <2> QED BY <2>1, <2>2, <2>3 DEF List, IInv, TypeOK
<1>4. Sided'
  BY <1>1 DEF List, Sided
<1>5. NotYet' /\ PaidFor'
  BY <1>1, <1>2 DEF List, NotYet, PaidFor
<1> QED BY <1>3, <1>4, <1>5 DEF IInv

\* The two parties of a match, and what it settles between them.
Payer    == payers[pi]
Receiver == receivers[ri]
Share    == Smaller(rem[Payer], rem[Receiver])
Leg      == [from |-> Payer, to |-> Receiver, amount |-> Share]
Legs     == [from: Entities, to: Entities, amount: Nat]

\* A match is between a payer and a receiver, takes the same from what is left of
\* either, never more than there is, and leaves nothing of one of them.
LEMMA SettleFacts ==
    ASSUME IInv, Settle
    PROVE  /\ pi \in 1..Len(payers) /\ ri \in 1..Len(receivers)
           /\ Len(payers) \in Nat /\ Len(receivers) \in Nat
           /\ Payer \in Entities /\ Receiver \in Entities /\ Payer # Receiver
           /\ net[Payer] < 0 /\ net[Receiver] > 0
           /\ Share \in Nat /\ Leg \in Legs /\ rem' \in [Entities -> Nat]
           /\ rem'[Payer] = rem[Payer] - Share /\ rem'[Receiver] = rem[Receiver] - Share
           /\ \A e \in Entities \ {Payer, Receiver} : rem'[e] = rem[e]
           /\ rem'[Payer] = 0 \/ rem'[Receiver] = 0
           /\ pi' = IF rem'[Payer] < Dust THEN pi + 1 ELSE pi
           /\ ri' = IF rem'[Receiver] < Dust THEN ri + 1 ELSE ri
           /\ legs' = IF Share > Dust THEN Append(legs, Leg) ELSE legs
           /\ pc = "match" /\ UNCHANGED <<ids, gross, net, payers, receivers, pc>>
<1>1. /\ pi \in 1..Len(payers) /\ ri \in 1..Len(receivers)
      /\ Len(payers) \in Nat /\ Len(receivers) \in Nat
  <2>1. Len(payers) \in Nat /\ Len(receivers) \in Nat
    BY DEF IInv, TypeOK
  <2> QED BY <2>1 DEF Settle, BothLeft, IInv, TypeOK
<1>2. /\ Payer \in Entities /\ Receiver \in Entities /\ Payer # Receiver
      /\ net[Payer] < 0 /\ net[Receiver] > 0
  <2>1. Payer \in Entities /\ Receiver \in Entities
    <3>1. payers \in Seq(Entities) /\ receivers \in Seq(Entities)
      BY DEF IInv, TypeOK
    <3> QED BY <1>1, <3>1, ElementOfSeq DEF Payer, Receiver
  <2>2. net[Payer] < 0 /\ net[Receiver] > 0
    BY <1>1 DEF IInv, Sided, Payer, Receiver
  <2>3. net[Payer] \in Int /\ net[Receiver] \in Int
    BY <2>1 DEF IInv, TypeOK
  <2> QED BY <2>1, <2>2, <2>3
<1>3. /\ Share \in Nat /\ Share \in {rem[Payer], rem[Receiver]}
      /\ rem[Payer] - Share \in Nat /\ rem[Receiver] - Share \in Nat
  BY <1>2, SmallerIsLeast DEF IInv, TypeOK, Share
<1>4. rem' = [rem EXCEPT ![Payer] = @ - Share, ![Receiver] = @ - Share]
  BY DEF Settle, Match, Payer, Receiver, Share
<1>5. /\ rem' \in [Entities -> Nat]
      /\ rem'[Payer] = rem[Payer] - Share /\ rem'[Receiver] = rem[Receiver] - Share
      /\ \A e \in Entities \ {Payer, Receiver} : rem'[e] = rem[e]
  BY <1>2, <1>3, <1>4 DEF IInv, TypeOK
<1>6. rem'[Payer] = 0 \/ rem'[Receiver] = 0
  BY <1>2, <1>3, <1>5 DEF IInv, TypeOK
<1>7. /\ pi' = IF rem'[Payer] < Dust THEN pi + 1 ELSE pi
      /\ ri' = IF rem'[Receiver] < Dust THEN ri + 1 ELSE ri
      /\ legs' = IF Share > Dust THEN Append(legs, Leg) ELSE legs
      /\ pc = "match" /\ UNCHANGED <<ids, gross, net, payers, receivers, pc>>
  BY DEF Settle, Match, Payer, Receiver, Share, Leg
<1>8. Leg \in Legs
  BY <1>2, <1>3 DEF Leg, Legs
<1> QED BY <1>1, <1>2, <1>3, <1>5, <1>6, <1>7, <1>8

LEMMA SettleIInv ==
    ASSUME IInv, Settle
    PROVE  IInv'
<1>1. /\ pi \in 1..Len(payers) /\ ri \in 1..Len(receivers)
      /\ Len(payers) \in Nat /\ Len(receivers) \in Nat
      /\ Leg \in Legs /\ rem' \in [Entities -> Nat]
      /\ Payer \in Entities /\ Receiver \in Entities
      /\ rem'[Payer] = 0 \/ rem'[Receiver] = 0
      /\ pi' = IF rem'[Payer] < Dust THEN pi + 1 ELSE pi
      /\ ri' = IF rem'[Receiver] < Dust THEN ri + 1 ELSE ri
      /\ pc = "match" /\ UNCHANGED <<ids, gross, net, payers, receivers, pc>>
  BY SettleFacts
<1>2. legs' = IF Share > Dust THEN Append(legs, Leg) ELSE legs
  BY SettleFacts
<1>3. /\ legs' \in Seq(Legs) /\ Len(legs') <= Len(legs) + 1
      /\ Len(legs) \in Nat /\ Len(legs') \in Nat
  <2>1. legs \in Seq(Legs)
    BY DEF IInv, TypeOK, Legs
  <2>2. legs' \in Seq(Legs) /\ Len(legs') <= Len(legs) + 1
    BY <1>1, <1>2, <2>1, AppendProperties
  <2> QED BY <2>1, <2>2
<1>4. TypeOK'
  <2>1. pi' \in 1..(Len(payers') + 1) /\ ri' \in 1..(Len(receivers') + 1)
    BY <1>1
  <2> QED BY <1>1, <1>3, <2>1 DEF IInv, TypeOK, Legs
<1>5. Sided' /\ NotYet'
  BY <1>1 DEF IInv, Sided, NotYet
<1>6. PaidFor'
  <2>1. Len(legs) <= (pi - 1) + (ri - 1)
    BY DEF IInv, PaidFor
  <2>2. Len(payers') = Len(payers) /\ Len(receivers') = Len(receivers)
    BY <1>1
  <2>3. rem'[Payer] < Dust \/ rem'[Receiver] < Dust
    BY <1>1, NettingAssumption
  <2>4. pi' + ri' >= pi + ri + 1 /\ pi' \in Nat /\ ri' \in Nat
    BY <1>1, <2>3
  <2>5. pi' = Len(payers) + 1 /\ ri' = Len(receivers) + 1 => pi' + ri' = pi + ri + 2
    BY <1>1
  <2>6. pi \in Nat /\ ri \in Nat
    BY <1>1
  <2>7. Len(legs') <= (pi' - 1) + (ri' - 1)
    BY <1>3, <2>6, <2>1, <2>4, OneLegAPlace
  <2>8. pi' = Len(payers) + 1 /\ ri' = Len(receivers) + 1
           => Len(legs') < (pi' - 1) + (ri' - 1)
    BY <1>3, <2>6, <2>1, <2>4, <2>5, OneLegAPlace
  <2> QED BY <2>2, <2>7, <2>8 DEF PaidFor
<1> QED BY <1>4, <1>5, <1>6 DEF IInv

LEMMA NextIInv == IInv /\ [Next]_vars => IInv'
<1> SUFFICES ASSUME IInv, [Next]_vars PROVE IInv'
  OBVIOUS
<1>1. ASSUME NEW from \in Names, NEW to \in Names, NEW amt \in Amounts,
             Net(from, to, amt)
      PROVE  IInv'
  BY <1>1, NetIInv
<1>2. CASE List
  BY <1>2, ListIInv
<1>3. CASE Settle
  BY <1>3, SettleIInv
<1>4. CASE End
  BY <1>4 DEF End, IInv, TypeOK, Sided, NotYet, PaidFor
<1>5. CASE UNCHANGED vars
  BY <1>5 DEF vars, IInv, TypeOK, Sided, NotYet, PaidFor
<1> QED BY <1>1, <1>2, <1>3, <1>4, <1>5 DEF Next

\* What the matching keeps true of itself, for every portfolio: the kernel's two
\* lists, its two places and its legs belong together.
THEOREM NettingInvariant == Spec => []IInv
BY InitIInv, NextIInv, PTL DEF Spec

\* For any entities, amounts and tolerance: nobody's remaining debt or claim is
\* ever below nothing, so the legs never settle more than is owed.
THEOREM NothingOverpaid == Spec => []TypeOK
<1>1. IInv => TypeOK
  BY DEF IInv
<1> QED BY NettingInvariant, <1>1, PTL

\* For any portfolio, closed or not: fewer legs than payers and receivers together.
THEOREM NettingSavesWires == Spec => []FewLegs
<1>1. ASSUME IInv PROVE FewLegs
  <2> DEFINE lp == Len(payers)
             lr == Len(receivers)
             ll == Len(legs)
  <2>1. lp \in Nat /\ lr \in Nat /\ ll \in Nat
    BY <1>1 DEF IInv, TypeOK
  <2>2. pi \in 1..(lp + 1) /\ ri \in 1..(lr + 1)
    BY <1>1 DEF IInv, TypeOK
  <2>3. /\ ll <= (pi - 1) + (ri - 1)
        /\ legs # <<>> /\ pi = lp + 1 /\ ri = lr + 1 => ll < (pi - 1) + (ri - 1)
    BY <1>1 DEF IInv, PaidFor
  <2>4. legs # <<>> => ll < lp + lr
    <3> HIDE DEF lp, lr, ll
    <3> QED BY <2>1, <2>2, <2>3
  <2> QED BY <2>4 DEF FewLegs, Parties
<1> QED BY NettingInvariant, <1>1, PTL

-----------------------------------------------------------------------------
(* Sums over the entries, in the fixed order. *)

LEMMA OrderFacts ==
    /\ Number \in Nat /\ Order \in [1..Number -> Entities]
    /\ \A e \in Entities : \E i \in 1..Number : Order[i] = e
    /\ \A i, j \in 1..Number : Order[i] = Order[j] => i = j
<1>1. Number \in Nat /\ ExistsBijection(1..Number, Entities)
  BY FS_CardinalityType, NettingAssumption DEF Number
<1>2. PICK b : b \in Bijection(1..Number, Entities)
  BY <1>1 DEF ExistsBijection
<1>3. b \in Listings(Entities)
  BY <1>2 DEF Bijection, Injection, IsInjective, Listings, Number
<1>4. Order \in Listings(Entities)
  BY <1>3 DEF Order
<1>5. Order \in [1..Number -> Entities] /\ \A i, j \in 1..Number : Order[i] = Order[j] => i = j
  BY <1>4 DEF Listings, Number
<1>6. Order \in Injection(1..Number, Entities) /\ Cardinality(1..Number) = Number
  <2>1. Cardinality(1..Number) = Number
    BY <1>1, FS_Interval
  <2>2. Order \in Injection(1..Number, Entities)
    BY <1>5 DEF Injection, IsInjective
  <2> QED BY <2>1, <2>2
<1>7. Order \in Surjection(1..Number, Entities)
  BY <1>6, FS_Injection, NettingAssumption DEF Number
<1> QED BY <1>1, <1>5, <1>7 DEF Surjection

\* Changing what one entity has changes the total by as much.
LEMMA TotalChange ==
    ASSUME NEW f \in [Entities -> Int], NEW g \in [Entities -> Int], NEW x \in Entities,
           NEW d \in Int, g[x] = f[x] + d, \A e \in Entities \ {x} : g[e] = f[e]
    PROVE  Total(f) \in Int /\ Total(g) = Total(f) + d
<1> DEFINE ff == [i \in 1..Number |-> f[Order[i]]]
           gg == [i \in 1..Number |-> g[Order[i]]]
<1>1. PICK k \in 1..Number : Order[k] = x
  BY OrderFacts
<1>2. \A i \in 1..Number : ff[i] \in Int /\ gg[i] \in Int /\ (i # k => gg[i] = ff[i])
  BY <1>1, OrderFacts
<1>3. gg[k] = ff[k] + d
  BY <1>1
<1> HIDE DEF ff, gg
<1>4. Number \in Nat
  BY OrderFacts
<1>5. SumTo(gg, Number) = SumTo(ff, Number) - ff[k] + gg[k]
  BY <1>2, <1>4, SumChange
<1>6. SumTo(ff, Number) \in Int
  BY <1>2, <1>4, SumOfIntegers
<1>7. SumTo(gg, Number) = SumTo(ff, Number) + d
  BY <1>2, <1>3, <1>5, <1>6
<1> QED BY <1>6, <1>7 DEF Total, ff, gg

LEMMA TotalBump ==
    ASSUME NEW f \in [Entities -> Int], NEW x \in Entities, NEW d \in Int
    PROVE  Total(f) \in Int /\ Total([f EXCEPT ![x] = f[x] + d]) = Total(f) + d
<1> DEFINE g == [f EXCEPT ![x] = f[x] + d]
<1>1. g \in [Entities -> Int] /\ g[x] = f[x] + d /\ \A e \in Entities \ {x} : g[e] = f[e]
  OBVIOUS
<1> HIDE DEF g
<1>2. Total(f) \in Int /\ Total(g) = Total(f) + d
  BY <1>1, TotalChange
<1> QED BY <1>2 DEF g

LEMMA TotalDifference ==
    ASSUME NEW f \in [Entities -> Int], NEW g \in [Entities -> Int], NEW h \in [Entities -> Int],
           \A e \in Entities : f[e] = g[e] - h[e]
    PROVE  Total(f) = Total(g) - Total(h) /\ Total(g) \in Int /\ Total(h) \in Int
<1> DEFINE ff == [i \in 1..Number |-> f[Order[i]]]
           gg == [i \in 1..Number |-> g[Order[i]]]
           hh == [i \in 1..Number |-> h[Order[i]]]
<1>1. \A i \in 1..Number : gg[i] \in Int /\ hh[i] \in Int /\ ff[i] = gg[i] - hh[i]
  BY OrderFacts
<1> HIDE DEF ff, gg, hh
<1>2. Number \in Nat
  BY OrderFacts
<1>3. SumTo(ff, Number) = SumTo(gg, Number) - SumTo(hh, Number)
  BY <1>1, <1>2, SumDifference
<1>4. SumTo(gg, Number) \in Int /\ SumTo(hh, Number) \in Int
  BY <1>1, <1>2, SumOfIntegers
<1> QED BY <1>3, <1>4 DEF Total, ff, gg, hh

LEMMA TotalCovers ==
    ASSUME NEW f \in [Entities -> Nat], NEW x \in Entities
    PROVE  Total(f) \in Nat /\ f[x] <= Total(f)
<1> DEFINE ff == [i \in 1..Number |-> f[Order[i]]]
<1>1. PICK k \in 1..Number : Order[k] = x
  BY OrderFacts
<1>2. (\A i \in 1..Number : ff[i] \in Nat) /\ ff[k] = f[x]
  BY <1>1, OrderFacts
<1> HIDE DEF ff
<1>3. Number \in Nat
  BY OrderFacts
<1>4. SumTo(ff, Number) \in Nat /\ ff[k] <= SumTo(ff, Number)
  BY <1>2, <1>3, SumCovers
<1> QED BY <1>2, <1>4 DEF Total, ff

\* Nobody has anything: the total is nothing.
LEMMA TotalOfNothing ==
    ASSUME NEW f \in [Entities -> {0}]
    PROVE  Total(f) = 0
<1>1. f \in [Entities -> Int] /\ \A e \in Entities : f[e] = f[e] - f[e]
  OBVIOUS
<1>2. Total(f) = Total(f) - Total(f) /\ Total(f) \in Int
  BY <1>1, TotalDifference
<1> QED BY <1>2

-----------------------------------------------------------------------------
(* What the legs carry. *)

LEMMA CarriedByNone ==
    ASSUME NEW e PROVE CarriedBy(<<>>, e) = 0
BY SumStep DEF CarriedBy

\* A leg more carries its amount for its two parties.
LEMMA CarriedByOneMore ==
    ASSUME NEW list \in Seq(Legs), NEW leg \in Legs, NEW e
    PROVE  /\ CarriedBy(list, e) \in Int
           /\ CarriedBy(Append(list, leg), e) =
                 CarriedBy(list, e) + (IF e \in {leg.from, leg.to} THEN leg.amount ELSE 0)
<1> DEFINE n == Len(list)
           more == Append(list, leg)
           g == [k \in DOMAIN list |-> IF e \in {list[k].from, list[k].to} THEN list[k].amount ELSE 0]
           h == [k \in DOMAIN more |-> IF e \in {more[k].from, more[k].to} THEN more[k].amount ELSE 0]
<1>1. /\ n \in Nat /\ DOMAIN list = 1..n /\ DOMAIN more = 1..(n + 1) /\ Len(more) = n + 1
      /\ more[n + 1] = leg /\ \A k \in 1..n : more[k] = list[k] /\ list[k] \in Legs
  OBVIOUS
<1> HIDE DEF n, more
<1>2. \A k \in 1..n : h[k] = g[k] /\ g[k] \in Int
  BY <1>1 DEF Legs
<1>3. h[n + 1] = IF e \in {leg.from, leg.to} THEN leg.amount ELSE 0
  BY <1>1
<1> HIDE DEF g, h
<1>4. SumTo(g, n) \in Int /\ SumTo(h, n) = SumTo(g, n)
  BY <1>1, <1>2, SumOfIntegers, SumSame
<1>5. SumTo(h, n + 1) = SumTo(h, n) + h[n + 1]
  BY <1>1, SumStep
<1>6. CarriedBy(list, e) = SumTo(g, n) /\ CarriedBy(more, e) = SumTo(h, n + 1)
  BY <1>1 DEF CarriedBy, g, h, n
<1> QED BY <1>3, <1>4, <1>5, <1>6 DEF more

-----------------------------------------------------------------------------
(* The books: of what an entity is still owed or owes, part is waiting to be *)
(* matched, and the rest was let go, at most the tolerance for each place    *)
(* passed.  The two sides of the books differ by what the portfolio does.    *)

Unsent == [e \in Entities |-> Absolute(net[e]) - Carried(e)]

\* The entities of a list that are not passed.
Waiting(list, k) == {list[i] : i \in k..Len(list)}

\* Of what each has in u, what a side has, and what of that nobody waits for.
Of(side, u) == [e \in Entities |-> IF e \in side THEN u[e] ELSE 0]
Lost(side, u, left, list, k) ==
    [e \in Entities |->
        IF e \in side THEN u[e] - (IF e \in Waiting(list, k) THEN left[e] ELSE 0) ELSE 0]

Owing  == {e \in Entities : net[e] < 0}
Owed   == {e \in Entities : net[e] > 0}
Debts  == Of(Owing, Unsent)
Claims == Of(Owed, Unsent)
LostDebts  == Lost(Owing, Unsent, rem, payers, pi)
LostClaims == Lost(Owed, Unsent, rem, receivers, ri)

Passed  == (pi - 1) + (ri - 1)
AllDone == pi = Len(payers) + 1 /\ ri = Len(receivers) + 1

Listed == payers \in Listings(Owing) /\ receivers \in Listings(Owed)

NoneOver == \A e \in Entities : rem[e] <= Unsent[e] /\ (net[e] = 0 => Unsent[e] = 0)

LittleLost ==
    /\ Total(LostDebts) <= Dust * Passed /\ Total(LostClaims) <= Dust * Passed
    /\ AllDone /\ Passed > 0 => \/ Total(LostDebts) <= Dust * (Passed - 1)
                                \/ Total(LostClaims) <= Dust * (Passed - 1)

Books ==
    /\ Closed => Excess = 0
    /\ pc # "net" => /\ Listed /\ NoneOver /\ LittleLost
                     /\ Total(Claims) = Total(Debts) + Excess
    /\ pc = "done" => ~BothLeft

LEMMA UnsentType ==
    ASSUME IInv
    PROVE  Unsent \in [Entities -> Int] /\ \A e \in Entities : Carried(e) \in Int
<1> SUFFICES ASSUME NEW e \in Entities PROVE Carried(e) \in Int /\ Absolute(net[e]) \in Int
  BY DEF Unsent
<1>1. legs \in Seq(Legs) /\ net[e] \in Int
  BY DEF IInv, TypeOK, Legs
<1>2. [from |-> e, to |-> e, amount |-> 0] \in Legs
  BY DEF Legs
<1>3. Carried(e) \in Int
  BY <1>1, <1>2, CarriedByOneMore DEF Carried
<1> QED BY <1>1, <1>3 DEF Absolute

\* A list of a set names all of it, and nobody twice.
LEMMA ListingsAreWhole ==
    ASSUME NEW S \in SUBSET Entities, NEW s \in Listings(S)
    PROVE  /\ Len(s) = Cardinality(S) /\ Len(s) \in Nat
           /\ Waiting(s, 1) = S /\ Waiting(s, Len(s) + 1) = {}
           /\ \A i, j \in 1..Len(s) : s[i] = s[j] => i = j
<1> DEFINE n == Cardinality(S)
<1>1. IsFiniteSet(S)
  BY FS_Subset, NettingAssumption
<1>2. n \in Nat
  BY <1>1, FS_CardinalityType
<1>3. s \in [1..n -> S] /\ \A i, j \in 1..n : s[i] = s[j] => i = j
  BY DEF Listings
<1>4. Cardinality(1..n) = n
  BY <1>2, FS_Interval
<1>5. s \in Injection(1..n, S)
  BY <1>3 DEF Injection, IsInjective
<1>6. s \in Surjection(1..n, S)
  BY <1>1, <1>4, <1>5, FS_Injection
<1>7. \A e \in S : \E i \in 1..n : s[i] = e
  BY <1>6 DEF Surjection
<1>8. Len(s) = n
  <2> HIDE DEF n
  <2> QED BY <1>2, <1>3
<1> HIDE DEF n
<1>9. Waiting(s, 1) = S
  BY <1>3, <1>7, <1>8 DEF Waiting
<1>10. Waiting(s, Len(s) + 1) = {}
  BY <1>2, <1>8 DEF Waiting
<1> QED BY <1>2, <1>3, <1>8, <1>9, <1>10 DEF n

\* Passing a place takes one entity off, who does not come again.
LEMMA PassingOne ==
    ASSUME NEW s, Len(s) \in Nat, NEW k \in 1..Len(s),
           \A i, j \in 1..Len(s) : s[i] = s[j] => i = j
    PROVE  /\ s[k] \in Waiting(s, k) /\ s[k] \notin Waiting(s, k + 1)
           /\ \A e : e # s[k] => (e \in Waiting(s, k) <=> e \in Waiting(s, k + 1))
BY DEF Waiting

LEMMA InitBooks ==
    ASSUME Init PROVE Books
<1>1. net \in [Entities -> {0}]
  BY DEF Init
<1> QED BY <1>1, TotalOfNothing DEF Init, Books, Excess

LEMMA NetBooks ==
    ASSUME IInv, Books, NEW from \in Names, NEW to \in Names, NEW amt \in Amounts,
           Net(from, to, amt)
    PROVE  Books'
<1> SUFFICES ASSUME Closed PROVE Total(net') = 0
  BY DEF Net, Books, Closed, Excess, Total, Order, Number
<1>1. amt \in Int /\ -amt \in Int /\ ids \in [Entities -> Names] /\ net \in [Entities -> Int]
  BY NettingAssumption DEF IInv, TypeOK
<1>2. PICK x \in Entities : \A e \in Entities : ids[e] = from <=> e = x
  BY DEF Closed
<1>3. PICK y \in Entities : \A e \in Entities : ids[e] = to <=> e = y
  BY DEF Closed
<1> DEFINE mid == [net EXCEPT ![x] = @ - amt]
<1>4. /\ mid \in [Entities -> Int]
      /\ mid[x] = net[x] + (-amt) /\ \A e \in Entities \ {x} : mid[e] = net[e]
  BY <1>1
<1>5. net' = [e \in Entities |-> net[e] - (IF e = x THEN amt ELSE 0)
                                        + (IF e = y THEN amt ELSE 0)]
  BY <1>2, <1>3 DEF Net
<1>6. /\ net' \in [Entities -> Int]
      /\ net'[y] = mid[y] + amt /\ \A e \in Entities \ {y} : net'[e] = mid[e]
  BY <1>1, <1>4, <1>5
<1> HIDE DEF mid
<1>7. Total(mid) = Total(net) + (-amt) /\ Total(net) \in Int
  BY <1>1, <1>4, TotalChange
<1>8. Total(net') = Total(mid) + amt
  BY <1>1, <1>4, <1>6, TotalChange
<1>9. Total(net) = 0
  BY DEF Books, Excess
<1> QED BY <1>1, <1>7, <1>8, <1>9

\* The lists are made: everybody waits, and nothing is lost.
LEMMA ListBooks ==
    ASSUME IInv, Books, List
    PROVE  Books'
<1> DEFINE P == {e \in Entities : net[e] < 0}
           R == {e \in Entities : net[e] > 0}
<1>1. /\ payers' \in Listings(P) /\ receivers' \in Listings(R)
      /\ P \in SUBSET Entities /\ R \in SUBSET Entities
  BY DEF List
<1>2. /\ net' = net /\ legs' = <<>> /\ pi' = 1 /\ ri' = 1 /\ pc' = "match"
      /\ rem' = [e \in Entities |-> Absolute(net[e])] /\ net \in [Entities -> Int]
  BY DEF List, IInv, NotYet, TypeOK
<1>3. ids' = ids
  BY DEF List
<1>4. Unsent' = [e \in Entities |-> Absolute(net[e])] /\ \A e \in Entities : Absolute(net[e]) \in Nat
  BY <1>2, CarriedByNone DEF Unsent, Carried, Absolute
<1>5. Listed'
  BY <1>1, <1>2 DEF Listed, Owing, Owed
<1>6. NoneOver'
  BY <1>2, <1>4 DEF NoneOver, Absolute
<1>7. Total(Claims)' = Total(Debts)' + Excess'
  <2>1. /\ \A e \in Entities : net[e] = Claims'[e] - Debts'[e]
        /\ Debts' \in [Entities -> Int] /\ Claims' \in [Entities -> Int]
    <3>1. Debts' \in [Entities -> Int] /\ Claims' \in [Entities -> Int]
      BY <1>4 DEF Debts, Claims, Of
    <3>2. ASSUME NEW e \in Entities PROVE net[e] = Claims'[e] - Debts'[e]
      <4>1. /\ Claims'[e] = IF net[e] > 0 THEN Absolute(net[e]) ELSE 0
            /\ Debts'[e] = IF net[e] < 0 THEN Absolute(net[e]) ELSE 0
        BY <1>2, <1>4 DEF Claims, Debts, Of, Owing, Owed
      <4> QED BY <1>2, <4>1 DEF Absolute
    <3> QED BY <3>1, <3>2
  <2>2. Total(net) = Total(Claims') - Total(Debts') /\ Total(Claims') \in Int /\ Total(Debts') \in Int
    BY <1>2, <2>1, TotalDifference
  <2>3. Excess' = Total(net)
    BY <1>2 DEF Excess, Total, Order, Number
  <2> QED BY <2>2, <2>3 DEF Total, Order, Number
<1>8. LittleLost'
  <2>1. Waiting(payers', 1) = P /\ Waiting(receivers', 1) = R
    <3> HIDE DEF P, R
    <3> QED BY <1>1, ListingsAreWhole
  <2>2. LostDebts' \in [Entities -> {0}] /\ LostClaims' \in [Entities -> {0}]
    BY <1>2, <1>4, <2>1 DEF LostDebts, LostClaims, Lost, Owing, Owed, Waiting
  <2>3. Total(LostDebts') = 0 /\ Total(LostClaims') = 0
    BY <2>2, TotalOfNothing
  <2>4. Passed' = 0
    BY <1>2 DEF Passed
  <2>5. Dust * 0 = 0
    BY NettingAssumption
  <2> QED BY <2>3, <2>4, <2>5 DEF LittleLost, Total, Order, Number
<1>9. Closed' => Excess' = 0
  BY <1>2, <1>3 DEF Books, Closed, Excess, Total, Order, Number
<1> QED BY <1>2, <1>5, <1>6, <1>7, <1>8, <1>9 DEF Books

\* What a match lets go: nothing when it writes a leg, what it settles when not.
LetGo == IF Share > Dust THEN 0 ELSE Share

\* A match that writes a leg takes it off what is unsent of its two parties.
LEMMA SettleUnsent ==
    ASSUME IInv, Settle
    PROVE  /\ \A e \in Entities \ {Payer, Receiver} : Unsent'[e] = Unsent[e]
           /\ \A e \in {Payer, Receiver} : Unsent'[e] = Unsent[e] - (Share - LetGo)
           /\ LetGo \in 0..Dust /\ Share - LetGo \in Nat
<1>1. /\ Payer \in Entities /\ Receiver \in Entities /\ Share \in Nat /\ Leg \in Legs
      /\ legs' = IF Share > Dust THEN Append(legs, Leg) ELSE legs
      /\ net' = net
  BY SettleFacts
<1>2. legs \in Seq(Legs) /\ Leg.from = Payer /\ Leg.to = Receiver /\ Leg.amount = Share
  BY DEF IInv, TypeOK, Legs, Leg
<1>3. LetGo \in 0..Dust /\ Share - LetGo \in Nat
  BY <1>1, NettingAssumption DEF LetGo
<1>4. ASSUME NEW e \in Entities
      PROVE  Carried(e)' = Carried(e) + (IF e \in {Payer, Receiver} THEN Share - LetGo ELSE 0)
  <2>1. CarriedBy(legs, e) \in Int
        /\ CarriedBy(Append(legs, Leg), e) =
              CarriedBy(legs, e) + (IF e \in {Payer, Receiver} THEN Share ELSE 0)
    <3>1. CarriedBy(Append(legs, Leg), e) =
              CarriedBy(legs, e) + (IF e \in {Leg.from, Leg.to} THEN Leg.amount ELSE 0)
      BY <1>1, <1>2, CarriedByOneMore
    <3>2. CarriedBy(legs, e) \in Int
      BY <1>1, <1>2, CarriedByOneMore
    <3> QED BY <1>2, <3>1, <3>2
  <2>2. Carried(e)' = CarriedBy(legs', e) /\ Carried(e) = CarriedBy(legs, e)
    BY DEF Carried
  <2>3. CASE Share > Dust
    <3>1. legs' = Append(legs, Leg) /\ LetGo = 0
      BY <1>1, <2>3 DEF LetGo
    <3> QED BY <1>1, <2>1, <2>2, <3>1
  <2>4. CASE ~(Share > Dust)
    <3>1. legs' = legs /\ LetGo = Share
      BY <1>1, <2>4 DEF LetGo
    <3> QED BY <1>1, <2>1, <2>2, <3>1
  <2> QED BY <2>3, <2>4
<1>5. \A e \in Entities : Absolute(net[e]) \in Int /\ Carried(e) \in Int
  BY UnsentType DEF IInv, TypeOK, Absolute
<1>6. \A e \in Entities : Unsent'[e] = Absolute(net[e]) - Carried(e)'
  BY <1>1 DEF Unsent
<1>7. ASSUME NEW e \in Entities \ {Payer, Receiver} PROVE Unsent'[e] = Unsent[e]
  BY <1>4, <1>5, <1>6, <1>7 DEF Unsent
<1>8. ASSUME NEW e \in {Payer, Receiver} PROVE Unsent'[e] = Unsent[e] - (Share - LetGo)
  BY <1>1, <1>3, <1>4, <1>5, <1>6, <1>8 DEF Unsent
<1> QED BY <1>3, <1>7, <1>8

\* What a party stops waiting for: the rest of what is left, if it is passed.
Abandoned(left) == IF left < Dust THEN left ELSE 0

\* One side of a match: the party at place k of its list gives up c, of which g is
\* let go, and the list goes on to place l.
GivesUp(side, u, v, left, rest, s, k, l, c, g) ==
    /\ side \in SUBSET Entities
    /\ u \in [Entities -> Int] /\ v \in [Entities -> Int]
    /\ left \in [Entities -> Nat] /\ rest \in [Entities -> Nat]
    /\ Len(s) \in Nat /\ \A i, j \in 1..Len(s) : s[i] = s[j] => i = j
    /\ k \in 1..Len(s) /\ s[k] \in side /\ c \in Int /\ g \in Int
    /\ v[s[k]] = u[s[k]] - (c - g) /\ rest[s[k]] = left[s[k]] - c
    /\ \A e \in side \ {s[k]} : v[e] = u[e] /\ rest[e] = left[e]
    /\ l = IF rest[s[k]] < Dust THEN k + 1 ELSE k

LEMMA OneSide ==
    ASSUME NEW side, NEW u, NEW v, NEW left, NEW rest, NEW s, NEW k, NEW l, NEW c, NEW g,
           GivesUp(side, u, v, left, rest, s, k, l, c, g)
    PROVE  /\ Total(Of(side, v)) = Total(Of(side, u)) - (c - g) /\ Total(Of(side, u)) \in Int
           /\ Total(Lost(side, v, rest, s, l)) =
                 Total(Lost(side, u, left, s, k)) + (g + Abandoned(rest[s[k]]))
           /\ Total(Lost(side, u, left, s, k)) \in Int
<1> DEFINE f == Of(side, u)
           h == Of(side, v)
           before == Lost(side, u, left, s, k)
           after == Lost(side, v, rest, s, l)
           x == s[k]
           d == -(c - g)
           a == g + Abandoned(rest[x])
<1>0. /\ side \in SUBSET Entities
      /\ u \in [Entities -> Int] /\ v \in [Entities -> Int]
      /\ left \in [Entities -> Nat] /\ rest \in [Entities -> Nat]
      /\ Len(s) \in Nat /\ \A i, j \in 1..Len(s) : s[i] = s[j] => i = j
      /\ k \in 1..Len(s) /\ x \in side /\ c \in Int /\ g \in Int
      /\ v[x] = u[x] - (c - g) /\ rest[x] = left[x] - c
      /\ \A e \in side \ {x} : v[e] = u[e] /\ rest[e] = left[e]
      /\ l = IF rest[x] < Dust THEN k + 1 ELSE k
  BY DEF GivesUp
<1>1. /\ x \in Waiting(s, k) /\ x \notin Waiting(s, k + 1)
      /\ \A e : e # x => (e \in Waiting(s, k) <=> e \in Waiting(s, k + 1))
  BY <1>0, PassingOne
<1>2. x \in Entities /\ d \in Int /\ a \in Int
  BY <1>0, NettingAssumption DEF Abandoned
<1> HIDE DEF x
<1>3. f \in [Entities -> Int] /\ h \in [Entities -> Int]
  BY <1>0 DEF Of
<1>4. h[x] = f[x] + d /\ \A e \in Entities \ {x} : h[e] = f[e]
  BY <1>0, <1>2 DEF Of
<1>5. before \in [Entities -> Int] /\ after \in [Entities -> Int]
  <2>1. \A e \in Entities : u[e] \in Int /\ v[e] \in Int /\ left[e] \in Int /\ rest[e] \in Int
    BY <1>0
  <2> QED BY <2>1 DEF Lost
<1>6. before[x] = u[x] - left[x]
  BY <1>0, <1>1, <1>2 DEF Lost
<1>7. after[x] = v[x] - (rest[x] - Abandoned(rest[x]))
  <2>1. (IF x \in Waiting(s, l) THEN rest[x] ELSE 0) = rest[x] - Abandoned(rest[x])
    BY <1>0, <1>1, <1>2 DEF Abandoned
  <2> QED BY <1>0, <1>2, <2>1 DEF Lost
<1>8. after[x] = before[x] + a
  <2>1. u[x] \in Int /\ left[x] \in Int /\ Abandoned(rest[x]) \in Int
    BY <1>0, <1>2, NettingAssumption DEF Abandoned
  <2> QED BY <1>0, <1>6, <1>7, <2>1
<1>9. ASSUME NEW e \in Entities \ {x} PROVE after[e] = before[e]
  <2>1. e \in Waiting(s, l) <=> e \in Waiting(s, k)
    BY <1>0, <1>1
  <2> QED BY <1>0, <1>9, <2>1 DEF Lost
<1> HIDE DEF f, h, before, after, d, a
<1>10. Total(h) = Total(f) + d /\ Total(f) \in Int
  <2>1. h = [f EXCEPT ![x] = f[x] + d]
    BY ONLY <1>2, <1>3, <1>4
  <2> QED BY ONLY <1>2, <1>3, <2>1, TotalBump
<1>11. Total(after) = Total(before) + a /\ Total(before) \in Int
  <2>1. after = [before EXCEPT ![x] = before[x] + a]
    BY ONLY <1>2, <1>5, <1>8, <1>9
  <2> QED BY ONLY <1>2, <1>5, <2>1, TotalBump
<1> QED BY <1>10, <1>11 DEF f, h, before, after, d, a, x

\* The totals after a match.
LEMMA SettleTotals ==
    ASSUME IInv, Books, Settle
    PROVE  /\ Total(Debts') = Total(Debts) - (Share - LetGo) /\ Total(Debts) \in Int
           /\ Total(Claims') = Total(Claims) - (Share - LetGo) /\ Total(Claims) \in Int
           /\ Total(LostDebts') = Total(LostDebts) + (LetGo + Abandoned(rem'[Payer]))
           /\ Total(LostClaims') = Total(LostClaims) + (LetGo + Abandoned(rem'[Receiver]))
           /\ Total(LostDebts) \in Int /\ Total(LostClaims) \in Int
<1>1. /\ pi \in 1..Len(payers) /\ ri \in 1..Len(receivers)
      /\ Len(payers) \in Nat /\ Len(receivers) \in Nat
      /\ Payer \in Owing /\ Receiver \in Owed
      /\ Share \in Int /\ rem' \in [Entities -> Nat]
      /\ rem'[Payer] = rem[Payer] - Share /\ rem'[Receiver] = rem[Receiver] - Share
      /\ \A e \in Entities \ {Payer, Receiver} : rem'[e] = rem[e]
  BY SettleFacts DEF Owing, Owed
<1>2. /\ pi' = IF rem'[Payer] < Dust THEN pi + 1 ELSE pi
      /\ ri' = IF rem'[Receiver] < Dust THEN ri + 1 ELSE ri
      /\ UNCHANGED <<net, payers, receivers>>
  BY SettleFacts
<1>3. /\ \A e \in Entities \ {Payer, Receiver} : Unsent'[e] = Unsent[e]
      /\ Unsent'[Payer] = Unsent[Payer] - (Share - LetGo)
      /\ Unsent'[Receiver] = Unsent[Receiver] - (Share - LetGo)
      /\ LetGo \in Int
  BY SettleUnsent
<1>4. /\ Unsent \in [Entities -> Int] /\ Unsent' \in [Entities -> Int]
      /\ rem \in [Entities -> Nat] /\ net \in [Entities -> Int]
  <2>1. Unsent \in [Entities -> Int]
    BY UnsentType
  <2>2. \A e \in Entities : Unsent'[e] \in Int
    BY <1>1, <1>3, <2>1
  <2>3. Unsent' = [e \in Entities |-> Unsent'[e]]
    BY DEF Unsent
  <2> QED BY <2>1, <2>2, <2>3 DEF IInv, TypeOK
<1>5. /\ \A i, j \in 1..Len(payers) : payers[i] = payers[j] => i = j
      /\ \A i, j \in 1..Len(receivers) : receivers[i] = receivers[j] => i = j
  <2>1. /\ payers \in Listings(Owing) /\ receivers \in Listings(Owed)
        /\ Owing \in SUBSET Entities /\ Owed \in SUBSET Entities
    BY SettleFacts DEF Books, Listed, Owing, Owed
  <2> QED BY <2>1, ListingsAreWhole
<1>6. /\ Owing' = Owing /\ Owed' = Owed /\ Owing \cap Owed = {}
      /\ Owing \in SUBSET Entities /\ Owed \in SUBSET Entities
  BY <1>2, <1>4 DEF Owing, Owed
<1>7. /\ Debts' = Of(Owing, Unsent') /\ Claims' = Of(Owed, Unsent')
      /\ LostDebts' = Lost(Owing, Unsent', rem', payers, pi')
      /\ LostClaims' = Lost(Owed, Unsent', rem', receivers, ri')
  BY <1>2, <1>6 DEF Debts, Claims, LostDebts, LostClaims, Of, Lost, Waiting
<1>8. /\ Total(Of(Owing, Unsent')) = Total(Of(Owing, Unsent)) - (Share - LetGo)
      /\ Total(Of(Owing, Unsent)) \in Int
      /\ Total(Lost(Owing, Unsent', rem', payers, pi')) =
            Total(Lost(Owing, Unsent, rem, payers, pi)) + (LetGo + Abandoned(rem'[Payer]))
      /\ Total(Lost(Owing, Unsent, rem, payers, pi)) \in Int
  <2>1. \A e \in Owing \ {Payer} : Unsent'[e] = Unsent[e] /\ rem'[e] = rem[e]
    BY <1>1, <1>3, <1>6
  <2>2. Payer = payers[pi]
    BY DEF Payer
  <2>3. GivesUp(Owing, Unsent, Unsent', rem, rem', payers, pi, pi', Share, LetGo)
    BY ONLY <1>1, <1>2, <1>3, <1>4, <1>5, <1>6, <2>1, <2>2 DEF GivesUp
  <2> QED BY ONLY <2>2, <2>3, OneSide
<1>9. /\ Total(Of(Owed, Unsent')) = Total(Of(Owed, Unsent)) - (Share - LetGo)
      /\ Total(Of(Owed, Unsent)) \in Int
      /\ Total(Lost(Owed, Unsent', rem', receivers, ri')) =
            Total(Lost(Owed, Unsent, rem, receivers, ri)) + (LetGo + Abandoned(rem'[Receiver]))
      /\ Total(Lost(Owed, Unsent, rem, receivers, ri)) \in Int
  <2>1. \A e \in Owed \ {Receiver} : Unsent'[e] = Unsent[e] /\ rem'[e] = rem[e]
    BY <1>1, <1>3, <1>6
  <2>2. Receiver = receivers[ri]
    BY DEF Receiver
  <2>3. GivesUp(Owed, Unsent, Unsent', rem, rem', receivers, ri, ri', Share, LetGo)
    BY ONLY <1>1, <1>2, <1>3, <1>4, <1>5, <1>6, <2>1, <2>2 DEF GivesUp
  <2> QED BY ONLY <2>2, <2>3, OneSide
<1> QED BY <1>7, <1>8, <1>9 DEF Debts, Claims, LostDebts, LostClaims

\* Each place passed allows for the tolerance once; where both are passed one of
\* the two parties left nothing, and its side has one to spare.
LEMMA SideLoss ==
    ASSUME NEW l \in Int, NEW n \in Nat, NEW k \in 1..2, NEW g \in 0..Dust, NEW b \in 0..Dust,
           l <= Dust * n, b = 0 \/ k = 2
    PROVE  /\ l + (g + b) <= Dust * (n + k)
           /\ b = 0 => l + (g + b) <= Dust * (n + 1)
<1>1. Dust \in Nat
  BY NettingAssumption
<1>2. Dust * n \in Nat /\ Dust * (n + 1) = Dust * n + Dust /\ Dust * (n + 2) = Dust * n + Dust + Dust
  BY <1>1
<1> DEFINE w == Dust * n
<1>3. l <= w /\ w \in Nat /\ Dust * (n + 1) = w + Dust /\ Dust * (n + 2) = w + Dust + Dust
  BY <1>2
<1> HIDE DEF w
<1>4. CASE k = 1
  BY <1>1, <1>3, <1>4
<1>5. CASE k = 2
  BY <1>1, <1>3, <1>5
<1> QED BY <1>4, <1>5

LEMMA SettleLittleLost ==
    ASSUME IInv, Books, Settle
    PROVE  LittleLost'
<1>1. /\ pi \in 1..Len(payers) /\ ri \in 1..Len(receivers)
      /\ Len(payers) \in Nat /\ Len(receivers) \in Nat
      /\ Payer \in Entities /\ Receiver \in Entities /\ rem' \in [Entities -> Nat]
      /\ rem'[Payer] = 0 \/ rem'[Receiver] = 0
      /\ pi' = IF rem'[Payer] < Dust THEN pi + 1 ELSE pi
      /\ ri' = IF rem'[Receiver] < Dust THEN ri + 1 ELSE ri
      /\ UNCHANGED <<payers, receivers>>
  BY SettleFacts
<1> DEFINE x == rem'[Payer]
           y == rem'[Receiver]
           k == (pi' - pi) + (ri' - ri)
<1>2. x \in Nat /\ y \in Nat /\ (x = 0 \/ y = 0) /\ Dust \in Nat \ {0}
  BY <1>1, NettingAssumption
<1>3. /\ pi' = IF x < Dust THEN pi + 1 ELSE pi
      /\ ri' = IF y < Dust THEN ri + 1 ELSE ri
  BY <1>1
<1>4. LetGo \in 0..Dust
  BY SettleUnsent
<1>5. /\ LittleLost /\ Total(LostDebts) \in Int /\ Total(LostClaims) \in Int
      /\ Total(LostDebts') = Total(LostDebts) + (LetGo + Abandoned(x))
      /\ Total(LostClaims') = Total(LostClaims) + (LetGo + Abandoned(y))
  <2>1. pc # "net"
    BY SettleFacts
  <2> QED BY <2>1, SettleTotals DEF Books
<1> HIDE DEF x, y
<1>6. Passed \in Nat /\ k \in 1..2 /\ Passed' = Passed + k
  BY <1>1, <1>2, <1>3 DEF Passed
<1>7. /\ Abandoned(x) \in 0..Dust /\ Abandoned(y) \in 0..Dust
      /\ Abandoned(x) = 0 \/ (k = 2 /\ Abandoned(y) = 0)
      /\ Abandoned(y) = 0 \/ (k = 2 /\ Abandoned(x) = 0)
  BY <1>1, <1>2, <1>3 DEF Abandoned
<1>8. AllDone' => k = 2
  BY <1>1 DEF AllDone
<1> HIDE DEF k
<1>9. Total(LostDebts) <= Dust * Passed /\ Total(LostClaims) <= Dust * Passed
  BY <1>5 DEF LittleLost
<1>10. /\ Total(LostDebts') <= Dust * (Passed + k)
       /\ Abandoned(x) = 0 => Total(LostDebts') <= Dust * (Passed + 1)
  BY <1>4, <1>5, <1>6, <1>7, <1>9, SideLoss
<1>11. /\ Total(LostClaims') <= Dust * (Passed + k)
       /\ Abandoned(y) = 0 => Total(LostClaims') <= Dust * (Passed + 1)
  BY <1>4, <1>5, <1>6, <1>7, <1>9, SideLoss
<1>12. AllDone' => \/ Total(LostDebts') <= Dust * (Passed' - 1)
                   \/ Total(LostClaims') <= Dust * (Passed' - 1)
  <2>1. AllDone' => Passed' - 1 = Passed + 1
    BY <1>6, <1>8
  <2> QED BY <1>7, <1>10, <1>11, <2>1
<1> QED BY <1>6, <1>10, <1>11, <1>12 DEF LittleLost, Total, Order, Number

LEMMA SettleBooks ==
    ASSUME IInv, Books, Settle
    PROVE  Books'
<1>1. /\ Payer \in Entities /\ Receiver \in Entities /\ rem' \in [Entities -> Nat]
      /\ net[Payer] < 0 /\ net[Receiver] > 0 /\ Share \in Nat
      /\ rem'[Payer] = rem[Payer] - Share /\ rem'[Receiver] = rem[Receiver] - Share
      /\ \A e \in Entities \ {Payer, Receiver} : rem'[e] = rem[e]
      /\ pc = "match" /\ UNCHANGED <<ids, net, payers, receivers, pc>>
  BY SettleFacts
<1>2. /\ Listed /\ NoneOver /\ Total(Claims) = Total(Debts) + Excess
      /\ Closed => Excess = 0
  BY <1>1 DEF Books
<1>3. NoneOver'
  <2>1. /\ \A e \in Entities \ {Payer, Receiver} : Unsent'[e] = Unsent[e]
        /\ \A e \in {Payer, Receiver} : Unsent'[e] = Unsent[e] - (Share - LetGo)
        /\ LetGo \in 0..Dust /\ Share - LetGo \in Nat
    BY SettleUnsent
  <2>2. Dust \in Nat /\ \A e \in Entities : Unsent[e] \in Int /\ rem[e] \in Int /\ net[e] \in Int
    BY UnsentType, NettingAssumption DEF IInv, TypeOK
  <2> SUFFICES ASSUME NEW e \in Entities
               PROVE  rem'[e] <= Unsent'[e] /\ (net[e] = 0 => Unsent'[e] = 0)
    BY <1>1 DEF NoneOver
  <2>3. rem[e] <= Unsent[e] /\ (net[e] = 0 => Unsent[e] = 0)
    BY <1>2 DEF NoneOver
  <2>4. CASE e \in {Payer, Receiver}
    <3>1. rem'[e] = rem[e] - Share /\ Unsent'[e] = Unsent[e] - (Share - LetGo) /\ net[e] # 0
      BY <1>1, <2>1, <2>2, <2>4
    <3> QED BY <1>1, <2>1, <2>2, <2>3, <3>1
  <2>5. CASE e \notin {Payer, Receiver}
    BY <1>1, <2>1, <2>3, <2>5
  <2> QED BY <2>4, <2>5
<1>4. Excess' = Excess /\ (Closed' <=> Closed)
  BY <1>1 DEF Excess, Closed, Total, Order, Number
<1>5. Total(Claims') = Total(Debts') + Excess'
  <2>1. /\ Total(Debts') = Total(Debts) - (Share - LetGo) /\ Total(Debts) \in Int
        /\ Total(Claims') = Total(Claims) - (Share - LetGo)
    BY SettleTotals
  <2>2. Excess \in Int /\ Share - LetGo \in Int
    <3>1. net \in [Entities -> Int] /\ \A e \in Entities : net[e] = net[e] - 0
      BY DEF IInv, TypeOK
    <3>2. Total(net) \in Int
      BY <1>1, <3>1, TotalBump
    <3> QED BY <3>2, SettleUnsent DEF Excess
  <2> QED BY <1>2, <1>4, <2>1, <2>2
<1>6. Listed'
  BY <1>1, <1>2 DEF Listed, Owing, Owed
<1> QED BY <1>1, <1>2, <1>3, <1>4, <1>5, <1>6, SettleLittleLost DEF Books, Total, Order, Number

LEMMA StepBooks == IInv /\ Books /\ [Next]_vars => Books'
<1> SUFFICES ASSUME IInv, Books, [Next]_vars PROVE Books'
  OBVIOUS
<1> USE DEF Books, Listed, NoneOver, LittleLost, AllDone, Passed, BothLeft, Total, Order, Number,
            Closed, Excess, Debts, Claims, LostDebts, LostClaims, Of, Lost, Waiting, Unsent, Carried, Owing, Owed
<1>1. ASSUME NEW from \in Names, NEW to \in Names, NEW amt \in Amounts,
             Net(from, to, amt)
      PROVE  Books'
  BY <1>1, NetBooks
<1>2. CASE List
  BY <1>2, ListBooks
<1>3. CASE Settle
  BY <1>3, SettleBooks
<1>4. CASE End
  <2>1. UNCHANGED <<ids, net, payers, receivers, pi, ri, rem, legs>> /\ pc = "match" /\ ~BothLeft
    BY <1>4 DEF End
  <2> QED BY <2>1
<1>5. CASE UNCHANGED vars
  BY <1>5 DEF vars
<1> QED BY <1>1, <1>2, <1>3, <1>4, <1>5 DEF Next

\* For any portfolio, closed or not: what is unsent of the claims is what is unsent
\* of the debts and the portfolio's imbalance, which is nothing when every id has
\* one entry; and of either side no more than the tolerance was let go for each
\* place passed.
THEOREM NettingBooks == Spec => []Books
<1>1. Init => Books
  BY InitBooks
<1> QED BY <1>1, StepBooks, NettingInvariant, PTL DEF Spec

-----------------------------------------------------------------------------
\* When a list is over its side has lost what it has not sent.
LEMMA OverIsLost ==
    ASSUME NEW side, NEW u, NEW left, NEW s, NEW k, Waiting(s, k) = {},
           u \in [Entities -> Int]
    PROVE  Lost(side, u, left, s, k) = Of(side, u)
<1>1. \A e \in Entities : u[e] \in Int /\ u[e] - 0 = u[e]
  OBVIOUS
<1> QED BY <1>1 DEF Lost, Of

LEMMA DoneIsSettled == ASSUME IInv, Books, pc = "done" PROVE Settled
<1>1. /\ Listed /\ NoneOver /\ Total(Claims) = Total(Debts) + Excess /\ LittleLost /\ ~BothLeft
      /\ Closed => Excess = 0
  BY DEF Books
<1>2. Unsent \in [Entities -> Int] /\ rem \in [Entities -> Nat] /\ net \in [Entities -> Int]
  BY UnsentType DEF IInv, TypeOK
<1>3. \A e \in Entities : Unsent[e] \in Nat
  BY <1>1, <1>2 DEF NoneOver
<1>4. Debts \in [Entities -> Nat] /\ Claims \in [Entities -> Nat]
  BY <1>3 DEF Debts, Claims, Of
<1>5. /\ Len(payers) \in Nat /\ Len(receivers) \in Nat
      /\ Waiting(payers, 1) = Owing /\ Waiting(receivers, 1) = Owed
      /\ Waiting(payers, Len(payers) + 1) = {} /\ Waiting(receivers, Len(receivers) + 1) = {}
  <2>1. Owing \in SUBSET Entities /\ Owed \in SUBSET Entities
    BY DEF Owing, Owed
  <2> QED BY <1>1, <2>1, ListingsAreWhole DEF Listed
<1>6. pi \in 1..(Len(payers) + 1) /\ ri \in 1..(Len(receivers) + 1)
  BY DEF IInv, TypeOK
<1> SUFFICES ASSUME NEW e \in Entities
             PROVE  Unsent[e] \in 0..(Absolute(Excess)
                                       + (IF Parties = 0 THEN 0 ELSE Dust * (Parties - 1)))
  BY <1>1 DEF Settled, Unsent
<1> DEFINE x == Excess
           w == Absolute(x)
<1>0. x \in Int /\ w \in Nat /\ x <= w /\ -x <= w
  <2>1. Total(net) \in Int
    BY <1>2, TotalBump
  <2> QED BY <2>1 DEF Excess, Absolute
<1>7. CASE Parties = 0
  <2>1. 1..Len(payers) = {} /\ 1..Len(receivers) = {}
    BY <1>5, <1>7 DEF Parties
  <2>2. Owing = {} /\ Owed = {}
    BY <1>5, <2>1 DEF Waiting
  <2>3. net[e] = 0
    BY <1>2, <2>2 DEF Owing, Owed
  <2>4. Unsent[e] = 0
    BY <1>1, <2>3 DEF NoneOver
  <2> HIDE DEF w
  <2>5. Unsent[e] \in 0..w /\ Unsent[e] \in 0..(w + 0)
    BY <1>0, <2>4
  <2> QED BY <1>7, <2>5 DEF w, x
<1>8. CASE Parties # 0
  <2> DEFINE t == Total(Debts)
             u == Total(Claims)
             p == Parties
             o == Dust * (p - 1)
  <2>1. p \in Nat \ {0} /\ Dust \in Nat /\ Passed \in Nat
    BY <1>5, <1>6, <1>8, NettingAssumption DEF Parties, Passed
  <2>2. t \in Nat /\ u \in Nat /\ u = t + x /\ Debts[e] <= t /\ Claims[e] <= u
    BY <1>1, <1>4, TotalCovers
  <2>3. pi = Len(payers) + 1 => LostDebts = Debts
    BY <1>2, <1>5, OverIsLost DEF LostDebts, Debts
  <2>4. ri = Len(receivers) + 1 => LostClaims = Claims
    BY <1>2, <1>5, OverIsLost DEF LostClaims, Claims
  <2>5. t <= o \/ u <= o
    <3>1. CASE AllDone
      <4>1. LostDebts = Debts /\ LostClaims = Claims
        BY <2>3, <2>4, <3>1 DEF AllDone
      <4>2. Passed = p
        BY <1>5, <3>1 DEF AllDone, Passed, Parties
      <4> QED BY <1>1, <2>1, <3>1, <4>1, <4>2 DEF LittleLost
    <3>2. CASE ~AllDone
      <4>1. t <= Dust * Passed \/ u <= Dust * Passed
        BY <1>1, <1>5, <1>6, <2>3, <2>4 DEF BothLeft, LittleLost
      <4>2. Passed <= p - 1
        BY <1>5, <1>6, <3>2 DEF AllDone, Passed, Parties
      <4>3. Dust * Passed \in Nat /\ Dust * (p - 1) = Dust * Passed + Dust * (p - 1 - Passed)
            /\ Dust * (p - 1 - Passed) \in Nat
        <5> HIDE DEF p
        <5> QED BY <2>1, <4>2
      <4> QED BY <2>2, <4>1, <4>3
    <3> QED BY <3>1, <3>2
  <2>6. Unsent[e] <= t \/ Unsent[e] <= u
    <3>1. CASE net[e] < 0
      BY <2>2, <3>1 DEF Debts, Of, Owing
    <3>2. CASE net[e] > 0
      BY <2>2, <3>2 DEF Claims, Of, Owed
    <3>3. CASE net[e] = 0
      BY <1>1, <2>2, <3>3 DEF NoneOver
    <3> QED BY <1>2, <3>1, <3>2, <3>3
  <2>7. o \in Nat
    BY <2>1
  <2> HIDE DEF t, u, p, o, w, x
  <2>8. Unsent[e] \in 0..(w + o)
    BY <1>0, <1>3, <2>2, <2>5, <2>6, <2>7
  <2> QED BY <1>8, <2>8 DEF p, o, w, x
<1> QED BY <1>7, <1>8

\* For any portfolio: when the kernel is done every net position is settled, but for
\* the tolerance once for each party other than one, and but for the portfolio's
\* imbalance, which is nothing when every id a position may give has one entry.
THEOREM NettingSettles == Spec => []Settled
<1>1. IInv /\ Books => Settled
  <2>1. pc # "done" => Settled
    BY DEF Settled
  <2> QED BY <2>1, DoneIsSettled
<1> QED BY <1>1, NettingInvariant, NettingBooks, PTL

-----------------------------------------------------------------------------
(* Id reservations. *)

\* What a Sync that pushes leaves of the shards.
After == [id \in Ids |-> IF Moves(id, MergedShards) THEN legacy["ours"][id]
                                                     ELSE MergedShards[id]]

LEMMA TypeInit == RegistryInit => RegistryTypeOK
  BY ReservationsAssumption DEF RegistryInit, RegistryTypeOK, Registry, Sides, Open, Refused

LEMMA MergedType == RegistryTypeOK => MergedShards \in Registry /\ After \in Registry
<1> SUFFICES ASSUME RegistryTypeOK PROVE MergedShards \in Registry /\ After \in Registry
  OBVIOUS
<1>1. legacy["ours"] \in Registry /\ shard["ours"] \in Registry /\ shard["theirs"] \in Registry
  BY DEF RegistryTypeOK, Sides
<1>2. MergedShards \in Registry
  BY <1>1 DEF MergedShards, Registry
<1>3. After \in Registry
  BY <1>1, <1>2 DEF After, Registry
<1> QED
  BY <1>2, <1>3

\* How a Sync ends.
LEMMA SyncEnds ==
  ASSUME RegistryTypeOK, Sync
  PROVE  /\ UNCHANGED <<legacy, shard, minted, edits>>
         /\ \A id \in Ids : ~Clash(id)
         /\ \/ /\ \/ \E id \in Ids : Refuses(id, shard["theirs"]) \/ Refuses(id, MergedShards)
                  \/ ~SeedCheck(legacy["theirs"], After)
               /\ merged' = Refused
            \/ /\ \A id \in Ids : ~Refuses(id, MergedShards)
               /\ SeedCheck(legacy["theirs"], After)
               /\ merged' = Pushed(legacy["theirs"], After)
  BY Zenon DEF Sync, After

LEMMA TypeStep == RegistryTypeOK /\ [RegistryNext]_registryVars => RegistryTypeOK'
<1> SUFFICES ASSUME RegistryTypeOK, [RegistryNext]_registryVars PROVE RegistryTypeOK'
  OBVIOUS
<1> USE ReservationsAssumption
<1>1. ASSUME NEW side \in {"ours", "theirs"}, NEW id \in Ids,
             NEW entry \in Entries \cup {None}, Edit(side, id, entry)
      PROVE  RegistryTypeOK'
  <2>1. [legacy EXCEPT ![side][id] = entry] \in [Sides -> Registry]
    BY <1>1 DEF RegistryTypeOK, Registry, Sides
  <2>2. [shard EXCEPT ![side][id] = entry] \in [Sides -> Registry]
    BY <1>1 DEF RegistryTypeOK, Registry, Sides
  <2>3. edits' \in 0..MaxEdits
    BY <1>1 DEF Edit, RegistryTypeOK
  <2> QED
    BY <1>1, <2>1, <2>2, <2>3 DEF Edit, RegistryTypeOK
<1>2. ASSUME NEW id \in Ids, Mint(id) PROVE RegistryTypeOK'
  BY <1>2 DEF Mint, RegistryTypeOK
<1>3. CASE Sync
  <2>1. legacy["theirs"] \in Registry
    BY DEF RegistryTypeOK, Sides
  <2>2. Pushed(legacy["theirs"], After) \in {Pushed(l, s) : l \in Registry, s \in Registry}
    BY <2>1, MergedType
  <2>3. merged' \in {Refused, Pushed(legacy["theirs"], After)}
    BY <1>3, SyncEnds
  <2> QED
    BY <1>3, <2>2, <2>3, SyncEnds DEF RegistryTypeOK
<1>4. CASE UNCHANGED registryVars
  BY <1>4 DEF RegistryTypeOK, registryVars
<1> QED
  BY <1>1, <1>2, <1>3, <1>4 DEF RegistryNext

\* What becomes of one id in a merge that is pushed.
LEMMA OneIdKept ==
  ASSUME RegistryTypeOK, NEW id \in Ids, ~Clash(id), ~Refuses(id, MergedShards),
         ~Mismatch(legacy["theirs"], After, id)
  PROVE  /\ Added(legacy, id) => Told(legacy["theirs"], After, id) = legacy["ours"][id]
         /\ Added(shard, id) => Told(legacy["theirs"], After, id) = shard["ours"][id]
         /\ LET main == Told(legacy["theirs"], shard["theirs"], id)
            IN  main # None /\ shard["base"][id] \in {None, shard["ours"][id]} =>
                   Told(legacy["theirs"], After, id) = main
<1>1. After[id] = IF Moves(id, MergedShards) THEN legacy["ours"][id] ELSE MergedShards[id]
  BY DEF After
<1>2. MergedShards[id] = IF shard["ours"][id] = shard["base"][id]
                         THEN shard["theirs"][id] ELSE shard["ours"][id]
  BY DEF MergedShards
<1>3. Added(legacy, id) => Told(legacy["theirs"], After, id) = legacy["ours"][id]
  BY <1>1 DEF Added, Told, Refuses, Taken, Moves
<1>4. Added(shard, id) => Told(legacy["theirs"], After, id) = shard["ours"][id]
  BY <1>1, <1>2 DEF Added, Told, Moves
<1>5. ASSUME Told(legacy["theirs"], shard["theirs"], id) # None,
             shard["base"][id] \in {None, shard["ours"][id]}
      PROVE  Told(legacy["theirs"], After, id) = Told(legacy["theirs"], shard["theirs"], id)
  BY <1>1, <1>2, <1>5 DEF Told, Clash, Mismatch, Moves
<1> QED
  BY <1>3, <1>4, <1>5

LEMMA KeptStep == RegistryTypeOK /\ NothingLost /\ [RegistryNext]_registryVars => NothingLost'
<1> SUFFICES ASSUME RegistryTypeOK, NothingLost, [RegistryNext]_registryVars PROVE NothingLost'
  OBVIOUS
<1>1. ASSUME NEW side \in {"ours", "theirs"}, NEW id \in Ids,
             NEW entry \in Entries \cup {None}, Edit(side, id, entry)
      PROVE  NothingLost'
  BY <1>1 DEF Edit, NothingLost, Open
<1>2. ASSUME NEW id \in Ids, Mint(id) PROVE NothingLost'
  BY <1>2 DEF Mint, NothingLost, Open
<1>3. CASE Sync
  <2>1. CASE merged' = Refused
    BY <2>1 DEF NothingLost, Refused
  <2>2. CASE /\ \A id \in Ids : ~Refuses(id, MergedShards)
             /\ SeedCheck(legacy["theirs"], After)
             /\ merged' = Pushed(legacy["theirs"], After)
    <3>1. merged'.legacy = legacy["theirs"] /\ merged'.shard = After
      BY <2>2 DEF Pushed
    <3>2. legacy' = legacy /\ shard' = shard
      BY <1>3, SyncEnds
    <3>3. ASSUME NEW id \in Ids
          PROVE  /\ Added(legacy, id) => Told(legacy["theirs"], After, id) = legacy["ours"][id]
                 /\ Added(shard, id) => Told(legacy["theirs"], After, id) = shard["ours"][id]
                 /\ LET main == Told(legacy["theirs"], shard["theirs"], id)
                    IN  main # None /\ shard["base"][id] \in {None, shard["ours"][id]} =>
                           Told(legacy["theirs"], After, id) = main
      <4>1. ~Clash(id)
        BY <1>3, SyncEnds
      <4>2. ~Refuses(id, MergedShards) /\ ~Mismatch(legacy["theirs"], After, id)
        BY <2>2 DEF SeedCheck
      <4> QED
        BY <4>1, <4>2, OneIdKept
    <3>4. SUFFICES ASSUME NEW id \in Ids
                   PROVE  /\ \A registry \in {legacy', shard'} :
                                Added(registry, id) =>
                                   Told(legacy["theirs"], After, id) = registry["ours"][id]
                          /\ LET main == Told(legacy'["theirs"], shard'["theirs"], id)
                             IN  main # None /\ shard'["base"][id] \in {None, shard'["ours"][id]} =>
                                    Told(legacy["theirs"], After, id) = main
      BY <3>1, Zenon DEF NothingLost, Added, Told
    <3> QED
      BY <3>2, <3>3
  <2> QED
    BY <1>3, <2>1, <2>2, SyncEnds
<1>4. CASE UNCHANGED registryVars
  BY <1>4 DEF NothingLost, registryVars, Added, Told
<1> QED
  BY <1>1, <1>2, <1>3, <1>4 DEF RegistryNext

\* NothingLost: for any ids and entries and after any edits on both sides, a
\* merge that syncOne pushes keeps what the pull request reserved and what
\* main tells.
THEOREM EveryReservationKept == RegistrySpec => []NothingLost
<1>1. RegistryInit => NothingLost
  <2>1. RegistryInit => merged = Open
    BY DEF RegistryInit
  <2> QED
    BY <2>1 DEF NothingLost, Open
<1> QED
  BY <1>1, TypeInit, TypeStep, KeptStep, PTL DEF RegistrySpec

-----------------------------------------------------------------------------
\* Such an id is refused by neither plan, and the seed check finds nothing to
\* say of it that main's own would not.
LEMMA OneIdResolves ==
  ASSUME RegistryTypeOK, NEW id \in Ids, PlainAdd(id), ~Clash(id),
         ~Mismatch(legacy["theirs"], shard["theirs"], id)
  PROVE  /\ ~Refuses(id, shard["theirs"]) /\ ~Refuses(id, MergedShards)
         /\ ~Mismatch(legacy["theirs"], After, id)
         /\ Told(legacy["theirs"], shard["theirs"], id) # None =>
               Told(legacy["theirs"], After, id) # None
<1>1. After[id] = IF Moves(id, MergedShards) THEN legacy["ours"][id] ELSE MergedShards[id]
  BY DEF After
<1>2. MergedShards[id] = IF shard["ours"][id] = shard["base"][id]
                         THEN shard["theirs"][id] ELSE shard["ours"][id]
  BY DEF MergedShards
<1>3. legacy["ours"][id] = legacy["base"][id] \/ Added(legacy, id)
  BY DEF PlainAdd
<1>4. shard["ours"][id] = shard["base"][id] \/ Added(shard, id)
  BY DEF PlainAdd
<1>5. ~Refuses(id, shard["theirs"])
  BY <1>3 DEF PlainAdd, Refuses, Taken, Added, Told, Mismatch
<1>6. ~Refuses(id, MergedShards)
  BY <1>2, <1>3, <1>4 DEF PlainAdd, Refuses, Taken, Added, Told, Mismatch
<1>7. ~Mismatch(legacy["theirs"], After, id)
  BY <1>1, <1>2, <1>3, <1>4 DEF PlainAdd, Moves, Added, Told, Mismatch
<1>8. Told(legacy["theirs"], shard["theirs"], id) # None =>
         Told(legacy["theirs"], After, id) # None
  BY <1>1, <1>2, <1>4 DEF Moves, Added, Told
<1> QED
  BY <1>5, <1>6, <1>7, <1>8

LEMMA SameRegistry ==
  ASSUME UNCHANGED <<legacy, shard, minted>>
  PROVE  /\ \A id \in Ids : PlainAdd(id)' <=> PlainAdd(id)
         /\ SeedCheck(legacy["theirs"], shard["theirs"])' <=>
               SeedCheck(legacy["theirs"], shard["theirs"])
<1>1. ASSUME NEW id \in Ids PROVE PlainAdd(id)' <=> PlainAdd(id)
  BY DEF PlainAdd, Added, Told, Mismatch
<1>2. SeedCheck(legacy["theirs"], shard["theirs"])' <=> SeedCheck(legacy["theirs"], shard["theirs"])
  BY DEF SeedCheck, Told, Mismatch
<1> QED
  BY <1>1, <1>2

LEMMA ResolveStep == RegistryTypeOK /\ AddsResolve /\ [RegistryNext]_registryVars => AddsResolve'
<1> SUFFICES ASSUME RegistryTypeOK, AddsResolve, [RegistryNext]_registryVars PROVE AddsResolve'
  OBVIOUS
<1>1. ASSUME NEW side \in {"ours", "theirs"}, NEW id \in Ids,
             NEW entry \in Entries \cup {None}, Edit(side, id, entry)
      PROVE  AddsResolve'
  BY <1>1 DEF Edit, AddsResolve, Open, Refused
<1>2. ASSUME NEW id \in Ids, Mint(id) PROVE AddsResolve'
  BY <1>2 DEF Mint, AddsResolve, Open, Refused
<1>3. CASE Sync
  <2>1. CASE merged' = Pushed(legacy["theirs"], After)
    BY <2>1 DEF AddsResolve, Pushed, Refused
  <2>2. CASE /\ \/ \E id \in Ids : Refuses(id, shard["theirs"]) \/ Refuses(id, MergedShards)
                \/ ~SeedCheck(legacy["theirs"], After)
             /\ merged' = Refused
    <3>1. UNCHANGED <<legacy, shard, minted>>
      BY <1>3, SyncEnds
    <3>2. SUFFICES ASSUME \A id \in Ids : PlainAdd(id),
                          SeedCheck(legacy["theirs"], shard["theirs"])
                   PROVE  FALSE
      BY <3>1, SameRegistry DEF AddsResolve
    <3>3. \A id \in Ids : ~Clash(id)
      BY <1>3, SyncEnds
    <3>4. \A id \in Ids :
             /\ ~Refuses(id, shard["theirs"]) /\ ~Refuses(id, MergedShards)
             /\ ~Mismatch(legacy["theirs"], After, id)
             /\ Told(legacy["theirs"], shard["theirs"], id) # None =>
                   Told(legacy["theirs"], After, id) # None
      BY <3>2, <3>3, OneIdResolves DEF SeedCheck
    <3>5. SeedCheck(legacy["theirs"], After)
      BY <3>2, <3>4 DEF SeedCheck, RegistryTypeOK
    <3> QED
      BY <2>2, <3>4, <3>5
  <2> QED
    BY <1>3, <2>1, <2>2, SyncEnds
<1>4. CASE UNCHANGED registryVars
  BY <1>4, SameRegistry DEF AddsResolve, registryVars
<1> QED
  BY <1>1, <1>2, <1>3, <1>4 DEF RegistryNext

\* AddsResolve: a pull request that only added ids, none of them another row's
\* on a main in order, is never refused by decide or syncOne.
THEOREM AddsAreMechanical == RegistrySpec => []AddsResolve
<1>1. RegistryInit => AddsResolve
  <2>1. RegistryInit => merged = Open
    BY DEF RegistryInit
  <2> QED
    BY <2>1 DEF AddsResolve, Open, Refused
<1> QED
  BY <1>1, TypeInit, TypeStep, ResolveStep, PTL DEF RegistrySpec

-----------------------------------------------------------------------------
(* The kernel's host. *)

Types ==
    /\ top \in {"pending", "fulfilled", "rejected"}
    /\ at \in {"eval", "drive", "await", "finally", "returned", "threw"}

\* A call in flight is tracked, and there is a batch only while it is awaited.
Tracked == inFlight \subseteq pending \cup batch
Awaited == batch # {} => at \in {"await", "finally"}

\* An answer meets a disposed context only after a throw.
StrayAfterThrow == stray => at = "threw"

Inv == Types /\ Tracked /\ Awaited /\ StrayAfterThrow /\ ReturnsClean /\ ThrowsForCause

LEMMA InvInit == KernelInit => Inv
  BY DEF KernelInit, Inv, Types, Tracked, Awaited, StrayAfterThrow, ReturnsClean, ThrowsForCause

\* What a call leaves tracked.
LEMMA CallTracks ==
  ASSUME NEW callers, Call(callers), Tracked
  PROVE  inFlight' \subseteq pending' \cup batch
  BY DEF Call, Tracked

LEMMA GuestKeeps == Inv /\ Guest => Inv'
<1> SUFFICES ASSUME Inv, Guest PROVE Inv'
  OBVIOUS
<1>1. ASSUME NEW t \in Tasks, Turn(t) PROVE Inv'
  <2>1. at' \in {"drive", "finally"} /\ batch' = batch /\ stray' = stray
    BY <1>1 DEF Turn
  <2>2. Tracked'
    <3>1. PICK callers : Call(callers)
      BY <1>1 DEF Turn
    <3> QED
      BY <3>1, <2>1, CallTracks DEF Inv, Tracked
  <2>3. Types'
    BY <1>1, <2>1 DEF Turn, Inv, Types
  <2>4. Awaited'
    BY <1>1, <2>1 DEF Turn, Inv, Awaited
  <2>5. StrayAfterThrow'
    BY <1>1, <2>1 DEF Turn, Inv, StrayAfterThrow
  <2> QED
    BY <2>1, <2>2, <2>3, <2>4, <2>5 DEF Inv, ReturnsClean, ThrowsForCause
<1>2. CASE ThrowAtOnce
  <2>1. Tracked'
    <3>1. PICK callers : Call(callers)
      BY <1>2 DEF ThrowAtOnce
    <3> QED
      BY <1>2, <3>1, CallTracks DEF ThrowAtOnce, Inv, Tracked
  <2> QED
    BY <1>2, <2>1 DEF ThrowAtOnce, Inv, Types, Awaited, StrayAfterThrow, ReturnsClean, ThrowsForCause
<1>3. ASSUME NEW t \in Tasks, Interrupt(t) PROVE Inv'
  <2>1. at' \in {"await", "threw"} /\ batch' = batch /\ stray' = stray /\ overrun' = TRUE
    BY <1>3 DEF Interrupt
  <2>2. Tracked'
    <3>1. PICK callers : Call(callers)
      BY <1>3 DEF Interrupt
    <3> QED
      BY <3>1, <2>1, CallTracks DEF Inv, Tracked
  <2>3. Types'
    BY <1>3, <2>1 DEF Interrupt, Inv, Types
  <2>4. Awaited' /\ StrayAfterThrow'
    BY <1>3, <2>1 DEF Interrupt, Inv, Awaited, StrayAfterThrow
  <2> QED
    BY <2>1, <2>2, <2>3, <2>4 DEF Inv, ReturnsClean, ThrowsForCause
<1> QED
  BY <1>1, <1>2, <1>3 DEF Guest

LEMMA HostKeeps == Inv /\ Host => Inv'
<1> SUFFICES ASSUME Inv, Host PROVE Inv'
  OBVIOUS
<1>1. ASSUME NEW t \in Tasks, NEW n \in 1..MaxCalls, Answer(t, n) PROVE Inv'
  <2>1. at # "returned"
    BY <1>1 DEF Answer, Inv, ReturnsClean
  <2>2. CASE Over
    <3>1. task' = task /\ Ready' = Ready
      BY <1>1, <2>2 DEF Answer, Ready
    <3> QED
      BY <1>1, <2>1, <2>2, <3>1
      DEF Answer, Over, Inv, Types, Tracked, Awaited, StrayAfterThrow, ReturnsClean, ThrowsForCause
  <2>3. CASE ~Over
    BY <1>1, <2>3
    DEF Answer, Over, Inv, Types, Tracked, Awaited, StrayAfterThrow, ReturnsClean, ThrowsForCause
  <2> QED
    BY <2>2, <2>3
<1>2. ASSUME NEW t \in Tasks, NEW n \in 1..MaxCalls, Finally(t, n) PROVE Inv'
  <2>1. task' = task /\ Ready' = Ready
    BY <1>2 DEF Finally, Ready
  <2> QED
    BY <1>2, <2>1
    DEF Finally, Over, Inv, Types, Tracked, Awaited, StrayAfterThrow, ReturnsClean, ThrowsForCause
<1>3. CASE Drained
  BY <1>3 DEF Drained, Inv, Types, Tracked, Awaited, StrayAfterThrow, ReturnsClean, ThrowsForCause
<1>4. CASE Await
  BY <1>4 DEF Await, Inv, Types, Tracked, Awaited, StrayAfterThrow, ReturnsClean, ThrowsForCause
<1>5. CASE Resume
  <2>1. inFlight' \subseteq pending' \cup batch'
    BY <1>5 DEF Resume, Inv, Tracked
  <2> QED
    BY <1>5, <2>1 DEF Resume, Inv, Types, Tracked, Awaited, StrayAfterThrow, ReturnsClean, ThrowsForCause
<1>6. CASE Read
  <2>1. Ready' = Ready /\ Ready = {}
    BY <1>6 DEF Read, Ready
  <2>2. inFlight = {}
    BY <1>6 DEF Read, Inv, Tracked, Awaited
  <2> QED
    BY <1>6, <2>1, <2>2 DEF Read, Inv, Types, Tracked, Awaited, StrayAfterThrow, ReturnsClean, ThrowsForCause
<1> QED
  BY <1>1, <1>2, <1>3, <1>4, <1>5, <1>6 DEF Host

LEMMA InvStep == Inv /\ [KernelNext]_kernelVars => Inv'
<1> SUFFICES ASSUME Inv, [KernelNext]_kernelVars PROVE Inv'
  OBVIOUS
<1>1. CASE UNCHANGED kernelVars
  <2>1. Ready' = Ready
    BY <1>1 DEF kernelVars, Ready
  <2> QED
    BY <1>1, <2>1 DEF kernelVars, Inv, Types, Tracked, Awaited, StrayAfterThrow, ReturnsClean, ThrowsForCause
<1> QED
  BY <1>1, GuestKeeps, HostKeeps DEF KernelNext

\* ReturnsClean: whatever a kernel starts and does not await, runKernelInVM
\* returns only when no job and no host call of it is left.
THEOREM ReturnedRunsAreQuiet == KernelSpec => []ReturnsClean
<1>1. Inv => ReturnsClean
  BY DEF Inv
<1> QED
  BY <1>1, InvInit, InvStep, PTL DEF KernelSpec

\* ThrowsForCause: the drive loop never gives up a kernel that could still go
\* on, and never loses a result.
THEOREM ThrownRunsHadCause == KernelSpec => []ThrowsForCause
<1>1. Inv => ThrowsForCause
  BY DEF Inv
<1> QED
  BY <1>1, InvInit, InvStep, PTL DEF KernelSpec
=============================================================================
