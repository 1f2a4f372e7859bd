----------------------- MODULE CashAccount_proofs ------------------------
(***************************************************************************)
(* The books, the blocks, the exits and the payments of CashAccount for    *)
(* any assets, prices, rates, costs, limits and lengths of a run.          *)
(***************************************************************************)
EXTENDS CashAccount, TLAPS, WellFoundedInduction, FiniteSetTheorems

-----------------------------------------------------------------------------
(* Sums of lists. *)

LEMMA LeastNumber ==
    ASSUME NEW T, T \subseteq Nat, T # {}
    PROVE  \E x \in T : \A y \in T : x <= y
<1> DEFINE Less == OpToRel(<, Nat)
<1>1. Less = {p \in Nat \X Nat : p[1] < p[2]}
  BY Zenon DEF OpToRel
<1>2. IsWellFoundedOn(Less, Nat)
  BY NatLessThanWellFounded, Zenon
<1> HIDE DEF Less
<1>3. PICK x \in T : \A y \in T : ~(<<y, x>> \in Less)
  BY <1>2, WFMin, Zenon
<1>4. ASSUME NEW y \in T PROVE x <= y
  <2>1. x \in Nat /\ y \in Nat /\ <<y, x>> \notin Less
    BY <1>3
  <2>2. ~(<<y, x>>[1] < <<y, x>>[2])
    BY <1>1, <2>1, Zenon
  <2> QED
    BY <2>1, <2>2
<1> QED
  BY <1>4

\* A set that holds zero and, with every number below n, the next one, holds
\* all numbers up to n.
LEMMA UpTo ==
    ASSUME NEW n \in Nat, NEW S, 0 \in S,
           \A i \in 1..n : i - 1 \in S => i \in S
    PROVE  \A i \in 0..n : i \in S
<1> DEFINE T == {i \in 0..n : i \notin S}
<1> SUFFICES ASSUME T # {} PROVE FALSE
  OBVIOUS
<1>0. T \subseteq Nat
  OBVIOUS
<1>1. PICK x \in T : \A y \in T : x <= y
  <2> HIDE DEF T
  <2> QED
    BY <1>0, LeastNumber
<1>2. x \in 1..n /\ x - 1 \in 0..n /\ x - 1 \notin T
  BY <1>1
<1> QED
  BY <1>1, <1>2

\* What Sums has to satisfy, and that something does.
IsSums(c, f) ==
    f = [i \in 0..Len(c) |-> IF i = 0 THEN 0 ELSE f[i - 1] + c[i]]

SumsUpTo(c, n, f) ==
    /\ f \in [0..n -> Int] /\ f[0] = 0
    /\ \A i \in 1..n : f[i] = f[i - 1] + c[i]

LEMMA SumsExist ==
    ASSUME NEW c \in Seq(Int)
    PROVE  \E f : IsSums(c, f)
<1> DEFINE S == {n \in 0..Len(c) : \E f : SumsUpTo(c, n, f)}
<1>1. 0 \in S
  <2>1. SumsUpTo(c, 0, [i \in 0..0 |-> 0])
    BY DEF SumsUpTo
  <2> QED
    BY <2>1
<1>2. ASSUME NEW n \in 1..Len(c), n - 1 \in S PROVE n \in S
  <2>1. PICK f : SumsUpTo(c, n - 1, f)
    BY <1>2
  <2> DEFINE g == [i \in 0..n |-> IF i = n THEN f[n - 1] + c[n] ELSE f[i]]
  <2>2. c[n] \in Int /\ f[n - 1] \in Int
    BY <2>1 DEF SumsUpTo
  <2>3. g \in [0..n -> Int] /\ g[0] = 0
    BY <2>1, <2>2 DEF SumsUpTo
  <2>4. \A i \in 1..n : g[i] = g[i - 1] + c[i]
    BY <2>1 DEF SumsUpTo
  <2>5. SumsUpTo(c, n, g)
    BY <2>3, <2>4 DEF SumsUpTo
  <2> QED
    BY <2>5
<1>3. Len(c) \in Nat
  OBVIOUS
<1>4. Len(c) \in S
  <2> HIDE DEF S
  <2>1. \A i \in 0..Len(c) : i \in S
    BY <1>1, <1>2, <1>3, UpTo
  <2> QED
    BY <1>3, <2>1
<1>5. PICK f : SumsUpTo(c, Len(c), f)
  BY <1>4
<1>6. f = [i \in 0..Len(c) |-> IF i = 0 THEN 0 ELSE f[i - 1] + c[i]]
  BY <1>5 DEF SumsUpTo
<1> QED
  BY <1>6 DEF IsSums

LEMMA SumsAre ==
    ASSUME NEW c \in Seq(Int)
    PROVE  IsSums(c, Sums(c))
  BY SumsExist DEF Sums, IsSums

\* The sums of a list of whole numbers are whole numbers.
LEMMA SumsRecur ==
    ASSUME NEW c \in Seq(Int)
    PROVE  /\ Sums(c)[0] = 0
           /\ \A i \in 1..Len(c) : Sums(c)[i] = Sums(c)[i - 1] + c[i]
           /\ \A i \in 0..Len(c) : Sums(c)[i] \in Int
<1>1. Len(c) \in Nat /\ \A i \in 1..Len(c) : c[i] \in Int
  OBVIOUS
<1>2. /\ Sums(c)[0] = 0
      /\ \A i \in 1..Len(c) : Sums(c)[i] = Sums(c)[i - 1] + c[i]
  BY <1>1, SumsAre DEF IsSums
<1> DEFINE S == {i \in 0..Len(c) : Sums(c)[i] \in Int}
<1>3. \A i \in 0..Len(c) : i \in S
  <2>1. 0 \in S
    BY <1>1, <1>2
  <2>2. ASSUME NEW i \in 1..Len(c), i - 1 \in S PROVE i \in S
    <3>1. Sums(c)[i] = Sums(c)[i - 1] + c[i] /\ c[i] \in Int /\ Sums(c)[i - 1] \in Int
      BY <1>1, <1>2, <2>2
    <3>2. Sums(c)[i] \in Int
      BY <3>1
    <3> QED
      BY <1>1, <3>2
  <2> HIDE DEF S
  <2> QED
    BY <1>1, <2>1, <2>2, UpTo
<1> QED
  BY <1>2, <1>3

\* Lists that agree up to n have the same sums up to n.
LEMMA SameSums ==
    ASSUME NEW c \in Seq(Int), NEW d \in Seq(Int), NEW n \in Nat,
           n <= Len(c), n <= Len(d), \A i \in 1..n : c[i] = d[i]
    PROVE  \A i \in 0..n : Sums(c)[i] = Sums(d)[i]
<1> DEFINE S == {i \in 0..n : Sums(c)[i] = Sums(d)[i]}
<1>1. 0 \in S
  BY SumsRecur
<1>2. ASSUME NEW i \in 1..n, i - 1 \in S PROVE i \in S
  <2>1. Len(c) \in Nat /\ Len(d) \in Nat
    OBVIOUS
  <2>2. i \in 1..Len(c) /\ i \in 1..Len(d) /\ c[i] = d[i]
    BY <2>1
  <2> QED
    BY <1>2, <2>2, SumsRecur
<1>3. \A i \in 0..n : i \in S
  <2> HIDE DEF S
  <2> QED
    BY <1>1, <1>2, UpTo
<1> QED
  BY <1>3

LEMMA SumIsInt == ASSUME NEW c \in Seq(Int) PROVE Sum(c) \in Int
<1>1. Len(c) \in 0..Len(c)
  OBVIOUS
<1> QED
  BY <1>1, SumsRecur DEF Sum

LEMMA SumOfNone == ASSUME NEW c \in Seq(Int), Len(c) = 0 PROVE Sum(c) = 0
  BY SumsRecur DEF Sum

LEMMA SumOfSame ==
    ASSUME NEW c \in Seq(Int), NEW d \in Seq(Int), Len(d) = Len(c),
           \A i \in 1..Len(c) : c[i] = d[i]
    PROVE  Sum(d) = Sum(c)
<1>1. Len(c) \in Nat /\ Len(c) \in 0..Len(c)
  OBVIOUS
<1>2. \A i \in 0..Len(c) : Sums(c)[i] = Sums(d)[i]
  <2>1. Len(c) <= Len(c) /\ Len(c) <= Len(d)
    BY <1>1
  <2> QED
    BY <1>1, <2>1, SameSums
<1> QED
  BY <1>1, <1>2 DEF Sum

LEMMA SumOfAppended ==
    ASSUME NEW c \in Seq(Int), NEW d \in Seq(Int), Len(d) = Len(c) + 1,
           \A i \in 1..Len(c) : c[i] = d[i]
    PROVE  Sum(d) = Sum(c) + d[Len(d)]
<1>1. Len(c) \in Nat /\ Len(c) \in 0..Len(c) /\ Len(d) \in 1..Len(d)
  OBVIOUS
<1>2. Sums(d)[Len(c)] = Sums(c)[Len(c)]
  <2>1. Len(c) <= Len(c) /\ Len(c) <= Len(d)
    BY <1>1
  <2>2. \A i \in 0..Len(c) : Sums(c)[i] = Sums(d)[i]
    BY <1>1, <2>1, SameSums
  <2> QED
    BY <1>1, <2>2
<1>3. Sums(d)[Len(d)] = Sums(d)[Len(d) - 1] + d[Len(d)]
  BY <1>1, SumsRecur
<1> QED
  BY <1>1, <1>2, <1>3 DEF Sum

LEMMA SumOfRest ==
    ASSUME NEW c \in Seq(Int), NEW d \in Seq(Int), NEW k \in 1..Len(c),
           Len(d) = Len(c) - 1,
           \A i \in 1..Len(d) : d[i] = IF i < k THEN c[i] ELSE c[i + 1]
    PROVE  Sum(d) = Sum(c) - c[k]
<1> DEFINE S == {i \in 0..Len(d) :
                   Sums(d)[i] = IF i < k THEN Sums(c)[i] ELSE Sums(c)[i + 1] - c[k]}
<1>1. Len(d) \in Nat /\ Len(c) \in Nat /\ k \in Nat /\ c[k] \in Int
  OBVIOUS
<1>2. 0 \in S
  BY <1>1, SumsRecur
<1>3. ASSUME NEW i \in 1..Len(d), i - 1 \in S PROVE i \in S
  <2>0. i \in Nat /\ i \in 1..Len(c) /\ i + 1 \in 1..Len(c)
        /\ i - 1 \in 0..Len(c) /\ (i + 1) - 1 = i
    <3>1. PICK n \in Nat : n = Len(c)
      BY <1>1
    <3>2. i \in 1..(n - 1)
      BY <3>1
    <3>3. i \in Nat /\ i \in 1..n /\ i + 1 \in 1..n /\ i - 1 \in 0..n /\ (i + 1) - 1 = i
      BY ONLY <3>2, n \in Nat
    <3> QED
      BY <3>1, <3>3, Zenon
  <2>1. Sums(d)[i] = Sums(d)[i - 1] + d[i]
    BY SumsRecur
  <2>5. Sums(c)[i] = Sums(c)[i - 1] + c[i] /\ Sums(c)[i - 1] \in Int /\ Sums(c)[i] \in Int
    <3>1. /\ \A j \in 1..Len(c) : Sums(c)[j] = Sums(c)[j - 1] + c[j]
          /\ \A j \in 0..Len(c) : Sums(c)[j] \in Int
      BY SumsRecur
    <3>2. i \in 0..Len(c)
      BY <1>1, <2>0
    <3> QED
      BY <2>0, <3>1, <3>2
  <2>6. Sums(c)[i + 1] = Sums(c)[i] + c[i + 1]
    <3>1. \A j \in 1..Len(c) : Sums(c)[j] = Sums(c)[j - 1] + c[j]
      BY SumsRecur
    <3> QED
      BY <2>0, <3>1
  <2>7. c[i] \in Int /\ c[i + 1] \in Int
    BY ONLY <2>0, c \in Seq(Int)
  <2>8. d[i] = IF i < k THEN c[i] ELSE c[i + 1]
    OBVIOUS
  <2>2. CASE i < k
    BY <1>1, <1>3, <2>0, <2>1, <2>2, <2>5, <2>8
  <2>3. CASE i = k
    <3>1. Sums(d)[i - 1] = Sums(c)[i - 1]
      BY <1>1, <1>3, <2>3
    <3> QED
      <4>1. Sums(d)[i] = Sums(c)[i - 1] + c[i + 1] /\ c[k] = c[i]
        BY <2>1, <2>3, <2>8, <3>1
      <4>2. Sums(c)[i + 1] - c[k] = Sums(c)[i - 1] + c[i + 1]
        <5>1. PICK w \in Int : w = Sums(c)[i - 1]
          BY <2>5
        <5>2. PICK x \in Int : x = c[i]
          BY <2>7
        <5>3. PICK y \in Int : y = c[i + 1]
          BY <2>7
        <5>4. Sums(c)[i + 1] = (w + x) + y
          BY <2>5, <2>6, <5>1, <5>2, <5>3
        <5>5. Sums(c)[i + 1] - x = w + y
          BY <5>4
        <5> QED
          BY <4>1, <5>1, <5>2, <5>3, <5>5, Zenon
      <4> QED
        BY <2>3, <4>1, <4>2
  <2>4. CASE i > k
    <3>1. Sums(d)[i - 1] = Sums(c)[(i - 1) + 1] - c[k] /\ (i - 1) + 1 = i
      BY <1>1, <1>3, <2>0, <2>4
    <3>2. PICK x \in Int : x = Sums(c)[i]
      BY <2>5
    <3>3. PICK y \in Int : y = c[k]
      BY <1>1
    <3>4. PICK z \in Int : z = c[i + 1]
      BY <2>7
    <3>5. ~(i < k) /\ d[i] = z
      BY <1>1, <2>0, <2>4, <2>8, <3>4
    <3>6. Sums(d)[i] = (x - y) + z /\ Sums(c)[i + 1] = x + z
      BY <2>1, <2>6, <3>1, <3>2, <3>3, <3>4, <3>5, Zenon
    <3>7. (x - y) + z = (x + z) - y
      BY ONLY x \in Int, y \in Int, z \in Int
    <3>8. Sums(d)[i] = Sums(c)[i + 1] - c[k]
      BY <3>3, <3>6, <3>7, Zenon
    <3> QED
      BY <3>5, <3>8
  <2> QED
    BY <1>1, <2>2, <2>3, <2>4
<1>4. Len(d) \in S
  <2> HIDE DEF S
  <2>1. \A i \in 0..Len(d) : i \in S
    BY <1>1, <1>2, <1>3, UpTo
  <2> QED
    BY <1>1, <2>1
<1>5. CASE Len(d) >= k
  BY <1>1, <1>4, <1>5 DEF Sum
<1>6. CASE Len(d) < k
  <2>1. k = Len(c) /\ Sums(c)[k] = Sums(c)[k - 1] + c[k] /\ Sums(c)[k - 1] \in Int
    <3>1. k = Len(c) /\ k \in 1..Len(c) /\ k - 1 \in 0..Len(c)
      BY <1>1, <1>6
    <3> QED
      BY <3>1, SumsRecur
  <2> QED
    BY <1>1, <1>4, <1>6, <2>1 DEF Sum
<1> QED
  BY <1>1, <1>5, <1>6

\* What Without leaves of a list.
LEMMA RestOfList ==
    ASSUME NEW S, NEW list \in Seq(S), NEW k \in DOMAIN list
    PROVE  /\ Without(list, k) \in Seq(S)
           /\ Len(Without(list, k)) = Len(list) - 1
           /\ \A i \in 1..(Len(list) - 1) :
                 Without(list, k)[i] = IF i < k THEN list[i] ELSE list[i + 1]
<1>1. Len(list) \in Nat /\ k \in 1..Len(list) /\ Len(list) - 1 \in Nat
  OBVIOUS
<1>2. \A i \in 1..(Len(list) - 1) : i \in 1..Len(list) /\ i + 1 \in 1..Len(list)
  BY <1>1
<1> QED
  BY <1>1, <1>2 DEF Without

-----------------------------------------------------------------------------
(* Amounts. *)

LEMMA Products ==
    /\ \A a, b \in Nat : a * b \in Nat
    /\ \A a, b \in Nat \ {0} : a * b \in Nat \ {0}
    /\ \A a \in Nat, b \in Nat \ {0} : a \div b \in Nat
<1>1. ASSUME NEW a \in Nat, NEW b \in Nat PROVE a * b \in Nat
  OBVIOUS
<1>2. ASSUME NEW a \in Nat \ {0}, NEW b \in Nat \ {0} PROVE a * b \in Nat \ {0}
  OBVIOUS
<1>3. ASSUME NEW a \in Nat, NEW b \in Nat \ {0} PROVE a \div b \in Nat
  OBVIOUS
<1> QED
  BY <1>1, <1>2, <1>3

\* The rates and limits that prices and sizes are made of.
LEMMA Rates ==
    /\ Base \in Nat \ {0} /\ Fee \in Nat /\ Base - Fee \in Nat
    /\ StopLoss \in Nat \ {0} /\ Base - StopLoss \in Nat /\ TakeProfit \in Nat
    /\ LotSize \in Nat \ {0} /\ InitialCash \in Nat
    /\ PositionRate \in Nat /\ SectorRate \in Nat /\ RiskRate \in Nat /\ OpenRiskRate \in Nat
    /\ MaxHold \in Nat \ {0} /\ MaxPositions \in Nat /\ LossThreshold \in Nat
    /\ CooldownSessions \in Nat /\ LastSession \in Nat /\ MaxIncidents \in Nat
  BY RatesAssumption DEF ValidRules

LEMMA CapitalIsNat == Capital \in Nat
<1>1. InitialCash * Base \in Nat
  BY Rates, Products
<1>2. InitialCash * Base * Base \in Nat
  BY <1>1, Rates, Products
<1>3. InitialCash * Base * Base * Base \in Nat
  BY <1>2, Rates, Products
<1> QED
  BY <1>3, Rates, Products DEF Capital

LEMMA DayIsSound == ASSUME TypeOK PROVE IsDay(day)
<1>1. CASE day \in Days
  BY <1>1, InputsAssumption
<1>2. CASE day = NoDay
  <2>1. /\ \A s \in Symbols : day.bars[s] = NoBar
        /\ day.covered \in BOOLEAN /\ day.life \in [Symbols -> LifeStates]
        /\ day.rate = NoRate /\ DOMAIN day.entries = {}
    BY <1>2 DEF NoDay, LifeStates
  <2> QED
    BY <2>1 DEF IsDay
<1> QED
  BY <1>1, <1>2 DEF TypeOK

LEMMA RatesOfTheDay ==
    ASSUME TypeOK, NEW s \in Symbols, HasRate(s)
    PROVE  FxBuy(s) \in Nat \ {0} /\ FxSell(s) \in Nat \ {0}
<1>1. day.rate # NoRate => /\ day.rate.sell \in Nat \ {0} /\ day.rate.buy \in Nat
                          /\ day.rate.buy >= day.rate.sell
  BY DayIsSound DEF IsDay
<1> QED
  BY <1>1 DEF HasRate, FxBuy, FxSell

\* A list made from the positions.
LEMMA AmountsOfPositions ==
    ASSUME NEW list \in Seq(PositionRecords), NEW f,
           DOMAIN f = DOMAIN list, f = [i \in DOMAIN f |-> f[i]],
           \A i \in DOMAIN list : f[i] \in Int
    PROVE  f \in Seq(Int) /\ Len(f) = Len(list)
<1>1. Len(list) \in Nat /\ DOMAIN list = 1..Len(list)
  OBVIOUS
<1>2. f \in [1..Len(list) -> Int]
  BY <1>1
<1> QED
  BY <1>1, <1>2

LEMMA TotalsAreInt ==
    ASSUME positions \in Seq(PositionRecords)
    PROVE  /\ Total("risk") \in Int
           /\ \A sector : SectorCost(sector) \in Int
<1>0. \A i \in DOMAIN positions : positions[i] \in PositionRecords
  OBVIOUS
<1>1. Total("risk") \in Int
  <2> DEFINE f == [i \in DOMAIN positions |-> positions[i]["risk"]]
  <2>1. DOMAIN f = DOMAIN positions /\ f = [i \in DOMAIN f |-> f[i]]
        /\ \A i \in DOMAIN positions : f[i] \in Int
    BY <1>0 DEF PositionRecords
  <2>2. Total("risk") = Sum(f)
    BY DEF Total
  <2> HIDE DEF f
  <2> QED
    BY <2>1, <2>2, AmountsOfPositions, SumIsInt
<1>2. ASSUME NEW sector PROVE SectorCost(sector) \in Int
  <2> DEFINE f == [i \in DOMAIN positions |->
                     IF Sector[positions[i].symbol] = sector THEN positions[i].cost ELSE 0]
  <2>1. DOMAIN f = DOMAIN positions /\ f = [i \in DOMAIN f |-> f[i]]
        /\ \A i \in DOMAIN positions : f[i] \in Int
    BY <1>0 DEF PositionRecords
  <2>2. SectorCost(sector) = Sum(f)
    BY DEF SectorCost
  <2> HIDE DEF f
  <2> QED
    BY <2>1, <2>2, AmountsOfPositions, SumIsInt
<1> QED
  BY <1>1, <1>2

LEMMA CostsAreKnown ==
    ASSUME TypeOK, NEW signal, signal.costs \in Costs \cup {NoCosts},
           HasCosts(signal)
    PROVE  /\ CostsOf(signal).half \in Nat
           /\ \A over \in Overs(signal) : over \in 0..(Base - 1)
<1>1. CostsOf(signal) \in Costs
  BY RatesAssumption DEF ValidRules, HasCosts, CostsOf
<1>2. IsCosts(CostsOf(signal))
  BY <1>1, RatesAssumption DEF ValidRules
<1> QED
  BY <1>2, Rates DEF IsCosts, Overs

LEMMA PricesAreNat ==
    ASSUME NEW open \in Nat, NEW over \in Nat
    PROVE  /\ EntryPrice(open, over) \in Nat /\ StopPrice(open, over) \in Nat
           /\ TakePrice(open, over) \in Nat
<1>1. Base + over \in Nat /\ Base + TakeProfit \in Nat
  BY Rates
<1>2. open * (Base + over) \in Nat
  BY <1>1, Products
<1> QED
  BY <1>1, <1>2, Rates, Products DEF EntryPrice, StopPrice, TakePrice

LEMMA OrdersAreNat ==
    ASSUME TypeOK, NEW s \in Symbols, HasRate(s),
           NEW open \in Nat, NEW over \in Nat, NEW quantity \in Nat
    PROVE  /\ EntryCost(s, open, over, quantity) \in Nat
           /\ PlannedRisk(s, open, over, quantity) \in Nat
<1>1. /\ EntryPrice(open, over) \in Nat /\ FxBuy(s) \in Nat /\ Base \in Nat
      /\ Base + Fee \in Nat /\ StopLoss + Fee \in Nat
  <2>1. EntryPrice(open, over) \in Nat
    BY PricesAreNat
  <2>2. FxBuy(s) \in Nat
    BY RatesOfTheDay
  <2> QED
    BY <2>1, <2>2, Rates
<1>2. EntryPrice(open, over) * quantity \in Nat
  BY <1>1, Products
<1>3. EntryPrice(open, over) * quantity * FxBuy(s) \in Nat
  BY <1>1, <1>2, Products
<1>4. /\ EntryPrice(open, over) * quantity * FxBuy(s) * (Base + Fee) \in Nat
      /\ EntryPrice(open, over) * quantity * FxBuy(s) * (StopLoss + Fee) \in Nat
  BY <1>1, <1>3, Products
<1> QED
  BY <1>1, <1>4, Products DEF EntryCost, PlannedRisk

LEMMA BudgetIsNat == ASSUME TypeOK, NEW s PROVE Budget(s) \in Nat
<1>1. /\ Total("risk") \in Int /\ SectorCost(Sector[s]) \in Int /\ book.cash \in Nat
  BY TotalsAreInt DEF TypeOK, Books
<1>2. /\ (Capital * RiskRate) \div Base \in Nat /\ (Capital * OpenRiskRate) \div Base \in Nat
      /\ (Capital * SectorRate) \div Base \in Nat /\ (Capital * PositionRate) \div Base \in Nat
  BY CapitalIsNat, Rates, Products
<1>3. AllowedRisk \in Nat
  BY <1>1, <1>2 DEF AllowedRisk, Smaller, Larger
<1>4. SectorCapacity(s) \in Nat
  BY <1>1, <1>2 DEF SectorCapacity, Larger
<1>5. (AllowedRisk * Base) \div StopLoss \in Nat
  BY <1>3, Rates, Products
<1> QED
  BY <1>1, <1>2, <1>4, <1>5 DEF Budget, Smaller

LEMMA QuantityIsNat ==
    ASSUME TypeOK, NEW signal, signal.symbol \in Symbols,
           signal.costs \in Costs \cup {NoCosts}, Admitted(signal)
    PROVE  Quantity(signal) \in Nat
<1> DEFINE s == signal.symbol
           bar == day.bars[s]
           half == CostsOf(signal).half
<1>1. HasRate(s) /\ bar # NoBar /\ HasCosts(signal)
  BY DEF Admitted
<1>2. bar.open \in Nat \ {0} /\ bar.volume \in Nat
  BY <1>1, DayIsSound DEF IsDay, IsBar
<1>3. half \in Nat
  BY <1>1, CostsAreKnown
<1>4. FxBuy(s) \in Nat \ {0}
  BY <1>1, RatesOfTheDay
<1> DEFINE lot == bar.open * FxBuy(s) * LotSize
                     * (Base + Fee + half) * Base * Base * Base
<1>5. lot \in Nat \ {0}
  <2> HIDE DEF bar, half
  <2>1. bar.open * FxBuy(s) \in Nat \ {0}
    BY <1>2, <1>4, Products
  <2>2. bar.open * FxBuy(s) * LotSize \in Nat \ {0}
    BY <2>1, Rates, Products
  <2>3. Base + Fee + half \in Nat \ {0}
    BY <1>3, Rates
  <2>4. bar.open * FxBuy(s) * LotSize * (Base + Fee + half) \in Nat \ {0}
    BY <2>2, <2>3, Products
  <2>5. bar.open * FxBuy(s) * LotSize * (Base + Fee + half) * Base \in Nat \ {0}
    BY <2>4, Rates, Products
  <2>6. bar.open * FxBuy(s) * LotSize * (Base + Fee + half) * Base * Base \in Nat \ {0}
    BY <2>5, Rates, Products
  <2> QED
    BY <2>6, Rates, Products
<1>6. Quantity(signal) = Smaller(Budget(s) \div lot, bar.volume \div LotSize) * LotSize
  BY DEF Quantity
<1> HIDE DEF lot, bar
<1>7. Budget(s) \div lot \in Nat /\ bar.volume \div LotSize \in Nat
  BY <1>2, <1>5, BudgetIsNat, Rates, Products
<1>8. Smaller(Budget(s) \div lot, bar.volume \div LotSize) \in Nat
  BY <1>7 DEF Smaller
<1> QED
  BY <1>6, <1>8, Rates, Products

\* An order that is filled costs what its position records.
LEMMA NewPosition ==
    ASSUME TypeOK, phase = "entries", NEW signal, signal.symbol \in Symbols,
           signal.costs \in Costs \cup {NoCosts}, Admitted(signal),
           NEW over \in Overs(signal), session \in 1..LastSession
    PROVE  /\ Position(signal, over) \in PositionRecords
           /\ Position(signal, over).cost = Cost(signal, over)
           /\ Position(signal, over).symbol = signal.symbol
           /\ Position(signal, over).since = session
           /\ Cost(signal, over) \in Nat
<1>1. HasRate(signal.symbol) /\ day.bars[signal.symbol] # NoBar /\ HasCosts(signal)
  BY DEF Admitted
<1>2. day.bars[signal.symbol].open \in Nat
  BY <1>1, DayIsSound DEF IsDay, IsBar
<1>3. over \in 0..(Base - 1) /\ over \in Nat
  BY <1>1, CostsAreKnown, Rates
<1>4. Quantity(signal) \in Nat
  BY QuantityIsNat
<1>5. Cost(signal, over) \in Nat
  BY <1>1, <1>2, <1>3, <1>4, OrdersAreNat DEF Cost
<1>6. PlannedRisk(signal.symbol, day.bars[signal.symbol].open, over, Quantity(signal)) \in Nat
  BY <1>1, <1>2, <1>3, <1>4, OrdersAreNat
<1>7. /\ EntryPrice(day.bars[signal.symbol].open, over) \in Nat
      /\ StopPrice(day.bars[signal.symbol].open, over) \in Nat
      /\ TakePrice(day.bars[signal.symbol].open, over) \in Nat
  BY <1>2, <1>3, PricesAreNat
<1> QED
  BY <1>3, <1>4, <1>5, <1>6, <1>7 DEF Position, PositionRecords, NoPrice

\* What a sale pays.
LEMMA SalesAreNat ==
    ASSUME TypeOK, NEW p \in PositionRecords, Closes(p)
    PROVE  Proceeds(p, ExitPrice(p, day.bars[p.symbol])) \in Nat
<1> DEFINE bar == day.bars[p.symbol]
<1>1. p.symbol \in Symbols /\ p.quantity \in Nat /\ p.over \in 0..(Base - 1)
      /\ p.stop \in Nat /\ p.take \in Nat
  BY DEF PositionRecords
<1>2. HasRate(p.symbol) /\ bar # NoBar
  BY DEF Closes, CanSell
<1>3. bar.open \in Nat /\ bar.close \in Nat
  BY <1>1, <1>2, DayIsSound DEF IsDay, IsBar
<1>4. Scaled(bar.open) \in Nat /\ Scaled(bar.close) \in Nat
  BY <1>3, Rates, Products DEF Scaled
<1>5. ExitPrice(p, bar) \in Nat
  <2> HIDE DEF bar
  <2> QED
    BY <1>1, <1>4 DEF ExitPrice, NoPrice
<1>6. Base - p.over \in Nat /\ FxSell(p.symbol) \in Nat
  BY <1>1, <1>2, RatesOfTheDay, Rates
<1> DEFINE price == ExitPrice(p, bar)
<1> HIDE DEF price, bar
<1>7. price * (Base - p.over) \in Nat
  BY <1>5, <1>6, Products DEF price
<1>8. price * (Base - p.over) * p.quantity \in Nat
  BY <1>1, <1>7, Products
<1>9. price * (Base - p.over) * p.quantity * FxSell(p.symbol) \in Nat
  BY <1>6, <1>8, Products
<1>10. price * (Base - p.over) * p.quantity * FxSell(p.symbol) * (Base - Fee) \in Nat
  BY <1>9, Rates, Products
<1> QED
  BY <1>10 DEF Proceeds, price, bar

\* What a dividend pays.
LEMMA DividendsAreNat ==
    ASSUME TypeOK, NEW r \in DividendRecords, Payable(r)
    PROVE  NetDividend(r) \in Nat
<1>1. r.cash \in Nat /\ r.shares \in Nat
  BY DEF DividendRecords
<1> DEFINE rate == IF r.currency = "USD" THEN day.rate.sell ELSE 1
<1>2. rate \in Nat
  BY DayIsSound DEF IsDay, Payable
<1> HIDE DEF rate
<1>3. r.cash * r.shares \in Nat
  BY <1>1, Products
<1>4. r.cash * r.shares * rate \in Nat
  BY <1>2, <1>3, Products
<1>5. r.cash * r.shares * rate * Base \in Nat
  BY <1>4, Rates, Products
<1>6. r.cash * r.shares * rate * Base * Base \in Nat
  BY <1>5, Rates, Products
<1>7. r.cash * r.shares * rate * Base * Base * Base \in Nat
  BY <1>6, Rates, Products
<1> QED
  BY <1>7, Rates, Products DEF NetDividend, rate

-----------------------------------------------------------------------------
(* The invariant. *)

\* Nothing is left to do for a position of this session.
NotDue(p) ==
    CanSell(p.symbol) /\ HasRate(p.symbol) =>
        /\ p.stop < Scaled(day.bars[p.symbol].low)
        /\ Scaled(day.bars[p.symbol].high) < p.take
        /\ p.held < MaxHold

ExitsSoFar ==
    /\ phase = "exits" => \A i \in DOMAIN positions : i < at => NotDue(positions[i])
    /\ phase = "dividends" => \A i \in DOMAIN positions : NotDue(positions[i])

PaymentsSoFar ==
    /\ phase = "dividends" =>
          \A i \in DOMAIN receivables : i < at => ~Payable(receivables[i])
    /\ phase = "valuation" => \A i \in DOMAIN receivables : ~Payable(receivables[i])

Started == phase # "night" => session \in 1..LastSession

\* No position is of a session still to come.
OpenedSoFar == \A i \in DOMAIN positions : positions[i].since <= session

IInv ==
    /\ TypeOK
    /\ Started
    /\ OpenedSoFar
    /\ CashReconciles
    /\ BlockedAreHeld
    /\ HaltIsFinal
    /\ ExitsSoFar
    /\ PaymentsSoFar

LEMMA InitInv == Init => IInv
<1> SUFFICES ASSUME Init PROVE IInv
  OBVIOUS
<1>1. book \in Books
  BY CapitalIsNat, Rates DEF Init, Books
<1>2. TypeOK
  BY <1>1, Rates DEF Init, TypeOK
<1>3. CashReconciles
  <2> DEFINE f == [i \in DOMAIN positions |-> positions[i]["cost"]]
  <2>1. f = <<>>
    BY DEF Init
  <2>2. Total("cost") = Sum(<<>>)
    BY <2>1 DEF Total
  <2>3. Sum(<<>>) = 0
    <3>1. <<>> \in Seq(Int) /\ Len(<<>>) = 0
      OBVIOUS
    <3> QED
      BY <3>1, SumOfNone
  <2> QED
    BY <2>2, <2>3, CapitalIsNat DEF Init, CashReconciles
<1>4. BlockedAreHeld /\ HaltIsFinal /\ ExitsSoFar /\ PaymentsSoFar /\ Started
      /\ OpenedSoFar
  BY DEF Init, OpenedSoFar, BlockedAreHeld, HaltIsFinal, ExitsSoFar, PaymentsSoFar, Started
<1> QED
  BY <1>2, <1>3, <1>4 DEF IInv

\* A field of the positions, before and after a step: what they cost, or what
\* they may lose.
FieldOfList(list, field) == [i \in DOMAIN list |-> list[i][field]]

Summed == {"cost", "risk"}

LEMMA FieldIsNat ==
    ASSUME NEW p \in PositionRecords, NEW field \in Summed
    PROVE  p[field] \in Nat
<1>1. CASE field = "cost"
  BY <1>1 DEF PositionRecords
<1>2. CASE field = "risk"
  BY <1>2 DEF PositionRecords
<1> QED
  BY <1>1, <1>2 DEF Summed

LEMMA TotalIsSum ==
    ASSUME NEW field
    PROVE  /\ Total(field) = Sum(FieldOfList(positions, field))
           /\ Total(field)' = Sum(FieldOfList(positions', field))
  BY DEF Total, FieldOfList

LEMMA FieldsAreInt ==
    ASSUME NEW list \in Seq(PositionRecords), NEW field \in Summed
    PROVE  /\ FieldOfList(list, field) \in Seq(Int) /\ Len(FieldOfList(list, field)) = Len(list)
           /\ \A i \in 1..Len(list) : FieldOfList(list, field)[i] = list[i][field]
<1> DEFINE f == FieldOfList(list, field)
<1>0. \A i \in DOMAIN list : list[i] \in PositionRecords
  OBVIOUS
<1>1. \A i \in DOMAIN list : list[i][field] \in Int
  BY <1>0, FieldIsNat
<1>2. /\ DOMAIN f = DOMAIN list
      /\ f = [i \in DOMAIN f |-> f[i]]
  BY DEF FieldOfList
<1>3. \A i \in DOMAIN list : f[i] = list[i][field]
  BY DEF FieldOfList
<1>4. DOMAIN list = 1..Len(list)
  OBVIOUS
<1>5. \A i \in DOMAIN list : f[i] \in Int
  BY <1>1, <1>3
<1> HIDE DEF f
<1>6. f \in Seq(Int) /\ Len(f) = Len(list)
  BY <1>2, <1>5, AmountsOfPositions
<1> QED
  BY <1>3, <1>4, <1>6 DEF f

LEMMA SumOfSameField ==
    ASSUME NEW old \in Seq(PositionRecords), NEW new \in Seq(PositionRecords),
           NEW field \in Summed,
           Len(new) = Len(old), \A i \in 1..Len(old) : new[i][field] = old[i][field]
    PROVE  Sum(FieldOfList(new, field)) = Sum(FieldOfList(old, field))
<1> DEFINE c == FieldOfList(old, field)
           d == FieldOfList(new, field)
<1>1. c \in Seq(Int) /\ Len(c) = Len(old) /\ \A i \in 1..Len(old) : c[i] = old[i][field]
  BY FieldsAreInt
<1>2. d \in Seq(Int) /\ Len(d) = Len(new) /\ \A i \in 1..Len(new) : d[i] = new[i][field]
  BY FieldsAreInt
<1> HIDE DEF c, d
<1>3. Len(d) = Len(c) /\ \A i \in 1..Len(c) : c[i] = d[i]
  BY <1>1, <1>2
<1>4. Sum(d) = Sum(c)
  BY <1>1, <1>2, <1>3, SumOfSame
<1> QED
  BY <1>4 DEF c, d

LEMMA SumOfAddedField ==
    ASSUME NEW old \in Seq(PositionRecords), NEW p \in PositionRecords, NEW field \in Summed
    PROVE  Sum(FieldOfList(Append(old, p), field)) = Sum(FieldOfList(old, field)) + p[field]
<1> DEFINE new == Append(old, p)
           c == FieldOfList(old, field)
           d == FieldOfList(new, field)
<1>1. c \in Seq(Int) /\ Len(c) = Len(old) /\ \A i \in 1..Len(old) : c[i] = old[i][field]
  BY FieldsAreInt
<1>2. new \in Seq(PositionRecords) /\ Len(new) = Len(old) + 1 /\ Len(old) \in Nat
      /\ \A i \in 1..Len(old) : new[i] = old[i]
  OBVIOUS
<1>3. new[Len(old) + 1] = p
  OBVIOUS
<1> HIDE DEF new
<1>4. d \in Seq(Int) /\ Len(d) = Len(new) /\ \A i \in 1..Len(new) : d[i] = new[i][field]
  BY <1>2, FieldsAreInt
<1> HIDE DEF c, d
<1>5. Len(d) = Len(c) + 1 /\ \A i \in 1..Len(c) : c[i] = d[i]
  <2>1. \A i \in 1..Len(old) : i \in 1..Len(new)
    BY <1>2
  <2> QED
    BY <1>1, <1>2, <1>4, <2>1
<1>6. d[Len(d)] = p[field]
  <2>1. Len(new) \in 1..Len(new) /\ Len(d) = Len(new) /\ Len(new) = Len(old) + 1
    BY <1>2, <1>4
  <2>2. d[Len(new)] = new[Len(new)][field]
    BY <1>4, <2>1
  <2> QED
    BY <1>3, <2>1, <2>2
<1>7. Sum(d) = Sum(c) + d[Len(d)]
  BY <1>1, <1>4, <1>5, SumOfAppended
<1> QED
  BY <1>6, <1>7 DEF c, d, new

LEMMA SumOfRemovedField ==
    ASSUME NEW old \in Seq(PositionRecords), NEW k \in DOMAIN old, NEW field \in Summed
    PROVE  Sum(FieldOfList(Without(old, k), field))
             = Sum(FieldOfList(old, field)) - old[k][field]
<1> DEFINE new == Without(old, k)
           c == FieldOfList(old, field)
           d == FieldOfList(new, field)
<1>1. c \in Seq(Int) /\ Len(c) = Len(old) /\ \A i \in 1..Len(old) : c[i] = old[i][field]
  BY FieldsAreInt
<1>2. new \in Seq(PositionRecords) /\ Len(new) = Len(old) - 1
      /\ \A i \in 1..(Len(old) - 1) : new[i] = IF i < k THEN old[i] ELSE old[i + 1]
  BY RestOfList
<1>3. Len(old) \in Nat /\ k \in 1..Len(old)
  OBVIOUS
<1> HIDE DEF new
<1>4. d \in Seq(Int) /\ Len(d) = Len(new) /\ \A i \in 1..Len(new) : d[i] = new[i][field]
  BY <1>2, FieldsAreInt
<1> HIDE DEF c, d
<1>5. k \in 1..Len(c) /\ Len(d) = Len(c) - 1 /\ c[k] = old[k][field]
  BY <1>1, <1>2, <1>3, <1>4
<1>6. ASSUME NEW i \in 1..Len(d)
      PROVE  d[i] = IF i < k THEN c[i] ELSE c[i + 1]
  <2>1. i \in 1..(Len(old) - 1) /\ i \in 1..Len(old) /\ i + 1 \in 1..Len(old)
    BY <1>2, <1>3, <1>4
  <2>2. d[i] = new[i][field] /\ c[i] = old[i][field] /\ c[i + 1] = old[i + 1][field]
    BY <1>1, <1>2, <1>4, <2>1
  <2>3. new[i] = IF i < k THEN old[i] ELSE old[i + 1]
    BY <1>2, <2>1
  <2> QED
    BY <2>2, <2>3
<1>7. Sum(d) = Sum(c) - c[k]
  BY <1>1, <1>4, <1>5, <1>6, SumOfRest
<1> QED
  BY <1>5, <1>7 DEF c, d, new

LEMMA TotalIsInt ==
    ASSUME positions \in Seq(PositionRecords), NEW field \in Summed
    PROVE  Total(field) \in Int
<1>1. FieldOfList(positions, field) \in Seq(Int)
  BY FieldsAreInt
<1> QED
  BY <1>1, TotalIsSum, SumIsInt

\* What a step does to the sum of a field.
LEMMA TotalKept ==
    ASSUME positions \in Seq(PositionRecords), positions' \in Seq(PositionRecords),
           NEW field \in Summed, Len(positions') = Len(positions),
           \A i \in 1..Len(positions) : positions'[i][field] = positions[i][field]
    PROVE  Total(field)' = Total(field)
  BY TotalIsSum, SumOfSameField

LEMMA TotalAdded ==
    ASSUME positions \in Seq(PositionRecords), NEW p \in PositionRecords,
           NEW field \in Summed, positions' = Append(positions, p)
    PROVE  Total(field)' = Total(field) + p[field]
  BY TotalIsSum, SumOfAddedField

LEMMA TotalRemoved ==
    ASSUME positions \in Seq(PositionRecords), NEW k \in DOMAIN positions,
           NEW field \in Summed, positions' = Without(positions, k)
    PROVE  Total(field)' = Total(field) - positions[k][field]
  BY TotalIsSum, SumOfRemovedField

LEMMA CostIsSummed == "cost" \in Summed /\ "risk" \in Summed
  BY DEF Summed

\* The books agree as long as the positions cost what they did,
LEMMA SameCosts ==
    ASSUME TypeOK, CashReconciles, positions' \in Seq(PositionRecords),
           Len(positions') = Len(positions),
           \A i \in 1..Len(positions) : positions'[i].cost = positions[i].cost,
           book' \in Books, NEW paid \in Int,
           book'.cash = book.cash + paid, book'.realized = book.realized + paid
    PROVE  CashReconciles'
<1>1. positions \in Seq(PositionRecords) /\ book.cash \in Int /\ book.realized \in Int
  BY DEF TypeOK, Books
<1>2. Total("cost") \in Int /\ Total("cost")' = Total("cost")
  BY <1>1, TotalIsInt, TotalKept, CostIsSummed
<1>3. book.cash + Total("cost") = Capital + book.realized
  BY DEF CashReconciles
<1>4. book'.cash + Total("cost")' = Capital + book'.realized
  <2>1. Capital \in Int
    BY CapitalIsNat
  <2>2. (book.cash + paid) + Total("cost") = Capital + (book.realized + paid)
    <3> DEFINE t == Total("cost")
               k == Capital
               c == book.cash
               r == book.realized
    <3>1. t \in Int /\ k \in Int /\ c \in Int /\ r \in Int /\ c + t = k + r
      BY <1>1, <1>2, <1>3, <2>1, Zenon
    <3> HIDE DEF t, k, c, r
    <3>2. (c + paid) + t = k + (r + paid)
      BY <3>1
    <3> QED
      BY <3>2 DEF t, k, c, r
  <2> QED
    BY <1>2, <2>2, Zenon
<1> QED
  BY <1>4 DEF CashReconciles, Capital

\* when a purchase takes what the new position costs,
LEMMA AddedCost ==
    ASSUME TypeOK, CashReconciles, NEW p \in PositionRecords,
           positions' = Append(positions, p),
           book'.cash = book.cash - p.cost, book'.realized = book.realized
    PROVE  CashReconciles'
<1>1. positions \in Seq(PositionRecords) /\ book.cash \in Int /\ book.realized \in Int
      /\ p.cost \in Int
  BY DEF TypeOK, Books, PositionRecords
<1>2. Total("cost") \in Int /\ Total("cost")' = Total("cost") + p.cost
  BY <1>1, TotalIsInt, TotalAdded, CostIsSummed
<1>3. book.cash + Total("cost") = Capital + book.realized
  BY DEF CashReconciles
<1>4. book'.cash + Total("cost")' = Capital + book'.realized
  <2>1. Capital \in Int
    BY CapitalIsNat
  <2>2. (book.cash - p.cost) + (Total("cost") + p.cost) = Capital + book.realized
    BY <1>1, <1>2, <1>3, <2>1
  <2> QED
    BY <1>2, <2>2, Zenon
<1> QED
  BY <1>4 DEF CashReconciles, Capital

\* and when a sale or a write-off returns what is left of it.
LEMMA RemovedCost ==
    ASSUME TypeOK, CashReconciles, NEW k \in DOMAIN positions,
           positions' = Without(positions, k), NEW paid \in Int,
           book'.cash = book.cash + paid,
           book'.realized = book.realized + paid - positions[k].cost
    PROVE  CashReconciles'
<1>0. positions \in Seq(PositionRecords) /\ book.cash \in Int /\ book.realized \in Int
  BY DEF TypeOK, Books
<1>1. positions[k].cost \in Int
  <2>1. positions[k] \in PositionRecords
    BY <1>0
  <2> QED
    BY <2>1 DEF PositionRecords
<1>2. Total("cost") \in Int /\ Total("cost")' = Total("cost") - positions[k].cost
  BY <1>0, TotalIsInt, TotalRemoved, CostIsSummed
<1>3. book.cash + Total("cost") = Capital + book.realized
  BY DEF CashReconciles
<1>4. book'.cash + Total("cost")' = Capital + book'.realized
  <2>1. Capital \in Int
    BY CapitalIsNat
  <2>2. (book.cash + paid) + (Total("cost") - positions[k].cost)
           = Capital + (book.realized + paid - positions[k].cost)
    <3> DEFINE t == Total("cost")
               c == book.cash
               r == book.realized
               x == positions[k].cost
               y == Capital
    <3>1. /\ t \in Int /\ y \in Int /\ c \in Int /\ r \in Int /\ x \in Int
          /\ c + t = y + r
      BY <1>0, <1>1, <1>2, <1>3, <2>1, Zenon
    <3> HIDE DEF t, y, c, r, x
    <3>2. (c + paid) + (t - x) = y + (r + paid - x)
      BY <3>1
    <3> QED
      BY <3>2 DEF t, y, c, r, x
  <2> QED
    BY <1>2, <2>2, Zenon
<1> QED
  BY <1>4 DEF CashReconciles, Capital

-----------------------------------------------------------------------------
(* The lists before and after a step. *)

LEMMA SymbolsAre ==
    ASSUME TypeOK
    PROVE  /\ positions \in Seq(PositionRecords) /\ Len(positions) \in Nat
           /\ DOMAIN positions = 1..Len(positions)
           /\ \A i \in DOMAIN positions : positions[i] \in PositionRecords
           /\ \A i \in DOMAIN positions : positions[i].symbol \in Symbols
<1>1. positions \in Seq(PositionRecords)
  BY DEF TypeOK
<1>2. \A i \in DOMAIN positions : positions[i] \in PositionRecords
  BY <1>1
<1>3. \A i \in DOMAIN positions : positions[i].symbol \in Symbols
  BY <1>2 DEF PositionRecords
<1> QED
  BY <1>1, <1>2, <1>3

\* A step that leaves the account alone.
LEMMA SameAccount ==
    ASSUME IInv, UNCHANGED <<positions, book, blocked>>,
           session' \in {session, session + 1}
    PROVE  /\ CashReconciles' /\ BlockedAreHeld' /\ HaltIsFinal' /\ OpenedSoFar'
<1>1. CashReconciles'
  BY DEF IInv, CashReconciles, Total, Capital
<1>2. BlockedAreHeld' /\ HaltIsFinal'
  BY DEF IInv, BlockedAreHeld, HaltIsFinal, Held
<1>3. OpenedSoFar'
  <2>1. \A i \in DOMAIN positions : positions[i].since \in Nat
    <3>1. \A i \in DOMAIN positions : positions[i] \in PositionRecords
      BY SymbolsAre DEF IInv
    <3> QED
      BY <3>1 DEF PositionRecords
  <2>2. session \in Nat /\ \A i \in DOMAIN positions : positions[i].since <= session
    BY DEF IInv, TypeOK, OpenedSoFar
  <2> QED
    BY <2>1, <2>2 DEF OpenedSoFar
<1> QED
  BY <1>1, <1>2, <1>3

\* A step that changes positions and keeps what they are of.
LEMMA KeptPositions ==
    ASSUME IInv, positions' \in Seq(PositionRecords), Len(positions') = Len(positions),
           \A i \in 1..Len(positions) : /\ positions'[i].symbol = positions[i].symbol
                                        /\ positions'[i].since = positions[i].since
    PROVE  /\ Held' = Held
           /\ \A i \in DOMAIN positions' :
                 i \in DOMAIN positions /\ positions'[i].since = positions[i].since
<1>1. DOMAIN positions' = 1..Len(positions) /\ DOMAIN positions = 1..Len(positions)
  BY SymbolsAre DEF IInv
<1> QED
  BY <1>1 DEF Held

LEMMA ReplacedPosition ==
    ASSUME NEW list \in Seq(PositionRecords), NEW k \in DOMAIN list,
           NEW p \in PositionRecords, p.symbol = list[k].symbol,
           p.cost = list[k].cost, p.since = list[k].since
    PROVE  LET new == [list EXCEPT ![k] = p]
           IN  /\ new \in Seq(PositionRecords) /\ Len(new) = Len(list)
               /\ \A i \in 1..Len(list) : /\ new[i].symbol = list[i].symbol
                                          /\ new[i].cost = list[i].cost
                                          /\ new[i].since = list[i].since
<1> DEFINE new == [list EXCEPT ![k] = p]
<1>1. new \in Seq(PositionRecords) /\ Len(new) = Len(list)
  OBVIOUS
<1>2. \A i \in 1..Len(list) : new[i] = IF i = k THEN p ELSE list[i]
  OBVIOUS
<1> QED
  BY <1>1, <1>2

\* A step that takes a position away.
LEMMA RemovedPosition ==
    ASSUME IInv, NEW k \in DOMAIN positions, positions' = Without(positions, k)
    PROVE  /\ positions' \in Seq(PositionRecords)
           /\ Held \ {positions[k].symbol} \subseteq Held'
           /\ \A i \in DOMAIN positions' :
                 i < k => i \in DOMAIN positions /\ positions'[i] = positions[i]
           /\ \A i \in DOMAIN positions' :
                 \E j \in DOMAIN positions : positions'[i] = positions[j]
<1>1. positions \in Seq(PositionRecords) /\ Len(positions) \in Nat
      /\ DOMAIN positions = 1..Len(positions)
  BY SymbolsAre DEF IInv
<1>2. positions' \in Seq(PositionRecords) /\ Len(positions') = Len(positions) - 1
      /\ \A i \in 1..(Len(positions) - 1) :
            positions'[i] = IF i < k THEN positions[i] ELSE positions[i + 1]
  BY <1>1, RestOfList
<1>3. DOMAIN positions' = 1..(Len(positions) - 1)
  BY <1>1, <1>2
<1>4. \A i \in DOMAIN positions' :
         /\ i < k => i \in DOMAIN positions /\ positions'[i] = positions[i]
         /\ \E j \in DOMAIN positions : positions'[i] = positions[j]
  <2> SUFFICES ASSUME NEW i \in DOMAIN positions'
               PROVE  /\ i < k => i \in DOMAIN positions /\ positions'[i] = positions[i]
                      /\ \E j \in DOMAIN positions : positions'[i] = positions[j]
    OBVIOUS
  <2>1. i \in 1..(Len(positions) - 1)
    BY <1>3
  <2>2. i \in DOMAIN positions /\ i + 1 \in DOMAIN positions
    BY <1>1, <2>1
  <2>3. positions'[i] = IF i < k THEN positions[i] ELSE positions[i + 1]
    BY <1>2, <2>1
  <2> QED
    BY <2>2, <2>3
<1>5. ASSUME NEW s \in Held, s # positions[k].symbol PROVE s \in Held'
  <2>1. PICK j \in DOMAIN positions : positions[j].symbol = s
    BY DEF Held
  <2>2. CASE j < k
    <3>1. j \in DOMAIN positions' /\ positions'[j] = positions[j]
      BY <1>1, <1>2, <1>3, <2>2
    <3> QED
      BY <2>1, <3>1 DEF Held
  <2>3. CASE j > k
    <3>1. j - 1 \in DOMAIN positions' /\ positions'[j - 1] = positions[j]
      BY <1>1, <1>2, <1>3, <2>3
    <3> QED
      BY <2>1, <3>1 DEF Held
  <2> QED
    BY <1>1, <1>5, <2>1, <2>2, <2>3
<1> QED
  BY <1>2, <1>4, <1>5

LEMMA RemovedBooks ==
    ASSUME IInv, NEW k \in DOMAIN positions, positions' = Without(positions, k),
           book'.halted = book.halted, session' = session
    PROVE  HaltIsFinal' /\ OpenedSoFar'
<1>1. \A i \in DOMAIN positions' : \E j \in DOMAIN positions : positions'[i] = positions[j]
  BY RemovedPosition
<1> QED
  BY <1>1 DEF IInv, HaltIsFinal, OpenedSoFar

-----------------------------------------------------------------------------
(* The steps. *)

LEMMA OpenSessionStep == ASSUME IInv, OpenSession PROVE IInv'
<1>1. CashReconciles' /\ BlockedAreHeld' /\ HaltIsFinal' /\ OpenedSoFar'
  BY SameAccount DEF OpenSession
<1>2. PICK d \in Days : incidents + Odd(d) <= MaxIncidents
                        /\ incidents' = incidents + Odd(d) /\ day' = d
  BY DEF OpenSession
<1>3. Odd(d) \in Nat
  <2>1. \A S \in SUBSET Symbols : Cardinality(S) \in Nat
    BY InputsAssumption, FS_Subset, FS_CardinalityType
  <2> QED
    BY <2>1 DEF Odd
<1>4. incidents' \in 0..MaxIncidents
  BY <1>2, <1>3, Rates DEF IInv, TypeOK
<1>5. session' \in 0..known
  BY Rates DEF IInv, TypeOK, OpenSession
<1>6. TypeOK'
  BY <1>2, <1>4, <1>5 DEF IInv, TypeOK, OpenSession
<1>7. Started' /\ ExitsSoFar' /\ PaymentsSoFar'
  BY Rates DEF IInv, TypeOK, OpenSession, Started, ExitsSoFar, PaymentsSoFar
<1> QED
  BY <1>1, <1>6, <1>7 DEF IInv

\* The ends of the loops: what the loop settled holds for the whole list.
LEMMA EndOfLoopStep ==
    ASSUME IInv, NEW from, NEW to, EndOfLoop(from, to),
           to \in {"actions", "entries", "exits", "dividends", "valuation"},
           from # "night"
    PROVE  /\ TypeOK' /\ Started'
           /\ CashReconciles' /\ BlockedAreHeld' /\ HaltIsFinal' /\ OpenedSoFar'
<1>1. CashReconciles' /\ BlockedAreHeld' /\ HaltIsFinal' /\ OpenedSoFar'
  BY SameAccount DEF EndOfLoop
<1>2. TypeOK'
  BY DEF IInv, TypeOK, EndOfLoop, Books
<1>3. Started'
  BY DEF IInv, EndOfLoop, Started
<1> QED
  BY <1>1, <1>2, <1>3

LEMMA EndLifecycleStep == ASSUME IInv, EndLifecycle PROVE IInv'
<1>1. ExitsSoFar' /\ PaymentsSoFar'
  BY DEF EndLifecycle, EndOfLoop, ExitsSoFar, PaymentsSoFar
<1> QED
  BY <1>1, EndOfLoopStep DEF EndLifecycle, IInv

LEMMA EndActionsStep == ASSUME IInv, EndActions PROVE IInv'
<1>1. ExitsSoFar' /\ PaymentsSoFar'
  BY DEF EndActions, EndOfLoop, ExitsSoFar, PaymentsSoFar
<1> QED
  BY <1>1, EndOfLoopStep DEF EndActions, IInv

LEMMA EndEntriesStep == ASSUME IInv, EndEntries PROVE IInv'
<1>1. \A i \in DOMAIN positions : ~(i < 1)
  BY SymbolsAre DEF IInv
<1>2. ExitsSoFar' /\ PaymentsSoFar'
  BY <1>1 DEF EndEntries, EndOfLoop, ExitsSoFar, PaymentsSoFar
<1> QED
  BY <1>2, EndOfLoopStep DEF EndEntries, IInv

LEMMA EndExitsStep == ASSUME IInv, EndExits PROVE IInv'
<1>1. \A i \in DOMAIN positions : NotDue(positions[i])
  <2>1. at \in Nat /\ \A i \in DOMAIN positions : i < at
    BY SymbolsAre DEF IInv, TypeOK, EndExits
  <2> QED
    BY <2>1 DEF EndExits, EndOfLoop, IInv, ExitsSoFar
<1>2. ExitsSoFar'
  BY <1>1 DEF EndExits, EndOfLoop, ExitsSoFar, NotDue, CanSell, HasRate
<1>3. \A i \in DOMAIN receivables : ~(i < 1)
  BY DEF IInv, TypeOK
<1>4. PaymentsSoFar'
  BY <1>3 DEF EndExits, EndOfLoop, PaymentsSoFar
<1> QED
  BY <1>2, <1>4, EndOfLoopStep DEF EndExits, IInv

LEMMA EndDividendsStep == ASSUME IInv, EndDividends PROVE IInv'
<1>1. \A i \in DOMAIN receivables : ~Payable(receivables[i])
  <2>1. \A i \in DOMAIN receivables : i < at
    <3>1. receivables \in Seq(DividendRecords) /\ at \in Nat /\ at > Len(receivables)
      BY DEF IInv, TypeOK, EndDividends
    <3> QED
      BY <3>1
  <2> QED
    BY <2>1 DEF EndDividends, EndOfLoop, IInv, PaymentsSoFar
<1>2. ExitsSoFar' /\ PaymentsSoFar'
  BY <1>1 DEF EndDividends, EndOfLoop, ExitsSoFar, PaymentsSoFar, Payable
<1> QED
  BY <1>2, EndOfLoopStep DEF EndDividends, IInv

\* A loss changes the streak and the cooldown only.
LEMMA LossIsBooked ==
    ASSUME NEW b \in Books, session \in Nat
    PROVE  /\ AfterLoss(b) \in Books /\ AfterLoss(b).cash = b.cash
           /\ AfterLoss(b).realized = b.realized /\ AfterLoss(b).halted = b.halted
<1>1. b.streak + 1 \in Nat /\ session + CooldownSessions \in Nat
  BY Rates DEF Books
<1> QED
  BY <1>1 DEF AfterLoss, Books

LEMMA SaleIsBooked ==
    ASSUME NEW b \in Books, NEW p \in PositionRecords, NEW paid \in Nat
    PROVE  /\ Sold(b, p, paid) \in Books /\ Sold(b, p, paid).cash = b.cash + paid
           /\ Sold(b, p, paid).realized = b.realized + paid - p.cost
           /\ Sold(b, p, paid).halted = b.halted
<1>1. b.cash + paid \in Nat /\ b.realized + paid - p.cost \in Int
  BY DEF Books, PositionRecords
<1> QED
  BY <1>1 DEF Sold, Books

LEMMA WriteOffStep == ASSUME IInv, WriteOff PROVE IInv'
<1> DEFINE p == positions[at]
<1>0. /\ phase = "lifecycle" /\ at \in DOMAIN positions
      /\ book' = AfterLoss(Sold(book, p, 0))
      /\ blocked' = Unblocked(p.symbol)
      /\ positions' = Without(positions, at)
      /\ UNCHANGED <<known, actions, session, phase, at, day, due, receivables, incidents>>
  BY DEF WriteOff
<1>1. p \in PositionRecords /\ book \in Books /\ session \in Nat
  BY <1>0, SymbolsAre DEF IInv, TypeOK
<1>2. /\ book' \in Books /\ book'.cash = book.cash + 0
      /\ book'.realized = book.realized + 0 - p.cost /\ book'.halted = book.halted
  <2> HIDE DEF p
  <2>1. 0 \in Nat
    OBVIOUS
  <2> QED
    BY <1>0, <1>1, <2>1, SaleIsBooked, LossIsBooked
<1>3. CashReconciles'
  BY <1>0, <1>2, RemovedCost DEF IInv
<1>4. HaltIsFinal' /\ OpenedSoFar'
  BY <1>0, <1>2, RemovedBooks
<1>5. positions' \in Seq(PositionRecords) /\ Held \ {p.symbol} \subseteq Held'
  BY <1>0, RemovedPosition
<1>6. BlockedAreHeld'
  BY <1>0, <1>5 DEF IInv, BlockedAreHeld, Unblocked
<1>7. blocked' \in [action: SUBSET Symbols, life: SUBSET Symbols]
  BY <1>0 DEF IInv, TypeOK, Unblocked
<1>8. TypeOK'
  BY <1>0, <1>2, <1>5, <1>7 DEF IInv, TypeOK
<1>9. Started' /\ ExitsSoFar' /\ PaymentsSoFar'
  BY <1>0 DEF IInv, Started, ExitsSoFar, PaymentsSoFar
<1> QED
  BY <1>3, <1>4, <1>6, <1>8, <1>9 DEF IInv

LEMMA KeepListedStep == ASSUME IInv, KeepListed PROVE IInv'
<1> DEFINE s == positions[at].symbol
<1>0. /\ phase = "lifecycle" /\ at \in DOMAIN positions
      /\ blocked' = CASE LifeOf(s) = "suspended" -> [blocked EXCEPT !.life = @ \cup {s}]
                      [] LifeOf(s) = "investable" -> [blocked EXCEPT !.life = @ \ {s}]
                      [] OTHER -> blocked
      /\ at' = at + 1
      /\ UNCHANGED <<known, actions, session, phase, day, due, positions, receivables,
                     book, incidents>>
  BY DEF KeepListed
<1>1. s \in Held /\ s \in Symbols /\ blocked \in [action: SUBSET Symbols, life: SUBSET Symbols]
  BY <1>0, SymbolsAre DEF Held, IInv, TypeOK
<1>2. \/ blocked' = [blocked EXCEPT !.life = @ \cup {s}]
      \/ blocked' = [blocked EXCEPT !.life = @ \ {s}]
      \/ blocked' = blocked
  BY <1>0
<1> HIDE DEF s
<1>3. /\ blocked' \in [action: SUBSET Symbols, life: SUBSET Symbols]
      /\ blocked'.action \cup blocked'.life \subseteq blocked.action \cup blocked.life \cup {s}
  BY <1>1, <1>2
<1>4. BlockedAreHeld'
  BY <1>0, <1>1, <1>3 DEF IInv, BlockedAreHeld, Held
<1>5. TypeOK'
  <2>1. at' \in Nat \ {0}
    BY <1>0 DEF IInv, TypeOK
  <2> QED
    BY <1>0, <1>3, <2>1 DEF IInv, TypeOK
<1>6. CashReconciles'
  BY <1>0 DEF IInv, CashReconciles, Total, Capital
<1>7. /\ HaltIsFinal' /\ OpenedSoFar' /\ Started'
      /\ ExitsSoFar' /\ PaymentsSoFar'
  BY <1>0 DEF IInv, HaltIsFinal, OpenedSoFar, Started, ExitsSoFar, PaymentsSoFar
<1> QED
  BY <1>4, <1>5, <1>6, <1>7 DEF IInv

\* A step of the loops before the exits: nothing is said of them yet.
LEMMA EarlyPhase ==
    ASSUME IInv, phase' \in {"actions", "entries"}, session' = session, phase # "night"
    PROVE  Started' /\ ExitsSoFar' /\ PaymentsSoFar'
  BY DEF IInv, Started, ExitsSoFar, PaymentsSoFar

LEMMA ActionIsSound ==
    ASSUME TypeOK, NEW a \in due
    PROVE  IsAction(a)
  BY InputsAssumption DEF TypeOK

LEMMA PassActionStep == ASSUME IInv, NEW a \in due, PassAction(a) PROVE IInv'
<1>1. CashReconciles' /\ BlockedAreHeld' /\ HaltIsFinal' /\ OpenedSoFar'
  BY SameAccount DEF PassAction
<1>2. TypeOK'
  BY DEF IInv, TypeOK, PassAction
<1>3. Started' /\ ExitsSoFar' /\ PaymentsSoFar'
  BY EarlyPhase DEF PassAction
<1> QED
  BY <1>1, <1>2, <1>3 DEF IInv

LEMMA BlockOnActionStep == ASSUME IInv, NEW a \in due, BlockOnAction(a) PROVE IInv'
<1>0. /\ phase = "actions" /\ due' = due \ {a}
      /\ blocked' = [blocked EXCEPT !.action = @ \cup {a.symbol}]
      /\ UNCHANGED <<known, actions, session, phase, at, day, positions, receivables,
                     book, incidents>>
  BY DEF BlockOnAction
<1>1. a.symbol \in Held /\ a.symbol \in Symbols
  BY ActionIsSound DEF BlockOnAction, Held, IInv, IsAction
<1>2. /\ blocked' \in [action: SUBSET Symbols, life: SUBSET Symbols]
      /\ blocked'.action \cup blocked'.life
             = blocked.action \cup blocked.life \cup {a.symbol}
  BY <1>0, <1>1 DEF IInv, TypeOK
<1>3. BlockedAreHeld'
  BY <1>0, <1>1, <1>2 DEF IInv, BlockedAreHeld, Held
<1>4. TypeOK'
  BY <1>0, <1>2 DEF IInv, TypeOK
<1>5. CashReconciles'
  BY <1>0 DEF IInv, CashReconciles, Total, Capital
<1>6. HaltIsFinal' /\ OpenedSoFar'
  BY <1>0 DEF IInv, HaltIsFinal, OpenedSoFar
<1>7. Started' /\ ExitsSoFar' /\ PaymentsSoFar'
  BY <1>0, EarlyPhase
<1> QED
  BY <1>3, <1>4, <1>5, <1>6, <1>7 DEF IInv

LEMMA SplitKeepsTheRest ==
    ASSUME NEW p \in PositionRecords, NEW a, IsAction(a)
    PROVE  /\ Split(p, a) \in PositionRecords
           /\ Split(p, a).symbol = p.symbol /\ Split(p, a).cost = p.cost
           /\ Split(p, a).since = p.since
<1>1. a.times \in Nat \ {0} /\ a.over \in Nat \ {0}
  BY DEF IsAction
<1>2. p.quantity \in Nat /\ p.entry \in Nat /\ p.stop \in Nat /\ p.take \in Nat
  BY DEF PositionRecords
<1>3. /\ p.quantity * a.times \in Nat /\ p.entry * a.over \in Nat
      /\ p.stop * a.over \in Nat /\ p.take * a.over \in Nat
  BY <1>1, <1>2, Products
<1>4. /\ (p.quantity * a.times) \div a.over \in Nat /\ (p.entry * a.over) \div a.times \in Nat
      /\ (p.stop * a.over) \div a.times \in Nat /\ (p.take * a.over) \div a.times \in Nat
  BY <1>1, <1>3, Products
<1> QED
  BY <1>4 DEF Split, PositionRecords

LEMMA ApplySplitStep == ASSUME IInv, NEW a \in due, ApplySplit(a) PROVE IInv'
<1>0. /\ phase = "actions" /\ due' = due \ {a}
      /\ UNCHANGED <<known, actions, session, phase, at, day, receivables, book,
                     blocked, incidents>>
  BY DEF ApplySplit
<1>1. PICK i \in DOMAIN positions : positions' = [positions EXCEPT ![i] = Split(@, a)]
  BY DEF ApplySplit
<1>2. positions \in Seq(PositionRecords) /\ positions[i] \in PositionRecords /\ IsAction(a)
  BY SymbolsAre, ActionIsSound DEF IInv
<1>3. /\ positions' \in Seq(PositionRecords) /\ Len(positions') = Len(positions)
      /\ \A j \in 1..Len(positions) : /\ positions'[j].symbol = positions[j].symbol
                                      /\ positions'[j].cost = positions[j].cost
                                      /\ positions'[j].since = positions[j].since
  <2> DEFINE p == Split(positions[i], a)
  <2>1. /\ p \in PositionRecords /\ p.symbol = positions[i].symbol
        /\ p.cost = positions[i].cost /\ p.since = positions[i].since
    BY <1>2, SplitKeepsTheRest
  <2>2. positions' = [positions EXCEPT ![i] = p]
    BY <1>1
  <2> HIDE DEF p
  <2> QED
    BY <1>2, <2>1, <2>2, ReplacedPosition
<1>4. /\ Held' = Held
      /\ \A j \in DOMAIN positions' :
            j \in DOMAIN positions /\ positions'[j].since = positions[j].since
  BY <1>3, KeptPositions
<1>5. CashReconciles'
  <2>1. /\ book' \in Books /\ 0 \in Int /\ book'.cash = book.cash + 0
        /\ book'.realized = book.realized + 0
    BY <1>0 DEF IInv, TypeOK, Books
  <2> QED
    BY <1>3, <2>1, SameCosts DEF IInv
<1>6. BlockedAreHeld'
  BY <1>0, <1>4 DEF IInv, BlockedAreHeld
<1>7. HaltIsFinal' /\ OpenedSoFar'
  BY <1>0, <1>4 DEF IInv, HaltIsFinal, OpenedSoFar
<1>8. TypeOK'
  BY <1>0, <1>3 DEF IInv, TypeOK
<1>9. Started' /\ ExitsSoFar' /\ PaymentsSoFar'
  BY <1>0, EarlyPhase
<1> QED
  BY <1>5, <1>6, <1>7, <1>8, <1>9 DEF IInv

LEMMA RecordDividendStep == ASSUME IInv, NEW a \in due, RecordDividend(a) PROVE IInv'
<1>1. CashReconciles' /\ BlockedAreHeld' /\ HaltIsFinal' /\ OpenedSoFar'
  BY SameAccount DEF RecordDividend
<1>2. receivables' \in Seq(DividendRecords)
  <2>1. PICK i \in DOMAIN positions :
           receivables' =
              IF a.currency = "other" THEN receivables
              ELSE Append(receivables, [id |-> a.id, shares |-> positions[i].quantity,
                                        cash |-> a.cash, payable |-> a.payable,
                                        currency |-> a.currency])
    BY DEF RecordDividend
  <2>2. positions[i].quantity \in Nat
    <3>1. positions[i] \in PositionRecords
      BY SymbolsAre DEF IInv
    <3> QED
      BY <3>1 DEF PositionRecords
  <2>3. a.currency # "other" =>
           [id |-> a.id, shares |-> positions[i].quantity, cash |-> a.cash,
            payable |-> a.payable, currency |-> a.currency] \in DividendRecords
    BY <2>2, ActionIsSound DEF IInv, IsAction, DividendRecords
  <2>4. receivables \in Seq(DividendRecords)
    BY DEF IInv, TypeOK
  <2> QED
    BY <2>1, <2>3, <2>4
<1>3. TypeOK'
  BY <1>2 DEF IInv, TypeOK, RecordDividend
<1>4. Started' /\ ExitsSoFar' /\ PaymentsSoFar'
  BY EarlyPhase DEF RecordDividend
<1> QED
  BY <1>1, <1>3, <1>4 DEF IInv

LEMMA RejectStep == ASSUME IInv, Reject PROVE IInv'
<1>1. CashReconciles' /\ BlockedAreHeld' /\ HaltIsFinal' /\ OpenedSoFar'
  BY SameAccount DEF Reject
<1>2. TypeOK'
  <2>1. at' \in Nat \ {0}
    BY DEF IInv, TypeOK, Reject
  <2> QED
    BY <2>1 DEF IInv, TypeOK, Reject
<1>3. Started' /\ ExitsSoFar' /\ PaymentsSoFar'
  BY EarlyPhase DEF Reject
<1> QED
  BY <1>1, <1>2, <1>3 DEF IInv

LEMMA EnterStep == ASSUME IInv, Enter PROVE IInv'
<1> DEFINE signal == day.entries[at]
<1>0. /\ phase = "entries" /\ at \in DOMAIN day.entries /\ Admitted(signal) /\ at' = at + 1
      /\ UNCHANGED <<known, actions, session, phase, day, due, receivables, blocked,
                     incidents>>
  BY DEF Enter
<1>1. PICK over \in Overs(signal) :
         /\ ~Unfilled(signal, over)
         /\ positions' = Append(positions, Position(signal, over))
         /\ book' = [book EXCEPT !.cash = @ - Cost(signal, over)]
  BY DEF Enter
<1>2. signal.symbol \in Symbols /\ signal.costs \in Costs \cup {NoCosts}
  BY <1>0, DayIsSound DEF IInv, IsDay
<1>3. session \in 1..LastSession /\ TypeOK
  BY <1>0 DEF IInv, Started
<1> DEFINE p == Position(signal, over)
<1>4. /\ p \in PositionRecords /\ p.cost = Cost(signal, over)
      /\ p.symbol = signal.symbol /\ p.since = session /\ Cost(signal, over) \in Nat
  <2> HIDE DEF signal
  <2> QED
    BY <1>0, <1>2, <1>3, NewPosition
<1>5. Cost(signal, over) <= book.cash /\ book.halted = 0
  <2>1. ~(Cost(signal, over) > book.cash) /\ book.cash \in Nat
    BY <1>1, <1>3 DEF Unfilled, TypeOK, Books
  <2> QED
    BY <1>0, <1>4, <2>1 DEF Admitted, Stopped
<1> HIDE DEF p, signal
<1>6. /\ book' \in Books /\ book'.cash = book.cash - p.cost
      /\ book'.realized = book.realized /\ book'.halted = 0
  <2>1. book \in Books
    BY <1>3 DEF TypeOK
  <2>2. book.cash - Cost(signal, over) \in Nat
    <3>1. book.cash \in Nat
      BY <2>1 DEF Books
    <3> QED
      BY <1>4, <1>5, <3>1
  <2>3. book' = [book EXCEPT !.cash = book.cash - Cost(signal, over)]
    BY <1>1
  <2> QED
    BY <1>4, <1>5, <2>1, <2>2, <2>3 DEF Books
<1>7. positions' = Append(positions, p) /\ positions \in Seq(PositionRecords)
  BY <1>1, <1>3 DEF p, TypeOK
<1>8. CashReconciles'
  BY <1>3, <1>4, <1>6, <1>7, AddedCost DEF IInv
<1>9. /\ positions' \in Seq(PositionRecords)
      /\ \A i \in DOMAIN positions : i \in DOMAIN positions' /\ positions'[i] = positions[i]
      /\ \A i \in DOMAIN positions' :
            positions'[i] = p \/ (i \in DOMAIN positions /\ positions'[i] = positions[i])
  BY <1>4, <1>7
<1>10. BlockedAreHeld'
  <2>1. Held \subseteq Held'
    BY <1>9 DEF Held
  <2> QED
    BY <1>0, <2>1 DEF IInv, BlockedAreHeld
<1>11. HaltIsFinal'
  BY <1>6 DEF HaltIsFinal
<1>12. OpenedSoFar'
  BY <1>0, <1>3, <1>4, <1>9 DEF IInv, OpenedSoFar
<1>13. TypeOK'
  <2>1. at' \in Nat \ {0}
    BY <1>0, <1>3 DEF TypeOK
  <2> QED
    BY <1>0, <1>3, <1>6, <1>9, <2>1 DEF TypeOK
<1>14. Started' /\ ExitsSoFar' /\ PaymentsSoFar'
  BY <1>0, EarlyPhase
<1> QED
  BY <1>8, <1>10, <1>11, <1>12, <1>13, <1>14 DEF IInv

\* What ExitPrice decides once the sale is possible.
LEMMA NoExitIsNotDue ==
    ASSUME TypeOK, NEW p \in PositionRecords, ~Closes(p)
    PROVE  CanSell(p.symbol) /\ HasRate(p.symbol) =>
               /\ p.stop < Scaled(day.bars[p.symbol].low)
               /\ Scaled(day.bars[p.symbol].high) < p.take
               /\ p.held + 1 < MaxHold
<1> SUFFICES ASSUME CanSell(p.symbol), HasRate(p.symbol)
             PROVE  /\ p.stop < Scaled(day.bars[p.symbol].low)
                    /\ Scaled(day.bars[p.symbol].high) < p.take
                    /\ p.held + 1 < MaxHold
  OBVIOUS
<1> DEFINE bar == day.bars[p.symbol]
           o == Scaled(bar.open)
           h == Scaled(bar.high)
           l == Scaled(bar.low)
           c == Scaled(bar.close)
<1>1. p.symbol \in Symbols /\ p.stop \in Nat /\ p.take \in Nat /\ p.held \in Nat
  BY DEF PositionRecords
<1>2. bar # NoBar
  BY DEF CanSell
<1>3. /\ bar.open \in Nat \ {0} /\ bar.high \in Nat \ {0}
      /\ bar.low \in Nat \ {0} /\ bar.close \in Nat \ {0}
  BY <1>1, <1>2, DayIsSound DEF IsDay, IsBar
<1>4. o \in Nat \ {0} /\ h \in Nat \ {0} /\ l \in Nat \ {0} /\ c \in Nat \ {0}
  <2> HIDE DEF bar
  <2>1. ASSUME NEW x \in Nat \ {0} PROVE x * Base * Base \in Nat \ {0}
    BY Rates, Products
  <2> QED
    BY <1>3, <2>1 DEF Scaled
<1>5. ExitPrice(p, bar) = 0
  BY DEF Closes, NoPrice
<1>6. ExitPrice(p, bar) =
        CASE o <= p.stop \/ o >= p.take -> o
          [] o > p.stop /\ l <= p.stop -> p.stop
          [] l > p.stop /\ o < p.take /\ h >= p.take -> p.take
          [] OTHER -> IF p.held + 1 >= MaxHold THEN c ELSE 0
  BY DEF ExitPrice, NoPrice
<1> HIDE DEF o, h, l, c, bar
<1>7. p.stop < l /\ h < p.take /\ p.held + 1 < MaxHold
  <2>1. ~(o <= p.stop \/ o >= p.take)
    BY <1>1, <1>4, <1>5, <1>6
  <2>2. ~(l <= p.stop)
    <3>1. SUFFICES ASSUME l <= p.stop PROVE FALSE
      OBVIOUS
    <3>2. o > p.stop /\ ~(l > p.stop) /\ p.stop # 0
      BY <1>1, <1>4, <2>1, <3>1
    <3>3. ExitPrice(p, bar) = p.stop
      BY <1>6, <2>1, <3>1, <3>2
    <3> QED
      BY <1>5, <3>2, <3>3
  <2>3. ~(h >= p.take)
    <3>1. SUFFICES ASSUME h >= p.take PROVE FALSE
      OBVIOUS
    <3>2. o < p.take /\ l > p.stop /\ p.take # 0
      BY <1>1, <1>4, <2>1, <2>2
    <3>3. ExitPrice(p, bar) = p.take
      BY <1>6, <2>1, <2>2, <3>1, <3>2
    <3> QED
      BY <1>5, <3>2, <3>3
  <2>4. ~(p.held + 1 >= MaxHold)
    <3>1. SUFFICES ASSUME p.held + 1 >= MaxHold PROVE FALSE
      OBVIOUS
    <3>2. ExitPrice(p, bar) = c
      BY <1>6, <2>1, <2>2, <2>3, <3>1
    <3> QED
      BY <1>4, <1>5, <3>2
  <2> QED
    BY <1>1, <1>4, <2>2, <2>3, <2>4, Rates
<1> QED
  BY <1>7 DEF h, l, bar

LEMMA HoldOnStep == ASSUME IInv, HoldOn PROVE IInv'
<1> DEFINE p == positions[at]
           q == [p EXCEPT !.held = @ + 1]
<1>0. /\ phase = "exits" /\ at \in DOMAIN positions /\ ~Closes(p) /\ at' = at + 1
      /\ positions' = IF CanSell(p.symbol)
                      THEN [positions EXCEPT ![at].held = @ + 1] ELSE positions
      /\ UNCHANGED <<known, actions, session, phase, day, due, receivables, book,
                     blocked, incidents>>
  BY DEF HoldOn
<1>1. /\ positions \in Seq(PositionRecords) /\ p \in PositionRecords
      /\ DOMAIN positions = 1..Len(positions) /\ at \in Nat \ {0}
  BY <1>0, SymbolsAre DEF IInv, TypeOK
<1>2. /\ q \in PositionRecords /\ q.symbol = p.symbol /\ q.cost = p.cost
      /\ q.since = p.since /\ q.stop = p.stop /\ q.take = p.take
      /\ q.held = p.held + 1
  <2> HIDE DEF p
  <2>1. p.held + 1 \in Nat
    BY <1>1 DEF PositionRecords
  <2> QED
    BY <1>1, <2>1 DEF PositionRecords
<1>3. positions' = IF CanSell(p.symbol) THEN [positions EXCEPT ![at] = q] ELSE positions
  BY <1>0
<1> HIDE DEF p, q
<1>4. /\ positions' \in Seq(PositionRecords) /\ Len(positions') = Len(positions)
      /\ \A i \in 1..Len(positions) : /\ positions'[i].symbol = positions[i].symbol
                                      /\ positions'[i].cost = positions[i].cost
                                      /\ positions'[i].since = positions[i].since
  <2>1. CASE CanSell(p.symbol)
    <3>1. q.symbol = positions[at].symbol /\ q.cost = positions[at].cost
          /\ q.since = positions[at].since
      BY <1>2 DEF p
    <3>2. positions' = [positions EXCEPT ![at] = q]
      BY <1>3, <2>1
    <3> QED
      <4>1. at \in DOMAIN positions
        BY <1>0
      <4> QED
        BY <1>1, <1>2, <3>1, <3>2, <4>1, ReplacedPosition
  <2>2. CASE ~CanSell(p.symbol)
    BY <1>1, <1>3, <2>2
  <2> QED
    BY <2>1, <2>2
<1>5. /\ Held' = Held
      /\ \A i \in DOMAIN positions' :
            i \in DOMAIN positions /\ positions'[i].since = positions[i].since
  BY <1>4, KeptPositions
<1>6. CashReconciles'
  <2>1. /\ book' \in Books /\ 0 \in Int /\ book'.cash = book.cash + 0
        /\ book'.realized = book.realized + 0
    BY <1>0 DEF IInv, TypeOK, Books
  <2> QED
    BY <1>4, <2>1, SameCosts DEF IInv
<1>7. BlockedAreHeld' /\ HaltIsFinal' /\ OpenedSoFar'
  BY <1>0, <1>5 DEF IInv, BlockedAreHeld, HaltIsFinal, OpenedSoFar
<1>8. ExitsSoFar'
  <2>1. ASSUME NEW i \in DOMAIN positions', i < at PROVE NotDue(positions[i])
    BY <1>0, <1>5, <2>1 DEF IInv, ExitsSoFar
  <2>2. \A i \in DOMAIN positions' : i < at => positions'[i] = positions[i]
    BY <1>0, <1>1, <1>3, <1>5
  <2>3. CanSell(p.symbol) /\ HasRate(p.symbol) =>
           /\ positions'[at].symbol = p.symbol
           /\ positions'[at].stop < Scaled(day.bars[p.symbol].low)
           /\ Scaled(day.bars[p.symbol].high) < positions'[at].take
           /\ positions'[at].held < MaxHold
    <3>1. CanSell(p.symbol) => positions'[at] = q
      BY <1>0, <1>1, <1>3
    <3>2. CanSell(p.symbol) /\ HasRate(p.symbol) =>
             /\ p.stop < Scaled(day.bars[p.symbol].low)
             /\ Scaled(day.bars[p.symbol].high) < p.take
             /\ p.held + 1 < MaxHold
      BY <1>0, <1>1, NoExitIsNotDue DEF IInv
    <3> QED
      BY <1>2, <3>1, <3>2
  <2>4. positions'[at].symbol = p.symbol
    BY <1>0, <1>1, <1>4 DEF p
  <2>5. ASSUME NEW i \in DOMAIN positions', i < at'
        PROVE  NotDue(positions[i])'
    <3>1. CASE i < at
      <4>1. NotDue(positions[i]) /\ positions'[i] = positions[i]
        BY <2>1, <2>2, <3>1
      <4> QED
        BY <1>0, <4>1 DEF NotDue, CanSell, HasRate
    <3>2. CASE i = at
      BY <1>0, <2>3, <2>4, <3>2 DEF NotDue, CanSell, HasRate
    <3> QED
      <4>1. i \in Nat
        BY <1>1, <1>5
      <4> QED
        BY <1>0, <1>1, <2>5, <3>1, <3>2, <4>1
  <2> QED
    BY <1>0, <2>5 DEF ExitsSoFar
<1>9. TypeOK'
  <2>1. at' \in Nat \ {0}
    BY <1>0, <1>1
  <2> QED
    BY <1>0, <1>4, <2>1 DEF IInv, TypeOK
<1>10. Started' /\ PaymentsSoFar'
  BY <1>0 DEF IInv, Started, PaymentsSoFar
<1> QED
  BY <1>6, <1>7, <1>8, <1>9, <1>10 DEF IInv

LEMMA CloseStep == ASSUME IInv, Close PROVE IInv'
<1> DEFINE p == positions[at]
           paid == Proceeds(p, ExitPrice(p, day.bars[p.symbol]))
<1>0. /\ phase = "exits" /\ at \in DOMAIN positions /\ Closes(p)
      /\ book' = IF paid < p.cost THEN AfterLoss(Sold(book, p, paid))
                 ELSE [Sold(book, p, paid) EXCEPT !.streak = 0]
      /\ positions' = Without(positions, at)
      /\ UNCHANGED <<known, actions, session, phase, at, day, due, receivables,
                     blocked, incidents>>
  BY DEF Close
<1>1. p \in PositionRecords /\ book \in Books /\ session \in Nat /\ TypeOK
  BY <1>0, SymbolsAre DEF IInv, TypeOK
<1>2. paid \in Nat
  <2> HIDE DEF p
  <2> QED
    BY <1>0, <1>1, SalesAreNat
<1> HIDE DEF p, paid
<1>3. /\ book' \in Books /\ book'.cash = book.cash + paid
      /\ book'.realized = book.realized + paid - p.cost /\ book'.halted = book.halted
  <2> DEFINE b == Sold(book, p, paid)
  <2>1. /\ b \in Books /\ b.cash = book.cash + paid
        /\ b.realized = book.realized + paid - p.cost /\ b.halted = book.halted
    BY <1>1, <1>2, SaleIsBooked
  <2>2. book' = AfterLoss(b) \/ book' = [b EXCEPT !.streak = 0]
    BY <1>0
  <2> HIDE DEF b
  <2>3. CASE book' = AfterLoss(b)
    BY <1>1, <2>1, <2>3, LossIsBooked
  <2>4. CASE book' = [b EXCEPT !.streak = 0]
    BY <2>1, <2>4 DEF Books
  <2> QED
    BY <2>2, <2>3, <2>4
<1>4. CashReconciles'
  BY <1>0, <1>2, <1>3, RemovedCost DEF IInv, p
<1>5. HaltIsFinal' /\ OpenedSoFar'
  BY <1>0, <1>3, RemovedBooks
<1>6. /\ positions' \in Seq(PositionRecords) /\ Held \ {p.symbol} \subseteq Held'
      /\ \A i \in DOMAIN positions' :
            i < at => i \in DOMAIN positions /\ positions'[i] = positions[i]
  BY <1>0, RemovedPosition DEF p
<1>7. BlockedAreHeld'
  <2>1. p.symbol \notin blocked.action \cup blocked.life
    BY <1>0 DEF Closes, CanSell
  <2> QED
    BY <1>0, <1>6, <2>1 DEF IInv, BlockedAreHeld
<1>8. ExitsSoFar'
  <2>1. ASSUME NEW i \in DOMAIN positions', i < at PROVE NotDue(positions[i])'
    <3>1. NotDue(positions[i]) /\ positions'[i] = positions[i]
      BY <1>0, <1>6, <2>1 DEF IInv, ExitsSoFar
    <3> QED
      BY <1>0, <3>1 DEF NotDue, CanSell, HasRate
  <2> QED
    BY <1>0, <2>1 DEF ExitsSoFar
<1>9. TypeOK'
  BY <1>0, <1>1, <1>3, <1>6 DEF TypeOK
<1>10. Started' /\ PaymentsSoFar'
  BY <1>0 DEF IInv, Started, PaymentsSoFar
<1> QED
  BY <1>4, <1>5, <1>7, <1>8, <1>9, <1>10 DEF IInv

\* In the loop of the dividends the positions stay as the exits left them.
LEMMA ExitsStay ==
    ASSUME IInv, phase = "dividends", UNCHANGED <<phase, positions, day, blocked>>
    PROVE  ExitsSoFar'
  BY DEF IInv, ExitsSoFar, NotDue, CanSell, HasRate

LEMMA DeferDividendStep == ASSUME IInv, DeferDividend PROVE IInv'
<1>0. /\ phase = "dividends" /\ at \in DOMAIN receivables /\ ~Payable(receivables[at])
      /\ at' = at + 1
      /\ UNCHANGED <<known, actions, session, phase, day, due, positions,
                     receivables, book, blocked, incidents>>
  BY DEF DeferDividend
<1>1. CashReconciles' /\ BlockedAreHeld' /\ HaltIsFinal' /\ OpenedSoFar'
  BY <1>0, SameAccount
<1>2. at \in Nat \ {0} /\ at' \in Nat \ {0} /\ \A i \in DOMAIN receivables : i \in Nat
  BY <1>0 DEF IInv, TypeOK
<1>3. TypeOK'
  BY <1>0, <1>2 DEF IInv, TypeOK
<1>4. PaymentsSoFar'
  <2>1. ASSUME NEW i \in DOMAIN receivables, i < at + 1 PROVE ~Payable(receivables[i])
    <3>1. i < at \/ i = at
      BY <1>2, <2>1
    <3> QED
      BY <1>0, <3>1 DEF IInv, PaymentsSoFar
  <2> QED
    BY <1>0, <2>1 DEF PaymentsSoFar, Payable
<1>5. ExitsSoFar'
  BY <1>0, ExitsStay
<1>6. Started'
  BY <1>0 DEF IInv, Started
<1> QED
  BY <1>1, <1>3, <1>4, <1>5, <1>6 DEF IInv

LEMMA PayDividendStep == ASSUME IInv, PayDividend PROVE IInv'
<1> DEFINE r == receivables[at]
           net == NetDividend(r)
<1>0. /\ phase = "dividends" /\ at \in DOMAIN receivables /\ Payable(r)
      /\ book' = [book EXCEPT !.cash = @ + net, !.realized = @ + net]
      /\ receivables' = Without(receivables, at)
      /\ UNCHANGED <<known, actions, session, phase, at, day, due, positions,
                     blocked, incidents>>
  BY DEF PayDividend
<1>1. receivables \in Seq(DividendRecords) /\ TypeOK /\ book \in Books
  BY DEF IInv, TypeOK
<1>2. net \in Nat
  <2>1. r \in DividendRecords
    BY <1>0, <1>1
  <2> HIDE DEF r
  <2> QED
    BY <1>0, <1>1, <2>1, DividendsAreNat
<1> HIDE DEF r, net
<1>3. /\ book' \in Books /\ book'.cash = book.cash + net
      /\ book'.realized = book.realized + net /\ book'.halted = book.halted
  <2>1. book.cash + net \in Nat /\ book.realized + net \in Int
    BY <1>1, <1>2 DEF Books
  <2> QED
    BY <1>0, <1>1, <2>1 DEF Books
<1>4. CashReconciles'
  <2>1. positions' \in Seq(PositionRecords) /\ Len(positions') = Len(positions)
        /\ \A i \in 1..Len(positions) : positions'[i].cost = positions[i].cost
    BY <1>0, <1>1 DEF TypeOK
  <2>2. net \in Int
    BY <1>2
  <2> QED
    BY <1>1, <1>3, <2>1, <2>2, SameCosts DEF IInv
<1>5. BlockedAreHeld' /\ HaltIsFinal' /\ OpenedSoFar'
  BY <1>0, <1>3 DEF IInv, BlockedAreHeld, Held, HaltIsFinal, OpenedSoFar
<1>6. /\ receivables' \in Seq(DividendRecords) /\ Len(receivables') = Len(receivables) - 1
      /\ \A i \in 1..(Len(receivables) - 1) :
            receivables'[i] = IF i < at THEN receivables[i] ELSE receivables[i + 1]
  BY <1>0, <1>1, RestOfList
<1>7. PaymentsSoFar'
  <2>1. ASSUME NEW i \in DOMAIN receivables', i < at
        PROVE  i \in DOMAIN receivables /\ receivables'[i] = receivables[i]
    <3>1. i \in 1..(Len(receivables) - 1) /\ DOMAIN receivables = 1..Len(receivables)
          /\ Len(receivables) \in Nat
      BY <1>1, <1>6
    <3> QED
      BY <1>6, <2>1, <3>1
  <2>2. ASSUME NEW i \in DOMAIN receivables', i < at PROVE ~Payable(receivables[i])'
    <3>1. ~Payable(receivables[i]) /\ receivables'[i] = receivables[i]
      BY <1>0, <2>1, <2>2 DEF IInv, PaymentsSoFar
    <3> QED
      BY <1>0, <3>1 DEF Payable
  <2> QED
    BY <1>0, <2>2 DEF PaymentsSoFar
<1>8. ExitsSoFar'
  BY <1>0, ExitsStay
<1>9. TypeOK'
  BY <1>0, <1>1, <1>3, <1>6 DEF TypeOK
<1>10. Started'
  BY <1>0 DEF IInv, Started
<1> QED
  BY <1>4, <1>5, <1>7, <1>8, <1>9, <1>10 DEF IInv

\* The price a position is valued at, and what the mark keeps.
LEMMA MarksAreNat ==
    ASSUME TypeOK, NEW p \in PositionRecords
    PROVE  /\ Valuation(p) \in Nat
           /\ Marked(p) \in PositionRecords /\ Marked(p).symbol = p.symbol
           /\ Marked(p).cost = p.cost /\ Marked(p).since = p.since
<1>1. Valuation(p) \in Nat
  <2> DEFINE bar == day.bars[p.symbol]
  <2>1. p.symbol \in Symbols /\ p.entry \in Nat /\ p.mark \in Nat
    BY DEF PositionRecords
  <2>2. bar # NoBar => bar.close \in Nat
    BY <2>1, DayIsSound DEF IsDay, IsBar
  <2>3. bar # NoBar => Scaled(bar.close) \in Nat
    <3> HIDE DEF bar
    <3> QED
      BY <2>2, Rates, Products DEF Scaled
  <2> QED
    BY <2>1, <2>3 DEF Valuation
<1> QED
  BY <1>1 DEF Marked, PositionRecords

LEMMA MarketValueIsInt ==
    ASSUME TypeOK, \A s \in Held : HasRate(s)
    PROVE  MarketValue \in Int
<1> DEFINE f == [i \in DOMAIN positions |->
                   Valuation(positions[i]) * positions[i].quantity
                     * FxSell(positions[i].symbol) * Base * Base]
<1>1. ASSUME NEW i \in DOMAIN positions
      PROVE  Valuation(positions[i]) * positions[i].quantity
               * FxSell(positions[i].symbol) * Base * Base \in Int
  <2> DEFINE p == positions[i]
  <2>1. p \in PositionRecords /\ p.symbol \in Symbols /\ p.symbol \in Held
    BY SymbolsAre DEF Held
  <2> HIDE DEF p
  <2>2. Valuation(p) \in Nat /\ p.quantity \in Nat
    BY <2>1, MarksAreNat DEF PositionRecords
  <2>3. FxSell(p.symbol) \in Nat
    BY <2>1, RatesOfTheDay
  <2>4. Valuation(p) * p.quantity \in Nat
    BY <2>2, Products
  <2>5. Valuation(p) * p.quantity * FxSell(p.symbol) \in Nat
    BY <2>3, <2>4, Products
  <2>6. Valuation(p) * p.quantity * FxSell(p.symbol) * Base \in Nat
    BY <2>5, Rates, Products
  <2>7. Valuation(p) * p.quantity * FxSell(p.symbol) * Base * Base \in Nat
    BY <2>6, Rates, Products
  <2>8. \A n \in Nat : n \in Int
    OBVIOUS
  <2> QED
    BY <2>7, <2>8, Zenon DEF p
<1>2. DOMAIN f = DOMAIN positions /\ f = [i \in DOMAIN f |-> f[i]]
      /\ \A i \in DOMAIN positions : f[i] \in Int
  BY <1>1
<1>3. MarketValue = Sum(f) /\ positions \in Seq(PositionRecords)
  BY SymbolsAre DEF MarketValue
<1> HIDE DEF f
<1> QED
  BY <1>2, <1>3, AmountsOfPositions, SumIsInt

LEMMA ValueStep == ASSUME IInv, Value PROVE IInv'
<1>0. /\ phase = "valuation" /\ phase' = "night" /\ at' = 1 /\ day' = NoDay
      /\ positions' = [i \in DOMAIN positions |-> Marked(positions[i])]
      /\ UNCHANGED <<known, actions, session, due, receivables, blocked, incidents>>
  BY DEF Value
<1>1. /\ TypeOK /\ book \in Books /\ session \in 1..LastSession
      /\ positions \in Seq(PositionRecords) /\ DOMAIN positions = 1..Len(positions)
  BY <1>0, SymbolsAre DEF IInv, TypeOK, Started
<1>2. \A i \in DOMAIN positions :
         /\ Marked(positions[i]) \in PositionRecords
         /\ Marked(positions[i]).symbol = positions[i].symbol
         /\ Marked(positions[i]).cost = positions[i].cost
         /\ Marked(positions[i]).since = positions[i].since
  BY <1>1, SymbolsAre, MarksAreNat
<1>3. /\ positions' \in Seq(PositionRecords) /\ Len(positions') = Len(positions)
      /\ \A i \in 1..Len(positions) : /\ positions'[i].symbol = positions[i].symbol
                                      /\ positions'[i].cost = positions[i].cost
                                      /\ positions'[i].since = positions[i].since
  <2>1. \A i \in 1..Len(positions) : positions'[i] = Marked(positions[i])
    BY <1>0, <1>1
  <2>2. positions' \in [1..Len(positions) -> PositionRecords]
    BY <1>0, <1>1, <1>2
  <2>3. Len(positions) \in Nat
    BY <1>1
  <2>4. positions' \in Seq(PositionRecords) /\ Len(positions') = Len(positions)
    BY <2>2, <2>3
  <2> QED
    BY <1>1, <1>2, <2>1, <2>4
<1>4. /\ Held' = Held
      /\ \A i \in DOMAIN positions' :
            i \in DOMAIN positions /\ positions'[i].since = positions[i].since
  BY <1>3, KeptPositions
<1>5. /\ book' \in Books /\ book'.cash = book.cash /\ book'.realized = book.realized
      /\ book'.halted = book.halted \/ (book.halted = 0 /\ book'.halted = session)
  <2>1. CASE \A s \in Held : HasRate(s)
    <3>1. PICK e \in Int : e = book.cash + MarketValue
      <4>1. MarketValue \in Int
        BY <1>1, <2>1, MarketValueIsInt
      <4> QED
        BY <1>1, <4>1 DEF Books
    <3> DEFINE peak == Larger(book.peak, e)
               halted == IF book.halted = 0 /\ e * Base <= peak * (Base - MaxDrawdown)
                         THEN session ELSE book.halted
    <3>2. peak \in Int
      BY <1>1, <3>1 DEF Larger, Books
    <3>3. book' = [book EXCEPT !.peak = peak, !.halted = halted]
      BY <2>1, <3>1 DEF Value
    <3>4. halted \in 0..LastSession
          /\ (halted = book.halted \/ (book.halted = 0 /\ halted = session))
      <4>1. book.halted \in 0..LastSession /\ session \in 0..LastSession
        BY <1>1, Rates DEF Books
      <4> QED
        BY <4>1
    <3> HIDE DEF peak, halted
    <3> QED
      BY <1>1, <3>2, <3>3, <3>4 DEF Books
  <2>2. CASE ~(\A s \in Held : HasRate(s))
    BY <1>1, <2>2 DEF Value
  <2> QED
    BY <2>1, <2>2
<1>6. CashReconciles'
  <2>1. 0 \in Int /\ book'.cash = book.cash + 0 /\ book'.realized = book.realized + 0
    BY <1>1, <1>5 DEF Books
  <2> QED
    BY <1>3, <1>5, <2>1, SameCosts DEF IInv
<1>7. BlockedAreHeld' /\ OpenedSoFar'
  BY <1>0, <1>4 DEF IInv, BlockedAreHeld, OpenedSoFar
<1>8. HaltIsFinal'
  BY <1>4, <1>5 DEF IInv, HaltIsFinal, OpenedSoFar
<1>9. TypeOK'
  BY <1>0, <1>1, <1>3, <1>5 DEF TypeOK
<1>10. Started' /\ ExitsSoFar' /\ PaymentsSoFar'
  BY <1>0 DEF Started, ExitsSoFar, PaymentsSoFar
<1> QED
  BY <1>6, <1>7, <1>8, <1>9, <1>10 DEF IInv

LEMMA StutterStep == ASSUME IInv, UNCHANGED vars PROVE IInv'
<1>1. CashReconciles' /\ BlockedAreHeld' /\ HaltIsFinal' /\ OpenedSoFar'
  BY SameAccount DEF vars
<1>2. TypeOK'
  BY DEF IInv, TypeOK, vars
<1>3. Started' /\ ExitsSoFar' /\ PaymentsSoFar'
  BY DEF IInv, vars, Started, ExitsSoFar, NotDue, CanSell, HasRate, PaymentsSoFar,
         Payable
<1> QED
  BY <1>1, <1>2, <1>3 DEF IInv

LEMMA Inductive == ASSUME IInv, [Next]_vars PROVE IInv'
<1>1. CASE OpenSession
  BY <1>1, OpenSessionStep
<1>2. CASE EndLifecycle \/ EndActions \/ EndEntries \/ EndExits \/ EndDividends
  BY <1>2, EndLifecycleStep, EndActionsStep, EndEntriesStep, EndExitsStep,
     EndDividendsStep
<1>3. CASE WriteOff \/ KeepListed
  BY <1>3, WriteOffStep, KeepListedStep
<1>4. CASE \E a \in due : PassAction(a) \/ BlockOnAction(a) \/ ApplySplit(a)
                          \/ RecordDividend(a)
  BY <1>4, PassActionStep, BlockOnActionStep, ApplySplitStep, RecordDividendStep
<1>5. CASE Reject \/ Enter
  BY <1>5, RejectStep, EnterStep
<1>6. CASE HoldOn \/ Close
  BY <1>6, HoldOnStep, CloseStep
<1>7. CASE DeferDividend \/ PayDividend \/ Value
  BY <1>7, DeferDividendStep, PayDividendStep, ValueStep
<1>8. CASE UNCHANGED vars
  BY <1>8, StutterStep
<1> QED
  BY <1>1, <1>2, <1>3, <1>4, <1>5, <1>6, <1>7, <1>8 DEF Next

-----------------------------------------------------------------------------
(* The theorems. *)

\* The invariant holds in every state of every run.
THEOREM Invariance == Spec => []IInv
<1>1. Init => IInv
  BY InitInv
<1>2. IInv /\ [Next]_vars => IInv'
  BY Inductive
<1> QED
  BY <1>1, <1>2, PTL DEF Spec

\* Every amount stays a whole number and the cash is never negative, whatever
\* is bought, sold, split, written off or paid.
THEOREM TypeCorrect == Spec => []TypeOK
<1>1. IInv => TypeOK
  BY DEF IInv
<1> QED
  BY <1>1, Invariance, PTL

\* The cash and the cost of what is held come to the initial cash and the
\* realized result.
THEOREM BooksAgree == Spec => []CashReconciles
<1>1. IInv => CashReconciles
  BY DEF IInv
<1> QED
  BY <1>1, Invariance, PTL

\* No block outlives the position it was made for.
THEOREM BlocksFollowPositions == Spec => []BlockedAreHeld
<1>1. IInv => BlockedAreHeld
  BY DEF IInv
<1> QED
  BY <1>1, Invariance, PTL

\* After the drawdown halt nothing is bought.
THEOREM HaltIsKept == Spec => []HaltIsFinal
<1>1. IInv => HaltIsFinal
  BY DEF IInv
<1> QED
  BY <1>1, Invariance, PTL

\* The loop of the exits passes over no position that met a rule.
THEOREM NoExitIsMissed == Spec => []NoMissedExit
<1>1. IInv => NoMissedExit
  BY DEF IInv, ExitsSoFar, NotDue, NoMissedExit
<1> QED
  BY <1>1, Invariance, PTL

\* Once the loop over the receivables is through, each of them was paid or is not
\* payable: a payable dividend waits for nothing but a usable rate of the day.
THEOREM DividendsArePaid == Spec => []PaidWhenDue
<1>1. IInv => PaidWhenDue
  BY DEF IInv, TypeOK, DividendRecords, PaymentsSoFar, Payable, PaidWhenDue
<1> QED
  BY <1>1, Invariance, PTL

-----------------------------------------------------------------------------
(* The planned losses of the open positions. *)

RiskLimit == (Capital * OpenRiskRate) \div Base
TradeLimit == (Capital * RiskRate) \div Base

\* What the sizing counts of a loss, and what it comes to, per unit of price.
Sized(c) == StopLoss * (Base + Fee + c.half)
PlannedRate(c, slip) == (StopLoss + Fee) * (Base + c.half + slip)

Near(c, slip, risk) ==
    (risk - RiskLimit) * Sized(c) <= TradeLimit * (PlannedRate(c, slip) - Sized(c))

LEMMA RiskIsNear ==
    /\ OpenRiskStaysNear <=> \E c \in Costs : \E slip \in c.slips : Near(c, slip, Total("risk"))
    /\ OpenRiskStaysNear' <=> \E c \in Costs : \E slip \in c.slips : Near(c, slip, Total("risk")')
<1>1. OpenRiskStaysNear <=> \E c \in Costs : \E slip \in c.slips : Near(c, slip, Total("risk"))
  BY Zenon DEF OpenRiskStaysNear, Near, Sized, PlannedRate, RiskLimit, TradeLimit
<1>2. OpenRiskStaysNear' <=> \E c \in Costs : \E slip \in c.slips : Near(c, slip, Total("risk")')
  BY Zenon DEF OpenRiskStaysNear, Near, Sized, PlannedRate, RiskLimit, TradeLimit
<1> QED
  BY <1>1, <1>2

\* Arithmetic of products, one fact at a time.
LEMMA TimesInt == \A a, b \in Int : a * b \in Int
  OBVIOUS

LEMMA Spreads ==
    /\ \A a, b, c \in Int : a * (b + c) = a * b + a * c
    /\ \A a, b, c \in Int : a * (b - c) = a * b - a * c
    /\ \A a, b \in Int : a * b = b * a
    /\ \A a, b, c \in Int : (a * b) * c = (a * c) * b
<1>1. \A a, b, c \in Int : a * (b + c) = a * b + a * c
  OBVIOUS
<1>2. \A a, b, c \in Int : a * (b - c) = a * b - a * c
  OBVIOUS
<1>3. \A a, b \in Int : a * b = b * a
  OBVIOUS
<1>4. \A a, b, c \in Int : (a * b) * c = (a * c) * b
  OBVIOUS
<1> QED
  BY <1>1, <1>2, <1>3, <1>4

LEMMA TimesKeepsOrder == \A a, b \in Int : \A n \in Nat : a <= b => a * n <= b * n
  OBVIOUS

LEMMA DividedTimes == \A n, a \in Nat : \A b \in Nat \ {0} : n <= a \div b => n * b <= a
<1> SUFFICES ASSUME NEW n \in Nat, NEW a \in Nat, NEW b \in Nat \ {0}, n <= a \div b
             PROVE  n * b <= a
  OBVIOUS
<1>1. PICK d \in Nat : d = a \div b
  BY Products
<1>2. d * b <= a
  BY <1>1
<1>3. n * b <= d * b
  BY <1>1, TimesKeepsOrder
<1>4. n * b \in Int /\ d * b \in Int
  BY <1>1, TimesInt
<1> QED
  BY <1>2, <1>3, <1>4

LEMMA CancelsOut == \A a, b \in Int : \A n \in Nat \ {0} : a * n <= b * n => a <= b
  OBVIOUS

\* A plan is never below what the sizing counts: the fee and the slippage the
\* sizing leaves out are not negative.
LEMMA RatesOfOrders ==
    ASSUME NEW c \in Costs, NEW slip \in c.slips
    PROVE  /\ c.half \in Nat /\ slip \in Nat
           /\ Sized(c) \in Nat \ {0} /\ PlannedRate(c, slip) \in Nat
           /\ PlannedRate(c, slip) - Sized(c) \in Nat
<1>1. IsCosts(c)
  BY RatesAssumption DEF ValidRules
<1>2. PICK h \in Nat : h = c.half
  BY <1>1 DEF IsCosts
<1>3. slip \in Nat
  BY <1>1 DEF IsCosts
<1>4. PICK f \in Nat : f = Fee
  BY Rates
<1>5. PICK s \in Nat \ {0} : s = StopLoss
  BY Rates
<1>6. PICK r \in Nat : r = Base - StopLoss
  BY Rates
<1>7. Base = s + r
  BY <1>5, <1>6, Rates
<1>8. Sized(c) = s * (s + r + f + h) /\ PlannedRate(c, slip) = (s + f) * (s + r + h + slip)
  BY <1>2, <1>4, <1>5, <1>7 DEF Sized, PlannedRate
<1>9. s + r + f + h \in Nat \ {0} /\ s + f \in Nat /\ s + r + h + slip \in Nat
  BY <1>2, <1>3, <1>4, <1>5, <1>6
<1>10. s * (s + r + f + h) \in Nat \ {0} /\ (s + f) * (s + r + h + slip) \in Nat
  BY <1>5, <1>9, Products
<1>11. (s + f) * (s + r + h + slip) - s * (s + r + f + h) = s * slip + f * (r + h + slip)
  BY ONLY <1>3, s \in Int, f \in Int, r \in Int, h \in Int
<1>12. s * slip \in Nat /\ f * (r + h + slip) \in Nat
  <2>1. r + h + slip \in Nat
    BY <1>2, <1>3, <1>6
  <2> QED
    BY <1>3, <1>4, <1>5, <2>1, Products
<1>13. s * slip + f * (r + h + slip) \in Nat
  BY ONLY <1>12
<1> QED
  BY <1>2, <1>3, <1>8, <1>10, <1>11, <1>13

LEMMA LimitsAreNat == RiskLimit \in Nat /\ TradeLimit \in Nat
  BY CapitalIsNat, Rates, Products DEF RiskLimit, TradeLimit

\* What is near stays near when the sum falls.
LEMMA NearWhenLess ==
    ASSUME NEW c \in Costs, NEW slip \in c.slips, NEW old \in Int, NEW new \in Int,
           new <= old, Near(c, slip, old)
    PROVE  Near(c, slip, new)
<1>1. PICK z \in Nat : z = Sized(c)
  BY RatesOfOrders
<1>2. PICK l \in Int : l = RiskLimit
  BY LimitsAreNat
<1>3. PICK m \in Int : m = TradeLimit * (PlannedRate(c, slip) - Sized(c))
  BY RatesOfOrders, LimitsAreNat, Products
<1>4. (old - l) * z <= m
  BY <1>1, <1>2, <1>3 DEF Near
<1>5. (new - l) * z <= (old - l) * z
  <2>1. new - l <= old - l /\ new - l \in Int /\ old - l \in Int
    BY <1>2
  <2> QED
    BY <1>1, <2>1, TimesKeepsOrder
<1>6. (new - l) * z \in Int /\ (old - l) * z \in Int
  <2>1. new - l \in Int /\ old - l \in Int
    BY <1>2
  <2> QED
    BY <1>1, <2>1, TimesInt
<1>7. (new - l) * z <= m
  BY ONLY <1>4, <1>5, <1>6, m \in Int
<1> QED
  BY <1>1, <1>2, <1>3, <1>7 DEF Near


\* A step that plans no new loss.
LEMMA RiskKept ==
    ASSUME IInv, IInv', Len(positions') = Len(positions),
           \A i \in 1..Len(positions) : positions'[i]["risk"] = positions[i]["risk"]
    PROVE  Total("risk")' = Total("risk")
  BY TotalKept, CostIsSummed DEF IInv, TypeOK

LEMMA RiskOfSplit == ASSUME IInv, IInv', NEW a \in due, ApplySplit(a)
                     PROVE  Total("risk")' = Total("risk")
<1>1. PICK i \in DOMAIN positions : positions' = [positions EXCEPT ![i] = Split(@, a)]
  BY DEF ApplySplit
<1>2. positions \in Seq(PositionRecords) /\ positions[i] \in PositionRecords
  BY <1>1, SymbolsAre DEF IInv
<1>3. Split(positions[i], a)["risk"] = positions[i]["risk"]
  BY <1>2 DEF Split, PositionRecords
<1>4. Len(positions') = Len(positions)
  BY <1>1, <1>2
<1>5. \A j \in 1..Len(positions) : positions'[j]["risk"] = positions[j]["risk"]
  BY <1>1, <1>2, <1>3
<1> QED
  BY <1>4, <1>5, RiskKept

LEMMA RiskOfHolding == ASSUME IInv, IInv', HoldOn PROVE Total("risk")' = Total("risk")
<1>1. positions \in Seq(PositionRecords) /\ \A i \in DOMAIN positions : positions[i] \in PositionRecords
  BY SymbolsAre DEF IInv
<1>2. /\ at \in DOMAIN positions
      /\ positions' = IF CanSell(positions[at].symbol)
                      THEN [positions EXCEPT ![at].held = @ + 1] ELSE positions
  BY DEF HoldOn
<1>3. [positions[at] EXCEPT !.held = @ + 1]["risk"] = positions[at]["risk"]
  BY <1>1, <1>2 DEF PositionRecords
<1>4. Len(positions') = Len(positions)
  BY <1>1, <1>2
<1>5. \A j \in 1..Len(positions) : positions'[j]["risk"] = positions[j]["risk"]
  BY <1>1, <1>2, <1>3
<1> QED
  BY <1>4, <1>5, RiskKept

LEMMA RiskOfMarks == ASSUME IInv, IInv', Value PROVE Total("risk")' = Total("risk")
<1>1. positions \in Seq(PositionRecords) /\ \A i \in DOMAIN positions : positions[i] \in PositionRecords
  BY SymbolsAre DEF IInv
<1>2. positions' = [i \in DOMAIN positions |-> Marked(positions[i])]
  BY DEF Value
<1>3. \A i \in DOMAIN positions : Marked(positions[i])["risk"] = positions[i]["risk"]
  BY <1>1 DEF Marked, PositionRecords
<1>4. DOMAIN positions = 1..Len(positions) /\ Len(positions) \in Nat
  BY <1>1
<1>5. positions' \in Seq(PositionRecords)
  BY DEF IInv, TypeOK
<1>6. Len(positions') = Len(positions)
  <2>1. DOMAIN positions' = 1..Len(positions)
    BY <1>2, <1>4
  <2> QED
    BY <1>4, <1>5, <2>1
<1>7. \A j \in 1..Len(positions) : positions'[j]["risk"] = positions[j]["risk"]
  BY <1>2, <1>3, <1>4
<1> QED
  BY <1>6, <1>7, RiskKept

\* What is sold or written off takes its planned loss with it.
LEMMA RiskOfRemoval ==
    ASSUME IInv, NEW k \in DOMAIN positions, positions' = Without(positions, k)
    PROVE  Total("risk")' <= Total("risk")
<1>1. positions \in Seq(PositionRecords) /\ positions[k] \in PositionRecords
  BY SymbolsAre DEF IInv
<1>2. PICK t \in Int : t = Total("risk")
  BY <1>1, TotalIsInt, CostIsSummed
<1>3. PICK r \in Nat : r = positions[k]["risk"]
  BY <1>1, FieldIsNat, CostIsSummed
<1>4. Total("risk")' = t - r
  BY <1>1, <1>2, <1>3, TotalRemoved, CostIsSummed
<1> QED
  BY <1>2, <1>3, <1>4

LEMMA RiskFalls ==
    ASSUME IInv, IInv', [Next]_vars, ~Enter
    PROVE  /\ Total("risk") \in Int /\ Total("risk")' \in Int
           /\ Total("risk")' <= Total("risk")
<1>1. positions \in Seq(PositionRecords) /\ positions' \in Seq(PositionRecords)
  BY DEF IInv, TypeOK
<1>2. Total("risk") \in Int
  BY <1>1, TotalIsInt, CostIsSummed
<1>3. CASE positions' = positions
  <2>1. Total("risk")' = Total("risk")
    BY <1>3, RiskKept
  <2> QED
    BY <1>2, <2>1
<1>4. CASE \E k \in DOMAIN positions : positions' = Without(positions, k)
  <2>1. Total("risk")' <= Total("risk")
    BY <1>4, RiskOfRemoval
  <2>2. PICK k \in DOMAIN positions : positions' = Without(positions, k)
    BY <1>4
  <2>3. Total("risk")' = Total("risk") - positions[k]["risk"]
    BY <1>1, <2>2, TotalRemoved, CostIsSummed
  <2>4. positions[k]["risk"] \in Nat
    BY <1>1, <2>2, FieldIsNat, CostIsSummed
  <2> QED
    BY <1>2, <2>1, <2>3, <2>4
<1>5. CASE (\E a \in due : ApplySplit(a)) \/ HoldOn \/ Value
  <2>1. Total("risk")' = Total("risk")
    BY <1>5, RiskOfSplit, RiskOfHolding, RiskOfMarks
  <2> QED
    BY <1>2, <2>1
<1>6. WriteOff \/ Close => \E k \in DOMAIN positions : positions' = Without(positions, k)
  BY Zenon DEF WriteOff, Close
<1>7. \/ positions' = positions \/ WriteOff \/ Close
      \/ (\E a \in due : ApplySplit(a)) \/ HoldOn \/ Value
  BY Zenon DEF Next, vars, OpenSession, EndLifecycle, EndActions, EndEntries, EndExits,
     EndDividends, EndOfLoop, KeepListed, PassAction, BlockOnAction, RecordDividend, Reject,
     DeferDividend, PayDividend
<1> QED
  BY <1>3, <1>4, <1>5, <1>6, <1>7


\* The lots of an order, with the fee and half the spread, fit what a trade may
\* lose at its stop.
LEMMA LotsFitTheRisk ==
    ASSUME NEW n \in Nat, NEW u \in Nat, NEW l \in Nat, NEW w \in Nat, NEW b \in Nat \ {0},
           NEW s \in Nat \ {0}, NEW budget \in Nat, NEW allowed \in Nat,
           u * l * w * b * b * b \in Nat \ {0},
           n <= budget \div (u * l * w * b * b * b),
           budget <= (allowed * b) \div s
    PROVE  (n * l * u * b * b) * (s * w) <= allowed
<1>1. PICK lot \in Nat \ {0} : lot = u * l * w * b * b * b
  OBVIOUS
<1>2. n * lot <= budget
  BY <1>1, DividedTimes
<1>3. budget * s <= allowed * b
  <2>1. allowed * b \in Nat
    BY Products
  <2> QED
    BY <2>1, DividedTimes
<1>4. n * lot \in Nat /\ n * lot * s \in Int /\ budget * s \in Int /\ allowed * b \in Int
  <2>1. n * lot \in Nat
    BY <1>1, Products
  <2> QED
    BY <2>1, TimesInt
<1>5. n * lot * s <= budget * s
  BY <1>2, <1>4, TimesKeepsOrder
<1>6. n * lot * s <= allowed * b
  BY ONLY <1>3, <1>4, <1>5
<1>7. n * (u * l * w * b * b * b) * s = (n * l * u * b * b) * (s * w) * b
  BY ONLY n \in Int, u \in Int, l \in Int, w \in Int, b \in Int, s \in Int
<1>8. n * lot * s = (n * l * u * b * b) * (s * w) * b
  BY <1>1, <1>7, Zenon
<1>9. (n * l * u * b * b) * (s * w) \in Int
  <2>1. n * l \in Nat /\ s * w \in Nat
    BY Products
  <2>2. n * l * u \in Nat
    BY <2>1, Products
  <2>3. n * l * u * b \in Nat
    BY <2>2, Products
  <2>4. n * l * u * b * b \in Nat
    BY <2>3, Products
  <2> QED
    BY <2>1, <2>4, Products
<1> QED
  BY <1>6, <1>8, <1>9, CancelsOut

\* A purchase that fits keeps the sum near the limit.
LEMMA NearWhenAdded ==
    ASSUME NEW c \in Costs, NEW slip \in c.slips, NEW old \in Int, NEW x \in Nat \ {0},
           x * Sized(c) <= Smaller(TradeLimit, Larger(0, RiskLimit - old))
    PROVE  Near(c, slip, old + x * PlannedRate(c, slip))
<1>1. PICK z \in Nat \ {0} : z = Sized(c)
  BY RatesOfOrders
<1>2. PICK d \in Nat : d = PlannedRate(c, slip) - Sized(c)
  BY RatesOfOrders
<1>3. PICK l \in Int : l = RiskLimit
  BY LimitsAreNat
<1>4. PICK m \in Nat : m = TradeLimit
  BY LimitsAreNat
<1>5. PlannedRate(c, slip) = z + d
  <2>1. PlannedRate(c, slip) \in Int
    BY RatesOfOrders
  <2> QED
    BY <1>1, <1>2, <2>1
<1>6. PICK v \in Nat \ {0} : v = x * z
  BY <1>1, Products
<1>7. v <= m /\ v <= l - old
  <2>1. v <= Smaller(m, Larger(0, l - old))
    BY <1>1, <1>3, <1>4, <1>6, Zenon
  <2> QED
    BY ONLY <2>1, v \in Nat \ {0}, m \in Nat, l \in Int, old \in Int DEF Smaller, Larger
<1>8. PICK y \in Nat : y = x * d
  BY <1>2, Products
<1>9. x * PlannedRate(c, slip) = v + y
  <2>1. x * (z + d) = x * z + x * d
    BY ONLY x \in Int, z \in Int, d \in Int
  <2> QED
    BY <1>5, <1>6, <1>8, <2>1, Zenon
<1>10. (old + (v + y)) - l <= y
  BY ONLY <1>7, v \in Int, l \in Int, old \in Int, y \in Int
<1>11. ((old + (v + y)) - l) * z <= y * z
  <2>1. (old + (v + y)) - l \in Int
    BY <1>3, <1>6, <1>8
  <2>2. y \in Int /\ z \in Nat
    BY <1>1, <1>8
  <2> QED
    BY <1>10, <2>1, <2>2, TimesKeepsOrder, Zenon
<1>12. y * z = v * d
  <2>1. (x * d) * z = (x * z) * d
    BY ONLY x \in Int, z \in Int, d \in Int
  <2> QED
    BY <1>6, <1>8, <2>1, Zenon
<1>13. v * d <= m * d
  BY <1>2, <1>4, <1>6, <1>7, TimesKeepsOrder
<1>14. ((old + (v + y)) - l) * z \in Int /\ v * d \in Int /\ m * d \in Int
  <2>1. (old + (v + y)) - l \in Int
    BY <1>3, <1>6, <1>8
  <2> QED
    BY <1>1, <1>2, <1>4, <1>6, <2>1, TimesInt
<1>15. ((old + (v + y)) - l) * z <= m * d
  <2>1. ((old + (v + y)) - l) * z <= v * d
    BY <1>11, <1>12, Zenon
  <2> QED
    BY ONLY <1>13, <1>14, <2>1
<1> QED
  BY <1>1, <1>2, <1>3, <1>4, <1>9, <1>15, Zenon DEF Near


LEMMA RiskOfPurchase == ASSUME IInv, IInv', Enter PROVE OpenRiskStaysNear'
<1>0. /\ phase = "entries" /\ at \in DOMAIN day.entries /\ Admitted(day.entries[at])
      /\ \E over \in Overs(day.entries[at]) :
            /\ ~Unfilled(day.entries[at], over)
            /\ positions' = Append(positions, Position(day.entries[at], over))
  BY Zenon DEF Enter
<1>1. PICK signal : signal = day.entries[at]
  OBVIOUS
<1>2. /\ signal.symbol \in Symbols /\ signal.costs \in Costs \cup {NoCosts}
      /\ Admitted(signal)
  BY <1>0, <1>1, DayIsSound DEF IInv, IsDay
<1>3. PICK over \in Overs(signal) :
         /\ ~Unfilled(signal, over)
         /\ positions' = Append(positions, Position(signal, over))
  BY <1>0, <1>1, Zenon
<1>4. TypeOK /\ session \in 1..LastSession /\ positions \in Seq(PositionRecords)
  BY <1>0 DEF IInv, Started, TypeOK
<1>5. HasRate(signal.symbol) /\ day.bars[signal.symbol] # NoBar /\ HasCosts(signal)
  BY <1>2, Zenon DEF Admitted
<1>6. PICK c \in Costs : c = CostsOf(signal)
  BY <1>2, <1>5, RatesAssumption DEF ValidRules, HasCosts, CostsOf
<1>7. PICK slip \in c.slips : over = c.half + slip
  BY <1>3, <1>6, Zenon DEF Overs
<1>8. PICK open \in Nat \ {0} : open = day.bars[signal.symbol].open
  BY <1>2, <1>4, <1>5, DayIsSound DEF IsDay, IsBar
<1>9. PICK volume \in Nat : volume = day.bars[signal.symbol].volume
  BY <1>2, <1>4, <1>5, DayIsSound DEF IsDay, IsBar
<1>10. PICK fx \in Nat \ {0} : fx = FxBuy(signal.symbol)
  BY <1>2, <1>4, <1>5, RatesOfTheDay
<1>11. PICK w \in Nat \ {0} : w = Base + Fee + c.half
  BY RatesOfOrders, <1>7, Rates
<1>12. PICK budget \in Nat : budget = Budget(signal.symbol)
  BY <1>4, BudgetIsNat
<1>13. PICK l \in Nat \ {0} : l = LotSize
  BY Rates
<1>14. PICK b \in Nat \ {0} : b = Base
  BY Rates
<1>15. PICK u \in Nat \ {0} : u = open * fx
  BY <1>8, <1>10, Products
<1>16. u * l * w * b * b * b \in Nat \ {0}
  <2>1. u * l \in Nat \ {0}
    BY <1>13, <1>15, Products
  <2>2. u * l * w \in Nat \ {0}
    BY <1>11, <2>1, Products
  <2>3. u * l * w * b \in Nat \ {0}
    BY <1>14, <2>2, Products
  <2>4. u * l * w * b * b \in Nat \ {0}
    BY <1>14, <2>3, Products
  <2> QED
    BY <1>14, <2>4, Products
<1>17. PICK n : n = Smaller(budget \div (u * l * w * b * b * b), volume \div l)
  OBVIOUS
<1>18. n \in Nat /\ n <= budget \div (u * l * w * b * b * b)
  <2>1. budget \div (u * l * w * b * b * b) \in Nat /\ volume \div l \in Nat
    BY <1>9, <1>12, <1>13, <1>16, Products
  <2> QED
    BY ONLY <1>17, <2>1 DEF Smaller
<1>19. Quantity(signal) = n * l
  BY <1>6, <1>8, <1>9, <1>10, <1>11, <1>12, <1>13, <1>14, <1>15, <1>17, Zenon DEF Quantity
<1>20. n * l \in Nat \ {0}
  <2>1. Quantity(signal) # 0
    BY <1>3, Zenon DEF Unfilled
  <2>2. n * l \in Nat
    BY <1>13, <1>18, Products
  <2> QED
    BY <1>19, <2>1, <2>2
<1>21. PICK s \in Nat \ {0} : s = StopLoss
  BY Rates
<1>22. PICK old \in Int : old = Total("risk")
  BY <1>4, TotalIsInt, CostIsSummed
<1>23. PICK allowed \in Nat : allowed = AllowedRisk
  <2>1. AllowedRisk = Smaller(TradeLimit, Larger(0, RiskLimit - old))
    BY <1>22, Zenon DEF AllowedRisk, TradeLimit, RiskLimit
  <2> QED
    BY <1>22, <2>1, LimitsAreNat DEF Smaller, Larger
<1>24. budget <= (allowed * b) \div s
  <2>1. budget = Smaller(Smaller(book.cash, (Capital * PositionRate) \div Base),
                         Smaller(SectorCapacity(signal.symbol), (allowed * b) \div s))
    BY <1>12, <1>14, <1>21, <1>23, Zenon DEF Budget
  <2>2. (allowed * b) \div s \in Int /\ book.cash \in Int
        /\ (Capital * PositionRate) \div Base \in Int /\ SectorCapacity(signal.symbol) \in Int
    <3>1. allowed * b \in Nat
      BY <1>14, <1>23, Products
    <3>2. Capital * PositionRate \in Nat /\ Capital * SectorRate \in Nat
      BY CapitalIsNat, Rates, Products
    <3>3. (Capital * PositionRate) \div Base \in Nat /\ (Capital * SectorRate) \div Base \in Nat
          /\ (allowed * b) \div s \in Nat
      BY <1>21, <3>1, <3>2, Rates, Products
    <3>4. SectorCost(Sector[signal.symbol]) \in Int
      BY <1>4, TotalsAreInt
    <3>5. book.cash \in Nat
      BY <1>4 DEF TypeOK, Books
    <3> QED
      BY <3>3, <3>4, <3>5 DEF SectorCapacity, Larger
  <2> QED
    BY ONLY <2>1, <2>2 DEF Smaller
<1>25. PICK x \in Nat \ {0} : x = n * l * u * b * b
  <2>1. n * l * u \in Nat \ {0}
    BY <1>15, <1>20, Products
  <2>2. n * l * u * b \in Nat \ {0}
    BY <1>14, <2>1, Products
  <2> QED
    BY <1>14, <2>2, Products
<1>26. x * Sized(c) <= allowed
  <2>1. (n * l * u * b * b) * (s * w) <= allowed
    <3>1. u \in Nat /\ l \in Nat /\ w \in Nat
      BY <1>11, <1>13, <1>15
    <3> QED
      BY <1>12, <1>14, <1>16, <1>18, <1>21, <1>23, <1>24, <3>1, LotsFitTheRisk
  <2> QED
    BY <1>11, <1>21, <1>25, <2>1, Zenon DEF Sized
<1>27. Near(c, slip, old + x * PlannedRate(c, slip))
  <2>1. x * Sized(c) <= Smaller(TradeLimit, Larger(0, RiskLimit - old))
    BY <1>22, <1>23, <1>26, Zenon DEF AllowedRisk, TradeLimit, RiskLimit
  <2> QED
    BY <1>7, <1>22, <1>25, <2>1, NearWhenAdded
<1>28. PICK p \in PositionRecords : p = Position(signal, over)
  BY <1>0, <1>2, <1>3, <1>4, NewPosition
<1>29. p["risk"] = x * PlannedRate(c, slip)
  <2>1. p["risk"] = PlannedRisk(signal.symbol, open, over, n * l)
    BY <1>8, <1>19, <1>28 DEF Position
  <2>2. PICK h \in Nat : h = c.half
    BY <1>7, RatesOfOrders
  <2>3. PICK f \in Nat : f = Fee
    BY Rates
  <2>4. slip \in Nat
    BY <1>7, RatesOfOrders
  <2>5. p["risk"] = open * (b + (h + slip)) * b * (n * l) * fx * (s + f) * b
    BY <1>7, <1>10, <1>14, <1>21, <2>1, <2>2, <2>3, Zenon DEF PlannedRisk, EntryPrice
  <2>6. PlannedRate(c, slip) = (s + f) * (b + h + slip)
    BY <1>14, <1>21, <2>2, <2>3, Zenon DEF PlannedRate
  <2>7. open * (b + (h + slip)) * b * (n * l) * fx * (s + f) * b
          = ((n * l) * (open * fx) * b * b) * ((s + f) * (b + h + slip))
    BY ONLY <1>18, <2>4, open \in Int, b \in Int, h \in Int, l \in Int, fx \in Int,
            s \in Int, f \in Int
  <2> QED
    BY <1>15, <1>25, <2>5, <2>6, <2>7, Zenon
<1>30. Total("risk")' = old + x * PlannedRate(c, slip)
  BY <1>3, <1>4, <1>22, <1>28, <1>29, TotalAdded, CostIsSummed
<1> QED
  BY <1>6, <1>7, <1>27, <1>30, RiskIsNear

\* The planned losses of the open positions stay near the limit: the purchases
\* keep to what the open ones leave of it, and nothing else adds a loss.
THEOREM RiskStaysNear == Spec => []OpenRiskStaysNear
<1>1. Init => OpenRiskStaysNear
  <2> SUFFICES ASSUME Init PROVE OpenRiskStaysNear
    OBVIOUS
  <2>1. PICK c \in Costs : IsCosts(c)
    BY RatesAssumption DEF ValidRules
  <2>2. PICK slip \in c.slips : TRUE
    BY <2>1 DEF IsCosts
  <2>3. Total("risk") = 0
    <3>1. positions \in Seq(PositionRecords) /\ Len(positions) = 0
      BY DEF Init
    <3>2. Total("risk") = Sum(FieldOfList(positions, "risk"))
      BY TotalIsSum
    <3>3. FieldOfList(positions, "risk") \in Seq(Int) /\ Len(FieldOfList(positions, "risk")) = 0
      BY <3>1, FieldsAreInt, CostIsSummed
    <3> QED
      BY <3>2, <3>3, SumOfNone
  <2>4. PICK z \in Nat : z = Sized(c)
    BY <2>2, RatesOfOrders
  <2>5. PICK l \in Nat : l = RiskLimit
    BY LimitsAreNat
  <2>6. PICK m \in Nat : m = TradeLimit * (PlannedRate(c, slip) - Sized(c))
    BY <2>2, RatesOfOrders, LimitsAreNat, Products
  <2>7. (0 - l) * z <= 0
    <3>1. l * z \in Nat /\ (0 - l) * z = 0 - l * z
      BY <2>4, <2>5, Products
    <3> QED
      BY <3>1
  <2>8. (0 - l) * z \in Int
    BY <2>4, <2>5, TimesInt
  <2>9. (0 - l) * z <= m
    BY ONLY <2>7, <2>8, m \in Nat
  <2>10. Near(c, slip, 0)
    BY <2>4, <2>5, <2>6, <2>9, Zenon DEF Near
  <2> QED
    BY <2>2, <2>3, <2>10, RiskIsNear
<1>2. IInv /\ IInv' /\ OpenRiskStaysNear /\ [Next]_vars => OpenRiskStaysNear'
  <2> SUFFICES ASSUME IInv, IInv', OpenRiskStaysNear, [Next]_vars PROVE OpenRiskStaysNear'
    OBVIOUS
  <2>1. CASE Enter
    BY <2>1, RiskOfPurchase
  <2>2. CASE ~Enter
    <3>1. PICK c \in Costs : \E slip \in c.slips : Near(c, slip, Total("risk"))
      BY RiskIsNear
    <3>2. PICK slip \in c.slips : Near(c, slip, Total("risk"))
      BY <3>1
    <3>3. Near(c, slip, Total("risk")')
      BY <2>2, <3>2, RiskFalls, NearWhenLess
    <3> QED
      BY <3>2, <3>3, RiskIsNear
  <2> QED
    BY <2>1, <2>2
<1> QED
  BY <1>1, <1>2, Invariance, PTL DEF Spec

===========================================================================
