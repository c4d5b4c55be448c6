---------------------------- MODULE LedgerProofs ----------------------------
(* Facts about the rules of the ledger, cited wherever they are applied. *)
EXTENDS LedgerRules, FiniteSetTheorems, WellFoundedInduction, TLAPS

\* Multiplying by a natural number keeps the order of two others.
LEMMA ProductMonotone ==
    ASSUME NEW a \in Nat, NEW x \in Nat, NEW y \in Nat, x <= y
    PROVE  a * x <= a * y
<1>1. PICK k \in Nat : y = x + k
  <2>1. y - x \in Nat
    OBVIOUS
  <2>2. y = x + (y - x)
    OBVIOUS
  <2> QED BY <2>1, <2>2
<1>2. a * y = a * x + a * k
  BY <1>1
<1>3. a * k \in Nat /\ a * x \in Nat
  OBVIOUS
<1> QED BY <1>2, <1>3

\* A quotient stays within a bound its dividend stays below.
LEMMA DivBelow ==
    ASSUME NEW n \in Nat, NEW m \in Nat \ {0}, NEW bound \in Nat,
           n < (bound + 1) * m
    PROVE  n \div m \in 0 .. bound
<1>1. n \div m \in Int
  OBVIOUS
<1>2. m * (n \div m) <= n
  OBVIOUS
<1>2a. n < m * ((n \div m) + 1)
  OBVIOUS
<1>3. n \div m >= 0
  <2> SUFFICES ASSUME n \div m < 0 PROVE FALSE
    BY <1>1
  <2>1. -((n \div m) + 1) \in Nat
    BY <1>1
  <2>2. m * (-((n \div m) + 1)) \in Nat
    BY <2>1
  <2>3. m * ((n \div m) + 1) <= 0
    BY <2>2, <1>1
  <2> QED BY <2>3, <1>2a, <1>1
<1>4. n \div m <= bound
  <2> SUFFICES ASSUME n \div m >= bound + 1 PROVE FALSE
    BY <1>1
  <2>1. m * (bound + 1) <= m * (n \div m)
    BY <1>1, <1>3, ProductMonotone
  <2> QED BY <2>1, <1>2, <1>1
<1> QED BY <1>1, <1>3, <1>4

\* Selling part of a position takes away no more than its purchase cost.
LEMMA CostRemovedBounded ==
    ASSUME NEW cost \in Nat, NEW q \in Nat, NEW held \in Nat \ {0}, q <= held
    PROVE  CostRemoved(cost, q, held) \in 0 .. cost
<1>1. cost * q <= cost * held
  BY ProductMonotone
<1>2. cost * q \in Nat /\ cost * held \in Nat
  OBVIOUS
<1>3. 2 * cost * q = 2 * (cost * q)
  OBVIOUS
<1>4. (cost + 1) * (2 * held) = 2 * (cost * held) + 2 * held
  OBVIOUS
<1>5. 2 * cost * q + held < (cost + 1) * (2 * held)
  BY <1>1, <1>2, <1>3, <1>4
<1>6. 2 * cost * q + held \in Nat /\ 2 * held \in Nat \ {0}
  BY <1>2, <1>3
<1> QED BY <1>5, <1>6, DivBelow DEF CostRemoved

-----------------------------------------------------------------------------
\* What an order the account can afford leaves behind is an account again:
\* no overdraft, no short position, no negative purchase cost.
Affordable(a, o, amount) ==
    /\ o.code \in Codes
    /\ o.quantity \in Nat \ {0}
    /\ o.side = "buy" => amount <= a.cash
    /\ o.side = "sell" => o.quantity <= a.quantity[o.code]

\* A fill that the account can afford leaves an account behind: the columns
\* participants.cash and holdings.quantity keep their CHECK (... >= 0).
LEMMA FillKeepsAccount ==
    ASSUME NEW a \in Account, NEW o \in OrderInput, NEW amount \in Nat,
           Affordable(a, o, amount)
    PROVE  Fill(a, o, amount) \in Account
<1> DEFINE c == o.code
           q == o.quantity
<1>1. /\ c \in Codes
      /\ q \in Nat \ {0}
      /\ a.cash \in Nat
      /\ a.quantity \in [Codes -> Nat]
      /\ a.cost \in [Codes -> Nat]
  BY DEF Affordable, Account
<1>2. CASE o.side = "buy"
  <2>1. amount <= a.cash
    BY <1>2 DEF Affordable
  <2>2. Buy(a, c, q, amount) \in Account
    BY <1>1, <2>1 DEF Buy, Account
  <2> QED BY <1>2, <2>2 DEF Fill
<1>3. CASE o.side = "sell"
  <2> DEFINE held == a.quantity[c]
  <2>1. q <= held /\ held \in Nat \ {0}
    BY <1>1, <1>3 DEF Affordable
  <2>2. CostRemoved(a.cost[c], q, held) \in 0 .. a.cost[c]
    BY <1>1, <2>1, CostRemovedBounded
  <2>3. (IF held = q THEN 0 ELSE a.cost[c] - CostRemoved(a.cost[c], q, held)) \in Nat
    BY <1>1, <2>2
  <2>4. Sell(a, c, q, amount) \in Account
    BY <1>1, <2>1, <2>3 DEF Sell, Account
  <2> QED BY <1>3, <2>4 DEF Fill
<1>4. o.side \in {"buy", "sell"}
  BY DEF OrderInput
<1> QED BY <1>2, <1>3, <1>4

\* Natural numbers are closed under multiplication; cited where a goal mixes it
\* with sets.
LEMMA ProductNat ==
    ASSUME NEW x \in Nat, NEW y \in Nat
    PROVE  x * y \in Nat
OBVIOUS

\* What place_order checks before it fills is enough for the fill: an order with
\* the verdict FILLED is one its account can afford.
LEMMA FilledIsAffordable ==
    ASSUME NEW a \in Account, NEW o \in OrderInput, NEW prices \in [Codes -> Nat],
           NEW bought, NEW standingThen, NEW open,
           LocalVerdict(o, standingThen, open) = "PASS",
           TradeVerdict(o, a, prices, bought) = "FILLED"
    PROVE  /\ prices[o.code] * o.quantity \in Nat
           /\ Affordable(a, o, prices[o.code] * o.quantity)
<1>1. o.code \in Codes /\ o.quantity \in 1 .. MaxQuantity
  BY DEF LocalVerdict
<1>2. o.quantity \in Nat \ {0} /\ prices[o.code] \in Nat
  BY <1>1, QuantitiesAssumption
<1>3. prices[o.code] * o.quantity \in Nat
  BY <1>2, ProductNat
<1>4. ASSUME o.side = "buy" PROVE prices[o.code] * o.quantity <= a.cash
  <2>1. ~(a.cash < prices[o.code] * o.quantity)
    BY <1>4 DEF TradeVerdict, BuyVerdict
  <2> QED BY <1>3, <2>1 DEF Account
<1>5. ASSUME o.side = "sell" PROVE o.quantity <= a.quantity[o.code]
  <2>1. ~(a.quantity[o.code] < o.quantity)
    BY <1>5 DEF TradeVerdict, SellVerdict
  <2> QED BY <1>1, <1>2, <2>1 DEF Account
<1> QED
  BY <1>1, <1>2, <1>3, <1>4, <1>5 DEF Affordable

\* A reward payment changes the cash of an account and nothing else of it.
LEMMA RewardedKeepsAccount ==
    ASSUME NEW a \in Account, NEW S \in SUBSET Certs
    PROVE  /\ Rewarded(a, S) \in Account
           /\ Rewarded(a, S) = [a EXCEPT !.cash = Rewarded(a, S).cash]
           /\ Rewarded(a, S).cash \in Nat
<1>1. IsFiniteSet(S)
  BY CertsAssumption, FS_Subset
<1>2. Cardinality(S) \in Nat
  BY <1>1, FS_CardinalityType
<1>3. RewardCash * Cardinality(S) \in Nat
  BY <1>2, MoneyAssumption, ProductNat
<1> QED BY <1>3 DEF Rewarded, Account

Less == {ss \in Nat \X Nat : ss[1] < ss[2]}

\* A set of natural numbers that is not empty has a least member.
LEMMA LeastNat ==
    ASSUME NEW T \in SUBSET Nat, T # {}
    PROVE  \E x \in T : \A y \in T : x <= y
<1>1. IsWellFoundedOn(Less, Nat)
  BY NatLessThanWellFounded DEF OpToRel, Less
<1>2. \E x \in T : \A y \in T : <<y, x>> \notin Less
  BY <1>1, WFMin
<1>3. \A x, y \in Nat : <<y, x>> \notin Less => x <= y
  BY DEF Less
<1> QED BY <1>2, <1>3

-----------------------------------------------------------------------------
(* Sums over finite sets *)

\* Induction on finite sets: what holds of a set when it holds of all its proper
\* subsets holds of every subset of S.
LEMMA SubsetInduction ==
    ASSUME NEW S, IsFiniteSet(S), NEW T,
           \A s \in SUBSET S : (\A t \in SUBSET s : t # s => t \in T) => s \in T
    PROVE  SUBSET S \subseteq T
<1> SUFFICES ASSUME NEW bad \in SUBSET S, bad \notin T
             PROVE  FALSE
  OBVIOUS
<1> DEFINE Sizes == {Cardinality(s) : s \in (SUBSET S) \ T}
<1>1. \A s \in SUBSET S : IsFiniteSet(s) /\ Cardinality(s) \in Nat
  BY FS_Subset, FS_CardinalityType
<1>2. Sizes \in SUBSET Nat /\ Sizes # {}
  BY <1>1
<1>3. PICK n \in Sizes : \A m \in Sizes : n <= m
  <2> HIDE DEF Sizes
  <2> QED BY <1>2, LeastNat
<1>4. PICK s \in (SUBSET S) \ T : n = Cardinality(s)
  BY <1>3
<1>5. ASSUME NEW t \in SUBSET s, t # s
      PROVE  t \in T
  <2>1. Cardinality(t) < Cardinality(s) /\ Cardinality(t) \in Nat /\ Cardinality(s) \in Nat
    BY <1>1, <1>5, FS_Subset
  <2>2. ~(Cardinality(s) <= Cardinality(t))
    BY <2>1
  <2>3. Cardinality(t) \notin Sizes
    BY <1>3, <1>4, <2>2
  <2> QED BY <2>3
<1> QED BY <1>4, <1>5

\* The function inside MapThenSumSet.
Accumulates(g, f, S) ==
    g = [s \in SUBSET S |-> IF s = {} THEN 0
                            ELSE f[CHOOSE x \in s : TRUE] + g[s \ {CHOOSE x \in s : TRUE}]]

SumOver(f, S) == MapThenSumSet(LAMBDA x : f[x], S)

\* There is such a function.
LEMMA AccumulatorExists ==
    ASSUME NEW S, IsFiniteSet(S), NEW f \in [S -> Int]
    PROVE  \E g : Accumulates(g, f, S)
<1> DEFINE head(s) == CHOOSE x \in s : TRUE
           value(g, s) == IF s = {} THEN 0 ELSE f[head(s)] + g[s \ {head(s)}]
           To(n) == \E g : g = [s \in SUBSET S |-> g[s]] /\ \A s \in SUBSET S : Cardinality(s) <= n => g[s] = value(g, s)
           T == {n \in Nat : ~To(n)}
<1>0. \A s \in SUBSET S : s # {} => head(s) \in s
  OBVIOUS
<1> HIDE DEF head
<1>1. \A s \in SUBSET S : IsFiniteSet(s) /\ Cardinality(s) \in Nat /\ (Cardinality(s) = 0 <=> s = {})
  BY FS_Subset, FS_CardinalityType, FS_EmptySet
<1>2. To(0)
  <2> DEFINE g == [s \in SUBSET S |-> 0]
  <2>1. g = [s \in SUBSET S |-> g[s]]
    OBVIOUS
  <2>2. ASSUME NEW s \in SUBSET S, Cardinality(s) <= 0 PROVE g[s] = value(g, s)
    BY <1>1, <2>2
  <2> HIDE DEF g
  <2> QED BY <2>1, <2>2
<1>3. ASSUME NEW n \in Nat, To(n) PROVE To(n + 1)
  <2>1. PICK g : g = [s \in SUBSET S |-> g[s]] /\ \A s \in SUBSET S : Cardinality(s) <= n => g[s] = value(g, s)
    BY <1>3
  <2> DEFINE h == [s \in SUBSET S |-> IF Cardinality(s) <= n THEN g[s] ELSE value(g, s)]
  <2>2. h = [s \in SUBSET S |-> h[s]]
    OBVIOUS
  <2>3. ASSUME NEW s \in SUBSET S, Cardinality(s) <= n + 1 PROVE h[s] = value(h, s)
    <3>1. CASE s = {}
      BY <1>1, <2>1, <3>1
    <3>2. CASE s # {}
      <4> DEFINE t == s \ {head(s)}
      <4>1. t \in SUBSET S /\ Cardinality(t) = Cardinality(s) - 1
        BY <1>0, <1>1, <3>2, FS_RemoveElement
      <4>2. Cardinality(t) <= n
        BY <1>1, <2>3, <4>1
      <4>3. h[t] = g[t]
        BY <4>1, <4>2
      <4>4. h[s] = value(g, s)
        BY <2>1
      <4> QED BY <3>2, <4>3, <4>4
    <3> QED BY <3>1, <3>2
  <2> HIDE DEF h
  <2> QED BY <2>2, <2>3
<1>4. T = {}
  <2> SUFFICES ASSUME T # {} PROVE FALSE
    OBVIOUS
  <2>1. T \in SUBSET Nat
    OBVIOUS
  <2>2. PICK n \in T : \A m \in T : n <= m
    <3> HIDE DEF T
    <3> QED BY <2>1, LeastNat
  <2>3. n # 0
    BY <1>2
  <2>4. n - 1 \in Nat /\ ~(n <= n - 1)
    BY <2>3
  <2>5. To(n - 1)
    BY <2>2, <2>4
  <2> HIDE DEF To
  <2>6. To((n - 1) + 1)
    BY <1>3, <2>4, <2>5
  <2> QED BY <2>6
<1>5. PICK g : g = [s \in SUBSET S |-> g[s]] /\ \A s \in SUBSET S : Cardinality(s) <= Cardinality(S) => g[s] = value(g, s)
  <2>1. Cardinality(S) \in Nat
    BY <1>1
  <2> QED BY <1>4, <2>1
<1>6. \A s \in SUBSET S : Cardinality(s) <= Cardinality(S)
  BY FS_Subset
<1>7. g = [s \in SUBSET S |-> value(g, s)]
  BY <1>5, <1>6
<1> QED BY <1>7 DEF Accumulates, head

\* Two such functions agree where they sum the same numbers.
LEMMA AccumulatorsAgree ==
    ASSUME NEW S1, NEW S2, NEW f1, NEW f2, NEW g1, NEW g2,
           Accumulates(g1, f1, S1), Accumulates(g2, f2, S2),
           NEW S, IsFiniteSet(S), S \subseteq S1, S \subseteq S2,
           \A x \in S : f1[x] = f2[x]
    PROVE  g1[S] = g2[S]
<1> DEFINE T == {s \in SUBSET S : g1[s] = g2[s]}
<1>1. ASSUME NEW s \in SUBSET S, \A t \in SUBSET s : t # s => t \in T
      PROVE  s \in T
  <2>1. PICK x : x = CHOOSE y \in s : TRUE
    OBVIOUS
  <2>2. /\ g1[s] = IF s = {} THEN 0 ELSE f1[x] + g1[s \ {x}]
        /\ g2[s] = IF s = {} THEN 0 ELSE f2[x] + g2[s \ {x}]
    BY <2>1 DEF Accumulates
  <2>3. CASE s = {}
    BY <2>2, <2>3
  <2>4. CASE s # {}
    <3>1. x \in s
      BY <2>1, <2>4
    <3>2. s \ {x} \in T
      BY <1>1, <3>1
    <3> QED BY <2>2, <2>4, <3>1, <3>2
  <2> QED BY <2>3, <2>4
<1> HIDE DEF T
<1>2. SUBSET S \subseteq T
  BY <1>1, SubsetInduction
<1> QED BY <1>2 DEF T

\* The members of a sum may be added in any order.
LEMMA AccumulatorTakesAny ==
    ASSUME NEW S, IsFiniteSet(S), NEW f \in [S -> Int], NEW g, Accumulates(g, f, S)
    PROVE  \A s \in SUBSET S : g[s] \in Int /\ \A y \in s : g[s] = f[y] + g[s \ {y}]
<1> DEFINE T == {s \in SUBSET S : g[s] \in Int /\ \A y \in s : g[s] = f[y] + g[s \ {y}]}
<1>1. ASSUME NEW s \in SUBSET S, \A t \in SUBSET s : t # s => t \in T
      PROVE  s \in T
  <2>1. PICK x : x = CHOOSE y \in s : TRUE
    OBVIOUS
  <2>2. g[s] = IF s = {} THEN 0 ELSE f[x] + g[s \ {x}]
    BY <2>1 DEF Accumulates
  <2>3. CASE s = {}
    BY <2>2, <2>3
  <2>4. CASE s # {}
    <3>1. x \in s
      BY <2>1, <2>4
    <3>2. s \ {x} \in T
      BY <1>1, <3>1
    <3>3. g[s] \in Int
      BY <2>2, <2>4, <3>1, <3>2
    <3>4. ASSUME NEW y \in s, y # x PROVE g[s] = f[y] + g[s \ {y}]
      <4> DEFINE r == (s \ {x}) \ {y}
      <4>1. s \ {y} \in T /\ x \in s \ {y} /\ y \in s \ {x}
        BY <1>1, <3>1, <3>4
      <4>2. r = (s \ {y}) \ {x}
        OBVIOUS
      <4>3. r \in T
        <5>1. r \in SUBSET s /\ r # s
          BY <3>1
        <5> HIDE DEF r, T
        <5> QED BY <1>1, <5>1
      <4>4. g[s \ {x}] = f[y] + g[r] /\ g[s \ {y}] = f[x] + g[r]
        BY <3>2, <4>1, <4>2
      <4>5. g[r] \in Int /\ f[x] \in Int /\ f[y] \in Int
        BY <3>1, <4>3
      <4> HIDE DEF r, T
      <4> QED BY <2>2, <2>4, <4>4, <4>5
    <3> QED BY <2>2, <2>4, <3>3, <3>4
  <2> QED BY <2>3, <2>4
<1> HIDE DEF T
<1>2. SUBSET S \subseteq T
  BY <1>1, SubsetInduction
<1> QED BY <1>2 DEF T

\* What MapThenSumSet computes with the numbers of f.
LEMMA SumOverIs ==
    ASSUME NEW S, IsFiniteSet(S), NEW f \in [S -> Int]
    PROVE  \E g : Accumulates(g, f, S) /\ SumOver(f, S) = g[S]
<1> DEFINE g == CHOOSE h : Accumulates(h, f, S)
<1>1. Accumulates(g, f, S)
  BY AccumulatorExists
<1>2. SumOver(f, S) = g[S]
  BY DEF SumOver, MapThenSumSet, MapThenFoldSet, Accumulates
<1> QED BY <1>1, <1>2

\* Nothing sums up to 0.
LEMMA SumEmpty ==
    ASSUME NEW f \in [{} -> Int]
    PROVE  SumOver(f, {}) = 0
<1>1. PICK g : Accumulates(g, f, {}) /\ SumOver(f, {}) = g[{}]
  BY FS_EmptySet, SumOverIs
<1> QED BY <1>1 DEF Accumulates

\* One number more.
LEMMA SumAdd ==
    ASSUME NEW S, IsFiniteSet(S), NEW y, y \notin S, NEW f, NEW f0,
           f \in [S \cup {y} -> Int], f0 \in [S -> Int], \A x \in S : f0[x] = f[x]
    PROVE  SumOver(f, S \cup {y}) = SumOver(f0, S) + f[y]
<1> DEFINE U == S \cup {y}
<1>0. IsFiniteSet(U) /\ y \in U /\ S = U \ {y} /\ S \in SUBSET U /\ U \in SUBSET U
  BY FS_AddElement
<1>1. f \in [U -> Int]
  OBVIOUS
<1> HIDE DEF U
<1>2. PICK g : Accumulates(g, f, U) /\ SumOver(f, U) = g[U]
  BY <1>0, <1>1, SumOverIs
<1>3. PICK g0 : Accumulates(g0, f0, S) /\ SumOver(f0, S) = g0[S]
  BY SumOverIs
<1>4. g[S] = g0[S]
  BY <1>0, <1>2, <1>3, AccumulatorsAgree
<1>5. g[S] \in Int /\ g[U] = f[y] + g[S]
  <2>1. \A s \in SUBSET U : g[s] \in Int /\ \A z \in s : g[s] = f[z] + g[s \ {z}]
    BY <1>0, <1>1, <1>2, AccumulatorTakesAny
  <2> QED BY <1>0, <2>1
<1>6. f[y] \in Int
  BY <1>0, <1>1
<1>7. SumOver(f, U) = SumOver(f0, S) + f[y]
  BY <1>2, <1>3, <1>4, <1>5, <1>6
<1> QED BY <1>7 DEF U

\* The sum of numbers of one kind is of that kind.
LEMMA SumType ==
    ASSUME NEW S, IsFiniteSet(S), NEW Typ \in {Nat, Int}, NEW f \in [S -> Typ]
    PROVE  SumOver(f, S) \in Typ
<1> f \in [S -> Int]
  OBVIOUS
<1>1. PICK g : Accumulates(g, f, S) /\ SumOver(f, S) = g[S]
  BY SumOverIs
<1> DEFINE T == {s \in SUBSET S : g[s] \in Typ}
<1>2. ASSUME NEW s \in SUBSET S, \A t \in SUBSET s : t # s => t \in T
      PROVE  s \in T
  <2>1. PICK x : x = CHOOSE y \in s : TRUE
    OBVIOUS
  <2>2. g[s] = IF s = {} THEN 0 ELSE f[x] + g[s \ {x}]
    BY <1>1, <2>1 DEF Accumulates
  <2>3. CASE s = {}
    BY <2>2, <2>3
  <2>4. CASE s # {}
    <3>1. x \in s
      BY <2>1, <2>4
    <3>2. s \ {x} \in T
      BY <1>2, <3>1
    <3> QED BY <2>2, <2>4, <3>1, <3>2
  <2> QED BY <2>3, <2>4
<1> HIDE DEF T
<1>3. SUBSET S \subseteq T
  BY <1>2, SubsetInduction
<1> QED BY <1>1, <1>3 DEF T

-----------------------------------------------------------------------------
(* The sums of the ledger *)

\* Total and QuantityOf as sums of a function.
LEMMA TotalIsSum ==
    ASSUME NEW rows, IsFiniteSet(rows), \A o \in rows : o.amount \in Int
    PROVE  Total(rows) = SumOver([o \in rows |-> o.amount], rows)
<1> DEFINE f == [o \in rows |-> o.amount]
<1>1. f \in [rows -> Int]
  OBVIOUS
<1>2. PICK g : Accumulates(g, f, rows) /\ SumOver(f, rows) = g[rows]
  BY <1>1, SumOverIs
<1> DEFINE Sums(h) == h = [s \in SUBSET rows |->
              IF s = {} THEN 0
              ELSE (CHOOSE x \in s : TRUE).amount + h[s \ {CHOOSE x \in s : TRUE}]]
           chosen == CHOOSE h : Sums(h)
<1>3. ASSUME NEW h PROVE Sums(h) <=> Accumulates(h, f, rows)
  <2>1. \A s \in SUBSET rows : s # {} => f[CHOOSE x \in s : TRUE] = (CHOOSE x \in s : TRUE).amount
    OBVIOUS
  <2>2. [s \in SUBSET rows |->
              IF s = {} THEN 0
              ELSE (CHOOSE x \in s : TRUE).amount + h[s \ {CHOOSE x \in s : TRUE}]]
        = [s \in SUBSET rows |->
              IF s = {} THEN 0
              ELSE f[CHOOSE x \in s : TRUE] + h[s \ {CHOOSE x \in s : TRUE}]]
    BY <2>1
  <2> QED BY <2>2 DEF Accumulates
<1> HIDE DEF f
<1>4. Accumulates(chosen, f, rows)
  <2> HIDE DEF Sums
  <2> QED BY <1>2, <1>3
<1>5. Total(rows) = chosen[rows]
  BY DEF Total, MapThenSumSet, MapThenFoldSet
<1> HIDE DEF chosen
<1>6. chosen[rows] = g[rows]
  BY <1>2, <1>4, AccumulatorsAgree
<1> QED BY <1>2, <1>5, <1>6 DEF f

\* Likewise QuantityOf.
LEMMA QuantityIsSum ==
    ASSUME NEW rows, IsFiniteSet(rows), \A o \in rows : o.quantity \in Int
    PROVE  QuantityOf(rows) = SumOver([o \in rows |-> o.quantity], rows)
<1> DEFINE f == [o \in rows |-> o.quantity]
<1>1. f \in [rows -> Int]
  OBVIOUS
<1>2. PICK g : Accumulates(g, f, rows) /\ SumOver(f, rows) = g[rows]
  BY <1>1, SumOverIs
<1> DEFINE Sums(h) == h = [s \in SUBSET rows |->
              IF s = {} THEN 0
              ELSE (CHOOSE x \in s : TRUE).quantity + h[s \ {CHOOSE x \in s : TRUE}]]
           chosen == CHOOSE h : Sums(h)
<1>3. ASSUME NEW h PROVE Sums(h) <=> Accumulates(h, f, rows)
  <2>1. \A s \in SUBSET rows : s # {} => f[CHOOSE x \in s : TRUE] = (CHOOSE x \in s : TRUE).quantity
    OBVIOUS
  <2>2. [s \in SUBSET rows |->
              IF s = {} THEN 0
              ELSE (CHOOSE x \in s : TRUE).quantity + h[s \ {CHOOSE x \in s : TRUE}]]
        = [s \in SUBSET rows |->
              IF s = {} THEN 0
              ELSE f[CHOOSE x \in s : TRUE] + h[s \ {CHOOSE x \in s : TRUE}]]
    BY <2>1
  <2> QED BY <2>2 DEF Accumulates
<1> HIDE DEF f
<1>4. Accumulates(chosen, f, rows)
  <2> HIDE DEF Sums
  <2> QED BY <1>2, <1>3
<1>5. QuantityOf(rows) = chosen[rows]
  BY DEF QuantityOf, MapThenSumSet, MapThenFoldSet
<1> HIDE DEF chosen
<1>6. chosen[rows] = g[rows]
  BY <1>2, <1>4, AccumulatorsAgree
<1> QED BY <1>2, <1>5, <1>6 DEF f

\* Nothing is bought with no order, and one order more adds its amount.
LEMMA TotalEmpty == Total({}) = 0
<1> DEFINE f == [o \in {} |-> o.amount]
<1>1. Total({}) = SumOver(f, {})
  BY FS_EmptySet, TotalIsSum
<1>2. f \in [{} -> Int]
  OBVIOUS
<1> HIDE DEF f
<1> QED BY <1>1, <1>2, SumEmpty

LEMMA TotalNat ==
    ASSUME NEW rows, IsFiniteSet(rows), \A o \in rows : o.amount \in Nat
    PROVE  Total(rows) \in Nat
<1> DEFINE f == [o \in rows |-> o.amount]
<1>1. Total(rows) = SumOver(f, rows)
  BY TotalIsSum
<1>2. f \in [rows -> Nat]
  OBVIOUS
<1> HIDE DEF f
<1> QED BY <1>1, <1>2, SumType

LEMMA TotalAdd ==
    ASSUME NEW rows, IsFiniteSet(rows), \A o \in rows : o.amount \in Nat,
           NEW row, row \notin rows, row.amount \in Nat
    PROVE  /\ Total(rows \cup {row}) = Total(rows) + row.amount
           /\ Total(rows) \in Nat
<1> DEFINE f == [o \in rows \cup {row} |-> o.amount]
           f0 == [o \in rows |-> o.amount]
<1>1. IsFiniteSet(rows \cup {row})
  BY FS_AddElement
<1>2. /\ Total(rows \cup {row}) = SumOver(f, rows \cup {row})
      /\ Total(rows) = SumOver(f0, rows)
  <2>1. \A o \in rows \cup {row} : o.amount \in Int
    OBVIOUS
  <2>2. Total(rows \cup {row}) = SumOver(f, rows \cup {row})
    BY <1>1, <2>1, TotalIsSum
  <2>3. Total(rows) = SumOver(f0, rows)
    BY <2>1, TotalIsSum
  <2> QED BY <2>2, <2>3
<1>3. /\ f \in [rows \cup {row} -> Int] /\ f0 \in [rows -> Int] /\ f0 \in [rows -> Nat]
      /\ \A o \in rows : f0[o] = f[o]
      /\ f[row] = row.amount
  OBVIOUS
<1> HIDE DEF f, f0
<1>4. SumOver(f, rows \cup {row}) = SumOver(f0, rows) + f[row] /\ SumOver(f0, rows) \in Nat
  BY <1>3, SumAdd, SumType
<1> QED BY <1>2, <1>3, <1>4

\* The same of quantities.
LEMMA QuantityEmpty == QuantityOf({}) = 0
<1> DEFINE f == [o \in {} |-> o.quantity]
<1>1. QuantityOf({}) = SumOver(f, {})
  BY FS_EmptySet, QuantityIsSum
<1>2. f \in [{} -> Int]
  OBVIOUS
<1> HIDE DEF f
<1> QED BY <1>1, <1>2, SumEmpty

LEMMA QuantityAdd ==
    ASSUME NEW rows, IsFiniteSet(rows), \A o \in rows : o.quantity \in Int,
           NEW row, row \notin rows, row.quantity \in Int
    PROVE  /\ QuantityOf(rows \cup {row}) = QuantityOf(rows) + row.quantity
           /\ QuantityOf(rows) \in Int
<1> DEFINE f == [o \in rows \cup {row} |-> o.quantity]
           f0 == [o \in rows |-> o.quantity]
<1>1. IsFiniteSet(rows \cup {row})
  BY FS_AddElement
<1>2. /\ QuantityOf(rows \cup {row}) = SumOver(f, rows \cup {row})
      /\ QuantityOf(rows) = SumOver(f0, rows)
  <2>1. \A o \in rows \cup {row} : o.quantity \in Int
    OBVIOUS
  <2>2. QuantityOf(rows \cup {row}) = SumOver(f, rows \cup {row})
    BY <1>1, <2>1, QuantityIsSum
  <2>3. QuantityOf(rows) = SumOver(f0, rows)
    BY <2>1, QuantityIsSum
  <2> QED BY <2>2, <2>3
<1>3. /\ f \in [rows \cup {row} -> Int] /\ f0 \in [rows -> Int]
      /\ \A o \in rows : f0[o] = f[o]
      /\ f[row] = row.quantity
  OBVIOUS
<1> HIDE DEF f, f0
<1>4. SumOver(f, rows \cup {row}) = SumOver(f0, rows) + f[row] /\ SumOver(f0, rows) \in Int
  BY <1>3, SumAdd, SumType
<1> QED BY <1>2, <1>3, <1>4

-----------------------------------------------------------------------------
(* Days and prices *)

\* Days that are not none have a last one: latest_opened_day finds a row when
\* a day is open.
LEMMA LastOf ==
    ASSUME NEW T \in SUBSET Days, T # {}
    PROVE  \E x \in T : \A y \in T : y <= x
<1> DEFINE Gaps == {LastDay - y : y \in T}
<1>1. \A y \in T : y \in Nat /\ y <= LastDay
  BY DaysAssumption DEF Days
<1>2. Gaps \in SUBSET Nat /\ Gaps # {}
  BY <1>1, DaysAssumption
<1>3. PICK g \in Gaps : \A h \in Gaps : g <= h
  <2> HIDE DEF Gaps
  <2> QED BY <1>2, LeastNat
<1>4. PICK x \in T : g = LastDay - x
  BY <1>3
<1>5. \A y \in T : LastDay - x <= LastDay - y
  BY <1>3, <1>4
<1> QED BY <1>1, <1>5, DaysAssumption

\* Every day opens at a price, whether settled, carried over or initial.
LEMMA OpeningPricesType ==
    ASSUME NEW mday, NEW price \in [Days -> [Codes -> Nat]], NEW d \in Days
    PROVE  OpeningPrices(mday, price, d) \in [Codes -> Nat]
<1>1. ASSUME NEW c \in Codes
      PROVE  PublishedBefore(mday, price, d, c) \in Nat
  <2>1. CASE \E e \in Opened(mday) : e < d
    <3> DEFINE last == CHOOSE e \in Opened(mday) :
                          /\ e < d
                          /\ \A f \in Opened(mday) : f < d => f <= e
    <3>1. \E e \in Opened(mday) : e < d /\ \A f \in Opened(mday) : f < d => f <= e
      <4> DEFINE Earlier == {e \in Opened(mday) : e < d}
      <4>1. Earlier \in SUBSET Days /\ Earlier # {}
        BY <2>1 DEF Opened
      <4>2. \E e \in Earlier : \A f \in Earlier : f <= e
        BY <4>1, LastOf
      <4> QED BY <4>2
    <3>2. last \in Opened(mday)
      BY <3>1
    <3>3. last \in Days
      BY <3>2 DEF Opened
    <3>4. PublishedBefore(mday, price, d, c) = price[last][c]
      BY <2>1 DEF PublishedBefore
    <3> QED BY <3>3, <3>4
  <2>2. CASE ~ \E e \in Opened(mday) : e < d
    BY <2>2, MoneyAssumption DEF PublishedBefore
  <2> QED BY <2>1, <2>2
<1> QED BY <1>1 DEF OpeningPrices

-----------------------------------------------------------------------------
(* The average price *)

\* Buying at u what is then held at an average near m: it is near one of the two.
LEMMA BuyNearAbove ==
    ASSUME NEW cost \in Nat, NEW m \in Nat, NEW u \in Nat, NEW held \in Nat, NEW q \in Nat,
           NEW s \in Nat, 2 * cost <= 2 * m * held + s
    PROVE  \/ 2 * (cost + u * q) <= 2 * u * (held + q) + s
           \/ 2 * (cost + u * q) <= 2 * m * (held + q) + s
<1> DEFINE mh == m * held  uh == u * held  uq == u * q  mq == m * q
<1>1. mh \in Nat /\ uh \in Nat /\ uq \in Nat /\ mq \in Nat
  BY ProductNat
<1>2. /\ 2 * m * held = 2 * mh
      /\ 2 * u * (held + q) = 2 * uh + 2 * uq
      /\ 2 * m * (held + q) = 2 * mh + 2 * mq
  OBVIOUS
<1>3. CASE m <= u
  <2>1. mh <= uh
    <3>1. held * m <= held * u
      BY <1>3, ProductMonotone
    <3>2. held * m = m * held /\ held * u = u * held
      OBVIOUS
    <3> QED BY <3>1, <3>2
  <2> HIDE DEF mh, uh, uq, mq
  <2> QED BY <1>1, <1>2, <2>1 DEF uq
<1>4. CASE u <= m
  <2>1. uq <= mq
    <3>1. q * u <= q * m
      BY <1>4, ProductMonotone
    <3>2. q * m = m * q /\ q * u = u * q
      OBVIOUS
    <3> QED BY <3>1, <3>2
  <2> HIDE DEF mh, uh, uq, mq
  <2> QED BY <1>1, <1>2, <2>1 DEF uq
<1> QED BY <1>3, <1>4

\* ... and so seen from below.
LEMMA BuyNearBelow ==
    ASSUME NEW cost \in Nat, NEW m \in Nat, NEW u \in Nat, NEW held \in Nat, NEW q \in Nat,
           NEW s \in Nat, 2 * m * held <= 2 * cost + s
    PROVE  \/ 2 * u * (held + q) <= 2 * (cost + u * q) + s
           \/ 2 * m * (held + q) <= 2 * (cost + u * q) + s
<1> DEFINE mh == m * held  uh == u * held  uq == u * q  mq == m * q
<1>1. mh \in Nat /\ uh \in Nat /\ uq \in Nat /\ mq \in Nat
  BY ProductNat
<1>2. /\ 2 * m * held = 2 * mh
      /\ 2 * u * (held + q) = 2 * uh + 2 * uq
      /\ 2 * m * (held + q) = 2 * mh + 2 * mq
  OBVIOUS
<1>3. CASE u <= m
  <2>1. uh <= mh
    <3>1. held * u <= held * m
      BY <1>3, ProductMonotone
    <3>2. held * m = m * held /\ held * u = u * held
      OBVIOUS
    <3> QED BY <3>1, <3>2
  <2> HIDE DEF mh, uh, uq, mq
  <2> QED BY <1>1, <1>2, <2>1 DEF uq
<1>4. CASE m <= u
  <2>1. mq <= uq
    <3>1. q * m <= q * u
      BY <1>4, ProductMonotone
    <3>2. q * m = m * q /\ q * u = u * q
      OBVIOUS
    <3> QED BY <3>1, <3>2
  <2> HIDE DEF mh, uh, uq, mq
  <2> QED BY <1>1, <1>2, <2>1 DEF uq
<1> QED BY <1>3, <1>4

\* What a sale takes along of the cost, to within half a won.
LEMMA CostRemovedNear ==
    ASSUME NEW cost \in Nat, NEW q \in Nat, NEW held \in Nat \ {0}
    PROVE  LET r == CostRemoved(cost, q, held)
           IN  /\ r \in Int
               /\ 2 * (held * r) <= 2 * (cost * q) + held
               /\ 2 * (cost * q) <= 2 * (held * r) + held
<1> DEFINE n == 2 * cost * q + held
           r == CostRemoved(cost, q, held)
<1>1. cost * q \in Nat /\ 2 * cost * q = 2 * (cost * q)
  BY ProductNat
<1>2. n \in Nat /\ 2 * held \in Nat \ {0}
  BY <1>1
<1>3. r = n \div (2 * held)
  BY DEF CostRemoved
<1>4. r \in Int /\ (2 * held) * r <= n /\ n < (2 * held) * (r + 1)
  <2> HIDE DEF n, r
  <2> QED BY <1>2, <1>3
<1>5. (2 * held) * r = 2 * (held * r) /\ (2 * held) * (r + 1) = 2 * (held * r) + 2 * held
  BY <1>4
<1>6. held * r \in Int
  BY <1>4
<1> HIDE DEF r
<1> QED BY <1>1, <1>4, <1>5, <1>6 DEF n, r

\* Dividing an inequality by a positive number.
LEMMA CancelFactor ==
    ASSUME NEW a \in Nat \ {0}, NEW x \in Int, NEW y \in Int, a * x <= a * y
    PROVE  x <= y
<1> SUFFICES ASSUME y + 1 <= x PROVE FALSE
  OBVIOUS
<1>1. x - (y + 1) \in Nat
  OBVIOUS
<1>2. a * (x - (y + 1)) \in Nat
  BY <1>1, ProductNat
<1>3. a * (x - (y + 1)) = a * x - a * y - a
  OBVIOUS
<1>4. a * x \in Int /\ a * y \in Int
  OBVIOUS
<1> QED BY <1>2, <1>3, <1>4

\* Selling part of a position moves its average by at most half a won more.
LEMMA SellNearAbove ==
    ASSUME NEW cost \in Nat, NEW m \in Nat, NEW held \in Nat, NEW q \in Nat, NEW s \in Nat,
           q < held, 2 * cost <= 2 * m * held + s
    PROVE  2 * (cost - CostRemoved(cost, q, held)) <= 2 * m * (held - q) + (s + 1)
<1> DEFINE r == CostRemoved(cost, q, held)
           k == held - q
           x == 2 * (cost - r)
           y == 2 * m * k + (s + 1)
<1>1. /\ r \in Int /\ k \in Nat \ {0} /\ held \in Nat \ {0} /\ q = held - k
      /\ 2 * (cost * q) <= 2 * (held * r) + held
  BY CostRemovedNear
<1> HIDE DEF r, k
<1>2. cost * k \in Nat /\ m * held \in Nat /\ (m * held) * k \in Nat /\ s * k \in Nat /\ s * held \in Nat
      /\ cost * held \in Nat /\ held * r \in Int
  BY <1>1, ProductNat
<1>3. s * k <= s * held
  BY <1>1, ProductMonotone
<1>4. 2 * (cost * k) <= 2 * ((m * held) * k) + s * k
  <2>1. k * (2 * cost) <= k * (2 * (m * held) + s)
    <3>1. 2 * m * held = 2 * (m * held)
      OBVIOUS
    <3> QED BY <1>1, <1>2, <3>1, ProductMonotone
  <2>2. k * (2 * cost) = 2 * (cost * k)
    BY <1>1
  <2>3. k * (2 * (m * held) + s) = 2 * ((m * held) * k) + s * k
    BY <1>1, <1>2
  <2> QED BY <2>1, <2>2, <2>3
<1>5. cost * q = cost * held - cost * k
  BY <1>1
<1>6. held * x = 2 * (cost * held) - 2 * (held * r)
  BY <1>1
<1>7. held * y = 2 * ((m * held) * k) + s * held + held
  BY <1>1
<1>8. held * x <= held * y
  BY <1>1, <1>2, <1>3, <1>4, <1>5, <1>6, <1>7
<1>9. x \in Int /\ y \in Int
  <2>1. m * k \in Nat /\ 2 * m * k = 2 * (m * k)
    BY <1>1, ProductNat
  <2> QED BY <1>1, <2>1
<1>10. x <= y
  <2> HIDE DEF x, y
  <2> QED BY <1>1, <1>8, <1>9, CancelFactor
<1> QED BY <1>10 DEF k, r

\* ... and so seen from below.
LEMMA SellNearBelow ==
    ASSUME NEW cost \in Nat, NEW m \in Nat, NEW held \in Nat, NEW q \in Nat, NEW s \in Nat,
           q < held, 2 * m * held <= 2 * cost + s
    PROVE  2 * m * (held - q) <= 2 * (cost - CostRemoved(cost, q, held)) + (s + 1)
<1> DEFINE r == CostRemoved(cost, q, held)
           k == held - q
           x == 2 * m * k
           y == 2 * (cost - r) + (s + 1)
<1>1. /\ r \in Int /\ k \in Nat \ {0} /\ held \in Nat \ {0} /\ q = held - k
      /\ 2 * (held * r) <= 2 * (cost * q) + held
  BY CostRemovedNear
<1> HIDE DEF r, k
<1>2. cost * k \in Nat /\ m * held \in Nat /\ (m * held) * k \in Nat /\ s * k \in Nat /\ s * held \in Nat
      /\ cost * held \in Nat /\ held * r \in Int
  BY <1>1, ProductNat
<1>3. s * k <= s * held
  BY <1>1, ProductMonotone
<1>4. 2 * ((m * held) * k) <= 2 * (cost * k) + s * k
  <2>1. k * (2 * (m * held)) <= k * (2 * cost + s)
    <3>1. 2 * m * held = 2 * (m * held)
      OBVIOUS
    <3> QED BY <1>1, <1>2, <3>1, ProductMonotone
  <2>2. k * (2 * cost + s) = 2 * (cost * k) + s * k
    BY <1>1
  <2>3. k * (2 * (m * held)) = 2 * ((m * held) * k)
    BY <1>1, <1>2
  <2> QED BY <2>1, <2>2, <2>3
<1>5. cost * q = cost * held - cost * k
  BY <1>1
<1>6. held * x = 2 * ((m * held) * k)
  BY <1>1
<1>7. held * y = 2 * (cost * held) - 2 * (held * r) + s * held + held
  BY <1>1
<1>8. held * x <= held * y
  BY <1>1, <1>2, <1>3, <1>4, <1>5, <1>6, <1>7
<1>9. x \in Int /\ y \in Int
  <2>1. m * k \in Nat /\ 2 * m * k = 2 * (m * k)
    BY <1>1, ProductNat
  <2> QED BY <1>1, <2>1
<1>10. x <= y
  <2> HIDE DEF x, y
  <2> QED BY <1>1, <1>8, <1>9, CancelFactor
<1> QED BY <1>10 DEF k, r

\* The amount of a fill over its quantity is its price.
LEMMA UnitPrice ==
    ASSUME NEW u \in Nat, NEW q \in Nat \ {0}
    PROVE  (u * q) \div q = u
<1> DEFINE n == u * q
           x == n \div q
<1>1. n \in Nat /\ n = q * u
  BY ProductNat
<1>2. x \in Int /\ q * x <= n /\ n < q * (x + 1)
  <2> HIDE DEF n
  <2> QED BY <1>1
<1> HIDE DEF n, x
<1>3. x <= u
  BY <1>1, <1>2, CancelFactor
<1>4. ~(x + 1 <= u)
  <2> SUFFICES ASSUME x + 1 <= u PROVE FALSE
    OBVIOUS
  <2>1. x + 1 \in Nat
    <3>1. q * (x + 1) >= 0
      BY <1>1, <1>2
    <3>2. q * 0 <= q * (x + 1)
      BY <1>2, <3>1
    <3> QED BY <1>2, <3>2, CancelFactor
  <2>2. q * (x + 1) <= q * u
    BY <2>1, ProductMonotone
  <2> QED BY <1>1, <1>2, <2>2
<1>5. x = u
  BY <1>2, <1>3, <1>4
<1> QED BY <1>5 DEF x, n

\* A quotient of natural numbers is one.
LEMMA QuotientNat ==
    ASSUME NEW n \in Nat, NEW m \in Nat \ {0}
    PROVE  n \div m \in Nat
<1>1. n < (n + 1) * m
  <2>1. (n + 1) * 1 <= (n + 1) * m
    BY ProductMonotone
  <2> QED BY <2>1
<1>2. n \div m \in 0 .. n
  BY <1>1, DivBelow
<1> QED BY <1>2

\* What AveragePriceHonest says of one position.
AverageOf(held, cost, buys, sales) ==
    /\ held = 0 => cost = 0
    /\ held > 0 =>
         /\ \E o \in buys : 2 * cost <= 2 * (o.amount \div o.quantity) * held + sales
         /\ \E o \in buys : 2 * (o.amount \div o.quantity) * held <= 2 * cost + sales

\* A purchase keeps it so.
LEMMA BuyKeepsAverage ==
    ASSUME NEW held \in Nat, NEW cost \in Nat, NEW sales \in Nat, NEW buys, NEW row,
           NEW u \in Nat, NEW q \in Nat \ {0},
           \A o \in buys : o.amount \in Nat /\ o.quantity \in Nat \ {0},
           AverageOf(held, cost, buys, sales),
           row.amount = u * q, row.quantity = q
    PROVE  AverageOf(held + q, cost + u * q, buys \cup {row}, sales)
<1>1. row.amount \div row.quantity = u
  BY UnitPrice
<1>2. held + q > 0
  OBVIOUS
<1>3. CASE held = 0
  <2>1. cost = 0
    BY <1>3 DEF AverageOf
  <2>2. u * q \in Nat /\ 2 * u * (0 + q) = 2 * (u * q)
    BY ProductNat
  <2>3. /\ 2 * (0 + u * q) <= 2 * u * (0 + q) + sales
        /\ 2 * u * (0 + q) <= 2 * (0 + u * q) + sales
    BY <2>2
  <2> QED BY <1>1, <1>2, <1>3, <2>1, <2>3 DEF AverageOf
<1>4. CASE held > 0
  <2>1. PICK o \in buys : 2 * cost <= 2 * (o.amount \div o.quantity) * held + sales
    BY <1>4 DEF AverageOf
  <2>2. PICK e \in buys : 2 * (e.amount \div e.quantity) * held <= 2 * cost + sales
    BY <1>4 DEF AverageOf
  <2>3. o.amount \div o.quantity \in Nat /\ e.amount \div e.quantity \in Nat
    BY QuotientNat
  <2>4. \/ 2 * (cost + u * q) <= 2 * u * (held + q) + sales
        \/ 2 * (cost + u * q) <= 2 * (o.amount \div o.quantity) * (held + q) + sales
    BY <2>1, <2>3, BuyNearAbove
  <2>5. \/ 2 * u * (held + q) <= 2 * (cost + u * q) + sales
        \/ 2 * (e.amount \div e.quantity) * (held + q) <= 2 * (cost + u * q) + sales
    BY <2>2, <2>3, BuyNearBelow
  <2>6. \E b \in buys \cup {row} :
            2 * (cost + u * q) <= 2 * (b.amount \div b.quantity) * (held + q) + sales
    BY <1>1, <2>4, Zenon
  <2>7. \E b \in buys \cup {row} :
            2 * (b.amount \div b.quantity) * (held + q) <= 2 * (cost + u * q) + sales
    BY <1>1, <2>5, Zenon
  <2>8. held + q # 0
    BY <1>4
  <2> QED BY <2>6, <2>7, <2>8, Zenon DEF AverageOf
<1> QED BY <1>3, <1>4

\* ... and so does a sale, which is one more.
LEMMA SellKeepsAverage ==
    ASSUME NEW held \in Nat, NEW cost \in Nat, NEW sales \in Nat, NEW buys,
           NEW q \in Nat \ {0}, q <= held,
           \A o \in buys : o.amount \in Nat /\ o.quantity \in Nat \ {0},
           AverageOf(held, cost, buys, sales)
    PROVE  AverageOf(held - q,
                     IF held = q THEN 0 ELSE cost - CostRemoved(cost, q, held),
                     buys, sales + 1)
<1>1. CASE held = q
  BY <1>1 DEF AverageOf
<1>2. CASE held # q
  <2>0. held > 0 /\ q < held /\ held - q # 0
    BY <1>2
  <2>1. PICK o \in buys : 2 * cost <= 2 * (o.amount \div o.quantity) * held + sales
    BY <2>0 DEF AverageOf
  <2>2. PICK e \in buys : 2 * (e.amount \div e.quantity) * held <= 2 * cost + sales
    BY <2>0 DEF AverageOf
  <2>3. o.amount \div o.quantity \in Nat /\ e.amount \div e.quantity \in Nat
    BY QuotientNat
  <2>4. 2 * (cost - CostRemoved(cost, q, held))
            <= 2 * (o.amount \div o.quantity) * (held - q) + (sales + 1)
    BY <2>0, <2>1, <2>3, SellNearAbove
  <2>5. 2 * (e.amount \div e.quantity) * (held - q)
            <= 2 * (cost - CostRemoved(cost, q, held)) + (sales + 1)
    BY <2>0, <2>2, <2>3, SellNearBelow
  <2>6. AverageOf(held - q, cost - CostRemoved(cost, q, held), buys, sales + 1)
    BY <2>0, <2>4, <2>5 DEF AverageOf
  <2> QED BY <1>2, <2>6
<1> QED BY <1>1, <1>2

-----------------------------------------------------------------------------
(* The books: what a participant owns is the sum of what happened to him *)

SideOf(rows, p, side) == {o \in Filled(rows) : o.participant = p /\ o.side = side}

CodeOf(rows, p, side, c) == {o \in SideOf(rows, p, side) : o.code = c}

\* BooksBalance of one participant with account a.
Balanced(a, rows, done, p) ==
    /\ a.cash = InitialCash + RewardCash * Cardinality(OwnedBy(done, p))
                  - Total(SideOf(rows, p, "buy")) + Total(SideOf(rows, p, "sell"))
    /\ \A c \in Codes :
          a.quantity[c] = QuantityOf(CodeOf(rows, p, "buy", c))
                            - QuantityOf(CodeOf(rows, p, "sell", c))

\* A row of the orders that is filled counts on its own side, in its own code.
LEMMA RowCounts ==
    ASSUME NEW rows, IsFiniteSet(rows), rows \subseteq OrderRow,
           NEW row \in OrderRow, row \notin rows, row.outcome = "FILLED",
           NEW p, NEW side
    PROVE  /\ Total(SideOf(rows, p, side)) \in Nat
           /\ Total(SideOf(rows \cup {row}, p, side))
                = Total(SideOf(rows, p, side))
                    + (IF row.participant = p /\ row.side = side THEN row.amount ELSE 0)
           /\ \A c \in Codes :
                /\ QuantityOf(CodeOf(rows, p, side, c)) \in Int
                /\ QuantityOf(CodeOf(rows \cup {row}, p, side, c))
                     = QuantityOf(CodeOf(rows, p, side, c))
                         + (IF row.participant = p /\ row.side = side /\ row.code = c
                            THEN row.quantity ELSE 0)
<1>1. \A o \in rows \cup {row} : o.amount \in Nat /\ o.quantity \in Int
  BY QuantitiesAssumption DEF OrderRow
<1>2. /\ IsFiniteSet(SideOf(rows, p, side))
      /\ SideOf(rows, p, side) \subseteq rows
      /\ row \notin SideOf(rows, p, side)
  BY FS_Subset DEF SideOf, Filled
<1>3. /\ Total(SideOf(rows, p, side) \cup {row}) = Total(SideOf(rows, p, side)) + row.amount
      /\ Total(SideOf(rows, p, side)) \in Nat
  <2> DEFINE mine == SideOf(rows, p, side)
  <2>1. \A o \in mine : o.amount \in Nat
    BY <1>1, <1>2
  <2>2. row.amount \in Nat /\ IsFiniteSet(mine) /\ row \notin mine
    BY <1>1, <1>2
  <2> HIDE DEF mine
  <2> QED BY <2>1, <2>2, TotalAdd DEF mine
<1>4. SideOf(rows \cup {row}, p, side)
        = IF row.participant = p /\ row.side = side
          THEN SideOf(rows, p, side) \cup {row} ELSE SideOf(rows, p, side)
  BY DEF SideOf, Filled
<1>5. ASSUME NEW c \in Codes
      PROVE  /\ QuantityOf(CodeOf(rows, p, side, c)) \in Int
             /\ QuantityOf(CodeOf(rows \cup {row}, p, side, c))
                  = QuantityOf(CodeOf(rows, p, side, c))
                      + (IF row.participant = p /\ row.side = side /\ row.code = c
                         THEN row.quantity ELSE 0)
  <2> DEFINE mine == CodeOf(rows, p, side, c)
             now == CodeOf(rows \cup {row}, p, side, c)
  <2>1. IsFiniteSet(mine) /\ row \notin mine
    BY <1>2, FS_Subset DEF CodeOf
  <2>2. \A o \in mine : o.quantity \in Int
    BY <1>1, <1>2 DEF CodeOf
  <2>3. row.quantity \in Int
    BY <1>1
  <2>4. now = IF row.participant = p /\ row.side = side /\ row.code = c
              THEN mine \cup {row} ELSE mine
    BY <1>4 DEF CodeOf
  <2> HIDE DEF mine, now
  <2>5. QuantityOf(mine \cup {row}) = QuantityOf(mine) + row.quantity /\ QuantityOf(mine) \in Int
    BY <2>1, <2>2, <2>3, QuantityAdd
  <2>6. QuantityOf(mine) = QuantityOf(mine) + 0
    BY <2>5
  <2>7. QuantityOf(now) = QuantityOf(mine)
             + (IF row.participant = p /\ row.side = side /\ row.code = c
                THEN row.quantity ELSE 0)
    BY <2>4, <2>5, <2>6
  <2> QED BY <2>5, <2>7 DEF mine, now
<1>6. Total(SideOf(rows \cup {row}, p, side))
        = Total(SideOf(rows, p, side))
            + (IF row.participant = p /\ row.side = side THEN row.amount ELSE 0)
  <2>1. Total(SideOf(rows, p, side)) = Total(SideOf(rows, p, side)) + 0
    BY <1>3
  <2> QED BY <1>3, <1>4, <2>1
<1> QED BY <1>3, <1>5, <1>6

\* A fill writes into the account what it writes into the orders.
LEMMA FillBalances ==
    ASSUME NEW rows, IsFiniteSet(rows), rows \subseteq OrderRow,
           NEW a \in Account, NEW o \in OrderInput, NEW amount \in Nat, NEW row \in OrderRow,
           Affordable(a, o, amount), row \notin rows, row.outcome = "FILLED",
           row.participant = o.participant, row.side = o.side, row.code = o.code,
           row.quantity = o.quantity, row.amount = amount,
           NEW done \in SUBSET Certs, Balanced(a, rows, done, o.participant)
    PROVE  Balanced(Fill(a, o, amount), rows \cup {row}, done, o.participant)
<1> DEFINE p == o.participant
           all == rows \cup {row}
           Bought(c) == QuantityOf(CodeOf(rows, p, "buy", c))
           Sold(c) == QuantityOf(CodeOf(rows, p, "sell", c))
           BoughtNow(c) == QuantityOf(CodeOf(all, p, "buy", c))
           SoldNow(c) == QuantityOf(CodeOf(all, p, "sell", c))
           spent == Total(SideOf(rows, p, "buy"))
           earned == Total(SideOf(rows, p, "sell"))
           wage == RewardCash * Cardinality(OwnedBy(done, p))
<1>0. /\ IsFiniteSet(rows) /\ rows \subseteq OrderRow /\ row \in OrderRow
      /\ row \notin rows /\ row.outcome = "FILLED"
  OBVIOUS
<1>1. /\ spent \in Nat /\ earned \in Nat
      /\ Total(SideOf(all, p, "buy")) = spent + (IF o.side = "buy" THEN amount ELSE 0)
      /\ Total(SideOf(all, p, "sell")) = earned + (IF o.side = "sell" THEN amount ELSE 0)
  <2>1. ASSUME NEW side
        PROVE  /\ Total(SideOf(rows, p, side)) \in Nat
               /\ Total(SideOf(all, p, side)) = Total(SideOf(rows, p, side))
                     + (IF row.participant = p /\ row.side = side THEN row.amount ELSE 0)
    <3>1. row.amount \in Nat
      BY <1>0 DEF OrderRow
    <3> HIDE DEF p
    <3> QED BY <1>0, <3>1, RowCounts
  <2> HIDE DEF p, all
  <2>2. row.participant = p
    BY DEF p
  <2> QED BY <2>1, <2>2
<1>2. \A c \in Codes :
        /\ Bought(c) \in Int /\ Sold(c) \in Int
        /\ BoughtNow(c) = Bought(c) + (IF o.side = "buy" /\ o.code = c THEN o.quantity ELSE 0)
        /\ SoldNow(c) = Sold(c) + (IF o.side = "sell" /\ o.code = c THEN o.quantity ELSE 0)
  <2>1. ASSUME NEW side, NEW c \in Codes
        PROVE  /\ QuantityOf(CodeOf(rows, p, side, c)) \in Int
               /\ QuantityOf(CodeOf(all, p, side, c))
                    = QuantityOf(CodeOf(rows, p, side, c))
                        + (IF row.participant = p /\ row.side = side /\ row.code = c
                           THEN row.quantity ELSE 0)
    BY <1>0, RowCounts
  <2> HIDE DEF p, all
  <2>2. row.participant = p
    BY DEF p
  <2> QED BY <2>1, <2>2
<1>3. wage \in Nat /\ InitialCash \in Nat
  <2>1. IsFiniteSet(OwnedBy(done, p))
    BY CertsAssumption, FS_Subset DEF OwnedBy
  <2> QED BY <2>1, FS_CardinalityType, MoneyAssumption, ProductNat
<1>4. /\ a.cash = InitialCash + wage - spent + earned
      /\ \A c \in Codes : a.quantity[c] = Bought(c) - Sold(c)
  BY DEF Balanced
<1>5. /\ a.cash \in Nat /\ a.quantity \in [Codes -> Nat]
      /\ o.code \in Codes /\ o.quantity \in Nat \ {0} /\ o.side \in {"buy", "sell"}
  BY DEF Affordable, Account, OrderInput
<1> DEFINE b == Fill(a, o, amount)
<1>6. CASE o.side = "buy"
  <2>1. /\ b.cash = a.cash - amount
        /\ b.quantity = [a.quantity EXCEPT ![o.code] = @ + o.quantity]
    BY <1>6 DEF Fill, Buy
  <2>2. b.cash = InitialCash + wage - Total(SideOf(all, p, "buy")) + Total(SideOf(all, p, "sell"))
    <3> HIDE DEF b, spent, earned, wage, p, all
    <3> QED BY <1>1, <1>3, <1>4, <1>5, <1>6, <2>1
  <2>3. \A c \in Codes : b.quantity[c] = BoughtNow(c) - SoldNow(c)
    <3> HIDE DEF b, Bought, Sold, BoughtNow, SoldNow, p, all
    <3> QED BY <1>2, <1>4, <1>5, <1>6, <2>1
  <2> QED BY <2>2, <2>3 DEF Balanced
<1>7. CASE o.side = "sell"
  <2>1. /\ b.cash = a.cash + amount
        /\ b.quantity = [a.quantity EXCEPT ![o.code] = @ - o.quantity]
    BY <1>7 DEF Fill, Sell
  <2>2. b.cash = InitialCash + wage - Total(SideOf(all, p, "buy")) + Total(SideOf(all, p, "sell"))
    <3> HIDE DEF b, spent, earned, wage, p, all
    <3> QED BY <1>1, <1>3, <1>4, <1>5, <1>7, <2>1
  <2>3. \A c \in Codes : b.quantity[c] = BoughtNow(c) - SoldNow(c)
    <3> HIDE DEF b, Bought, Sold, BoughtNow, SoldNow, p, all
    <3> QED BY <1>2, <1>4, <1>5, <1>7, <2>1
  <2> QED BY <2>2, <2>3 DEF Balanced
<1> QED BY <1>5, <1>6, <1>7

\* Orders of others, and refused ones, do not touch a participant's books.
LEMMA OthersBalance ==
    ASSUME NEW rows, NEW row, NEW p, row.outcome # "FILLED" \/ row.participant # p,
           NEW a, NEW done, Balanced(a, rows, done, p)
    PROVE  Balanced(a, rows \cup {row}, done, p)
<1>1. \A side : SideOf(rows \cup {row}, p, side) = SideOf(rows, p, side)
  BY DEF SideOf, Filled
<1> QED BY <1>1 DEF Balanced, CodeOf

\* The rewards of certifications not paid before.
LEMMA RewardBalances ==
    ASSUME NEW rows, IsFiniteSet(rows), rows \subseteq OrderRow, NEW p,
           NEW a \in Account, NEW done \in SUBSET Certs, NEW S \in SUBSET (Certs \ done),
           Balanced(a, rows, done, p)
    PROVE  Balanced(Rewarded(a, OwnedBy(S, p)), rows, done \cup S, p)
<1> DEFINE before == OwnedBy(done, p)
           added == OwnedBy(S, p)
           b == Rewarded(a, added)
           spent == Total(SideOf(rows, p, "buy"))
           earned == Total(SideOf(rows, p, "sell"))
<1>1. IsFiniteSet(before) /\ IsFiniteSet(added) /\ before \cap added = {}
  BY CertsAssumption, FS_Subset DEF OwnedBy
<1>2. OwnedBy(done \cup S, p) = before \cup added
  BY DEF OwnedBy
<1>3. /\ Cardinality(before \cup added) = Cardinality(before) + Cardinality(added)
      /\ Cardinality(before) \in Nat /\ Cardinality(added) \in Nat
  <2> HIDE DEF before, added
  <2>1. Cardinality(before \cup added)
          = Cardinality(before) + Cardinality(added) - Cardinality(before \cap added)
    BY <1>1, FS_Union
  <2>2. Cardinality(before \cap added) = 0
    BY <1>1, FS_EmptySet
  <2> QED BY <1>1, <2>1, <2>2, FS_CardinalityType
<1>4. RewardCash * (Cardinality(before) + Cardinality(added))
        = RewardCash * Cardinality(before) + RewardCash * Cardinality(added)
  BY <1>3, MoneyAssumption
<1>5. b.cash = a.cash + RewardCash * Cardinality(added) /\ b.quantity = a.quantity
  BY DEF Rewarded, Account
<1>6. a.cash = InitialCash + RewardCash * Cardinality(before) - spent + earned
  BY DEF Balanced
<1>7. spent \in Int /\ earned \in Int
  <2>1. \A side : IsFiniteSet(SideOf(rows, p, side)) /\ SideOf(rows, p, side) \subseteq rows
    BY FS_Subset DEF SideOf, Filled
  <2>2. \A o \in rows : o.amount \in Nat
    BY DEF OrderRow
  <2> QED BY <2>1, <2>2, TotalNat
<1>8. /\ RewardCash * Cardinality(before) \in Nat /\ RewardCash * Cardinality(added) \in Nat
      /\ InitialCash \in Nat
  BY <1>3, MoneyAssumption, ProductNat
<1>9. b.cash = InitialCash + RewardCash * Cardinality(before \cup added) - spent + earned
  <2> HIDE DEF b, before, added, spent, earned
  <2> QED BY <1>3, <1>4, <1>5, <1>6, <1>7, <1>8
<1> QED BY <1>2, <1>5, <1>9 DEF Balanced

-----------------------------------------------------------------------------
(* The daily limit: what was bought in a day against what is owned *)

\* What the positions of an account are worth.
Value(a, prices) == [c \in Codes |-> a.quantity[c] * prices[c]]

LEMMA WorthIsSum ==
    ASSUME NEW a \in Account, NEW prices \in [Codes -> Nat]
    PROVE  /\ Value(a, prices) \in [Codes -> Nat]
           /\ Worth(a, prices) = a.cash + SumOver(Value(a, prices), Codes)
           /\ Worth(a, prices) \in Nat
<1> DEFINE f == Value(a, prices)
           Sums(h) == h = [s \in SUBSET Codes |->
              IF s = {} THEN 0
              ELSE a.quantity[CHOOSE x \in s : TRUE] * prices[CHOOSE x \in s : TRUE]
                     + h[s \ {CHOOSE x \in s : TRUE}]]
           chosen == CHOOSE h : Sums(h)
<1>1. f \in [Codes -> Nat] /\ f \in [Codes -> Int]
  <2>1. \A c \in Codes : a.quantity[c] \in Nat /\ prices[c] \in Nat
    BY DEF Account
  <2>2. \A c \in Codes : a.quantity[c] * prices[c] \in Nat
    BY <2>1, ProductNat
  <2> QED BY <2>2 DEF Value
<1>2. IsFiniteSet(Codes)
  BY CodesAssumption
<1>3. PICK g : Accumulates(g, f, Codes) /\ SumOver(f, Codes) = g[Codes]
  BY <1>1, <1>2, SumOverIs
<1>4. ASSUME NEW h PROVE Sums(h) <=> Accumulates(h, f, Codes)
  <2>1. \A s \in SUBSET Codes : s # {} =>
          f[CHOOSE x \in s : TRUE]
            = a.quantity[CHOOSE x \in s : TRUE] * prices[CHOOSE x \in s : TRUE]
    BY DEF Value
  <2>2. [s \in SUBSET Codes |->
              IF s = {} THEN 0
              ELSE a.quantity[CHOOSE x \in s : TRUE] * prices[CHOOSE x \in s : TRUE]
                     + h[s \ {CHOOSE x \in s : TRUE}]]
        = [s \in SUBSET Codes |->
              IF s = {} THEN 0
              ELSE f[CHOOSE x \in s : TRUE] + h[s \ {CHOOSE x \in s : TRUE}]]
    BY <2>1
  <2> QED BY <2>2 DEF Accumulates
<1>5. Worth(a, prices) = a.cash + chosen[Codes]
  BY DEF Worth, MapThenSumSet, MapThenFoldSet
<1> HIDE DEF f
<1>6. Accumulates(chosen, f, Codes)
  <2> HIDE DEF Sums
  <2> QED BY <1>3, <1>4
<1> HIDE DEF chosen
<1>7. chosen[Codes] = g[Codes]
  BY <1>2, <1>3, <1>6, AccumulatorsAgree
<1>8. SumOver(f, Codes) \in Nat
  BY <1>1, <1>2, SumType
<1>9. a.cash \in Nat
  BY DEF Account
<1> QED BY <1>1, <1>3, <1>5, <1>7, <1>8, <1>9 DEF f

\* A fill at the price of the day moves money between cash and a position: what
\* the account is worth at that price is the same afterwards.
LEMMA FillKeepsWorth ==
    ASSUME NEW a \in Account, NEW o \in OrderInput, NEW prices \in [Codes -> Nat],
           Affordable(a, o, prices[o.code] * o.quantity)
    PROVE  Worth(Fill(a, o, prices[o.code] * o.quantity), prices) = Worth(a, prices)
<1> DEFINE k == o.code
           q == o.quantity
           u == prices[k]
           b == Fill(a, o, u * q)
           rest == Codes \ {k}
           f == Value(a, prices)
           h == Value(b, prices)
           f0 == [c \in rest |-> f[c]]
<1>1. /\ k \in Codes /\ q \in Nat /\ u \in Nat /\ u * q \in Nat
      /\ o.side \in {"buy", "sell"}
      /\ a.cash \in Nat /\ a.quantity \in [Codes -> Nat]
  BY ProductNat DEF Affordable, Account, OrderInput
<1>2. b \in Account
  BY <1>1, FillKeepsAccount
<1>3. /\ f \in [Codes -> Nat] /\ Worth(a, prices) = a.cash + SumOver(f, Codes)
      /\ h \in [Codes -> Nat] /\ Worth(b, prices) = b.cash + SumOver(h, Codes)
  BY <1>2, WorthIsSum
<1>4. IsFiniteSet(rest) /\ k \notin rest /\ Codes = rest \cup {k}
  BY <1>1, CodesAssumption, FS_Subset
<1>5. \A c \in rest : b.quantity[c] = a.quantity[c]
  <2> HIDE DEF u
  <2> QED BY <1>1 DEF Fill, Buy, Sell
<1>6. \A c \in rest : h[c] = f[c]
  <2> HIDE DEF b
  <2> QED BY <1>5 DEF Value
<1>7. f[k] = a.quantity[k] * u /\ h[k] = b.quantity[k] * u
  <2> HIDE DEF b
  <2> QED BY <1>1 DEF Value
<1> HIDE DEF f, h
<1>8. f0 \in [rest -> Int] /\ \A c \in rest : f0[c] = f[c] /\ f0[c] = h[c]
  BY <1>3, <1>6
<1> HIDE DEF f0, rest
<1>9. SumOver(f, Codes) = SumOver(f0, rest) + f[k]
  BY <1>3, <1>4, <1>8, SumAdd
<1>10. SumOver(h, Codes) = SumOver(f0, rest) + h[k]
  BY <1>3, <1>4, <1>8, SumAdd
<1>11. SumOver(f0, rest) \in Int
  BY <1>4, <1>8, SumType
<1>12. a.quantity[k] \in Nat /\ a.quantity[k] * u \in Nat
  BY <1>1, ProductNat
<1>13. CASE o.side = "buy"
  <2>1. b.cash = a.cash - u * q /\ b.quantity[k] = a.quantity[k] + q
    <3> HIDE DEF u
    <3> QED BY <1>1, <1>13 DEF Fill, Buy
  <2>2. (a.quantity[k] + q) * u = a.quantity[k] * u + u * q
    <3> HIDE DEF u, q
    <3> QED BY <1>1, <1>12
  <2> HIDE DEF b, u, q, k
  <2> QED BY <1>1, <1>3, <1>7, <1>9, <1>10, <1>11, <1>12, <2>1, <2>2 DEF b, u, q, k
<1>14. CASE o.side = "sell"
  <2>1. b.cash = a.cash + u * q /\ b.quantity[k] = a.quantity[k] - q
    <3> HIDE DEF u
    <3> QED BY <1>1, <1>14 DEF Fill, Sell
  <2>2. (a.quantity[k] - q) * u = a.quantity[k] * u - u * q
    <3> HIDE DEF u, q
    <3> QED BY <1>1, <1>12
  <2> HIDE DEF b, u, q, k
  <2> QED BY <1>1, <1>3, <1>7, <1>9, <1>10, <1>11, <1>12, <2>1, <2>2 DEF b, u, q, k
<1> QED BY <1>1, <1>13, <1>14

\* The limit is never below nothing.
LEMMA NothingWithinLimit ==
    ASSUME NEW w \in Nat
    PROVE  /\ (LimitNum * w) \div LimitDen \in Nat
           /\ ~OverLimit(0, w)
<1>1. LimitNum * w \in Nat
  BY LimitAssumption, ProductNat
<1>2. (LimitNum * w) \div LimitDen \in Nat
  BY <1>1, LimitAssumption, QuotientNat
<1>3. ~(0 > (LimitNum * w) \div LimitDen)
  BY <1>2
<1> QED BY <1>2, <1>3 DEF OverLimit

\* What one order more adds to the purchases of a day.
LEMMA BoughtAdd ==
    ASSUME NEW rows, IsFiniteSet(rows), rows \subseteq OrderRow,
           NEW row \in OrderRow, row \notin rows, NEW p, NEW c, NEW d
    PROVE  /\ BoughtOn(rows, p, c, d) \in Nat
           /\ LET counts == /\ row.outcome = "FILLED" /\ row.participant = p
                            /\ row.code = c /\ row.side = "buy" /\ row.day = d
              IN  /\ counts => BoughtOn(rows \cup {row}, p, c, d)
                                 = BoughtOn(rows, p, c, d) + row.amount
                  /\ ~counts => BoughtOn(rows \cup {row}, p, c, d) = BoughtOn(rows, p, c, d)
<1> DEFINE Bought(all) == {o \in Filled(all) : /\ o.participant = p
                                               /\ o.code = c
                                               /\ o.side = "buy"
                                               /\ o.day = d}
           mine == Bought(rows)
           now == Bought(rows \cup {row})
           counts == /\ row.outcome = "FILLED" /\ row.participant = p
                     /\ row.code = c /\ row.side = "buy" /\ row.day = d
<1>1. IsFiniteSet(mine) /\ row \notin mine
  BY FS_Subset DEF Filled
<1>2. /\ \A o \in mine : o.amount \in Nat
      /\ row.amount \in Nat
  BY DEF OrderRow, Filled
<1>3. now = IF counts THEN mine \cup {row} ELSE mine
  BY DEF Filled
<1>4. BoughtOn(rows, p, c, d) = Total(mine) /\ BoughtOn(rows \cup {row}, p, c, d) = Total(now)
  BY DEF BoughtOn
<1> HIDE DEF mine, now, counts
<1>5. Total(mine \cup {row}) = Total(mine) + row.amount /\ Total(mine) \in Nat
  BY <1>1, <1>2, TotalAdd
<1>6. /\ counts => Total(now) = Total(mine) + row.amount
      /\ ~counts => Total(now) = Total(mine)
  BY <1>3, <1>5
<1> QED BY <1>4, <1>5, <1>6 DEF counts

\* Nothing has been bought on a day that no filled order is of.
LEMMA BoughtNothing ==
    ASSUME NEW rows, NEW d, \A o \in Filled(rows) : o.day # d, NEW p, NEW c
    PROVE  BoughtOn(rows, p, c, d) = 0
<1>1. {o \in Filled(rows) : /\ o.participant = p
                            /\ o.code = c
                            /\ o.side = "buy"
                            /\ o.day = d} = {}
  OBVIOUS
<1> QED BY <1>1, TotalEmpty DEF BoughtOn

-----------------------------------------------------------------------------
(* The state the books are in, and what each transaction makes of it *)

\* On the last day that opened, purchases are within the limit of what is owned now.
WithinLimits(accounts, rows, mday, price) ==
    \A d \in Opened(mday) :
        (\A e \in Opened(mday) : e <= d) =>
            \A p \in Participants, c \in Codes :
                ~OverLimit(BoughtOn(rows, p, c, d), Worth(accounts[p], price[d]))

\* Fills are of days that have opened, and the books balance.
BooksSound(accounts, rows, mday, price, done) ==
    /\ IsFiniteSet(rows)
    /\ \A o \in Filled(rows) : o.day \in Opened(mday)
    /\ \A p \in Participants : Balanced(accounts[p], rows, done, p)
    /\ WithinLimits(accounts, rows, mday, price)

\* Before the event nothing is owed to anybody.
LEMMA BooksSoundAtFirst ==
    ASSUME NEW mday, Opened(mday) = {}, NEW price
    PROVE  BooksSound([p \in Participants |-> OpeningAccount], {}, mday, price, {})
<1>1. IsFiniteSet({})
  BY FS_EmptySet
<1>2. \A p, side, c : SideOf({}, p, side) = {} /\ CodeOf({}, p, side, c) = {}
  BY DEF SideOf, CodeOf, Filled
<1>3. \A p : OwnedBy({}, p) = {}
  BY DEF OwnedBy
<1>4. RewardCash * Cardinality({}) = 0
  BY FS_EmptySet, MoneyAssumption
<1>5. InitialCash = InitialCash + 0 - 0 + 0 /\ 0 = 0 - 0
  BY MoneyAssumption
<1>6. ASSUME NEW p \in Participants PROVE Balanced(OpeningAccount, {}, {}, p)
  <2>1. OpeningAccount.cash = InitialCash /\ \A c \in Codes : OpeningAccount.quantity[c] = 0
    BY DEF OpeningAccount
  <2> QED BY <1>2, <1>3, <1>4, <1>5, <2>1, TotalEmpty, QuantityEmpty DEF Balanced
<1>7. Filled({}) = {}
  BY DEF Filled
<1> QED BY <1>1, <1>6, <1>7 DEF BooksSound, WithinLimits

\* A fill on the day the market is in keeps the books and the limits.
LEMMA FillKeepsBooks ==
    ASSUME NEW accounts \in [Participants -> Account], NEW rows, rows \subseteq OrderRow,
           NEW mday, NEW price \in [Days -> [Codes -> Nat]], NEW done \in SUBSET Certs,
           BooksSound(accounts, rows, mday, price, done),
           NEW r \in Requests, \A o \in rows : o.id # r, NEW o \in OrderInput,
           NEW d \in Opened(mday), \A e \in Opened(mday) : e <= d,
           NEW standingThen, NEW open, LocalVerdict(o, standingThen, open) = "PASS",
           TradeVerdict(o, accounts[o.participant], price[d],
                        BoughtOn(rows, o.participant, o.code, d)) = "FILLED",
           NEW amount, amount = price[d][o.code] * o.quantity
    PROVE  BooksSound([accounts EXCEPT ![o.participant] = Fill(@, o, amount)],
                      rows \cup {Row(r, o, d, amount, "FILLED")}, mday, price, done)
<1> DEFINE p == o.participant
           a == accounts[p]
           row == Row(r, o, d, amount, "FILLED")
           all == rows \cup {row}
           after == [accounts EXCEPT ![p] = Fill(@, o, amount)]
<1>1. /\ p \in Participants /\ a \in Account /\ d \in Days /\ d \in Nat
      /\ price[d] \in [Codes -> Nat]
  BY DaysAssumption DEF OrderInput, Opened, Days
<1>2. amount \in Nat /\ Affordable(a, o, amount)
  BY <1>1, FilledIsAffordable
<1>3. /\ row.outcome = "FILLED" /\ row.participant = p /\ row.side = o.side
      /\ row.code = o.code /\ row.quantity = o.quantity /\ row.amount = amount
      /\ row.day = d /\ row.id = r
  BY DEF Row
<1>4. row \in OrderRow /\ row \notin rows
  <2>1. row \in OrderRow
    BY <1>1, <1>2 DEF Row, OrderRow, OrderInput
  <2> QED BY <1>3, <2>1
<1>5. IsFiniteSet(rows) /\ IsFiniteSet(all)
  BY FS_AddElement DEF BooksSound
<1>6. after[p] = Fill(a, o, amount) /\ \A x \in Participants : x # p => after[x] = accounts[x]
  BY <1>1
<1> HIDE DEF row, after
<1>7. \A x \in Filled(all) : x.day \in Opened(mday)
  BY <1>3 DEF BooksSound, Filled
<1>8. ASSUME NEW x \in Participants PROVE Balanced(after[x], all, done, x)
  <2>1. Balanced(accounts[x], rows, done, x)
    BY DEF BooksSound
  <2>2. CASE x = p
    <3>1. Balanced(a, rows, done, p)
      BY <2>1, <2>2
    <3>2. rows \subseteq OrderRow /\ done \in SUBSET Certs
      OBVIOUS
    <3>3. Balanced(Fill(a, o, amount), rows \cup {row}, done, p)
      BY <1>1, <1>2, <1>3, <1>4, <1>5, <3>1, <3>2, FillBalances
    <3> QED BY <1>6, <2>2, <3>3
  <2>3. CASE x # p
    BY <1>3, <1>6, <2>1, <2>3, OthersBalance
  <2> QED BY <2>2, <2>3
<1>9. Worth(after[p], price[d]) = Worth(a, price[d])
  BY <1>1, <1>2, <1>6, FillKeepsWorth
<1>10. ASSUME NEW x \in Participants, NEW c \in Codes
       PROVE  ~OverLimit(BoughtOn(all, x, c, d), Worth(after[x], price[d]))
  <2>1. ~OverLimit(BoughtOn(rows, x, c, d), Worth(accounts[x], price[d]))
    BY DEF BooksSound, WithinLimits
  <2>2. rows \subseteq OrderRow
    OBVIOUS
  <2>3. CASE x = p /\ c = o.code /\ o.side = "buy"
    <3>1. BuyVerdict(o, a, price[d], BoughtOn(rows, p, o.code, d)) = "FILLED"
      BY <2>3 DEF TradeVerdict
    <3>2. ~OverLimit(BoughtOn(rows, p, o.code, d) + amount, Worth(a, price[d]))
      BY <3>1 DEF BuyVerdict
    <3>3. BoughtOn(all, x, c, d) = BoughtOn(rows, x, c, d) + amount
      BY <1>3, <1>4, <1>5, <2>2, <2>3, BoughtAdd
    <3> QED BY <1>9, <2>3, <3>2, <3>3
  <2>4. CASE ~(x = p /\ c = o.code /\ o.side = "buy")
    <3>1. BoughtOn(all, x, c, d) = BoughtOn(rows, x, c, d)
      BY <1>3, <1>4, <1>5, <2>2, <2>4, BoughtAdd
    <3>2. Worth(after[x], price[d]) = Worth(accounts[x], price[d])
      BY <1>6, <1>9
    <3> QED BY <2>1, <3>1, <3>2
  <2> QED BY <2>3, <2>4
<1>11. \A e \in Opened(mday) : (\A f \in Opened(mday) : f <= e) => e = d
  <2>1. \A e \in Opened(mday) : e \in Nat
    BY DaysAssumption DEF Opened, Days
  <2> QED BY <1>1, <2>1
<1>12. WithinLimits(after, all, mday, price)
  BY <1>10, <1>11 DEF WithinLimits
<1> QED BY <1>5, <1>7, <1>8, <1>12 DEF BooksSound, row, after

\* A refusal leaves a row behind and nothing else.
LEMMA RefusalKeepsBooks ==
    ASSUME NEW accounts, NEW rows, NEW mday, NEW price, NEW done,
           BooksSound(accounts, rows, mday, price, done), NEW row, row.outcome # "FILLED"
    PROVE  BooksSound(accounts, rows \cup {row}, mday, price, done)
<1>1. IsFiniteSet(rows \cup {row})
  BY FS_AddElement DEF BooksSound
<1>2. Filled(rows \cup {row}) = Filled(rows)
  BY DEF Filled
<1>3. \A p \in Participants : Balanced(accounts[p], rows \cup {row}, done, p)
  BY OthersBalance DEF BooksSound
<1>4. \A p, c, d : BoughtOn(rows \cup {row}, p, c, d) = BoughtOn(rows, p, c, d)
  BY <1>2 DEF BoughtOn
<1> QED BY <1>1, <1>2, <1>3, <1>4 DEF BooksSound, WithinLimits

\* A settlement writes prices of days that have not opened.
LEMMA SettlementKeepsBooks ==
    ASSUME NEW accounts, NEW rows, NEW mday, NEW price, NEW done,
           BooksSound(accounts, rows, mday, price, done),
           NEW mdayNow, NEW priceNow, Opened(mdayNow) = Opened(mday),
           \A d \in Opened(mday) : priceNow[d] = price[d]
    PROVE  BooksSound(accounts, rows, mdayNow, priceNow, done)
BY DEF BooksSound, WithinLimits

\* An opening pays rewards, and nothing has been bought on the new day yet.
LEMMA OpeningKeepsBooks ==
    ASSUME NEW accounts \in [Participants -> Account], NEW rows, rows \subseteq OrderRow,
           NEW mday, NEW price, NEW done \in SUBSET Certs,
           BooksSound(accounts, rows, mday, price, done),
           NEW d \in Days, \A e \in Opened(mday) : e < d,
           NEW mdayNow, Opened(mdayNow) = Opened(mday) \cup {d},
           NEW priceNow, priceNow[d] \in [Codes -> Nat],
           NEW S \in SUBSET (Certs \ done)
    PROVE  BooksSound([p \in Participants |-> Rewarded(accounts[p], OwnedBy(S, p))],
                      rows, mdayNow, priceNow, done \cup S)
<1> DEFINE after == [p \in Participants |-> Rewarded(accounts[p], OwnedBy(S, p))]
<1>1. ASSUME NEW p \in Participants
      PROVE  after[p] \in Account /\ Balanced(after[p], rows, done \cup S, p)
  <2>1. accounts[p] \in Account /\ OwnedBy(S, p) \in SUBSET Certs
    BY DEF OwnedBy
  <2>2. Balanced(accounts[p], rows, done, p) /\ IsFiniteSet(rows)
    BY DEF BooksSound
  <2>3. Balanced(Rewarded(accounts[p], OwnedBy(S, p)), rows, done \cup S, p)
    BY <2>1, <2>2, RewardBalances
  <2> QED BY <2>1, <2>3, RewardedKeepsAccount
<1>2. \A e \in Opened(mday) : e \in Nat
  BY DaysAssumption DEF Opened, Days
<1>3. d \in Nat /\ d \notin Opened(mday)
  BY <1>2, DaysAssumption DEF Days
<1>4. \A e \in Opened(mdayNow) : (\A f \in Opened(mdayNow) : f <= e) => e = d
  BY <1>2, <1>3
<1>5. \A o \in Filled(rows) : o.day \in Opened(mday)
  BY DEF BooksSound
<1> HIDE DEF after
<1>6. ASSUME NEW p \in Participants, NEW c \in Codes
      PROVE  ~OverLimit(BoughtOn(rows, p, c, d), Worth(after[p], priceNow[d]))
  <2>1. BoughtOn(rows, p, c, d) = 0
    BY <1>3, <1>5, BoughtNothing
  <2>2. Worth(after[p], priceNow[d]) \in Nat
    BY <1>1, WorthIsSum
  <2> QED BY <2>1, <2>2, NothingWithinLimit
<1>7. WithinLimits(after, rows, mdayNow, priceNow)
  BY <1>4, <1>6 DEF WithinLimits
<1> QED BY <1>1, <1>5, <1>7 DEF BooksSound, after
=============================================================================
