------------------------ MODULE Administration_proofs ------------------------
(***************************************************************************)
(* Theorems about the administration (MCAdministration): prices and holds  *)
(* (Pricing), operators and their staff (Tenancy), hubs, tariffs and tax   *)
(* profiles (HubConfiguration), for any sets of them, any number of        *)
(* requests in flight and any schedules, prices and taxes.  Each part has  *)
(* an inductive invariant of its own; what requests hold and remember is a *)
(* part of it.                                                             *)
(***************************************************************************)
EXTENDS MCAdministration, FiniteSetTheorems, SequenceTheorems, NaturalsInduction,
        WellFoundedInduction, TLAPS

-----------------------------------------------------------------------------
(* Prices. *)

\* The facts about the constants that each part uses.
LEMMA PricingConstants ==
  /\ PerUnit \in Nat /\ PerUnit > 0 /\ PriceScale \in Nat /\ PriceScale > 0
  /\ Precision \in Nat /\ Precision > 0
  /\ Minimum \in Nat /\ LimitValues \subseteq Nat /\ Readings \subseteq Nat
  /\ Prices \subseteq Nat /\ TaxRates \subseteq Nat
  /\ Balances \subseteq Nat /\ Buffers \subseteq Nat
  BY PricingAssumption

\* The greatest member of a set that has one is its maximum.
LEMMA GreatestIsMax ==
  ASSUME NEW S \in SUBSET Nat, NEW g \in S, \A n \in S : n <= g
  PROVE  Max(S) = g
  <1>1. \A y \in S : g >= y
    OBVIOUS
  <1>2. Max(S) \in S /\ \A y \in S : Max(S) >= y
    BY <1>1 DEF Max
  <1> DEFINE m == Max(S)
  <1>3. m \in S /\ m >= g
    BY <1>2
  <1> HIDE DEF m
  <1>4. m \in Nat /\ m <= g
    BY <1>3
  <1> QED
    BY <1>3, <1>4 DEF m

\* A set of natural numbers below a bound, 0 among them, has a maximum.
LEMMA MaxExists ==
  ASSUME NEW n \in Nat, NEW S \in SUBSET (0 .. n), 0 \in S
  PROVE  Max(S) \in S
  <1> DEFINE Above == {m \in Nat : \A x \in S : x <= m}
  <1>1. n \in Above
    OBVIOUS
  <1>2. PICK m \in Above : \A k \in Above : ~(<<k, m>> \in OpToRel(<, Nat))
    <2>1. Above \subseteq Nat /\ Above # {}
      BY <1>1
    <2> QED
      BY <2>1, NatLessThanWellFounded, WFMin, Zenon
  <1>3. m \in S
    <2> SUFFICES ASSUME m \notin S PROVE FALSE
      OBVIOUS
    <2>1. m \in Nat /\ \A x \in S : x <= m
      BY <1>2
    <2>2. m # 0
      OBVIOUS
    <2>3. m - 1 \in Nat /\ \A x \in S : x <= m - 1
      BY <2>1, <2>2
    <2>4. m - 1 \in Above
      BY <2>3
    <2>5. <<m - 1, m>> \in OpToRel(<, Nat)
      BY <2>1, <2>3 DEF OpToRel
    <2> QED
      BY <1>2, <2>4, <2>5
  <1>4. S \subseteq Nat
    OBVIOUS
  <1>5. \A x \in S : x <= m
    BY <1>2
  <1> HIDE DEF Above
  <1> QED
    BY <1>3, <1>4, <1>5, GreatestIsMax

\* Division by a positive number keeps the order.
LEMMA DivMonotone ==
  ASSUME NEW a \in Nat, NEW b \in Nat, NEW c \in Nat, c > 0, a <= b
  PROVE  a \div c \in Nat /\ a \div c <= b \div c
  <1>1. /\ a \div c \in Int /\ c * (a \div c) <= a /\ a < c * (a \div c) + c
        /\ b \div c \in Int /\ c * (b \div c) <= b /\ b < c * (b \div c) + c
    OBVIOUS
  <1> DEFINE p == a \div c
             q == b \div c
  <1>2. p \in Int /\ q \in Int /\ c * p <= b /\ b < c * q + c /\ a < c * p + c /\ a >= 0
    BY <1>1
  <1> HIDE DEF p, q
  <1>3. p <= q
    <2> SUFFICES ASSUME p > q PROVE FALSE
      BY <1>2
    <2>1. c * p >= c * (q + 1)
      BY <1>2
    <2> QED
      BY <1>2, <2>1
  <1>4. p >= 0
    <2> SUFFICES ASSUME p < 0 PROVE FALSE
      BY <1>2
    <2>1. c * p <= -c
      BY <1>2
    <2> QED
      BY <1>2, <2>1
  <1> QED
    BY <1>2, <1>3, <1>4 DEF p, q

\* Rounding keeps the order, and nothing is rounded to nothing.
LEMMA RoundedMonotone ==
  ASSUME NEW m \in Nat, NEW n \in Nat, NEW d \in Nat, d > 0, m <= n
  PROVE  Sale!Rounded(m, d) \in Nat /\ Sale!Rounded(m, d) <= Sale!Rounded(n, d)
  <1>1. 2 * m + d \in Nat /\ 2 * n + d \in Nat /\ 2 * d \in Nat /\ 2 * d > 0
        /\ 2 * m + d <= 2 * n + d
    OBVIOUS
  <1> QED
    BY <1>1, DivMonotone DEF Sale!Rounded

\* Nothing is rounded to nothing.
LEMMA RoundedZero ==
  ASSUME NEW d \in Nat, d > 0
  PROVE  Sale!Rounded(0, d) = 0
  <1>1. Sale!Rounded(0, d) = d \div (2 * d)
    BY DEF Sale!Rounded
  <1>2. d \div (2 * d) \in Int /\ (2 * d) * (d \div (2 * d)) <= d
        /\ d < (2 * d) * (d \div (2 * d)) + 2 * d
    OBVIOUS
  <1> QED
    BY <1>1, <1>2

\* What the parts of an amount add up to is a positive number.
LEMMA ScalePositive ==
  /\ PerUnit * Precision * 100 * PriceScale \in Nat
  /\ PerUnit * Precision * 100 * PriceScale > 0
  <1>1. PerUnit * Precision \in Nat /\ PerUnit * Precision > 0
    BY PricingConstants
  <1> DEFINE m == PerUnit * Precision
  <1> HIDE DEF m
  <1>2. m * 100 * PriceScale \in Nat /\ m * 100 * PriceScale > 0
    BY <1>1, PricingConstants DEF m
  <1> QED
    BY <1>2 DEF m

\* Quotients, and with them what is billed, keep the order.
LEMMA DividedMonotone ==
  ASSUME NEW m \in Nat, NEW n \in Nat, NEW d \in Nat, d > 0, m <= n
  PROVE  Sale!Divided(m, d) \in Nat /\ Sale!Divided(m, d) <= Sale!Divided(n, d)
  <1>1. m * Precision \in Nat /\ n * Precision \in Nat /\ m * Precision <= n * Precision
    BY PricingConstants
  <1> QED
    BY <1>1, RoundedMonotone DEF Sale!Divided

LEMMA BilledMonotone ==
  ASSUME NEW t \in Sale!PricedTariffs, NEW p \in Nat, NEW q \in Nat, p <= q
  PROVE  /\ Sale!Billed(t, p, p) \in Nat /\ Sale!Billed(t, q, q) \in Nat
         /\ Sale!Billed(t, p, p) <= Sale!Billed(t, q, q)
  <1>1. t.price \in Nat /\ t.kind \in {"ENERGY", "TIME", "SESSION"}
    BY PricingConstants DEF Sale!PricedTariffs, Sale!Kinds, Sale!BilledByMeasure
  <1>2. ASSUME NEW a \in Nat, NEW b \in Nat, NEW c \in Nat, a <= b
        PROVE  /\ t.price * a * c \in Nat /\ t.price * b * c \in Nat
               /\ t.price * a * c <= t.price * b * c
    <2>1. /\ t.price * a \in Nat /\ t.price * b \in Nat
          /\ t.price * a <= t.price * b
      BY <1>1, <1>2
    <2> DEFINE m == t.price * a
               n == t.price * b
    <2> HIDE DEF m, n
    <2>2. m * c \in Nat /\ n * c \in Nat /\ m * c <= n * c
      BY <2>1 DEF m, n
    <2> QED
      BY <2>2 DEF m, n
  <1>3. CASE t.kind = "ENERGY"
    BY <1>2, <1>3, PricingConstants DEF Sale!Billed
  <1>4. CASE t.kind = "TIME"
    <2>1. /\ Sale!Divided(p, PerUnit) \in Nat /\ Sale!Divided(q, PerUnit) \in Nat
          /\ Sale!Divided(p, PerUnit) <= Sale!Divided(q, PerUnit)
      BY DividedMonotone, PricingConstants
    <2> QED
      BY <1>2, <1>4, <2>1, PricingConstants DEF Sale!Billed
  <1>5. CASE t.kind = "SESSION"
    BY <1>2, <1>5, PricingConstants DEF Sale!Billed
  <1> QED
    BY <1>1, <1>3, <1>4, <1>5

\* A longer session does not cost less.
LEMMA AmountMonotone ==
  ASSUME NEW t \in Sale!PricedTariffs, NEW p \in Nat, NEW q \in Nat, p <= q
  PROVE  /\ Sale!AmountOf(t, p) \in Nat
         /\ Sale!AmountOf(t, p) <= Sale!AmountOf(t, q)
  <1> DEFINE d == PerUnit * Precision * 100 * PriceScale
             factor == 100 + t.tax
             billed(n) == Sale!Billed(t, n, n) * factor
  <1>1. t.price \in Nat /\ t.tax \in Nat /\ t.kind \in {"ENERGY", "TIME", "SESSION"}
    BY PricingConstants DEF Sale!PricedTariffs, Sale!Kinds, Sale!BilledByMeasure
  <1>2. d \in Nat /\ d > 0
    BY ScalePositive
  <1>3. factor \in Nat
    BY <1>1
  <1>4. /\ Sale!Billed(t, p, p) \in Nat /\ Sale!Billed(t, q, q) \in Nat
        /\ Sale!Billed(t, p, p) <= Sale!Billed(t, q, q)
    BY BilledMonotone
  <1> DEFINE m == Sale!Billed(t, p, p)
             n == Sale!Billed(t, q, q)
  <1>5. m * factor \in Nat /\ n * factor \in Nat /\ m * factor <= n * factor
    <2> HIDE DEF factor, m, n
    <2> QED
      BY <1>3, <1>4 DEF m, n
  <1>6. /\ Sale!AmountOf(t, p) = Sale!Rounded(m * factor, d)
        /\ Sale!AmountOf(t, q) = Sale!Rounded(n * factor, d)
    BY DEF Sale!AmountOf, Sale!SessionAmount
  <1> HIDE DEF factor, m, n, d
  <1> QED
    BY <1>2, <1>5, <1>6, RoundedMonotone

\* A session costs what its consumption does in the dimension that is billed.
LEMMA AmountInKind ==
  ASSUME NEW t \in Sale!PricedTariffs, NEW wh \in Nat, NEW s \in Nat
  PROVE  /\ t.kind = "ENERGY" => Sale!SessionAmount(t, wh, s) = Sale!AmountOf(t, wh)
         /\ t.kind = "TIME" => Sale!SessionAmount(t, wh, s) = Sale!AmountOf(t, s)
         /\ t.kind = "SESSION" => Sale!SessionAmount(t, wh, s) = Sale!AmountOf(t, 0)
  BY DEF Sale!AmountOf, Sale!SessionAmount, Sale!Billed

\* Without a price nothing is billed, taxes included.
LEMMA FreeCostsNothing ==
  ASSUME NEW t \in Sale!PricedTariffs, t.price = 0, NEW wh \in Nat, NEW s \in Nat
  PROVE  Sale!SessionAmount(t, wh, s) = 0
  <1>1. t.tax \in Nat /\ t.kind \in {"ENERGY", "TIME", "SESSION"}
    BY PricingConstants DEF Sale!PricedTariffs, Sale!Kinds, Sale!BilledByMeasure
  <1>2. Sale!Billed(t, wh, s) = 0
    <2>1. \A a, c \in Nat : 0 * a * c = 0
      OBVIOUS
    <2>2. Sale!Divided(s, PerUnit) \in Nat
      BY DividedMonotone, PricingConstants
    <2> QED
      BY <1>1, <2>1, <2>2, PricingConstants DEF Sale!Billed
  <1>3. Sale!Billed(t, wh, s) * (100 + t.tax) = 0
    BY <1>1, <1>2
  <1>4. /\ PerUnit * Precision * 100 * PriceScale \in Nat
        /\ PerUnit * Precision * 100 * PriceScale > 0
    BY ScalePositive
  <1> QED
    BY <1>3, <1>4, RoundedZero DEF Sale!SessionAmount

\* The affordable bound is a number.
LEMMA AffordableType ==
  ASSUME NEW t \in Sale!PricedTariffs, t.price > 0, NEW budget \in Nat
  PROVE  Sale!AffordableBound(t, budget) \in Nat
  <1> DEFINE n == Sale!Quotient(t, budget)
             S == {0} \cup {q \in 1 .. n : Sale!AmountOf(t, q) <= budget}
  <1>1. t.price \in Nat /\ t.tax \in Nat
    BY PricingConstants DEF Sale!PricedTariffs
  <1>2. n \in Nat
    <2> DEFINE a == budget * 100 * PriceScale
               c == t.price * (100 + t.tax)
               q == Sale!Divided(a, c)
    <2>1. a \in Nat
      BY PricingConstants
    <2>2. c \in Nat /\ c > 0
      BY <1>1
    <2>3. n = (q * PerUnit) \div Precision
      BY DEF Sale!Quotient
    <2> HIDE DEF a, c, n
    <2>4. q \in Nat
      BY <2>1, <2>2, DividedMonotone
    <2> HIDE DEF q
    <2>5. q * PerUnit \in Nat
      BY <2>4, PricingConstants
    <2> QED
      BY <2>3, <2>5, DivMonotone, PricingConstants
  <1> HIDE DEF n
  <1>3. S \in SUBSET (0 .. n) /\ 0 \in S
    BY <1>2
  <1>4. Max(S) \in S
    <2> HIDE DEF S
    <2> QED
      BY <1>2, <1>3, MaxExists
  <1>5. Sale!AffordableBound(t, budget) = Max(S)
    BY DEF n, Sale!AffordableBound, Max, Sale!Max
  <1> QED
    BY <1>2, <1>3, <1>4, <1>5

-----------------------------------------------------------------------------
(* A sale: what is held is the price of the limit, and a limit there is      *)
(* wherever consumption costs anything.                                      *)

Priced ==
  LET t == terms.tariff IN
  limits.status = "admitted" =>
    /\ \A d \in Sale!BilledByMeasure : limits.bounds[d].value \in Nat
    /\ Sale!Bounded(t) => limits.bounds[t.kind].value > 0
    /\ Sale!Nominal(t, limits.bounds) <= terms.available - terms.buffer
    /\ limits.hold = Sale!HoldAmount(t, Sale!Nominal(t, limits.bounds), terms.buffer)

BilledAsUsed ==
  bill # Sale!NoBill =>
    /\ limits.status = "admitted"
    /\ bill.used.ENERGY \in Nat /\ bill.used.TIME \in Nat
    /\ bill.amount = Sale!SessionAmount(terms.tariff, bill.used.ENERGY, bill.used.TIME)
    /\ bill.status = "RECONCILIATION_REQUIRED" => bill.amount > limits.hold

SaleInv == Sale!TypeOK /\ Priced /\ BilledAsUsed

\* What a sale is made of.
LEMMA TermsType ==
  ASSUME Sale!TypeOK
  PROVE  /\ terms.tariff \in Sale!PricedTariffs
         /\ terms.available \in Nat /\ terms.buffer \in Nat
         /\ terms.tariff.kind \in {"ENERGY", "TIME", "SESSION"}
         /\ terms.tariff.price \in Nat /\ terms.tariff.tax \in Nat
  BY PricingConstants DEF Sale!TypeOK, Sale!PricedTariffs, Sale!Kinds, Sale!BilledByMeasure

LEMMA SaleInit ==
  ASSUME Sale!PricingInit
  PROVE  SaleInv
  BY DEF Sale!PricingInit, SaleInv, Sale!TypeOK, Priced, BilledAsUsed, Sale!NoLimits, Sale!NoBill

\* The bounds a start is admitted with.
LEMMA BoundsType ==
  ASSUME NEW t \in Sale!PricedTariffs, NEW usable \in Nat, NEW value \in Nat,
         NEW type \in {"AUTO", "ENERGY", "TIME", "MONEY"},
         Sale!CanAfford(t, usable),
         type = "MONEY" => ~(t.kind \in Sale!BilledByMeasure /\ t.price = 0)
  PROVE  LET bounds == Sale!CustomerBounds(t, usable, type, value) IN
         /\ \A d \in Sale!BilledByMeasure : bounds[d].value \in Nat
         /\ Sale!Bounded(t) => bounds[t.kind].value > 0
  <1> DEFINE wallet == Sale!WalletBounds(t, usable)
             bounds == Sale!CustomerBounds(t, usable, type, value)
             d0 == IF type = "MONEY" THEN t.kind ELSE type
             v0 == CASE type = "ENERGY" -> value
                     [] type = "TIME" -> value * PerUnit
                     [] type = "MONEY" -> Sale!AffordableBound(t, value)
  <1>1. t.kind \in {"ENERGY", "TIME", "SESSION"} /\ t.price \in Nat
    BY PricingConstants DEF Sale!PricedTariffs, Sale!Kinds, Sale!BilledByMeasure
  <1>2. Sale!BilledByMeasure = {"ENERGY", "TIME"}
    BY DEF Sale!BilledByMeasure
  <1>3. Sale!Bounded(t) => Sale!AffordableBound(t, usable) \in Nat
                             /\ Sale!AffordableBound(t, usable) > 0
    BY <1>1, AffordableType DEF Sale!Bounded, Sale!CanAfford, Sale!BilledByMeasure
  <1>4. /\ wallet = [d \in {"ENERGY", "TIME"} |-> wallet[d]]
        /\ \A d \in {"ENERGY", "TIME"} :
             wallet[d] = IF Sale!Bounded(t) /\ d = t.kind
                         THEN [value |-> Sale!AffordableBound(t, usable), source |-> "WALLET"]
                         ELSE [value |-> 0, source |-> "NONE"]
    BY <1>2 DEF Sale!WalletBounds, Sale!NoBound
  <1>5. /\ \A d \in {"ENERGY", "TIME"} : wallet[d].value \in Nat
        /\ Sale!Bounded(t) => wallet[t.kind].value > 0
    BY <1>1, <1>3, <1>4 DEF Sale!Bounded, Sale!BilledByMeasure
  <1> HIDE DEF wallet, bounds, d0, v0
  <1>6. CASE type = "AUTO" \/ d0 = "SESSION"
    <2>1. bounds = wallet
      BY <1>6 DEF bounds, wallet, d0, Sale!CustomerBounds
    <2> QED
      BY <1>2, <1>5, <2>1 DEF bounds
  <1>7. CASE ~(type = "AUTO" \/ d0 = "SESSION")
    <2>1. d0 \in {"ENERGY", "TIME"}
      BY <1>1, <1>7 DEF d0
    <2>2. bounds = [wallet EXCEPT ![d0] = Sale!Constrained(wallet[d0], v0, type)]
      BY <1>7 DEF bounds, wallet, d0, v0, Sale!CustomerBounds
    <2>3. v0 \in Nat
      <3>1. type = "MONEY" => t.price > 0
        BY <1>1, <1>2, <1>7 DEF d0
      <3>2. value * PerUnit \in Nat
        BY PricingConstants
      <3> QED
        BY <1>7, <3>1, <3>2, AffordableType DEF v0
    <2> DEFINE b == Sale!Constrained(wallet[d0], v0, type)
    <2>4. b.value \in Nat /\ (wallet[d0].value > 0 => b.value > 0)
      BY <1>5, <2>1, <2>3 DEF Sale!Constrained
    <2>5. \A d \in {"ENERGY", "TIME"} :
            bounds[d].value = IF d = d0 THEN b.value ELSE wallet[d].value
      <3> HIDE DEF b
      <3>1. bounds = [wallet EXCEPT ![d0] = b]
        BY <2>2 DEF b
      <3> QED
        BY <1>4, <2>1, <3>1
    <2> HIDE DEF b
    <2>6. t.kind = "SESSION" => ~Sale!Bounded(t)
      BY DEF Sale!Bounded, Sale!BilledByMeasure
    <2> QED
      BY <1>1, <1>2, <1>5, <2>1, <2>4, <2>5, <2>6 DEF bounds
  <1> QED
    BY <1>6, <1>7

\* What the tightest bound costs is a number.
LEMMA NominalType ==
  ASSUME NEW t \in Sale!PricedTariffs, NEW bounds,
         \A d \in Sale!BilledByMeasure : bounds[d].value \in Nat
  PROVE  Sale!Nominal(t, bounds) \in Nat
  <1>1. t.kind \in {"ENERGY", "TIME", "SESSION"}
    BY DEF Sale!PricedTariffs, Sale!Kinds, Sale!BilledByMeasure
  <1>2. CASE t.kind = "SESSION"
    BY <1>2, AmountMonotone DEF Sale!Nominal
  <1>3. CASE t.kind # "SESSION"
    <2> DEFINE n == bounds[t.kind].value
    <2>1. n \in Nat
      BY <1>1, <1>3 DEF Sale!BilledByMeasure
    <2>2. Sale!Nominal(t, bounds) = Sale!AmountOf(t, n)
      BY <1>3 DEF Sale!Nominal
    <2> HIDE DEF n
    <2> QED
      BY <2>1, <2>2, AmountMonotone
  <1> QED
    BY <1>2, <1>3

\* A start is admitted with a hold that is the price of its limits.
LEMMA SaleStart ==
  ASSUME SaleInv, NEW type \in {"AUTO", "ENERGY", "TIME", "MONEY"}, NEW value \in Nat,
         Sale!StartCharging(type, value)
  PROVE  SaleInv'
  <1> DEFINE t == terms.tariff
             bounds == Sale!CustomerBounds(t, Sale!Usable, type, value)
             nominal == Sale!Nominal(t, bounds)
             refused == \/ terms.available < Minimum \/ Sale!Usable <= 0
                        \/ ~Sale!CanAfford(t, Sale!Usable)
                        \/ type = "MONEY" /\ Sale!MoneyIsRefused(t, value)
                        \/ nominal > Sale!Usable
  <1>1. /\ t \in Sale!PricedTariffs /\ terms.available \in Nat /\ terms.buffer \in Nat
    BY TermsType DEF SaleInv
  <1>2. Sale!Usable = terms.available - terms.buffer
    BY DEF Sale!Usable
  <1>3. bill = Sale!NoBill /\ bill' = bill /\ terms' = terms
    BY DEF SaleInv, BilledAsUsed, Sale!StartCharging, Sale!NoLimits
  <1>4. limits' = IF refused THEN [status |-> "refused"]
                  ELSE [status |-> "admitted", bounds |-> bounds,
                        hold |-> Sale!HoldAmount(t, nominal, terms.buffer)]
    BY DEF Sale!StartCharging
  <1>5. CASE refused
    <2>1. limits' = [status |-> "refused"]
      BY <1>4, <1>5
    <2> QED
      BY <1>3, <2>1 DEF SaleInv, Sale!TypeOK, Priced, BilledAsUsed, Sale!NoBill
  <1>6. CASE ~refused
    <2> DEFINE hold == Sale!HoldAmount(t, nominal, terms.buffer)
    <2>1. limits' = [status |-> "admitted", bounds |-> bounds, hold |-> hold]
      BY <1>4, <1>6
    <2>2. /\ Sale!Usable \in Nat /\ Sale!CanAfford(t, Sale!Usable)
          /\ nominal <= Sale!Usable \/ ~(nominal \in Nat)
          /\ type = "MONEY" => ~(t.kind \in Sale!BilledByMeasure /\ t.price = 0)
      <3>1. ~(Sale!Usable <= 0) /\ Sale!Usable \in Int
        BY <1>1, <1>2, <1>6
      <3>2. Sale!Usable \in Nat
        BY <3>1
      <3>3. Sale!CanAfford(t, Sale!Usable) /\ ~(nominal > Sale!Usable)
        BY <1>6
      <3>4. type = "MONEY" => ~(t.kind \in Sale!BilledByMeasure /\ t.price = 0)
        BY <1>6 DEF Sale!MoneyIsRefused
      <3> HIDE DEF nominal, t
      <3>5. nominal <= Sale!Usable \/ ~(nominal \in Nat)
        BY <3>2, <3>3
      <3> QED
        BY <3>2, <3>3, <3>4, <3>5
    <2> HIDE DEF bounds, nominal, t, refused
    <2>3. /\ \A d \in Sale!BilledByMeasure : bounds[d].value \in Nat
          /\ Sale!Bounded(t) => bounds[t.kind].value > 0
      BY <1>1, <2>2, BoundsType DEF bounds
    <2>4. nominal \in Nat
      BY <1>1, <2>3, NominalType DEF nominal
    <2>5. nominal <= terms.available - terms.buffer
      BY <1>2, <2>2, <2>4
    <2>6. hold \in Nat
      BY <1>1, <2>4 DEF Sale!HoldAmount
    <2> HIDE DEF hold
    <2>7. /\ limits'.status = "admitted" /\ limits'.hold = hold /\ limits'.bounds = bounds
          /\ terms'.tariff = t /\ terms'.available = terms.available
          /\ terms'.buffer = terms.buffer
      BY <1>3, <2>1 DEF t
    <2>8. Sale!TypeOK'
      BY <1>3, <2>6, <2>7 DEF SaleInv, Sale!TypeOK
    <2>9. Sale!Nominal(t, bounds) = nominal
      BY DEF nominal
    <2>10. Priced'
      BY <2>3, <2>5, <2>7, <2>9 DEF Priced, hold
    <2> QED
      BY <1>3, <2>8, <2>10 DEF SaleInv, BilledAsUsed, Sale!NoBill
  <1> HIDE DEF refused
  <1> QED
    BY <1>5, <1>6

\* A session that ends is billed what it used.
LEMMA SaleCompletes ==
  ASSUME SaleInv, NEW wh \in Nat, NEW s \in Nat, Sale!CompleteSession(wh, s)
  PROVE  SaleInv'
  <1> DEFINE amount == Sale!SessionAmount(terms.tariff, wh, s)
             status == IF amount > limits.hold THEN "RECONCILIATION_REQUIRED" ELSE "SETTLED"
  <1>1. /\ bill' = [status |-> status, used |-> [ENERGY |-> wh, TIME |-> s], amount |-> amount]
        /\ limits.status = "admitted" /\ UNCHANGED <<terms, limits>>
    BY DEF Sale!CompleteSession
  <1>2. status = "RECONCILIATION_REQUIRED" => amount > limits.hold
    OBVIOUS
  <1>3. status \in {"SETTLED", "RECONCILIATION_REQUIRED"}
    OBVIOUS
  <1> HIDE DEF status
  <1>4. /\ bill'.status = status /\ bill'.amount = amount
        /\ bill'.used.ENERGY = wh /\ bill'.used.TIME = s
    BY <1>1
  <1>5. Sale!TypeOK'
    BY <1>1, <1>3, <1>4 DEF SaleInv, Sale!TypeOK
  <1>6. BilledAsUsed'
    BY <1>1, <1>2, <1>4 DEF BilledAsUsed
  <1>7. Priced'
    BY <1>1 DEF SaleInv, Priced, Sale!Usable
  <1> QED
    BY <1>5, <1>6, <1>7 DEF SaleInv

LEMMA SaleStep ==
  ASSUME SaleInv, Sale!PricingNext
  PROVE  SaleInv'
  <1>1. 0 \in Nat /\ LimitValues \subseteq Nat /\ Readings \subseteq Nat
    BY PricingConstants
  <1>2. CASE Sale!StartCharging("AUTO", 0)
    BY <1>1, <1>2, SaleStart
  <1>3. ASSUME NEW v \in LimitValues, NEW type \in Sale!BilledByMeasure \cup {"MONEY"},
               Sale!StartCharging(type, v)
        PROVE  SaleInv'
    <2>1. v \in Nat /\ type \in {"AUTO", "ENERGY", "TIME", "MONEY"}
      BY <1>1 DEF Sale!BilledByMeasure
    <2> QED
      BY <1>3, <2>1, SaleStart
  <1>4. ASSUME NEW wh \in Readings, NEW s \in Readings, Sale!CompleteSession(wh, s)
        PROVE  SaleInv'
    BY <1>1, <1>4, SaleCompletes
  <1> QED
    BY <1>2, <1>3, <1>4 DEF Sale!PricingNext

\* What is held pays for the session up to its limit.
LEMMA HoldPays ==
  ASSUME SaleInv
  PROVE  HoldCoversTheLimit
  <1> SUFFICES ASSUME limits.status = "admitted"
               PROVE  /\ limits.hold <= terms.available
                      /\ bill.status = "RECONCILIATION_REQUIRED" =>
                           Sale!Overrun > IF limits.hold = 0 THEN 0 ELSE terms.buffer
    BY DEF SaleInv, HoldCoversTheLimit, Sale!HoldCoversTheLimit
  <1> DEFINE t == terms.tariff
             nominal == Sale!Nominal(t, limits.bounds)
  <1>1. /\ t \in Sale!PricedTariffs /\ terms.available \in Nat /\ terms.buffer \in Nat
        /\ t.kind \in {"ENERGY", "TIME", "SESSION"} /\ t.price \in Nat
    BY TermsType DEF SaleInv
  <1>2. /\ \A d \in Sale!BilledByMeasure : limits.bounds[d].value \in Nat
        /\ Sale!Bounded(t) => limits.bounds[t.kind].value > 0
        /\ nominal <= terms.available - terms.buffer
        /\ limits.hold = Sale!HoldAmount(t, nominal, terms.buffer)
    BY DEF SaleInv, Priced
  <1>3. nominal \in Nat
    BY <1>1, <1>2, NominalType
  <1>4. limits.hold = IF nominal = 0 \/ t.kind = "SESSION" THEN nominal
                      ELSE nominal + terms.buffer
    BY <1>2 DEF Sale!HoldAmount
  <1>5. nominal = IF t.kind = "SESSION" THEN Sale!AmountOf(t, 0)
                  ELSE Sale!AmountOf(t, limits.bounds[t.kind].value)
    BY DEF Sale!Nominal
  <1>6. limits.hold <= terms.available
    <2> HIDE DEF nominal, t
    <2> QED
      BY <1>1, <1>2, <1>3, <1>4
  <1>7. ASSUME bill.status = "RECONCILIATION_REQUIRED"
        PROVE  Sale!Overrun > IF limits.hold = 0 THEN 0 ELSE terms.buffer
    <2> DEFINE wh == bill.used.ENERGY
               s == bill.used.TIME
               amount == bill.amount
               bound == limits.bounds[t.kind].value
               used == bill.used[t.kind]
    <2>1. /\ wh \in Nat /\ s \in Nat /\ amount = Sale!SessionAmount(t, wh, s)
          /\ amount > limits.hold
      BY <1>7 DEF SaleInv, BilledAsUsed, Sale!NoBill
    <2> HIDE DEF nominal, amount, t
    <2>2. t.kind # "SESSION"
      <3> SUFFICES ASSUME t.kind = "SESSION" PROVE FALSE
        OBVIOUS
      <3>1. amount = Sale!AmountOf(t, 0)
        BY <1>1, <2>1, AmountInKind
      <3> QED
        BY <1>3, <1>4, <1>5, <2>1, <3>1
    <2>3. /\ bound \in Nat /\ used \in Nat /\ amount = Sale!AmountOf(t, used)
          /\ nominal = Sale!AmountOf(t, bound)
      BY <1>1, <1>2, <1>5, <2>1, <2>2, AmountInKind DEF Sale!BilledByMeasure
    <2> HIDE DEF bound, used
    <2>4. t.price > 0 /\ bound > 0
      <3>1. t.price # 0
        BY <1>1, <1>3, <1>4, <2>1, FreeCostsNothing
      <3> QED
        BY <1>1, <1>2, <2>2, <3>1 DEF Sale!Bounded, Sale!BilledByMeasure, bound
    <2>5. used > bound
      <3> SUFFICES ASSUME used <= bound PROVE FALSE
        BY <2>3
      <3>1. amount \in Nat /\ amount <= nominal
        BY <1>1, <2>3, AmountMonotone
      <3> QED
        BY <1>1, <1>3, <1>4, <2>1, <3>1
    <2>6. Sale!Overrun = amount - nominal
      BY <1>1, <2>2, <2>3, <2>4, <2>5
         DEF Sale!Overrun, Sale!Exceeds, Sale!BilledByMeasure, t, bound, used, amount
    <2>7. amount \in Nat
      BY <1>1, <2>3, AmountMonotone
    <2> QED
      BY <1>1, <1>3, <1>4, <2>1, <2>2, <2>6, <2>7
  <1> QED
    BY <1>6, <1>7
-----------------------------------------------------------------------------
(* Tenancies. *)

OperatorStatus == {"PENDING", "ACTIVE", "SUSPENDED"}
OperatorRows == [status : OperatorStatus, told : OperatorStatus, repeated : BOOLEAN]
MemberRows == [role : {"ADMIN", "VIEWER"}, status : {"ACTIVE", "SUSPENDED", "REVOKED"},
               primary : BOOLEAN, override : Overrides \cup {"none"}]

StaffChange == {"UPDATE_STAFF", "TRANSITION_STAFF"}
TenantOps == {"CREATE", "SET_PRIMARY", "ACTIVE", "SUSPENDED", "RESEND", "PROFILE", "SET_LIVE",
              "CREATE_STAFF"} \cup StaffChange
LockIds == Operators \cup People \cup (Operators \X People)
TenantLocks ==
  [kind : {"admin", "primary", "operator", "membership", "identity", "staff"},
   ids : SUBSET LockIds, shared : BOOLEAN]
Tasks == [op : TenantOps, asked : Tenant!Requested, held : Seq(TenantLocks),
          read : {Absent} \cup MemberRows]

LockCount(r) ==
  IF r.op = "SET_PRIMARY" THEN 6
  ELSE IF r.op \in {"RESEND", "CREATE_STAFF"} THEN 3
  ELSE IF r.op = "CREATE" THEN 2 ELSE 1

\* What a request in flight asks for is still there to be changed.
InPlace(h) ==
  LET r == task[h].asked IN
  /\ r.op = task[h].op /\ Len(task[h].held) <= LockCount(r)
  /\ r.op # "CREATE" => operator[r.operator] # Absent
  /\ r.op \in StaffChange => membership[<<r.operator, r.person>>] # Absent

\* What is locked stays as it was when it was locked: a request that has come
\* to its n-th lock may rely on what it saw under the ones before it.
Taken(h) ==
  LET r == task[h].asked
      held == task[h].held
      n == Len(held)
      m == <<r.operator, r.person>>
  IN
  /\ r.op = "SET_PRIMARY" =>
       /\ n >= 1 => held[1] = Tenant!Exclusive("primary", {r.operator})
       /\ n >= 2 => held[2] = Tenant!Exclusive("operator", {r.operator})
       /\ n >= 4 => held[4] = Tenant!Exclusive("membership",
                      Tenant!MembershipRows(r.operator, Tenant!PrimaryOf(r.operator)))
       /\ n >= 6 => held[6] = Tenant!Exclusive("membership",
                      Tenant!MembershipRows(r.operator, {r.person}))
  /\ r.op = "CREATE_STAFF" /\ n >= 3 => held[3] = Tenant!Shared("operator", {r.operator})
  /\ r.op \in StaffChange /\ n >= 1 =>
       /\ held[1] = Tenant!Exclusive("membership", {m})
       /\ task[h].read = membership[m]
  /\ \A i \in DOMAIN held : held[i].kind = "identity" =>
       \A p \in held[i].ids \cap People : identity[p].created = 1

\* Two requests do not hold conflicting locks.
Apart ==
  \A g, h \in Requests : g # h /\ Tenant!Busy(g) /\ Tenant!Busy(h) =>
    \A i \in DOMAIN task[g].held, j \in DOMAIN task[h].held :
      ~Tenant!Conflict(task[g].held[i], task[h].held[j])

TenantTypes ==
  /\ operator \in [Operators -> {Absent} \cup OperatorRows]
  /\ identity \in [People -> [created : {0, 1}, mailed : 0 .. 1]]
  /\ membership \in [Operators \X People -> {Absent} \cup MemberRows]
  /\ task \in [Requests -> {Tenant!Nothing} \cup Tasks]

Primaries ==
  \A o \in Operators : operator[o] # Absent =>
    \E p \in People :
      /\ Tenant!PrimaryOf(o) = {p}
      /\ membership[<<o, p>>].status = "ACTIVE" /\ membership[<<o, p>>].role = "ADMIN"

Working == \A h \in Requests : Tenant!Busy(h) => InPlace(h) /\ Taken(h)

TenantInv ==
  TenantTypes /\ Primaries /\ Tenant!InvitedOnce /\ Tenant!StatusIsTold /\ Working /\ Apart

LEMMA TenancyConstants ==
  /\ Absent \notin OperatorRows /\ Absent \notin MemberRows
  /\ First \in Operators /\ Founder \in People
  BY TenancyAssumption DEF OperatorRows, MemberRows, OperatorStatus

\* A task is not none, and what it asks for.
LEMMA TaskType ==
  ASSUME TenantTypes, NEW h \in Requests, Tenant!Busy(h)
  PROVE  /\ task[h] \in Tasks
         /\ task[h].op \in TenantOps /\ task[h].asked \in Tenant!Requested
         /\ task[h].held \in Seq(TenantLocks) /\ task[h].read \in {Absent} \cup MemberRows
  BY DEF TenantTypes, Tenant!Busy, Tasks

LEMMA AskedType ==
  ASSUME NEW r \in Tenant!Requested
  PROVE  /\ r.op \in TenantOps /\ r.operator \in Operators
         /\ r.op \in {"CREATE", "SET_PRIMARY", "CREATE_STAFF"} \cup StaffChange =>
              r.person \in People
         /\ r.op \in {"CREATE_STAFF"} \cup StaffChange => r.by \in People
  BY DEF Tenant!Requested, TenantOps, StaffChange

\* A task is not the absence of one.
LEMMA TaskIsBusy ==
  ASSUME NEW t \in Tasks
  PROVE  t # Tenant!Nothing
  <1>1. t.op \in TenantOps
    BY DEF Tasks
  <1>2. Tenant!Nothing.op = "none"
    BY DEF Tenant!Nothing
  <1> QED
    BY <1>1, <1>2 DEF TenantOps, StaffChange

LEMMA TenantStart ==
  ASSUME Tenant!TenancyInit
  PROVE  TenantInv
  <1> USE TenancyConstants
  <1>1. /\ Tenant!Provisioned \in OperatorRows
        /\ Tenant!Member("ADMIN", TRUE) \in MemberRows
    BY DEF Tenant!Provisioned, OperatorRows, OperatorStatus, Tenant!Member, MemberRows
  <1>2. TenantTypes
    <2>1. operator \in [Operators -> {Absent} \cup OperatorRows]
      BY <1>1 DEF Tenant!TenancyInit
    <2>2. identity \in [People -> [created : {0, 1}, mailed : 0 .. 1]]
      <3>1. [created |-> 1, mailed |-> 1] \in [created : {0, 1}, mailed : 0 .. 1]
        OBVIOUS
      <3>2. [created |-> 0, mailed |-> 0] \in [created : {0, 1}, mailed : 0 .. 1]
        OBVIOUS
      <3> QED
        BY <3>1, <3>2, Zenon DEF Tenant!TenancyInit
    <2>3. membership \in [Operators \X People -> {Absent} \cup MemberRows]
      BY <1>1 DEF Tenant!TenancyInit
    <2>4. task \in [Requests -> {Tenant!Nothing} \cup Tasks]
      BY Zenon DEF Tenant!TenancyInit
    <2> QED
      BY <2>1, <2>2, <2>3, <2>4 DEF TenantTypes
  <1>3. Working /\ Apart
    BY DEF Tenant!TenancyInit, Working, Apart, Tenant!Busy
  <1>4. \A o \in Operators : operator[o] # Absent => o = First
    BY DEF Tenant!TenancyInit
  <1>5. \A m \in Operators \X People :
          membership[m] = IF m = <<First, Founder>> THEN Tenant!Member("ADMIN", TRUE) ELSE Absent
    BY DEF Tenant!TenancyInit
  <1>6. Tenant!PrimaryOf(First) = {Founder}
    BY <1>1, <1>5 DEF Tenant!PrimaryOf, Tenant!Member
  <1>7. Primaries
    BY <1>4, <1>5, <1>6 DEF Primaries, Tenant!Member
  <1>8. Tenant!InvitedOnce
    <2>1. operator[First] # Absent
      BY <1>1 DEF Tenant!TenancyInit
    <2>2. \A p \in People : identity[p].mailed = identity[p].created
      BY DEF Tenant!TenancyInit
    <2>3. identity[Founder].created = 1
      BY DEF Tenant!TenancyInit
    <2>4. DOMAIN membership = Operators \X People
      BY <1>2 DEF TenantTypes
    <2>5. \A m \in DOMAIN membership : membership[m] # Absent => m = <<First, Founder>>
      BY <1>5, <2>4
    <2> QED
      BY <2>1, <2>2, <2>3, <2>5 DEF Tenant!InvitedOnce
  <1>9. Tenant!StatusIsTold
    BY <1>4 DEF Tenant!TenancyInit, Tenant!StatusIsTold, Tenant!Provisioned
  <1> QED
    BY <1>2, <1>3, <1>7, <1>8, <1>9 DEF TenantInv

-----------------------------------------------------------------------------
\* A membership that is neither new nor another kind of primary.
Alike(m) ==
  /\ membership'[m] = Absent <=> membership[m] = Absent
  /\ membership[m] # Absent => (membership'[m].primary <=> membership[m].primary)

\* What a change of the rows has to leave alone for a request in flight.
LeftAlone(g) ==
  LET r == task[g].asked
      n == Len(task[g].held) IN
  /\ r.op = "SET_PRIMARY" /\ n >= 4 => \A p \in People : Alike(<<r.operator, p>>)
  /\ r.op \in StaffChange /\ n >= 1 =>
       membership'[<<r.operator, r.person>>] = membership[<<r.operator, r.person>>]

Grows ==
  /\ \A o \in Operators : operator[o] # Absent => operator'[o] # Absent
  /\ \A m \in Operators \X People : membership[m] # Absent => membership'[m] # Absent
  /\ \A p \in People : identity[p].created = 1 => identity'[p].created = 1

\* A request keeps what it relies on if the rows it locked are left alone.
LEMMA OthersKept ==
  ASSUME TenantInv, Grows, NEW g \in Requests, Tenant!Busy(g), task'[g] = task[g],
         LeftAlone(g)
  PROVE  (InPlace(g) /\ Taken(g))'
  <1> DEFINE r == task[g].asked
             held == task[g].held
             n == Len(held)
             o == r.operator
             m == <<o, r.person>>
  <1>1. /\ r \in Tenant!Requested /\ o \in Operators /\ held \in Seq(TenantLocks)
        /\ InPlace(g) /\ Taken(g) /\ task[g].op \in TenantOps
        /\ r.op \in {"CREATE", "SET_PRIMARY", "CREATE_STAFF"} \cup StaffChange =>
             r.person \in People
    BY TaskType, AskedType DEF TenantInv, Working
  <1>2. InPlace(g)'
    <2>1. r.op \in StaffChange => m \in Operators \X People
      BY <1>1
    <2> QED
      BY <1>1, <2>1 DEF InPlace, Grows
  <1>3. r.op \in StaffChange /\ n >= 1 => membership'[m] = membership[m]
    BY DEF LeftAlone
  <1>4. \A i \in DOMAIN held : held[i].kind = "identity" =>
          \A p \in held[i].ids \cap People : identity'[p].created = 1
    BY <1>1 DEF Taken, Grows
  <1>5. Taken(g)'
    <2> DEFINE rows == Tenant!MembershipRows(o, Tenant!PrimaryOf(o))
               row == Tenant!MembershipRows(o, {r.person})
    <2>1. r.op = "SET_PRIMARY" /\ n >= 4 => rows' = rows /\ row' = row
      <3>1. ASSUME r.op = "SET_PRIMARY", n >= 4
            PROVE  \A p \in People : Alike(<<o, p>>)
        BY <3>1 DEF LeftAlone
      <3>2. r' = r
        OBVIOUS
      <3> QED
        BY <1>1, <3>1, <3>2 DEF Alike, Tenant!PrimaryOf, Tenant!MembershipRows
    <2>2. r.op = "SET_PRIMARY" =>
            /\ n >= 1 => held[1] = Tenant!Exclusive("primary", {o})
            /\ n >= 2 => held[2] = Tenant!Exclusive("operator", {o})
            /\ n >= 4 => held[4] = Tenant!Exclusive("membership", rows')
            /\ n >= 6 => held[6] = Tenant!Exclusive("membership", row')
      <3> HIDE DEF held, n
      <3>1. r.op = "SET_PRIMARY" =>
            /\ n >= 1 => held[1] = Tenant!Exclusive("primary", {o})
            /\ n >= 2 => held[2] = Tenant!Exclusive("operator", {o})
            /\ n >= 4 => held[4] = Tenant!Exclusive("membership", rows)
            /\ n >= 6 => held[6] = Tenant!Exclusive("membership", row)
        BY <1>1, Zenon DEF Taken, held, n
      <3>2. n \in Nat
        BY <1>1 DEF n
      <3> QED
        BY <2>1, <3>1, <3>2
    <2>3. r.op = "CREATE_STAFF" /\ n >= 3 => held[3] = Tenant!Shared("operator", {o})
      BY <1>1, Zenon DEF Taken
    <2>4. r.op \in StaffChange /\ n >= 1 =>
            /\ held[1] = Tenant!Exclusive("membership", {m})
            /\ task[g].read = membership'[m]
      BY <1>1, <1>3, Zenon DEF Taken
    <2> QED
      BY <1>4, <2>2, <2>3, <2>4, Zenon DEF Taken, Tenant!Exclusive, Tenant!Shared
  <1> QED
    BY <1>2, <1>5

\* A request that ends, having changed what others do not rely on.
LEMMA RequestEnds ==
  ASSUME TenantInv, Grows, NEW h \in Requests,
         task' = [task EXCEPT ![h] = Tenant!Nothing],
         \A g \in Requests \ {h} : Tenant!Busy(g) => LeftAlone(g)
  PROVE  Working' /\ Apart' /\ task' \in [Requests -> {Tenant!Nothing} \cup Tasks]
  <1>1. task \in [Requests -> {Tenant!Nothing} \cup Tasks]
    BY DEF TenantInv, TenantTypes
  <1>2. task' \in [Requests -> {Tenant!Nothing} \cup Tasks]
    BY <1>1, Zenon
  <1>3. \A g \in Requests : Tenant!Busy(g)' => g # h /\ Tenant!Busy(g) /\ task'[g] = task[g]
    BY <1>1 DEF Tenant!Busy
  <1>4. Working'
    BY <1>3, OthersKept DEF Working
  <1>5. Apart'
    BY <1>3 DEF TenantInv, Apart, Tenant!Conflict
  <1> QED
    BY <1>2, <1>4, <1>5

\* The rows are as they were.
LEMMA RowsUnchanged ==
  ASSUME UNCHANGED <<operator, identity, membership>>
  PROVE  Grows /\ \A g \in Requests : LeftAlone(g)
  BY DEF Grows, LeftAlone, Alike

LEMMA SameRowsSameFacts ==
  ASSUME TenantInv, UNCHANGED <<operator, identity, membership>>
  PROVE  /\ Primaries' /\ Tenant!InvitedOnce' /\ Tenant!StatusIsTold'
         /\ operator' \in [Operators -> {Absent} \cup OperatorRows]
         /\ identity' \in [People -> [created : {0, 1}, mailed : 0 .. 1]]
         /\ membership' \in [Operators \X People -> {Absent} \cup MemberRows]
  <1>1. \A o \in Operators : Tenant!PrimaryOf(o)' = Tenant!PrimaryOf(o)
    BY DEF Tenant!PrimaryOf
  <1>2. Primaries'
    BY <1>1 DEF TenantInv, Primaries
  <1> QED
    BY <1>2 DEF TenantInv, TenantTypes, Tenant!InvitedOnce, Tenant!StatusIsTold

LEMMA RequestLeaves ==
  ASSUME TenantInv, NEW h \in Requests, task' = [task EXCEPT ![h] = Tenant!Nothing],
         UNCHANGED <<operator, identity, membership>>
  PROVE  TenantInv'
  BY RequestEnds, RowsUnchanged, SameRowsSameFacts DEF TenantInv, TenantTypes

\* A request begins without a lock.
LEMMA RequestBegins ==
  ASSUME TenantInv, NEW h \in Requests, NEW r \in Tenant!Requested, Tenant!BeginTask(h, r)
  PROVE  TenantInv'
  <1> DEFINE t == [op |-> r.op, asked |-> r, held |-> <<>>, read |-> Absent]
  <1>1. /\ task \in [Requests -> {Tenant!Nothing} \cup Tasks]
        /\ task' = [task EXCEPT ![h] = t]
        /\ UNCHANGED <<operator, identity, membership>> /\ Tenant!Permitted(r)
    BY DEF TenantInv, TenantTypes, Tenant!BeginTask
  <1>2. r.op \in TenantOps
    BY AskedType
  <1>3. t \in Tasks
    BY <1>2 DEF Tasks
  <1>4. t.op = r.op /\ t.asked = r /\ t.held = <<>>
    OBVIOUS
  <1> HIDE DEF t
  <1>5. task' \in [Requests -> {Tenant!Nothing} \cup Tasks] /\ task'[h] = t
        /\ \A g \in Requests \ {h} : task'[g] = task[g]
    BY <1>1, <1>3
  <1>6. (InPlace(h) /\ Taken(h))'
    <2>1. task'[h].held = <<>> /\ Len(task'[h].held) = 0 /\ DOMAIN task'[h].held = {}
      BY <1>4, <1>5
    <2>2. InPlace(h)'
      <3>1. 0 <= LockCount(r)
        BY DEF LockCount
      <3> QED
        BY <1>1, <1>4, <1>5, <2>1, <3>1 DEF InPlace, Tenant!Permitted, StaffChange
    <2>3. Taken(h)'
      BY <2>1 DEF Taken
    <2> QED
      BY <2>2, <2>3
  <1>7. Working'
    BY <1>1, <1>5, <1>6, OthersKept, RowsUnchanged DEF Working, Tenant!Busy
  <1>8. Apart'
    <2>1. DOMAIN task'[h].held = {}
      BY <1>4, <1>5
    <2> QED
      BY <1>5, <2>1 DEF TenantInv, Apart, Tenant!Busy, Tenant!Conflict
  <1> QED
    BY <1>1, <1>5, <1>7, <1>8, SameRowsSameFacts DEF TenantInv, TenantTypes

MembershipLock(r, P) ==
  Tenant!Exclusive("membership", Tenant!MembershipRows(r.operator, P))

\* The locks of a request, one by one.
LEMMA LocksInOrder ==
  ASSUME NEW r \in Tenant!Requested
  PROVE  LET L == Tenant!LocksOf(r)
             known == Tenant!Exclusive("identity", Tenant!KnownIdentity(r.person))
         IN
         /\ r.op = "CREATE" =>
              /\ Len(L) = 2
              /\ L[1] = Tenant!Exclusive("admin", {r.person}) /\ L[2] = known
         /\ r.op = "SET_PRIMARY" =>
              /\ Len(L) = 6
              /\ L[1] = Tenant!Exclusive("primary", {r.operator})
              /\ L[2] = Tenant!Exclusive("operator", {r.operator})
              /\ L[3] = Tenant!Exclusive("admin", {r.person})
              /\ L[4] = MembershipLock(r, Tenant!PrimaryOf(r.operator))
              /\ L[5] = known /\ L[6] = MembershipLock(r, {r.person})
         /\ r.op \in {"ACTIVE", "SUSPENDED", "PROFILE", "SET_LIVE"} =>
              Len(L) = 1 /\ L[1] = Tenant!Exclusive("operator", {r.operator})
         /\ r.op = "RESEND" =>
              /\ Len(L) = 3
              /\ L[1] = Tenant!Shared("operator", {r.operator})
              /\ L[2] = MembershipLock(r, Tenant!PrimaryOf(r.operator))
              /\ L[3] = Tenant!Exclusive("identity", Tenant!PrimaryOf(r.operator))
         /\ r.op = "CREATE_STAFF" =>
              /\ Len(L) = 3
              /\ L[1] = Tenant!Exclusive("staff", {<<r.operator, r.person>>})
              /\ L[2] = known /\ L[3] = Tenant!Shared("operator", {r.operator})
         /\ r.op \in StaffChange => Len(L) = 1 /\ L[1] = MembershipLock(r, {r.person})
  BY DEF Tenant!LocksOf, Tenant!StaffLocks, StaffChange, MembershipLock

\* How many locks a request takes does not depend on the rows.
LEMMA LocksCounted ==
  ASSUME NEW r \in Tenant!Requested
  PROVE  Len(Tenant!LocksOf(r)) = LockCount(r)
  <1>1. r.op \in TenantOps
    BY AskedType
  <1> QED
    BY <1>1, LocksInOrder DEF LockCount, TenantOps, StaffChange

\* The locks of a request are locks.
LEMMA LockTypes ==
  ASSUME NEW r \in Tenant!Requested, NEW i \in 1 .. Len(Tenant!LocksOf(r))
  PROVE  Tenant!LocksOf(r)[i] \in TenantLocks
  <1>1. /\ r.op \in TenantOps /\ r.operator \in Operators
        /\ r.op \in {"CREATE", "SET_PRIMARY", "CREATE_STAFF"} \cup StaffChange =>
             r.person \in People
    BY AskedType
  <1>2. \A kind \in {"admin", "primary", "operator", "membership", "identity", "staff"} :
          \A ids \in SUBSET LockIds :
            Tenant!Exclusive(kind, ids) \in TenantLocks /\ Tenant!Shared(kind, ids) \in TenantLocks
    BY DEF Tenant!Exclusive, Tenant!Shared, TenantLocks
  <1>3. /\ {r.operator} \in SUBSET LockIds
        /\ \A p \in People : /\ {p} \in SUBSET LockIds
                             /\ Tenant!KnownIdentity(p) \in SUBSET LockIds
                             /\ {<<r.operator, p>>} \in SUBSET LockIds
        /\ Tenant!PrimaryOf(r.operator) \in SUBSET People
        /\ \A P \in SUBSET People : /\ P \in SUBSET LockIds
                                    /\ Tenant!MembershipRows(r.operator, P) \in SUBSET LockIds
    <2>1. {r.operator} \in SUBSET LockIds
      BY <1>1 DEF LockIds
    <2>2. \A p \in People : /\ {p} \in SUBSET LockIds
                            /\ Tenant!KnownIdentity(p) \in SUBSET LockIds
      BY DEF LockIds, Tenant!KnownIdentity
    <2>3. \A p \in People : {<<r.operator, p>>} \in SUBSET LockIds
      BY <1>1 DEF LockIds
    <2>4. Tenant!PrimaryOf(r.operator) \in SUBSET People
      BY DEF Tenant!PrimaryOf
    <2>5. \A P \in SUBSET People : P \in SUBSET LockIds
      BY DEF LockIds
    <2>6. \A P \in SUBSET People : Tenant!MembershipRows(r.operator, P) \in SUBSET LockIds
      <3> TAKE P \in SUBSET People
      <3>1. ASSUME NEW x \in Tenant!MembershipRows(r.operator, P) PROVE x \in LockIds
        <4>1. PICK p \in P : x = <<r.operator, p>>
          BY <3>1 DEF Tenant!MembershipRows
        <4> QED
          BY <1>1, <4>1 DEF LockIds
      <3> QED
        BY <3>1
    <2> QED
      BY <2>1, <2>2, <2>3, <2>4, <2>5, <2>6
  <1>4. /\ Tenant!Exclusive("operator", {r.operator}) \in TenantLocks
        /\ Tenant!Shared("operator", {r.operator}) \in TenantLocks
        /\ Tenant!Exclusive("primary", {r.operator}) \in TenantLocks
        /\ MembershipLock(r, Tenant!PrimaryOf(r.operator)) \in TenantLocks
        /\ Tenant!Exclusive("identity", Tenant!PrimaryOf(r.operator)) \in TenantLocks
    BY <1>2, <1>3 DEF MembershipLock
  <1>5. ASSUME r.person \in People
        PROVE  /\ Tenant!Exclusive("admin", {r.person}) \in TenantLocks
               /\ Tenant!Exclusive("identity", Tenant!KnownIdentity(r.person)) \in TenantLocks
               /\ Tenant!Exclusive("staff", {<<r.operator, r.person>>}) \in TenantLocks
               /\ MembershipLock(r, {r.person}) \in TenantLocks
    <2>1. {r.person} \in SUBSET People
      BY <1>5
    <2>2. Tenant!MembershipRows(r.operator, {r.person}) \in SUBSET LockIds
      BY <1>3, <2>1
    <2> QED
      BY <1>2, <1>3, <1>5, <2>2 DEF MembershipLock
  <1>6. CASE r.op = "CREATE"
    <2>1. Len(Tenant!LocksOf(r)) = 2
      BY <1>6, LocksInOrder
    <2>2. i \in {1, 2}
      BY <2>1
    <2>3. r.person \in People
      BY <1>1, <1>6
    <2> QED
      BY <1>4, <1>5, <1>6, <2>2, <2>3, LocksInOrder
  <1>7. CASE r.op = "SET_PRIMARY"
    <2>1. Len(Tenant!LocksOf(r)) = 6
      BY <1>7, LocksInOrder
    <2>2. i \in {1, 2, 3, 4, 5, 6}
      BY <2>1
    <2>3. r.person \in People
      BY <1>1, <1>7
    <2> QED
      BY <1>4, <1>5, <1>7, <2>2, <2>3, LocksInOrder
  <1>8. CASE r.op \in {"ACTIVE", "SUSPENDED", "PROFILE", "SET_LIVE"}
    <2>1. Len(Tenant!LocksOf(r)) = 1
      BY <1>8, LocksInOrder
    <2>2. i = 1
      BY <2>1
    <2> QED
      BY <1>4, <1>8, <2>2, LocksInOrder
  <1>9. CASE r.op = "RESEND"
    <2>1. Len(Tenant!LocksOf(r)) = 3
      BY <1>9, LocksInOrder
    <2>2. i \in {1, 2, 3}
      BY <2>1
    <2> QED
      BY <1>4, <1>9, <2>2, LocksInOrder
  <1>10. CASE r.op = "CREATE_STAFF"
    <2>1. Len(Tenant!LocksOf(r)) = 3
      BY <1>10, LocksInOrder
    <2>2. i \in {1, 2, 3}
      BY <2>1
    <2>3. r.person \in People
      BY <1>1, <1>10
    <2> QED
      BY <1>4, <1>5, <1>10, <2>2, <2>3, LocksInOrder
  <1>11. CASE r.op \in StaffChange
    <2>1. Len(Tenant!LocksOf(r)) = 1
      BY <1>11, LocksInOrder
    <2>2. i = 1
      BY <2>1
    <2>3. r.person \in People
      BY <1>1, <1>11
    <2> QED
      BY <1>4, <1>5, <1>11, <2>2, <2>3, LocksInOrder
  <1> QED
    BY <1>1, <1>6, <1>7, <1>8, <1>9, <1>10, <1>11 DEF TenantOps

\* Who is locked as an identity is one.
LEMMA IdentitiesAreKnown ==
  ASSUME TenantInv, NEW r \in Tenant!Requested, NEW i \in 1 .. Len(Tenant!LocksOf(r)),
         Tenant!LocksOf(r)[i].kind = "identity",
         NEW p \in Tenant!LocksOf(r)[i].ids \cap People
  PROVE  identity[p].created = 1
  <1>1. r.op \in TenantOps /\ r.operator \in Operators
    BY AskedType
  <1>2. ASSUME p \in Tenant!KnownIdentity(r.person)
        PROVE  identity[p].created = 1
    <2>1. p = r.person /\ identity[p].created > 0
      BY <1>2 DEF Tenant!KnownIdentity
    <2>2. identity[p].created \in {0, 1}
      BY DEF TenantInv, TenantTypes
    <2> QED
      BY <2>1, <2>2
  <1>3. ASSUME p \in Tenant!PrimaryOf(r.operator)
        PROVE  identity[p].created = 1
    <2>1. <<r.operator, p>> \in DOMAIN membership /\ membership[<<r.operator, p>>] # Absent
      BY <1>1, <1>3 DEF Tenant!PrimaryOf, TenantInv, TenantTypes
    <2>2. <<r.operator, p>>[2] = p
      OBVIOUS
    <2> QED
      BY <2>1, <2>2 DEF TenantInv, Tenant!InvitedOnce
  <1> DEFINE L == Tenant!LocksOf(r)
  <1>4. p \in Tenant!KnownIdentity(r.person) \/ p \in Tenant!PrimaryOf(r.operator)
    <2>1. CASE r.op = "CREATE"
      <3>1. /\ Len(L) = 2
            /\ L[1] = Tenant!Exclusive("admin", {r.person})
            /\ L[2] = Tenant!Exclusive("identity", Tenant!KnownIdentity(r.person))
        BY <2>1, LocksInOrder
      <3>2. i \in {1, 2}
        BY <3>1
      <3> QED
        BY <3>1, <3>2 DEF Tenant!Exclusive, Tenant!Shared, MembershipLock
    <2>2. CASE r.op = "SET_PRIMARY"
      <3>1. /\ Len(L) = 6
            /\ L[1] = Tenant!Exclusive("primary", {r.operator})
            /\ L[2] = Tenant!Exclusive("operator", {r.operator})
            /\ L[3] = Tenant!Exclusive("admin", {r.person})
            /\ L[4] = MembershipLock(r, Tenant!PrimaryOf(r.operator))
            /\ L[5] = Tenant!Exclusive("identity", Tenant!KnownIdentity(r.person))
            /\ L[6] = MembershipLock(r, {r.person})
        BY <2>2, LocksInOrder
      <3>2. i \in {1, 2, 3, 4, 5, 6}
        BY <3>1
      <3> QED
        BY <3>1, <3>2 DEF Tenant!Exclusive, Tenant!Shared, MembershipLock
    <2>3. CASE r.op \in {"ACTIVE", "SUSPENDED", "PROFILE", "SET_LIVE"}
      <3>1. /\ Len(L) = 1
            /\ L[1] = Tenant!Exclusive("operator", {r.operator})
        BY <2>3, LocksInOrder
      <3>2. i = 1
        BY <3>1
      <3> QED
        BY <3>1, <3>2 DEF Tenant!Exclusive, Tenant!Shared, MembershipLock
    <2>4. CASE r.op = "RESEND"
      <3>1. /\ Len(L) = 3
            /\ L[1] = Tenant!Shared("operator", {r.operator})
            /\ L[2] = MembershipLock(r, Tenant!PrimaryOf(r.operator))
            /\ L[3] = Tenant!Exclusive("identity", Tenant!PrimaryOf(r.operator))
        BY <2>4, LocksInOrder
      <3>2. i \in {1, 2, 3}
        BY <3>1
      <3> QED
        BY <3>1, <3>2 DEF Tenant!Exclusive, Tenant!Shared, MembershipLock
    <2>5. CASE r.op = "CREATE_STAFF"
      <3>1. /\ Len(L) = 3
            /\ L[1] = Tenant!Exclusive("staff", {<<r.operator, r.person>>})
            /\ L[2] = Tenant!Exclusive("identity", Tenant!KnownIdentity(r.person))
            /\ L[3] = Tenant!Shared("operator", {r.operator})
        BY <2>5, LocksInOrder
      <3>2. i \in {1, 2, 3}
        BY <3>1
      <3> QED
        BY <3>1, <3>2 DEF Tenant!Exclusive, Tenant!Shared, MembershipLock
    <2>6. CASE r.op \in StaffChange
      <3>1. /\ Len(L) = 1
            /\ L[1] = MembershipLock(r, {r.person})
        BY <2>6, LocksInOrder
      <3>2. i = 1
        BY <3>1
      <3> QED
        BY <3>1, <3>2 DEF Tenant!Exclusive, Tenant!Shared, MembershipLock
    <2> QED
      BY <1>1, <2>1, <2>2, <2>3, <2>4, <2>5, <2>6 DEF TenantOps
  <1> QED
    BY <1>2, <1>3, <1>4

\* A request comes to its next lock, which nobody holds in conflict.
LEMMA RequestLocks ==
  ASSUME TenantInv, NEW h \in Requests, Tenant!TakeLock(h)
  PROVE  TenantInv'
  <1> DEFINE r == task[h].asked
             held == task[h].held
             n == Len(held)
             w == Tenant!LocksOf(r)[n + 1]
             m == <<r.operator, r.person>>
             rd == IF task[h].op \in StaffChange THEN membership[m] ELSE Absent
             t == [task[h] EXCEPT !.held = Append(held, w), !.read = rd]
  <1>1. /\ task \in [Requests -> {Tenant!Nothing} \cup Tasks]
        /\ task[h] \in Tasks /\ r \in Tenant!Requested /\ r.op \in TenantOps
        /\ r.operator \in Operators
        /\ r.op \in {"CREATE", "SET_PRIMARY", "CREATE_STAFF"} \cup StaffChange =>
             r.person \in People
        /\ held \in Seq(TenantLocks) /\ n \in Nat
        /\ InPlace(h) /\ Taken(h) /\ Tenant!Busy(h)
    BY TaskType, AskedType DEF TenantInv, TenantTypes, Working, Tenant!TakeLock
  <1>2. /\ task' = [task EXCEPT ![h] = t]
        /\ UNCHANGED <<operator, identity, membership>>
        /\ ~Tenant!HasAll(h) /\ ~Tenant!HeldUp(h)
    BY DEF Tenant!TakeLock, Tenant!Wanted, StaffChange
  <1>3. n + 1 \in 1 .. Len(Tenant!LocksOf(r))
    <2>1. n # LockCount(r)
      BY <1>1, <1>2, LocksCounted DEF Tenant!HasAll
    <2>2. n <= LockCount(r)
      BY <1>1 DEF InPlace
    <2>3. LockCount(r) \in Nat
      BY DEF LockCount
    <2> QED
      BY <1>1, <2>1, <2>2, <2>3, LocksCounted
  <1>4. w \in TenantLocks
    BY <1>1, <1>3, LockTypes
  <1>5. w.kind = "identity" => \A p \in w.ids \cap People : identity[p].created = 1
    BY <1>1, <1>3, IdentitiesAreKnown
  <1>6. /\ r.op = "SET_PRIMARY" =>
             /\ n + 1 = 1 => w = Tenant!Exclusive("primary", {r.operator})
             /\ n + 1 = 2 => w = Tenant!Exclusive("operator", {r.operator})
             /\ n + 1 = 4 => w = MembershipLock(r, Tenant!PrimaryOf(r.operator))
             /\ n + 1 = 6 => w = MembershipLock(r, {r.person})
        /\ r.op = "CREATE_STAFF" /\ n + 1 = 3 => w = Tenant!Shared("operator", {r.operator})
        /\ r.op \in StaffChange => n + 1 = 1 /\ w = MembershipLock(r, {r.person})
    <2>1. r.op \in StaffChange => n + 1 = 1
      <3>1. r.op \in StaffChange => LockCount(r) = 1
        BY DEF LockCount, StaffChange
      <3> QED
        BY <1>1, <1>3, <3>1, LocksCounted
    <2> QED
      BY <1>1, <2>1, LocksInOrder
  <1>7. r.op \in StaffChange => w = Tenant!Exclusive("membership", {m})
    <2>1. r.op \in StaffChange => Tenant!MembershipRows(r.operator, {r.person}) = {m}
      BY <1>1 DEF InPlace, Tenant!MembershipRows
    <2> QED
      BY <1>6, <2>1 DEF MembershipLock
  <1>8. \A g \in Requests \ {h} : Tenant!Busy(g) =>
          \A i \in DOMAIN task[g].held : ~Tenant!Conflict(w, task[g].held[i])
    BY <1>2 DEF Tenant!HeldUp, Tenant!Wanted
  <1>9. rd \in {Absent} \cup MemberRows
    <2>1. task[h].op \in StaffChange => m \in Operators \X People
      BY <1>1 DEF InPlace
    <2> QED
      BY <2>1 DEF TenantInv, TenantTypes
  <1> HIDE DEF w, rd
  <1>10. /\ Append(held, w) \in Seq(TenantLocks)
         /\ Len(Append(held, w)) = n + 1
         /\ \A i \in 1 .. n : Append(held, w)[i] = held[i]
         /\ Append(held, w)[n + 1] = w
         /\ DOMAIN Append(held, w) = 1 .. n + 1 /\ DOMAIN held = 1 .. n
    BY <1>1, <1>4
  <1> DEFINE longer == Append(held, w)
  <1>11. /\ t \in Tasks /\ t.op = task[h].op /\ t.asked = r /\ t.held = longer
         /\ t.read = rd
    <2> HIDE DEF longer, r, n
    <2>1. longer \in Seq(TenantLocks)
      BY <1>10 DEF longer
    <2>2. t = [task[h] EXCEPT !.held = longer, !.read = rd]
      BY DEF longer
    <2> QED
      BY <1>1, <1>9, <2>1, <2>2 DEF Tasks, r
  <1> HIDE DEF t, longer
  <1>12. /\ task' \in [Requests -> {Tenant!Nothing} \cup Tasks]
         /\ task'[h] = t /\ \A g \in Requests \ {h} : task'[g] = task[g]
    BY <1>1, <1>2, <1>11
  <1>13. InPlace(h)'
    <2>1. n + 1 <= LockCount(r)
      BY <1>1, <1>3, LocksCounted
    <2> HIDE DEF r, n
    <2>2. Len(longer) = n + 1
      BY <1>10 DEF longer
    <2> QED
      BY <1>1, <1>2, <1>11, <1>12, <2>1, <2>2 DEF InPlace, r
  <1>14. Taken(h)'
    <2> DEFINE rows == Tenant!MembershipRows(r.operator, Tenant!PrimaryOf(r.operator))
               row == Tenant!MembershipRows(r.operator, {r.person})
    <2>1. /\ Len(longer) = n + 1 /\ longer[n + 1] = w
          /\ \A i \in 1 .. n : longer[i] = held[i]
          /\ DOMAIN longer = 1 .. n + 1
      BY <1>10 DEF longer
    <2>2. r.op = "SET_PRIMARY" =>
            /\ n + 1 >= 1 => longer[1] = Tenant!Exclusive("primary", {r.operator})
            /\ n + 1 >= 2 => longer[2] = Tenant!Exclusive("operator", {r.operator})
            /\ n + 1 >= 4 => longer[4] = Tenant!Exclusive("membership", rows)
            /\ n + 1 >= 6 => longer[6] = Tenant!Exclusive("membership", row)
      <3> HIDE DEF rows, row
      <3>1. r.op = "SET_PRIMARY" =>
            /\ n >= 1 => held[1] = Tenant!Exclusive("primary", {r.operator})
            /\ n >= 2 => held[2] = Tenant!Exclusive("operator", {r.operator})
            /\ n >= 4 => held[4] = Tenant!Exclusive("membership", rows)
            /\ n >= 6 => held[6] = Tenant!Exclusive("membership", row)
        BY <1>1, Zenon DEF Taken, rows, row
      <3>2. r.op = "SET_PRIMARY" =>
            /\ n + 1 = 4 => w = Tenant!Exclusive("membership", rows)
            /\ n + 1 = 6 => w = Tenant!Exclusive("membership", row)
        BY <1>6, Zenon DEF MembershipLock, rows, row
      <3> HIDE DEF n, held, r
      <3>3. n \in Nat
        BY <1>1
      <3> QED
        BY <1>6, <2>1, <3>1, <3>2, <3>3
    <2>3. r.op = "CREATE_STAFF" /\ n + 1 >= 3 =>
            longer[3] = Tenant!Shared("operator", {r.operator})
      <3>1. r.op = "CREATE_STAFF" /\ n >= 3 => held[3] = Tenant!Shared("operator", {r.operator})
        BY <1>1, Zenon DEF Taken
      <3> QED
        BY <1>1, <1>6, <2>1, <3>1
    <2>4. r.op \in StaffChange =>
            longer[1] = Tenant!Exclusive("membership", {m}) /\ rd = membership[m]
      BY <1>1, <1>6, <1>7, <2>1 DEF rd, InPlace
    <2>5. \A i \in DOMAIN longer : longer[i].kind = "identity" =>
            \A p \in longer[i].ids \cap People : identity[p].created = 1
      <3>1. \A i \in 1 .. n : held[i].kind = "identity" =>
              \A p \in held[i].ids \cap People : identity[p].created = 1
        BY <1>1, <1>10 DEF Taken
      <3> QED
        BY <1>1, <1>5, <2>1, <3>1
    <2>6. rows' = rows /\ row' = row /\ r' = r
      <3>1. r' = r
        BY <1>11, <1>12
      <3> QED
        BY <1>2, <3>1 DEF Tenant!PrimaryOf, Tenant!MembershipRows
    <2>7. task'[h].asked = r /\ task'[h].held = longer /\ task'[h].read = rd
      BY <1>11, <1>12
    <2>8. Len(task'[h].held) = n + 1
      BY <2>1, <2>7
    <2> QED
      BY <1>2, <2>2, <2>3, <2>4, <2>5, <2>6, <2>7, <2>8, Zenon
         DEF Taken, Tenant!Exclusive, Tenant!Shared
  <1>15. Working'
    <2>1. \A g \in Requests \ {h} : Tenant!Busy(g) => (InPlace(g) /\ Taken(g))'
      BY <1>2, <1>12, OthersKept, RowsUnchanged
    <2> QED
      BY <1>12, <1>13, <1>14, <2>1 DEF Working, Tenant!Busy
  <1>16. Apart'
    <2>1. \A g \in Requests \ {h} : Tenant!Busy(g) =>
            \A i \in DOMAIN task[g].held, j \in DOMAIN longer :
              ~Tenant!Conflict(longer[j], task[g].held[i])
      <3> TAKE g \in Requests \ {h}
      <3> HAVE Tenant!Busy(g)
      <3> TAKE i \in DOMAIN task[g].held, j \in DOMAIN longer
      <3>1. CASE j = n + 1
        BY <1>8, <1>10, <3>1 DEF longer
      <3>2. CASE j # n + 1
        <4>1. j \in 1 .. n /\ longer[j] = held[j]
          BY <1>1, <1>10, <3>2 DEF longer
        <4>2. ~Tenant!Conflict(held[j], task[g].held[i])
          BY <1>1, <1>10, <4>1 DEF TenantInv, Apart
        <4> QED
          BY <4>1, <4>2
      <3> QED
        BY <3>1, <3>2
    <2>2. \A a, b : Tenant!Conflict(a, b) <=> Tenant!Conflict(b, a)
      BY DEF Tenant!Conflict
    <2>3. \A g, k \in Requests : g # k /\ Tenant!Busy(g) /\ Tenant!Busy(k) =>
            \A i \in DOMAIN task'[g].held, j \in DOMAIN task'[k].held :
              ~Tenant!Conflict(task'[g].held[i], task'[k].held[j])
      <3> HIDE DEF held, n, r
      <3>1. task'[h].held = longer
        BY <1>11, <1>12
      <3> QED
        BY <1>12, <2>1, <2>2, <3>1 DEF TenantInv, Apart
    <2>4. \A g \in Requests : Tenant!Busy(g)' => Tenant!Busy(g)
      BY <1>1, <1>12 DEF Tenant!Busy
    <2> QED
      BY <2>3, <2>4 DEF Apart, Tenant!Conflict
  <1> QED
    BY <1>2, <1>12, <1>15, <1>16, SameRowsSameFacts DEF TenantInv, TenantTypes

-----------------------------------------------------------------------------
\* What a request has at its commit.
LEMMA AtCommit ==
  ASSUME TenantInv, NEW h \in Requests, NEW ops, Tenant!Done(h, ops)
  PROVE  /\ Tenant!Busy(h) /\ InPlace(h) /\ Taken(h)
         /\ task[h].asked \in Tenant!Requested
         /\ task[h].asked.op = task[h].op /\ task[h].op \in ops
         /\ task[h].asked.operator \in Operators
         /\ task[h].op \in {"CREATE", "SET_PRIMARY", "CREATE_STAFF"} \cup StaffChange =>
              task[h].asked.person \in People
         /\ Len(task[h].held) = LockCount(task[h].asked)
         /\ task[h].held \in Seq(TenantLocks)
         /\ task' = [task EXCEPT ![h] = Tenant!Nothing]
  <1>1. Tenant!Busy(h) /\ Len(task[h].held) = Len(Tenant!LocksOf(task[h].asked))
        /\ task[h].op \in ops /\ task' = [task EXCEPT ![h] = Tenant!Nothing]
    BY DEF Tenant!Done, Tenant!HasAll
  <1>2. InPlace(h) /\ Taken(h) /\ task[h].asked.op = task[h].op
    BY <1>1 DEF TenantInv, Working, InPlace
  <1> QED
    BY <1>1, <1>2, TaskType, AskedType, LocksCounted DEF TenantInv

\* An invitation leaves the person an identity, and never a second one.
LEMMA IdentityGiven ==
  ASSUME TenantInv, NEW h \in Requests, Taken(h), task[h].asked.person \in People,
         Tenant!WithIdentity(h)
  PROVE  /\ identity' \in [People -> [created : {0, 1}, mailed : 0 .. 1]]
         /\ \A q \in People : /\ identity'[q].mailed = identity'[q].created
                              /\ identity[q].created = 1 => identity'[q].created = 1
         /\ identity'[task[h].asked.person].created = 1
  <1> DEFINE p == task[h].asked.person
  <1>1. /\ identity \in [People -> [created : {0, 1}, mailed : 0 .. 1]]
        /\ \A q \in People : identity[q].mailed = identity[q].created
    BY DEF TenantInv, TenantTypes, Tenant!InvitedOnce
  <1>2. CASE Tenant!SawIdentity(h)
    <2>1. identity[p].created = 1
      BY <1>2 DEF Tenant!SawIdentity, Tenant!Asks, Taken
    <2>2. identity' = identity
      BY <1>2 DEF Tenant!WithIdentity
    <2> QED
      BY <1>1, <2>1, <2>2
  <1>3. CASE ~Tenant!SawIdentity(h)
    <2>1. /\ identity[p].created = 0
          /\ identity' = [identity EXCEPT ![p].created = 1, ![p].mailed = @ + 1]
      BY <1>3 DEF Tenant!WithIdentity, Tenant!Asks
    <2>2. identity[p] \in [created : {0, 1}, mailed : 0 .. 1] /\ identity[p].mailed = 0
      BY <1>1, <2>1
    <2> DEFINE row == [identity[p] EXCEPT !.created = 1, !.mailed = @ + 1]
    <2>3. row \in [created : {0, 1}, mailed : 0 .. 1] /\ row.created = 1 /\ row.mailed = 1
      <3> HIDE DEF p
      <3>1. ASSUME NEW old \in [created : {0, 1}, mailed : 0 .. 1], NEW a \in {0, 1},
                   NEW b \in 0 .. 1
            PROVE  [old EXCEPT !.created = a, !.mailed = b] \in [created : {0, 1}, mailed : 0 .. 1]
        BY Zenon
      <3>2. row = [identity[p] EXCEPT !.created = 1, !.mailed = 1]
        BY <2>2
      <3> HIDE DEF row
      <3>3. row \in [created : {0, 1}, mailed : 0 .. 1]
        <4>1. 1 \in {0, 1} /\ 1 \in 0 .. 1
          OBVIOUS
        <4> QED
          BY <2>2, <3>1, <3>2, <4>1, Zenon
      <3>4. row.created = 1 /\ row.mailed = 1
        BY <2>2, <3>2
      <3> QED
        BY <3>3, <3>4
    <2>4. identity' = [identity EXCEPT ![p] = row]
      BY <2>1
    <2> HIDE DEF row, p
    <2> QED
      BY <1>1, <2>3, <2>4 DEF p
  <1> QED
    BY <1>2, <1>3

\* An operator that is not there has no members.
LEMMA NoMembers ==
  ASSUME TenantInv, NEW o \in Operators, operator[o] = Absent, NEW p \in People
  PROVE  membership[<<o, p>>] = Absent
  <1>1. <<o, p>> \in DOMAIN membership /\ <<o, p>>[1] = o
    BY DEF TenantInv, TenantTypes
  <1> QED
    BY <1>1 DEF TenantInv, Tenant!InvitedOnce

LEMMA MemberRow ==
  ASSUME NEW role \in {"ADMIN", "VIEWER"}, NEW primary \in BOOLEAN
  PROVE  /\ Tenant!Member(role, primary) \in MemberRows
         /\ Tenant!Member(role, primary) # Absent
         /\ Tenant!Member(role, primary).role = role
         /\ Tenant!Member(role, primary).primary = primary
         /\ Tenant!Member(role, primary).status = "ACTIVE"
  <1>1. Tenant!Member(role, primary) \in MemberRows
    BY DEF Tenant!Member, MemberRows
  <1>2. /\ Tenant!Member(role, primary).role = role
        /\ Tenant!Member(role, primary).primary = primary
        /\ Tenant!Member(role, primary).status = "ACTIVE"
    BY DEF Tenant!Member
  <1> QED
    BY <1>1, <1>2, TenancyConstants

\* Provisioning: the operator and its administrator's identity are new, or refused.
LEMMA CreateKeeps ==
  ASSUME TenantInv, NEW h \in Requests, Tenant!Create(h)
  PROVE  TenantInv'
  <1>0. task[h].asked.operator \in Operators /\ task[h].asked.person \in People
    BY AtCommit DEF Tenant!Create
  <1> PICK o \in Operators, p \in People :
        o = task[h].asked.operator /\ p = task[h].asked.person
    BY <1>0
  <1> DEFINE m0 == <<o, p>>
             row == Tenant!Member("ADMIN", TRUE)
  <1>1. /\ Tenant!Done(h, {"CREATE"}) /\ operator[o] = Absent
        /\ operator' = [operator EXCEPT ![o] = Tenant!Provisioned]
        /\ membership' = [membership EXCEPT ![m0] = row]
        /\ Tenant!WithIdentity(h)
    BY DEF Tenant!Create, Tenant!Asks
  <1>2. /\ task' = [task EXCEPT ![h] = Tenant!Nothing] /\ Taken(h)
    BY <1>1, AtCommit
  <1>3. /\ identity' \in [People -> [created : {0, 1}, mailed : 0 .. 1]]
        /\ \A q \in People : /\ identity'[q].mailed = identity'[q].created
                             /\ identity[q].created = 1 => identity'[q].created = 1
        /\ identity'[p].created = 1
    BY <1>1, <1>2, IdentityGiven
  <1>4. /\ row \in MemberRows /\ row # Absent /\ row.role = "ADMIN" /\ row.primary
        /\ row.status = "ACTIVE"
    BY MemberRow
  <1>5. /\ Tenant!Provisioned \in OperatorRows /\ Tenant!Provisioned # Absent
        /\ Tenant!Provisioned.told = Tenant!Provisioned.status
        /\ ~Tenant!Provisioned.repeated
    <2>1. Tenant!Provisioned \in OperatorRows
      BY DEF Tenant!Provisioned, OperatorRows, OperatorStatus
    <2> QED
      BY <2>1, TenancyConstants DEF Tenant!Provisioned
  <1> HIDE DEF row
  <1>6. /\ operator \in [Operators -> {Absent} \cup OperatorRows]
        /\ membership \in [Operators \X People -> {Absent} \cup MemberRows]
    BY DEF TenantInv, TenantTypes
  <1>7. /\ operator' \in [Operators -> {Absent} \cup OperatorRows]
        /\ operator'[o] = Tenant!Provisioned
        /\ \A x \in Operators \ {o} : operator'[x] = operator[x]
    BY <1>1, <1>2, <1>5, <1>6
  <1>8. /\ membership' \in [Operators \X People -> {Absent} \cup MemberRows]
        /\ membership'[m0] = row
        /\ \A m \in Operators \X People : m # m0 => membership'[m] = membership[m]
    BY <1>1, <1>2, <1>4, <1>6
  <1>9. Grows
    BY <1>3, <1>4, <1>5, <1>7, <1>8 DEF Grows
  <1>10. ASSUME NEW x \in Operators \ {o}, NEW q \in People
         PROVE  membership'[<<x, q>>] = membership[<<x, q>>]
    BY <1>8
  <1>11. \A g \in Requests \ {h} : Tenant!Busy(g) => LeftAlone(g)
    <2> SUFFICES ASSUME NEW g \in Requests \ {h}, Tenant!Busy(g) PROVE LeftAlone(g)
      OBVIOUS
    <2>1. task[g].asked \in Tenant!Requested /\ InPlace(g)
      BY TaskType DEF TenantInv, Working
    <2>2. task[g].asked.op # "CREATE" => task[g].asked.operator # o
      BY <1>1, <2>1 DEF InPlace
    <2> QED
      BY <1>10, <2>1, <2>2, AskedType DEF LeftAlone, Alike, StaffChange
  <1>12. Working' /\ Apart' /\ task' \in [Requests -> {Tenant!Nothing} \cup Tasks]
    BY <1>2, <1>9, <1>11, RequestEnds
  <1>13. \A q \in People : membership[<<o, q>>] = Absent
    BY <1>1, <1>2, NoMembers
  <1>14. Tenant!PrimaryOf(o)' = {p}
    BY <1>2, <1>4, <1>8, <1>13 DEF Tenant!PrimaryOf
  <1>15. \A x \in Operators \ {o} : Tenant!PrimaryOf(x)' = Tenant!PrimaryOf(x)
    BY <1>10 DEF Tenant!PrimaryOf
  <1>16. Primaries'
    <2>1. ASSUME NEW x \in Operators, operator'[x] # Absent
          PROVE  \E q \in People :
                   /\ Tenant!PrimaryOf(x)' = {q}
                   /\ membership'[<<x, q>>].status = "ACTIVE"
                   /\ membership'[<<x, q>>].role = "ADMIN"
      <3>1. CASE x = o
        BY <1>4, <1>8, <1>14, <3>1
      <3>2. CASE x # o
        BY <1>7, <1>10, <1>15, <2>1, <3>2 DEF TenantInv, Primaries
      <3> QED
        BY <3>1, <3>2
    <2> QED
      BY <2>1 DEF Primaries
  <1>17. Tenant!InvitedOnce'
    <2>1. ASSUME NEW m \in Operators \X People, membership'[m] # Absent
          PROVE  identity'[m[2]].created = 1 /\ operator'[m[1]] # Absent
      <3>1. CASE m = m0
        BY <1>3, <1>5, <1>7, <3>1
      <3>2. CASE m # m0
        <4>1. membership[m] # Absent /\ m \in DOMAIN membership
              /\ m[1] \in Operators /\ m[2] \in People
          BY <1>6, <1>8, <2>1, <3>2
        <4>2. identity[m[2]].created = 1 /\ operator[m[1]] # Absent
          BY <4>1 DEF TenantInv, Tenant!InvitedOnce
        <4> QED
          BY <1>3, <1>5, <1>7, <4>1, <4>2
      <3> QED
        BY <3>1, <3>2
    <2>2. DOMAIN membership' = Operators \X People
      BY <1>8
    <2> QED
      BY <1>3, <2>1, <2>2 DEF Tenant!InvitedOnce
  <1>18. Tenant!StatusIsTold'
    BY <1>5, <1>7 DEF TenantInv, Tenant!StatusIsTold
  <1> QED
    BY <1>3, <1>7, <1>8, <1>12, <1>16, <1>17, <1>18 DEF TenantInv, TenantTypes

\* A change of one operator's memberships that leaves it one primary
\* administrator leaves every other operator's as they were.
LEMMA SetPrimaryKeeps ==
  ASSUME TenantInv, NEW h \in Requests, Tenant!SetPrimaryAdmin(h)
  PROVE  TenantInv'
  <1>0. task[h].asked.operator \in Operators /\ task[h].asked.person \in People
    <2>1. Tenant!Done(h, {"SET_PRIMARY"})
      BY DEF Tenant!SetPrimaryAdmin
    <2>2. task[h].op = "SET_PRIMARY"
      BY <2>1, AtCommit
    <2> QED
      BY <2>1, <2>2, AtCommit
  <1> PICK o \in Operators, p \in People :
        o = task[h].asked.operator /\ p = task[h].asked.person
    BY <1>0
  <1> DEFINE m0 == <<o, p>>
             row == [Tenant!Member("ADMIN", TRUE) EXCEPT
                       !.override = IF membership[m0] = Absent THEN @
                                    ELSE membership[m0].override]
             Left(m) == [membership[m] EXCEPT !.primary = FALSE, !.status = "REVOKED"]
  <1>1. /\ Tenant!Done(h, {"SET_PRIMARY"}) /\ Tenant!WithIdentity(h)
        /\ membership' = [m \in DOMAIN membership |->
             IF m = m0 THEN row
             ELSE IF m[1] = o /\ membership[m] # Absent /\ membership[m].primary THEN Left(m)
             ELSE membership[m]]
        /\ operator' = operator
    BY DEF Tenant!SetPrimaryAdmin, Tenant!Asks
  <1>2. /\ task' = [task EXCEPT ![h] = Tenant!Nothing] /\ Taken(h) /\ InPlace(h)
        /\ Tenant!Busy(h) /\ task[h].op = "SET_PRIMARY" /\ task[h].asked.op = "SET_PRIMARY"
        /\ Len(task[h].held) = 6 /\ task[h].held \in Seq(TenantLocks)
    <2>1. Tenant!Done(h, {"SET_PRIMARY"})
      BY <1>1
    <2>2. /\ task' = [task EXCEPT ![h] = Tenant!Nothing] /\ Taken(h) /\ InPlace(h)
          /\ Tenant!Busy(h) /\ task[h].op = "SET_PRIMARY" /\ task[h].asked.op = task[h].op
          /\ Len(task[h].held) = LockCount(task[h].asked) /\ task[h].held \in Seq(TenantLocks)
      BY <2>1, AtCommit
    <2> QED
      BY <2>2 DEF LockCount
  <1>3. /\ identity' \in [People -> [created : {0, 1}, mailed : 0 .. 1]]
        /\ \A q \in People : /\ identity'[q].mailed = identity'[q].created
                             /\ identity[q].created = 1 => identity'[q].created = 1
        /\ identity'[p].created = 1
    BY <1>1, <1>2, IdentityGiven
  <1>4. membership \in [Operators \X People -> {Absent} \cup MemberRows]
    BY DEF TenantInv, TenantTypes
  <1>5. /\ row \in MemberRows /\ row # Absent /\ row.role = "ADMIN" /\ row.primary
        /\ row.status = "ACTIVE"
    <2>1. Tenant!Member("ADMIN", TRUE).override = "none"
      BY DEF Tenant!Member
    <2>2. PICK v \in Overrides \cup {"none"} :
            row = [Tenant!Member("ADMIN", TRUE) EXCEPT !.override = v]
      <3>1. m0 \in Operators \X People
        OBVIOUS
      <3>2. membership[m0] # Absent => membership[m0].override \in Overrides \cup {"none"}
        BY <1>4, <3>1 DEF MemberRows
      <3> QED
        BY <2>1, <3>2
    <2> HIDE DEF row
    <2>3. row = [role |-> "ADMIN", status |-> "ACTIVE", primary |-> TRUE, override |-> v]
      BY <2>2 DEF Tenant!Member
    <2>4. row \in MemberRows
      BY <2>3 DEF MemberRows
    <2> QED
      BY <2>3, <2>4, TenancyConstants
  <1> HIDE DEF row
  <1>6. ASSUME NEW m \in Operators \X People, membership[m] # Absent
        PROVE  /\ Left(m) \in MemberRows /\ Left(m) # Absent /\ ~Left(m).primary
    <2>1. PICK old \in MemberRows : old = membership[m]
      BY <1>4, <1>6
    <2>2. /\ [old EXCEPT !.primary = FALSE, !.status = "REVOKED"] \in MemberRows
          /\ ~[old EXCEPT !.primary = FALSE, !.status = "REVOKED"].primary
      BY DEF MemberRows
    <2> QED
      BY <2>1, <2>2, TenancyConstants
  <1>7. ASSUME NEW m \in Operators \X People
        PROVE  membership'[m] =
                 IF m = m0 THEN row
                 ELSE IF m[1] = o /\ membership[m] # Absent /\ membership[m].primary THEN Left(m)
                 ELSE membership[m]
    BY <1>1, <1>4
  <1> HIDE DEF Left
  <1>8. membership' \in [Operators \X People -> {Absent} \cup MemberRows]
    <2>1. DOMAIN membership = Operators \X People
      BY <1>4
    <2>2. \A m \in Operators \X People : membership[m] \in {Absent} \cup MemberRows
      BY <1>4
    <2>3. \A m \in Operators \X People : membership'[m] \in {Absent} \cup MemberRows
      BY <1>5, <1>6, <1>7, <2>2
    <2>4. membership' = [m \in Operators \X People |-> membership'[m]]
      <3>1. membership' = [m \in Operators \X People |->
             IF m = m0 THEN row
             ELSE IF m[1] = o /\ membership[m] # Absent /\ membership[m].primary THEN Left(m)
             ELSE membership[m]]
        BY <1>1, <2>1
      <3> QED
        BY <1>7, <3>1
    <2> QED
      BY <2>3, <2>4
  <1>9. Grows
    BY <1>1, <1>3, <1>5, <1>6, <1>7 DEF Grows
  <1>10. ASSUME NEW x \in Operators \ {o}, NEW q \in People
         PROVE  membership'[<<x, q>>] = membership[<<x, q>>]
    BY <1>7
  \* The rows it writes are under its locks.
  <1>11. /\ task[h].held[1] = Tenant!Exclusive("primary", {o})
         /\ task[h].held[4] = Tenant!Exclusive("membership",
              Tenant!MembershipRows(o, Tenant!PrimaryOf(o)))
         /\ task[h].held[6] = Tenant!Exclusive("membership", Tenant!MembershipRows(o, {p}))
         /\ 1 \in DOMAIN task[h].held /\ 4 \in DOMAIN task[h].held /\ 6 \in DOMAIN task[h].held
    <2>1. DOMAIN task[h].held = 1 .. 6
      BY <1>2
    <2>2. 6 >= 1 /\ 6 >= 4 /\ 6 >= 6 /\ 1 \in 1 .. 6 /\ 4 \in 1 .. 6 /\ 6 \in 1 .. 6
      OBVIOUS
    <2> QED
      BY <1>2, <2>1, <2>2, Zenon DEF Taken
  <1>12. \A g \in Requests \ {h} : Tenant!Busy(g) => LeftAlone(g)
    <2> SUFFICES ASSUME NEW g \in Requests \ {h}, Tenant!Busy(g) PROVE LeftAlone(g)
      OBVIOUS
    <2>1. /\ task[g].asked \in Tenant!Requested /\ InPlace(g) /\ Taken(g)
          /\ task[g].held \in Seq(TenantLocks)
      BY TaskType DEF TenantInv, Working
    <2>2. PICK r \in Tenant!Requested, n \in Nat : r = task[g].asked /\ n = Len(task[g].held)
      BY <2>1
    <2>3. \A i \in DOMAIN task[g].held, j \in {1, 4, 6} :
            ~Tenant!Conflict(task[g].held[i], task[h].held[j])
      BY <1>2, <1>11 DEF TenantInv, Apart
    <2>4. n >= 1 => 1 \in DOMAIN task[g].held
      BY <2>1, <2>2
    <2>5. ASSUME r.op = "SET_PRIMARY", n >= 4
          PROVE  r.operator # o
      <3>1. task[g].held[1] = Tenant!Exclusive("primary", {r.operator})
        <4>1. n >= 1
          BY <2>5
        <4> QED
          BY <2>1, <2>2, <2>5, <4>1, Zenon DEF Taken
      <3>2. ~Tenant!Conflict(task[g].held[1], task[h].held[1])
        BY <2>2, <2>3, <2>4, <2>5
      <3>3. \A x : Tenant!Conflict(Tenant!Exclusive("primary", {x}),
                                  Tenant!Exclusive("primary", {x}))
        BY DEF Tenant!Conflict, Tenant!Exclusive
      <3> QED
        BY <1>11, <3>1, <3>2, <3>3, Zenon
    <2>6. ASSUME r.op \in StaffChange, n >= 1
          PROVE  membership'[<<r.operator, r.person>>] = membership[<<r.operator, r.person>>]
      <3> PICK x \in Operators, q \in People : x = r.operator /\ q = r.person
        BY <2>6, AskedType
      <3>1. task[g].held[1] = Tenant!Exclusive("membership", {<<x, q>>})
        BY <2>1, <2>2, <2>6, Zenon DEF Taken
      <3>2. /\ <<x, q>> \notin Tenant!MembershipRows(o, Tenant!PrimaryOf(o))
            /\ <<x, q>> \notin Tenant!MembershipRows(o, {p})
        <4>1. /\ ~Tenant!Conflict(task[g].held[1], task[h].held[4])
              /\ ~Tenant!Conflict(task[g].held[1], task[h].held[6])
          BY <2>2, <2>3, <2>4, <2>6
        <4> QED
          BY <1>11, <3>1, <4>1 DEF Tenant!Conflict, Tenant!Exclusive
      <3>3. membership[<<x, q>>] # Absent
        BY <2>1, <2>2, <2>6 DEF InPlace
      <3>4. ~(x = o /\ q = p) /\ ~(x = o /\ membership[<<x, q>>].primary)
        BY <3>2, <3>3 DEF Tenant!MembershipRows, Tenant!PrimaryOf
      <3>5. <<x, q>> # m0 /\ <<x, q>>[1] = x /\ <<x, q>> \in Operators \X People
        BY <3>4
      <3> QED
        BY <1>7, <3>4, <3>5
    <2>7. ASSUME r.op = "SET_PRIMARY", n >= 4, NEW q \in People
          PROVE  Alike(<<r.operator, q>>)
      <3>1. r.operator \in Operators
        BY AskedType
      <3> QED
        BY <1>10, <2>5, <2>7, <3>1 DEF Alike
    <2> QED
      BY <2>2, <2>6, <2>7 DEF LeftAlone
  <1>13. Working' /\ Apart' /\ task' \in [Requests -> {Tenant!Nothing} \cup Tasks]
    BY <1>2, <1>9, <1>12, RequestEnds
  <1>14. Tenant!PrimaryOf(o)' = {p}
    <2>1. ASSUME NEW q \in People
          PROVE  (membership'[<<o, q>>] # Absent /\ membership'[<<o, q>>].primary) <=> q = p
      <3>1. CASE q = p
        BY <1>5, <1>7, <3>1
      <3>2. CASE q # p
        <4>1. <<o, q>> # m0 /\ <<o, q>>[1] = o /\ <<o, q>> \in Operators \X People
          BY <3>2
        <4> QED
          BY <1>6, <1>7, <3>2, <4>1
      <3> QED
        BY <3>1, <3>2
    <2> QED
      BY <2>1 DEF Tenant!PrimaryOf
  <1>15. \A x \in Operators \ {o} : Tenant!PrimaryOf(x)' = Tenant!PrimaryOf(x)
    BY <1>10 DEF Tenant!PrimaryOf
  <1>16. Primaries'
    <2>1. ASSUME NEW x \in Operators, operator'[x] # Absent
          PROVE  \E q \in People :
                   /\ Tenant!PrimaryOf(x)' = {q}
                   /\ membership'[<<x, q>>].status = "ACTIVE"
                   /\ membership'[<<x, q>>].role = "ADMIN"
      <3>1. CASE x = o
        BY <1>5, <1>7, <1>14, <3>1
      <3>2. CASE x # o
        BY <1>1, <1>10, <1>15, <2>1, <3>2 DEF TenantInv, Primaries
      <3> QED
        BY <3>1, <3>2
    <2> QED
      BY <2>1 DEF Primaries
  <1>17. Tenant!InvitedOnce'
    <2>1. ASSUME NEW m \in Operators \X People, membership'[m] # Absent
          PROVE  identity'[m[2]].created = 1 /\ operator'[m[1]] # Absent
      <3>1. CASE m = m0
        <4>1. operator[o] # Absent
          BY <1>2 DEF InPlace
        <4> QED
          BY <1>1, <1>3, <3>1, <4>1
      <3>2. CASE m # m0
        <4>1. membership[m] # Absent /\ m \in DOMAIN membership
              /\ m[1] \in Operators /\ m[2] \in People
          BY <1>4, <1>7, <2>1, <3>2
        <4>2. identity[m[2]].created = 1 /\ operator[m[1]] # Absent
          BY <4>1 DEF TenantInv, Tenant!InvitedOnce
        <4> QED
          BY <1>1, <1>3, <4>1, <4>2
      <3> QED
        BY <3>1, <3>2
    <2>2. DOMAIN membership' = Operators \X People
      BY <1>8
    <2> QED
      BY <1>3, <2>1, <2>2 DEF Tenant!InvitedOnce
  <1>18. Tenant!StatusIsTold'
    BY <1>1 DEF TenantInv, Tenant!StatusIsTold
  <1> QED
    BY <1>1, <1>3, <1>8, <1>13, <1>16, <1>17, <1>18 DEF TenantInv, TenantTypes

\* The stream is told of a change of status, once.
LEMMA TransitionStatusKeeps ==
  ASSUME TenantInv, NEW h \in Requests, Tenant!TransitionStatus(h)
  PROVE  TenantInv'
  <1>1. /\ Tenant!Done(h, {"ACTIVE", "SUSPENDED"}) /\ UNCHANGED <<identity, membership>>
    BY DEF Tenant!TransitionStatus
  <1>2. /\ task' = [task EXCEPT ![h] = Tenant!Nothing] /\ InPlace(h)
        /\ task[h].asked.op \in {"ACTIVE", "SUSPENDED"} /\ task[h].asked.operator \in Operators
    BY <1>1, AtCommit
  <1> PICK o \in Operators, st \in {"ACTIVE", "SUSPENDED"} :
        o = task[h].asked.operator /\ st = task[h].asked.op
    BY <1>2
  <1>3. operator[o] # Absent
    BY <1>2 DEF InPlace
  <1>4. operator \in [Operators -> {Absent} \cup OperatorRows]
        /\ operator[o].told = operator[o].status /\ ~operator[o].repeated
    BY <1>3 DEF TenantInv, TenantTypes, Tenant!StatusIsTold
  <1>5. CASE operator[o].status = st
    <2>1. operator' = operator
      BY <1>5 DEF Tenant!TransitionStatus, Tenant!Asks
    <2> QED
      BY <1>1, <1>2, <2>1, RequestLeaves
  <1>6. CASE operator[o].status # st
    <2> DEFINE row == [operator[o] EXCEPT !.status = st, !.told = st,
                                          !.repeated = @ \/ operator[o].told = st]
    <2>1. operator' = [operator EXCEPT ![o] = row]
      <3>1. operator' = Tenant!Told(o, st)
        BY <1>6 DEF Tenant!TransitionStatus, Tenant!Asks
      <3> QED
        BY <3>1, Zenon DEF Tenant!Told
    <2>2. /\ row \in OperatorRows /\ row # Absent /\ row.told = row.status /\ ~row.repeated
      <3>1. PICK old \in OperatorRows : old = operator[o]
        BY <1>3, <1>4
      <3>2. (old.repeated \/ old.told = st) <=> FALSE
        BY <1>4, <1>6, <3>1
      <3>3. row = [old EXCEPT !.status = st, !.told = st, !.repeated = FALSE]
        BY <3>1, <3>2
      <3>4. [old EXCEPT !.status = st, !.told = st, !.repeated = FALSE] \in OperatorRows
        <4>1. st \in OperatorStatus
          BY DEF OperatorStatus
        <4> QED
          BY <4>1, Zenon DEF OperatorRows
      <3> HIDE DEF row
      <3>5. row.told = st /\ row.status = st /\ ~row.repeated
        BY <3>3 DEF OperatorRows
      <3> QED
        BY <3>3, <3>4, <3>5, TenancyConstants
    <2> HIDE DEF row
    <2>3. /\ operator' \in [Operators -> {Absent} \cup OperatorRows]
          /\ operator'[o] = row /\ \A x \in Operators \ {o} : operator'[x] = operator[x]
      BY <1>4, <2>1, <2>2
    <2>4. \A x \in Operators : operator'[x] = Absent <=> operator[x] = Absent
      BY <1>3, <2>2, <2>3
    <2>5. Grows /\ \A g \in Requests : LeftAlone(g)
      BY <1>1, <2>4 DEF Grows, LeftAlone, Alike
    <2>6. Working' /\ Apart' /\ task' \in [Requests -> {Tenant!Nothing} \cup Tasks]
      BY <1>2, <2>5, RequestEnds
    <2>7. \A x \in Operators : Tenant!PrimaryOf(x)' = Tenant!PrimaryOf(x)
      BY <1>1 DEF Tenant!PrimaryOf
    <2>8. Primaries'
      BY <1>1, <2>4, <2>7 DEF TenantInv, Primaries
    <2>9. Tenant!InvitedOnce'
      <3>1. \A m \in DOMAIN membership : m[1] \in Operators
        BY DEF TenantInv, TenantTypes
      <3> QED
        BY <1>1, <2>4, <3>1 DEF TenantInv, Tenant!InvitedOnce
    <2>10. Tenant!StatusIsTold'
      BY <2>2, <2>3 DEF TenantInv, Tenant!StatusIsTold
    <2> QED
      BY <1>1, <2>3, <2>6, <2>8, <2>9, <2>10 DEF TenantInv, TenantTypes
  <1> QED
    BY <1>5, <1>6

\* A row that says nothing of the primary administrator is written under its
\* lock, or is new under its operator's.
WritesMember(h, o, p, row) ==
  /\ task' = [task EXCEPT ![h] = Tenant!Nothing]
  /\ membership' = [membership EXCEPT ![<<o, p>>] = row]
  /\ operator' = operator /\ operator[o] # Absent
  /\ identity' \in [People -> [created : {0, 1}, mailed : 0 .. 1]]
  /\ \A q \in People : /\ identity'[q].mailed = identity'[q].created
                       /\ identity[q].created = 1 => identity'[q].created = 1
  /\ identity'[p].created = 1
  /\ membership[<<o, p>>] # Absent => ~membership[<<o, p>>].primary
  /\ \A g \in Requests \ {h} : Tenant!Busy(g) =>
        /\ task[g].asked.op = "SET_PRIMARY" /\ Len(task[g].held) >= 4 =>
             task[g].asked.operator # o \/ membership[<<o, p>>] # Absent
        /\ task[g].asked.op \in StaffChange /\ Len(task[g].held) >= 1 =>
             <<task[g].asked.operator, task[g].asked.person>> # <<o, p>>

\* A membership is written under its lock, or where there is none.
LEMMA MemberWritten ==
  ASSUME TenantInv, NEW h \in Requests, NEW o \in Operators, NEW p \in People,
         NEW row \in MemberRows, ~row.primary, WritesMember(h, o, p, row)
  PROVE  TenantInv'
  <1> USE DEF WritesMember
  <1> DEFINE m0 == <<o, p>>
  <1>1. membership \in [Operators \X People -> {Absent} \cup MemberRows]
    BY DEF TenantInv, TenantTypes
  <1>2. /\ membership' \in [Operators \X People -> {Absent} \cup MemberRows]
        /\ membership'[m0] = row
        /\ \A m \in Operators \X People : m # m0 => membership'[m] = membership[m]
        /\ row # Absent
    BY <1>1, TenancyConstants
  <1>3. Grows
    BY <1>2 DEF Grows
  <1>4. \A g \in Requests \ {h} : Tenant!Busy(g) => LeftAlone(g)
    <2> SUFFICES ASSUME NEW g \in Requests \ {h}, Tenant!Busy(g) PROVE LeftAlone(g)
      OBVIOUS
    <2>1. PICK r \in Tenant!Requested, n \in Nat : r = task[g].asked /\ n = Len(task[g].held)
      BY TaskType DEF TenantInv
    <2>2. /\ r.op = "SET_PRIMARY" /\ n >= 4 => r.operator # o \/ membership[<<o, p>>] # Absent
          /\ r.op \in StaffChange /\ n >= 1 => <<r.operator, r.person>> # <<o, p>>
      BY <2>1
    <2>3. ASSUME r.op = "SET_PRIMARY", n >= 4, NEW q \in People
          PROVE  Alike(<<r.operator, q>>)
      <3>1. PICK x \in Operators : x = r.operator
        BY AskedType
      <3>2. CASE <<x, q>> = m0
        BY <1>2, <2>2, <2>3, <3>1, <3>2 DEF Alike
      <3>3. CASE <<x, q>> # m0
        BY <1>2, <3>1, <3>3 DEF Alike
      <3> QED
        BY <3>2, <3>3
    <2>4. ASSUME r.op \in StaffChange, n >= 1
          PROVE  membership'[<<r.operator, r.person>>] = membership[<<r.operator, r.person>>]
      <3>1. <<r.operator, r.person>> \in Operators \X People
        BY <2>4, AskedType
      <3> QED
        BY <1>2, <2>2, <2>4, <3>1
    <2> QED
      BY <2>1, <2>3, <2>4 DEF LeftAlone
  <1>5. Working' /\ Apart' /\ task' \in [Requests -> {Tenant!Nothing} \cup Tasks]
    BY <1>3, <1>4, RequestEnds
  <1>6. ASSUME NEW x \in Operators, NEW q \in People
        PROVE  /\ (membership'[<<x, q>>] # Absent /\ membership'[<<x, q>>].primary)
                    <=> (membership[<<x, q>>] # Absent /\ membership[<<x, q>>].primary)
               /\ membership[<<x, q>>] # Absent /\ membership[<<x, q>>].primary =>
                    membership'[<<x, q>>] = membership[<<x, q>>]
    <2>1. CASE <<x, q>> = m0
      BY <1>2, <2>1
    <2>2. CASE <<x, q>> # m0
      BY <1>2, <2>2
    <2> QED
      BY <2>1, <2>2
  <1>7. \A x \in Operators : Tenant!PrimaryOf(x)' = Tenant!PrimaryOf(x)
    BY <1>6 DEF Tenant!PrimaryOf
  <1>8. Primaries'
    <2>1. ASSUME NEW x \in Operators, operator'[x] # Absent
          PROVE  \E q \in People :
                   /\ Tenant!PrimaryOf(x)' = {q}
                   /\ membership'[<<x, q>>].status = "ACTIVE"
                   /\ membership'[<<x, q>>].role = "ADMIN"
      <3>1. PICK q \in People :
              /\ Tenant!PrimaryOf(x) = {q}
              /\ membership[<<x, q>>].status = "ACTIVE" /\ membership[<<x, q>>].role = "ADMIN"
        BY <2>1 DEF TenantInv, Primaries
      <3>2. membership[<<x, q>>] # Absent /\ membership[<<x, q>>].primary
        BY <3>1 DEF Tenant!PrimaryOf
      <3> QED
        BY <1>6, <1>7, <3>1, <3>2
    <2> QED
      BY <2>1 DEF Primaries
  <1>9. Tenant!InvitedOnce'
    <2>1. ASSUME NEW m \in Operators \X People, membership'[m] # Absent
          PROVE  identity'[m[2]].created = 1 /\ operator'[m[1]] # Absent
      <3>1. CASE m = m0
        BY <3>1
      <3>2. CASE m # m0
        <4>1. membership[m] # Absent /\ m \in DOMAIN membership /\ m[2] \in People
          BY <1>1, <1>2, <2>1, <3>2
        <4>2. identity[m[2]].created = 1 /\ operator[m[1]] # Absent
          BY <4>1 DEF TenantInv, Tenant!InvitedOnce
        <4> QED
          BY <4>1, <4>2
      <3> QED
        BY <3>1, <3>2
    <2>2. DOMAIN membership' = Operators \X People
      BY <1>2
    <2> QED
      BY <2>1, <2>2 DEF Tenant!InvitedOnce
  <1>10. Tenant!StatusIsTold'
    BY DEF TenantInv, Tenant!StatusIsTold
  <1> QED
    BY <1>2, <1>5, <1>8, <1>9, <1>10 DEF TenantInv, TenantTypes

\* Staff is added under the lock of its identity, if it has one.
LEMMA CreateStaffKeeps ==
  ASSUME TenantInv, NEW h \in Requests, Tenant!CreateStaff(h)
  PROVE  TenantInv'
  <1>1. Tenant!Done(h, {"CREATE_STAFF"}) /\ Tenant!WithIdentity(h) /\ operator' = operator
    BY DEF Tenant!CreateStaff
  <1>2. /\ task' = [task EXCEPT ![h] = Tenant!Nothing] /\ Taken(h) /\ InPlace(h)
        /\ Tenant!Busy(h) /\ task[h].op = "CREATE_STAFF" /\ task[h].asked.op = task[h].op
        /\ Len(task[h].held) = LockCount(task[h].asked) /\ task[h].held \in Seq(TenantLocks)
        /\ task[h].asked.operator \in Operators
    BY <1>1, AtCommit
  <1>3. task[h].asked.person \in People
    BY <1>1, <1>2, AtCommit
  <1> PICK o \in Operators, p \in People :
        o = task[h].asked.operator /\ p = task[h].asked.person
    BY <1>2, <1>3
  <1>4. PICK role \in {"ADMIN", "VIEWER"}, override \in Overrides :
          membership' = [membership EXCEPT ![<<o, p>>] =
            [Tenant!Member(role, FALSE) EXCEPT !.override = override]]
    BY DEF Tenant!CreateStaff, Tenant!Asks, Tenant!Roles
  <1> DEFINE row == [Tenant!Member(role, FALSE) EXCEPT !.override = override]
  <1>5. row \in MemberRows /\ ~row.primary
    <2>1. row = [role |-> role, status |-> "ACTIVE", primary |-> FALSE, override |-> override]
      <3>1. row = [[role |-> role, status |-> "ACTIVE", primary |-> FALSE, override |-> "none"]
                     EXCEPT !.override = override]
        BY Zenon DEF Tenant!Member
      <3> HIDE DEF row
      <3> QED
        BY <3>1
    <2> HIDE DEF row
    <2> QED
      BY <2>1 DEF MemberRows
  <1>6. /\ identity' \in [People -> [created : {0, 1}, mailed : 0 .. 1]]
        /\ \A q \in People : /\ identity'[q].mailed = identity'[q].created
                             /\ identity[q].created = 1 => identity'[q].created = 1
        /\ identity'[p].created = 1
    BY <1>1, <1>2, IdentityGiven
  <1>7. operator[o] # Absent /\ membership[<<o, p>>] = Absent
    BY <1>2 DEF InPlace, Tenant!CreateStaff, Tenant!Asks
  <1>8. task[h].held[3] = Tenant!Shared("operator", {o}) /\ 3 \in DOMAIN task[h].held
    <2>1. Len(task[h].held) = 3
      BY <1>2 DEF LockCount
    <2>2. Len(task[h].held) >= 3
      BY <2>1
    <2> QED
      BY <1>2, <2>1, <2>2 DEF Taken
  <1>9. ASSUME NEW g \in Requests \ {h}, Tenant!Busy(g), task[g].asked.op = "SET_PRIMARY",
               Len(task[g].held) >= 4
        PROVE  task[g].asked.operator # o
    <2>1. task[g].asked \in Tenant!Requested /\ Taken(g) /\ task[g].held \in Seq(TenantLocks)
      BY <1>9, TaskType DEF TenantInv, Working
    <2>2. Len(task[g].held) >= 2 /\ 2 \in DOMAIN task[g].held
      BY <1>9, <2>1
    <2>3. task[g].held[2] = Tenant!Exclusive("operator", {task[g].asked.operator})
      BY <1>9, <2>1, <2>2, Zenon DEF Taken
    <2>4. ~Tenant!Conflict(task[g].held[2], task[h].held[3])
      BY <1>2, <1>8, <1>9, <2>2 DEF TenantInv, Apart
    <2>5. Tenant!Conflict(Tenant!Exclusive("operator", {o}), Tenant!Shared("operator", {o}))
      BY DEF Tenant!Conflict, Tenant!Exclusive, Tenant!Shared
    <2> QED
      BY <1>8, <2>3, <2>4, <2>5, Zenon
  <1>10. ASSUME NEW g \in Requests \ {h}, Tenant!Busy(g), task[g].asked.op \in StaffChange
         PROVE  <<task[g].asked.operator, task[g].asked.person>> # <<o, p>>
    BY <1>7, <1>10 DEF TenantInv, Working, InPlace
  <1> HIDE DEF row
  <1>11. membership' = [membership EXCEPT ![<<o, p>>] = row]
    BY <1>4 DEF row
  <1>12. \A g \in Requests \ {h} : Tenant!Busy(g) =>
           /\ task[g].asked.op = "SET_PRIMARY" /\ Len(task[g].held) >= 4 =>
                task[g].asked.operator # o \/ membership[<<o, p>>] # Absent
           /\ task[g].asked.op \in StaffChange /\ Len(task[g].held) >= 1 =>
                <<task[g].asked.operator, task[g].asked.person>> # <<o, p>>
    BY <1>9, <1>10
  <1>13. membership[<<o, p>>] # Absent => ~membership[<<o, p>>].primary
    BY <1>7
  <1>14. WritesMember(h, o, p, row)
    BY <1>1, <1>2, <1>6, <1>7, <1>11, <1>12, <1>13, Zenon DEF WritesMember
  <1> QED
    BY <1>5, <1>14, MemberWritten

\* A staff change writes the row it has read and locked.
LEMMA StaffWritten ==
  ASSUME TenantInv, NEW h \in Requests, NEW op \in StaffChange, Tenant!Done(h, {op}),
         ~task[h].read.primary, UNCHANGED <<operator, identity>>,
         NEW row \in MemberRows, ~row.primary,
         membership' = [membership EXCEPT
           ![<<task[h].asked.operator, task[h].asked.person>>] = row]
  PROVE  TenantInv'
  <1>2. /\ task' = [task EXCEPT ![h] = Tenant!Nothing] /\ Taken(h) /\ InPlace(h)
        /\ Tenant!Busy(h) /\ task[h].op = op /\ task[h].asked.op = op
        /\ Len(task[h].held) = LockCount(task[h].asked) /\ task[h].held \in Seq(TenantLocks)
        /\ task[h].asked.operator \in Operators
    BY AtCommit
  <1>3. task[h].asked.person \in People
    BY <1>2, AtCommit
  <1> PICK o \in Operators, p \in People :
        o = task[h].asked.operator /\ p = task[h].asked.person
    BY <1>2, <1>3
  <1>4. membership' = [membership EXCEPT ![<<o, p>>] = row]
    OBVIOUS
  <1>5. /\ task[h].held[1] = Tenant!Exclusive("membership", {<<o, p>>})
        /\ 1 \in DOMAIN task[h].held /\ ~membership[<<o, p>>].primary
    <2>1. Len(task[h].held) = 1
      BY <1>2 DEF LockCount, StaffChange
    <2>2. Len(task[h].held) >= 1
      BY <2>1
    <2> QED
      BY <1>2, <2>1, <2>2 DEF Taken
  <1>6. operator[o] # Absent /\ membership[<<o, p>>] # Absent
    BY <1>2 DEF InPlace, StaffChange
  <1>7. /\ identity' \in [People -> [created : {0, 1}, mailed : 0 .. 1]]
        /\ \A q \in People : /\ identity'[q].mailed = identity'[q].created
                             /\ identity[q].created = 1 => identity'[q].created = 1
    BY DEF TenantInv, TenantTypes, Tenant!InvitedOnce
  <1>8. identity'[p].created = 1
    <2>1. <<o, p>> \in DOMAIN membership /\ <<o, p>>[2] = p
      BY DEF TenantInv, TenantTypes
    <2> QED
      BY <1>6, <2>1 DEF TenantInv, Tenant!InvitedOnce
  <1>9. ASSUME NEW g \in Requests \ {h}, Tenant!Busy(g), task[g].asked.op \in StaffChange,
               Len(task[g].held) >= 1
        PROVE  <<task[g].asked.operator, task[g].asked.person>> # <<o, p>>
    <2>1. Taken(g) /\ task[g].held \in Seq(TenantLocks)
      BY <1>9, TaskType DEF TenantInv, Working
    <2>2. 1 \in DOMAIN task[g].held
      BY <1>9, <2>1
    <2>3. task[g].held[1] = Tenant!Exclusive("membership",
            {<<task[g].asked.operator, task[g].asked.person>>})
      BY <1>9, <2>1, Zenon DEF Taken
    <2>4. ~Tenant!Conflict(task[g].held[1], task[h].held[1])
      BY <1>2, <1>5, <1>9, <2>2 DEF TenantInv, Apart
    <2>5. \A x : Tenant!Conflict(Tenant!Exclusive("membership", {x}),
                                 Tenant!Exclusive("membership", {x}))
      BY DEF Tenant!Conflict, Tenant!Exclusive
    <2> QED
      BY <1>5, <2>3, <2>4, <2>5, Zenon
  <1>10. \A g \in Requests \ {h} : Tenant!Busy(g) =>
           /\ task[g].asked.op = "SET_PRIMARY" /\ Len(task[g].held) >= 4 =>
                task[g].asked.operator # o \/ membership[<<o, p>>] # Absent
           /\ task[g].asked.op \in StaffChange /\ Len(task[g].held) >= 1 =>
                <<task[g].asked.operator, task[g].asked.person>> # <<o, p>>
    BY <1>6, <1>9
  <1>11. membership[<<o, p>>] # Absent => ~membership[<<o, p>>].primary
    BY <1>5
  <1>12. WritesMember(h, o, p, row)
    BY <1>2, <1>4, <1>6, <1>7, <1>8, <1>10, <1>11, Zenon DEF WritesMember
  <1> QED
    BY <1>12, MemberWritten

\* What is changed is what was read, and not the primary administrator.
LEMMA UpdateStaffKeeps ==
  ASSUME TenantInv, NEW h \in Requests, Tenant!UpdateStaff(h)
  PROVE  TenantInv'
  <1>1. /\ Tenant!Done(h, {"UPDATE_STAFF"}) /\ ~task[h].read.primary
        /\ UNCHANGED <<operator, identity>> /\ "UPDATE_STAFF" \in StaffChange
    BY DEF Tenant!UpdateStaff, StaffChange
  <1>2. /\ Taken(h) /\ InPlace(h) /\ task[h].asked.op = "UPDATE_STAFF"
        /\ task[h].asked.operator \in Operators
        /\ Len(task[h].held) = LockCount(task[h].asked)
    BY <1>1, AtCommit
  <1>3. task[h].asked.person \in People
    BY <1>1, <1>2, AtCommit
  <1> PICK o \in Operators, p \in People :
        o = task[h].asked.operator /\ p = task[h].asked.person
    BY <1>2, <1>3
  <1>4. PICK role \in {"ADMIN", "VIEWER"}, override \in Overrides :
          membership' = [membership EXCEPT ![<<o, p>>].role = role,
                                           ![<<o, p>>].override = override]
    BY DEF Tenant!UpdateStaff, Tenant!Asks, Tenant!Roles
  <1>5. ~membership[<<o, p>>].primary /\ membership[<<o, p>>] # Absent
    <2>1. Len(task[h].held) >= 1
      BY <1>2 DEF LockCount
    <2> QED
      BY <1>1, <1>2, <2>1 DEF Taken, InPlace
  <1>6. PICK old \in MemberRows : old = membership[<<o, p>>]
    BY <1>5 DEF TenantInv, TenantTypes
  <1> DEFINE row == [old EXCEPT !.role = role, !.override = override]
  <1>7. row \in MemberRows /\ ~row.primary
    <2>1. row \in MemberRows
      <3>1. override \in Overrides \cup {"none"}
        OBVIOUS
      <3> QED
        BY <3>1, Zenon DEF MemberRows
    <2>2. row.primary <=> old.primary
      BY DEF MemberRows
    <2> QED
      BY <1>5, <1>6, <2>1, <2>2
  <1>8. membership' = [membership EXCEPT ![<<o, p>>] = row]
    <2>1. membership \in [Operators \X People -> {Absent} \cup MemberRows]
          /\ <<o, p>> \in Operators \X People
      BY DEF TenantInv, TenantTypes
    <2> QED
      BY <1>4, <1>6, <2>1
  <1> HIDE DEF row
  <1> QED
    BY <1>1, <1>7, <1>8, StaffWritten

\* As before, of a change of status.
LEMMA TransitionStaffKeeps ==
  ASSUME TenantInv, NEW h \in Requests, Tenant!TransitionStaff(h)
  PROVE  TenantInv'
  <1>1. /\ Tenant!Done(h, {"TRANSITION_STAFF"}) /\ ~task[h].read.primary
        /\ UNCHANGED <<operator, identity>> /\ "TRANSITION_STAFF" \in StaffChange
    BY DEF Tenant!TransitionStaff, StaffChange
  <1>2. /\ Taken(h) /\ InPlace(h) /\ task[h].asked.op = "TRANSITION_STAFF"
        /\ task[h].asked.operator \in Operators
        /\ Len(task[h].held) = LockCount(task[h].asked)
    BY <1>1, AtCommit
  <1>3. task[h].asked.person \in People
    BY <1>1, <1>2, AtCommit
  <1> PICK o \in Operators, p \in People :
        o = task[h].asked.operator /\ p = task[h].asked.person
    BY <1>2, <1>3
  <1>4. PICK status \in {"ACTIVE", "SUSPENDED", "REVOKED"} :
          membership' = [membership EXCEPT ![<<o, p>>].status = status]
    BY DEF Tenant!TransitionStaff, Tenant!Asks
  <1>5. ~membership[<<o, p>>].primary /\ membership[<<o, p>>] # Absent
    <2>1. Len(task[h].held) >= 1
      BY <1>2 DEF LockCount
    <2> QED
      BY <1>1, <1>2, <2>1 DEF Taken, InPlace
  <1>6. PICK old \in MemberRows : old = membership[<<o, p>>]
    BY <1>5 DEF TenantInv, TenantTypes
  <1> DEFINE row == [old EXCEPT !.status = status]
  <1>7. row \in MemberRows /\ ~row.primary
    <2>1. row \in MemberRows
      BY Zenon DEF MemberRows
    <2>2. row.primary <=> old.primary
      BY DEF MemberRows
    <2> QED
      BY <1>5, <1>6, <2>1, <2>2
  <1>8. membership' = [membership EXCEPT ![<<o, p>>] = row]
    BY <1>4, <1>6
  <1> HIDE DEF row
  <1> QED
    BY <1>1, <1>7, <1>8, StaffWritten

\* Every request leaves operators and their staff as they should be.
LEMMA TenantStep ==
  ASSUME TenantInv, Tenant!TenancyNext
  PROVE  TenantInv'
  <1> PICK h \in Requests :
        \/ \E r \in Tenant!Requested : Tenant!BeginTask(h, r)
        \/ Tenant!TakeLock(h)
        \/ Tenant!Create(h) \/ Tenant!SetPrimaryAdmin(h) \/ Tenant!TransitionStatus(h)
        \/ Tenant!UpdateProfile(h) \/ Tenant!SetLiveAppID(h)
        \/ Tenant!ResendPrimaryAdminOnboarding(h)
        \/ Tenant!CreateStaff(h) \/ Tenant!UpdateStaff(h) \/ Tenant!TransitionStaff(h)
        \/ Tenant!Withdraw(h)
    BY DEF Tenant!TenancyNext
  <1>1. CASE \E r \in Tenant!Requested : Tenant!BeginTask(h, r)
    BY <1>1, RequestBegins
  <1>2. CASE Tenant!TakeLock(h)
    BY <1>2, RequestLocks
  <1>3. CASE Tenant!Create(h)
    BY <1>3, CreateKeeps
  <1>4. CASE Tenant!SetPrimaryAdmin(h)
    BY <1>4, SetPrimaryKeeps
  <1>5. CASE Tenant!TransitionStatus(h)
    BY <1>5, TransitionStatusKeeps
  <1>6. CASE Tenant!UpdateProfile(h) \/ Tenant!SetLiveAppID(h)
               \/ Tenant!ResendPrimaryAdminOnboarding(h)
    BY <1>6, RequestLeaves
       DEF Tenant!UpdateProfile, Tenant!SetLiveAppID, Tenant!ResendPrimaryAdminOnboarding,
           Tenant!Done
  <1>7. CASE Tenant!CreateStaff(h)
    BY <1>7, CreateStaffKeeps
  <1>8. CASE Tenant!UpdateStaff(h)
    BY <1>8, UpdateStaffKeeps
  <1>9. CASE Tenant!TransitionStaff(h)
    BY <1>9, TransitionStaffKeeps
  <1>10. CASE Tenant!Withdraw(h)
    BY <1>10, RequestLeaves DEF Tenant!Withdraw
  <1> QED
    BY <1>1, <1>2, <1>3, <1>4, <1>5, <1>6, <1>7, <1>8, <1>9, <1>10

LEMMA TenantInvStands ==
  ASSUME TenantInv
  PROVE  TenantStands
  <1>1. Tenant!TypeOK
    <2>1. \A h \in Requests : Tenant!Busy(h) => task[h].asked \in Tenant!Requested
      BY TaskType DEF TenantInv
    <2> QED
      BY <2>1 DEF TenantInv, TenantTypes, Tenant!TypeOK, OperatorRows, OperatorStatus, MemberRows,
                  Tenant!Roles
  <1>2. Tenant!PrimaryAdminStands
    <2> SUFFICES ASSUME NEW o \in Operators, operator[o] # Absent
                 PROVE  /\ Cardinality(Tenant!PrimaryOf(o)) = 1
                        /\ \A p \in Tenant!PrimaryOf(o) :
                             /\ membership[<<o, p>>].status = "ACTIVE"
                             /\ membership[<<o, p>>].role = "ADMIN"
      BY Zenon DEF Tenant!PrimaryAdminStands, Tenant!Cardinality, Cardinality
    <2>1. PICK p \in People :
            /\ Tenant!PrimaryOf(o) = {p}
            /\ membership[<<o, p>>].status = "ACTIVE" /\ membership[<<o, p>>].role = "ADMIN"
      BY DEF TenantInv, Primaries
    <2> QED
      BY <2>1, FS_Singleton
  <1> QED
    BY <1>1, <1>2 DEF TenantInv, TenantStands
-----------------------------------------------------------------------------
(* Hubs, tariffs and tax profiles. *)

HubRows == [visible : BOOLEAN, state : States, gst : {None} \cup Profiles]
TariffRows == [target : Hubs, schedule : Schedules, active : BOOLEAN]

RelationOps == {"UPDATE_HUB", "ASSIGN_GST", "UNASSIGN_GST", "UPDATE_GST"}
HubOps == {"CREATE_TARIFF", "CHANGE_TARIFF", "HUB_VISIBILITY", "CREATE_HUB", "DELETE_HUB",
           "ASSIGN_CHARGER", "UNASSIGN_CHARGER", "UPDATE_CHARGER"} \cup RelationOps
LockKinds == {"hub", "topology", "tariff", "relations", "gst", "charger"}

\* What each lock of a request is a lock on.
Kinds(r) ==
  IF r.op = "CREATE_TARIFF" THEN <<"hub", "topology", "tariff">>
  ELSE IF r.op = "CHANGE_TARIFF" THEN <<"tariff", "hub", "topology", "tariff">>
  ELSE IF r.op = "HUB_VISIBILITY" THEN IF r.visible THEN <<"hub", "topology">> ELSE <<"hub">>
  ELSE IF r.op = "UPDATE_HUB"
  THEN IF r.visible THEN <<"relations", "hub", "gst", "topology">>
                    ELSE <<"relations", "hub", "gst">>
  ELSE IF r.op = "ASSIGN_GST" THEN <<"relations", "hub", "gst">>
  ELSE IF r.op = "UNASSIGN_GST" THEN <<"relations", "hub">>
  ELSE IF r.op = "UPDATE_GST" THEN <<"relations", "gst", "hub">>
  ELSE IF r.op \in {"DELETE_HUB", "ASSIGN_CHARGER"} THEN <<"charger", "hub">>
  ELSE <<"charger">>

\* Locks of one kind.
Lockable == Hubs \cup Chargers \cup Profiles \cup Tariffs \cup {None}
OfKind(locks, kind) == locks \in SUBSET ({kind} \X Lockable)

LEMMA AskedOps ==
  ASSUME NEW r \in Asked
  PROVE  r.op \in HubOps
  BY DEF Asked, HubOps, RelationOps

LEMMA AskedIds ==
  ASSUME NEW r \in Asked
  PROVE  /\ r.op \in {"CREATE_TARIFF", "CHANGE_TARIFF"} => r.target \in Hubs
         /\ r.op = "CHANGE_TARIFF" => r.tariff \in Tariffs
         /\ r.op \in {"UPDATE_HUB", "HUB_VISIBILITY", "ASSIGN_GST", "UNASSIGN_GST", "CREATE_HUB",
                      "DELETE_HUB", "ASSIGN_CHARGER", "UNASSIGN_CHARGER"} => r.hub \in Hubs
         /\ r.op \in {"UPDATE_HUB", "HUB_VISIBILITY"} => r.visible \in BOOLEAN
         /\ r.op \in {"ASSIGN_GST", "UPDATE_GST"} => r.gst \in Profiles
         /\ r.op = "CREATE_HUB" => r.chargers \in SUBSET Chargers
         /\ r.op \in {"ASSIGN_CHARGER", "UNASSIGN_CHARGER", "UPDATE_CHARGER"} =>
              r.charger \in Chargers
  BY DEF Asked

\* Sequences of locks, put together.
LEMMA Join11 ==
  ASSUME NEW a, NEW b
  PROVE  <<a>> \o <<b>> = <<a, b>>
  <1> DEFINE S == {a, b}
             j == <<a>> \o <<b>>
  <1>1. /\ <<a>> \in Seq(S) /\ <<b>> \in Seq(S) /\ <<a, b>> \in Seq(S)
        /\ Len(<<a>>) = 1 /\ Len(<<b>>) = 1 /\ Len(<<a, b>>) = 2
    OBVIOUS
  <1> HIDE DEF S
  <1>2. /\ j \in Seq(S) /\ Len(j) = 2
        /\ j[1] = a /\ j[2] = b
    BY <1>1, ConcatProperties
  <1> HIDE DEF j
  <1>3. j = <<a, b>>
    BY <1>1, <1>2, SeqEqual
  <1> QED
    BY <1>3 DEF j

LEMMA Join21 ==
  ASSUME NEW a, NEW b, NEW c
  PROVE  <<a, b>> \o <<c>> = <<a, b, c>>
  <1> DEFINE S == {a, b, c}
             j == <<a, b>> \o <<c>>
  <1>1. /\ <<a, b>> \in Seq(S) /\ <<c>> \in Seq(S) /\ <<a, b, c>> \in Seq(S)
        /\ Len(<<a, b>>) = 2 /\ Len(<<c>>) = 1 /\ Len(<<a, b, c>>) = 3
    OBVIOUS
  <1> HIDE DEF S
  <1>2. /\ j \in Seq(S) /\ Len(j) = 3
        /\ j[1] = a /\ j[2] = b /\ j[3] = c
    BY <1>1, ConcatProperties
  <1> HIDE DEF j
  <1>3. j = <<a, b, c>>
    BY <1>1, <1>2, SeqEqual
  <1> QED
    BY <1>3 DEF j

LEMMA Join31 ==
  ASSUME NEW a, NEW b, NEW c, NEW d
  PROVE  <<a, b, c>> \o <<d>> = <<a, b, c, d>>
  <1> DEFINE S == {a, b, c, d}
             j == <<a, b, c>> \o <<d>>
  <1>1. /\ <<a, b, c>> \in Seq(S) /\ <<d>> \in Seq(S) /\ <<a, b, c, d>> \in Seq(S)
        /\ Len(<<a, b, c>>) = 3 /\ Len(<<d>>) = 1 /\ Len(<<a, b, c, d>>) = 4
    OBVIOUS
  <1> HIDE DEF S
  <1>2. /\ j \in Seq(S) /\ Len(j) = 4
        /\ j[1] = a /\ j[2] = b /\ j[3] = c /\ j[4] = d
    BY <1>1, ConcatProperties
  <1> HIDE DEF j
  <1>3. j = <<a, b, c, d>>
    BY <1>1, <1>2, SeqEqual
  <1> QED
    BY <1>3 DEF j

LEMMA Join13 ==
  ASSUME NEW a, NEW b, NEW c, NEW d
  PROVE  <<a>> \o <<b, c, d>> = <<a, b, c, d>>
  <1> DEFINE S == {a, b, c, d}
             j == <<a>> \o <<b, c, d>>
  <1>1. /\ <<a>> \in Seq(S) /\ <<b, c, d>> \in Seq(S) /\ <<a, b, c, d>> \in Seq(S)
        /\ Len(<<a>>) = 1 /\ Len(<<b, c, d>>) = 3 /\ Len(<<a, b, c, d>>) = 4
    OBVIOUS
  <1> HIDE DEF S
  <1>2. /\ j \in Seq(S) /\ Len(j) = 4
        /\ j[1] = a /\ j[2] = b /\ j[3] = c /\ j[4] = d
    BY <1>1, ConcatProperties
  <1> HIDE DEF j
  <1>3. j = <<a, b, c, d>>
    BY <1>1, <1>2, SeqEqual
  <1> QED
    BY <1>3 DEF j

LEMMA JoinNone ==
  ASSUME NEW a, NEW b, NEW c
  PROVE  <<a, b, c>> \o << >> = <<a, b, c>> /\ <<a>> \o << >> = <<a>>
  <1>1. <<a, b, c>> \in Seq({a, b, c}) /\ <<a>> \in Seq({a})
    OBVIOUS
  <1> QED
    BY <1>1, ConcatEmptySeq

Ids(kind, ids) == {<<kind, id>> : id \in ids}
TopologyOf(target) ==
  <<Ids("hub", {target}), Ids("topology", {target}),
    Ids("tariff", DOMAIN RowsOf(tariff, target))>>

\* The locks of a request, written out.
LEMMA LocksAre ==
  ASSUME NEW r \in Asked
  PROVE  Locks(r) =
    IF r.op = "CREATE_TARIFF" THEN TopologyOf(r.target)
    ELSE IF r.op = "CHANGE_TARIFF"
    THEN <<Ids("tariff", {r.tariff}), Ids("hub", {r.target}), Ids("topology", {r.target}),
           Ids("tariff", DOMAIN RowsOf(tariff, r.target))>>
    ELSE IF r.op = "HUB_VISIBILITY"
    THEN IF r.visible THEN <<Ids("hub", {r.hub}), Ids("topology", {r.hub})>>
                      ELSE <<Ids("hub", {r.hub})>>
    ELSE IF r.op = "UPDATE_HUB"
    THEN IF r.visible
         THEN <<Ids("relations", {None}), Ids("hub", {r.hub}),
                Ids("gst", {g \in Profiles : r.hub \in HubsOf(g)}), Ids("topology", {r.hub})>>
         ELSE <<Ids("relations", {None}), Ids("hub", {r.hub}),
                Ids("gst", {g \in Profiles : r.hub \in HubsOf(g)})>>
    ELSE IF r.op = "ASSIGN_GST"
    THEN <<Ids("relations", {None}), Ids("hub", {r.hub}), Ids("gst", {r.gst})>>
    ELSE IF r.op = "UNASSIGN_GST" THEN <<Ids("relations", {None}), Ids("hub", {r.hub})>>
    ELSE IF r.op = "UPDATE_GST"
    THEN <<Ids("relations", {None}), Ids("gst", {r.gst}), Ids("hub", HubsOf(r.gst))>>
    ELSE IF r.op = "CREATE_HUB" THEN <<Ids("charger", r.chargers)>>
    ELSE IF r.op = "DELETE_HUB" THEN <<Ids("charger", InHub(r.hub)), Ids("hub", {r.hub})>>
    ELSE IF r.op = "ASSIGN_CHARGER" THEN <<Ids("charger", {r.charger}), Ids("hub", {r.hub})>>
    ELSE <<Ids("charger", {r.charger})>>
  <1>1. \A kind, ids : RowLock(kind, ids) = <<Ids(kind, ids)>>
    BY DEF RowLock, Ids
  <1>2. \A target : TopologyLocks(target) = TopologyOf(target)
    BY <1>1, Join11, Join21 DEF TopologyLocks, TopologyOf
  <1>3. \A target, a : <<a>> \o TopologyOf(target) =
          <<a, Ids("hub", {target}), Ids("topology", {target}),
            Ids("tariff", DOMAIN RowsOf(tariff, target))>>
    BY Join13 DEF TopologyOf
  <1>4. r.op \in HubOps
    BY AskedOps
  <1>5. CASE r.op \in {"CREATE_TARIFF", "CHANGE_TARIFF"}
    BY <1>1, <1>2, <1>3, <1>5 DEF Locks
  <1>6. CASE r.op \in {"HUB_VISIBILITY", "UPDATE_HUB"}
    <2>1. CASE r.op = "HUB_VISIBILITY"
      BY <1>1, <2>1, Join11, JoinNone DEF Locks, FloorLocks
    <2>2. CASE r.op = "UPDATE_HUB"
      <3> DEFINE changed == Ids("gst", {g \in Profiles : r.hub \in HubsOf(g)})
                 most == <<Ids("relations", {None}), Ids("hub", {r.hub}), changed>>
      <3>1. Locks(r) = RelationLocks \o RowLock("hub", {r.hub})
              \o RowLock("gst", {g \in Profiles : r.hub \in HubsOf(g)}) \o FloorLocks(r)
        BY <2>2 DEF Locks
      <3>2. RowLock("gst", {g \in Profiles : r.hub \in HubsOf(g)}) = <<changed>>
        BY <1>1
      <3> HIDE DEF changed
      <3>3. Locks(r) = most \o FloorLocks(r)
        <4> DEFINE a == Ids("relations", {None})
                   b == Ids("hub", {r.hub})
        <4>1. RelationLocks = <<a>> /\ RowLock("hub", {r.hub}) = <<b>>
          BY <1>1 DEF RelationLocks
        <4> HIDE DEF a, b
        <4>2. <<a>> \o <<b>> = <<a, b>> /\ <<a, b>> \o <<changed>> = <<a, b, changed>>
          BY Join11, Join21
        <4>3. Locks(r) = <<a>> \o <<b>> \o <<changed>> \o FloorLocks(r)
          BY <3>1, <3>2, <4>1
        <4>4. Locks(r) = <<a, b, changed>> \o FloorLocks(r)
          BY <4>2, <4>3
        <4> QED
          BY <4>4 DEF a, b
      <3>4. CASE r.visible
        BY <1>1, <2>2, <3>3, <3>4, Join31 DEF FloorLocks, changed
      <3>5. CASE ~r.visible
        BY <1>1, <2>2, <3>3, <3>5, JoinNone DEF FloorLocks, changed
      <3> QED
        BY <3>4, <3>5
    <2> QED
      BY <1>6, <2>1, <2>2
  <1>7. CASE r.op \in {"ASSIGN_GST", "UNASSIGN_GST", "UPDATE_GST"}
    BY <1>1, <1>7, Join11, Join21 DEF Locks, RelationLocks
  <1>8. CASE r.op \in {"CREATE_HUB", "DELETE_HUB", "ASSIGN_CHARGER", "UNASSIGN_CHARGER",
                       "UPDATE_CHARGER"}
    BY <1>1, <1>8, Join11 DEF Locks
  <1> QED
    BY <1>4, <1>5, <1>6, <1>7, <1>8 DEF HubOps, RelationOps

\* Locks of their kinds, one to four.
LEMMA KindsOf1 ==
  ASSUME NEW a, NEW e,
         OfKind(a, e)
  PROVE  /\ Len(<<a>>) = 1 /\ Len(<<e>>) = 1
         /\ \A i \in 1 .. 1 : OfKind(<<a>>[i], <<e>>[i])
  <1>1. \A i \in 1 .. 1 : i = 1
    OBVIOUS
  <1> QED
    BY <1>1

LEMMA KindsOf2 ==
  ASSUME NEW a, NEW b, NEW e, NEW f,
         OfKind(a, e), OfKind(b, f)
  PROVE  /\ Len(<<a, b>>) = 2 /\ Len(<<e, f>>) = 2
         /\ \A i \in 1 .. 2 : OfKind(<<a, b>>[i], <<e, f>>[i])
  <1>1. \A i \in 1 .. 2 : i = 1 \/ i = 2
    OBVIOUS
  <1> QED
    BY <1>1

LEMMA KindsOf3 ==
  ASSUME NEW a, NEW b, NEW c, NEW e, NEW f, NEW g,
         OfKind(a, e), OfKind(b, f), OfKind(c, g)
  PROVE  /\ Len(<<a, b, c>>) = 3 /\ Len(<<e, f, g>>) = 3
         /\ \A i \in 1 .. 3 : OfKind(<<a, b, c>>[i], <<e, f, g>>[i])
  <1>1. \A i \in 1 .. 3 : i = 1 \/ i = 2 \/ i = 3
    OBVIOUS
  <1> QED
    BY <1>1

LEMMA KindsOf4 ==
  ASSUME NEW a, NEW b, NEW c, NEW d, NEW e, NEW f, NEW g, NEW h,
         OfKind(a, e), OfKind(b, f), OfKind(c, g), OfKind(d, h)
  PROVE  /\ Len(<<a, b, c, d>>) = 4 /\ Len(<<e, f, g, h>>) = 4
         /\ \A i \in 1 .. 4 : OfKind(<<a, b, c, d>>[i], <<e, f, g, h>>[i])
  <1>1. \A i \in 1 .. 4 : i = 1 \/ i = 2 \/ i = 3 \/ i = 4
    OBVIOUS
  <1> QED
    BY <1>1

\* Every lock of a request is on what it is for, and how many there are does
\* not depend on the rows.
LEMMA LocksHaveKinds ==
  ASSUME NEW r \in Asked
  PROVE  /\ Len(Locks(r)) = Len(Kinds(r)) /\ Len(Kinds(r)) \in Nat
         /\ \A i \in 1 .. Len(Kinds(r)) : OfKind(Locks(r)[i], Kinds(r)[i])
         /\ r.op \in RelationOps => Locks(r)[1] = {<<"relations", None>>}
         /\ r.op = "CHANGE_TARIFF" => Locks(r)[1] = {<<"tariff", r.tariff>>}
  <1>1. /\ OfKind(Ids("relations", {None}), "relations")
        /\ OfKind(Ids("tariff", DOMAIN RowsOf(tariff, r.target)), "tariff")
        /\ OfKind(Ids("gst", {g \in Profiles : r.hub \in HubsOf(g)}), "gst")
        /\ OfKind(Ids("hub", HubsOf(r.gst)), "hub")
        /\ OfKind(Ids("charger", InHub(r.hub)), "charger")
        /\ r.op \in {"CREATE_TARIFF", "CHANGE_TARIFF"} =>
              /\ OfKind(Ids("hub", {r.target}), "hub")
              /\ OfKind(Ids("topology", {r.target}), "topology")
        /\ r.op = "CHANGE_TARIFF" => OfKind(Ids("tariff", {r.tariff}), "tariff")
        /\ r.op \in {"UPDATE_HUB", "HUB_VISIBILITY", "ASSIGN_GST", "UNASSIGN_GST", "DELETE_HUB",
                     "ASSIGN_CHARGER"} =>
             OfKind(Ids("hub", {r.hub}), "hub") /\ OfKind(Ids("topology", {r.hub}), "topology")
        /\ r.op \in {"ASSIGN_GST", "UPDATE_GST"} => OfKind(Ids("gst", {r.gst}), "gst")
        /\ r.op = "CREATE_HUB" => OfKind(Ids("charger", r.chargers), "charger")
        /\ r.op \in {"ASSIGN_CHARGER", "UNASSIGN_CHARGER", "UPDATE_CHARGER"} =>
             OfKind(Ids("charger", {r.charger}), "charger")
    <2>1. \A kind : \A ids \in SUBSET Lockable : OfKind(Ids(kind, ids), kind)
      BY DEF Ids, OfKind
    <2>2. /\ {None} \in SUBSET Lockable
          /\ DOMAIN RowsOf(tariff, r.target) \in SUBSET Lockable
          /\ {g \in Profiles : r.hub \in HubsOf(g)} \in SUBSET Lockable
          /\ HubsOf(r.gst) \in SUBSET Lockable /\ InHub(r.hub) \in SUBSET Lockable
      BY DEF Lockable, RowsOf, HubsOf, InHub
    <2>3. /\ \A x \in Hubs \cup Chargers \cup Profiles \cup Tariffs : {x} \in SUBSET Lockable
          /\ \A cs \in SUBSET Chargers : cs \in SUBSET Lockable
      BY DEF Lockable
    <2> QED
      BY <2>1, <2>2, <2>3, AskedIds
  <1>2. Ids("relations", {None}) = {<<"relations", None>>}
        /\ Ids("tariff", {r.tariff}) = {<<"tariff", r.tariff>>}
    BY DEF Ids
  <1>3. r.op \in HubOps
    BY AskedOps
  <1>4. CASE r.op = "CREATE_TARIFF"
    <2>1. /\ Locks(r) = <<Ids("hub", {r.target}), Ids("topology", {r.target}),
                         Ids("tariff", DOMAIN RowsOf(tariff, r.target))>>
          /\ Kinds(r) = <<"hub", "topology", "tariff">>
      BY <1>4, LocksAre DEF Kinds, TopologyOf
    <2>2. /\ OfKind(Ids("hub", {r.target}), "hub")
          /\ OfKind(Ids("topology", {r.target}), "topology")
          /\ OfKind(Ids("tariff", DOMAIN RowsOf(tariff, r.target)), "tariff")
      BY <1>1, <1>4
    <2>3. /\ Len(Locks(r)) = Len(Kinds(r)) /\ Len(Kinds(r)) = 3
          /\ \A i \in 1 .. Len(Kinds(r)) : OfKind(Locks(r)[i], Kinds(r)[i])
      BY <2>1, <2>2, KindsOf3
    <2>4. Locks(r)[1] = Ids("hub", {r.target})
      BY <2>1
    <2> QED
      BY <1>2, <1>4, <2>3, <2>4 DEF RelationOps
  <1>5. CASE r.op = "CHANGE_TARIFF"
    <2>1. /\ Locks(r) = <<Ids("tariff", {r.tariff}), Ids("hub", {r.target}),
                         Ids("topology", {r.target}),
                         Ids("tariff", DOMAIN RowsOf(tariff, r.target))>>
          /\ Kinds(r) = <<"tariff", "hub", "topology", "tariff">>
      BY <1>5, LocksAre DEF Kinds
    <2>2. /\ OfKind(Ids("tariff", {r.tariff}), "tariff")
          /\ OfKind(Ids("hub", {r.target}), "hub")
          /\ OfKind(Ids("topology", {r.target}), "topology")
          /\ OfKind(Ids("tariff", DOMAIN RowsOf(tariff, r.target)), "tariff")
      BY <1>1, <1>5
    <2>3. /\ Len(Locks(r)) = Len(Kinds(r)) /\ Len(Kinds(r)) = 4
          /\ \A i \in 1 .. Len(Kinds(r)) : OfKind(Locks(r)[i], Kinds(r)[i])
      BY <2>1, <2>2, KindsOf4
    <2>4. Locks(r)[1] = Ids("tariff", {r.tariff})
      BY <2>1
    <2> QED
      BY <1>2, <1>5, <2>3, <2>4 DEF RelationOps
  <1>6. CASE r.op = "HUB_VISIBILITY" /\ r.visible
    <2>1. /\ Locks(r) = <<Ids("hub", {r.hub}), Ids("topology", {r.hub})>>
          /\ Kinds(r) = <<"hub", "topology">>
      BY <1>6, LocksAre DEF Kinds
    <2>2. /\ OfKind(Ids("hub", {r.hub}), "hub")
          /\ OfKind(Ids("topology", {r.hub}), "topology")
      BY <1>1, <1>6
    <2>3. /\ Len(Locks(r)) = Len(Kinds(r)) /\ Len(Kinds(r)) = 2
          /\ \A i \in 1 .. Len(Kinds(r)) : OfKind(Locks(r)[i], Kinds(r)[i])
      BY <2>1, <2>2, KindsOf2
    <2>4. Locks(r)[1] = Ids("hub", {r.hub})
      BY <2>1
    <2> QED
      BY <1>2, <1>6, <2>3, <2>4 DEF RelationOps
  <1>7. CASE r.op = "HUB_VISIBILITY" /\ ~r.visible
    <2>1. /\ Locks(r) = <<Ids("hub", {r.hub})>>
          /\ Kinds(r) = <<"hub">>
      BY <1>7, LocksAre DEF Kinds
    <2>2. /\ OfKind(Ids("hub", {r.hub}), "hub")
      BY <1>1, <1>7
    <2>3. /\ Len(Locks(r)) = Len(Kinds(r)) /\ Len(Kinds(r)) = 1
          /\ \A i \in 1 .. Len(Kinds(r)) : OfKind(Locks(r)[i], Kinds(r)[i])
      BY <2>1, <2>2, KindsOf1
    <2>4. Locks(r)[1] = Ids("hub", {r.hub})
      BY <2>1
    <2> QED
      BY <1>2, <1>7, <2>3, <2>4 DEF RelationOps
  <1>8. CASE r.op = "UPDATE_HUB" /\ r.visible
    <2>1. /\ Locks(r) = <<Ids("relations", {None}), Ids("hub", {r.hub}),
                         Ids("gst", {g \in Profiles : r.hub \in HubsOf(g)}),
                         Ids("topology", {r.hub})>>
          /\ Kinds(r) = <<"relations", "hub", "gst", "topology">>
      BY <1>8, LocksAre DEF Kinds
    <2>2. /\ OfKind(Ids("relations", {None}), "relations")
          /\ OfKind(Ids("hub", {r.hub}), "hub")
          /\ OfKind(Ids("gst", {g \in Profiles : r.hub \in HubsOf(g)}), "gst")
          /\ OfKind(Ids("topology", {r.hub}), "topology")
      BY <1>1, <1>8
    <2>3. /\ Len(Locks(r)) = Len(Kinds(r)) /\ Len(Kinds(r)) = 4
          /\ \A i \in 1 .. Len(Kinds(r)) : OfKind(Locks(r)[i], Kinds(r)[i])
      BY <2>1, <2>2, KindsOf4
    <2>4. Locks(r)[1] = Ids("relations", {None})
      BY <2>1
    <2> QED
      BY <1>2, <1>8, <2>3, <2>4 DEF RelationOps
  <1>9. CASE r.op = "UPDATE_HUB" /\ ~r.visible
    <2>1. /\ Locks(r) = <<Ids("relations", {None}), Ids("hub", {r.hub}),
                         Ids("gst", {g \in Profiles : r.hub \in HubsOf(g)})>>
          /\ Kinds(r) = <<"relations", "hub", "gst">>
      BY <1>9, LocksAre DEF Kinds
    <2>2. /\ OfKind(Ids("relations", {None}), "relations")
          /\ OfKind(Ids("hub", {r.hub}), "hub")
          /\ OfKind(Ids("gst", {g \in Profiles : r.hub \in HubsOf(g)}), "gst")
      BY <1>1, <1>9
    <2>3. /\ Len(Locks(r)) = Len(Kinds(r)) /\ Len(Kinds(r)) = 3
          /\ \A i \in 1 .. Len(Kinds(r)) : OfKind(Locks(r)[i], Kinds(r)[i])
      BY <2>1, <2>2, KindsOf3
    <2>4. Locks(r)[1] = Ids("relations", {None})
      BY <2>1
    <2> QED
      BY <1>2, <1>9, <2>3, <2>4 DEF RelationOps
  <1>10. CASE r.op = "ASSIGN_GST"
    <2>1. /\ Locks(r) = <<Ids("relations", {None}), Ids("hub", {r.hub}),
                         Ids("gst", {r.gst})>>
          /\ Kinds(r) = <<"relations", "hub", "gst">>
      BY <1>10, LocksAre DEF Kinds
    <2>2. /\ OfKind(Ids("relations", {None}), "relations")
          /\ OfKind(Ids("hub", {r.hub}), "hub")
          /\ OfKind(Ids("gst", {r.gst}), "gst")
      BY <1>1, <1>10
    <2>3. /\ Len(Locks(r)) = Len(Kinds(r)) /\ Len(Kinds(r)) = 3
          /\ \A i \in 1 .. Len(Kinds(r)) : OfKind(Locks(r)[i], Kinds(r)[i])
      BY <2>1, <2>2, KindsOf3
    <2>4. Locks(r)[1] = Ids("relations", {None})
      BY <2>1
    <2> QED
      BY <1>2, <1>10, <2>3, <2>4 DEF RelationOps
  <1>11. CASE r.op = "UNASSIGN_GST"
    <2>1. /\ Locks(r) = <<Ids("relations", {None}), Ids("hub", {r.hub})>>
          /\ Kinds(r) = <<"relations", "hub">>
      BY <1>11, LocksAre DEF Kinds
    <2>2. /\ OfKind(Ids("relations", {None}), "relations")
          /\ OfKind(Ids("hub", {r.hub}), "hub")
      BY <1>1, <1>11
    <2>3. /\ Len(Locks(r)) = Len(Kinds(r)) /\ Len(Kinds(r)) = 2
          /\ \A i \in 1 .. Len(Kinds(r)) : OfKind(Locks(r)[i], Kinds(r)[i])
      BY <2>1, <2>2, KindsOf2
    <2>4. Locks(r)[1] = Ids("relations", {None})
      BY <2>1
    <2> QED
      BY <1>2, <1>11, <2>3, <2>4 DEF RelationOps
  <1>12. CASE r.op = "UPDATE_GST"
    <2>1. /\ Locks(r) = <<Ids("relations", {None}), Ids("gst", {r.gst}),
                         Ids("hub", HubsOf(r.gst))>>
          /\ Kinds(r) = <<"relations", "gst", "hub">>
      BY <1>12, LocksAre DEF Kinds
    <2>2. /\ OfKind(Ids("relations", {None}), "relations")
          /\ OfKind(Ids("gst", {r.gst}), "gst")
          /\ OfKind(Ids("hub", HubsOf(r.gst)), "hub")
      BY <1>1, <1>12
    <2>3. /\ Len(Locks(r)) = Len(Kinds(r)) /\ Len(Kinds(r)) = 3
          /\ \A i \in 1 .. Len(Kinds(r)) : OfKind(Locks(r)[i], Kinds(r)[i])
      BY <2>1, <2>2, KindsOf3
    <2>4. Locks(r)[1] = Ids("relations", {None})
      BY <2>1
    <2> QED
      BY <1>2, <1>12, <2>3, <2>4 DEF RelationOps
  <1>13. CASE r.op = "CREATE_HUB"
    <2>1. /\ Locks(r) = <<Ids("charger", r.chargers)>>
          /\ Kinds(r) = <<"charger">>
      BY <1>13, LocksAre DEF Kinds
    <2>2. /\ OfKind(Ids("charger", r.chargers), "charger")
      BY <1>1, <1>13
    <2>3. /\ Len(Locks(r)) = Len(Kinds(r)) /\ Len(Kinds(r)) = 1
          /\ \A i \in 1 .. Len(Kinds(r)) : OfKind(Locks(r)[i], Kinds(r)[i])
      BY <2>1, <2>2, KindsOf1
    <2>4. Locks(r)[1] = Ids("charger", r.chargers)
      BY <2>1
    <2> QED
      BY <1>2, <1>13, <2>3, <2>4 DEF RelationOps
  <1>14. CASE r.op = "DELETE_HUB"
    <2>1. /\ Locks(r) = <<Ids("charger", InHub(r.hub)), Ids("hub", {r.hub})>>
          /\ Kinds(r) = <<"charger", "hub">>
      BY <1>14, LocksAre DEF Kinds
    <2>2. /\ OfKind(Ids("charger", InHub(r.hub)), "charger")
          /\ OfKind(Ids("hub", {r.hub}), "hub")
      BY <1>1, <1>14
    <2>3. /\ Len(Locks(r)) = Len(Kinds(r)) /\ Len(Kinds(r)) = 2
          /\ \A i \in 1 .. Len(Kinds(r)) : OfKind(Locks(r)[i], Kinds(r)[i])
      BY <2>1, <2>2, KindsOf2
    <2>4. Locks(r)[1] = Ids("charger", InHub(r.hub))
      BY <2>1
    <2> QED
      BY <1>2, <1>14, <2>3, <2>4 DEF RelationOps
  <1>15. CASE r.op = "ASSIGN_CHARGER"
    <2>1. /\ Locks(r) = <<Ids("charger", {r.charger}), Ids("hub", {r.hub})>>
          /\ Kinds(r) = <<"charger", "hub">>
      BY <1>15, LocksAre DEF Kinds
    <2>2. /\ OfKind(Ids("charger", {r.charger}), "charger")
          /\ OfKind(Ids("hub", {r.hub}), "hub")
      BY <1>1, <1>15
    <2>3. /\ Len(Locks(r)) = Len(Kinds(r)) /\ Len(Kinds(r)) = 2
          /\ \A i \in 1 .. Len(Kinds(r)) : OfKind(Locks(r)[i], Kinds(r)[i])
      BY <2>1, <2>2, KindsOf2
    <2>4. Locks(r)[1] = Ids("charger", {r.charger})
      BY <2>1
    <2> QED
      BY <1>2, <1>15, <2>3, <2>4 DEF RelationOps
  <1>16. CASE r.op \in {"UNASSIGN_CHARGER", "UPDATE_CHARGER"}
    <2>1. /\ Locks(r) = <<Ids("charger", {r.charger})>>
          /\ Kinds(r) = <<"charger">>
      BY <1>16, LocksAre DEF Kinds
    <2>2. /\ OfKind(Ids("charger", {r.charger}), "charger")
      BY <1>1, <1>16
    <2>3. /\ Len(Locks(r)) = Len(Kinds(r)) /\ Len(Kinds(r)) = 1
          /\ \A i \in 1 .. Len(Kinds(r)) : OfKind(Locks(r)[i], Kinds(r)[i])
      BY <2>1, <2>2, KindsOf1
    <2>4. Locks(r)[1] = Ids("charger", {r.charger})
      BY <2>1
    <2> QED
      BY <1>2, <1>16, <2>3, <2>4 DEF RelationOps
  <1> QED
    BY <1>3, <1>4, <1>5, <1>6, <1>7, <1>8, <1>9, <1>10, <1>11, <1>12, <1>13, <1>14, <1>15, <1>16
       DEF HubOps, RelationOps

HubTasks == [op : HubOps, asked : Asked, held : Seq(SUBSET (LockKinds \X Lockable))]

HubTypes ==
  /\ hub \in [Hubs -> {None} \cup HubRows]
  /\ charger \in [Chargers -> [hub : {None} \cup Hubs, public : BOOLEAN]]
  /\ gst \in [Profiles -> [state : States, tax : Taxes]]
  /\ tariff \in [Tariffs -> {None} \cup TariffRows]
  /\ request \in [Requests -> {Idle} \cup HubTasks]

\* A request in flight has the first of its locks, each on what it is for; a
\* change of a tax relation began with the lock of all of them, and a change
\* of a tariff with the tariff's.
InOrder(q) ==
  LET r == Of(q)
      held == request[q].held IN
  /\ request[q].op = r.op /\ Len(held) <= Len(Kinds(r))
  /\ \A i \in DOMAIN held : OfKind(held[i], Kinds(r)[i])
  /\ r.op \in RelationOps /\ Len(held) >= 1 => held[1] = {<<"relations", None>>}
  /\ r.op = "CHANGE_TARIFF" /\ Len(held) >= 1 => held[1] = {<<"tariff", r.tariff>>}

AllInOrder == \A q \in Requests : InFlight(q) => InOrder(q)

\* A lock has one holder.
OneHolder == \A p, q \in Requests : p # q => Held(p) \cap Held(q) = {}

\* A tariff that a change in flight asked for is its target's or gone.
Changing(q) == InFlight(q) /\ request[q].op = "CHANGE_TARIFF"
ChangesKnow ==
  /\ \A q \in Requests : Changing(q) =>
       \/ tariff[Of(q).tariff] = None
       \/ tariff[Of(q).tariff].target = Of(q).target
  /\ \A p, q \in Requests : Changing(p) /\ Changing(q) /\ Of(p).tariff = Of(q).tariff =>
       Of(p).target = Of(q).target

\* What is sold, under the checks of every write.
FloorHolds == \A h \in Hubs : hub[h] # None /\ hub[h].visible => HasFloor(RowsOf(tariff, h))
TaxFits == \A h \in Hubs : hub[h] # None /\ hub[h].gst # None => Fits(gst[hub[h].gst], hub[h].state)
ChargersPlaced ==
  \A c \in Chargers : /\ charger[c].public => charger[c].hub # None
                      /\ charger[c].hub # None => hub[charger[c].hub] # None
TopologyHolds == \A target \in Hubs : ValidTopology(RowsOf(tariff, target))

HubInv ==
  /\ HubTypes /\ FloorHolds /\ TaxFits /\ ChargersPlaced /\ TopologyHolds
  /\ AllInOrder /\ OneHolder /\ ChangesKnow

LEMMA HubConstants ==
  /\ None \notin HubRows /\ None \notin TariffRows
  /\ None \notin Hubs /\ None \notin Profiles /\ None \notin Tariffs
  /\ IsFiniteSet(Tariffs) /\ Schedules \subseteq Int \X Int /\ Instants \subseteq Int
  BY HubAssumption DEF HubRows, TariffRows

LEMMA IdleIsNoTask ==
  /\ Idle \notin HubTasks /\ Idle.op = "IDLE"
  BY DEF Idle, HubTasks, HubOps, RelationOps

LEMMA FlightType ==
  ASSUME HubTypes, NEW q \in Requests, InFlight(q)
  PROVE  /\ request[q] \in HubTasks /\ Of(q) \in Asked /\ request[q].op \in HubOps
         /\ request[q].held \in Seq(SUBSET (LockKinds \X Lockable))
  BY DEF HubTypes, InFlight, HubTasks, Of

\* The kinds are kinds.
LEMMA KindsType ==
  ASSUME NEW r \in Asked, NEW i \in 1 .. Len(Kinds(r))
  PROVE  Kinds(r)[i] \in LockKinds
  <1>1. r.op \in HubOps
    BY AskedOps
  <1>2. \A a, b, c, d : /\ Len(<<a>>) = 1 /\ Len(<<a, b>>) = 2 /\ Len(<<a, b, c>>) = 3
                        /\ Len(<<a, b, c, d>>) = 4
    OBVIOUS
  <1>3. i \in 1 .. 4 => i = 1 \/ i = 2 \/ i = 3 \/ i = 4
    OBVIOUS
  <1>4. CASE r.op \in {"CREATE_TARIFF", "CHANGE_TARIFF"}
    BY <1>2, <1>3, <1>4 DEF Kinds, LockKinds
  <1>5. CASE r.op = "HUB_VISIBILITY"
    BY <1>2, <1>3, <1>5 DEF Kinds, LockKinds
  <1>6. CASE r.op = "UPDATE_HUB"
    BY <1>2, <1>3, <1>6 DEF Kinds, LockKinds
  <1>7. CASE r.op \in {"ASSIGN_GST", "UNASSIGN_GST", "UPDATE_GST"}
    BY <1>2, <1>3, <1>7 DEF Kinds, LockKinds
  <1>8. CASE r.op \in {"CREATE_HUB", "DELETE_HUB", "ASSIGN_CHARGER", "UNASSIGN_CHARGER",
                       "UPDATE_CHARGER"}
    BY <1>2, <1>3, <1>8 DEF Kinds, LockKinds
  <1> QED
    BY <1>1, <1>4, <1>5, <1>6, <1>7, <1>8 DEF HubOps, RelationOps

\* A hub without tariffs.
LEMMA NothingToSell ==
  ASSUME NEW h
  PROVE  /\ RowsOf([t \in Tariffs |-> None], h) = [t \in {} |-> None]
         /\ ValidTopology([t \in {} |-> None])
  <1>1. {t \in Tariffs : [u \in Tariffs |-> None][t] # None
                           /\ [u \in Tariffs |-> None][t].target = h} = {}
    OBVIOUS
  <1>2. RowsOf([t \in Tariffs |-> None], h) = [t \in {} |-> None]
    BY <1>1 DEF RowsOf
  <1> DEFINE rows == [t \in {} |-> None]
  <1>3. DOMAIN rows = {}
    OBVIOUS
  <1> HIDE DEF rows
  <1>4. ValidTopology(rows)
    <2> DEFINE enabled == {t \in DOMAIN rows : rows[t].active}
    <2>1. enabled = {}
      BY <1>3
    <2>2. {t \in enabled : IsRoot(rows[t])} = {}
      BY <2>1
    <2>3. Cardinality({t \in enabled : IsRoot(rows[t])}) <= 1
      BY <2>2, FS_EmptySet
    <2> HIDE DEF enabled
    <2> QED
      BY <2>1, <2>3 DEF ValidTopology, enabled
  <1> QED
    BY <1>2, <1>4 DEF rows

\* At first there is nothing to sell.
LEMMA HubStart ==
  ASSUME Init
  PROVE  HubInv
  <1>1. HubTypes
    <2>1. hub \in [Hubs -> {None} \cup HubRows]
      BY DEF Init
    <2>2. charger \in [Chargers -> [hub : {None} \cup Hubs, public : BOOLEAN]]
      BY DEF Init
    <2>3. gst \in [Profiles -> [state : States, tax : Taxes]]
      BY DEF Init, Taxes
    <2>4. tariff \in [Tariffs -> {None} \cup TariffRows]
      BY DEF Init
    <2>5. request \in [Requests -> {Idle} \cup HubTasks]
      BY DEF Init
    <2> QED
      BY <2>1, <2>2, <2>3, <2>4, <2>5 DEF HubTypes
  <1>2. FloorHolds /\ TaxFits
    BY DEF Init, FloorHolds, TaxFits
  <1>3. ChargersPlaced
    BY DEF Init, ChargersPlaced
  <1>4. TopologyHolds
    BY NothingToSell DEF Init, TopologyHolds
  <1>5. \A q \in Requests : ~InFlight(q)
    BY DEF Init, InFlight
  <1>6. AllInOrder /\ OneHolder /\ ChangesKnow
    BY <1>5 DEF AllInOrder, OneHolder, ChangesKnow, Held, Changing
  <1> QED
    BY <1>1, <1>2, <1>3, <1>4, <1>6 DEF HubInv

-----------------------------------------------------------------------------
\* A request that ends leaves the others and their locks.
LEMMA Ended ==
  ASSUME HubInv, NEW q \in Requests, Ends(q)
  PROVE  /\ request' \in [Requests -> {Idle} \cup HubTasks]
         /\ \A p \in Requests : InFlight(p)' =>
              p # q /\ InFlight(p) /\ request'[p] = request[p]
         /\ AllInOrder' /\ OneHolder'
  <1>1. request \in [Requests -> {Idle} \cup HubTasks]
        /\ request' = [request EXCEPT ![q] = Idle]
    BY DEF HubInv, HubTypes, Ends
  <1>2. request' \in [Requests -> {Idle} \cup HubTasks]
    BY <1>1, Zenon
  <1>3. \A p \in Requests : InFlight(p)' => p # q /\ InFlight(p) /\ request'[p] = request[p]
    BY <1>1 DEF InFlight
  <1>4. AllInOrder'
    <2>1. ASSUME NEW p \in Requests, InFlight(p)'
          PROVE  InOrder(p)'
      <3>1. InOrder(p) /\ request'[p] = request[p]
        BY <1>3, <2>1 DEF HubInv, AllInOrder
      <3> QED
        BY <3>1 DEF InOrder, Of
    <2> QED
      BY <2>1 DEF AllInOrder
  <1>5. OneHolder'
    <2>1. \A p \in Requests : Held(p)' \subseteq Held(p)
      BY <1>3 DEF Held
    <2> QED
      BY <2>1 DEF HubInv, OneHolder
  <1> QED
    BY <1>2, <1>3, <1>4, <1>5

\* Tariffs come under identities that no change asked for, and keep their targets.
TargetsKept ==
  \A t \in Tariffs :
    \/ tariff'[t] = None
    \/ tariff[t] # None /\ tariff'[t].target = tariff[t].target
    \/ \A p \in Requests : Changing(p) => Of(p).tariff # t

\* A change's tariff remains the target's or is gone.
LEMMA ChangesStillKnow ==
  ASSUME HubInv, NEW q \in Requests, Ends(q), TargetsKept
  PROVE  ChangesKnow'
  <1>1. \A p \in Requests : Changing(p)' =>
          Changing(p) /\ request'[p] = request[p] /\ Of(p)' = Of(p)
    BY Ended DEF Changing, Of
  <1>2. ASSUME NEW p \in Requests, Changing(p)'
        PROVE  \/ tariff'[Of(p).tariff] = None
               \/ tariff'[Of(p).tariff].target = Of(p).target
    <2>1. Of(p) \in Asked /\ Of(p).op = "CHANGE_TARIFF"
      <3>1. Changing(p)
        BY <1>1, <1>2
      <3> QED
        BY <3>1, FlightType DEF HubInv, AllInOrder, InOrder, Changing
    <2>2. Of(p).tariff \in Tariffs
      BY <2>1, AskedIds
    <2>3. \/ tariff[Of(p).tariff] = None
          \/ tariff[Of(p).tariff].target = Of(p).target
      BY <1>1, <1>2 DEF HubInv, ChangesKnow
    <2> QED
      BY <1>1, <1>2, <2>2, <2>3 DEF TargetsKept
  <1> QED
    BY <1>1, <1>2 DEF HubInv, ChangesKnow

LEMMA SameTariffs ==
  ASSUME tariff' = tariff
  PROVE  TargetsKept
  BY DEF TargetsKept

\* The rows are as they were.
LEMMA SameRows ==
  ASSUME HubInv, UNCHANGED <<hub, charger, gst, tariff>>
  PROVE  /\ FloorHolds' /\ TaxFits' /\ ChargersPlaced' /\ TopologyHolds'
         /\ hub' \in [Hubs -> {None} \cup HubRows]
         /\ charger' \in [Chargers -> [hub : {None} \cup Hubs, public : BOOLEAN]]
         /\ gst' \in [Profiles -> [state : States, tax : Taxes]]
         /\ tariff' \in [Tariffs -> {None} \cup TariffRows]
  BY DEF HubInv, HubTypes, FloorHolds, TaxFits, ChargersPlaced, TopologyHolds

LEMMA AbortKeeps ==
  ASSUME HubInv, NEW q \in Requests, Abort(q)
  PROVE  HubInv'
  BY Ended, ChangesStillKnow, SameTariffs, SameRows DEF Abort, HubInv, HubTypes

LEMMA BeginKeeps ==
  ASSUME HubInv, NEW q \in Requests, NEW r \in Asked, Begin(q, r)
  PROVE  HubInv'
  <1> DEFINE t == [op |-> r.op, asked |-> r, held |-> << >>]
  <1>1. /\ request \in [Requests -> {Idle} \cup HubTasks]
        /\ request' = [request EXCEPT ![q] = t] /\ ~InFlight(q) /\ Admissible(r)
        /\ UNCHANGED <<hub, charger, gst, tariff>>
    BY DEF HubInv, HubTypes, Begin
  <1>2. t \in HubTasks /\ t.op = r.op /\ t.asked = r /\ t.held = << >>
    BY AskedOps DEF HubTasks
  <1> HIDE DEF t
  <1>3. /\ request' \in [Requests -> {Idle} \cup HubTasks] /\ request'[q] = t
        /\ \A p \in Requests \ {q} : request'[p] = request[p]
    BY <1>1, <1>2
  <1>4. Len(t.held) = 0 /\ DOMAIN t.held = {}
    BY <1>2
  <1>5. AllInOrder'
    <2>1. InOrder(q)'
      <3>1. Len(Kinds(r)) \in Nat
        BY LocksHaveKinds
      <3>2. Of(q)' = r /\ request'[q].op = r.op
        BY <1>2, <1>3 DEF Of
      <3> QED
        BY <1>3, <1>4, <3>1, <3>2 DEF InOrder
    <2>2. ASSUME NEW p \in Requests \ {q}, InFlight(p)'
          PROVE  InOrder(p)'
      <3>1. InOrder(p) /\ request'[p] = request[p]
        BY <1>3, <2>2 DEF HubInv, AllInOrder, InFlight
      <3> QED
        BY <3>1 DEF InOrder, Of
    <2> QED
      BY <2>1, <2>2 DEF AllInOrder
  <1>6. OneHolder'
    <2>1. Held(q)' = {}
      BY <1>3, <1>4 DEF Held
    <2>2. \A p \in Requests \ {q} : Held(p)' = Held(p)
      BY <1>3 DEF Held, InFlight
    <2> QED
      BY <2>1, <2>2 DEF HubInv, OneHolder
  <1>7. ChangesKnow'
    <2>1. \A p \in Requests \ {q} : /\ Changing(p)' <=> Changing(p)
                                    /\ Of(p)' = Of(p)
      BY <1>3 DEF Changing, InFlight, Of
    <2>2. Of(q)' = r /\ (Changing(q)' => r.op = "CHANGE_TARIFF")
      BY <1>2, <1>3 DEF Of, Changing
    <2>3. r.op = "CHANGE_TARIFF" =>
            tariff[r.tariff] # None /\ tariff[r.tariff].target = r.target
      BY <1>1 DEF Admissible, RowsOf
    <2> QED
      BY <1>1, <2>1, <2>2, <2>3 DEF HubInv, ChangesKnow
  <1> QED
    BY <1>1, <1>3, <1>5, <1>6, <1>7, SameRows DEF HubInv, HubTypes

LEMMA LockKeeps ==
  ASSUME HubInv, NEW q \in Requests, Lock(q)
  PROVE  HubInv'
  <1> DEFINE r == Of(q)
             held == request[q].held
             n == Len(held)
             w == Locks(r)[n + 1]
             t == [request[q] EXCEPT !.held = Append(held, w)]
  <1>1. /\ request \in [Requests -> {Idle} \cup HubTasks] /\ request[q] \in HubTasks
        /\ request' = [request EXCEPT ![q] = t] /\ InFlight(q) /\ ~Ready(q)
        /\ HeldBy(q, w) = {}
        /\ UNCHANGED <<hub, charger, gst, tariff>>
        /\ r \in Asked /\ held \in Seq(SUBSET (LockKinds \X Lockable)) /\ n \in Nat
        /\ InOrder(q)
    BY FlightType DEF HubInv, HubTypes, Lock, Wants, Of, AllInOrder
  <1>2. n + 1 \in 1 .. Len(Kinds(r))
    <2>1. n # Len(Kinds(r))
      BY <1>1, LocksHaveKinds DEF Ready, Of
    <2>2. n <= Len(Kinds(r)) /\ Len(Kinds(r)) \in Nat
      BY <1>1, LocksHaveKinds DEF InOrder
    <2> QED
      BY <1>1, <2>1, <2>2
  <1>3. OfKind(w, Kinds(r)[n + 1]) /\ w \in SUBSET (LockKinds \X Lockable)
    <2>1. OfKind(w, Kinds(r)[n + 1]) /\ Kinds(r)[n + 1] \in LockKinds
      BY <1>1, <1>2, LocksHaveKinds, KindsType
    <2> QED
      BY <2>1 DEF OfKind
  <1>4. n + 1 = 1 => /\ r.op \in RelationOps => w = {<<"relations", None>>}
                     /\ r.op = "CHANGE_TARIFF" => w = {<<"tariff", r.tariff>>}
    BY <1>1, LocksHaveKinds
  <1> DEFINE longer == Append(held, w)
  <1> HIDE DEF w
  <1>5. /\ longer \in Seq(SUBSET (LockKinds \X Lockable)) /\ Len(longer) = n + 1
        /\ \A i \in 1 .. n : longer[i] = held[i]
        /\ longer[n + 1] = w /\ DOMAIN longer = 1 .. n + 1 /\ DOMAIN held = 1 .. n
    BY <1>1, <1>3
  <1>6. t \in HubTasks /\ t.op = request[q].op /\ t.asked = r /\ t.held = longer
    <2> HIDE DEF longer
    <2>1. t = [request[q] EXCEPT !.held = longer]
      BY DEF longer
    <2> QED
      BY <1>1, <1>5, <2>1 DEF HubTasks, Of
  <1> HIDE DEF t, longer
  <1>7. /\ request' \in [Requests -> {Idle} \cup HubTasks] /\ request'[q] = t
        /\ \A p \in Requests \ {q} : request'[p] = request[p]
    BY <1>1, <1>6
  <1>8. AllInOrder'
    <2>1. InOrder(q)'
      <3>1. Of(q)' = r /\ request'[q].op = request[q].op /\ request'[q].held = longer
        BY <1>6, <1>7 DEF Of
      <3>2. request[q].op = r.op
        BY <1>1 DEF InOrder
      <3>3. Len(longer) <= Len(Kinds(r))
        BY <1>2, <1>5, LocksHaveKinds, <1>1
      <3>4. \A i \in DOMAIN longer : OfKind(longer[i], Kinds(r)[i])
        <4>1. \A i \in 1 .. n : OfKind(held[i], Kinds(r)[i])
          BY <1>1, <1>5 DEF InOrder
        <4> QED
          BY <1>1, <1>3, <1>5, <4>1
      <3>5. /\ r.op \in RelationOps => longer[1] = {<<"relations", None>>}
            /\ r.op = "CHANGE_TARIFF" => longer[1] = {<<"tariff", r.tariff>>}
        <4>1. CASE n = 0
          BY <1>4, <1>5, <4>1
        <4>2. CASE n >= 1
          BY <1>1, <1>5, <4>2 DEF InOrder
        <4> QED
          BY <1>1, <4>1, <4>2
      <3> HIDE DEF r
      <3> QED
        BY <3>1, <3>2, <3>3, <3>4, <3>5 DEF InOrder
    <2>2. ASSUME NEW p \in Requests \ {q}, InFlight(p)'
          PROVE  InOrder(p)'
      <3>1. InOrder(p) /\ request'[p] = request[p]
        BY <1>7, <2>2 DEF HubInv, AllInOrder, InFlight
      <3> QED
        BY <3>1 DEF InOrder, Of
    <2> QED
      BY <2>1, <2>2 DEF AllInOrder
  <1>9. OneHolder'
    <2>1. Held(q)' \subseteq Held(q) \cup w
      <3>1. Held(q) = UNION {held[i] : i \in 1 .. n}
        BY <1>1, <1>5 DEF Held
      <3>2. Held(q)' \subseteq UNION {longer[i] : i \in 1 .. n + 1}
        BY <1>5, <1>6, <1>7 DEF Held
      <3>3. \A i \in 1 .. n + 1 : longer[i] = w \/ (i \in 1 .. n /\ longer[i] = held[i])
        BY <1>1, <1>5
      <3> QED
        BY <3>1, <3>2, <3>3
    <2>2. \A p \in Requests \ {q} : Held(p)' = Held(p)
      BY <1>7 DEF Held, InFlight
    <2>3. \A p \in Requests \ {q} : Held(p) \cap w = {}
      BY <1>1 DEF HeldBy
    <2> QED
      BY <2>1, <2>2, <2>3 DEF HubInv, OneHolder
  <1>10. ChangesKnow'
    <2>1. \A p \in Requests : Of(p)' = Of(p) /\ (Changing(p)' => Changing(p))
      <3>1. Of(q)' = Of(q) /\ (Changing(q)' => Changing(q))
        BY <1>1, <1>6, <1>7 DEF Changing, Of
      <3>2. \A p \in Requests \ {q} : Of(p)' = Of(p) /\ (Changing(p)' => Changing(p))
        BY <1>7 DEF Changing, InFlight, Of
      <3> QED
        BY <3>1, <3>2
    <2> QED
      BY <1>1, <2>1 DEF HubInv, ChangesKnow
  <1> QED
    BY <1>1, <1>7, <1>8, <1>9, <1>10, SameRows DEF HubInv, HubTypes

-----------------------------------------------------------------------------
\* The tariffs of the targets that a write is not about are as they were.
LEMMA RowsOfOthers ==
  ASSUME HubTypes, NEW t \in Tariffs, NEW target \in Hubs, NEW row,
         tariff' = [tariff EXCEPT ![t] = row],
         row # None => row.target = target,
         tariff[t] # None => tariff[t].target = target,
         NEW h \in Hubs, h # target
  PROVE  RowsOf(tariff, h)' = RowsOf(tariff, h)
  <1>1. /\ tariff \in [Tariffs -> {None} \cup TariffRows]
        /\ tariff'[t] = row /\ \A u \in Tariffs \ {t} : tariff'[u] = tariff[u]
    BY DEF HubTypes
  <1>2. \A u \in Tariffs : (tariff'[u] # None /\ tariff'[u].target = h)
                             <=> (tariff[u] # None /\ tariff[u].target = h)
    BY <1>1
  <1> DEFINE ids == {u \in Tariffs : tariff[u] # None /\ tariff[u].target = h}
             idsNext == {u \in Tariffs : tariff'[u] # None /\ tariff'[u].target = h}
  <1>3. idsNext = ids
    BY <1>2
  <1>4. \A u \in ids : tariff'[u] = tariff[u]
    <2>1. \A u \in ids : u = t => row.target = h \/ tariff[t].target = h
      BY <1>1
    <2> QED
      BY <1>1, <1>2
  <1>5. RowsOf(tariff, h) = [u \in ids |-> tariff[u]]
        /\ RowsOf(tariff, h)' = [u \in idsNext |-> tariff'[u]]
    BY DEF RowsOf
  <1> HIDE DEF ids, idsNext
  <1> QED
    BY <1>3, <1>4, <1>5

\* A tariff is written where the result keeps the topology and the floor.
LEMMA TariffWritten ==
  ASSUME HubInv, NEW q \in Requests, Ends(q), NEW t \in Tariffs, NEW target \in Hubs,
         NEW row \in {None} \cup TariffRows, WriteTariff(t, target, row),
         row # None => row.target = target,
         tariff[t] # None => tariff[t].target = target,
         tariff[t] = None => \A p \in Requests : Changing(p) => Of(p).tariff # t
  PROVE  HubInv'
  <1>1. /\ tariff' = [tariff EXCEPT ![t] = row] /\ UNCHANGED <<hub, charger, gst>>
        /\ ValidTopology(RowsOf(tariff, target))'
        /\ hub[target].visible => HasFloor(RowsOf(tariff, target))'
    BY DEF WriteTariff, KeepsTopology, ValidTopology, HasFloor, RowsOf
  <1>2. /\ tariff' \in [Tariffs -> {None} \cup TariffRows]
        /\ tariff'[t] = row /\ \A u \in Tariffs \ {t} : tariff'[u] = tariff[u]
    BY <1>1 DEF HubInv, HubTypes
  <1>3. \A h \in Hubs \ {target} : RowsOf(tariff, h)' = RowsOf(tariff, h)
    BY <1>1, RowsOfOthers DEF HubInv
  <1>4. TopologyHolds'
    <2>1. ASSUME NEW h \in Hubs
          PROVE  ValidTopology(RowsOf(tariff, h))'
      <3>1. CASE h = target
        BY <1>1, <3>1
      <3>2. CASE h # target
        <4>1. ValidTopology(RowsOf(tariff, h)) /\ RowsOf(tariff, h)' = RowsOf(tariff, h)
          BY <1>3, <3>2 DEF HubInv, TopologyHolds
        <4> QED
          BY <4>1 DEF ValidTopology
      <3> QED
        BY <3>1, <3>2
    <2> QED
      BY <2>1 DEF TopologyHolds
  <1>5. FloorHolds'
    <2>1. ASSUME NEW h \in Hubs, hub'[h] # None, hub'[h].visible
          PROVE  HasFloor(RowsOf(tariff, h))'
      <3>1. CASE h = target
        BY <1>1, <2>1, <3>1
      <3>2. CASE h # target
        <4>1. HasFloor(RowsOf(tariff, h)) /\ RowsOf(tariff, h)' = RowsOf(tariff, h)
          BY <1>1, <1>3, <2>1, <3>2 DEF HubInv, FloorHolds
        <4> QED
          BY <4>1 DEF HasFloor
      <3> QED
        BY <3>1, <3>2
    <2> QED
      BY <2>1 DEF FloorHolds
  <1>6. TaxFits' /\ ChargersPlaced'
    BY <1>1 DEF HubInv, TaxFits, ChargersPlaced
  <1>7. TargetsKept
    BY <1>2 DEF TargetsKept
  <1>8. ChangesKnow'
    BY <1>7, ChangesStillKnow
  <1> QED
    BY <1>1, <1>2, <1>4, <1>5, <1>6, <1>8, Ended DEF HubInv, HubTypes

\* What a request that commits asked for.
LEMMA AtHubCommit ==
  ASSUME HubInv, NEW q \in Requests, NEW op, Commits(q, op)
  PROVE  Of(q) \in Asked /\ Of(q).op = op /\ request[q].op = op /\ InFlight(q) /\ Ends(q)
         /\ InOrder(q)
  BY FlightType DEF HubInv, AllInOrder, Commits, Ready, InOrder

\* A new tariff has an identity no change in flight asked for.
LEMMA CreateTariffKeeps ==
  ASSUME HubInv, NEW q \in Requests, CreateTariff(q)
  PROVE  HubInv'
  <1>1. Commits(q, "CREATE_TARIFF")
    BY DEF CreateTariff
  <1>2. Of(q).target \in Hubs /\ Ends(q)
    BY <1>1, AtHubCommit, AskedIds
  <1> PICK target \in Hubs : target = Of(q).target
    BY <1>2
  <1>3. PICK t \in Tariffs, schedule \in Schedules, active \in BOOLEAN :
          /\ tariff[t] = None
          /\ \A p \in Requests : request[p].op = "CHANGE_TARIFF" => Of(p).tariff # t
          /\ WriteTariff(t, target, [target |-> target, schedule |-> schedule, active |-> active])
    BY DEF CreateTariff
  <1> DEFINE row == [target |-> target, schedule |-> schedule, active |-> active]
  <1>4. row \in TariffRows /\ row.target = target
    BY DEF TariffRows
  <1> HIDE DEF row
  <1>5. WriteTariff(t, target, row)
    BY <1>3 DEF row
  <1>6. \A p \in Requests : Changing(p) => Of(p).tariff # t
    BY <1>3 DEF Changing
  <1> QED
    BY <1>2, <1>3, <1>4, <1>5, <1>6, TariffWritten

\* A change writes the tariff it locked, or deletes it.
LEMMA ChangeTariffKeeps ==
  ASSUME HubInv, NEW q \in Requests, UpdateTariff(q) \/ DeleteTariff(q)
  PROVE  HubInv'
  <1>1. Commits(q, "CHANGE_TARIFF") /\ Of(q).tariff \in DOMAIN RowsOf(tariff, Of(q).target)
    BY DEF UpdateTariff, DeleteTariff
  <1>2. /\ Of(q).op = "CHANGE_TARIFF" /\ Of(q) \in Asked /\ Ends(q)
    BY <1>1, AtHubCommit
  <1>3. Of(q).target \in Hubs /\ Of(q).tariff \in Tariffs
    BY <1>2, AskedIds
  <1> PICK target \in Hubs, t \in Tariffs : target = Of(q).target /\ t = Of(q).tariff
    BY <1>3
  <1>4. tariff[t] # None /\ tariff[t].target = target
    BY <1>1 DEF RowsOf
  <1>5. CASE UpdateTariff(q)
    <2>1. PICK schedule \in Schedules, active \in BOOLEAN :
            WriteTariff(t, target, [target |-> target, schedule |-> schedule, active |-> active])
      BY <1>5 DEF UpdateTariff
    <2> DEFINE row == [target |-> target, schedule |-> schedule, active |-> active]
    <2>2. row \in TariffRows /\ row.target = target
      BY DEF TariffRows
    <2> HIDE DEF row
    <2>3. WriteTariff(t, target, row)
      BY <2>1 DEF row
    <2> QED
      BY <1>2, <1>4, <2>2, <2>3, TariffWritten
  <1>6. CASE DeleteTariff(q)
    <2>1. WriteTariff(t, target, None)
      BY <1>6 DEF DeleteTariff
    <2> QED
      BY <1>2, <1>4, <2>1, TariffWritten
  <1> QED
    BY <1>5, <1>6

\* A hub's row is written over its floor and its tax profile.
LEMMA HubWritten ==
  ASSUME HubInv, NEW q \in Requests, Ends(q), NEW h \in Hubs, NEW row \in HubRows,
         hub' = [hub EXCEPT ![h] = row], UNCHANGED <<gst, tariff>>,
         row.visible => HasFloor(RowsOf(tariff, h)),
         row.gst # None => Fits(gst[row.gst], row.state),
         charger' \in [Chargers -> [hub : {None} \cup Hubs, public : BOOLEAN]],
         \A c \in Chargers : /\ charger'[c].public => charger'[c].hub # None
                             /\ charger'[c].hub \in {charger[c].hub, h}
  PROVE  HubInv'
  <1>1. /\ hub \in [Hubs -> {None} \cup HubRows] /\ hub'[h] = row /\ row # None
        /\ \A x \in Hubs \ {h} : hub'[x] = hub[x]
    BY HubConstants DEF HubInv, HubTypes
  <1>2. hub' \in [Hubs -> {None} \cup HubRows]
    BY <1>1
  <1>3. FloorHolds'
    <2>1. ASSUME NEW x \in Hubs, hub'[x] # None, hub'[x].visible
          PROVE  HasFloor(RowsOf(tariff, x))
      BY <1>1, <2>1 DEF HubInv, FloorHolds
    <2> QED
      BY <2>1 DEF FloorHolds
  <1>4. TaxFits'
    <2>1. ASSUME NEW x \in Hubs, hub'[x] # None, hub'[x].gst # None
          PROVE  Fits(gst[hub'[x].gst], hub'[x].state)
      BY <1>1, <2>1 DEF HubInv, TaxFits
    <2> QED
      BY <2>1 DEF TaxFits
  <1>5. ChargersPlaced'
    <2>1. ASSUME NEW c \in Chargers, charger'[c].hub # None
          PROVE  hub'[charger'[c].hub] # None
      <3>1. CASE charger'[c].hub = h
        BY <1>1, <3>1
      <3>2. CASE charger'[c].hub # h
        <4>1. charger'[c].hub = charger[c].hub /\ charger'[c].hub \in Hubs
          BY <2>1, <3>2
        <4> QED
          BY <1>1, <2>1, <3>2, <4>1 DEF HubInv, ChargersPlaced
      <3> QED
        BY <3>1, <3>2
    <2> QED
      BY <2>1 DEF ChargersPlaced
  <1>6. TopologyHolds' /\ TargetsKept
    BY SameTariffs DEF HubInv, TopologyHolds
  <1> QED
    BY <1>2, <1>3, <1>4, <1>5, <1>6, Ended, ChangesStillKnow DEF HubInv, HubTypes

LEMMA ChargersStay ==
  ASSUME HubInv, charger' = charger, NEW h
  PROVE  /\ charger' \in [Chargers -> [hub : {None} \cup Hubs, public : BOOLEAN]]
         /\ \A c \in Chargers : /\ charger'[c].public => charger'[c].hub # None
                                /\ charger'[c].hub \in {charger[c].hub, h}
  BY DEF HubInv, HubTypes, ChargersPlaced

\* A hub's row with one or two of its columns written.
LEMMA HubRowVisible ==
  ASSUME NEW row \in HubRows, NEW v \in BOOLEAN
  PROVE  /\ [row EXCEPT !.visible = v] \in HubRows
         /\ [row EXCEPT !.visible = v].gst = row.gst
         /\ [row EXCEPT !.visible = v].state = row.state
  BY Zenon DEF HubRows

LEMMA HubRowGST ==
  ASSUME NEW row \in HubRows, NEW g \in {None} \cup Profiles
  PROVE  /\ [row EXCEPT !.gst = g] \in HubRows
         /\ [row EXCEPT !.gst = g].visible <=> row.visible
         /\ [row EXCEPT !.gst = g].gst = g
         /\ [row EXCEPT !.gst = g].state = row.state
  BY Zenon DEF HubRows

LEMMA HubRowRead ==
  ASSUME HubInv, NEW h \in Hubs, hub[h] # None
  PROVE  /\ hub[h] \in HubRows
         /\ hub[h].visible => HasFloor(RowsOf(tariff, h))
         /\ hub[h].gst # None => Fits(gst[hub[h].gst], hub[h].state)
  BY DEF HubInv, HubTypes, FloorHolds, TaxFits

LEMMA VisibilityKeeps ==
  ASSUME HubInv, NEW q \in Requests, UpdateHubCustomerVisibility(q)
  PROVE  HubInv'
  <1>1. Commits(q, "HUB_VISIBILITY")
    BY DEF UpdateHubCustomerVisibility
  <1>2. Of(q).hub \in Hubs /\ Of(q).visible \in BOOLEAN /\ Ends(q)
    BY <1>1, AtHubCommit, AskedIds
  <1> PICK h \in Hubs, v \in BOOLEAN : h = Of(q).hub /\ v = Of(q).visible
    BY <1>2
  <1>3. hub[h] # None /\ WriteHub(h, [hub[h] EXCEPT !.visible = v])
    BY DEF UpdateHubCustomerVisibility
  <1> PICK old \in HubRows : old = hub[h]
    BY <1>3, HubRowRead
  <1> DEFINE row == [old EXCEPT !.visible = v]
  <1>4. /\ row \in HubRows /\ row.gst = old.gst /\ row.state = old.state
    BY HubRowVisible
  <1> HIDE DEF row
  <1>5. /\ row.visible => HasFloor(RowsOf(tariff, h))
        /\ hub' = [hub EXCEPT ![h] = row] /\ UNCHANGED <<charger, gst, tariff>>
    BY <1>3, Zenon DEF WriteHub, row
  <1>6. row.gst # None => Fits(gst[row.gst], row.state)
    BY <1>3, <1>4, HubRowRead
  <1> QED
    BY <1>2, <1>4, <1>5, <1>6, ChargersStay, HubWritten

LEMMA UpdateHubKeeps ==
  ASSUME HubInv, NEW q \in Requests, UpdateHub(q)
  PROVE  HubInv'
  <1>1. Commits(q, "UPDATE_HUB")
    BY DEF UpdateHub
  <1>2. Of(q).hub \in Hubs /\ Of(q).visible \in BOOLEAN /\ Ends(q)
    BY <1>1, AtHubCommit, AskedIds
  <1> PICK h \in Hubs, v \in BOOLEAN : h = Of(q).hub /\ v = Of(q).visible
    BY <1>2
  <1>3. hub[h] # None
    BY DEF UpdateHub
  <1>4. PICK state \in States :
          /\ hub[h].gst # None => Fits(gst[hub[h].gst], state)
          /\ WriteHub(h, [hub[h] EXCEPT !.visible = v, !.state = state])
    BY DEF UpdateHub
  <1> PICK old \in HubRows : old = hub[h]
    BY <1>3, HubRowRead
  <1> DEFINE row == [old EXCEPT !.visible = v, !.state = state]
  <1>5. row \in HubRows /\ row.gst = old.gst /\ row.state = state
    BY Zenon DEF HubRows
  <1> HIDE DEF row
  <1>6. /\ row.visible => HasFloor(RowsOf(tariff, h))
        /\ hub' = [hub EXCEPT ![h] = row] /\ UNCHANGED <<charger, gst, tariff>>
    BY <1>4, Zenon DEF WriteHub, row
  <1>7. row.gst # None => Fits(gst[row.gst], row.state)
    BY <1>4, <1>5
  <1> QED
    BY <1>2, <1>5, <1>6, <1>7, ChargersStay, HubWritten

\* A hub gets a profile that fits its state, under the lock of all relations.
LEMMA AssignGSTKeeps ==
  ASSUME HubInv, NEW q \in Requests, AssignGST(q)
  PROVE  HubInv'
  <1>1. Commits(q, "ASSIGN_GST")
    BY DEF AssignGST
  <1>2. Of(q).hub \in Hubs /\ Of(q).gst \in Profiles /\ Ends(q)
    BY <1>1, AtHubCommit, AskedIds
  <1> PICK h \in Hubs, g \in Profiles : h = Of(q).hub /\ g = Of(q).gst
    BY <1>2
  <1>3. /\ hub[h] # None /\ Fits(gst[g], hub[h].state)
        /\ hub' = [hub EXCEPT ![h].gst = g]
    BY DEF AssignGST
  <1>8. UNCHANGED <<charger, gst, tariff>>
    BY DEF AssignGST
  <1> PICK old \in HubRows : old = hub[h]
    BY <1>3, HubRowRead
  <1> DEFINE row == [old EXCEPT !.gst = g]
  <1>4. /\ row \in HubRows /\ (row.visible <=> old.visible) /\ row.gst = g
        /\ row.state = old.state
    BY HubRowGST
  <1>5. hub' = [hub EXCEPT ![h] = row]
    BY <1>3
  <1> HIDE DEF row
  <1>6. row.visible => HasFloor(RowsOf(tariff, h))
    BY <1>3, <1>4, HubRowRead
  <1>7. row.gst # None => Fits(gst[row.gst], row.state)
    BY <1>3, <1>4
  <1> QED
    BY <1>2, <1>4, <1>5, <1>6, <1>7, <1>8, ChargersStay, HubWritten

LEMMA UnassignGSTKeeps ==
  ASSUME HubInv, NEW q \in Requests, UnassignGST(q)
  PROVE  HubInv'
  <1>1. Commits(q, "UNASSIGN_GST")
    BY DEF UnassignGST
  <1>2. Of(q).hub \in Hubs /\ Ends(q)
    BY <1>1, AtHubCommit, AskedIds
  <1> PICK h \in Hubs : h = Of(q).hub
    BY <1>2
  <1>3. /\ hub[h] # None
        /\ hub' = [hub EXCEPT ![h].gst = None] /\ UNCHANGED <<charger, gst, tariff>>
    BY DEF UnassignGST
  <1> PICK old \in HubRows : old = hub[h]
    BY <1>3, HubRowRead
  <1> DEFINE row == [old EXCEPT !.gst = None]
  <1>4. row \in HubRows /\ (row.visible <=> old.visible) /\ row.gst = None
    BY HubRowGST
  <1>5. hub' = [hub EXCEPT ![h] = row]
    BY <1>3
  <1> HIDE DEF row
  <1>6. row.visible => HasFloor(RowsOf(tariff, h))
    BY <1>3, <1>4, HubRowRead
  <1> QED
    BY <1>2, <1>3, <1>4, <1>5, <1>6, ChargersStay, HubWritten

\* A profile is changed to one that fits its hubs, under the same lock.
LEMMA UpdateGSTKeeps ==
  ASSUME HubInv, NEW q \in Requests, UpdateGST(q)
  PROVE  HubInv'
  <1>1. Commits(q, "UPDATE_GST")
    BY DEF UpdateGST
  <1>2. Of(q).gst \in Profiles /\ Ends(q)
    BY <1>1, AtHubCommit, AskedIds
  <1> PICK g \in Profiles : g = Of(q).gst
    BY <1>2
  <1>3. PICK row \in [state : States, tax : Taxes] : gst' = [gst EXCEPT ![g] = row]
    BY DEF UpdateGST
  <1>4. /\ \A h \in HubsOf(g) : Fits(gst'[g], hub[h].state)
        /\ UNCHANGED <<hub, charger, tariff>>
    BY DEF UpdateGST
  <1>5. /\ gst' \in [Profiles -> [state : States, tax : Taxes]]
        /\ \A x \in Profiles \ {g} : gst'[x] = gst[x]
    BY <1>3 DEF HubInv, HubTypes
  <1>6. TaxFits'
    <2>1. ASSUME NEW h \in Hubs, hub[h] # None, hub[h].gst # None
          PROVE  Fits(gst'[hub[h].gst], hub[h].state)
      <3>1. CASE hub[h].gst = g
        BY <1>4, <2>1, <3>1 DEF HubsOf
      <3>2. CASE hub[h].gst # g
        <4>1. hub[h].gst \in Profiles
          BY <2>1, HubRowRead DEF HubRows
        <4> QED
          BY <1>5, <2>1, <3>2, <4>1, HubRowRead
      <3> QED
        BY <3>1, <3>2
    <2> QED
      BY <1>4, <2>1 DEF TaxFits
  <1>7. FloorHolds' /\ ChargersPlaced' /\ TopologyHolds' /\ TargetsKept
    BY <1>4, SameTariffs DEF HubInv, FloorHolds, ChargersPlaced, TopologyHolds
  <1> QED
    BY <1>2, <1>4, <1>5, <1>6, <1>7, Ended, ChangesStillKnow DEF HubInv, HubTypes

ChargerRows == [hub : {None} \cup Hubs, public : BOOLEAN]

LEMMA ChargerRowWritten ==
  ASSUME NEW row \in ChargerRows
  PROVE  /\ \A h \in {None} \cup Hubs : /\ [row EXCEPT !.hub = h] \in ChargerRows
                                        /\ [row EXCEPT !.hub = h].hub = h
         /\ \A v \in BOOLEAN : /\ [row EXCEPT !.public = v] \in ChargerRows
                               /\ [row EXCEPT !.public = v].hub = row.hub
                               /\ [row EXCEPT !.public = v].public <=> v
  <1>1. ASSUME NEW h \in {None} \cup Hubs
        PROVE  [row EXCEPT !.hub = h] \in ChargerRows /\ [row EXCEPT !.hub = h].hub = h
    BY <1>1, Zenon DEF ChargerRows
  <1>2. ASSUME NEW v \in BOOLEAN
        PROVE  /\ [row EXCEPT !.public = v] \in ChargerRows
               /\ [row EXCEPT !.public = v].hub = row.hub
               /\ [row EXCEPT !.public = v].public <=> v
    BY <1>2, Zenon DEF ChargerRows
  <1> QED
    BY <1>1, <1>2

\* A hub takes chargers that may have been in another hub.
LEMMA CreateHubKeeps ==
  ASSUME HubInv, NEW q \in Requests, CreateHub(q)
  PROVE  HubInv'
  <1>1. Commits(q, "CREATE_HUB")
    BY DEF CreateHub
  <1>2. Of(q).hub \in Hubs /\ Ends(q)
    BY <1>1, AtHubCommit, AskedIds
  <1> PICK h \in Hubs : h = Of(q).hub
    BY <1>2
  <1>3. PICK state \in States :
          hub' = [hub EXCEPT ![h] = [visible |-> FALSE, state |-> state, gst |-> None]]
    BY DEF CreateHub
  <1> PICK S : S = Of(q).chargers
    OBVIOUS
  <1>4. /\ charger' = [c \in Chargers |->
             IF c \in S THEN [charger[c] EXCEPT !.hub = h] ELSE charger[c]]
        /\ UNCHANGED <<gst, tariff>>
    BY DEF CreateHub
  <1> DEFINE row == [visible |-> FALSE, state |-> state, gst |-> None]
  <1>5. row \in HubRows /\ ~row.visible /\ row.gst = None
    BY DEF HubRows
  <1> HIDE DEF row
  <1>6. hub' = [hub EXCEPT ![h] = row]
    BY <1>3 DEF row
  <1>7. charger \in [Chargers -> ChargerRows]
    BY DEF HubInv, HubTypes, ChargerRows
  <1>8. \A c \in Chargers : [charger[c] EXCEPT !.hub = h] \in ChargerRows
                              /\ [charger[c] EXCEPT !.hub = h].hub = h
    BY <1>7, ChargerRowWritten
  <1>9. charger' \in [Chargers -> ChargerRows]
    BY <1>4, <1>7, <1>8
  <1>10. \A c \in Chargers : /\ charger'[c].public => charger'[c].hub # None
                             /\ charger'[c].hub \in {charger[c].hub, h}
    BY <1>4, <1>8, HubConstants DEF HubInv, ChargersPlaced
  <1> QED
    BY <1>2, <1>4, <1>5, <1>6, <1>9, <1>10, HubWritten DEF ChargerRows

\* A hub goes with no tariff and no charger left in it.
LEMMA DeleteHubKeeps ==
  ASSUME HubInv, NEW q \in Requests, DeleteHub(q)
  PROVE  HubInv'
  <1>1. Commits(q, "DELETE_HUB")
    BY DEF DeleteHub
  <1>2. Of(q).hub \in Hubs /\ Ends(q)
    BY <1>1, AtHubCommit, AskedIds
  <1> PICK h \in Hubs : h = Of(q).hub
    BY <1>2
  <1>3. /\ charger' = [c \in Chargers |-> IF c \in InHub(h) THEN OutOfHub(c) ELSE charger[c]]
        /\ hub' = [hub EXCEPT ![h] = None]
        /\ UNCHANGED <<gst, tariff>>
    BY DEF DeleteHub
  <1>4. charger \in [Chargers -> ChargerRows] /\ hub \in [Hubs -> {None} \cup HubRows]
    BY DEF HubInv, HubTypes, ChargerRows
  <1>5. \A c \in Chargers : /\ OutOfHub(c) \in ChargerRows /\ OutOfHub(c).hub = None
                            /\ ~OutOfHub(c).public
    BY DEF OutOfHub, ChargerRows
  <1>6. charger' \in [Chargers -> ChargerRows]
    BY <1>3, <1>4, <1>5
  <1>7. /\ hub' \in [Hubs -> {None} \cup HubRows] /\ hub'[h] = None
        /\ \A x \in Hubs \ {h} : hub'[x] = hub[x]
    BY <1>3, <1>4
  <1>8. ChargersPlaced'
    <2>1. ASSUME NEW c \in Chargers
          PROVE  /\ charger'[c].public => charger'[c].hub # None
                 /\ charger'[c].hub # None => hub'[charger'[c].hub] # None
      <3>1. CASE c \in InHub(h)
        BY <1>3, <1>5, <3>1
      <3>2. CASE c \notin InHub(h)
        <4>1. charger'[c] = charger[c] /\ charger[c].hub # h
              /\ charger[c].hub \in {None} \cup Hubs
          BY <1>3, <1>4, <3>2 DEF InHub, ChargerRows
        <4> QED
          BY <1>7, <4>1 DEF HubInv, ChargersPlaced
      <3> QED
        BY <3>1, <3>2
    <2> QED
      BY <2>1 DEF ChargersPlaced
  <1>9. FloorHolds' /\ TaxFits' /\ TopologyHolds' /\ TargetsKept
    BY <1>3, <1>7, SameTariffs DEF HubInv, FloorHolds, TaxFits, TopologyHolds
  <1> QED
    BY <1>2, <1>3, <1>6, <1>7, <1>8, <1>9, Ended, ChangesStillKnow
       DEF HubInv, HubTypes, ChargerRows

\* A charger's row is written: in a hub that exists, or in none and not public.
LEMMA ChargerWritten ==
  ASSUME HubInv, NEW q \in Requests, Ends(q), NEW c \in Chargers, NEW row \in ChargerRows,
         charger' = [charger EXCEPT ![c] = row], UNCHANGED <<hub, gst, tariff>>,
         row.public => row.hub # None,
         row.hub # None => hub[row.hub] # None
  PROVE  HubInv'
  <1>1. charger \in [Chargers -> ChargerRows]
    BY DEF HubInv, HubTypes, ChargerRows
  <1>2. /\ charger' \in [Chargers -> ChargerRows] /\ charger'[c] = row
        /\ \A x \in Chargers \ {c} : charger'[x] = charger[x]
    BY <1>1
  <1>3. ChargersPlaced'
    BY <1>2 DEF HubInv, ChargersPlaced
  <1>4. FloorHolds' /\ TaxFits' /\ TopologyHolds' /\ TargetsKept
    BY SameTariffs DEF HubInv, FloorHolds, TaxFits, TopologyHolds
  <1> QED
    BY <1>2, <1>3, <1>4, Ended, ChangesStillKnow DEF HubInv, HubTypes, ChargerRows

LEMMA AssignChargerKeeps ==
  ASSUME HubInv, NEW q \in Requests, AssignCharger(q)
  PROVE  HubInv'
  <1>1. Commits(q, "ASSIGN_CHARGER")
    BY DEF AssignCharger
  <1>2. Of(q).hub \in Hubs /\ Of(q).charger \in Chargers /\ Ends(q)
    BY <1>1, AtHubCommit, AskedIds
  <1> PICK h \in Hubs, c \in Chargers : h = Of(q).hub /\ c = Of(q).charger
    BY <1>2
  <1>3. /\ hub[h] # None /\ charger' = [charger EXCEPT ![c].hub = h]
    BY DEF AssignCharger
  <1>4. UNCHANGED <<hub, gst, tariff>>
    BY DEF AssignCharger
  <1> PICK old \in ChargerRows : old = charger[c]
    BY DEF HubInv, HubTypes, ChargerRows
  <1> DEFINE row == [old EXCEPT !.hub = h]
  <1>5. row \in ChargerRows /\ row.hub = h
    BY ChargerRowWritten
  <1>6. charger' = [charger EXCEPT ![c] = row]
    BY <1>3
  <1> HIDE DEF row
  <1> QED
    BY <1>2, <1>3, <1>4, <1>5, <1>6, HubConstants, ChargerWritten

LEMMA UnassignChargerKeeps ==
  ASSUME HubInv, NEW q \in Requests, UnassignCharger(q)
  PROVE  HubInv'
  <1>1. Commits(q, "UNASSIGN_CHARGER")
    BY DEF UnassignCharger
  <1>2. Of(q).charger \in Chargers /\ Ends(q)
    BY <1>1, AtHubCommit, AskedIds
  <1> PICK c \in Chargers : c = Of(q).charger
    BY <1>2
  <1>3. charger' = [charger EXCEPT ![c] = OutOfHub(c)]
    BY DEF UnassignCharger
  <1>4. UNCHANGED <<hub, gst, tariff>>
    BY DEF UnassignCharger
  <1> DEFINE row == OutOfHub(c)
  <1>5. row \in ChargerRows /\ row.hub = None /\ ~row.public
    BY DEF OutOfHub, ChargerRows
  <1> HIDE DEF row
  <1>6. charger' = [charger EXCEPT ![c] = row]
    BY <1>3 DEF row
  <1> QED
    BY <1>2, <1>4, <1>5, <1>6, ChargerWritten

LEMMA UpdateChargerKeeps ==
  ASSUME HubInv, NEW q \in Requests, UpdateCharger(q)
  PROVE  HubInv'
  <1>1. Commits(q, "UPDATE_CHARGER")
    BY DEF UpdateCharger
  <1>2. Of(q).charger \in Chargers /\ Ends(q)
    BY <1>1, AtHubCommit, AskedIds
  <1> PICK c \in Chargers : c = Of(q).charger
    BY <1>2
  <1>3. PICK public \in BOOLEAN : /\ public => charger[c].hub # None
                                  /\ charger' = [charger EXCEPT ![c].public = public]
    BY DEF UpdateCharger
  <1>4. UNCHANGED <<hub, gst, tariff>>
    BY DEF UpdateCharger
  <1> PICK old \in ChargerRows : old = charger[c]
    BY DEF HubInv, HubTypes, ChargerRows
  <1> DEFINE row == [old EXCEPT !.public = public]
  <1>5. row \in ChargerRows /\ row.hub = old.hub /\ (row.public <=> public)
    BY <1>3, ChargerRowWritten
  <1>6. charger' = [charger EXCEPT ![c] = row]
    BY <1>3
  <1> HIDE DEF row
  <1>7. /\ row.public => row.hub # None
        /\ row.hub # None => hub[row.hub] # None
    BY <1>3, <1>5 DEF HubInv, ChargersPlaced
  <1> QED
    BY <1>2, <1>4, <1>5, <1>6, <1>7, ChargerWritten

\* Every request leaves what is sold as it should be.
LEMMA HubStep ==
  ASSUME HubInv, Next
  PROVE  HubInv'
  <1> PICK q \in Requests :
        \/ \E r \in Asked : Begin(q, r)
        \/ Lock(q) \/ Commit(q) \/ Abort(q)
    BY DEF Next
  <1>1. CASE \E r \in Asked : Begin(q, r)
    BY <1>1, BeginKeeps
  <1>2. CASE Lock(q)
    BY <1>2, LockKeeps
  <1>3. CASE Abort(q)
    BY <1>3, AbortKeeps
  <1>4. CASE CreateTariff(q) \/ UpdateTariff(q) \/ DeleteTariff(q)
    BY <1>4, CreateTariffKeeps, ChangeTariffKeeps
  <1>5. CASE UpdateHubCustomerVisibility(q) \/ UpdateHub(q)
    BY <1>5, VisibilityKeeps, UpdateHubKeeps
  <1>6. CASE AssignGST(q) \/ UnassignGST(q) \/ UpdateGST(q)
    BY <1>6, AssignGSTKeeps, UnassignGSTKeeps, UpdateGSTKeeps
  <1>7. CASE CreateHub(q) \/ DeleteHub(q)
    BY <1>7, CreateHubKeeps, DeleteHubKeeps
  <1>8. CASE AssignCharger(q) \/ UnassignCharger(q) \/ UpdateCharger(q)
    BY <1>8, AssignChargerKeeps, UnassignChargerKeeps, UpdateChargerKeeps
  <1> QED
    BY <1>1, <1>2, <1>3, <1>4, <1>5, <1>6, <1>7, <1>8 DEF Commit

-----------------------------------------------------------------------------
\* The order the locks of every request have: only a change of a tariff comes
\* back to what it began with.
After(k, l) ==
  \/ k = "charger" /\ l = "hub"
  \/ k = "relations" /\ l \in {"hub", "gst", "topology"}
  \/ k = "gst" /\ l \in {"hub", "topology"}
  \/ k = "hub" /\ l \in {"gst", "topology", "tariff"}
  \/ k = "topology" /\ l = "tariff"

\* The kinds of locks come in one order, but for a change of a tariff.
LEMMA KindsInOrder ==
  ASSUME NEW r \in Asked
  PROVE  /\ \A i, j \in 1 .. Len(Kinds(r)) : i < j =>
              \/ After(Kinds(r)[i], Kinds(r)[j])
              \/ i = 1 /\ Kinds(r)[i] = "tariff" /\ r.op = "CHANGE_TARIFF"
         /\ \A i \in 1 .. Len(Kinds(r)) : Kinds(r)[i] = "gst" => r.op \in RelationOps /\ i >= 2
  <1>1. r.op \in HubOps
    BY AskedOps
  <1>2. \A a, b, c, d : /\ Len(<<a>>) = 1 /\ Len(<<a, b>>) = 2 /\ Len(<<a, b, c>>) = 3
                        /\ Len(<<a, b, c, d>>) = 4
    OBVIOUS
  <1>3. /\ \A i \in 1 .. 4 : i = 1 \/ i = 2 \/ i = 3 \/ i = 4
        /\ \A i \in 1 .. 3 : i = 1 \/ i = 2 \/ i = 3
        /\ \A i \in 1 .. 2 : i = 1 \/ i = 2
        /\ \A i \in 1 .. 1 : i = 1
    OBVIOUS
  <1>4. CASE r.op = "CREATE_TARIFF"
    BY <1>2, <1>3, <1>4 DEF Kinds, After
  <1>5. CASE r.op = "CHANGE_TARIFF"
    <2>1. Kinds(r) = <<"tariff", "hub", "topology", "tariff">>
      BY <1>5 DEF Kinds
    <2> QED
      BY <1>2, <1>3, <1>5, <2>1 DEF After
  <1>6. CASE r.op = "HUB_VISIBILITY"
    BY <1>2, <1>3, <1>6 DEF Kinds, After
  <1>7. CASE r.op = "UPDATE_HUB"
    <2>1. CASE r.visible
      <3>1. Kinds(r) = <<"relations", "hub", "gst", "topology">>
        BY <1>7, <2>1 DEF Kinds
      <3> QED
        BY <1>2, <1>3, <1>7, <3>1 DEF After, RelationOps
    <2>2. CASE ~r.visible
      <3>1. Kinds(r) = <<"relations", "hub", "gst">>
        BY <1>7, <2>2 DEF Kinds
      <3> QED
        BY <1>2, <1>3, <1>7, <3>1 DEF After, RelationOps
    <2> QED
      BY <2>1, <2>2
  <1>8. CASE r.op = "ASSIGN_GST"
    BY <1>2, <1>3, <1>8 DEF Kinds, After, RelationOps
  <1>9. CASE r.op = "UNASSIGN_GST"
    BY <1>2, <1>3, <1>9 DEF Kinds, After, RelationOps
  <1>10. CASE r.op = "UPDATE_GST"
    BY <1>2, <1>3, <1>10 DEF Kinds, After, RelationOps
  <1>11. CASE r.op \in {"DELETE_HUB", "ASSIGN_CHARGER"}
    BY <1>2, <1>3, <1>11 DEF Kinds, After
  <1>12. CASE r.op \in {"CREATE_HUB", "UNASSIGN_CHARGER", "UPDATE_CHARGER"}
    <2>1. Kinds(r) = <<"charger">>
      BY <1>12 DEF Kinds
    <2> QED
      BY <1>3, <2>1
  <1> QED
    BY <1>1, <1>4, <1>5, <1>6, <1>7, <1>8, <1>9, <1>10, <1>11, <1>12 DEF HubOps, RelationOps

\* A request waits for tariffs to check the rows of a target, or for its own.
LEMMA TariffLocks ==
  ASSUME NEW r \in Asked, NEW j \in 1 .. Len(Kinds(r)), Kinds(r)[j] = "tariff"
  PROVE  /\ r.op \in {"CREATE_TARIFF", "CHANGE_TARIFF"}
         /\ \/ Locks(r)[j] = Ids("tariff", DOMAIN RowsOf(tariff, r.target))
            \/ r.op = "CHANGE_TARIFF" /\ Locks(r)[j] = Ids("tariff", {r.tariff})
  <1>1. r.op \in HubOps
    BY AskedOps
  <1>2. \A a, b, c, d : /\ Len(<<a>>) = 1 /\ Len(<<a, b>>) = 2 /\ Len(<<a, b, c>>) = 3
                        /\ Len(<<a, b, c, d>>) = 4
    OBVIOUS
  <1>3. /\ \A i \in 1 .. 4 : i = 1 \/ i = 2 \/ i = 3 \/ i = 4
        /\ \A i \in 1 .. 3 : i = 1 \/ i = 2 \/ i = 3
        /\ \A i \in 1 .. 2 : i = 1 \/ i = 2
        /\ \A i \in 1 .. 1 : i = 1
    OBVIOUS
  <1>4. CASE r.op = "CREATE_TARIFF"
    <2>1. Kinds(r) = <<"hub", "topology", "tariff">>
      BY <1>4 DEF Kinds
    <2>2. j = 3
      BY <1>2, <1>3, <2>1
    <2>3. Locks(r)[3] = Ids("tariff", DOMAIN RowsOf(tariff, r.target))
      <3>1. Locks(r) = TopologyOf(r.target)
        BY <1>4, LocksAre
      <3> QED
        BY <3>1 DEF TopologyOf
    <2> QED
      BY <1>4, <2>2, <2>3
  <1>5. CASE r.op = "CHANGE_TARIFF"
    <2>1. Kinds(r) = <<"tariff", "hub", "topology", "tariff">>
      BY <1>5 DEF Kinds
    <2>2. j = 1 \/ j = 4
      BY <1>2, <1>3, <2>1
    <2>3. /\ Locks(r)[1] = Ids("tariff", {r.tariff})
          /\ Locks(r)[4] = Ids("tariff", DOMAIN RowsOf(tariff, r.target))
      <3>1. Locks(r) = <<Ids("tariff", {r.tariff}), Ids("hub", {r.target}),
                         Ids("topology", {r.target}),
                         Ids("tariff", DOMAIN RowsOf(tariff, r.target))>>
        BY <1>5, LocksAre
      <3> QED
        BY <3>1
    <2> QED
      BY <1>5, <2>2, <2>3
  <1>6. CASE r.op = "HUB_VISIBILITY"
    BY <1>2, <1>3, <1>6 DEF Kinds
  <1>7. CASE r.op = "UPDATE_HUB"
    BY <1>2, <1>3, <1>7 DEF Kinds
  <1>8. CASE r.op \in {"ASSIGN_GST", "UNASSIGN_GST", "UPDATE_GST"}
    BY <1>2, <1>3, <1>8 DEF Kinds
  <1>9. CASE r.op \in {"CREATE_HUB", "DELETE_HUB", "ASSIGN_CHARGER", "UNASSIGN_CHARGER",
                       "UPDATE_CHARGER"}
    BY <1>2, <1>3, <1>9 DEF Kinds
  <1> QED
    BY <1>1, <1>4, <1>5, <1>6, <1>7, <1>8, <1>9 DEF HubOps, RelationOps

\* What a request waits for next.
NextLock(q) == Len(request[q].held) + 1
WaitsFor(q) == Kinds(Of(q))[NextLock(q)]

\* One that is held up has a holder of what it waits for, and that one, being
\* held up itself, waits for something that comes later in its order.
LEMMA Chain ==
  ASSUME HubInv, NEW S \in SUBSET Requests, Deadlock(S), NEW q \in S
  PROVE  /\ InFlight(q) /\ Of(q) \in Asked /\ request[q].op = Of(q).op
         /\ NextLock(q) \in 1 .. Len(Kinds(Of(q)))
         /\ WaitsFor(q) \in LockKinds
         /\ \E p \in S \ {q} : \E i \in DOMAIN request[p].held : \E l \in request[p].held[i] :
              /\ l \in Wants(q) /\ InFlight(p)
              /\ Kinds(Of(p))[i] = WaitsFor(q) /\ l[1] = WaitsFor(q)
              /\ i \in 1 .. Len(Kinds(Of(p))) /\ i < NextLock(p)
  <1>1. \A x \in S : /\ InFlight(x) /\ ~Ready(x)
                     /\ \E p \in S \ {x} : Held(p) \cap Wants(x) # {}
    BY DEF Deadlock, Blockers, HeldBy
  <1>2. ASSUME NEW x \in S
        PROVE  /\ Of(x) \in Asked /\ InOrder(x)
               /\ request[x].held \in Seq(SUBSET (LockKinds \X Lockable))
               /\ NextLock(x) \in 1 .. Len(Kinds(Of(x))) /\ request[x].op = Of(x).op
               /\ DOMAIN request[x].held = 1 .. Len(request[x].held)
               /\ Len(request[x].held) \in Nat /\ Len(Kinds(Of(x))) \in Nat
    <2>1. /\ Of(x) \in Asked /\ InOrder(x)
          /\ request[x].held \in Seq(SUBSET (LockKinds \X Lockable))
      BY <1>1, FlightType DEF HubInv, AllInOrder
    <2>2. Len(request[x].held) # Len(Kinds(Of(x))) /\ Len(Kinds(Of(x))) \in Nat
      BY <1>1, <2>1, LocksHaveKinds DEF Ready, Of
    <2>3. Len(request[x].held) <= Len(Kinds(Of(x))) /\ request[x].op = Of(x).op
      BY <2>1 DEF InOrder
    <2> QED
      BY <2>1, <2>2, <2>3 DEF NextLock
  <1>3. WaitsFor(q) \in LockKinds /\ OfKind(Wants(q), WaitsFor(q))
    <2>1. Wants(q) = Locks(Of(q))[NextLock(q)]
      BY DEF Wants, NextLock, Of
    <2> QED
      BY <1>2, <2>1, KindsType, LocksHaveKinds DEF WaitsFor
  <1>4. PICK p \in S \ {q}, l \in Wants(q) : l \in Held(p)
    BY <1>1
  <1>5. PICK i \in DOMAIN request[p].held : l \in request[p].held[i]
    BY <1>1, <1>4 DEF Held
  <1>6. i \in 1 .. Len(Kinds(Of(p))) /\ i < NextLock(p)
    BY <1>2, <1>4, <1>5 DEF NextLock
  <1>7. l[1] = WaitsFor(q) /\ l[1] = Kinds(Of(p))[i]
    <2>1. OfKind(request[p].held[i], Kinds(Of(p))[i])
      BY <1>2, <1>4, <1>5 DEF InOrder
    <2> QED
      BY <1>3, <1>4, <1>5, <2>1 DEF OfKind
  <1> QED
    BY <1>1, <1>2, <1>3, <1>4, <1>5, <1>6, <1>7

\* A circle of waiting requests would go up in that order for ever.
LEMMA HubInvDeadlock ==
  ASSUME HubInv
  PROVE  OnlyTariffsDeadlock
  <1> SUFFICES ASSUME NEW S \in SUBSET Requests, Deadlock(S)
               PROVE  \E q \in S : /\ request[q].op = "CHANGE_TARIFF"
                                   /\ \E p \in S \ {q} :
                                        /\ request[p].op \in {"CREATE_TARIFF", "CHANGE_TARIFF"}
                                        /\ Of(p).target = Of(q).target
    BY DEF OnlyTariffsDeadlock
  \* From one that waits to one that waits for something later.
  <1>1. ASSUME NEW q \in S
        PROVE  \E p \in S : \/ After(WaitsFor(q), WaitsFor(p))
                            \/ WaitsFor(q) = "tariff"
    <2>1. PICK p \in S \ {q} : \E i \in DOMAIN request[p].held :
             /\ Kinds(Of(p))[i] = WaitsFor(q)
             /\ i \in 1 .. Len(Kinds(Of(p))) /\ i < NextLock(p)
      BY Chain
    <2>2. PICK i \in 1 .. Len(Kinds(Of(p))) : Kinds(Of(p))[i] = WaitsFor(q) /\ i < NextLock(p)
      BY <2>1
    <2>3. Of(p) \in Asked /\ NextLock(p) \in 1 .. Len(Kinds(Of(p)))
      BY Chain
    <2>4. \/ After(Kinds(Of(p))[i], Kinds(Of(p))[NextLock(p)])
          \/ Kinds(Of(p))[i] = "tariff"
      BY <2>2, <2>3, KindsInOrder
    <2> QED
      BY <2>2, <2>4 DEF WaitsFor
  \* Who waits for a tax profile has the lock of all tax relations, and so has
  \* who holds one.
  <1>2. ASSUME NEW q \in S
        PROVE  WaitsFor(q) # "gst"
    <2> SUFFICES ASSUME WaitsFor(q) = "gst" PROVE FALSE
      OBVIOUS
    <2>1. PICK p \in S \ {q} : \E i \in DOMAIN request[p].held :
             /\ Kinds(Of(p))[i] = WaitsFor(q) /\ InFlight(p)
             /\ i \in 1 .. Len(Kinds(Of(p))) /\ i < NextLock(p)
      BY Chain
    <2>2. ASSUME NEW x \in S, NEW i \in 1 .. Len(Kinds(Of(x))), Kinds(Of(x))[i] = "gst",
                 i <= NextLock(x)
          PROVE  <<"relations", None>> \in Held(x)
      <3>1. Of(x) \in Asked /\ InFlight(x) /\ InOrder(x)
            /\ request[x].held \in Seq(SUBSET (LockKinds \X Lockable))
        BY Chain, FlightType DEF HubInv, AllInOrder
      <3>2. Of(x).op \in RelationOps /\ i >= 2
        BY <2>2, <3>1, KindsInOrder
      <3>3. Len(request[x].held) >= 1 /\ 1 \in DOMAIN request[x].held
        BY <2>2, <3>1, <3>2 DEF NextLock
      <3>4. request[x].held[1] = {<<"relations", None>>}
        BY <3>1, <3>2, <3>3 DEF InOrder
      <3> QED
        BY <3>1, <3>3, <3>4 DEF Held
    <2>3. <<"relations", None>> \in Held(q)
      <3>1. NextLock(q) \in 1 .. Len(Kinds(Of(q)))
        BY Chain
      <3> QED
        BY <2>2, <3>1 DEF WaitsFor
    <2>4. <<"relations", None>> \in Held(p)
      <3>1. NextLock(p) \in 1 .. Len(Kinds(Of(p)))
        BY <2>1, Chain
      <3> QED
        BY <2>1, <2>2, <3>1
    <2> QED
      BY <2>1, <2>3, <2>4 DEF HubInv, OneHolder
  <1>3. \E q \in S : WaitsFor(q) = "tariff"
    <2>1. \A q \in S : WaitsFor(q) \in LockKinds
      BY Chain
    <2>2. \A q \in S : WaitsFor(q) = "topology" => \E p \in S : WaitsFor(p) = "tariff"
      BY <1>1 DEF After
    <2>3. \A q \in S : WaitsFor(q) = "hub" => \E p \in S : WaitsFor(p) = "tariff"
      BY <1>1, <1>2, <2>2 DEF After
    <2>4. \A q \in S : WaitsFor(q) \in {"charger", "relations"} =>
            \E p \in S : WaitsFor(p) = "tariff"
      BY <1>1, <1>2, <2>2, <2>3 DEF After
    <2>5. S # {}
      BY DEF Deadlock
    <2> QED
      BY <1>2, <2>1, <2>2, <2>3, <2>4, <2>5 DEF LockKinds
  <1>4. PICK q \in S : WaitsFor(q) = "tariff"
    BY <1>3
  <1>5. PICK p \in S \ {q} : \E i \in DOMAIN request[p].held : \E l \in request[p].held[i] :
          /\ l \in Wants(q) /\ InFlight(p)
          /\ Kinds(Of(p))[i] = "tariff" /\ i \in 1 .. Len(Kinds(Of(p))) /\ i < NextLock(p)
    BY <1>4, Chain
  <1>6. PICK i \in DOMAIN request[p].held :
          /\ \E l \in request[p].held[i] : l \in Wants(q)
          /\ Kinds(Of(p))[i] = "tariff" /\ i \in 1 .. Len(Kinds(Of(p))) /\ i < NextLock(p)
    BY <1>5
  <1>7. /\ Of(p) \in Asked /\ request[p].op = Of(p).op /\ InFlight(p)
        /\ Of(q) \in Asked /\ request[q].op = Of(q).op /\ InFlight(q)
        /\ NextLock(p) \in 1 .. Len(Kinds(Of(p))) /\ NextLock(q) \in 1 .. Len(Kinds(Of(q)))
    BY Chain
  \* The holder has come back for the rows of its target with its own held.
  <1>8. Of(p).op = "CHANGE_TARIFF" /\ i = 1
    <2>1. \A k : ~After("tariff", k)
      BY DEF After
    <2> QED
      BY <1>6, <1>7, <2>1, KindsInOrder
  <1>9. request[p].held[1] = {<<"tariff", Of(p).tariff>>}
    <2>1. InOrder(p) /\ request[p].held \in Seq(SUBSET (LockKinds \X Lockable))
      BY <1>7, FlightType DEF HubInv, AllInOrder
    <2>2. Len(request[p].held) >= 1
      BY <1>6, <1>8, <2>1
    <2> QED
      BY <1>8, <2>1, <2>2 DEF InOrder
  <1>10. <<"tariff", Of(p).tariff>> \in Wants(q)
    BY <1>6, <1>8, <1>9
  <1>11. /\ Of(q).op \in {"CREATE_TARIFF", "CHANGE_TARIFF"}
         /\ \/ Wants(q) = Ids("tariff", DOMAIN RowsOf(tariff, Of(q).target))
            \/ Of(q).op = "CHANGE_TARIFF" /\ Wants(q) = Ids("tariff", {Of(q).tariff})
    <2>1. Wants(q) = Locks(Of(q))[NextLock(q)]
      BY DEF Wants, NextLock, Of
    <2> QED
      BY <1>4, <1>7, <2>1, TariffLocks DEF WaitsFor
  <1>12. Of(p).target = Of(q).target
    <2>1. CASE Wants(q) = Ids("tariff", DOMAIN RowsOf(tariff, Of(q).target))
      <3>1. Of(p).tariff \in DOMAIN RowsOf(tariff, Of(q).target)
        BY <1>10, <2>1 DEF Ids
      <3>2. tariff[Of(p).tariff] # None /\ tariff[Of(p).tariff].target = Of(q).target
        BY <3>1 DEF RowsOf
      <3> QED
        BY <1>7, <1>8, <3>2 DEF HubInv, ChangesKnow, Changing
    <2>2. CASE Of(q).op = "CHANGE_TARIFF" /\ Wants(q) = Ids("tariff", {Of(q).tariff})
      <3>1. Of(p).tariff = Of(q).tariff
        BY <1>10, <2>2 DEF Ids
      <3> QED
        BY <1>7, <1>8, <2>2, <3>1 DEF HubInv, ChangesKnow, Changing
    <2> QED
      BY <1>11, <2>1, <2>2
  <1> QED
    BY <1>7, <1>8, <1>11, <1>12

-----------------------------------------------------------------------------
(* The loop that picks the tariff of a kind keeps the same one whatever      *)
(* order the rows come in.                                                   *)

\* One turn of the loop, and what it keeps after each of m turns.
Turn(kind, rows, order, at, n, before) ==
  IF /\ order[n] \in kind /\ AppliesAt(rows[order[n]], at)
     /\ before = None \/ Replaces(rows[order[n]], rows[before])
  THEN order[n] ELSE before

Loops(kind, rows, order, at, m, f) ==
  f = [n \in 0 .. m |-> IF n = 0 THEN None ELSE Turn(kind, rows, order, at, n, f[n - 1])]

\* The least natural number of a set.
LEMMA LeastNat ==
  ASSUME NEW S \in SUBSET Nat, S # {}
  PROVE  \E m \in S : \A k \in S : m <= k
  <1>1. PICK m \in S : \A k \in S : ~(<<k, m>> \in OpToRel(<, Nat))
    BY NatLessThanWellFounded, WFMin, Zenon
  <1>2. \A k \in S : m <= k
    <2>1. \A k, l \in Nat : k < l => <<k, l>> \in OpToRel(<, Nat)
      BY DEF OpToRel
    <2> TAKE k \in S
    <2>2. k \in Nat /\ m \in Nat /\ ~(k < m)
      BY <1>1, <2>1
    <2> QED
      BY <2>2
  <1> QED
    BY <1>2

\* The loop comes to an end.
LEMMA LoopExists ==
  ASSUME NEW kind, NEW rows, NEW order, NEW at, NEW m \in Nat
  PROVE  \E f : Loops(kind, rows, order, at, m, f)
  <1> DEFINE Bad == {k \in Nat : ~\E f : Loops(kind, rows, order, at, k, f)}
  <1> SUFFICES ASSUME Bad # {} PROVE FALSE
    OBVIOUS
  <1>1. PICK k \in Bad : \A j \in Bad : k <= j
    BY LeastNat
  <1>2. k # 0
    <2> SUFFICES ASSUME k = 0 PROVE FALSE
      OBVIOUS
    <2> DEFINE f == [n \in 0 .. 0 |-> None]
    <2>1. f = [n \in 0 .. 0 |-> IF n = 0 THEN None ELSE Turn(kind, rows, order, at, n, f[n - 1])]
      OBVIOUS
    <2> HIDE DEF f
    <2>2. Loops(kind, rows, order, at, 0, f)
      BY <2>1 DEF Loops
    <2> QED
      BY <1>1, <2>2
  <1>3. k \in Nat /\ k - 1 \in Nat /\ k - 1 \notin Bad
    BY <1>1, <1>2
  <1>4. PICK g : Loops(kind, rows, order, at, k - 1, g)
    BY <1>3
  <1> DEFINE f == [n \in 0 .. k |-> IF n = k THEN Turn(kind, rows, order, at, k, g[k - 1])
                                    ELSE g[n]]
  <1>5. \A n \in 0 .. k - 1 : f[n] = g[n]
    BY <1>3
  <1>6. \A n \in 0 .. k :
          f[n] = IF n = 0 THEN None ELSE Turn(kind, rows, order, at, n, f[n - 1])
    <2> TAKE n \in 0 .. k
    <2>1. CASE n = 0
      BY <1>2, <1>3, <1>4, <2>1 DEF Loops
    <2>2. CASE n = k
      <3>1. f[n] = Turn(kind, rows, order, at, k, g[k - 1]) /\ f[k - 1] = g[k - 1]
        BY <1>3, <1>5, <2>2
      <3> HIDE DEF f
      <3> QED
        BY <1>2, <2>2, <3>1
    <2>3. CASE n # 0 /\ n # k
      <3>1. n \in 0 .. k - 1 /\ n - 1 \in 0 .. k - 1
        BY <1>3, <2>3
      <3>2. g[n] = Turn(kind, rows, order, at, n, g[n - 1])
        BY <1>4, <2>3, <3>1 DEF Loops
      <3>3. f[n] = g[n] /\ f[n - 1] = g[n - 1]
        BY <1>5, <3>1
      <3> HIDE DEF f
      <3> QED
        BY <2>3, <3>2, <3>3
    <2> QED
      BY <2>1, <2>2, <2>3
  <1>7. f = [n \in 0 .. k |-> f[n]]
    OBVIOUS
  <1> HIDE DEF f
  <1>8. Loops(kind, rows, order, at, k, f)
    BY <1>6, <1>7 DEF Loops
  <1> QED
    BY <1>1, <1>8

LEMMA KeptIsLoop ==
  ASSUME NEW kind, NEW rows, NEW order, NEW at, Len(order) \in Nat
  PROVE  \E f : /\ Loops(kind, rows, order, at, Len(order), f)
                /\ KeptOf(kind, rows, order, at) = f[Len(order)]
  <1> DEFINE f == CHOOSE g : Loops(kind, rows, order, at, Len(order), g)
  <1>1. Loops(kind, rows, order, at, Len(order), f)
    BY LoopExists, Zenon
  <1>2. KeptOf(kind, rows, order, at) = f[Len(order)]
    BY DEF KeptOf, Loops, Turn
  <1> QED
    BY <1>1, <1>2

\* The rows of a kind that apply.
Applying(kind, rows, at) == {t \in kind : AppliesAt(rows[t], at)}

\* The one that replaces every other and that no other replaces.
Prevails(t, rows, S) ==
  \A u \in S \ {t} : Replaces(rows[t], rows[u]) /\ ~Replaces(rows[u], rows[t])

\* The loop keeps the row that prevails.
LEMMA KeptPrevails ==
  ASSUME NEW rows, NEW kind \in SUBSET DOMAIN rows, NEW order, NEW at, Len(order) \in Nat,
         None \notin DOMAIN rows,
         \A t \in DOMAIN rows : \E i \in 1 .. Len(order) : order[i] = t,
         NEW best \in Applying(kind, rows, at),
         Prevails(best, rows, Applying(kind, rows, at))
  PROVE  KeptOf(kind, rows, order, at) = best
  <1> DEFINE S == Applying(kind, rows, at)
             m == Len(order)
  <1>1. PICK f : /\ Loops(kind, rows, order, at, m, f)
                 /\ KeptOf(kind, rows, order, at) = f[m]
    BY KeptIsLoop
  <1>2. f[0] = None /\ \A n \in 1 .. m : f[n] = Turn(kind, rows, order, at, n, f[n - 1])
    <2>1. \A n \in 0 .. m : f[n] = IF n = 0 THEN None ELSE Turn(kind, rows, order, at, n, f[n - 1])
      BY <1>1 DEF Loops
    <2> QED
      BY <2>1
  <1> DEFINE Bad == {n \in 0 .. m : ~(/\ f[n] \in S \cup {None}
                                      /\ (\E i \in 1 .. n : order[i] = best) => f[n] = best)}
  <1>3. Bad = {}
    <2> SUFFICES ASSUME Bad # {} PROVE FALSE
      OBVIOUS
    <2>1. PICK k \in Bad : \A j \in Bad : k <= j
      <3>1. Bad \in SUBSET Nat
        OBVIOUS
      <3> HIDE DEF Bad
      <3> QED
        BY <3>1, LeastNat
    <2>2. k \in 1 .. m /\ k - 1 \in 0 .. m /\ k - 1 \notin Bad
      <3>1. k # 0
        BY <1>2, <2>1
      <3>2. k \in 0 .. m
        BY <2>1
      <3>3. k \in 1 .. m /\ k - 1 \in 0 .. m /\ ~(k <= k - 1)
        BY <3>1, <3>2
      <3> HIDE DEF Bad
      <3> QED
        BY <2>1, <3>3
    <2>3. /\ f[k - 1] \in S \cup {None}
          /\ (\E i \in 1 .. k - 1 : order[i] = best) => f[k - 1] = best
      BY <2>2
    <2>4. f[k] = Turn(kind, rows, order, at, k, f[k - 1])
      BY <1>2, <2>2
    <2>5. best \in kind /\ AppliesAt(rows[best], at) /\ best \in S
      BY DEF Applying
    <2>6. f[k] \in S \cup {None}
      BY <2>3, <2>4 DEF Turn, Applying
    <2>7. ASSUME \E i \in 1 .. k : order[i] = best
          PROVE  f[k] = best
      <3>1. CASE order[k] = best
        <4>1. CASE f[k - 1] = None \/ f[k - 1] = best
          BY <2>4, <2>5, <3>1, <4>1 DEF Turn
        <4>2. CASE f[k - 1] \in S \ {best}
          BY <2>4, <2>5, <3>1, <4>2 DEF Turn, Prevails
        <4> QED
          BY <2>3, <4>1, <4>2
      <3>2. CASE order[k] # best
        <4>1. \E i \in 1 .. k - 1 : order[i] = best
          BY <2>2, <2>7, <3>2
        <4>2. f[k - 1] = best /\ best # None
          BY <2>3, <2>5, <4>1
        <4>3. CASE order[k] \in S
          BY <2>4, <3>2, <4>2, <4>3 DEF Turn, Prevails
        <4>4. CASE order[k] \notin S
          BY <2>4, <4>2, <4>4 DEF Turn, Applying
        <4> QED
          BY <4>3, <4>4
      <3> QED
        BY <3>1, <3>2
    <2> QED
      BY <2>1, <2>6, <2>7
  <1>4. m \in 0 .. m /\ \E i \in 1 .. m : order[i] = best
    BY DEF Applying
  <1> QED
    BY <1>1, <1>3, <1>4

\* The loop keeps nothing if nothing applies.
LEMMA KeptNothing ==
  ASSUME NEW rows, NEW kind \in SUBSET DOMAIN rows, NEW order, NEW at, Len(order) \in Nat,
         Applying(kind, rows, at) = {}
  PROVE  KeptOf(kind, rows, order, at) = None
  <1> DEFINE m == Len(order)
  <1>1. PICK f : /\ Loops(kind, rows, order, at, m, f)
                 /\ KeptOf(kind, rows, order, at) = f[m]
    BY KeptIsLoop
  <1>2. f[0] = None /\ \A n \in 1 .. m : f[n] = Turn(kind, rows, order, at, n, f[n - 1])
    <2>1. \A n \in 0 .. m : f[n] = IF n = 0 THEN None ELSE Turn(kind, rows, order, at, n, f[n - 1])
      BY <1>1 DEF Loops
    <2> QED
      BY <2>1
  <1>3. \A n \in 1 .. m : f[n] = f[n - 1]
    BY <1>2 DEF Turn, Applying
  <1> DEFINE Bad == {n \in 0 .. m : f[n] # None}
  <1>4. Bad = {}
    <2> SUFFICES ASSUME Bad # {} PROVE FALSE
      OBVIOUS
    <2>1. PICK k \in Bad : \A j \in Bad : k <= j
      <3>1. Bad \in SUBSET Nat
        OBVIOUS
      <3> HIDE DEF Bad
      <3> QED
        BY <3>1, LeastNat
    <2>2. k # 0 /\ k \in 0 .. m
      BY <1>2, <2>1
    <2>3. k \in 1 .. m /\ k - 1 \in 0 .. m /\ ~(k <= k - 1)
      BY <2>2
    <2>4. k - 1 \in Bad
      BY <1>3, <2>1, <2>3
    <2> QED
      BY <2>1, <2>3, <2>4
  <1> QED
    BY <1>1, <1>4

-----------------------------------------------------------------------------
(* Under the topology one tariff of each kind prevails at every instant.     *)

RowsAreTyped(rows) ==
  /\ IsFiniteSet(DOMAIN rows) /\ None \notin DOMAIN rows
  /\ \A t \in DOMAIN rows : StartOf(rows[t]) \in Int /\ EndOf(rows[t]) \in Int

RootsOf(rows) == {t \in DOMAIN rows : IsRoot(rows[t])}
OpenOf(rows) == {t \in DOMAIN rows : IsOpen(rows[t])}
BoundedOf(rows) == {t \in DOMAIN rows : IsBounded(rows[t])}

\* A member where a function is least.
LEMMA LeastOf ==
  ASSUME NEW S, S # {}, NEW f, \A s \in S : f[s] \in Nat
  PROVE  \E s \in S : \A u \in S : f[s] <= f[u]
  <1> DEFINE V == {f[s] : s \in S}
  <1>1. V \in SUBSET Nat /\ V # {}
    OBVIOUS
  <1>2. PICK m \in V : \A k \in V : m <= k
    <2> HIDE DEF V
    <2> QED
      BY <1>1, LeastNat
  <1> QED
    BY <1>2

\* There is one enabled root at most.
LEMMA RootPrevails ==
  ASSUME NEW rows, RowsAreTyped(rows), ValidTopology(rows), NEW at \in Int,
         Applying(RootsOf(rows), rows, at) # {}
  PROVE  \E best \in Applying(RootsOf(rows), rows, at) :
            Prevails(best, rows, Applying(RootsOf(rows), rows, at))
  <1> DEFINE S == Applying(RootsOf(rows), rows, at)
             E == {t \in {t \in DOMAIN rows : rows[t].active} : IsRoot(rows[t])}
  <1>1. PICK best : best \in S
    OBVIOUS
  <1>2. \A t, u \in E : t = u
    <2> SUFFICES ASSUME NEW t \in E, NEW u \in E, t # u PROVE FALSE
      OBVIOUS
    <2>1. IsFiniteSet(E) /\ Cardinality(E) <= 1
      <3>1. E \in SUBSET DOMAIN rows
        OBVIOUS
      <3>2. Cardinality(E) <= 1
        BY DEF ValidTopology
      <3> HIDE DEF E
      <3> QED
        BY <3>1, <3>2, FS_Subset DEF RowsAreTyped
    <2>2. {t, u} \in SUBSET E
      OBVIOUS
    <2> HIDE DEF E
    <2>3. IsFiniteSet({t}) /\ Cardinality({t}) = 1
      BY FS_Singleton
    <2>4. Cardinality({t} \cup {u}) = 2
      BY <2>3, FS_AddElement
    <2>5. {t} \cup {u} = {t, u}
      OBVIOUS
    <2>6. Cardinality({t, u}) <= Cardinality(E) /\ Cardinality(E) \in Nat
      BY <2>1, <2>2, FS_Subset, FS_CardinalityType
    <2> QED
      BY <2>1, <2>4, <2>5, <2>6
  <1>3. S \subseteq E
    BY DEF Applying, RootsOf, AppliesAt
  <1>4. S \ {best} = {}
    BY <1>1, <1>2, <1>3
  <1> HIDE DEF S
  <1>5. Prevails(best, rows, S)
    BY <1>4 DEF Prevails
  <1> QED
    BY <1>1, <1>5 DEF S

\* Of the fallbacks that apply the latest to start prevails: no two start together.
LEMMA OpenPrevails ==
  ASSUME NEW rows, RowsAreTyped(rows), ValidTopology(rows), NEW at \in Int,
         Applying(OpenOf(rows), rows, at) # {}
  PROVE  \E best \in Applying(OpenOf(rows), rows, at) :
            Prevails(best, rows, Applying(OpenOf(rows), rows, at))
  <1> DEFINE S == Applying(OpenOf(rows), rows, at)
             since == [t \in S |-> at - StartOf(rows[t])]
  <1>1. \A t \in S : /\ t \in DOMAIN rows /\ rows[t].active /\ IsOpen(rows[t])
                     /\ StartOf(rows[t]) \in Int /\ StartOf(rows[t]) <= at
    BY DEF Applying, OpenOf, AppliesAt, IsOpen, RowsAreTyped
  <1>2. \A t, u \in S : t # u => StartOf(rows[t]) # StartOf(rows[u])
    BY <1>1 DEF ValidTopology
  <1>3. \A t \in S : since[t] = at - StartOf(rows[t]) /\ since[t] \in Nat
    <2> SUFFICES ASSUME NEW t \in S PROVE at - StartOf(rows[t]) \in Nat
      OBVIOUS
    <2>1. StartOf(rows[t]) \in Int /\ StartOf(rows[t]) <= at
      BY <1>1
    <2> QED
      BY <2>1
  <1> HIDE DEF S, since
  <1>4. PICK best \in S : \A u \in S : since[best] <= since[u]
    <2>1. S # {}
      BY DEF S
    <2> QED
      BY <1>3, <2>1, LeastOf
  <1>5. Prevails(best, rows, S)
    <2> SUFFICES ASSUME NEW u \in S \ {best}
                 PROVE  Replaces(rows[best], rows[u]) /\ ~Replaces(rows[u], rows[best])
      BY DEF Prevails
    <2>1. StartOf(rows[best]) > StartOf(rows[u])
      <3>1. /\ at - StartOf(rows[best]) <= at - StartOf(rows[u])
            /\ StartOf(rows[best]) # StartOf(rows[u])
            /\ StartOf(rows[best]) \in Int /\ StartOf(rows[u]) \in Int
        BY <1>1, <1>2, <1>3, <1>4
      <3> QED
        BY <3>1
    <2>2. /\ StartOf(rows[best]) \in Int /\ StartOf(rows[u]) \in Int
          /\ IsOpen(rows[u])
      BY <1>1
    <2> QED
      BY <2>1, <2>2 DEF Replaces, IsOpen, IsRoot, IsBounded
  <1> QED
    BY <1>4, <1>5 DEF S

\* Of the overrides that apply, the latest to start and among those the first
\* to end lies inside all the others.
LEMMA BoundedPrevails ==
  ASSUME NEW rows, RowsAreTyped(rows), ValidTopology(rows), NEW at \in Int,
         Applying(BoundedOf(rows), rows, at) # {}
  PROVE  \E best \in Applying(BoundedOf(rows), rows, at) :
            /\ Prevails(best, rows, Applying(BoundedOf(rows), rows, at))
            /\ \A u \in Applying(BoundedOf(rows), rows, at) \ {best} :
                  StrictlyContains(rows[u], rows[best])
  <1> DEFINE S == Applying(BoundedOf(rows), rows, at)
             since == [t \in S |-> at - StartOf(rows[t])]
  <1>1. \A t \in S : /\ t \in DOMAIN rows /\ rows[t].active /\ IsBounded(rows[t])
                     /\ StartOf(rows[t]) \in Int /\ StartOf(rows[t]) <= at
                     /\ EndOf(rows[t]) \in Int /\ at < EndOf(rows[t])
    BY DEF Applying, BoundedOf, AppliesAt, IsBounded, RowsAreTyped
  <1>2. \A t, u \in S : t # u =>
          StrictlyContains(rows[t], rows[u]) \/ StrictlyContains(rows[u], rows[t])
    <2> SUFFICES ASSUME NEW t \in S, NEW u \in S, t # u
                 PROVE  StrictlyContains(rows[t], rows[u]) \/ StrictlyContains(rows[u], rows[t])
      OBVIOUS
    <2>1. Overlap(rows[t], rows[u])
      <3>1. /\ StartOf(rows[t]) \in Int /\ StartOf(rows[t]) <= at
            /\ StartOf(rows[u]) \in Int /\ StartOf(rows[u]) <= at
            /\ EndOf(rows[t]) \in Int /\ at < EndOf(rows[t])
            /\ EndOf(rows[u]) \in Int /\ at < EndOf(rows[u])
        BY <1>1
      <3> QED
        BY <3>1 DEF Overlap
    <2>2. \A x, y \in {k \in DOMAIN rows : rows[k].active} : x # y =>
            (IsBounded(rows[x]) /\ IsBounded(rows[y]) /\ Overlap(rows[x], rows[y])
               => StrictlyContains(rows[x], rows[y]) \/ StrictlyContains(rows[y], rows[x]))
      BY DEF ValidTopology
    <2>3. /\ t \in {k \in DOMAIN rows : rows[k].active} /\ IsBounded(rows[t])
          /\ u \in {k \in DOMAIN rows : rows[k].active} /\ IsBounded(rows[u])
      BY <1>1
    <2> QED
      BY <2>1, <2>2, <2>3
  <1>3. \A t \in S : since[t] = at - StartOf(rows[t]) /\ since[t] \in Nat
    <2> SUFFICES ASSUME NEW t \in S PROVE at - StartOf(rows[t]) \in Nat
      OBVIOUS
    <2>1. StartOf(rows[t]) \in Int /\ StartOf(rows[t]) <= at
      BY <1>1
    <2> QED
      BY <2>1
  <1> HIDE DEF S, since
  <1>4. PICK last \in S : \A u \in S : since[last] <= since[u]
    <2>1. S # {}
      BY DEF S
    <2> QED
      BY <1>3, <2>1, LeastOf
  <1> DEFINE L == {t \in S : StartOf(rows[t]) = StartOf(rows[last])}
             left == [t \in L |-> EndOf(rows[t]) - at]
  <1>5. \A t \in L : left[t] = EndOf(rows[t]) - at /\ left[t] \in Nat
    <2> SUFFICES ASSUME NEW t \in L PROVE EndOf(rows[t]) - at \in Nat
      OBVIOUS
    <2>1. EndOf(rows[t]) \in Int /\ at < EndOf(rows[t])
      BY <1>1
    <2> QED
      BY <2>1
  <1>6. last \in L /\ L \subseteq S /\ \A t \in L : StartOf(rows[t]) = StartOf(rows[last])
    BY <1>4
  <1>7. \A t \in S \ L : StartOf(rows[t]) # StartOf(rows[last])
    OBVIOUS
  <1> HIDE DEF L, left
  <1>8. PICK best \in L : \A u \in L : left[best] <= left[u]
    BY <1>5, <1>6, LeastOf
  <1>9. \A u \in S : /\ StartOf(rows[best]) >= StartOf(rows[u])
                     /\ StartOf(rows[best]) = StartOf(rows[u]) =>
                           EndOf(rows[best]) <= EndOf(rows[u])
    <2> TAKE u \in S
    <2>1. /\ StartOf(rows[best]) = StartOf(rows[last]) /\ best \in S
          /\ at - StartOf(rows[last]) <= at - StartOf(rows[u])
      BY <1>3, <1>4, <1>6, <1>8
    <2>2. /\ StartOf(rows[best]) \in Int /\ StartOf(rows[u]) \in Int
          /\ EndOf(rows[best]) \in Int /\ EndOf(rows[u]) \in Int
      BY <1>1, <2>1
    <2>3. StartOf(rows[best]) >= StartOf(rows[u])
      BY <2>1, <2>2
    <2>4. ASSUME StartOf(rows[best]) = StartOf(rows[u])
          PROVE  EndOf(rows[best]) <= EndOf(rows[u])
      <3>1. u \in L
        BY <1>7, <2>1, <2>4
      <3>2. EndOf(rows[best]) - at <= EndOf(rows[u]) - at
        BY <1>5, <1>8, <3>1
      <3> QED
        BY <2>2, <3>2
    <2> QED
      BY <2>3, <2>4
  <1>10. \A u \in S \ {best} : StrictlyContains(rows[u], rows[best])
    <2> TAKE u \in S \ {best}
    <2>1. best \in S
      BY <1>6, <1>8
    <2>2. /\ StartOf(rows[best]) \in Int /\ StartOf(rows[u]) \in Int
          /\ EndOf(rows[best]) \in Int /\ EndOf(rows[u]) \in Int
      BY <1>1, <2>1
    <2>3. ~StrictlyContains(rows[best], rows[u])
      BY <1>9, <2>2 DEF StrictlyContains
    <2> QED
      BY <1>2, <2>1, <2>3
  <1>11. Prevails(best, rows, S)
    <2> SUFFICES ASSUME NEW u \in S \ {best}
                 PROVE  Replaces(rows[best], rows[u]) /\ ~Replaces(rows[u], rows[best])
      BY DEF Prevails
    <2>1. best \in S /\ StrictlyContains(rows[u], rows[best])
      BY <1>6, <1>8, <1>10
    <2>2. /\ StartOf(rows[best]) \in Int /\ StartOf(rows[u]) \in Int
          /\ EndOf(rows[best]) \in Int /\ EndOf(rows[u]) \in Int
          /\ IsBounded(rows[best]) /\ IsBounded(rows[u])
      BY <1>1, <2>1
    <2>3. ~IsRoot(rows[u])
      BY <2>2 DEF IsBounded, IsRoot
    <2> QED
      BY <2>1, <2>2, <2>3 DEF Replaces, StrictlyContains
  <1> QED
    BY <1>6, <1>8, <1>10, <1>11 DEF S

\* The orders the rows of a target may come in: there is one, and each has
\* every row.
LEMMA Orders ==
  ASSUME NEW S, IsFiniteSet(S)
  PROVE  /\ Seqs!SetToSeqs(S) # {}
         /\ \A order \in Seqs!SetToSeqs(S) :
              Len(order) \in Nat /\ \A t \in S : \E i \in 1 .. Len(order) : order[i] = t
  <1> DEFINE n == Cardinality(S)
  <1>1. n \in Nat /\ ExistsBijection(1 .. n, S)
    BY FS_CardinalityType
  <1>2. Seqs!Cardinality(S) = n
    BY DEF Seqs!Cardinality, Seqs!IsFiniteSet, Cardinality
  <1>3. Seqs!SetToSeqs(S) =
          {f \in [1 .. n -> S] : \A i, j \in 1 .. n : i # j => f[i] # f[j]}
    BY <1>2 DEF Seqs!SetToSeqs
  <1> HIDE DEF n
  <1>4. Seqs!SetToSeqs(S) # {}
    <2>1. PICK f : f \in Bijection(1 .. n, S)
      BY <1>1 DEF ExistsBijection
    <2>2. f \in [1 .. n -> S] /\ \A i, j \in 1 .. n : i # j => f[i] # f[j]
      BY <2>1 DEF Bijection, Injection, Surjection, IsInjective
    <2> QED
      BY <1>3, <2>2
  <1>5. ASSUME NEW order \in Seqs!SetToSeqs(S)
        PROVE  Len(order) \in Nat /\ \A t \in S : \E i \in 1 .. Len(order) : order[i] = t
    <2>1. order \in [1 .. n -> S] /\ \A i, j \in 1 .. n : i # j => order[i] # order[j]
      BY <1>3
    <2>2. order \in Injection(1 .. n, S)
      BY <2>1 DEF Injection, IsInjective
    <2>3. Cardinality(1 .. n) = n
      <3>1. Cardinality(1 .. n) = IF 1 > n THEN 0 ELSE n - 1 + 1
        BY <1>1, FS_Interval
      <3> QED
        BY <1>1, <3>1
    <2>4. order \in Surjection(1 .. n, S)
      BY <2>2, <2>3, FS_Injection DEF n
    <2>5. Len(order) = n
      <3>1. order \in Seq(S)
        BY <1>1, <2>1
      <3> QED
        BY <1>1, <2>1, <3>1, LenProperties
    <2> QED
      BY <1>1, <2>4, <2>5 DEF Surjection
  <1> QED
    BY <1>4, <1>5

\* What a kind's rows come to, in any order: the row that prevails, or nothing.
KindDecides(kind, rows, at, best) ==
  \/ Applying(kind, rows, at) = {} /\ best = None
  \/ best \in Applying(kind, rows, at) /\ Prevails(best, rows, Applying(kind, rows, at))

LEMMA KeptIsDecided ==
  ASSUME NEW rows, NEW kind \in SUBSET DOMAIN rows, NEW at, NEW best,
         None \notin DOMAIN rows, IsFiniteSet(DOMAIN rows),
         KindDecides(kind, rows, at, best), NEW order \in Seqs!SetToSeqs(DOMAIN rows)
  PROVE  KeptOf(kind, rows, order, at) = best
  <1>1. Len(order) \in Nat /\ \A t \in DOMAIN rows : \E i \in 1 .. Len(order) : order[i] = t
    BY Orders
  <1> QED
    BY <1>1, KeptPrevails, KeptNothing DEF KindDecides

\* Something prevails in each kind, or nothing applies.
LEMMA KindsAreDecided ==
  ASSUME NEW rows, RowsAreTyped(rows), ValidTopology(rows), NEW at \in Int
  PROVE  /\ \E b : /\ KindDecides(BoundedOf(rows), rows, at, b)
                   /\ \A u \in Applying(BoundedOf(rows), rows, at) \ {b} :
                         StrictlyContains(rows[u], rows[b])
         /\ \E o : KindDecides(OpenOf(rows), rows, at, o)
         /\ \E r : KindDecides(RootsOf(rows), rows, at, r)
  <1>1. \E b : /\ KindDecides(BoundedOf(rows), rows, at, b)
               /\ \A u \in Applying(BoundedOf(rows), rows, at) \ {b} :
                     StrictlyContains(rows[u], rows[b])
    <2>1. CASE Applying(BoundedOf(rows), rows, at) = {}
      <3>1. KindDecides(BoundedOf(rows), rows, at, None)
        BY <2>1 DEF KindDecides
      <3> QED
        BY <2>1, <3>1
    <2>2. CASE Applying(BoundedOf(rows), rows, at) # {}
      BY <2>2, BoundedPrevails DEF KindDecides
    <2> QED
      BY <2>1, <2>2
  <1>2. \E o : KindDecides(OpenOf(rows), rows, at, o)
    BY OpenPrevails DEF KindDecides
  <1>3. \E r : KindDecides(RootsOf(rows), rows, at, r)
    BY RootPrevails DEF KindDecides
  <1> QED
    BY <1>1, <1>2, <1>3

\* The price of a target at an instant does not depend on the order its
\* tariffs are read in.
LEMMA ResolveIsDetermined ==
  ASSUME NEW rows, RowsAreTyped(rows), ValidTopology(rows), NEW at \in Int
  PROVE  LET found == {Resolve(rows, order, at) : order \in Seqs!SetToSeqs(DOMAIN rows)} IN
         /\ Cardinality(found) = 1
         /\ \A t \in found \ {None} : \A u \in DOMAIN rows \ {t} :
              IsBounded(rows[u]) /\ AppliesAt(rows[u], at) => StrictlyContains(rows[u], rows[t])
  <1> DEFINE found == {Resolve(rows, order, at) : order \in Seqs!SetToSeqs(DOMAIN rows)}
  <1>1. PICK b : /\ KindDecides(BoundedOf(rows), rows, at, b)
                 /\ \A u \in Applying(BoundedOf(rows), rows, at) \ {b} :
                       StrictlyContains(rows[u], rows[b])
    BY KindsAreDecided
  <1>2. PICK o : KindDecides(OpenOf(rows), rows, at, o)
    BY KindsAreDecided
  <1>3. PICK r : KindDecides(RootsOf(rows), rows, at, r)
    BY KindsAreDecided
  <1> DEFINE price == IF b # None THEN b ELSE IF o # None THEN o ELSE r
  <1>4. ASSUME NEW order \in Seqs!SetToSeqs(DOMAIN rows)
        PROVE  Resolve(rows, order, at) = price
    <2>1. /\ KeptOf(BoundedOf(rows), rows, order, at) = b
          /\ KeptOf(OpenOf(rows), rows, order, at) = o
          /\ KeptOf(RootsOf(rows), rows, order, at) = r
      <3>1. /\ BoundedOf(rows) \in SUBSET DOMAIN rows /\ OpenOf(rows) \in SUBSET DOMAIN rows
            /\ RootsOf(rows) \in SUBSET DOMAIN rows
            /\ None \notin DOMAIN rows /\ IsFiniteSet(DOMAIN rows)
        BY DEF BoundedOf, OpenOf, RootsOf, RowsAreTyped
      <3> QED
        BY <1>1, <1>2, <1>3, <1>4, <3>1, KeptIsDecided
    <2>2. Resolve(rows, order, at) =
            IF KeptOf(BoundedOf(rows), rows, order, at) # None
            THEN KeptOf(BoundedOf(rows), rows, order, at)
            ELSE IF KeptOf(OpenOf(rows), rows, order, at) # None
            THEN KeptOf(OpenOf(rows), rows, order, at)
            ELSE KeptOf(RootsOf(rows), rows, order, at)
      BY DEF Resolve, BoundedOf, OpenOf, RootsOf
    <2> QED
      BY <2>1, <2>2
  <1>5. found = {price}
    <2>1. Seqs!SetToSeqs(DOMAIN rows) # {}
      BY Orders DEF RowsAreTyped
    <2> QED
      BY <1>4, <2>1
  <1>6. Cardinality(found) = 1
    BY <1>5, FS_Singleton
  <1>7. ASSUME price # None, NEW u \in DOMAIN rows \ {price},
               IsBounded(rows[u]), AppliesAt(rows[u], at)
        PROVE  StrictlyContains(rows[u], rows[price])
    <2>1. u \in Applying(BoundedOf(rows), rows, at)
      BY <1>7 DEF Applying, BoundedOf
    <2>2. b \in Applying(BoundedOf(rows), rows, at)
      BY <1>1, <2>1 DEF KindDecides
    <2>3. b # None
      BY <2>2 DEF Applying, BoundedOf, RowsAreTyped
    <2>4. price = b
      BY <2>3
    <2> QED
      BY <1>1, <1>7, <2>1, <2>4
  <1> HIDE DEF price
  <1>8. \A t \in found \ {None} : \A u \in DOMAIN rows \ {t} :
          IsBounded(rows[u]) /\ AppliesAt(rows[u], at) => StrictlyContains(rows[u], rows[t])
    BY <1>5, <1>7
  <1> QED
    BY <1>6, <1>8

LEMMA HubInvSold ==
  HubInv => ShownCanBeSold
  <1> SUFFICES ASSUME HubInv PROVE ShownCanBeSold
    OBVIOUS
  <1> USE DEF HubInv
  <1>1. TypeOK
    <2>1. ASSUME NEW q \in Requests, InFlight(q)
          PROVE  /\ request[q].asked \in Asked /\ request[q].op = request[q].asked.op
                 /\ Len(request[q].held) <= Len(Locks(request[q].asked))
      <3>1. Of(q) \in Asked
        BY <2>1, FlightType
      <3>2. InOrder(q)
        BY <2>1 DEF AllInOrder
      <3>3. request[q].op = Of(q).op /\ Len(request[q].held) <= Len(Kinds(Of(q)))
        BY <3>2 DEF InOrder
      <3>4. Len(Locks(Of(q))) = Len(Kinds(Of(q)))
        BY <3>1, LocksHaveKinds
      <3> QED
        BY <3>1, <3>3, <3>4 DEF Of
    <2> QED
      BY <2>1 DEF TypeOK, HubTypes, HubRows, TariffRows
  <1>2. \A h \in Hubs : hub[h] # None =>
          /\ hub[h].visible => HasFloor(RowsOf(tariff, h))
          /\ hub[h].gst # None => Fits(gst[hub[h].gst], hub[h].state)
    BY DEF FloorHolds, TaxFits
  <1>3. \A c \in Chargers : /\ charger[c].public => charger[c].hub # None
                            /\ charger[c].hub # None => hub[charger[c].hub] # None
    BY DEF ChargersPlaced
  <1>4. ASSUME NEW target \in Hubs
        PROVE  RowsAreTyped(RowsOf(tariff, target))
    <2> DEFINE ids == {t \in Tariffs : tariff[t] # None /\ tariff[t].target = target}
    <2>1. RowsOf(tariff, target) = [t \in ids |-> tariff[t]]
      BY DEF RowsOf
    <2>2. IsFiniteSet(ids) /\ None \notin ids
      BY HubAssumption, FS_Subset
    <2>3. ASSUME NEW t \in ids
          PROVE  StartOf(tariff[t]) \in Int /\ EndOf(tariff[t]) \in Int
      <3>1. tariff[t] \in TariffRows
        BY DEF HubTypes
      <3>2. tariff[t].schedule \in Int \X Int
        BY <3>1, HubAssumption DEF TariffRows
      <3> QED
        BY <3>2 DEF StartOf, EndOf
    <2> HIDE DEF ids
    <2> QED
      BY <2>1, <2>2, <2>3 DEF RowsAreTyped
  <1>5. PriceIsDetermined
    <2> SUFFICES ASSUME NEW target \in Hubs, NEW at \in Instants
                 PROVE  LET rows == RowsOf(tariff, target)
                            found == {Resolve(rows, order, at) :
                                        order \in Seqs!SetToSeqs(DOMAIN rows)} IN
                        /\ Cardinality(found) = 1
                        /\ \A t \in found \ {None} : \A u \in DOMAIN rows \ {t} :
                             IsBounded(rows[u]) /\ AppliesAt(rows[u], at)
                               => StrictlyContains(rows[u], rows[t])
      BY DEF PriceIsDetermined
    <2>1. at \in Int /\ ValidTopology(RowsOf(tariff, target))
      BY HubAssumption DEF TopologyHolds
    <2> QED
      BY <1>4, <2>1, ResolveIsDetermined
  <1> QED
    BY <1>1, <1>2, <1>3, <1>5 DEF ShownCanBeSold

-----------------------------------------------------------------------------
(* The parts, each on its own and together. *)

LEMMA HubStutters ==
  ASSUME HubInv, UNCHANGED vars
  PROVE  HubInv'
  <1>1. UNCHANGED <<hub, charger, gst, tariff>> /\ request' = request
    BY DEF vars
  <1>2. HubTypes' /\ FloorHolds' /\ TaxFits' /\ ChargersPlaced' /\ TopologyHolds'
    BY <1>1, SameRows DEF HubTypes, HubInv
  <1>3. AllInOrder'
    BY <1>1 DEF HubInv, AllInOrder, InOrder, InFlight, Of
  <1>4. OneHolder'
    BY <1>1 DEF HubInv, OneHolder, Held, InFlight
  <1>5. ChangesKnow'
    BY <1>1 DEF HubInv, ChangesKnow, Changing, InFlight, Of
  <1> QED
    BY <1>2, <1>3, <1>4, <1>5 DEF HubInv

LEMMA TenantStutters ==
  ASSUME TenantInv, UNCHANGED tenantVars
  PROVE  TenantInv'
  <1>1. UNCHANGED <<operator, identity, membership>> /\ task' = task
    BY DEF tenantVars
  <1>2. \A g \in Requests : Tenant!Busy(g)' => Tenant!Busy(g) /\ task'[g] = task[g]
    BY <1>1 DEF Tenant!Busy
  <1>3. Working'
    BY <1>1, <1>2, RowsUnchanged, OthersKept DEF Working
  <1>4. Apart'
    BY <1>2 DEF TenantInv, Apart, Tenant!Conflict
  <1> QED
    BY <1>1, <1>3, <1>4, SameRowsSameFacts DEF TenantInv, TenantTypes

LEMMA SaleStutters ==
  ASSUME SaleInv, UNCHANGED saleVars
  PROVE  SaleInv'
  <1>1. terms' = terms /\ limits' = limits /\ bill' = bill
    BY DEF saleVars
  <1> QED
    BY <1>1 DEF SaleInv, Sale!TypeOK, Priced, BilledAsUsed

\* Of the hubs alone, whatever requests overlap: the rows, the locks and who
\* has them.
THEOREM HubsAreSound == Spec => []HubInv
  <1>1. Init => HubInv
    BY HubStart
  <1>2. HubInv /\ [Next]_vars => HubInv'
    BY HubStep, HubStutters
  <1> QED
    BY <1>1, <1>2, PTL DEF Spec

\* The three together.
AdministrationInv == HubInv /\ TenantInv /\ SaleInv

LEMMA AdministrationStarts ==
  AdministrationInit => AdministrationInv
  BY HubStart, TenantStart, SaleInit DEF AdministrationInit, AdministrationInv

\* A step of a part keeps its invariant and leaves the others alone.
LEMMA AdministrationSteps ==
  AdministrationInv /\ [AdministrationNext]_<<vars, tenantVars, saleVars, part>>
    => AdministrationInv'
  <1> SUFFICES ASSUME AdministrationInv,
                      [AdministrationNext]_<<vars, tenantVars, saleVars, part>>
               PROVE  AdministrationInv'
    OBVIOUS
  <1>1. CASE Next /\ UNCHANGED <<tenantVars, saleVars>>
    BY <1>1, HubStep, TenantStutters, SaleStutters DEF AdministrationInv
  <1>2. CASE Tenant!TenancyNext /\ UNCHANGED <<vars, saleVars>>
    BY <1>2, HubStutters, TenantStep, SaleStutters DEF AdministrationInv
  <1>3. CASE Sale!PricingNext /\ UNCHANGED <<vars, tenantVars>>
    BY <1>3, HubStutters, TenantStutters, SaleStep DEF AdministrationInv
  <1>4. CASE UNCHANGED <<vars, tenantVars, saleVars, part>>
    BY <1>4, HubStutters, TenantStutters, SaleStutters DEF AdministrationInv
  <1> QED
    BY <1>1, <1>2, <1>3, <1>4 DEF AdministrationNext

\* The rows, the locks and the amounts of the administration are as the
\* invariants say, in every behaviour.
THEOREM AdministrationIsSound == AdministrationSpec => []AdministrationInv
  BY AdministrationStarts, AdministrationSteps, PTL DEF AdministrationSpec

\* What customers are shown can be sold: published hubs have their floor,
\* chargers their hub, taxes fit, and each target has one price at a time.
THEOREM ShownIsSold == AdministrationSpec => []ShownCanBeSold
  <1>1. AdministrationInv => ShownCanBeSold
    BY HubInvSold DEF AdministrationInv
  <1> QED
    BY <1>1, AdministrationIsSound, PTL

\* Only changes of one target's tariffs wait for each other in a circle.
THEOREM TariffsAloneDeadlock == AdministrationSpec => []OnlyTariffsDeadlock
  <1>1. AdministrationInv => OnlyTariffsDeadlock
    BY HubInvDeadlock DEF AdministrationInv
  <1> QED
    BY <1>1, AdministrationIsSound, PTL

\* Every operator keeps one primary administrator, people are invited once,
\* and the stream says what became of an operator.
THEOREM TenantsStand == AdministrationSpec => []TenantStands
  <1>1. AdministrationInv => TenantStands
    BY TenantInvStands DEF AdministrationInv
  <1> QED
    BY <1>1, AdministrationIsSound, PTL

\* What is held for a session pays for it up to its limits.
THEOREM HoldsPay == AdministrationSpec => []HoldCoversTheLimit
  <1>1. AdministrationInv => HoldCoversTheLimit
    BY HoldPays DEF AdministrationInv
  <1> QED
    BY <1>1, AdministrationIsSound, PTL
=============================================================================
