-------------------------- MODULE V1Review_proofs ---------------------------
(***************************************************************************)
(* That a review is sound: every order it publishes is within the caps of  *)
(* the very files it names, whatever is edited while it runs, and the      *)
(* proposal, the compiler and the verifier never contradict each other.    *)
(*                                                                         *)
(* First the arithmetic of a generation whose parts have all been read,    *)
(* then the invariant that says which parts a command has read at each of  *)
(* its steps.                                                              *)
(*                                                                         *)
(* Then the two other tools that are checked beside the review: the        *)
(* replacement generations with their reports, and the shadow reports that *)
(* are published over these generations.                                   *)
(***************************************************************************)
EXTENDS V1Review, ShadowReport, SetSums

-----------------------------------------------------------------------------
(* A generation whose parts have all been read.                            *)

Captures == [portfolio : DOMAIN Portfolios, session : Sessions]
BaseRoles(g) == \A t \in Base : Role(g, t) = IF t \in Core THEN "CORE" ELSE "SATELLITE"
AllRead(g) ==
  /\ g.h1 \in (SUBSET Base) \cup {None}
  /\ g.strategy \in DOMAIN Strategies /\ g.portfolio \in DOMAIN Portfolios
  /\ g.ceiling \in DOMAIN Ceilings /\ g.fraction \in DOMAIN Fractions
  /\ g.budget = g.portfolio /\ g.holdings = g.portfolio
  /\ g.capture \in Captures
  /\ BaseRoles(g)

\* What a ticker counts for in the balance of the core and the rest.
Balance(g) == [t \in Tickers |-> Holding(g, t) + Open(g, t)]

LEMMA ProductNat ==
  ASSUME NEW a \in Nat, NEW b \in Nat
  PROVE  a * b \in Nat
BY SMT

LEMMA DivBound ==
  ASSUME NEW a \in Nat, NEW b \in Nat \ {0}
  PROVE  a \div b \in Nat /\ b * (a \div b) <= a
BY SMT

LEMMA OrderOfParts ==
  ASSUME NEW n \in Nat \ {0}, NEW a \in Nat, NEW b \in Nat, n * a <= n * b
  PROVE  a <= b
BY SMT

\* The parts of a share are worth so much.
LEMMA WorthNat ==
  ASSUME NEW shares \in Nat, NEW mark \in Nat
  PROVE  Worth(shares, mark) \in Nat
<1>1. shares * mark \in Nat
  BY ProductNat
<1> DEFINE m == shares * mark
<1>2. m \in Nat /\ Worth(shares, mark) = m \div Parts
  BY <1>1 DEF Worth
<1> HIDE DEF m
<1> QED
  BY <1>2, DivBound, ScaleAssumption

LEMMA Amounts ==
  ASSUME NEW g, AllRead(g)
  PROVE  /\ \A t \in Tickers : /\ Portfolios[g.portfolio].shares[t] \in Nat
                               /\ Holding(g, t) \in Nat /\ Open(g, t) \in Nat
                               /\ Mark(g, t) \in Nat \ {0}
                               /\ Balance(g)[t] \in Nat
         /\ Fractions[g.fraction] \in 0..Parts /\ X(g) \in Nat
<1>1. /\ Portfolios[g.portfolio].shares \in [Tickers -> Nat]
      /\ Portfolios[g.portfolio].open \in [Tickers -> Nat]
  BY AmountAssumption DEF AllRead
<1>2. g.capture.session \in Sessions
  BY DEF AllRead, Captures
<1>3. ASSUME NEW t \in Tickers
      PROVE  Mark(g, t) \in Nat \ {0}
  BY <1>2, ScaleAssumption DEF Mark
<1>4. ASSUME NEW t \in Tickers
      PROVE  Holding(g, t) \in Nat /\ Open(g, t) \in Nat
  <2>1. Portfolios[g.portfolio].shares[t] \in Nat /\ Portfolios[g.portfolio].open[t] \in Nat
    BY <1>1
  <2>2. Worth(Portfolios[g.portfolio].shares[t], Mark(g, t)) \in Nat
    BY <2>1, <1>3, WorthNat
  <2> QED
    BY <2>1, <2>2 DEF Holding, Open, AllRead
<1>5. Fractions[g.fraction] \in 0..Parts /\ X(g) \in Nat
  <2>1. \A v \in DOMAIN Fractions : Fractions[v] \in 0..Parts
    <3> DEFINE S == 0..Parts
    <3>1. Fractions \in Seq(S)
      BY AmountAssumption
    <3> HIDE DEF S
    <3>2. \A v \in DOMAIN Fractions : Fractions[v] \in S
      BY <3>1
    <3> QED
      BY <3>2 DEF S
  <2>2. X(g) \in Nat
    BY AmountAssumption DEF AllRead, X
  <2> QED
    BY <2>1, <2>2 DEF AllRead
<1> QED
  BY <1>1, <1>3, <1>4, <1>5 DEF Balance

LEMMA Finite ==
  ASSUME NEW g
  PROVE  /\ IsFiniteSet(Tickers) /\ Held(g) \in SUBSET Tickers /\ Exposed(g) \in SUBSET Tickers
         /\ IsFiniteSet(Held(g)) /\ IsFiniteSet(Exposed(g))
         /\ \A core \in BOOLEAN : OnSide(g, core) \in SUBSET Tickers /\ IsFiniteSet(OnSide(g, core))
<1>1. IsFiniteSet(Tickers) /\ Held(g) \in SUBSET Tickers /\ Exposed(g) \in SUBSET Tickers
  BY TickerAssumption DEF Held, HeldIn, Exposed
<1>2. \A core \in BOOLEAN : OnSide(g, core) \in SUBSET Tickers
  BY <1>1 DEF OnSide
<1> QED
  BY <1>1, <1>2, FS_Subset

\* A ticker without shares or an open order counts for nothing.
LEMMA Nothing ==
  ASSUME NEW g, AllRead(g), NEW t \in Tickers
  PROVE  /\ t \notin Held(g) => Holding(g, t) = 0
         /\ t \notin Exposed(g) => Balance(g)[t] = 0
<1>1. Holding(g, t) \in Nat /\ Open(g, t) \in Nat /\ Mark(g, t) \in Nat
      /\ Portfolios[g.portfolio].shares[t] \in Nat
  BY Amounts
<1>2. t \notin Held(g) => Portfolios[g.portfolio].shares[t] = 0
  BY <1>1 DEF Held, HeldIn, AllRead
<1>3. t \notin Held(g) => Holding(g, t) = 0
  <2>1. \A m \in Nat : Worth(0, m) = 0
    BY ScaleAssumption DEF Worth
  <2> QED
    BY <1>1, <1>2, <2>1 DEF Holding, AllRead
<1>4. t \notin Exposed(g) => t \notin Held(g) /\ Open(g, t) = 0
  BY <1>1 DEF Exposed
<1> QED
  BY <1>3, <1>4 DEF Balance

LEMMA Totals ==
  ASSUME NEW g, AllRead(g)
  PROVE  /\ H(g) \in Nat /\ E(g) \in Nat /\ R(g) \in Nat /\ R(g) <= H(g)
         /\ Parts * R(g) <= Fractions[g.fraction] * H(g)
<1> DEFINE holding == [t \in Held(g) |-> Holding(g, t)]
           open == [t \in Tickers |-> Open(g, t)]
<1>1. \A t \in Tickers : Holding(g, t) \in Nat /\ Open(g, t) \in Nat
  BY Amounts
<1>2. Held(g) \in SUBSET Tickers /\ IsFiniteSet(Held(g)) /\ IsFiniteSet(Tickers)
  BY Finite
<1>3. Sum(holding, Held(g)) \in Nat
  <2>1. \A t \in Held(g) : holding[t] \in Nat
    BY <1>1, <1>2
  <2> HIDE DEF holding
  <2> QED
    BY <2>1, <1>2, SumNat
<1>4. Sum(open, Tickers) \in Nat
  <2>1. \A t \in Tickers : open[t] \in Nat
    BY <1>1
  <2> HIDE DEF open
  <2> QED
    BY <2>1, <1>2, SumNat
<1>5. H(g) = Sum(holding, Held(g))
  BY SumOfFunction DEF H
<1>6. E(g) = Sum(open, Tickers)
  BY SumOfFunction DEF E
<1> HIDE DEF holding, open
<1>7. H(g) \in Nat /\ E(g) \in Nat
  BY <1>3, <1>4, <1>5, <1>6
<1> DEFINE r == Fractions[g.fraction]
           h == H(g)
<1>8. r \in 0..Parts /\ h \in Nat /\ Parts \in Nat \ {0}
  BY <1>7, Amounts, ScaleAssumption
<1>9. R(g) = (r * h) \div Parts
  BY DEF R
<1> HIDE DEF r, h
<1>10. r * h \in Nat /\ r * h <= Parts * h
  BY <1>8, SMT
<1>11. R(g) \in Nat /\ Parts * R(g) <= r * h /\ R(g) <= h
  <2> DEFINE m == r * h
             q == R(g)
  <2>1. m \in Nat /\ m <= Parts * h /\ q = m \div Parts
    BY <1>9, <1>10
  <2> HIDE DEF m, q
  <2>2. q \in Nat /\ Parts * q <= m
    BY <2>1, <1>8, DivBound
  <2>3. q <= h
    BY <2>1, <2>2, <1>8, OrderOfParts
  <2> QED
    BY <2>2, <2>3 DEF m, q
<1> QED
  BY <1>7, <1>11 DEF r, h

LEMMA DivTimes ==
  ASSUME NEW a \in Nat, NEW b \in Nat \ {0}
  PROVE  (b * a) \div b = a
BY SMT

LEMMA DivExact ==
  ASSUME NEW a \in Nat, NEW b \in Nat \ {0}, a % b = 0
  PROVE  a \div b \in Nat /\ a = b * (a \div b)
BY SMT

LEMMA WorthExact ==
  ASSUME NEW shares \in Nat, NEW mark \in Nat, mark % (Parts * Parts) = 0
  PROVE  \E n \in Nat : Worth(shares, mark) = Parts * n /\ shares * mark = Parts * (Parts * n)
<1> DEFINE square == Parts * Parts
           k == mark \div square
           n == shares * k
<1>1. Parts \in Nat \ {0}
  BY ScaleAssumption
<1>2. square \in Nat \ {0}
  BY <1>1, SMT
<1>3. k \in Nat /\ mark = square * k
  <2> HIDE DEF square
  <2> QED
    BY <1>2, DivExact DEF square
<1> HIDE DEF k
<1>4. n \in Nat
  BY <1>3, ProductNat
<1>5. shares * mark = Parts * (Parts * n)
  BY <1>1, <1>3, SMT
<1> HIDE DEF n
<1>6. Parts * n \in Nat
  BY <1>1, <1>4, ProductNat
<1>7. Worth(shares, mark) = Parts * n
  BY <1>1, <1>5, <1>6, DivTimes DEF Worth
<1> QED
  BY <1>4, <1>5, <1>7

\* The scale rounds nothing: a holding is the very product of its shares and its mark,
\* and R that of r and the holdings, as the exact products of the code
\* (report_only_holdings_exposure.py, report_only_increment_capacity.py).
LEMMA ScaleExact ==
  ASSUME NEW g, AllRead(g)
  PROVE  /\ \A t \in Tickers : Parts * Holding(g, t) = Portfolios[g.portfolio].shares[t] * Mark(g, t)
         /\ Parts * R(g) = Fractions[g.fraction] * H(g)
<1> DEFINE book == Portfolios[g.portfolio].shares
           n == [t \in Tickers |-> CHOOSE i \in Nat : Holding(g, t) = Parts * i /\ book[t] * Mark(g, t) = Parts * (Parts * i)]
<1>1. Parts \in Nat \ {0} /\ Fractions[g.fraction] \in 0..Parts
  BY ScaleAssumption, Amounts
<1>2. \A t \in Tickers : /\ n[t] \in Nat /\ Holding(g, t) = Parts * n[t]
                         /\ book[t] * Mark(g, t) = Parts * (Parts * n[t])
  <2>1. ASSUME NEW t \in Tickers
        PROVE  \E i \in Nat : Holding(g, t) = Parts * i /\ book[t] * Mark(g, t) = Parts * (Parts * i)
    <3>1. book[t] \in Nat /\ Mark(g, t) \in Nat
      BY Amounts
    <3>2. Mark(g, t) % (Parts * Parts) = 0
      <4>1. g.capture.session \in Sessions
        BY DEF AllRead, Captures
      <4> QED
        BY <4>1, ScaleAssumption, Zenon DEF Mark
    <3>3. Holding(g, t) = Worth(book[t], Mark(g, t))
      BY DEF Holding, AllRead
    <3> HIDE DEF book
    <3> QED
      BY <3>1, <3>2, <3>3, WorthExact
  <2> QED
    BY <2>1, Zenon
<1>3. Held(g) \in SUBSET Tickers /\ IsFiniteSet(Held(g))
  BY Finite
<1> DEFINE holding == [t \in Held(g) |-> Holding(g, t)]
           whole == Sum(n, Held(g))
           c == Parts
           r == Fractions[g.fraction]
<1>4. H(g) = Sum(holding, Held(g))
  BY SumOfFunction DEF H
<1>5. c \in Int /\ \A t \in Held(g) : n[t] \in Nat /\ n[t] \in Int /\ holding[t] = c * n[t]
  BY <1>1, <1>2, <1>3
<1>6. \A t \in Tickers : Parts * Holding(g, t) = book[t] * Mark(g, t)
  BY <1>2
<1> HIDE DEF n, holding, c
<1>7. Sum(holding, Held(g)) = c * Sum(n, Held(g))
  BY <1>3, <1>5, SumTimes
<1>8. whole \in Nat /\ H(g) = Parts * whole
  BY <1>3, <1>4, <1>5, <1>7, SumNat DEF c
<1>9. r \in Nat
  BY <1>1
<1>10. R(g) = (r * H(g)) \div Parts
  BY DEF R
<1> HIDE DEF whole, r
<1>11. r * H(g) = Parts * (r * whole) /\ r * whole \in Nat
  BY <1>1, <1>8, <1>9, ProductNat, SMT
<1>12. R(g) = r * whole
  BY <1>1, <1>10, <1>11, DivTimes
<1>13. Parts * R(g) = r * H(g)
  BY <1>11, <1>12
<1> QED
  BY <1>6, <1>13 DEF r

\* The holdings are those of every ticker.
LEMMA HoldingsAll ==
  ASSUME NEW g, AllRead(g)
  PROVE  H(g) = Sum([t \in Tickers |-> Holding(g, t)], Tickers)
<1> DEFINE holding == [t \in Held(g) |-> Holding(g, t)]
           owned == [t \in Tickers |-> Holding(g, t)]
<1>1. Held(g) \in SUBSET Tickers /\ IsFiniteSet(Held(g)) /\ IsFiniteSet(Tickers)
  BY Finite
<1>2. /\ \A t \in Tickers : owned[t] \in Int
      /\ \A t \in Tickers \ Held(g) : owned[t] = 0
      /\ \A t \in Held(g) : owned[t] \in Int /\ owned[t] = holding[t]
  BY <1>1, Amounts, Nothing
<1>3. H(g) = Sum(holding, Held(g))
  BY SumOfFunction DEF H
<1> HIDE DEF holding, owned
<1>4. Sum(owned, Tickers) = Sum(owned, Held(g))
  BY <1>1, <1>2, SumSupport
<1>5. Sum(owned, Held(g)) = Sum(holding, Held(g))
  BY <1>1, <1>2, SumSame
<1> QED
  BY <1>3, <1>4, <1>5 DEF owned

\* A side of the balance, with an order of n for ticker s.
LEMMA SideIs ==
  ASSUME NEW g, AllRead(g), NEW core \in BOOLEAN
  PROVE  /\ Side(g, core, None, 0) = Sum(Balance(g), OnSide(g, core))
         /\ Side(g, core, None, 0) \in Nat
<1> DEFINE side == [t \in OnSide(g, core) |-> Holding(g, t) + Open(g, t) + IF t = None THEN 0 ELSE 0]
           b == Balance(g)
<1>1. OnSide(g, core) \in SUBSET Tickers /\ IsFiniteSet(OnSide(g, core))
  BY Finite
<1>2. \A t \in OnSide(g, core) : b[t] \in Nat /\ b[t] = side[t]
  BY <1>1, Amounts DEF Balance
<1>3. Side(g, core, None, 0) = Sum(side, OnSide(g, core))
  BY SumOfFunction DEF Side
<1> HIDE DEF side, b
<1>4. \A t \in OnSide(g, core) : b[t] \in Int /\ b[t] = side[t]
  BY <1>2
<1>5. Sum(b, OnSide(g, core)) = Sum(side, OnSide(g, core))
  BY <1>1, <1>4, SumSame
<1>6. Sum(b, OnSide(g, core)) \in Nat
  BY <1>1, <1>2, SumNat
<1> QED
  BY <1>3, <1>5, <1>6 DEF b

LEMMA SideAdds ==
  ASSUME NEW g, AllRead(g), NEW core \in BOOLEAN, NEW s, NEW n \in Nat
  PROVE  Side(g, core, s, n) = Side(g, core, None, 0) + IF s \in OnSide(g, core) THEN n ELSE 0
<1> DEFINE side == [t \in OnSide(g, core) |-> Holding(g, t) + Open(g, t) + IF t = s THEN n ELSE 0]
           b == Balance(g)
<1>1. OnSide(g, core) \in SUBSET Tickers /\ IsFiniteSet(OnSide(g, core))
  BY Finite
<1>2. \A t \in OnSide(g, core) : b[t] \in Int /\ side[t] = b[t] + IF t = s THEN n ELSE 0
  BY <1>1, Amounts DEF Balance
<1>3. Side(g, core, s, n) = Sum(side, OnSide(g, core))
  BY SumOfFunction DEF Side
<1>4. Side(g, core, None, 0) = Sum(b, OnSide(g, core)) /\ Side(g, core, None, 0) \in Nat
  BY SideIs
<1> HIDE DEF side, b
<1>5. CASE s \in OnSide(g, core)
  <2>1. Sum(side, OnSide(g, core)) = Sum(b, OnSide(g, core)) + n
    BY <1>1, <1>2, <1>5, SumAt
  <2> QED
    BY <1>3, <1>4, <1>5, <2>1
<1>6. CASE s \notin OnSide(g, core)
  <2>1. \A t \in OnSide(g, core) : b[t] \in Int /\ b[t] = side[t]
    BY <1>2, <1>6
  <2>2. Sum(b, OnSide(g, core)) = Sum(side, OnSide(g, core))
    BY <1>1, <2>1, SumSame
  <2> QED
    BY <1>3, <1>4, <1>6, <2>2
<1> QED
  BY <1>5, <1>6

\* Both sides are the holdings and the open orders.
LEMMA SidesAdd ==
  ASSUME NEW g, AllRead(g)
  PROVE  Side(g, FALSE, None, 0) + Side(g, TRUE, None, 0) = H(g) + E(g)
<1> DEFINE b == Balance(g)
           owned == [t \in Tickers |-> Holding(g, t)]
           open == [t \in Tickers |-> Open(g, t)]
           rest == OnSide(g, FALSE)
           core == OnSide(g, TRUE)
<1>1. /\ IsFiniteSet(Tickers) /\ Exposed(g) \in SUBSET Tickers /\ IsFiniteSet(Exposed(g))
      /\ IsFiniteSet(rest) /\ IsFiniteSet(core)
  BY Finite
<1>2. rest \cap core = {} /\ rest \cup core = Exposed(g)
  BY DEF OnSide
<1>3. /\ \A t \in Tickers : b[t] \in Int
      /\ \A t \in Tickers \ Exposed(g) : b[t] = 0
      /\ \A t \in Tickers : owned[t] \in Int /\ open[t] \in Int /\ b[t] = owned[t] + open[t]
  BY Amounts, Nothing DEF Balance
<1>4. E(g) = Sum(open, Tickers)
  BY SumOfFunction DEF E
<1>5. H(g) = Sum(owned, Tickers)
  BY HoldingsAll
<1>6. Side(g, FALSE, None, 0) = Sum(b, rest) /\ Side(g, TRUE, None, 0) = Sum(b, core)
  BY SideIs
<1> HIDE DEF b, owned, open, rest, core
<1>7. Sum(b, Tickers) = Sum(owned, Tickers) + Sum(open, Tickers)
  BY <1>1, <1>3, SumPlus
<1>8. Sum(b, Tickers) = Sum(b, Exposed(g))
  BY <1>1, <1>3, SumSupport
<1>9. Sum(b, rest \cup core) = Sum(b, rest) + Sum(b, core)
  <2>1. \A t \in rest \cup core : b[t] \in Int
    BY <1>1, <1>2, <1>3
  <2> QED
    BY <1>1, <1>2, <2>1, SumUnion
<1> QED
  BY <1>2, <1>4, <1>5, <1>6, <1>7, <1>8, <1>9

-----------------------------------------------------------------------------
(* The capacity.                                                           *)

LEMMA MinOfTwo ==
  ASSUME NEW a \in Int, NEW b \in Int
  PROVE  Min({a, b}) = IF a <= b THEN a ELSE b
<1> DEFINE m == IF a <= b THEN a ELSE b
<1>1. m \in {a, b} /\ \A y \in {a, b} : m <= y
  BY SMT
<1>2. \A x \in {a, b} : (\A y \in {a, b} : x <= y) => x = m
  BY SMT
<1> HIDE DEF m
<1>3. Min({a, b}) = m
  BY <1>1, <1>2 DEF Min
<1> QED
  BY <1>3 DEF m

Blocked(g) ==
  IsUnresolved(g) \/ g.h1 = None \/ E(g) > X(g) \/ E(g) > R(g)
  \/ Side(g, FALSE, None, 0) > Side(g, TRUE, None, 0)

LEMMA CapacityIs ==
  ASSUME NEW g, AllRead(g), NEW cap, cap = Capacity(g)
  PROVE  /\ cap.X = X(g) /\ cap.H = H(g) /\ cap.E = E(g) /\ cap.R = R(g)
         /\ IsUnresolved(g) => cap.A = None /\ cap.Z = None
         /\ ~IsUnresolved(g) => /\ cap.A = Side(g, FALSE, None, 0) /\ cap.Z = Side(g, TRUE, None, 0)
                                /\ cap.A # None /\ cap.Z # None
         /\ Blocked(g) => cap.C = None
         /\ ~Blocked(g) => /\ cap.C \in Nat /\ cap.C # None
                           /\ cap.C <= X(g) - E(g) /\ cap.C <= R(g) - E(g)
                           /\ cap.C = Min({X(g), R(g)}) - E(g)
         /\ cap # None /\ CapacityValid(cap)
<1> DEFINE a == Side(g, FALSE, None, 0)
           z == Side(g, TRUE, None, 0)
           least == Min({X(g), R(g)})
<1>1. X(g) \in Nat /\ H(g) \in Nat /\ E(g) \in Nat /\ R(g) \in Nat /\ R(g) <= H(g)
  BY Amounts, Totals
<1>2. a \in Nat /\ z \in Nat /\ a + z = H(g) + E(g)
  BY SideIs, SidesAdd
<1>3. least = IF X(g) <= R(g) THEN X(g) ELSE R(g)
  BY <1>1, MinOfTwo
<1>4. cap = [X |-> X(g), H |-> H(g), E |-> E(g), R |-> R(g),
             A |-> IF IsUnresolved(g) THEN None ELSE a,
             Z |-> IF IsUnresolved(g) THEN None ELSE z,
             C |-> IF Blocked(g) THEN None ELSE least - E(g)]
  BY DEF Capacity, Blocked
<1>5. ~Blocked(g) => E(g) <= X(g) /\ E(g) <= R(g) /\ ~IsUnresolved(g)
  <2>1. ~Blocked(g) => ~(E(g) > X(g)) /\ ~(E(g) > R(g)) /\ ~IsUnresolved(g)
    BY Zenon DEF Blocked
  <2> QED
    BY <1>1, <2>1
<1> HIDE DEF a, z, least
<1>6. ~Blocked(g) => /\ least - E(g) \in Nat
                     /\ least - E(g) <= X(g) - E(g) /\ least - E(g) <= R(g) - E(g)
  BY <1>1, <1>3, <1>5
<1>7. None \notin Nat /\ None \notin Capacities
  BY AmountAssumption
<1>8. /\ cap.X = X(g) /\ cap.H = H(g) /\ cap.E = E(g) /\ cap.R = R(g)
      /\ cap.A = (IF IsUnresolved(g) THEN None ELSE a)
      /\ cap.Z = (IF IsUnresolved(g) THEN None ELSE z)
      /\ cap.C = (IF Blocked(g) THEN None ELSE least - E(g))
  BY <1>4
<1>9. cap \in Capacities
  BY <1>1, <1>2, <1>4, <1>6 DEF Capacities
<1>10. CapacityValid(cap)
  <2>1. cap.R <= cap.H
    BY <1>1, <1>8
  <2>2. (cap.A = None) = (cap.Z = None)
    BY <1>2, <1>7, <1>8
  <2>3. cap.A # None => cap.A + cap.Z = cap.H + cap.E
    BY <1>2, <1>8
  <2>4. cap.C # None => /\ cap.A # None /\ cap.E <= cap.X /\ cap.E <= cap.R
                        /\ cap.C = Min({cap.X, cap.R}) - cap.E
    BY <1>2, <1>5, <1>7, <1>8 DEF least
  <2> QED
    BY <2>1, <2>2, <2>3, <2>4 DEF CapacityValid
<1>11. Blocked(g) => cap.C = None
  BY <1>8
<1>12. ~Blocked(g) => /\ cap.C \in Nat /\ cap.C # None
                      /\ cap.C <= X(g) - E(g) /\ cap.C <= R(g) - E(g)
                      /\ cap.C = least - E(g)
  BY <1>6, <1>7, <1>8
<1>13. /\ IsUnresolved(g) => cap.A = None /\ cap.Z = None
       /\ ~IsUnresolved(g) => cap.A = a /\ cap.Z = z /\ cap.A # None /\ cap.Z # None
  BY <1>2, <1>7, <1>8
<1>14. cap # None
  BY <1>7, <1>9
<1> QED
  BY <1>8, <1>10, <1>11, <1>12, <1>13, <1>14 DEF a, z, least

\* The first of the base tickers in the order of priority.
LEMMA FirstOf ==
  ASSUME NEW S, S \subseteq Base, S # {}
  PROVE  First(S) \in S
<1> DEFINE places == {i \in DOMAIN Priority : Priority[i] \in S}
           m == Min(places)
<1>1. DOMAIN Priority \subseteq Nat /\ Base = {Priority[i] : i \in DOMAIN Priority}
  BY TickerAssumption DEF Range
<1>2. places \subseteq Nat /\ places # {}
  BY <1>1
<1> HIDE DEF places
<1>3. \E i \in places : \A j \in places : i <= j
  BY <1>2, LeastOf
<1>4. m \in places
  BY <1>3 DEF Min
<1> HIDE DEF m
<1>5. Priority[m] \in S
  BY <1>4 DEF places
<1> QED
  BY <1>5 DEF First, m, places

-----------------------------------------------------------------------------
(* The proposal.                                                           *)

Increments(g, cap) == {t \in Held(g) : Disposition(g, cap, t) = "INCREMENT_ELIGIBLE"}

LEMMA EligibleOnes ==
  ASSUME NEW g, AllRead(g), NEW cap
  PROVE  /\ Increments(g, cap) \subseteq Base \cap Held(g)
         /\ \A t \in Increments(g, cap) : Eligible(g, cap, t)
<1>1. ASSUME NEW t \in Held(g), Disposition(g, cap, t) = "INCREMENT_ELIGIBLE"
      PROVE  t \in Base /\ Eligible(g, cap, t)
  <2>1. Eligible(g, cap, t)
    BY <1>1 DEF Disposition
  <2> QED
    BY <2>1 DEF Eligible
<1> QED
  BY <1>1 DEF Increments

\* What makes an increment proposable.
Proposable(g, p) ==
  /\ ~Blocked(g)
  /\ p.cap = Capacity(g) /\ p.ticker \in Held(g) \cap Base
  /\ p.target \in Nat \ {0} /\ p.target <= p.cap.C
  /\ Role(g, p.ticker) = IF p.ticker \in Core THEN "CORE" ELSE "SATELLITE"
  /\ Role(g, p.ticker) = "SATELLITE" => p.target <= p.cap.Z - p.cap.A

LEMMA PositiveProposal ==
  ASSUME NEW g, AllRead(g), NEW cap, cap = Capacity(g), cap.C # None, cap.C # 0,
         Increments(g, cap) # {},
         NEW p, p.cap = cap, p.ticker = First(Increments(g, cap)),
         p.target = Target(g, cap, p.ticker)
  PROVE  /\ Proposable(g, p)
         /\ p.cap.C > 0 /\ p.cap.A <= p.cap.Z
         /\ p.ticker \in Increments(g, cap) /\ p.target > 0
         /\ p.target = IF p.ticker \in Core THEN p.cap.C ELSE Min({p.cap.C, p.cap.Z - p.cap.A})
<1> DEFINE s == p.ticker
           a == Side(g, FALSE, None, 0)
           z == Side(g, TRUE, None, 0)
<1>1. Increments(g, cap) \subseteq Base \cap Held(g) /\ \A t \in Increments(g, cap) : Eligible(g, cap, t)
  BY EligibleOnes
<1>2. s \in Increments(g, cap)
  BY <1>1, FirstOf
<1>3. s \in Base /\ s \in Held(g) /\ Eligible(g, cap, s)
  BY <1>1, <1>2
<1>4. ~Blocked(g) /\ cap.C \in Nat
  BY CapacityIs
<1>5. ~IsUnresolved(g) /\ ~(a > z)
  BY <1>4, Zenon DEF Blocked
<1>6. cap.A = a /\ cap.Z = z
  BY <1>5, CapacityIs
<1>7. a \in Nat /\ z \in Nat
  BY SideIs
<1> HIDE DEF a, z
<1>8. cap.A \in Nat /\ cap.Z \in Nat /\ cap.A <= cap.Z
  BY <1>5, <1>6, <1>7
<1>9. Role(g, s) = IF s \in Core THEN "CORE" ELSE "SATELLITE"
  BY <1>3 DEF AllRead, BaseRoles
<1>10. cap.C > 0 /\ (Role(g, s) = "SATELLITE" => cap.Z - cap.A > 0)
  BY <1>3 DEF Eligible
<1> DEFINE room == cap.Z - cap.A
<1>11. room \in Int
  BY <1>8
<1>12. Min({cap.C, room}) = IF cap.C <= room THEN cap.C ELSE room
  BY <1>4, <1>11, MinOfTwo
<1>13. p.target = IF Role(g, s) = "SATELLITE" THEN Min({cap.C, room}) ELSE cap.C
  BY DEF Target
<1> HIDE DEF room
<1>14. /\ p.target \in Nat \ {0} /\ p.target <= cap.C
       /\ Role(g, s) = "SATELLITE" => p.target <= room
  BY <1>4, <1>10, <1>11, <1>12, <1>13 DEF room
<1>15. p.target = IF s \in Core THEN cap.C ELSE Min({cap.C, room})
  BY <1>9, <1>13
<1> QED
  BY <1>2, <1>3, <1>4, <1>8, <1>9, <1>10, <1>14, <1>15 DEF Proposable, room

LEMMA Proposed ==
  ASSUME NEW g, AllRead(g), NEW p, p = CompleteProposal(g)
  PROVE  /\ ProposalValid(p)
         /\ p.terminal \in {"NO_TRADE", "HOLD", "POSITIVE"}
         /\ p.terminal = "POSITIVE" => Proposable(g, p)
<1> DEFINE cap == Capacity(g)
           rows == [t \in Held(g) |-> Disposition(g, cap, t)]
           eligible == {t \in Held(g) : rows[t] = "INCREMENT_ELIGIBLE"}
           stop(terminal, reason) ==
             [terminal |-> terminal, reason |-> reason, cap |-> cap, rows |-> rows,
              ticker |-> None, target |-> None]
           positive ==
             [terminal |-> "POSITIVE", reason |-> "POSITIVE", cap |-> cap, rows |-> rows,
              ticker |-> First(eligible), target |-> Target(g, cap, First(eligible))]
<1>1. eligible = Increments(g, cap) /\ DOMAIN rows = Held(g)
  BY DEF Increments
<1>2. eligible \subseteq Base /\ \A t \in eligible : cap.C # None
  BY <1>1, EligibleOnes DEF Eligible
<1>3. cap # None /\ CapacityValid(cap)
  BY CapacityIs
<1>4. g.h1 = None \/ IsUnresolved(g) => cap.C = None
  <2>1. g.h1 = None \/ IsUnresolved(g) => Blocked(g)
    BY Zenon DEF Blocked
  <2> QED
    BY <2>1, CapacityIs
<1>5. \/ cap.C = None /\ \E reason : p = stop("NO_TRADE", reason)
      \/ cap.C # None /\ \E reason : p = stop("HOLD", reason)
      \/ cap.C # None /\ cap.C # 0 /\ eligible # {} /\ p = positive
  <2>1. p = CASE g.h1 = None -> stop("NO_TRADE", "H1_CONTEXT_NOT_CURRENT")
       [] g.h1 # None /\ IsUnresolved(g) -> stop("NO_TRADE", "REQUIRED_EXPOSURE_ROLE_UNRESOLVED")
       [] g.h1 # None /\ ~IsUnresolved(g) /\ cap.C = None -> stop("NO_TRADE", "INITIAL_CAP_EXCEEDED")
       [] cap.C # None /\ cap.C = 0 -> stop("HOLD", "NO_SHARED_CAPACITY")
       [] cap.C # None /\ cap.C # 0 /\ eligible = {} -> stop("HOLD", "NO_INCREMENT_ELIGIBLE_TICKER")
       [] cap.C # None /\ cap.C # 0 /\ eligible # {} -> positive
    BY DEF CompleteProposal, Unproposed
  <2> HIDE DEF rows, eligible, stop, positive
  <2> QED
    BY <2>1, <1>4
<1>6. ASSUME NEW reason, p = stop("NO_TRADE", reason), cap.C = None
      PROVE  ProposalValid(p) /\ p.terminal = "NO_TRADE"
  <2>1. /\ p.terminal = "NO_TRADE" /\ p.cap = cap /\ p.rows = rows
        /\ p.ticker = None /\ p.target = None
    BY <1>6
  <2>2. eligible = {}
    BY <1>2, <1>6
  <2> HIDE DEF cap, stop, positive
  <2>3. {t \in DOMAIN p.rows : p.rows[t] = "INCREMENT_ELIGIBLE"} = eligible
    BY <2>1, <1>1
  <2> HIDE DEF rows, eligible
  <2> QED
    BY <2>1, <2>2, <2>3, <1>3, <1>6 DEF ProposalValid
<1>7. ASSUME NEW reason, p = stop("HOLD", reason), cap.C # None
      PROVE  ProposalValid(p) /\ p.terminal = "HOLD"
  <2>1. /\ p.terminal = "HOLD" /\ p.cap = cap /\ p.rows = rows
        /\ p.ticker = None /\ p.target = None
    BY <1>7
  <2> HIDE DEF cap, stop, positive
  <2>3. {t \in DOMAIN p.rows : p.rows[t] = "INCREMENT_ELIGIBLE"} = eligible
    BY <2>1, <1>1
  <2> HIDE DEF rows, eligible
  <2> QED
    BY <2>1, <2>3, <1>2, <1>3, <1>7 DEF ProposalValid
<1>8. ASSUME p = positive, cap.C # None, cap.C # 0, eligible # {}
      PROVE  ProposalValid(p) /\ p.terminal = "POSITIVE" /\ Proposable(g, p)
  <2>1. /\ p.terminal = "POSITIVE" /\ p.cap = cap /\ p.rows = rows
        /\ p.ticker = First(eligible) /\ p.target = Target(g, cap, p.ticker)
    BY <1>8
  <2>2. cap = Capacity(g)
    OBVIOUS
  <2> HIDE DEF cap, stop, positive
  <2>3. {t \in DOMAIN p.rows : p.rows[t] = "INCREMENT_ELIGIBLE"} = eligible
    BY <2>1, <1>1
  <2> HIDE DEF rows, eligible
  <2>4. /\ Proposable(g, p)
        /\ p.cap.C > 0 /\ p.cap.A <= p.cap.Z
        /\ p.ticker \in eligible /\ p.target > 0
        /\ p.target = IF p.ticker \in Core THEN p.cap.C ELSE Min({p.cap.C, p.cap.Z - p.cap.A})
    BY <1>1, <1>8, <2>1, <2>2, PositiveProposal
  <2>5. p.cap # None => CapacityValid(p.cap)
    BY <1>3, <2>1
  <2> QED
    BY <2>1, <2>3, <2>4, <2>5, <1>2 DEF ProposalValid
<1> HIDE DEF cap, rows, eligible, stop, positive
<1> QED
  BY <1>5, <1>6, <1>7, <1>8

-----------------------------------------------------------------------------
(* The compiler.                                                           *)

Rungs == [offset : (1 - Parts)..(-1), weight : 1..Parts]
Weights(ladder) == [i \in DOMAIN ladder |-> ladder[i].weight]

LEMMA LadderIs ==
  ASSUME NEW g, AllRead(g), NEW s \in Base, NEW ladder, ladder = Strategies[g.strategy].ladder[s]
  PROVE  /\ ladder \in Seq(Rungs) /\ IsFiniteSet(DOMAIN ladder)
         /\ Sum(Weights(ladder), DOMAIN ladder) = Parts
<1>1. ladder \in Seq(Rungs) /\ SumFunction(Weights(ladder)) = Parts
  BY StrategyAssumption DEF AllRead, Rungs, Weights
<1>2. SumFunction(Weights(ladder)) = Sum(Weights(ladder), DOMAIN ladder)
  BY SumOfFunction DEF Weights
<1>3. DOMAIN ladder = 1..Len(ladder) /\ Len(ladder) \in Int
  BY <1>1
<1>4. IsFiniteSet(DOMAIN ladder)
  BY <1>3, FS_Interval
<1> QED
  BY <1>1, <1>2, <1>4

LEMMA RungWeight ==
  ASSUME NEW step \in Rungs
  PROVE  step.weight \in Nat
BY ScaleAssumption DEF Rungs

\* A limit price.
LEMMA PriceNat ==
  ASSUME NEW mark \in Nat, NEW step \in Rungs
  PROVE  Price(mark, step) \in Nat
<1> DEFINE n == Parts + step.offset
           half == 2 * mark * n + Parts * Cent
           whole == 2 * Parts * Cent
           cents == half \div whole
<1>1. n \in Nat /\ Parts \in Nat \ {0} /\ Cent \in Nat \ {0}
  BY ScaleAssumption DEF Rungs
<1>2. Price(mark, step) = Cent * cents
  BY DEF Price
<1> HIDE DEF n
<1>3. mark * n \in Nat /\ Parts * Cent \in Nat \ {0}
  BY <1>1, SMT
<1>4. 2 * mark * n = 2 * (mark * n) /\ 2 * Parts * Cent = 2 * (Parts * Cent)
  BY <1>1, SMT
<1>5. half \in Nat /\ whole \in Nat \ {0}
  BY <1>3, <1>4
<1> HIDE DEF half, whole
<1>6. cents \in Nat
  BY <1>5, DivBound
<1> HIDE DEF cents
<1> QED
  BY <1>1, <1>2, <1>6, ProductNat

LEMMA LegBound ==
  ASSUME NEW target \in Nat, NEW price \in Nat \ {0}, NEW step \in Rungs,
         NEW n, n = Quantity(target, price, step)
  PROVE  /\ n \in Nat /\ price * n \in Nat
         /\ Parts * price * n <= target * step.weight
         /\ Parts * (price * n) <= target * step.weight
<1> DEFINE due == target * step.weight
           whole == Parts * price
<1>1. step.weight \in Nat
  BY RungWeight
<1>2. due \in Nat /\ whole \in Nat \ {0}
  BY <1>1, ProductNat, ScaleAssumption, SMT
<1>3. n = due \div whole
  BY DEF Quantity
<1> HIDE DEF due, whole
<1>4. n \in Nat /\ whole * n <= due
  BY <1>2, <1>3, DivBound
<1>5. price * n \in Nat
  BY <1>4, ProductNat
<1>6. whole * n = Parts * (price * n)
  BY <1>4, ScaleAssumption, SMT DEF whole
<1> QED
  BY <1>4, <1>5, <1>6 DEF due, whole

\* No leg costs more than its share of the target.
LegsWithin(legs, target, ladder) == \A i \in DOMAIN legs :
  Parts * legs[i].price * legs[i].shares <= target * ladder[i].weight

\* The legs never cost more than the target.
LEMMA NotionalBound ==
  ASSUME NEW ladder \in Seq(Rungs), IsFiniteSet(DOMAIN ladder),
         Sum(Weights(ladder), DOMAIN ladder) = Parts,
         NEW mark \in Nat, NEW target \in Nat, 0 \notin Prices(mark, ladder),
         NEW legs, legs = Legs(target, mark, ladder)
  PROVE  /\ Notional(legs) \in Nat /\ Notional(legs) <= target
         /\ LegsWithin(legs, target, ladder)
<1> DEFINE price(i) == Price(mark, ladder[i])
           shares(i) == Quantity(target, price(i), ladder[i])
           steps == DOMAIN ladder
           taken == {i \in steps : shares(i) > 0}
           cost == [i \in steps |-> price(i) * shares(i)]
           paid == [i \in taken |-> legs[i].price * legs[i].shares]
           cents == [i \in steps |-> Parts * cost[i]]
           due == [i \in steps |-> target * ladder[i].weight]
<1>1. legs = [i \in taken |-> [price |-> price(i), shares |-> shares(i)]]
  BY DEF Legs
<1>2. DOMAIN legs = taken /\ \A i \in taken : legs[i].price = price(i) /\ legs[i].shares = shares(i)
  BY <1>1
<1>3. ASSUME NEW i \in steps
      PROVE  /\ price(i) \in Nat /\ shares(i) \in Nat /\ cost[i] \in Nat
             /\ Parts * price(i) * shares(i) <= target * ladder[i].weight
             /\ Parts * cost[i] <= target * ladder[i].weight
             /\ ladder[i].weight \in Nat /\ due[i] \in Nat
  <2>1. ladder[i] \in Rungs
    OBVIOUS
  <2>2. price(i) \in Nat
    BY <2>1, PriceNat
  <2>3. price(i) # 0
    BY DEF Prices
  <2> DEFINE c == price(i)
             n == shares(i)
  <2>4. n = Quantity(target, c, ladder[i]) /\ c \in Nat \ {0}
    BY <2>2, <2>3
  <2>5. cost[i] = c * n
    OBVIOUS
  <2> HIDE DEF c, n, price, shares, cost
  <2>6. /\ n \in Nat /\ c * n \in Nat
        /\ Parts * c * n <= target * ladder[i].weight
        /\ Parts * (c * n) <= target * ladder[i].weight
    BY <2>1, <2>4, LegBound
  <2>7. ladder[i].weight \in Nat
    BY <2>1, RungWeight
  <2>8. due[i] \in Nat
    BY <2>7, ProductNat
  <2> QED
    BY <2>2, <2>5, <2>6, <2>7, <2>8 DEF c, n
<1>4. taken \in SUBSET steps
  OBVIOUS
<1>5. Notional(legs) = Sum(paid, taken)
  BY <1>2, SumOfFunction DEF Notional
<1>6. \A i \in taken : paid[i] = cost[i]
  BY <1>2, <1>4
<1>7. \A i \in steps \ taken : cost[i] = 0
  <2>1. ASSUME NEW i \in steps \ taken
        PROVE  cost[i] = 0
    <3>1. shares(i) = 0 /\ price(i) \in Nat
      BY <1>3
    <3> HIDE DEF shares, price
    <3> QED
      BY <3>1
  <2> QED
    BY <2>1
<1>8. /\ \A i \in steps : cost[i] \in Nat /\ cents[i] = Parts * cost[i]
      /\ \A i \in steps : due[i] \in Nat /\ cents[i] <= due[i]
      /\ \A i \in steps : Weights(ladder)[i] \in Int /\ due[i] = target * Weights(ladder)[i]
  BY <1>3 DEF Weights
<1> DEFINE w == Weights(ladder)
<1> HIDE DEF price, shares, taken, cost, paid, cents, due, w, steps
<1>9. IsFiniteSet(steps) /\ Sum(w, steps) = Parts
  BY DEF steps, w
<1>10. IsFiniteSet(taken)
  BY <1>4, <1>9, FS_Subset
<1>11. Sum(paid, taken) = Sum(cost, taken)
  <2>1. \A i \in taken : paid[i] \in Int /\ paid[i] = cost[i]
    BY <1>4, <1>6, <1>8
  <2> QED
    BY <1>10, <2>1, SumSame
<1>12. Sum(cost, steps) = Sum(cost, taken)
  <2>1. \A i \in steps : cost[i] \in Int
    BY <1>8
  <2> QED
    BY <2>1, <1>4, <1>7, <1>9, SumSupport
<1>13. Sum(cost, steps) \in Nat
  BY <1>8, <1>9, SumNat
<1>14. Sum(cents, steps) = Parts * Sum(cost, steps)
  <2> DEFINE c == Parts
  <2>1. c \in Int /\ \A i \in steps : cost[i] \in Int /\ cents[i] = c * cost[i]
    BY <1>8, ScaleAssumption
  <2> HIDE DEF c
  <2>2. IsFiniteSet(steps)
    BY <1>9
  <2>3. Sum(cents, steps) = c * Sum(cost, steps)
    BY <2>1, <2>2, SumTimes
  <2> QED
    BY <2>3 DEF c
<1>15. Sum(cents, steps) <= Sum(due, steps)
  <2>1. \A i \in steps : Parts * cost[i] \in Nat
    BY <1>8, ScaleAssumption, ProductNat
  <2>2. \A i \in steps : cents[i] \in Int /\ due[i] \in Int /\ cents[i] <= due[i]
    BY <1>8, <2>1
  <2> QED
    BY <2>2, <1>9, SumMono
<1>16. Sum(due, steps) = target * Sum(w, steps)
  <2> DEFINE c == target
  <2>1. c \in Int /\ \A i \in steps : w[i] \in Int /\ due[i] = c * w[i]
    BY <1>8 DEF w
  <2> HIDE DEF c
  <2>2. IsFiniteSet(steps)
    BY <1>9
  <2>3. Sum(due, steps) = c * Sum(w, steps)
    BY <2>1, <2>2, SumTimes
  <2> QED
    BY <2>3 DEF c
<1>17. Notional(legs) \in Nat /\ Notional(legs) <= target
  <2> DEFINE n == Sum(cost, steps)
  <2>1. Notional(legs) = n /\ n \in Nat /\ Parts \in Nat \ {0}
    BY <1>5, <1>11, <1>12, <1>13, ScaleAssumption
  <2>2. Parts * n <= target * Parts
    BY <1>9, <1>14, <1>15, <1>16
  <2> HIDE DEF n
  <2>3. target * Parts = Parts * target
    BY <2>1, SMT
  <2>4. n <= target
    BY <2>1, <2>2, <2>3, OrderOfParts
  <2> QED
    BY <2>1, <2>4
<1>18. LegsWithin(legs, target, ladder)
  BY <1>2, <1>3 DEF taken, steps, LegsWithin
<1> QED
  BY <1>17, <1>18

\* What an order of n for the ticker proposed makes of the totals.
LEMMA OrderFits ==
  ASSUME NEW g, AllRead(g), NEW p, Proposable(g, p), NEW n \in Nat, n <= p.target
  PROVE  /\ E(g) + n <= X(g) /\ E(g) + n <= R(g)
         /\ Side(g, FALSE, p.ticker, n) <= Side(g, TRUE, p.ticker, n)
<1> DEFINE s == p.ticker
           a == Side(g, FALSE, None, 0)
           z == Side(g, TRUE, None, 0)
           cap == p.cap
           target == p.target
<1>1. ~Blocked(g) /\ cap = Capacity(g)
  BY DEF Proposable
<1>2. ~IsUnresolved(g) /\ ~(a > z)
  BY <1>1, Zenon DEF Blocked
<1>3. /\ cap.C \in Nat /\ cap.C <= X(g) - E(g) /\ cap.C <= R(g) - E(g)
      /\ cap.A = a /\ cap.Z = z
  BY <1>1, <1>2, CapacityIs
<1>4. a \in Nat /\ z \in Nat
  BY SideIs
<1>5. X(g) \in Nat /\ E(g) \in Nat /\ R(g) \in Nat
  BY Amounts, Totals
<1>6. s \in OnSide(g, FALSE) <=> Role(g, s) # "CORE"
  BY DEF Proposable, OnSide, Exposed
<1>7. s \in OnSide(g, TRUE) <=> Role(g, s) = "CORE"
  BY DEF Proposable, OnSide, Exposed
<1>8. /\ Side(g, FALSE, s, n) = a + IF s \in OnSide(g, FALSE) THEN n ELSE 0
      /\ Side(g, TRUE, s, n) = z + IF s \in OnSide(g, TRUE) THEN n ELSE 0
  BY SideAdds
<1>9. /\ target \in Nat /\ target <= cap.C
      /\ Role(g, s) = "CORE" \/ (Role(g, s) = "SATELLITE" /\ target <= cap.Z - cap.A)
  <2>1. target \in Nat /\ target <= cap.C
    BY DEF Proposable
  <2>2. Role(g, s) \in {"CORE", "SATELLITE"}
    BY DEF Proposable
  <2>3. Role(g, s) = "SATELLITE" => target <= cap.Z - cap.A
    BY DEF Proposable
  <2> HIDE DEF s, cap, target
  <2> QED
    BY <2>1, <2>2, <2>3
<1>10. n <= target
  OBVIOUS
<1> HIDE DEF s, a, z, cap, target
<1>11. E(g) + n <= X(g) /\ E(g) + n <= R(g)
  BY <1>3, <1>5, <1>9, <1>10
<1>12. Side(g, FALSE, s, n) <= Side(g, TRUE, s, n)
  <2>1. a <= z
    BY <1>2, <1>4
  <2> DEFINE rest == Side(g, FALSE, s, n)
             core == Side(g, TRUE, s, n)
  <2>2. ASSUME Role(g, s) = "CORE"
        PROVE  rest <= core
    <3>1. rest = a + 0 /\ core = z + n
      BY <2>2, <1>6, <1>7, <1>8
    <3> HIDE DEF rest, core
    <3> QED
      BY <3>1, <2>1, <1>4
  <2>3. ASSUME Role(g, s) = "SATELLITE", target <= z - a
        PROVE  rest <= core
    <3>1. rest = a + n /\ core = z + 0
      BY <2>3, <1>6, <1>7, <1>8
    <3> HIDE DEF rest, core
    <3> QED
      BY <3>1, <2>3, <1>4, <1>9, <1>10
  <2> HIDE DEF rest, core
  <2>4. rest <= core
    BY <2>2, <2>3, <1>3, <1>9
  <2> QED
    BY <2>4 DEF rest, core
<1> QED
  BY <1>11, <1>12 DEF s

LEMMA LegsFit ==
  ASSUME NEW g, AllRead(g), NEW s \in Base, NEW target \in Nat,
         NEW ladder, ladder = Strategies[g.strategy].ladder[s],
         0 \notin Prices(Mark(g, s), ladder),
         NEW legs, legs = Legs(target, Mark(g, s), ladder)
  PROVE  /\ Notional(legs) \in Nat /\ Notional(legs) <= target
         /\ LegsWithin(legs, target, ladder)
<1>1. /\ ladder \in Seq(Rungs) /\ IsFiniteSet(DOMAIN ladder)
      /\ Sum(Weights(ladder), DOMAIN ladder) = Parts
  BY LadderIs
<1> DEFINE mark == Mark(g, s)
<1>2. mark \in Nat
  BY Amounts DEF Tickers
<1>3. 0 \notin Prices(mark, ladder) /\ legs = Legs(target, mark, ladder)
  OBVIOUS
<1> HIDE DEF mark
<1> QED
  BY <1>1, <1>2, <1>3, NotionalBound

LEMMA CompilerAgrees ==
  ASSUME NEW g, AllRead(g), NEW p, Proposable(g, p), NEW c, c = Compiled(g, p),
         0 \notin Prices(Mark(g, p.ticker), Strategies[g.strategy].ladder[p.ticker])
  PROVE  /\ CompiledValid(g, p, c) /\ Verified(g, p, c)
         /\ c.notional = Notional(c.legs)
         /\ c.notional \in Nat /\ c.notional <= p.target
<1> DEFINE s == p.ticker
           ladder == Strategies[g.strategy].ladder[s]
           legs == Legs(p.target, Mark(g, s), ladder)
           n == Notional(legs)
<1>1. /\ c.legs = legs /\ c.notional = n /\ c.open = E(g) + n
      /\ c.alpha = Side(g, FALSE, s, n) /\ c.core = Side(g, TRUE, s, n)
  BY DEF Compiled
<1>2. /\ s \in Base /\ p.target \in Nat /\ p.cap = Capacity(g)
      /\ ~Blocked(g) /\ Role(g, s) \in {"CORE", "SATELLITE"}
  BY DEF Proposable
<1>3. legs = DueLegs(g, p)
  BY DEF Legs, DueLegs, DueLeg
<1> HIDE DEF n, legs
<1>4. n \in Nat /\ n <= p.target /\ LegsWithin(legs, p.target, ladder)
  BY <1>2, LegsFit DEF n, legs
<1>5. /\ E(g) + n <= X(g) /\ E(g) + n <= R(g)
      /\ Side(g, FALSE, s, n) <= Side(g, TRUE, s, n)
  BY <1>4, OrderFits
<1>6. /\ p.cap.X = X(g) /\ p.cap.H = H(g) /\ p.cap.E = E(g) /\ p.cap.R = R(g)
      /\ p.cap.A = Side(g, FALSE, None, 0) /\ p.cap.Z = Side(g, TRUE, None, 0)
  <2>1. ~IsUnresolved(g)
    BY <1>2, Zenon DEF Blocked
  <2> QED
    BY <1>2, <2>1, CapacityIs
<1>7. CompiledValid(g, p, c)
  BY <1>1, <1>4, <1>5, <1>6 DEF CompiledValid, LegsWithin
<1>8. Verified(g, p, c)
  BY <1>1, <1>2, <1>3 DEF Verified, LegsAgree, ExposuresAgree, n
<1> QED
  BY <1>1, <1>4, <1>7, <1>8 DEF n

\* The order compiled is within the caps, as they are told from the files.
LEMMA CompiledWithinCaps ==
  ASSUME NEW g, AllRead(g), NEW p, Proposable(g, p), NEW n \in Nat, n <= p.target,
         NEW o, o.gen = g, o.ticker = p.ticker, o.legs # <<>>, Notional(o.legs) = n
  PROVE  WithinCaps(o)
<1> DEFINE s == p.ticker
           was == [t \in Tickers |-> Open(g, t)]
           open == [t \in Tickers |-> Portfolios[g.portfolio].open[t] + IF t = s THEN n ELSE 0]
           owned == [t \in Tickers |-> Worth(Portfolios[g.portfolio].shares[t], Close[g.capture.session][t])]
           both == [t \in Tickers |-> owned[t] + open[t]]
           core == {t \in Tickers : Role(g, t) = "CORE"}
           b == Balance(g)
<1>1. IsFiniteSet(Tickers) /\ s \in Tickers /\ s \in Exposed(g)
  BY Finite DEF Proposable, Tickers, Exposed
<1>2. \A t \in Tickers : /\ was[t] \in Nat /\ open[t] = was[t] + IF t = s THEN n ELSE 0
                         /\ owned[t] = Holding(g, t) /\ owned[t] \in Nat
  BY Amounts DEF Open, Holding, Mark, AllRead
<1>3. \A t \in Tickers : /\ b[t] = Holding(g, t) + was[t] /\ b[t] \in Nat
                         /\ t \notin Exposed(g) => b[t] = 0
  BY Amounts, Nothing DEF Balance
<1>4. E(g) = Sum(was, Tickers)
  BY SumOfFunction DEF E
<1>5. H(g) = Sum(owned, Tickers)
  <2>1. owned = [t \in Tickers |-> Holding(g, t)]
    BY <1>2
  <2> HIDE DEF owned
  <2> QED
    BY <2>1, HoldingsAll
<1>6. /\ SumFunction(open) = Sum(open, Tickers) /\ SumFunction(owned) = Sum(owned, Tickers)
  BY SumOfFunction
<1> HIDE DEF was, b
<1>7. Sum(open, Tickers) = E(g) + n
  <2>1. \A t \in Tickers : was[t] \in Int /\ open[t] = was[t] + IF t = s THEN n ELSE 0
    BY <1>2
  <2>2. n \in Int
    OBVIOUS
  <2> HIDE DEF open, s
  <2>3. Sum(open, Tickers) = Sum(was, Tickers) + n
    BY <1>1, <2>1, <2>2, SumAt
  <2> QED
    BY <1>4, <2>3
<1>8. /\ E(g) + n <= X(g) /\ E(g) + n <= R(g)
      /\ Side(g, FALSE, s, n) <= Side(g, TRUE, s, n)
  BY OrderFits
<1>9. Parts * (E(g) + n) <= Fractions[g.fraction] * H(g)
  <2> DEFINE m == Fractions[g.fraction] * H(g)
  <2>1. Parts * R(g) <= m
    BY Totals
  <2>2. m \in Nat
    <3>1. Fractions[g.fraction] \in 0..Parts
      BY Amounts
    <3>2. H(g) \in Nat
      BY Totals
    <3>3. \A i \in 0..Parts : i \in Nat
      BY ScaleAssumption
    <3> QED
      BY <3>1, <3>2, <3>3, ProductNat, Zenon DEF m
  <2>3. E(g) \in Nat /\ R(g) \in Nat
    BY Totals
  <2> HIDE DEF m
  <2>4. Parts * (E(g) + n) <= Parts * R(g)
    <3> DEFINE k == E(g) + n
    <3>1. k \in Nat /\ k <= R(g) /\ Parts \in Nat
      BY <2>3, <1>8, ScaleAssumption
    <3> HIDE DEF k
    <3>2. Parts * k <= Parts * R(g)
      BY <3>1, <2>3, SMT
    <3> QED
      BY <3>2 DEF k
  <2>5. Parts * R(g) \in Nat /\ Parts * (E(g) + n) \in Nat
    BY <2>3, ScaleAssumption, ProductNat
  <2>6. Parts * (E(g) + n) <= m
    BY <2>1, <2>2, <2>4, <2>5
  <2> QED
    BY <2>6 DEF m
<1>10. /\ Sum(both, core) = Side(g, TRUE, s, n)
       /\ Sum(both, Tickers \ core) = Side(g, FALSE, s, n)
  <2>1. ASSUME NEW side \in BOOLEAN, NEW T \in SUBSET Tickers,
               T = {t \in Tickers : (Role(g, t) = "CORE") = side}
        PROVE  Sum(both, T) = Side(g, side, s, n)
    <3> DEFINE on == OnSide(g, side)
               f == [t \in on |-> Holding(g, t) + Open(g, t) + IF t = s THEN n ELSE 0]
    <3>1. on \in SUBSET T /\ IsFiniteSet(T) /\ IsFiniteSet(on)
      BY <1>1, <2>1, Finite, FS_Subset DEF OnSide
    <3>2. \A t \in T \ on : t \notin Exposed(g)
      BY <2>1 DEF OnSide
    <3>3. \A t \in T : both[t] = b[t] + IF t = s THEN n ELSE 0
      BY <1>2, <1>3
    <3>4. \A t \in on : f[t] = both[t]
      BY <3>1, <1>2, <2>1 DEF was
    <3>5. Side(g, side, s, n) = Sum(f, on)
      BY SumOfFunction DEF Side
    <3> HIDE DEF on, f, both
    <3>6. \A t \in T : both[t] \in Int
      BY <3>3, <1>3
    <3>7. \A t \in T \ on : both[t] = 0
      BY <3>2, <3>3, <1>1, <1>3
    <3>8. Sum(both, T) = Sum(both, on)
      BY <3>1, <3>6, <3>7, SumSupport
    <3>9. Sum(both, on) = Sum(f, on)
      <4>1. \A t \in on : both[t] \in Int /\ both[t] = f[t]
        BY <3>1, <3>4, <3>6
      <4> QED
        BY <4>1, <3>1, SumSame
    <3> QED
      BY <3>5, <3>8, <3>9
  <2>2. core = {t \in Tickers : (Role(g, t) = "CORE") = TRUE}
        /\ Tickers \ core = {t \in Tickers : (Role(g, t) = "CORE") = FALSE}
    OBVIOUS
  <2> HIDE DEF both, core
  <2>3. core \in SUBSET Tickers /\ Tickers \ core \in SUBSET Tickers
    BY DEF core
  <2> QED
    BY <2>1, <2>2, <2>3
<1>11. /\ Sum(both, core) = SumFunctionOnSet(both, core)
       /\ Sum(both, Tickers \ core) = SumFunctionOnSet(both, Tickers \ core)
  BY DEF Sum
<1>12. WithinCaps(o) <=>
         /\ o.legs # <<>>
         /\ SumFunction(open) <= X(g)
         /\ Parts * SumFunction(open) <= Fractions[g.fraction] * SumFunction(owned)
         /\ SumFunctionOnSet(both, Tickers \ core) <= SumFunctionOnSet(both, core)
  BY DEF WithinCaps, X, Role
<1> HIDE DEF open, owned, both, core
<1> QED
  BY <1>5, <1>6, <1>7, <1>8, <1>9, <1>10, <1>11, <1>12

\* What a result promises, of a generation that stood together.
LEMMA OutcomeSound ==
  ASSUME NEW g, AllRead(g), NEW o, o = Outcome(g, CompleteProposal(g))
  PROVE  /\ o.terminal = "ERROR" => o.reason = "LIMIT_PRICE_INVALID"
         /\ o.terminal = "CANDIDATE_VALID" => o.gen = g /\ WithinCaps(o)
<1> DEFINE p == CompleteProposal(g)
           c == Compiled(g, p)
           zero == 0 \in Prices(Mark(g, p.ticker), Strategies[g.strategy].ladder[p.ticker])
           moved == ~SameGeneration(g) \/ ~Fresh(g)
           end(terminal, reason, legs) ==
             [terminal |-> terminal, reason |-> reason, ticker |-> p.ticker, legs |-> legs, gen |-> g]
<1>1. /\ ProposalValid(p) /\ p.terminal \in {"NO_TRADE", "HOLD", "POSITIVE"}
      /\ p.terminal = "POSITIVE" => Proposable(g, p)
  BY Proposed
<1>2. o = IF ~ProposalValid(p) THEN end("ERROR", "PROPOSAL_CONTRACT", <<>>)
          ELSE IF p.terminal # "POSITIVE" THEN end(p.terminal, p.reason, <<>>)
          ELSE IF zero THEN end("ERROR", "LIMIT_PRICE_INVALID", <<>>)
          ELSE IF ~CompiledValid(g, p, c) THEN end("ERROR", "COMPILER_CONTRACT", <<>>)
          ELSE IF moved THEN end("NO_TRADE", "INPUT_GENERATION_MISMATCH", <<>>)
          ELSE IF ~Verified(g, p, c) THEN end("ERROR", "FINAL_SAFETY_CONTRACT", <<>>)
          ELSE IF c.legs = <<>> THEN end("HOLD", "NO_WHOLE_SHARE_FEASIBILITY", <<>>)
          ELSE end("CANDIDATE_VALID", "CANDIDATE_VALID", c.legs)
  BY DEF Outcome
<1> DEFINE n == c.notional
<1>3. ASSUME p.terminal = "POSITIVE", ~zero
      PROVE  /\ CompiledValid(g, p, c) /\ Verified(g, p, c) /\ Proposable(g, p)
             /\ n = Notional(c.legs) /\ n \in Nat /\ n <= p.target
  BY <1>1, <1>3, CompilerAgrees
<1> HIDE DEF p, c, zero, moved, n
<1>4. CASE p.terminal # "POSITIVE"
  BY <1>1, <1>2, <1>4
<1>5. CASE p.terminal = "POSITIVE" /\ zero
  BY <1>1, <1>2, <1>5
<1>6. CASE p.terminal = "POSITIVE" /\ ~zero
  <2>1. CASE moved
    BY <1>1, <1>2, <1>3, <1>6, <2>1
  <2>2. CASE ~moved /\ c.legs = <<>>
    BY <1>1, <1>2, <1>3, <1>6, <2>2
  <2>3. CASE ~moved /\ c.legs # <<>>
    <3>1. o = end("CANDIDATE_VALID", "CANDIDATE_VALID", c.legs)
      BY <1>1, <1>2, <1>3, <1>6, <2>3
    <3>2. o.terminal = "CANDIDATE_VALID" /\ o.gen = g /\ o.ticker = p.ticker /\ o.legs = c.legs
      BY <3>1
    <3>3. WithinCaps(o)
      BY <3>2, <1>3, <1>6, <2>3, CompiledWithinCaps
    <3> QED
      BY <3>2, <3>3
  <2> QED
    BY <2>1, <2>2, <2>3
<1> QED
  BY <1>4, <1>5, <1>6

\* An owner's refusal.
LEMMA RefusalSound ==
  ASSUME NEW reason
  PROVE  Outcome(Empty, NoProposal("NO_TRADE", reason)).terminal = "NO_TRADE"
<1> DEFINE p == NoProposal("NO_TRADE", reason)
<1>1. /\ p.terminal = "NO_TRADE" /\ p.reason = reason /\ p.cap = None /\ p.rows = <<>>
      /\ p.ticker = None /\ p.target = None
  BY DEF NoProposal, Unproposed
<1>2. {t \in DOMAIN p.rows : p.rows[t] = "INCREMENT_ELIGIBLE"} = {}
  BY <1>1
<1> HIDE DEF p
<1>3. ProposalValid(p)
  BY <1>1, <1>2 DEF ProposalValid
<1>4. Outcome(Empty, p) = [terminal |-> p.terminal, reason |-> p.reason, ticker |-> p.ticker,
                           legs |-> <<>>, gen |-> Empty]
  BY <1>1, <1>3 DEF Outcome
<1> QED
  BY <1>1, <1>4 DEF p

-----------------------------------------------------------------------------
(* The invariant: what a command has read when it is at a step.            *)

Fetches == [portfolio : DOMAIN Portfolios, session : Sessions \cup {None}]
Gens ==
  [h1 : (SUBSET Base) \cup {None}, strategy : DOMAIN Strategies \cup {None},
   portfolio : DOMAIN Portfolios \cup {None}, budget : DOMAIN Portfolios \cup {None},
   ceiling : DOMAIN Ceilings \cup {None}, policy : DOMAIN Strategies \cup {None},
   holdings : DOMAIN Portfolios \cup {None}, capture : Captures \cup {None},
   session : Sessions \cup {None}, fraction : DOMAIN Fractions \cup {None}]

TypeOK ==
  /\ at \in [DOMAIN Versions -> Nat] /\ \A f \in DOMAIN Versions : at[f] \in Versions[f]
  /\ session \in Sessions
  /\ capture \in Captures \cup {None} /\ fetch \in Fetches \cup {None}
  /\ cmd = [step |-> cmd.step, gen |-> cmd.gen, result |-> cmd.result]
  /\ cmd.gen \in Gens
  /\ at \in stood

\* The steps from which a part of the generation is there.
FromFraction == {"fraction"}
FromMarks == {"marks"} \cup FromFraction
FromHoldings == {"exposure portfolio"} \cup FromMarks
FromExposure == {"exposure strategy"} \cup FromHoldings
FromCeiling == {"ceiling"} \cup FromExposure
FromBudget == {"budget"} \cup FromCeiling
FromPortfolio == {"portfolio"} \cup FromBudget
FromDigest == {"portfolio digest"} \cup FromPortfolio
FromStrategy == {"strategy"} \cup FromDigest

\* The versions at the time the ceiling was read.  Versions only grow, so they are
\* between those read before and those on disk; a later read of an old version
\* shows that it still stood.
CeilingStood(step, g) ==
  \E v \in stood :
    /\ v.ceiling = g.ceiling
    /\ v.strategy \in Nat /\ g.strategy <= v.strategy /\ v.strategy <= at.strategy
    /\ v.portfolio \in Nat /\ g.portfolio <= v.portfolio /\ v.portfolio <= at.portfolio
    /\ step \in FromHoldings => v.strategy = g.strategy
    /\ step \in FromMarks => v.portfolio = g.portfolio

ReadStrategy(step, g) == step \in FromStrategy =>
  g.strategy \in Nat \cap DOMAIN Strategies /\ g.strategy <= at.strategy
ReadPortfolio(step, g) == step \in FromPortfolio =>
  g.portfolio \in Nat \cap DOMAIN Portfolios /\ g.portfolio <= at.portfolio
ReadRoles(step, g) == step \in FromBudget => BaseRoles(g)
ReadBudget(step, g) == step \in FromCeiling => g.budget = g.portfolio
ReadLimit(step, g) == step \in FromExposure =>
  g.ceiling \in DOMAIN Ceilings /\ CeilingStood(step, g)
ReadPolicy(step, g) == step \in FromHoldings => g.policy = g.strategy /\ g.session \in Sessions
ReadHoldings(step, g) == step \in FromMarks => g.holdings = g.portfolio
ReadCapture(step, g) == step \in FromFraction =>
  g.capture \in Captures /\ g.capture.portfolio = g.portfolio

GenAt(step, g) ==
  /\ ReadStrategy(step, g) /\ ReadPortfolio(step, g) /\ ReadRoles(step, g) /\ ReadBudget(step, g)
  /\ ReadLimit(step, g) /\ ReadPolicy(step, g) /\ ReadHoldings(step, g) /\ ReadCapture(step, g)

\* What a result promises, published or about to be.
Promised(o) ==
  /\ o.terminal = "ERROR" => o.reason = "LIMIT_PRICE_INVALID"
  /\ o.terminal = "CANDIDATE_VALID" => WithinCaps(o) /\ StoodTogether(o)

ResultOK ==
  /\ cmd.step = "publish" \/ cmd.result # None => Promised(cmd.result)
  /\ \A o \in published : Promised(o)

Inv == TypeOK /\ GenAt(cmd.step, cmd.gen) /\ ResultOK

THEOREM ReviewInitial == Init => Inv
<1> SUFFICES ASSUME Init PROVE Inv
  OBVIOUS
<1>1. cmd = [step |-> "idle", gen |-> Empty, result |-> None] /\ published = {}
  BY DEF Init, Idle
<1>2. Empty \in Gens
  BY DEF Empty, Gens
<1>3. TypeOK
  BY <1>1, <1>2 DEF Init, TypeOK
<1>4. GenAt(cmd.step, cmd.gen)
  BY <1>1 DEF GenAt, ReadStrategy, ReadPortfolio, ReadRoles, ReadBudget, ReadLimit, ReadPolicy,
    ReadHoldings, ReadCapture, FromStrategy, FromDigest, FromPortfolio, FromBudget, FromCeiling,
    FromExposure, FromHoldings, FromMarks, FromFraction
<1>5. ResultOK
  BY <1>1 DEF ResultOK
<1> QED
  BY <1>3, <1>4, <1>5 DEF Inv

LEMMA AtTyped ==
  ASSUME TypeOK
  PROVE  /\ at.strategy \in Nat \cap DOMAIN Strategies /\ at.portfolio \in Nat \cap DOMAIN Portfolios
         /\ at.ceiling \in DOMAIN Ceilings /\ at.fraction \in DOMAIN Fractions
BY DEF TypeOK, Versions

\* The files and the times that stood only grow.
LEMMA FilesGrow ==
  ASSUME Inv, UNCHANGED <<cmd, published>>, stood \subseteq stood', TypeOK',
         at'.strategy >= at.strategy, at'.portfolio >= at.portfolio
  PROVE  Inv'
<1>1. GenAt(cmd.step, cmd.gen)'
  <2>1. at.strategy \in Nat /\ at.portfolio \in Nat
    BY AtTyped DEF Inv
  <2>2. at'.strategy \in Nat /\ at'.portfolio \in Nat
    <3>1. TypeOK' => at'.strategy \in Nat /\ at'.portfolio \in Nat
      BY DEF TypeOK, Versions
    <3> QED
      BY <3>1
  <2>3. ReadStrategy(cmd.step, cmd.gen)' /\ ReadPortfolio(cmd.step, cmd.gen)'
    BY <2>1, <2>2 DEF Inv, GenAt, ReadStrategy, ReadPortfolio
  <2>4. ReadLimit(cmd.step, cmd.gen)'
    <3>1. CeilingStood(cmd.step, cmd.gen) => CeilingStood(cmd.step, cmd.gen)'
      BY <2>1, <2>2 DEF CeilingStood
    <3> QED
      BY <3>1 DEF Inv, GenAt, ReadLimit
  <2>5. /\ ReadRoles(cmd.step, cmd.gen)' /\ ReadBudget(cmd.step, cmd.gen)'
        /\ ReadPolicy(cmd.step, cmd.gen)' /\ ReadHoldings(cmd.step, cmd.gen)'
        /\ ReadCapture(cmd.step, cmd.gen)'
    BY DEF Inv, GenAt, ReadRoles, ReadBudget, ReadPolicy, ReadHoldings, ReadCapture, BaseRoles, Role
  <2> QED
    BY <2>3, <2>4, <2>5 DEF GenAt
<1>2. ASSUME NEW o, Promised(o)
      PROVE  Promised(o)'
  <2>1. WithinCaps(o) => WithinCaps(o)'
    OBVIOUS
  <2>2. StoodTogether(o) => StoodTogether(o)'
    BY DEF StoodTogether
  <2> QED
    BY <1>2, <2>1, <2>2 DEF Promised
<1>3. ResultOK'
  BY <1>2 DEF Inv, ResultOK
<1> QED
  BY <1>1, <1>3 DEF Inv

-----------------------------------------------------------------------------
(* The steps around the command.                                           *)

LEMMA EditKeeps ==
  ASSUME Inv, NEW f \in DOMAIN Versions, Edit(f)
  PROVE  Inv'
<1>1. at \in [DOMAIN Versions -> Nat] /\ \A k \in DOMAIN Versions : at[k] \in Versions[k]
  BY DEF Inv, TypeOK
<1>2. /\ at' = [at EXCEPT ![f] = @ + 1] /\ at[f] + 1 \in Versions[f] /\ stood' = stood \cup {at'}
      /\ UNCHANGED <<session, capture, fetch, cmd, published>>
  BY DEF Edit
<1>3. /\ at' \in [DOMAIN Versions -> Nat] /\ \A k \in DOMAIN Versions : at'[k] \in Versions[k]
      /\ \A k \in DOMAIN Versions : at'[k] >= at[k]
  BY <1>1, <1>2
<1>4. TypeOK'
  BY <1>2, <1>3 DEF Inv, TypeOK
<1>5. at'.strategy >= at.strategy /\ at'.portfolio >= at.portfolio
  BY <1>3 DEF Versions
<1> QED
  BY <1>2, <1>4, <1>5, FilesGrow

LEMMA OthersKeep ==
  ASSUME Inv, CloseSession \/ BeginCapture \/ ResolveSession \/ WriteCapture \/ FailCapture
  PROVE  Inv'
<1>1. UNCHANGED <<at, cmd, published, stood>>
  BY DEF CloseSession, BeginCapture, ResolveSession, WriteCapture, FailCapture
<1>2. /\ session \in Sessions /\ capture \in Captures \cup {None} /\ fetch \in Fetches \cup {None}
      /\ at.portfolio \in DOMAIN Portfolios
  BY AtTyped DEF Inv, TypeOK
<1>3. session' \in Sessions /\ capture' \in Captures \cup {None} /\ fetch' \in Fetches \cup {None}
  <2>1. CASE CloseSession
    BY <2>1, <1>2 DEF CloseSession
  <2>2. CASE BeginCapture
    BY <2>2, <1>2 DEF BeginCapture, Fetches
  <2>3. CASE ResolveSession
    BY <2>3, <1>2 DEF ResolveSession, Fetches
  <2>4. CASE WriteCapture
    BY <2>4, <1>2 DEF WriteCapture, Fetches, Captures
  <2>5. CASE FailCapture
    BY <2>5, <1>2 DEF FailCapture
  <2> QED
    BY <2>1, <2>2, <2>3, <2>4, <2>5
<1>4. TypeOK'
  BY <1>1, <1>3 DEF Inv, TypeOK
<1>5. at'.strategy >= at.strategy /\ at'.portfolio >= at.portfolio
  <2>1. at.strategy \in Nat /\ at.portfolio \in Nat
    BY AtTyped DEF Inv
  <2> QED
    BY <1>1, <2>1
<1> QED
  BY <1>1, <1>4, <1>5, FilesGrow

-----------------------------------------------------------------------------
(* The steps of the command.                                               *)

LEMMA ReadKeeps ==
  ASSUME Inv, NEW step, NEW g \in Gens, Read(step, g), step # "publish", GenAt(step, g)
  PROVE  Inv'
<1>1. /\ cmd' = [step |-> step, gen |-> g, result |-> None]
      /\ UNCHANGED <<at, session, capture, fetch, published, stood>>
  BY DEF Read
<1>2. cmd'.step = step /\ cmd'.gen = g /\ cmd'.result = None
  BY <1>1
<1>3. TypeOK'
  BY <1>1, <1>2 DEF Inv, TypeOK
<1>4. GenAt(cmd.step, cmd.gen)'
  BY <1>1, <1>2 DEF GenAt, ReadStrategy, ReadPortfolio, ReadRoles, ReadBudget, ReadLimit, ReadPolicy,
    ReadHoldings, ReadCapture, CeilingStood, BaseRoles, Role
<1>5. ResultOK'
  BY <1>1, <1>2 DEF Inv, ResultOK, Promised, StoodTogether, WithinCaps
<1> QED
  BY <1>3, <1>4, <1>5 DEF Inv

\* A step the command reads nothing for is none of those above.
LEMMA ConcludeKeeps ==
  ASSUME Inv, NEW g, NEW p, Conclude(g, p), Promised(Outcome(g, p))
  PROVE  Inv'
<1> DEFINE o == Outcome(g, p)
<1>1. /\ cmd' = [step |-> "publish", gen |-> Empty, result |-> o]
      /\ UNCHANGED <<at, session, capture, fetch, published, stood>>
  BY DEF Conclude
<1>2. Promised(o)
  OBVIOUS
<1> HIDE DEF o
<1>3. cmd'.step = "publish" /\ cmd'.gen = Empty /\ cmd'.result = o
  BY <1>1
<1>4. Empty \in Gens
  BY DEF Empty, Gens
<1>5. TypeOK'
  BY <1>1, <1>3, <1>4 DEF Inv, TypeOK
<1>6. GenAt(cmd.step, cmd.gen)'
  BY <1>3 DEF GenAt, ReadStrategy, ReadPortfolio, ReadRoles, ReadBudget, ReadLimit, ReadPolicy,
    ReadHoldings, ReadCapture, FromStrategy, FromDigest, FromPortfolio, FromBudget, FromCeiling,
    FromExposure, FromHoldings, FromMarks, FromFraction
<1>7. ResultOK'
  <2>1. ASSUME NEW r, Promised(r)
        PROVE  Promised(r)'
    BY <1>1, <2>1 DEF Promised, StoodTogether, WithinCaps
  <2> QED
    BY <1>1, <1>2, <1>3, <2>1 DEF Inv, ResultOK
<1> QED
  BY <1>5, <1>6, <1>7 DEF Inv

LEMMA GiveUpKeeps ==
  ASSUME Inv, NEW reason, GiveUp(reason)
  PROVE  Inv'
<1>1. Promised(Outcome(Empty, NoProposal("NO_TRADE", reason)))
  BY RefusalSound DEF Promised
<1> QED
  BY <1>1, ConcludeKeeps DEF GiveUp

LEMMA StopKeeps ==
  ASSUME Inv, Stop
  PROVE  Inv'
<1>1. /\ cmd' = [step |-> "idle", gen |-> Empty, result |-> None]
      /\ UNCHANGED <<at, session, capture, fetch, published, stood>>
  BY DEF Stop, Idle
<1>2. Read("idle", Empty)
  BY <1>1 DEF Read
<1>3. Empty \in Gens
  BY DEF Empty, Gens
<1>4. GenAt("idle", Empty)
  BY DEF GenAt, ReadStrategy, ReadPortfolio, ReadRoles, ReadBudget, ReadLimit, ReadPolicy,
    ReadHoldings, ReadCapture, FromStrategy, FromDigest, FromPortfolio, FromBudget, FromCeiling,
    FromExposure, FromHoldings, FromMarks, FromFraction
<1> QED
  BY <1>2, <1>3, <1>4, ReadKeeps

LEMMA PublishKeeps ==
  ASSUME Inv, NEW terminals, PublishAs(terminals)
  PROVE  Inv'
<1>1. /\ cmd.step = "publish" /\ published' = published \cup {cmd.result}
      /\ cmd' = [step |-> "idle", gen |-> Empty, result |-> None]
      /\ UNCHANGED <<at, session, capture, fetch, stood>>
  BY DEF PublishAs, Idle
<1>2. \A o \in published' : Promised(o)
  BY <1>1 DEF Inv, ResultOK
<1>3. Empty \in Gens
  BY DEF Empty, Gens
<1>4. cmd'.step = "idle" /\ cmd'.gen = Empty /\ cmd'.result = None
  BY <1>1
<1>5. TypeOK'
  BY <1>1, <1>3, <1>4 DEF Inv, TypeOK
<1>6. GenAt(cmd.step, cmd.gen)'
  BY <1>4 DEF GenAt, ReadStrategy, ReadPortfolio, ReadRoles, ReadBudget, ReadLimit, ReadPolicy,
    ReadHoldings, ReadCapture, FromStrategy, FromDigest, FromPortfolio, FromBudget, FromCeiling,
    FromExposure, FromHoldings, FromMarks, FromFraction
<1>7. ResultOK'
  <2>1. ASSUME NEW r, Promised(r)
        PROVE  Promised(r)'
    BY <1>1, <2>1 DEF Promised, StoodTogether, WithinCaps
  <2> QED
    BY <1>2, <1>4, <2>1 DEF ResultOK
<1> QED
  BY <1>5, <1>6, <1>7 DEF Inv

\* What is known at a step was known before, apart from what the step reads.
LEMMA Steps ==
  /\ FromFraction = {"fraction"}
  /\ FromMarks = {"marks", "fraction"}
  /\ FromHoldings = {"exposure portfolio", "marks", "fraction"}
  /\ FromExposure = {"exposure strategy", "exposure portfolio", "marks", "fraction"}
  /\ FromCeiling = {"ceiling"} \cup FromExposure
  /\ FromBudget = {"budget", "ceiling"} \cup FromExposure
  /\ FromPortfolio = {"portfolio", "budget", "ceiling"} \cup FromExposure
  /\ FromDigest = {"portfolio digest", "portfolio", "budget", "ceiling"} \cup FromExposure
  /\ FromStrategy = {"strategy", "portfolio digest", "portfolio", "budget", "ceiling"} \cup FromExposure
BY DEF FromStrategy, FromDigest, FromPortfolio, FromBudget, FromCeiling,
    FromExposure, FromHoldings, FromMarks, FromFraction

LEMMA ReadContextKeeps == ASSUME Inv, ReadContext PROVE Inv'
<1>1. PICK h1 \in {None} \cup SUBSET Base : Read("strategy digest", [Empty EXCEPT !.h1 = h1])
  BY DEF ReadContext
<1>2. [Empty EXCEPT !.h1 = h1] \in Gens
  BY DEF Empty, Gens
<1>3. GenAt("strategy digest", [Empty EXCEPT !.h1 = h1])
  BY Steps DEF GenAt, ReadStrategy, ReadPortfolio, ReadRoles, ReadBudget, ReadLimit, ReadPolicy,
    ReadHoldings, ReadCapture
<1> QED
  BY <1>1, <1>2, <1>3, ReadKeeps

LEMMA DigestStrategyKeeps == ASSUME Inv, DigestStrategy PROVE Inv'
<1> DEFINE g == [cmd.gen EXCEPT !.strategy = at.strategy]
<1>1. Read("strategy", g)
  BY DEF DigestStrategy
<1>2. g \in Gens /\ g.strategy = at.strategy /\ at.strategy \in Nat \cap DOMAIN Strategies
  BY AtTyped DEF Inv, TypeOK, Gens
<1> HIDE DEF g
<1>3. at.strategy <= at.strategy
  BY <1>2
<1>4. ReadStrategy("strategy", g)
  BY <1>2, <1>3 DEF ReadStrategy
<1>5. GenAt("strategy", g)
  BY <1>4, Steps DEF GenAt, ReadPortfolio, ReadRoles, ReadBudget, ReadLimit, ReadPolicy,
    ReadHoldings, ReadCapture
<1> QED
  BY <1>1, <1>2, <1>5, ReadKeeps

LEMMA PinStrategyKeeps == ASSUME Inv, PinStrategy PROVE Inv'
<1>1. CASE Read("portfolio digest", cmd.gen)
  <2>1. GenAt("portfolio digest", cmd.gen)
    BY Steps DEF Inv, PinStrategy, GenAt, ReadStrategy, ReadPortfolio, ReadRoles, ReadBudget, ReadLimit, ReadPolicy,
    ReadHoldings, ReadCapture
  <2> QED
    BY <1>1, <2>1, ReadKeeps DEF Inv, TypeOK
<1> QED
  BY <1>1, GiveUpKeeps DEF PinStrategy

LEMMA DigestPortfolioKeeps == ASSUME Inv, DigestPortfolio PROVE Inv'
<1> DEFINE g == [cmd.gen EXCEPT !.portfolio = at.portfolio]
<1>1. Read("portfolio", g) /\ cmd.step = "portfolio digest"
  BY DEF DigestPortfolio
<1>2. /\ g \in Gens /\ g.portfolio = at.portfolio /\ at.portfolio \in Nat \cap DOMAIN Portfolios
      /\ g.strategy = cmd.gen.strategy
  BY AtTyped DEF Inv, TypeOK, Gens
<1>3. ReadStrategy("portfolio digest", cmd.gen)
  BY <1>1 DEF Inv, GenAt
<1> HIDE DEF g
<1>4. at.portfolio <= at.portfolio
  BY <1>2
<1>5. ReadStrategy("portfolio", g) /\ ReadPortfolio("portfolio", g)
  BY <1>2, <1>3, <1>4, Steps DEF ReadStrategy, ReadPortfolio
<1>6. GenAt("portfolio", g)
  BY <1>5, Steps DEF GenAt, ReadRoles, ReadBudget, ReadLimit, ReadPolicy,
    ReadHoldings, ReadCapture
<1> QED
  BY <1>1, <1>2, <1>6, ReadKeeps

LEMMA PinPortfolioKeeps == ASSUME Inv, PinPortfolio PROVE Inv'
<1>1. ASSUME Read("budget", cmd.gen), BaseRoles(cmd.gen)
      PROVE  Inv'
  <2>1. GenAt("budget", cmd.gen)
    BY <1>1, Steps DEF Inv, PinPortfolio, GenAt, ReadStrategy, ReadPortfolio, ReadRoles, ReadBudget, ReadLimit, ReadPolicy,
    ReadHoldings, ReadCapture
  <2> QED
    BY <1>1, <2>1, ReadKeeps DEF Inv, TypeOK
<1> QED
  BY <1>1, GiveUpKeeps DEF PinPortfolio, BaseRoles

LEMMA BudgetOwnerKeeps == ASSUME Inv, BudgetOwner PROVE Inv'
<1> DEFINE g == [cmd.gen EXCEPT !.budget = at.portfolio]
<1>1. ASSUME Read("ceiling", g), at.portfolio = cmd.gen.portfolio
      PROVE  Inv'
  <2>1. /\ g \in Gens /\ g.budget = at.portfolio
        /\ g.strategy = cmd.gen.strategy /\ g.portfolio = cmd.gen.portfolio
    BY AtTyped DEF Inv, TypeOK, Gens
  <2>2. /\ ReadStrategy("budget", cmd.gen) /\ ReadPortfolio("budget", cmd.gen)
        /\ ReadRoles("budget", cmd.gen)
    BY DEF Inv, GenAt, BudgetOwner
  <2> HIDE DEF g
  <2>3. GenAt("ceiling", g)
    BY <1>1, <2>1, <2>2, Steps DEF GenAt, ReadStrategy, ReadPortfolio, ReadRoles, ReadBudget, ReadLimit, ReadPolicy,
    ReadHoldings, ReadCapture, BaseRoles, Role
  <2> QED
    BY <1>1, <2>1, <2>3, ReadKeeps
<1> QED
  BY <1>1, GiveUpKeeps DEF BudgetOwner

\* The versions on disk when the ceiling is read stand together.
LEMMA ReadCeilingKeeps == ASSUME Inv, ReadCeiling PROVE Inv'
<1> DEFINE g == [cmd.gen EXCEPT !.ceiling = at.ceiling]
<1>1. Read("exposure strategy", g) /\ cmd.step = "ceiling"
  BY DEF ReadCeiling
<1>2. /\ g \in Gens /\ g.ceiling = at.ceiling /\ at.ceiling \in DOMAIN Ceilings
      /\ g.strategy = cmd.gen.strategy /\ g.portfolio = cmd.gen.portfolio
      /\ g.budget = cmd.gen.budget
      /\ at.strategy \in Nat /\ at.portfolio \in Nat /\ at \in stood
  BY AtTyped DEF Inv, TypeOK, Gens
<1>3. /\ ReadStrategy("ceiling", cmd.gen) /\ ReadPortfolio("ceiling", cmd.gen)
      /\ ReadRoles("ceiling", cmd.gen) /\ ReadBudget("ceiling", cmd.gen)
  BY <1>1 DEF Inv, GenAt
<1> HIDE DEF g
<1>4. CeilingStood("exposure strategy", g)
  <2>1. g.strategy <= at.strategy /\ g.portfolio <= at.portfolio
    BY <1>2, <1>3, Steps DEF ReadStrategy, ReadPortfolio
  <2>2. at.strategy <= at.strategy /\ at.portfolio <= at.portfolio
    BY <1>2
  <2>3. "exposure strategy" \notin FromHoldings /\ "exposure strategy" \notin FromMarks
    BY Steps
  <2> QED
    BY <1>2, <2>1, <2>2, <2>3 DEF CeilingStood
<1>5. GenAt("exposure strategy", g)
  BY <1>2, <1>3, <1>4, Steps DEF GenAt, ReadStrategy, ReadPortfolio, ReadRoles, ReadBudget, ReadLimit, ReadPolicy,
    ReadHoldings, ReadCapture, BaseRoles, Role
<1> QED
  BY <1>1, <1>2, <1>5, ReadKeeps

\* The strategy still is the version read before: it was at the time of the ceiling.
LEMMA ExposureStrategyKeeps == ASSUME Inv, ExposureStrategy PROVE Inv'
<1> DEFINE g == [cmd.gen EXCEPT !.policy = at.strategy, !.session = session]
<1>1. ASSUME Read("exposure portfolio", g), at.strategy = cmd.gen.strategy
      PROVE  Inv'
  <2>1. /\ g \in Gens /\ g.policy = at.strategy /\ g.session = session /\ session \in Sessions
        /\ g.strategy = cmd.gen.strategy /\ g.portfolio = cmd.gen.portfolio
        /\ g.budget = cmd.gen.budget /\ g.ceiling = cmd.gen.ceiling
    <3>1. TypeOK
      BY DEF Inv
    <3>2. cmd.gen \in Gens /\ session \in Sessions
      BY <3>1 DEF TypeOK
    <3>3. at.strategy \in DOMAIN Strategies
      BY <3>1, AtTyped
    <3>4. g \in Gens
      BY <3>2, <3>3 DEF Gens
    <3>5. /\ g.policy = at.strategy /\ g.session = session
          /\ g.strategy = cmd.gen.strategy /\ g.portfolio = cmd.gen.portfolio
          /\ g.budget = cmd.gen.budget /\ g.ceiling = cmd.gen.ceiling
      BY <3>2 DEF Gens
    <3> QED
      BY <3>2, <3>4, <3>5
  <2>2. /\ ReadStrategy("exposure strategy", cmd.gen) /\ ReadPortfolio("exposure strategy", cmd.gen)
        /\ ReadRoles("exposure strategy", cmd.gen) /\ ReadBudget("exposure strategy", cmd.gen)
        /\ ReadLimit("exposure strategy", cmd.gen)
    BY DEF Inv, GenAt, ExposureStrategy
  <2> HIDE DEF g
  <2>3. CeilingStood("exposure portfolio", g)
    <3>1. "exposure strategy" \in FromExposure /\ "exposure strategy" \in FromStrategy
          /\ "exposure portfolio" \notin FromMarks
      BY Steps
    <3>2. PICK v \in stood :
            /\ v.ceiling = cmd.gen.ceiling
            /\ v.strategy \in Nat /\ cmd.gen.strategy <= v.strategy /\ v.strategy <= at.strategy
            /\ v.portfolio \in Nat /\ cmd.gen.portfolio <= v.portfolio /\ v.portfolio <= at.portfolio
      BY <2>2, <3>1 DEF ReadLimit, CeilingStood
    <3>3. cmd.gen.strategy \in Nat /\ at.strategy = cmd.gen.strategy
      BY <1>1, <2>2, <3>1 DEF ReadStrategy
    <3>4. v.strategy = g.strategy
      BY <2>1, <3>2, <3>3
    <3> QED
      BY <2>1, <3>1, <3>2, <3>4 DEF CeilingStood
  <2>4. GenAt("exposure portfolio", g)
    BY <1>1, <2>1, <2>2, <2>3, Steps DEF GenAt, ReadStrategy, ReadPortfolio, ReadRoles, ReadBudget, ReadLimit, ReadPolicy,
    ReadHoldings, ReadCapture, BaseRoles, Role
  <2> QED
    BY <1>1, <2>1, <2>4, ReadKeeps
<1> QED
  BY <1>1, GiveUpKeeps DEF ExposureStrategy

LEMMA ExposurePortfolioKeeps == ASSUME Inv, ExposurePortfolio PROVE Inv'
<1> DEFINE g == [cmd.gen EXCEPT !.holdings = at.portfolio]
<1>1. ASSUME Read("marks", g), at.portfolio = cmd.gen.portfolio
      PROVE  Inv'
  <2>1. /\ g \in Gens /\ g.holdings = at.portfolio
        /\ g.strategy = cmd.gen.strategy /\ g.portfolio = cmd.gen.portfolio
        /\ g.budget = cmd.gen.budget /\ g.ceiling = cmd.gen.ceiling
        /\ g.policy = cmd.gen.policy /\ g.session = cmd.gen.session
    BY AtTyped DEF Inv, TypeOK, Gens
  <2>2. /\ ReadStrategy("exposure portfolio", cmd.gen) /\ ReadPortfolio("exposure portfolio", cmd.gen)
        /\ ReadRoles("exposure portfolio", cmd.gen) /\ ReadBudget("exposure portfolio", cmd.gen)
        /\ ReadLimit("exposure portfolio", cmd.gen) /\ ReadPolicy("exposure portfolio", cmd.gen)
    BY DEF Inv, GenAt, ExposurePortfolio
  <2> HIDE DEF g
  <2>3. CeilingStood("marks", g)
    <3>1. "exposure portfolio" \in FromExposure /\ "exposure portfolio" \in FromPortfolio
          /\ "exposure portfolio" \in FromHoldings
      BY Steps
    <3>2. PICK v \in stood :
            /\ v.ceiling = cmd.gen.ceiling /\ v.strategy = cmd.gen.strategy
            /\ v.strategy \in Nat /\ cmd.gen.strategy <= v.strategy /\ v.strategy <= at.strategy
            /\ v.portfolio \in Nat /\ cmd.gen.portfolio <= v.portfolio /\ v.portfolio <= at.portfolio
      BY <2>2, <3>1 DEF ReadLimit, CeilingStood
    <3>3. cmd.gen.portfolio \in Nat /\ at.portfolio = cmd.gen.portfolio
      BY <1>1, <2>2, <3>1 DEF ReadPortfolio
    <3>4. v.portfolio = g.portfolio
      BY <2>1, <3>2, <3>3
    <3> QED
      BY <2>1, <3>2, <3>4 DEF CeilingStood
  <2>4. GenAt("marks", g)
    BY <1>1, <2>1, <2>2, <2>3, Steps DEF GenAt, ReadStrategy, ReadPortfolio, ReadRoles, ReadBudget, ReadLimit, ReadPolicy,
    ReadHoldings, ReadCapture, BaseRoles, Role
  <2> QED
    BY <1>1, <2>1, <2>4, ReadKeeps
<1> QED
  BY <1>1, GiveUpKeeps DEF ExposurePortfolio

LEMMA ReadMarksKeeps == ASSUME Inv, ReadMarks PROVE Inv'
<1> DEFINE g == [cmd.gen EXCEPT !.capture = capture]
<1>1. ASSUME Read("fraction", g), capture # None, capture.portfolio = g.holdings
      PROVE  Inv'
  <2>1. /\ g \in Gens /\ g.capture = capture /\ capture \in Captures
        /\ g.strategy = cmd.gen.strategy /\ g.portfolio = cmd.gen.portfolio
        /\ g.budget = cmd.gen.budget /\ g.ceiling = cmd.gen.ceiling
        /\ g.policy = cmd.gen.policy /\ g.session = cmd.gen.session
        /\ g.holdings = cmd.gen.holdings
    BY <1>1 DEF Inv, TypeOK, Gens
  <2>2. /\ ReadStrategy("marks", cmd.gen) /\ ReadPortfolio("marks", cmd.gen)
        /\ ReadRoles("marks", cmd.gen) /\ ReadBudget("marks", cmd.gen)
        /\ ReadLimit("marks", cmd.gen) /\ ReadPolicy("marks", cmd.gen)
        /\ ReadHoldings("marks", cmd.gen)
    BY DEF Inv, GenAt, ReadMarks
  <2> HIDE DEF g
  <2>3. CeilingStood("fraction", g)
    BY <2>1, <2>2, Steps DEF CeilingStood, ReadLimit
  <2>4. GenAt("fraction", g)
    BY <1>1, <2>1, <2>2, <2>3, Steps DEF GenAt, ReadStrategy, ReadPortfolio, ReadRoles, ReadBudget, ReadLimit, ReadPolicy,
    ReadHoldings, ReadCapture, BaseRoles, Role
  <2> QED
    BY <1>1, <2>1, <2>4, ReadKeeps
<1> QED
  BY <1>1, GiveUpKeeps DEF ReadMarks

\* The generation is whole, and stood together when the ceiling was read.
LEMMA IncrementOwnerKeeps == ASSUME Inv, IncrementOwner PROVE Inv'
<1> DEFINE g == [cmd.gen EXCEPT !.fraction = at.fraction]
<1>1. ASSUME Conclude(g, CompleteProposal(g))
      PROVE  Inv'
  <2>1. /\ g \in Gens /\ g.fraction = at.fraction /\ at.fraction \in DOMAIN Fractions
        /\ g.h1 = cmd.gen.h1 /\ cmd.gen.h1 \in (SUBSET Base) \cup {None}
        /\ g.strategy = cmd.gen.strategy /\ g.portfolio = cmd.gen.portfolio
        /\ g.budget = cmd.gen.budget /\ g.ceiling = cmd.gen.ceiling
        /\ g.policy = cmd.gen.policy /\ g.session = cmd.gen.session
        /\ g.holdings = cmd.gen.holdings /\ g.capture = cmd.gen.capture
    BY AtTyped DEF Inv, TypeOK, Gens
  <2>2. /\ ReadStrategy("fraction", cmd.gen) /\ ReadPortfolio("fraction", cmd.gen)
        /\ ReadRoles("fraction", cmd.gen) /\ ReadBudget("fraction", cmd.gen)
        /\ ReadLimit("fraction", cmd.gen) /\ ReadPolicy("fraction", cmd.gen)
        /\ ReadHoldings("fraction", cmd.gen) /\ ReadCapture("fraction", cmd.gen)
    BY DEF Inv, GenAt, IncrementOwner
  <2> HIDE DEF g
  <2>3. AllRead(g)
    BY <2>1, <2>2, Steps DEF AllRead, ReadStrategy, ReadPortfolio, ReadRoles, ReadBudget, ReadLimit, ReadPolicy,
    ReadHoldings, ReadCapture, BaseRoles, Role
  <2>4. \E v \in stood : v.strategy = g.strategy /\ v.portfolio = g.portfolio /\ v.ceiling = g.ceiling
    BY <2>1, <2>2, Steps DEF ReadLimit, CeilingStood
  <2>5. /\ g.policy = g.strategy /\ g.budget = g.portfolio /\ g.holdings = g.portfolio
        /\ g.capture.portfolio = g.portfolio
    BY <2>1, <2>2, Steps DEF ReadStrategy, ReadPortfolio, ReadRoles, ReadBudget, ReadLimit, ReadPolicy,
    ReadHoldings, ReadCapture
  <2> DEFINE o == Outcome(g, CompleteProposal(g))
  <2>6. /\ o.terminal = "ERROR" => o.reason = "LIMIT_PRICE_INVALID"
        /\ o.terminal = "CANDIDATE_VALID" => o.gen = g /\ WithinCaps(o)
    BY <2>3, OutcomeSound
  <2> HIDE DEF o
  <2>7. Promised(o)
    BY <2>4, <2>5, <2>6 DEF Promised, StoodTogether
  <2> QED
    BY <1>1, <2>7, ConcludeKeeps DEF o
<1> QED
  BY <1>1, GiveUpKeeps, StopKeeps DEF IncrementOwner

-----------------------------------------------------------------------------
(* The theorem.                                                            *)

THEOREM ReviewInductive == Inv /\ [Next]_vars => Inv'
<1> SUFFICES ASSUME Inv, [Next]_vars PROVE Inv'
  OBVIOUS
<1>1. ASSUME NEW f \in DOMAIN Versions, Edit(f) PROVE Inv'
  BY <1>1, EditKeeps
<1>2. CASE CloseSession \/ BeginCapture \/ ResolveSession \/ WriteCapture \/ FailCapture
  BY <1>2, OthersKeep
<1>3. CASE Owners
  BY <1>3, ReadContextKeeps, DigestStrategyKeeps, PinStrategyKeeps, DigestPortfolioKeeps,
    PinPortfolioKeeps, BudgetOwnerKeeps, ReadCeilingKeeps, ExposureStrategyKeeps,
    ExposurePortfolioKeeps, ReadMarksKeeps, IncrementOwnerKeeps DEF Owners
<1>4. CASE Stop
  BY <1>4, StopKeeps
<1>5. CASE PublishOrder \/ PublishHold
  BY <1>5, PublishKeeps DEF PublishOrder, PublishHold
<1>6. CASE UNCHANGED vars
  <2>1. at'.strategy >= at.strategy /\ at'.portfolio >= at.portfolio
    <3>1. at.strategy \in Nat /\ at.portfolio \in Nat
      BY AtTyped DEF Inv
    <3> QED
      BY <1>6, <3>1 DEF vars
  <2>2. TypeOK'
    BY <1>6 DEF vars, Inv, TypeOK
  <2> QED
    BY <1>6, <2>1, <2>2, FilesGrow DEF vars
<1> QED
  BY <1>1, <1>2, <1>3, <1>4, <1>5, <1>6 DEF Next

THEOREM ReviewImplied == Inv => ReviewSound
BY DEF Inv, ResultOK, Promised, ReviewSound, PublishedWithinCaps, BoundStoodTogether, StagesAgree, Orders

\* Every order a review publishes is, with the open BUY orders of the portfolio it
\* names, below the ceiling and the fraction it names and leaves the core at least as
\* large as the rest; the strategy, the portfolio and the ceiling stood together at
\* one time; and no stage refuses what an earlier one computed: for every strategy,
\* portfolio, ladder, ceiling, fraction and schedule of marks, and however often the
\* files are edited meanwhile.
THEOREM ReviewSafe == Spec => []ReviewSound
BY ReviewInitial, ReviewInductive, ReviewImplied, PTL DEF Spec

-----------------------------------------------------------------------------
(* The generations of the replacement observation: which of them are       *)
(* verified, what each command knows of its own, and whose file a report   *)
(* is.                                                                     *)

Halves == Memos \cup {Blank}
Rendered == {"mark", "put", "verify", "commit"}
Taken == {"look", "attempt", "fill", "rename", "own", "ambiguous", "beside", "new report", "reused report"}
Observed == Taken \cup {"contract", "memo", "second"}
Left == {"own", "ambiguous", "new report", "refused", "stopped"}
Verbs == {"idle", "inputs", "claim", "reuse"} \cup Rendered \cup Observed \cup Ended
Requests == [at : Verbs, of : [template : SourceVersions, inputs : SourceVersions], file : 1..5,
             seen : Nat, read : Halves \X Halves]
ReportOf(r) == [generation |-> r.of, memo |-> r.read]

GenTyped ==
  /\ live \in [template : SourceVersions, inputs : SourceVersions]
  /\ made \subseteq Generations /\ verified \subseteq made
  /\ names \in [Generations -> SUBSET Precommit]
  /\ memo \in [Generations -> Halves \X Halves]
  /\ stamp \in [Generations -> Nat] /\ edits \in Nat
  /\ memosStood \in [Generations -> SUBSET (Halves \X Halves)]
  /\ attempt \in [Commands -> {Absent, "torn", "whole"}]
  /\ final \in [Reports -> Commands \cup {Absent}]
  /\ command \in [Commands -> Requests]

\* What a command knows of its generation: a render that is not committed owns a
\* marked directory, an observation a verified generation.
RenderOK(r) ==
  /\ r.at \in {"claim", "reuse"} => r.of \in Generations
  /\ r.at \in Rendered => r.of \in made
  /\ r.at \in {"mark", "put", "verify"} => r.of \notin verified
  /\ r.at \in {"put", "verify", "commit"} => "marker" \in names[r.of]
  /\ r.at \in Observed \cup {"commit", "reused generation"} => r.of \in verified

\* A first half read is that of the memo unless the memo has been written since;
\* a memo read whole stood.
ReadOK(r) ==
  /\ r.at \in {"contract", "memo", "second"} => r.seen <= edits
  /\ r.at = "second" /\ stamp[r.of] = r.seen => r.read[1] = memo[r.of][1]
  /\ r.at \in Taken => r.read \in memosStood[r.of]

PublishOK(c, r) ==
  /\ r.at \in {"rename", "own", "ambiguous", "beside", "new report"} => attempt[c] = "whole"
  /\ r.at = "new report" => final[ReportOf(r)] = c
  /\ r.at \in {"beside", "reused report"} => final[ReportOf(r)] \notin {c, Absent}

RequestOK(c, r) == RenderOK(r) /\ ReadOK(r) /\ PublishOK(c, r)

OneRender ==
  \A c, d \in Commands : command[c].at \in Rendered /\ command[d].at \in Rendered
                         /\ command[c].of = command[d].of => c = d

\* The directories: complete is verified, and a memo that is there stood.
DirectoriesOK ==
  \A g \in Generations :
    /\ names[g] = Completed => g \in verified
    /\ g \in verified \/ "memo" \in names[g] => memo[g] \in memosStood[g]
    /\ stamp[g] <= edits

FinalsOK ==
  \A r \in Reports : final[r] # Absent =>
    /\ command[final[r]].at \in Left
    /\ attempt[final[r]] = "whole"
    /\ r.generation \in verified
    /\ r.memo \in memosStood[r.generation]

GenInv ==
  /\ GenTyped /\ OneRender /\ DirectoriesOK /\ FinalsOK
  /\ \A c \in Commands : RequestOK(c, command[c])

-----------------------------------------------------------------------------
LEMMA FilesOfAGeneration ==
  /\ Completed = {"manifest", "evidence", "prompt", "memo", "binding"}
  /\ Precommit = {"manifest", "evidence", "prompt", "memo", "binding", "marker"}
  /\ \A i \in 1..5 : Order[i] \in Completed
  /\ Len(Order) = 5
<1>1. DOMAIN Order = 1..5 /\ Len(Order) = 5
  BY DEF Order
<1>2. /\ Order[1] = "manifest" /\ Order[2] = "evidence" /\ Order[3] = "prompt" /\ Order[4] = "memo"
      /\ Order[5] = "binding"
  BY DEF Order
<1>3. 1..5 = {1, 2, 3, 4, 5}
  OBVIOUS
<1>4. Completed = {Order[1], Order[2], Order[3], Order[4], Order[5]}
  BY <1>1, <1>3 DEF Completed
<1> QED
  BY <1>1, <1>2, <1>3, <1>4 DEF Precommit

\* The report a command makes is one.
LEMMA MakesReport ==
  ASSUME GenTyped, NEW r \in Requests, r.of \in verified
  PROVE  ReportOf(r) \in Reports /\ ReportOf(r).generation = r.of /\ ReportOf(r).memo = r.read
<1>1. r.of \in Generations /\ r.read \in Halves \X Halves
  BY DEF GenTyped, Requests
<1> QED
  BY <1>1 DEF ReportOf, Reports, Halves

\* The commands a step is not of know no less after it.
LEMMA OtherCommandsKeep ==
  ASSUME GenInv, NEW c \in Commands, NEW d \in Commands \ {c}, command'[d] = command[d], attempt'[d] = attempt[d],
         UNCHANGED <<memo, stamp, edits>>, made \subseteq made', verified \subseteq verified',
         \A g \in verified' \ verified : g = command[c].of /\ command[c].at \in Rendered,
         \A g \in Generations : \/ "marker" \in names[g] => "marker" \in names'[g]
                                \/ g = command[c].of /\ command[c].at \in Rendered,
         \A g \in verified : memosStood'[g] = memosStood[g],
         \A r \in Reports : final[r] # Absent => final'[r] = final[r]
  PROVE  RequestOK(d, command[d])'
<1>1. PICK r \in Requests : r = command[d] /\ RequestOK(d, r)
  BY DEF GenInv, GenTyped
<1>2. command'[d] = r /\ GenTyped /\ made \subseteq Generations /\ verified \subseteq made
  BY <1>1 DEF GenInv, GenTyped
<1>3. r.at \in Rendered /\ command[c].at \in Rendered => r.of # command[c].of
  BY <1>1 DEF GenInv, OneRender
<1>4. RenderOK(r)'
  <2>1. RenderOK(r)
    BY <1>1 DEF RequestOK
  <2>2. r.at \in Rendered => r.of \in made' /\ r.of \in Generations
    BY <1>2, <2>1 DEF RenderOK
  <2>3. r.at \in {"mark", "put", "verify"} => r.of \notin verified'
    BY <1>3, <2>1 DEF RenderOK, Rendered
  <2>4. r.at \in {"put", "verify", "commit"} => "marker" \in names'[r.of]
    BY <1>3, <2>1, <2>2 DEF RenderOK, Rendered
  <2> QED
    BY <2>1, <2>2, <2>3, <2>4 DEF RenderOK
<1>5. ReadOK(r)'
  <2>1. ReadOK(r) /\ (r.at \in Taken => r.of \in verified)
    BY <1>1 DEF RequestOK, RenderOK, Observed
  <2> QED
    BY <2>1 DEF ReadOK
<1>6. PublishOK(d, r)'
  <2>1. PublishOK(d, r) /\ (r.at \in {"new report", "beside", "reused report"} => r.of \in verified)
    BY <1>1 DEF RequestOK, RenderOK, Observed, Taken
  <2>2. r.at \in {"new report", "beside", "reused report"} => ReportOf(r) \in Reports
    BY <1>2, <2>1, MakesReport
  <2>3. r.at \in {"new report", "beside", "reused report"} => final[ReportOf(r)] # Absent
    BY <2>1, GenerationAssumption DEF PublishOK
  <2>4. r.at \in {"new report", "beside", "reused report"} => final'[ReportOf(r)] = final[ReportOf(r)]
    BY <2>2, <2>3
  <2> QED
    BY <2>1, <2>4 DEF PublishOK
<1> QED
  BY <1>2, <1>4, <1>5, <1>6 DEF RequestOK

\* A step of one command that leaves the generations and the reports.
LEMMA Moves ==
  ASSUME GenInv, NEW c \in Commands, NEW new \in Requests, command' = [command EXCEPT ![c] = new],
         Unmade, Unpublished, RequestOK(c, new), new.at \notin Rendered,
         command[c].at \in Left => new.at \in Left
  PROVE  GenInv'
<1>1. /\ UNCHANGED <<live, made, names, memo, stamp, edits, verified, memosStood, attempt, final>>
      /\ GenTyped /\ command \in [Commands -> Requests]
  BY DEF Unmade, Unpublished, GenInv, GenTyped
<1>2. command'[c] = new /\ (\A d \in Commands \ {c} : command'[d] = command[d])
      /\ command' \in [Commands -> Requests]
  BY <1>1
<1>3. GenTyped' /\ DirectoriesOK'
  BY <1>1, <1>2 DEF GenTyped, GenInv, DirectoriesOK
<1>4. OneRender'
  BY <1>2 DEF GenInv, OneRender
<1>5. FinalsOK'
  <2> SUFFICES ASSUME NEW r \in Reports, final[r] # Absent
               PROVE  command'[final[r]].at \in Left /\ attempt[final[r]] = "whole"
                      /\ r.generation \in verified /\ r.memo \in memosStood[r.generation]
    BY <1>1 DEF FinalsOK
  <2>1. /\ command[final[r]].at \in Left /\ attempt[final[r]] = "whole"
        /\ r.generation \in verified /\ r.memo \in memosStood[r.generation] /\ final[r] \in Commands
    BY <1>1 DEF GenInv, FinalsOK, GenTyped
  <2> QED
    BY <1>2, <2>1
<1>6. RequestOK(c, new)'
  BY <1>1 DEF RequestOK, RenderOK, ReadOK, PublishOK
<1>7. ASSUME NEW d \in Commands \ {c}
      PROVE  RequestOK(d, command[d])'
  BY <1>1, <1>2, OtherCommandsKeep
<1>8. (\A d \in Commands : RequestOK(d, command[d]))'
  <2> SUFFICES ASSUME NEW d \in Commands
               PROVE  RequestOK(d, command[d])'
    OBVIOUS
  <2>1. CASE d = c
    BY <1>2, <1>6, <2>1
  <2> QED
    BY <1>7, <2>1
<1> QED
  BY <1>3, <1>4, <1>5, <1>8 DEF GenInv

\* A request that goes on, with what it has.
LEMMA GoesOn ==
  ASSUME GenInv, NEW c \in Commands, NEW verb \in Verbs, Proceed(c, verb)
  PROVE  \E new \in Requests :
           /\ command' = [command EXCEPT ![c] = new] /\ new.at = verb
           /\ new.of = command[c].of /\ new.file = command[c].file
           /\ new.seen = command[c].seen /\ new.read = command[c].read
<1>1. command[c] \in Requests
  BY DEF GenInv, GenTyped
<1>2. PICK new : new = [command[c] EXCEPT !.at = verb]
  OBVIOUS
<1>3. new \in Requests /\ new.at = verb /\ new.of = command[c].of /\ new.file = command[c].file
      /\ new.seen = command[c].seen /\ new.read = command[c].read
  BY <1>1, <1>2 DEF Requests
<1>4. command' = [command EXCEPT ![c] = new]
  BY <1>2 DEF Proceed
<1> QED
  BY <1>3, <1>4

\* A command that ends, killed or refused, or reads a source, or finds a generation
\* it may reuse.
LEMMA EndsOrBegins ==
  ASSUME GenInv, NEW c \in Commands, CaptureTemplate(c) \/ CaptureInputs(c) \/ VerifyExisting(c) \/ CutShort(c)
  PROVE  GenInv'
<1>1. command[c] \in Requests /\ RequestOK(c, command[c]) /\ live \in [template : SourceVersions, inputs : SourceVersions]
      /\ Unmade /\ Unpublished
  BY DEF GenInv, GenTyped, CaptureTemplate, CaptureInputs, VerifyExisting, CutShort
<1>2. CASE CaptureTemplate(c)
  <2>1. PICK new : new = [command[c] EXCEPT !.at = "inputs", !.of.template = live.template]
    OBVIOUS
  <2>2. new \in Requests /\ new.at = "inputs" /\ command[c].at = "idle"
    BY <1>1, <1>2, <2>1 DEF Requests, Verbs, CaptureTemplate, At
  <2>3. command' = [command EXCEPT ![c] = new]
    BY <1>2, <2>1 DEF CaptureTemplate
  <2>4. RequestOK(c, new)
    BY <2>2 DEF RequestOK, RenderOK, ReadOK, PublishOK, Rendered, Observed, Taken
  <2> QED
    BY <1>1, <2>2, <2>3, <2>4, Moves DEF Rendered, Left
<1>3. CASE CaptureInputs(c) /\ Usable(live.inputs)
  <2>1. PICK new : new = [command[c] EXCEPT !.at = "claim", !.of.inputs = live.inputs]
    OBVIOUS
  <2>2. new \in Requests /\ new.at = "claim" /\ command[c].at = "inputs" /\ new.of \in Generations
    BY <1>1, <1>3, <2>1 DEF Requests, Verbs, CaptureInputs, At, Usable, Generations
  <2>3. command' = [command EXCEPT ![c] = new]
    BY <1>3, <2>1 DEF CaptureInputs
  <2>4. RequestOK(c, new)
    BY <2>2 DEF RequestOK, RenderOK, ReadOK, PublishOK, Rendered, Observed, Taken
  <2> QED
    BY <1>1, <2>2, <2>3, <2>4, Moves DEF Rendered, Left
<1>4. CASE Proceed(c, "refused") \/ Proceed(c, "stopped")
  <2>1. PICK verb \in {"refused", "stopped"} : Proceed(c, verb)
    BY <1>4
  <2>2. verb \in Verbs
    BY DEF Verbs, Ended
  <2>3. PICK new \in Requests : command' = [command EXCEPT ![c] = new] /\ new.at = verb
    BY <2>1, <2>2, GoesOn
  <2>4. RequestOK(c, new)
    BY <2>3 DEF RequestOK, RenderOK, ReadOK, PublishOK, Rendered, Observed, Taken
  <2> QED
    BY <1>1, <2>3, <2>4, Moves DEF Rendered, Left
<1>5. CASE VerifyExisting(c) /\ IsCompleted(command[c].of)
  <2>1. command[c].at = "reuse" /\ Proceed(c, "reused generation") /\ names[command[c].of] = Completed
    BY <1>5 DEF VerifyExisting, At, IsCompleted
  <2>2. command[c].of \in verified
    BY <1>1, <2>1 DEF GenInv, DirectoriesOK, RequestOK, RenderOK
  <2>5. "reused generation" \in Verbs
    BY DEF Verbs, Ended
  <2>6. PICK verb \in Verbs : verb = "reused generation" /\ Proceed(c, verb)
    BY <2>1, <2>5
  <2>3. PICK new \in Requests :
          /\ command' = [command EXCEPT ![c] = new] /\ new.at = verb
          /\ new.of = command[c].of /\ new.file = command[c].file
          /\ new.seen = command[c].seen /\ new.read = command[c].read
    BY <2>6, GoesOn
  <2>4. RequestOK(c, new)
    BY <2>2, <2>3, <2>6 DEF RequestOK, RenderOK, ReadOK, PublishOK, Rendered, Observed, Taken
  <2> QED
    BY <1>1, <2>1, <2>3, <2>4, <2>6, Moves DEF Rendered, Left
<1> QED
  BY <1>2, <1>3, <1>4, <1>5 DEF CaptureInputs, VerifyExisting, CutShort

\* A command that reads a completed generation and its memo.
LEMMA ObservesOn ==
  ASSUME GenInv, NEW c \in Commands,
         (\E g \in Generations : Inspect(c, g)) \/ VerifyContract(c) \/ ReadFirst(c) \/ ReadSecond(c)
  PROVE  GenInv'
<1>1. command[c] \in Requests /\ RequestOK(c, command[c]) /\ GenTyped /\ Unmade /\ Unpublished
      /\ command[c].at \notin Left
  BY DEF GenInv, GenTyped, Inspect, VerifyContract, ReadFirst, ReadSecond, Left, At
<1>2. CASE Proceed(c, "refused")
  <2>0. "refused" \in Verbs
    BY DEF Verbs, Ended
  <2>1. PICK new \in Requests : command' = [command EXCEPT ![c] = new] /\ new.at = "refused"
    BY <1>2, <2>0, GoesOn
  <2>2. RequestOK(c, new)
    BY <2>1 DEF RequestOK, RenderOK, ReadOK, PublishOK, Rendered, Observed, Taken
  <2> QED
    BY <1>1, <2>1, <2>2, Moves DEF Rendered, Left
<1>3. ASSUME NEW g \in Generations, Inspect(c, g), IsCompleted(g)
      PROVE  GenInv'
  <2>1. PICK new : new = [command[c] EXCEPT !.at = "contract", !.of = g, !.seen = stamp[g]]
    OBVIOUS
  <2>2. stamp[g] \in Nat /\ stamp[g] <= edits /\ g \in verified
    BY <1>1, <1>3 DEF GenTyped, GenInv, DirectoriesOK, IsCompleted
  <2>3. new \in Requests /\ new.at = "contract" /\ new.of = g /\ new.seen = stamp[g]
    BY <1>1, <2>1, <2>2 DEF Requests, Verbs, Observed, Generations
  <2>4. command' = [command EXCEPT ![c] = new]
    BY <1>3, <2>1 DEF Inspect
  <2>5. RequestOK(c, new)
    BY <2>2, <2>3 DEF RequestOK, RenderOK, ReadOK, PublishOK, Rendered, Observed, Taken
  <2> QED
    BY <1>1, <2>3, <2>4, <2>5, Moves DEF Rendered, Left
<1>4. CASE VerifyContract(c) /\ Proceed(c, "memo")
  <2>1. command[c].at = "contract" /\ command[c].of \in verified /\ command[c].seen <= edits
    BY <1>1, <1>4 DEF VerifyContract, At, RequestOK, RenderOK, ReadOK, Observed
  <2>2. PICK new \in Requests : /\ command' = [command EXCEPT ![c] = new] /\ new.at = "memo"
                                /\ new.of = command[c].of /\ new.seen = command[c].seen
    BY <1>4, GoesOn DEF Verbs, Observed
  <2>3. RequestOK(c, new)
    BY <2>1, <2>2 DEF RequestOK, RenderOK, ReadOK, PublishOK, Rendered, Observed, Taken
  <2> QED
    BY <1>1, <2>2, <2>3, Moves DEF Rendered, Left
<1>5. CASE ReadFirst(c) /\ SameMemo(c)
  <2>1. PICK g \in Generations : g = command[c].of /\ g \in verified /\ command[c].seen <= edits
    BY <1>1, <1>5 DEF ReadFirst, At, RequestOK, RenderOK, ReadOK, Observed, GenTyped
  <2>2. memo[g][1] \in Halves /\ Blank \in Halves
    BY <1>1 DEF GenTyped, Halves
  <2>3. PICK half : half = <<memo[g][1], Blank>>
    OBVIOUS
  <2>4. half \in Halves \X Halves /\ half[1] = memo[g][1]
    BY <2>2, <2>3
  <2>5. PICK new : new = [command[c] EXCEPT !.at = "second", !.read = half]
    OBVIOUS
  <2>6. new \in Requests /\ new.at = "second" /\ new.of = g /\ new.read = half /\ new.seen = command[c].seen
    BY <1>1, <2>1, <2>4, <2>5 DEF Requests, Verbs, Observed
  <2>7. command' = [command EXCEPT ![c] = new]
    BY <1>5, <2>1, <2>3, <2>5 DEF ReadFirst
  <2>8. RequestOK(c, new)
    BY <2>1, <2>4, <2>6 DEF RequestOK, RenderOK, ReadOK, PublishOK, Rendered, Observed, Taken
  <2> QED
    BY <1>1, <2>6, <2>7, <2>8, Moves DEF Rendered, Left
<1>6. CASE ReadSecond(c) /\ ~Proceed(c, "refused")
  <2>1. PICK g \in Generations : /\ g = command[c].of /\ g \in verified /\ command[c].read[1] = memo[g][1]
                                 /\ memo[g] \in memosStood[g]
    <3>1. /\ command[c].at = "second" /\ stamp[command[c].of] = command[c].seen
      BY <1>6 DEF ReadSecond, At, SameMemo
    <3>2. command[c].of \in verified /\ command[c].read[1] = memo[command[c].of][1]
      BY <1>1, <3>1 DEF RequestOK, RenderOK, ReadOK, Observed
    <3> QED
      BY <1>1, <3>2 DEF GenTyped, GenInv, DirectoriesOK
  <2>2. memo[g] \in Halves \X Halves
    BY <1>1 DEF GenTyped
  <2>3. memo[g] = <<memo[g][1], memo[g][2]>>
    BY <2>2
  <2>4. PICK whole : whole = <<command[c].read[1], memo[command[c].of][2]>>
    OBVIOUS
  <2>5. whole = memo[g]
    BY <2>1, <2>3, <2>4
  <2>6. PICK new : new = [command[c] EXCEPT !.at = "look", !.read = whole]
    OBVIOUS
  <2>7. new \in Requests /\ new.at = "look" /\ new.of = g /\ new.read = memo[g]
    BY <1>1, <2>1, <2>2, <2>5, <2>6 DEF Requests, Verbs, Observed, Taken
  <2>8. command' = [command EXCEPT ![c] = new]
    BY <1>6, <2>4, <2>6 DEF ReadSecond
  <2>9. RequestOK(c, new)
    BY <2>1, <2>7 DEF RequestOK, RenderOK, ReadOK, PublishOK, Rendered, Observed, Taken
  <2> QED
    BY <1>1, <2>7, <2>8, <2>9, Moves DEF Rendered, Left
<1> QED
  BY <1>2, <1>3, <1>4, <1>5, <1>6 DEF Inspect, VerifyContract, ReadFirst

-----------------------------------------------------------------------------
\* The reports: whoever looks, tries and verifies.
LEMMA LooksAndVerifies ==
  ASSUME GenInv, NEW c \in Commands, LookForFinal(c) \/ VerifyOwned(c) \/ VerifyBeside(c)
  PROVE  GenInv'
<1>1. command[c] \in Requests /\ RequestOK(c, command[c]) /\ GenTyped /\ Unmade /\ Unpublished
  BY DEF GenInv, GenTyped, LookForFinal, VerifyOwned, VerifyBeside
<1>2. PICK r \in Requests : r = command[c] /\ RequestOK(c, r)
  BY <1>1
<1>3. r.of \in verified /\ r.read \in memosStood[r.of]
      /\ r.at \in {"look", "own", "ambiguous", "beside"}
  BY <1>2 DEF LookForFinal, VerifyOwned, VerifyBeside, At, RequestOK, RenderOK, ReadOK, Observed, Taken
<1>4. PICK t \in Reports : t = ReportOf(r) /\ t = Reported(c) /\ t.generation = r.of /\ t.memo = r.read
  BY <1>1, <1>2, <1>3, MakesReport DEF Reported, ReportOf
<1>5. PICK verb \in {"attempt", "reused report", "refused", "new report"} :
        /\ Proceed(c, verb)
        /\ verb = "new report" => r.at \in {"own", "ambiguous"} /\ final[t] = c
        /\ verb = "reused report" => r.at \in {"look", "beside"} /\ final[t] # Absent
        /\ r.at \in {"own", "ambiguous"} => verb \in {"new report", "refused"}
  <2>1. CASE LookForFinal(c)
    BY <1>2, <1>4, <2>1 DEF LookForFinal, At, Present
  <2>2. CASE VerifyOwned(c)
    BY <1>2, <1>4, <2>2 DEF VerifyOwned, At
  <2>3. CASE VerifyBeside(c)
    BY <1>2, <1>4, <2>3 DEF VerifyBeside, At, Present
  <2> QED
    BY <2>1, <2>2, <2>3
<1>6. verb \in Verbs
  BY DEF Verbs, Observed, Taken, Ended
<1>7. PICK new \in Requests :
        /\ command' = [command EXCEPT ![c] = new] /\ new.at = verb
        /\ new.of = r.of /\ new.read = r.read
  <2>1. Proceed(c, verb) /\ r = command[c]
    BY <1>2, <1>5
  <2>2. PICK new \in Requests :
          /\ command' = [command EXCEPT ![c] = new] /\ new.at = verb
          /\ new.of = command[c].of /\ new.file = command[c].file
          /\ new.seen = command[c].seen /\ new.read = command[c].read
    BY <1>6, <2>1, GoesOn
  <2> QED
    BY <2>1, <2>2
<1>8. ReportOf(new) = t
  BY <1>4, <1>7 DEF ReportOf
<1>9. new.at = "new report" => final[t] = c /\ attempt[c] = "whole"
  BY <1>2, <1>5, <1>7 DEF RequestOK, PublishOK
<1>10. new.at = "reused report" => final[t] \notin {c, Absent}
  <2> SUFFICES ASSUME new.at = "reused report"
               PROVE  final[t] \notin {c, Absent}
    OBVIOUS
  <2>1. r.at \in {"look", "beside"} /\ final[t] # Absent
    BY <1>5, <1>7
  <2>2. command[final[t]].at \in Left
    BY <2>1 DEF GenInv, FinalsOK
  <2> QED
    BY <1>2, <2>1, <2>2 DEF Left
<1>11. RequestOK(c, new)
  BY <1>3, <1>5, <1>7, <1>8, <1>9, <1>10 DEF RequestOK, RenderOK, ReadOK, PublishOK, Rendered, Observed, Taken
<1>12. command[c].at \in Left => new.at \in Left
  <2>1. r.at \in Left => r.at \in {"own", "ambiguous"}
    BY <1>3 DEF Left
  <2> QED
    BY <1>2, <1>5, <1>7, <2>1 DEF Left
<1>13. new.at \notin Rendered
  BY <1>5, <1>7 DEF Rendered
<1> QED
  BY <1>1, <1>7, <1>11, <1>12, <1>13, Moves

\* An attempt file is its command's own, and is no report yet.
LEMMA Attempts ==
  ASSUME GenInv, NEW c \in Commands, CreateAttempt(c) \/ FillAttempt(c)
  PROVE  GenInv'
<1>1. /\ UNCHANGED <<live, made, names, memo, stamp, edits, verified, memosStood, final>> /\ GenTyped
      /\ command[c] \in Requests /\ command[c].at \in {"attempt", "fill"}
  BY DEF CreateAttempt, FillAttempt, Unmade, GenInv, GenTyped, At
<1>2. PICK verb \in {"fill", "rename"}, file \in {"torn", "whole"} :
        /\ Proceed(c, verb) /\ attempt' = [attempt EXCEPT ![c] = file] /\ (verb = "rename" => file = "whole")
  BY DEF CreateAttempt, FillAttempt
<1>3. verb \in Verbs
  BY DEF Verbs, Observed, Taken
<1>4. PICK new \in Requests : /\ command' = [command EXCEPT ![c] = new] /\ new.at = verb
                             /\ new.of = command[c].of /\ new.read = command[c].read
  BY <1>2, <1>3, GoesOn
<1>5. /\ command'[c] = new /\ (\A d \in Commands \ {c} : command'[d] = command[d] /\ attempt'[d] = attempt[d])
      /\ command' \in [Commands -> Requests] /\ attempt' \in [Commands -> {Absent, "torn", "whole"}]
      /\ attempt'[c] = file
  BY <1>1, <1>2, <1>4 DEF GenTyped
<1>6. GenTyped' /\ DirectoriesOK'
  BY <1>1, <1>5 DEF GenTyped, GenInv, DirectoriesOK
<1>7. OneRender'
  BY <1>2, <1>4, <1>5 DEF GenInv, OneRender, Rendered
<1>8. FinalsOK'
  <2> SUFFICES ASSUME NEW r \in Reports, final[r] # Absent
               PROVE  command'[final[r]].at \in Left /\ attempt'[final[r]] = "whole"
                      /\ r.generation \in verified /\ r.memo \in memosStood[r.generation]
    BY <1>1 DEF FinalsOK
  <2>1. /\ command[final[r]].at \in Left /\ attempt[final[r]] = "whole"
        /\ r.generation \in verified /\ r.memo \in memosStood[r.generation] /\ final[r] \in Commands
    BY <1>1 DEF GenInv, FinalsOK, GenTyped
  <2>2. final[r] # c
    BY <1>1, <2>1 DEF Left
  <2> QED
    BY <1>5, <2>1, <2>2
<1>9. RequestOK(c, new)'
  <2>1. command[c].of \in verified /\ command[c].read \in memosStood[command[c].of]
    BY <1>1 DEF GenInv, RequestOK, RenderOK, ReadOK, Observed, Taken
  <2> QED
    BY <1>1, <1>2, <1>4, <1>5, <2>1 DEF RequestOK, RenderOK, ReadOK, PublishOK, Rendered, Observed, Taken
<1>10. ASSUME NEW d \in Commands \ {c}
       PROVE  RequestOK(d, command[d])'
  BY <1>1, <1>5, OtherCommandsKeep
<1>11. (\A d \in Commands : RequestOK(d, command[d]))'
  <2> SUFFICES ASSUME NEW d \in Commands
               PROVE  RequestOK(d, command[d])'
    OBVIOUS
  <2>1. CASE d = c
    BY <1>5, <1>9, <2>1
  <2> QED
    BY <1>10, <2>1
<1> QED
  BY <1>6, <1>7, <1>8, <1>11 DEF GenInv

\* The rename makes the attempt a report only where none is.
LEMMA Renames ==
  ASSUME GenInv, NEW c \in Commands, RenameNoReplace(c)
  PROVE  GenInv'
<1>1. /\ UNCHANGED <<live, made, names, memo, stamp, edits, verified, memosStood, attempt>> /\ GenTyped
      /\ command[c] \in Requests /\ command[c].at = "rename" /\ RequestOK(c, command[c])
  BY DEF RenameNoReplace, Unmade, GenInv, GenTyped, At
<1>2. command[c].of \in verified /\ command[c].read \in memosStood[command[c].of] /\ attempt[c] = "whole"
  BY <1>1 DEF RequestOK, RenderOK, ReadOK, PublishOK, Observed, Taken
<1>3. PICK t \in Reports : t = Reported(c) /\ t = ReportOf(command[c]) /\ t.generation = command[c].of
                          /\ t.memo = command[c].read
  BY <1>1, <1>2, MakesReport DEF Reported, ReportOf
<1>4. PICK verb \in {"own", "ambiguous", "beside"} :
        /\ Proceed(c, verb)
        /\ \/ final[t] = Absent /\ final' = [final EXCEPT ![t] = c] /\ verb # "beside"
           \/ final' = final /\ (verb = "beside" => final[t] # Absent)
  BY <1>3 DEF RenameNoReplace
<1>5. verb \in Verbs
  BY DEF Verbs, Observed, Taken
<1>6. PICK new \in Requests : /\ command' = [command EXCEPT ![c] = new] /\ new.at = verb
                             /\ new.of = command[c].of /\ new.read = command[c].read
  BY <1>4, <1>5, GoesOn
<1>7. /\ command'[c] = new /\ (\A d \in Commands \ {c} : command'[d] = command[d])
      /\ command' \in [Commands -> Requests]
  BY <1>1, <1>6 DEF GenTyped
<1>8. /\ final' \in [Reports -> Commands \cup {Absent}]
      /\ \A r \in Reports : final[r] # Absent => final'[r] = final[r]
      /\ \A r \in Reports : final'[r] # final[r] => r = t /\ final'[r] = c /\ verb # "beside"
  BY <1>1, <1>4 DEF GenTyped
<1>9. GenTyped' /\ DirectoriesOK'
  BY <1>1, <1>7, <1>8 DEF GenTyped, GenInv, DirectoriesOK
<1>10. OneRender'
  BY <1>4, <1>6, <1>7 DEF GenInv, OneRender, Rendered
<1>11. \A r \in Reports : final[r] # Absent =>
         /\ command[final[r]].at \in Left /\ attempt[final[r]] = "whole"
         /\ r.generation \in verified /\ r.memo \in memosStood[r.generation] /\ final[r] \in Commands
  BY <1>1 DEF GenInv, FinalsOK, GenTyped
<1>12. FinalsOK'
  <2> SUFFICES ASSUME NEW r \in Reports, final'[r] # Absent
               PROVE  command'[final'[r]].at \in Left /\ attempt[final'[r]] = "whole"
                      /\ r.generation \in verified /\ r.memo \in memosStood[r.generation]
    BY <1>1 DEF FinalsOK
  <2>1. CASE final'[r] = final[r]
    <3>1. final[r] # c
      BY <1>1, <1>11, <2>1 DEF Left
    <3> QED
      BY <1>7, <1>11, <2>1, <3>1
  <2>2. CASE final'[r] # final[r]
    BY <1>2, <1>3, <1>6, <1>7, <1>8, <2>2 DEF Left
  <2> QED
    BY <2>1, <2>2
<1>13. RequestOK(c, new)'
  <2>1. ReportOf(new) = t
    BY <1>3, <1>6 DEF ReportOf
  <2>2. verb = "beside" => final'[t] \notin {c, Absent}
    <3> SUFFICES ASSUME verb = "beside"
                 PROVE  final'[t] \notin {c, Absent}
      OBVIOUS
    <3>1. final'[t] = final[t] /\ final[t] # Absent
      BY <1>4
    <3> QED
      BY <1>1, <1>11, <3>1 DEF Left
  <2> QED
    BY <1>1, <1>2, <1>4, <1>6, <2>1, <2>2 DEF RequestOK, RenderOK, ReadOK, PublishOK, Rendered, Observed, Taken
<1>14. ASSUME NEW d \in Commands \ {c}
       PROVE  RequestOK(d, command[d])'
  BY <1>1, <1>7, <1>8, OtherCommandsKeep
<1>15. (\A d \in Commands : RequestOK(d, command[d]))'
  <2> SUFFICES ASSUME NEW d \in Commands
               PROVE  RequestOK(d, command[d])'
    OBVIOUS
  <2>1. CASE d = c
    BY <1>7, <1>13, <2>1
  <2> QED
    BY <1>14, <2>1
<1> QED
  BY <1>9, <1>10, <1>12, <1>15 DEF GenInv

-----------------------------------------------------------------------------
\* A step of a render.
LEMMA RendersOn ==
  ASSUME GenInv, NEW c \in Commands, NEW new \in Requests, command' = [command EXCEPT ![c] = new],
         UNCHANGED <<live, memo, stamp, edits, attempt, final>>, command[c].at \in Rendered \cup {"claim"},
         new.at \in Rendered => /\ new.of = command[c].of
                               /\ (command[c].at \in Rendered \/ new.of \notin made),
         made' \subseteq Generations, made \subseteq made', verified' \subseteq made', verified \subseteq verified',
         names' \in [Generations -> SUBSET Precommit],
         memosStood' \in [Generations -> SUBSET (Halves \X Halves)],
         \A g \in verified' \ verified : g = command[c].of /\ command[c].at \in Rendered,
         \A g \in Generations : \/ "marker" \in names[g] => "marker" \in names'[g]
                                \/ g = command[c].of /\ command[c].at \in Rendered,
         \A g \in verified : memosStood'[g] = memosStood[g],
         DirectoriesOK', RequestOK(c, new)'
  PROVE  GenInv'
<1>1. GenTyped /\ command \in [Commands -> Requests] /\ verified \subseteq made
  BY DEF GenInv, GenTyped
<1>2. command'[c] = new /\ (\A d \in Commands \ {c} : command'[d] = command[d])
      /\ command' \in [Commands -> Requests]
  BY <1>1
<1>3. GenTyped'
  BY <1>1, <1>2 DEF GenTyped
<1>4. OneRender'
  <2>1. \A d \in Commands : command[d].at \in Rendered => command[d].of \in made
    BY DEF GenInv, RequestOK, RenderOK
  <2>2. ASSUME NEW d \in Commands \ {c}, command[d].at \in Rendered, new.at \in Rendered
        PROVE  command[d].of # new.of
    BY <2>1, <2>2 DEF GenInv, OneRender
  <2>3. ASSUME NEW d \in Commands, NEW e \in Commands, command'[d].at \in Rendered, command'[e].at \in Rendered,
               command'[d].of = command'[e].of
        PROVE  d = e
    <3>1. CASE d = c \/ e = c
      BY <1>2, <2>2, <2>3, <3>1
    <3>2. CASE d # c /\ e # c
      BY <1>2, <2>3, <3>2 DEF GenInv, OneRender
    <3> QED
      BY <3>1, <3>2
  <2> QED
    BY <2>3 DEF OneRender
<1>5. FinalsOK'
  <2> SUFFICES ASSUME NEW r \in Reports, final[r] # Absent
               PROVE  command'[final[r]].at \in Left /\ attempt[final[r]] = "whole"
                      /\ r.generation \in verified' /\ r.memo \in memosStood'[r.generation]
    BY DEF FinalsOK
  <2>1. /\ command[final[r]].at \in Left /\ attempt[final[r]] = "whole"
        /\ r.generation \in verified /\ r.memo \in memosStood[r.generation] /\ final[r] \in Commands
    BY <1>1 DEF GenInv, FinalsOK, GenTyped
  <2>2. final[r] # c
    BY <2>1 DEF Left, Rendered
  <2> QED
    BY <1>2, <2>1, <2>2
<1>6. ASSUME NEW d \in Commands \ {c}
      PROVE  RequestOK(d, command[d])'
  BY <1>2, OtherCommandsKeep
<1>7. (\A d \in Commands : RequestOK(d, command[d]))'
  <2> SUFFICES ASSUME NEW d \in Commands
               PROVE  RequestOK(d, command[d])'
    OBVIOUS
  <2>1. CASE d = c
    BY <1>2, <2>1
  <2> QED
    BY <1>6, <2>1
<1> QED
  BY <1>3, <1>4, <1>5, <1>7 DEF GenInv

LEMMA Claims ==
  ASSUME GenInv, NEW c \in Commands, Claim(c)
  PROVE  GenInv'
<1>1. /\ UNCHANGED <<live, names, memo, stamp, edits, verified, memosStood, attempt, final>> /\ GenTyped
      /\ command[c].at = "claim" /\ RequestOK(c, command[c]) /\ DirectoriesOK
  BY DEF Claim, Unpublished, GenInv, At
<1>2. PICK g \in Generations : g = command[c].of /\ made' = made \cup {g}
  BY <1>1 DEF Claim, RequestOK, RenderOK
<1>3. PICK verb \in {"reuse", "mark"} : Proceed(c, verb) /\ (verb = "mark" => g \notin made)
  BY <1>2 DEF Claim
<1>4. verb \in Verbs
  BY DEF Verbs, Rendered
<1>5. PICK new \in Requests :
        /\ command' = [command EXCEPT ![c] = new] /\ new.at = verb
        /\ new.of = command[c].of /\ new.file = command[c].file
        /\ new.seen = command[c].seen /\ new.read = command[c].read
  BY <1>3, <1>4, GoesOn
<1>6. /\ made' \subseteq Generations /\ made \subseteq made' /\ verified' \subseteq made' /\ verified' = verified
      /\ names' \in [Generations -> SUBSET Precommit] /\ names' = names /\ memosStood' = memosStood
      /\ memosStood' \in [Generations -> SUBSET (Halves \X Halves)]
  BY <1>1, <1>2 DEF GenTyped
<1>7. DirectoriesOK'
  BY <1>1 DEF DirectoriesOK
<1>8. RequestOK(c, new)'
  <2>1. verb = "mark" => g \notin verified'
    BY <1>1, <1>3 DEF GenTyped
  <2>2. g \in made' /\ g \in Generations /\ new.of = g
    BY <1>2, <1>5
  <2> QED
    BY <1>3, <1>5, <2>1, <2>2 DEF RequestOK, RenderOK, ReadOK, PublishOK, Rendered, Observed, Taken
<1>9. /\ command[c].at \in Rendered \cup {"claim"}
      /\ new.at \in Rendered => new.of = command[c].of /\ new.of \notin made
  BY <1>1, <1>2, <1>3, <1>5 DEF Rendered
<1> QED
  BY <1>1, <1>5, <1>6, <1>7, <1>8, <1>9, RendersOn

\* The marker, and each file in its turn.
LEMMA Writes ==
  ASSUME GenInv, NEW c \in Commands, MarkInProgress(c) \/ Put(c)
  PROVE  GenInv'
<1>1. /\ UNCHANGED <<live, made, memo, stamp, edits, verified, attempt, final>> /\ GenTyped
      /\ command[c].at \in {"mark", "put"} /\ RequestOK(c, command[c]) /\ DirectoriesOK /\ command[c] \in Requests
  BY DEF MarkInProgress, Put, Unpublished, GenInv, GenTyped, At
<1>2. PICK g \in Generations : g = command[c].of /\ g \in made /\ g \notin verified
                              /\ (command[c].at = "put" => "marker" \in names[g])
  BY <1>1 DEF RequestOK, RenderOK, Rendered, GenTyped
<1>3. /\ \E new \in Requests :
           /\ command' = [command EXCEPT ![c] = new] /\ new.at \in {"put", "verify"} /\ new.of = g
      /\ \E set \in SUBSET Precommit :
           /\ names' = [names EXCEPT ![g] = set] /\ "marker" \in set
           /\ \/ memosStood' = memosStood /\ ("memo" \in set => "memo" \in names[g])
              \/ memosStood' = [memosStood EXCEPT ![g] = {memo[g]}]
  <2>1. CASE MarkInProgress(c)
    <3>1. Proceed(c, "put") /\ "put" \in Verbs
      BY <2>1 DEF MarkInProgress, Verbs, Rendered
    <3>2. PICK new \in Requests :
            /\ command' = [command EXCEPT ![c] = new] /\ new.at = "put"
            /\ new.of = command[c].of /\ new.file = command[c].file
            /\ new.seen = command[c].seen /\ new.read = command[c].read
      BY <3>1, GoesOn
    <3>3. {"marker"} \in SUBSET Precommit
      BY DEF Precommit
    <3>4. names' = [names EXCEPT ![g] = {"marker"}] /\ memosStood' = memosStood
      BY <1>2, <2>1 DEF MarkInProgress
    <3> QED
      BY <1>2, <3>2, <3>3, <3>4
  <2>2. CASE Put(c)
    <3>1. PICK i \in 1..5 : i = command[c].file
      BY <1>1 DEF Requests
    <3>2. /\ command[c].at = "put" /\ names' = [names EXCEPT ![g] = names[g] \cup {Order[i]}]
          /\ memosStood' = IF Order[i] = "memo" THEN [memosStood EXCEPT ![g] = {memo[g]}] ELSE memosStood
          /\ command' = IF i < Len(Order) THEN [command EXCEPT ![c].file = i + 1] ELSE [command EXCEPT ![c].at = "verify"]
      BY <1>1, <1>2, <2>2, <3>1 DEF Put, At, GenTyped
    <3>3. Order[i] \in Precommit
      BY <3>1, FilesOfAGeneration DEF Precommit
    <3>4. \E new \in Requests : command' = [command EXCEPT ![c] = new] /\ new.at \in {"put", "verify"} /\ new.of = g
      <4>1. CASE i < Len(Order)
        <5>1. i + 1 \in 1..5
          BY <4>1, FilesOfAGeneration
        <5>2. PICK new : new = [command[c] EXCEPT !.file = i + 1]
          OBVIOUS
        <5>3. new \in Requests /\ new.at = "put" /\ new.of = g
          BY <1>1, <1>2, <3>2, <5>1, <5>2 DEF Requests
        <5>4. command' = [command EXCEPT ![c] = new]
          BY <3>2, <4>1, <5>2
        <5> QED
          BY <5>3, <5>4
      <4>2. CASE ~(i < Len(Order))
        <5>1. Proceed(c, "verify") /\ "verify" \in Verbs
          BY <3>2, <4>2 DEF Proceed, Verbs, Rendered
        <5>2. PICK new \in Requests :
                /\ command' = [command EXCEPT ![c] = new] /\ new.at = "verify"
                /\ new.of = command[c].of /\ new.file = command[c].file
                /\ new.seen = command[c].seen /\ new.read = command[c].read
          BY <5>1, GoesOn
        <5> QED
          BY <1>2, <5>2
      <4> QED
        BY <4>1, <4>2
    <3>5. PICK set : set = names[g] \cup {Order[i]}
      OBVIOUS
    <3>6. set \in SUBSET Precommit /\ "marker" \in set
      BY <1>1, <1>2, <3>2, <3>3, <3>5 DEF GenTyped
    <3>7. \/ memosStood' = memosStood /\ ("memo" \in set => "memo" \in names[g])
          \/ memosStood' = [memosStood EXCEPT ![g] = {memo[g]}]
      BY <3>2, <3>5
    <3> QED
      BY <3>2, <3>4, <3>5, <3>6, <3>7
  <2> QED
    BY <2>1, <2>2
<1>4. PICK new \in Requests :
        command' = [command EXCEPT ![c] = new] /\ new.at \in {"put", "verify"} /\ new.of = g
  BY <1>3
<1>5. PICK set \in SUBSET Precommit :
        /\ names' = [names EXCEPT ![g] = set] /\ "marker" \in set
        /\ \/ memosStood' = memosStood /\ ("memo" \in set => "memo" \in names[g])
           \/ memosStood' = [memosStood EXCEPT ![g] = {memo[g]}]
  BY <1>3
<1>6. /\ names' \in [Generations -> SUBSET Precommit] /\ names'[g] = set
      /\ \A h \in Generations \ {g} : names'[h] = names[h]
  BY <1>1, <1>5 DEF GenTyped
<1>7. /\ memosStood' \in [Generations -> SUBSET (Halves \X Halves)]
      /\ \A h \in Generations \ {g} : memosStood'[h] = memosStood[h]
      /\ "memo" \in set => memo[g] \in memosStood'[g]
  BY <1>1, <1>5 DEF GenTyped, DirectoriesOK
<1>8. DirectoriesOK'
  <2>1. set # Completed
    BY <1>5, FilesOfAGeneration
  <2>2. ASSUME NEW h \in Generations
        PROVE  /\ names'[h] = Completed => h \in verified
               /\ h \in verified \/ "memo" \in names'[h] => memo[h] \in memosStood'[h]
               /\ stamp[h] <= edits
    <3>1. CASE h = g
      BY <1>1, <1>2, <1>6, <1>7, <2>1, <3>1 DEF DirectoriesOK
    <3>2. CASE h # g
      BY <1>1, <1>6, <1>7, <3>2 DEF DirectoriesOK
    <3> QED
      BY <3>1, <3>2
  <2> QED
    BY <1>1, <2>2 DEF DirectoriesOK
<1>9. RequestOK(c, new)'
  BY <1>1, <1>2, <1>4, <1>5, <1>6 DEF RequestOK, RenderOK, ReadOK, PublishOK, Rendered, Observed, Taken
<1>10. \A h \in Generations : "marker" \in names[h] => "marker" \in names'[h]
  BY <1>5, <1>6
<1>11. \A h \in verified : memosStood'[h] = memosStood[h]
  BY <1>1, <1>2, <1>7 DEF GenTyped
<1>12. made' \subseteq Generations /\ verified' \subseteq made' /\ verified' = verified /\ made' = made
  BY <1>1 DEF GenTyped
<1>13. command[c].at \in Rendered /\ new.of = command[c].of
  BY <1>1, <1>2, <1>4 DEF Rendered
<1> QED
  BY <1>1, <1>4, <1>6, <1>7, <1>8, <1>9, <1>10, <1>11, <1>12, <1>13, RendersOn

\* What is read back in full, its memo blank, is verified; and only that is committed.
LEMMA Verifies ==
  ASSUME GenInv, NEW c \in Commands, VerifyPrecommit(c)
  PROVE  GenInv'
<1>1. /\ UNCHANGED <<live, made, names, memo, stamp, edits, memosStood, attempt, final>> /\ GenTyped
      /\ command[c].at = "verify" /\ RequestOK(c, command[c]) /\ DirectoriesOK
  BY DEF VerifyPrecommit, Unpublished, GenInv, At
<1>2. PICK g \in Generations : g = command[c].of /\ g \in made /\ "marker" \in names[g]
  BY <1>1 DEF RequestOK, RenderOK, Rendered, GenTyped
<1>3. PICK verb \in {"commit", "refused"} :
        /\ Proceed(c, verb)
        /\ verb = "commit" => names[g] = Precommit /\ verified' = verified \cup {g}
        /\ verb = "refused" => verified' = verified
  BY <1>2 DEF VerifyPrecommit
<1>4. verb \in Verbs
  BY DEF Verbs, Rendered, Ended
<1>5. PICK new \in Requests :
        /\ command' = [command EXCEPT ![c] = new] /\ new.at = verb
        /\ new.of = command[c].of /\ new.file = command[c].file
        /\ new.seen = command[c].seen /\ new.read = command[c].read
  BY <1>3, <1>4, GoesOn
<1>6. /\ made' \subseteq Generations /\ made' = made /\ verified \subseteq verified' /\ verified' \subseteq made'
      /\ names' \in [Generations -> SUBSET Precommit] /\ names' = names /\ memosStood' = memosStood
      /\ memosStood' \in [Generations -> SUBSET (Halves \X Halves)]
      /\ \A h \in verified' \ verified : h = g /\ verb = "commit"
  BY <1>1, <1>2, <1>3 DEF GenTyped
<1>7. DirectoriesOK'
  <2>1. \A h \in verified' \ verified : memo[h] \in memosStood[h]
    BY <1>1, <1>2, <1>3, <1>6, FilesOfAGeneration DEF DirectoriesOK
  <2> QED
    BY <1>1, <1>6, <2>1 DEF DirectoriesOK
<1>8. RequestOK(c, new)'
  BY <1>1, <1>2, <1>3, <1>5, <1>6 DEF RequestOK, RenderOK, ReadOK, PublishOK, Rendered, Observed, Taken
<1>9. command[c].at \in Rendered /\ new.of = command[c].of
  BY <1>1, <1>5 DEF Rendered
<1>10. \A h \in verified' \ verified : h = command[c].of /\ command[c].at \in Rendered
  BY <1>2, <1>6, <1>9
<1> QED
  BY <1>1, <1>5, <1>6, <1>7, <1>8, <1>9, <1>10, RendersOn

LEMMA CommitsVerified ==
  ASSUME GenInv, NEW c \in Commands, Commit(c)
  PROVE  GenInv'
<1>1. /\ UNCHANGED <<live, made, memo, stamp, edits, verified, memosStood, attempt, final>> /\ GenTyped
      /\ command[c].at = "commit" /\ RequestOK(c, command[c]) /\ DirectoriesOK
  BY DEF Commit, Unpublished, GenInv, At
<1>2. PICK g \in Generations : g = command[c].of /\ g \in verified
  BY <1>1 DEF RequestOK, RenderOK, Rendered, GenTyped
<1>3. Proceed(c, "new generation") /\ "new generation" \in Verbs
  BY DEF Commit, Verbs, Ended
<1>4. PICK new \in Requests :
        /\ command' = [command EXCEPT ![c] = new] /\ new.at = "new generation"
        /\ new.of = command[c].of /\ new.file = command[c].file
        /\ new.seen = command[c].seen /\ new.read = command[c].read
  BY <1>3, GoesOn
<1>5. names' = [names EXCEPT ![g] = names[g] \ {"marker"}]
  BY <1>1, <1>2 DEF Commit, GenTyped
<1>6. /\ names' \in [Generations -> SUBSET Precommit] /\ names'[g] = names[g] \ {"marker"}
      /\ \A h \in Generations \ {g} : names'[h] = names[h]
  BY <1>1, <1>5 DEF GenTyped
<1>7. DirectoriesOK'
  BY <1>1, <1>2, <1>6 DEF DirectoriesOK
<1>8. RequestOK(c, new)'
  BY <1>4 DEF RequestOK, RenderOK, ReadOK, PublishOK, Rendered, Observed, Taken
<1>9. command[c].at \in Rendered /\ new.at \notin Rendered
  BY <1>1, <1>4 DEF Rendered
<1>10. \A h \in Generations : ("marker" \in names[h] => "marker" \in names'[h]) \/ h = command[c].of
  BY <1>2, <1>6
<1>11. /\ made' \subseteq Generations /\ made' = made /\ verified' = verified /\ verified' \subseteq made'
       /\ memosStood' = memosStood /\ memosStood' \in [Generations -> SUBSET (Halves \X Halves)]
  BY <1>1 DEF GenTyped
<1> QED
  BY <1>1, <1>4, <1>6, <1>7, <1>8, <1>9, <1>10, <1>11, RendersOn

-----------------------------------------------------------------------------
LEMMA EditsASource ==
  ASSUME GenInv, NEW s \in {"template", "inputs"}, NEW v \in SourceVersions, EditSource(s, v)
  PROVE  GenInv'
<1>1. /\ UNCHANGED <<made, names, memo, stamp, command, verified, memosStood, attempt, final>> /\ GenTyped
      /\ edits' = edits + 1 /\ live' = [live EXCEPT ![s] = v] /\ edits \in Nat
  BY DEF EditSource, Unpublished, GenInv, GenTyped
<1>2. edits' \in Nat /\ edits <= edits'
  BY <1>1
<1>3. live' \in [template : SourceVersions, inputs : SourceVersions]
  <2>1. CASE s = "template"
    BY <1>1, <2>1 DEF GenTyped
  <2>2. CASE s = "inputs"
    BY <1>1, <2>2 DEF GenTyped
  <2> QED
    BY <2>1, <2>2
<1>4. GenTyped'
  BY <1>1, <1>2, <1>3 DEF GenTyped
<1>5. DirectoriesOK'
  <2>1. \A g \in Generations : stamp[g] \in Nat /\ stamp[g] <= edits'
    BY <1>1, <1>2 DEF GenInv, GenTyped, DirectoriesOK
  <2> QED
    BY <1>1, <2>1 DEF GenInv, DirectoriesOK
<1>6. OneRender' /\ FinalsOK'
  BY <1>1 DEF GenInv, OneRender, FinalsOK
<1>7. ASSUME NEW d \in Commands
      PROVE  RequestOK(d, command[d])'
  <2>1. PICK r \in Requests : r = command[d] /\ RequestOK(d, r)
    BY DEF GenInv, GenTyped
  <2>2. r.at \in {"contract", "memo", "second"} => r.seen <= edits'
    <3>1. r.seen \in Nat
      BY DEF Requests
    <3> QED
      BY <1>1, <1>2, <2>1, <3>1 DEF RequestOK, ReadOK
  <2>3. RenderOK(r)' /\ ReadOK(r)' /\ PublishOK(d, r)'
    BY <1>1, <2>1, <2>2 DEF RequestOK, RenderOK, ReadOK, PublishOK
  <2> QED
    BY <1>1, <2>1, <2>3 DEF RequestOK
<1> QED
  BY <1>4, <1>5, <1>6, <1>7 DEF GenInv

\* A half of a memo written makes every look that was before it fail.
LEMMA EditsAMemo ==
  ASSUME GenInv, NEW g \in made, NEW half \in 1..2, NEW m \in Memos, EditMemo(g, half, m)
  PROVE  GenInv'
<1>1. /\ UNCHANGED <<live, made, names, command, verified, attempt, final>> /\ GenTyped /\ g \in Generations
      /\ edits' = edits + 1 /\ edits \in Nat /\ stamp' = [stamp EXCEPT ![g] = edits + 1]
  BY DEF EditMemo, Unpublished, GenInv, GenTyped
<1>2. PICK new \in Halves \X Halves : memo' = [memo EXCEPT ![g] = new]
  <2>1. memo[g] \in Halves \X Halves /\ m \in Halves
    BY <1>1 DEF GenTyped, Halves
  <2>2. <<m, memo[g][2]>> \in Halves \X Halves /\ <<memo[g][1], m>> \in Halves \X Halves
    BY <2>1
  <2>3. memo' = [memo EXCEPT ![g] = IF half = 1 THEN <<m, memo[g][2]>> ELSE <<memo[g][1], m>>]
    BY <1>1 DEF EditMemo, GenTyped
  <2> QED
    BY <2>2, <2>3
<1>3. /\ memo' \in [Generations -> Halves \X Halves] /\ memo'[g] = new
      /\ \A h \in Generations \ {g} : memo'[h] = memo[h] /\ stamp'[h] = stamp[h]
      /\ stamp' \in [Generations -> Nat] /\ stamp'[g] = edits + 1 /\ edits' \in Nat
  BY <1>1, <1>2 DEF GenTyped
<1>4. memosStood' = [memosStood EXCEPT ![g] = memosStood[g] \cup {new}]
  BY <1>1, <1>3 DEF EditMemo, GenTyped
<1>5. /\ memosStood' \in [Generations -> SUBSET (Halves \X Halves)] /\ new \in memosStood'[g]
      /\ \A h \in Generations : memosStood[h] \subseteq memosStood'[h]
  BY <1>1, <1>4 DEF GenTyped
<1>6. GenTyped'
  BY <1>1, <1>3, <1>5 DEF GenTyped
<1>7. \A h \in Generations : stamp[h] \in Nat /\ stamp[h] <= edits
  BY <1>1 DEF GenInv, DirectoriesOK, GenTyped
<1>8. \A h \in Generations : stamp'[h] <= edits'
  BY <1>1, <1>3, <1>7
<1>9. \A h \in Generations : h \in verified \/ "memo" \in names[h] => memo'[h] \in memosStood'[h]
  BY <1>3, <1>5 DEF GenInv, DirectoriesOK
<1>10. DirectoriesOK'
  BY <1>1, <1>8, <1>9 DEF GenInv, DirectoriesOK
<1>11. OneRender'
  BY <1>1 DEF GenInv, OneRender
<1>12. FinalsOK'
  <2>1. \A r \in Reports : r.generation \in Generations
    BY DEF Reports
  <2> QED
    BY <1>1, <1>5, <2>1 DEF GenInv, FinalsOK
<1>13. ASSUME NEW d \in Commands
       PROVE  RequestOK(d, command[d])'
  <2>1. PICK r \in Requests : r = command[d] /\ RequestOK(d, r)
    BY DEF GenInv, GenTyped
  <2>2. r.seen \in Nat /\ (r.at \in Observed => r.of \in Generations)
    BY <1>1, <2>1 DEF Requests, RequestOK, RenderOK, GenTyped
  <2>3. r.at \in {"contract", "memo", "second"} => r.seen <= edits /\ r.seen <= edits'
    BY <1>1, <2>1, <2>2 DEF RequestOK, ReadOK
  <2>4. r.at = "second" /\ stamp'[r.of] = r.seen => r.read[1] = memo'[r.of][1]
    <3> SUFFICES ASSUME r.at = "second", stamp'[r.of] = r.seen
                 PROVE  r.read[1] = memo'[r.of][1]
      OBVIOUS
    <3>1. r.of # g
      BY <1>1, <1>3, <2>2, <2>3
    <3>2. r.of \in Generations \ {g}
      BY <2>2, <3>1 DEF Observed
    <3> QED
      BY <1>3, <2>1, <3>2 DEF RequestOK, ReadOK
  <2>5. r.at \in Taken => r.read \in memosStood'[r.of]
    BY <1>5, <2>1, <2>2 DEF RequestOK, ReadOK, Observed
  <2>6. RenderOK(r)' /\ PublishOK(d, r)'
    BY <1>1, <2>1 DEF RequestOK, RenderOK, PublishOK
  <2>7. ReadOK(r)'
    BY <2>3, <2>4, <2>5 DEF ReadOK
  <2> QED
    BY <1>1, <2>1, <2>6, <2>7 DEF RequestOK
<1> QED
  BY <1>6, <1>10, <1>11, <1>12, <1>13 DEF GenInv

-----------------------------------------------------------------------------
LEMMA GenInitInv == GenInit => GenInv
<1> SUFFICES ASSUME GenInit PROVE GenInv
  OBVIOUS
<1>1. Unasked \in Requests /\ Unasked.at = "idle"
  BY GenerationAssumption DEF Unasked, Requests, Verbs, Halves
<1>2. command = [c \in Commands |-> Unasked]
  BY DEF GenInit
<1> HIDE DEF Unasked
<1>3. <<Blank, Blank>> \in Halves \X Halves
  BY DEF Halves
<1>4. GenTyped
  BY <1>1, <1>2, <1>3, GenerationAssumption DEF GenInit, GenTyped
<1>5. DirectoriesOK
  BY FilesOfAGeneration DEF GenInit, DirectoriesOK
<1>6. OneRender /\ FinalsOK
  BY <1>1, <1>2 DEF GenInit, OneRender, FinalsOK, Rendered
<1>7. \A c \in Commands : RequestOK(c, command[c])
  BY <1>1, <1>2 DEF RequestOK, RenderOK, ReadOK, PublishOK, Rendered, Observed, Taken
<1> QED
  BY <1>4, <1>5, <1>6, <1>7 DEF GenInv

LEMMA GenStep ==
  ASSUME GenInv, [GenNext]_replacement
  PROVE  GenInv'
<1>1. CASE UNCHANGED replacement
  BY <1>1 DEF replacement, GenInv, GenTyped, OneRender, DirectoriesOK, FinalsOK, RequestOK, RenderOK, ReadOK, PublishOK
<1>2. ASSUME NEW c \in Commands, Render(c) \/ Observe(c) \/ CutShort(c)
      PROVE  GenInv'
  BY <1>2, EndsOrBegins, ObservesOn, LooksAndVerifies, Attempts, Renames, Claims, Writes, Verifies, CommitsVerified
     DEF Render, Observe
<1> QED
  BY <1>1, <1>2, EditsASource, EditsAMemo DEF GenNext

LEMMA GenInvSound == GenInv => GenerationsSound
<1> SUFFICES ASSUME GenInv PROVE GenerationsSound
  OBVIOUS
<1>1. ReportsStand
  <2>1. ASSUME NEW c \in Commands, At(c, "reused generation")
        PROVE  command[c].of \in verified
    BY <2>1 DEF GenInv, RequestOK, RenderOK, At
  <2> QED
    BY <2>1 DEF GenInv, FinalsOK, ReportsStand
<1>2. OneNewReport
  BY DEF GenInv, RequestOK, PublishOK, OneNewReport, At, Reported, ReportOf
<1> QED
  BY <1>1, <1>2 DEF GenerationsSound

\* However renders, observations and the operator overlap and wherever they are
\* killed, a generation taken for complete had been read back before its commit; a
\* report is whole, of such a generation and of a memo that stood in it; and of the
\* commands that made it the one whose file stays, alone, calls it new
\* (replacement_observation, replacement_generation_reader, replacement_report).
THEOREM GenerationsSafe == GenSpec => []GenerationsSound
<1>1. GenInv /\ [GenNext]_replacement => GenInv'
  BY GenStep
<1> QED
  BY GenInitInv, <1>1, GenInvSound, PTL DEF GenSpec

-----------------------------------------------------------------------------
(* The weekly shadow report over these generations.                        *)

Said == (Generations \cup {Absent}) \X (Texts \cup {Absent})

\* The steps once the answer is read whole; once the generation is verified; once the
\* answer echoes it; and those a publication with a report of its own can be at.
Heard == {"verify", "again", "echo", "look", "make report", "fill report", "make summary", "fill summary",
          "staged", "rename", "beside", "reuse", "reused", "own", "new"}
Bound == Heard \ {"verify", "again"}
Echoed == Bound \ {"echo"}
Published == {"own", "ambiguous", "new"}
Stations == {"idle", "first", "second"} \cup Heard \cup ShadowEnded
Publications == [at : Stations, of : Generations \cup {Absent}, seen : Nat, read : Said]
IdOf(r) == [of |-> r.of, answer |-> r.read]

ShadowTyped ==
  /\ answer \in Said /\ written \in Nat /\ said \subseteq Said /\ answer \in said
  /\ pub \in [Publishers -> Publications]
  /\ tried \in [Publishers -> [Artifacts -> {Absent, "torn", "whole"}]]
  /\ \A e \in reports : e.by \in Publishers /\ e = [id |-> e.id, by |-> e.by]

\* What a publication knows: the half it read is that of the file unless it has been
\* written since; an answer read whole stood in the file.
PublicationOK(p, r) ==
  /\ r.at # "idle" => r.of \in Generations
  /\ r.at \in {"first", "second"} => r.seen <= written
  /\ r.at = "second" /\ r.seen = written => r.read[1] = answer[1]
  /\ r.at \in Heard => r.read \in said
  /\ r.at \in Bound => r.of \in verified
  /\ r.at \in Echoed => Echoes(r.read, r.of)
  /\ r.at = "rename" => \A a \in Artifacts : tried[p][a] = "whole"
  /\ r.at \in {"own", "new"} => [id |-> IdOf(r), by |-> p] \in reports
  /\ r.at \in {"reuse", "reused"} => \E e \in reports : e.id = IdOf(r)

\* A report is its publisher's, whole, verified, said and echoed.
ReportsOf ==
  \A e \in reports :
    /\ pub[e.by].at \in Published /\ e.id = IdOf(pub[e.by])
    /\ \A a \in Artifacts : tried[e.by][a] = "whole"
    /\ e.id.of \in verified /\ e.id.answer \in said /\ Echoes(e.id.answer, e.id.of)

ShadowInv ==
  /\ GenInv /\ ShadowTyped /\ ReportsOf
  /\ \A p \in Publishers : PublicationOK(p, pub[p])

\* The commands of Replacement only add to the verified generations.
LEMMA VerifiedStays ==
  ASSUME [GenNext]_replacement
  PROVE  verified \subseteq verified'
<1>1. CASE UNCHANGED replacement
  BY <1>1 DEF replacement
<1>2. ASSUME NEW c \in Commands, Render(c)
      PROVE  verified \subseteq verified'
  BY <1>2 DEF Render, CaptureTemplate, CaptureInputs, Claim, MarkInProgress, Put, VerifyPrecommit, Commit,
              VerifyExisting, Unmade
<1>3. ASSUME NEW c \in Commands, Observe(c) \/ CutShort(c)
      PROVE  verified \subseteq verified'
  BY <1>3 DEF Observe, CutShort, Inspect, VerifyContract, ReadFirst, ReadSecond, LookForFinal, CreateAttempt,
              FillAttempt, RenameNoReplace, VerifyOwned, VerifyBeside, Unmade
<1>4. CASE \/ \E s \in {"template", "inputs"}, v \in SourceVersions : EditSource(s, v)
           \/ \E g \in made, half \in 1..2, m \in Memos : EditMemo(g, half, m)
  BY <1>4 DEF EditSource, EditMemo
<1> QED
  BY <1>1, <1>2, <1>3, <1>4 DEF GenNext

\* A step of a command beside the publications.
LEMMA CommandsBeside ==
  ASSUME ShadowInv, [GenNext]_replacement, UNCHANGED shadow
  PROVE  ShadowInv'
<1>1. GenInv' /\ verified \subseteq verified'
  BY GenStep, VerifiedStays DEF ShadowInv
<1>2. UNCHANGED <<answer, written, pub, tried, reports, said>>
  BY DEF shadow
<1>3. ShadowTyped' /\ ReportsOf'
  BY <1>1, <1>2 DEF ShadowInv, ShadowTyped, ReportsOf
<1>4. ASSUME NEW p \in Publishers
      PROVE  PublicationOK(p, pub[p])'
  BY <1>1, <1>2 DEF ShadowInv, PublicationOK
<1> QED
  BY <1>1, <1>3, <1>4 DEF ShadowInv

\* The operator saves half an answer: every look that was before it fails.
LEMMA Answers ==
  ASSUME ShadowInv, NEW half \in 1..2, NEW content, UNCHANGED replacement, WriteAnswer(half, content),
         half = 1 => content \in Generations, half = 2 => content \in Texts
  PROVE  ShadowInv'
<1>1. /\ UNCHANGED <<pub, tried, reports>> /\ written' = written + 1 /\ said' = said \cup {answer'} /\ ShadowTyped
      /\ written \in Nat /\ verified' = verified
  BY DEF WriteAnswer, ShadowInv, ShadowTyped, replacement
<1>2. GenInv'
  BY GenStep DEF ShadowInv
<1>3. answer' \in Said
  <2>1. answer[1] \in Generations \cup {Absent} /\ answer[2] \in Texts \cup {Absent}
    BY <1>1 DEF ShadowTyped, Said
  <2>2. CASE half = 1
    BY <2>1, <2>2 DEF WriteAnswer, Said
  <2>3. CASE half = 2
    BY <2>1, <2>3 DEF WriteAnswer, Said
  <2> QED
    BY <2>2, <2>3
<1>4. ShadowTyped'
  BY <1>1, <1>3 DEF ShadowTyped
<1>5. ReportsOf'
  BY <1>1 DEF ShadowInv, ReportsOf
<1>6. ASSUME NEW p \in Publishers
      PROVE  PublicationOK(p, pub[p])'
  <2>1. PICK r \in Publications : r = pub[p] /\ PublicationOK(p, r)
    BY <1>1 DEF ShadowInv, ShadowTyped
  <2>2. r.seen \in Nat
    BY DEF Publications
  <2>3. r.at \in {"first", "second"} => r.seen <= written' /\ r.seen # written'
    BY <1>1, <2>1, <2>2 DEF PublicationOK
  <2>4. PublicationOK(p, r)'
    BY <1>1, <2>1, <2>3 DEF PublicationOK
  <2> QED
    BY <1>1, <2>1, <2>4
<1> QED
  BY <1>2, <1>4, <1>5, <1>6 DEF ShadowInv

\* A step of one publication that adds no report.
LEMMA PublicationMoves ==
  ASSUME ShadowInv, NEW p \in Publishers, NEW new \in Publications, UNCHANGED replacement,
         pub' = [pub EXCEPT ![p] = new], UNCHANGED <<answer, written, reports, said>>,
         tried' \in [Publishers -> [Artifacts -> {Absent, "torn", "whole"}]],
         \A q \in Publishers \ {p} : tried'[q] = tried[q],
         PublicationOK(p, new)',
         pub[p].at \in Published => new.at \in Published /\ IdOf(new) = IdOf(pub[p]) /\ tried' = tried
  PROVE  ShadowInv'
<1>1. GenInv' /\ verified' = verified /\ ShadowTyped
  BY GenStep DEF ShadowInv, replacement
<1>2. pub' \in [Publishers -> Publications] /\ pub'[p] = new /\ \A q \in Publishers \ {p} : pub'[q] = pub[q]
  BY <1>1 DEF ShadowTyped
<1>3. ShadowTyped'
  BY <1>1, <1>2 DEF ShadowTyped
<1>4. ReportsOf'
  <2> SUFFICES ASSUME NEW e \in reports
               PROVE  /\ pub'[e.by].at \in Published /\ e.id = IdOf(pub'[e.by])
                      /\ \A a \in Artifacts : tried'[e.by][a] = "whole"
                      /\ e.id.of \in verified /\ e.id.answer \in said /\ Echoes(e.id.answer, e.id.of)
    BY <1>1 DEF ReportsOf
  <2>1. /\ pub[e.by].at \in Published /\ e.id = IdOf(pub[e.by]) /\ e.by \in Publishers
        /\ \A a \in Artifacts : tried[e.by][a] = "whole"
        /\ e.id.of \in verified /\ e.id.answer \in said /\ Echoes(e.id.answer, e.id.of)
    BY <1>1 DEF ShadowInv, ReportsOf, ShadowTyped
  <2>2. CASE e.by = p
    BY <1>2, <2>1, <2>2
  <2>3. CASE e.by # p
    BY <1>2, <2>1, <2>3
  <2> QED
    BY <2>2, <2>3
<1>5. ASSUME NEW q \in Publishers
      PROVE  PublicationOK(q, pub[q])'
  <2>1. CASE q = p
    BY <1>2, <2>1
  <2>2. CASE q # p
    BY <1>1, <1>2, <2>2 DEF ShadowInv, PublicationOK
  <2> QED
    BY <2>1, <2>2
<1> QED
  BY <1>1, <1>3, <1>4, <1>5 DEF ShadowInv

\* A publication that goes on, with what it has.
LEMMA PublicationGoesOn ==
  ASSUME ShadowInv, NEW p \in Publishers, NEW from, NEW to \in Stations, Step(p, from, to)
  PROVE  \E new \in Publications :
           /\ pub' = [pub EXCEPT ![p] = new] /\ new.at = to /\ new.of = pub[p].of
           /\ new.seen = pub[p].seen /\ new.read = pub[p].read /\ IdOf(new) = IdOf(pub[p])
<1>1. pub[p] \in Publications
  BY DEF ShadowInv, ShadowTyped
<1>2. PICK new : new = [pub[p] EXCEPT !.at = to]
  OBVIOUS
<1>3. new \in Publications /\ new.at = to /\ new.of = pub[p].of /\ new.seen = pub[p].seen /\ new.read = pub[p].read
  BY <1>1, <1>2 DEF Publications
<1>4. pub' = [pub EXCEPT ![p] = new]
  BY <1>2 DEF Step
<1> QED
  BY <1>3, <1>4 DEF IdOf

\* A step that only takes a publication on: what its next step requires, it has.
LEMMA TakesOn ==
  ASSUME ShadowInv, NEW p \in Publishers, NEW from \in Stations \ {"idle"},
         NEW to \in Stations \ {"idle", "first", "second"}, Step(p, from, to),
         UNCHANGED replacement, UNCHANGED <<answer, written, tried, reports, said>>,
         to \in Heard => from \in Heard, to \in Bound => from \in Bound,
         to \in Echoed => from \in Echoed \/ Echoes(pub[p].read, pub[p].of),
         to = "rename" => Whole([by |-> p]),
         to \in {"own", "new"} => from = "own",
         to \in {"reuse", "reused"} => \E e \in reports : e.id = Identity(p),
         from \in Published => to \in Published
  PROVE  ShadowInv'
<1>1. PICK new \in Publications :
        /\ pub' = [pub EXCEPT ![p] = new] /\ new.at = to /\ new.of = pub[p].of
        /\ new.seen = pub[p].seen /\ new.read = pub[p].read /\ IdOf(new) = IdOf(pub[p])
  BY PublicationGoesOn
<1>2. pub[p].at = from /\ PublicationOK(p, pub[p]) /\ ShadowTyped /\ verified' = verified
  BY DEF Step, ShadowInv, replacement
<1>3. IdOf(pub[p]) = Identity(p)
  BY DEF IdOf, Identity
<1>4. new.at = "rename" => \A a \in Artifacts : tried[p][a] = "whole"
  BY <1>1 DEF Whole
<1>5. PublicationOK(p, new)'
  <2>1. /\ new.of \in Generations /\ new.at \notin {"first", "second"}
        /\ new.at \in Heard => new.read \in said
        /\ new.at \in Bound => new.of \in verified
    BY <1>1, <1>2 DEF PublicationOK
  <2>2. new.at \in Echoed => Echoes(new.read, new.of)
    BY <1>1, <1>2 DEF PublicationOK
  <2>3. new.at \in {"own", "new"} => [id |-> IdOf(new), by |-> p] \in reports
    BY <1>1, <1>2 DEF PublicationOK
  <2>4. new.at \in {"reuse", "reused"} => \E e \in reports : e.id = IdOf(new)
    BY <1>1, <1>3
  <2> QED
    BY <1>2, <1>4, <2>1, <2>2, <2>3, <2>4 DEF PublicationOK
<1>6. tried' \in [Publishers -> [Artifacts -> {Absent, "torn", "whole"}]]
  BY <1>2 DEF ShadowTyped
<1> QED
  BY <1>1, <1>2, <1>5, <1>6, PublicationMoves

LEMMA Opens ==
  ASSUME ShadowInv, NEW p \in Publishers, NEW g \in Generations, UNCHANGED replacement, OpenAnswer(p, g)
  PROVE  ShadowInv'
<1>1. PICK new : new = [Waiting EXCEPT !.at = "first", !.of = g, !.seen = written]
  OBVIOUS
<1>2. pub[p].at = "idle" /\ pub' = [pub EXCEPT ![p] = new] /\ UNCHANGED <<answer, written, tried, reports, said>>
  BY <1>1 DEF OpenAnswer
<1>3. ShadowTyped /\ written \in Nat
  BY DEF ShadowInv, ShadowTyped
<1>4. new \in Publications /\ new.at = "first" /\ new.of = g /\ new.seen = written
  <2>1. NoAnswer \in Said
    BY DEF NoAnswer, Said
  <2> QED
    BY <1>1, <1>3, <2>1 DEF Waiting, Publications, Stations
<1>5. PublicationOK(p, new)'
  BY <1>2, <1>3, <1>4 DEF PublicationOK, Heard, Bound, Echoed
<1>6. tried' \in [Publishers -> [Artifacts -> {Absent, "torn", "whole"}]]
  BY <1>2, <1>3 DEF ShadowTyped
<1> QED
  BY <1>2, <1>4, <1>5, <1>6, PublicationMoves DEF Published

\* The halves read, with no write between them, are those that stood together.
LEMMA ReadsHalf ==
  ASSUME ShadowInv, NEW p \in Publishers, NEW half \in 1..2, UNCHANGED replacement, ReadAnswer(p, half)
  PROVE  ShadowInv'
<1>1. PICK r \in Publications : r = pub[p] /\ PublicationOK(p, r) /\ ShadowTyped
  BY DEF ShadowInv, ShadowTyped
<1>0. PICK onward, heard, new :
        /\ onward = IF ~StableFile(p) THEN "failed" ELSE IF half = 1 THEN "second" ELSE "verify"
        /\ heard = IF half = 1 THEN <<answer[1], r.read[2]>> ELSE <<r.read[1], answer[2]>>
        /\ new = [r EXCEPT !.at = onward, !.read = heard]
  OBVIOUS
<1>2. /\ pub[p].at = IF half = 1 THEN "first" ELSE "second"
      /\ UNCHANGED <<answer, written, tried, reports, said>>
  BY DEF ReadAnswer
<1>3. pub' = [pub EXCEPT ![p] = new]
  <2>1. pub \in [Publishers -> Publications]
    BY <1>1 DEF ShadowTyped
  <2> QED
    BY <1>0, <1>1, <2>1 DEF ReadAnswer, Publications
<1>4. answer[1] \in Generations \cup {Absent} /\ answer[2] \in Texts \cup {Absent} /\ answer = <<answer[1], answer[2]>>
      /\ r.read[1] \in Generations \cup {Absent} /\ r.read[2] \in Texts \cup {Absent} /\ answer \in said
  BY <1>1 DEF ShadowTyped, Said, Publications
<1>5. new \in Publications
  <2>1. heard \in Said
    BY <1>0, <1>4 DEF Said
  <2>2. onward \in Stations
    BY <1>0 DEF Stations, Heard, ShadowEnded
  <2> QED
    BY <1>0, <2>1, <2>2 DEF Publications
<1>6. onward = "second" => heard[1] = answer[1]
  BY <1>0, <1>4
<1>7. onward = "verify" => heard = answer
  BY <1>0, <1>1, <1>2, <1>4 DEF PublicationOK, StableFile
<1>8. onward \in {"failed", "second", "verify"} /\ (onward = "second" => r.seen <= written)
  BY <1>0, <1>1, <1>2 DEF PublicationOK, StableFile
<1>9. r.of \in Generations
  BY <1>1, <1>2 DEF PublicationOK
<1>10. new.at = onward /\ new.of = r.of /\ new.seen = r.seen /\ new.read = heard
  BY <1>0 DEF Publications
<1>11. PublicationOK(p, new)'
  BY <1>2, <1>4, <1>6, <1>7, <1>8, <1>9, <1>10 DEF PublicationOK, Heard, Bound, Echoed
<1>12. tried' \in [Publishers -> [Artifacts -> {Absent, "torn", "whole"}]]
  BY <1>1, <1>2 DEF ShadowTyped
<1> QED
  BY <1>1, <1>2, <1>3, <1>5, <1>11, <1>12, PublicationMoves DEF Published

\* A generation found complete is a verified one.
LEMMA VerifiesAnew ==
  ASSUME ShadowInv, NEW p \in Publishers, UNCHANGED replacement, VerifyGeneration(p)
  PROVE  ShadowInv'
<1>1. PICK r \in Publications : r = pub[p] /\ PublicationOK(p, r) /\ ShadowTyped
  BY DEF ShadowInv, ShadowTyped
<1>2. PICK onward : onward = IF ~IsCompleted(r.of) THEN "failed" ELSE IF r.at = "again" THEN "echo"
                             ELSE IF live.template = r.of.template THEN "again" ELSE "failed"
  OBVIOUS
<1>3. PICK new : new = [r EXCEPT !.at = onward, !.seen = 0]
  OBVIOUS
<1>4. /\ r.at \in {"verify", "again"} /\ UNCHANGED <<answer, written, tried, reports, said>>
      /\ pub' = [pub EXCEPT ![p].at = onward, ![p].seen = 0]
  BY <1>1, <1>2 DEF VerifyGeneration
<1>5. pub' = [pub EXCEPT ![p] = new]
  <2>1. pub \in [Publishers -> Publications]
    BY <1>1 DEF ShadowTyped
  <2> QED
    BY <1>1, <1>3, <1>4, <2>1 DEF Publications
<1>6. onward \in {"failed", "echo", "again"}
  BY <1>2
<1>7. new \in Publications /\ new.at = onward /\ new.of = r.of /\ new.read = r.read
  BY <1>3, <1>6 DEF Publications, Stations, Heard, ShadowEnded
<1>8. r.of \in Generations /\ r.read \in said
  BY <1>1, <1>4 DEF PublicationOK, Heard
<1>9. onward = "echo" => r.of \in verified
  BY <1>2, <1>8 DEF IsCompleted, ShadowInv, GenInv, DirectoriesOK
<1>10. PublicationOK(p, new)' 
  BY <1>4, <1>6, <1>7, <1>8, <1>9 DEF PublicationOK, Heard, Bound, Echoed, replacement
<1>11. tried' \in [Publishers -> [Artifacts -> {Absent, "torn", "whole"}]]
  BY <1>1, <1>4 DEF ShadowTyped
<1> QED
  BY <1>1, <1>4, <1>5, <1>7, <1>10, <1>11, PublicationMoves DEF Published

LEMMA ChecksAndSettles ==
  ASSUME ShadowInv, NEW p \in Publishers, UNCHANGED replacement,
         ValidateAnswer(p) \/ LookForReport(p) \/ VerifyStaged(p) \/ VerifyFound(p) \/ Settle(p)
  PROVE  ShadowInv'
<1> USE DEF Stations, Heard, Bound, Echoed, Published, ShadowEnded
<1>1. CASE ValidateAnswer(p)
  BY <1>1, TakesOn DEF ValidateAnswer
<1>2. CASE LookForReport(p)
  BY <1>2, TakesOn DEF LookForReport, Final
<1>3. CASE VerifyStaged(p)
  BY <1>3, TakesOn DEF VerifyStaged
<1>4. CASE VerifyFound(p)
  BY <1>4, TakesOn DEF VerifyFound, Final
<1>5. CASE Settle(p)
  BY <1>5, TakesOn DEF Settle, Final
<1> QED
  BY <1>1, <1>2, <1>3, <1>4, <1>5

LEMMA FailsAnywhere ==
  ASSUME ShadowInv, NEW p \in Publishers, UNCHANGED replacement, Fails(p)
  PROVE  ShadowInv'
<1>1. pub[p].at \in Stations \ {"idle"}
  BY DEF Fails, ShadowInv, ShadowTyped, Publications
<1>2. CASE pub[p].at \in {"own", "reuse"}
  <2>1. Step(p, pub[p].at, "ambiguous") /\ UNCHANGED <<answer, written, tried, reports, said>>
    BY <1>2 DEF Fails, Committed
  <2> QED
    BY <1>1, <2>1, TakesOn DEF Stations, Heard, Bound, Echoed, Published, ShadowEnded
<1>3. CASE pub[p].at \notin {"own", "reuse"}
  <2>1. Step(p, pub[p].at, "failed") /\ UNCHANGED <<answer, written, tried, reports, said>>
    BY <1>3 DEF Fails, Committed
  <2>2. pub[p].at \notin Published
    BY <1>3 DEF Fails, Published, ShadowEnded
  <2> QED
    BY <1>1, <2>1, <2>2, TakesOn DEF Stations, Heard, Bound, Echoed, ShadowEnded
<1> QED
  BY <1>2, <1>3

\* A publication fills its own attempt directory, before it renames it.
LEMMA FillsArtifacts ==
  ASSUME ShadowInv, NEW p \in Publishers, NEW a \in Artifacts, UNCHANGED replacement,
         CreateArtifact(p, a) \/ FillArtifact(p, a)
  PROVE  ShadowInv'
<1>1. ShadowTyped /\ PublicationOK(p, pub[p]) /\ a \in {"report", "summary"}
  BY DEF ShadowInv, Artifacts
<1>2. PICK from, to \in Bound :
        /\ Step(p, from, to) /\ UNCHANGED <<answer, written, reports, said>>
        /\ from \in {"make report", "make summary", "fill report", "fill summary"}
        /\ to \in {"fill report", "make summary", "fill summary", "staged"}
        /\ \E state \in {"torn", "whole"} : tried' = [tried EXCEPT ![p][a] = state]
  <2>1. CASE CreateArtifact(p, a)
    <3>1. Step(p, Making[a], Filling[a]) /\ tried' = [tried EXCEPT ![p][a] = "torn"]
      BY <2>1 DEF CreateArtifact
    <3>2. /\ Making[a] \in {"make report", "make summary"} /\ Filling[a] \in {"fill report", "fill summary"}
      <4>1. /\ Making["report"] = "make report" /\ Making["summary"] = "make summary"
            /\ Filling["report"] = "fill report" /\ Filling["summary"] = "fill summary"
        BY DEF Making, Filling
      <4> QED
        BY <1>1, <4>1
    <3> QED
      BY <2>1, <3>1, <3>2 DEF CreateArtifact, Bound, Heard
  <2>2. CASE FillArtifact(p, a)
    <3>1. PICK to \in {"make summary", "staged"} : Step(p, Filling[a], to) /\ tried' = [tried EXCEPT ![p][a] = "whole"]
      BY <2>2 DEF FillArtifact
    <3>2. Filling[a] \in {"fill report", "fill summary"}
      <4>1. Filling["report"] = "fill report" /\ Filling["summary"] = "fill summary"
        BY DEF Filling
      <4> QED
        BY <1>1, <4>1
    <3> QED
      BY <2>2, <3>1, <3>2 DEF FillArtifact, Bound, Heard
  <2> QED
    BY <2>1, <2>2
<1>3. PICK new \in Publications :
        /\ pub' = [pub EXCEPT ![p] = new] /\ new.at = to /\ new.of = pub[p].of
        /\ new.seen = pub[p].seen /\ new.read = pub[p].read /\ IdOf(new) = IdOf(pub[p])
  <2>1. to \in Stations
    BY <1>2 DEF Stations, Bound
  <2>2. Step(p, from, to)
    BY <1>2
  <2> QED
    BY <2>1, <2>2, PublicationGoesOn
<1>4. pub[p].at = from /\ from \in Echoed /\ from \notin Published /\ verified' = verified
  BY <1>2 DEF Step, Echoed, Bound, Heard, Published, replacement
<1>5. PublicationOK(p, new)'
  <2>1. new.of \in verified /\ new.of \in Generations /\ new.read \in said /\ Echoes(new.read, new.of)
    BY <1>1, <1>3, <1>4 DEF PublicationOK, Echoed, Bound, Heard
  <2> QED
    BY <1>2, <1>3, <1>4, <2>1 DEF PublicationOK
<1>6. /\ tried' \in [Publishers -> [Artifacts -> {Absent, "torn", "whole"}]]
      /\ \A q \in Publishers \ {p} : tried'[q] = tried[q]
  <2>1. PICK state \in {"torn", "whole"} : tried' = [tried EXCEPT ![p][a] = state]
    BY <1>2
  <2>2. tried \in [Publishers -> [Artifacts -> {Absent, "torn", "whole"}]]
    BY <1>1 DEF ShadowTyped
  <2> QED
    BY <2>1, <2>2
<1> QED
  BY <1>2, <1>3, <1>4, <1>5, <1>6, PublicationMoves

\* The directory that is renamed where nothing is becomes the report.
LEMMA PublishesNew ==
  ASSUME ShadowInv, NEW p \in Publishers, NEW onward \in {"own", "ambiguous"}, Step(p, "rename", onward),
         UNCHANGED replacement, reports' = reports \cup {[id |-> Identity(p), by |-> p]},
         UNCHANGED <<answer, written, tried, said>>
  PROVE  ShadowInv'
<1>1. PICK new \in Publications :
        /\ pub' = [pub EXCEPT ![p] = new] /\ new.at = onward /\ new.of = pub[p].of
        /\ new.seen = pub[p].seen /\ new.read = pub[p].read /\ IdOf(new) = IdOf(pub[p])
  <2>1. onward \in Stations
    BY DEF Stations, Heard, ShadowEnded
  <2> QED
    BY <2>1, PublicationGoesOn
<1>2. /\ ShadowTyped /\ GenInv' /\ verified' = verified
      /\ pub[p].at = "rename" /\ PublicationOK(p, pub[p])
  BY GenStep DEF ShadowInv, Step, replacement
<1>3. pub' \in [Publishers -> Publications] /\ pub'[p] = new /\ \A q \in Publishers \ {p} : pub'[q] = pub[q]
  BY <1>1, <1>2 DEF ShadowTyped
<1>4. PICK mine : mine = [id |-> IdOf(new), by |-> p]
  OBVIOUS
<1>5. mine.id = IdOf(new) /\ mine.by = p /\ mine = [id |-> mine.id, by |-> mine.by] /\ reports' = reports \cup {mine}
  BY <1>1, <1>4 DEF Identity, IdOf
<1>6. ShadowTyped'
  BY <1>2, <1>3, <1>5 DEF ShadowTyped
<1>7. /\ \A a \in Artifacts : tried[p][a] = "whole"
      /\ new.of \in verified /\ new.of \in Generations /\ new.read \in said /\ Echoes(new.read, new.of)
  BY <1>1, <1>2 DEF PublicationOK, Heard, Bound, Echoed
<1>8. ReportsOf'
  <2> SUFFICES ASSUME NEW e \in reports \cup {mine}
               PROVE  /\ pub'[e.by].at \in Published /\ e.id = IdOf(pub'[e.by])
                      /\ \A a \in Artifacts : tried[e.by][a] = "whole"
                      /\ e.id.of \in verified /\ e.id.answer \in said /\ Echoes(e.id.answer, e.id.of)
    BY <1>2, <1>5 DEF ReportsOf
  <2>1. CASE e = mine
    <3>1. e.id.of = new.of /\ e.id.answer = new.read
      BY <1>5, <2>1 DEF IdOf
    <3> QED
      BY <1>1, <1>3, <1>5, <1>7, <2>1, <3>1 DEF Published
  <2>2. CASE e \in reports
    <3>1. /\ pub[e.by].at \in Published /\ e.id = IdOf(pub[e.by]) /\ e.by \in Publishers
          /\ \A a \in Artifacts : tried[e.by][a] = "whole"
          /\ e.id.of \in verified /\ e.id.answer \in said /\ Echoes(e.id.answer, e.id.of)
      BY <1>2, <2>2 DEF ShadowInv, ReportsOf, ShadowTyped
    <3>2. e.by # p
      BY <1>2, <3>1 DEF Published
    <3> QED
      BY <1>3, <3>1, <3>2
  <2> QED
    BY <2>1, <2>2
<1>9. ASSUME NEW q \in Publishers
      PROVE  PublicationOK(q, pub[q])'
  <2>1. CASE q = p
    <3>1. PublicationOK(p, new)'
      BY <1>1, <1>2, <1>4, <1>5, <1>7 DEF PublicationOK, Heard, Bound, Echoed
    <3> QED
      BY <1>3, <2>1, <3>1
  <2>2. CASE q # p
    <3>1. PICK r : r = pub[q] /\ PublicationOK(q, r)
      BY DEF ShadowInv
    <3>2. PublicationOK(q, r)'
      BY <1>2, <1>5, <3>1 DEF PublicationOK
    <3> QED
      BY <1>3, <2>2, <3>1, <3>2
  <2> QED
    BY <2>1, <2>2
<1> QED
  BY <1>2, <1>6, <1>8, <1>9 DEF ShadowInv

LEMMA RenamesReport ==
  ASSUME ShadowInv, NEW p \in Publishers, UNCHANGED replacement, RenameReport(p)
  PROVE  ShadowInv'
<1>1. CASE /\ reports' = reports \cup {[id |-> Identity(p), by |-> p]}
           /\ \E next \in {"own", "ambiguous"} : Step(p, "rename", next)
  BY <1>1, PublishesNew DEF RenameReport
<1>2. ASSUME NEW next \in {"beside", "failed", "ambiguous"}, Step(p, "rename", next), UNCHANGED reports
      PROVE  ShadowInv'
  BY <1>2, TakesOn DEF RenameReport, Stations, Heard, Bound, Echoed, Published, ShadowEnded
<1> QED
  BY <1>1, <1>2 DEF RenameReport

-----------------------------------------------------------------------------
LEMMA ShadowInitInv == ShadowInit => ShadowInv
<1> SUFFICES ASSUME ShadowInit PROVE ShadowInv
  OBVIOUS
<1>1. NoAnswer \in Said
  BY DEF NoAnswer, Said
<1>2. Waiting \in Publications /\ Waiting.at = "idle"
  BY <1>1 DEF Waiting, Publications, Stations
<1>3. pub = [p \in Publishers |-> Waiting]
  BY DEF ShadowInit
<1> HIDE DEF Waiting
<1>4. ShadowTyped
  BY <1>1, <1>2, <1>3 DEF ShadowInit, ShadowTyped
<1>5. \A p \in Publishers : PublicationOK(p, pub[p])
  BY <1>2, <1>3 DEF PublicationOK, Heard, Bound, Echoed
<1> QED
  BY <1>4, <1>5, GenInitInv DEF ShadowInit, ShadowInv, ReportsOf

LEMMA ShadowStep ==
  ASSUME ShadowInv, [ShadowNext]_<<replacement, shadow>>
  PROVE  ShadowInv'
<1>1. CASE UNCHANGED <<replacement, shadow>>
  BY <1>1, CommandsBeside
<1>2. CASE GenNext /\ UNCHANGED shadow
  BY <1>2, CommandsBeside
<1>3. ASSUME NEW p \in Publishers, Publish(p), UNCHANGED replacement
      PROVE  ShadowInv'
  BY <1>3, Opens, ReadsHalf, VerifiesAnew, ChecksAndSettles, FailsAnywhere, FillsArtifacts, RenamesReport
     DEF Publish
<1>4. CASE \/ \E g \in Generations : WriteAnswer(1, g) /\ UNCHANGED replacement
           \/ \E t \in Texts : WriteAnswer(2, t) /\ UNCHANGED replacement
  BY <1>4, Answers
<1> QED
  BY <1>1, <1>2, <1>3, <1>4 DEF ShadowNext

LEMMA ShadowInvSound == ShadowInv => ShadowSound
<1> SUFFICES ASSUME ShadowInv PROVE ShadowSound
  OBVIOUS
<1>1. ShadowReportsStand
  BY DEF ShadowInv, ReportsOf, ShadowReportsStand, Whole
<1>2. ResultIsTrue
  <2> SUFFICES ASSUME NEW p \in Publishers
               PROVE  /\ pub[p].at = "new" => [id |-> Identity(p), by |-> p] \in reports
                      /\ pub[p].at = "reused" => Final(p) # {}
                      /\ pub[p].at \in {"reused", "failed"} => [id |-> Identity(p), by |-> p] \notin reports
    BY DEF ResultIsTrue
  <2>1. PublicationOK(p, pub[p]) /\ IdOf(pub[p]) = Identity(p)
    BY DEF ShadowInv, IdOf, Identity
  <2>2. [id |-> Identity(p), by |-> p] \in reports => pub[p].at \in Published
    BY DEF ShadowInv, ReportsOf
  <2> QED
    BY <2>1, <2>2 DEF PublicationOK, Published, Final
<1> QED
  BY <1>1, <1>2 DEF ShadowSound

\* However publications overlap with each other, with the commands of the generations
\* and with the operator's writes of the answer, and wherever they stop, a published
\* shadow report is whole, of a generation that was read back before its commit and of
\* an answer that stood in the file and echoed it; and what a publication told its
\* operator, a new report, a reused one or a failure that left none, stays true
\* (weekly_shadow_01_report_publisher).
THEOREM ShadowSafe == ShadowSpec => []ShadowSound
<1>1. ShadowInv /\ [ShadowNext]_<<replacement, shadow>> => ShadowInv'
  BY ShadowStep
<1> QED
  BY ShadowInitInv, <1>1, ShadowInvSound, PTL DEF ShadowSpec
=============================================================================
