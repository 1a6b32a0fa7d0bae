------------------------- MODULE BondingCurveProofs -------------------------
(***************************************************************************)
(* What BondingCurve promises for every launch, amount and fee.  All of it *)
(* follows from one fact about the reserves: their product never falls     *)
(* below that of the launch, because each formula rounds for the curve.    *)
(***************************************************************************)
EXTENDS BondingCurve, TLAPS

(***************************************************************************)
(* Arithmetic of reserves whose product is kept: s and k are the reserves  *)
(* of SOL and of tokens, a an amount of SOL, t a number of tokens.  The    *)
(* prices are quotients of such products, rounded down.                    *)
(***************************************************************************)
\* A product keeps order.
LEMMA TimesMonotone ==
  ASSUME NEW a \in Nat, NEW b \in Nat, NEW c \in Nat, a <= b
  PROVE  a * c \in Nat /\ b * c \in Nat /\ a * c <= b * c
<1>1. PICK d \in Nat : b = a + d
  BY b - a \in Nat
<1>2. b * c = a * c + d * c
  BY <1>1
<1>3. d * c \in Nat /\ a * c \in Nat /\ b * c \in Nat
  OBVIOUS
<1> QED
  BY <1>2, <1>3

\* A strict inequality of products loses its common factor.
LEMMA TimesCancel ==
  ASSUME NEW a \in Nat, NEW b \in Nat, NEW c \in Nat, a * c < b * c
  PROVE  a < b
<1>1. SUFFICES ASSUME b <= a PROVE FALSE
  OBVIOUS
<1>2. b * c <= a * c
  BY <1>1, TimesMonotone
<1> QED
  BY <1>2, a * c \in Nat, b * c \in Nat

\* Division rounds down.
LEMMA DivBounds ==
  ASSUME NEW n \in Nat, NEW d \in Nat \ {0}
  PROVE  n \div d \in Nat /\ (n \div d) * d <= n /\ n < (n \div d + 1) * d
OBVIOUS

LEMMA DivAtMost ==
  ASSUME NEW n \in Nat, NEW d \in Nat \ {0}, NEW m \in Nat, n < (m + 1) * d
  PROVE  n \div d <= m
<1> DEFINE q == n \div d
<1>1. q \in Nat /\ q * d <= n
  BY DivBounds
<1> HIDE DEF q
<1>2. q * d < (m + 1) * d
  BY <1>1, q * d \in Nat, (m + 1) * d \in Nat
<1>3. q < m + 1
  BY <1>1, <1>2, TimesCancel
<1> QED
  BY <1>1, <1>3 DEF q

LEMMA DivAtLeast ==
  ASSUME NEW n \in Nat, NEW d \in Nat \ {0}, NEW m \in Nat, m * d <= n
  PROVE  m <= n \div d
<1> DEFINE q == n \div d
<1>1. q \in Nat /\ n < (q + 1) * d
  BY DivBounds
<1> HIDE DEF q
<1>2. m * d < (q + 1) * d
  BY <1>1, m * d \in Nat, (q + 1) * d \in Nat
<1>3. m < q + 1
  BY <1>1, <1>2, TimesCancel
<1> QED
  BY <1>1, <1>3 DEF q

-----------------------------------------------------------------------------
\* What must remain of the tokens when an amount comes in.
LEMMA Remainder ==
  ASSUME NEW s \in Nat, NEW k \in Nat \ {0}, NEW a \in Nat \ {0}
  PROVE  LET q == (s * k) \div (s + a)
         IN  /\ q \in Nat /\ q < k
             /\ q * (s + a) <= s * k
             /\ s * k < (q + 1) * (s + a)
<1> DEFINE q == (s * k) \div (s + a)
<1>1. q \in Nat /\ q * (s + a) <= s * k /\ s * k < (q + 1) * (s + a)
  BY DivBounds, s * k \in Nat, s + a \in Nat \ {0}
<1> HIDE DEF q
<1>2. s * k < k * (s + a)
  <2>1. k * (s + a) = s * k + k * a
    OBVIOUS
  <2>2. k * a \in Nat \ {0}
    OBVIOUS
  <2> QED
    BY <2>1, <2>2, s * k \in Nat
<1>3. q * (s + a) < k * (s + a)
  BY <1>1, <1>2, q * (s + a) \in Nat, s * k \in Nat, k * (s + a) \in Nat
<1>4. q < k
  BY <1>1, <1>3, TimesCancel, s + a \in Nat
<1> QED
  BY <1>1, <1>4 DEF q

\* Tokens that were quoted for an amount cost no more than it, also when the
\* reserves have moved in favour of the buyer since.
LEMMA QuotedCost ==
  ASSUME NEW s \in Nat, NEW k \in Nat \ {0}, NEW a \in Nat \ {0},
         NEW t \in Nat, t + (s * k) \div (s + a) + 1 <= k,
         NEW s1 \in Nat, NEW k1 \in Nat, s1 <= s, k <= k1
  PROVE  k1 - t \in Nat \ {0} /\ (t * s1) \div (k1 - t) + 1 <= a
<1> DEFINE q == (s * k) \div (s + a)
           m == k - t
           m1 == k1 - t
<1>1. q \in Nat /\ s * k < (q + 1) * (s + a)
  BY Remainder
<1> HIDE DEF q
<1>2. m \in Nat \ {0} /\ q + 1 <= m /\ m <= m1 /\ m1 \in Nat \ {0}
  BY <1>1 DEF q
<1>3. (q + 1) * (s + a) <= m * (s + a)
  BY <1>1, <1>2, TimesMonotone, s + a \in Nat
<1>4. s * k < m * (s + a)
  BY <1>1, <1>2, <1>3, s * k \in Nat, (q + 1) * (s + a) \in Nat, m * (s + a) \in Nat
<1>5. t * s < m * a
  <2>1. t * s = s * k - m * s
    OBVIOUS
  <2>2. m * (s + a) = m * s + m * a
    BY <1>2
  <2> QED
    BY <1>2, <1>4, <2>1, <2>2, s * k \in Nat, m * s \in Nat, m * a \in Nat
<1>6. t * s1 <= t * s /\ t * s1 \in Nat /\ t * s \in Nat
  BY TimesMonotone
<1>7. m * a <= m1 * a /\ m * a \in Nat /\ m1 * a \in Nat
  BY <1>2, TimesMonotone
<1>8. t * s1 < ((a - 1) + 1) * m1
  <2>1. ((a - 1) + 1) * m1 = m1 * a
    BY <1>2
  <2> QED
    BY <1>5, <1>6, <1>7, <2>1
<1>9. (t * s1) \div m1 <= a - 1
  BY <1>2, <1>6, <1>8, DivAtMost, a - 1 \in Nat
<1> QED
  BY <1>2, <1>6, <1>9, DivBounds

\* A purchase at its cost keeps the product.
LEMMA BuyKeepsProduct ==
  ASSUME NEW s \in Nat, NEW k \in Nat, NEW t \in Nat, t < k
  PROVE  LET cost == (t * s) \div (k - t) + 1
         IN  /\ cost \in Nat \ {0}
             /\ s * k <= (s + cost) * (k - t)
<1> DEFINE m == k - t
           d == (t * s) \div m
<1>1. m \in Nat \ {0} /\ k = m + t
  OBVIOUS
<1>2. d \in Nat /\ t * s < (d + 1) * m
  BY <1>1, DivBounds, t * s \in Nat
<1> HIDE DEF d, m
<1>3. (s + (d + 1)) * m = s * m + (d + 1) * m
  BY <1>1, <1>2
<1>4. s * k = s * m + t * s
  BY <1>1
<1>5. s * m \in Nat /\ t * s \in Nat /\ (d + 1) * m \in Nat
  BY <1>1, <1>2
<1>6. s * k <= (s + (d + 1)) * m
  BY <1>2, <1>3, <1>4, <1>5
<1> QED
  BY <1>2, <1>6 DEF d, m

\* A sale for its price keeps the product; the price is less than the reserve.
LEMMA SaleKeepsProduct ==
  ASSUME NEW s \in Nat, NEW k \in Nat \ {0}, NEW t \in Nat
  PROVE  LET n == (t * s) \div (k + t)
         IN  /\ n \in Nat /\ n <= s
             /\ s * k <= (s - n) * (k + t)
<1> DEFINE n == (t * s) \div (k + t)
<1>1. n \in Nat /\ n * (k + t) <= t * s
  BY DivBounds, t * s \in Nat, k + t \in Nat \ {0}
<1>2. n <= s
  <2>1. t * s < (s + 1) * (k + t)
    <3>1. (s + 1) * (k + t) = s * k + t * s + k + t
      OBVIOUS
    <3> QED
      BY <3>1, s * k \in Nat, t * s \in Nat
  <2> QED
    BY <2>1, DivAtMost, t * s \in Nat, k + t \in Nat \ {0}
<1> HIDE DEF n
<1>3. (s - n) * (k + t) = s * k + t * s - n * (k + t)
  BY <1>1
<1>4. s * k <= (s - n) * (k + t)
  BY <1>1, <1>3, s * k \in Nat, t * s \in Nat, n * (k + t) \in Nat
<1> QED
  BY <1>1, <1>2, <1>4 DEF n

\* Whoever sells what was bought at a cost gets no more than the cost.
LEMMA SaleAfterBuy ==
  ASSUME NEW s \in Nat, NEW m \in Nat \ {0}, NEW t \in Nat, NEW cost \in Nat,
         s * (m + t) <= (s + cost) * m
  PROVE  (t * (s + cost)) \div (m + t) <= cost
<1>1. t * (s + cost) < (cost + 1) * (m + t)
  <2>1. (cost + 1) * (m + t) = cost * m + cost * t + m + t
    OBVIOUS
  <2>2. t * (s + cost) = s * t + cost * t
    OBVIOUS
  <2>3. s * t <= cost * m
    <3>1. s * (m + t) = s * m + s * t /\ (s + cost) * m = s * m + cost * m
      OBVIOUS
    <3> QED
      BY <3>1, s * m \in Nat, s * t \in Nat, cost * m \in Nat
  <2> QED
    BY <2>1, <2>2, <2>3, s * t \in Nat, cost * m \in Nat, cost * t \in Nat
<1> QED
  BY <1>1, DivAtMost, t * (s + cost) \in Nat, m + t \in Nat \ {0}

\* A reserve that has no more tokens, and a product no smaller, has no less SOL.
LEMMA SolAtLeast ==
  ASSUME NEW s \in Nat, NEW k \in Nat, NEW s0 \in Nat, NEW k0 \in Nat \ {0},
         k <= k0, s0 * k0 <= s * k
  PROVE  s0 <= s
<1>1. SUFFICES ASSUME s < s0 PROVE FALSE
  OBVIOUS
<1>2. s * k <= s * k0 /\ s * k \in Nat /\ s * k0 \in Nat
  BY TimesMonotone, k * s = s * k, k0 * s = s * k0
<1>3. (s + 1) * k0 <= s0 * k0 /\ s0 * k0 \in Nat
  BY <1>1, TimesMonotone
<1>4. (s + 1) * k0 = s * k0 + k0
  OBVIOUS
<1> QED
  BY <1>2, <1>3, <1>4

\* With more SOL and fewer tokens in the reserves an amount buys no more.
LEMMA QuoteFalls ==
  ASSUME NEW s0 \in Nat, NEW k0 \in Nat \ {0}, NEW s \in Nat, NEW k \in Nat \ {0},
         NEW a \in Nat \ {0}, s0 <= s, k <= k0
  PROVE  k - ((s * k) \div (s + a)) <= k0 - ((s0 * k0) \div (s0 + a))
<1> DEFINE q  == (s * k) \div (s + a)
           q0 == (s0 * k0) \div (s0 + a)
           u  == k0 - q0
<1>1. q \in Nat /\ q < k
  BY Remainder
<1>2. q0 \in Nat /\ q0 < k0 /\ q0 * (s0 + a) <= s0 * k0
  BY Remainder
<1>3. s * k \in Nat /\ s + a \in Nat \ {0}
  OBVIOUS
<1>4. SUFFICES ASSUME u < k PROVE k - u <= q
  BY <1>1, <1>2, <1>3
<1>5. k - u \in Nat /\ u \in Nat
  BY <1>2, <1>4
<1>6. (k - u) * (s + a) <= s * k
  <2> HIDE DEF q0, q
  <2>1. q0 = k0 - u
    BY <1>2
  <2> HIDE DEF u
  <2>2. (k0 - u) * (s0 + a) = s0 * k0 + k0 * a - u * (s0 + a)
    BY <1>5
  <2>3. k0 * a <= u * (s0 + a)
    BY <1>2, <1>5, <2>1, <2>2, s0 * k0 \in Nat, k0 * a \in Nat, u * (s0 + a) \in Nat
  <2>4. u * (s0 + a) <= u * (s + a)
    BY <1>5, TimesMonotone, (s0 + a) * u = u * (s0 + a), (s + a) * u = u * (s + a),
       s0 + a \in Nat, s + a \in Nat
  <2>5. k * a <= k0 * a
    BY TimesMonotone
  <2>6. k * a <= u * (s + a)
    BY <1>5, <2>3, <2>4, <2>5, k * a \in Nat, k0 * a \in Nat, u * (s0 + a) \in Nat,
       u * (s + a) \in Nat
  <2>7. (k - u) * (s + a) = s * k + k * a - u * (s + a)
    BY <1>5
  <2> QED
    BY <1>3, <1>5, <2>6, <2>7, k * a \in Nat, u * (s + a) \in Nat
<1> QED
  BY <1>3, <1>5, <1>6, DivAtLeast

\* The two formulas for the tokens that an amount buys differ by one at most.
LEMMA FormulasAgree ==
  ASSUME NEW s \in Nat, NEW k \in Nat \ {0}, NEW a \in Nat \ {0}
  PROVE  LET x == (a * k) \div (s + a)
             q == (s * k) \div (s + a)
         IN  /\ x \in Nat
             /\ x = k - (q + 1) \/ x = k - q
<1> DEFINE x == (a * k) \div (s + a)
           q == (s * k) \div (s + a)
<1>1. x \in Nat /\ x * (s + a) <= a * k /\ a * k < (x + 1) * (s + a)
  BY DivBounds, a * k \in Nat, s + a \in Nat \ {0}
<1>2. q \in Nat /\ q < k /\ q * (s + a) <= s * k /\ s * k < (q + 1) * (s + a)
  BY Remainder
<1> HIDE DEF x, q
<1>3. a * k + s * k = k * (s + a)
  OBVIOUS
<1>4. x + q <= k
  <2>1. (x + q) * (s + a) = x * (s + a) + q * (s + a)
    BY <1>1, <1>2
  <2>2. (k + 1) * (s + a) = k * (s + a) + (s + a)
    OBVIOUS
  <2>3. (x + q) * (s + a) < (k + 1) * (s + a)
    BY <1>1, <1>2, <1>3, <2>1, <2>2, x * (s + a) \in Nat, q * (s + a) \in Nat,
       a * k \in Nat, s * k \in Nat
  <2>4. x + q < k + 1
    BY <1>1, <1>2, <2>3, TimesCancel, x + q \in Nat, k + 1 \in Nat, s + a \in Nat
  <2> QED
    BY <1>1, <1>2, <2>4
<1>5. k < x + q + 2
  <2>1. (x + q + 2) * (s + a) = (x + 1) * (s + a) + (q + 1) * (s + a)
    BY <1>1, <1>2
  <2>2. k * (s + a) < (x + q + 2) * (s + a)
    BY <1>1, <1>2, <1>3, <2>1, (x + 1) * (s + a) \in Nat, (q + 1) * (s + a) \in Nat,
       a * k \in Nat, s * k \in Nat
  <2> QED
    BY <1>1, <1>2, <2>2, TimesCancel, x + q + 2 \in Nat, s + a \in Nat
<1>6. x = k - (q + 1) \/ x = k - q
  BY <1>1, <1>2, <1>4, <1>5
<1> QED
  BY <1>1, <1>6 DEF x, q

(***************************************************************************)
(* The accounts of a curve.                                                *)
(***************************************************************************)
Gap == InitialTokens - InitialReal

\* The accounts that trades lead to.
Legal(c) ==
  /\ c \in Curves
  /\ c.real_token_reserves <= InitialReal
  /\ c.virtual_token_reserves = c.real_token_reserves + Gap
  /\ c.virtual_sol_reserves = c.real_sol_reserves + InitialSol
  /\ InitialSol * InitialTokens <= c.virtual_sol_reserves * c.virtual_token_reserves
  /\ c.complete <=> c.real_token_reserves = 0

Ordered ==
  trader = "ordered" =>
    /\ ~seen.complete
    /\ order.spend \in 1 .. (Word - 1)
    /\ order = BuyOrder(seen, order.spend)

Inv == TypeOK /\ Legal(curve) /\ Legal(seen) /\ Ordered

-----------------------------------------------------------------------------
LEMMA ConstantTypes ==
  /\ Word \in Nat \ {0}
  /\ InitialTokens \in Nat \ {0} /\ InitialTokens < Word
  /\ InitialSol \in Nat \ {0} /\ InitialSol < Word
  /\ InitialReal \in Nat \ {0} /\ InitialReal < InitialTokens
  /\ Gap \in Nat \ {0} /\ InitialTokens = InitialReal + Gap
  /\ FEE_BASIS_POINTS \in Nat /\ CREATOR_FEE \in Nat /\ Slippage \in Nat
BY CurveAssumption DEF Gap

LEMMA U64Exact ==
  ASSUME NEW n \in Nat, n < Word
  PROVE  U64(n) = n
BY ConstantTypes DEF U64

LEMMA U64AtMost ==
  ASSUME NEW n \in Nat
  PROVE  U64(n) \in Nat /\ U64(n) <= n
BY ConstantTypes DEF U64

\* The fields of a legal account as numbers.
LEMMA LegalFields ==
  ASSUME NEW c, Legal(c)
  PROVE  /\ c.virtual_token_reserves \in Nat \ {0}
         /\ c.virtual_token_reserves <= InitialTokens
         /\ c.virtual_sol_reserves \in Nat \ {0}
         /\ InitialSol <= c.virtual_sol_reserves
         /\ c.real_token_reserves \in Nat
         /\ c.real_sol_reserves \in Nat
         /\ c.complete \in BOOLEAN
         /\ FeeOf(c) \in Nat
BY ConstantTypes DEF Legal, Curves, FeeOf

LEMMA LaunchLegal ==
  ASSUME NEW creator \in BOOLEAN
  PROVE  Legal(Launched(creator))
BY ConstantTypes DEF Legal, Launched, Curves

\* What a move of tokens and SOL makes of the fields.
LEMMA MovedFields ==
  ASSUME NEW c, Legal(c), NEW tokens \in Int, NEW sol \in Int
  PROVE  LET d == Moved(c, tokens, sol)
         IN  /\ d.virtual_token_reserves = c.virtual_token_reserves - tokens
             /\ d.real_token_reserves = c.real_token_reserves - tokens
             /\ d.virtual_sol_reserves = c.virtual_sol_reserves + sol
             /\ d.real_sol_reserves = c.real_sol_reserves + sol
             /\ d.complete = (c.real_token_reserves = tokens)
             /\ d.creator = c.creator
             /\ (c.real_token_reserves - tokens \in Nat /\ c.real_sol_reserves + sol \in Nat)
                  => d \in Curves
<1> DEFINE d == Moved(c, tokens, sol)
<1>1. /\ d.virtual_token_reserves = c.virtual_token_reserves - tokens
      /\ d.real_token_reserves = c.real_token_reserves - tokens
      /\ d.virtual_sol_reserves = c.virtual_sol_reserves + sol
      /\ d.real_sol_reserves = c.real_sol_reserves + sol
      /\ d.complete = (c.real_token_reserves = tokens)
      /\ d.creator = c.creator
  BY DEF Moved
<1>2. ASSUME c.real_token_reserves - tokens \in Nat, c.real_sol_reserves + sol \in Nat
      PROVE  d \in Curves
  <2>1. /\ c.virtual_token_reserves - tokens \in Nat
        /\ c.virtual_sol_reserves + sol \in Nat
    BY <1>2, ConstantTypes, LegalFields DEF Legal
  <2>2. c.creator \in BOOLEAN /\ (c.real_token_reserves = tokens) \in BOOLEAN
    BY DEF Legal, Curves
  <2> QED
    BY <1>2, <2>1, <2>2 DEF Moved, Curves
<1> QED
  BY <1>1, <1>2

\* A move that keeps the product and takes no more than the real reserves
\* leads from a legal account to a legal one.
LEMMA MovedLegal ==
  ASSUME NEW c, Legal(c), NEW tokens \in Int, NEW sol \in Int,
         c.real_token_reserves - tokens \in 0 .. InitialReal,
         c.real_sol_reserves + sol \in Nat,
         c.virtual_sol_reserves * c.virtual_token_reserves
           <= (c.virtual_sol_reserves + sol) * (c.virtual_token_reserves - tokens)
  PROVE  Legal(Moved(c, tokens, sol))
<1> DEFINE d == Moved(c, tokens, sol)
           before == c.virtual_sol_reserves * c.virtual_token_reserves
           after == d.virtual_sol_reserves * d.virtual_token_reserves
<1>1. /\ d.virtual_token_reserves = c.virtual_token_reserves - tokens
      /\ d.real_token_reserves = c.real_token_reserves - tokens
      /\ d.virtual_sol_reserves = c.virtual_sol_reserves + sol
      /\ d.real_sol_reserves = c.real_sol_reserves + sol
      /\ d \in Curves
  BY MovedFields, ConstantTypes
<1>0. d.complete = (c.real_token_reserves = tokens)
  BY DEF Moved
<1>2. InitialSol * InitialTokens <= before /\ before <= after
  BY <1>1 DEF Legal
<1> HIDE DEF d
<1>3. InitialSol * InitialTokens \in Nat /\ before \in Nat /\ after \in Nat
  BY <1>1, ConstantTypes, LegalFields DEF Curves
<1>4. InitialSol * InitialTokens <= after
  BY <1>2, <1>3
<1>5. /\ d.virtual_token_reserves = d.real_token_reserves + Gap
      /\ d.virtual_sol_reserves = d.real_sol_reserves + InitialSol
      /\ d.real_token_reserves <= InitialReal
      /\ c.real_token_reserves = tokens <=> d.real_token_reserves = 0
  <2>1. /\ c.real_token_reserves \in Nat /\ c.real_sol_reserves \in Nat
        /\ c.virtual_token_reserves = c.real_token_reserves + Gap
        /\ c.virtual_sol_reserves = c.real_sol_reserves + InitialSol
    BY LegalFields DEF Legal
  <2>2. d.real_token_reserves = c.real_token_reserves - tokens /\ tokens \in Int
    BY <1>1
  <2>3. c.real_token_reserves = tokens <=> d.real_token_reserves = 0
    BY <2>1, <2>2
  <2>4. d.virtual_token_reserves = d.real_token_reserves + Gap
    BY <1>1, <2>1, <2>2, ConstantTypes
  <2>5. d.virtual_sol_reserves = d.real_sol_reserves + InitialSol
    BY <1>1, <2>1, ConstantTypes
  <2>6. d.real_token_reserves <= InitialReal
    BY <2>1, <2>2, ConstantTypes
  <2> QED
    BY <2>3, <2>4, <2>5, <2>6
<1>6. d.complete <=> d.real_token_reserves = 0
  BY <1>0, <1>5, Zenon
<1>7. Legal(d)
  BY <1>1, <1>4, <1>5, <1>6 DEF Legal
<1> QED
  BY <1>7 DEF d

LEMMA BoughtLegal ==
  ASSUME NEW c, Legal(c), NEW tokens \in Nat, tokens <= c.real_token_reserves
  PROVE  Legal(Bought(c, tokens)) /\ Cost(c, tokens) \in Nat \ {0}
<1>1. tokens < c.virtual_token_reserves
  BY ConstantTypes, LegalFields DEF Legal
<1>2. /\ Cost(c, tokens) \in Nat \ {0}
      /\ c.virtual_sol_reserves * c.virtual_token_reserves
           <= (c.virtual_sol_reserves + Cost(c, tokens)) * (c.virtual_token_reserves - tokens)
  BY <1>1, LegalFields, BuyKeepsProduct DEF Cost
<1>3. c.real_token_reserves - tokens \in 0 .. InitialReal
  BY ConstantTypes, LegalFields DEF Legal
<1>4. c.real_sol_reserves + Cost(c, tokens) \in Nat
  BY <1>2, LegalFields
<1> QED
  BY <1>2, <1>3, <1>4, MovedLegal DEF Bought

\* The real SOL reserves cover every sale of what has been bought.
LEMMA SaleCovered ==
  ASSUME NEW c, Legal(c), NEW tokens \in Nat,
         tokens <= InitialReal - c.real_token_reserves
  PROVE  /\ SolFor(c, tokens) \in Nat
         /\ SolFor(c, tokens) <= c.real_sol_reserves
         /\ Legal(Sold(c, tokens))
<1> DEFINE s == c.virtual_sol_reserves
           k == c.virtual_token_reserves
           n == SolFor(c, tokens)
<1>1. s \in Nat /\ k \in Nat \ {0}
  BY LegalFields
<1>2. n \in Nat /\ n <= s /\ s * k <= (s - n) * (k + tokens)
  BY <1>1, SaleKeepsProduct DEF SolFor
<1> HIDE DEF n
<1>3. k + tokens \in Nat /\ k + tokens <= InitialTokens /\ s - n \in Nat
  BY <1>1, <1>2, ConstantTypes, LegalFields DEF Legal
<1>4. InitialSol * InitialTokens <= (s - n) * (k + tokens)
  <2>1. InitialSol * InitialTokens <= s * k
    BY DEF Legal
  <2>2. InitialSol * InitialTokens \in Nat /\ s * k \in Nat /\ (s - n) * (k + tokens) \in Nat
    BY <1>1, <1>3, ConstantTypes
  <2> QED
    BY <1>2, <2>1, <2>2
<1>5. InitialSol <= s - n
  BY <1>3, <1>4, ConstantTypes, SolAtLeast
<1>6. n <= c.real_sol_reserves
  BY <1>2, <1>5, ConstantTypes, LegalFields DEF Legal
<1>7. Legal(Moved(c, -tokens, -n))
  <2>1. /\ -tokens \in Int /\ -n \in Int
        /\ c.real_token_reserves - (-tokens) \in 0 .. InitialReal
        /\ c.real_sol_reserves + (-n) \in Nat
        /\ s + (-n) = s - n /\ k - (-tokens) = k + tokens
    BY <1>1, <1>2, <1>6, ConstantTypes, LegalFields DEF Legal
  <2>2. s * k <= (s + (-n)) * (k - (-tokens))
    BY <1>2, <2>1
  <2> QED
    BY <2>1, <2>2, MovedLegal
<1> QED
  BY <1>2, <1>6, <1>7 DEF Sold, n

\* What get_buy_price returns: no step of it leaves u64.
LEMMA QuoteExact ==
  ASSUME NEW c, Legal(c), ~c.complete, NEW a \in Nat \ {0}
  PROVE  LET left == (c.virtual_sol_reserves * c.virtual_token_reserves)
                       \div (c.virtual_sol_reserves + a)
             tokens == get_buy_price(c, a)
         IN  /\ left \in Nat /\ left < c.virtual_token_reserves
             /\ tokens = Least(c.virtual_token_reserves - (left + 1), c.real_token_reserves)
             /\ tokens \in Nat /\ tokens <= c.real_token_reserves
             /\ tokens + left + 1 <= c.virtual_token_reserves
<1> DEFINE s == c.virtual_sol_reserves
           k == c.virtual_token_reserves
           left == (s * k) \div (s + a)
           most == k - (left + 1)
<1>1. /\ s \in Nat /\ k \in Nat \ {0} /\ k < Word
      /\ c.real_token_reserves \in Nat
  BY LegalFields, ConstantTypes
<1>2. left \in Nat /\ left < k
  BY <1>1, Remainder
<1>3. TokensFor(s, k, a) = U64(most)
  BY DEF TokensFor
<1>4. get_buy_price(c, a) = Least(TokensFor(s, k, a), c.real_token_reserves)
  BY DEF get_buy_price
<1> HIDE DEF left
<1>5. most \in Nat /\ most < Word
  BY <1>1, <1>2, ConstantTypes
<1>6. U64(most) = most
  BY <1>5, U64Exact
<1>7. get_buy_price(c, a) = Least(most, c.real_token_reserves)
  BY <1>3, <1>4, <1>6
<1>8. /\ get_buy_price(c, a) \in Nat
      /\ get_buy_price(c, a) <= c.real_token_reserves
      /\ get_buy_price(c, a) <= most
  BY <1>1, <1>5, <1>7 DEF Least
<1>9. get_buy_price(c, a) + left + 1 <= k
  BY <1>1, <1>2, <1>8
<1> QED
  BY <1>2, <1>7, <1>8, <1>9 DEF left

-----------------------------------------------------------------------------
LEMMA InitInv == Init => Inv
<1> SUFFICES ASSUME Init PROVE Inv
  OBVIOUS
<1>1. Legal(curve) /\ Legal(seen)
  BY LaunchLegal DEF Init, NoCopy
<1>2. TypeOK
  BY <1>1 DEF Init, TypeOK, Legal, NoOrder, Orders
<1> QED
  BY <1>1, <1>2 DEF Init, Inv, Ordered

LEMMA OrderKeeps ==
  ASSUME Inv, NEW amount \in Amounts, Order(amount)
  PROVE  Inv'
<1> USE DEF Inv
<1>0. amount \in Nat \ {0} /\ amount \in 1 .. (Word - 1)
  BY CurveAssumption
<1>1. CASE ~curve.complete /\ order' = BuyOrder(curve, amount) /\ trader' = "ordered"
           /\ seen' = curve /\ UNCHANGED curve
  <2>1. get_buy_price(curve, amount) \in Nat
    BY <1>0, <1>1, QuoteExact
  <2>2. U64(amount + U64(amount * Slippage) \div 10000) \in Nat
    <3>1. amount * Slippage \in Nat
      BY <1>0, ConstantTypes
    <3>2. U64(amount * Slippage) \div 10000 \in Nat
      BY <3>1, U64AtMost, DivBounds
    <3> QED
      BY <1>0, <3>2, U64AtMost, amount + U64(amount * Slippage) \div 10000 \in Nat
  <2>3. order'.spend = amount /\ order' \in Orders
    BY <1>0, <1>1, <2>1, <2>2 DEF BuyOrder, Orders
  <2>4. order' = BuyOrder(seen, order.spend)'
    BY <1>1, <2>3 DEF BuyOrder
  <2> QED
    BY <1>0, <1>1, <2>3, <2>4 DEF TypeOK, Ordered, Legal
<1>2. CASE trader' \in {"failed", "panicked"} /\ UNCHANGED <<curve, seen, order>>
  BY <1>2 DEF TypeOK, Ordered, Legal
<1> QED
  BY <1>1, <1>2 DEF Order

LEMMA FillKeeps ==
  ASSUME Inv, Fill
  PROVE  Inv'
<1>1. order.amount \in Nat /\ order.amount <= curve.real_token_reserves
  BY DEF Inv, TypeOK, Orders, Fill, Fillable
<1>2. Legal(Bought(curve, order.amount))
  BY <1>1, BoughtLegal DEF Inv
<1>3. Legal(curve') /\ Legal(seen')
  BY <1>2, LaunchLegal DEF Fill, NoCopy
<1>4. TypeOK'
  BY <1>3 DEF TypeOK, Fill, Legal, NoOrder, Orders
<1> QED
  BY <1>3, <1>4 DEF Inv, Ordered, Fill, Legal

LEMMA LoseKeeps ==
  ASSUME Inv, Lose
  PROVE  Inv'
<1>1. Legal(curve') /\ Legal(seen')
  BY LaunchLegal DEF Inv, Lose, NoCopy
<1>2. TypeOK'
  BY <1>1 DEF TypeOK, Lose, Legal, NoOrder, Orders
<1> QED
  BY <1>1, <1>2 DEF Inv, Ordered, Lose, Legal

LEMMA TradeKeeps ==
  ASSUME Inv, Legal(curve'), UNCHANGED <<trader, seen, order>>
  PROVE  Inv'
BY DEF Inv, TypeOK, Ordered, Legal, BuyOrder

LEMMA NextInv == Inv /\ [Next]_vars => Inv'
<1> SUFFICES ASSUME Inv, [Next]_vars PROVE Inv'
  OBVIOUS
<1>1. CASE \E amount \in Amounts : Order(amount)
  BY <1>1, OrderKeeps
<1>2. CASE Fill
  BY <1>2, FillKeeps
<1>3. CASE Lose
  BY <1>3, LoseKeeps
<1>4. ASSUME NEW tokens \in Lots, OtherBuys(tokens) PROVE Inv'
  <2>1. tokens \in Nat /\ tokens <= curve.real_token_reserves
    BY <1>4, CurveAssumption DEF OtherBuys
  <2>2. Legal(Bought(curve, tokens))
    BY <2>1, BoughtLegal DEF Inv
  <2> QED
    BY <1>4, <2>2, TradeKeeps DEF OtherBuys
<1>5. ASSUME NEW tokens \in Lots, OtherSells(tokens) PROVE Inv'
  <2>1. tokens \in Nat /\ tokens <= InitialReal - curve.real_token_reserves
    BY <1>5, CurveAssumption DEF OtherSells
  <2>2. Legal(Sold(curve, tokens))
    BY <2>1, SaleCovered DEF Inv
  <2> QED
    BY <1>5, <2>2, TradeKeeps DEF OtherSells
<1>6. CASE UNCHANGED vars
  BY <1>6, TradeKeeps DEF vars, Inv, Legal
<1> QED
  BY <1>1, <1>2, <1>3, <1>4, <1>5, <1>6 DEF Next

LEMMA Invariance == Spec => []Inv
BY InitInv, NextInv, PTL DEF Spec

-----------------------------------------------------------------------------
\* The reserves and orders are what they should be, through all trades.
THEOREM TypeCorrect == Spec => []TypeOK
<1>1. Inv => TypeOK
  BY DEF Inv
<1> QED
  BY <1>1, Invariance, PTL

\* get_sell_price never quotes more SOL than the buyers have paid in.
THEOREM AlwaysSolvent == Spec => []Solvent
<1>1. ASSUME Inv, ~curve.complete,
             NEW tokens \in 1 .. (InitialReal - curve.real_token_reserves)
      PROVE  get_sell_price(curve, tokens, 0) <= curve.real_sol_reserves
  <2> DEFINE n == SolFor(curve, tokens)
  <2>1. tokens \in Nat \ {0} /\ tokens <= InitialReal - curve.real_token_reserves
    BY <1>1, ConstantTypes, LegalFields DEF Inv
  <2>2. n \in Nat /\ n <= curve.real_sol_reserves
    BY <1>1, <2>1, SaleCovered DEF Inv
  <2>3. get_sell_price(curve, tokens, 0) = U64(n - (n * 0) \div 10000)
    BY <1>1, <2>1 DEF get_sell_price
  <2> HIDE DEF n
  <2>4. n - (n * 0) \div 10000 = n
    BY <2>2
  <2> QED
    BY <1>1, <2>2, <2>3, <2>4, U64AtMost, LegalFields DEF Inv
<1>2. Inv => Solvent
  BY <1>1 DEF Solvent
<1> QED
  BY <1>2, Invariance, PTL

-----------------------------------------------------------------------------
\* Tokens quoted on one legal account cost at most the amount on another that
\* is at least as cheap.
LEMMA QuoteCovers ==
  ASSUME NEW c, Legal(c), ~c.complete, NEW d, Legal(d), NEW a \in Nat \ {0},
         d.virtual_sol_reserves <= c.virtual_sol_reserves,
         c.virtual_token_reserves <= d.virtual_token_reserves
  PROVE  LET tokens == get_buy_price(c, a)
         IN  /\ tokens \in Nat /\ tokens <= d.real_token_reserves
             /\ Cost(d, tokens) \in Nat \ {0} /\ Cost(d, tokens) <= a
<1> DEFINE s == c.virtual_sol_reserves
           k == c.virtual_token_reserves
           left == (s * k) \div (s + a)
           tokens == get_buy_price(c, a)
<1>1. tokens \in Nat /\ tokens <= c.real_token_reserves /\ left \in Nat
      /\ tokens + left + 1 <= k
  BY QuoteExact
<1>2. s \in Nat /\ k \in Nat \ {0}
      /\ d.virtual_sol_reserves \in Nat /\ d.virtual_token_reserves \in Nat
  BY LegalFields
<1> HIDE DEF tokens
<1>3. Cost(d, tokens) <= a
  BY <1>1, <1>2, QuotedCost DEF Cost
<1>4. tokens <= d.real_token_reserves
  BY <1>1, ConstantTypes, LegalFields DEF Legal
<1>5. Cost(d, tokens) \in Nat \ {0}
  BY <1>1, <1>4, BoughtLegal
<1> QED
  BY <1>1, <1>3, <1>4, <1>5 DEF tokens

LEMMA BuyOrderFields ==
  ASSUME NEW c, NEW a
  PROVE  /\ BuyOrder(c, a).amount = get_buy_price(c, a)
         /\ BuyOrder(c, a).max_sol_cost = U64(a + U64(a * Slippage) \div 10000)
BY DEF BuyOrder

\* An order is filled whenever nobody has bought more since its quote.
THEOREM OrdersFilled == Spec => []QuoteHonoured
<1>1. ASSUME Inv,
             trader = "ordered",
             curve.virtual_sol_reserves <= seen.virtual_sol_reserves,
             curve.virtual_token_reserves >= seen.virtual_token_reserves,
             FeeOf(curve) <= Slippage,
             order.spend * Slippage < Word,
             order.spend + (order.spend * Slippage) \div 10000 < Word
      PROVE  Fillable(curve, order)
  <2> DEFINE a == order.spend
             cost == Cost(curve, order.amount)
             fee == FeeOf(curve)
  <2>1. /\ Legal(curve) /\ Legal(seen) /\ ~seen.complete
        /\ a \in Nat \ {0}
        /\ order = BuyOrder(seen, a)
    BY <1>1, ConstantTypes DEF Inv, Ordered
  <2>2. /\ order.amount = get_buy_price(seen, a)
        /\ order.max_sol_cost = U64(a + U64(a * Slippage) \div 10000)
    <3> HIDE DEF a
    <3> QED
      BY <2>1, BuyOrderFields
  <2>3. /\ order.amount \in Nat /\ order.amount <= curve.real_token_reserves
        /\ cost \in Nat /\ cost <= a
    BY <1>1, <2>1, <2>2, QuoteCovers, LegalFields
  <2>4. fee \in Nat /\ fee <= Slippage
    BY <1>1, <2>1, LegalFields
  <2> HIDE DEF a, cost, fee
  <2>5. order.max_sol_cost = a + (a * Slippage) \div 10000
    <3>1. a * Slippage \in Nat /\ (a * Slippage) \div 10000 \in Nat
      BY <2>1, ConstantTypes, DivBounds
    <3>2. U64(a * Slippage) = a * Slippage
      BY <1>1, <3>1, U64Exact DEF a
    <3>3. U64(a + (a * Slippage) \div 10000) = a + (a * Slippage) \div 10000
      BY <1>1, <2>1, <3>1, U64Exact, a + (a * Slippage) \div 10000 \in Nat DEF a
    <3> QED
      BY <2>2, <3>2, <3>3
  <2>6. (cost * fee) \div 10000 <= (a * Slippage) \div 10000
    <3>1. cost * fee <= a * fee /\ cost * fee \in Nat
      BY <2>1, <2>3, <2>4, TimesMonotone
    <3>2. fee * a <= Slippage * a /\ Slippage * a \in Nat
      BY <2>1, <2>4, ConstantTypes, TimesMonotone
    <3>3. fee * a = a * fee /\ Slippage * a = a * Slippage
      BY <2>1, <2>4, ConstantTypes
    <3>4. cost * fee <= a * Slippage /\ a * Slippage \in Nat
      BY <2>1, <2>4, <3>1, <3>2, <3>3
    <3>5. /\ (cost * fee) \div 10000 \in Nat
          /\ ((cost * fee) \div 10000) * 10000 <= cost * fee
      BY <3>1, DivBounds
    <3>6. ((cost * fee) \div 10000) * 10000 <= a * Slippage
      BY <3>1, <3>4, <3>5
    <3> QED
      BY <3>4, <3>5, <3>6, DivAtLeast
  <2>7. cost + (cost * fee) \div 10000 <= order.max_sol_cost
    BY <2>1, <2>3, <2>4, <2>5, <2>6, ConstantTypes, DivBounds, cost * fee \in Nat,
       a * Slippage \in Nat
  <2>8. ~curve.complete
    <3>1. seen.real_token_reserves # 0
      BY <2>1 DEF Legal
    <3>2. curve.real_token_reserves # 0
      BY <1>1, <2>1, <3>1, ConstantTypes, LegalFields DEF Legal
    <3> QED
      BY <2>1, <3>2 DEF Legal
  <2> QED
    BY <2>3, <2>7, <2>8 DEF Fillable, cost, fee
<1>2. Inv => QuoteHonoured
  BY <1>1 DEF QuoteHonoured
<1> QED
  BY <1>2, Invariance, PTL

\* A purchase and a sale at the quoted prices never leave a gain.
THEOREM NoGain == Spec => []NoRoundTripGain
<1>1. ASSUME Inv, ~curve.complete, NEW amount \in Amounts
      PROVE  LET tokens == get_buy_price(curve, amount)
             IN  get_sell_price(Bought(curve, tokens), tokens, 0) <= amount
  <2> DEFINE tokens == get_buy_price(curve, amount)
             after  == Bought(curve, tokens)
             cost   == Cost(curve, tokens)
             s      == curve.virtual_sol_reserves
             k      == curve.virtual_token_reserves
             n      == SolFor(after, tokens)
  <2>1. amount \in Nat \ {0} /\ Legal(curve)
    BY <1>1, CurveAssumption DEF Inv
  <2>2. /\ tokens \in Nat /\ tokens <= curve.real_token_reserves
        /\ cost \in Nat \ {0} /\ cost <= amount
    BY <1>1, <2>1, QuoteCovers, LegalFields
  <2>3. /\ s \in Nat /\ k \in Nat /\ tokens < k
        /\ s * k <= (s + cost) * (k - tokens)
    <3>1. s \in Nat /\ k \in Nat /\ tokens < k
      BY <2>1, <2>2, ConstantTypes, LegalFields DEF Legal
    <3> QED
      BY <2>2, <3>1, BuyKeepsProduct DEF Cost
  <2>4. /\ after.virtual_sol_reserves = s + cost
        /\ after.virtual_token_reserves = k - tokens
    BY DEF Bought, Moved
  <2> HIDE DEF tokens, after, cost, s, k
  <2>5. n = (tokens * (s + cost)) \div ((k - tokens) + tokens)
    BY <2>4 DEF SolFor
  <2>6. n \in Nat /\ n <= cost
    <3>1. s * ((k - tokens) + tokens) <= (s + cost) * (k - tokens)
      BY <2>2, <2>3
    <3>2. k - tokens \in Nat \ {0}
      BY <2>2, <2>3
    <3>3. n <= cost
      BY <2>2, <2>3, <2>5, <3>1, <3>2, SaleAfterBuy
    <3>4. n \in Nat
      BY <2>2, <2>3, <2>5, <3>2, DivBounds, tokens * (s + cost) \in Nat,
         (k - tokens) + tokens \in Nat \ {0}
    <3> QED
      BY <3>3, <3>4
  <2> HIDE DEF n
  <2>7. get_sell_price(after, tokens, 0) \in {CurveComplete, 0, U64(n)}
    <3>1. n - (n * 0) \div 10000 = n
      BY <2>6
    <3> QED
      BY <3>1 DEF get_sell_price, n
  <2>8. get_sell_price(after, tokens, 0) <= amount
    BY <2>1, <2>2, <2>6, <2>7, U64AtMost DEF CurveComplete
  <2> QED
    BY <2>8 DEF after, tokens
<1>2. Inv => NoRoundTripGain
  BY <1>1 DEF NoRoundTripGain
<1> QED
  BY <1>2, Invariance, PTL

\* No sequence of trades makes an amount buy more than at the launch.
THEOREM LaunchCheapest == Spec => []LaunchIsCheapest
<1>1. ASSUME Inv, ~curve.complete, NEW amount \in Amounts
      PROVE  get_buy_price(curve, amount) <= get_initial_buy_price(amount)
  <2> DEFINE s == curve.virtual_sol_reserves
             k == curve.virtual_token_reserves
             q == (s * k) \div (s + amount)
             q0 == (InitialSol * InitialTokens) \div (InitialSol + amount)
  <2>1. amount \in Nat \ {0} /\ Legal(curve)
    BY <1>1, CurveAssumption DEF Inv
  <2>2. /\ q \in Nat /\ q < k
        /\ get_buy_price(curve, amount) = Least(k - (q + 1), curve.real_token_reserves)
    BY <1>1, <2>1, QuoteExact
  <2>3. q0 \in Nat /\ q0 < InitialTokens
    BY <2>1, ConstantTypes, Remainder
  <2>4. get_initial_buy_price(amount) = Least(InitialTokens - (q0 + 1), InitialReal)
    <3>1. get_initial_buy_price(amount) =
            Least(U64(InitialTokens - (q0 + 1)), InitialReal)
      BY <2>1 DEF get_initial_buy_price, TokensFor
    <3> HIDE DEF q0
    <3>2. U64(InitialTokens - (q0 + 1)) = InitialTokens - (q0 + 1)
      BY <2>3, ConstantTypes, U64Exact, InitialTokens - (q0 + 1) \in Nat,
         InitialTokens - (q0 + 1) < Word
    <3> QED
      BY <3>1, <3>2
  <2>5. k - q <= InitialTokens - q0
    BY <2>1, ConstantTypes, LegalFields, QuoteFalls
  <2>6. /\ k \in Nat /\ curve.real_token_reserves \in Nat
        /\ curve.real_token_reserves <= InitialReal
    BY <2>1, LegalFields DEF Legal
  <2> HIDE DEF q, q0, k
  <2> QED
    BY <2>2, <2>3, <2>4, <2>5, <2>6, ConstantTypes DEF Least
<1>2. Inv => LaunchIsCheapest
  BY <1>1 DEF LaunchIsCheapest
<1> QED
  BY <1>2, Invariance, PTL

\* The two quotes for a buy agree to one token.
THEOREM QuotesAgreeAlways == Spec => []QuotesAgree
<1>1. ASSUME Inv, ~curve.complete, NEW amount \in Amounts
      PROVE  get_buy_token_amount_from_sol_amount(curve, amount)
               - get_buy_price(curve, NetOf(curve, amount)) \in {0, 1}
  <2> DEFINE s == curve.virtual_sol_reserves
             k == curve.virtual_token_reserves
             real == curve.real_token_reserves
             a == NetOf(curve, amount)
             x == (a * k) \div (s + a)
             q == (s * k) \div (s + a)
  <2>1. amount \in Nat \ {0} /\ Legal(curve)
    BY <1>1, CurveAssumption DEF Inv
  <2>2. s \in Nat \ {0} /\ k \in Nat \ {0} /\ real \in Nat
    BY <2>1, LegalFields
  <2>3. a \in Nat
    BY <2>1, LegalFields, DivBounds, amount * 10000 \in Nat,
       FeeOf(curve) + 10000 \in Nat \ {0} DEF NetOf
  <2>4. get_buy_token_amount_from_sol_amount(curve, amount) = Least(x, real)
    BY <2>1, <2>2 DEF get_buy_token_amount_from_sol_amount
  <2>5. CASE a = 0
    <3>1. get_buy_price(curve, a) = 0
      BY <1>1, <2>5 DEF get_buy_price
    <3>2. x = 0
      <4>1. a * k = 0 /\ s + a \in Nat \ {0}
        BY <2>2, <2>5
      <4> QED
        BY <4>1
    <3> HIDE DEF x, a
    <3>3. Least(x, real) = 0
      BY <2>2, <3>2 DEF Least
    <3> QED
      BY <2>4, <3>1, <3>3 DEF a
  <2>6. CASE a # 0
    <3>1. a \in Nat \ {0}
      BY <2>3, <2>6
    <3> HIDE DEF a
    <3>2. get_buy_price(curve, a) = Least(k - (q + 1), real) /\ q \in Nat /\ q < k
      BY <1>1, <2>1, <3>1, QuoteExact
    <3>3. x \in Nat /\ (x = k - (q + 1) \/ x = k - q)
      BY <2>2, <3>1, FormulasAgree
    <3> HIDE DEF x, q
    <3>4. Least(x, real) - Least(k - (q + 1), real) \in {0, 1}
      BY <2>2, <3>2, <3>3 DEF Least
    <3> QED
      BY <2>4, <3>2, <3>4 DEF a
  <2> QED
    BY <2>5, <2>6
<1>2. Inv => QuotesAgree
  BY <1>1 DEF QuotesAgree
<1> QED
  BY <1>2, Invariance, PTL

-----------------------------------------------------------------------------
\* A quotient grows with its dividend and falls with its divisor.
LEMMA QuotientGrows ==
  ASSUME NEW n \in Nat, NEW m \in Nat, n <= m,
         NEW d \in Nat \ {0}, NEW e \in Nat \ {0}, e <= d
  PROVE  n \div d \in Nat /\ m \div e \in Nat /\ n \div d <= m \div e
<1> DEFINE q == n \div d
<1>1. q \in Nat /\ q * d <= n /\ m \div e \in Nat
  BY DivBounds
<1> HIDE DEF q
<1>2. q * e <= q * d /\ q * e \in Nat /\ q * d \in Nat
  BY <1>1, TimesMonotone, e * q = q * e, d * q = q * d
<1>3. q <= m \div e
  BY <1>1, <1>2, DivAtLeast
<1> QED
  BY <1>1, <1>3 DEF q

\* The buy-out price of any number of tokens, without fees, as long as there
\* are no fewer of them than lamports or virtual tokens.
LEMMA BuyOutPrice ==
  ASSUME Legal(curve), NEW amount \in Nat, NEW raised \in Nat,
         raised = IF amount < curve.real_sol_reserves THEN curve.real_sol_reserves
                                                      ELSE amount,
         raised < curve.virtual_token_reserves, Cost(curve, raised) < Word
  PROVE  /\ Cost(curve, raised) \in Nat
         /\ get_buy_out_price(curve, amount, 0) = Cost(curve, raised)
<1> DEFINE divisor == curve.virtual_token_reserves - raised
           product == raised * curve.virtual_sol_reserves
           cost    == Cost(curve, raised)
<1>1. divisor \in Nat \ {0} /\ product \in Nat
  BY LegalFields
<1>2. cost = product \div divisor + 1
  BY DEF Cost
<1>3. product \div divisor \in Nat
  BY <1>1, DivBounds
<1>4. get_buy_out_price(curve, amount, 0) = U64(cost + (cost * 0) \div 10000)
  <2>1. cost = 1 + product \div divisor
    BY <1>2, <1>3
  <2>2. divisor # 0 /\ ~(divisor < 0)
    BY <1>1
  <2> HIDE DEF cost
  <2> QED
    BY <2>1, <2>2 DEF get_buy_out_price
<1>5. cost \in Nat
  BY <1>2, <1>3
<1> HIDE DEF cost
<1>6. cost + (cost * 0) \div 10000 = cost
  BY <1>5
<1> QED
  BY <1>4, <1>5, <1>6, U64Exact DEF cost

\* With as many lamports as tokens or fewer the final market cap is the one
\* that the curve ends with; with more it is that or a higher one, because more
\* tokens are priced than there are, up to the lamports at which the price
\* fails and up to what a u64 holds.
THEOREM FinalCapReached == Spec => []FinalCapIsReached
<1> DEFINE real == curve.real_token_reserves
           sol  == curve.real_sol_reserves
           k    == curve.virtual_token_reserves
           s    == curve.virtual_sol_reserves
           last == Bought(curve, real)
<1>1. ASSUME Inv, ~curve.complete
      PROVE  /\ Legal(curve) /\ real \in Nat /\ sol \in Nat /\ s \in Nat /\ k \in Nat
             /\ k - real = Gap /\ Gap \in Nat \ {0} /\ Supply \in Nat
             /\ CapReached(curve) = U64((Supply * (s + Cost(curve, real))) \div Gap)
  <2>1. /\ Legal(curve) /\ real \in Nat /\ sol \in Nat /\ s \in Nat /\ k \in Nat
        /\ Supply \in Nat
    BY <1>1, LegalFields, ConstantTypes, CurveAssumption DEF Inv
  <2>2. k - real = Gap /\ Gap \in Nat \ {0}
    BY <2>1, ConstantTypes DEF Legal
  <2>3. /\ last.virtual_sol_reserves = s + Cost(curve, real)
        /\ last.virtual_token_reserves = Gap
    BY <2>2 DEF Bought, Moved
  <2> HIDE DEF last
  <2>4. get_market_cap_sol(last) = U64((Supply * (s + Cost(curve, real))) \div Gap)
    BY <2>2, <2>3 DEF get_market_cap_sol
  <2> QED
    BY <2>1, <2>2, <2>4 DEF CapReached, last
<1>2. ASSUME Inv, ~curve.complete, NEW raised \in Nat,
             raised = IF real < sol THEN sol ELSE real,
             raised < k, Cost(curve, raised) < Word
      PROVE  /\ Cost(curve, raised) \in Nat
             /\ get_final_market_cap_sol(curve, 0)
                  = U64((Supply * (s + Cost(curve, raised))) \div Gap)
  <2> DEFINE price == get_buy_out_price(curve, real, 0)
  <2>1. price = Cost(curve, raised) /\ Cost(curve, raised) \in Nat
    BY <1>1, <1>2, BuyOutPrice
  <2>2. price # DivByZero
    BY <2>1 DEF DivByZero
  <2> HIDE DEF price
  <2>3. k - real = Gap /\ Gap # 0
    BY <1>1, <1>2
  <2>4. get_final_market_cap_sol(curve, 0) = U64((Supply * (s + price)) \div Gap)
    BY <2>2, <2>3 DEF get_final_market_cap_sol, price
  <2> QED
    BY <2>1, <2>4
<1>3. ASSUME Inv, ~curve.complete, sol <= real, Cost(curve, real) < Word
      PROVE  get_final_market_cap_sol(curve, 0) = CapReached(curve)
  <2>1. real \in Nat /\ real < k /\ real = IF real < sol THEN sol ELSE real
    BY <1>1, <1>3
  <2> QED
    BY <1>1, <1>2, <1>3, <2>1
<1>4. ASSUME Inv, ~curve.complete, sol \in (real + 1) .. (k - 1),
             Cost(curve, sol) < Word,
             (Supply * (s + Cost(curve, sol))) \div (k - real) < Word
      PROVE  get_final_market_cap_sol(curve, 0) >= CapReached(curve)
  <2> DEFINE low  == (Supply * (s + Cost(curve, real))) \div Gap
             high == (Supply * (s + Cost(curve, sol))) \div Gap
  <2>1. /\ real \in Nat /\ sol \in Nat /\ real < sol /\ sol < k /\ real < k
        /\ s \in Nat /\ k \in Nat
    BY <1>1, <1>4
  <2>2. Cost(curve, sol) \in Nat /\ get_final_market_cap_sol(curve, 0) = U64(high)
    BY <1>2, <1>4, <2>1
  <2>3. Cost(curve, real) \in Nat /\ Cost(curve, real) <= Cost(curve, sol)
    <3>1. real * s \in Nat /\ sol * s \in Nat /\ real * s <= sol * s
      BY <2>1, TimesMonotone
    <3>2. k - real \in Nat \ {0} /\ k - sol \in Nat \ {0} /\ k - sol <= k - real
      BY <2>1
    <3>3. /\ (real * s) \div (k - real) \in Nat /\ (sol * s) \div (k - sol) \in Nat
          /\ (real * s) \div (k - real) <= (sol * s) \div (k - sol)
      BY <3>1, <3>2, QuotientGrows
    <3> QED
      BY <3>3 DEF Cost
  <2>4. low \in Nat /\ high \in Nat /\ low <= high
    <3> DEFINE a == Supply * (s + Cost(curve, real))
               b == Supply * (s + Cost(curve, sol))
    <3>1. /\ Supply \in Nat /\ s + Cost(curve, real) \in Nat
          /\ s + Cost(curve, sol) \in Nat
          /\ s + Cost(curve, real) <= s + Cost(curve, sol)
      BY <1>1, <1>4, <2>1, <2>2, <2>3
    <3>2. /\ (s + Cost(curve, real)) * Supply \in Nat
          /\ (s + Cost(curve, sol)) * Supply \in Nat
          /\ (s + Cost(curve, real)) * Supply <= (s + Cost(curve, sol)) * Supply
      BY <3>1, TimesMonotone
    <3>3. a \in Nat /\ b \in Nat /\ a <= b
      BY <3>1, <3>2
    <3> HIDE DEF a, b
    <3>4. Gap \in Nat \ {0} /\ Gap <= Gap
      BY <1>1, <1>4
    <3>5. a \div Gap \in Nat /\ b \div Gap \in Nat /\ a \div Gap <= b \div Gap
      BY <3>3, <3>4, QuotientGrows
    <3> QED
      BY <3>5 DEF a, b
  <2>5. high < Word /\ CapReached(curve) = U64(low)
    BY <1>1, <1>4
  <2> HIDE DEF low, high
  <2>6. U64(high) = high /\ U64(low) = low
    BY <2>4, <2>5, U64Exact, ConstantTypes
  <2> QED
    BY <2>2, <2>4, <2>5, <2>6
<1>5. Inv => FinalCapIsReached
  BY <1>3, <1>4 DEF FinalCapIsReached
<1> QED
  BY <1>5, Invariance, PTL

-----------------------------------------------------------------------------
\* Whoever buys raises the price, and the number of tokens in circulation.
LEMMA BuyRaisesCap ==
  ASSUME NEW c, Legal(c), NEW tokens \in Nat \ {0}, tokens <= c.real_token_reserves,
         c.virtual_token_reserves + c.real_token_reserves < Word,
         ~MarketCapComputed(c), ScaledPrice(Bought(c, tokens)) < Word
  PROVE  ~MarketCapComputed(Bought(c, tokens))
<1> DEFINE d     == Bought(c, tokens)
           cost  == Cost(c, tokens)
           sol   == c.virtual_sol_reserves + c.real_sol_reserves
           token == c.virtual_token_reserves + c.real_token_reserves
           held  == Supply - c.real_token_reserves
           after == Supply - d.real_token_reserves
           price == ScaledPrice(c)
           next  == ScaledPrice(d)
<1>1. /\ c.virtual_token_reserves \in Nat \ {0} /\ c.virtual_sol_reserves \in Nat
      /\ c.real_token_reserves \in Nat /\ c.real_sol_reserves \in Nat
      /\ c.virtual_token_reserves = c.real_token_reserves + Gap
      /\ Gap \in Nat \ {0} /\ Word \in Nat
  BY LegalFields, ConstantTypes DEF Legal
<1>2. cost \in Nat
  BY BoughtLegal
<1> HIDE DEF cost
<1>3. /\ d.virtual_token_reserves = c.virtual_token_reserves - tokens
      /\ d.real_token_reserves = c.real_token_reserves - tokens
      /\ d.virtual_sol_reserves = c.virtual_sol_reserves + cost
      /\ d.real_sol_reserves = c.real_sol_reserves + cost
  BY DEF Bought, Moved, cost
<1> HIDE DEF d
<1>4. /\ sol \in Nat /\ token \in Nat \ {0} /\ sol + 2 * cost \in Nat
      /\ token - 2 * tokens \in Nat \ {0} /\ token - 2 * tokens <= token
      /\ sol <= sol + 2 * cost
  BY <1>1, <1>2
<1>5. /\ d.virtual_sol_reserves + d.real_sol_reserves = sol + 2 * cost
      /\ d.virtual_token_reserves + d.real_token_reserves = token - 2 * tokens
  BY <1>1, <1>2, <1>3
<1>6. Scale \in Nat /\ held \in Nat /\ after = held + tokens
  BY <1>1, <1>3, CurveAssumption DEF Legal
<1> HIDE DEF sol, token, held, after
<1>7. price \in Nat /\ next \in Nat /\ price <= next
  <2> DEFINE n == sol * Scale
             m == (sol + 2 * cost) * Scale
             e == token - 2 * tokens
  <2>1. n \in Nat /\ m \in Nat /\ n <= m
    BY <1>4, <1>6, TimesMonotone
  <2>2. price = n \div token /\ next = m \div e
    BY <1>5 DEF ScaledPrice, sol, token
  <2>3. e \in Nat \ {0} /\ e <= token
    BY <1>4
  <2> HIDE DEF n, m, e, price, next
  <2> QED
    BY <1>4, <2>1, <2>2, <2>3, QuotientGrows
<1> HIDE DEF price, next
<1>8. next < Word /\ U64(price) = price /\ U64(next) = next
  <2>1. next < Word
    BY DEF next, d
  <2> QED
    BY <1>1, <1>7, <2>1, U64Exact
<1>9. held * price >= Word
  <2>1. token \in 1 .. (Word - 1) /\ held >= 0
    BY <1>1, <1>4, <1>6 DEF token
  <2>2. ~(held * price < Word)
    BY <1>8, <2>1 DEF MarketCapComputed, price, held, token
  <2> QED
    BY <1>1, <1>6, <1>7, <2>2, held * price \in Nat
<1>10. held * price <= after * next
  <2>1. held * price <= after * price /\ after * price \in Nat /\ held * price \in Nat
    BY <1>6, <1>7, TimesMonotone
  <2>2. price * after <= next * after /\ next * after \in Nat
    BY <1>6, <1>7, TimesMonotone
  <2> QED
    BY <1>6, <1>7, <2>1, <2>2, price * after = after * price, next * after = after * next
<1>11. ~(after * U64(next) < Word)
  BY <1>1, <1>6, <1>7, <1>8, <1>9, <1>10, held * price \in Nat, after * next \in Nat
<1> QED
  BY <1>11 DEF MarketCapComputed, after, next, d

\* No purchase makes a market cap computable that is too large to compute.
THEOREM CapStaysTooLarge == Spec => CapFailsForGood
<1>1. ASSUME Inv, [Next]_vars, ~MarketCapComputed(curve),
             curve.virtual_token_reserves + curve.real_token_reserves < Word,
             curve'.real_token_reserves < curve.real_token_reserves,
             ScaledPrice(curve') < Word
      PROVE  ~MarketCapComputed(curve')
  <2>1. Legal(curve) /\ curve.real_token_reserves \in Nat
    BY <1>1, LegalFields DEF Inv
  <2>2. ASSUME NEW tokens \in Nat, tokens <= curve.real_token_reserves,
               curve' = Bought(curve, tokens)
        PROVE  ~MarketCapComputed(curve')
    <3>1. tokens \in Nat \ {0}
      BY <1>1, <2>1, <2>2 DEF Bought, Moved
    <3> QED
      BY <1>1, <2>1, <2>2, <3>1, BuyRaisesCap
  <2>3. CASE Fill
    <3>1. order.amount \in Nat /\ order.amount <= curve.real_token_reserves
      BY <1>1, <2>3 DEF Inv, TypeOK, Orders, Fill, Fillable
    <3> QED
      BY <2>2, <2>3, <3>1 DEF Fill
  <2>4. ASSUME NEW tokens \in Lots, OtherBuys(tokens) PROVE ~MarketCapComputed(curve')
    <3>1. tokens \in Nat
      BY CurveAssumption
    <3> QED
      BY <2>2, <2>4, <3>1 DEF OtherBuys
  <2>5. ASSUME NEW tokens \in Lots, OtherSells(tokens) PROVE FALSE
    <3>1. tokens \in Nat
      BY CurveAssumption
    <3>2. curve'.real_token_reserves = curve.real_token_reserves - (-tokens)
      BY <2>5 DEF OtherSells, Sold, Moved
    <3> QED
      BY <1>1, <2>1, <3>1, <3>2
  <2>6. CASE UNCHANGED curve
    BY <1>1, <2>1, <2>6
  <2> QED
    BY <1>1, <2>3, <2>4, <2>5, <2>6 DEF Next, Order, Lose, vars
<1>2. Inv /\ [Next]_vars =>
        [(/\ ~MarketCapComputed(curve)
          /\ curve.virtual_token_reserves + curve.real_token_reserves < Word
          /\ curve'.real_token_reserves < curve.real_token_reserves
          /\ ScaledPrice(curve') < Word)
         => ~MarketCapComputed(curve')]_vars
  BY <1>1
<1> QED
  BY <1>2, Invariance, PTL DEF Spec, CapFailsForGood
=============================================================================
