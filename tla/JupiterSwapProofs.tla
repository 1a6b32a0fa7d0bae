------------------------- MODULE JupiterSwapProofs -------------------------
(***************************************************************************)
(* Proofs about JupiterSwap, for every configuration of the fee, every     *)
(* quote and every width of the integers above 10000.                      *)
(***************************************************************************)
EXTENDS JupiterSwap, SequenceTheorems, WellFoundedInduction, TLAPS

(***************************************************************************)
(* Sums.  They are defined by recursion on the length, so that their laws  *)
(* rest on induction.                                                      *)
(***************************************************************************)
\* Induction over the naturals, for a set instead of a predicate: the least
\* number outside of the set has a predecessor in it.
LEMMA Induction ==
  ASSUME NEW S, 0 \in S, \A n \in Nat : n \in S => n + 1 \in S
  PROVE  \A n \in Nat : n \in S
<1> DEFINE T == Nat \ S
           less == OpToRel(<, Nat)
<1>1. SUFFICES ASSUME T # {} PROVE FALSE
  OBVIOUS
<1>2. PICK n \in T : \A m \in T : ~ (<<m, n>> \in less)
  <2> HIDE DEF T
  <2> QED
    BY <1>1, NatLessThanWellFounded, WFMin, T \subseteq Nat DEF T
<1>3. n \in Nat /\ n \notin S /\ n # 0
  OBVIOUS
<1>4. n - 1 \in Nat /\ n - 1 \notin S
  <2>1. n - 1 \in Nat /\ (n - 1) + 1 = n
    BY <1>3
  <2> QED
    BY <1>3, <2>1
<1>5. <<n - 1, n>> \in less
  BY <1>3, <1>4 DEF OpToRel
<1> QED
  BY <1>2, <1>4, <1>5

\* f holds the sums of the first numbers of s, up to the first n.
Adds(f, s, n) ==
  /\ f \in [0 .. n -> Nat]
  /\ f[0] = 0
  /\ \A k \in 1 .. n : f[k] = f[k - 1] + s[k]

LEMMA SumsExist ==
  ASSUME NEW s \in Seq(Nat)
  PROVE  \A n \in Nat : n <= Len(s) => \E f : Adds(f, s, n)
<1> DEFINE S == {n \in Nat : n <= Len(s) => \E f : Adds(f, s, n)}
<1>1. 0 \in S
  <2>1. Adds([k \in 0 .. 0 |-> 0], s, 0)
    BY DEF Adds
  <2> QED
    BY <2>1
<1>2. ASSUME NEW n \in Nat, n \in S PROVE n + 1 \in S
  <2>1. SUFFICES ASSUME n + 1 <= Len(s) PROVE \E f : Adds(f, s, n + 1)
    OBVIOUS
  <2>2. PICK f : Adds(f, s, n)
    BY <1>2, <2>1
  <2> DEFINE g == [k \in 0 .. (n + 1) |-> IF k = n + 1 THEN f[n] + s[n + 1] ELSE f[k]]
  <2>3. s[n + 1] \in Nat
    BY <2>1
  <2>4. g \in [0 .. (n + 1) -> Nat]
    BY <2>2, <2>3 DEF Adds
  <2>5. g[0] = 0
    BY <2>2 DEF Adds
  <2>6. ASSUME NEW k \in 1 .. (n + 1) PROVE g[k] = g[k - 1] + s[k]
    <3>1. CASE k = n + 1
      BY <3>1
    <3>2. CASE k # n + 1
      <4>1. k \in 1 .. n
        BY <3>2
      <4> QED
        BY <2>2, <4>1 DEF Adds
    <3> QED
      BY <3>1, <3>2
  <2>7. Adds(g, s, n + 1)
    <3> HIDE DEF g
    <3> QED
      BY <2>4, <2>5, <2>6 DEF Adds
  <2> QED
    BY <2>7
<1> HIDE DEF S
<1>3. \A n \in Nat : n \in S
  BY <1>1, <1>2, Induction
<1> QED
  BY <1>3 DEF S

LEMMA SumsUnique ==
  ASSUME NEW s, NEW n \in Nat, NEW m \in Nat, n <= m,
         NEW f, Adds(f, s, n), NEW g, Adds(g, s, m)
  PROVE  \A k \in 0 .. n : f[k] = g[k]
<1> DEFINE S == {k \in Nat : k <= n => f[k] = g[k]}
<1>1. 0 \in S
  BY DEF Adds
<1>2. ASSUME NEW k \in Nat, k \in S PROVE k + 1 \in S
  <2>1. SUFFICES ASSUME k + 1 <= n PROVE f[k + 1] = g[k + 1]
    OBVIOUS
  <2>2. k + 1 \in 1 .. n /\ k + 1 \in 1 .. m /\ f[k] = g[k]
    BY <1>2, <2>1
  <2> QED
    BY <2>2 DEF Adds
<1> HIDE DEF S
<1>3. \A k \in Nat : k \in S
  BY <1>1, <1>2, Induction
<1> QED
  BY <1>3 DEF S

\* The recursive definition defines what it says.
LEMMA SumsAdd ==
  ASSUME NEW s \in Seq(Nat)
  PROVE  Adds(Sums(s), s, Len(s))
<1> DEFINE n == Len(s)
           Sum(f) == f = [k \in 0 .. n |-> IF k = 0 THEN 0 ELSE f[k - 1] + s[k]]
<1>1. PICK f : Adds(f, s, n)
  BY SumsExist
<1>2. n \in Nat /\ \A k \in 1 .. n : s[k] \in Nat
  OBVIOUS
<1> HIDE DEF n
<1>3. Sum(f)
  BY <1>1, <1>2 DEF Adds
<1>4. Sums(s) = CHOOSE g : Sum(g)
  BY DEF Sums, n
<1> HIDE DEF Sum
<1>5. Sum(Sums(s))
  BY <1>3, <1>4
<1> DEFINE h == Sums(s)
<1> HIDE DEF h
<1>6. h = [k \in 0 .. n |-> IF k = 0 THEN 0 ELSE h[k - 1] + s[k]]
  BY <1>5 DEF Sum, h
<1>7. /\ h[0] = 0
      /\ \A k \in 1 .. n : h[k] = h[k - 1] + s[k]
  BY <1>2, <1>6
<1>8. \A k \in 0 .. n : h[k] \in Nat
  <2> DEFINE S == {k \in Nat : k <= n => h[k] \in Nat}
  <2>1. 0 \in S
    BY <1>7
  <2>2. ASSUME NEW k \in Nat, k \in S PROVE k + 1 \in S
    <3>1. SUFFICES ASSUME k + 1 <= n PROVE h[k + 1] \in Nat
      OBVIOUS
    <3>2. k + 1 \in 1 .. n /\ h[k] \in Nat
      BY <1>2, <2>2, <3>1
    <3> QED
      BY <1>2, <1>7, <3>2
  <2> HIDE DEF S
  <2>3. \A k \in Nat : k \in S
    BY <2>1, <2>2, Induction
  <2> QED
    BY <1>2, <2>3 DEF S
<1>9. h \in [0 .. n -> Nat]
  BY <1>6, <1>8
<1> QED
  BY <1>7, <1>9 DEF Adds, h, n

\* The sums of a part are at most the sum of the whole.
LEMMA SumsMonotone ==
  ASSUME NEW s \in Seq(Nat), NEW k \in 0 .. Len(s)
  PROVE  Sums(s)[k] <= SumOf(s)
<1> DEFINE n == Len(s)
           h == Sums(s)
           S == {j \in Nat : j <= n => h[n - j] <= h[n]}
<1>1. Adds(h, s, n) /\ n \in Nat /\ \A j \in 1 .. n : s[j] \in Nat
  BY SumsAdd
<1> HIDE DEF h, n
<1>2. 0 \in S
  BY <1>1 DEF Adds
<1>3. ASSUME NEW j \in Nat, j \in S PROVE j + 1 \in S
  <2>1. SUFFICES ASSUME j + 1 <= n PROVE h[n - (j + 1)] <= h[n]
    OBVIOUS
  <2>2. n - j \in 1 .. n /\ n - (j + 1) \in 0 .. n /\ (n - j) - 1 = n - (j + 1)
    BY <1>1, <2>1
  <2>3. h[n - j] = h[n - (j + 1)] + s[n - j] /\ h[n - (j + 1)] \in Nat /\ h[n] \in Nat
    BY <1>1, <2>2 DEF Adds
  <2> QED
    BY <1>1, <1>3, <2>1, <2>2, <2>3
<1> HIDE DEF S
<1>4. \A j \in Nat : j \in S
  BY <1>2, <1>3, Induction
<1>5. n - k \in Nat /\ n - k <= n /\ n - (n - k) = k
  BY <1>1 DEF n
<1> QED
  BY <1>4, <1>5 DEF S, SumOf, h, n

\* A number that is appended is added.
LEMMA SumAppend ==
  ASSUME NEW s \in Seq(Nat), NEW a \in Nat
  PROVE  SumOf(s) \in Nat /\ SumOf(Append(s, a)) = SumOf(s) + a
<1> DEFINE n == Len(s)
           t == Append(s, a)
           f == Sums(s)
           g == Sums(t)
<1>1. t \in Seq(Nat) /\ Len(t) = n + 1 /\ n \in Nat /\ t[n + 1] = a
      /\ \A k \in 1 .. n : t[k] = s[k]
  OBVIOUS
<1>2. Adds(f, s, n) /\ Adds(g, t, n + 1)
  BY <1>1, SumsAdd
<1> HIDE DEF f, g, t, n
<1>3. Adds(f, t, n)
  BY <1>1, <1>2 DEF Adds
<1>4. n \in 0 .. n /\ n + 1 \in 1 .. (n + 1) /\ (n + 1) - 1 = n
      /\ n + 1 \in Nat /\ n <= n + 1
  BY <1>1
<1>5. f[n] = g[n]
  <2> DEFINE m == n + 1
  <2>2. m \in Nat /\ n <= m /\ Adds(g, t, m)
    BY <1>2, <1>4
  <2> HIDE DEF m
  <2>1. \A k \in 0 .. n : f[k] = g[k]
    BY <1>1, <1>3, <2>2, SumsUnique
  <2> QED
    BY <1>4, <2>1
<1>6. g[n + 1] = f[n] + a /\ f[n] \in Nat
  BY <1>1, <1>2, <1>4, <1>5 DEF Adds
<1> QED
  BY <1>1, <1>6 DEF SumOf, f, g, t, n

\* Nothing but zeros adds up to zero.
LEMMA SumZero ==
  ASSUME NEW s \in Seq(Nat), \A k \in 1 .. Len(s) : s[k] = 0
  PROVE  SumOf(s) = 0
<1> DEFINE n == Len(s)
           f == [k \in 0 .. n |-> 0]
           h == Sums(s)
<1>1. n \in Nat /\ Adds(h, s, n)
  BY SumsAdd
<1>2. Adds(f, s, n)
  BY <1>1 DEF Adds
<1> HIDE DEF h
<1>3. f[n] = h[n]
  <2> HIDE DEF f, n
  <2> QED
    BY <1>1, <1>2, SumsUnique
<1> QED
  BY <1>1, <1>3 DEF SumOf, h

(***************************************************************************)
(* Arithmetic of one round of calculate_fee.                               *)
(***************************************************************************)

LEMMA WordType == Word \in Nat /\ Word > 10000
BY SwapAssumption DEF Amount

\* A number that fits is not changed by the width of the integers.
LEMMA FitsIsExact ==
  ASSUME NEW n \in Int, Fits(n)
  PROVE  U64(n) = n
BY WordType DEF Fits, Amount, U64

LEMMA U64Range ==
  ASSUME NEW n \in Int
  PROVE  U64(n) \in Amount
BY WordType DEF U64, Amount

\* Division rounds down.
LEMMA DivBounds ==
  ASSUME NEW n \in Nat
  PROVE  /\ n \div 10000 \in Nat /\ (n \div 10000) * 10000 <= n
         /\ n <= (n \div 10000) * 10000 + 9999
OBVIOUS

\* Products with a fee keep order, and distribute over a sum of rates.
LEMMA TimesMonotone ==
  ASSUME NEW f \in Nat, NEW a \in Nat, NEW b \in Nat, a <= b
  PROVE  f * a \in Nat /\ f * a <= f * b
<1>1. PICK d \in Nat : b = a + d
  BY b - a \in Nat
<1>2. f * b = f * a + f * d
  BY <1>1
<1>3. f * d \in Nat /\ f * a \in Nat
  OBVIOUS
<1>4. QED
  BY <1>2, <1>3

\* The fee is a ten-thousandth of a u64, so that its product with a rate of
\* at most 10000 fits.
FeeSmall == total_fee \in Nat /\ total_fee * 10000 < Word

\* The sum of the rates up to and including share k.
RatesUpTo(k) == Sums(Rates)[k]

(***************************************************************************)
(* The inductive invariant: what has been distributed is at most the fee   *)
(* times the rates so far, and short of it by less than one lamport for    *)
(* each share; after the last share it is the whole fee.                   *)
(***************************************************************************)
Distribution ==
  (Splitting /\ RatesWithin) =>
    /\ i = 1 => total_distributed = 0
    /\ i <= Len(fee_shares) =>
         Within(total_fee * RatesUpTo(i - 1) - total_distributed * 10000, 9999 * (i - 1))
    /\ (i > Len(fee_shares) /\ fee_shares # <<>>) =>
         total_distributed = total_fee

SplitInv == TypeOK /\ FeeSmall /\ Distribution

LEMMA NothingShort ==
  ASSUME NEW f \in Nat
  PROVE  Within(f * 0 - 0 * 10000, 9999 * (1 - 1))
BY f * 0 = 0 DEF Within

LEMMA ConfigType ==
  ASSUME TypeOK
  PROVE  /\ fee_shares \in Seq(Share) /\ Len(fee_shares) \in Nat
         /\ fee_shares # <<>> => Len(fee_shares) >= 1
<1>1. fee_shares \in Seq(Share)
  BY SwapAssumption DEF TypeOK
<1>2. QED
  BY <1>1

LEMMA RatesType ==
  ASSUME TypeOK
  PROVE  /\ Rates \in Seq(Nat) /\ Len(Rates) = Len(fee_shares)
         /\ \A k \in 1 .. Len(fee_shares) : Rates[k] = fee_shares[k].bps
<1>1. fee_shares \in Seq(Share) /\ Len(fee_shares) \in Nat
  BY ConfigType
<1>2. \A k \in 1 .. Len(fee_shares) : fee_shares[k].bps \in Nat
  <2>1. \A share \in Share : share.bps \in Nat
    BY WordType DEF Share, Amount
  <2> QED
    BY <1>1, <2>1
<1> QED
  BY <1>1, <1>2 DEF Rates

LEMMA RatesSame ==
  ASSUME fee_shares' = fee_shares
  PROVE  /\ Rates' = Rates /\ SumOf(Rates)' = SumOf(Rates)
         /\ RatesWithin' <=> RatesWithin
         /\ \A k : RatesUpTo(k)' = RatesUpTo(k)
<1>1. Rates' = Rates
  BY DEF Rates
<1>2. SumOf(Rates)' = SumOf(Rates) /\ Sums(Rates)' = Sums(Rates)
  BY <1>1
<1> QED
  BY <1>1, <1>2 DEF RatesWithin, RatesUpTo

\* The sums of rates of a configuration.
LEMMA RatesSum ==
  ASSUME TypeOK, i <= Len(fee_shares)
  PROVE  /\ Len(fee_shares) \in Nat /\ i \in 1 .. Len(fee_shares)
         /\ fee_shares[i].bps \in Nat
         /\ RatesUpTo(i - 1) \in Nat
         /\ RatesUpTo(i) = RatesUpTo(i - 1) + fee_shares[i].bps
         /\ RatesUpTo(i) <= SumOf(Rates)
         /\ i = Len(fee_shares) => RatesUpTo(i) = SumOf(Rates)
<1> DEFINE n == Len(fee_shares)
<1>1. i \in 1 .. n /\ n \in Nat /\ i - 1 \in 0 .. n /\ i \in 0 .. n
  BY ConfigType DEF TypeOK
<1>2. Rates \in Seq(Nat) /\ Len(Rates) = n /\ Rates[i] = fee_shares[i].bps
  BY <1>1, RatesType
<1>3. Adds(Sums(Rates), Rates, n) /\ Sums(Rates)[i] <= SumOf(Rates)
  BY <1>1, <1>2, SumsAdd, SumsMonotone
<1>4. fee_shares[i].bps \in Nat
  BY <1>1, <1>2
<1> HIDE DEF n
<1>5. /\ Sums(Rates)[i - 1] \in Nat
      /\ Sums(Rates)[i] = Sums(Rates)[i - 1] + fee_shares[i].bps
  BY <1>1, <1>2, <1>3 DEF Adds
<1> QED
  BY <1>1, <1>2, <1>3, <1>4, <1>5 DEF RatesUpTo, SumOf, n

\* What a round does under rates within the whole: nothing overflows; the
\* last share is what remains, and another one is rounded down.
RoundFits ==
  /\ Fits(ByRate) /\ Fits(Remaining) /\ Fits(total_distributed + ShareFee)
  /\ ShareFee \in Nat /\ total_distributed + ShareFee \in Nat

LastRound ==
  /\ total_distributed + ShareFee = total_fee
  /\ SumOf(Rates) = 10000 =>
       Within(ShareFee * 10000 - total_fee * fee_shares[i].bps, 9999 * (i - 1))

OtherRound ==
  /\ Within(total_fee * fee_shares[i].bps - ShareFee * 10000, 9999)
  /\ Within(total_fee * RatesUpTo(i) - (total_distributed + ShareFee) * 10000, 9999 * i)

LEMMA Round ==
  ASSUME SplitInv, Splitting, RatesWithin, i <= Len(fee_shares)
  PROVE  /\ RoundFits
         /\ i = Len(fee_shares) => LastRound
         /\ i # Len(fee_shares) => OtherRound
<1> DEFINE f == total_fee
           b == fee_shares[i].bps
           a == RatesUpTo(i - 1)
           d == total_distributed
<1>1. /\ a \in Nat /\ b \in Nat /\ a + b = RatesUpTo(i) /\ a + b <= 10000
      /\ i \in 1 .. Len(fee_shares) /\ i \in Nat \ {0}
      /\ (i = Len(fee_shares) /\ SumOf(Rates) = 10000) => a + b = 10000
  <2>1. SumOf(Rates) \in Int
    BY RatesType, SumsAdd DEF SplitInv, SumOf, Adds
  <2> QED
    BY <2>1, RatesSum DEF SplitInv, RatesWithin
<1>2. /\ f \in Nat /\ f * 10000 < Word
      /\ d \in Nat /\ Within(f * a - d * 10000, 9999 * (i - 1))
  BY WordType DEF SplitInv, FeeSmall, Distribution, TypeOK, Amount
<1>3. ByRate = f * b /\ Remaining = f - d
  BY DEF ByRate, Remaining
<1> HIDE DEF f, a, b, d
<1>4. f * b \in Nat /\ f * b <= f * 10000 /\ f * (a + b) <= f * 10000
  BY <1>1, <1>2, TimesMonotone
<1>5. f * (a + b) = f * a + f * b /\ f * a \in Nat
  BY <1>1, <1>2
<1>6. Fits(ByRate)
  BY <1>2, <1>3, <1>4, WordType DEF Fits, Amount
<1>7. d * 10000 <= f * a /\ d <= f
  <2>1. d * 10000 <= f * a
    BY <1>1, <1>2, <1>5 DEF Within
  <2> QED
    BY <1>2, <1>4, <1>5, <2>1
<1>8. Fits(Remaining)
  BY <1>2, <1>3, <1>7, WordType DEF Fits, Amount
<1>9. ShareFee = IF i = Len(fee_shares) THEN f - d ELSE (f * b) \div 10000
  BY <1>2, <1>3, <1>4, <1>6, <1>8, FitsIsExact DEF ShareFee
<1>10. CASE i = Len(fee_shares)
  <2>1. ShareFee = f - d /\ ShareFee \in Nat /\ total_distributed + ShareFee = f
    BY <1>2, <1>7, <1>9, <1>10 DEF d
  <2>2. ASSUME a + b = 10000
        PROVE  Within((f - d) * 10000 - f * b, 9999 * (i - 1))
    <3>1. f * 10000 = f * a + f * b
      BY <1>5, <2>2
    <3>2. (f - d) * 10000 - f * b = f * a - d * 10000
      BY <1>2, <1>4, <1>5, <3>1
    <3> QED
      BY <1>2, <3>2
  <2>3. QED
    <3>1. RoundFits
      BY <1>2, <1>6, <1>8, <2>1, WordType DEF RoundFits, Fits, Amount
    <3>2. LastRound
      BY <1>1, <1>10, <2>1, <2>2 DEF LastRound, f, b
    <3> QED
      BY <1>10, <3>1, <3>2, Zenon
<1>11. CASE i # Len(fee_shares)
  <2> DEFINE q == (f * b) \div 10000
  <2>0. q \in Nat /\ q * 10000 <= f * b /\ f * b <= q * 10000 + 9999
    BY <1>4, DivBounds
  <2> HIDE DEF q
  <2>1. ShareFee = q /\ total_distributed + ShareFee = d + q
    BY <1>9, <1>11 DEF d, q
  <2>2. f * (a + b) - (d + q) * 10000 = (f * a - d * 10000) + (f * b - q * 10000)
    BY <1>2, <1>4, <1>5, <2>0
  <2>3. Within(f * (a + b) - (d + q) * 10000, 9999 * i)
    BY <1>1, <1>2, <1>4, <1>5, <2>0, <2>2 DEF Within
  <2>4. d + q <= f
    <3>1. d + q \in Nat
      BY <1>2, <2>0
    <3>2. f * (a + b) \in Nat
      BY <1>1, <1>2, <1>4, <1>5
    <3>3. (d + q) * 10000 <= f * 10000
      BY <1>1, <1>2, <1>4, <2>3, <3>1, <3>2 DEF Within
    <3>4. QED
      BY <1>2, <3>1, <3>3
  <2>5. Fits(d + q)
    BY <1>2, <2>0, <2>4, WordType DEF Fits, Amount
  <2>6. QED
    <3>1. RoundFits
      BY <1>2, <1>6, <1>8, <2>0, <2>1, <2>5 DEF RoundFits
    <3>2. OtherRound
      <4>1. Within(f * b - q * 10000, 9999)
        BY <1>4, <2>0 DEF Within
      <4> QED
        BY <1>1, <2>1, <2>3, <4>1 DEF OtherRound, f, b
    <3> QED
      BY <1>11, <3>1, <3>2, Zenon
<1>12. QED
  BY <1>10, <1>11, Zenon

(***************************************************************************)
(* The invariant holds throughout.                                         *)
(***************************************************************************)
LEMMA InitSplit == Init => SplitInv
<1> SUFFICES ASSUME Init PROVE SplitInv
  OBVIOUS
<1>1. FeeSmall
  BY SwapAssumption DEF Init, FeeSmall
<1>2. Distribution
  BY DEF Init, Distribution, Splitting
<1>3. TypeOK
  <2>1. fee_shares \in Seq(Share)
    BY SwapAssumption DEF Init
  <2>2. i \in 1 .. (Len(fee_shares) + 1)
    BY <2>1 DEF Init
  <2>3. total_fee \in Amount /\ total_distributed \in Amount
        /\ lookups \in 0 .. MaxParts
    <3>1. 0 \in Amount
      BY WordType DEF Amount
    <3>2. 0 \in 0 .. MaxParts
      BY SwapAssumption
    <3>3. QED
      BY <3>1, <3>2 DEF Init
  <2>4. pc \in Steps \cup Ended
    BY DEF Init, Steps
  <2>5. instructions \in Seq(Instruction)
    BY DEF Init
  <2>6. QED
    BY <2>2, <2>3, <2>4, <2>5 DEF Init, TypeOK
<1>4. QED
  BY <1>1, <1>2, <1>3 DEF SplitInv

LEMMA AbortKeeps ==
  ASSUME SplitInv, NEW how \in Ended, Abort(how)
  PROVE  SplitInv'
BY DEF SplitInv, TypeOK, FeeSmall, Distribution, Splitting, Abort, input, split,
       Ended

\* A step that changes only the position, the instructions and the lookups.
LEMMA MoveKeeps ==
  ASSUME SplitInv, UNCHANGED <<input, split>>,
         pc' \in (Steps \cup Ended) \ {"split_input", "split_output"},
         instructions' \in Seq(Instruction),
         lookups' \in 0 .. MaxParts
  PROVE  SplitInv'
BY DEF SplitInv, TypeOK, FeeSmall, Distribution, Splitting, input, split

LEMMA StartKeeps ==
  ASSUME SplitInv, NEW amount \in Int,
         NEW step \in {"split_input", "split_output"},
         StartSplit(amount, step)
  PROVE  SplitInv'
<1>1. CASE Abort("panicked")
  BY <1>1, AbortKeeps DEF Ended
<1>2. CASE /\ total_fee' = U64(amount * FeeBps) \div 10000
           /\ total_distributed' = 0
           /\ i' = 1
           /\ pc' = step
           /\ UNCHANGED <<input, instructions, lookups>>
  <2>1. U64(amount * FeeBps) \in Amount
    <3>1. FeeBps \in Int
      BY WordType, SwapAssumption DEF Amount
    <3>2. QED
      BY <3>1, U64Range
  <2>2. /\ total_fee' \in Nat /\ total_fee' * 10000 < Word
        /\ total_fee' \in Amount
    <3> DEFINE p == U64(amount * FeeBps)
    <3> HIDE DEF p
    <3>1. p \in Nat /\ p < Word
      BY <2>1, WordType DEF p, Amount
    <3>2. total_fee' = p \div 10000
      BY <1>2 DEF p
    <3>3. QED
      BY <3>1, <3>2, DivBounds, WordType DEF Amount
  <2>3. Distribution'
    <3>1. /\ fee_shares' = fee_shares /\ i' = 1 /\ total_distributed' = 0
          /\ total_fee' \in Nat
      BY <1>2, <2>2 DEF input
    <3>2. /\ fee_shares # <<>> => 1 <= Len(fee_shares)
          /\ Len(fee_shares) \in Nat
      BY ConfigType DEF SplitInv
    <3>3. RatesUpTo(1 - 1)' = 0
      <4>1. Sums(Rates)[0] = 0
        BY RatesType, SumsAdd DEF SplitInv, Adds
      <4>2. RatesUpTo(1 - 1) = 0
        BY <4>1 DEF RatesUpTo
      <4> QED
        BY <3>1, <4>2, RatesSame
    <3>4. RatesUpTo(i - 1)' = 0
      BY <3>1, <3>3
    <3>5. Within(total_fee' * 0 - 0 * 10000, 9999 * (1 - 1))
      BY <3>1, NothingShort
    <3>6. QED
      BY <3>1, <3>2, <3>4, <3>5 DEF Distribution
  <2>4. TypeOK'
    <3>0. /\ pc' = step
          /\ UNCHANGED <<quote, fee_shares, instructions, lookups>>
      BY <1>2 DEF input
    <3>1. i' = 1 /\ total_distributed' = 0
      BY <1>2
    <3>2. Len(fee_shares) \in Nat /\ TypeOK
      BY ConfigType DEF SplitInv
    <3>3. i' \in 1 .. (Len(fee_shares) + 1)
      BY <3>1, <3>2
    <3>4. total_distributed' \in Amount
      BY <3>1, WordType DEF Amount
    <3>5. pc' \in Steps
      BY <3>0 DEF Steps
    <3>6. QED
      BY <2>2, <3>0, <3>2, <3>3, <3>4, <3>5 DEF TypeOK
  <2>5. QED
    BY <2>2, <2>3, <2>4 DEF SplitInv, FeeSmall
<1>3. QED
  BY <1>1, <1>2 DEF StartSplit

LEMMA AddShareKeeps ==
  ASSUME SplitInv, AddShare
  PROVE  SplitInv'
<1>1. CASE Abort("panicked")
  BY <1>1, AbortKeeps DEF Ended
<1>2. CASE /\ total_distributed' = U64(total_distributed + ShareFee)
           /\ instructions' = Append(instructions, Transfer(i, ShareFee))
           /\ i' = i + 1
           /\ UNCHANGED <<pc, input, lookups, total_fee>>
  <2>1. /\ i <= Len(fee_shares) /\ Splitting /\ TypeOK
        /\ i \in 1 .. Len(fee_shares) /\ Len(fee_shares) \in Nat
        /\ fee_shares[i].bps \in Nat
    BY RatesSum DEF SplitInv, AddShare
  <2>2. total_fee \in Nat /\ total_distributed \in Nat
    BY WordType DEF SplitInv, TypeOK, Amount
  <2>3. ShareFee \in Amount
    <3>1. Remaining \in Int /\ ByRate \in Nat
      BY <2>1, <2>2 DEF Remaining, ByRate
    <3>2. U64(Remaining) \in Amount /\ U64(ByRate) \in Amount
      BY <3>1, U64Range
    <3> DEFINE r == U64(ByRate)
    <3> HIDE DEF r
    <3>3. r \in Nat /\ r < Word
      BY <3>2, WordType DEF r, Amount
    <3>4. r \div 10000 \in Amount
      BY <3>3, DivBounds, WordType DEF Amount
    <3>5. ShareFee = IF i = Len(fee_shares) THEN U64(Remaining) ELSE r \div 10000
      BY DEF ShareFee, r
    <3>6. QED
      BY <3>2, <3>4, <3>5
  <2>4. total_distributed' \in Amount
    <3>1. total_distributed + ShareFee \in Int
      BY <2>2, <2>3, WordType DEF Amount
    <3>2. QED
      BY <1>2, <3>1, U64Range
  <2>5. instructions' \in Seq(Instruction)
    <3>1. Transfer(i, ShareFee) \in Instruction
      BY <2>1, <2>3 DEF Transfer, Instruction
    <3>2. QED
      BY <1>2, <2>1, <3>1 DEF TypeOK
  <2>6. i' \in 1 .. (Len(fee_shares) + 1)
    BY <1>2, <2>1
  <2>7. TypeOK'
    BY <1>2, <2>1, <2>4, <2>5, <2>6 DEF TypeOK, input
  <2>8. FeeSmall'
    BY <1>2 DEF SplitInv, FeeSmall
  <2>9. Distribution'
    <3>1. SUFFICES ASSUME RatesWithin'
          PROVE  /\ i' # 1
                 /\ i' <= Len(fee_shares') =>
                      Within(total_fee' * RatesUpTo(i - 1)' - total_distributed' * 10000,
                             9999 * (i' - 1))
                 /\ i' > Len(fee_shares') => total_distributed' = total_fee'
      BY DEF Distribution
    <3>2. RatesWithin /\ fee_shares' = fee_shares /\ total_fee' = total_fee
      BY <1>2, <3>1, RatesSame DEF input
    <3>3. total_distributed' = total_distributed + ShareFee
      <4>1. total_distributed + ShareFee \in Int
        BY <2>2, <2>3, WordType DEF Amount
      <4>2. Fits(total_distributed + ShareFee)
        BY <2>1, <3>2, Round, Zenon DEF RoundFits
      <4>3. QED
        BY <1>2, <4>1, <4>2, FitsIsExact
    <3>4. i' = i + 1 /\ i' - 1 = i /\ i' # 1
      BY <1>2, <2>1
    <3>5. RatesUpTo(i - 1)' = RatesUpTo(i)
      BY <3>2, <3>4, RatesSame DEF RatesUpTo
    <3>6. CASE i = Len(fee_shares)
      <4>1. total_distributed' = total_fee
        <5>1. total_distributed + ShareFee = total_fee
          BY <2>1, <3>2, <3>6, Round DEF LastRound
        <5> QED
          BY <3>3, <5>1
      <4>2. ~(i' <= Len(fee_shares'))
        BY <2>1, <3>2, <3>4, <3>6
      <4>3. QED
        BY <3>2, <3>4, <4>1, <4>2
    <3>7. CASE i # Len(fee_shares)
      <4>1. Within(total_fee * RatesUpTo(i) - total_distributed' * 10000, 9999 * i)
        <5>1. OtherRound
          BY <2>1, <3>2, <3>7, Round
        <5> QED
          BY <3>3, <5>1 DEF OtherRound
      <4>2. ~(i' > Len(fee_shares'))
        BY <2>1, <3>2, <3>4, <3>7
      <4>3. QED
        BY <3>2, <3>4, <3>5, <4>1, <4>2
    <3>8. QED
      BY <3>6, <3>7
  <2>10. QED
    BY <2>7, <2>8, <2>9 DEF SplitInv
<1>3. QED
  BY <1>1, <1>2 DEF AddShare

LEMMA CopiesType ==
  ASSUME NEW S, NEW ix \in S, NEW n \in Nat
  PROVE  Copies(ix, n) \in Seq(S)
BY DEF Copies

LEMMA OneIsSeq ==
  ASSUME NEW S, NEW ix \in S
  PROVE  <<ix>> \in Seq(S) /\ <<>> \in Seq(S)
OBVIOUS

LEMMA AmountsType ==
  ASSUME NEW q \in Quotes
  PROVE  q.in_amount \in Int /\ q.out_amount \in Int
<1>1. q \in Quote
  BY SwapAssumption
<1>2. QED
  BY <1>1, WordType DEF Quote, NotANumber

LEMMA IxType ==
  /\ Ix("priority") \in Instruction /\ Ix("setup") \in Instruction
  /\ Ix("swap") \in Instruction /\ Ix("cleanup") \in Instruction
BY WordType DEF Ix, Instruction, Amount

LEMMA NextSplit ==
  ASSUME SplitInv, [Next]_vars
  PROVE  SplitInv'
<1>0. /\ instructions \in Seq(Instruction) /\ lookups \in 0 .. MaxParts /\ MaxParts \in Nat
      /\ quote \in Quotes
  BY SwapAssumption DEF SplitInv, TypeOK
<1>1. CASE SetPriority
  <2>1. instructions' \in Seq(Instruction)
    BY <1>1, IxType, OneIsSeq DEF SetPriority
  <2>2. QED
    BY <1>0, <1>1, <2>1, MoveKeeps DEF SetPriority, Steps
<1>2. CASE Request
  <2>1. CASE Abort("failed")
    BY <2>1, AbortKeeps DEF Ended
  <2>2. CASE /\ lookups' \in 0 .. MaxParts
             /\ pc' = "lookups"
             /\ UNCHANGED <<input, instructions, split>>
    BY <1>0, <2>2, MoveKeeps DEF Steps
  <2>3. QED
    BY <1>2, <2>1, <2>2 DEF Request
<1>3. CASE FetchLookup
  <2>1. CASE Abort("failed")
    BY <2>1, AbortKeeps DEF Ended
  <2>2. CASE /\ lookups' = lookups - 1
             /\ UNCHANGED <<pc, input, instructions, split>>
    <3>1. lookups' \in 0 .. MaxParts /\ pc' = "lookups"
      BY <1>0, <1>3, <2>2 DEF FetchLookup
    <3>2. QED
      BY <1>0, <2>2, <3>1, MoveKeeps DEF Steps
  <2>3. QED
    BY <1>3, <2>1, <2>2 DEF FetchLookup
<1>4. CASE Assemble
  <2>1. CASE Abort("failed")
    BY <2>1, AbortKeeps DEF Ended
  <2>2. ASSUME NEW n \in 0 .. MaxParts, NEW cleanup \in {<<>>, <<Ix("cleanup")>>},
               instructions' =
                 instructions \o Copies(Ix("setup"), n) \o <<Ix("swap")>> \o cleanup,
               pc' = IF quote.typed THEN "input_fee" ELSE "returned",
               UNCHANGED <<input, lookups, split>>
        PROVE  SplitInv'
    <3>1. Copies(Ix("setup"), n) \in Seq(Instruction)
      <4>1. n \in Nat
        BY <1>0
      <4>2. QED
        BY <4>1, IxType, CopiesType
    <3>2. <<Ix("swap")>> \in Seq(Instruction) /\ cleanup \in Seq(Instruction)
      BY IxType, OneIsSeq
    <3>3. instructions' \in Seq(Instruction)
      BY <1>0, <2>2, <3>1, <3>2
    <3>4. pc' \in {"input_fee", "returned"}
      BY <2>2
    <3>5. QED
      BY <1>0, <2>2, <3>3, <3>4, MoveKeeps DEF Steps, Ended
  <2>3. QED
    BY <1>4, <2>1, <2>2 DEF Assemble
<1>5. CASE ChargeInput
  <2>1. quote.in_amount \in Int
    BY <1>0, AmountsType
  <2>2. CASE StartSplit(quote.in_amount, "split_input")
    BY <2>1, <2>2, StartKeeps
  <2>3. CASE pc' = "output_fee" /\ UNCHANGED <<input, instructions, lookups, split>>
    BY <1>0, <2>3, MoveKeeps DEF Steps
  <2>4. QED
    BY <1>5, <2>2, <2>3 DEF ChargeInput
<1>6. CASE ChargeOutput
  <2>1. quote.out_amount \in Int
    BY <1>0, AmountsType
  <2>2. CASE StartSplit(quote.out_amount, "split_output")
    BY <2>1, <2>2, StartKeeps
  <2>3. CASE pc' = "returned" /\ UNCHANGED <<input, instructions, lookups, split>>
    BY <1>0, <2>3, MoveKeeps DEF Ended
  <2>4. QED
    BY <1>6, <2>2, <2>3 DEF ChargeOutput
<1>7. CASE AddShare
  BY <1>7, AddShareKeeps
<1>8. CASE EndSplit
  BY <1>0, <1>8, MoveKeeps DEF EndSplit, Steps, Ended
<1>9. CASE UNCHANGED vars
  <2>1. UNCHANGED <<pc, quote, fee_shares, instructions, lookups>> /\ UNCHANGED split
    BY <1>9 DEF vars, split
  <2>2. TypeOK' /\ FeeSmall' /\ (Splitting' <=> Splitting)
    BY <2>1 DEF SplitInv, TypeOK, FeeSmall, Splitting, split
  <2>3. RatesUpTo(i - 1)' = RatesUpTo(i - 1)
    BY <2>1, RatesSame DEF RatesUpTo, split
  <2>4. Distribution'
    <3>1. /\ i' = i /\ total_fee' = total_fee /\ total_distributed' = total_distributed
          /\ fee_shares' = fee_shares /\ (RatesWithin' <=> RatesWithin) /\ Distribution
      BY <2>1, RatesSame DEF SplitInv, split
    <3> QED
      BY <2>2, <2>3, <3>1 DEF Distribution
  <2> QED
    BY <2>2, <2>4 DEF SplitInv
<1>10. QED
  BY <1>1, <1>2, <1>3, <1>4, <1>5, <1>6, <1>7, <1>8, <1>9 DEF Next

LEMMA SplitInvariant == Spec => []SplitInv
BY InitSplit, NextSplit, PTL DEF Spec

(***************************************************************************)
(* What the instructions charge, at each step: nothing before the first    *)
(* split, and then what has been distributed on top of what was due.       *)
(***************************************************************************)
Plain == {ix \in Instruction : ix.name # "fee" /\ ix.lamports = 0}

InputDue  == Due(quote.input_mint, quote.in_amount)
OutputDue == Due(quote.output_mint, quote.out_amount)

\* How far the call has come, whatever the rates.
Progress ==
  /\ pc \in {"priority", "request", "lookups", "input_fee"} => instructions \in Seq(Plain)
  /\ (pc = "output_fee" /\ quote.input_mint # Wsol) => instructions \in Seq(Plain)
  /\ pc \in {"input_fee", "split_input", "output_fee", "split_output"} => quote.typed
  /\ pc = "split_input" =>
       quote.input_mint = Wsol /\ (fee_shares # <<>> => total_fee = InputDue)
  /\ pc = "split_output" =>
       quote.output_mint = Wsol /\ (fee_shares # <<>> => total_fee = OutputDue)

Books ==
  RatesWithin =>
    /\ pc = "split_input" => Charged = total_distributed
    /\ pc = "output_fee" => Charged = InputDue
    /\ pc = "split_output" => Charged = InputDue + total_distributed
    /\ pc = "returned" => Charged = InputDue + OutputDue

FeeInv == Progress /\ Books

LEMMA LamportsType ==
  ASSUME TypeOK
  PROVE  Lamports \in Seq(Nat) /\ Len(Lamports) = Len(instructions) /\ Charged \in Nat
<1>1. instructions \in Seq(Instruction) /\ Len(instructions) \in Nat
  BY DEF TypeOK
<1>2. \A k \in 1 .. Len(instructions) : instructions[k].lamports \in Nat
  <2>1. \A ix \in Instruction : ix.lamports \in Nat
    BY WordType DEF Instruction, Amount
  <2> QED
    BY <1>1, <2>1
<1>3. Lamports \in Seq(Nat) /\ Len(Lamports) = Len(instructions)
  BY <1>1, <1>2 DEF Lamports
<1> QED
  BY <1>3, SumsAdd DEF Charged, SumOf, Adds

LEMMA PlainIsFree ==
  ASSUME NEW ixs \in Seq(Plain)
  PROVE  SumOf([k \in 1 .. Len(ixs) |-> ixs[k].lamports]) = 0
<1> DEFINE s == [k \in 1 .. Len(ixs) |-> ixs[k].lamports]
<1>1. \A k \in 1 .. Len(ixs) : ixs[k].lamports = 0
  BY DEF Plain
<1>2. s \in Seq(Nat) /\ \A k \in 1 .. Len(s) : s[k] = 0
  BY <1>1
<1> HIDE DEF s
<1> QED
  BY <1>2, SumZero DEF s

LEMMA AppendPoints ==
  ASSUME NEW S, NEW s \in Seq(S), NEW a \in S
  PROVE  Append(s, a) = [j \in 1 .. (Len(s) + 1) |-> IF j = Len(s) + 1 THEN a ELSE s[j]]
<1> DEFINE t == [j \in 1 .. (Len(s) + 1) |-> IF j = Len(s) + 1 THEN a ELSE s[j]]
<1>1. t \in Seq(S) /\ Len(t) = Len(s) + 1 /\ t[Len(s) + 1] = a
      /\ \A j \in 1 .. Len(s) : t[j] = s[j]
  OBVIOUS
<1> HIDE DEF t
<1>2. /\ Append(s, a) \in Seq(S) /\ Len(Append(s, a)) = Len(t)
      /\ \A j \in 1 .. Len(Append(s, a)) : Append(s, a)[j] = t[j]
  BY <1>1, AppendProperties
<1> QED
  BY <1>1, <1>2, SeqEqual DEF t

LEMMA TransferCharges ==
  ASSUME TypeOK, NEW n \in Nat, NEW k,
         instructions' = Append(instructions, Transfer(k, n))
  PROVE  Charged' = Charged + n
<1>1. instructions \in Seq(Instruction) /\ Len(instructions) \in Nat
  BY DEF TypeOK
<1>2. Lamports' = Append(Lamports, n)
  <2>1. Len(instructions') = Len(instructions) + 1
    BY <1>1
  <2>2. Lamports' = [j \in 1 .. (Len(instructions) + 1) |-> instructions'[j].lamports]
    BY <2>1 DEF Lamports
  <2>3. \A j \in 1 .. Len(instructions) : instructions'[j] = instructions[j]
    BY <1>1
  <2>4. instructions'[Len(instructions) + 1].lamports = n
    BY <1>1 DEF Transfer
  <2>5. Append(Lamports, n) =
          [j \in 1 .. (Len(instructions) + 1) |->
             IF j = Len(instructions) + 1 THEN n ELSE Lamports[j]]
    BY LamportsType, AppendPoints
  <2> QED
    BY <1>1, <2>2, <2>3, <2>4, <2>5 DEF Lamports
<1> QED
  BY <1>2, LamportsType, SumAppend DEF Charged

\* What does not change as long as the call's input and instructions stay.
LEMMA DueSame ==
  ASSUME UNCHANGED input
  PROVE  /\ InputDue' = InputDue /\ OutputDue' = OutputDue
         /\ quote' = quote /\ fee_shares' = fee_shares
         /\ RatesWithin' <=> RatesWithin
<1>1. quote' = quote /\ fee_shares' = fee_shares
  BY DEF input
<1> QED
  BY <1>1, RatesSame DEF InputDue, OutputDue, Due

LEMMA ChargedSame ==
  ASSUME UNCHANGED instructions
  PROVE  Charged' = Charged
<1>1. Lamports' = Lamports
  BY DEF Lamports
<1> QED
  BY <1>1 DEF Charged

LEMMA DueType ==
  ASSUME TypeOK
  PROVE  /\ InputDue \in Int /\ OutputDue \in Int
         /\ quote.in_amount \in Int /\ quote.out_amount \in Int
<1>1. quote.in_amount \in Int /\ quote.out_amount \in Int /\ FeeBps \in Int
  BY AmountsType, SwapAssumption, WordType DEF TypeOK, Amount
<1>2. \A mint : \A n \in Int : Due(mint, n) \in Int
  <2> SUFFICES ASSUME NEW mint, NEW n \in Int PROVE Due(mint, n) \in Int
    OBVIOUS
  <2> DEFINE product == n * FeeBps
             cut == U64(product)
  <2>1. product \in Int
    BY <1>1
  <2> HIDE DEF product
  <2>2. cut \in Nat
    BY <2>1, U64Range, WordType DEF Amount
  <2>3. Due(mint, n) = IF mint = Wsol /\ quote.typed /\ fee_shares # <<>>
                       THEN cut \div 10000 ELSE 0
    BY DEF Due, cut, product
  <2> HIDE DEF cut
  <2> QED
    BY <2>2, <2>3, DivBounds
<1> QED
  BY <1>1, <1>2 DEF InputDue, OutputDue

LEMMA InitFees == Init => FeeInv
<1> SUFFICES ASSUME Init PROVE FeeInv
  OBVIOUS
<1>1. instructions \in Seq(Plain) /\ pc = "priority"
  BY DEF Init
<1> QED
  BY <1>1 DEF FeeInv, Progress, Books

\* A step with an end that returns nothing, or that only goes on.
LEMMA EndFees ==
  ASSUME pc' \in {"failed", "panicked"}
  PROVE  FeeInv'
BY DEF FeeInv, Progress, Books

LEMMA EarlyFees ==
  ASSUME instructions' \in Seq(Plain), pc' \in {"request", "lookups"}
  PROVE  FeeInv'
BY DEF FeeInv, Progress, Books

LEMMA AssemblePlain ==
  ASSUME FeeInv, Assemble
  PROVE  instructions' \in Seq(Plain)
<1>1. instructions \in Seq(Plain)
  BY DEF Assemble, FeeInv, Progress
<1>2. Ix("setup") \in Plain /\ Ix("swap") \in Plain /\ Ix("cleanup") \in Plain
  BY IxType DEF Plain, Ix
<1>3. CASE Abort("failed")
  BY <1>1, <1>3 DEF Abort
<1>4. ASSUME NEW n \in 0 .. MaxParts, NEW cleanup \in {<<>>, <<Ix("cleanup")>>},
             instructions' =
               instructions \o Copies(Ix("setup"), n) \o <<Ix("swap")>> \o cleanup
      PROVE  instructions' \in Seq(Plain)
  <2>1. n \in Nat
    BY SwapAssumption
  <2>2. /\ Copies(Ix("setup"), n) \in Seq(Plain)
        /\ <<Ix("swap")>> \in Seq(Plain) /\ cleanup \in Seq(Plain)
    BY <1>2, <2>1, CopiesType, OneIsSeq
  <2> QED
    BY <1>1, <1>4, <2>2
<1> QED
  BY <1>3, <1>4 DEF Assemble

LEMMA AssembleFees ==
  ASSUME FeeInv, Assemble
  PROVE  FeeInv'
<1>1. CASE Abort("failed")
  BY <1>1, EndFees DEF Abort
<1>2. CASE /\ pc' = IF quote.typed THEN "input_fee" ELSE "returned"
           /\ UNCHANGED <<input, lookups, split>>
  <2>1. instructions' \in Seq(Plain)
    BY AssemblePlain
  <2>2. Charged' = 0
    BY <2>1, PlainIsFree DEF Charged, Lamports
  <2>3. CASE quote.typed
    BY <1>2, <2>1, <2>3 DEF FeeInv, Progress, Books, input
  <2>4. CASE ~quote.typed
    <3>1. InputDue' = 0 /\ OutputDue' = 0
      BY <1>2, <2>4 DEF InputDue, OutputDue, Due, input
    <3>2. pc' = "returned"
      BY <1>2, <2>4
    <3> QED
      BY <2>2, <3>1, <3>2 DEF FeeInv, Progress, Books
  <2> QED
    BY <2>3, <2>4
<1> QED
  BY <1>1, <1>2 DEF Assemble

LEMMA ChargeInputFees ==
  ASSUME SplitInv, FeeInv, ChargeInput
  PROVE  FeeInv'
<1>1. instructions \in Seq(Plain) /\ quote.typed
  BY DEF ChargeInput, FeeInv, Progress
<1>2. Charged = 0
  BY <1>1, PlainIsFree DEF Charged, Lamports
<1>3. CASE pc' = "panicked"
  BY <1>3, EndFees
<1>4. CASE /\ quote.input_mint = Wsol
           /\ total_fee' = U64(quote.in_amount * FeeBps) \div 10000
           /\ total_distributed' = 0
           /\ pc' = "split_input"
           /\ UNCHANGED <<input, instructions, lookups>>
  <2>1. Charged' = 0 /\ InputDue' = InputDue /\ quote' = quote /\ fee_shares' = fee_shares
    BY <1>2, <1>4, ChargedSame, DueSame
  <2>2. fee_shares # <<>> => total_fee' = InputDue
    BY <1>1, <1>4 DEF InputDue, Due
  <2>3. Progress'
    BY <1>1, <1>4, <2>1, <2>2 DEF Progress
  <2>4. Books'
    BY <1>4, <2>1 DEF Books
  <2> QED
    BY <2>3, <2>4 DEF FeeInv
<1>5. CASE /\ quote.input_mint # Wsol
           /\ pc' = "output_fee"
           /\ UNCHANGED <<input, instructions, lookups, split>>
  <2>1. Charged' = 0 /\ InputDue' = InputDue /\ quote' = quote /\ instructions' = instructions
    BY <1>2, <1>5, ChargedSame, DueSame
  <2>2. InputDue = 0
    BY <1>5 DEF InputDue, Due
  <2>3. Progress'
    BY <1>1, <1>5, <2>1 DEF Progress
  <2>4. Books'
    BY <1>5, <2>1, <2>2 DEF Books
  <2> QED
    BY <2>3, <2>4 DEF FeeInv
<1> QED
  BY <1>3, <1>4, <1>5 DEF ChargeInput, StartSplit, Abort

LEMMA ChargeOutputFees ==
  ASSUME SplitInv, FeeInv, ChargeOutput
  PROVE  FeeInv'
<1>1. quote.typed /\ (RatesWithin => Charged = InputDue) /\ InputDue \in Int
  BY DueType DEF ChargeOutput, FeeInv, Progress, Books, SplitInv
<1>2. CASE pc' = "panicked"
  BY <1>2, EndFees
<1>3. CASE /\ quote.output_mint = Wsol
           /\ total_fee' = U64(quote.out_amount * FeeBps) \div 10000
           /\ total_distributed' = 0
           /\ pc' = "split_output"
           /\ UNCHANGED <<input, instructions, lookups>>
  <2>1. /\ Charged' = Charged /\ InputDue' = InputDue /\ OutputDue' = OutputDue
        /\ quote' = quote /\ fee_shares' = fee_shares /\ (RatesWithin' <=> RatesWithin)
    BY <1>3, ChargedSame, DueSame
  <2>2. fee_shares # <<>> => total_fee' = OutputDue
    BY <1>1, <1>3 DEF OutputDue, Due
  <2>3. Progress'
    BY <1>1, <1>3, <2>1, <2>2 DEF Progress
  <2>4. Books'
    BY <1>1, <1>3, <2>1 DEF Books
  <2> QED
    BY <2>3, <2>4 DEF FeeInv
<1>4. CASE /\ quote.output_mint # Wsol
           /\ pc' = "returned"
           /\ UNCHANGED <<input, instructions, lookups, split>>
  <2>1. /\ Charged' = Charged /\ InputDue' = InputDue /\ OutputDue' = OutputDue
        /\ (RatesWithin' <=> RatesWithin)
    BY <1>4, ChargedSame, DueSame
  <2>2. OutputDue = 0
    BY <1>4 DEF OutputDue, Due
  <2>3. Progress'
    BY <1>4 DEF Progress
  <2>4. Books'
    BY <1>1, <1>4, <2>1, <2>2 DEF Books
  <2> QED
    BY <2>3, <2>4 DEF FeeInv
<1> QED
  BY <1>2, <1>3, <1>4 DEF ChargeOutput, StartSplit, Abort

LEMMA AddShareFees ==
  ASSUME SplitInv, FeeInv, AddShare
  PROVE  FeeInv'
<1>1. CASE pc' = "panicked"
  BY <1>1, EndFees
<1>2. CASE /\ total_distributed' = U64(total_distributed + ShareFee)
           /\ instructions' = Append(instructions, Transfer(i, ShareFee))
           /\ UNCHANGED <<pc, input, lookups, total_fee>>
  <2>1. /\ InputDue' = InputDue /\ OutputDue' = OutputDue /\ InputDue \in Int
        /\ quote' = quote /\ fee_shares' = fee_shares /\ (RatesWithin' <=> RatesWithin)
        /\ pc' = pc /\ total_fee' = total_fee
    BY <1>2, DueSame, DueType DEF SplitInv
  <2>2. pc \in {"split_input", "split_output"}
    BY DEF AddShare, Splitting
  <2>3. Progress'
    BY <2>1, <2>2 DEF Progress, FeeInv
  <2>4. ASSUME RatesWithin
        PROVE  /\ Charged' = Charged + ShareFee
               /\ total_distributed' = total_distributed + ShareFee
               /\ ShareFee \in Nat /\ total_distributed \in Int
    <3>1. RoundFits
      BY <2>4, Round DEF AddShare
    <3>2. ShareFee \in Nat /\ Fits(total_distributed + ShareFee)
          /\ total_distributed + ShareFee \in Nat
      BY <3>1 DEF RoundFits
    <3>3. total_distributed' = total_distributed + ShareFee
      BY <1>2, <3>2, FitsIsExact
    <3>4. Charged' = Charged + ShareFee
      <4> DEFINE n == ShareFee
      <4>1. n \in Nat /\ instructions' = Append(instructions, Transfer(i, n))
        BY <1>2, <3>2
      <4> HIDE DEF n
      <4>2. Charged' = Charged + n
        BY <4>1, TransferCharges DEF SplitInv
      <4> QED
        BY <4>2 DEF n
    <3> QED
      BY <3>2, <3>3, <3>4, WordType DEF SplitInv, TypeOK, Amount
  <2>5. Books'
    <3>1. Charged \in Int
      BY LamportsType DEF SplitInv
    <3> QED
      BY <2>1, <2>2, <2>4, <3>1 DEF Books, FeeInv
  <2> QED
    BY <2>3, <2>5 DEF FeeInv
<1> QED
  BY <1>1, <1>2 DEF AddShare, Abort

LEMMA EndSplitFees ==
  ASSUME SplitInv, FeeInv, EndSplit
  PROVE  FeeInv'
<1> DEFINE due == IF pc = "split_input" THEN InputDue ELSE OutputDue
<1>1. /\ Charged' = Charged /\ InputDue' = InputDue /\ OutputDue' = OutputDue
      /\ quote' = quote /\ (RatesWithin' <=> RatesWithin) /\ pc \in {"split_input", "split_output"}
      /\ pc' = IF pc = "split_input" THEN "output_fee" ELSE "returned"
  BY ChargedSame, DueSame DEF EndSplit, Splitting
<1>2. RatesWithin => total_distributed = due
  <2> SUFFICES ASSUME RatesWithin PROVE total_distributed = due
    OBVIOUS
  <2>1. CASE fee_shares = <<>>
    <3>1. i = 1
      BY <2>1 DEF SplitInv, TypeOK
    <3>2. total_distributed = 0
      BY <3>1 DEF SplitInv, Distribution, EndSplit
    <3>3. InputDue = 0 /\ OutputDue = 0
      BY <2>1 DEF InputDue, OutputDue, Due
    <3> QED
      BY <3>2, <3>3
  <2>2. CASE fee_shares # <<>>
    <3>1. total_distributed = total_fee
      BY <2>2 DEF SplitInv, Distribution, EndSplit
    <3>2. total_fee = due
      BY <1>1, <2>2 DEF FeeInv, Progress
    <3> QED
      BY <3>1, <3>2
  <2> QED
    BY <2>1, <2>2
<1>3. Progress'
  BY <1>1 DEF FeeInv, Progress
<1>4. Books'
  BY <1>1, <1>2 DEF FeeInv, Books
<1> QED
  BY <1>3, <1>4 DEF FeeInv

LEMMA NextFees ==
  ASSUME SplitInv, SplitInv', FeeInv, [Next]_vars
  PROVE  FeeInv'
<1>1. CASE SetPriority
  <2>1. Ix("priority") \in Plain
    BY IxType DEF Plain, Ix
  <2>2. instructions' \in Seq(Plain)
    BY <1>1, <2>1, OneIsSeq DEF SetPriority
  <2> QED
    BY <1>1, <2>2, EarlyFees DEF SetPriority
<1>2. CASE Request
  BY <1>2, EarlyFees, EndFees DEF Request, Abort, FeeInv, Progress
<1>3. CASE FetchLookup
  BY <1>3, EarlyFees, EndFees DEF FetchLookup, Abort, FeeInv, Progress
<1>4. CASE Assemble
  BY <1>4, AssembleFees
<1>5. CASE ChargeInput
  BY <1>5, ChargeInputFees
<1>6. CASE ChargeOutput
  BY <1>6, ChargeOutputFees
<1>7. CASE AddShare
  BY <1>7, AddShareFees
<1>8. CASE EndSplit
  BY <1>8, EndSplitFees
<1>9. CASE UNCHANGED vars
  <2>1. /\ UNCHANGED <<pc, instructions, total_fee, total_distributed>>
        /\ UNCHANGED input
    BY <1>9 DEF vars, input
  <2>2. /\ Charged' = Charged /\ InputDue' = InputDue /\ OutputDue' = OutputDue
        /\ quote' = quote /\ fee_shares' = fee_shares /\ (RatesWithin' <=> RatesWithin)
    BY <2>1, ChargedSame, DueSame
  <2> QED
    BY <2>1, <2>2 DEF FeeInv, Progress, Books
<1> QED
  BY <1>1, <1>2, <1>3, <1>4, <1>5, <1>6, <1>7, <1>8, <1>9 DEF Next

LEMMA FeeInvariant == Spec => [](SplitInv /\ FeeInv)
<1>1. SplitInv /\ SplitInv' /\ FeeInv /\ [Next]_vars => FeeInv'
  BY NextFees
<1> QED
  BY <1>1, InitFees, SplitInvariant, PTL DEF Spec

(***************************************************************************)
(* Rounding: a transfer is bounded when its round appends it, and the fee  *)
(* that it is a share of stays until the call ends.                        *)
(***************************************************************************)
Whole == SumOf(Rates) = 10000 /\ quote.input_mint # quote.output_mint

LEMMA PlainIsRounded ==
  ASSUME instructions' \in Seq(Plain)
  PROVE  RoundingBounded'
BY DEF RoundingBounded, Plain

LEMMA RoundingKeeps ==
  ASSUME RoundingBounded, UNCHANGED <<input, instructions, total_fee>>
  PROVE  RoundingBounded'
<1>1. fee_shares' = fee_shares /\ quote' = quote
  BY DEF input
<1>2. SumOf(Rates)' = SumOf(Rates)
  BY <1>1, RatesSame
<1>3. \A k \in 1 .. Len(instructions) :
        Rounded(instructions[k])' <=> Rounded(instructions[k])
  BY <1>1 DEF Rounded
<1> QED
  BY <1>1, <1>2, <1>3 DEF RoundingBounded

LEMMA RoundingStart ==
  ASSUME SplitInv, FeeInv, RoundingBounded, ChargeInput \/ ChargeOutput
  PROVE  RoundingBounded'
<1>1. CASE UNCHANGED <<input, instructions, total_fee>>
  BY <1>1, RoundingKeeps
<1>2. CASE /\ UNCHANGED <<input, instructions>>
           /\ ChargeInput \/ (ChargeOutput /\ quote.output_mint = Wsol)
  <2>1. CASE instructions \in Seq(Plain)
    BY <1>2, <2>1, PlainIsRounded
  <2>2. CASE ~(instructions \in Seq(Plain))
    <3>1. quote.input_mint = quote.output_mint /\ quote' = quote
      BY <1>2, <2>2 DEF FeeInv, Progress, ChargeInput, ChargeOutput, input
    <3> QED
      BY <3>1 DEF RoundingBounded
  <2> QED
    BY <2>1, <2>2
<1> QED
  BY <1>1, <1>2 DEF ChargeInput, ChargeOutput, StartSplit, Abort, split

LEMMA RoundingShare ==
  ASSUME SplitInv, RoundingBounded, AddShare
  PROVE  RoundingBounded'
<1>1. CASE Abort("panicked")
  BY <1>1, RoundingKeeps DEF Abort, split
<1>2. CASE /\ instructions' = Append(instructions, Transfer(i, ShareFee))
           /\ UNCHANGED <<input, total_fee>>
  <2>1. /\ quote' = quote /\ fee_shares' = fee_shares /\ total_fee' = total_fee
        /\ SumOf(Rates)' = SumOf(Rates)
    BY <1>2, RatesSame DEF input
  <2>2. SUFFICES ASSUME Whole, NEW k \in 1 .. Len(instructions'),
                        instructions'[k].name = "fee"
                 PROVE  Rounded(instructions[k])'
    BY <2>1 DEF RoundingBounded, Whole
  <2> DEFINE ix == instructions'[k]
             n  == Len(instructions)
  <2>3. n \in Nat /\ k \in 1 .. (n + 1) /\ instructions \in Seq(Instruction)
    BY <1>2 DEF SplitInv, TypeOK
  <2>4. Rounded(instructions[k])' <=> Rounded(ix)
    BY <2>1 DEF Rounded
  <2>5. CASE k # n + 1
    <3>1. k \in 1 .. n /\ ix = instructions[k]
      BY <1>2, <2>3, <2>5
    <3> QED
      BY <2>2, <2>4, <3>1 DEF RoundingBounded, Whole
  <2>6. CASE k = n + 1
    <3>1. ix.to = i /\ ix.lamports = ShareFee
      BY <1>2, <2>3, <2>6 DEF Transfer
    <3>2. RatesWithin /\ SumOf(Rates) = 10000 /\ Splitting /\ i <= Len(fee_shares)
      BY <2>2 DEF Whole, RatesWithin, AddShare
    <3>3. CASE i = Len(fee_shares)
      <4>1. LastRound
        BY <3>2, <3>3, Round
      <4> QED
        BY <2>4, <3>1, <3>2, <3>3, <4>1 DEF LastRound, Rounded
    <3>4. CASE i # Len(fee_shares)
      <4>1. OtherRound
        BY <3>2, <3>4, Round
      <4> QED
        BY <2>4, <3>1, <3>4, <4>1 DEF OtherRound, Rounded
    <3> QED
      BY <3>3, <3>4
  <2> QED
    BY <2>5, <2>6
<1> QED
  BY <1>1, <1>2 DEF AddShare

LEMMA NextRounding ==
  ASSUME SplitInv, FeeInv, FeeInv', RoundingBounded, [Next]_vars
  PROVE  RoundingBounded'
<1>1. CASE SetPriority \/ Assemble
  <2>1. instructions' \in Seq(Plain)
    BY <1>1, AssemblePlain DEF SetPriority, FeeInv, Progress
  <2> QED
    BY <2>1, PlainIsRounded
<1>2. CASE Request
  BY <1>2, RoundingKeeps DEF Request, Abort, split
<1>3. CASE FetchLookup
  BY <1>3, RoundingKeeps DEF FetchLookup, Abort, input, split
<1>4. CASE ChargeInput \/ ChargeOutput
  BY <1>4, RoundingStart
<1>5. CASE AddShare
  BY <1>5, RoundingShare
<1>6. CASE EndSplit
  BY <1>6, RoundingKeeps DEF EndSplit, split
<1>7. CASE UNCHANGED vars
  BY <1>7, RoundingKeeps DEF vars, input
<1> QED
  BY <1>1, <1>2, <1>3, <1>4, <1>5, <1>6, <1>7 DEF Next

\* Every variable keeps its shape, the amounts within a machine word.
THEOREM TypeCorrect == Spec => []TypeOK
<1>1. SplitInv => TypeOK
  BY DEF SplitInv
<1>2. QED
  BY <1>1, SplitInvariant, PTL

\* With rates that add up to at most the whole and addresses that parse,
\* calculate_fee never overflows or underflows, whatever amount is swapped:
\* its fee is small enough for every product, and the shares before the last
\* leave something for it.
THEOREM SplitSafe == Spec => SplitNeverPanics
<1>1. ASSUME SplitInv, [Next]_vars, Splitting, RatesWithin, AddressesValid,
             pc' = "panicked"
      PROVE  FALSE
  <2>1. pc \in {"split_input", "split_output"} /\ pc' # pc
    BY <1>1 DEF Splitting
  <2>2. ~SetPriority /\ ~Request /\ ~FetchLookup /\ ~Assemble /\ ~ChargeInput
        /\ ~ChargeOutput /\ ~EndSplit /\ ~UNCHANGED vars
    BY <1>1, <2>1 DEF SetPriority, Request, FetchLookup, Assemble, ChargeInput,
         ChargeOutput, EndSplit, vars
  <2>3. AddShare
    BY <1>1, <2>2 DEF Next
  <2>4. i <= Len(fee_shares) /\ i \in 1 .. Len(fee_shares)
    BY <1>1, <2>3, RatesSum DEF AddShare, SplitInv
  <2>5. /\ RoundFits
        /\ fee_shares[i].address = "valid"
    BY <1>1, <2>4, Round, Zenon DEF AddressesValid
  <2>6. QED
    BY <2>1, <2>3, <2>5 DEF AddShare, RoundFits
<1>2. SplitInv /\ [Next]_vars =>
        [Splitting /\ RatesWithin /\ AddressesValid => pc' # "panicked"]_vars
  BY <1>1
<1>3. QED
  BY <1>2, SplitInvariant, PTL DEF Spec, SplitNeverPanics

\* A call that returns charges exactly the fee of the sides of the swap that
\* are SOL, however it is split and rounded: nothing is lost or charged twice.
THEOREM FeesConserved == Spec => []FeeConserved
<1>1. FeeInv => FeeConserved
  BY DEF FeeInv, Books, FeeConserved, InputDue, OutputDue
<1> QED
  BY <1>1, FeeInvariant, PTL

\* When the rates add up to the whole, no collector's share is off by more
\* than rounding: under a lamport lost by each one but the last, and as much
\* gained by the last for each of the others.
THEOREM RoundingIsBounded == Spec => []RoundingBounded
<1>1. Init => RoundingBounded
  BY DEF Init, RoundingBounded
<1>2. SplitInv /\ FeeInv /\ FeeInv' /\ RoundingBounded /\ [Next]_vars => RoundingBounded'
  BY NextRounding
<1> QED
  BY <1>1, <1>2, FeeInvariant, PTL DEF Spec
=============================================================================
