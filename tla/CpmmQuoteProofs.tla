-------------------------- MODULE CpmmQuoteProofs --------------------------
(***************************************************************************)
(* What the quotes of CpmmQuote are worth, for all balances, amounts and   *)
(* fees and any number of trades between the two reads.                    *)
(***************************************************************************)
EXTENDS CpmmQuote, TLAPS

(***************************************************************************)
(* Arithmetic of quotients that are rounded down.                          *)
(***************************************************************************)
\* A product keeps order.
LEMMA TimesMonotone ==
  ASSUME NEW a \in Nat, NEW b \in Nat, NEW c \in Nat, a <= b
  PROVE  a * c \in Nat /\ b * c \in Nat /\ a * c <= b * c
<1>1. PICK d \in Nat : b = a + d
  BY b - a \in Nat
<1>2. b * c = a * c + d * c
  BY <1>1
<1>3. d * c \in Nat /\ a * c \in Nat /\ b * c \in Nat
  OBVIOUS
<1> QED
  BY <1>2, <1>3

\* A strict inequality of products loses its common factor.
LEMMA TimesCancel ==
  ASSUME NEW a \in Nat, NEW b \in Nat, NEW c \in Nat, a * c < b * c
  PROVE  a < b
<1>1. SUFFICES ASSUME b <= a PROVE FALSE
  OBVIOUS
<1>2. b * c <= a * c
  BY <1>1, TimesMonotone
<1> QED
  BY <1>2, a * c \in Nat, b * c \in Nat

LEMMA DivBounds ==
  ASSUME NEW n \in Nat, NEW d \in Nat \ {0}
  PROVE  n \div d \in Nat /\ (n \div d) * d <= n /\ n < (n \div d + 1) * d
OBVIOUS

\* A quotient grows with its dividend and falls with its divisor.
LEMMA QuotientGrows ==
  ASSUME NEW n \in Nat, NEW m \in Nat, n <= m,
         NEW d \in Nat \ {0}, NEW e \in Nat \ {0}, e <= d
  PROVE  n \div d <= m \div e
<1> DEFINE q == n \div d
           r == m \div e
<1>1. q \in Nat /\ q * d <= n /\ r \in Nat /\ m < (r + 1) * e
  BY DivBounds
<1> HIDE DEF q, r
<1>2. q * e <= q * d /\ q * e \in Nat /\ q * d \in Nat
  BY <1>1, TimesMonotone, e * q = q * e, d * q = q * d
<1>3. q * e < (r + 1) * e
  BY <1>1, <1>2, (r + 1) * e \in Nat
<1>4. q < r + 1
  BY <1>1, <1>3, TimesCancel, r + 1 \in Nat
<1> QED
  BY <1>1, <1>4 DEF q, r

(***************************************************************************)
(* One quote.                                                              *)
(***************************************************************************)
\* An empty vault fails the quote.  With none it is the product rounded down:
\* less than the vault holds, and the most that the product allows.
LEMMA QuoteValue ==
  ASSUME NEW in \in Nat \ {0}, NEW out \in Nat \ {0}, NEW a \in Nat
  PROVE  LET q == AmountOut(in, out, a)
         IN  /\ q = (a * out) \div (in + a) /\ q \in Nat /\ q < out
             /\ in * out <= (in + a) * (out - q)
             /\ (in + a) * (out - (q + 1)) < in * out
<1> DEFINE q == (a * out) \div (in + a)
<1>1. q \in Nat /\ q * (in + a) <= a * out /\ a * out < (q + 1) * (in + a)
  BY DivBounds, a * out \in Nat, in + a \in Nat \ {0}
<1>2. AmountOut(in, out, a) = IF q >= out THEN Failed ELSE q
  BY DEF AmountOut
<1> HIDE DEF q
<1>3. a * out < out * (in + a)
  <2>1. out * (in + a) = a * out + out * in
    OBVIOUS
  <2>2. out * in \in Nat \ {0}
    OBVIOUS
  <2> QED
    BY <2>1, <2>2, a * out \in Nat
<1>4. q < out
  <2>1. q * (in + a) < out * (in + a)
    BY <1>1, <1>3, q * (in + a) \in Nat, out * (in + a) \in Nat, a * out \in Nat
  <2> QED
    BY <1>1, <2>1, TimesCancel, in + a \in Nat
<1>5. in * out <= (in + a) * (out - q)
  <2>1. (in + a) * (out - q) = in * out + a * out - q * (in + a)
    BY <1>1
  <2> QED
    BY <1>1, <2>1, in * out \in Nat, a * out \in Nat, q * (in + a) \in Nat
<1>6. (in + a) * (out - (q + 1)) < in * out
  <2>1. (in + a) * (out - (q + 1)) = in * out + a * out - (q + 1) * (in + a)
    BY <1>1
  <2> QED
    BY <1>1, <2>1, in * out \in Nat, a * out \in Nat, (q + 1) * (in + a) \in Nat
<1>7. AmountOut(in, out, a) = q
  BY <1>1, <1>2, <1>4
<1> QED
  BY <1>1, <1>4, <1>5, <1>6, <1>7 DEF q

LEMMA QuoteType ==
  ASSUME NEW in \in Nat, NEW out \in Nat, NEW a \in Nat
  PROVE  /\ AmountOut(in, out, a) \in Nat \cup {Failed}
         /\ AmountOut(in, out, a) = Failed <=> (in = 0 \/ out = 0)
<1>1. CASE in = 0 \/ out = 0
  BY <1>1 DEF AmountOut
<1>2. CASE ~(in = 0 \/ out = 0)
  BY <1>2, QuoteValue DEF Failed
<1> QED
  BY <1>1, <1>2

\* More of the token that comes in, and less of the other, lower the quote.
LEMMA QuoteFalls ==
  ASSUME NEW in \in Nat \ {0}, NEW out \in Nat \ {0}, NEW a \in Nat,
         NEW in2 \in Nat \ {0}, NEW out2 \in Nat \ {0}, in <= in2, out2 <= out
  PROVE  AmountOut(in2, out2, a) <= AmountOut(in, out, a)
<1>1. a * out2 \in Nat /\ a * out \in Nat /\ a * out2 <= a * out
  BY TimesMonotone, out2 * a = a * out2, out * a = a * out
<1>2. in + a \in Nat \ {0} /\ in2 + a \in Nat \ {0} /\ in + a <= in2 + a
  OBVIOUS
<1>3. (a * out2) \div (in2 + a) <= (a * out) \div (in + a)
  BY <1>1, <1>2, QuotientGrows
<1> QED
  BY <1>3, QuoteValue

(***************************************************************************)
(* The inductive invariant: how the balances that were read relate to the  *)
(* vaults before and after what others did.                                *)
(***************************************************************************)
\* Swaps of one token only fill its vault and drain the other, and empty none.
Drained(token) ==
  /\ before[token] <= vault[token]
  /\ vault[Other(token)] <= before[Other(token)]
  /\ \A t \in Tokens : before[t] = 0 <=> vault[t] = 0

Drift ==
  /\ between = {} => vault = before
  /\ \A token \in Tokens : between \subseteq {token} => Drained(token)

ReadInv ==
  /\ pc \in {"fetch", "first"} => between = {}
  /\ pc \in {"second", "ask", "quoted"} => read[0] = before[0] /\ Drift
  /\ pc \in {"ask", "quoted"} => read[1] = vault[1]
  /\ pc = "quoted" => quote = Quote(read, asked.side, asked.amount)

Inv == TypeOK /\ ReadInv

LEMMA TokensAre ==
  /\ 0 \in Tokens /\ 1 \in Tokens /\ 0 # 1
  /\ \A t \in Tokens : (t = 0 \/ t = 1) /\ Other(t) \in Tokens /\ Other(t) # t
  /\ Other(0) = 1 /\ Other(1) = 0
BY DEF Tokens, Other

LEMMA InitInv == Init => Inv
<1> SUFFICES ASSUME Init PROVE Inv
  OBVIOUS
<1>1. vault \in [Tokens -> Nat]
  BY QuoteAssumption DEF Init
<1>2. TypeOK
  BY <1>1, QuoteAssumption DEF Init, TypeOK, NoQuestion
<1> QED
  BY <1>2 DEF Init, Inv, ReadInv

LEMMA EndKeeps ==
  ASSUME Inv, NEW how \in {"failed", "panicked"}, End(how)
  PROVE  Inv'
BY DEF Inv, TypeOK, ReadInv, End

LEMMA FetchKeeps ==
  ASSUME Inv, Fetch
  PROVE  Inv'
<1>1. CASE End("first")
  BY <1>1 DEF Inv, TypeOK, ReadInv, Fetch, End
<1> QED
  BY <1>1, EndKeeps DEF Fetch

LEMMA ReadFirstKeeps ==
  ASSUME Inv, ReadFirst
  PROVE  Inv'
<1>1. CASE End("panicked")
  BY <1>1, EndKeeps
<1>2. CASE /\ read' = [read EXCEPT ![0] = vault[0]]
           /\ before' = vault
           /\ pc' = "second"
           /\ UNCHANGED <<wsol, vault, asked, quote, between, trades>>
  <2>1. vault \in [Tokens -> Nat] /\ read \in [Tokens -> Nat]
    BY DEF Inv, TypeOK
  <2>2. read' \in [Tokens -> Nat] /\ read'[0] = vault[0]
    BY <1>2, <2>1, TokensAre
  <2>3. TypeOK'
    BY <1>2, <2>1, <2>2 DEF Inv, TypeOK
  <2>4. \A t \in Tokens : vault[t] \in Nat /\ vault[Other(t)] \in Nat
    BY <2>1, TokensAre
  <2>5. Drift'
    BY <1>2, <2>4 DEF Drift, Drained
  <2>6. ReadInv'
    BY <1>2, <2>2, <2>5 DEF ReadInv
  <2> QED
    BY <2>3, <2>6 DEF Inv
<1> QED
  BY <1>1, <1>2 DEF ReadFirst

LEMMA ReadSecondKeeps ==
  ASSUME Inv, ReadSecond
  PROVE  Inv'
<1>1. CASE End("panicked") \/ End("failed")
  BY <1>1, EndKeeps
<1>2. CASE /\ read' = [read EXCEPT ![1] = vault[1]]
           /\ pc' = "ask"
           /\ UNCHANGED <<wsol, vault, asked, quote, before, between, trades>>
  <2>1. vault \in [Tokens -> Nat] /\ read \in [Tokens -> Nat]
    BY DEF Inv, TypeOK
  <2>2. read' \in [Tokens -> Nat] /\ read'[1] = vault[1] /\ read'[0] = read[0]
    BY <1>2, <2>1, TokensAre
  <2>3. TypeOK'
    BY <1>2, <2>2 DEF Inv, TypeOK
  <2>4. read[0] = before[0] /\ Drift
    BY DEF Inv, ReadInv, ReadSecond
  <2>5. Drift'
    BY <1>2, <2>4 DEF Drift, Drained
  <2>6. ReadInv'
    BY <1>2, <2>2, <2>4, <2>5 DEF ReadInv
  <2> QED
    BY <2>3, <2>6 DEF Inv
<1> QED
  BY <1>1, <1>2 DEF ReadSecond

LEMMA AskKeeps ==
  ASSUME Inv, NEW side \in {"buy", "sell"}, NEW amount \in Amounts, Ask(side, amount)
  PROVE  Inv'
<1>1. amount \in Nat /\ wsol \in Tokens /\ read \in [Tokens -> Nat]
  BY QuoteAssumption DEF Inv, TypeOK
<1>2. TokenIn(side) \in Tokens /\ Other(TokenIn(side)) \in Tokens
  BY <1>1, TokensAre DEF TokenIn
<1>3. Quote(read, side, amount) \in Nat \cup {Failed}
  BY <1>1, <1>2, QuoteType DEF Quote
<1>4. asked' \in [side : {"buy", "sell"}, amount : Nat]
      /\ asked'.side = side /\ asked'.amount = amount
  BY <1>1 DEF Ask
<1>5. TypeOK'
  BY <1>3, <1>4 DEF Inv, TypeOK, Ask
<1>6. read[0] = before[0] /\ read[1] = vault[1] /\ Drift
  BY DEF Inv, ReadInv, Ask
<1>7. Drift' /\ read'[0] = before'[0] /\ read'[1] = vault'[1]
  BY <1>6 DEF Drift, Drained, Ask
<1>8. quote' = Quote(read, asked.side, asked.amount)'
  BY <1>4 DEF Ask, Quote, TokenIn
<1>9. ReadInv'
  BY <1>7, <1>8 DEF ReadInv, Ask
<1> QED
  BY <1>5, <1>9 DEF Inv

\* What others do may change the vaults, as long as the balances drift.
LEMMA HappenedKeeps ==
  ASSUME Inv, NEW what \in Tokens \cup {Liquidity}, Happened(what),
         vault' \in [Tokens -> Nat], Drift'
  PROVE  Inv'
<1>1. /\ pc' = pc /\ pc = "second" /\ read' = read /\ before' = before /\ asked' = asked
      /\ quote' = quote /\ wsol' = wsol /\ between' = between \cup {what}
      /\ trades' = trades + 1 /\ trades < MaxTrades
  BY DEF Happened, caller
<1>2. trades' \in 0 .. MaxTrades
  BY <1>1, QuoteAssumption DEF Inv, TypeOK
<1>3. TypeOK'
  BY <1>1, <1>2 DEF Inv, TypeOK
<1>4. ReadInv'
  BY <1>1 DEF Inv, ReadInv
<1> QED
  BY <1>3, <1>4 DEF Inv

LEMMA SwapKeeps ==
  ASSUME Inv, NEW token \in Tokens, NEW amount \in Amounts, NEW fee \in 0 .. MaxFee,
         OthersSwap(token, amount, fee)
  PROVE  Inv'
<1> DEFINE other == Other(token)
           in    == vault[token]
           have  == vault[other]
           whole == (amount * have) \div (in + amount)
           out   == whole - fee
<1>1. /\ amount \in Nat /\ fee \in Nat
      /\ vault \in [Tokens -> Nat] /\ before \in [Tokens -> Nat]
      /\ other \in Tokens /\ other # token /\ Tokens = {token, other}
      /\ Other(other) = token
  BY QuoteAssumption, TokensAre DEF Inv, TypeOK, Tokens, Other
<1>2. in \in Nat \ {0} /\ have \in Nat \ {0}
  BY <1>1 DEF OthersSwap
<1>3. whole \in Nat /\ whole < have
  BY <1>1, <1>2, QuoteValue
<1>4. out > 0 /\ vault' = [vault EXCEPT ![token] = @ + amount, ![other] = @ - out]
  BY DEF OthersSwap
<1>5. out \in Nat \ {0} /\ have - out \in Nat \ {0} /\ have - out <= have
  <2> HIDE DEF whole, have
  <2> QED
    BY <1>1, <1>2, <1>3, <1>4
<1> HIDE DEF out
<1>6. /\ vault' \in [Tokens -> Nat]
      /\ vault'[token] = in + amount /\ vault'[other] = have - out
  BY <1>1, <1>2, <1>4, <1>5
<1>7. Drift /\ between' = between \cup {token} /\ before' = before
  BY DEF OthersSwap, Happened, caller, Inv, ReadInv
<1>8. ASSUME between \subseteq {token} PROVE Drained(token)'
  <2>1. Drained(token)
    BY <1>7, <1>8 DEF Drift
  <2>2. before[token] <= vault'[token] /\ before[token] \in Nat
    BY <1>1, <1>2, <1>6, <2>1 DEF Drained
  <2>3. vault'[other] <= before[other] /\ before[other] \in Nat
    BY <1>1, <1>2, <1>5, <1>6, <2>1 DEF Drained
  <2>4. \A t \in Tokens : vault'[t] # 0
    BY <1>1, <1>2, <1>5, <1>6
  <2>5. \A t \in Tokens : before[t] # 0
    BY <1>1, <1>2, <2>1 DEF Drained
  <2> QED
    BY <1>7, <2>2, <2>3, <2>4, <2>5 DEF Drained
<1>9. Drift'
  <2>1. between' # {}
    BY <1>7
  <2>2. ASSUME NEW t \in Tokens, between' \subseteq {t} PROVE Drained(t)'
    BY <1>7, <1>8, <2>2
  <2> QED
    BY <2>1, <2>2 DEF Drift
<1> QED
  BY <1>6, <1>9, HappenedKeeps DEF OthersSwap

LEMMA LiquidityKeeps ==
  ASSUME Inv, OthersDeposit \/ OthersWithdraw
  PROVE  Inv'
<1>1. vault \in [Tokens -> Nat]
  BY DEF Inv, TypeOK
<1>2. vault' \in [Tokens -> Nat]
  <2>1. \A t \in Tokens : 2 * vault[t] \in Nat /\ vault[t] \div 2 \in Nat
    BY <1>1, DivBounds
  <2> QED
    BY <2>1 DEF OthersDeposit, OthersWithdraw
<1>3. Happened(Liquidity) /\ Liquidity \in between'
  BY DEF OthersDeposit, OthersWithdraw, Happened
<1>4. Drift'
  <2>1. \A t \in Tokens : ~(between' \subseteq {t})
    BY <1>3 DEF Liquidity, Tokens
  <2> QED
    BY <1>3, <2>1 DEF Drift
<1> QED
  BY <1>2, <1>3, <1>4, HappenedKeeps

LEMMA NextInv == Inv /\ [Next]_vars => Inv'
<1> SUFFICES ASSUME Inv, [Next]_vars PROVE Inv'
  OBVIOUS
<1>1. CASE Fetch
  BY <1>1, FetchKeeps
<1>2. CASE ReadFirst
  BY <1>2, ReadFirstKeeps
<1>3. CASE ReadSecond
  BY <1>3, ReadSecondKeeps
<1>4. ASSUME NEW side \in {"buy", "sell"}, NEW amount \in Amounts, Ask(side, amount)
      PROVE  Inv'
  BY <1>4, AskKeeps
<1>5. ASSUME NEW token \in Tokens, NEW amount \in Amounts, NEW fee \in 0 .. MaxFee,
             OthersSwap(token, amount, fee)
      PROVE  Inv'
  BY <1>5, SwapKeeps
<1>6. CASE OthersDeposit \/ OthersWithdraw
  BY <1>6, LiquidityKeeps
<1>7. CASE UNCHANGED vars
  BY <1>7 DEF vars, Inv, TypeOK, ReadInv, Drift, Drained, Quote, TokenIn
<1> QED
  BY <1>1, <1>2, <1>3, <1>4, <1>5, <1>6, <1>7 DEF Next

LEMMA Invariance == Spec => []Inv
BY InitInv, NextInv, PTL DEF Spec

-----------------------------------------------------------------------------
\* Balances, answers and what others did keep their shapes; no vault is ever
\* drained below zero.
THEOREM TypeCorrect == Spec => []TypeOK
<1>1. Inv => TypeOK
  BY DEF Inv
<1> QED
  BY <1>1, Invariance, PTL

\* The question of a quoted caller, by its balances.
LEMMA QuotedFields ==
  ASSUME Inv, pc = "quoted"
  PROVE  LET in  == TokenIn(asked.side)
             out == Other(TokenIn(asked.side))
         IN  /\ in \in Tokens /\ out \in Tokens /\ Tokens = {in, out} /\ Other(out) = in
             /\ asked.amount \in Nat
             /\ \A balances : In(balances) = balances[in] /\ Out(balances) = balances[out]
             /\ \A balances : Quote(balances, asked.side, asked.amount) =
                                AmountOut(balances[in], balances[out], asked.amount)
<1>1. /\ wsol \in Tokens /\ asked.side \in {"buy", "sell"} /\ asked.amount \in Nat
  BY DEF Inv, TypeOK
<1>2. /\ TokenIn(asked.side) \in Tokens /\ Other(TokenIn(asked.side)) \in Tokens
      /\ Tokens = {TokenIn(asked.side), Other(TokenIn(asked.side))}
      /\ Other(Other(TokenIn(asked.side))) = TokenIn(asked.side)
      /\ Other(Other(wsol)) = wsol
  BY <1>1, TokensAre DEF TokenIn, Tokens, Other
<1>3. \A balances : In(balances) = balances[TokenIn(asked.side)]
                    /\ Out(balances) = balances[Other(TokenIn(asked.side))]
  BY <1>1, <1>2 DEF In, Out, TokenIn
<1> QED
  BY <1>1, <1>2, <1>3 DEF Quote

\* A quote of a pool that stands still is exact: the most that the pool can
\* give without losing in product, and an error only for an empty vault.
THEOREM QuotesExact == Spec => []QuoteExact
<1>1. ASSUME Inv, pc = "quoted", between = {}
      PROVE  IF \E token \in Tokens : vault[token] = 0 THEN quote = Failed
             ELSE /\ quote \in 0 .. Out(vault)
                  /\ Affordable(vault, quote)
                  /\ ~Affordable(vault, quote + 1)
  <2> DEFINE in  == TokenIn(asked.side)
             out == Other(TokenIn(asked.side))
             a   == asked.amount
             q   == AmountOut(vault[in], vault[out], a)
  <2>1. /\ in \in Tokens /\ out \in Tokens /\ Tokens = {in, out} /\ a \in Nat
        /\ In(vault) = vault[in] /\ Out(vault) = vault[out]
        /\ quote = AmountOut(read[in], read[out], a)
    BY <1>1, QuotedFields DEF Inv, ReadInv
  <2>2. \A t \in Tokens : read[t] = vault[t] /\ vault[t] \in Nat
    <3>1. read[0] = vault[0] /\ read[1] = vault[1]
      BY <1>1 DEF Inv, ReadInv, Drift
    <3> QED
      BY <1>1, <3>1, TokensAre DEF Inv, TypeOK
  <2>3. quote = q
    BY <2>1, <2>2
  <2> HIDE DEF in, out, a
  <2>4. CASE \E token \in Tokens : vault[token] = 0
    <3>1. vault[in] = 0 \/ vault[out] = 0
      BY <2>1, <2>4
    <3> QED
      BY <2>1, <2>2, <2>3, <2>4, <3>1, QuoteType
  <2>5. CASE ~ \E token \in Tokens : vault[token] = 0
    <3>1. vault[in] \in Nat \ {0} /\ vault[out] \in Nat \ {0}
      BY <2>1, <2>2, <2>5
    <3>2. /\ q \in Nat /\ q < vault[out]
          /\ vault[in] * vault[out] <= (vault[in] + a) * (vault[out] - q)
          /\ (vault[in] + a) * (vault[out] - (q + 1)) < vault[in] * vault[out]
      BY <2>1, <3>1, QuoteValue
    <3> HIDE DEF q
    <3>3. quote \in 0 .. Out(vault)
      BY <2>1, <2>3, <3>1, <3>2
    <3>4. Affordable(vault, quote) /\ ~Affordable(vault, quote + 1)
      <4> DEFINE n == vault[in]
                 m == vault[out]
      <4>1. n \in Nat /\ m \in Nat /\ q \in Nat /\ a \in Nat
        BY <2>1, <3>1, <3>2
      <4>2. /\ n * m \in Int /\ (n + a) * (m - q) \in Int /\ (n + a) * (m - (q + 1)) \in Int
        BY <4>1
      <4>3. /\ Affordable(vault, quote) <=> (n + a) * (m - q) >= n * m
            /\ Affordable(vault, quote + 1) <=> (n + a) * (m - (q + 1)) >= n * m
        BY <2>1, <2>3 DEF Affordable, a
      <4> QED
        BY <3>2, <4>2, <4>3
    <3> QED
      BY <2>5, <3>3, <3>4
  <2> QED
    BY <2>4, <2>5
<1>2. Inv => QuoteExact
  BY <1>1 DEF QuoteExact
<1> QED
  BY <1>2, Invariance, PTL

-----------------------------------------------------------------------------
LEMMA MinMaxOfTwo ==
  ASSUME NEW x \in Int, NEW y \in Int
  PROVE  /\ Min({x, y}) = IF x <= y THEN x ELSE y
         /\ Max({x, y}) = IF x <= y THEN y ELSE x
BY DEF Min, Max

\* However torn the two balances are by swaps of others in one direction, the
\* quote lies between those of the pool before and after them.
THEOREM TornQuotesBounded == Spec => []TornBounded
<1>1. ASSUME Inv, pc = "quoted", NEW token \in Tokens, between \subseteq {token},
             quote # Failed
      PROVE  LET ends == {Quote(before, asked.side, asked.amount),
                          Quote(vault, asked.side, asked.amount)}
             IN  quote \in Min(ends) .. Max(ends)
  <2> DEFINE in  == TokenIn(asked.side)
             out == Other(TokenIn(asked.side))
             a   == asked.amount
             Q(b) == AmountOut(b[in], b[out], a)
  <2>1. /\ in \in Tokens /\ out \in Tokens /\ Tokens = {in, out} /\ Other(out) = in
        /\ a \in Nat
        /\ \A b : Quote(b, asked.side, asked.amount) = Q(b)
    BY <1>1, QuotedFields
  <2>2. quote = Q(read)
    BY <1>1, <2>1 DEF Inv, ReadInv
  <2>3. /\ read[0] = before[0] /\ read[1] = vault[1] /\ Drained(token)
    BY <1>1 DEF Inv, ReadInv, Drift
  <2>4. \A t \in Tokens : read[t] \in Nat /\ vault[t] \in Nat /\ before[t] \in Nat
    BY <1>1 DEF Inv, TypeOK
  <2> HIDE DEF in, out, a
  <2>5. \A t \in Tokens : read[t] \in Nat \ {0} /\ vault[t] \in Nat \ {0}
                          /\ before[t] \in Nat \ {0}
    <3>1. read[in] # 0 /\ read[out] # 0
      <4>1. read[in] \in Nat /\ read[out] \in Nat
        BY <2>1, <2>4
      <4> QED
        BY <1>1, <2>1, <2>2, <4>1, QuoteType
    <3>2. read[0] # 0 /\ read[1] # 0
      BY <2>1, <3>1, TokensAre
    <3> QED
      BY <2>3, <2>4, <3>2, TokensAre DEF Drained
  <2>6. Q(read) \in Int /\ Q(before) \in Int /\ Q(vault) \in Int
    <3>1. \A n, m \in Nat \ {0} : AmountOut(n, m, a) \in Int
      BY <2>1, QuoteValue
    <3> QED
      BY <2>1, <2>5, <3>1
  <2>7. ASSUME NEW x, NEW y, x \in [Tokens -> Nat \ {0}], y \in [Tokens -> Nat \ {0}],
               x[in] <= y[in], y[out] <= x[out]
        PROVE  Q(y) <= Q(x)
    BY <2>1, <2>7, QuoteFalls
  <2>8. /\ read \in [Tokens -> Nat \ {0}] /\ vault \in [Tokens -> Nat \ {0}]
        /\ before \in [Tokens -> Nat \ {0}]
    BY <1>1, <2>5 DEF Inv, TypeOK
  <2>9. \/ Q(before) <= Q(read) /\ Q(read) <= Q(vault)
        \/ Q(vault) <= Q(read) /\ Q(read) <= Q(before)
    <3>1. (in = 0 /\ out = 1) \/ (in = 1 /\ out = 0)
      BY <2>1 DEF Tokens, Other
    <3>2. \/ before[0] <= vault[0] /\ vault[1] <= before[1]
          \/ before[1] <= vault[1] /\ vault[0] <= before[0]
      BY <2>3, TokensAre DEF Drained
    <3>3. \A t \in Tokens : before[t] <= before[t] /\ vault[t] <= vault[t]
      BY <2>4
    <3> HIDE DEF Q
    <3> QED
      BY <2>3, <2>7, <2>8, <3>1, <3>2, <3>3, TokensAre
  <2> HIDE DEF Q
  <2>10. quote \in Min({Q(before), Q(vault)}) .. Max({Q(before), Q(vault)})
    BY <2>2, <2>6, <2>9, MinMaxOfTwo
  <2> QED
    BY <2>1, <2>10
<1>2. Inv => TornBounded
  BY <1>1 DEF TornBounded
<1> QED
  BY <1>2, Invariance, PTL
=============================================================================
