---------------------------- MODULE BondingCurve ----------------------------
(***************************************************************************)
(* The prices of pump_fun.rs, and a trader who acts on them.               *)
(*                                                                         *)
(* BondingCurveAccount is the account of a curve as the on-chain program   *)
(* keeps it; its methods compute prices from a copy of the account.  A     *)
(* trader reads the account, asks get_buy_price what its SOL buys, and     *)
(* sends a Buy for that many tokens with a limit on the cost.  Before the  *)
(* Buy lands others trade, so that the copy is stale by then.              *)
(*                                                                         *)
(* Reserves and prices are u64, computed in u128 and cut to u64.  The      *)
(* program is not part of the repository: it buys and sells by the         *)
(* formulas of get_buy_out_price and get_sell_price, rounds against the    *)
(* trader, and takes the fee on top of a cost.                             *)
(***************************************************************************)
EXTENDS Integers

CONSTANTS
  InitialTokens,     \* GlobalAccount.initial_virtual_token_reserves
  InitialSol,        \* GlobalAccount.initial_virtual_sol_reserves
  InitialReal,       \* GlobalAccount.initial_real_token_reserves
  Supply,            \* GlobalAccount.token_total_supply
  FEE_BASIS_POINTS,  \* 95 in the code
  CREATOR_FEE,       \* 5 in the code
  Slippage,          \* config.slippage, in basis points
  Amounts,           \* SOL that the trader may spend, in lamports
  Lots,              \* numbers of tokens that others trade
  Scale,             \* the fixed point of the market cap, 10^9 in the code
  MaxSol,            \* bound: nobody buys when the curve holds more
  Word               \* 2^64 in the code

ASSUME CurveAssumption ==
  /\ Word \in Nat \ {0}
  /\ InitialTokens \in 1 .. (Word - 1) /\ InitialSol \in 1 .. (Word - 1)
  /\ InitialReal \in 1 .. (InitialTokens - 1)
  /\ Supply \in InitialReal .. (Word - 1)
  /\ FEE_BASIS_POINTS \in Nat /\ CREATOR_FEE \in Nat /\ Slippage \in Nat
  /\ Amounts \subseteq 1 .. (Word - 1)
  /\ Lots \subseteq 1 .. (Word - 1)
  /\ Scale \in 1 .. (Word - 1) /\ MaxSol \in Nat

VARIABLES
  curve,    \* the account on the chain
  trader,   \* "idle", "ordered", or how its call has ended
  seen,     \* the copy of the account that the order was computed from
  order     \* the Buy that was sent last, and the SOL it is meant to spend

vars == <<curve, trader, seen, order>>

\* What an unchecked build makes of a number; a checked one may panic.
U64(n) == n % Word

Least(a, b) == IF a < b THEN a ELSE b

\* The error "Curve is complete".
CurveComplete == -1

-----------------------------------------------------------------------------
(* The methods of BondingCurveAccount and GlobalAccount.                   *)

\* A fault: the one is not added.
TokensForExactly(sol, tokens, amount) ==
  U64(tokens - (sol * tokens) \div (sol + amount))

\* Tokens for an amount, before the limit of the real reserves: the virtual
\* ones less what must remain of them, plus one, to keep the product.
TokensFor(sol, tokens, amount) ==
  U64(tokens - ((sol * tokens) \div (sol + amount) + 1))

get_buy_price(c, amount) ==
  IF c.complete THEN CurveComplete
  ELSE IF amount = 0 THEN 0
  ELSE Least(TokensFor(c.virtual_sol_reserves, c.virtual_token_reserves, amount),
             c.real_token_reserves)

get_initial_buy_price(amount) ==
  IF amount = 0 THEN 0
  ELSE Least(TokensFor(InitialSol, InitialTokens, amount), InitialReal)

FeeOf(c) == FEE_BASIS_POINTS + IF c.creator THEN CREATOR_FEE ELSE 0

\* What is left of an amount that includes the fee.
NetOf(c, amount) == (amount * 10000) \div (FeeOf(c) + 10000)

\* A fault: the fee is not deducted.
BuyTokenAmountGross(c, amount) ==
  IF amount = 0 \/ c.virtual_token_reserves = 0 THEN 0
  ELSE Least((amount * c.virtual_token_reserves) \div (c.virtual_sol_reserves + amount),
             c.real_token_reserves)

get_buy_token_amount_from_sol_amount(c, amount) ==
  IF amount = 0 \/ c.virtual_token_reserves = 0 THEN 0
  ELSE LET input == NetOf(c, amount)
       IN  Least((input * c.virtual_token_reserves) \div (c.virtual_sol_reserves + input),
                 c.real_token_reserves)

\* A fault: the sold tokens do not enter the divisor.
SolForAtOldPrice(c, tokens) ==
  (tokens * c.virtual_sol_reserves) \div c.virtual_token_reserves

\* SOL for tokens, before the fee.
SolFor(c, tokens) ==
  (tokens * c.virtual_sol_reserves) \div (c.virtual_token_reserves + tokens)

get_sell_price(c, tokens, fee) ==
  IF c.complete THEN CurveComplete
  ELSE IF tokens = 0 THEN 0
  ELSE LET n == SolFor(c, tokens)
       IN  U64(n - (n * fee) \div 10000)

get_market_cap_sol(c) ==
  IF c.virtual_token_reserves = 0 THEN 0
  ELSE U64((Supply * c.virtual_sol_reserves) \div c.virtual_token_reserves)

\* The panic of a division by zero.
DivByZero == -1

\* The amount of tokens is raised to the SOL reserves, which are of another
\* unit.  A divisor of zero panics; one below zero wraps, in an unchecked
\* build, to a number so large that the quotient is zero.
get_buy_out_price(c, amount, fee) ==
  LET sol_tokens == IF amount < c.real_sol_reserves THEN c.real_sol_reserves ELSE amount
      divisor    == c.virtual_token_reserves - sol_tokens
      total      == 1 + IF divisor < 0 THEN 0
                        ELSE (sol_tokens * c.virtual_sol_reserves) \div divisor
  IN  IF divisor = 0 THEN DivByZero ELSE U64(total + (total * fee) \div 10000)

\* A fault: the tokens that are bought out stay in the reserves.
FinalCapOfAllTokens(c, fee) ==
  U64((Supply * (c.virtual_sol_reserves
                   + get_buy_out_price(c, c.real_token_reserves, fee)))
        \div c.virtual_token_reserves)

get_final_market_cap_sol(c, fee) ==
  LET price  == get_buy_out_price(c, c.real_token_reserves, fee)
      value  == c.virtual_sol_reserves + price
      tokens == c.virtual_token_reserves - c.real_token_reserves
  IN  IF price = DivByZero THEN DivByZero
      ELSE IF tokens = 0 THEN 0 ELSE U64((Supply * value) \div tokens)

\* The price of a token as a fixed-point number, before it is cut to u64.
ScaledPrice(c) ==
  ((c.virtual_sol_reserves + c.real_sol_reserves) * Scale)
    \div (c.virtual_token_reserves + c.real_token_reserves)

\* A fault: an overflow is looked for in the product after it has wrapped.
MarketCapChecked(c) ==
  LET price == U64(ScaledPrice(c))
  IN  U64((Supply - c.real_token_reserves) * price) >= price

\* calculate_market_cap_fixed_point prints the market cap, if none of its
\* checked operations fails.
MarketCapComputed(c) ==
  LET circulating == Supply - c.real_token_reserves
  IN  /\ circulating >= 0
      /\ c.virtual_token_reserves + c.real_token_reserves \in 1 .. (Word - 1)
      /\ circulating * U64(ScaledPrice(c)) < Word

-----------------------------------------------------------------------------
(* The program.                                                            *)

\* What it asks for a number of tokens, before the fee.
Cost(c, tokens) ==
  (tokens * c.virtual_sol_reserves) \div (c.virtual_token_reserves - tokens) + 1

\* The account after tokens have left it for some SOL, or come back for it.
Moved(c, tokens, sol) ==
  [virtual_token_reserves |-> c.virtual_token_reserves - tokens,
   virtual_sol_reserves   |-> c.virtual_sol_reserves + sol,
   real_token_reserves    |-> c.real_token_reserves - tokens,
   real_sol_reserves      |-> c.real_sol_reserves + sol,
   complete               |-> c.real_token_reserves = tokens,
   creator                |-> c.creator]

Bought(c, tokens) == Moved(c, tokens, Cost(c, tokens))
Sold(c, tokens)   == Moved(c, -tokens, -SolFor(c, tokens))

\* A Buy goes through: its limit covers the cost and the fee.
Fillable(c, o) ==
  /\ ~c.complete
  /\ o.amount <= c.real_token_reserves
  /\ LET cost == Cost(c, o.amount)
     IN  cost + (cost * FeeOf(c)) \div 10000 <= o.max_sol_cost

Launched(creator) ==
  [virtual_token_reserves |-> InitialTokens, virtual_sol_reserves |-> InitialSol,
   real_token_reserves |-> InitialReal, real_sol_reserves |-> 0,
   complete |-> FALSE, creator |-> creator]

-----------------------------------------------------------------------------
NoOrder == [spend |-> 0, amount |-> 0, max_sol_cost |-> 0]
NoCopy  == Launched(FALSE)

Init ==
  /\ curve \in {Launched(creator) : creator \in BOOLEAN}
  /\ trader = "idle"
  /\ seen = NoCopy
  /\ order = NoOrder

\* The Buy for an amount, computed from a copy of the account.
BuyOrder(c, amount) ==
  [spend |-> amount, amount |-> get_buy_price(c, amount),
   max_sol_cost |-> U64(amount + U64(amount * Slippage) \div 10000)]

\* The buying branch of handle_volume, from the read of the account to the
\* Buy that is sent.  A failed read changes nothing, a complete curve ends
\* the call, and the slippage may overflow.
Order(amount) ==
  /\ trader = "idle"
  /\ curve.virtual_sol_reserves <= MaxSol
  /\ \/ /\ ~curve.complete
        /\ order' = BuyOrder(curve, amount)
        /\ trader' = "ordered"
        /\ seen' = curve
     \/ /\ curve.complete
        /\ trader' = "failed"
        /\ UNCHANGED <<seen, order>>
     \/ /\ ~curve.complete
        /\ amount * Slippage >= Word \/ amount + (amount * Slippage) \div 10000 >= Word
        /\ trader' = "panicked"
        /\ UNCHANGED <<seen, order>>
  /\ UNCHANGED curve

Fill ==
  /\ trader = "ordered"
  /\ Fillable(curve, order)
  /\ curve' = Bought(curve, order.amount)
  /\ trader' = "idle"
  /\ seen' = NoCopy /\ order' = NoOrder

\* The program rejects the Buy, or it never lands.
Lose ==
  /\ trader = "ordered"
  /\ trader' = "idle"
  /\ seen' = NoCopy /\ order' = NoOrder
  /\ UNCHANGED curve

OtherBuys(tokens) ==
  /\ ~curve.complete
  /\ curve.virtual_sol_reserves <= MaxSol
  /\ tokens <= curve.real_token_reserves
  /\ curve' = Bought(curve, tokens)
  /\ UNCHANGED <<trader, seen, order>>

\* Others, or the trader, sell what has been bought before.
OtherSells(tokens) ==
  /\ ~curve.complete
  /\ tokens <= InitialReal - curve.real_token_reserves
  /\ curve' = Sold(curve, tokens)
  /\ UNCHANGED <<trader, seen, order>>

Next ==
  \/ \E amount \in Amounts : Order(amount)
  \/ Fill \/ Lose
  \/ \E tokens \in Lots : OtherBuys(tokens) \/ OtherSells(tokens)

Spec == Init /\ [][Next]_vars

-----------------------------------------------------------------------------
(* Properties                                                              *)

Curves ==
  [virtual_token_reserves : Nat, virtual_sol_reserves : Nat,
   real_token_reserves : Nat, real_sol_reserves : Nat,
   complete : BOOLEAN, creator : BOOLEAN]

Orders == [spend : Nat, amount : Nat, max_sol_cost : Nat]

TypeOK ==
  /\ curve \in Curves /\ seen \in Curves
  /\ trader \in {"idle", "ordered", "failed", "panicked"}
  /\ order \in Orders

\* The curve can pay get_sell_price for whatever its buyers hold, after any
\* sequence of trades: rounding never eats into the SOL of others.
Solvent ==
  ~curve.complete => \A tokens \in 1 .. (InitialReal - curve.real_token_reserves) :
    get_sell_price(curve, tokens, 0) <= curve.real_sol_reserves

\* A Buy for what get_buy_price said goes through as long as nobody has bought
\* more in the meantime, if the slippage covers the fee: the quote, the cost
\* and the fee all round in favour of the order.
QuoteHonoured ==
  (/\ trader = "ordered"
   /\ curve.virtual_sol_reserves <= seen.virtual_sol_reserves
   /\ curve.virtual_token_reserves >= seen.virtual_token_reserves
   /\ FeeOf(curve) <= Slippage
   /\ order.spend * Slippage < Word
   /\ order.spend + (order.spend * Slippage) \div 10000 < Word)
  => Fillable(curve, order)

\* Buying what get_buy_price promises for an amount and selling it at once for
\* get_sell_price never returns more than the amount.
NoRoundTripGain ==
  ~curve.complete => \A amount \in Amounts :
    LET tokens == get_buy_price(curve, amount)
    IN  get_sell_price(Bought(curve, tokens), tokens, 0) <= amount

\* The two ways to quote a buy agree to one token on an amount after fees.
QuotesAgree ==
  ~curve.complete => \A amount \in Amounts :
    get_buy_token_amount_from_sol_amount(curve, amount)
      - get_buy_price(curve, NetOf(curve, amount)) \in {0, 1}

\* Whatever is traded, nobody gets more tokens for an amount than the quote
\* for the first buyer says, however the roundings add up.
LaunchIsCheapest ==
  ~curve.complete => \A amount \in Amounts :
    get_buy_price(curve, amount) <= get_initial_buy_price(amount)

\* The cap that the curve ends with, once all its real tokens are bought.
CapReached(c) == get_market_cap_sol(Bought(c, c.real_token_reserves))

\* The final market cap, without fees, is the one that the curve ends with as
\* long as no more lamports than tokens are in the real reserves.  When there
\* are more, the price is that of as many tokens as there are lamports: the cap
\* comes out too high, if at all wrong, and never too low, until there are as
\* many lamports as virtual tokens and there is no price.  Both as far as what
\* is computed fits in a u64.
FinalCapIsReached ==
  LET lamports == curve.real_sol_reserves
      tokens   == curve.real_token_reserves
      final    == get_final_market_cap_sol(curve, 0)
  IN  ~curve.complete =>
        /\ (lamports <= tokens /\ Cost(curve, tokens) < Word)
             => final = CapReached(curve)
        /\ (/\ lamports \in (tokens + 1) .. (curve.virtual_token_reserves - 1)
            /\ Cost(curve, lamports) < Word
            /\ (Supply * (curve.virtual_sol_reserves + Cost(curve, lamports)))
                 \div (curve.virtual_token_reserves - tokens) < Word)
             => final >= CapReached(curve)

\* A market cap that has become too large to compute stays so until somebody
\* sells: no purchase makes a later call of calculate_market_cap_fixed_point
\* print a number again, which would be one of a wrapped product.  The token
\* reserves must add up within u64, and so must the price: the code cuts it
\* without a check.
CapFailsForGood ==
  [][(/\ ~MarketCapComputed(curve)
      /\ curve.virtual_token_reserves + curve.real_token_reserves < Word
      /\ curve'.real_token_reserves < curve.real_token_reserves
      /\ ScaledPrice(curve') < Word)
     => ~MarketCapComputed(curve')]_vars
=============================================================================
