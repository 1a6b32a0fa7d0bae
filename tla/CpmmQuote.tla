----------------------------- MODULE CpmmQuote -----------------------------
(***************************************************************************)
(* Quotes of a Raydium CPMM pool (raydium_cpmm.rs).  A caller fetches the  *)
(* pool, reads the balances of its two vaults one after the other, and     *)
(* computes from them what an amount buys.  Nothing holds the pool still   *)
(* meanwhile: others swap, add and remove liquidity between the two reads, *)
(* so that the pair may be one that the pool never had.                    *)
(*                                                                         *)
(* The pool's program is not part of the repository: its swaps keep the    *)
(* product of the balances, with or without a fee.                         *)
(***************************************************************************)
EXTENDS Integers, FiniteSetsExt

CONSTANTS
  Balances,    \* balances that a vault may have at the start
  Amounts,     \* amounts that the caller and others swap
  MaxFee,      \* the most that a swap of others leaves in the pool
  MaxBalance,  \* bound: no vault grows above this
  MaxTrades    \* bound on what others do in between

ASSUME QuoteAssumption ==
  /\ Balances \subseteq Nat /\ Amounts \subseteq Nat
  /\ MaxFee \in Nat /\ MaxBalance \in Nat /\ MaxTrades \in Nat

VARIABLES
  pc,       \* the caller's next step, or how its calls have ended
  wsol,     \* which token of the pool is WSOL: 0 or 1
  vault,    \* the chain: balances of token 0 and token 1
  read,     \* the balances as the caller has read them
  asked,    \* what the caller has asked for: [side, amount]
  quote,    \* the answer
  before,   \* history: the vaults when the first balance was read
  between,  \* history: what others did between the two reads
  trades    \* number of trades of others

caller == <<pc, read, asked, quote, before>>
vars   == <<pc, wsol, vault, read, asked, quote, before, between, trades>>

Tokens == {0, 1}
Other(token) == 1 - token

\* What others may do to the pool: swap a token in, or change its liquidity.
Liquidity == -1

\* The result Err(()).
Failed == -1

-----------------------------------------------------------------------------
(* get_buy_token_amount and get_sell_sol_amount.                           *)

\* The token that comes in: SOL for a buy, the other one for a sale.  A pool
\* whose token 0 is not WSOL is taken to have it as token 1.
\* A fault: a sale takes the side of a buy.
TokenInOfBuy(side) == wsol

TokenIn(side) == IF side = "buy" THEN wsol ELSE Other(wsol)

\* A fault: what comes in is left out of the divisor.
AmountOutAtSpot(in, out, amount) ==
  IF in = 0 \/ out = 0 THEN Failed ELSE (amount * out) \div in

\* A fault: a fee is taken off what may be nothing.
AmountOutLessFee(in, out, amount) ==
  IF in = 0 \/ out = 0 THEN Failed ELSE (amount * out) \div (in + amount) - 2

AmountOut(in, out, amount) ==
  IF in = 0 \/ out = 0 THEN Failed
  ELSE LET amount_out == (amount * out) \div (in + amount)
       IN  IF amount_out >= out THEN Failed ELSE amount_out

Quote(balances, side, amount) ==
  AmountOut(balances[TokenIn(side)], balances[Other(TokenIn(side))], amount)

-----------------------------------------------------------------------------
(* The caller.                                                             *)

End(how) ==
  /\ pc' = how
  /\ UNCHANGED <<wsol, vault, read, asked, quote, before, between, trades>>

\* Pool::fetch: the request fails, the owner is another program or the data
\* does not decode; data of under 8 bytes panics.
Fetch ==
  /\ pc = "fetch"
  /\ \E how \in {"failed", "panicked", "first"} : End(how)

\* get_pool_token_balances: a failed request panics.
\* A fault: the balance of token 1 is read where token 0 is meant.
ReadFirstSwapped ==
  /\ pc = "first"
  /\ \/ End("panicked")
     \/ /\ read' = [read EXCEPT ![0] = vault[1]]
        /\ before' = vault
        /\ pc' = "second"
        /\ UNCHANGED <<wsol, vault, asked, quote, between, trades>>

ReadFirst ==
  /\ pc = "first"
  /\ \/ End("panicked")
     \/ /\ read' = [read EXCEPT ![0] = vault[0]]
        /\ before' = vault
        /\ pc' = "second"
        /\ UNCHANGED <<wsol, vault, asked, quote, between, trades>>

\* Both amounts are parsed when both have been read.
ReadSecond ==
  /\ pc = "second"
  /\ \/ End("panicked") \/ End("failed")
     \/ /\ read' = [read EXCEPT ![1] = vault[1]]
        /\ pc' = "ask"
        /\ UNCHANGED <<wsol, vault, asked, quote, before, between, trades>>

Ask(side, amount) ==
  /\ pc = "ask"
  /\ asked' = [side |-> side, amount |-> amount]
  /\ quote' = Quote(read, side, amount)
  /\ pc' = "quoted"
  /\ UNCHANGED <<wsol, vault, read, before, between, trades>>

-----------------------------------------------------------------------------
(* The others, between the two reads.                                      *)

\* What happens before the first read only makes for another start.
Happened(what) ==
  /\ pc = "second"
  /\ trades < MaxTrades
  /\ trades' = trades + 1
  /\ between' = between \cup {what}
  /\ UNCHANGED <<wsol, caller>>

\* A swap of one token in, which leaves a fee in the pool.
OthersSwap(token, amount, fee) ==
  /\ vault[token] > 0 /\ vault[Other(token)] > 0
  /\ vault[token] + amount <= MaxBalance
  /\ LET out == (amount * vault[Other(token)]) \div (vault[token] + amount) - fee
     IN  /\ out > 0
         /\ vault' = [vault EXCEPT ![token] = @ + amount, ![Other(token)] = @ - out]
  /\ Happened(token)

\* Liquidity is added or removed, in proportion.
OthersDeposit ==
  /\ \A token \in Tokens : 2 * vault[token] <= MaxBalance
  /\ vault' = [token \in Tokens |-> 2 * vault[token]]
  /\ Happened(Liquidity)

OthersWithdraw ==
  /\ \A token \in Tokens : vault[token] % 2 = 0
  /\ vault' = [token \in Tokens |-> vault[token] \div 2]
  /\ Happened(Liquidity)

NoQuestion == [side |-> "buy", amount |-> 0]

Init ==
  /\ pc = "fetch"
  /\ wsol \in Tokens
  /\ vault \in [Tokens -> Balances]
  /\ read = [token \in Tokens |-> 0]
  /\ before = read
  /\ asked = NoQuestion
  /\ quote = 0
  /\ between = {}
  /\ trades = 0

Next ==
  \/ Fetch \/ ReadFirst \/ ReadSecond
  \/ \E side \in {"buy", "sell"}, amount \in Amounts : Ask(side, amount)
  \/ \E token \in Tokens, amount \in Amounts, fee \in 0 .. MaxFee :
       OthersSwap(token, amount, fee)
  \/ OthersDeposit \/ OthersWithdraw

Spec == Init /\ [][Next]_vars

-----------------------------------------------------------------------------
(* Properties                                                              *)

TypeOK ==
  /\ pc \in {"fetch", "first", "second", "ask", "quoted", "failed", "panicked"}
  /\ wsol \in Tokens
  /\ vault \in [Tokens -> Nat] /\ read \in [Tokens -> Nat] /\ before \in [Tokens -> Nat]
  /\ asked \in [side : {"buy", "sell"}, amount : Nat]
  /\ quote \in Nat \cup {Failed}
  /\ between \subseteq Tokens \cup {Liquidity}
  /\ trades \in 0 .. MaxTrades

\* The vaults of the tokens that the question is about, SOL in for a buy.
In(balances)  == balances[IF asked.side = "buy" THEN wsol ELSE Other(wsol)]
Out(balances) == balances[IF asked.side = "buy" THEN Other(wsol) ELSE wsol]

\* An output that a pool with these balances can give for the amount without
\* losing in product.
Affordable(balances, out) ==
  (In(balances) + asked.amount) * (Out(balances) - out) >= In(balances) * Out(balances)

\* When nothing happens between the two reads, the answer is the most that
\* the pool could give, and an error only if a vault is empty.
QuoteExact ==
  (pc = "quoted" /\ between = {}) =>
    IF \E token \in Tokens : vault[token] = 0 THEN quote = Failed
    ELSE /\ quote \in 0 .. Out(vault)
         /\ Affordable(vault, quote)
         /\ ~Affordable(vault, quote + 1)

\* When others swap one way only between the two reads, the answer lies
\* between those for the pool before and after, although no pool in between
\* need have had this price.  (With both ways, or liquidity, it may not.)
TornBounded ==
  (/\ pc = "quoted"
   /\ \E token \in Tokens : between \subseteq {token}
   /\ quote # Failed)
  => LET ends == {Quote(before, asked.side, asked.amount),
                  Quote(vault, asked.side, asked.amount)}
     IN  quote \in Min(ends) .. Max(ends)
=============================================================================
