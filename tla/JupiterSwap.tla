---------------------------- MODULE JupiterSwap ----------------------------
(***************************************************************************)
(* get_jupiter_instruction (solana_dex/jupiter.rs): asks the Jupiter API   *)
(* for the instructions of a quoted swap, fetches the lookup tables they   *)
(* need, and appends the transfers of the swap fee, which calculate_fee    *)
(* splits among the fee collectors of the configuration.                   *)
(*                                                                         *)
(* Every request may fail, and every part of a response may be missing or  *)
(* malformed; the call then returns an error and none of its instructions. *)
(* Amounts are u64: a result that does not fit panics in a checked build   *)
(* and wraps in an unchecked one, so both outcomes are possible here.      *)
(***************************************************************************)
EXTENDS Integers, Sequences

CONSTANTS
  Quotes,     \* quotes that callers pass in
  Configs,    \* what config.fee_shares may hold
  FeeBps,     \* config.swap_fee_bps, 100 when absent
  Word,       \* 2^64 in the code
  MaxParts    \* bound on the setup instructions and lookup tables of a response

Wsol == "wsol"

\* An amount that is not a number.
NotANumber == -1

Amount == 0 .. (Word - 1)

\* A quote of Jupiter; it may lack the fields that the fee is computed from.
Quote == [typed : BOOLEAN, input_mint : STRING, output_mint : STRING,
          in_amount : NotANumber .. (Word - 1),
          out_amount : NotANumber .. (Word - 1)]

\* A fee collector.
Share == [bps : Amount, address : {"valid", "invalid"}]

ASSUME SwapAssumption ==
  /\ Word \in Nat \ (0 .. 10000)
  /\ Configs \subseteq Seq(Share)
  /\ FeeBps \in Amount
  /\ Quotes \subseteq Quote
  /\ MaxParts \in Nat

VARIABLES
  pc,                 \* the next step, or how the call has ended
  quote,
  fee_shares,         \* config.fee_shares: how a fee is split
  instructions,       \* instructions collected so far
  lookups,            \* lookup tables still to be fetched
  total_fee,          \* calculate_fee: the fee to split
  total_distributed,  \* calculate_fee: lamports assigned so far
  i                   \* calculate_fee: the share of the next round

input == <<quote, fee_shares>>
split == <<total_fee, total_distributed, i>>
vars  == <<pc, quote, fee_shares, instructions, lookups, total_fee,
          total_distributed, i>>

Steps == {"priority", "request", "lookups", "input_fee",
          "split_input", "output_fee", "split_output"}
Ended == {"returned", "failed", "panicked"}

\* An instruction, by what it is for; share and lamports of a fee transfer.
Ix(name)       == [name |-> name, to |-> 0, lamports |-> 0]
Transfer(k, n) == [name |-> "fee", to |-> k, lamports |-> n]

Instruction ==
  [name : {"priority", "setup", "swap", "cleanup", "fee"}, to : Nat, lamports : Amount]

Copies(ix, n) == [k \in 1 .. n |-> ix]

\* u64 arithmetic: n fits, or is what an unchecked build makes of it.
Fits(n) == n \in Amount
U64(n)  == n % Word

\* The call ends without a result.
Abort(how) ==
  /\ pc' = how
  /\ UNCHANGED <<input, instructions, lookups, split>>

-----------------------------------------------------------------------------
(* The instructions of the swap.                                           *)

SetPriority ==
  /\ pc = "priority"
  /\ \/ instructions' = <<Ix("priority")>>
     \/ instructions' = <<>>
  /\ pc' = "request"
  /\ UNCHANGED <<input, lookups, split>>

\* The request fails, or the answer lacks a part, or holds some lookups.
Request ==
  /\ pc = "request"
  /\ \/ Abort("failed")
     \/ /\ lookups' \in 0 .. MaxParts
        /\ pc' = "lookups"
        /\ UNCHANGED <<input, instructions, split>>

FetchLookup ==
  /\ pc = "lookups"
  /\ lookups > 0
  /\ \/ Abort("failed")
     \/ /\ lookups' = lookups - 1
        /\ UNCHANGED <<pc, input, instructions, split>>

\* Setup instructions, the swap, and the cleanup if there is one; any of
\* them may not parse.
Assemble ==
  /\ pc = "lookups"
  /\ lookups = 0
  /\ \/ Abort("failed")
     \/ /\ \E n \in 0 .. MaxParts, cleanup \in {<<>>, <<Ix("cleanup")>>} :
             instructions' =
               instructions \o Copies(Ix("setup"), n) \o <<Ix("swap")>> \o cleanup
        /\ pc' = IF quote.typed THEN "input_fee" ELSE "returned"
        /\ UNCHANGED <<input, lookups, split>>

-----------------------------------------------------------------------------
(* The fee.                                                                *)

\* A fault: the fee is not scaled down from basis points.
StartSplitUnscaled(amount, step) ==
  \/ (amount = NotANumber \/ ~Fits(amount * FeeBps)) /\ Abort("panicked")
  \/ /\ amount # NotANumber
     /\ total_fee' = U64(amount * FeeBps)
     /\ total_distributed' = 0
     /\ i' = 1
     /\ pc' = step
     /\ UNCHANGED <<input, instructions, lookups>>

\* calculate_fee is called for a share of the amount, or the amount does not
\* parse, or the product overflows in a checked build.
StartSplit(amount, step) ==
  \/ (amount = NotANumber \/ ~Fits(amount * FeeBps)) /\ Abort("panicked")
  \/ /\ amount # NotANumber
     /\ total_fee' = U64(amount * FeeBps) \div 10000
     /\ total_distributed' = 0
     /\ i' = 1
     /\ pc' = step
     /\ UNCHANGED <<input, instructions, lookups>>

ChargeInput ==
  /\ pc = "input_fee"
  /\ \/ /\ quote.input_mint = Wsol
        /\ StartSplit(quote.in_amount, "split_input")
     \/ /\ quote.input_mint # Wsol
        /\ pc' = "output_fee"
        /\ UNCHANGED <<input, instructions, lookups, split>>

ChargeOutput ==
  /\ pc = "output_fee"
  /\ \/ /\ quote.output_mint = Wsol
        /\ StartSplit(quote.out_amount, "split_output")
     \/ /\ quote.output_mint # Wsol
        /\ pc' = "returned"
        /\ UNCHANGED <<input, instructions, lookups, split>>

Splitting == pc \in {"split_input", "split_output"}

\* The true values of what a round computes: the share by its rate, and for
\* the last share what remains.
ByRate    == total_fee * fee_shares[i].bps
Remaining == total_fee - total_distributed

\* Faults: no share gets what remains; the first one does.
ShareFeeByRate == U64(ByRate) \div 10000

ShareFeeFirst == IF i = 1 THEN U64(Remaining) ELSE U64(ByRate) \div 10000

ShareFee == IF i = Len(fee_shares) THEN U64(Remaining) ELSE U64(ByRate) \div 10000

\* One round of the loop of calculate_fee.  An address that does not parse
\* makes it return an error, which the caller unwraps.
AddShare ==
  /\ Splitting
  /\ i <= Len(fee_shares)
  /\ \/ /\ \/ fee_shares[i].address = "invalid"
           \/ ~Fits(ByRate)
           \/ i = Len(fee_shares) /\ ~Fits(Remaining)
           \/ ~Fits(total_distributed + ShareFee)
        /\ Abort("panicked")
     \/ /\ fee_shares[i].address = "valid"
        /\ total_distributed' = U64(total_distributed + ShareFee)
        /\ instructions' = Append(instructions, Transfer(i, ShareFee))
        /\ i' = i + 1
        /\ UNCHANGED <<pc, input, lookups, total_fee>>

EndSplit ==
  /\ Splitting
  /\ i > Len(fee_shares)
  /\ pc' = IF pc = "split_input" THEN "output_fee" ELSE "returned"
  /\ UNCHANGED <<input, instructions, lookups, split>>

Init ==
  /\ pc = "priority"
  /\ quote \in Quotes
  /\ fee_shares \in Configs
  /\ instructions = <<>>
  /\ lookups = 0
  /\ total_fee = 0
  /\ total_distributed = 0
  /\ i = 1

Next ==
  \/ SetPriority \/ Request \/ FetchLookup \/ Assemble
  \/ ChargeInput \/ ChargeOutput \/ AddShare \/ EndSplit

Spec == Init /\ [][Next]_vars

-----------------------------------------------------------------------------
(* Properties                                                              *)

TypeOK ==
  /\ pc \in Steps \cup Ended
  /\ quote \in Quotes
  /\ fee_shares \in Configs
  /\ instructions \in Seq(Instruction)
  /\ lookups \in 0 .. MaxParts
  /\ total_fee \in Amount
  /\ total_distributed \in Amount
  /\ i \in 1 .. (Len(fee_shares) + 1)

\* The sums of the first numbers of a sequence.
Sums(s) ==
  LET sum[k \in 0 .. Len(s)] == IF k = 0 THEN 0 ELSE sum[k - 1] + s[k]
  IN  sum

SumOf(s) == Sums(s)[Len(s)]

Rates    == [k \in 1 .. Len(fee_shares) |-> fee_shares[k].bps]
Lamports == [k \in 1 .. Len(instructions) |-> instructions[k].lamports]

\* What the code takes for granted of its configuration and never checks:
\* the rates add up to at most the whole, and every address parses.
RatesWithin == SumOf(Rates) <= 10000

AddressesValid ==
  \A k \in 1 .. Len(fee_shares) : fee_shares[k].address = "valid"

\* calculate_fee is safe in u64: with rates of at most the whole, no product,
\* sum or "remaining lamports" of it overflows, whatever amount is swapped.
SplitNeverPanics ==
  [][Splitting /\ RatesWithin /\ AddressesValid => pc' # "panicked"]_vars

\* A call that returns its instructions charges the whole fee, to the
\* lamport, on each side of the swap that is SOL, and nothing on another.
Charged == SumOf(Lamports)

Due(mint, amount) ==
  IF mint = Wsol /\ quote.typed /\ fee_shares # <<>>
  THEN U64(amount * FeeBps) \div 10000 ELSE 0

FeeConserved ==
  (pc = "returned" /\ RatesWithin) =>
    Charged = Due(quote.input_mint, quote.in_amount)
                + Due(quote.output_mint, quote.out_amount)

\* When the rates add up to the whole, every collector but the last loses
\* under a lamport to rounding, and the last gains what the others lose,
\* under one for each of them.  As the code says at its two calls of
\* calculate_fee, Jupiter swaps no token for itself.
Within(n, most) == 0 <= n /\ n <= most

Rounded(ix) ==
  LET exact == total_fee * fee_shares[ix.to].bps
      paid  == ix.lamports * 10000
  IN  IF ix.to = Len(fee_shares)
      THEN Within(paid - exact, 9999 * (ix.to - 1))
      ELSE Within(exact - paid, 9999)

RoundingBounded ==
  (SumOf(Rates) = 10000 /\ quote.input_mint # quote.output_mint) =>
    \A k \in 1 .. Len(instructions) :
      instructions[k].name = "fee" => Rounded(instructions[k])
=============================================================================
