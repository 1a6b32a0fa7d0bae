--------------------------- MODULE VolumeHandler ---------------------------
(***************************************************************************)
(* handle_pump_volume and handle_volume (solana_volume_handler.rs): scans  *)
(* the maker wallets, collects their spare SOL into an admin wallet and    *)
(* notes who holds the token; then sells for one holder after another and  *)
(* sends the wallet's SOL to an admin.                                     *)
(*                                                                         *)
(* Nothing is confirmed: a transaction that was sent lands at some time or *)
(* never, while the handler goes on reading balances.  Every request may   *)
(* fail.  The loop buys with probability 0.0, so that branch is no step.   *)
(***************************************************************************)
EXTENDS Integers, Sequences, SequencesExt

CONSTANTS
  Wallets,
  MakerLists,   \* what wallets.txt may hold
  Balances,     \* lamports that a wallet may have at the start
  Holdings,     \* tokens that a wallet may have at the start, in raw units
  Proceeds,     \* lamports that a sale may bring
  Threshold,    \* 0.003 SOL: the scan collects from a balance above this
  Reserve,      \* 0.0021 SOL: what it leaves
  Fee,          \* what the chain takes for a transaction
  RentMin       \* an account holds nothing or at least this

ASSUME VolumeAssumption ==
  /\ MakerLists \subseteq Seq(Wallets)
  /\ Balances \subseteq Nat /\ Holdings \subseteq Nat /\ Proceeds \subseteq Nat
  /\ Fee \in Nat \ {0} /\ RentMin \in Nat
  /\ Reserve \in Nat /\ Threshold \in Nat /\ Reserve <= Threshold

VARIABLES
  pc,           \* the next step, or how the call has ended
  makers,       \* config.makers
  admins,       \* whether config.fund_wallets holds any wallet
  index,        \* the maker that the scan looks at
  with_token,   \* wallets to sell for; the last one is next
  wallet,       \* the maker whose turn it is
  balance,      \* its lamports as last read
  amount,       \* amount_to_trade
  sol,          \* the chain: lamports of each wallet
  tokens,       \* the chain: tokens of each wallet
  pending,      \* transactions sent that have not landed
  sold          \* history: wallets of which a sale has gone through since
                \* the balance to be swept was read

config == <<makers, admins>>
chain  == <<sol, tokens, sold>>
vars   == <<pc, makers, admins, index, with_token, wallet, balance, amount,
            sol, tokens, pending, sold>>

Scanning == {"scan", "collect", "holds"}
Trading  == {"loop", "balance", "amount", "sell", "proceeds", "sweep"}
Ended    == {"failed", "panicked"}

\* A transaction: what it does for whom, how much it moves, and where in the
\* run it was sent.
Tx(kind, w, n, at) == [kind |-> kind, from |-> w, amount |-> n, at |-> at]

\* Whether a transaction goes through, and leaves an account the chain allows.
Covered(tx) ==
  IF tx.kind = "sell"
    THEN sol[tx.from] >= Fee /\ tokens[tx.from] >= tx.amount
    ELSE LET left == sol[tx.from] - tx.amount - Fee
         IN  left = 0 \/ left >= RentMin

\* send_transaction simulates the transaction before it passes it on.
Send(tx) ==
  /\ Covered(tx)
  /\ pending' = pending \cup {tx}

GoTo(step) == pc' = step /\ UNCHANGED <<config, chain>>

\* A step that only changes what is next.
Jump(step) ==
  /\ GoTo(step)
  /\ UNCHANGED <<index, with_token, wallet, balance, amount, pending>>

-----------------------------------------------------------------------------
(* The scan.                                                               *)

\* The files may be missing, or a line of them not be a key.
Load ==
  /\ pc = "load"
  /\ \/ Jump("failed") \/ Jump("panicked")
     \/ Jump("scan")

ScanBalance ==
  /\ pc = "scan"
  /\ index <= Len(makers)
  /\ \/ Jump("failed")
     \/ /\ wallet' = makers[index]
        /\ balance' = sol[makers[index]]
        /\ GoTo("collect")
        /\ UNCHANGED <<index, with_token, amount, pending>>

\* A fault: the scan leaves nothing.
CollectionOfAll == Tx("collect", wallet, balance - Fee, index)

Collection == Tx("collect", wallet, balance - Reserve, index)

Collect ==
  /\ pc = "collect"
  /\ \/ balance > Threshold /\ Jump("failed")
     \/ /\ balance > Threshold
        /\ admins
        /\ Send(Collection)
        /\ GoTo("holds")
        /\ UNCHANGED <<index, with_token, wallet, balance, amount>>
     \/ balance <= Threshold /\ Jump("holds")

\* A wallet whose token account cannot be read counts as without tokens; an
\* answer without an amount ends the call.
ScanTokens ==
  /\ pc = "holds"
  /\ \/ Jump("failed")
     \/ /\ \/ with_token' = with_token
           \/ tokens[wallet] > 0 /\ with_token' = Append(with_token, wallet)
        /\ index' = index + 1
        /\ GoTo("scan")
        /\ UNCHANGED <<wallet, balance, amount, pending>>

EndScan ==
  /\ pc = "scan"
  /\ index > Len(makers)
  /\ Jump("loop")

-----------------------------------------------------------------------------
(* The main loop.  Every continue is a step back to "loop"; with nothing   *)
(* left to sell a round changes nothing, and the loop has no other exit    *)
(* than an error.                                                          *)

NoBlockhash == pc = "loop" /\ Jump("failed")

\* A fault: the wallet is looked at and stays in the list.
PopKeeps ==
  /\ pc = "loop"
  /\ with_token # <<>>
  /\ wallet' = Last(with_token)
  /\ GoTo(IF admins THEN "balance" ELSE "loop")
  /\ UNCHANGED <<index, with_token, balance, amount, pending>>

Pop ==
  /\ pc = "loop"
  /\ with_token # <<>>
  /\ wallet' = Last(with_token)
  /\ with_token' = Front(with_token)
  /\ GoTo(IF admins THEN "balance" ELSE "loop")
  /\ UNCHANGED <<index, balance, amount, pending>>

\* A fault: a wallet whose balance cannot be read is put back.
ReadBalanceRetries ==
  /\ pc = "balance"
  /\ \/ /\ with_token' = Append(with_token, wallet)
        /\ GoTo("loop")
        /\ UNCHANGED <<index, wallet, balance, amount, pending>>
     \/ Jump("amount")

ReadBalance ==
  /\ pc = "balance"
  /\ \/ Jump("loop")
     \/ Jump("amount")

\* The loop buys with probability 0.0 and otherwise sells, if there is anything.
AfterRead(n) == IF n > 0 THEN "sell" ELSE "loop"

\* The amount in tokens is read as text, parsed to an f64, scaled and cut to
\* an integer, which may come out one below the true number.
ReadTokens ==
  /\ pc = "amount"
  /\ \/ Jump("loop") \/ Jump("failed")
     \/ /\ amount' \in {tokens[wallet], tokens[wallet] - 1} \cap Nat
        /\ GoTo(AfterRead(amount'))
        /\ UNCHANGED <<index, with_token, wallet, balance, pending>>

\* Whether the sale could be sent is only printed.
Sell ==
  /\ pc = "sell"
  /\ \/ Jump("failed") \/ Jump("proceeds")
     \/ /\ Send(Tx("sell", wallet, amount, Len(with_token)))
        /\ GoTo("proceeds")
        /\ UNCHANGED <<index, with_token, wallet, balance, amount>>

\* The arm for a failed request is a todo!().
ReadProceeds ==
  /\ pc = "proceeds"
  /\ \/ Jump("panicked")
     \/ /\ balance' = sol[wallet]
        /\ sold' = {}
        /\ pc' = "sweep"
        /\ UNCHANGED <<config, sol, tokens, index, with_token, wallet, amount, pending>>

\* Another amount: what is left when the fee has been paid.
SweptNet == Tx("sweep", wallet, balance - Fee, Len(with_token))

\* Everything the wallet had goes to the admin; the fee comes on top.
Swept == Tx("sweep", wallet, balance, Len(with_token))

Sweep ==
  /\ pc = "sweep"
  /\ \/ Jump("failed")
     \/ /\ Send(Swept)
        /\ GoTo("loop")
        /\ UNCHANGED <<index, with_token, wallet, balance, amount>>

-----------------------------------------------------------------------------
(* The chain takes the pending transactions in any order.  One that does   *)
(* not go through costs its fee, and one may never be taken at all.        *)

Land ==
  \E tx \in pending :
    /\ sol[tx.from] >= Fee
    /\ \E gain \in Proceeds :
         sol' = [sol EXCEPT ![tx.from] = @ - Fee +
                   IF ~Covered(tx) THEN 0 ELSE IF tx.kind = "sell" THEN gain ELSE -tx.amount]
    /\ tokens' = [tokens EXCEPT ![tx.from] =
                    IF tx.kind = "sell" /\ Covered(tx) THEN @ - tx.amount ELSE @]
    /\ sold' = IF tx.kind = "sell" /\ Covered(tx) THEN sold \cup {tx.from} ELSE sold
    /\ pending' = pending \ {tx}
    /\ UNCHANGED <<pc, config, index, with_token, wallet, balance, amount>>

Drop ==
  \E tx \in pending :
    /\ pending' = pending \ {tx}
    /\ UNCHANGED <<pc, config, chain, index, with_token, wallet, balance, amount>>

Init ==
  /\ pc = "load"
  /\ makers \in MakerLists
  /\ admins \in BOOLEAN
  /\ index = 1
  /\ with_token = <<>>
  /\ wallet \in Wallets
  /\ balance = 0
  /\ amount = 0
  /\ sol \in [Wallets -> Balances]
  /\ tokens \in [Wallets -> Holdings]
  /\ pending = {}
  /\ sold = {}

Handler ==
  \/ Load \/ ScanBalance \/ Collect \/ ScanTokens \/ EndScan
  \/ NoBlockhash \/ Pop \/ ReadBalance \/ ReadTokens \/ Sell \/ ReadProceeds \/ Sweep

Next == Handler \/ Land \/ Drop

Spec == Init /\ [][Next]_vars

\* The handler runs on; nothing is assumed of the chain.
FairSpec == Spec /\ WF_vars(Handler)

-----------------------------------------------------------------------------
(* Properties                                                              *)

Transactions ==
  [kind : {"collect", "sell", "sweep"}, from : Wallets, amount : Nat, at : Nat]

TypeOK ==
  /\ pc \in {"load"} \cup Scanning \cup Trading \cup Ended
  /\ makers \in MakerLists /\ admins \in BOOLEAN
  /\ index \in 1 .. (Len(makers) + 1)
  /\ with_token \in Seq(Wallets)
  /\ wallet \in Wallets
  /\ balance \in Nat /\ amount \in Nat
  /\ sol \in [Wallets -> Nat] /\ tokens \in [Wallets -> Nat]
  /\ pending \in SUBSET Transactions
  /\ sold \in SUBSET Wallets

\* wallets.txt lists nobody twice, which the code does not check.
Distinct == \A j, k \in 1 .. Len(makers) : makers[j] = makers[k] => j = k

Sells(w) == {tx \in pending : tx.kind = "sell" /\ tx.from = w}

\* No wallet sells more than it has, although its tokens are read before and
\* sold after other transactions land: a wallet that was popped does not come
\* back, so that there is one sale of it, and the tokens stay until it lands.
SalesCovered ==
  Distinct => \A w \in Wallets :
    /\ \A tx \in Sells(w) : tx.amount <= tokens[w]
    /\ \A tx, other \in Sells(w) : tx = other
    /\ Sells(w) # {} => \A k \in 1 .. Len(with_token) : with_token[k] # w

\* What the scan collects leaves a wallet the fee of its sale: one that could
\* pay for it can still pay when its turn comes, whenever the transfer lands.
SalePaid ==
  [][Distinct => \A w \in Wallets :
       (/\ sol[w] >= Fee
        /\ pc \in Scanning \/ \E k \in 1 .. Len(with_token) : with_token[k] = w)
       => sol'[w] >= Fee]_vars

\* The sweep asks for the whole balance and the chain for a fee on top, so
\* the loop goes on after a sweep only if a sale of that wallet has gone
\* through since the balance was read; if it was not sent, was dropped, has
\* failed, is still pending or landed before, the call ends with an error.
SweepNeedsSale ==
  [][pc = "sweep" /\ pc' = "loop" => wallet \in sold]_vars

\* No failing request stalls the loop: the wallets to sell for run out, or
\* the call ends.
Drained ==
  (pc = "loop" /\ with_token # <<>>) ~> (with_token = <<>> \/ pc \in Ended)
=============================================================================
