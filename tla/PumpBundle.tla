----------------------------- MODULE PumpBundle -----------------------------
(***************************************************************************)
(* deploy_pump_and_buy (solana_bundler.rs) with bundle and check_status    *)
(* (solana_bundler/jito.rs): builds a transaction that creates a token and *)
(* buys for the first account, one that buys for each other account, and   *)
(* submits them to Jito as one bundle, which lands whole or not at all.    *)
(*                                                                         *)
(* All transactions are signed over the blockhash fetched at the start,    *)
(* which the chain accepts for so many blocks only.  A submission may fail *)
(* or go unanswered whether or not Jito has received it, and is repeated   *)
(* until answered: what was received unanswered may still land.            *)
(***************************************************************************)
EXTENDS Integers, Sequences

CONSTANTS
  AccountLists,   \* what config.accounts_to_buy_with may hold
  MaxBundle,      \* transactions that Jito takes in a bundle: 5
  Valid,          \* blocks for which a blockhash is recent
  MaxBlock        \* a bound of the model: the last block

ASSUME BundleAssumption ==
  /\ MaxBundle \in Nat /\ Valid \in Nat /\ MaxBlock \in Nat
  /\ \A list \in AccountLists : list \in Seq(STRING)

VARIABLES
  pc,                \* the next step, or how the call has ended
  accounts,          \* config.accounts_to_buy_with
  recent_blockhash,  \* the block whose hash was fetched
  transactions,      \* jito_transactions
  index,             \* buyers whose transaction has been built
  bundle_id,         \* the bundle whose id Jito has answered with
  block,             \* the chain: its latest block
  received,          \* Jito: the bundles it has received
  landed             \* the chain: the bundles it has executed

call  == <<pc, accounts, recent_blockhash, transactions, index, bundle_id>>
chain == <<block, landed>>
vars  == <<call, chain, received>>

Handed == {"status", "returned"}
Built  == {"bundle", "send"} \cup Handed
Ended  == {"returned", "failed", "panicked"}

\* A transaction, by who pays for it, what its instructions do, and the
\* blockhash it is signed over.
Tx(payer, ixs, blockhash) ==
  [payer |-> payer, ixs |-> ixs, blockhash |-> blockhash]

CreatorIxs == <<"create", "account", "buy">>
BuyerIxs   == <<"account", "buy">>
TipperIxs  == <<"account", "buy", "tip">>

\* The loop over the buyers runs over all accounts but the first.
Buyers    == Len(accounts) - 1

\* A fault: the last index is one too high.
LastBuyerMissed == index = Len(accounts) - 1

LastBuyer == index = Len(accounts) - 2

Abort(how) ==
  /\ pc' = how
  /\ UNCHANGED <<accounts, recent_blockhash, transactions, index, bundle_id>>

-----------------------------------------------------------------------------
(* Building the bundle.                                                    *)

\* The first account, the image, the blockhash or the build is missing or
\* fails; reading the image may panic.
Create ==
  /\ pc = "create"
  /\ \/ Abort("failed")
     \/ accounts # <<>> /\ Abort("panicked")
     \/ /\ accounts # <<>>
        /\ recent_blockhash' = block
        /\ transactions' = <<Tx(accounts[1], CreatorIxs, block)>>
        /\ pc' = "buyers"
        /\ UNCHANGED <<accounts, index, bundle_id>>
  /\ UNCHANGED <<chain, received>>

\* The last buyer also tips, for which Jito is asked for an account.
BuyerTx ==
  Tx(accounts[index + 2], IF LastBuyer THEN TipperIxs ELSE BuyerIxs,
     recent_blockhash)

AddBuyer ==
  /\ pc = "buyers"
  /\ index < Buyers
  /\ \/ Abort("failed")
     \/ /\ transactions' = Append(transactions, BuyerTx)
        /\ index' = index + 1
        /\ UNCHANGED <<pc, accounts, recent_blockhash, bundle_id>>
  /\ UNCHANGED <<chain, received>>

GoTo(label) ==
  /\ pc' = label
  /\ UNCHANGED <<accounts, recent_blockhash, transactions, index>>

EndBuyers ==
  /\ pc = "buyers"
  /\ index = Buyers
  /\ GoTo("bundle")
  /\ UNCHANGED <<bundle_id, chain, received>>

-----------------------------------------------------------------------------
(* Submitting it.                                                          *)

Bundle ==
  /\ pc = "bundle"
  /\ Len(transactions) <= MaxBundle
  /\ GoTo("send")
  /\ UNCHANGED <<bundle_id, chain, received>>

\* A bundle that is too large is an error, and 'send_loop tries the same
\* again at once: a round that changes nothing.
BundleRefused ==
  /\ pc = "bundle"
  /\ Len(transactions) > MaxBundle
  /\ UNCHANGED vars

\* Jito receives the bundle and its answer has an id.
Accepted ==
  /\ pc = "send"
  /\ received' = received \cup {transactions}
  /\ bundle_id' = transactions
  /\ GoTo("status")
  /\ UNCHANGED chain

\* A fault: a submission that fails is taken for a success.
UnansweredIgnored ==
  /\ pc = "send"
  /\ received' \in {received, received \cup {transactions}}
  /\ bundle_id' = transactions
  /\ GoTo("status")
  /\ UNCHANGED chain

\* A fault: before it sends again, it signs again over the latest blockhash.
UnansweredResigned ==
  /\ pc = "send"
  /\ received' \in {received, received \cup {transactions}}
  /\ recent_blockhash' = block
  /\ transactions' = [k \in DOMAIN transactions |->
                        [transactions[k] EXCEPT !.blockhash = block]]
  /\ UNCHANGED <<pc, accounts, index, bundle_id, chain>>

\* An error, or an answer without an id; the loop sends the same again.
Unanswered ==
  /\ pc = "send"
  /\ received' \in {received, received \cup {transactions}}
  /\ UNCHANGED <<call, chain>>

\* check_status is repeated as long as it succeeds, whatever the status is;
\* the call returns Ok upon its first failure.
StatusAnswered ==
  /\ pc = "status"
  /\ UNCHANGED vars

StatusFails ==
  /\ pc = "status"
  /\ GoTo("returned")
  /\ UNCHANGED <<bundle_id, chain, received>>

-----------------------------------------------------------------------------
(* The chain.                                                              *)

NewBlock ==
  /\ block < MaxBlock
  /\ block' = block + 1
  /\ UNCHANGED <<call, landed, received>>

Recent(blockhash) == block - blockhash <= Valid

\* A bundle lands while the blockhash of each of its transactions is recent;
\* a second one would create the same token again.
Land ==
  /\ landed = {}
  /\ \E bundle \in received :
       /\ \A k \in 1 .. Len(bundle) : Recent(bundle[k].blockhash)
       /\ landed' = {bundle}
  /\ UNCHANGED <<call, block, received>>

Init ==
  /\ pc = "create"
  /\ accounts \in AccountLists
  /\ recent_blockhash = 0
  /\ transactions = <<>>
  /\ index = 0
  /\ bundle_id = <<>>
  /\ block = 0
  /\ received = {}
  /\ landed = {}

Submit == Bundle \/ BundleRefused \/ Accepted \/ Unanswered

Next ==
  \/ Create \/ AddBuyer \/ EndBuyers
  \/ Submit \/ StatusAnswered \/ StatusFails
  \/ NewBlock \/ Land

Spec == Init /\ [][Next]_vars

-----------------------------------------------------------------------------
(* Properties                                                              *)

Transaction ==
  [payer : STRING, ixs : Seq({"create", "account", "buy", "tip"}),
   blockhash : Nat]

TypeOK ==
  /\ pc \in {"create", "buyers"} \cup Built \cup Ended
  /\ accounts \in AccountLists
  /\ recent_blockhash \in Nat
  /\ transactions \in Seq(Transaction)
  /\ index \in Nat
  /\ bundle_id \in Seq(Transaction)
  /\ block \in Nat
  /\ received \in SUBSET Seq(Transaction)
  /\ landed \in SUBSET received

Has(tx, name) == \E k \in 1 .. Len(tx.ixs) : tx.ixs[k] = name

\* The k-th transaction does what it is for, and tips only at its very end
\* and only if no other comes after it.
InPlace(k) ==
  LET tx == transactions[k]
  IN  /\ tx.payer = accounts[k]
      /\ tx.blockhash = recent_blockhash
      /\ Has(tx, "buy")
      /\ Has(tx, "create") <=> k = 1
      /\ Has(tx, "tip") =>
           k = Len(accounts) /\ tx.ixs[Len(tx.ixs)] = "tip"

\* The bundle is complete: the creator goes first, the k-th transaction is
\* paid by the k-th account and buys for it, all are signed over the fetched
\* blockhash, and nothing pays Jito before the rest has run; with a second
\* account, the last one tips.  EveryBundleTips asks for the tip in every case.
BundleComplete ==
  pc \in Built =>
    /\ Len(transactions) = Len(accounts)
    /\ \A k \in 1 .. Len(transactions) : InPlace(k)
    /\ Len(accounts) > 1 => Has(transactions[Len(accounts)], "tip")

\* Whichever of the submissions lands, and whenever, it is the bundle whose
\* status the call asks for: none sent before it, unanswered, lands instead.
StatusIsOfLanded == pc \in Handed => landed \subseteq {bundle_id}

\* The call asks for a status, and returns Ok, only for what Jito has received.
ReturnsHanded == pc \in Handed => bundle_id \in received

Late == /\ transactions # <<>>
        /\ ~Recent(recent_blockhash)
        /\ landed = {}

\* Once the blockhash is no longer recent, what has not landed never will,
\* however often it is sent again, though the call may still return Ok.
ExpiredIsLost == [](Late => [](landed = {}))

\* A bundle that is handed over pays a tip.
EveryBundleTips ==
  pc \in Handed => \E k \in 1 .. Len(transactions) : Has(transactions[k], "tip")
=============================================================================
