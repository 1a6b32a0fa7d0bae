-------------------------- MODULE PumpBundleProofs --------------------------
(***************************************************************************)
(* Proofs about PumpBundle, for all lists of accounts, every limit on the  *)
(* size of a bundle, and however long a blockhash stays recent.            *)
(***************************************************************************)
EXTENDS PumpBundle, TLAPS

(***************************************************************************)
(* The inductive invariant: the transactions built so far are in place,    *)
(* and Jito receives nothing else, so that nothing else can land.          *)
(***************************************************************************)
TipsOK ==
  Len(accounts) > 1 /\ Len(transactions) = Len(accounts) =>
    Has(transactions[Len(accounts)], "tip")

BuildOK ==
  /\ pc = "create" => index = 0 /\ transactions = <<>>
  /\ pc = "buyers" =>
       /\ accounts # <<>> /\ index <= Buyers
       /\ Len(transactions) = index + 1
       /\ \A k \in 1 .. Len(transactions) : InPlace(k)
       /\ TipsOK
  /\ pc \in Built => accounts # <<>>
  /\ transactions # <<>> => ~Has(transactions[1], "tip")

SentOK ==
  /\ received \subseteq {transactions}
  /\ received # {} => pc \in {"send"} \cup Handed
  /\ pc \in Handed => bundle_id = transactions

BundleInv == TypeOK /\ BuildOK /\ BundleComplete /\ SentOK /\ ReturnsHanded

LEMMA AccountsType ==
  ASSUME TypeOK
  PROVE  /\ accounts \in Seq(STRING) /\ Len(accounts) \in Nat
         /\ accounts # <<>> => Len(accounts) >= 1
         /\ \A k \in 1 .. Len(accounts) : accounts[k] \in STRING
<1>1. accounts \in Seq(STRING)
  BY BundleAssumption DEF TypeOK
<1>2. QED
  BY <1>1

Names == {"create", "account", "buy", "tip"}

\* Instructions of two and of three names.
LEMMA Tuples ==
  ASSUME NEW S, NEW a \in S, NEW b \in S, NEW c \in S
  PROVE  <<a, b>> \in Seq(S) /\ <<a, b, c>> \in Seq(S)
<1>1. <<a, b>> \in Seq(S)
  OBVIOUS
<1>2. <<a, b, c>> \in Seq(S)
  OBVIOUS
<1>3. QED
  BY <1>1, <1>2

\* What the instructions of each kind of transaction are.
LEMMA CreatorTx ==
  ASSUME NEW payer \in STRING, NEW hash \in Nat
  PROVE  LET tx == Tx(payer, CreatorIxs, hash)
         IN  /\ tx \in Transaction /\ tx.payer = payer /\ tx.blockhash = hash
             /\ Has(tx, "buy") /\ Has(tx, "create") /\ ~Has(tx, "tip")
<1> DEFINE tx == Tx(payer, CreatorIxs, hash)
<1>1. /\ tx \in Transaction /\ tx.payer = payer /\ tx.ixs = CreatorIxs
      /\ tx.blockhash = hash
  <2>1. tx.payer = payer /\ tx.ixs = CreatorIxs /\ tx.blockhash = hash
    BY DEF Tx
  <2>2. CreatorIxs \in Seq(Names)
    BY Tuples DEF CreatorIxs, Names
  <2>3. QED
    BY <2>1, <2>2 DEF Tx, Transaction, Names
<1>2. Len(CreatorIxs) = 3 /\ CreatorIxs[1] = "create" /\ CreatorIxs[2] = "account"
      /\ CreatorIxs[3] = "buy"
  BY DEF CreatorIxs
<1> HIDE DEF tx
<1>3. Has(tx, "buy") /\ Has(tx, "create") /\ ~Has(tx, "tip")
  BY <1>1, <1>2 DEF Has
<1>4. QED
  BY <1>1, <1>3 DEF tx

LEMMA BuyersTx ==
  ASSUME NEW payer \in STRING, NEW last \in BOOLEAN, NEW hash \in Nat, NEW tx,
         tx = Tx(payer, IF last THEN TipperIxs ELSE BuyerIxs, hash)
  PROVE  /\ tx \in Transaction /\ tx.payer = payer /\ tx.blockhash = hash
         /\ Has(tx, "buy") /\ ~Has(tx, "create") /\ (Has(tx, "tip") <=> last)
         /\ last => tx.ixs[Len(tx.ixs)] = "tip"
<1> DEFINE ixs == IF last THEN TipperIxs ELSE BuyerIxs
<1>1. /\ ixs \in Seq(Names) /\ ixs[1] = "account" /\ ixs[2] = "buy"
      /\ last => Len(ixs) = 3 /\ ixs[3] = "tip"
      /\ ~last => Len(ixs) = 2
  <2>1. "account" \in Names /\ "buy" \in Names /\ "tip" \in Names
    BY DEF Names
  <2>2. BuyerIxs \in Seq(Names) /\ TipperIxs \in Seq(Names)
    BY <2>1, Tuples DEF BuyerIxs, TipperIxs
  <2>3. QED
    BY <2>2 DEF BuyerIxs, TipperIxs
<1> HIDE DEF ixs
<1>2. /\ tx \in Transaction /\ tx.payer = payer /\ tx.ixs = ixs
      /\ tx.blockhash = hash
  BY <1>1 DEF Tx, Transaction, Names, ixs
<1>3. Has(tx, "buy") /\ ~Has(tx, "create") /\ (Has(tx, "tip") <=> last)
  BY <1>1, <1>2 DEF Has
<1>4. last => tx.ixs[Len(tx.ixs)] = "tip"
  BY <1>1, <1>2
<1>5. QED
  BY <1>2, <1>3, <1>4 DEF ixs

LEMMA InitBundle == Init => BundleInv
<1> SUFFICES ASSUME Init PROVE BundleInv
  OBVIOUS
<1>1. TypeOK
  BY DEF Init, TypeOK
<1>2. BuildOK /\ BundleComplete /\ SentOK /\ ReturnsHanded
  BY DEF Init, BuildOK, BundleComplete, SentOK, ReturnsHanded, Built, Handed
<1>3. QED
  BY <1>1, <1>2 DEF BundleInv

LEMMA AbortKeeps ==
  ASSUME BundleInv, NEW how \in {"failed", "panicked"}, Abort(how),
         pc \in {"create", "buyers"}, UNCHANGED <<chain, received>>
  PROVE  BundleInv'
<1>1. TypeOK'
  BY DEF BundleInv, TypeOK, Abort, Ended, chain
<1>2. received = {}
  BY DEF BundleInv, SentOK, Handed
<1>3. BuildOK' /\ BundleComplete' /\ ReturnsHanded'
  BY DEF BundleInv, BuildOK, BundleComplete, ReturnsHanded, Abort, Built, Handed
<1>4. SentOK'
  BY <1>2 DEF SentOK, Abort, Handed
<1>5. QED
  BY <1>1, <1>3, <1>4 DEF BundleInv

\* The creator's transaction.
LEMMA CreateKeeps ==
  ASSUME BundleInv, Create
  PROVE  BundleInv'
<1>1. CASE Abort("failed") \/ Abort("panicked")
  BY <1>1, AbortKeeps DEF Create
<1>2. CASE /\ accounts # <<>>
           /\ recent_blockhash' = block
           /\ transactions' = <<Tx(accounts[1], CreatorIxs, block)>>
           /\ pc' = "buyers"
           /\ UNCHANGED <<accounts, index, bundle_id>>
  <2> DEFINE tx == Tx(accounts[1], CreatorIxs, block)
  <2>1. /\ Len(accounts) \in Nat /\ Len(accounts) >= 1 /\ accounts[1] \in STRING
        /\ block \in Nat
    BY <1>2, AccountsType DEF BundleInv, TypeOK
  <2>2. /\ tx \in Transaction /\ tx.payer = accounts[1] /\ tx.blockhash = block
        /\ Has(tx, "buy") /\ Has(tx, "create") /\ ~Has(tx, "tip")
    BY <2>1, CreatorTx
  <2> HIDE DEF tx
  <2>3. /\ transactions' \in Seq(Transaction) /\ Len(transactions') = 1
        /\ transactions'[1] = tx
    BY <1>2, <2>2 DEF tx
  <2>4. TypeOK' /\ received' = {} /\ index' = 0
    <3>1. pc = "create" /\ UNCHANGED <<chain, received>>
      BY DEF Create
    <3>2. received' = {} /\ index' = 0
      BY <1>2, <3>1 DEF BundleInv, SentOK, BuildOK, Handed
    <3>3. TypeOK'
      BY <1>2, <2>1, <2>3, <3>1 DEF BundleInv, TypeOK, chain
    <3>4. QED
      BY <3>2, <3>3
  <2>5. BuildOK'
    <3>1. \A k \in 1 .. Len(transactions') : k = 1
      BY <2>3
    <3>2. InPlace(1)'
      BY <1>2, <2>2, <2>3 DEF InPlace
    <3>3. TipsOK'
      <4>1. ~(Len(accounts') > 1 /\ Len(transactions') = Len(accounts'))
        BY <1>2, <2>1, <2>3
      <4>2. QED
        BY <4>1 DEF TipsOK
    <3>4. QED
      BY <1>2, <2>1, <2>2, <2>3, <2>4, <3>1, <3>2, <3>3 DEF BuildOK, Buyers, Built,
         Handed
  <2>6. BundleComplete' /\ SentOK' /\ ReturnsHanded'
    BY <1>2, <2>4 DEF BundleComplete, SentOK, ReturnsHanded, Built, Handed
  <2>7. QED
    BY <2>4, <2>5, <2>6 DEF BundleInv
<1>3. QED
  BY <1>1, <1>2 DEF Create

\* The transaction of one more buyer.
LEMMA AddBuyerKeeps ==
  ASSUME BundleInv, AddBuyer
  PROVE  BundleInv'
<1>1. CASE Abort("failed")
  BY <1>1, AbortKeeps DEF AddBuyer
<1>2. CASE /\ transactions' = Append(transactions, BuyerTx)
           /\ index' = index + 1
           /\ UNCHANGED <<pc, accounts, recent_blockhash, bundle_id>>
  <2> DEFINE tx == BuyerTx
  <2>1. /\ pc = "buyers" /\ index \in Nat /\ index < Buyers
        /\ accounts # <<>> /\ Len(transactions) = index + 1
        /\ \A k \in 1 .. Len(transactions) : InPlace(k)
        /\ transactions \in Seq(Transaction) /\ received = {}
        /\ recent_blockhash \in Nat
    BY DEF AddBuyer, BundleInv, TypeOK, BuildOK, SentOK, Handed
  <2>2. /\ Len(accounts) \in Nat /\ index + 2 \in 1 .. Len(accounts)
        /\ accounts[index + 2] \in STRING
    BY <2>1, AccountsType DEF BundleInv, Buyers
  <2>3. LastBuyer \in BOOLEAN /\ (LastBuyer <=> index + 2 = Len(accounts))
    BY <2>1, <2>2 DEF LastBuyer
  <2>4. /\ tx \in Transaction /\ tx.payer = accounts[index + 2]
        /\ tx.blockhash = recent_blockhash
        /\ Has(tx, "buy") /\ ~Has(tx, "create") /\ (Has(tx, "tip") <=> LastBuyer)
        /\ LastBuyer => tx.ixs[Len(tx.ixs)] = "tip"
    <3> DEFINE payer == accounts[index + 2]
    <3>1. recent_blockhash \in Nat
      BY <2>1
    <3>2. tx = Tx(payer, IF LastBuyer THEN TipperIxs ELSE BuyerIxs,
                  recent_blockhash)
      BY DEF BuyerTx
    <3> HIDE DEF tx
    <3>3. payer \in STRING /\ LastBuyer \in BOOLEAN
      BY <2>2, <2>3
    <3> HIDE DEF payer
    <3>4. /\ tx \in Transaction /\ tx.payer = payer /\ tx.blockhash = recent_blockhash
          /\ Has(tx, "buy") /\ ~Has(tx, "create") /\ (Has(tx, "tip") <=> LastBuyer)
          /\ LastBuyer => tx.ixs[Len(tx.ixs)] = "tip"
      BY <3>1, <3>2, <3>3, BuyersTx
    <3>5. QED
      BY <3>4 DEF payer
  <2> HIDE DEF tx
  <2>5. /\ transactions' \in Seq(Transaction)
        /\ Len(transactions') = index + 2
        /\ \A k \in 1 .. index + 1 : transactions'[k] = transactions[k]
        /\ transactions'[index + 2] = tx
    BY <1>2, <2>1, <2>4 DEF tx
  <2>6. TypeOK'
    BY <1>2, <2>1, <2>5 DEF AddBuyer, BundleInv, TypeOK, chain
  <2>7. BuildOK'
    <3>1. ASSUME NEW k \in 1 .. index + 1 PROVE InPlace(k)'
      BY <1>2, <2>1, <2>5, <3>1 DEF InPlace
    <3>2. ASSUME NEW k \in Nat, k = index + 2 PROVE InPlace(k)'
      BY <1>2, <2>1, <2>2, <2>3, <2>4, <2>5, <3>2 DEF InPlace
    <3>3. \A k \in 1 .. Len(transactions') :
            k \in 1 .. index + 1 \/ (k \in Nat /\ k = index + 2)
      BY <2>1, <2>5
    <3>4. \A k \in 1 .. Len(transactions') : InPlace(k)'
      BY <3>1, <3>2, <3>3
    <3>5. accounts' # <<>> /\ index' <= Buyers' /\ Len(transactions') = index' + 1
      BY <1>2, <2>1, <2>2, <2>5 DEF Buyers
    <3>6. TipsOK'
      BY <1>2, <2>2, <2>3, <2>4, <2>5 DEF TipsOK
    <3>7. ~Has(transactions'[1], "tip")
      <4>1. transactions # <<>> /\ 1 \in 1 .. index + 1
        BY <2>1
      <4>2. QED
        BY <2>5, <4>1 DEF BundleInv, BuildOK
    <3>8. QED
      BY <1>2, <2>1, <3>4, <3>5, <3>6, <3>7 DEF BuildOK, Built, Handed
  <2>8. BundleComplete' /\ SentOK' /\ ReturnsHanded'
    BY <1>2, <2>1 DEF AddBuyer, BundleComplete, SentOK, ReturnsHanded, Built, Handed
  <2>9. QED
    BY <2>6, <2>7, <2>8 DEF BundleInv
<1>3. QED
  BY <1>1, <1>2 DEF AddBuyer

\* A step that leaves the transactions as they are, once they are built.
LEMMA SendKeeps ==
  ASSUME BundleInv, EndBuyers \/ Bundle \/ Accepted \/ Unanswered \/ StatusFails
  PROVE  BundleInv'
<1>1. /\ UNCHANGED <<accounts, recent_blockhash, transactions, index, chain>>
      /\ pc' \in Built
  BY DEF EndBuyers, Bundle, Accepted, Unanswered, StatusFails, GoTo, call, Built,
     Handed
<1>2. transactions \in Seq(Transaction)
  BY DEF BundleInv, TypeOK
<1>3. /\ received \subseteq received'
      /\ received' \in {received, received \cup {transactions}}
      /\ bundle_id' \in {bundle_id, transactions}
  BY DEF EndBuyers, Bundle, Accepted, Unanswered, StatusFails, call
<1>4. TypeOK'
  <2>1. received' \in SUBSET Seq(Transaction)
    BY <1>2, <1>3 DEF BundleInv, TypeOK
  <2>2. bundle_id' \in Seq(Transaction)
    BY <1>2, <1>3 DEF BundleInv, TypeOK
  <2>3. QED
    BY <1>1, <1>3, <2>1, <2>2 DEF BundleInv, TypeOK, chain
<1>5. BuildOK'
  <2>1. accounts # <<>>
    BY DEF EndBuyers, Bundle, Accepted, Unanswered, StatusFails, BundleInv, BuildOK,
       Built, Handed
  <2>2. QED
    BY <1>1, <2>1 DEF BundleInv, BuildOK, Built, Handed
<1>6. BundleComplete'
  <2>1. CASE EndBuyers
    <3>1. /\ accounts # <<>> /\ index = Len(accounts) - 1
          /\ Len(transactions) = index + 1 /\ index \in Nat
          /\ \A k \in 1 .. Len(transactions) : InPlace(k)
          /\ TipsOK
      BY <2>1 DEF EndBuyers, BundleInv, TypeOK, BuildOK, Buyers
    <3>2. Len(transactions) = Len(accounts)
      BY <3>1, AccountsType DEF BundleInv
    <3>3. QED
      BY <1>1, <3>1, <3>2 DEF BundleComplete, InPlace, TipsOK
  <2>2. CASE ~EndBuyers
    <3>1. pc \in Built
      BY <2>2 DEF Bundle, Accepted, Unanswered, StatusFails, Built, Handed
    <3>2. QED
      BY <1>1, <3>1 DEF BundleInv, BundleComplete, InPlace
  <2>3. QED
    BY <2>1, <2>2
<1>7. SentOK' /\ ReturnsHanded'
  <2>1. CASE EndBuyers \/ Bundle
    BY <2>1 DEF EndBuyers, Bundle, GoTo, BundleInv, SentOK, ReturnsHanded, Handed
  <2>2. CASE Accepted
    BY <1>1, <2>2 DEF Accepted, GoTo, BundleInv, SentOK, ReturnsHanded, Handed
  <2>3. CASE Unanswered
    BY <1>1, <2>3 DEF Unanswered, call, BundleInv, SentOK, ReturnsHanded, Handed
  <2>4. CASE StatusFails
    BY <2>4 DEF StatusFails, GoTo, BundleInv, SentOK, ReturnsHanded, Handed
  <2>5. QED
    BY <2>1, <2>2, <2>3, <2>4
<1>8. QED
  BY <1>4, <1>5, <1>6, <1>7 DEF BundleInv

LEMMA ChainKeeps ==
  ASSUME BundleInv, NewBlock \/ Land
  PROVE  BundleInv'
<1>1. UNCHANGED <<call, received>>
  BY DEF NewBlock, Land
<1>2. block' \in Nat /\ landed' \in SUBSET received
  BY DEF NewBlock, Land, BundleInv, TypeOK
<1>3. TypeOK'
  BY <1>1, <1>2 DEF BundleInv, TypeOK, call
<1>4. BuildOK' /\ BundleComplete'
  BY <1>1 DEF BundleInv, BuildOK, BundleComplete, InPlace, TipsOK, Buyers, call
<1>5. SentOK' /\ ReturnsHanded'
  BY <1>1 DEF BundleInv, SentOK, ReturnsHanded, call
<1>6. QED
  BY <1>3, <1>4, <1>5 DEF BundleInv

LEMMA BundleInvariant == Spec => []BundleInv
<1>1. BundleInv /\ [Next]_vars => BundleInv'
  <2> SUFFICES ASSUME BundleInv, [Next]_vars PROVE BundleInv'
    OBVIOUS
  <2>1. CASE UNCHANGED vars
    BY <2>1 DEF vars, call, chain, BundleInv, TypeOK, BuildOK, BundleComplete,
         SentOK, ReturnsHanded, InPlace, TipsOK, Buyers
  <2>2. CASE BundleRefused \/ StatusAnswered
    BY <2>1, <2>2 DEF BundleRefused, StatusAnswered
  <2>3. QED
    BY <2>1, <2>2, CreateKeeps, AddBuyerKeeps, SendKeeps, ChainKeeps DEF Next, Submit
<1>2. QED
  BY <1>1, InitBundle, PTL DEF Spec

\* Every variable keeps its shape, and nothing lands that Jito has not got.
THEOREM TypeCorrect == Spec => []TypeOK
<1>1. BundleInv => TypeOK
  BY DEF BundleInv
<1>2. QED
  BY <1>1, BundleInvariant, PTL

\* However many accounts there are, and whoever owns them, the bundle is
\* complete before it is sent, pays no tip before its very end, and pays one
\* there if there is a second account.
THEOREM Complete == Spec => []BundleComplete
<1>1. BundleInv => BundleComplete
  BY DEF BundleInv
<1>2. QED
  BY <1>1, BundleInvariant, PTL

\* However often the submission is repeated, and whenever one of them lands,
\* the bundle that lands is the one whose status is asked for.
THEOREM PollsWhatLands == Spec => []StatusIsOfLanded
<1>1. BundleInv => StatusIsOfLanded
  BY DEF BundleInv, TypeOK, SentOK, StatusIsOfLanded
<1>2. QED
  BY <1>1, BundleInvariant, PTL

\* No call gets to the status, or returns Ok, before Jito has its bundle.
THEOREM OkMeansHanded == Spec => []ReturnsHanded
<1>1. BundleInv => ReturnsHanded
  BY DEF BundleInv
<1>2. QED
  BY <1>1, BundleInvariant, PTL

\* A bundle that Jito has pays a tip if and only if somebody but the creator
\* buys: the tip is the last buyer's.
THEOREM TipsWithBuyers ==
  Spec => [](pc \in Handed => (EveryBundleTips <=> Len(accounts) > 1))
<1> DEFINE Tipped == \E k \in 1 .. Len(transactions) : Has(transactions[k], "tip")
<1>1. ASSUME BundleInv, pc \in Handed
      PROVE  Tipped <=> Len(accounts) > 1
  <2>1. /\ Len(transactions) = Len(accounts) /\ Len(accounts) \in Nat
        /\ Len(accounts) >= 1
        /\ \A k \in 1 .. Len(transactions) : InPlace(k)
        /\ Len(accounts) > 1 => Has(transactions[Len(accounts)], "tip")
    BY <1>1, AccountsType DEF BundleInv, BuildOK, BundleComplete, Built
  <2>2. CASE Len(accounts) > 1
    BY <2>1, <2>2
  <2>3. CASE Len(accounts) = 1
    <3>1. \A k \in 1 .. Len(transactions) : k = 1
      BY <2>1, <2>3
    <3>2. ~Has(transactions[1], "tip")
      BY <1>1, <2>1, <2>3 DEF BundleInv, BuildOK
    <3> QED
      BY <2>1, <2>3, <3>1, <3>2
  <2> QED
    BY <2>1, <2>2, <2>3
<1>2. BundleInv => (pc \in Handed => (EveryBundleTips <=> Len(accounts) > 1))
  BY <1>1 DEF EveryBundleTips
<1> QED
  BY <1>2, BundleInvariant, PTL

\* What can land is signed over the blockhash that was fetched, so that nothing
\* lands any more once that is no longer recent.
THEOREM LostForGood == Spec => ExpiredIsLost
<1>1. ASSUME BundleInv, Late, [Next]_vars PROVE Late'
  <2>1. /\ transactions # <<>> /\ landed = {}
        /\ block - recent_blockhash > Valid
        /\ block \in Nat /\ recent_blockhash \in Nat /\ Valid \in Nat
        /\ transactions \in Seq(Transaction)
    BY <1>1, BundleAssumption DEF Late, Recent, BundleInv, TypeOK
  <2>2. ~Create
    BY <1>1, <2>1 DEF Create, BundleInv, BuildOK
  <2>3. ~Land
    <3> SUFFICES ASSUME NEW bundle \in received,
                        \A k \in 1 .. Len(bundle) : Recent(bundle[k].blockhash)
                 PROVE  FALSE
      BY DEF Land
    <3>1. bundle = transactions /\ pc \in Built
      BY <1>1 DEF BundleInv, SentOK, Built
    <3>2. 1 \in 1 .. Len(transactions)
      BY <2>1
    <3>3. transactions[1].blockhash = recent_blockhash
      BY <1>1, <3>1, <3>2 DEF BundleInv, BundleComplete, InPlace
    <3> QED
      BY <2>1, <3>1, <3>2, <3>3 DEF Recent
  <2>4. landed' = {} /\ recent_blockhash' = recent_blockhash
    BY <1>1, <2>1, <2>2, <2>3 DEF Next, Submit, AddBuyer, Abort, EndBuyers, Bundle,
       BundleRefused, Accepted, Unanswered, StatusAnswered, StatusFails, NewBlock,
       GoTo, vars, call, chain
  <2>5. block' \in {block, block + 1}
    BY <1>1, <2>2, <2>3 DEF Next, Submit, AddBuyer, EndBuyers, Bundle,
       BundleRefused, Accepted, Unanswered, StatusAnswered, StatusFails, NewBlock,
       vars, chain
  <2>6. transactions' \in {transactions, Append(transactions, BuyerTx)}
    BY <1>1, <2>2, <2>3 DEF Next, Submit, AddBuyer, Abort, EndBuyers, Bundle,
       BundleRefused, Accepted, Unanswered, StatusAnswered, StatusFails, NewBlock,
       GoTo, vars, call
  <2>7. transactions' # <<>>
    <3>1. Append(transactions, BuyerTx) # <<>>
      BY <2>1
    <3> QED
      BY <2>1, <2>6, <3>1
  <2>8. block' - recent_blockhash' > Valid
    <3> DEFINE later == block'
    <3>1. later \in Nat /\ later >= block
      BY <2>1, <2>5
    <3> HIDE DEF later
    <3>2. later - recent_blockhash > Valid
      BY <2>1, <3>1
    <3>3. QED
      BY <2>4, <3>2 DEF later
  <2>9. block' - recent_blockhash' \in Int
    BY <2>1, <2>4, <2>5
  <2> QED
    BY <2>1, <2>4, <2>7, <2>8, <2>9 DEF Late, Recent
<1>2. Late => landed = {}
  BY DEF Late
<1>3. Spec => [](Late => []Late)
  BY <1>1, BundleInvariant, PTL DEF Spec
<1>4. Spec => [](Late => [](landed = {}))
  BY <1>2, <1>3, PTL
<1> QED
  BY <1>4 DEF ExpiredIsLost
=============================================================================
