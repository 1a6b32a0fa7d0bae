------------------------ MODULE VolumeHandlerProofs ------------------------
(***************************************************************************)
(* Proofs about VolumeHandler, for all lists of makers, all balances and   *)
(* holdings, and whatever the chain does with the transactions.            *)
(***************************************************************************)
EXTENDS VolumeHandler, SequenceTheorems, TLAPS

ScanPhase == pc \in {"load"} \cup Scanning

\* The wallet has not had its turn yet.
Listed(w)  == \E k \in 1 .. Len(with_token) : with_token[k] = w
Waits(w)   == ScanPhase \/ Listed(w)

(***************************************************************************)
(* The inductive invariant, in four parts.   What the scan has done so     *)
(* far: it has only sent collections, of wallets it has passed.            *)
(***************************************************************************)
ScanOK ==
  /\ pc = "load" => index = 1 /\ with_token = <<>> /\ pending = {}
  /\ pc \in {"collect", "holds"} => index <= Len(makers) /\ wallet = makers[index]
  /\ ScanPhase =>
       /\ \A k \in 1 .. Len(with_token) :
            \E j \in 1 .. (index - 1) : with_token[k] = makers[j]
       /\ \A tx \in pending :
            \E j \in 1 .. index : tx.from = makers[j] /\ (j = index => pc = "holds")

(***************************************************************************)
(* What a wallet can rely on until its turn: at most its collection is     *)
(* pending, and that leaves the reserve.                                   *)
(***************************************************************************)
Untouched(w) ==
  /\ \A tx \in pending : tx.from = w =>
       tx.kind = "collect" /\ sol[w] = tx.amount + Reserve
  /\ \A tx, other \in pending : tx.from = w /\ other.from = w => tx = other

WaitOK ==
  /\ \A j, k \in 1 .. Len(with_token) : with_token[j] = with_token[k] => j = k
  /\ \A w \in Wallets : Waits(w) => Untouched(w)
  /\ pc = "collect" => balance = sol[wallet]

(***************************************************************************)
(* The wallet whose turn it is has left the list, and has no sale pending  *)
(* before its own.                                                         *)
(***************************************************************************)
TurnOK ==
  /\ pc \in {"balance", "amount", "sell", "proceeds", "sweep"} => ~Listed(wallet)
  /\ pc \in {"balance", "amount", "sell"} => Sells(wallet) = {}
  /\ pc = "sell" => amount <= tokens[wallet]
  /\ \A tx \in pending : tx.kind = "sell" => tx.amount <= tokens[tx.from]
  /\ \A tx, other \in pending :
       tx.kind = "sell" /\ other.kind = "sell" /\ tx.from = other.from => tx = other

(***************************************************************************)
(* A sale that goes through is the only thing that makes a wallet richer.  *)
(***************************************************************************)
ReadOK == pc = "sweep" /\ wallet \notin sold => sol[wallet] <= balance

VolumeInv == TypeOK /\ ScanOK /\ ReadOK /\ (Distinct => WaitOK /\ TurnOK)

-----------------------------------------------------------------------------
(***************************************************************************)
(* Types.                                                                  *)
(***************************************************************************)
LEMMA LastAndFront ==
  ASSUME NEW S, NEW s \in Seq(S), s # <<>>
  PROVE  /\ Len(s) \in Nat \ {0}
         /\ Last(s) \in S /\ Last(s) = s[Len(s)]
         /\ Front(s) \in Seq(S) /\ Len(Front(s)) = Len(s) - 1
         /\ \A k \in 1 .. (Len(s) - 1) : Front(s)[k] = s[k]
<1>1. Len(s) \in Nat \ {0}
  OBVIOUS
<1>2. Last(s) \in S /\ Last(s) = s[Len(s)]
  BY <1>1 DEF Last
<1>3. /\ Front(s) \in Seq(S) /\ Len(Front(s)) = Len(s) - 1
      /\ \A k \in 1 .. (Len(s) - 1) : Front(s)[k] = s[k]
  <2>1. Front(s) = SubSeq(s, 1, Len(s) - 1)
    BY DEF Front
  <2>2. /\ 1 \in 1 .. (Len(s) + 1) /\ Len(s) - 1 \in 0 .. Len(s)
        /\ (Len(s) - 1) - 1 + 1 = Len(s) - 1
    BY <1>1
  <2>3. /\ SubSeq(s, 1, Len(s) - 1) \in Seq(S)
        /\ Len(SubSeq(s, 1, Len(s) - 1)) = Len(s) - 1
        /\ \A k \in 1 .. (Len(s) - 1) : SubSeq(s, 1, Len(s) - 1)[k] = s[k]
    BY <1>1, <2>2, SubSeqProperties
  <2>4. QED
    BY <2>1, <2>3
<1>4. QED
  BY <1>1, <1>2, <1>3

LEMMA MakersType ==
  ASSUME TypeOK
  PROVE  /\ makers \in Seq(Wallets) /\ Len(makers) \in Nat
         /\ \A k \in 1 .. Len(makers) : makers[k] \in Wallets
<1>1. makers \in Seq(Wallets)
  BY VolumeAssumption DEF TypeOK
<1>2. QED
  BY <1>1

LEMMA TxType ==
  ASSUME NEW kind \in {"collect", "sell", "sweep"}, NEW w \in Wallets,
         NEW n \in Nat, NEW at \in Nat
  PROVE  /\ Tx(kind, w, n, at) \in Transactions
         /\ Tx(kind, w, n, at).kind = kind /\ Tx(kind, w, n, at).from = w
         /\ Tx(kind, w, n, at).amount = n /\ Tx(kind, w, n, at).at = at
BY DEF Tx, Transactions

\* The chain moves the balances of one wallet, and no further than they go.
Lands(tx) ==
  /\ pending' = pending \ {tx}
  /\ sol' \in [Wallets -> Nat] /\ tokens' \in [Wallets -> Nat]
  /\ \A w \in Wallets : w # tx.from => sol'[w] = sol[w]
  /\ \A w \in Wallets : (w # tx.from \/ tx.kind # "sell") => tokens'[w] = tokens[w]
  /\ sold \subseteq sold' /\ sold' \in SUBSET Wallets
  /\ tx.from \in sold' \/ sol'[tx.from] <= sol[tx.from]
  /\ (tx.kind = "collect" /\ sol[tx.from] = tx.amount + Reserve /\ 2 * Fee <= Reserve)
       => sol'[tx.from] >= Fee
  /\ UNCHANGED <<pc, makers, admins, index, with_token, wallet, balance, amount>>

LEMMA LandMoves ==
  ASSUME TypeOK, Land
  PROVE  \E tx \in pending : Lands(tx)
<1>1. PICK tx \in pending, gain \in Proceeds :
        /\ sol[tx.from] >= Fee
        /\ sol' = [sol EXCEPT ![tx.from] = @ - Fee +
                     IF ~Covered(tx) THEN 0 ELSE IF tx.kind = "sell" THEN gain ELSE -tx.amount]
        /\ tokens' = [tokens EXCEPT ![tx.from] =
                        IF tx.kind = "sell" /\ Covered(tx) THEN @ - tx.amount ELSE @]
        /\ pending' = pending \ {tx}
        /\ sold' = IF tx.kind = "sell" /\ Covered(tx) THEN sold \cup {tx.from} ELSE sold
        /\ UNCHANGED <<pc, config, index, with_token, wallet, balance, amount>>
  BY DEF Land
<1>2. /\ tx.from \in Wallets /\ tx.amount \in Nat /\ gain \in Nat
      /\ Fee \in Nat /\ Fee > 0 /\ RentMin \in Nat /\ Reserve \in Nat
      /\ sol \in [Wallets -> Nat] /\ tokens \in [Wallets -> Nat]
      /\ sol[tx.from] \in Nat /\ tokens[tx.from] \in Nat
  BY <1>1, VolumeAssumption DEF TypeOK, Transactions
<1>3. /\ sol'[tx.from] = sol[tx.from] - Fee +
           IF ~Covered(tx) THEN 0 ELSE IF tx.kind = "sell" THEN gain ELSE -tx.amount
      /\ tokens'[tx.from] = IF tx.kind = "sell" /\ Covered(tx)
                            THEN tokens[tx.from] - tx.amount ELSE tokens[tx.from]
  BY <1>1, <1>2
<1>0. sold \subseteq sold' /\ sold' \in SUBSET Wallets
  <2>1. sold \in SUBSET Wallets
    BY DEF TypeOK
  <2>2. QED
    BY <1>1, <1>2, <2>1
<1>4. CASE ~Covered(tx)
  <2>1. sol'[tx.from] = sol[tx.from] - Fee /\ tokens'[tx.from] = tokens[tx.from]
    BY <1>2, <1>3, <1>4
  <2>2. sol'[tx.from] \in Nat /\ sol'[tx.from] <= sol[tx.from]
    BY <1>1, <1>2, <2>1
  <2>3. sol' \in [Wallets -> Nat] /\ tokens' \in [Wallets -> Nat]
    BY <1>1, <1>2, <2>1, <2>2
  <2>4. \A w \in Wallets : /\ w # tx.from => sol'[w] = sol[w]
                            /\ tokens'[w] = tokens[w]
    BY <1>1, <1>2, <2>1
  <2>5. QED
    BY <1>0, <1>1, <1>2, <2>1, <2>2, <2>3, <2>4 DEF Lands, config
<1>5. CASE Covered(tx) /\ tx.kind = "sell"
  <2>1. tokens[tx.from] >= tx.amount
    BY <1>5 DEF Covered
  <2>2. /\ sol'[tx.from] = sol[tx.from] - Fee + gain
        /\ tokens'[tx.from] = tokens[tx.from] - tx.amount
    BY <1>3, <1>5
  <2>3. sol'[tx.from] \in Nat /\ tokens'[tx.from] \in Nat
    BY <1>1, <1>2, <2>1, <2>2
  <2>4. sol' \in [Wallets -> Nat] /\ tokens' \in [Wallets -> Nat]
    BY <1>1, <1>2, <1>5, <2>2, <2>3
  <2>5. \A w \in Wallets : w # tx.from => sol'[w] = sol[w] /\ tokens'[w] = tokens[w]
    BY <1>1, <1>2
  <2>6. tx.from \in sold'
    BY <1>1, <1>5
  <2>7. QED
    BY <1>0, <1>1, <1>5, <2>4, <2>5, <2>6 DEF Lands, config
<1>6. CASE Covered(tx) /\ tx.kind # "sell"
  <2>1. \/ sol[tx.from] - tx.amount - Fee = 0
        \/ sol[tx.from] - tx.amount - Fee >= RentMin
    BY <1>6 DEF Covered
  <2>2. /\ sol'[tx.from] = sol[tx.from] - Fee - tx.amount
        /\ tokens'[tx.from] = tokens[tx.from]
    BY <1>2, <1>3, <1>6
  <2>3. sol'[tx.from] \in Nat /\ sol'[tx.from] <= sol[tx.from]
    BY <1>2, <2>1, <2>2
  <2>4. sol' \in [Wallets -> Nat] /\ tokens' \in [Wallets -> Nat]
    BY <1>1, <1>2, <2>2, <2>3
  <2>5. \A w \in Wallets : /\ w # tx.from => sol'[w] = sol[w]
                            /\ tokens'[w] = tokens[w]
    BY <1>1, <1>2, <2>2
  <2>6. (sol[tx.from] = tx.amount + Reserve /\ 2 * Fee <= Reserve)
          => sol'[tx.from] >= Fee
    BY <1>2, <2>2
  <2>7. QED
    BY <1>0, <1>1, <1>6, <2>3, <2>4, <2>5, <2>6 DEF Lands, config
<1>7. QED
  BY <1>4, <1>5, <1>6

\* What a step of the handler leaves alone.
LEMMA HandlerKeeps ==
  ASSUME Handler
  PROVE  UNCHANGED <<makers, admins, sol, tokens>>
BY DEF Handler, Load, ScanBalance, Collect, ScanTokens, EndScan, NoBlockhash, Pop,
       ReadBalance, ReadTokens, Sell, ReadProceeds, Sweep, Jump, GoTo, config, chain

LEMMA NextType ==
  ASSUME TypeOK, ScanOK, [Next]_vars
  PROVE  TypeOK'
<1>0. /\ Fee \in Nat /\ Reserve \in Nat /\ Threshold \in Nat /\ Reserve <= Threshold
      /\ Len(makers) \in Nat /\ Len(with_token) \in Nat
  BY MakersType, VolumeAssumption DEF TypeOK
<1>1. ASSUME NEW step \in {"load"} \cup Scanning \cup Trading \cup Ended, Jump(step)
      PROVE  TypeOK'
  BY <1>1 DEF TypeOK, Jump, GoTo, config, chain
<1>2. CASE Load \/ EndScan \/ NoBlockhash \/ ReadBalance
  BY <1>1, <1>2 DEF Load, EndScan, NoBlockhash, ReadBalance, Scanning, Trading, Ended
<1>3. CASE ScanBalance
  <2>1. CASE Jump("failed")
    BY <1>1, <2>1 DEF Ended
  <2>2. CASE ~Jump("failed")
    <3>1. /\ wallet' = makers[index] /\ balance' = sol[makers[index]]
          /\ makers[index] \in Wallets /\ pc' = "collect"
      BY <1>3, <2>2, MakersType DEF ScanBalance, TypeOK, GoTo
    <3>2. balance' \in Nat
      BY <3>1 DEF TypeOK
    <3>3. QED
      BY <1>3, <2>2, <3>1, <3>2 DEF ScanBalance, TypeOK, GoTo, config, chain, Scanning
  <2>3. QED
    BY <2>1, <2>2
<1>4. CASE Collect
  <2>1. CASE Jump("failed") \/ Jump("holds")
    BY <1>1, <2>1 DEF Scanning, Ended
  <2>2. CASE ~Jump("failed") /\ ~Jump("holds")
    <3>1. balance - Reserve \in Nat
      BY <1>0, <1>4, <2>2 DEF Collect, TypeOK
    <3>2. Collection \in Transactions
      BY <1>0, <3>1, TxType DEF Collection, TypeOK
    <3>3. QED
      BY <1>4, <2>2, <3>2 DEF Collect, Send, TypeOK, GoTo, config, chain, Scanning
  <2>3. QED
    BY <2>1, <2>2
<1>5. CASE ScanTokens
  <2>1. CASE Jump("failed")
    BY <1>1, <2>1 DEF Ended
  <2>2. CASE ~Jump("failed")
    <3>1. with_token' \in Seq(Wallets)
      <4>1. with_token \in Seq(Wallets) /\ wallet \in Wallets
        BY DEF TypeOK
      <4>2. with_token' \in {with_token, Append(with_token, wallet)}
        BY <1>5, <2>2 DEF ScanTokens
      <4>3. QED
        BY <4>1, <4>2, AppendProperties
    <3>2. index' \in 1 .. (Len(makers) + 1)
      BY <1>0, <1>5, <2>2 DEF ScanTokens, TypeOK, ScanOK
    <3>3. QED
      BY <1>5, <2>2, <3>1, <3>2 DEF ScanTokens, TypeOK, GoTo, config, chain, Scanning
  <2>3. QED
    BY <2>1, <2>2
<1>6. CASE Pop
  <2>1. wallet' \in Wallets /\ with_token' \in Seq(Wallets)
    BY <1>6, LastAndFront DEF Pop, TypeOK
  <2>2. pc' \in Trading
    BY <1>6 DEF Pop, GoTo, Trading
  <2>3. QED
    BY <1>6, <2>1, <2>2 DEF Pop, TypeOK, GoTo, config, chain
<1>7. CASE ReadTokens
  <2>1. CASE Jump("loop") \/ Jump("failed")
    BY <1>1, <2>1 DEF Trading, Ended
  <2>2. CASE ~Jump("loop") /\ ~Jump("failed")
    BY <1>7, <2>2 DEF ReadTokens, AfterRead, TypeOK, GoTo, config, chain, Trading
  <2>3. QED
    BY <2>1, <2>2
<1>8. CASE Sell
  <2>1. CASE Jump("failed") \/ Jump("proceeds")
    BY <1>1, <2>1 DEF Trading, Ended
  <2>2. CASE ~Jump("failed") /\ ~Jump("proceeds")
    <3>1. Tx("sell", wallet, amount, Len(with_token)) \in Transactions
      BY <1>0, TxType DEF TypeOK
    <3>2. QED
      BY <1>8, <2>2, <3>1 DEF Sell, Send, TypeOK, GoTo, config, chain, Trading
  <2>3. QED
    BY <2>1, <2>2
<1>9. CASE ReadProceeds
  <2>1. CASE Jump("panicked")
    BY <1>1, <2>1 DEF Ended
  <2>2. CASE ~Jump("panicked")
    <3>1. balance' \in Nat
      BY <1>9, <2>2 DEF ReadProceeds, TypeOK
    <3>2. QED
      BY <1>9, <2>2, <3>1 DEF ReadProceeds, TypeOK, GoTo, config, chain, Trading
  <2>3. QED
    BY <2>1, <2>2
<1>10. CASE Sweep
  <2>1. CASE Jump("failed")
    BY <1>1, <2>1 DEF Ended
  <2>2. CASE ~Jump("failed")
    <3>1. Swept \in Transactions
      BY <1>0, TxType DEF Swept, TypeOK
    <3>2. QED
      BY <1>10, <2>2, <3>1 DEF Sweep, Send, TypeOK, GoTo, config, chain, Trading
  <2>3. QED
    BY <2>1, <2>2
<1>11. CASE Land
  BY <1>11, LandMoves DEF Lands, TypeOK
<1>12. CASE Drop
  BY <1>12 DEF Drop, TypeOK, config, chain
<1>13. CASE UNCHANGED vars
  BY <1>13 DEF vars, TypeOK
<1>14. QED
  BY <1>2, <1>3, <1>4, <1>5, <1>6, <1>7, <1>8, <1>9, <1>10, <1>11, <1>12, <1>13
     DEF Next, Handler

-----------------------------------------------------------------------------
(***************************************************************************)
(* The scan.                                                               *)
(***************************************************************************)

\* Nothing is said of the scan once it is over.
LEMMA ScanOver ==
  ASSUME pc' \notin {"load", "scan", "collect", "holds"}
  PROVE  ScanOK' /\ ~ScanPhase'
BY DEF ScanOK, ScanPhase, Scanning

LEMMA NextScan ==
  ASSUME TypeOK, ScanOK, [Next]_vars
  PROVE  ScanOK'
<1>0. /\ Len(makers) \in Nat /\ index \in Nat /\ index >= 1
      /\ with_token \in Seq(Wallets) /\ wallet \in Wallets
      /\ Len(with_token) \in Nat
  BY MakersType DEF TypeOK
<1>1. CASE Load
  <2>1. CASE Jump("failed") \/ Jump("panicked")
    BY <2>1, ScanOver DEF Jump, GoTo
  <2>2. CASE Jump("scan")
    BY <1>1, <2>2 DEF Load, Jump, GoTo, config, ScanOK, ScanPhase, Scanning
  <2>3. QED
    BY <1>1, <2>1, <2>2 DEF Load
<1>2. CASE ScanBalance
  <2>1. CASE Jump("failed")
    BY <2>1, ScanOver DEF Jump, GoTo
  <2>2. CASE ~Jump("failed")
    <3>1. /\ pc = "scan" /\ pc' = "collect" /\ wallet' = makers[index]
          /\ index <= Len(makers)
          /\ UNCHANGED <<makers, index, with_token, pending>>
      BY <1>2, <2>2 DEF ScanBalance, GoTo, config
    <3>2. QED
      BY <3>1 DEF ScanOK, ScanPhase, Scanning
  <2>3. QED
    BY <2>1, <2>2
<1>3. CASE Collect
  <2>1. CASE Jump("failed")
    BY <2>1, ScanOver DEF Jump, GoTo
  <2>2. CASE ~Jump("failed")
    <3>1. /\ pc = "collect" /\ pc' = "holds"
          /\ UNCHANGED <<makers, index, with_token, wallet>>
          /\ pending' \in {pending, pending \cup {Collection}}
      BY <1>3, <2>2 DEF Collect, Send, Jump, GoTo, config
    <3>2. Collection.from = wallet
      BY DEF Collection, Tx
    <3>3. index <= Len(makers) /\ wallet = makers[index]
      BY <3>1 DEF ScanOK
    <3>4. \A tx \in pending' : \E j \in 1 .. index : tx.from = makers[j]
      <4>1. \A tx \in pending : \E j \in 1 .. index : tx.from = makers[j]
        BY <3>1 DEF ScanOK, ScanPhase, Scanning
      <4>2. \E j \in 1 .. index : Collection.from = makers[j]
        BY <1>0, <3>2, <3>3
      <4>3. QED
        BY <3>1, <4>1, <4>2
    <3>5. \A k \in 1 .. Len(with_token) :
            \E j \in 1 .. (index - 1) : with_token[k] = makers[j]
      BY <3>1 DEF ScanOK, ScanPhase, Scanning
    <3>6. QED
      BY <3>1, <3>3, <3>4, <3>5 DEF ScanOK
  <2>3. QED
    BY <2>1, <2>2
<1>4. CASE ScanTokens
  <2>1. CASE Jump("failed")
    BY <2>1, ScanOver DEF Jump, GoTo
  <2>2. CASE ~Jump("failed")
    <3>1. /\ pc = "holds" /\ pc' = "scan" /\ index' = index + 1
          /\ with_token' \in {with_token, Append(with_token, wallet)}
          /\ UNCHANGED <<makers, wallet, pending>>
      BY <1>4, <2>2 DEF ScanTokens, GoTo, config
    <3>2. index <= Len(makers) /\ wallet = makers[index]
      BY <3>1 DEF ScanOK
    <3>3. \A tx \in pending : \E j \in 1 .. index : tx.from = makers[j]
      BY <3>1 DEF ScanOK, ScanPhase, Scanning
    <3>4. \A k \in 1 .. Len(with_token) :
            \E j \in 1 .. (index - 1) : with_token[k] = makers[j]
      BY <3>1 DEF ScanOK, ScanPhase, Scanning
    <3>5. \A k \in 1 .. Len(with_token') :
            \E j \in 1 .. index : with_token'[k] = makers[j]
      <4>1. CASE with_token' = with_token
        BY <1>0, <3>4, <4>1
      <4>2. CASE with_token' = Append(with_token, wallet)
        <5>1. /\ Len(with_token') = Len(with_token) + 1
              /\ \A k \in 1 .. Len(with_token) : with_token'[k] = with_token[k]
              /\ with_token'[Len(with_token) + 1] = wallet
          BY <1>0, <4>2, AppendProperties
        <5>2. index \in 1 .. index
          BY <1>0
        <5>3. \A k \in 1 .. Len(with_token') :
                k \in 1 .. Len(with_token) \/ k = Len(with_token) + 1
          BY <1>0, <5>1
        <5>4. \A k \in 1 .. Len(with_token) :
                \E j \in 1 .. index : with_token[k] = makers[j]
          BY <1>0, <3>4
        <5>5. QED
          BY <3>2, <5>1, <5>2, <5>3, <5>4
      <4>3. QED
        BY <3>1, <4>1, <4>2
    <3>6. \A j \in 1 .. index : j \in 1 .. index' /\ j # index'
      BY <1>0, <3>1
    <3>7. index' - 1 = index
      BY <1>0, <3>1
    <3>8. QED
      BY <3>1, <3>3, <3>5, <3>6, <3>7 DEF ScanOK
  <2>3. QED
    BY <2>1, <2>2
<1>5. CASE EndScan \/ NoBlockhash \/ Pop \/ ReadBalance \/ ReadTokens
             \/ Sell \/ ReadProceeds \/ Sweep
  <2>1. pc' \in {"failed", "panicked"} \cup Trading
    BY <1>5 DEF EndScan, NoBlockhash, Pop, ReadBalance, ReadTokens, AfterRead,
         Sell, ReadProceeds, Sweep, Jump, GoTo, Trading
  <2>2. QED
    BY <2>1, ScanOver DEF Trading
<1>6. CASE Land \/ Drop \/ UNCHANGED vars
  <2>1. /\ pending' \subseteq pending
        /\ UNCHANGED <<pc, makers, index, with_token, wallet>>
    BY <1>6, LandMoves DEF Lands, Drop, vars, config
  <2>2. QED
    BY <2>1 DEF ScanOK, ScanPhase, Scanning
<1>7. QED
  BY <1>1, <1>2, <1>3, <1>4, <1>5, <1>6 DEF Next, Handler

LEMMA InitVolume == Init => VolumeInv
<1> SUFFICES ASSUME Init PROVE VolumeInv
  OBVIOUS
<1>1. TypeOK
  <2>1. Len(makers) \in Nat
    <3>1. makers \in Seq(Wallets)
      BY VolumeAssumption DEF Init
    <3>2. QED
      BY <3>1
  <2>2. sol \in [Wallets -> Nat] /\ tokens \in [Wallets -> Nat]
    BY VolumeAssumption DEF Init
  <2>3. QED
    BY <2>1, <2>2 DEF Init, TypeOK
<1>2. ScanOK
  BY DEF Init, ScanOK, ScanPhase, Scanning
<1>3. WaitOK /\ TurnOK /\ ReadOK
  BY DEF Init, WaitOK, TurnOK, ReadOK, Untouched, Sells, Listed
<1>4. QED
  BY <1>1, <1>2, <1>3 DEF VolumeInv

-----------------------------------------------------------------------------
(***************************************************************************)
(* The waiting wallets, and the one whose turn it is.                      *)
(***************************************************************************)
TurnSteps == {"balance", "amount", "sell", "proceeds", "sweep"}

\* A step that sends nothing and leaves the chain and the list alone, and
\* that neither collects nor begins a turn.
LEMMA QuietKeeps ==
  ASSUME WaitOK, TurnOK, UNCHANGED <<sol, tokens, pending, with_token>>,
         ScanPhase' => ScanPhase, pc' \notin {"collect"} \cup TurnSteps
  PROVE  WaitOK' /\ TurnOK'
BY DEF WaitOK, TurnOK, Waits, Listed, Untouched, TurnSteps

LEMMA JumpOut ==
  ASSUME WaitOK, TurnOK, Jump("failed") \/ Jump("panicked") \/ Jump("loop")
  PROVE  WaitOK' /\ TurnOK'
<1>1. /\ UNCHANGED <<sol, tokens, pending, with_token>>
      /\ pc' \in {"failed", "panicked", "loop"}
  BY DEF Jump, GoTo, chain
<1>2. QED
  BY <1>1, QuietKeeps DEF ScanPhase, Scanning, TurnSteps

LEMMA JumpWithin ==
  ASSUME WaitOK, TurnOK, ScanPhase, Jump("scan") \/ Jump("holds")
  PROVE  WaitOK' /\ TurnOK'
<1>1. /\ UNCHANGED <<sol, tokens, pending, with_token>>
      /\ pc' \in {"scan", "holds"}
  BY DEF Jump, GoTo, chain
<1>2. QED
  BY <1>1, QuietKeeps DEF TurnSteps

\* A wallet that the scan is looking at has nothing pending.
LEMMA NotYet ==
  ASSUME TypeOK, ScanOK, Distinct, pc = "collect"
  PROVE  \A tx \in pending : tx.from # wallet
<1>1. index \in 1 .. Len(makers) /\ wallet = makers[index] /\ Len(makers) \in Nat
  BY MakersType DEF ScanOK, TypeOK
<1>2. \A tx \in pending : \E j \in 1 .. index : tx.from = makers[j] /\ j # index
  BY DEF ScanOK, ScanPhase, Scanning
<1>3. QED
  BY <1>1, <1>2 DEF Distinct

\* A wallet whose turn it is does not wait.
LEMMA InTurn ==
  ASSUME TurnOK, pc \in TurnSteps
  PROVE  ~Waits(wallet)
BY DEF TurnOK, TurnSteps, Waits, ScanPhase, Scanning

LEMMA CollectKeeps ==
  ASSUME TypeOK, ScanOK, Distinct, WaitOK, TurnOK, Collect
  PROVE  WaitOK' /\ TurnOK'
<1>1. pc = "collect" /\ ScanPhase
  BY DEF Collect, ScanPhase, Scanning
<1>2. CASE Jump("failed") \/ Jump("holds")
  BY <1>1, <1>2, JumpOut, JumpWithin
<1>3. CASE ~Jump("failed") /\ ~Jump("holds")
  <2>1. /\ pc' = "holds" /\ pending' = pending \cup {Collection}
        /\ UNCHANGED <<sol, tokens, with_token, wallet, balance>>
        /\ balance > Threshold
    BY <1>3 DEF Collect, Send, GoTo, chain
  <2>2. /\ balance - Reserve \in Nat /\ balance = (balance - Reserve) + Reserve
        /\ wallet \in Wallets /\ index \in Nat
    BY <2>1, VolumeAssumption DEF TypeOK
  <2>3. /\ Collection.from = wallet /\ Collection.kind = "collect"
        /\ Collection.amount = balance - Reserve
    BY <2>2, TxType DEF Collection
  <2>4. balance = sol[wallet]
    BY <1>1 DEF WaitOK
  <2> HIDE DEF Collection
  <2>5. \A w \in Wallets : Untouched(w)'
    <3>1. TAKE w \in Wallets
    <3>2. Untouched(w)
      BY <1>1 DEF WaitOK, Waits
    <3>3. CASE w = wallet
      BY <1>1, <2>1, <2>2, <2>3, <2>4, <3>3, NotYet DEF Untouched
    <3>4. CASE w # wallet
      BY <2>1, <2>3, <3>2, <3>4 DEF Untouched
    <3>5. QED
      BY <3>3, <3>4
  <2>6. WaitOK'
    BY <2>1, <2>5 DEF WaitOK
  <2>7. TurnOK'
    BY <2>1, <2>3 DEF TurnOK
  <2>8. QED
    BY <2>6, <2>7
<1>4. QED
  BY <1>2, <1>3

LEMMA ScanTokensKeeps ==
  ASSUME TypeOK, ScanOK, Distinct, WaitOK, TurnOK, ScanTokens
  PROVE  WaitOK' /\ TurnOK'
<1>1. pc = "holds" /\ ScanPhase
  BY DEF ScanTokens, ScanPhase, Scanning
<1>2. CASE Jump("failed")
  BY <1>2, JumpOut, JumpWithin
<1>3. CASE ~Jump("failed")
  <2>1. /\ pc' = "scan" /\ UNCHANGED <<sol, tokens, pending, wallet>>
        /\ with_token' \in {with_token, Append(with_token, wallet)}
    BY <1>3 DEF ScanTokens, GoTo, chain
  <2>2. /\ index \in 1 .. Len(makers) /\ Len(makers) \in Nat
        /\ wallet = makers[index] /\ with_token \in Seq(Wallets)
        /\ wallet \in Wallets /\ Len(with_token) \in Nat
    BY <1>1, MakersType DEF TypeOK, ScanOK
  <2>3. \A k \in 1 .. Len(with_token) : with_token[k] # wallet
    <3>1. \A k \in 1 .. Len(with_token) :
            \E j \in 1 .. (index - 1) : with_token[k] = makers[j]
      BY <1>1 DEF ScanOK
    <3>2. \A j \in 1 .. (index - 1) : j \in 1 .. Len(makers) /\ j # index
      BY <2>2
    <3>3. QED
      BY <2>2, <3>1, <3>2 DEF Distinct
  <2>4. \A j, k \in 1 .. Len(with_token') : with_token'[j] = with_token'[k] => j = k
    <3>1. CASE with_token' = with_token
      BY <3>1 DEF WaitOK
    <3>2. CASE with_token' = Append(with_token, wallet)
      <4>1. /\ Len(with_token') = Len(with_token) + 1
            /\ \A k \in 1 .. Len(with_token) : with_token'[k] = with_token[k]
            /\ with_token'[Len(with_token) + 1] = wallet
        BY <2>2, <3>2, AppendProperties
      <4>2. QED
        BY <2>2, <2>3, <4>1 DEF WaitOK
    <3>3. QED
      BY <2>1, <3>1, <3>2
  <2>5. \A w \in Wallets : Untouched(w)'
    BY <1>1, <2>1 DEF WaitOK, Waits, Untouched
  <2>6. QED
    BY <2>1, <2>4, <2>5 DEF WaitOK, TurnOK
<1>4. QED
  BY <1>2, <1>3

LEMMA PopKeepsTurn ==
  ASSUME TypeOK, WaitOK, TurnOK, Pop
  PROVE  WaitOK' /\ TurnOK'
<1>1. /\ pc = "loop" /\ pc' \in {"balance", "loop"}
      /\ wallet' = Last(with_token) /\ with_token' = Front(with_token)
      /\ UNCHANGED <<sol, tokens, pending>>
  BY DEF Pop, GoTo, chain
<1>2. /\ Len(with_token) \in Nat \ {0} /\ wallet' = with_token[Len(with_token)]
      /\ wallet' \in Wallets /\ Len(with_token') = Len(with_token) - 1
      /\ \A k \in 1 .. (Len(with_token) - 1) : with_token'[k] = with_token[k]
  <2>1. with_token \in Seq(Wallets) /\ with_token # <<>>
    BY DEF Pop, TypeOK
  <2>2. /\ Len(with_token) \in Nat \ {0}
        /\ Last(with_token) \in Wallets
        /\ Last(with_token) = with_token[Len(with_token)]
        /\ Len(Front(with_token)) = Len(with_token) - 1
        /\ \A k \in 1 .. (Len(with_token) - 1) : Front(with_token)[k] = with_token[k]
    BY <2>1, LastAndFront
  <2>3. QED
    BY <1>1, <2>2
<1>3. \A w \in Wallets : Listed(w)' => Listed(w) /\ w # wallet'
  BY <1>2 DEF Listed, WaitOK
<1>4. Listed(wallet')
  BY <1>2 DEF Listed
<1>5. Sells(wallet)' = {}
  <2>1. Untouched(wallet')
    BY <1>2, <1>4 DEF WaitOK, Waits
  <2>2. QED
    BY <1>1, <2>1 DEF Untouched, Sells
<1>6. WaitOK'
  <2>1. ~ScanPhase'
    BY <1>1 DEF ScanPhase, Scanning
  <2>2. \A w \in Wallets : Waits(w)' => Untouched(w)'
    BY <1>1, <1>3, <2>1 DEF WaitOK, Waits, Untouched
  <2>3. \A j, k \in 1 .. Len(with_token') : with_token'[j] = with_token'[k] => j = k
    BY <1>2 DEF WaitOK
  <2>4. QED
    BY <1>1, <2>2, <2>3 DEF WaitOK
<1>7. TurnOK'
  <2>1. ~Listed(wallet)'
    BY <1>2 DEF Listed, WaitOK
  <2>2. QED
    BY <1>1, <1>5, <2>1 DEF TurnOK
<1>8. QED
  BY <1>6, <1>7

\* A step within a turn that sends nothing.
LEMMA TurnGoesOn ==
  ASSUME WaitOK, TurnOK, pc \in TurnSteps, pc' \in TurnSteps,
         UNCHANGED <<sol, tokens, pending, with_token, wallet>>,
         pc' \in {"balance", "amount", "sell"} => pc \in {"balance", "amount", "sell"},
         pc' = "sell" => amount' <= tokens[wallet]
  PROVE  WaitOK' /\ TurnOK'
<1>1. WaitOK'
  BY DEF WaitOK, Waits, Listed, Untouched, TurnSteps, ScanPhase, Scanning
<1>2. TurnOK'
  BY DEF TurnOK, TurnSteps, Listed, Sells
<1>3. QED
  BY <1>1, <1>2

\* A transaction that is sent for the wallet whose turn it is.
LEMMA TurnSends ==
  ASSUME TypeOK, WaitOK, TurnOK, pc \in TurnSteps, pc' \in {"proceeds", "loop"},
         NEW tx, tx.from = wallet, tx.kind \in {"sell", "sweep"},
         tx.kind = "sell" => Sells(wallet) = {} /\ tx.amount <= tokens[wallet],
         pending' = pending \cup {tx},
         UNCHANGED <<sol, tokens, with_token, wallet>>
  PROVE  WaitOK' /\ TurnOK'
<1>1. \A w \in Wallets : Waits(w)' => Waits(w) /\ w # wallet
  BY InTurn DEF Waits, Listed, ScanPhase, Scanning
<1>2. WaitOK'
  <2>1. \A w \in Wallets : Waits(w)' => Untouched(w)'
    BY <1>1 DEF WaitOK, Untouched
  <2>2. QED
    BY <2>1 DEF WaitOK
<1>3. TurnOK'
  <2>1. \A one \in pending' : one.kind = "sell" => one.amount <= tokens'[one.from]
    BY DEF TurnOK
  <2>2. \A one, other \in pending' :
          one.kind = "sell" /\ other.kind = "sell" /\ one.from = other.from => one = other
    BY DEF TurnOK, Sells
  <2>3. ~Listed(wallet)'
    BY DEF TurnOK, TurnSteps, Listed
  <2>4. QED
    BY <2>1, <2>2, <2>3 DEF TurnOK
<1>4. QED
  BY <1>2, <1>3

LEMMA LandKeeps ==
  ASSUME TypeOK, TypeOK', ScanOK, Distinct, WaitOK, TurnOK, Land
  PROVE  WaitOK' /\ TurnOK'
<1>1. PICK tx \in pending : Lands(tx)
  BY LandMoves
<1>2. /\ pending' = pending \ {tx} /\ tx.from \in Wallets
      /\ UNCHANGED <<pc, with_token, wallet, balance, amount>>
      /\ wallet \in Wallets
  BY <1>1 DEF Lands, TypeOK, Transactions
<1>3. \A one \in pending : one.from \in Wallets
  BY DEF TypeOK, Transactions
<1>4. \A w \in Wallets : Waits(w)' => Untouched(w)'
  <2>1. TAKE w \in Wallets
  <2>2. Waits(w)' = Waits(w)
    BY <1>2 DEF Waits, Listed, ScanPhase
  <2>3. HAVE Waits(w)'
  <2>4. Untouched(w)
    BY <2>2, <2>3 DEF WaitOK
  <2>5. CASE w = tx.from
    BY <1>1, <1>2, <2>4, <2>5 DEF Untouched
  <2>6. CASE w # tx.from
    BY <1>1, <1>2, <2>4, <2>6 DEF Untouched, Lands
  <2>7. QED
    BY <2>5, <2>6
<1>5. pc = "collect" => balance = sol'[wallet]
  BY <1>1, <1>2, NotYet DEF WaitOK, Lands
<1>6. WaitOK'
  BY <1>2, <1>4, <1>5 DEF WaitOK
<1>7. Sells(wallet)' \subseteq Sells(wallet)
  BY <1>2 DEF Sells
<1>8. pc = "sell" => amount <= tokens'[wallet]
  BY <1>1, <1>2 DEF TurnOK, Lands, Sells
<1>9. \A one \in pending' : one.kind = "sell" => one.amount <= tokens'[one.from]
  <2>1. TAKE one \in pending'
  <2>2. HAVE one.kind = "sell"
  <2>3. one \in pending /\ one # tx /\ one.from \in Wallets
    BY <1>2, <1>3
  <2>4. one.from # tx.from \/ tx.kind # "sell"
    BY <2>2, <2>3 DEF TurnOK
  <2>5. QED
    BY <1>1, <2>2, <2>3, <2>4 DEF TurnOK, Lands
<1>10. TurnOK'
  <2>1. \A one, other \in pending' :
          one.kind = "sell" /\ other.kind = "sell" /\ one.from = other.from => one = other
    BY <1>2 DEF TurnOK
  <2>2. QED
    BY <1>2, <1>7, <1>8, <1>9, <2>1 DEF TurnOK, Listed
<1>11. QED
  BY <1>6, <1>10

LEMMA NextTurn ==
  ASSUME TypeOK, TypeOK', ScanOK, Distinct, WaitOK, TurnOK, [Next]_vars
  PROVE  WaitOK' /\ TurnOK'
<1>1. CASE Load
  BY <1>1, JumpOut, JumpWithin DEF Load, ScanPhase
<1>2. CASE ScanBalance
  <2>1. CASE Jump("failed")
    BY <2>1, JumpOut, JumpWithin
  <2>2. CASE ~Jump("failed")
    <3>1. /\ pc = "scan" /\ pc' = "collect" /\ wallet' = makers[index]
          /\ balance' = sol[makers[index]]
          /\ UNCHANGED <<sol, tokens, with_token, pending>>
      BY <1>2, <2>2 DEF ScanBalance, GoTo, chain
    <3>2. QED
      BY <3>1 DEF WaitOK, TurnOK, Waits, ScanPhase, Scanning, Untouched
  <2>3. QED
    BY <2>1, <2>2
<1>3. CASE EndScan \/ NoBlockhash
  BY <1>3, JumpOut, JumpWithin DEF EndScan, NoBlockhash
<1>4. CASE ReadBalance
  <2>1. CASE Jump("loop")
    BY <2>1, JumpOut, JumpWithin
  <2>2. CASE Jump("amount")
    BY <1>4, <2>2, TurnGoesOn DEF ReadBalance, Jump, GoTo, chain, TurnSteps
  <2>3. QED
    BY <1>4, <2>1, <2>2 DEF ReadBalance
<1>5. CASE ReadTokens
  <2>1. CASE Jump("loop") \/ Jump("failed")
    BY <2>1, JumpOut, JumpWithin
  <2>2. CASE ~Jump("loop") /\ ~Jump("failed")
    <3>1. /\ pc = "amount" /\ pc' \in {"sell", "loop"}
          /\ amount' \in {tokens[wallet], tokens[wallet] - 1}
          /\ UNCHANGED <<sol, tokens, with_token, wallet, pending>>
      BY <1>5, <2>2 DEF ReadTokens, AfterRead, GoTo, chain
    <3>2. amount' <= tokens[wallet]
      BY <3>1 DEF TypeOK
    <3>3. CASE pc' = "sell"
      BY <3>1, <3>2, <3>3, TurnGoesOn DEF TurnSteps
    <3>4. CASE pc' = "loop"
      BY <3>1, <3>4, QuietKeeps DEF ScanPhase, Scanning, TurnSteps
    <3>5. QED
      BY <3>1, <3>3, <3>4
  <2>3. QED
    BY <2>1, <2>2
<1>6. CASE Sell
  <2>1. CASE Jump("failed")
    BY <2>1, JumpOut, JumpWithin
  <2>2. CASE Jump("proceeds")
    BY <1>6, <2>2, TurnGoesOn DEF Sell, Jump, GoTo, chain, TurnSteps
  <2>3. CASE ~Jump("failed") /\ ~Jump("proceeds")
    <3> DEFINE tx == Tx("sell", wallet, amount, Len(with_token))
    <3>1. /\ pc = "sell" /\ pc' = "proceeds" /\ pending' = pending \cup {tx}
          /\ UNCHANGED <<sol, tokens, with_token, wallet>>
      BY <1>6, <2>3 DEF Sell, Send, GoTo, chain
    <3>2. tx.from = wallet /\ tx.kind = "sell" /\ tx.amount = amount
      BY DEF Tx
    <3>3. Sells(wallet) = {} /\ amount <= tokens[wallet]
      BY <3>1 DEF TurnOK
    <3> HIDE DEF tx
    <3>4. QED
      BY <3>1, <3>2, <3>3, TurnSends DEF TurnSteps
  <2>4. QED
    BY <2>1, <2>2, <2>3
<1>7. CASE ReadProceeds
  <2>1. CASE Jump("panicked")
    BY <2>1, JumpOut, JumpWithin
  <2>2. CASE ~Jump("panicked")
    <3>1. /\ pc = "proceeds" /\ pc' = "sweep"
          /\ UNCHANGED <<sol, tokens, with_token, wallet, pending>>
      BY <1>7, <2>2 DEF ReadProceeds
    <3>2. QED
      BY <3>1, TurnGoesOn DEF TurnSteps
  <2>3. QED
    BY <2>1, <2>2
<1>8. CASE Sweep
  <2>1. CASE Jump("failed")
    BY <2>1, JumpOut, JumpWithin
  <2>2. CASE ~Jump("failed")
    <3>1. /\ pc = "sweep" /\ pc' = "loop" /\ pending' = pending \cup {Swept}
          /\ UNCHANGED <<sol, tokens, with_token, wallet>>
      BY <1>8, <2>2 DEF Sweep, Send, GoTo, chain
    <3>2. Swept.from = wallet /\ Swept.kind = "sweep"
      BY DEF Swept, Tx
    <3>3. QED
      BY <3>1, <3>2, TurnSends DEF TurnSteps
  <2>3. QED
    BY <2>1, <2>2
<1>9. CASE Drop \/ UNCHANGED vars
  <2>1. /\ pending' \subseteq pending
        /\ UNCHANGED <<pc, sol, tokens, with_token, wallet, balance, amount>>
    BY <1>9 DEF Drop, vars, config, chain
  <2>2. WaitOK'
    BY <2>1 DEF WaitOK, Waits, Listed, ScanPhase, Untouched
  <2>3. TurnOK'
    BY <2>1 DEF TurnOK, Listed, Sells
  <2>4. QED
    BY <2>2, <2>3
<1>10. QED
  BY <1>1, <1>2, <1>3, <1>4, <1>5, <1>6, <1>7, <1>8, <1>9,
     CollectKeeps, ScanTokensKeeps, PopKeepsTurn, LandKeeps DEF Next, Handler

\* Between the reading of the balance and the sweep only a sale raises it.
LEMMA NextRead ==
  ASSUME TypeOK, TypeOK', ReadOK, [Next]_vars
  PROVE  ReadOK'
<1>1. SUFFICES ASSUME pc' = "sweep", wallet' \notin sold'
               PROVE  sol'[wallet'] <= balance'
  BY DEF ReadOK
<1>2. sol[wallet] \in Nat /\ sol'[wallet] \in Nat /\ balance \in Nat
  BY DEF TypeOK
<1>3. CASE Handler
  <2>1. ReadProceeds /\ ~Jump("panicked")
    BY <1>1, <1>3 DEF Handler, Load, ScanBalance, Collect, ScanTokens, EndScan,
       NoBlockhash, Pop, ReadBalance, ReadTokens, AfterRead, Sell, ReadProceeds, Sweep,
       Jump, GoTo
  <2>2. balance' = sol[wallet] /\ sol' = sol /\ wallet' = wallet
    BY <2>1 DEF ReadProceeds
  <2>3. QED
    BY <1>2, <2>2
<1>4. CASE Land
  <2>1. PICK tx \in pending : Lands(tx)
    BY <1>4, LandMoves
  <2>2. /\ pc = "sweep" /\ wallet' = wallet /\ balance' = balance
        /\ wallet \notin sold /\ wallet \in Wallets
    BY <1>1, <2>1 DEF Lands, TypeOK
  <2>3. sol[wallet] <= balance
    BY <2>2 DEF ReadOK
  <2>4. sol'[wallet] <= sol[wallet]
    <3>1. CASE wallet # tx.from
      BY <1>2, <2>1, <2>2, <3>1 DEF Lands
    <3>2. CASE wallet = tx.from
      BY <1>1, <2>1, <2>2, <3>2 DEF Lands
    <3>3. QED
      BY <3>1, <3>2
  <2>5. QED
    BY <1>2, <2>2, <2>3, <2>4
<1>5. CASE Drop \/ UNCHANGED vars
  <2>1. UNCHANGED <<pc, wallet, balance, sol, sold>>
    BY <1>5 DEF Drop, chain, vars
  <2>2. QED
    BY <1>1, <2>1 DEF ReadOK
<1>6. QED
  BY <1>3, <1>4, <1>5 DEF Next

-----------------------------------------------------------------------------
(***************************************************************************)
(* The theorems.                                                           *)
(***************************************************************************)
LEMMA VolumeInvariant == Spec => []VolumeInv
<1>1. VolumeInv /\ [Next]_vars => VolumeInv'
  <2> SUFFICES ASSUME VolumeInv, [Next]_vars PROVE VolumeInv'
    OBVIOUS
  <2>1. TypeOK' /\ ScanOK' /\ ReadOK'
    BY NextType, NextScan, NextRead DEF VolumeInv
  <2>2. Distinct' => Distinct
    <3>1. makers' = makers
      BY HandlerKeeps, LandMoves DEF VolumeInv, Next, Lands, Drop, config, vars
    <3>2. QED
      BY <3>1 DEF Distinct
  <2>3. ASSUME Distinct' PROVE WaitOK' /\ TurnOK'
    BY <2>1, <2>2, <2>3, NextTurn DEF VolumeInv
  <2>4. QED
    BY <2>1, <2>3 DEF VolumeInv
<1>2. QED
  BY <1>1, InitVolume, PTL DEF Spec

\* Every variable keeps its shape: no balance, holding or amount of a
\* transaction goes below zero, in whatever order the chain takes them.
THEOREM TypeCorrect == Spec => []TypeOK
<1>1. VolumeInv => TypeOK
  BY DEF VolumeInv
<1>2. QED
  BY <1>1, VolumeInvariant, PTL

\* With no maker listed twice, there is at most one sale of a wallet under
\* way, and the wallet holds what it sells until that sale lands.
THEOREM NothingOversold == Spec => []SalesCovered
<1>1. VolumeInv => SalesCovered
  <2> SUFFICES ASSUME VolumeInv, Distinct, NEW w \in Wallets
               PROVE  /\ \A tx \in Sells(w) : tx.amount <= tokens[w]
                      /\ \A tx, other \in Sells(w) : tx = other
                      /\ Sells(w) # {} =>
                           \A k \in 1 .. Len(with_token) : with_token[k] # w
    BY DEF SalesCovered
  <2>1. WaitOK /\ TurnOK
    BY DEF VolumeInv
  <2>2. \A tx \in Sells(w) : tx \in pending /\ tx.kind = "sell" /\ tx.from = w
    BY DEF Sells
  <2>3. Listed(w) => Sells(w) = {}
    BY <2>1, <2>2 DEF WaitOK, Waits, Untouched
  <2>4. QED
    BY <2>1, <2>2, <2>3 DEF TurnOK, Listed
<1>2. QED
  BY <1>1, VolumeInvariant, PTL

\* A reserve of two fees is enough: a wallet that can pay for its sale when
\* the scan begins still can when its turn comes.
THEOREM SalesPaid ==
  ASSUME 2 * Fee <= Reserve
  PROVE  Spec => SalePaid
<1>1. ASSUME VolumeInv, [Next]_vars, Distinct, NEW w \in Wallets, sol[w] >= Fee,
             pc \in Scanning \/ \E k \in 1 .. Len(with_token) : with_token[k] = w
      PROVE  sol'[w] >= Fee
  <2>1. CASE Handler \/ Drop \/ UNCHANGED vars
    <3>1. sol' = sol
      BY <2>1, HandlerKeeps DEF Drop, chain, vars
    <3>2. QED
      BY <1>1, <3>1
  <2>2. CASE Land
    <3>1. PICK tx \in pending : Lands(tx)
      BY <1>1, <2>2, LandMoves DEF VolumeInv
    <3>2. CASE tx.from # w
      BY <1>1, <3>1, <3>2 DEF Lands
    <3>3. CASE tx.from = w
      <4>1. Untouched(w)
        BY <1>1 DEF VolumeInv, WaitOK, Waits, ScanPhase, Listed
      <4>2. tx.kind = "collect" /\ sol[tx.from] = tx.amount + Reserve
        BY <3>3, <4>1 DEF Untouched
      <4>3. QED
        BY <3>1, <3>3, <4>2 DEF Lands
    <3>4. QED
      BY <3>2, <3>3
  <2>3. QED
    BY <1>1, <2>1, <2>2 DEF Next
<1>2. VolumeInv /\ [Next]_vars =>
        (Distinct => \A w \in Wallets :
           (/\ sol[w] >= Fee
            /\ pc \in Scanning \/ \E k \in 1 .. Len(with_token) : with_token[k] = w)
           => sol'[w] >= Fee)
  BY <1>1
<1>3. QED
  BY <1>2, VolumeInvariant, PTL DEF Spec, SalePaid

\* The loop goes on after a sweep only when a sale of that wallet has gone
\* through since its balance was read, for any list of makers, whatever a sale
\* brings and whatever an account must hold.
THEOREM SweepsFollowSales == Spec => SweepNeedsSale
<1>1. VolumeInv /\ [Next]_vars =>
        (pc = "sweep" /\ pc' = "loop" => wallet \in sold)
  <2> SUFFICES ASSUME VolumeInv, [Next]_vars, pc = "sweep", pc' = "loop",
                      wallet \notin sold
               PROVE  FALSE
    OBVIOUS
  <2>1. Sweep
    <3>1. ~(Land \/ Drop \/ UNCHANGED vars)
      BY LandMoves DEF VolumeInv, Lands, Drop, vars
    <3>2. QED
      BY <3>1 DEF Next, Handler, Load, ScanBalance, Collect, ScanTokens, EndScan,
           NoBlockhash, Pop, ReadBalance, ReadTokens, Sell, ReadProceeds
  <2>2. Covered(Swept)
    BY <2>1 DEF Sweep, Send, Jump, GoTo
  <2>3. Swept.kind = "sweep" /\ Swept.from = wallet /\ Swept.amount = balance
    BY DEF Swept, Tx
  <2>4. \/ sol[wallet] - balance - Fee = 0
        \/ sol[wallet] - balance - Fee >= RentMin
    BY <2>2, <2>3 DEF Covered
  <2>5. sol[wallet] <= balance
    BY DEF VolumeInv, ReadOK
  <2>6. /\ sol[wallet] \in Nat /\ balance \in Nat
        /\ Fee \in Nat /\ Fee > 0 /\ RentMin \in Nat
    BY VolumeAssumption DEF VolumeInv, TypeOK
  <2>7. QED
    BY <2>4, <2>5, <2>6
<1>2. QED
  BY <1>1, VolumeInvariant, PTL DEF Spec, SweepNeedsSale
=============================================================================
