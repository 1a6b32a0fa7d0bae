------------------------ MODULE EventPipelineProofs ------------------------
(***************************************************************************)
(* Proofs about EventPipeline, for every set of transactions and every     *)
(* capacity of the two queues, and about the session that spawns the       *)
(* listener, for any tasks and tries.                                      *)
(***************************************************************************)
EXTENDS EventPipeline, GeyserSession, SequenceTheorems, TLAPS

(***************************************************************************)
(* The inductive invariant.  The carrier holds events only between Match   *)
(* and Publish, and then exactly those of the transaction in hand.         *)
(***************************************************************************)
CarrierOK ==
  /\ pc[0] \notin {"polling"} => current[0] \in Tx
  /\ pc[0] # "publishing" => carrier[0] = {}
  /\ pc[0] = "publishing" => /\ carrier[0] = Decoded(current[0])
                             /\ ~Fatal(current[0])
  /\ pc[0] \in Ended => Fatal(current[0])

PipelineInv == TypeOK /\ CarrierOK

\* The only worker.
LEMMA OneWorker == Workers = {0}
BY DEF Workers

LEMMA DecodedType ==
  ASSUME NEW tx \in Tx
  PROVE  Decoded(tx) \in SUBSET Event
<1>1. tx.kind.items \in Seq(Items)
  BY PipelineAssumption DEF Tx
<1>2. QED
  BY <1>1 DEF Decoded, Tx, Event

LEMMA OutcomeType ==
  ASSUME NEW tx \in Tx
  PROVE  Outcome(tx) \in Ended \cup {"publishing"}
<1>1. tx.kind.envelope \in {"absent", "rejected", "inverted", "ok"}
  BY PipelineAssumption DEF Tx, Envelopes
<1>2. QED
  BY <1>1, Zenon DEF Outcome, Ended

LEMMA InitPipeline == Init => PipelineInv
<1> SUFFICES ASSUME Init PROVE PipelineInv
  OBVIOUS
<1>1. arrived \in 0 .. MaxUpdates
  BY PipelineAssumption DEF Init
<1>2. /\ queue \in Seq(Tx) /\ Len(queue) <= QueueCap
      /\ result_queue \in Seq(SUBSET Event) /\ Len(result_queue) <= ResultCap
      /\ consumed \in Seq(SUBSET Event)
  BY PipelineAssumption DEF Init
<1>3. QED
  BY <1>1, <1>2 DEF Init, PipelineInv, TypeOK, CarrierOK, Workers, Ended

LEMMA NextPipeline ==
  ASSUME PipelineInv, [Next]_vars
  PROVE  PipelineInv'
<1> USE DEF PipelineInv
<1> USE OneWorker, PipelineAssumption
<1>1. ASSUME NEW kind \in Kinds, Receive(kind)
      PROVE  PipelineInv'
  <2>1. arrived' \in 1 .. MaxUpdates
    BY <1>1 DEF Receive, TypeOK
  <2>2. [id |-> arrived', kind |-> kind] \in Tx
    BY <2>1 DEF Tx
  <2>3. queue' \in Seq(Tx) /\ Len(queue') <= QueueCap
    BY <1>1, <2>2 DEF Receive, TypeOK
  <2>4. QED
    BY <1>1, <2>1, <2>3 DEF Receive, TypeOK, CarrierOK
<1>2. CASE StopStreaming
  BY <1>2 DEF StopStreaming, TypeOK, CarrierOK
<1>3. CASE Pop(0)
  <2>1. /\ Head(queue) \in Tx
        /\ queue' \in Seq(Tx) /\ Len(queue') <= QueueCap
    BY <1>3 DEF Pop, TypeOK
  <2>2. TypeOK'
    BY <1>3, <2>1 DEF Pop, TypeOK
  <2>3. CarrierOK'
    BY <1>3, <2>1 DEF Pop, TypeOK, CarrierOK, Ended
  <2>4. QED
    BY <2>2, <2>3
<1>4. CASE Match(0)
  <2>1. current[0] \in Tx /\ carrier[0] = {}
    BY <1>4 DEF Match, CarrierOK
  <2>2. Outcome(current[0]) \in Ended \cup {"publishing"}
    BY <2>1, OutcomeType
  <2>3. carrier' \in [Workers -> SUBSET Event]
    BY <1>4, <2>1, DecodedType DEF Match, TypeOK
  <2>4. TypeOK'
    BY <1>4, <2>2, <2>3 DEF Match, TypeOK
  <2>5. CarrierOK'
    BY <1>4, <2>1, <2>2 DEF Match, TypeOK, CarrierOK, Fatal, Ended
  <2>6. QED
    BY <2>4, <2>5
<1>5. CASE Publish(0)
  <2>1. /\ result_queue' \in Seq(SUBSET Event)
        /\ Len(result_queue') <= ResultCap
    <3>1. carrier[0] \in SUBSET Event
      BY DEF TypeOK
    <3>2. QED
      BY <1>5, <3>1 DEF Publish, TypeOK
  <2>2. TypeOK'
    BY <1>5, <2>1 DEF Publish, TypeOK
  <2>3. CarrierOK'
    BY <1>5 DEF Publish, TypeOK, CarrierOK, Ended
  <2>4. QED
    BY <2>2, <2>3
<1>6. CASE Consume
  <2>1. /\ Head(result_queue) \in SUBSET Event
        /\ result_queue' \in Seq(SUBSET Event)
        /\ Len(result_queue') <= ResultCap
    BY <1>6 DEF Consume, TypeOK
  <2>2. consumed' \in Seq(SUBSET Event)
    BY <1>6, <2>1 DEF Consume, TypeOK
  <2>3. QED
    BY <1>6, <2>1, <2>2 DEF Consume, TypeOK, CarrierOK
<1>7. CASE UNCHANGED vars
  BY <1>7 DEF vars, TypeOK, CarrierOK
<1>8. QED
  BY <1>1, <1>2, <1>3, <1>4, <1>5, <1>6, <1>7 DEF Next, Listener

LEMMA PipelineInvariant == Spec => []PipelineInv
BY InitPipeline, NextPipeline, PTL DEF Spec

\* The two queues never exceed their capacities and every variable keeps its
\* shape.
THEOREM TypeCorrect == Spec => []TypeOK
<1>1. PipelineInv => TypeOK
  BY DEF PipelineInv
<1>2. QED
  BY <1>1, PipelineInvariant, PTL

\* A transaction kills the listener for a reason that DeadOnlyByFatal names.
LEMMA FatalReason ==
  ASSUME NEW tx \in Tx, Fatal(tx)
  PROVE  tx.kind.envelope # "ok" \/ "short" \in Range(tx.kind.items)
<1> SUFFICES ASSUME tx.kind.envelope = "ok"
             PROVE  "short" \in Range(tx.kind.items)
  OBVIOUS
<1> DEFINE short == \E i \in 1 .. Len(tx.kind.items) :
                      tx.kind.items[i] = "short" /\ Reaches(tx.kind.items, i)
<1>1. Outcome(tx) = IF short THEN "panicked" ELSE "publishing"
  BY Zenon DEF Outcome
<1>2. short
  <2> HIDE DEF short
  <2>1. Outcome(tx) # "publishing"
    BY DEF Fatal, Ended
  <2>2. QED
    BY <1>1, <2>1
<1>3. tx.kind.items \in Seq(Items)
  BY PipelineAssumption DEF Tx
<1>4. QED
  BY <1>2, <1>3 DEF Range

\* Whatever arrives, the listener dies only of a transaction that does not
\* convert, of a line that breaks parse_invoke or of a short data line: data
\* lines that merely do not decode never cost the thread.
THEOREM OnlyFatalKills == Spec => []DeadOnlyByFatal
<1>1. PipelineInv => DeadOnlyByFatal
  <2> SUFFICES ASSUME PipelineInv, pc[0] \in Ended
               PROVE  \/ current[0].kind.envelope # "ok"
                      \/ "short" \in Range(current[0].kind.items)
    BY OneWorker DEF DeadOnlyByFatal
  <2>1. current[0] \in Tx /\ Fatal(current[0])
    BY DEF PipelineInv, CarrierOK, Ended
  <2>2. QED
    BY <2>1, FatalReason
<1>2. QED
  BY <1>1, PipelineInvariant, PTL

-----------------------------------------------------------------------------
(***************************************************************************)
(* The refinement.  Receive is Offer, Publish is Handle, Consume is Take,  *)
(* and a Match that ends the thread is Die; Pop and every other Match only *)
(* move a transaction within `pending`.                                    *)
(***************************************************************************)
LEMMA WaitingType ==
  ASSUME PipelineInv
  PROVE  /\ InHand \in Seq(Tx) /\ Len(InHand) <= 1
         /\ Waiting \in Seq(Tx)
         /\ Len(Waiting) = Len(InHand) + Len(queue)
<1>1. InHand \in Seq(Tx) /\ Len(InHand) <= 1
  BY DEF PipelineInv, CarrierOK, InHand
<1>2. queue \in Seq(Tx)
  BY DEF PipelineInv, TypeOK
<1>3. QED
  BY <1>1, <1>2, ConcatProperties DEF Waiting

\* A prefix of at most one element in front of a queue.
LEMMA Hold ==
  ASSUME NEW S, NEW x \in S, NEW q \in Seq(S)
  PROVE  /\ <<x>> \o q \in Seq(S)
         /\ <<x>> \o q # <<>>
         /\ Head(<<x>> \o q) = x
         /\ Tail(<<x>> \o q) = q
<1>1. /\ <<x>> \o q \in Seq(S)
      /\ Len(<<x>> \o q) = 1 + Len(q)
      /\ \A i \in 1 .. Len(q) : (<<x>> \o q)[i + 1] = q[i]
      /\ (<<x>> \o q)[1] = x
  OBVIOUS
<1>2. <<x>> \o q # <<>>
  BY <1>1
<1>3. Tail(<<x>> \o q) = q
  <2>1. /\ Tail(<<x>> \o q) \in Seq(S)
        /\ Len(Tail(<<x>> \o q)) = Len(q)
        /\ \A i \in 1 .. Len(q) : Tail(<<x>> \o q)[i] = q[i]
    BY <1>1, <1>2, HeadTailProperties
  <2>2. QED
    BY <2>1, SeqEqual
<1>4. QED
  BY <1>1, <1>2, <1>3

LEMMA Unpop ==
  ASSUME NEW S, NEW q \in Seq(S), q # <<>>
  PROVE  <<Head(q)>> \o Tail(q) = q
<1>1. Head(q) \in S /\ Tail(q) \in Seq(S)
  BY HeadTailProperties
<1>2. /\ <<Head(q)>> \o Tail(q) \in Seq(S)
      /\ Len(<<Head(q)>> \o Tail(q)) = Len(q)
      /\ \A i \in 1 .. Len(q) : (<<Head(q)>> \o Tail(q))[i] = q[i]
  BY <1>1, HeadTailProperties
<1>3. QED
  BY <1>2, SeqEqual

LEMMA AppendBehind ==
  ASSUME NEW S, NEW s \in Seq(S), NEW q \in Seq(S), NEW x \in S
  PROVE  s \o Append(q, x) = Append(s \o q, x)
<1>1. Append(q, x) = q \o <<x>> /\ Append(s \o q, x) = (s \o q) \o <<x>>
  BY AppendIsConcat, ConcatProperties
<1>2. QED
  BY <1>1, ConcatAssociative

\* What each step does to the waiting transactions.
LEMMA PopKeeps ==
  ASSUME PipelineInv, Pop(0)
  PROVE  Waiting' = Waiting
<1>1. queue \in Seq(Tx) /\ queue # <<>>
  BY DEF PipelineInv, TypeOK, Pop
<1>2. InHand = <<>> /\ InHand' = <<Head(queue)>> /\ queue' = Tail(queue)
  BY OneWorker DEF PipelineInv, TypeOK, Pop, InHand
<1>3. QED
  BY <1>1, <1>2, Unpop, ConcatEmptySeq DEF Waiting

LEMMA MatchMoves ==
  ASSUME PipelineInv, Match(0)
  PROVE  /\ Waiting # <<>> /\ Head(Waiting) = current[0]
         /\ Fatal(current[0]) => Waiting' = Tail(Waiting) /\ pc'[0] \in Ended
         /\ ~Fatal(current[0]) => Waiting' = Waiting /\ pc'[0] = "publishing"
<1>1. queue \in Seq(Tx) /\ current[0] \in Tx
  BY DEF PipelineInv, TypeOK, CarrierOK, Match
<1>2. InHand = <<current[0]>>
  BY DEF Match, InHand
<1>3. pc'[0] = Outcome(current[0]) /\ UNCHANGED <<queue, current>>
  BY OneWorker DEF Match, PipelineInv, TypeOK
<1>4. Fatal(current[0]) => InHand' = <<>> /\ pc'[0] \in Ended
  BY <1>3 DEF Fatal, InHand, Ended
<1>5. ~Fatal(current[0]) => InHand' = InHand /\ pc'[0] = "publishing"
  BY <1>1, <1>2, <1>3, OutcomeType DEF Fatal, InHand
<1>6. /\ Waiting # <<>> /\ Head(Waiting) = current[0]
      /\ Tail(Waiting) = queue
  BY <1>1, <1>2, Hold DEF Waiting
<1>7. Waiting' = InHand' \o queue
  BY <1>3 DEF Waiting
<1>8. <<>> \o queue = queue
  BY <1>1, ConcatEmptySeq
<1>9. QED
  BY <1>4, <1>5, <1>6, <1>7, <1>8 DEF Waiting

LEMMA PublishRemoves ==
  ASSUME PipelineInv, Publish(0)
  PROVE  /\ Waiting # <<>> /\ Head(Waiting) = current[0]
         /\ Waiting' = Tail(Waiting)
         /\ ~Fatal(current[0]) /\ carrier[0] = Decoded(current[0])
         /\ pc'[0] = "polling"
<1>1. queue \in Seq(Tx) /\ current[0] \in Tx
  BY DEF PipelineInv, TypeOK, CarrierOK, Publish
<1>2. InHand = <<current[0]>>
  BY DEF Publish, InHand
<1>3. pc'[0] = "polling" /\ InHand' = <<>> /\ queue' = queue
  BY OneWorker DEF Publish, PipelineInv, TypeOK, InHand
<1>4. QED
  BY <1>1, <1>2, <1>3, Hold, ConcatEmptySeq
     DEF Waiting, Publish, PipelineInv, CarrierOK

LEMMA ReceiveAppends ==
  ASSUME PipelineInv, NEW kind \in Kinds, Receive(kind)
  PROVE  /\ Len(queue) < QueueCap =>
              Waiting' = Append(Waiting, [id |-> arrived + 1, kind |-> kind])
         /\ ~(Len(queue) < QueueCap) => Waiting' = Waiting
<1>1. InHand \in Seq(Tx) /\ queue \in Seq(Tx) /\ InHand' = InHand
  BY WaitingType DEF PipelineInv, TypeOK, Receive, InHand
<1>2. [id |-> arrived + 1, kind |-> kind] \in Tx
  BY PipelineAssumption DEF Receive, PipelineInv, TypeOK, Tx
<1>3. QED
  BY <1>1, <1>2, AppendBehind DEF Receive, Waiting

LEMMA OthersKeep ==
  ASSUME StopStreaming \/ Consume \/ UNCHANGED vars
  PROVE  Waiting' = Waiting /\ UNCHANGED <<arrived, pc>>
BY Zenon DEF StopStreaming, Consume, vars, Waiting, InHand

\* The feed is alive as long as its only listener is.
LEMMA AliveIs ==
  /\ Alive = (pc[0] \notin Ended)
  /\ Alive' = (pc'[0] \notin Ended)
BY OneWorker DEF Alive, Ended

LEMMA RefineInit == Init => Feed!Init
<1> SUFFICES ASSUME Init PROVE Feed!Init
  OBVIOUS
<1>1. pc[0] = "polling"
  BY OneWorker DEF Init
<1>2. InHand = <<>> /\ Alive = TRUE
  BY <1>1, AliveIs DEF InHand, Ended
<1>3. Waiting = <<>>
  BY <1>2 DEF Init, Waiting
<1>4. QED
  BY <1>2, <1>3, Zenon DEF Init, Feed!Init

LEMMA RefineNext ==
  ASSUME PipelineInv, [Next]_vars
  PROVE  [Feed!Next]_(Feed!feed)
<1> USE DEF Feed!Next, Feed!feed
<1>1. ASSUME NEW kind \in Kinds, Receive(kind)
      PROVE  Feed!Offer(kind)
  <2>1. /\ Len(Waiting) \in Len(queue) .. (Len(queue) + 1)
        /\ Len(queue) \in 0 .. QueueCap
    BY WaitingType, PipelineAssumption DEF PipelineInv, TypeOK
  <2>2. /\ arrived' = arrived + 1 /\ UNCHANGED result_queue
        /\ Alive' = Alive
    BY <1>1, AliveIs DEF Receive
  <2>3. CASE Len(queue) < QueueCap
    <3>1. /\ Waiting' = Append(Waiting, [id |-> arrived', kind |-> kind])
          /\ Len(Waiting) <= QueueCap
      BY <1>1, <2>1, <2>2, <2>3, ReceiveAppends, PipelineAssumption
    <3>2. QED
      BY <2>2, <3>1 DEF Feed!Offer
  <2>4. CASE ~(Len(queue) < QueueCap)
    <3>1. Waiting' = Waiting
      BY <1>1, <2>4, ReceiveAppends
    <3>2. Len(Waiting) >= QueueCap
      BY <2>1, <2>4, PipelineAssumption
    <3>3. QED
      BY <2>2, <3>1, <3>2 DEF Feed!Offer
  <2>5. QED
    BY <2>3, <2>4
<1>2. CASE Pop(0)
  <2>1. Alive' = Alive /\ UNCHANGED <<arrived, result_queue>>
    BY <1>2, OneWorker, AliveIs DEF Pop, Ended, PipelineInv, TypeOK
  <2>2. QED
    BY <1>2, <2>1, PopKeeps
<1>3. CASE Match(0)
  <2>1. Alive = TRUE /\ UNCHANGED <<arrived, result_queue>>
    BY <1>3, AliveIs DEF Match, Ended
  <2>2. CASE Fatal(current[0])
    <3>1. /\ Waiting # <<>> /\ Fatal(Head(Waiting))
          /\ Waiting' = Tail(Waiting) /\ Alive' = FALSE
      BY <1>3, <2>2, MatchMoves, AliveIs
    <3>2. Feed!Die
      BY <2>1, <3>1 DEF Feed!Die
    <3>3. QED
      BY <3>2
  <2>3. CASE ~Fatal(current[0])
    BY <1>3, <2>1, <2>3, MatchMoves, AliveIs DEF Ended
  <2>4. QED
    BY <2>2, <2>3
<1>4. CASE Publish(0)
  <2>1. Alive = TRUE /\ Alive' = Alive /\ arrived' = arrived
    BY <1>4, AliveIs, PublishRemoves DEF Publish, Ended
  <2>2. /\ Waiting # <<>> /\ ~Fatal(Head(Waiting))
        /\ Waiting' = Tail(Waiting)
        /\ carrier[0] = Decoded(Head(Waiting))
    BY <1>4, PublishRemoves
  <2>3. Feed!Handle
    BY <1>4, <2>1, <2>2 DEF Feed!Handle, Publish
  <2>4. QED
    BY <2>3
<1>5. CASE Consume
  <2>1. Feed!Take
    BY <1>5, OthersKeep, AliveIs DEF Feed!Take, Consume
  <2>2. QED
    BY <2>1
<1>6. CASE StopStreaming \/ UNCHANGED vars
  BY <1>6, OthersKeep, AliveIs DEF StopStreaming, vars
<1>7. QED
  BY <1>1, <1>2, <1>3, <1>4, <1>5, <1>6, OneWorker DEF Next, Listener

\* The pipeline is a lossy first-in first-out feed, whatever the capacities
\* of its queues and whatever arrives.
THEOREM Refinement == Spec => ImplementsFeed
<1>1. Init => Feed!Init
  BY RefineInit
<1>2. PipelineInv /\ [Next]_vars => [Feed!Next]_(Feed!feed)
  BY RefineNext
<1>3. QED
  BY <1>1, <1>2, PipelineInvariant, PTL DEF Spec, ImplementsFeed, Feed!Spec

-----------------------------------------------------------------------------
(***************************************************************************)
(* Order.  The transactions waiting are numbered in the order of arrival,  *)
(* and all of them after those whose batches have come out.                *)
(***************************************************************************)
WaitingInOrder ==
  \A k \in 1 .. Len(Waiting) :
    /\ Waiting[k].id <= arrived
    /\ \A l \in 1 .. Len(Waiting) : k < l => Waiting[k].id < Waiting[l].id

PublishedFirst ==
  \A i \in 1 .. Len(Published) : \A e \in Published[i] :
    /\ e.id <= arrived
    /\ \A k \in 1 .. Len(Waiting) : e.id < Waiting[k].id

OrderInv == InOrder /\ WaitingInOrder /\ PublishedFirst

LEMMA PublishedType ==
  ASSUME PipelineInv
  PROVE  Published \in Seq(SUBSET Event)
BY ConcatProperties DEF PipelineInv, TypeOK, Published

\* A step adds at most one transaction at the end of those waiting, or takes
\* the first one away and adds at most its batch to those published.
Arrives ==
  /\ Published' = Published
  /\ \E tx \in Tx : Waiting' = Append(Waiting, tx) /\ tx.id = arrived + 1
  /\ arrived' = arrived + 1

Leaves ==
  /\ Waiting # <<>> /\ Waiting' = Tail(Waiting)
  /\ \/ Published' = Published
     \/ Published' = Append(Published, Decoded(Head(Waiting)))
  /\ arrived' = arrived

Stays ==
  /\ Waiting' = Waiting /\ Published' = Published
  /\ arrived' \in {arrived, arrived + 1}

LEMMA StepShape ==
  ASSUME PipelineInv, [Next]_vars
  PROVE  Arrives \/ Leaves \/ Stays
<1>1. ASSUME NEW kind \in Kinds, Receive(kind)
      PROVE  Arrives \/ Stays
  <2>1. Published' = Published /\ arrived' = arrived + 1
    BY <1>1 DEF Receive, Published
  <2>2. [id |-> arrived + 1, kind |-> kind] \in Tx
    BY <1>1, PipelineAssumption DEF Receive, PipelineInv, TypeOK, Tx
  <2>3. QED
    BY <1>1, <2>1, <2>2, ReceiveAppends DEF Arrives, Stays
<1>2. CASE Pop(0)
  BY <1>2, PopKeeps DEF Pop, Stays, Published
<1>3. CASE Match(0)
  BY <1>3, MatchMoves DEF Match, Stays, Leaves, Published
<1>4. CASE Publish(0)
  <2>1. result_queue' \in {result_queue, Append(result_queue, carrier[0])}
    BY <1>4 DEF Publish
  <2>2. /\ consumed \in Seq(SUBSET Event) /\ result_queue \in Seq(SUBSET Event)
        /\ carrier[0] \in SUBSET Event
    BY OneWorker DEF PipelineInv, TypeOK
  <2>3. consumed \o Append(result_queue, carrier[0]) = Append(Published, carrier[0])
    BY <2>2, AppendBehind DEF Published
  <2>4. Published' \in {Published, Append(Published, carrier[0])}
    BY <1>4, <2>1, <2>3 DEF Publish, Published
  <2>5. QED
    BY <1>4, <2>4, PublishRemoves DEF Publish, Leaves
<1>5. CASE Consume
  <2>1. Published' = Published
    <3>1. /\ consumed \in Seq(SUBSET Event)
          /\ result_queue \in Seq(SUBSET Event) /\ result_queue # <<>>
      BY <1>5 DEF PipelineInv, TypeOK, Consume
    <3>2. Head(result_queue) \in SUBSET Event /\ Tail(result_queue) \in Seq(SUBSET Event)
      BY <3>1, HeadTailProperties
    <3>3. Append(consumed, Head(result_queue)) = consumed \o <<Head(result_queue)>>
      BY <3>1, <3>2, AppendIsConcat
    <3>4. <<Head(result_queue)>> \in Seq(SUBSET Event)
      BY <3>2
    <3>5. Append(consumed, Head(result_queue)) \o Tail(result_queue)
            = consumed \o (<<Head(result_queue)>> \o Tail(result_queue))
      BY <3>1, <3>2, <3>3, <3>4, ConcatAssociative
    <3>6. QED
      BY <1>5, <3>1, <3>5, Unpop DEF Consume, Published
  <2>2. QED
    BY <1>5, <2>1, OthersKeep DEF Stays
<1>6. CASE StopStreaming \/ UNCHANGED vars
  BY <1>6, OthersKeep DEF StopStreaming, vars, Stays, Published
<1>7. QED
  BY <1>1, <1>2, <1>3, <1>4, <1>5, <1>6, OneWorker DEF Next, Listener

LEMMA NextOrder ==
  ASSUME PipelineInv, OrderInv, [Next]_vars
  PROVE  OrderInv'
<1>1. /\ Waiting \in Seq(Tx)
      /\ Published \in Seq(SUBSET Event)
      /\ arrived \in Nat
  BY WaitingType, PublishedType, PipelineAssumption DEF PipelineInv, TypeOK
<1>2. \A tx \in Tx : tx.id \in Nat
  BY DEF Tx
<1>3. \A e \in Event : e.id \in Nat
  BY DEF Event
<1>4. CASE Stays
  <2>1. InOrder'
    BY <1>4 DEF Stays, OrderInv, InOrder
  <2>2. WaitingInOrder'
    BY <1>1, <1>2, <1>4 DEF Stays, OrderInv, WaitingInOrder
  <2>3. PublishedFirst'
    BY <1>1, <1>3, <1>4 DEF Stays, OrderInv, PublishedFirst
  <2>4. QED
    BY <2>1, <2>2, <2>3 DEF OrderInv
<1>5. CASE Arrives
  <2>1. PICK tx \in Tx : Waiting' = Append(Waiting, tx) /\ tx.id = arrived + 1
    BY <1>5 DEF Arrives
  <2>2. InOrder'
    BY <1>5 DEF Arrives, OrderInv, InOrder
  <2>3. WaitingInOrder'
    BY <1>1, <1>2, <1>5, <2>1, AppendProperties
       DEF Arrives, OrderInv, WaitingInOrder
  <2>4. PublishedFirst'
    BY <1>1, <1>3, <1>5, <2>1, AppendProperties
       DEF Arrives, OrderInv, PublishedFirst
  <2>5. QED
    BY <2>2, <2>3, <2>4 DEF OrderInv
<1>6. CASE Leaves
  <2>1. /\ Waiting # <<>> /\ Waiting' = Tail(Waiting) /\ arrived' = arrived
        /\ Len(Waiting') = Len(Waiting) - 1
        /\ \A k \in 1 .. Len(Waiting') : Waiting'[k] = Waiting[k + 1]
        /\ Head(Waiting) = Waiting[1] /\ Head(Waiting) \in Tx
        /\ Len(Waiting) \in Nat \ {0}
    BY <1>1, <1>6, HeadTailProperties DEF Leaves
  <2>2. WaitingInOrder'
    BY <1>1, <1>2, <2>1 DEF OrderInv, WaitingInOrder
  <2>3. CASE Published' = Published
    <3>1. InOrder'
      BY <2>3 DEF OrderInv, InOrder
    <3>2. PublishedFirst'
      BY <1>1, <1>3, <2>1, <2>3 DEF OrderInv, PublishedFirst
    <3>3. QED
      BY <2>2, <3>1, <3>2 DEF OrderInv
  <2>4. CASE Published' = Append(Published, Decoded(Head(Waiting)))
    <3> DEFINE b == Decoded(Head(Waiting))
    <3>1. /\ b \in SUBSET Event
          /\ \A e \in b : e.id = Waiting[1].id
      BY <2>1, DecodedType DEF Decoded
    <3> HIDE DEF b
    <3>2. /\ Len(Published') = Len(Published) + 1
          /\ \A i \in 1 .. Len(Published) : Published'[i] = Published[i]
          /\ Published'[Len(Published) + 1] = b
          /\ Len(Published) \in Nat
      BY <1>1, <2>4, <3>1, AppendProperties DEF b
    <3>3. \A i \in 1 .. Len(Published) : \A e \in Published[i] :
            e.id < Waiting[1].id
      BY <2>1 DEF OrderInv, PublishedFirst
    <3>4. InOrder'
      BY <3>1, <3>2, <3>3 DEF OrderInv, InOrder
    <3>5. \A k \in 2 .. Len(Waiting) : Waiting[1].id < Waiting[k].id
      BY <2>1 DEF OrderInv, WaitingInOrder
    <3>6. Waiting[1].id <= arrived
      BY <2>1 DEF OrderInv, WaitingInOrder
    <3>7. PublishedFirst'
      BY <2>1, <3>1, <3>2, <3>5, <3>6 DEF OrderInv, PublishedFirst
    <3>8. QED
      BY <2>2, <3>4, <3>7 DEF OrderInv
  <2>5. QED
    BY <1>6, <2>3, <2>4 DEF Leaves
<1>7. QED
  BY <1>4, <1>5, <1>6, StepShape

LEMMA InitOrder == Init => OrderInv
<1> SUFFICES ASSUME Init PROVE OrderInv
  OBVIOUS
<1>1. InHand = <<>>
  BY OneWorker DEF Init, InHand
<1>2. Waiting = <<>> /\ Published = <<>>
  BY <1>1 DEF Init, Waiting, Published
<1>3. Len(Waiting) = 0 /\ Len(Published) = 0
  BY <1>2
<1>4. QED
  BY <1>3 DEF OrderInv, InOrder, WaitingInOrder, PublishedFirst

\* Batches leave in the order of arrival and are never mixed or repeated,
\* because there is one listener and it empties its carrier each time.
THEOREM OrderKept == Spec => []InOrder
<1>1. OrderInv => InOrder
  BY DEF OrderInv
<1>2. PipelineInv /\ OrderInv /\ [Next]_vars => OrderInv'
  BY NextOrder
<1>3. QED
  BY <1>1, <1>2, InitOrder, PipelineInvariant, PTL DEF Spec

-----------------------------------------------------------------------------
(***************************************************************************)
(* The session.  Everything above has one listener feeding one caller.     *)
(* That a process never has two, however often its tasks ask for a stream, *)
(* is a matter of GeyserSession: its threads run the listener above, so    *)
(* that the order of the batches rests on both.                            *)
(***************************************************************************)

\* The provider is installed once, by the first task that begins; only that
\* task ever gets beyond it, and what ends its session ends all sessions.
Chosen ==
  /\ provider = FALSE => /\ \A t \in Tasks : task[t] = "idle"
                         /\ listeners = {} /\ ~refused
  /\ \A t, u \in Tasks :
       task[t] \in Working /\ task[u] \in Working => t = u
  /\ \A t \in Tasks : task[t] \in {"connecting", "connected"} =>
       /\ listeners = {} /\ ~refused
       /\ \A u \in Tasks : task[u] # "returned"
  /\ \A t \in Tasks : task[t] # "idle" => tries[t] >= 1
  /\ \A a, b \in listeners : a = b

SessionInv == SessionTypeOK /\ Chosen

LEMMA StepsDiffer ==
  /\ Working = {"connecting", "connected", "streaming"}
  /\ Over = {"failed", "returned", "panicked"}
BY DEF Working, Over

LEMMA InitSession ==
  ASSUME SessionInit
  PROVE  SessionInv
<1>1. /\ provider = FALSE /\ refused = FALSE /\ listeners = {}
      /\ task \in [Tasks -> {"idle"}] /\ tries \in [Tasks -> 0 .. MaxTries]
  BY SessionAssumption DEF SessionInit
<1>2. SessionTypeOK
  BY <1>1 DEF SessionTypeOK
<1>3. Chosen
  BY <1>1, StepsDiffer DEF Chosen
<1> QED
  BY <1>2, <1>3 DEF SessionInv

\* The types of a step that moves one task.
LEMMA GotoType ==
  ASSUME SessionInv, NEW t \in Tasks,
         NEW step \in {"idle"} \cup Working \cup Over,
         Goto(t, step)
  PROVE  /\ task' \in [Tasks -> {"idle"} \cup Working \cup Over]
         /\ task'[t] = step
         /\ \A u \in Tasks : u # t => task'[u] = task[u]
BY DEF SessionInv, SessionTypeOK, Goto

LEMMA InstallKeeps ==
  ASSUME SessionInv, NEW t \in Tasks, Install(t)
  PROVE  SessionInv'
<1> DEFINE step == IF provider THEN "panicked" ELSE "connecting"
<1>1. step \in {"idle"} \cup Working \cup Over
  BY StepsDiffer
<1>2. Goto(t, step)
  BY DEF Install
<1>3. /\ task' \in [Tasks -> {"idle"} \cup Working \cup Over]
      /\ task'[t] = step
      /\ \A u \in Tasks : u # t => task'[u] = task[u]
  BY <1>1, <1>2, GotoType
<1>4. /\ tries \in [Tasks -> 0 .. MaxTries] /\ MaxTries \in Nat
      /\ tries' = [tries EXCEPT ![t] = @ + 1] /\ tries[t] < MaxTries
      /\ provider' = TRUE /\ UNCHANGED <<listeners, refused>>
  BY SessionAssumption DEF SessionInv, SessionTypeOK, Install
<1>5. /\ tries' \in [Tasks -> 0 .. MaxTries] /\ tries'[t] >= 1
      /\ \A u \in Tasks : u # t => tries'[u] = tries[u]
  BY <1>4
<1>6. SessionTypeOK'
  BY <1>3, <1>4, <1>5 DEF SessionInv, SessionTypeOK, Thread,
     Working, Over
<1>7. CASE provider
  <2>1. task'[t] = "panicked"
    BY <1>3, <1>7
  <2>2. Chosen'
    BY <1>3, <1>4, <1>5, <2>1, StepsDiffer DEF SessionInv, Chosen, Working
  <2> QED
    BY <1>6, <2>2 DEF SessionInv
<1>8. CASE ~provider
  <2>1. /\ provider = FALSE /\ task'[t] = "connecting"
        /\ \A u \in Tasks : u # t => task'[u] = "idle"
        /\ listeners' = {} /\ ~refused'
    BY <1>3, <1>4, <1>8 DEF SessionInv, Chosen, SessionTypeOK
  <2>2. Chosen'
    BY <1>4, <1>5, <2>1, StepsDiffer DEF Chosen, Working
  <2> QED
    BY <1>6, <2>2 DEF SessionInv
<1> QED
  BY <1>7, <1>8

\* A task that works goes on, fails or ends its stream.
LEMMA WorkKeeps ==
  ASSUME SessionInv, NEW t \in Tasks, task[t] \in Working,
         NEW step \in Working \cup Over,
         Goto(t, step), UNCHANGED <<provider, tries>>,
         refused' \in BOOLEAN, refused' => refused \/ step \in Over,
         step \in {"connecting", "connected"} =>
           task[t] = "connecting" /\ listeners' = {},
         listeners' \in SUBSET Thread, \A a, b \in listeners' : a = b
  PROVE  SessionInv'
<1>1. /\ task' \in [Tasks -> {"idle"} \cup Working \cup Over]
      /\ task'[t] = step
      /\ \A u \in Tasks : u # t => task'[u] = task[u]
  BY GotoType
<1>2. /\ provider' = provider /\ tries' = tries /\ provider \in BOOLEAN /\ provider # FALSE
      /\ tries[t] >= 1
  BY StepsDiffer DEF SessionInv, Chosen, SessionTypeOK
<1>3. SessionTypeOK'
  BY <1>1, <1>2 DEF SessionInv, SessionTypeOK, Thread,
     Working, Over
<1>4. \A u \in Tasks : u # t => task'[u] \notin Working
  BY <1>1 DEF SessionInv, Chosen
<1>5. ASSUME NEW u \in Tasks, task'[u] \in {"connecting", "connected"}
      PROVE  /\ listeners' = {} /\ ~refused'
             /\ \A v \in Tasks : task'[v] # "returned"
  <2>1. u = t /\ step \in {"connecting", "connected"}
    BY <1>1, <1>4, <1>5, StepsDiffer
  <2>2. task[t] = "connecting" /\ listeners' = {} /\ ~refused
        /\ \A v \in Tasks : task[v] # "returned"
    BY <2>1 DEF SessionInv, Chosen
  <2>3. ~refused'
    BY <2>1, <2>2, StepsDiffer
  <2> QED
    BY <1>1, <2>1, <2>2, <2>3
<1>6. Chosen'
  BY <1>1, <1>2, <1>4, <1>5, StepsDiffer DEF SessionInv, Chosen, Working
<1> QED
  BY <1>3, <1>6 DEF SessionInv

LEMMA NextSession ==
  ASSUME SessionInv, [SessionNext]_session
  PROVE  SessionInv'
<1>0. /\ listeners \in SUBSET Thread /\ refused \in BOOLEAN
      /\ \A a, b \in listeners : a = b
  BY DEF SessionInv, SessionTypeOK, Chosen
<1>1. ASSUME NEW t \in Tasks, Install(t) PROVE SessionInv'
  BY <1>1, InstallKeeps
<1>2. ASSUME NEW t \in Tasks, ConnectFails(t) PROVE SessionInv'
  BY <1>0, <1>2, WorkKeeps, StepsDiffer DEF ConnectFails
<1>3. ASSUME NEW t \in Tasks, Connect(t) PROVE SessionInv'
  <2>1. listeners = {}
    BY <1>3 DEF SessionInv, Chosen, Connect
  <2> QED
    BY <1>0, <1>3, <2>1, WorkKeeps, StepsDiffer DEF Connect
<1>4. ASSUME NEW t \in Tasks, SubscribeFails(t) PROVE SessionInv'
  BY <1>0, <1>4, WorkKeeps, StepsDiffer DEF SubscribeFails
<1>5. ASSUME NEW t \in Tasks, Subscribe(t) PROVE SessionInv'
  <2>1. /\ listeners = {} /\ tries[t] \in 1 .. MaxTries
    BY <1>5 DEF SessionInv, Chosen, Subscribe, SessionTypeOK
  <2>2. listeners' = {<<t, tries[t]>>} /\ <<t, tries[t]>> \in Thread
    BY <1>5, <2>1 DEF Subscribe, Thread
  <2> QED
    BY <1>0, <1>5, <2>2, WorkKeeps, StepsDiffer DEF Subscribe
<1>6. ASSUME NEW t \in Tasks, StreamEnds(t) PROVE SessionInv'
  <2>1. PICK how \in {"returned", "panicked"} : Goto(t, how)
    BY <1>6 DEF StreamEnds
  <2> QED
    BY <1>0, <1>6, <2>1, WorkKeeps, StepsDiffer DEF StreamEnds
<1>7. CASE ListenerDies
  BY <1>7 DEF SessionInv, SessionTypeOK, Chosen, ListenerDies
<1>8. CASE UNCHANGED session
  BY <1>8 DEF SessionInv, SessionTypeOK, Chosen, session
<1> QED
  BY <1>1, <1>2, <1>3, <1>4, <1>5, <1>6, <1>7, <1>8 DEF SessionNext

LEMMA SessionInvariant == SessionSpec => []SessionInv
<1>1. SessionInit => SessionInv
  BY InitSession
<1>2. SessionInv /\ [SessionNext]_session => SessionInv'
  BY NextSession
<1> QED
  BY <1>1, <1>2, PTL DEF SessionSpec

\* A process never has two listeners, however many tasks ask for a stream and
\* however often.
THEOREM OneListenerEver == SessionSpec => []OneListener
<1>1. SessionInv => OneListener
  BY DEF SessionInv, Chosen, OneListener
<1> QED
  BY <1>1, SessionInvariant, PTL

\* A stream only ever begins in a process where no connection was refused, no
\* stream has ended and no listener runs: there is no second chance.
THEOREM OneChanceOnly == SessionSpec => OneChance
<1> DEFINE Chance ==
      \A t \in Tasks : task'[t] = "streaming" /\ task[t] # "streaming" =>
        /\ ~refused
        /\ listeners = {}
        /\ \A other \in Tasks : task[other] # "returned"
<1>1. ASSUME SessionInv, [SessionNext]_session, NEW t \in Tasks,
             task'[t] = "streaming", task[t] # "streaming"
      PROVE  task[t] = "connected"
  <2>1. task \in [Tasks -> {"idle"} \cup Working \cup Over]
    BY <1>1 DEF SessionInv, SessionTypeOK
  <2> QED
    BY <1>1, <2>1 DEF SessionNext, Install, ConnectFails, Connect,
       SubscribeFails, Subscribe, StreamEnds,
       ListenerDies, Goto, session
<1>2. SessionInv /\ [SessionNext]_session => [Chance]_session
  BY <1>1 DEF SessionInv, Chosen
<1> QED
  BY <1>2, SessionInvariant, PTL DEF SessionSpec, OneChance
=============================================================================
