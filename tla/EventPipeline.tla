--------------------------- MODULE EventPipeline ---------------------------
(***************************************************************************)
(* The event stream of sol_events.rs.  The task `stream_events` moves      *)
(* transactions from the gRPC stream into a bounded lock-free queue; the   *)
(* thread `listener` pops them, decodes the events in their logs           *)
(* (transaction_update_matcher, parse_logs) and pushes one batch per       *)
(* transaction into `result_queue`, from which the caller takes them.      *)
(*                                                                         *)
(* The two run concurrently; each access to a queue is one step, for an    *)
(* ArrayQueue makes push and pop atomic.  A push to a full queue returns   *)
(* an error that both ignore, so the value is gone.                        *)
(*                                                                         *)
(* Which program a data line belongs to is LogAttribution's subject: here  *)
(* an item is a data line together with its emitter, as parse_logs sees it.*)
(***************************************************************************)
EXTENDS Naturals, Sequences, SequencesExt

CONSTANTS
  Kinds,        \* transactions that may arrive: [envelope, items]
  QueueCap,     \* capacity of `queue`, 200 in the code
  ResultCap,    \* capacity of `result_queue`, chosen by the caller
  MaxUpdates    \* bound on the transactions that arrive

\* tx.transaction is None; its signature, transaction, meta or logs do not
\* convert; one of its log lines contains " invoke [" and has a ']' before
\* its first '[', so that parse_invoke slices out of order; or it is well
\* formed.
Envelopes == {"absent", "rejected", "inverted", "ok"}

\* A data line: an event of a known program; one that is skipped (not
\* base64, of another program, or with another discriminator); a known
\* discriminator whose body does not decode; under 8 bytes of a known program.
Items == {"event", "foreign", "garbled", "short"}

ASSUME PipelineAssumption ==
  /\ Kinds \subseteq [envelope : Envelopes, items : Seq(Items)]
  /\ QueueCap \in Nat \ {0}
  /\ ResultCap \in Nat \ {0}
  /\ MaxUpdates \in Nat

VARIABLES
  streamer,      \* the task: "streaming", "returned" or "panicked"
  arrived,       \* transactions received from the node
  queue,
  pc,            \* listener: "polling", "matching", "publishing", or ended
  current,       \* listener: the transaction it has popped
  carrier,       \* listener: events not yet published
  result_queue,
  consumed       \* history: batches the caller has taken

vars == <<streamer, arrived, queue, pc, current, carrier, result_queue, consumed>>

\* `for i in 0..1`: the number of threads that run listener.
Workers == 0 .. 0

Ended == {"returned", "panicked"}

Tx == [id : 1 .. MaxUpdates, kind : Kinds]

Event == [id : 1 .. MaxUpdates, pos : Nat]

-----------------------------------------------------------------------------
(* Decoding: transaction_update_matcher and parse_logs.                    *)

\* parse_logs gets through the items before position i: neither an error
\* nor a panic ends its loop earlier.
Reaches(items, i) == \A j \in 1 .. (i - 1) : items[j] \notin {"garbled", "short"}

\* The events pushed into the carrier for a transaction.  Each carries its
\* position, so that a set tells as much of the Vec as a sequence would.
Decoded(tx) ==
  {[id |-> tx.id, pos |-> i] : i \in
    {k \in 1 .. Len(tx.kind.items) :
       tx.kind.items[k] = "event" /\ Reaches(tx.kind.items, k)}}

\* A fault: the error of parse_logs is passed on.
OutcomeStrict(tx) ==
  CASE tx.kind.envelope = "absent" -> "panicked"
    [] tx.kind.envelope = "rejected" -> "returned"
    [] tx.kind.envelope = "inverted" -> "panicked"
    [] tx.kind.envelope = "ok" ->
         IF "garbled" \in Range(tx.kind.items) THEN "returned"
         ELSE IF "short" \in Range(tx.kind.items) THEN "panicked" ELSE "publishing"

\* How a call of transaction_update_matcher ends.  All the log lines are
\* parsed before any item is decoded.  The error that parse_logs returns for
\* a garbled item is dropped: the call still succeeds.
Outcome(tx) ==
  CASE tx.kind.envelope = "absent" -> "panicked"
    [] tx.kind.envelope = "rejected" -> "returned"
    [] tx.kind.envelope = "inverted" -> "panicked"
    [] tx.kind.envelope = "ok" ->
         IF \E i \in 1 .. Len(tx.kind.items) :
              tx.kind.items[i] = "short" /\ Reaches(tx.kind.items, i)
         THEN "panicked" ELSE "publishing"

Fatal(tx) == Outcome(tx) \in Ended

-----------------------------------------------------------------------------
(* The task stream_events.                                                 *)

\* Faults: the queue takes one too many; a full queue gives up its oldest.
ReceiveOneMore(kind) ==
  /\ streamer = "streaming"
  /\ arrived < MaxUpdates
  /\ arrived' = arrived + 1
  /\ queue' = IF Len(queue) <= QueueCap
              THEN Append(queue, [id |-> arrived', kind |-> kind])
              ELSE queue
  /\ UNCHANGED <<streamer, pc, current, carrier, result_queue, consumed>>

ReceiveForced(kind) ==
  /\ streamer = "streaming"
  /\ arrived < MaxUpdates
  /\ arrived' = arrived + 1
  /\ queue' = Append(IF Len(queue) < QueueCap THEN queue ELSE Tail(queue),
                     [id |-> arrived', kind |-> kind])
  /\ UNCHANGED <<streamer, pc, current, carrier, result_queue, consumed>>

Receive(kind) ==
  /\ streamer = "streaming"
  /\ arrived < MaxUpdates
  /\ arrived' = arrived + 1
  /\ queue' = IF Len(queue) < QueueCap
              THEN Append(queue, [id |-> arrived', kind |-> kind])
              ELSE queue
  /\ UNCHANGED <<streamer, pc, current, carrier, result_queue, consumed>>

\* The stream ends or reports an error, or brings an update of a kind that
\* is still todo!().  (A ping changes nothing.)  The threads run on.
StopStreaming ==
  /\ streamer = "streaming"
  /\ streamer' \in Ended
  /\ UNCHANGED <<arrived, queue, pc, current, carrier, result_queue, consumed>>

-----------------------------------------------------------------------------
(* The thread listener.                                                    *)

Pop(w) ==
  /\ pc[w] = "polling"
  /\ queue # <<>>
  /\ current' = [current EXCEPT ![w] = Head(queue)]
  /\ queue' = Tail(queue)
  /\ pc' = [pc EXCEPT ![w] = "matching"]
  /\ UNCHANGED <<streamer, arrived, carrier, result_queue, consumed>>

Match(w) ==
  /\ pc[w] = "matching"
  /\ pc' = [pc EXCEPT ![w] = Outcome(current[w])]
  /\ carrier' = IF Fatal(current[w]) THEN carrier
                ELSE [carrier EXCEPT ![w] = @ \cup Decoded(current[w])]
  /\ UNCHANGED <<streamer, arrived, queue, current, result_queue, consumed>>

\* Faults: the carrier is not cleared; the push waits for room.
PublishKeepsCarrier(w) ==
  /\ pc[w] = "publishing"
  /\ result_queue' = IF carrier[w] # {} /\ Len(result_queue) < ResultCap
                     THEN Append(result_queue, carrier[w])
                     ELSE result_queue
  /\ pc' = [pc EXCEPT ![w] = "polling"]
  /\ UNCHANGED <<streamer, arrived, queue, current, carrier, consumed>>

PublishWaits(w) ==
  /\ pc[w] = "publishing"
  /\ Len(result_queue) < ResultCap
  /\ result_queue' = IF carrier[w] # {} THEN Append(result_queue, carrier[w])
                     ELSE result_queue
  /\ carrier' = [carrier EXCEPT ![w] = {}]
  /\ pc' = [pc EXCEPT ![w] = "polling"]
  /\ UNCHANGED <<streamer, arrived, queue, current, consumed>>

\* The carrier is also serialised, for a publication that is commented out: an
\* error there would end the thread, but these events, of numbers, texts and
\* lists, always have a JSON form.
Publish(w) ==
  /\ pc[w] = "publishing"
  /\ result_queue' = IF carrier[w] # {} /\ Len(result_queue) < ResultCap
                     THEN Append(result_queue, carrier[w])
                     ELSE result_queue
  /\ carrier' = [carrier EXCEPT ![w] = {}]
  /\ pc' = [pc EXCEPT ![w] = "polling"]
  /\ UNCHANGED <<streamer, arrived, queue, current, consumed>>

Listener(w) == Pop(w) \/ Match(w) \/ Publish(w)

\* The caller of stream_events takes a batch.
Consume ==
  /\ result_queue # <<>>
  /\ consumed' = Append(consumed, Head(result_queue))
  /\ result_queue' = Tail(result_queue)
  /\ UNCHANGED <<streamer, arrived, queue, pc, current, carrier>>

-----------------------------------------------------------------------------
NoTx == [id |-> 0]

Init ==
  /\ streamer = "streaming"
  /\ arrived = 0
  /\ queue = <<>>
  /\ pc = [w \in Workers |-> "polling"]
  /\ current = [w \in Workers |-> NoTx]
  /\ carrier = [w \in Workers |-> {}]
  /\ result_queue = <<>>
  /\ consumed = <<>>

Next ==
  \/ \E kind \in Kinds : Receive(kind)
  \/ StopStreaming
  \/ \E w \in Workers : Listener(w)
  \/ Consume

Spec == Init /\ [][Next]_vars

\* The operating system schedules the thread; nothing obliges the node to
\* send, or the caller to take.
FairSpec == Spec /\ \A w \in Workers : WF_vars(Listener(w))

-----------------------------------------------------------------------------
(* Properties                                                              *)

TypeOK ==
  /\ streamer \in {"streaming"} \cup Ended
  /\ arrived \in 0 .. MaxUpdates
  /\ queue \in Seq(Tx) /\ Len(queue) <= QueueCap
  /\ pc \in [Workers -> {"polling", "matching", "publishing"} \cup Ended]
  /\ current \in [Workers -> Tx \cup {NoTx}]
  /\ carrier \in [Workers -> SUBSET Event]
  /\ result_queue \in Seq(SUBSET Event) /\ Len(result_queue) <= ResultCap
  /\ consumed \in Seq(SUBSET Event)

\* Every batch published so far, oldest first.
Published == consumed \o result_queue

\* Batches come out in the order in which the transactions came in, no
\* transaction twice, and none mixes events of two transactions: nothing of
\* an earlier one is left in the carrier.
InOrder ==
  \A i, j \in 1 .. Len(Published) : \A e \in Published[i], f \in Published[j] :
    /\ i = j => e.id = f.id
    /\ i < j => e.id < f.id

\* A transaction that only holds data lines which do not decode, be they
\* foreign or garbled, never costs the listener its thread.
DeadOnlyByFatal ==
  \A w \in Workers : pc[w] \in Ended =>
    \/ current[w].kind.envelope # "ok"
    \/ "short" \in Range(current[w].kind.items)

-----------------------------------------------------------------------------
(* Refinement: the pipeline is a lossy first-in first-out feed.            *)

Alive == \E w \in Workers : pc[w] \notin Ended

\* The transaction in the listener's hands is still pending.
InHand == IF pc[0] \in {"matching", "publishing"} THEN <<current[0]>> ELSE <<>>

Waiting == InHand \o queue

Feed == INSTANCE EventFeed WITH
  Cap <- QueueCap, Batch <- Decoded, Fatal <- Fatal,
  offered <- arrived, pending <- Waiting,
  results <- result_queue, alive <- Alive

\* The pipeline implements the feed: it refuses a transaction only when its
\* queue is full, loses a batch only when the results are full, and loses
\* nothing and reorders nothing otherwise.
ImplementsFeed == Feed!Spec

\* Every accepted transaction is eventually handled, even when the stream has
\* ended, unless the listener has died.
Pending(n) == \E i \in 1 .. Len(Waiting) : Waiting[i].id = n

EventuallyHandled ==
  \A n \in 1 .. MaxUpdates : Pending(n) ~> (~Pending(n) \/ ~Alive)
=============================================================================
