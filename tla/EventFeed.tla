----------------------------- MODULE EventFeed -----------------------------
(***************************************************************************)
(* What stream_events promises to the owner of `result_queue`: a lossy     *)
(* first-in first-out feed.  A transaction is refused only when it finds   *)
(* Cap others waiting; an accepted one is handled in its turn and becomes  *)
(* at most one batch, which is lost only if the results are full.  A fatal *)
(* transaction stops the feed for good.                                    *)
(***************************************************************************)
EXTENDS Naturals, Sequences

CONSTANTS
  Kinds,      \* what a transaction may look like
  Cap,        \* transactions that may wait, besides the one being handled
  ResultCap,  \* batches that may wait to be taken
  Batch(_),   \* the set of events of a transaction
  Fatal(_)    \* whether the feed does not survive a transaction

VARIABLES
  offered,    \* transactions the node has sent
  pending,    \* transactions accepted and not yet handled
  results,    \* batches not yet taken
  alive

feed == <<offered, pending, results, alive>>

Init ==
  /\ offered = 0
  /\ pending = <<>>
  /\ results = <<>>
  /\ alive = TRUE

\* A transaction arrives.  With exactly Cap waiting it may go either way:
\* the feed may or may not have taken one of them in hand.
Offer(kind) ==
  /\ offered' = offered + 1
  /\ \/ /\ Len(pending) <= Cap
        /\ pending' = Append(pending, [id |-> offered', kind |-> kind])
     \/ /\ Len(pending) >= Cap
        /\ UNCHANGED pending
  /\ UNCHANGED <<results, alive>>

\* The oldest transaction leaves; its batch, if there is one and it fits,
\* joins the results.
Handle ==
  /\ alive
  /\ pending # <<>>
  /\ ~Fatal(Head(pending))
  /\ pending' = Tail(pending)
  /\ results' = IF Batch(Head(pending)) # {} /\ Len(results) < ResultCap
                THEN Append(results, Batch(Head(pending)))
                ELSE results
  /\ UNCHANGED <<offered, alive>>

Die ==
  /\ alive
  /\ pending # <<>>
  /\ Fatal(Head(pending))
  /\ pending' = Tail(pending)
  /\ alive' = FALSE
  /\ UNCHANGED <<offered, results>>

\* The owner takes the oldest batch.
Take ==
  /\ results # <<>>
  /\ results' = Tail(results)
  /\ UNCHANGED <<offered, pending, alive>>

Next == (\E kind \in Kinds : Offer(kind)) \/ Handle \/ Die \/ Take

Spec == Init /\ [][Next]_feed
=============================================================================
