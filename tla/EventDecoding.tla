--------------------------- MODULE EventDecoding ---------------------------
(***************************************************************************)
(* The thread listener (sol_events.rs) from the lines of a log to the      *)
(* batch it publishes: LogAttribution, the first pass over a transaction's *)
(* logs, composed with parse_logs, which decodes the data lines it found,  *)
(* and with the buffers' reuse.                                            *)
(*                                                                         *)
(* EventPipeline takes a data line and its emitter as one item.  Here the  *)
(* emitter is the one that was found, which a truncated log may get wrong, *)
(* and that decides how the data is read: the same eight bytes mean        *)
(* nothing to one program, an event to another and, to a third that uses   *)
(* the same discriminator, an event whose body does not decode.            *)
(***************************************************************************)
EXTENDS LogAttribution

CONSTANT
  Reading     \* Reading[p][d]: what parse_logs makes of data d of program p

Readings == {"event", "skip", "garbled", "short"}

\* The programs that parse_logs knows, each with what it reads.
ASSUME DecodingAssumption ==
  /\ DOMAIN Reading \subseteq Programs
  /\ \A p \in DOMAIN Reading : Reading[p] \in [Payloads -> Readings]

VARIABLES
  pc,         \* the thread: "reading", "publishing" or "panicked"
  carrier     \* events that have been decoded and not yet published

thread       == <<pc, carrier>>
decodingVars == <<calls, lines, lossy, stack, program_data_list, emitted, invoked, pc, carrier>>

-----------------------------------------------------------------------------
(* parse_logs.                                                             *)

\* A fault: the first eight bytes are taken before the program is looked at.
MeaningOfAny(entry) ==
  IF entry.data = "short" THEN "short"
  ELSE IF entry.program_id \in DOMAIN Reading
    THEN Reading[entry.program_id][entry.data] ELSE "skip"

Meaning(entry) ==
  IF entry.program_id \in DOMAIN Reading
    THEN Reading[entry.program_id][entry.data] ELSE "skip"

\* The loop gets to the k-th entry: neither an error nor a panic ends it
\* earlier.
Reaches(list, k) == \A j \in 1 .. (k - 1) : Meaning(list[j]) \notin {"garbled", "short"}

\* The events that are pushed into the carrier, each with the position of its
\* entry, so that a set tells as much of the Vec as a sequence would.
Batch(list) ==
  {[pos |-> k, entry |-> list[k]] : k \in
    {i \in 1 .. Len(list) : Meaning(list[i]) = "event" /\ Reaches(list, i)}}

\* The loop takes the first eight bytes of an entry that has fewer.
Panics(list) == \E k \in 1 .. Len(list) : Meaning(list[k]) = "short" /\ Reaches(list, k)

-----------------------------------------------------------------------------
(* The thread.                                                             *)

\* A line of the log of the transaction in hand.
Line ==
  /\ pc = "reading"
  /\ \/ \E p \in Programs : Invoke(p)
     \/ Return
     \/ \E d \in Payloads : EmitData(d)
     \/ \E t \in LogTexts : Log(t)
  /\ UNCHANGED thread

\* The log is complete: its data lines are decoded.  The error for one that
\* is garbled is dropped; one that is too short takes the thread with it.
Decode ==
  /\ pc = "reading"
  /\ lines > 0 /\ calls = <<>>
  /\ carrier' = carrier \cup Batch(program_data_list)
  /\ pc' = IF Panics(program_data_list) THEN "panicked" ELSE "publishing"
  /\ UNCHANGED vars

\* A fault: the carrier outlives the transaction.
PublishKeepsCarrier ==
  /\ pc = "publishing"
  /\ NextTransaction
  /\ carrier' = carrier
  /\ pc' = "reading"

\* The buffers are cleared, the carrier is published and cleared, and the
\* thread takes the next transaction.
Publish ==
  /\ pc = "publishing"
  /\ NextTransaction
  /\ carrier' = {}
  /\ pc' = "reading"

DecodingInit ==
  /\ Init
  /\ pc = "reading"
  /\ carrier = {}

DecodingNext == Line \/ Decode \/ Publish

DecodingSpec == DecodingInit /\ [][DecodingNext]_decodingVars

-----------------------------------------------------------------------------
(* Properties                                                              *)

\* The batch of a complete log is what its programs emitted, in that order,
\* each event read as its own program's, up to the first that does not
\* decode: nothing comes from an earlier transaction or another program.
BatchExact == (pc = "publishing" /\ ~lossy) => carrier = Batch(emitted)

\* A short data line costs the listener its thread only when a program that
\* parse_logs knows emitted it; other programs may write what they like.
OnlyOwnShortKills ==
  (pc = "panicked" /\ ~lossy) =>
    \E j \in 1 .. Len(emitted) :
      /\ emitted[j].program_id \in DOMAIN Reading
      /\ Meaning(emitted[j]) = "short"
=============================================================================
