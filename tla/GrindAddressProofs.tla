------------------------- MODULE GrindAddressProofs -------------------------
(***************************************************************************)
(* Proofs about GrindAddress, for any number of threads.                   *)
(***************************************************************************)
EXTENDS GrindAddress, TLAPS

(***************************************************************************)
(* The inductive invariant: what the caller knows of its threads, and that *)
(* the channel holds what they have sent.                                  *)
(***************************************************************************)
CallerOK ==
  /\ caller = "starting" => channel = <<>> /\ \A t \in Threads : thread[t] = "unborn"
  /\ caller = "receiving" => \A t \in Threads : thread[t] # "unborn"

GrindInv == TypeOK /\ CallerOK /\ SentOnce /\ NeverDisconnected

\* What Append does to the entries of a sequence.
LEMMA AppendEntries ==
  ASSUME NEW S, NEW s \in Seq(S), NEW x \in S
  PROVE  /\ Append(s, x) \in Seq(S)
         /\ Len(Append(s, x)) = Len(s) + 1 /\ Len(s) \in Nat
         /\ \A k \in 1 .. Len(s) : Append(s, x)[k] = s[k]
         /\ Append(s, x)[Len(s) + 1] = x
OBVIOUS

LEMMA InitGrind == Init => GrindInv
<1> SUFFICES ASSUME Init PROVE GrindInv
  OBVIOUS
<1>1. TypeOK
  BY DEF Init, TypeOK, Running
<1>2. CallerOK /\ SentOnce /\ NeverDisconnected
  BY DEF Init, CallerOK, SentOnce, NeverDisconnected
<1>3. QED
  BY <1>1, <1>2 DEF GrindInv

\* While the call waits, some thread can still send or has sent something
\* that is in the channel.
LEMMA SomebodySends ==
  ASSUME GrindInv, caller = "receiving", Disconnected
  PROVE  channel # <<>>
<1>1. PICK t \in Threads : TRUE
  BY GrindAssumption
<1>2. thread[t] = "exited"
  BY <1>1 DEF GrindInv, TypeOK, CallerOK, Disconnected, SenderOf
<1>3. \E k \in 1 .. Len(channel) : channel[k] = t
  BY <1>1, <1>2 DEF GrindInv, SentOnce
<1>4. QED
  BY <1>3

\* A step of the caller.
LEMMA CallerKeeps ==
  ASSUME GrindInv, Caller
  PROVE  GrindInv'
<1>1. CASE Start
  BY <1>1 DEF Start, GrindInv, TypeOK, CallerOK, SentOnce, NeverDisconnected,
       Running, Ended
<1>2. CASE Spawn
  <2>1. PICK t \in Threads :
          /\ thread[t] = "unborn"
          /\ \/ thread' = [thread EXCEPT ![t] = "drawing"] /\ caller' = caller
             \/ caller' = "panicked" /\ thread' = thread
          /\ caller = "spawning" /\ UNCHANGED <<channel, result>>
    BY <1>2 DEF Spawn
  <2>2. TypeOK'
    BY <2>1 DEF GrindInv, TypeOK, Ended
  <2>3. CallerOK' /\ NeverDisconnected'
    BY <2>1 DEF CallerOK, NeverDisconnected
  <2>4. SentOnce'
    BY <2>1 DEF GrindInv, TypeOK, SentOnce
  <2>5. QED
    BY <2>2, <2>3, <2>4 DEF GrindInv
<1>3. CASE DropSender
  BY <1>3 DEF DropSender, GrindInv, TypeOK, CallerOK, SentOnce,
       NeverDisconnected, Running
<1>4. CASE Receive
  <2>1. channel # <<>>
    BY <1>4, SomebodySends DEF Receive
  <2>2. /\ result' = <<Head(channel)>> /\ channel' = Tail(channel)
        /\ caller' = "returned" /\ thread' = thread
    BY <1>4, <2>1 DEF Receive
  <2>3. TypeOK'
    BY <2>1, <2>2 DEF GrindInv, TypeOK, Ended
  <2>4. CallerOK' /\ NeverDisconnected' /\ SentOnce'
    BY <2>2 DEF CallerOK, NeverDisconnected, SentOnce
  <2>5. QED
    BY <2>3, <2>4 DEF GrindInv
<1>5. QED
  BY <1>1, <1>2, <1>3, <1>4 DEF Caller

\* A step of a thread.
LEMMA GrinderKeeps ==
  ASSUME GrindInv, NEW t \in Threads, Grinder(t)
  PROVE  GrindInv'
<1>1. CASE Match(t)
  <2>1. TypeOK' /\ CallerOK' /\ NeverDisconnected'
    BY <1>1 DEF Match, GrindInv, TypeOK, CallerOK, NeverDisconnected
  <2>2. SentOnce'
    BY <1>1 DEF Match, GrindInv, TypeOK, SentOnce
  <2>3. QED
    BY <2>1, <2>2 DEF GrindInv
<1>2. CASE Send(t)
  <2>1. /\ thread[t] = "matched" /\ thread' = [thread EXCEPT ![t] = "sent"]
        /\ caller' = caller /\ result' = result
        /\ channel' = IF ReceiverAlive THEN Append(channel, t) ELSE channel
    BY <1>2 DEF Send
  <2>2. TypeOK'
    BY <2>1 DEF GrindInv, TypeOK
  <2>3. CallerOK' /\ NeverDisconnected'
    BY <2>1 DEF GrindInv, TypeOK, CallerOK, NeverDisconnected
  <2>4. SentOnce'
    <3>1. SUFFICES ASSUME caller \in {"spawning", "receiving"} PROVE SentOnce'
      BY <2>1 DEF SentOnce
    <3>2. /\ channel' = Append(channel, t)
          /\ Len(channel') = Len(channel) + 1 /\ Len(channel) \in Nat
          /\ \A k \in 1 .. Len(channel) : channel'[k] = channel[k]
          /\ channel'[Len(channel) + 1] = t
      BY <2>1, <3>1, AppendEntries DEF ReceiverAlive, Running, GrindInv, TypeOK
    <3>3. \A k \in 1 .. Len(channel) : channel[k] # t
      BY <2>1, <3>1 DEF GrindInv, SentOnce
    <3>4. \A u \in Threads : thread'[u] \in {"sent", "exited"} <=>
                               u = t \/ thread[u] \in {"sent", "exited"}
      BY <2>1 DEF GrindInv, TypeOK
    <3>5. ASSUME NEW u \in Threads
          PROVE  thread'[u] \in {"sent", "exited"} <=>
                   \E k \in 1 .. Len(channel') : channel'[k] = u
      <4>1. (\E k \in 1 .. Len(channel') : channel'[k] = u) <=>
              u = t \/ \E k \in 1 .. Len(channel) : channel[k] = u
        BY <3>2
      <4>2. QED
        BY <3>1, <3>4, <4>1 DEF GrindInv, SentOnce
    <3>6. \A j, k \in 1 .. Len(channel') : channel'[j] = channel'[k] => j = k
      BY <3>1, <3>2, <3>3 DEF GrindInv, SentOnce
    <3>7. QED
      BY <3>5, <3>6 DEF SentOnce
  <2>5. QED
    BY <2>2, <2>3, <2>4 DEF GrindInv
<1>3. CASE Exit(t)
  <2>1. TypeOK' /\ CallerOK' /\ NeverDisconnected'
    BY <1>3 DEF Exit, GrindInv, TypeOK, CallerOK, NeverDisconnected
  <2>2. SentOnce'
    BY <1>3 DEF Exit, GrindInv, TypeOK, SentOnce
  <2>3. QED
    BY <2>1, <2>2 DEF GrindInv
<1>4. QED
  BY <1>1, <1>2, <1>3 DEF Grinder

LEMMA GrindInvariant == Spec => []GrindInv
<1>1. GrindInv /\ [Next]_vars => GrindInv'
  <2> SUFFICES ASSUME GrindInv, [Next]_vars PROVE GrindInv'
    OBVIOUS
  <2>1. CASE UNCHANGED vars
    BY <2>1 DEF vars, GrindInv, TypeOK, CallerOK, SentOnce, NeverDisconnected
  <2>2. QED
    BY <2>1, CallerKeeps, GrinderKeeps DEF Next
<1>2. QED
  BY <1>1, InitGrind, PTL DEF Spec

\* Every variable keeps its shape.
THEOREM TypeCorrect == Spec => []TypeOK
<1>1. GrindInv => TypeOK
  BY DEF GrindInv
<1>2. QED
  BY <1>1, GrindInvariant, PTL

\* While the call waits, the channel holds what the threads have sent, once.
THEOREM SentCorrect == Spec => []SentOnce
<1>1. GrindInv => SentOnce
  BY DEF GrindInv
<1>2. QED
  BY <1>1, GrindInvariant, PTL

\* With any number of threads, the caller never finds the channel closed: the
\* sender of a thread outlives its send, and a match is the only way out.
THEOREM RecvNeverFails == Spec => []NeverDisconnected
<1>1. GrindInv => NeverDisconnected
  BY DEF GrindInv
<1>2. QED
  BY <1>1, GrindInvariant, PTL
=============================================================================
