---------------------------- MODULE GrindAddress ----------------------------
(***************************************************************************)
(* grind_address (solana_bundler.rs): one thread per core draws keypairs   *)
(* until one of them has an address with the wanted postfix, sends it on   *)
(* an mpsc channel and exits; the caller returns the first that it         *)
(* receives.  Nobody stops the other threads: they go on after the return. *)
(*                                                                         *)
(* A keypair is known by the thread that drew it.                          *)
(***************************************************************************)
EXTENDS Naturals, Sequences

CONSTANTS
  Threads,    \* as many as available_parallelism reports
  Possible    \* whether some address ends with the postfix

\* available_parallelism is a NonZero.
ASSUME GrindAssumption == Threads # {} /\ Possible \in BOOLEAN

VARIABLES
  caller,     \* what the caller does, or how the call has ended
  thread,     \* what each thread does
  channel,    \* keypairs sent and not received
  result      \* the keypairs returned: none or one

vars == <<caller, thread, channel, result>>

Running == {"starting", "spawning", "receiving"}
Ended   == {"returned", "no_threads", "panicked", "disconnected"}

\* The receiver lives as long as the call.  The sender of a thread lives
\* until the thread exits, the caller's own one until it waits.
ReceiverAlive == caller \in Running
SenderOf(t)   == thread[t] \in {"drawing", "matched", "sent"}
Disconnected  == \A t \in Threads : ~SenderOf(t)

-----------------------------------------------------------------------------
(* The caller.                                                             *)

\* available_parallelism fails, or its answer is used.
Start ==
  /\ caller = "starting"
  /\ caller' \in {"spawning", "no_threads"}
  /\ UNCHANGED <<thread, channel, result>>

\* thread::spawn panics when the system has no thread to give.
Spawn ==
  /\ caller = "spawning"
  /\ \E t \in Threads :
       /\ thread[t] = "unborn"
       /\ \/ /\ thread' = [thread EXCEPT ![t] = "drawing"]
             /\ caller' = caller
          \/ /\ caller' = "panicked"
             /\ thread' = thread
  /\ UNCHANGED <<channel, result>>

\* drop(tx), after which only the threads hold senders.
DropSender ==
  /\ caller = "spawning"
  /\ \A t \in Threads : thread[t] # "unborn"
  /\ caller' = "receiving"
  /\ UNCHANGED <<thread, channel, result>>

\* rx.recv() answers with a keypair, or with an error once nothing is left
\* in the channel and nobody can send.
Receive ==
  /\ caller = "receiving"
  /\ \/ /\ channel # <<>>
        /\ result' = <<Head(channel)>>
        /\ channel' = Tail(channel)
        /\ caller' = "returned"
     \/ /\ channel = <<>>
        /\ Disconnected
        /\ caller' = "disconnected"
        /\ UNCHANGED <<channel, result>>
  /\ UNCHANGED thread

-----------------------------------------------------------------------------
(* A thread.  Drawing a keypair that does not match changes nothing.       *)

\* A fault: the wrong text is tested, so that no address ever matches where one
\* could.
MatchMisses(t) ==
  /\ thread[t] = "drawing"
  /\ ~Possible
  /\ thread' = [thread EXCEPT ![t] = "matched"]
  /\ UNCHANGED <<caller, channel, result>>

Match(t) ==
  /\ thread[t] = "drawing"
  /\ Possible
  /\ thread' = [thread EXCEPT ![t] = "matched"]
  /\ UNCHANGED <<caller, channel, result>>

\* Faults: the keypair is not sent; something else is sent; the thread leaves
\* its loop only if the send succeeds.
SendNothing(t) ==
  /\ thread[t] = "matched"
  /\ thread' = [thread EXCEPT ![t] = "sent"]
  /\ UNCHANGED <<caller, channel, result>>

SendOrDraw(t) ==
  /\ thread[t] = "matched"
  /\ channel' = IF ReceiverAlive THEN Append(channel, t) ELSE channel
  /\ thread' = [thread EXCEPT ![t] = IF ReceiverAlive THEN "sent" ELSE "drawing"]
  /\ UNCHANGED <<caller, result>>

\* tx.send fails when the call is over; the thread leaves its loop anyway.
Send(t) ==
  /\ thread[t] = "matched"
  /\ channel' = IF ReceiverAlive THEN Append(channel, t) ELSE channel
  /\ thread' = [thread EXCEPT ![t] = "sent"]
  /\ UNCHANGED <<caller, result>>

\* A fault: the thread goes on after its match.
ExitNot(t) ==
  /\ thread[t] = "sent"
  /\ thread' = [thread EXCEPT ![t] = "drawing"]
  /\ UNCHANGED <<caller, channel, result>>

\* The closure ends and drops its sender.
Exit(t) ==
  /\ thread[t] = "sent"
  /\ thread' = [thread EXCEPT ![t] = "exited"]
  /\ UNCHANGED <<caller, channel, result>>

Caller  == Start \/ Spawn \/ DropSender \/ Receive
Grinder(t) == Match(t) \/ Send(t) \/ Exit(t)

Init ==
  /\ caller = "starting"
  /\ thread = [t \in Threads |-> "unborn"]
  /\ channel = <<>>
  /\ result = <<>>

Next == Caller \/ \E t \in Threads : Grinder(t)

Spec == Init /\ [][Next]_vars

\* The scheduler runs every thread again and again, and draws are independent:
\* where a match is possible, a thread finds one with probability one.
FairSpec ==
  /\ Spec
  /\ WF_vars(Caller)
  /\ \A t \in Threads : WF_vars(Grinder(t))

-----------------------------------------------------------------------------
(* Properties                                                              *)

TypeOK ==
  /\ caller \in Running \cup Ended
  /\ thread \in [Threads -> {"unborn", "drawing", "matched", "sent", "exited"}]
  /\ channel \in Seq(Threads)
  /\ result \in Seq(Threads)

\* recv never reports that all senders are gone: a thread gives up its sender
\* only after what it sent is in the channel, so the error that grind_address
\* maps from recv cannot come up.
NeverDisconnected == caller # "disconnected"

\* No keypair is lost or handed out twice while the call runs: what is in the
\* channel was sent by the threads past their send, each of them once.
SentOnce ==
  caller \in {"spawning", "receiving"} =>
    /\ \A t \in Threads : thread[t] \in {"sent", "exited"} <=>
                            \E k \in 1 .. Len(channel) : channel[k] = t
    /\ \A j, k \in 1 .. Len(channel) : channel[j] = channel[k] => j = k

\* The threads that nobody stops come to an end by themselves, after a return
\* as after a panic, each once it has found a keypair of its own.
EventuallyQuiet ==
  <>[](\A t \in Threads : thread[t] \in {"unborn", "exited"})

\* The call ends once it waits.
RecvReturns == caller = "receiving" ~> caller # "receiving"
=============================================================================
