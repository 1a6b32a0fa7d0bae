--------------------------- MODULE GeyserSession ---------------------------
(***************************************************************************)
(* How a stream of events comes about and ends: Geyser::build_config and   *)
(* Geyser::get_stream (sol/geyser.rs), and the spawning of the listener by *)
(* stream_events (sol/sol_events.rs), called by the tasks of one process.  *)
(*                                                                         *)
(* What a task does after a failure is up to the program that uses the     *)
(* crate: here it may begin again, up to MaxTries times.  What the thread  *)
(* does that Subscribe spawns is EventPipeline's subject.                  *)
(***************************************************************************)
EXTENDS Naturals

CONSTANTS
  Tasks,      \* tasks of the process that may want a stream
  MaxTries    \* bound on how often a task begins

ASSUME SessionAssumption == MaxTries \in Nat \ {0}

VARIABLES
  provider,    \* whether the process has a default crypto provider
  task,        \* for each task: where it is, or how its call has ended
  tries,       \* for each task: how often it has begun
  listeners,   \* threads that run listener, by the task and try that spawned them
  refused      \* history: a connection attempt of the process has failed

session == <<provider, task, tries, listeners, refused>>

Working == {"connecting", "connected", "streaming"}
Over    == {"failed", "returned", "panicked"}

Thread == Tasks \X (1 .. MaxTries)

Goto(t, step) == task' = [task EXCEPT ![t] = step]

-----------------------------------------------------------------------------
(* build_config.                                                           *)

\* A fault: a provider that is there already is left alone.
InstallIfAbsent(t) ==
  /\ task[t] \in {"idle"} \cup Over
  /\ tries[t] < MaxTries
  /\ tries' = [tries EXCEPT ![t] = @ + 1]
  /\ provider' = TRUE
  /\ Goto(t, "connecting")
  /\ UNCHANGED <<listeners, refused>>

\* Begins by installing the provider for the whole process, which fails, and
\* is expected not to, when there is one.
Install(t) ==
  /\ task[t] \in {"idle"} \cup Over
  /\ tries[t] < MaxTries
  /\ tries' = [tries EXCEPT ![t] = @ + 1]
  /\ provider' = TRUE
  /\ Goto(t, IF provider THEN "panicked" ELSE "connecting")
  /\ UNCHANGED <<listeners, refused>>

\* The endpoint or the token does not parse, or nobody answers for ten seconds.
ConnectFails(t) ==
  /\ task[t] = "connecting"
  /\ refused' = TRUE
  /\ Goto(t, "failed")
  /\ UNCHANGED <<provider, tries, listeners>>

Connect(t) ==
  /\ task[t] = "connecting"
  /\ Goto(t, "connected")
  /\ UNCHANGED <<provider, tries, listeners, refused>>

-----------------------------------------------------------------------------
(* get_stream and stream_events.                                           *)

SubscribeFails(t) ==
  /\ task[t] = "connected"
  /\ Goto(t, "failed")
  /\ UNCHANGED <<provider, tries, listeners, refused>>

\* stream_events spawns its thread before it takes the first update.
Subscribe(t) ==
  /\ task[t] = "connected"
  /\ listeners' = listeners \cup {<<t, tries[t]>>}
  /\ Goto(t, "streaming")
  /\ UNCHANGED <<provider, tries, refused>>

\* The stream ends or fails, or brings an update that is still todo!().  The
\* thread is not told: it goes on polling its queue.
StreamEnds(t) ==
  /\ task[t] = "streaming"
  /\ \E how \in {"returned", "panicked"} : Goto(t, how)
  /\ UNCHANGED <<provider, tries, listeners, refused>>

\* A thread ends on a transaction that it cannot handle.
ListenerDies ==
  \E thread \in listeners :
    /\ listeners' = listeners \ {thread}
    /\ UNCHANGED <<provider, task, tries, refused>>

SessionInit ==
  /\ provider = FALSE
  /\ task = [t \in Tasks |-> "idle"]
  /\ tries = [t \in Tasks |-> 0]
  /\ listeners = {}
  /\ refused = FALSE

SessionNext ==
  \/ \E t \in Tasks :
       \/ Install(t) \/ ConnectFails(t) \/ Connect(t)
       \/ SubscribeFails(t) \/ Subscribe(t) \/ StreamEnds(t)
  \/ ListenerDies

SessionSpec == SessionInit /\ [][SessionNext]_session

-----------------------------------------------------------------------------
(* Properties                                                              *)

SessionTypeOK ==
  /\ provider \in BOOLEAN /\ refused \in BOOLEAN
  /\ task \in [Tasks -> {"idle"} \cup Working \cup Over]
  /\ tries \in [Tasks -> 0 .. MaxTries]
  /\ listeners \in SUBSET Thread

\* A process never has two listeners, whoever asks for a stream and however
\* often, although stream_events never stops the one it has spawned: with two
\* that push into one result queue, batches would come out of order.
OneListener == \A a, b \in listeners : a = b

\* A process gets a single chance: once a connection was refused, or its
\* stream has ended, no retry of any task brings another.
OneChance ==
  [][\A t \in Tasks : task'[t] = "streaming" /\ task[t] # "streaming" =>
       /\ ~refused
       /\ listeners = {}
       /\ \A other \in Tasks : task[other] # "returned"]_session
=============================================================================
