----------------------- MODULE LogAttributionProofs -----------------------
(***************************************************************************)
(* Proofs about LogAttribution and EventDecoding, for every set of         *)
(* programs and payloads, every reading of the payloads, every nesting     *)
(* depth and every length of the logs.                                     *)
(***************************************************************************)
EXTENDS EventDecoding, SequenceTheorems, WellFoundedInduction, TLAPS

(***************************************************************************)
(* Lemmas about the operators on stacks.                                   *)
(***************************************************************************)

\* A non-empty set of numbers up to n has a greatest element: the last of
\* the positions that rposition looks for exists.
LEMMA GreatestExists ==
  ASSUME NEW n \in Nat, NEW S \in SUBSET (1 .. n), S # {}
  PROVE  \E m \in S : \A i \in S : i <= m
<1> DEFINE T == {n - i : i \in S}
<1>1. T \subseteq Nat /\ T # {}
  <2>1. PICK i \in S : TRUE
    OBVIOUS
  <2>2. n - i \in T
    BY <2>1
  <2>3. \A j \in S : n - j \in Nat
    OBVIOUS
  <2>4. QED
    BY <2>2, <2>3
<1>2. PICK x \in T : \A y \in T : ~ (<<y, x>> \in OpToRel(<, Nat))
  <2> HIDE DEF T
  <2> QED BY <1>1, NatLessThanWellFounded, WFMin
<1>3. \A y \in T : x <= y
  <2>1. SUFFICES ASSUME NEW y \in T PROVE ~ (y < x)
    BY <1>1
  <2>2. <<y, x>> \notin OpToRel(<, Nat)
    BY <1>2
  <2>3. y \in Nat /\ x \in Nat
    BY <1>1
  <2>4. QED
    BY <2>2, <2>3, Zenon DEF OpToRel
<1>4. PICK m \in S : x = n - m
  OBVIOUS
<1>5. \A i \in S : n - m <= n - i
  BY <1>3, <1>4
<1>6. QED
  BY <1>5

\* Max picks the greatest element of a set of numbers that has one.
LEMMA MaxIsGreatest ==
  ASSUME NEW S \in SUBSET Nat, NEW m \in S, \A i \in S : i <= m
  PROVE  Max(S) = m
<1>1. \A y \in S : m >= y
  OBVIOUS
<1>2. Max(S) \in S /\ \A y \in S : Max(S) >= y
  BY <1>1, Zenon DEF Max
<1>3. Max(S) >= m /\ Max(S) <= m
  BY <1>2
<1>4. Max(S) \in Nat /\ m \in Nat
  BY <1>2
<1>5. QED
  BY <1>3, <1>4

\* rposition returns a position of the sequence that holds p, or none.
LEMMA RPositionRange ==
  ASSUME NEW S, NEW s \in Seq(S), NEW p
  PROVE  RPosition(s, p) \in 0 .. Len(s)
<1> DEFINE I == {i \in 1 .. Len(s) : s[i] = p}
<1>1. RPosition(s, p) = IF I # {} THEN Max(I) ELSE 0
  BY DEF RPosition, SelectLastInSeq
<1>2. I \in SUBSET (1 .. Len(s)) /\ Len(s) \in Nat
  OBVIOUS
<1>3. CASE I # {}
  <2> HIDE DEF I
  <2>1. PICK m \in I : \A i \in I : i <= m
    BY <1>2, <1>3, GreatestExists
  <2>2. Max(I) = m
    BY <1>2, <2>1, MaxIsGreatest
  <2>3. QED
    BY <1>1, <1>2, <1>3, <2>2
<1>4. QED
  BY <1>1, <1>2, <1>3

\* Removing one entry leaves a sequence of entries that were there.
LEMMA UnwindIsSeq ==
  ASSUME NEW S, NEW s \in Seq(S), NEW p
  PROVE  Unwind(s, p) \in Seq(S)
<1> DEFINE i == RPosition(s, p)
<1>1. i \in 0 .. Len(s)
  BY RPositionRange
<1> HIDE DEF i
<1>2. CASE i = 0
  BY <1>2 DEF Unwind, i
<1>3. CASE i # 0
  <2>1. SubSeq(s, 1, i - 1) \in Seq(S) /\ SubSeq(s, i + 1, Len(s)) \in Seq(S)
    BY <1>1, <1>3
  <2>2. Unwind(s, p) = SubSeq(s, 1, i - 1) \o SubSeq(s, i + 1, Len(s))
    BY <1>3 DEF Unwind, RemoveAt, i
  <2>3. QED
    BY <2>1, <2>2
<1>4. QED
  BY <1>2, <1>3

\* The success line of the program on top takes exactly that entry off, even
\* when the same program also stands deeper in the stack.
LEMMA UnwindLast ==
  ASSUME NEW S, NEW s \in Seq(S), s # <<>>
  PROVE  Unwind(s, Last(s)) = Front(s)
<1> DEFINE I == {i \in 1 .. Len(s) : s[i] = Last(s)}
<1>1. Len(s) \in Nat \ {0}
  OBVIOUS
<1>2. Len(s) \in I /\ I \in SUBSET Nat /\ \A i \in I : i <= Len(s)
  BY <1>1 DEF Last
<1>3. RPosition(s, Last(s)) = IF I # {} THEN Max(I) ELSE 0
  BY DEF RPosition, SelectLastInSeq
<1> HIDE DEF I
<1>4. RPosition(s, Last(s)) = Len(s)
  BY <1>2, <1>3, MaxIsGreatest
<1>5. Unwind(s, Last(s)) = SubSeq(s, 1, Len(s) - 1) \o SubSeq(s, Len(s) + 1, Len(s))
  BY <1>1, <1>4 DEF Unwind, RemoveAt
<1>6. SubSeq(s, Len(s) + 1, Len(s)) = <<>>
  BY <1>1, SubSeqEmpty
<1>7. SubSeq(s, 1, Len(s) - 1) \in Seq(S)
  BY <1>1
<1>8. QED
  BY <1>5, <1>6, <1>7, ConcatEmptySeq DEF Front

\* The success line of a program that is not on the stack changes nothing.
LEMMA UnwindAbsent ==
  ASSUME NEW S, NEW s \in Seq(S), NEW p, p \notin S
  PROVE  Unwind(s, p) = s
<1>1. {i \in 1 .. Len(s) : s[i] = p} = {}
  OBVIOUS
<1>2. RPosition(s, p) = 0
  BY <1>1 DEF RPosition, SelectLastInSeq
<1>3. QED
  BY <1>2 DEF Unwind

\* A data line is attributed to an entry of the stack, or to no program.
LEMMA EmitterRange ==
  ASSUME NEW S, NEW s \in Seq(S)
  PROVE  Emitter(s) \in S \cup {Unknown}
<1>1. CASE s = <<>>
  BY <1>1 DEF Emitter
<1>2. CASE s # <<>>
  <2>1. Len(s) \in 1 .. Len(s)
    BY <1>2
  <2>2. QED
    BY <1>2, <2>1 DEF Emitter, Last
<1>3. QED
  BY <1>1, <1>2

-----------------------------------------------------------------------------
(***************************************************************************)
(* Type correctness.                                                       *)
(***************************************************************************)

\* Every entry of the stack comes from a line of the current transaction.
StackFromInvoked == stack \in Seq(invoked \cup {LogWord})

\* The listener's part of a line keeps the shape of its buffers, and what it
\* attributes comes from the stack.
LEMMA ParseLineType ==
  ASSUME NEW S, LogWord \in S,
         stack \in Seq(S),
         NEW line,
         \/ \E p \in S : line = InvokeLine(p)
         \/ \E p \in Programs : line = SuccessLine(p)
         \/ \E d \in Payloads : line = DataLine(d)
         \/ \E t \in LogTexts : line = LogLine(t),
         ParseLine(line)
  PROVE  /\ stack' \in Seq(S)
         /\ \/ program_data_list' = program_data_list
            \/ \E e \in S \cup {Unknown}, d \in Payloads :
                 program_data_list' =
                   Append(program_data_list, [program_id |-> e, data |-> d])
<1> USE DEF InvokeLine, SuccessLine, DataLine, LogLine
<1>1. CASE /\ ParsesAsInvoke(line)
           /\ stack' = Append(stack, ParsedId(line))
           /\ UNCHANGED program_data_list
  <2>1. ParsedId(line) \in S
    BY <1>1 DEF ParsesAsInvoke, ParsedId
  <2>2. QED
    BY <1>1, <2>1
<1>2. CASE /\ stack' = Unwind(stack, ParsedId(line))
           /\ UNCHANGED program_data_list
  BY <1>2, UnwindIsSeq
<1>3. CASE /\ line.type = "data"
           /\ program_data_list' = Append(program_data_list,
                [program_id |-> Emitter(stack), data |-> line.data])
           /\ UNCHANGED stack
  <2>1. line.data \in Payloads
    BY <1>3
  <2>2. Emitter(stack) \in S \cup {Unknown}
    BY EmitterRange
  <2>3. QED
    BY <1>3, <2>1, <2>2
<1>4. CASE UNCHANGED parser
  BY <1>4 DEF parser
<1>5. QED
  BY <1>1, <1>2, <1>3, <1>4, Zenon DEF ParseLine

\* The inductive invariant behind the shape of the buffers: entries of the
\* stack and emitters of data lines stem from the current transaction.
BufferInv == TypeOK /\ StackFromInvoked /\ NoCarryOver

\* A line preserves BufferInv, whichever line it is and whether or not it
\* reaches the parser.
LEMMA WriteBuffers ==
  ASSUME BufferInv,
         invoked' \in SUBSET Programs, invoked \subseteq invoked',
         calls' \in Seq(Programs),
         emitted' \in Seq([program_id : Programs, data : Payloads]),
         NEW line,
         \/ \E p \in invoked' : line = InvokeLine(p)
         \/ \E p \in Programs : line = SuccessLine(p)
         \/ \E d \in Payloads : line = DataLine(d)
         \/ \E t \in LogTexts : line = LogLine(t),
         Write(line)
  PROVE  BufferInv'
<1> DEFINE S == invoked' \cup {LogWord}
<1>1. stack \in Seq(S) /\ LogWord \in S
  <2>1. stack \in Seq(invoked \cup {LogWord})
    BY DEF BufferInv, StackFromInvoked
  <2>2. invoked \cup {LogWord} \subseteq S
    OBVIOUS
  <2>3. QED
    BY <2>1, <2>2, SeqMonotonic
<1>2. lines' \in 0 .. MaxLines
  BY LogAssumption DEF Write, BufferInv, TypeOK
<1>3. lossy' \in BOOLEAN
  BY Zenon DEF Write, BufferInv, TypeOK
<1>4. /\ stack' \in Seq(S)
      /\ \/ program_data_list' = program_data_list
         \/ \E e \in S \cup {Unknown}, d \in Payloads :
              program_data_list' =
                Append(program_data_list, [program_id |-> e, data |-> d])
  <2>1. CASE ParseLine(line)
    <3> HIDE DEF S
    <3>1. \A p \in invoked' : p \in S
      BY DEF S
    <3>2. QED
      BY <1>1, <2>1, <3>1, ParseLineType
  <2>2. CASE UNCHANGED parser
    BY <1>1, <2>2 DEF parser
  <2>3. QED
    BY <2>1, <2>2, Zenon DEF Write
<1>5. stack' \in Seq(Programs \cup {LogWord})
  <2>1. S \subseteq Programs \cup {LogWord}
    OBVIOUS
  <2>2. QED
    BY <1>4, <2>1, SeqMonotonic
<1>6. /\ program_data_list' \in Seq(ProgramData)
      /\ \A i \in 1 .. Len(program_data_list') :
           program_data_list'[i].program_id \in S \cup {Unknown}
  <2>1. /\ program_data_list \in Seq(ProgramData)
        /\ \A i \in 1 .. Len(program_data_list) :
             program_data_list[i].program_id \in S \cup {Unknown}
    BY DEF BufferInv, TypeOK, NoCarryOver
  <2>2. CASE program_data_list' = program_data_list
    BY <2>1, <2>2
  <2>3. ASSUME NEW e \in S \cup {Unknown}, NEW d \in Payloads,
               program_data_list' =
                 Append(program_data_list, [program_id |-> e, data |-> d])
        PROVE  <1>6
    <3>1. [program_id |-> e, data |-> d] \in ProgramData
      BY DEF ProgramData
    <3>2. QED
      BY <2>1, <2>3, <3>1, AppendProperties
  <2>4. QED
    BY <1>4, <2>2, <2>3
<1>7. QED
  BY <1>2, <1>3, <1>4, <1>5, <1>6
     DEF BufferInv, TypeOK, StackFromInvoked, NoCarryOver

\* Every step preserves BufferInv.
LEMMA NextBuffers ==
  ASSUME BufferInv, [Next]_vars
  PROVE  BufferInv'
<1> USE DEF BufferInv
<1>1. ASSUME NEW p \in Programs, Invoke(p)
      PROVE  BufferInv'
  <2>1. /\ invoked' \in SUBSET Programs /\ invoked \subseteq invoked'
        /\ p \in invoked'
        /\ calls' \in Seq(Programs)
        /\ emitted' \in Seq([program_id : Programs, data : Payloads])
    BY <1>1 DEF Invoke, TypeOK
  <2>2. QED
    BY <1>1, <2>1, WriteBuffers DEF Invoke
<1>2. CASE Return
  <2>1. /\ invoked' \in SUBSET Programs /\ invoked \subseteq invoked'
        /\ emitted' \in Seq([program_id : Programs, data : Payloads])
    BY <1>2 DEF Return, history, TypeOK
  <2>2. calls' \in Seq(Programs) /\ Last(calls) \in Programs
    BY <1>2 DEF Return, TypeOK, Front, Last
  <2>3. QED
    BY <1>2, <2>1, <2>2, WriteBuffers DEF Return
<1>3. ASSUME NEW d \in Payloads, EmitData(d)
      PROVE  BufferInv'
  <2>1. /\ invoked' \in SUBSET Programs /\ invoked \subseteq invoked'
        /\ calls' \in Seq(Programs)
    BY <1>3 DEF EmitData, TypeOK
  <2>2. emitted' \in Seq([program_id : Programs, data : Payloads])
    BY <1>3 DEF EmitData, TypeOK, Last
  <2>3. QED
    BY <1>3, <2>1, <2>2, WriteBuffers DEF EmitData
<1>4. ASSUME NEW t \in LogTexts, Log(t)
      PROVE  BufferInv'
  <2>1. /\ invoked' \in SUBSET Programs /\ invoked \subseteq invoked'
        /\ calls' \in Seq(Programs)
        /\ emitted' \in Seq([program_id : Programs, data : Payloads])
    BY <1>4 DEF Log, TypeOK
  <2>2. QED
    BY <1>4, <2>1, WriteBuffers DEF Log
<1>5. CASE NextTransaction
  <2>1. TypeOK'
    <3>1. 0 \in 0 .. MaxLines
      BY LogAssumption
    <3>2. \A S : <<>> \in Seq(S)
      OBVIOUS
    <3>3. QED
      BY <1>5, <3>1, <3>2, Zenon DEF NextTransaction, TypeOK
  <2>2. StackFromInvoked'
    BY <1>5, EmptySeq DEF NextTransaction, StackFromInvoked
  <2>3. NoCarryOver'
    BY <1>5, EmptySeq DEF NextTransaction, NoCarryOver
  <2>4. QED
    BY <2>1, <2>2, <2>3
<1>6. CASE UNCHANGED vars
  BY <1>6 DEF vars, TypeOK, StackFromInvoked, NoCarryOver
<1>7. QED
  BY <1>1, <1>2, <1>3, <1>4, <1>5, <1>6 DEF Next

LEMMA InitBuffers == Init => BufferInv
<1> SUFFICES ASSUME Init PROVE BufferInv
  OBVIOUS
<1>1. TypeOK
  <2>1. 0 \in 0 .. MaxLines
    BY LogAssumption
  <2>2. \A S : <<>> \in Seq(S)
    OBVIOUS
  <2>3. QED
    BY <2>1, <2>2, Zenon DEF Init, TypeOK
<1>2. StackFromInvoked
  BY EmptySeq DEF Init, StackFromInvoked
<1>3. NoCarryOver
  BY EmptySeq DEF Init, NoCarryOver
<1>4. QED
  BY <1>1, <1>2, <1>3 DEF BufferInv

LEMMA BuffersInvariant == Spec => []BufferInv
BY InitBuffers, NextBuffers, PTL DEF Spec

\* Whatever the logs of transactions hold, complete or truncated, the
\* buffers of the listener keep their shape.
THEOREM TypeCorrect == Spec => []TypeOK
<1>1. BufferInv => TypeOK
  BY DEF BufferInv
<1>2. QED
  BY <1>1, BuffersInvariant, PTL

\* Whatever the logs hold, no data line is attributed to a program that its
\* own transaction never entered: clearing both buffers after a transaction
\* is enough to keep the leftovers of a truncated log away from the next.
THEOREM NothingCarriedOver == Spec => []NoCarryOver
<1>1. BufferInv => NoCarryOver
  BY DEF BufferInv
<1>2. QED
  BY <1>1, BuffersInvariant, PTL

-----------------------------------------------------------------------------
(***************************************************************************)
(* Attribution is exact as long as no program logs a text that holds       *)
(* " invoke [".  The stack must mirror the calls for a data line to find   *)
(* its emitter on top; and it does, because a success line takes off the   *)
(* last entry of its program, which is the top one.                        *)
(***************************************************************************)
AttributionInv == TypeOK /\ StackMirrorsCalls /\ AttributionExact

\* What the parser does with a line of each kind, when its stack is the
\* runtime's.
LEMMA ParseInvoke ==
  ASSUME NEW p, ParseLine(InvokeLine(p))
  PROVE  stack' = Append(stack, p) /\ UNCHANGED program_data_list
BY Zenon DEF ParseLine, ParsesAsInvoke, ParsesAsSuccess, ParsedId, InvokeLine

LEMMA ParseSuccess ==
  ASSUME NEW p, ParseLine(SuccessLine(p))
  PROVE  stack' = Unwind(stack, p) /\ UNCHANGED program_data_list
BY Zenon DEF ParseLine, ParsesAsInvoke, ParsesAsSuccess, ParsedId, SuccessLine

LEMMA ParseData ==
  ASSUME NEW d, ParseLine(DataLine(d))
  PROVE  /\ UNCHANGED stack
         /\ program_data_list' = Append(program_data_list,
              [program_id |-> Emitter(stack), data |-> d])
BY Zenon DEF ParseLine, ParsesAsInvoke, ParsesAsSuccess, DataLine

LEMMA ParseLog ==
  ASSUME NEW t, t # "invoke", ParseLine(LogLine(t)),
         stack \in Seq(Programs)
  PROVE  UNCHANGED <<stack, program_data_list>>
<1>1. \/ stack' = Unwind(stack, LogWord) /\ UNCHANGED program_data_list
      \/ UNCHANGED parser
  BY Zenon DEF ParseLine, ParsesAsInvoke, ParsesAsSuccess, ParsedId, LogLine
<1>2. Unwind(stack, LogWord) = stack
  BY UnwindAbsent, LogAssumption
<1>3. QED
  BY <1>1, <1>2 DEF parser

LEMMA NextAttribution ==
  ASSUME "invoke" \notin LogTexts, AttributionInv, TypeOK', [Next]_vars
  PROVE  AttributionInv'
<1> USE DEF AttributionInv, StackMirrorsCalls, AttributionExact
<1>1. ASSUME NEW p \in Programs, Invoke(p)
      PROVE  AttributionInv'
  BY <1>1, ParseInvoke DEF Invoke, Write
<1>2. CASE Return
  <2>1. calls # <<>> /\ calls \in Seq(Programs)
    BY <1>2 DEF Return, TypeOK
  <2>2. Unwind(calls, Last(calls)) = Front(calls)
    BY <2>1, UnwindLast
  <2>3. QED
    BY <1>2, <2>2, ParseSuccess DEF Return, Write, history
<1>3. ASSUME NEW d \in Payloads, EmitData(d)
      PROVE  AttributionInv'
  <2>1. ~lossy => Emitter(stack) = Last(calls)
    BY <1>3 DEF EmitData, Emitter
  <2>2. QED
    BY <1>3, <2>1, ParseData DEF EmitData, Write
<1>4. ASSUME NEW t \in LogTexts, Log(t)
      PROVE  AttributionInv'
  <2>1. t # "invoke"
    OBVIOUS
  <2>2. ~lossy => stack \in Seq(Programs)
    BY DEF TypeOK
  <2>3. QED
    BY <1>4, <2>1, <2>2, ParseLog DEF Log, Write, parser
<1>5. CASE NextTransaction
  BY <1>5 DEF NextTransaction
<1>6. CASE UNCHANGED vars
  BY <1>6 DEF vars
<1>7. QED
  BY <1>1, <1>2, <1>3, <1>4, <1>5, <1>6 DEF Next

LEMMA AttributionInvariant ==
  ASSUME "invoke" \notin LogTexts
  PROVE  Spec => []AttributionInv
<1>1. Init => AttributionInv
  BY InitBuffers
     DEF Init, BufferInv, AttributionInv, StackMirrorsCalls, AttributionExact
<1>2. AttributionInv /\ TypeOK' /\ [Next]_vars => AttributionInv'
  BY NextAttribution
<1>3. QED
  BY <1>1, <1>2, TypeCorrect, PTL DEF Spec

\* Without log texts that hold " invoke [", the listener reconstructs the
\* runtime's call stack exactly at every line of a complete log.
THEOREM StackCorrect ==
  ASSUME "invoke" \notin LogTexts
  PROVE  Spec => []StackMirrorsCalls
<1>1. AttributionInv => StackMirrorsCalls
  BY DEF AttributionInv
<1>2. QED
  BY <1>1, AttributionInvariant, PTL

\* Without log texts that hold " invoke [", every complete log is attributed
\* exactly, at any depth of nested and recursive invocations.
THEOREM AttributionCorrect ==
  ASSUME "invoke" \notin LogTexts
  PROVE  Spec => []AttributionExact
<1>1. AttributionInv => AttributionExact
  BY DEF AttributionInv
<1>2. QED
  BY <1>1, AttributionInvariant, PTL

-----------------------------------------------------------------------------
(***************************************************************************)
(* Decoding.  A step of the composition is one of LogAttribution or leaves *)
(* its variables alone, so that the attribution's invariant carries over;  *)
(* the thread's own part says where the carrier comes from.                *)
(***************************************************************************)
ThreadInv ==
  /\ pc \in {"reading", "publishing", "panicked"}
  /\ pc = "reading" => carrier = {}
  /\ pc = "publishing" => carrier = Batch(program_data_list)
  /\ pc = "panicked" => Panics(program_data_list)

LEMMA DecodingSteps == [DecodingNext]_decodingVars => [Next]_vars
<1>1. Line => Next
  BY DEF Line, Next
<1>2. Decode => UNCHANGED vars
  BY DEF Decode
<1>3. Publish => Next
  BY DEF Publish, Next
<1>4. UNCHANGED decodingVars => UNCHANGED vars
  BY DEF decodingVars, vars
<1>5. QED
  BY <1>1, <1>2, <1>3, <1>4 DEF DecodingNext

LEMMA DecodingLogs == DecodingSpec => Spec
<1>1. DecodingInit => Init
  BY DEF DecodingInit
<1>2. QED
  BY <1>1, DecodingSteps, PTL DEF DecodingSpec, Spec

LEMMA NextThread ==
  ASSUME ThreadInv, [DecodingNext]_decodingVars
  PROVE  ThreadInv'
<1>1. CASE Line
  BY <1>1, Zenon DEF Line, thread, ThreadInv
<1>2. CASE Decode
  <2>1. /\ pc = "reading" /\ UNCHANGED program_data_list
        /\ carrier' = carrier \cup Batch(program_data_list)
        /\ pc' = IF Panics(program_data_list) THEN "panicked" ELSE "publishing"
    BY <1>2 DEF Decode, vars
  <2>2. carrier' = Batch(program_data_list)'
    BY <2>1, Zenon DEF ThreadInv, Batch, Reaches, Meaning
  <2>3. Panics(program_data_list)' <=> Panics(program_data_list)
    BY <2>1, Zenon DEF Panics, Reaches, Meaning
  <2>4. QED
    BY <2>1, <2>2, <2>3 DEF ThreadInv
<1>3. CASE Publish
  BY <1>3 DEF Publish, ThreadInv
<1>4. CASE UNCHANGED decodingVars
  <2>1. UNCHANGED <<pc, carrier, program_data_list>>
    BY <1>4 DEF decodingVars
  <2>2. Batch(program_data_list)' = Batch(program_data_list)
    BY <2>1, Zenon DEF Batch, Reaches, Meaning
  <2>3. Panics(program_data_list)' <=> Panics(program_data_list)
    BY <2>1, Zenon DEF Panics, Reaches, Meaning
  <2>4. QED
    BY <2>1, <2>2, <2>3 DEF ThreadInv
<1>5. QED
  BY <1>1, <1>2, <1>3, <1>4 DEF DecodingNext

LEMMA DecodingInvariant ==
  ASSUME "invoke" \notin LogTexts
  PROVE  DecodingSpec => [](ThreadInv /\ AttributionInv)
<1>1. DecodingInit => ThreadInv
  BY DEF DecodingInit, ThreadInv
<1>2. QED
  BY <1>1, NextThread, DecodingLogs, AttributionInvariant, PTL DEF DecodingSpec

\* Without log texts that hold " invoke [", a batch holds exactly the events
\* that the programs of its transaction emitted, each read as its program's,
\* whatever the payloads mean to each program.
THEOREM BatchesExact ==
  ASSUME "invoke" \notin LogTexts
  PROVE  DecodingSpec => []BatchExact
<1>1. ThreadInv /\ AttributionInv => BatchExact
  BY DEF ThreadInv, AttributionInv, AttributionExact, BatchExact
<1>2. QED
  BY <1>1, DecodingInvariant, PTL

\* Without such texts, a short data line ends the listener only when a program
\* that parse_logs knows has emitted it.
THEOREM OwnShortKills ==
  ASSUME "invoke" \notin LogTexts
  PROVE  DecodingSpec => []OnlyOwnShortKills
<1>1. ASSUME Panics(emitted)
      PROVE  \E j \in 1 .. Len(emitted) :
               /\ emitted[j].program_id \in DOMAIN Reading
               /\ Meaning(emitted[j]) = "short"
  <2>1. PICK k \in 1 .. Len(emitted) : Meaning(emitted[k]) = "short"
    BY <1>1 DEF Panics
  <2>2. emitted[k].program_id \in DOMAIN Reading
    BY <2>1 DEF Meaning
  <2>3. QED
    BY <2>1, <2>2
<1>2. ThreadInv /\ AttributionInv => OnlyOwnShortKills
  BY <1>1 DEF ThreadInv, AttributionInv, AttributionExact, OnlyOwnShortKills
<1>3. QED
  BY <1>2, DecodingInvariant, PTL

-----------------------------------------------------------------------------
(***************************************************************************)
(* EventPipeline takes a data line and its emitter for one item.  What it  *)
(* decodes from the items of a transaction, and how it says the thread     *)
(* fares, is what parse_logs makes of the entries: of EventPipeline only   *)
(* these operators are used, which read none of its variables.             *)
(***************************************************************************)
Pipeline == INSTANCE EventPipeline
  WITH Kinds <- {}, QueueCap <- 1, ResultCap <- 1, MaxUpdates <- 0,
       streamer <- "streaming", arrived <- 0, queue <- <<>>, current <- <<>>,
       result_queue <- <<>>, consumed <- <<>>

ItemOf(entry) == IF Meaning(entry) = "skip" THEN "foreign" ELSE Meaning(entry)

TxOf(n, list) ==
  [id |-> n, kind |-> [envelope |-> "ok",
                       items |-> [k \in 1 .. Len(list) |-> ItemOf(list[k])]]]

\* The items of EventPipeline stand for the entries of EventDecoding: the same
\* positions give events, and the thread dies on the same transactions.
THEOREM ItemsAreEntries ==
  ASSUME NEW list \in Seq(ProgramData), NEW n
  PROVE  /\ Pipeline!Decoded(TxOf(n, list)) = {[id |-> n, pos |-> b.pos] : b \in Batch(list)}
         /\ Pipeline!Fatal(TxOf(n, list)) <=> Panics(list)
<1> DEFINE tx == TxOf(n, list)
           items == tx.kind.items
<1>1. /\ Len(list) \in Nat /\ Len(items) = Len(list)
      /\ \A k \in 1 .. Len(list) : items[k] = ItemOf(list[k])
      /\ tx.id = n /\ tx.kind.envelope = "ok"
  BY DEF TxOf
<1>2. \A k \in 1 .. Len(list) :
        /\ items[k] = "event" <=> Meaning(list[k]) = "event"
        /\ items[k] = "short" <=> Meaning(list[k]) = "short"
        /\ items[k] = "garbled" <=> Meaning(list[k]) = "garbled"
  BY <1>1 DEF ItemOf
<1>3. \A k \in 1 .. Len(list) : Pipeline!Reaches(items, k) <=> Reaches(list, k)
  <2> SUFFICES ASSUME NEW k \in 1 .. Len(list)
               PROVE  Pipeline!Reaches(items, k) <=> Reaches(list, k)
    OBVIOUS
  <2>1. \A j \in 1 .. (k - 1) : j \in 1 .. Len(list)
    BY <1>1
  <2> QED
    BY <1>2, <2>1 DEF Pipeline!Reaches, Reaches
<1> DEFINE read == {k \in 1 .. Len(list) : Meaning(list[k]) = "event" /\ Reaches(list, k)}
<1>4. Pipeline!Decoded(tx) = {[id |-> n, pos |-> k] : k \in read}
  <2>1. {k \in 1 .. Len(items) : items[k] = "event" /\ Pipeline!Reaches(items, k)} = read
    BY <1>1, <1>2, <1>3
  <2> QED
    BY <1>1, <2>1 DEF Pipeline!Decoded
<1>5. {[id |-> n, pos |-> b.pos] : b \in Batch(list)} = {[id |-> n, pos |-> k] : k \in read}
  <2>1. Batch(list) = {[pos |-> k, entry |-> list[k]] : k \in read}
    BY DEF Batch
  <2> HIDE DEF read
  <2>2. ASSUME NEW k \in read
        PROVE  \E b \in Batch(list) : b.pos = k
    <3>1. [pos |-> k, entry |-> list[k]] \in Batch(list)
      BY <2>1
    <3>2. [pos |-> k, entry |-> list[k]].pos = k
      OBVIOUS
    <3> QED
      BY <3>1, <3>2
  <2>3. ASSUME NEW b \in Batch(list)
        PROVE  b.pos \in read
    <3>1. PICK k \in read : b = [pos |-> k, entry |-> list[k]]
      BY <2>1
    <3> QED
      BY <3>1
  <2> QED
    BY <2>2, <2>3, Zenon
<1>6. Pipeline!Fatal(tx) <=> Panics(list)
  <2>1. Pipeline!Outcome(tx) =
          IF \E k \in 1 .. Len(items) : items[k] = "short" /\ Pipeline!Reaches(items, k)
          THEN "panicked" ELSE "publishing"
    BY <1>1, Zenon DEF Pipeline!Outcome
  <2>2. Panics(list) <=>
          \E k \in 1 .. Len(items) : items[k] = "short" /\ Pipeline!Reaches(items, k)
    BY <1>1, <1>2, <1>3 DEF Panics
  <2> QED
    BY <2>1, <2>2 DEF Pipeline!Fatal, Pipeline!Ended
<1> QED
  BY <1>4, <1>5, <1>6
=============================================================================
