--------------------------- MODULE LogAttribution ---------------------------
(***************************************************************************)
(* How the listener thread attributes the "Program data:" lines of a       *)
(* transaction's logs to the programs that wrote them: parse_solana_logs   *)
(* with parse_invoke and parse_success (sol_events.rs), and the reuse of   *)
(* the two buffers `stack` and `program_data_list` from one transaction to *)
(* the next by listener.                                                   *)
(*                                                                         *)
(* The lines come from the Solana runtime, which is not in this            *)
(* repository: it writes one line when a program is entered, one when it   *)
(* returns, and the lines the program itself asks for.  The parser reads   *)
(* the lines in the order they were written, so the model reads each line  *)
(* in the step that writes it; `calls` is then the runtime's call stack at *)
(* that line, which the parser tries to reconstruct in `stack`.            *)
(*                                                                         *)
(* A validator caps the size of a transaction's logs: lines past the cap   *)
(* are lost (`lossy`).                                                     *)
(***************************************************************************)
EXTENDS Naturals, Sequences, SequencesExt

CONSTANTS
  Programs,   \* program ids that transactions invoke
  Payloads,   \* contents of "Program data:" lines
  LogTexts,   \* what the text of a "Program log:" line may look like
  LogWord,    \* "log:", the word where the parser looks for a program id
  Unknown,    \* "UNKNOWN", the emitter recorded when the stack is empty
  MaxDepth,   \* the runtime's limit on nested invocations
  MaxLines    \* bound on the lines of one transaction

ASSUME LogAssumption ==
  /\ LogWord \notin Programs
  /\ Unknown \notin Programs \cup {LogWord}
  /\ LogTexts \subseteq {"plain", "invoke", "success"}
  /\ MaxDepth \in Nat \ {0}
  /\ MaxLines \in Nat \ {0}

VARIABLES
  calls,              \* runtime: the programs now executing, innermost last
  lines,              \* runtime: lines written by the current transaction
  lossy,              \* runtime: a line of this transaction was lost
  stack,              \* listener: reconstructed invocations, innermost last
  program_data_list,  \* listener: data lines with the emitter found for each
  emitted,            \* history: data lines with their true emitter
  invoked             \* history: programs entered in this transaction

runtime == <<calls, lines, lossy>>
parser  == <<stack, program_data_list>>
history == <<emitted, invoked>>
vars    == <<calls, lines, lossy, stack, program_data_list, emitted, invoked>>

ProgramData == [program_id : Programs \cup {LogWord, Unknown}, data : Payloads]

(***************************************************************************)
(* The lines of a log, told apart as the parser tells them apart:          *)
(*   "Program P invoke [n]", "Program P success", "Program data: D", and   *)
(*   "Program log: TEXT", where TEXT is "plain", holds " invoke [" or is   *)
(*   the word "success".                                                   *)
(* Every other line of the runtime ("consumed", "return") reads like a     *)
(* "plain" one.                                                            *)
(***************************************************************************)
InvokeLine(p)  == [type |-> "invoke", program |-> p]
SuccessLine(p) == [type |-> "success", program |-> p]
DataLine(d)    == [type |-> "data", data |-> d]
LogLine(t)     == [type |-> "log", text |-> t]

\* parse_invoke and parse_success look for their keyword anywhere after
\* "Program ", so the text of a log line may match them too; the id they
\* then return is the word "log:".
ParsesAsInvoke(line) ==
  line.type = "invoke" \/ (line.type = "log" /\ line.text = "invoke")

ParsesAsSuccess(line) ==
  line.type = "success" \/ (line.type = "log" /\ line.text = "success")

ParsedId(line) == IF line.type = "log" THEN LogWord ELSE line.program

\* Position of the last entry of s that names program p, 0 if there is none.
RPosition(s, p) == SelectLastInSeq(s, LAMBDA q : q = p)

\* A fault: the outermost entry of the program is taken off, not the innermost.
UnwindFirst(s, p) ==
  LET first == SelectInSeq(s, LAMBDA q : q = p)
  IN  IF first = 0 THEN s ELSE RemoveAt(s, first)

\* What a "Program P success" line does to the stack.
Unwind(s, p) == IF RPosition(s, p) = 0 THEN s ELSE RemoveAt(s, RPosition(s, p))

\* A fault: a line is attributed to the outermost program.
EmitterOutermost(s) == IF s = <<>> THEN Unknown ELSE Head(s)

\* The program that a data line is attributed to.
Emitter(s) == IF s = <<>> THEN Unknown ELSE Last(s)

\* One round of the loop of parse_solana_logs.
ParseLine(line) ==
  \/ /\ ParsesAsInvoke(line)
     /\ stack' = Append(stack, ParsedId(line))
     /\ UNCHANGED program_data_list
  \/ /\ ~ParsesAsInvoke(line) /\ ParsesAsSuccess(line)
     /\ stack' = Unwind(stack, ParsedId(line))
     /\ UNCHANGED program_data_list
  \/ /\ line.type = "data"
     /\ program_data_list' = Append(program_data_list,
          [program_id |-> Emitter(stack), data |-> line.data])
     /\ UNCHANGED stack
  \/ /\ line.type = "log" /\ ~ParsesAsInvoke(line) /\ ~ParsesAsSuccess(line)
     /\ UNCHANGED parser

-----------------------------------------------------------------------------
(* The runtime writes a line; it reaches the parser unless the log is full. *)

\* The bound on the lines leaves room for every open call to return.
Write(line) ==
  /\ lines + 1 + Len(calls') <= MaxLines
  /\ lines' = lines + 1
  /\ \/ ParseLine(line) /\ UNCHANGED lossy
     \/ lossy' = TRUE /\ UNCHANGED parser

\* A program is entered: by the transaction, or by the innermost program.
Invoke(p) ==
  /\ Len(calls) < MaxDepth
  /\ calls' = Append(calls, p)
  /\ invoked' = invoked \cup {p}
  /\ UNCHANGED emitted
  /\ Write(InvokeLine(p))

\* The innermost program returns.  (A program that fails aborts the whole
\* transaction, and the subscription asks for successful ones only.)
Return ==
  /\ calls # <<>>
  /\ calls' = Front(calls)
  /\ UNCHANGED history
  /\ Write(SuccessLine(Last(calls)))

\* The innermost program emits an event.
EmitData(d) ==
  /\ calls # <<>>
  /\ emitted' = Append(emitted, [program_id |-> Last(calls), data |-> d])
  /\ UNCHANGED <<calls, invoked>>
  /\ Write(DataLine(d))

\* The innermost program logs a message of its own.
Log(t) ==
  /\ calls # <<>>
  /\ UNCHANGED <<calls, emitted, invoked>>
  /\ Write(LogLine(t))

\* A fault: the stack is not cleared between transactions.
NextTransactionKeepsStack ==
  /\ lines > 0
  /\ calls = <<>>
  /\ program_data_list' = <<>>
  /\ lines' = 0
  /\ lossy' = FALSE
  /\ emitted' = <<>>
  /\ invoked' = {}
  /\ UNCHANGED <<calls, stack>>

\* The last instruction has returned: the listener hands the entries on,
\* clears both buffers and takes the next transaction.
NextTransaction ==
  /\ lines > 0
  /\ calls = <<>>
  /\ stack' = <<>>
  /\ program_data_list' = <<>>
  /\ lines' = 0
  /\ lossy' = FALSE
  /\ emitted' = <<>>
  /\ invoked' = {}
  /\ UNCHANGED calls

Init ==
  /\ calls = <<>>
  /\ lines = 0
  /\ lossy = FALSE
  /\ stack = <<>>
  /\ program_data_list = <<>>
  /\ emitted = <<>>
  /\ invoked = {}

Next ==
  \/ \E p \in Programs : Invoke(p)
  \/ Return
  \/ \E d \in Payloads : EmitData(d)
  \/ \E t \in LogTexts : Log(t)
  \/ NextTransaction

Spec == Init /\ [][Next]_vars

-----------------------------------------------------------------------------
(* Properties                                                              *)

\* The shape of every variable.
TypeOK ==
  /\ calls \in Seq(Programs)
  /\ lines \in 0 .. MaxLines
  /\ lossy \in BOOLEAN
  /\ stack \in Seq(Programs \cup {LogWord})
  /\ program_data_list \in Seq(ProgramData)
  /\ emitted \in Seq([program_id : Programs, data : Payloads])
  /\ invoked \in SUBSET Programs

\* As long as no line was lost the reconstructed stack is the runtime's own,
\* through nested, repeated and recursive invocations.
StackMirrorsCalls == ~lossy => stack = calls

\* Every data line of a complete log is attributed to the program that wrote
\* it, in the order written: parse_solana_logs misses none and invents none.
AttributionExact == ~lossy => program_data_list = emitted

\* A truncated log may misattribute, but only within its transaction: what
\* its missing lines leave on the stack never reaches a later transaction.
NoCarryOver ==
  \A i \in 1 .. Len(program_data_list) :
    program_data_list[i].program_id \in invoked \cup {Unknown, LogWord}
=============================================================================
