------------------------------ MODULE FilterLogs ------------------------------
(***************************************************************************)
(* filterLogs of the event manager: which logs of a transaction belong to  *)
(* one operation of the bundle.  Indexes count from 0, as in the code; -1  *)
(* stands for "not found".                                                 *)
(***************************************************************************)
EXTENDS Integers, Sequences, SequencesExt

(* Array.slice(start, end) for start >= 0.                                 *)
Slice(s, start, end) == SubSeq(s, start + 1, end)

(* Mutant of Found: another operation's event always moves the start.       *)
FoundLast(acc, log, index, op) ==
    CASE log.kind = "BeforeExecution" -> [startIndex |-> index, endIndex |-> index]
      [] log.kind = "UserOperationEvent" /\ log.op = op -> [acc EXCEPT !.endIndex = index]
      [] log.kind = "UserOperationEvent" /\ log.op # op -> [acc EXCEPT !.startIndex = index]
      [] OTHER -> acc

(* BeforeExecution sets both, so from then on endIndex is not -1.          *)
Found(acc, log, index, op) ==
    CASE log.kind = "BeforeExecution" -> [startIndex |-> index, endIndex |-> index]
      [] log.kind = "UserOperationEvent" /\ log.op = op -> [acc EXCEPT !.endIndex = index]
      [] log.kind = "UserOperationEvent" /\ log.op # op /\ acc.endIndex = -1 ->
           [acc EXCEPT !.startIndex = index]
      [] OTHER -> acc

Ends(op, logs) ==
    FoldLeft(LAMBDA acc, n : Found(acc, logs[n], n - 1, op),
             [startIndex |-> -1, endIndex |-> -1], [n \in 1..Len(logs) |-> n])

HasEnd(op, logs) == Ends(op, logs).endIndex # -1
LogsOf(op, logs) == Slice(logs, Ends(op, logs).startIndex + 1, Ends(op, logs).endIndex)

(* What the EntryPoint emits in a transaction that executes the operation: *)
(* BeforeExecution once, after all validations, and then the logs of each  *)
(* operation up to its event ("all UserOp execution events start after the *)
(* BeforeExecution event").                                                *)
OwnEvent(op, log) == log.kind = "UserOperationEvent" /\ log.op = op
OwnLog(op, log) == log.kind = "other" /\ log.op = op

ExecutedIn(op, logs) ==
    /\ logs \in Seq(Range(logs))
    /\ \E begin, end \in DOMAIN logs :
         /\ begin < end
         /\ \A n \in DOMAIN logs :
              /\ logs[n].kind = "BeforeExecution" <=> n = begin
              /\ OwnEvent(op, logs[n]) <=> n = end
              /\ OwnLog(op, logs[n]) => begin < n /\ n < end

(* The logs that end right before the operation's event, with all it        *)
(* emitted itself and nothing of the validations or of later operations.    *)
(* Whose the first of them are is left open.                               *)
HasAllOf(op, logs, found) ==
    LET event == CHOOSE n \in DOMAIN logs : OwnEvent(op, logs[n])
        first == event - Len(found)
    IN  /\ first >= 1 /\ found = SubSeq(logs, first, event - 1)
        /\ \A n \in DOMAIN logs : OwnLog(op, logs[n]) => first <= n /\ n < event
        /\ \A n \in DOMAIN found : found[n].kind # "BeforeExecution"
=============================================================================
