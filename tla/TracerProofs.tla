---------------------------- MODULE TracerProofs ----------------------------
(***************************************************************************)
(* Proofs about the collector and the rules the parser applies to what it  *)
(* collected, for any contracts, slots and opcodes.                        *)
(***************************************************************************)
EXTENDS Tracer, SequenceTheorems, WellFoundedInduction, TLAPS

Ops == Opcodes \cup StorageOps \cup ExtOps \cup {"CALL", "RETURN", "KECCAK256", "ISZERO", ""}

(* The steps the collector's window holds, and the levels.                 *)
Seen == [title : Roles \cup {None}, op : Ops, at : Address \cup {None}, slot : Slots \cup {None}]

Levels ==
    [title : Roles,
     access : SUBSET ({"reads", "writes", "transientReads", "transientWrites"} \X Address \X Slots),
     opcodes : SUBSET (BannedOpcodes \cup StakedOpcodes),
     create2 : Nat,
     extCodeAccessInfo : SUBSET Address,
     contractSize : SUBSET Address,
     oog : BOOLEAN]

TraceTypes ==
    /\ callsFromEntryPoint \in Seq(Levels)
    /\ keccak \subseteq Address
    /\ lastThreeOpcodes \in Seq(Seen) /\ Len(lastThreeOpcodes) \in 0..3
    /\ \A i \in DOMAIN lastThreeOpcodes :
         lastThreeOpcodes[i].op \in ExtOps => lastThreeOpcodes[i].at \in Address
    /\ stopCollecting \in BOOLEAN
    /\ frames \in Seq(Address)
    /\ accepted \in {None} \cup SUBSET SUBSET Roles

(* What runs was called by the EntryPoint, nothing runs once validation is *)
(* over, and the parser comes after that.                                  *)
RunOK ==
    /\ Running => callsFromEntryPoint # <<>>
    /\ stopCollecting => ~Running
    /\ accepted # None => stopCollecting
    /\ Previous.op = "GAS" => lastOp = "GAS"

(* What the level holds of a step and the one before it.                   *)
Records(level, before, now) ==
    /\ level.title = now.title
    /\ now.op \in StorageOps =>
         \/ <<MapOf[now.op], now.at, now.slot>> \in level.access
         \/ now.op = "SLOAD" /\ Written(level, now.at, now.slot)
    /\ now.op \in Kept => now.op \in level.opcodes
    /\ before.op = "GAS" /\ now.op \notin SpeltLikeCall => "GAS" \in level.opcodes
    /\ now.op = "CREATE2" => level.create2 > 0
    /\ before.op \in ExtOps /\ ~Ends(now) =>
         \/ before.op = "EXTCODESIZE" /\ now.op = "ISZERO"
         \/ before.at \in level.extCodeAccessInfo
    /\ now.op \in ExtOps \cup CallOps /\ now.at \in Undeployed \ Precompiles => now.at \in level.contractSize

(* Nothing that was done is missing from the collection.                   *)
NothingMissed ==
    \A pair \in executed : \E i \in DOMAIN callsFromEntryPoint :
        Records(callsFromEntryPoint[i], pair[1], pair[2])

(* The rules the parser found kept.                                        *)
VerdictStands ==
    accepted # None => \A staked \in accepted : \A i \in DOMAIN callsFromEntryPoint :
        /\ StorageAccepted(callsFromEntryPoint[i], staked)
        /\ OpcodesAccepted(callsFromEntryPoint[i], staked)
        /\ CodeAccepted(callsFromEntryPoint[i])

TraceInv == TraceTypes /\ RunOK /\ NothingMissed /\ VerdictStands

-----------------------------------------------------------------------------
(* A level only grows, and what it holds stays.                            *)
Grows(level, later) ==
    /\ later.title = level.title
    /\ level.access \subseteq later.access
    /\ level.opcodes \subseteq later.opcodes
    /\ level.create2 <= later.create2
    /\ level.extCodeAccessInfo \subseteq later.extCodeAccessInfo
    /\ level.contractSize \subseteq later.contractSize

LEMMA RecordsStay ==
    ASSUME NEW level \in Levels, NEW later \in Levels, Grows(level, later),
           NEW before, NEW now, Records(level, before, now)
    PROVE  Records(later, before, now)
<1>1. level.create2 > 0 => later.create2 > 0
  BY DEF Grows, Levels
<1> QED
  BY <1>1 DEF Grows, Records, Written

LEMMA Maps ==
    /\ MapOf["SLOAD"] = "reads" /\ MapOf["SSTORE"] = "writes"
    /\ MapOf["TLOAD"] = "transientReads" /\ MapOf["TSTORE"] = "transientWrites"
BY DEF MapOf

(* A sequence of one element.                                              *)
LEMMA Single ==
    ASSUME NEW S, NEW x \in S
    PROVE  <<x>> \in Seq(S) /\ Len(<<x>>) = 1 /\ <<x>>[1] = x /\ DOMAIN <<x>> = {1}
<1>1. <<x>> \in [1 .. 1 -> S]
  <2>1. 1 .. 1 = {1}
    OBVIOUS
  <2> QED
    BY <2>1
<1>2. 1 \in Nat
  OBVIOUS
<1>3. <<x>> \in Seq(S)
  BY <1>1, <1>2, IsASeq
<1> QED
  BY <1>3

(* The step function records the step it is called for, after the one that *)
(* came before.                                                            *)
LEMMA CollectRecords ==
    ASSUME TraceTypes, RunOK, Running,
           NEW step \in Seen, step.title = CurrentTitle, step.at \in Address,
           step.op \in StorageOps => step.slot \in Slots,
           NEW oog \in BOOLEAN, Collect(step, oog)
    PROVE  LET n == Len(callsFromEntryPoint)
           IN  /\ n \in DOMAIN callsFromEntryPoint
               /\ callsFromEntryPoint' =
                    [callsFromEntryPoint EXCEPT ![n] = callsFromEntryPoint'[n]]
               /\ callsFromEntryPoint'[n] \in Levels
               /\ Grows(callsFromEntryPoint[n], callsFromEntryPoint'[n])
               /\ \A before \in {Previous, NoStep} :
                    Records(callsFromEntryPoint'[n], before, step)
<1> DEFINE n == Len(callsFromEntryPoint)
           level == callsFromEntryPoint[n]
           later == callsFromEntryPoint'[n]
<1>1. /\ n \in DOMAIN callsFromEntryPoint /\ level \in Levels /\ n \in Nat
      /\ step.title = level.title
  BY DEF TraceTypes, RunOK, CurrentTitle, Last
<1>2. /\ callsFromEntryPoint' = [callsFromEntryPoint EXCEPT ![n] = later]
      /\ later = Recorded(level, step, oog)
  <2>1. callsFromEntryPoint' = [callsFromEntryPoint EXCEPT ![n] = Recorded(level, step, oog)]
    BY DEF Collect
  <2>2. later = Recorded(level, step, oog)
    BY <1>1, <2>1
  <2> QED
    BY <2>1, <2>2
<1> DEFINE access == level.access \cup Accessed(level, step)
           opcodes == level.opcodes \cup Counted(step)
           create2 == IF step.op = "CREATE2" THEN level.create2 + 1 ELSE level.create2
           info == level.extCodeAccessInfo \cup CodeAccessed(step)
           size == level.contractSize \cup Touched(step)
<1>3. Accessed(level, step)
        \subseteq {"reads", "writes", "transientReads", "transientWrites"} \X Address \X Slots
  BY Maps DEF Accessed, StorageOps
<1>4. Counted(step) \subseteq BannedOpcodes \cup StakedOpcodes
  BY DEF Counted, Kept, BannedOpcodes, StakedOpcodes
<1>w. /\ lastThreeOpcodes \in Seq(Seen) /\ Len(lastThreeOpcodes) \in 0..3
      /\ \A i \in DOMAIN lastThreeOpcodes :
           lastThreeOpcodes[i].op \in ExtOps => lastThreeOpcodes[i].at \in Address
  BY DEF TraceTypes
<1>5. \/ lastThreeOpcodes = <<>> /\ Len(Window(step)) = 1 /\ Previous = NoStep
      \/ /\ lastThreeOpcodes # <<>> /\ Len(Window(step)) > 1
         /\ Window(step)[Len(Window(step)) - 1] = Previous
         /\ Previous.op \in ExtOps => Previous.at \in Address
  <2>1. CASE lastThreeOpcodes = <<>>
    BY <1>w, <2>1 DEF Window, Previous
  <2>2. CASE lastThreeOpcodes # <<>>
    <3>1. Len(lastThreeOpcodes) \in DOMAIN lastThreeOpcodes
      BY <1>w, <2>2
    <3>2. Previous = lastThreeOpcodes[Len(lastThreeOpcodes)]
      BY <2>2 DEF Previous, Last
    <3>3. /\ Len(Window(step)) > 1
          /\ Window(step)[Len(Window(step)) - 1] = lastThreeOpcodes[Len(lastThreeOpcodes)]
      BY <1>w, <2>2 DEF Window
    <3> QED
      BY <1>w, <2>2, <3>1, <3>2, <3>3
  <2> QED
    BY <2>1, <2>2
<1>6. CodeAccessed(step) \subseteq Address
  <2> DEFINE window == Window(step)
             seenBefore == window[Len(window) - 1]
  <2>1. CodeAccessed(step) = {} \/ (/\ Len(window) > 1 /\ seenBefore.op \in ExtOps
                                    /\ CodeAccessed(step) = {seenBefore.at})
    BY DEF CodeAccessed
  <2>2. Len(window) > 1 => seenBefore = Previous /\ (Previous.op \in ExtOps => Previous.at \in Address)
    <3>1. ~(1 > 1)
      OBVIOUS
    <3> HIDE DEF seenBefore, window
    <3>2. \/ Len(window) = 1
          \/ seenBefore = Previous /\ (Previous.op \in ExtOps => Previous.at \in Address)
      BY <1>5 DEF seenBefore, window
    <3> QED
      BY <3>1, <3>2
  <2> HIDE DEF seenBefore, window
  <2> QED
    BY <2>1, <2>2
<1>7. Touched(step) \subseteq Address
  BY TracerAssumption DEF Touched
<1>8. /\ later \in Levels /\ later.title = level.title
      /\ later.access = access /\ later.opcodes = opcodes /\ later.create2 = create2
      /\ later.extCodeAccessInfo = info /\ later.contractSize = size
  <2>1. /\ access \in SUBSET ({"reads", "writes", "transientReads", "transientWrites"}
                                \X Address \X Slots)
        /\ opcodes \in SUBSET (BannedOpcodes \cup StakedOpcodes)
        /\ create2 \in Nat /\ info \in SUBSET Address /\ size \in SUBSET Address
        /\ (level.oog \/ oog) \in BOOLEAN
    BY <1>1, <1>3, <1>4, <1>6, <1>7 DEF Levels
  <2> DEFINE failed == level.oog \/ oog
  <2>2. later = [level EXCEPT !.access = access, !.opcodes = opcodes, !.create2 = create2,
                              !.extCodeAccessInfo = info, !.contractSize = size, !.oog = failed]
    BY <1>2 DEF Recorded
  <2>3. failed \in BOOLEAN /\ level \in Levels
    BY <1>1, <2>1
  <2> HIDE DEF level, later, access, opcodes, create2, info, size, failed
  <2> QED
    BY <2>1, <2>2, <2>3 DEF Levels
<1>9. Grows(level, later)
  <2>1. level.create2 <= create2
    BY <1>1 DEF Levels
  <2> HIDE DEF later, level
  <2> QED
    BY <1>8, <2>1 DEF Grows
<1>10. ASSUME NEW before \in {Previous, NoStep}
       PROVE  Records(later, before, step)
  <2>1. later.title = step.title
    BY <1>1, <1>8
  <2>2. step.op \in StorageOps =>
          \/ <<MapOf[step.op], step.at, step.slot>> \in later.access
          \/ step.op = "SLOAD" /\ Written(later, step.at, step.slot)
    BY <1>8 DEF Accessed, Written
  <2>3. step.op \in Kept => step.op \in later.opcodes
    BY <1>8 DEF Counted
  <2>4. before.op = "GAS" /\ step.op \notin SpeltLikeCall => "GAS" \in later.opcodes
    <3>1. before.op = "GAS" => lastOp = "GAS"
      <4>1. NoStep.op # "GAS"
        BY DEF NoStep
      <4>2. Previous.op = "GAS" => lastOp = "GAS"
        BY DEF RunOK
      <4>3. before = Previous \/ before = NoStep
        BY <1>10
      <4> QED
        BY <4>1, <4>2, <4>3
    <3>2. lastOp = "GAS" /\ step.op \notin SpeltLikeCall => "GAS" \in Counted(step)
      BY DEF Counted
    <3> QED
      BY <1>8, <3>1, <3>2
  <2>5. step.op = "CREATE2" => later.create2 > 0
    BY <1>1, <1>8 DEF Levels
  <2>6. before.op \in ExtOps /\ ~Ends(step) =>
          \/ before.op = "EXTCODESIZE" /\ step.op = "ISZERO"
          \/ before.at \in later.extCodeAccessInfo
    <3>1. NoStep.op \notin ExtOps
      BY DEF NoStep, ExtOps
    <3>2. CASE before.op \in ExtOps /\ ~Ends(step) /\ ~(before.op = "EXTCODESIZE" /\ step.op = "ISZERO")
      <4>1. before = Previous /\ Window(step)[Len(Window(step)) - 1] = before /\ Len(Window(step)) > 1
        BY <1>5, <1>10, <3>1, <3>2
      <4>2. CodeAccessed(step) = {before.at}
        BY <3>2, <4>1 DEF CodeAccessed
      <4> QED
        BY <1>8, <4>2
    <3> QED
      BY <3>2
  <2>7. step.op \in ExtOps \cup CallOps /\ step.at \in Undeployed \ Precompiles => step.at \in later.contractSize
    BY <1>8 DEF Touched
  <2> HIDE DEF later
  <2> QED
    BY <2>1, <2>2, <2>3, <2>4, <2>5, <2>6, <2>7 DEF Records
<1> QED
  BY <1>1, <1>2, <1>8, <1>9, <1>10

(* What the step function leaves behind besides.                           *)
LEMMA CollectTypes ==
    ASSUME TraceTypes, RunOK, Running,
           NEW step \in Seen, step.title = CurrentTitle, step.at \in Address,
           step.op \in StorageOps => step.slot \in Slots,
           NEW oog \in BOOLEAN, Collect(step, oog)
    PROVE  /\ callsFromEntryPoint' \in Seq(Levels) /\ callsFromEntryPoint' # <<>>
           /\ DOMAIN callsFromEntryPoint' = DOMAIN callsFromEntryPoint
           /\ keccak' \subseteq Address
           /\ lastThreeOpcodes' \in Seq(Seen) /\ Len(lastThreeOpcodes') \in 0..3
           /\ \A i \in DOMAIN lastThreeOpcodes' :
                lastThreeOpcodes'[i].op \in ExtOps => lastThreeOpcodes'[i].at \in Address
           /\ Previous'.op = "GAS" => lastOp' = "GAS"
<1> DEFINE n == Len(callsFromEntryPoint)
           later == callsFromEntryPoint'[n]
<1>1. /\ callsFromEntryPoint \in Seq(Levels) /\ callsFromEntryPoint # <<>>
      /\ callsFromEntryPoint' = [callsFromEntryPoint EXCEPT ![n] = later]
      /\ later \in Levels
  BY CollectRecords DEF TraceTypes, RunOK
<1>2. /\ callsFromEntryPoint' \in Seq(Levels) /\ callsFromEntryPoint' # <<>>
      /\ DOMAIN callsFromEntryPoint' = DOMAIN callsFromEntryPoint
  <2>1. n \in 1 .. Len(callsFromEntryPoint)
    BY <1>1
  <2> HIDE DEF n, later
  <2>2. /\ callsFromEntryPoint' \in Seq(Levels)
        /\ Len(callsFromEntryPoint') = Len(callsFromEntryPoint)
    BY <1>1, <2>1, ExceptSeq
  <2> QED
    BY <1>1, <2>2
<1>3. keccak' \subseteq Address
  BY DEF Collect, TraceTypes
<1>4. /\ lastThreeOpcodes \in Seq(Seen) /\ Len(lastThreeOpcodes) \in 0..3
      /\ \A i \in DOMAIN lastThreeOpcodes :
           lastThreeOpcodes[i].op \in ExtOps => lastThreeOpcodes[i].at \in Address
      /\ lastThreeOpcodes' = IF Ends(step) THEN <<>> ELSE Window(step)
      /\ lastOp' = step.op
  BY DEF TraceTypes, Collect
<1> DEFINE longer == Append(lastThreeOpcodes, step)
<1>5. /\ longer \in Seq(Seen) /\ Len(longer) \in 1..4 /\ longer[Len(longer)] = step
      /\ \A i \in DOMAIN longer : longer[i].op \in ExtOps => longer[i].at \in Address
  BY <1>4
<1>6. /\ Window(step) \in Seq(Seen) /\ Len(Window(step)) \in 1..3
      /\ Window(step)[Len(Window(step))] = step
      /\ \A i \in DOMAIN Window(step) :
           Window(step)[i].op \in ExtOps => Window(step)[i].at \in Address
  <2> HIDE DEF longer
  <2>1. CASE Len(longer) > 3
    <3>1. Window(step) = Tail(longer)
      BY <2>1 DEF Window, longer
    <3> QED
      BY <1>5, <2>1, <3>1
  <2>2. CASE ~(Len(longer) > 3)
    <3>1. Window(step) = longer
      BY <2>2 DEF Window, longer
    <3> QED
      BY <1>5, <2>2, <3>1
  <2> QED
    BY <2>1, <2>2
<1>7. Previous'.op = "GAS" => lastOp' = "GAS"
  <2>1. CASE Ends(step)
    BY <1>4, <2>1 DEF Previous, NoStep
  <2>2. CASE ~Ends(step)
    <3>0. Window(step) # <<>>
      <4>1. \A k \in 1..3 : k # 0
        OBVIOUS
      <4>2. Len(Window(step)) \in 1..3
        BY <1>6
      <4>3. Len(Window(step)) # 0
        BY <4>1, <4>2
      <4> HIDE DEF later, longer, n
      <4> QED
        BY <4>3, EmptySeq
    <3>1. lastThreeOpcodes' = Window(step) /\ Window(step) # <<>>
      BY <1>4, <3>0, <2>2
    <3>2. Previous' = step
      BY <1>6, <3>1 DEF Previous, Last
    <3> QED
      BY <1>4, <3>2
  <2> QED
    BY <2>1, <2>2
<1>8. /\ lastThreeOpcodes' \in Seq(Seen) /\ Len(lastThreeOpcodes') \in 0..3
      /\ \A i \in DOMAIN lastThreeOpcodes' :
           lastThreeOpcodes'[i].op \in ExtOps => lastThreeOpcodes'[i].at \in Address
  BY <1>4, <1>6
<1> QED
  BY <1>2, <1>3, <1>7, <1>8

(* Any step of an entity, or of a contract it runs.                        *)
LEMMA EntityStep ==
    ASSUME TraceInv,
           NEW step \in Seen, step.title = CurrentTitle, step.at \in Address,
           step.op \in StorageOps => step.slot \in Slots,
           NEW taken, taken.title = step.title, taken.op = step.op, taken.at = step.at,
           step.op \in StorageOps => taken.slot = step.slot,
           NEW oog \in BOOLEAN, Took(taken), Collect(step, oog),
           frames' \in Seq(Address), accepted' = accepted
    PROVE  TraceInv'
<1>1. /\ TraceTypes /\ RunOK /\ Running
      /\ ~stopCollecting /\ stopCollecting' = stopCollecting /\ accepted = None
  BY DEF TraceInv, Took, RunOK, Collect
<1>2. TraceTypes' /\ RunOK'
  <2>1. TraceTypes'
    BY <1>1, CollectTypes DEF TraceTypes
  <2>2. RunOK'
    BY <1>1, CollectTypes DEF RunOK
  <2> QED
    BY <2>1, <2>2
<1>3. NothingMissed'
  <2> DEFINE n == Len(callsFromEntryPoint)
             later == callsFromEntryPoint'[n]
  <2>1. /\ n \in DOMAIN callsFromEntryPoint
        /\ callsFromEntryPoint' = [callsFromEntryPoint EXCEPT ![n] = later]
        /\ later \in Levels /\ Grows(callsFromEntryPoint[n], later)
        /\ \A before \in {Previous, NoStep} : Records(later, before, step)
    BY <1>1, CollectRecords
  <2>2. /\ \A i \in DOMAIN callsFromEntryPoint : callsFromEntryPoint[i] \in Levels
        /\ DOMAIN callsFromEntryPoint' = DOMAIN callsFromEntryPoint
    BY <1>1, CollectTypes DEF TraceTypes
  <2>3. \A before \in {Previous, NoStep} : Records(later, before, taken)
    <3> HIDE DEF later
    <3> QED
      BY <2>1 DEF Records, Ends
  <2>4. ASSUME NEW pair \in executed
        PROVE  \E i \in DOMAIN callsFromEntryPoint' :
                 Records(callsFromEntryPoint'[i], pair[1], pair[2])
    <3>1. PICK i \in DOMAIN callsFromEntryPoint : Records(callsFromEntryPoint[i], pair[1], pair[2])
      BY DEF TraceInv, NothingMissed
    <3>2. Records(callsFromEntryPoint'[i], pair[1], pair[2])
      <4>1. CASE i = n
        BY <2>1, <2>2, <3>1, <4>1, RecordsStay
      <4>2. CASE i # n
        BY <2>1, <3>1, <4>2
      <4> QED
        BY <4>1, <4>2
    <3> QED
      BY <2>2, <3>2
  <2>5. ASSUME NEW pair \in executed', pair \notin executed
        PROVE  \E i \in DOMAIN callsFromEntryPoint' :
                 Records(callsFromEntryPoint'[i], pair[1], pair[2])
    <3>1. pair = <<Previous, taken>> \/ pair = <<NoStep, taken>>
      BY <2>5 DEF Took
    <3>2. Records(later, pair[1], pair[2])
      BY <2>3, <3>1
    <3> QED
      BY <2>1, <2>2, <3>2
  <2> QED
    BY <2>4, <2>5 DEF NothingMissed
<1> QED
  BY <1>1, <1>2, <1>3 DEF TraceInv, VerdictStands

LEMMA TopLevelStep ==
    ASSUME TraceInv, NEW title \in Roles, TopLevelCall(title)
    PROVE  TraceInv'
<1>0. TraceTypes /\ RunOK /\ NothingMissed
  BY DEF TraceInv
<1>1. NewLevel(title) \in Levels
  BY DEF NewLevel, Levels
<1>2. /\ callsFromEntryPoint' = Append(callsFromEntryPoint, NewLevel(title))
      /\ callsFromEntryPoint \in Seq(Levels)
  BY <1>0 DEF TopLevelCall, TraceTypes
<1>3. /\ callsFromEntryPoint' \in Seq(Levels) /\ callsFromEntryPoint' # <<>>
      /\ \A i \in DOMAIN callsFromEntryPoint :
           i \in DOMAIN callsFromEntryPoint' /\ callsFromEntryPoint'[i] = callsFromEntryPoint[i]
  BY <1>1, <1>2
<1>4. /\ lastThreeOpcodes' = <<NoStep>> /\ NoStep \in Seen /\ NoStep.op = ""
      /\ frames' = <<title>> /\ title \in Address
      /\ UNCHANGED <<keccak, stopCollecting, accepted, executed>> /\ ~stopCollecting
  BY DEF TopLevelCall, NoStep, Seen, Ops, Address
<1>5. Previous'.op = ""
  BY <1>4 DEF Previous, Last
<1>6. TraceTypes'
  <2>1. /\ <<NoStep>> \in Seq(Seen) /\ Len(<<NoStep>>) \in 0..3
        /\ \A i \in DOMAIN <<NoStep>> : <<NoStep>>[i] = NoStep
    <3>1. /\ <<NoStep>> \in Seq(Seen) /\ Len(<<NoStep>>) = 1
          /\ DOMAIN <<NoStep>> = {1} /\ <<NoStep>>[1] = NoStep
      BY <1>4, Single
    <3>2. 1 \in 0..3
      OBVIOUS
    <3> QED
      BY <3>1, <3>2
  <2>2. NoStep.op \notin ExtOps
    BY <1>4 DEF ExtOps
  <2>3. <<title>> \in Seq(Address)
    BY <1>4, Single
  <2> QED
    BY <1>0, <1>3, <1>4, <2>1, <2>2, <2>3 DEF TraceTypes
<1>7. RunOK'
  BY <1>0, <1>3, <1>4, <1>5 DEF RunOK
<1>8. NothingMissed'
  BY <1>0, <1>3, <1>4 DEF NothingMissed
<1> QED
  BY <1>0, <1>4, <1>6, <1>7, <1>8 DEF TraceInv, VerdictStands, RunOK

(* The parser's verdict, and the end of validation before it.              *)
LEMMA VerdictStep ==
    ASSUME TraceInv, BeforeExecution \/ Parse \/ UNCHANGED vars
    PROVE  TraceInv'
<1>0. TraceTypes /\ RunOK /\ NothingMissed /\ VerdictStands
  BY DEF TraceInv
<1>1. UNCHANGED <<callsFromEntryPoint, keccak, lastOp, lastThreeOpcodes, frames, executed>>
  BY DEF BeforeExecution, Parse, vars, collected
<1>2. NothingMissed'
  BY <1>0, <1>1 DEF NothingMissed
<1>3. CASE BeforeExecution
  BY <1>0, <1>1, <1>2, <1>3
     DEF BeforeExecution, TraceInv, TraceTypes, RunOK, VerdictStands, Running, Previous
<1>4. CASE Parse
  <2>1. /\ accepted' = {staked \in SUBSET Roles : Accepts(staked)}
        /\ stopCollecting' = stopCollecting /\ stopCollecting
    BY <1>4 DEF Parse
  <2>2. TraceTypes' /\ RunOK'
    BY <1>0, <1>1, <2>1 DEF TraceTypes, RunOK, Running, Previous
  <2>3. ASSUME NEW staked \in accepted', NEW i \in DOMAIN callsFromEntryPoint
        PROVE  /\ StorageAccepted(callsFromEntryPoint[i], staked)
               /\ OpcodesAccepted(callsFromEntryPoint[i], staked)
               /\ CodeAccepted(callsFromEntryPoint[i])
    BY <2>1 DEF Accepts
  <2>4. VerdictStands'
    BY <1>1, <2>3
       DEF VerdictStands, StorageAccepted, OpcodesAccepted, CodeAccepted, Demand, AssociatedWith,
           HasFactory, Entered, WrittenIn
  <2> QED
    BY <1>2, <2>2, <2>4 DEF TraceInv
<1>5. CASE UNCHANGED vars
  <2>1. TraceTypes' /\ RunOK'
    BY <1>0, <1>5 DEF vars, collected, TraceTypes, RunOK, Running, Previous
  <2>2. VerdictStands'
    BY <1>0, <1>5
       DEF vars, collected, VerdictStands, StorageAccepted, OpcodesAccepted, CodeAccepted, Demand,
           AssociatedWith, HasFactory, Entered, WrittenIn
  <2> QED
    BY <1>2, <2>1, <2>2 DEF TraceInv
<1> QED
  BY <1>3, <1>4, <1>5

LEMMA TraceInvStep == TraceInv /\ [TracerNext]_vars => TraceInv'
<1> SUFFICES ASSUME TraceInv, [TracerNext]_vars
             PROVE  TraceInv'
  OBVIOUS
<1>0. TraceTypes /\ RunOK
  BY DEF TraceInv
<1>r. ASSUME Running
      PROVE  /\ Self \in Address /\ CurrentTitle \in Roles
             /\ Front(frames) \in Seq(Address)
  <2>1. /\ frames \in Seq(Address) /\ frames # <<>>
        /\ callsFromEntryPoint \in Seq(Levels) /\ callsFromEntryPoint # <<>>
    BY <1>0, <1>r DEF TraceTypes, RunOK, Running
  <2>2. callsFromEntryPoint[Len(callsFromEntryPoint)] \in Levels
    BY <2>1
  <2>3. frames[Len(frames)] \in Address /\ SubSeq(frames, 1, Len(frames) - 1) \in Seq(Address)
    BY <2>1
  <2> QED
    BY <2>2, <2>3 DEF Self, CurrentTitle, Last, Front, Levels
<1>s. ASSUME Running, NEW op \in Ops, NEW at \in Address, NEW slot \in Slots \cup {None}
      PROVE  /\ Step(op, at, slot) \in Seen /\ Step(op, at, slot).title = CurrentTitle
             /\ Step(op, at, slot).op = op /\ Step(op, at, slot).at = at
             /\ Step(op, at, slot).slot = slot
  BY <1>r, <1>s DEF Step, Seen
<1>f. frames \in Seq(Address)
  BY <1>0 DEF TraceTypes
<1>e. ASSUME Running, NEW op \in Ops, NEW at \in Address, NEW slot \in Slots \cup {None},
             op \in StorageOps => slot \in Slots, NEW oog \in BOOLEAN,
             Took(Step(op, at, slot)), Collect(Step(op, at, slot), oog),
             frames' \in Seq(Address), accepted' = accepted
      PROVE  TraceInv'
  <2> DEFINE step == Step(op, at, slot)
  <2>1. /\ step \in Seen /\ step.title = CurrentTitle /\ step.at \in Address
        /\ step.op \in StorageOps => step.slot \in Slots
    BY <1>e, <1>s
  <2>2. Took(step) /\ Collect(step, oog) /\ frames' \in Seq(Address) /\ accepted' = accepted
    BY <1>e
  <2> HIDE DEF step
  <2> QED
    BY <2>1, <2>2, EntityStep
<1>1. ASSUME NEW op \in Opcodes \cup {"ISZERO"}, NEW oog \in BOOLEAN, Simple(op, oog)
      PROVE  TraceInv'
  <2>1. /\ Running /\ op \in Ops /\ op \notin StorageOps
        /\ Took(Step(op, Self, None)) /\ Collect(Step(op, Self, None), oog)
        /\ frames' = frames /\ accepted' = accepted
    BY <1>1, TracerAssumption DEF Simple, Took, Ops, StorageOps
  <2> QED
    BY <1>e, <1>f, <1>r, <2>1
<1>2. ASSUME NEW op \in StorageOps, NEW slot \in Slots, Storage(op, slot)
      PROVE  TraceInv'
  <2>1. /\ Running /\ op \in Ops
        /\ Took(Step(op, Self, slot)) /\ Collect(Step(op, Self, slot), FALSE)
        /\ frames' = frames /\ accepted' = accepted
    BY <1>2 DEF Storage, Ops
  <2> QED
    BY <1>e, <1>f, <1>r, <2>1
<1>3. ASSUME NEW op \in ExtOps, NEW addr \in Inspected, LookAtCode(op, addr)
      PROVE  TraceInv'
  <2>1. /\ Running /\ op \in Ops /\ op \notin StorageOps /\ addr \in Address
        /\ Took(Step(op, addr, None)) /\ Collect(Step(op, addr, None), FALSE)
        /\ frames' = frames /\ accepted' = accepted
    BY <1>3, TracerAssumption DEF LookAtCode, Took, Ops, StorageOps, ExtOps, Address
  <2> QED
    BY <1>e, <1>f, <2>1
<1>4. ASSUME NEW addr \in Hashed, Hash(addr)
      PROVE  TraceInv'
  <2>1. /\ Running /\ "KECCAK256" \in Ops /\ "KECCAK256" \notin StorageOps /\ addr \in Address
        /\ Took(Step("KECCAK256", addr, None)) /\ Collect(Step("KECCAK256", addr, None), FALSE)
        /\ frames' = frames /\ accepted' = accepted
    BY <1>4, TracerAssumption DEF Hash, Took, Ops, StorageOps, Hashed
  <2> QED
    BY <1>e, <1>f, <2>1
<1>5. ASSUME NEW c \in Callable, Call(c[1], c[2], c[3])
      PROVE  TraceInv'
  <2> DEFINE step == Step("CALL", c[1], None)
             taken == [step EXCEPT !.slot = <<c[2], c[3]>>]
  <2>1. c[1] \in Address /\ "CALL" \in Ops /\ "CALL" \notin StorageOps
    BY TracerAssumption DEF Address, Ops, StorageOps
  <2>2. /\ Running /\ Took(taken) /\ Collect(step, FALSE)
        /\ frames' = Append(frames, c[1]) /\ accepted' = accepted
    BY <1>5 DEF Call, Took
  <2>3. taken.title = step.title /\ taken.op = step.op /\ taken.at = step.at
    BY DEF Step
  <2>4. frames' \in Seq(Address)
    BY <1>0, <2>1, <2>2 DEF TraceTypes
  <2>5. step \in Seen /\ step.title = CurrentTitle /\ step.at \in Address /\ step.op \notin StorageOps
    BY <1>s, <2>1, <2>2
  <2> HIDE DEF step, taken
  <2> QED
    BY <2>2, <2>3, <2>4, <2>5, EntityStep
<1>6. CASE Return
  <2>1. /\ Running /\ "RETURN" \in Ops /\ "RETURN" \notin StorageOps
        /\ Took(Step("RETURN", Self, None)) /\ Collect(Step("RETURN", Self, None), FALSE)
        /\ frames' = Front(frames) /\ accepted' = accepted
    BY <1>6 DEF Return, Took, Ops, StorageOps
  <2> QED
    BY <1>e, <1>r, <2>1
<1> QED
  BY <1>1, <1>2, <1>3, <1>4, <1>5, <1>6, TopLevelStep, VerdictStep DEF TracerNext

LEMMA TraceInvInit == TracerInit => TraceInv
<1> SUFFICES ASSUME TracerInit PROVE TraceInv
  OBVIOUS
<1>1. TraceTypes
  <2>1. Len(<<>>) \in 0..3 /\ <<>> \in Seq(Seen) /\ DOMAIN <<>> = {}
    OBVIOUS
  <2>2. <<>> \in Seq(Levels) /\ <<>> \in Seq(Address)
    OBVIOUS
  <2> QED
    BY <2>1, <2>2 DEF TracerInit, TraceTypes
<1>2. RunOK
  BY DEF TracerInit, RunOK, Running, Previous, NoStep
<1> QED
  BY <1>1, <1>2 DEF TraceInv, TracerInit, NothingMissed, VerdictStands

LEMMA TraceInvHolds == TracerSpec => []TraceInv
BY TraceInvInit, TraceInvStep, PTL DEF TracerSpec

-----------------------------------------------------------------------------
(* What the EVM's addresses, the levels of the entities, the window of      *)
(* three opcodes and the verdict are, for any contracts and accesses.      *)
THEOREM TracerTypeCorrect == TracerSpec => []TracerTypeOK
<1>1. TraceInv => TracerTypeOK
  <2> SUFFICES ASSUME TraceInv PROVE TracerTypeOK
    OBVIOUS
  <2>0. TraceTypes
    BY DEF TraceInv
  <2>1. ASSUME NEW i \in DOMAIN callsFromEntryPoint
        PROVE  callsFromEntryPoint[i] \in Levels
    BY <2>0, <2>1 DEF TraceTypes
  <2>2. ToSet(frames) \subseteq Address
    BY <2>0 DEF TraceTypes, ToSet
  <2>3. Len(lastThreeOpcodes) <= 3
    BY <2>0 DEF TraceTypes
  <2> QED
    BY <2>0, <2>1, <2>2, <2>3 DEF TraceTypes, TracerTypeOK, Levels
<1> QED
  BY <1>1, TraceInvHolds, PTL

(* A storage opcode left its slot in the accesses the parser looked at.    *)
LEMMA SlotWasJudged ==
    ASSUME TraceInv, Judged, NEW staked \in accepted, NEW s \in Taken,
           s.op \in StorageOps, s.at \notin {Sender, EntryPoint}
    PROVE  \E level \in Levels :
             /\ level.title = s.title /\ s.slot \in Slots
             /\ s.op \in {"SSTORE", "TSTORE"} => WrittenIn(level, s.at, s.slot)
             /\ \/ Demand(level, s.at, s.slot, staked) = "nothing"
                \/ Demand(level, s.at, s.slot, staked) = "stake" /\ s.title \in staked
<1>1. PICK pair \in executed : s = pair[2]
  BY DEF Taken
<1>2. PICK i \in DOMAIN callsFromEntryPoint : Records(callsFromEntryPoint[i], pair[1], pair[2])
  BY DEF TraceInv, NothingMissed
<1> DEFINE level == callsFromEntryPoint[i]
<1>3. level \in Levels /\ StorageAccepted(level, staked)
  BY <1>2 DEF TraceInv, TraceTypes, VerdictStands, Judged
<1>4. Records(level, pair[1], s)
  BY <1>1, <1>2
<1> HIDE DEF level
<1>5. PICK m \in {"reads", "writes", "transientReads", "transientWrites"} :
        /\ <<m, s.at, s.slot>> \in level.access
        /\ s.op = "SSTORE" => m = "writes"
        /\ s.op = "TSTORE" => m = "transientWrites"
  BY <1>4, Maps DEF Records, Written, StorageOps
<1>6. s.slot \in Slots
  BY <1>3, <1>5 DEF Levels
<1>7. \/ Demand(level, s.at, s.slot, staked) = "nothing"
      \/ Demand(level, s.at, s.slot, staked) = "stake" /\ level.title \in staked
  BY <1>3, <1>5 DEF StorageAccepted
<1>8. level.title = s.title
  BY <1>4 DEF Records
<1>9. s.op \in {"SSTORE", "TSTORE"} => WrittenIn(level, s.at, s.slot)
  BY <1>5 DEF WrittenIn
<1> QED
  BY <1>3, <1>6, <1>7, <1>8, <1>9

(* A slot is in a structure hashed from an address exactly when the parser *)
(* associates the two.                                                     *)
LEMMA StructureIsAssociated ==
    ASSUME NEW slot \in Slots, NEW addr
    PROVE  OfStructure(slot, addr) <=> AssociatedWith(slot, addr)
<1>1. slot.offset \in Nat \cup {-1}
  BY TracerAssumption
<1>2. slot.offset \in 0 .. 127 <=> slot.offset # -1 /\ slot.offset < 128
  BY <1>1
<1> QED
  BY <1>2 DEF OfStructure, AssociatedWith, StructureSize

(* Accepted entities kept to the storage rules, whatever they executed in   *)
(* whatever order: nothing they accessed is missing from the collection,    *)
(* reads of slots already written apart, and the parser saw all of it.     *)
THEOREM StorageRulesAreKept == TracerSpec => []StorageRulesHold
<1>1. TraceInv => StorageRulesHold
  <2> SUFFICES ASSUME TraceInv, Judged, NEW staked \in accepted
               PROVE  OwnStorageOnly(staked) /\ CreationIsStaked(staked)
    BY DEF StorageRulesHold
  <2>1. ASSUME NEW s \in Taken, s.op \in StorageOps, s.at \notin {Sender, EntryPoint},
               ~OfStructure(s.slot, Sender)
        PROVE  /\ s.title \in staked
               /\ s.op \in {"SSTORE", "TSTORE"} => s.at = s.title \/ OfStructure(s.slot, s.title)
    <3>1. PICK level \in Levels :
             /\ level.title = s.title /\ s.slot \in Slots
             /\ s.op \in {"SSTORE", "TSTORE"} => WrittenIn(level, s.at, s.slot)
             /\ \/ Demand(level, s.at, s.slot, staked) = "nothing"
                \/ Demand(level, s.at, s.slot, staked) = "stake" /\ s.title \in staked
      BY <2>1, SlotWasJudged
    <3>2. ~AssociatedWith(s.slot, Sender)
      BY <2>1, <3>1, StructureIsAssociated
    <3>3. Demand(level, s.at, s.slot, staked) =
            IF AssociatedWith(s.slot, level.title) \/ s.at = level.title
                 \/ ~WrittenIn(level, s.at, s.slot)
            THEN "stake" ELSE "forbidden"
      BY <3>2 DEF Demand
    <3>4. s.title \in staked
      BY <3>1, <3>3
    <3>5. s.op \in {"SSTORE", "TSTORE"} => AssociatedWith(s.slot, s.title) \/ s.at = s.title
      BY <3>1, <3>3
    <3> QED
      BY <3>1, <3>4, <3>5, StructureIsAssociated
  <2>2. ASSUME HasFactory, NEW s \in Taken, s.op \in StorageOps, s.at \notin {Sender, EntryPoint}
        PROVE  s.title \in staked \/ (s.title = Sender /\ "factory" \in staked)
    <3>1. PICK level \in Levels :
             /\ level.title = s.title
             /\ \/ Demand(level, s.at, s.slot, staked) = "nothing"
                \/ Demand(level, s.at, s.slot, staked) = "stake" /\ s.title \in staked
      BY <2>2, SlotWasJudged
    <3>2. Demand(level, s.at, s.slot, staked) = "nothing" =>
            level.title = Sender /\ "factory" \in staked
      BY <2>2 DEF Demand
    <3> QED
      BY <3>1, <3>2
  <2> QED
    BY <2>1, <2>2 DEF OwnStorageOnly, CreationIsStaked
<1> QED
  BY <1>1, TraceInvHolds, PTL

(* What the levels hold of the opcodes is what the entities executed.      *)
LEMMA OpcodesAreKept ==
    ASSUME TraceInv, Judged, NEW staked \in accepted
    PROVE  OpcodesKept(staked)
<1> SUFFICES ASSUME NEW pair \in executed
             PROVE  LET before == pair[1]  now == pair[2]
                    IN  /\ now.op \notin BannedOpcodes \ {"GAS"}
                        /\ now.op \in StakedOpcodes => now.title \in staked
                        /\ before.op = "GAS" => now.op \in CallOps \/ now.op \in TakenForCalls
                        /\ now.op = "CREATE2" => now.title = "factory"
                        /\ before.op \in ExtOps /\ before.at = EntryPoint /\ ~Ends(now) =>
                               before.op = "EXTCODESIZE" /\ now.op = "ISZERO"
                        /\ now.op \in ExtOps \cup CallOps =>
                               now.at \notin Undeployed \ (Precompiles \cup {Sender})
  BY DEF OpcodesKept
<1> DEFINE before == pair[1]
           now == pair[2]
<1>1. PICK i \in DOMAIN callsFromEntryPoint : Records(callsFromEntryPoint[i], before, now)
  BY DEF TraceInv, NothingMissed
<1> DEFINE level == callsFromEntryPoint[i]
<1>2. level \in Levels /\ OpcodesAccepted(level, staked) /\ CodeAccepted(level)
  BY <1>1 DEF TraceInv, TraceTypes, VerdictStands, Judged
<1>3. Records(level, before, now)
  BY <1>1
<1> HIDE DEF level, before, now
<1>4. now.op \notin BannedOpcodes \ {"GAS"}
  BY <1>2, <1>3 DEF Records, OpcodesAccepted, Kept
<1>5. now.op \in StakedOpcodes => now.title \in staked
  BY <1>2, <1>3 DEF Records, OpcodesAccepted, Kept
<1>6. before.op = "GAS" => now.op \in CallOps \/ now.op \in TakenForCalls
  BY <1>2, <1>3 DEF Records, OpcodesAccepted, BannedOpcodes, SpeltLikeCall
<1>7. now.op = "CREATE2" => now.title = "factory"
  BY <1>2, <1>3 DEF Records, OpcodesAccepted, Levels
<1>8. before.op \in ExtOps /\ before.at = EntryPoint /\ ~Ends(now) =>
        before.op = "EXTCODESIZE" /\ now.op = "ISZERO"
  BY <1>2, <1>3 DEF Records, CodeAccepted
<1>9. now.op \in ExtOps \cup CallOps => now.at \notin Undeployed \ (Precompiles \cup {Sender})
  BY <1>2, <1>3 DEF Records, CodeAccepted
<1> QED
  BY <1>4, <1>5, <1>6, <1>7, <1>8, <1>9 DEF before, now

-----------------------------------------------------------------------------
(* parseCallStack pairs each frame that is left with the last one entered.  *)
(* It is a fold over all the frames; what it computes follows from the     *)
(* least number principle.                                                 *)

(* Every set of numbers that is not empty has a least member.              *)
LEMMA LeastNatural ==
    ASSUME NEW T \in SUBSET Nat, T # {}
    PROVE  \E n \in T : \A m \in T : n <= m
<1> DEFINE R == OpToRel(<, Nat)
<1>1. IsWellFoundedOn(R, Nat)
  BY NatLessThanWellFounded
<1>2. \A m, n \in Nat : <<m, n>> \in R <=> m < n
  BY DEF OpToRel
<1> HIDE DEF R
<1>3. PICK n \in T : \A m \in T : ~(<<m, n>> \in R)
  BY <1>1, WFMin
<1>4. ASSUME NEW m \in T PROVE n <= m
  <2>1. ~(m < n) /\ m \in Nat /\ n \in Nat
    BY <1>2, <1>3
  <2> QED
    BY <2>1
<1> QED
  BY <1>4

(* So a set of numbers that has 0 and with each the next has them all.     *)
LEMMA Induction ==
    ASSUME NEW T, 0 \in T, \A n \in Nat : n \in T => n + 1 \in T
    PROVE  Nat \subseteq T
<1>1. SUFFICES ASSUME Nat \ T # {} PROVE FALSE
  OBVIOUS
<1>2. PICK n \in Nat \ T : \A m \in Nat \ T : n <= m
  BY <1>1, LeastNatural
<1>3. n - 1 \in Nat /\ n - 1 \notin Nat \ T
  BY <1>2
<1> QED
  BY <1>2, <1>3

(* A set of places that is not empty has a last one.                       *)
LEMMA LastPlace ==
    ASSUME NEW k \in Nat, NEW D \in SUBSET (1..k), D # {}
    PROVE  Max(D) \in D /\ \A i \in D : i <= Max(D)
<1> DEFINE T == {k - i : i \in D}
<1>1. T \in SUBSET Nat /\ T # {}
  <2>1. \A i \in D : k - i \in Nat
    OBVIOUS
  <2> QED
    BY <2>1
<1>2. PICK n \in T : \A m \in T : n <= m
  <2> HIDE DEF T
  <2> QED
    BY <1>1, LeastNatural
<1>3. PICK x \in D : n = k - x
  BY <1>2
<1>4. ASSUME NEW i \in D
      PROVE  x >= i
  <2>1. k - i \in T /\ i \in Nat /\ x \in Nat
    BY <1>3
  <2>2. k - x <= k - i
    BY <1>2, <1>3, <2>1
  <2> QED
    BY <2>1, <2>2
<1>5. \E y \in D : \A i \in D : y >= i
  BY <1>3, <1>4
<1>6. Max(D) \in D /\ \A i \in D : Max(D) >= i
  BY <1>5 DEF Max
<1> QED
  BY <1>6

(* Without it the others are earlier.                                      *)
LEMMA AllButLast ==
    ASSUME NEW n \in Nat, NEW d \in SUBSET (1..(n + 1)), d # {}
    PROVE  Max(d) \in 1..(n + 1) /\ d \ {Max(d)} \in SUBSET (1..n)
<1> DEFINE m == Max(d)
<1>1. m \in d /\ \A i \in d : i <= m
  <2>1. n + 1 \in Nat
    OBVIOUS
  <2> QED
    BY <2>1, LastPlace
<1> HIDE DEF m
<1>2. ASSUME NEW i \in d \ {m}
      PROVE  i \in 1..n
  <2>1. i \in 1..(n + 1) /\ m \in 1..(n + 1) /\ i <= m /\ i # m
    BY <1>1
  <2> QED
    BY <2>1
<1>3. m \in 1..(n + 1) /\ d \ {m} \in SUBSET (1..n)
  BY <1>1, <1>2
<1> QED
  BY <1>3 DEF m

(* parseCallStack for one frame.                                           *)
Pairing(acc, c) ==
    IF c.type = "RETURN"
    THEN [stack |-> Front(acc.stack), out |-> acc.out \cup {Last(acc.stack)}]
    ELSE [acc EXCEPT !.stack = Append(@, c)]

NoCalls == [stack |-> <<>>, out |-> {}]

(* The pairing of the frames at some places, as it unfolds.                *)
Pairs(g, D, s) ==
    g = [d \in D |-> IF d = {} THEN NoCalls
                     ELSE LET i == Max(d) IN Pairing(g[d \ {i}], s[i])]

(* The pairing of all of them.                                             *)
Paired(s) == (CHOOSE g : Pairs(g, SUBSET DOMAIN s, s))[DOMAIN s]

(* What parseCallStack returns.                                            *)
LEMMA CallStackIsPaired == CallStack = Paired(calls).out
BY DEF CallStack, Paired, FoldLeft, MapThenFoldSet, Pairs, Pairing, NoCalls

(* The pairing unfolds at each set of its domain.                          *)
LEMMA PairsAt ==
    ASSUME NEW D, NEW s, NEW g, Pairs(g, D, s)
    PROVE  \A d \in D : g[d] = IF d = {} THEN NoCalls ELSE Pairing(g[d \ {Max(d)}], s[Max(d)])
BY DEF Pairs

(* There is one of any number of frames.                                   *)
LEMMA PairsExists ==
    ASSUME NEW k \in Nat, NEW s
    PROVE  \E g : Pairs(g, SUBSET (1..k), s)
<1> DEFINE T == {n \in Nat : \E g : Pairs(g, SUBSET (1..n), s)}
<1>1. 0 \in T
  <2> DEFINE g == [d \in SUBSET (1..0) |-> NoCalls]
  <2>1. \A d \in SUBSET (1..0) : d = {}
    OBVIOUS
  <2>2. Pairs(g, SUBSET (1..0), s)
    BY <2>1 DEF Pairs
  <2> QED
    BY <2>2
<1>2. ASSUME NEW n \in Nat, n \in T
      PROVE  n + 1 \in T
  <2>1. PICK g : Pairs(g, SUBSET (1..n), s)
    BY <1>2
  <2> DEFINE Small == SUBSET (1..n)
             Large == SUBSET (1..(n + 1))
             h == [d \in Large |-> IF d = {} THEN NoCalls
                                   ELSE Pairing(g[d \ {Max(d)}], s[Max(d)])]
  <2>2. ASSUME NEW d \in Small
        PROVE  d \in Large /\ h[d] = g[d]
    <3>1. d \in Large
      OBVIOUS
    <3>2. g[d] = IF d = {} THEN NoCalls ELSE Pairing(g[d \ {Max(d)}], s[Max(d)])
      <4>0. Pairs(g, Small, s) /\ d \in Small
        BY <2>1, <2>2
      <4> HIDE DEF Small
      <4>1. \A e \in Small : g[e] = IF e = {} THEN NoCalls ELSE Pairing(g[e \ {Max(e)}], s[Max(e)])
        BY <4>0, PairsAt
      <4> QED
        BY <4>0, <4>1
    <3> HIDE DEF Small, Large
    <3>3. h[d] = IF d = {} THEN NoCalls ELSE Pairing(g[d \ {Max(d)}], s[Max(d)])
      BY <3>1
    <3> HIDE DEF h
    <3> QED
      BY <3>1, <3>2, <3>3
  <2>3. ASSUME NEW d \in Large, d # {}
        PROVE  d \ {Max(d)} \in Small
    BY <2>3, AllButLast
  <2>4. ASSUME NEW d \in Large
        PROVE  h[d] = IF d = {} THEN NoCalls ELSE Pairing(h[d \ {Max(d)}], s[Max(d)])
    <3>1. d # {} => h[d \ {Max(d)}] = g[d \ {Max(d)}]
      <4> HIDE DEF h, Small, Large
      <4> QED
        BY <2>2, <2>3
    <3> HIDE DEF Small, Large
    <3> QED
      BY <3>1
  <2>5. Pairs(h, Large, s)
    <3>1. h = [d \in Large |-> h[d]]
      OBVIOUS
    <3> HIDE DEF h, Small, Large
    <3> QED
      BY <2>4, <3>1 DEF Pairs
  <2> HIDE DEF h
  <2> QED
    BY <2>5
<1>3. k \in T
  <2> HIDE DEF T
  <2> QED
    BY <1>1, <1>2, Induction
<1> QED
  BY <1>3

(* What the frames so far pair to does not depend on those to come.        *)
LEMMA PairsAgree ==
    ASSUME NEW k \in Nat, NEW s, NEW t, \A i \in 1..k : s[i] = t[i],
           NEW D, NEW E, SUBSET (1..k) \subseteq D, SUBSET (1..k) \subseteq E,
           NEW g, Pairs(g, D, s), NEW h, Pairs(h, E, t)
    PROVE  g[1..k] = h[1..k]
<1> DEFINE T == {n \in Nat : n <= k => \A d \in SUBSET (1..n) : g[d] = h[d]}
<1>0. /\ \A d \in D : g[d] = IF d = {} THEN NoCalls ELSE Pairing(g[d \ {Max(d)}], s[Max(d)])
      /\ \A d \in E : h[d] = IF d = {} THEN NoCalls ELSE Pairing(h[d \ {Max(d)}], t[Max(d)])
  <2>1. \A d \in D : g[d] = IF d = {} THEN NoCalls ELSE Pairing(g[d \ {Max(d)}], s[Max(d)])
    BY Zenon DEF Pairs
  <2>2. \A d \in E : h[d] = IF d = {} THEN NoCalls ELSE Pairing(h[d \ {Max(d)}], t[Max(d)])
    BY Zenon DEF Pairs
  <2> QED
    BY <2>1, <2>2
<1>1. 0 \in T
  <2>1. \A d \in SUBSET (1..0) : d = {}
    OBVIOUS
  <2>2. g[{}] = NoCalls /\ h[{}] = NoCalls
    <3>1. {} \in D /\ {} \in E
      OBVIOUS
    <3> QED
      BY <1>0, <3>1, Zenon
  <2> QED
    BY <2>1, <2>2
<1>2. ASSUME NEW n \in Nat, n \in T
      PROVE  n + 1 \in T
  <2>1. SUFFICES ASSUME n + 1 <= k, NEW d \in SUBSET (1..(n + 1))
                 PROVE  g[d] = h[d]
    OBVIOUS
  <2>2. d \in D /\ d \in E
    <3>1. d \in SUBSET (1..k)
      BY <2>1
    <3> QED
      BY <3>1
  <2>3. CASE d = {}
    BY <1>0, <2>2, <2>3, Zenon
  <2>4. CASE d # {}
    <3>1. Max(d) \in 1..(n + 1) /\ d \ {Max(d)} \in SUBSET (1..n)
      BY <2>1, <2>4, AllButLast
    <3>2. Max(d) \in 1..k
      <4> DEFINE m == Max(d)
      <4>1. m \in 1..(n + 1)
        BY <3>1
      <4> HIDE DEF m
      <4>2. m \in 1..k
        BY <2>1, <4>1
      <4> QED
        BY <4>2 DEF m
    <3>3. g[d \ {Max(d)}] = h[d \ {Max(d)}]
      BY <1>2, <2>1, <3>1
    <3>4. s[Max(d)] = t[Max(d)]
      BY <3>2
    <3>5. /\ g[d] = Pairing(g[d \ {Max(d)}], s[Max(d)])
          /\ h[d] = Pairing(h[d \ {Max(d)}], t[Max(d)])
      BY <1>0, <2>2, <2>4, Zenon
    <3> QED
      BY <3>3, <3>4, <3>5
  <2> QED
    BY <2>3, <2>4
<1>3. k \in T
  <2> HIDE DEF T
  <2> QED
    BY <1>1, <1>2, Induction
<1> QED
  BY <1>3

(* No frames, no calls.                                                    *)
LEMMA PairedNone == Paired(<<>>) = NoCalls
<1> DEFINE none == SUBSET DOMAIN <<>>
           g == CHOOSE g : Pairs(g, none, <<>>)
<1>1. Paired(<<>>) = g[DOMAIN <<>>]
  BY DEF Paired
<1>2. DOMAIN <<>> = 1..0 /\ DOMAIN <<>> = {} /\ {} \in none
  OBVIOUS
<1>3. \E f : Pairs(f, none, <<>>)
  BY <1>2, PairsExists
<1> HIDE DEF none
<1>4. Pairs(g, none, <<>>)
  BY <1>3
<1> HIDE DEF g
<1>5. g[{}] = NoCalls
  BY <1>2, <1>4, PairsAt
<1> QED
  BY <1>1, <1>2, <1>5

(* One frame more is one pairing more.                                     *)
LEMMA PairsStep ==
    ASSUME NEW n \in Nat, NEW t, NEW large, NEW h, Pairs(h, large, t),
           NEW all, all = 1..(n + 1), all \in large
    PROVE  h[all] = Pairing(h[1..n], t[n + 1])
<1>1. \A d \in large : h[d] = IF d = {} THEN NoCalls ELSE Pairing(h[d \ {Max(d)}], t[Max(d)])
  BY Zenon DEF Pairs
<1>3. all # {} /\ all \ {n + 1} = 1..n
  <2> DEFINE old == 1..n
  <2>1. n + 1 \in all /\ old \subseteq all /\ \A i \in all : i <= n + 1
    OBVIOUS
  <2>2. \A i \in all \ {n + 1} : i \in old
    OBVIOUS
  <2>3. n + 1 \notin old
    OBVIOUS
  <2> HIDE DEF old
  <2>4. all # {} /\ all \ {n + 1} = old
    BY <2>1, <2>2, <2>3
  <2> QED
    BY <2>4 DEF old
<1>4. Max(all) = n + 1
  <2>1. n + 1 \in Nat /\ all \in SUBSET (1..(n + 1)) /\ n + 1 \in all
    OBVIOUS
  <2>2. Max(all) \in all /\ \A i \in all : i <= Max(all)
    BY <1>3, <2>1, LastPlace
  <2> DEFINE m == Max(all)
  <2>3. m \in 1..(n + 1) /\ n + 1 <= m
    BY <2>1, <2>2
  <2> HIDE DEF m
  <2>4. m = n + 1
    BY <2>3
  <2> QED
    BY <2>4 DEF m
<1>5. h[all] = Pairing(h[all \ {Max(all)}], t[Max(all)])
  BY <1>1, <1>3, Zenon
<1> QED
  BY <1>3, <1>4, <1>5, Zenon

(* parseCallStack takes a frame more as it took those before.              *)
LEMMA PairedAppend ==
    ASSUME NEW F, NEW s \in Seq(F), NEW c \in F
    PROVE  Paired(Append(s, c)) = Pairing(Paired(s), c)
<1> DEFINE n == Len(s)
           t == Append(s, c)
           g == CHOOSE g : Pairs(g, SUBSET DOMAIN s, s)
           h == CHOOSE h : Pairs(h, SUBSET DOMAIN t, t)
<1>1. /\ n \in Nat /\ n + 1 \in Nat
      /\ DOMAIN s = 1..n /\ DOMAIN t = 1..(n + 1)
      /\ t[n + 1] = c
  OBVIOUS
<1>e. n \in Nat /\ \A i \in 1..n : s[i] = t[i]
  OBVIOUS
<1>2. Paired(s) = g[1..n] /\ Paired(t) = h[1..(n + 1)]
  BY <1>1 DEF Paired
<1> HIDE DEF t, n
<1>3. Pairs(g, SUBSET (1..n), s) /\ Pairs(h, SUBSET (1..(n + 1)), t)
  BY <1>1, PairsExists
<1> HIDE DEF g, h
<1> DEFINE small == SUBSET (1..n)
           large == SUBSET (1..(n + 1))
           all == 1..(n + 1)
<1>4. SUBSET (1..n) \subseteq small /\ SUBSET (1..n) \subseteq large
  <2>1. 1..n \subseteq 1..(n + 1)
    BY <1>1
  <2> QED
    BY <2>1
<1>5. Pairs(g, small, s) /\ Pairs(h, large, t)
  BY <1>3
<1>6. all = 1..(n + 1) /\ all \in large
  OBVIOUS
<1> HIDE DEF small, large, all
<1>a. g[1..n] = h[1..n]
  BY <1>e, <1>4, <1>5, PairsAgree, SMTT(60)
<1>7. h[all] = Pairing(h[1..n], t[n + 1])
  BY <1>e, <1>5, <1>6, PairsStep
<1>8. Paired(t) = Pairing(Paired(s), c)
  BY <1>1, <1>2, <1>a, <1>7 DEF all
<1> QED
  BY <1>8 DEF t

-----------------------------------------------------------------------------
(* The frames that are entered, and those that are left.                   *)
CallFrames == [type : {"CALL"}, to : Address, method : Methods, value : Nat, from : Address]
Left == [type |-> "RETURN"]

(* What parseCallStack makes of the frames so far: the calls that returned *)
(* and those still open.                                                   *)
Parsed == Paired(calls)
CallsMade == Parsed.out \cup ToSet(Parsed.stack)

(* A call of an entity or of a contract it runs, and its frame.            *)
IsFrameOf(c, s) ==
    /\ c.to = s.at /\ c.method = s.slot[1] /\ c.value = s.slot[2]
    /\ c.from # EntryPoint

(* The frame with which the EntryPoint calls an entity.                    *)
IsTopLevel(c) == c.from = EntryPoint /\ c.to \in Roles /\ c.value = 0

(* The open calls are the contracts being run.                             *)
CallsPaired ==
    /\ calls \in Seq(CallFrames \cup {Left})
    /\ Parsed \in [stack : Seq(CallFrames), out : SUBSET CallFrames]
    /\ Len(Parsed.stack) = Len(frames)
    /\ Running => frames[1] \in Roles

(* Every call an entity made is among them, and nothing else but the calls *)
(* of the EntryPoint.                                                      *)
NoCallMissed ==
    \A s \in Taken : s.op = "CALL" => \E c \in CallsMade : IsFrameOf(c, s)

NoCallInvented ==
    \A c \in CallsMade : IsTopLevel(c) \/ \E s \in Taken : s.op = "CALL"

(* The verdict is that on what was collected.                              *)
VerdictIs ==
    accepted # None => accepted = {staked \in SUBSET Roles : Accepts(staked)}

CallInv == CallsPaired /\ NoCallMissed /\ NoCallInvented

(* Without a new frame nothing changes.                                    *)
LEMMA SameCalls ==
    ASSUME calls' = calls
    PROVE  Parsed' = Parsed /\ CallsMade' = CallsMade
<1>1. Parsed' = Parsed
  BY DEF Parsed, Paired, Pairs, Pairing, NoCalls
<1> QED
  BY <1>1 DEF CallsMade, ToSet

(* A frame that is entered is a call that was made.                        *)
LEMMA FrameEntered ==
    ASSUME CallsPaired, NEW c \in CallFrames, calls' = Append(calls, c)
    PROVE  /\ calls' \in Seq(CallFrames \cup {Left})
           /\ Parsed' \in [stack : Seq(CallFrames), out : SUBSET CallFrames]
           /\ Len(Parsed'.stack) = Len(Parsed.stack) + 1
           /\ CallsMade' = CallsMade \cup {c}
<1>1. calls \in Seq(CallFrames \cup {Left}) /\ c \in CallFrames \cup {Left}
  BY DEF CallsPaired
<1>2. Paired(Append(calls, c)) = Pairing(Parsed, c)
  BY <1>1, PairedAppend DEF Parsed
<1>3. Parsed' = Paired(Append(calls, c))
  BY DEF Parsed, Paired, Pairs, Pairing, NoCalls
<1> DEFINE old == Parsed.stack
           new == Append(old, c)
<1>4. Parsed' = [Parsed EXCEPT !.stack = new]
  <2>1. c.type # "RETURN"
    BY DEF CallFrames
  <2> QED
    BY <1>2, <1>3, <2>1 DEF Pairing
<1>5. Parsed \in [stack : Seq(CallFrames), out : SUBSET CallFrames] /\ old \in Seq(CallFrames)
  BY DEF CallsPaired
<1>6. /\ new \in Seq(CallFrames) /\ Len(new) = Len(old) + 1
      /\ ToSet(new) = ToSet(old) \cup {c}
  <2> HIDE DEF old
  <2>1. /\ new \in Seq(CallFrames) /\ Len(new) = Len(old) + 1
        /\ DOMAIN new = DOMAIN old \cup {Len(old) + 1}
        /\ \A i \in DOMAIN old : new[i] = old[i]
        /\ new[Len(old) + 1] = c
    BY <1>5
  <2> HIDE DEF new
  <2> QED
    BY <2>1 DEF ToSet
<1> HIDE DEF new
<1>7. /\ Parsed' \in [stack : Seq(CallFrames), out : SUBSET CallFrames]
      /\ Parsed'.stack = new /\ Parsed'.out = Parsed.out
  BY <1>4, <1>5, <1>6
<1>8. CallsMade' = CallsMade \cup {c}
  <2>1. CallsMade' = Parsed'.out \cup ToSet(Parsed'.stack)
    BY DEF CallsMade, ToSet
  <2>2. CallsMade = Parsed.out \cup ToSet(old)
    BY DEF CallsMade
  <2> HIDE DEF old
  <2> QED
    BY <1>6, <1>7, <2>1, <2>2
<1>9. calls' \in Seq(CallFrames \cup {Left})
  BY <1>1
<1> QED
  BY <1>6, <1>7, <1>8, <1>9

(* A sequence without its last element.                                    *)
LEMMA ShorterByOne ==
    ASSUME NEW S, NEW s \in Seq(S), s # <<>>
    PROVE  LET t == SubSeq(s, 1, Len(s) - 1)
           IN  /\ t \in Seq(S) /\ Len(t) = Len(s) - 1
               /\ s[Len(s)] \in S
               /\ DOMAIN s = DOMAIN t \cup {Len(s)}
               /\ \A i \in DOMAIN t : t[i] = s[i]
<1> DEFINE t == SubSeq(s, 1, Len(s) - 1)
<1>1. /\ Len(s) \in Nat /\ Len(s) >= 1 /\ DOMAIN s = 1..Len(s)
      /\ s[Len(s)] \in S /\ \A i \in 1..Len(s) : s[i] \in S
  <2>1. Len(s) \in Nat /\ Len(s) # 0 /\ DOMAIN s = 1..Len(s)
    BY EmptySeq
  <2>2. \A i \in 1..Len(s) : s[i] \in S
    BY <2>1
  <2> QED
    BY <2>1, <2>2
<1>2. /\ t \in Seq(S) /\ Len(t) = Len(s) - 1
  <2>1. 1 \in 1..(Len(s) + 1) /\ Len(s) - 1 \in 0..Len(s)
    BY <1>1
  <2> QED
    BY <1>1, <2>1, SubSeqProperties
<1>3. \A i \in 1..(Len(s) - 1) : t[i] = s[i]
  BY <1>1
<1>4. DOMAIN t = 1..(Len(s) - 1)
  BY <1>2
<1>5. DOMAIN s = DOMAIN t \cup {Len(s)}
  BY <1>1, <1>4
<1> HIDE DEF t
<1>6. /\ t \in Seq(S) /\ Len(t) = Len(s) - 1 /\ s[Len(s)] \in S
      /\ DOMAIN s = DOMAIN t \cup {Len(s)} /\ \A i \in DOMAIN t : t[i] = s[i]
  BY <1>1, <1>2, <1>3, <1>4, <1>5
<1> QED
  BY <1>6 DEF t

(* A frame that is left pairs with the last one still open.                *)
LEMMA FrameLeft ==
    ASSUME TraceTypes, CallsPaired, Running, Exit
    PROVE  /\ calls' \in Seq(CallFrames \cup {Left})
           /\ Parsed' \in [stack : Seq(CallFrames), out : SUBSET CallFrames]
           /\ Len(Parsed'.stack) = Len(Parsed.stack) - 1
           /\ CallsMade' = CallsMade
<1>1. /\ calls \in Seq(CallFrames \cup {Left}) /\ Left \in CallFrames \cup {Left}
      /\ calls' = Append(calls, Left)
  BY DEF CallsPaired, Exit, Left
<1>2. Paired(Append(calls, Left)) = Pairing(Parsed, Left)
  BY <1>1, PairedAppend DEF Parsed
<1>3. Parsed' = Paired(Append(calls, Left))
  BY <1>1 DEF Parsed, Paired, Pairs, Pairing, NoCalls
<1> DEFINE old == Parsed.stack
           new == SubSeq(old, 1, Len(old) - 1)
           top == old[Len(old)]
<1>4. Parsed' = [stack |-> new, out |-> Parsed.out \cup {top}]
  <2>1. Left.type = "RETURN"
    BY DEF Left
  <2> QED
    BY <1>2, <1>3, <2>1 DEF Pairing, Front, Last
<1>5. /\ Parsed.out \in SUBSET CallFrames /\ old \in Seq(CallFrames)
      /\ Len(old) = Len(frames) /\ frames # <<>>
  BY DEF CallsPaired, Running
<1>6. Len(old) \in Nat /\ Len(old) > 0
  <2>1. frames \in Seq(Address)
    BY DEF TraceTypes
  <2>2. Len(frames) \in Nat /\ Len(frames) # 0
    BY <1>5, <2>1, EmptySeq
  <2> HIDE DEF old
  <2> QED
    BY <1>5, <2>2
<1>7. /\ new \in Seq(CallFrames) /\ Len(new) = Len(old) - 1 /\ top \in CallFrames
      /\ ToSet(new) \cup {top} = ToSet(old)
  <2> HIDE DEF old
  <2>0. old \in Seq(CallFrames) /\ old # <<>>
    <3>1. Len(old) # 0
      BY <1>6
    <3> QED
      BY <1>5, <3>1
  <2>1. /\ new \in Seq(CallFrames) /\ Len(new) = Len(old) - 1 /\ top \in CallFrames
        /\ DOMAIN old = DOMAIN new \cup {Len(old)}
        /\ \A i \in DOMAIN new : new[i] = old[i]
    BY <2>0, ShorterByOne
  <2> HIDE DEF new
  <2> QED
    BY <2>1 DEF ToSet
<1> HIDE DEF new, top
<1>8. /\ Parsed' \in [stack : Seq(CallFrames), out : SUBSET CallFrames]
      /\ Parsed'.stack = new /\ Parsed'.out = Parsed.out \cup {top}
  BY <1>4, <1>5, <1>7
<1>9. CallsMade' = CallsMade
  <2>1. CallsMade' = Parsed'.out \cup ToSet(Parsed'.stack)
    BY DEF CallsMade, ToSet
  <2>2. CallsMade = Parsed.out \cup ToSet(old)
    BY DEF CallsMade
  <2> HIDE DEF old
  <2> QED
    BY <1>7, <1>8, <2>1, <2>2
<1>10. calls' \in Seq(CallFrames \cup {Left})
  BY <1>1
<1> QED
  BY <1>7, <1>8, <1>9, <1>10

(* What a step adds to those taken.                                        *)
LEMMA TookAdds ==
    ASSUME NEW step, Took(step)
    PROVE  /\ Taken \subseteq Taken' /\ Taken' \subseteq Taken \cup {step}
           /\ step \in Taken' \/ step.op \in {"RETURN", "KECCAK256", "ISZERO", "CALLER"}
<1>1. \/ executed' = executed \cup {<<Previous, step>>}
      \/ executed' = executed \cup {<<NoStep, step>>}
      \/ executed' = executed /\ step.op \in {"RETURN", "KECCAK256", "ISZERO", "CALLER"}
  BY DEF Took
<1>2. ASSUME NEW before, executed' = executed \cup {<<before, step>>}
      PROVE  Taken' = Taken \cup {step}
  <2>1. <<before, step>>[2] = step
    OBVIOUS
  <2>2. Taken' = {pair[2] : pair \in executed \cup {<<before, step>>}}
    BY <1>2 DEF Taken
  <2> QED
    BY <2>1, <2>2, Zenon DEF Taken
<1>3. executed' = executed => Taken' = Taken
  BY DEF Taken
<1> QED
  BY <1>1, <1>2, <1>3

(* A step that calls nobody and returns from nothing.                      *)
LEMMA QuietCalls ==
    ASSUME TraceTypes, CallInv, NEW step, Took(step), step.op # "CALL", UNCHANGED <<calls, frames>>
    PROVE  CallInv'
<1>1. Parsed' = Parsed /\ CallsMade' = CallsMade
  BY SameCalls
<1>2. /\ Taken \subseteq Taken' /\ Taken' \subseteq Taken \cup {step}
  BY TookAdds
<1>3. CallsPaired'
  BY <1>1 DEF CallInv, CallsPaired, Running
<1>4. NoCallMissed'
  BY <1>1, <1>2 DEF CallInv, NoCallMissed, IsFrameOf
<1>5. NoCallInvented'
  BY <1>1, <1>2 DEF CallInv, NoCallInvented, IsTopLevel
<1> QED
  BY <1>3, <1>4, <1>5 DEF CallInv

(* A call of an entity, or of a contract it runs.                          *)
LEMMA CallCalls ==
    ASSUME TraceTypes, CallInv, NEW c \in Callable, Call(c[1], c[2], c[3])
    PROVE  CallInv'
<1>1. c[1] \in Address /\ c[2] \in Methods /\ c[3] \in Nat
  BY TracerAssumption DEF Address
<1> DEFINE taken == [Step("CALL", c[1], None) EXCEPT !.slot = <<c[2], c[3]>>]
           frame == [type |-> "CALL", to |-> c[1], method |-> c[2], value |-> c[3],
                     from |-> IF Running THEN Self ELSE EntryPoint]
<1>2. /\ Took(taken) /\ Running /\ RunsCode("CALL")
      /\ calls' = Append(calls, frame) /\ frames' = Append(frames, c[1])
  BY DEF Call, Took, Enter, Step
<1>3. /\ taken.op = "CALL" /\ taken.at = c[1] /\ taken.slot = <<c[2], c[3]>>
  BY DEF Step
<1>4. frames \in Seq(Address) /\ frames # <<>> /\ Len(frames) \in Nat \ {0}
  <2>1. frames \in Seq(Address) /\ frames # <<>>
    BY <1>2 DEF TraceTypes, Running
  <2> QED
    BY <2>1, EmptySeq
<1>5. Self \in Address /\ Self # EntryPoint
  <2>1. Self = frames[Len(frames)] /\ frames[1] \in Roles
    BY <1>2 DEF Self, Last, CallInv, CallsPaired
  <2>2. Len(frames) = 1 \/ Self # EntryPoint
    BY <1>2 DEF RunsCode, StorageOps
  <2>3. Len(frames) = 1 => Self # EntryPoint
    BY <2>1, TracerAssumption
  <2> QED
    BY <1>4, <2>1, <2>2, <2>3
<1>6. /\ frame \in CallFrames /\ IsFrameOf(frame, taken)
  BY <1>1, <1>2, <1>3, <1>5 DEF CallFrames, IsFrameOf
<1> HIDE DEF frame, taken
<1>7. /\ calls' \in Seq(CallFrames \cup {Left})
      /\ Parsed' \in [stack : Seq(CallFrames), out : SUBSET CallFrames]
      /\ Len(Parsed'.stack) = Len(Parsed.stack) + 1
      /\ CallsMade' = CallsMade \cup {frame}
  BY <1>2, <1>6, FrameEntered DEF CallInv
<1>8. /\ Taken \subseteq Taken' /\ Taken' \subseteq Taken \cup {taken}
      /\ taken \in Taken'
  <2>1. "CALL" \notin {"RETURN", "KECCAK256", "ISZERO", "CALLER"}
    OBVIOUS
  <2> QED
    BY <1>2, <1>3, <2>1, TookAdds
<1>9. CallsPaired'
  <2>1. Len(frames') = Len(frames) + 1 /\ frames'[1] = frames[1]
    BY <1>2, <1>4
  <2>2. Len(Parsed.stack) = Len(frames) /\ frames[1] \in Roles
    BY <1>2 DEF CallInv, CallsPaired
  <2>3. Len(Parsed'.stack) = Len(frames')
    BY <1>7, <2>1, <2>2
  <2> QED
    BY <1>7, <2>1, <2>2, <2>3 DEF CallsPaired
<1>10. NoCallMissed'
  BY <1>6, <1>7, <1>8 DEF CallInv, NoCallMissed, IsFrameOf
<1>11. NoCallInvented'
  BY <1>3, <1>7, <1>8 DEF CallInv, NoCallInvented, IsTopLevel
<1> QED
  BY <1>9, <1>10, <1>11 DEF CallInv

(* A return from one.                                                      *)
LEMMA ReturnCalls ==
    ASSUME TraceTypes, CallInv, Return
    PROVE  CallInv'
<1>1. /\ Took(Step("RETURN", Self, None)) /\ Running /\ Exit
      /\ frames' = SubSeq(frames, 1, Len(frames) - 1)
  BY DEF Return, Took, Front
<1>2. /\ calls' \in Seq(CallFrames \cup {Left})
      /\ Parsed' \in [stack : Seq(CallFrames), out : SUBSET CallFrames]
      /\ Len(Parsed'.stack) = Len(Parsed.stack) - 1
      /\ CallsMade' = CallsMade
  BY <1>1, FrameLeft DEF CallInv
<1>3. Taken \subseteq Taken' /\ \A s \in Taken' : s.op = "CALL" => s \in Taken
  <2>1. Step("RETURN", Self, None).op # "CALL"
    BY DEF Step
  <2> QED
    BY <1>1, <2>1, TookAdds
<1>4. CallsPaired'
  <2>1. frames \in Seq(Address) /\ frames # <<>> /\ Len(frames) \in Nat \ {0}
    <3>1. frames \in Seq(Address) /\ frames # <<>>
      BY <1>1 DEF TraceTypes, Running
    <3> QED
      BY <3>1, EmptySeq
  <2>2. /\ Len(frames') = Len(frames) - 1
        /\ frames' # <<>> => frames'[1] = frames[1]
    <3>1. /\ frames' \in Seq(Address) /\ Len(frames') = Len(frames) - 1
          /\ \A i \in DOMAIN frames' : frames'[i] = frames[i]
      BY <1>1, <2>1, ShorterByOne
    <3>2. frames' # <<>> => 1 \in DOMAIN frames'
      BY <3>1
    <3> QED
      BY <3>1, <3>2
  <2>3. Len(Parsed.stack) = Len(frames) /\ frames[1] \in Roles
    BY <1>1 DEF CallInv, CallsPaired
  <2>4. Len(Parsed'.stack) = Len(frames')
    BY <1>2, <2>2, <2>3
  <2> QED
    BY <1>2, <2>2, <2>3, <2>4 DEF CallsPaired, Running
<1>5. NoCallMissed'
  BY <1>2, <1>3 DEF CallInv, NoCallMissed, IsFrameOf
<1>6. NoCallInvented'
  BY <1>2, <1>3 DEF CallInv, NoCallInvented, IsTopLevel
<1> QED
  BY <1>4, <1>5, <1>6 DEF CallInv

(* The EntryPoint calls an entity.                                         *)
LEMMA TopLevelCalls ==
    ASSUME TraceTypes, CallInv, NEW title \in Roles, TopLevelCall(title)
    PROVE  CallInv'
<1> DEFINE frame == [type |-> "CALL", to |-> title, method |-> "other", value |-> 0,
                     from |-> IF Running THEN Self ELSE EntryPoint]
<1>1. /\ ~Running /\ calls' = Append(calls, frame) /\ frames' = <<title>>
      /\ executed' = executed
  BY DEF TopLevelCall, Enter
<1>2. frame \in CallFrames /\ IsTopLevel(frame)
  BY <1>1 DEF CallFrames, IsTopLevel, Address, Methods
<1> HIDE DEF frame
<1>3. /\ calls' \in Seq(CallFrames \cup {Left})
      /\ Parsed' \in [stack : Seq(CallFrames), out : SUBSET CallFrames]
      /\ Len(Parsed'.stack) = Len(Parsed.stack) + 1
      /\ CallsMade' = CallsMade \cup {frame}
  BY <1>1, <1>2, FrameEntered DEF CallInv
<1>4. Taken' = Taken
  BY <1>1 DEF Taken
<1>5. CallsPaired'
  <2>1. Len(<<title>>) = 1 /\ <<title>>[1] = title
    BY Single
  <2>2. Len(Parsed.stack) = 0
    BY <1>1 DEF CallInv, CallsPaired, Running
  <2> QED
    BY <1>1, <1>3, <2>1, <2>2 DEF CallsPaired
<1>6. NoCallMissed'
  BY <1>3, <1>4 DEF CallInv, NoCallMissed, IsFrameOf
<1>7. NoCallInvented'
  BY <1>2, <1>3, <1>4 DEF CallInv, NoCallInvented, IsTopLevel
<1> QED
  BY <1>5, <1>6, <1>7 DEF CallInv

(* Every step of the EVM, and the parser's.                                *)
LEMMA CallInvStep ==
    ASSUME TraceInv, CallInv, [TracerNext]_vars
    PROVE  CallInv'
<1>0. TraceTypes
  BY DEF TraceInv
<1>1. ASSUME NEW op \in Opcodes \cup {"ISZERO"}, NEW oog, Simple(op, oog)
      PROVE  CallInv'
  <2>1. op # "CALL"
    BY TracerAssumption DEF CallOps
  <2>2. Step(op, Self, None).op # "CALL"
    BY <2>1 DEF Step
  <2>3. Took(Step(op, Self, None)) /\ UNCHANGED <<calls, frames>>
    BY <1>1 DEF Simple
  <2> QED
    BY <1>0, <2>2, <2>3, QuietCalls
<1>2. ASSUME NEW op \in StorageOps, NEW slot, Storage(op, slot)
      PROVE  CallInv'
  <2>1. Step(op, Self, slot).op # "CALL"
    BY DEF Step, StorageOps
  <2>2. Took(Step(op, Self, slot)) /\ UNCHANGED <<calls, frames>>
    BY <1>2 DEF Storage
  <2> QED
    BY <1>0, <2>1, <2>2, QuietCalls
<1>3. ASSUME NEW op \in ExtOps, NEW addr, LookAtCode(op, addr)
      PROVE  CallInv'
  <2>1. Step(op, addr, None).op # "CALL"
    BY DEF Step, ExtOps
  <2>2. Took(Step(op, addr, None)) /\ UNCHANGED <<calls, frames>>
    BY <1>3 DEF LookAtCode
  <2> QED
    BY <1>0, <2>1, <2>2, QuietCalls
<1>4. ASSUME NEW addr, Hash(addr)
      PROVE  CallInv'
  <2>1. Step("KECCAK256", addr, None).op # "CALL"
    BY DEF Step
  <2>2. Took(Step("KECCAK256", addr, None)) /\ UNCHANGED <<calls, frames>>
    BY <1>4 DEF Hash
  <2> QED
    BY <1>0, <2>1, <2>2, QuietCalls
<1>5. CASE BeforeExecution \/ Parse \/ UNCHANGED vars
  <2>1. UNCHANGED <<calls, frames, executed>>
    BY <1>5 DEF BeforeExecution, Parse, vars, collected
  <2>2. Parsed' = Parsed /\ CallsMade' = CallsMade /\ Taken' = Taken
    BY <2>1, SameCalls DEF Taken
  <2> QED
    BY <2>1, <2>2 DEF CallInv, CallsPaired, NoCallMissed, NoCallInvented, IsFrameOf, IsTopLevel, Running
<1> QED
  BY <1>0, <1>1, <1>2, <1>3, <1>4, <1>5, CallCalls, ReturnCalls, TopLevelCalls DEF TracerNext

(* At first there are none.                                                *)
LEMMA CallInvInit == TracerInit => CallInv
<1> SUFFICES ASSUME TracerInit PROVE CallInv
  OBVIOUS
<1>1. calls = <<>> /\ frames = <<>> /\ executed = {}
  BY DEF TracerInit
<1>2. Parsed = NoCalls
  BY <1>1, PairedNone DEF Parsed
<1>3. /\ NoCalls.stack = <<>> /\ NoCalls.out = {}
      /\ NoCalls \in [stack : Seq(CallFrames), out : SUBSET CallFrames]
  BY DEF NoCalls
<1>4. CallsMade = {} /\ Taken = {}
  BY <1>1, <1>2, <1>3 DEF CallsMade, ToSet, Taken
<1>5. CallsPaired
  BY <1>1, <1>2, <1>3 DEF CallsPaired, Running
<1> QED
  BY <1>4, <1>5 DEF CallInv, NoCallMissed, NoCallInvented

(* What the parser judged does not change any more.                        *)
LEMMA SameVerdict ==
    ASSUME UNCHANGED collected, NEW staked
    PROVE  Accepts(staked)' <=> Accepts(staked)
<1>1. UNCHANGED <<callsFromEntryPoint, keccak, calls>>
  BY DEF collected
<1>2. CallStack' = CallStack
  BY <1>1 DEF CallStack, FoldLeft, MapThenFoldSet
<1>3. (CallsIntoEntryPoint = {})' <=> (CallsIntoEntryPoint = {})
  BY <1>2 DEF CallsIntoEntryPoint
<1>4. (CallsWithValue = {})' <=> (CallsWithValue = {})
  BY <1>2 DEF CallsWithValue
<1> QED
  BY <1>1, <1>3, <1>4
     DEF Accepts, StorageAccepted, OpcodesAccepted, CodeAccepted, Demand, AssociatedWith,
         HasFactory, Entered, WrittenIn

(* The verdict stays that on what was collected.                           *)
LEMMA VerdictIsStep ==
    ASSUME TraceInv, VerdictIs, [TracerNext]_vars
    PROVE  VerdictIs'
<1>1. CASE accepted # None
  <2>1. UNCHANGED collected /\ UNCHANGED accepted
    BY <1>1 DEF TraceInv, RunOK, TracerNext, TopLevelCall, BeforeExecution, Parse, Simple, Storage,
       LookAtCode, Hash, Call, Return, Took, vars, collected
  <2> QED
    BY <1>1, <2>1, SameVerdict DEF VerdictIs
<1>2. CASE accepted = None /\ Parse
  <2>1. UNCHANGED collected /\ accepted' = {staked \in SUBSET Roles : Accepts(staked)}
    BY <1>2 DEF Parse
  <2> QED
    BY <2>1, SameVerdict DEF VerdictIs
<1>3. CASE accepted = None /\ ~Parse
  <2>1. accepted' = None
    BY <1>3 DEF TracerNext, TopLevelCall, BeforeExecution, Simple, Storage,
       LookAtCode, Hash, Call, Return, vars
  <2> QED
    BY <2>1 DEF VerdictIs
<1> QED
  BY <1>1, <1>2, <1>3

JudgedInv == TraceInv /\ CallInv /\ VerdictIs

(* So calls and verdict are as they should be in every state.              *)
LEMMA JudgedInvHolds == TracerSpec => []JudgedInv
<1>1. TracerInit => JudgedInv
  BY TraceInvInit, CallInvInit DEF JudgedInv, TracerInit, VerdictIs
<1>2. JudgedInv /\ [TracerNext]_vars => JudgedInv'
  BY TraceInvStep, CallInvStep, VerdictIsStep DEF JudgedInv
<1> QED
  BY <1>1, <1>2, PTL DEF TracerSpec

(* When the parser ran, every call has returned.                           *)
LEMMA AllReturned ==
    ASSUME JudgedInv, Judged
    PROVE  CallStack = CallsMade
<1>1. Parsed.stack = <<>>
  <2>1. frames = <<>> /\ Len(Parsed.stack) = Len(frames) /\ Parsed.stack \in Seq(CallFrames)
    BY DEF JudgedInv, TraceInv, RunOK, Running, Judged, CallInv, CallsPaired
  <2> QED
    BY <2>1, EmptySeq
<1>2. ToSet(<<>>) = {}
  BY DEF ToSet
<1> QED
  BY <1>1, <1>2, CallStackIsPaired DEF CallsMade, Parsed

(* The calls the parser saw are those the entities made.                   *)
LEMMA CallsAreKept ==
    ASSUME JudgedInv, Judged, NEW staked \in accepted
    PROVE  CallsKept
<1>1. CallsIntoEntryPoint = {} /\ CallsWithValue = {}
  BY DEF JudgedInv, VerdictIs, Judged, Accepts
<1>2. ASSUME NEW s \in Taken, s.op = "CALL"
      PROVE  IF s.at = EntryPoint THEN s.slot[1] \in {"0x", "depositTo"} ELSE s.slot[2] = 0
  <2>1. PICK c \in CallsMade : IsFrameOf(c, s)
    BY <1>2 DEF JudgedInv, CallInv, NoCallMissed
  <2>2. c \in CallStack
    BY AllReturned
  <2> QED
    BY <1>1, <2>1, <2>2 DEF CallsIntoEntryPoint, CallsWithValue, IsFrameOf
<1> QED
  BY <1>2 DEF CallsKept

(* Accepted entities kept to the opcode rules: although the step function   *)
(* counts GAS and the looks at code only when it sees the opcode after      *)
(* them, and parseCallStack pairs calls with returns after the fact, no     *)
(* order of opcodes, calls and returns gets one past the parser.           *)
THEOREM OpcodeRulesAreKept == TracerSpec => []OpcodeRulesHold
<1>1. JudgedInv => OpcodeRulesHold
  BY OpcodesAreKept, CallsAreKept DEF JudgedInv, OpcodeRulesHold
<1> QED
  BY <1>1, JudgedInvHolds, PTL

-----------------------------------------------------------------------------
(* The premise of NoNeedlessRefusal, and what follows from it.             *)
HarmlessSoFar == \A s \in Taken : Harmless(s)

(* A level in which nothing is held against its entity.                    *)
Clean(level) ==
    /\ \A a \in level.access : a[2] = Sender
    /\ level.opcodes = {} /\ level.create2 = 0
    /\ level.extCodeAccessInfo = {} /\ level.contractSize = {}

NothingHeld ==
    HarmlessSoFar =>
        /\ lastOp # "GAS"
        /\ \A i \in DOMAIN lastThreeOpcodes : lastThreeOpcodes[i].op \notin ExtOps
        /\ \A i \in DOMAIN callsFromEntryPoint : Clean(callsFromEntryPoint[i])

(* Validation is over only when the account was called.                    *)
StoppedAfterAccount == stopCollecting => Entered("account")

(* The opcodes of harmless steps.                                          *)
LEMMA HarmlessOps ==
    ASSUME NEW s, Harmless(s)
    PROVE  /\ s.op \in {"ISZERO", "CALLER", "KECCAK256", "RETURN"} \cup StorageOps
           /\ s.op \notin {"GAS", "CREATE2"} \cup Kept \cup ExtOps \cup CallOps
           /\ s.op \in StorageOps => s.at = Sender
BY DEF Harmless, StorageOps, Kept, BannedOpcodes, StakedOpcodes, ExtOps, CallOps

(* If all steps are harmless after one, they were before it, and it is.    *)
LEMMA HarmlessTook ==
    ASSUME NEW step, Took(step), HarmlessSoFar'
    PROVE  HarmlessSoFar /\ Harmless(step)
<1>1. /\ Taken \subseteq Taken'
      /\ step \in Taken' \/ step.op \in {"RETURN", "KECCAK256", "ISZERO", "CALLER"}
  BY TookAdds
<1>2. \A s \in Taken' : Harmless(s)
  BY DEF HarmlessSoFar, Harmless
<1> QED
  BY <1>1, <1>2 DEF HarmlessSoFar, Harmless

(* A harmless step leaves the level clean.                                 *)
LEMMA HarmlessRecorded ==
    ASSUME TraceTypes, NEW level \in Levels, Clean(level), lastOp # "GAS",
           \A i \in DOMAIN lastThreeOpcodes : lastThreeOpcodes[i].op \notin ExtOps,
           NEW step \in Seen, Harmless(step), NEW oog \in BOOLEAN
    PROVE  Clean(Recorded(level, step, oog))
<1>1. /\ step.op \notin {"GAS", "CREATE2"} \cup Kept \cup ExtOps \cup CallOps
      /\ step.op \in StorageOps => step.at = Sender
  BY HarmlessOps
<1>2. \A a \in Accessed(level, step) : a[2] = Sender
  BY <1>1 DEF Accessed
<1>3. Counted(step) = {}
  BY <1>1 DEF Counted
<1>4. CodeAccessed(step) = {}
  <2> DEFINE window == Window(step)
             before == window[Len(window) - 1]
  <2>1. Len(window) > 1 => before.op \notin ExtOps
    <3>1. /\ lastThreeOpcodes \in Seq(Seen) /\ Len(lastThreeOpcodes) \in 0..3
      BY DEF TraceTypes
    <3>2. CASE lastThreeOpcodes = <<>>
      <4>1. Len(window) = 1
        BY <3>1, <3>2 DEF Window
      <4> QED
        BY <4>1
    <3>3. CASE lastThreeOpcodes # <<>>
      <4>1. Len(lastThreeOpcodes) \in DOMAIN lastThreeOpcodes
        BY <3>1, <3>3
      <4>2. before = lastThreeOpcodes[Len(lastThreeOpcodes)]
        BY <3>1, <3>3 DEF Window
      <4> QED
        BY <4>1, <4>2
    <3> QED
      BY <3>2, <3>3
  <2> QED
    BY <2>1 DEF CodeAccessed
<1>5. Touched(step) = {}
  BY <1>1 DEF Touched
<1> DEFINE access == level.access \cup Accessed(level, step)
           failed == level.oog \/ oog
<1>6. Recorded(level, step, oog) =
        [level EXCEPT !.access = access, !.opcodes = {}, !.create2 = 0,
                      !.extCodeAccessInfo = {}, !.contractSize = {}, !.oog = failed]
  BY <1>1, <1>3, <1>4, <1>5 DEF Recorded, Clean, Levels
<1>7. \A a \in access : a[2] = Sender
  BY <1>2 DEF Clean
<1> HIDE DEF access, failed
<1> QED
  BY <1>6, <1>7 DEF Clean, Levels

(* So does the step function, with what it looks back at.                  *)
LEMMA HarmlessStep ==
    ASSUME TraceInv, NothingHeld, StoppedAfterAccount,
           NEW step \in Seen, step.title = CurrentTitle, step.at \in Address,
           step.op \in StorageOps => step.slot \in Slots,
           NEW taken, taken.op = step.op, taken.at = step.at,
           NEW oog \in BOOLEAN, Took(taken), Collect(step, oog)
    PROVE  NothingHeld' /\ StoppedAfterAccount'
<1>1. TraceTypes /\ RunOK /\ Running /\ ~stopCollecting'
  BY DEF TraceInv, Took, RunOK, Collect
<1>2. StoppedAfterAccount'
  BY <1>1 DEF StoppedAfterAccount
<1>3. ASSUME HarmlessSoFar'
      PROVE  /\ lastOp' # "GAS"
             /\ \A i \in DOMAIN lastThreeOpcodes' : lastThreeOpcodes'[i].op \notin ExtOps
             /\ \A i \in DOMAIN callsFromEntryPoint' : Clean(callsFromEntryPoint'[i])
  <2>1. HarmlessSoFar /\ Harmless(step)
    BY <1>3, HarmlessTook DEF Harmless
  <2>2. /\ lastOp # "GAS"
        /\ \A i \in DOMAIN lastThreeOpcodes : lastThreeOpcodes[i].op \notin ExtOps
        /\ \A i \in DOMAIN callsFromEntryPoint : Clean(callsFromEntryPoint[i])
    BY <2>1 DEF NothingHeld
  <2>3. step.op \notin {"GAS"} \cup ExtOps
    BY <2>1, HarmlessOps
  <2>4. lastOp' # "GAS"
    BY <2>3 DEF Collect
  <2>5. \A i \in DOMAIN lastThreeOpcodes' : lastThreeOpcodes'[i].op \notin ExtOps
    <3>1. lastThreeOpcodes \in Seq(Seen) /\ Len(lastThreeOpcodes) \in 0..3
      BY <1>1 DEF TraceTypes
    <3> DEFINE longer == Append(lastThreeOpcodes, step)
    <3>2. /\ longer \in Seq(Seen) /\ Len(longer) \in 1..4
          /\ \A i \in DOMAIN longer : longer[i].op \notin ExtOps
      <4>1. longer \in Seq(Seen) /\ Len(longer) \in 1..4
        <5>1. longer \in Seq(Seen) /\ Len(longer) = Len(lastThreeOpcodes) + 1
          BY <3>1
        <5>2. \A k \in 0..3 : k + 1 \in 1..4
          OBVIOUS
        <5> HIDE DEF longer
        <5>3. Len(longer) \in 1..4
          BY <3>1, <5>1, <5>2, Zenon
        <5> QED
          BY <5>1, <5>3
      <4>2. /\ DOMAIN longer = DOMAIN lastThreeOpcodes \cup {Len(lastThreeOpcodes) + 1}
            /\ longer[Len(lastThreeOpcodes) + 1] = step
            /\ \A i \in DOMAIN lastThreeOpcodes : longer[i] = lastThreeOpcodes[i]
        BY <3>1
      <4> HIDE DEF longer
      <4> QED
        BY <2>2, <2>3, <4>1, <4>2
    <3> HIDE DEF longer
    <3>3. \A i \in DOMAIN Tail(longer) : Tail(longer)[i].op \notin ExtOps
      BY <3>2
    <3>4. lastThreeOpcodes' \in {<<>>, longer, Tail(longer)}
      BY DEF Collect, Window, longer
    <3>5. \A i \in DOMAIN <<>> : <<>>[i].op \notin ExtOps
      OBVIOUS
    <3>6. ASSUME NEW w \in {<<>>, longer, Tail(longer)}
          PROVE  \A i \in DOMAIN w : w[i].op \notin ExtOps
      BY <3>2, <3>3, <3>5, <3>6, Zenon
    <3> QED
      BY <3>4, <3>6
  <2>6. ASSUME NEW i \in DOMAIN callsFromEntryPoint'
        PROVE  Clean(callsFromEntryPoint'[i])
    <3> DEFINE n == Len(callsFromEntryPoint)
               level == callsFromEntryPoint[n]
    <3>1. /\ n \in DOMAIN callsFromEntryPoint /\ level \in Levels
          /\ DOMAIN callsFromEntryPoint' = DOMAIN callsFromEntryPoint
      BY <1>1, CollectRecords, CollectTypes DEF TraceTypes
    <3>2. callsFromEntryPoint' = [callsFromEntryPoint EXCEPT ![n] = Recorded(level, step, oog)]
      BY DEF Collect
    <3>3. Clean(Recorded(level, step, oog))
      BY <1>1, <2>1, <2>2, <3>1, HarmlessRecorded
    <3> HIDE DEF n, level
    <3> QED
      BY <2>2, <2>6, <3>1, <3>2, <3>3
  <2> QED
    BY <2>4, <2>5, <2>6
<1> QED
  BY <1>2, <1>3 DEF NothingHeld, Clean

(* An entity is entered, and has a level of its own.                       *)
LEMMA HarmlessEnter ==
    ASSUME TraceTypes, NothingHeld, NEW title \in Roles, TopLevelCall(title)
    PROVE  NothingHeld' /\ StoppedAfterAccount'
<1>1. /\ lastOp' = "" /\ lastThreeOpcodes' = <<NoStep>> /\ ~stopCollecting'
      /\ callsFromEntryPoint' = Append(callsFromEntryPoint, NewLevel(title))
      /\ executed' = executed
  BY DEF TopLevelCall
<1>2. HarmlessSoFar' => HarmlessSoFar
  BY <1>1 DEF HarmlessSoFar, Taken, Harmless
<1>3. \A i \in DOMAIN <<NoStep>> : <<NoStep>>[i].op \notin ExtOps
  <2>1. NoStep \in Seen /\ NoStep.op \notin ExtOps
    BY DEF NoStep, Seen, Ops, ExtOps
  <2> QED
    BY <2>1, Single
<1>4. Clean(NewLevel(title))
  BY DEF Clean, NewLevel
<1>5. ASSUME NEW i \in DOMAIN callsFromEntryPoint'
      PROVE  \/ callsFromEntryPoint'[i] = NewLevel(title)
             \/ i \in DOMAIN callsFromEntryPoint /\ callsFromEntryPoint'[i] = callsFromEntryPoint[i]
  <2>1. callsFromEntryPoint \in Seq(Levels)
    BY DEF TraceTypes
  <2> DEFINE level == NewLevel(title)
  <2>2. callsFromEntryPoint' = Append(callsFromEntryPoint, level)
    BY <1>1
  <2> HIDE DEF level
  <2>3. \/ callsFromEntryPoint'[i] = level
        \/ i \in DOMAIN callsFromEntryPoint /\ callsFromEntryPoint'[i] = callsFromEntryPoint[i]
    BY <1>5, <2>1, <2>2
  <2> QED
    BY <2>3 DEF level
<1>6. HarmlessSoFar => \A i \in DOMAIN callsFromEntryPoint' : Clean(callsFromEntryPoint'[i])
  BY <1>4, <1>5 DEF NothingHeld
<1> QED
  BY <1>1, <1>2, <1>3, <1>6 DEF NothingHeld, StoppedAfterAccount, Clean

(* What runs, and for which entity.                                        *)
LEMMA RunningTypes ==
    ASSUME TraceTypes, RunOK, Running
    PROVE  Self \in Address /\ CurrentTitle \in Roles
<1>1. /\ frames \in Seq(Address) /\ frames # <<>>
      /\ callsFromEntryPoint \in Seq(Levels) /\ callsFromEntryPoint # <<>>
  BY DEF TraceTypes, RunOK, Running
<1>2. callsFromEntryPoint[Len(callsFromEntryPoint)] \in Levels
  BY <1>1
<1>3. frames[Len(frames)] \in Address
  BY <1>1
<1> QED
  BY <1>2, <1>3 DEF Self, CurrentTitle, Last, Levels

(* Every step of the EVM, and the parser's.                                *)
LEMMA HarmlessNext ==
    ASSUME TraceInv, NothingHeld, StoppedAfterAccount, [TracerNext]_vars
    PROVE  NothingHeld' /\ StoppedAfterAccount'
<1>0. TraceTypes /\ RunOK
  BY DEF TraceInv
<1>r. ASSUME Running
      PROVE  Self \in Address /\ CurrentTitle \in Roles
  BY <1>0, <1>r, RunningTypes
<1>s. ASSUME Running, NEW op \in Ops, NEW at \in Address, NEW slot \in Slots \cup {None}
      PROVE  /\ Step(op, at, slot) \in Seen /\ Step(op, at, slot).title = CurrentTitle
             /\ Step(op, at, slot).op = op /\ Step(op, at, slot).at = at
             /\ Step(op, at, slot).slot = slot
  BY <1>r, <1>s DEF Step, Seen
<1>e. ASSUME Running, NEW op \in Ops, NEW at \in Address, NEW slot \in Slots \cup {None},
             op \in StorageOps => slot \in Slots, NEW oog \in BOOLEAN,
             NEW taken, taken.op = op, taken.at = at,
             Took(taken), Collect(Step(op, at, slot), oog)
      PROVE  NothingHeld' /\ StoppedAfterAccount'
  <2> DEFINE step == Step(op, at, slot)
  <2>1. /\ step \in Seen /\ step.title = CurrentTitle /\ step.at \in Address
        /\ step.op \in StorageOps => step.slot \in Slots
        /\ taken.op = step.op /\ taken.at = step.at
    BY <1>e, <1>s
  <2>2. Took(taken) /\ Collect(step, oog)
    BY <1>e
  <2> HIDE DEF step
  <2> QED
    BY <2>1, <2>2, HarmlessStep
<1>q. ASSUME Running, NEW op \in Ops, NEW at \in Address, NEW slot \in Slots \cup {None},
             op \in StorageOps => slot \in Slots, NEW oog \in BOOLEAN,
             Took(Step(op, at, slot)), Collect(Step(op, at, slot), oog)
      PROVE  NothingHeld' /\ StoppedAfterAccount'
  <2>1. Step(op, at, slot).op = op /\ Step(op, at, slot).at = at
    BY <1>q, <1>s
  <2> QED
    BY <1>e, <1>q, <2>1
<1>1. ASSUME NEW op \in Opcodes \cup {"ISZERO"}, NEW oog \in BOOLEAN, Simple(op, oog)
      PROVE  NothingHeld' /\ StoppedAfterAccount'
  <2>1. /\ Running /\ op \in Ops /\ op \notin StorageOps
        /\ Took(Step(op, Self, None)) /\ Collect(Step(op, Self, None), oog)
    BY <1>1, TracerAssumption DEF Simple, Took, Ops, StorageOps
  <2> QED
    BY <1>q, <1>r, <2>1
<1>2. ASSUME NEW op \in StorageOps, NEW slot \in Slots, Storage(op, slot)
      PROVE  NothingHeld' /\ StoppedAfterAccount'
  <2>1. /\ Running /\ op \in Ops
        /\ Took(Step(op, Self, slot)) /\ Collect(Step(op, Self, slot), FALSE)
    BY <1>2 DEF Storage, Ops
  <2> QED
    BY <1>q, <1>r, <2>1
<1>3. ASSUME NEW op \in ExtOps, NEW addr \in Inspected, LookAtCode(op, addr)
      PROVE  NothingHeld' /\ StoppedAfterAccount'
  <2>1. /\ Running /\ op \in Ops /\ op \notin StorageOps /\ addr \in Address
        /\ Took(Step(op, addr, None)) /\ Collect(Step(op, addr, None), FALSE)
    BY <1>3, TracerAssumption DEF LookAtCode, Took, Ops, StorageOps, ExtOps, Address
  <2> QED
    BY <1>q, <2>1
<1>4. ASSUME NEW addr \in Hashed, Hash(addr)
      PROVE  NothingHeld' /\ StoppedAfterAccount'
  <2>1. /\ Running /\ "KECCAK256" \in Ops /\ "KECCAK256" \notin StorageOps /\ addr \in Address
        /\ Took(Step("KECCAK256", addr, None)) /\ Collect(Step("KECCAK256", addr, None), FALSE)
    BY <1>4, TracerAssumption DEF Hash, Took, Ops, StorageOps, Hashed
  <2> QED
    BY <1>q, <2>1
<1>5. ASSUME NEW c \in Callable, Call(c[1], c[2], c[3])
      PROVE  NothingHeld' /\ StoppedAfterAccount'
  <2> DEFINE step == Step("CALL", c[1], None)
             taken == [step EXCEPT !.slot = <<c[2], c[3]>>]
  <2>1. c[1] \in Address /\ "CALL" \in Ops /\ "CALL" \notin StorageOps
    BY TracerAssumption DEF Address, Ops, StorageOps
  <2>2. Running /\ Took(taken) /\ Collect(Step("CALL", c[1], None), FALSE)
    BY <1>5 DEF Call, Took
  <2>3. taken.op = "CALL" /\ taken.at = c[1]
    BY DEF Step
  <2> HIDE DEF taken
  <2> QED
    BY <1>e, <2>1, <2>2, <2>3
<1>6. CASE Return
  <2>1. /\ Running /\ "RETURN" \in Ops /\ "RETURN" \notin StorageOps
        /\ Took(Step("RETURN", Self, None)) /\ Collect(Step("RETURN", Self, None), FALSE)
    BY <1>6 DEF Return, Took, Ops, StorageOps
  <2> QED
    BY <1>q, <1>r, <2>1
<1>7. CASE BeforeExecution \/ Parse \/ UNCHANGED vars
  <2>1. UNCHANGED <<callsFromEntryPoint, lastOp, lastThreeOpcodes, executed>>
    BY <1>7 DEF BeforeExecution, Parse, vars, collected
  <2>2. stopCollecting' => stopCollecting \/ Entered("account")
    BY <1>7 DEF BeforeExecution, Parse, vars
  <2>3. HarmlessSoFar' <=> HarmlessSoFar
    BY <2>1 DEF HarmlessSoFar, Taken, Harmless
  <2> QED
    BY <2>1, <2>2, <2>3 DEF NothingHeld, StoppedAfterAccount, Entered, Clean
<1> QED
  BY <1>0, <1>1, <1>2, <1>3, <1>4, <1>5, <1>6, <1>7, HarmlessEnter DEF TracerNext

(* So nothing is held against the harmless in any state.                   *)
LEMMA HarmlessHolds == TracerSpec => [](NothingHeld /\ StoppedAfterAccount)
<1>1. TracerInit => NothingHeld /\ StoppedAfterAccount
  <2>1. DOMAIN <<>> = {}
    OBVIOUS
  <2> QED
    BY <2>1 DEF TracerInit, NothingHeld, StoppedAfterAccount
<1>2. TraceInv /\ (NothingHeld /\ StoppedAfterAccount) /\ [TracerNext]_vars =>
        (NothingHeld /\ StoppedAfterAccount)'
  BY HarmlessNext
<1> QED
  BY <1>1, <1>2, TraceInvHolds, PTL DEF TracerSpec

(* No order of harmless steps, hashes, calls of the EntryPoint and returns *)
(* makes the parser ask for a stake or refuse: what it holds against an    *)
(* entity, the entity did.                                                 *)
THEOREM NobodyNeedlesslyRefused == TracerSpec => []NoNeedlessRefusal
<1>1. JudgedInv /\ NothingHeld /\ StoppedAfterAccount => NoNeedlessRefusal
  <2> SUFFICES ASSUME JudgedInv, NothingHeld, StoppedAfterAccount, Judged, HarmlessSoFar,
                      \A i \in DOMAIN callsFromEntryPoint : ~callsFromEntryPoint[i].oog
               PROVE  {} \in accepted
    BY DEF NoNeedlessRefusal, HarmlessSoFar
  <2>1. ASSUME NEW c \in CallStack
        PROVE  IsTopLevel(c)
    <3>1. c \in CallsMade
      BY AllReturned
    <3>2. \A s \in Taken : s.op # "CALL"
      BY HarmlessOps DEF HarmlessSoFar, CallOps
    <3> QED
      BY <3>1, <3>2 DEF JudgedInv, CallInv, NoCallInvented
  <2>2. CallsIntoEntryPoint = {} /\ CallsWithValue = {}
    BY <2>1 DEF CallsIntoEntryPoint, CallsWithValue, IsTopLevel
  <2>3. ASSUME NEW i \in DOMAIN callsFromEntryPoint
        PROVE  /\ StorageAccepted(callsFromEntryPoint[i], {})
               /\ OpcodesAccepted(callsFromEntryPoint[i], {})
               /\ CodeAccepted(callsFromEntryPoint[i])
    <3> DEFINE level == callsFromEntryPoint[i]
    <3>1. Clean(level) /\ ~level.oog
      BY DEF NothingHeld
    <3> HIDE DEF level
    <3>2. StorageAccepted(level, {})
      BY <3>1 DEF Clean, StorageAccepted
    <3>3. OpcodesAccepted(level, {})
      BY <3>1 DEF Clean, OpcodesAccepted
    <3>4. CodeAccepted(level)
      BY <3>1 DEF Clean, CodeAccepted
    <3> QED
      BY <3>2, <3>3, <3>4 DEF level
  <2>4. Entered("account")
    BY DEF JudgedInv, TraceInv, RunOK, Judged, StoppedAfterAccount
  <2>5. Accepts({})
    BY <2>2, <2>3, <2>4 DEF Accepts
  <2> QED
    BY <2>5 DEF JudgedInv, VerdictIs, Judged
<1> QED
  BY <1>1, JudgedInvHolds, HarmlessHolds, PTL
=============================================================================
