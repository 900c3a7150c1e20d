-------------------------------- MODULE Tracer --------------------------------
(***************************************************************************)
(* The rules of validation (ERC-7562) are enforced in two places.  The     *)
(* collector (tracer.js) runs in the node: it is called at every step of   *)
(* the EVM while the EntryPoint's simulateValidation runs the factory, the *)
(* account and the paymaster, and collects what each of them does.         *)
(* tracerResultParser then judges the collection.                          *)
(*                                                                         *)
(* Here the EVM takes arbitrary steps, the collector's functions are what  *)
(* each step does to its fields, and the parser is the operator Accepts.   *)
(* executed is a history variable: the steps really taken, some with the    *)
(* one before it, against which the verdict is judged.                     *)
(***************************************************************************)
EXTENDS Integers, Sequences, SequencesExt

CONSTANTS
    EntryPoint, Contracts,  \* addresses: the EntryPoint, and contracts that are not entities
    Undeployed,             \* contracts of at most two bytes of code
    Precompiles,            \* those of them at the addresses 1 to 9
    Opcodes,                \* opcodes without an operand the collector looks at
    Slots,                  \* storage slots: the address that was hashed into it, and the
                            \* distance from the hash (-1: the slot is the address itself)
    Accesses,               \* bound: the storage opcodes of each contract, and their slots
    Callable,               \* the calls entities make: whom, which method, with which value
    Inspected,              \* bound: the contracts whose code entities look at
    MaxSteps,               \* bound: the steps of the EVM's run, returns and hashes apart
    None

Methods == {"depositTo", "0x", "other"}

(* The entities in the order the EntryPoint calls them.                    *)
Titles == <<"factory", "account", "paymaster">>
Roles == ToSet(Titles)

(* An entity's address is its title; the account's is the sender.          *)
Sender == "account"
Address == Roles \cup Contracts \cup {EntryPoint}

ExtOps == {"EXTCODESIZE", "EXTCODEHASH"}
StorageOps == {"SLOAD", "SSTORE", "TLOAD", "TSTORE"}
CallOps == {"CALL", "STATICCALL", "DELEGATECALL", "CALLCODE"}

(* Calls as the collector tells them: by CALL in the name.  That is also   *)
(* so of CALLER, which stands for CALLVALUE and CALLDATALOAD, -SIZE and    *)
(* -COPY as well.                                                          *)
TakenForCalls == {"CALLER"}
SpeltLikeCall == CallOps \cup TakenForCalls

(* A static structure is assumed to have at most 128 slots.                *)
StructureSize == 128

ASSUME TracerAssumption ==
    /\ EntryPoint \notin Roles
    /\ Accesses \in [Address -> SUBSET (StorageOps \X Slots)]
    /\ \A s \in Slots : s.of \in Address \cup {None} /\ s.offset \in Nat \cup {-1}
    /\ Undeployed \subseteq Address /\ Precompiles \subseteq Undeployed
    /\ Opcodes \cap (StorageOps \cup ExtOps \cup CallOps \cup {"RETURN", "KECCAK256"}) = {}
    /\ Inspected \subseteq Contracts \cup {EntryPoint}
    /\ Callable \subseteq (Contracts \cup {EntryPoint}) \X Methods \X Nat
    /\ MaxSteps \in Nat

VARIABLES
    callsFromEntryPoint,    \* the levels: what each entity did
    keccak,                 \* the addresses hashed with something behind them
    calls,                  \* frames entered and left
    lastOp, lastThreeOpcodes,
    stopCollecting,
    frames,                 \* the contracts being run; the EntryPoint runs when there is none
    accepted,               \* the stakes with which tracerResultParser accepts; None before it ran
    executed,               \* the steps taken (history)
    steps                   \* how many

collected == <<callsFromEntryPoint, keccak, calls>>
vars == <<collected, lastOp, lastThreeOpcodes, stopCollecting, frames, accepted, executed, steps>>

(* The opcodes the parser looks for.                                       *)
BannedOpcodes == {"NUMBER", "GAS", "CREATE"}        \* and twelve more
StakedOpcodes == {"BALANCE"}                        \* and SELFBALANCE

MapOf == [SLOAD |-> "reads", SSTORE |-> "writes", TLOAD |-> "transientReads", TSTORE |-> "transientWrites"]

NewLevel(title) ==
    [title |-> title, access |-> {}, opcodes |-> {}, create2 |-> 0, extCodeAccessInfo |-> {},
     contractSize |-> {}, oog |-> FALSE]

TracerTypeOK ==
    /\ \A i \in DOMAIN callsFromEntryPoint :
         LET level == callsFromEntryPoint[i]
         IN  /\ level.title \in Roles
             /\ level.access \subseteq
                  {"reads", "writes", "transientReads", "transientWrites"} \X Address \X Slots
             /\ level.extCodeAccessInfo \cup level.contractSize \subseteq Address
             /\ level.oog \in BOOLEAN
    /\ keccak \subseteq Address
    /\ Len(lastThreeOpcodes) <= 3
    /\ stopCollecting \in BOOLEAN
    /\ ToSet(frames) \subseteq Address
    /\ accepted \in {None} \cup SUBSET SUBSET Roles

TracerInit ==
    /\ callsFromEntryPoint = <<>> /\ keccak = {} /\ calls = <<>>
    /\ lastOp = "" /\ lastThreeOpcodes = <<>> /\ stopCollecting = FALSE
    /\ frames = <<>> /\ accepted = None /\ executed = {} /\ steps = 0

-----------------------------------------------------------------------------
(* What the EVM is doing.                                                  *)

Running == frames # <<>>
Self == Last(frames)
CurrentTitle == Last(callsFromEntryPoint).title

Entered(title) == \E i \in DOMAIN callsFromEntryPoint : callsFromEntryPoint[i].title = title

Step(op, addr, slot) ==
    [title |-> CurrentTitle, op |-> op, at |-> addr, slot |-> slot]

(* Stands for the EntryPoint's own opcodes.                                *)
NoStep == [title |-> None, op |-> "", at |-> None, slot |-> None]

(* The collector's list holds the last three steps; its last is the one    *)
(* before the step about to be taken.                                      *)
Previous == IF lastThreeOpcodes = <<>> THEN NoStep ELSE Last(lastThreeOpcodes)

(* The EntryPoint's own code uses its storage and calls nobody; a contract *)
(* without code does nothing.                                              *)
RunsCode(op) ==
    \/ op = "RETURN"
    \/ op \in StorageOps
    \/ Len(frames) = 1
    \/ Self \notin Undeployed \cup {EntryPoint}

(* History: what the step before was matters for GAS and EXTCODE only, and *)
(* steps like arithmetic only after one of these.                          *)
Took(step) ==
    LET after == Previous.op \in ExtOps \cup {"GAS"}
    IN  /\ Running /\ RunsCode(step.op)
        /\ executed' = IF after THEN executed \cup {<<Previous, step>>}
                       ELSE IF step.op \in {"RETURN", "KECCAK256", "ISZERO", "CALLER"} THEN executed
                       ELSE executed \cup {<<NoStep, step>>}

Costs == steps < MaxSteps /\ steps' = steps + 1

-----------------------------------------------------------------------------
(* The collector's step function, for a step of an entity.                 *)

(* Mutant of Window: the oldest is never dropped.                          *)
WindowUntrimmed(step) == Append(lastThreeOpcodes, step)

Window(step) ==
    LET longer == Append(lastThreeOpcodes, step)
    IN  IF Len(longer) > 3 THEN Tail(longer) ELSE longer

Ends(step) == step.op \in {"RETURN", "REVERT"}

(* Code was looked at by the step before, unless the three last are        *)
(* something, EXTCODESIZE and ISZERO.                                      *)
CodeAccessed(step) ==
    LET window == Window(step)
        before == window[Len(window) - 1]
    IN  IF ~Ends(step) /\ Len(window) > 1 /\ before.op \in ExtOps
           /\ ~(Len(window) = 3 /\ before.op = "EXTCODESIZE" /\ step.op = "ISZERO")
        THEN {before.at} ELSE {}

(* The contracts that had no code when they were touched, but for the      *)
(* precompiles, which are exempt (isAllowedPrecompiled).                   *)
Touched(step) ==
    IF step.op \in ExtOps \cup CallOps /\ step.at \in Undeployed \ Precompiles
    THEN {step.at} ELSE {}

(* The collector counts every other opcode but those of arithmetic and the *)
(* stack; only those the parser looks for are kept here.                   *)
Kept == (BannedOpcodes \ {"GAS"}) \cup StakedOpcodes

(* Mutant of Counted: GAS is counted when the opcode before it was a call. *)
CountedTooEarly(step) ==
    (IF step.op = "GAS" /\ lastOp \notin SpeltLikeCall THEN {"GAS"} ELSE {}) \cup ({step.op} \cap Kept)

(* GAS is counted when the next opcode is seen not to be a call.           *)
Counted(step) ==
    (IF lastOp = "GAS" /\ step.op \notin SpeltLikeCall THEN {"GAS"} ELSE {}) \cup ({step.op} \cap Kept)

Written(level, addr, slot) == <<"writes", addr, slot>> \in level.access

(* A read of a slot that was written before is not recorded.               *)
Accessed(level, step) ==
    IF step.op \in StorageOps /\ ~(step.op = "SLOAD" /\ Written(level, step.at, step.slot))
    THEN {<<MapOf[step.op], step.at, step.slot>>} ELSE {}

(* The level of the entity being run, after the step.                      *)
Recorded(level, step, oog) ==
    [level EXCEPT !.access = @ \cup Accessed(level, step),
                  !.opcodes = @ \cup Counted(step),
                  !.create2 = IF step.op = "CREATE2" THEN @ + 1 ELSE @,
                  !.extCodeAccessInfo = @ \cup CodeAccessed(step),
                  !.contractSize = @ \cup Touched(step),
                  !.oog = @ \/ oog]

Collect(step, oog) ==
    LET n == Len(callsFromEntryPoint)
    IN  /\ callsFromEntryPoint' =
             [callsFromEntryPoint EXCEPT ![n] = Recorded(callsFromEntryPoint[n], step, oog)]
        /\ lastThreeOpcodes' = IF Ends(step) THEN <<>> ELSE Window(step)
        /\ lastOp' = step.op
        /\ keccak' = IF step.op = "KECCAK256" THEN keccak \cup {step.at} ELSE keccak
        /\ UNCHANGED stopCollecting

-----------------------------------------------------------------------------
(* tracerResultParser.  staked are the entities with a stake and a delay.  *)

(* parseCallStack: each frame that is left is the last one entered.        *)
CallStack ==
    FoldLeft(LAMBDA acc, c :
               IF c.type = "RETURN"
               THEN [stack |-> Front(acc.stack), out |-> acc.out \cup {Last(acc.stack)}]
               ELSE [acc EXCEPT !.stack = Append(@, c)],
             [stack |-> <<>>, out |-> {}], calls).out

CallsIntoEntryPoint ==
    {c \in CallStack : c.to = EntryPoint /\ c.from # EntryPoint /\ c.method \notin {"0x", "depositTo"}}

CallsWithValue == {c \in CallStack : c.to # EntryPoint /\ c.value # 0}

(* parseEntitySlots and associatedWith: the slot is the address, or was    *)
(* hashed from it in this run and is at most a structure from the hash.    *)
AssociatedWith(slot, addr) ==
    /\ slot.of = addr
    /\ slot.offset = -1 \/ (addr \in keccak /\ slot.offset < StructureSize)

HasFactory == Entered("factory")

(* Mutant of WrittenIn: only persistent writes count.                      *)
WrittenForGood(level, addr, slot) == <<"writes", addr, slot>> \in level.access

WrittenIn(level, addr, slot) ==
    \E m \in {"writes", "transientWrites"} : <<m, addr, slot>> \in level.access

(* What the slot asks of the entity: nothing, a stake, or it is forbidden. *)
Demand(level, addr, slot, staked) ==
    CASE AssociatedWith(slot, Sender) ->
           IF HasFactory /\ ~(level.title = Sender /\ "factory" \in staked) THEN "stake" ELSE "nothing"
      [] ~AssociatedWith(slot, Sender)
           /\ (AssociatedWith(slot, level.title) \/ addr = level.title
                 \/ ~WrittenIn(level, addr, slot)) -> "stake"
      [] OTHER -> "forbidden"

(* Mutant of StorageAccepted: the sender's storage is like any other.      *)
StorageJudged(level, staked) ==
    \A a \in level.access :
        a[2] # EntryPoint =>
            \/ Demand(level, a[2], a[3], staked) = "nothing"
            \/ Demand(level, a[2], a[3], staked) = "stake" /\ level.title \in staked

StorageAccepted(level, staked) ==
    \A a \in level.access :
        a[2] \notin {Sender, EntryPoint} =>
            \/ Demand(level, a[2], a[3], staked) = "nothing"
            \/ Demand(level, a[2], a[3], staked) = "stake" /\ level.title \in staked

OpcodesAccepted(level, staked) ==
    /\ ~level.oog
    /\ level.opcodes \cap BannedOpcodes = {}
    /\ level.opcodes \cap StakedOpcodes # {} => level.title \in staked
    /\ level.create2 <= (IF level.title = "factory" THEN 1 ELSE 0)

CodeAccepted(level) ==
    /\ level.contractSize \subseteq {Sender}
    /\ EntryPoint \notin level.extCodeAccessInfo

Accepts(staked) ==
    /\ Entered("account")
    /\ CallsIntoEntryPoint = {} /\ CallsWithValue = {}
    /\ \A i \in DOMAIN callsFromEntryPoint :
         LET level == callsFromEntryPoint[i]
         IN  StorageAccepted(level, staked) /\ OpcodesAccepted(level, staked) /\ CodeAccepted(level)

-----------------------------------------------------------------------------
(* The EVM.  At depth 1 the EntryPoint runs; it calls each entity once.     *)

Place(title) == CHOOSE i \in DOMAIN Titles : Titles[i] = title

Enter(type, to, method, value) ==
    calls' = Append(calls, [type |-> type, to |-> to, method |-> method, value |-> value,
                            from |-> IF Running THEN Self ELSE EntryPoint])

Exit == calls' = Append(calls, [type |-> "RETURN"])

TopLevelCall(title) ==
    /\ ~Running /\ ~stopCollecting
    /\ title = "paymaster" => Entered("account")
    /\ \A i \in DOMAIN callsFromEntryPoint : Place(callsFromEntryPoint[i].title) < Place(title)
    /\ callsFromEntryPoint' = Append(callsFromEntryPoint, NewLevel(title))
    /\ Enter("CALL", title, "other", 0)
    /\ lastOp' = ""
    /\ lastThreeOpcodes' = <<NoStep>>
    /\ frames' = <<title>>
    /\ UNCHANGED <<keccak, stopCollecting, accepted, executed, steps>>

(* The EntryPoint logs BeforeExecution: validation is over.                *)
BeforeExecution ==
    /\ ~Running /\ Entered("account") /\ ~stopCollecting
    /\ stopCollecting' = TRUE
    /\ UNCHANGED <<collected, lastOp, lastThreeOpcodes, frames, accepted, executed, steps>>

Parse ==
    /\ stopCollecting /\ accepted = None
    /\ accepted' = {staked \in SUBSET Roles : Accepts(staked)}
    /\ UNCHANGED <<collected, lastOp, lastThreeOpcodes, stopCollecting, frames, executed, steps>>

Simple(op, oog) ==
    /\ Costs
    /\ Took(Step(op, Self, None))
    /\ Collect(Step(op, Self, None), oog)
    /\ UNCHANGED <<calls, frames, accepted>>

Storage(op, slot) ==
    /\ Costs
    /\ Running /\ <<op, slot>> \in Accesses[Self]
    /\ Took(Step(op, Self, slot))
    /\ Collect(Step(op, Self, slot), FALSE)
    /\ UNCHANGED <<calls, frames, accepted>>

LookAtCode(op, addr) ==
    /\ Costs
    /\ Took(Step(op, addr, None))
    /\ Collect(Step(op, addr, None), FALSE)
    /\ UNCHANGED <<calls, frames, accepted>>

(* Bound: the account hashes, before it does anything else: the parser     *)
(* does not care who hashed, or when.                                      *)
Hashed == {s.of : s \in Slots} \ {None}

Hash(addr) ==
    /\ addr \notin keccak
    /\ frames = <<Sender>> /\ Previous.op \in {"", "KECCAK256"}
    /\ Took(Step("KECCAK256", addr, None))
    /\ Collect(Step("KECCAK256", addr, None), FALSE)
    /\ UNCHANGED <<calls, frames, accepted, steps>>

Call(to, method, value) ==
    /\ Costs
    /\ Took([Step("CALL", to, None) EXCEPT !.slot = <<method, value>>])
    /\ Collect(Step("CALL", to, None), FALSE)
    /\ Enter("CALL", to, method, value)
    /\ frames' = Append(frames, to)
    /\ UNCHANGED accepted

Return ==
    /\ Took(Step("RETURN", Self, None))
    /\ Collect(Step("RETURN", Self, None), FALSE)
    /\ Exit
    /\ UNCHANGED <<accepted, steps>>
    /\ frames' = Front(frames)

TracerNext ==
    \/ \E title \in Roles : TopLevelCall(title)
    \/ BeforeExecution
    \/ Parse
    \/ \E op \in Opcodes : Simple(op, FALSE)
    \/ Simple("ISZERO", TRUE)
    \/ \E op \in StorageOps, slot \in Slots : Storage(op, slot)
    \/ \E op \in ExtOps, addr \in Inspected : LookAtCode(op, addr)
    \/ \E addr \in Hashed : Hash(addr)
    \/ \E c \in Callable : Call(c[1], c[2], c[3])
    \/ Return

TracerSpec == TracerInit /\ [][TracerNext]_vars

-----------------------------------------------------------------------------
(* Properties, of the runs the parser has judged.                          *)

Judged == accepted # None
Taken == {pair[2] : pair \in executed}

OfStructure(slot, addr) ==
    slot.of = addr /\ (slot.offset = -1 \/ (addr \in keccak /\ slot.offset \in 0 .. StructureSize - 1))

OwnStorageOnly(staked) ==
    \A s \in Taken :
        (s.op \in StorageOps /\ s.at \notin {Sender, EntryPoint} /\ ~OfStructure(s.slot, Sender)) =>
            /\ s.title \in staked
            /\ s.op \in {"SSTORE", "TSTORE"} => s.at = s.title \/ OfStructure(s.slot, s.title)

CreationIsStaked(staked) ==
    HasFactory => \A s \in Taken :
        s.op \in StorageOps /\ s.at \notin {Sender, EntryPoint} =>
            s.title \in staked \/ (s.title = Sender /\ "factory" \in staked)

(* What an accepted entity did with storage that is neither the sender's    *)
(* nor in a structure hashed from the sender: an unstaked one nothing, a    *)
(* staked one wrote only to its own storage and to structures hashed from   *)
(* itself. While the account is being created, what is hashed from it is    *)
(* open only to staked entities, and to the account if its factory is       *)
(* staked.  The collection keeps a read only if it came before every write *)
(* of the slot, and the parser looks at slots, not at accesses.            *)
StorageRulesHold ==
    Judged => \A staked \in accepted : OwnStorageOnly(staked) /\ CreationIsStaked(staked)

OpcodesKept(staked) ==
    \A pair \in executed :
        LET before == pair[1]  now == pair[2]
        IN  /\ now.op \notin BannedOpcodes \ {"GAS"}
            /\ now.op \in StakedOpcodes => now.title \in staked
            /\ before.op = "GAS" => now.op \in CallOps \/ now.op \in TakenForCalls
            /\ now.op = "CREATE2" => now.title = "factory"
            /\ before.op \in ExtOps /\ before.at = EntryPoint /\ ~Ends(now) =>
                   before.op = "EXTCODESIZE" /\ now.op = "ISZERO"
            /\ now.op \in ExtOps \cup CallOps => now.at \notin Undeployed \ (Precompiles \cup {Sender})

CallsKept ==
    \A s \in Taken : s.op = "CALL" =>
        IF s.at = EntryPoint THEN s.slot[1] \in {"0x", "depositTo"} ELSE s.slot[2] = 0

(* The collector sees an opcode before it knows the next one, and the       *)
(* parser pairs calls with returns after the fact. Whatever the order, and  *)
(* whichever contract it called ran it, an accepted entity ran no banned    *)
(* opcode, looked at the EntryPoint's code at most to see whether it has    *)
(* any, touched no contract without code but the sender and precompiles,   *)
(* and called nobody with value and the EntryPoint only for deposits.  It  *)
(* asked for its gas only right before a call, or, which is not the rule   *)
(* of the standard, before an opcode the collector takes for one.          *)
OpcodeRulesHold == Judged => \A staked \in accepted : OpcodesKept(staked) /\ CallsKept

(* The other direction: an account that keeps to its own storage and to    *)
(* harmless opcodes is accepted without any stake, whatever it hashes.     *)
Harmless(s) ==
    \/ s.op \in {"ISZERO", "CALLER", "KECCAK256", "RETURN"}
    \/ s.op \in StorageOps /\ s.at = Sender

NoNeedlessRefusal ==
    Judged
        /\ (\A s \in Taken : Harmless(s))
        /\ (\A i \in DOMAIN callsFromEntryPoint : ~callsFromEntryPoint[i].oog)
    => {} \in accepted
=============================================================================
