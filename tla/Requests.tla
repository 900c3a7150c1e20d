------------------------------- MODULE Requests -------------------------------
(***************************************************************************)
(* The RPC server.  Requests of several clients are handled at the same    *)
(* time, each awaiting the node now and then, while the bundler validates  *)
(* pooled operations again and executes them, and the chain moves on.      *)
(*                                                                         *)
(* The mempool is what admits or refuses an operation and the reputation   *)
(* ledger one paymaster's count here; modules Mempool and Reputation are   *)
(* about them.                                                             *)
(***************************************************************************)
EXTENDS Validation, FilterLogs, FiniteSets

CONSTANTS
    Client,         \* connections; each sends one request
    Ask,            \* the requests they may send
    HttpApis,       \* the namespaces switched on
    Modes,          \* how operations may be validated: "unsafe", "standard", "native"
    Returns,        \* what the simulation of an operation may return
    TransactionLogs,\* the logs of the transaction each operation is executed in
    BootGasConfig,
    MaxTime, MaxSeen, \* bounds
    Unseen,         \* the paymaster has no entry in the ledger
    None

(* A signature's window is given in the seconds of a uint48.                *)
ASSUME RequestsAssumption ==
    /\ Modes \subseteq {"unsafe", "standard", "native"}
    /\ MaxTime \in Nat \ {0} /\ MaxSeen \in Nat
    /\ \A r \in DOMAIN Ask :
         Ask[r].method = "debug_bundler_setReputation" => Ask[r].seen \in 0..MaxSeen
    /\ \A r \in Returns : \A data \in {r.account, r.paymaster} :
         data.validAfter \in 0..MaxUint48 /\ data.validUntil \in 0..MaxUint48
    /\ \A r \in DOMAIN Ask :
         Ask[r].method = "debug_bundler_addUserOps" => Ask[r].ops \in Seq(UserOp)
    /\ None \notin 0..1 /\ None \notin DOMAIN Ask

(* The EntryPoint logs the execution of each operation as it does.          *)
ASSUME TransactionAssumption == \A op \in UserOp : ExecutedIn(op, TransactionLogs[op])

Web3Methods == {"web3_clientVersion"}
EthMethods ==
    {"eth_chainId", "eth_supportedEntryPoints", "eth_sendUserOperation",
     "eth_estimateUserOperationGas", "eth_getUserOperationReceipt", "eth_getUserOperationByHash"}
DebugMethods ==
    {"debug_bundler_clearState", "debug_bundler_dumpMempool", "debug_bundler_clearMempool",
     "debug_bundler_sendBundleNow", "debug_bundler_setBundlingMode",
     "debug_bundler_setBundleInterval", "debug_bundler_setReputation",
     "debug_bundler_dumpReputation", "debug_bundler_clearReputation", "debug_bundler_addUserOps",
     "debug_bundler_getStakeStatus", "debug_bundler_setConfiguration"}

HandlerRegistry == Web3Methods \cup EthMethods \cup DebugMethods

ApiOf(method) ==
    CASE method \in Web3Methods -> "web3" [] method \in EthMethods -> "eth"
      [] method \in DebugMethods -> "debug" [] OTHER -> "eth"

VARIABLES
    mode, now, code,        \* the configuration; the chain: the time, the contracts' code
    gasConfig, pool, seen,  \* the bundler's state: seen is the paymaster's opsSeen
    executed,               \* operations whose events are on the chain
    request,                \* what each client asked
    pc, local,              \* where its handler stands and its variables
    answer,                 \* what it was answered
    down,                   \* the process has ended
    bundle, bundled         \* the second validation under way; those passed (history)

chainVars == <<mode, now, code, executed>>
stateVars == <<gasConfig, pool, seen>>
callVars == <<request, pc, local>>
bundleVars == <<bundle, bundled>>
vars == <<chainVars, stateVars, callVars, answer, down, bundleVars>>

Simulated(res, at, traced, hashed) ==
    [res |-> res, at |-> at, traced |-> traced, hashed |-> hashed, left |-> <<>>]
NoLocal == Simulated(None, None, None, None)
(* What debug_bundler_addUserOps admits comes without a result.            *)
Unvalidated == [res |-> None, at |-> None, traced |-> None, hashed |-> None]
NoBundle == [pc |-> "idle", op |-> None, entry |-> None, started |-> None]

Steps == {"idle", "begin", "prestate", "simulate", "hash", "add", "estimate",
          "receipt", "transaction", "clearLedger", "addNext", "sendBundle", "done"}

(* NodeCode is what the node's error says, often a string of ethers.        *)
Codes == {"InvalidRequest", "InvalidFields", "InvalidSignature", "NotInTimeRange",
          "SimulateValidation", "OpcodeValidation", "InternalError", "UserOperationReverted",
          "Refused", "Unknown", "NodeCode"}

Entry == [res : {ParseValidationResult(r) : r \in Returns}, at : 1..MaxTime,
          traced : {None} \cup 0..1, hashed : {None} \cup 0..1]

RequestsTypeOK ==
    /\ mode \in Modes /\ now \in 1..MaxTime /\ code \in 0..1
    /\ pool \in [UserOp -> {None, Unvalidated} \cup Entry]
    /\ seen \in {Unseen} \cup -1..MaxSeen
    /\ executed \subseteq UserOp
    /\ request \in [Client -> {None} \cup DOMAIN Ask] /\ pc \in [Client -> Steps]
    /\ \A c \in Client : answer[c] # None =>
         pc[c] = "done" /\ (~answer[c].ok => answer[c].code \in Codes)
    /\ down \in BOOLEAN
    /\ \A b \in bundled :
         /\ b.hashed = None <=> b.first = None
         /\ mode = "unsafe" => b.hashed = None

RequestsInit ==
    /\ mode \in Modes /\ now = 1 /\ code = 0
    /\ gasConfig = BootGasConfig /\ pool = [op \in UserOp |-> None] /\ seen = Unseen
    /\ executed = {}
    /\ request = [c \in Client |-> None] /\ pc = [c \in Client |-> "idle"]
    /\ local = [c \in Client |-> NoLocal]
    /\ answer = [c \in Client |-> None]
    /\ down = FALSE
    /\ bundle = NoBundle /\ bundled = {}

Asked(c) == Ask[request[c]]
At(c, step) == ~down /\ pc[c] = step

-----------------------------------------------------------------------------
(* The answer.                                                             *)

Error(errorCode) == [ok |-> FALSE, code |-> errorCode]
Result(value) == [ok |-> TRUE, value |-> value]

(* toBeHex throws for negative numbers and for Infinity; of a result only   *)
(* its least favourable number matters.                                    *)
DeepHexlify(number) == number >= 0 /\ number # Infinite

(* Mutant of Respond: an answered request is handled further.               *)
RespondAndGoOn(c, e, number) ==
    /\ answer' = [answer EXCEPT ![c] = IF IsRight(e) THEN Result(e.value) ELSE Error(e.value)]
    /\ UNCHANGED <<down, request, pc, local>>

(* Mutant of Respond: what a handler throws is not caught.                  *)
RespondUncaught(c, e, number) ==
    /\ IF e.tag = "Thrown" \/ (IsRight(e) /\ ~DeepHexlify(number))
       THEN down' = TRUE /\ UNCHANGED answer
       ELSE /\ answer' = [answer EXCEPT ![c] =
                           Fold(e, LAMBDA errorCode : Error(errorCode), LAMBDA v : Result(v))]
            /\ UNCHANGED down
    /\ pc' = [pc EXCEPT ![c] = "done"] /\ local' = [local EXCEPT ![c] = NoLocal]
    /\ UNCHANGED request

(* A Left, and what was thrown, is answered with its own code; Unknown is   *)
(* the one of an error without any, such as a TypeError.  A result that     *)
(* cannot be converted makes createSuccessResponse return undefined: the    *)
(* server folds that outside its catch, and the rejection nobody handles    *)
(* ends the process.                                                       *)
Respond(c, e, number) ==
    /\ IF IsRight(e) /\ ~DeepHexlify(number)
       THEN down' = TRUE /\ UNCHANGED answer
       ELSE /\ answer' = [answer EXCEPT ![c] =
                           IF IsRight(e) THEN Result(e.value) ELSE Error(e.value)]
            /\ UNCHANGED down
    /\ pc' = [pc EXCEPT ![c] = "done"] /\ local' = [local EXCEPT ![c] = NoLocal]
    /\ UNCHANGED request

Ok(c) == Respond(c, Right("ok"), 0)

(* Not answered yet: the handler stands at step, with its variables.        *)
Await(c, step, variables) ==
    /\ pc' = [pc EXCEPT ![c] = step]
    /\ local' = [local EXCEPT ![c] = variables]
    /\ UNCHANGED <<request, answer, down>>

-----------------------------------------------------------------------------
(* doHandleRequest.                                                        *)

Check(ok, errorCode, r) == IF ok THEN Right(r) ELSE Left(errorCode)

IsValidRpc(r) == Check("jsonrpc" \notin r.flaws, "InvalidRequest", r)
IsValidMethodString(r) == Check("method" \notin r.flaws, "InvalidRequest", r)
RequestIdNotMissing(r) == Check("noId" \notin r.flaws, "InvalidRequest", r)
IdTypeStringOrNumber(r) == Check("idType" \notin r.flaws, "InvalidRequest", r)
ParamsIsArray(r) == Check("params" \notin r.flaws, "InvalidRequest", r)
ApiEnabled(r) == Check(ApiOf(r.method) \in HttpApis, "InvalidRequest", r)
TransformRequest(r) == Check(r.method \in HandlerRegistry, "InvalidRequest", r)
IsParamsValid(r) == Check("shape" \notin r.flaws, "InvalidFields", r)

RpcValidation(r) ==
    LET called == FlatMap(FlatMap(FlatMap(IsValidRpc(r), IsValidMethodString),
                                  RequestIdNotMissing), IdTypeStringOrNumber)
    IN  FlatMap(FlatMap(FlatMap(FlatMap(called, ParamsIsArray), ApiEnabled),
                        TransformRequest), IsParamsValid)

Valid == [r \in DOMAIN Ask |-> RpcValidation(Ask[r])]

Receive(c, r) ==
    /\ At(c, "idle")
    /\ request' = [request EXCEPT ![c] = r] /\ pc' = [pc EXCEPT ![c] = "begin"]
    /\ UNCHANGED <<chainVars, stateVars, local, answer, down, bundleVars>>

RefuseRequest(c) ==
    /\ At(c, "begin") /\ IsLeft(Valid[request[c]])
    /\ Respond(c, Valid[request[c]], 0)
    /\ UNCHANGED <<chainVars, stateVars, bundleVars>>

Handles(c, method) ==
    /\ At(c, "begin") /\ Asked(c).method = method
    /\ IsRight(Valid[request[c]])

(* Handlers that answer from what is configured, or await the node once.    *)
Configured == Web3Methods \cup
    {"eth_supportedEntryPoints", "debug_bundler_setBundlingMode", "debug_bundler_setBundleInterval",
     "debug_bundler_dumpMempool"}
Forwarded == {"eth_chainId", "debug_bundler_getStakeStatus"}

AnswerSimple(c) ==
    /\ \E method \in Configured \cup Forwarded : Handles(c, method)
    /\ \/ Ok(c)
       \/ Asked(c).method \in Forwarded /\ Respond(c, NodeFails, 0)
    /\ UNCHANGED <<chainVars, stateVars, bundleVars>>

-----------------------------------------------------------------------------
(* eth_sendUserOperation.                                                  *)

(* The entries of the same sender and nonce, of which one may be replaced   *)
(* by an operation that pays a tenth more.                                 *)
SameSlot(op) == {o \in UserOp : pool[o] # None /\ Input[o].slot = Input[op].slot}
Outbids(op) == \A o \in SameSlot(op) : 10 * Input[op].fee >= 11 * Input[o].fee

(* An operation of which the paymaster is not yet known counts for none.    *)
(* Bound: the count stops at MaxSeen.                                      *)
Admit(op, entry) ==
    /\ pool' = [o \in UserOp |-> IF o = op THEN entry
                                ELSE IF o \in SameSlot(op) THEN None ELSE pool[o]]
    /\ seen' = CASE Input[op].paymaster = "absent" \/ seen = MaxSeen -> seen
                 [] Input[op].paymaster # "absent" /\ seen = Unseen -> 0
                 [] Input[op].paymaster # "absent" /\ seen \notin {Unseen, MaxSeen} -> seen + 1

SendUserOperation(c) ==
    LET r == Asked(c)
        opReady == ValidateInputParameters(Input[r.op], r.supported, TRUE, TRUE, TRUE, gasConfig)
    IN  /\ Handles(c, "eth_sendUserOperation")
        /\ IF IsRight(opReady)
           THEN Await(c, IF mode = "native" THEN "prestate" ELSE "simulate", NoLocal)
           ELSE Respond(c, opReady, 0)
        /\ UNCHANGED <<chainVars, stateVars, bundleVars>>

(* runNativeTracer asks for the state before it asks for the trace.        *)
RunNativeTracer(c, answered) ==
    /\ At(c, "prestate")
    /\ IF IsLeft(DebugTraceCall(answered)) THEN Respond(c, DebugTraceCall(answered), 0)
       ELSE Await(c, "simulate", NoLocal)
    /\ UNCHANGED <<chainVars, stateVars, bundleVars>>

(* Promise.all: when getUserOpHash is rejected the request is answered at   *)
(* once, and what the validation says later is of no use to anybody.       *)
GetUserOpHashFails(c) ==
    /\ \E step \in {"prestate", "simulate", "hash"} : At(c, step)
    /\ Respond(c, NodeFails, 0)
    /\ UNCHANGED <<chainVars, stateVars, bundleVars>>

SimulateValidation(m, answered, returned, keepsRules) ==
    IF m = "unsafe" THEN PartialSimulateValidation(answered, returned)
    ELSE FlatMap(FullSimulateValidation(answered, returned),
                 LAMBDA res : TracerResultParser(keepsRules, res))

Simulate(c, answered, returned, keepsRules) ==
    LET res == SimulateValidation(mode, answered, returned, keepsRules)
        checked == FlatMap(res, LAMBDA v : CheckValidationResult(v, now))
    IN  /\ At(c, "simulate")
        /\ IF IsRight(res) /\ mode # "unsafe"
           THEN Await(c, "hash", Simulated(res.value, None, code, None))
           ELSE IF IsRight(checked)
           THEN Await(c, "add", Simulated(checked.value, now, None, None))
           ELSE Respond(c, checked, 0)
        /\ UNCHANGED <<chainVars, stateVars, bundleVars>>

(* The code is hashed after it was traced, and only then is the time read.  *)
HashCode(c, answered) ==
    LET checked == FlatMap(RunContractScript(answered),
                           LAMBDA hash : CheckValidationResult(local[c].res, now))
    IN  /\ At(c, "hash")
        /\ IF IsRight(checked)
           THEN Await(c, "add", Simulated(local[c].res, now, local[c].traced, code))
           ELSE Respond(c, checked, 0)
        /\ UNCHANGED <<chainVars, stateVars, bundleVars>>

(* addUserOp admits the operation, in place of one of its slot if it pays   *)
(* enough more, or refuses it, by a Left or by throwing, or the node fails. *)
(* entry.at, when its result was checked, is history.                       *)
SendToMempool(c, admitted) ==
    LET op == Asked(c).op
        entry == [res |-> local[c].res, at |-> local[c].at, traced |-> local[c].traced,
                  hashed |-> local[c].hashed]
    IN  /\ At(c, "add")
        /\ IF admitted /\ Outbids(op)
           THEN Admit(op, entry) /\ Respond(c, Right("hash"), 0)
           ELSE /\ \E refusal \in {Left("Refused"), NodeFails} : Respond(c, refusal, 0)
                /\ UNCHANGED <<pool, seen>>
        /\ UNCHANGED <<chainVars, gasConfig, bundleVars>>

-----------------------------------------------------------------------------
(* eth_estimateUserOperationGas.                                           *)

Estimate(c) ==
    LET r == Asked(c)
        filled == [Input[r.op] EXCEPT !.hex = @ \cup (GasFields \ Input[r.op].present),
                                       !.present = @ \cup GasFields]
        opReady == ValidateInputParameters(filled, r.supported, TRUE, TRUE, FALSE, gasConfig)
    IN  /\ Handles(c, "eth_estimateUserOperationGas")
        /\ IF IsRight(opReady) THEN Await(c, "estimate", NoLocal) ELSE Respond(c, opReady, 0)
        /\ UNCHANGED <<chainVars, stateVars, bundleVars>>

(* The error of the call comes before that of the verification; what is     *)
(* thrown before both.  The gas of the request itself is left out of what   *)
(* is paid for before verification.                                        *)
Estimated(c, verification, callGas) ==
    LET executionResult == SimulateHandleOp(verification, Asked(c).overridden)
        estimate == FlatMap(EstimateGas(callGas), LAMBDA gas : executionResult)
    IN  /\ At(c, "estimate")
        /\ Respond(c, IF executionResult.tag = "Thrown" THEN executionResult ELSE estimate,
                   CalcPreVerificationGas(Input[Asked(c).op], gasConfig))
        /\ UNCHANGED <<chainVars, stateVars, bundleVars>>

-----------------------------------------------------------------------------
(* eth_getUserOperationReceipt and eth_getUserOperationByHash.             *)

GetUserOperation(c, method, step) ==
    /\ Handles(c, method)
    /\ \/ "hash" \in Asked(c).flaws /\ Respond(c, Left("InvalidFields"), 0)
       \/ "hash" \notin Asked(c).flaws /\ Asked(c).op \notin executed
            /\ Respond(c, Right(None), 0)
       \/ "hash" \notin Asked(c).flaws /\ Asked(c).op \in executed /\ Await(c, step, NoLocal)
       \/ "hash" \notin Asked(c).flaws /\ Respond(c, NodeFails, 0)
    /\ UNCHANGED <<chainVars, stateVars, bundleVars>>

GetReceipt(c, fails) ==
    LET op == Asked(c).op
        logs == TransactionLogs[op]
    IN  /\ At(c, "receipt")
        /\ Respond(c, IF fails THEN NodeFails
                      ELSE IF ~HasEnd(op, logs) THEN Left("Unknown")
                      ELSE Right(LogsOf(op, logs)), 0)
        /\ UNCHANGED <<chainVars, stateVars, bundleVars>>

(* A transaction that is not the EntryPoint's, or whose operations do not   *)
(* include this one, is an error.                                          *)
GetTransaction(c, fails) ==
    /\ At(c, "transaction")
    /\ \E e \in IF fails THEN {Left("Unknown"), NodeFails} ELSE {Right("operation")} :
         Respond(c, e, 0)
    /\ UNCHANGED <<chainVars, stateVars, bundleVars>>

-----------------------------------------------------------------------------
(* The debug methods that change something.                                *)

SetConfiguration(c) ==
    /\ Handles(c, "debug_bundler_setConfiguration")
    /\ gasConfig' = UpdateGasConfig(gasConfig, Asked(c).config)
    /\ Ok(c)
    /\ UNCHANGED <<chainVars, pool, seen, bundleVars>>

(* clearState clears the mempool first and the ledger after.               *)
ClearMempool(c) ==
    /\ \/ Handles(c, "debug_bundler_clearMempool") /\ Ok(c)
       \/ Handles(c, "debug_bundler_clearState") /\ Await(c, "clearLedger", NoLocal)
    /\ pool' = [op \in UserOp |-> None]
    /\ UNCHANGED <<chainVars, gasConfig, seen, bundleVars>>

ClearReputation(c) ==
    /\ Handles(c, "debug_bundler_clearReputation") \/ At(c, "clearLedger")
    /\ seen' = Unseen
    /\ Ok(c)
    /\ UNCHANGED <<chainVars, gasConfig, pool, bundleVars>>

SetReputation(c) ==
    /\ Handles(c, "debug_bundler_setReputation")
    /\ seen' = Asked(c).seen
    /\ Ok(c)
    /\ UNCHANGED <<chainVars, gasConfig, pool, bundleVars>>

DumpReputation(c) ==
    /\ Handles(c, "debug_bundler_dumpReputation")
    /\ Respond(c, Right("entries"), IF seen = Unseen THEN 0 ELSE seen)
    /\ UNCHANGED <<chainVars, stateVars, bundleVars>>

(* sendBundleNow awaits a whole attempt, the wait for its transaction in it, *)
(* and a pass over the events.  What the attempt does are BuilderStep's     *)
(* actions here, and those of module Bundler.                              *)
SendBundleNow(c) ==
    /\ Handles(c, "debug_bundler_sendBundleNow")
    /\ Await(c, "sendBundle", NoLocal)
    /\ UNCHANGED <<chainVars, stateVars, bundleVars>>

BundleSent(c) ==
    /\ At(c, "sendBundle")
    /\ Ok(c) \/ Respond(c, NodeFails, 0)
    /\ UNCHANGED <<chainVars, stateVars, bundleVars>>

(* addUserOps passes no sender info.  An operation whose slot is taken needs *)
(* none: it replaces the entry, not validated, or it is refused, which       *)
(* nobody looks at.  One whose slot is free throws once its paymaster's      *)
(* deposit was checked, and the rest of the list is dropped.                *)
AddUserOps(c) ==
    /\ Handles(c, "debug_bundler_addUserOps")
    /\ Await(c, "addNext", [NoLocal EXCEPT !.left = Asked(c).ops])
    /\ UNCHANGED <<chainVars, stateVars, bundleVars>>

AddNext(c) ==
    LET op == Head(local[c].left)
        given == local[c].left # <<>>
    IN  /\ At(c, "addNext")
        /\ \/ ~given /\ Ok(c) /\ UNCHANGED <<pool, seen>>
           \/ /\ given /\ UNCHANGED <<pool, seen>>
              /\ \E e \in {NodeFails, Thrown("Refused")} : Respond(c, e, 0)
           \/ /\ given /\ SameSlot(op) = {} /\ UNCHANGED <<pool, seen>>
              /\ Respond(c, Thrown("Unknown"), 0)
           \/ /\ given /\ SameSlot(op) # {}
              /\ IF Outbids(op) THEN Admit(op, Unvalidated) ELSE UNCHANGED <<pool, seen>>
              /\ Await(c, "addNext", [local[c] EXCEPT !.left = Tail(@)])
        /\ UNCHANGED <<chainVars, gasConfig, bundleVars>>

-----------------------------------------------------------------------------
(* The bundler: createBundle validates a pooled operation again, removes it *)
(* if that fails, and takes back the paymaster's operation if the account   *)
(* is to blame.                                                            *)

TakeUp(op) ==
    /\ ~down /\ bundle.pc = "idle" /\ pool[op] # None
    /\ bundle' = [pc |-> "compare", op |-> op, entry |-> pool[op], started |-> None]
    /\ UNCHANGED <<chainVars, stateVars, callVars, answer, down, bundled>>

Leave == bundle' = NoBundle

(* Bound: the count is taken below zero once.                               *)
TakeBack(op) ==
    seen' = IF Input[op].paymaster = "absent" \/ seen = -1 THEN seen
            ELSE IF seen = Unseen THEN 0 ELSE seen - 1

(* Mutant of CompareCode: the code is not compared.                         *)
CompareNothing ==
    /\ ~down /\ bundle.pc = "compare"
    /\ bundle' = [bundle EXCEPT !.pc = "simulate", !.started = code]
    /\ UNCHANGED <<chainVars, stateVars, callVars, answer, down, bundled>>

(* [COD-010]: the hash of the code must be the one stored with the entry.   *)
(* An operation without one was not traced.                                *)
CompareCode ==
    /\ ~down /\ bundle.pc = "compare"
    /\ \/ /\ bundle.entry.hashed \in {None, code}
          /\ bundle' = [bundle EXCEPT !.pc = "simulate", !.started = code]
          /\ UNCHANGED pool
       \/ /\ bundle.entry.hashed # None
          /\ pool' = [pool EXCEPT ![bundle.op] = None] /\ Leave
    /\ UNCHANGED <<chainVars, gasConfig, seen, callVars, answer, down, bundled>>

SimulateAgain(answered, returned, keepsRules, blamesAccount) ==
    LET checked == FlatMap(SimulateValidation(mode, answered, returned, keepsRules),
                           LAMBDA v : CheckValidationResult(v, now))
    IN  /\ ~down /\ bundle.pc = "simulate"
        /\ pool' = [pool EXCEPT ![bundle.op] = None]
        /\ IF IsRight(checked)
           THEN /\ executed' = executed \cup {bundle.op}
                /\ bundled' = bundled \cup
                     {[first |-> bundle.entry.traced, hashed |-> bundle.entry.hashed,
                       started |-> bundle.started, second |-> code]}
                /\ UNCHANGED seen
           ELSE /\ IF blamesAccount THEN TakeBack(bundle.op) ELSE UNCHANGED seen
                /\ UNCHANGED <<executed, bundled>>
        /\ Leave
        /\ UNCHANGED <<mode, now, code, gasConfig, callVars, answer, down>>

(* The chain. Bound: the contracts change once.                            *)
Tick == now < MaxTime /\ now' = now + 1 /\ UNCHANGED <<mode, code, executed>>
ChangeCode == code = 0 /\ code' = 1 /\ UNCHANGED <<mode, now, executed>>

Environment ==
    /\ ~down /\ (Tick \/ ChangeCode)
    /\ UNCHANGED <<stateVars, callVars, answer, down, bundleVars>>

-----------------------------------------------------------------------------
SendStep(c) ==
    \/ SendUserOperation(c) \/ GetUserOpHashFails(c)
    \/ \E answered \in NodeAnswers :
         \/ RunNativeTracer(c, answered)
         \/ HashCode(c, answered)
         \/ \E returned \in Returns, keepsRules \in BOOLEAN :
              Simulate(c, answered, returned, keepsRules)
    \/ \E admitted \in BOOLEAN : SendToMempool(c, admitted)

QueryStep(c) ==
    \/ AnswerSimple(c) \/ Estimate(c) \/ DumpReputation(c)
    \/ \E verification, callGas \in NodeAnswers : Estimated(c, verification, callGas)
    \/ GetUserOperation(c, "eth_getUserOperationReceipt", "receipt")
    \/ GetUserOperation(c, "eth_getUserOperationByHash", "transaction")
    \/ \E fails \in BOOLEAN : GetReceipt(c, fails) \/ GetTransaction(c, fails)

DebugStep(c) ==
    \/ SetConfiguration(c) \/ ClearMempool(c) \/ ClearReputation(c) \/ SetReputation(c)
    \/ SendBundleNow(c) \/ AddUserOps(c) \/ AddNext(c)

ClientStep(c) == RefuseRequest(c) \/ SendStep(c) \/ QueryStep(c) \/ DebugStep(c)

BuilderStep ==
    \/ \E op \in UserOp : TakeUp(op)
    \/ CompareCode
    \/ \E answered \in NodeAnswers, returned \in Returns, keepsRules, blamesAccount \in BOOLEAN :
         SimulateAgain(answered, returned, keepsRules, blamesAccount)

RequestsNext ==
    \/ \E c \in Client, r \in DOMAIN Ask : Receive(c, r)
    \/ \E c \in Client : ClientStep(c) \/ BundleSent(c)
    \/ BuilderStep
    \/ Environment

(* Nothing makes a bundle's transaction be mined, and the wait for it has   *)
(* no timeout: BundleSent is not fair.                                     *)
RequestsSpec == RequestsInit /\ [][RequestsNext]_vars /\ \A c \in Client : WF_vars(ClientStep(c))

-----------------------------------------------------------------------------
(* Properties.                                                             *)

(* A signature says when it holds; validUntil 0 is for ever.               *)
HoldsAt(data, time) ==
    /\ data.aggregator = NoAddress
    /\ data.validAfter <= time
    /\ data.validUntil = 0 \/ time <= data.validUntil

(* What some debug_bundler_addUserOps has listed.                           *)
Listed(op) ==
    \E c \in Client :
        /\ request[c] # None /\ Asked(c).method = "debug_bundler_addUserOps"
        /\ op \in Range(Asked(c).ops)

(* What is in the mempool had, when it was checked, the signature of its   *)
(* account and of its paymaster, and both held at that time: merging the    *)
(* two windows and reading 0 as "for ever" loses nothing, however long the  *)
(* request then waits (validationUtils, checkValidationResult).  Only what  *)
(* debug_bundler_addUserOps lists may get there without being validated.    *)
AdmittedWasValid ==
    \A op \in UserOp : pool[op] # None =>
        \/ pool[op] = Unvalidated /\ Listed(op)
        \/ /\ HoldsAt(pool[op].res.returned.account, pool[op].at)
           /\ HoldsAt(pool[op].res.returned.paymaster, pool[op].at)

(* [COD-010] of validateUserOp: an operation executes with the code it was  *)
(* first traced with, unless the code changed between that trace and its    *)
(* hash, or between the comparison and the second trace: the code is read   *)
(* by calls of their own before and after.  An operation that was admitted  *)
(* without a validation has no hash to compare.                            *)
SecondTraceSameCode ==
    \A b \in bundled :
        b.hashed # None /\ b.first = b.hashed /\ b.started = b.second => b.first = b.second

HasReceipt(c) ==
    /\ answer[c] # None /\ Asked(c).method = "eth_getUserOperationReceipt" /\ answer[c].ok
    /\ answer[c].value # None

(* The logs in a receipt end right before the operation's event and miss    *)
(* none that it emitted, and nothing of a later operation or of the         *)
(* validations is among them (filterLogs).  Logs of earlier operations may  *)
(* be: see ReceiptHasOwnLogs.                                              *)
ReceiptLosesNoLog ==
    \A c \in Client :
        HasReceipt(c) => HasAllOf(Asked(c).op, TransactionLogs[Asked(c).op], answer[c].value)

(* "Filter full bundle logs, and leave only logs for the given userOpHash"  *)
(* (filterLogs' own comment).  BeforeExecution sets endIndex, so another    *)
(* operation's event never moves startIndex, and the logs of the operations *)
(* executed before this one stay.                                          *)
ReceiptHasOwnLogs ==
    \A c \in Client :
        HasReceipt(c) => \A n \in DOMAIN answer[c].value : OwnLog(Asked(c).op, answer[c].value[n])

(* A count below zero, or a bundle size of zero, which toBeHex refuses.     *)
Unprintable == (seen # Unseen /\ seen < 0) \/ gasConfig.expectedBundleSize = 0

(* Whatever a handler returns or throws, and whatever the others do, the    *)
(* request is answered; only a result that cannot be converted to          *)
(* hexadecimal ends the process with requests unanswered (createApp,       *)
(* createSuccessResponse).  A sendBundleNow may wait for its bundle's       *)
(* transaction for ever.                                                   *)
EveryRequestAnswered ==
    \A c \in Client :
        pc[c] = "begin" ~> \/ answer[c] # None \/ (down /\ Unprintable)
                           \/ pc[c] = "sendBundle"
=============================================================================
