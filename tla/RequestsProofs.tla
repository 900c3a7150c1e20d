---------------------------- MODULE RequestsProofs ----------------------------
(***************************************************************************)
(* Proofs about the RPC server, for any number of clients and whatever     *)
(* they ask, whatever simulations return and whatever the chain does       *)
(* between the steps of a handler.                                         *)
(***************************************************************************)
EXTENDS Requests, TLAPS, SequenceTheorems, WellFoundedInduction

Parsed == {ParseValidationResult(r) : r \in Returns}

-----------------------------------------------------------------------------
(* What the checks of a simulation's result establish.                     *)

(* A merged window is within both windows it was merged from, and 0, which *)
(* stands for "for ever", is not lost on the way.                          *)
LEMMA CheckedHolds ==
    ASSUME NEW r \in Returns, NEW time \in Nat,
           IsRight(CheckValidationResult(ParseValidationResult(r), time))
    PROVE  HoldsAt(r.account, time) /\ HoldsAt(r.paymaster, time)
<1> DEFINE res == ParseValidationResult(r)
<1>1. /\ r.account.validAfter \in Nat /\ r.account.validUntil \in Nat
      /\ r.paymaster.validAfter \in Nat /\ r.paymaster.validUntil \in Nat
      /\ MaxUint48 \in Nat
  BY RequestsAssumption, ValidationAssumption
<1>2. /\ ~res.sigFailed
      /\ ~(res.validAfter > time \/ res.validUntil < time)
  BY DEF CheckValidationResult, IsRight, Left, Right
<1>3. r.account.aggregator = NoAddress /\ r.paymaster.aggregator = NoAddress
  BY <1>2, ValidationAssumption DEF ParseValidationResult, MergeValidationData, ParseValidationData
<1>4. r.account.validAfter <= time /\ r.paymaster.validAfter <= time
  BY <1>1, <1>2 DEF ParseValidationResult, MergeValidationData, ParseValidationData, Greatest
<1>5. /\ r.account.validUntil = 0 \/ time <= r.account.validUntil
      /\ r.paymaster.validUntil = 0 \/ time <= r.paymaster.validUntil
  BY <1>1, <1>2 DEF ParseValidationResult, MergeValidationData, ParseValidationData, Least
<1> QED
  BY <1>3, <1>4, <1>5 DEF HoldsAt

(* A check returns what it checked, or an error with a code.    *)
LEMMA CheckType ==
    ASSUME NEW res, NEW time
    PROVE  /\ IsRight(CheckValidationResult(res, time)) => CheckValidationResult(res, time).value = res
           /\ ~IsRight(CheckValidationResult(res, time)) =>
                CheckValidationResult(res, time).value \in Codes
BY DEF CheckValidationResult, IsRight, Left, Right, Codes

LEMMA SimulatedType ==
    ASSUME NEW m \in Modes, NEW answered \in NodeAnswers, NEW returned \in Returns,
           NEW keepsRules \in BOOLEAN
    PROVE  /\ IsRight(SimulateValidation(m, answered, returned, keepsRules)) =>
                SimulateValidation(m, answered, returned, keepsRules).value \in Parsed
           /\ ~IsRight(SimulateValidation(m, answered, returned, keepsRules)) =>
                SimulateValidation(m, answered, returned, keepsRules).value \in Codes
<1> DEFINE parsed == ParseValidationResult(returned)
<1>1. parsed \in Parsed
  BY DEF Parsed
<1>2. PartialSimulateValidation(answered, returned) \in
        {Right(parsed), NodeFails, Left("SimulateValidation")}
  BY DEF PartialSimulateValidation, DecodeRevertReason, FlatMap, IsRight, Left, Right, Thrown,
     NodeFails
<1>3. FullSimulateValidation(answered, returned) \in
        {Right(parsed), Left("Unknown"), Left("InternalError"), Left("SimulateValidation")}
  BY DEF FullSimulateValidation, DebugTraceCall, ParseTracerResultCalls,
     ParseValidationResultSafe, FlatMap, IsRight, Left, Right
<1>4. SimulateValidation(m, answered, returned, keepsRules) \in
        {Right(parsed), NodeFails, Thrown("OpcodeValidation"), Left("Unknown"),
         Left("InternalError"), Left("SimulateValidation")}
  BY <1>2, <1>3 DEF SimulateValidation, TracerResultParser, RequireCond, FlatMap, IsRight, Left,
     Right, Thrown
<1> QED
  BY <1>1, <1>4 DEF IsRight, Left, Right, Thrown, NodeFails, Codes

(* Every other check returns a value or an error with a code.   *)
LEMMA InputType ==
    ASSUME NEW input, NEW supported, NEW sig, NEW gas, NEW preGas, NEW config
    PROVE  LET v == ValidateInputParameters(input, supported, sig, gas, preGas, config)
           IN  IsRight(v) \/ v.value \in Codes
BY DEF ValidateInputParameters, RequireCond, IsRight, Left, Right, Thrown, Codes

LEMMA RpcType ==
    ASSUME NEW r
    PROVE  IsRight(RpcValidation(r)) \/ RpcValidation(r).value \in Codes
<1> DEFINE Outcomes == {Right(r), Left("InvalidRequest"), Left("InvalidFields")}
           first == FlatMap(IsValidRpc(r), IsValidMethodString)
           second == FlatMap(first, RequestIdNotMissing)
           called == FlatMap(second, IdTypeStringOrNumber)
           third == FlatMap(called, ParamsIsArray)
           fourth == FlatMap(third, ApiEnabled)
           fifth == FlatMap(fourth, TransformRequest)
           sixth == FlatMap(fifth, IsParamsValid)
<1>1. /\ IsValidRpc(r) \in Outcomes /\ IsValidMethodString(r) \in Outcomes
      /\ RequestIdNotMissing(r) \in Outcomes /\ IdTypeStringOrNumber(r) \in Outcomes
      /\ ParamsIsArray(r) \in Outcomes /\ ApiEnabled(r) \in Outcomes
      /\ TransformRequest(r) \in Outcomes /\ IsParamsValid(r) \in Outcomes
  BY DEF IsValidRpc, IsValidMethodString, RequestIdNotMissing, IdTypeStringOrNumber,
     ParamsIsArray, ApiEnabled, TransformRequest, IsParamsValid, Check
<1>2. \A e \in Outcomes : IsRight(e) => e.value = r
  BY DEF IsRight, Left, Right
<1>3. first \in Outcomes
  BY <1>1, <1>2 DEF FlatMap
<1>4. second \in Outcomes
  BY <1>1, <1>2, <1>3 DEF FlatMap
<1>5. called \in Outcomes
  BY <1>1, <1>2, <1>4 DEF FlatMap
<1>6. third \in Outcomes
  BY <1>1, <1>2, <1>5 DEF FlatMap
<1>7. fourth \in Outcomes
  BY <1>1, <1>2, <1>6 DEF FlatMap
<1>8. fifth \in Outcomes
  BY <1>1, <1>2, <1>7 DEF FlatMap
<1>9. sixth \in Outcomes
  BY <1>1, <1>2, <1>8 DEF FlatMap
<1>10. RpcValidation(r) \in Outcomes
  BY <1>9 DEF RpcValidation
<1> QED
  BY <1>10 DEF IsRight, Left, Right, Codes

LEMMA NodeType ==
    ASSUME NEW answered \in NodeAnswers, NEW overridden
    PROVE  /\ IsRight(DebugTraceCall(answered)) \/ DebugTraceCall(answered).value \in Codes
           /\ IsRight(RunContractScript(answered)) \/ RunContractScript(answered).value \in Codes
           /\ IsRight(EstimateGas(answered)) \/ EstimateGas(answered).value \in Codes
           /\ \/ IsRight(SimulateHandleOp(answered, overridden))
              \/ SimulateHandleOp(answered, overridden).value \in Codes
BY DEF NodeAnswers, DebugTraceCall, RunContractScript, EstimateGas, SimulateHandleOp,
   DecodeRevertReason, FlatMap, IsRight, Left, Right, Thrown, NodeFails, Codes

-----------------------------------------------------------------------------
(* The inductive invariant.                                                *)

(* What an entry of the mempool, and a request about to become one, has:    *)
(* a result that was checked when the entry says, and, unless validation is *)
(* unsafe, a hash of the code.                                             *)
Admissible(entry) ==
    /\ entry.res \in Parsed /\ entry.at \in 1..MaxTime
    /\ entry.traced \in {None} \cup 0..1 /\ entry.hashed \in {None} \cup 0..1
    /\ mode = "unsafe" <=> entry.hashed = None
    /\ entry.traced = None <=> entry.hashed = None
    /\ IsRight(CheckValidationResult(entry.res, entry.at))

(* An entry of the mempool is validated, or on the list of somebody's       *)
(* debug_bundler_addUserOps.                                               *)
Entitled(op, entry) ==
    \/ entry = Unvalidated /\ Listed(op)
    \/ Admissible(entry)

IsLocal(v) == v = [res |-> v.res, at |-> v.at, traced |-> v.traced, hashed |-> v.hashed,
                   left |-> v.left]

AsksToAdd(c) == Asked(c).method = "debug_bundler_addUserOps"

(* The variables of a handler that stands at a step.                       *)
LocalFor(c, step, v) ==
    /\ IsLocal(v)
    /\ step = "hash" => mode # "unsafe" /\ v.res \in Parsed /\ v.traced \in 0..1
    /\ step = "add" => Admissible(v)
    /\ step = "addNext" => AsksToAdd(c) /\ v.left \in Seq(Range(Asked(c).ops))

CallInv ==
    /\ request \in [Client -> {None} \cup DOMAIN Ask] /\ pc \in [Client -> Steps]
    /\ local = [c \in Client |-> local[c]] /\ answer = [c \in Client |-> answer[c]]
    /\ down \in BOOLEAN
    /\ \A c \in Client :
         /\ pc[c] # "idle" => request[c] \in DOMAIN Ask
         /\ pc[c] = "idle" => request[c] = None
         /\ LocalFor(c, pc[c], local[c])
         /\ answer[c] # None => pc[c] = "done" /\ (~answer[c].ok => answer[c].code \in Codes)

(* The operation the bundler validates again keeps the entry it was taken  *)
(* up with, and is traced after its code was compared with the entry's.    *)
BundleInv ==
    /\ bundle = [pc |-> bundle.pc, op |-> bundle.op, entry |-> bundle.entry,
                 started |-> bundle.started]
    /\ bundle.pc \in {"compare", "simulate"} =>
         bundle.op \in UserOp /\ (bundle.entry = Unvalidated \/ Admissible(bundle.entry))
    /\ bundle.pc = "simulate" /\ bundle.entry.hashed # None => bundle.started = bundle.entry.hashed
    /\ \A b \in bundled :
         /\ b.hashed = None <=> b.first = None
         /\ mode = "unsafe" => b.hashed = None
    /\ SecondTraceSameCode

StateInv ==
    /\ mode \in Modes /\ now \in 1..MaxTime /\ code \in 0..1
    /\ pool \in [UserOp -> {None, Unvalidated} \cup Entry]
    /\ \A op \in UserOp : pool[op] # None => Entitled(op, pool[op])
    /\ seen \in {Unseen} \cup -1..MaxSeen
    /\ executed \subseteq UserOp

RequestsInv == CallInv /\ BundleInv /\ StateInv

LEMMA InvMeans == RequestsInv => RequestsTypeOK /\ AdmittedWasValid /\ SecondTraceSameCode
<1> SUFFICES ASSUME RequestsInv
             PROVE  RequestsTypeOK /\ AdmittedWasValid /\ SecondTraceSameCode
  OBVIOUS
<1>1. RequestsTypeOK
  BY DEF RequestsInv, CallInv, BundleInv, StateInv, RequestsTypeOK
<1>2. AdmittedWasValid
  <2>1. ASSUME NEW op \in UserOp, pool[op] # None, ~(pool[op] = Unvalidated /\ Listed(op))
        PROVE  /\ HoldsAt(pool[op].res.returned.account, pool[op].at)
               /\ HoldsAt(pool[op].res.returned.paymaster, pool[op].at)
    <3>1. Admissible(pool[op])
      BY <2>1 DEF RequestsInv, StateInv, Entitled
    <3>2. PICK r \in Returns : pool[op].res = ParseValidationResult(r)
      BY <3>1 DEF Admissible, Parsed
    <3>3. pool[op].res.returned = r
      BY <3>2 DEF ParseValidationResult
    <3>4. pool[op].at \in Nat
      BY <3>1, RequestsAssumption DEF Admissible
    <3> QED
      BY <3>1, <3>2, <3>3, <3>4, CheckedHolds DEF Admissible
  <2> QED
    BY <2>1 DEF AdmittedWasValid
<1> QED
  BY <1>1, <1>2 DEF RequestsInv, BundleInv

LEMMA InvInit == RequestsInit => RequestsInv
<1> SUFFICES ASSUME RequestsInit
             PROVE  RequestsInv
  OBVIOUS
<1>1. CallInv
  BY DEF RequestsInit, CallInv, LocalFor, IsLocal, NoLocal, Simulated, Steps
<1>2. BundleInv
  BY DEF RequestsInit, BundleInv, NoBundle, SecondTraceSameCode
<1>3. StateInv
  BY RequestsAssumption DEF RequestsInit, StateInv
<1> QED
  BY <1>1, <1>2, <1>3 DEF RequestsInv

-----------------------------------------------------------------------------
(* What handlers do with their own variables.                              *)

LEMMA RespondType ==
    ASSUME CallInv, NEW c \in Client, NEW e, NEW number, Respond(c, e, number),
           pc[c] # "idle", IsRight(e) \/ e.value \in Codes, UNCHANGED mode
    PROVE  CallInv'
<1>1. pc' \in [Client -> Steps] /\ down' \in BOOLEAN
  BY DEF CallInv, Respond, Steps
<1>2. local' = [d \in Client |-> local'[d]] /\ answer' = [d \in Client |-> answer'[d]]
  BY DEF CallInv, Respond
<1>3. ASSUME NEW d \in Client, answer'[d] # None
      PROVE  pc'[d] = "done" /\ (~answer'[d].ok => answer'[d].code \in Codes)
  <2>1. CASE d # c \/ answer' = answer
    BY <1>3, <2>1 DEF CallInv, Respond
  <2>2. CASE d = c /\ answer' # answer
    <3>1. answer'[c] = (IF IsRight(e) THEN Result(e.value) ELSE Error(e.value)) /\ pc'[c] = "done"
      BY <2>2 DEF CallInv, Respond
    <3> QED
      BY <2>2, <3>1 DEF Result, Error
  <2> QED
    BY <2>1, <2>2
<1>4. ASSUME NEW d \in Client
      PROVE  LocalFor(d, pc[d], local[d])'
  <2>1. CASE d = c
    BY <2>1 DEF CallInv, Respond, LocalFor, IsLocal, NoLocal, Simulated
  <2>2. CASE d # c
    <3>1. /\ pc'[d] = pc[d] /\ local'[d] = local[d] /\ LocalFor(d, pc[d], local[d])
          /\ UNCHANGED request
      BY <2>2 DEF CallInv, Respond
    <3> QED
      BY <3>1 DEF LocalFor, IsLocal, Admissible, AsksToAdd, Asked
  <2> QED
    BY <2>1, <2>2
<1>5. \A d \in Client : /\ pc'[d] # "idle" => request'[d] \in DOMAIN Ask
                        /\ pc'[d] = "idle" => request'[d] = None
  BY DEF CallInv, Respond
<1> QED
  BY <1>1, <1>2, <1>3, <1>4, <1>5 DEF CallInv, Respond

LEMMA AwaitType ==
    ASSUME CallInv, NEW c \in Client, NEW step \in Steps, NEW variables,
           Await(c, step, variables), pc[c] \notin {"idle", "done"},
           step # "idle", LocalFor(c, step, variables), UNCHANGED mode
    PROVE  CallInv'
<1>1. pc' \in [Client -> Steps]
  BY DEF CallInv, Await
<1>2. local' = [d \in Client |-> local'[d]] /\ answer' = [d \in Client |-> answer'[d]]
  BY DEF CallInv, Await
<1>3. \A d \in Client : answer'[d] # None => pc'[d] = "done" /\ (~answer'[d].ok => answer'[d].code \in Codes)
  BY DEF CallInv, Await
<1>4. ASSUME NEW d \in Client
      PROVE  LocalFor(d, pc[d], local[d])'
  <2>1. /\ UNCHANGED request
        /\ \/ d = c /\ pc'[d] = step /\ local'[d] = variables
           \/ pc'[d] = pc[d] /\ local'[d] = local[d] /\ LocalFor(d, pc[d], local[d])
    BY DEF CallInv, Await
  <2> QED
    BY <2>1 DEF LocalFor, IsLocal, Admissible, AsksToAdd, Asked
<1>5. \A d \in Client : /\ pc'[d] # "idle" => request'[d] \in DOMAIN Ask
                        /\ pc'[d] = "idle" => request'[d] = None
  BY DEF CallInv, Await
<1> QED
  BY <1>1, <1>2, <1>3, <1>4, <1>5 DEF CallInv, Await

LEMMA NothingLocal ==
    \A c \in Client, step \in Steps \ {"hash", "add", "addNext"} : LocalFor(c, step, NoLocal)
BY DEF LocalFor, IsLocal, NoLocal, Simulated

(* A handler's step ends with an answer, or leaves  *)
(* the handler with the variables its next step needs.                     *)
Answers(c) == \E e, number : (IsRight(e) \/ e.value \in Codes) /\ Respond(c, e, number)
Waits(c) == \E step \in Steps \ {"idle"} : \E v : LocalFor(c, step, v) /\ Await(c, step, v)

LEMMA CallSteps ==
    ASSUME CallInv, NEW c \in Client, pc[c] \notin {"idle", "done"}, Answers(c) \/ Waits(c),
           UNCHANGED mode
    PROVE  CallInv'
<1>1. CASE Answers(c)
  <2>1. PICK e, number : (IsRight(e) \/ e.value \in Codes) /\ Respond(c, e, number)
    BY <1>1 DEF Answers
  <2> QED
    BY <2>1, RespondType
<1>2. CASE Waits(c)
  <2>1. PICK step \in Steps \ {"idle"} : \E v : LocalFor(c, step, v) /\ Await(c, step, v)
    BY <1>2 DEF Waits
  <2>2. PICK v : LocalFor(c, step, v) /\ Await(c, step, v)
    BY <2>1
  <2> QED
    BY <2>2, AwaitType
<1> QED
  BY <1>1, <1>2

LEMMA OkAnswers == \A c \in Client : Ok(c) => Answers(c)
BY DEF Ok, Answers, IsRight, Right

(* No step takes back what a client has asked.                              *)
RequestsKept == \A d \in Client : request[d] # None => request'[d] = request[d]

LEMMA CallsKeepRequests ==
    ASSUME NEW c \in Client, Answers(c) \/ Waits(c)
    PROVE  UNCHANGED request /\ RequestsKept
BY DEF Answers, Waits, Respond, Await, RequestsKept

LEMMA EntitledStays ==
    ASSUME NEW op, NEW entry, Entitled(op, entry), RequestsKept, UNCHANGED mode
    PROVE  Entitled(op, entry)'
<1>1. CASE entry = Unvalidated /\ Listed(op)
  <2>1. PICK d \in Client : /\ request[d] # None /\ AsksToAdd(d)
                           /\ op \in Range(Asked(d).ops)
    BY <1>1 DEF Listed, AsksToAdd
  <2>2. request'[d] = request[d]
    BY <2>1 DEF RequestsKept
  <2>3. Listed(op)'
    BY <2>1, <2>2 DEF Listed, AsksToAdd, Asked
  <2> QED
    BY <1>1, <2>3 DEF Entitled
<1>2. CASE Admissible(entry)
  BY <1>2 DEF Entitled, Admissible
<1> QED
  BY <1>1, <1>2 DEF Entitled

(* Taking entries away, or leaving them, entitles none.                     *)
LEMMA PoolStays ==
    ASSUME StateInv, RequestsKept, UNCHANGED mode,
           pool' \in [UserOp -> {None, Unvalidated} \cup Entry],
           \A op \in UserOp : pool'[op] \in {None, pool[op]}
    PROVE  \A op \in UserOp : pool'[op] # None => Entitled(op, pool[op])'
<1>1. ASSUME NEW op \in UserOp, pool'[op] # None
      PROVE  Entitled(op, pool[op])'
  <2>1. pool'[op] = pool[op] /\ Entitled(op, pool[op])
    BY <1>1 DEF StateInv
  <2>2. Entitled(op, pool'[op])
    BY <2>1
  <2>3. \A x : Entitled(op, x) => Entitled(op, x)'
    BY EntitledStays
  <2> QED
    BY <2>2, <2>3
<1> QED
  BY <1>1

LEMMA BundleStays == ASSUME BundleInv, UNCHANGED <<bundleVars, mode>> PROVE BundleInv'
BY DEF BundleInv, bundleVars, Admissible, SecondTraceSameCode

LEMMA StateStays ==
    ASSUME StateInv, UNCHANGED <<chainVars, stateVars>>, RequestsKept
    PROVE  StateInv'
<1>1. UNCHANGED mode /\ UNCHANGED pool
  BY DEF chainVars, stateVars
<1>2. \A op \in UserOp : pool'[op] # None => Entitled(op, pool[op])'
  BY <1>1, PoolStays DEF StateInv
<1> QED
  BY <1>1, <1>2 DEF StateInv, chainVars, stateVars

(* Most steps of a handler change nothing but where it stands.             *)
LEMMA HandlerOnly ==
    ASSUME RequestsInv, NEW c \in Client, pc[c] \notin {"idle", "done"}, Answers(c) \/ Waits(c),
           UNCHANGED <<chainVars, stateVars, bundleVars>>
    PROVE  RequestsInv'
<1>1. UNCHANGED mode
  BY DEF chainVars
<1> QED
  BY <1>1, CallSteps, CallsKeepRequests, BundleStays, StateStays DEF RequestsInv

-----------------------------------------------------------------------------
(* eth_sendUserOperation.                                                  *)

LEMMA SendUserOperationStep ==
    ASSUME RequestsInv, NEW c \in Client, SendUserOperation(c)
    PROVE  RequestsInv'
<1> DEFINE r == Asked(c)
           opReady == ValidateInputParameters(Input[r.op], r.supported, TRUE, TRUE, TRUE, gasConfig)
<1>1. pc[c] = "begin" /\ UNCHANGED <<chainVars, stateVars, bundleVars>>
  BY DEF SendUserOperation, Handles, At
<1>2. CASE IsRight(opReady)
  <2>1. \E step \in {"prestate", "simulate"} : Await(c, step, NoLocal)
    BY <1>2 DEF SendUserOperation
  <2>2. Waits(c)
    BY <2>1, NothingLocal DEF Waits, Steps
  <2> QED
    BY <1>1, <2>2, HandlerOnly
<1>3. CASE ~IsRight(opReady)
  <2>1. Respond(c, opReady, 0)
    BY <1>3 DEF SendUserOperation
  <2>2. opReady.value \in Codes
    BY <1>3, InputType
  <2>3. Answers(c)
    BY <2>1, <2>2 DEF Answers
  <2> QED
    BY <1>1, <2>3, HandlerOnly
<1> QED
  BY <1>2, <1>3

LEMMA RunNativeTracerStep ==
    ASSUME RequestsInv, NEW c \in Client, NEW answered \in NodeAnswers,
           RunNativeTracer(c, answered)
    PROVE  RequestsInv'
<1>1. pc[c] = "prestate" /\ UNCHANGED <<chainVars, stateVars, bundleVars>>
  BY DEF RunNativeTracer, At
<1>2. \/ IsLeft(DebugTraceCall(answered)) /\ Respond(c, DebugTraceCall(answered), 0)
      \/ Await(c, "simulate", NoLocal)
  BY DEF RunNativeTracer
<1>3. IsLeft(DebugTraceCall(answered)) => DebugTraceCall(answered).value \in Codes
  BY NodeType DEF IsLeft, IsRight
<1>4. Answers(c) \/ Waits(c)
  BY <1>2, <1>3, NothingLocal DEF Answers, Waits, Steps
<1> QED
  BY <1>1, <1>4, HandlerOnly

LEMMA GetUserOpHashFailsStep ==
    ASSUME RequestsInv, NEW c \in Client, GetUserOpHashFails(c)
    PROVE  RequestsInv'
<1>1. pc[c] \notin {"idle", "done"} /\ UNCHANGED <<chainVars, stateVars, bundleVars>>
  BY DEF GetUserOpHashFails, At
<1>2. Answers(c)
  BY DEF GetUserOpHashFails, Answers, NodeFails, Thrown, Codes
<1> QED
  BY <1>1, <1>2, HandlerOnly

(* The result goes with the handler to the hash of the code, or, checked    *)
(* now, to the mempool.                                                    *)
LEMMA SimulateStep ==
    ASSUME RequestsInv, NEW c \in Client, NEW answered \in NodeAnswers, NEW returned \in Returns,
           NEW keepsRules \in BOOLEAN, Simulate(c, answered, returned, keepsRules)
    PROVE  RequestsInv'
<1> DEFINE res == SimulateValidation(mode, answered, returned, keepsRules)
           checked == IF IsRight(res) THEN CheckValidationResult(res.value, now) ELSE res
<1>1. pc[c] = "simulate" /\ UNCHANGED <<chainVars, stateVars, bundleVars>>
  BY DEF Simulate, At
<1>2. /\ mode \in Modes /\ now \in 1..MaxTime /\ code \in 0..1
  BY DEF RequestsInv, StateInv
<1>3. /\ IsRight(res) => res.value \in Parsed
      /\ ~IsRight(res) => res.value \in Codes
  BY <1>2, SimulatedType
<1>4. \/ /\ IsRight(res) /\ mode # "unsafe"
         /\ Await(c, "hash", Simulated(res.value, None, code, None))
      \/ /\ IsRight(checked) /\ (IsRight(res) => mode = "unsafe")
         /\ Await(c, "add", Simulated(checked.value, now, None, None))
      \/ ~IsRight(checked) /\ Respond(c, checked, 0)
  BY DEF Simulate, FlatMap
<1>5. CASE /\ IsRight(res) /\ mode # "unsafe"
           /\ Await(c, "hash", Simulated(res.value, None, code, None))
  <2> DEFINE v == Simulated(res.value, None, code, None)
  <2>1. v = [res |-> res.value, at |-> None, traced |-> code, hashed |-> None, left |-> <<>>]
    BY DEF Simulated
  <2> HIDE DEF v, res
  <2>2. LocalFor(c, "hash", v)
    BY <1>2, <1>3, <1>5, <2>1 DEF LocalFor, IsLocal
  <2>3. Await(c, "hash", v)
    BY <1>5 DEF v, res
  <2>4. Waits(c)
    BY <2>2, <2>3 DEF Waits, Steps
  <2> QED
    BY <1>1, <2>4, HandlerOnly
<1>6. CASE /\ IsRight(checked) /\ (IsRight(res) => mode = "unsafe")
           /\ Await(c, "add", Simulated(checked.value, now, None, None))
  <2> DEFINE v == Simulated(checked.value, now, None, None)
  <2>1. IsRight(res) /\ mode = "unsafe" /\ res.value \in Parsed
    BY <1>3, <1>6
  <2>2. IsRight(CheckValidationResult(res.value, now)) /\ checked.value = res.value
    BY <1>6, <2>1, CheckType
  <2>3. v = [res |-> res.value, at |-> now, traced |-> None, hashed |-> None, left |-> <<>>]
    BY <2>2 DEF Simulated
  <2>4. Admissible(v)
    BY <1>2, <2>1, <2>2, <2>3 DEF Admissible
  <2>5. LocalFor(c, "add", v)
    BY <2>3, <2>4 DEF LocalFor, IsLocal
  <2>6. Waits(c)
    BY <1>6, <2>5 DEF Waits, Steps
  <2> QED
    BY <1>1, <2>6, HandlerOnly
<1>7. CASE ~IsRight(checked) /\ Respond(c, checked, 0)
  <2>1. checked.value \in Codes
    BY <1>3, <1>7, CheckType
  <2>2. Answers(c)
    BY <1>7, <2>1 DEF Answers
  <2> QED
    BY <1>1, <2>2, HandlerOnly
<1> QED
  BY <1>4, <1>5, <1>6, <1>7

LEMMA HashCodeStep ==
    ASSUME RequestsInv, NEW c \in Client, NEW answered \in NodeAnswers, HashCode(c, answered)
    PROVE  RequestsInv'
<1> DEFINE script == RunContractScript(answered)
           checked == IF IsRight(script) THEN CheckValidationResult(local[c].res, now) ELSE script
<1>1. pc[c] = "hash" /\ UNCHANGED <<chainVars, stateVars, bundleVars>>
  BY DEF HashCode, At
<1>2. /\ mode \in Modes /\ now \in 1..MaxTime /\ code \in 0..1
  BY DEF RequestsInv, StateInv
<1>3. LocalFor(c, "hash", local[c])
  BY <1>1 DEF RequestsInv, CallInv
<1>4. CASE IsRight(checked)
  <2> DEFINE v == Simulated(local[c].res, now, local[c].traced, code)
  <2>1. Await(c, "add", v)
    BY <1>4 DEF HashCode, FlatMap
  <2>2. IsRight(CheckValidationResult(local[c].res, now))
    BY <1>4
  <2>3. v = [res |-> local[c].res, at |-> now, traced |-> local[c].traced, hashed |-> code,
             left |-> <<>>]
    BY DEF Simulated
  <2>4. code # None /\ local[c].traced # None
    <3>1. None \notin 0..1
      BY RequestsAssumption
    <3> QED
      BY <1>2, <1>3, <3>1 DEF LocalFor
  <2>5. Admissible(v)
    BY <1>2, <1>3, <2>2, <2>3, <2>4 DEF Admissible, LocalFor
  <2>6. LocalFor(c, "add", v)
    BY <2>3, <2>5 DEF LocalFor, IsLocal
  <2>7. Waits(c)
    BY <2>1, <2>6 DEF Waits, Steps
  <2> QED
    BY <1>1, <2>7, HandlerOnly
<1>5. CASE ~IsRight(checked)
  <2>1. Respond(c, checked, 0)
    BY <1>5 DEF HashCode, FlatMap
  <2>2. checked.value \in Codes
    BY <1>5, NodeType, CheckType
  <2>3. Answers(c)
    BY <1>5, <2>1, <2>2 DEF Answers
  <2> QED
    BY <1>1, <2>3, HandlerOnly
<1> QED
  BY <1>4, <1>5

(* What is admitted is entitled to be, and takes the place of others.       *)
LEMMA AdmitType ==
    ASSUME StateInv, NEW op, NEW entry \in {Unvalidated} \cup Entry, Admit(op, entry),
           Entitled(op, entry), RequestsKept, UNCHANGED <<chainVars, gasConfig>>
    PROVE  StateInv'
<1>1. UNCHANGED mode
  BY DEF chainVars
<1>2. /\ pool' = [o \in UserOp |-> pool'[o]]
      /\ \A o \in UserOp : pool'[o] \in {None, pool[o], entry}
  BY DEF Admit
<1>3. pool' \in [UserOp -> {None, Unvalidated} \cup Entry]
  BY <1>2 DEF StateInv
<1>4. \A o, x : Entitled(o, x) => Entitled(o, x)'
  BY <1>1, EntitledStays
<1>5. ASSUME NEW o \in UserOp, pool'[o] # None
      PROVE  Entitled(o, pool[o])'
  <2>1. \/ o = op /\ pool'[o] = entry
        \/ pool'[o] = pool[o]
    BY <1>5 DEF Admit
  <2>2. Entitled(o, pool'[o])
    BY <1>5, <2>1 DEF StateInv
  <2> QED
    BY <1>4, <2>2
<1>6. seen' \in {Unseen} \cup -1..MaxSeen
  BY RequestsAssumption DEF Admit, StateInv
<1> QED
  BY <1>3, <1>5, <1>6 DEF StateInv, chainVars

(* What the mempool admits was checked when the handler's variables say.   *)
LEMMA SendToMempoolStep ==
    ASSUME RequestsInv, NEW c \in Client, NEW admitted \in BOOLEAN, SendToMempool(c, admitted)
    PROVE  RequestsInv'
<1> DEFINE op == Asked(c).op
           entry == [res |-> local[c].res, at |-> local[c].at, traced |-> local[c].traced,
                     hashed |-> local[c].hashed]
<1>1. pc[c] = "add" /\ UNCHANGED <<chainVars, gasConfig, bundleVars>>
  BY DEF SendToMempool, At
<1>2. UNCHANGED mode
  BY <1>1 DEF chainVars
<1>3. \/ Admit(op, entry) /\ Respond(c, Right("hash"), 0)
      \/ /\ Respond(c, Left("Refused"), 0) \/ Respond(c, NodeFails, 0)
         /\ UNCHANGED <<pool, seen>>
  BY DEF SendToMempool
<1>4. Answers(c)
  BY <1>3 DEF Answers, IsRight, Right, Left, Thrown, NodeFails, Codes
<1>5. CallInv' /\ BundleInv' /\ RequestsKept
  BY <1>1, <1>2, <1>4, CallSteps, CallsKeepRequests, BundleStays DEF RequestsInv
<1>6. CASE Admit(op, entry)
  <2>1. Admissible(local[c])
    BY <1>1 DEF RequestsInv, CallInv, LocalFor
  <2>2. entry \in Entry /\ Admissible(entry)
    BY <2>1 DEF Admissible, Entry, Parsed
  <2>3. Entitled(op, entry)
    BY <2>2 DEF Entitled
  <2> HIDE DEF entry, op
  <2>4. StateInv'
    BY <1>1, <1>5, <1>6, <2>2, <2>3, AdmitType DEF RequestsInv
  <2> QED
    BY <1>5, <2>4 DEF RequestsInv
<1>7. CASE UNCHANGED <<pool, seen>>
  BY <1>1, <1>5, <1>7, StateStays DEF RequestsInv, stateVars
<1> QED
  BY <1>3, <1>6, <1>7

LEMMA SendStepKeeps ==
    ASSUME RequestsInv, NEW c \in Client, SendStep(c)
    PROVE  RequestsInv'
BY SendUserOperationStep, GetUserOpHashFailsStep, RunNativeTracerStep, HashCodeStep, SimulateStep,
   SendToMempoolStep DEF SendStep

-----------------------------------------------------------------------------
(* The methods that only ask.                                              *)

LEMMA AnswerSimpleStep ==
    ASSUME RequestsInv, NEW c \in Client, AnswerSimple(c)
    PROVE  RequestsInv'
<1>1. pc[c] = "begin" /\ UNCHANGED <<chainVars, stateVars, bundleVars>>
  BY DEF AnswerSimple, Handles, At
<1>2. Ok(c) \/ Respond(c, NodeFails, 0)
  BY DEF AnswerSimple
<1>3. Answers(c)
  BY <1>2, OkAnswers DEF Answers, NodeFails, Thrown, Codes
<1> QED
  BY <1>1, <1>3, HandlerOnly

LEMMA EstimateStep ==
    ASSUME RequestsInv, NEW c \in Client, Estimate(c)
    PROVE  RequestsInv'
<1> DEFINE r == Asked(c)
           filled == [Input[r.op] EXCEPT !.hex = @ \cup (GasFields \ Input[r.op].present),
                                         !.present = @ \cup GasFields]
           opReady == ValidateInputParameters(filled, r.supported, TRUE, TRUE, FALSE, gasConfig)
<1>1. pc[c] = "begin" /\ UNCHANGED <<chainVars, stateVars, bundleVars>>
  BY DEF Estimate, Handles, At
<1>2. Await(c, "estimate", NoLocal) \/ (~IsRight(opReady) /\ Respond(c, opReady, 0))
  BY DEF Estimate
<1>3. IsRight(opReady) \/ opReady.value \in Codes
  BY InputType
<1>4. Answers(c) \/ Waits(c)
  BY <1>2, <1>3, NothingLocal DEF Answers, Waits, Steps
<1> QED
  BY <1>1, <1>4, HandlerOnly

LEMMA EstimatedStep ==
    ASSUME RequestsInv, NEW c \in Client, NEW verification \in NodeAnswers,
           NEW callGas \in NodeAnswers, Estimated(c, verification, callGas)
    PROVE  RequestsInv'
<1> DEFINE executionResult == SimulateHandleOp(verification, Asked(c).overridden)
           estimate == IF IsRight(EstimateGas(callGas)) THEN executionResult
                       ELSE EstimateGas(callGas)
           answered == IF executionResult.tag = "Thrown" THEN executionResult ELSE estimate
           number == CalcPreVerificationGas(Input[Asked(c).op], gasConfig)
<1>1. pc[c] = "estimate" /\ UNCHANGED <<chainVars, stateVars, bundleVars>>
  BY DEF Estimated, At
<1>2. Respond(c, answered, number)
  BY DEF Estimated, FlatMap
<1>3. IsRight(answered) \/ answered.value \in Codes
  BY NodeType
<1> HIDE DEF answered, number
<1>4. Answers(c)
  BY <1>2, <1>3 DEF Answers
<1> QED
  BY <1>1, <1>4, HandlerOnly

LEMMA DumpReputationStep ==
    ASSUME RequestsInv, NEW c \in Client, DumpReputation(c)
    PROVE  RequestsInv'
<1>1. pc[c] = "begin" /\ UNCHANGED <<chainVars, stateVars, bundleVars>>
  BY DEF DumpReputation, Handles, At
<1>2. Answers(c)
  BY DEF DumpReputation, Answers, IsRight, Right
<1> QED
  BY <1>1, <1>2, HandlerOnly

LEMMA GetUserOperationStep ==
    ASSUME RequestsInv, NEW c \in Client, NEW method, NEW step \in {"receipt", "transaction"},
           GetUserOperation(c, method, step)
    PROVE  RequestsInv'
<1>1. pc[c] = "begin" /\ UNCHANGED <<chainVars, stateVars, bundleVars>>
  BY DEF GetUserOperation, Handles, At
<1>2. \/ Respond(c, Left("InvalidFields"), 0) \/ Respond(c, Right(None), 0)
      \/ Respond(c, NodeFails, 0) \/ Await(c, step, NoLocal)
  BY DEF GetUserOperation
<1>3. Answers(c) \/ Waits(c)
  <2>1. IsRight(Right(None)) /\ Left("InvalidFields").value \in Codes
        /\ NodeFails.value \in Codes
    BY DEF IsRight, Right, Left, Thrown, NodeFails, Codes
  <2> QED
    BY <1>2, <2>1, NothingLocal DEF Answers, Waits, Steps
<1> QED
  BY <1>1, <1>3, HandlerOnly

LEMMA FetchStep ==
    ASSUME RequestsInv, NEW c \in Client, NEW fails \in BOOLEAN,
           GetReceipt(c, fails) \/ GetTransaction(c, fails)
    PROVE  RequestsInv'
<1> DEFINE logs == LogsOf(Asked(c).op, TransactionLogs[Asked(c).op])
<1>1. pc[c] \in {"receipt", "transaction"} /\ UNCHANGED <<chainVars, stateVars, bundleVars>>
  BY DEF GetReceipt, GetTransaction, At
<1>2. \/ Respond(c, NodeFails, 0) \/ Respond(c, Left("Unknown"), 0)
      \/ Respond(c, Right(logs), 0) \/ Respond(c, Right("operation"), 0)
  BY DEF GetReceipt, GetTransaction
<1> HIDE DEF logs
<1>3. /\ IsRight(Right(logs)) /\ IsRight(Right("operation"))
      /\ Left("Unknown").value \in Codes /\ NodeFails.value \in Codes
  BY DEF IsRight, Right, Left, Thrown, NodeFails, Codes
<1>4. Answers(c)
  BY <1>2, <1>3 DEF Answers
<1> QED
  BY <1>1, <1>4, HandlerOnly

LEMMA QueryStepKeeps ==
    ASSUME RequestsInv, NEW c \in Client, QueryStep(c)
    PROVE  RequestsInv'
BY AnswerSimpleStep, EstimateStep, EstimatedStep, DumpReputationStep, GetUserOperationStep,
   FetchStep DEF QueryStep

-----------------------------------------------------------------------------
(* The debug methods.                                                      *)

LEMMA SetConfigurationStep ==
    ASSUME RequestsInv, NEW c \in Client, SetConfiguration(c)
    PROVE  RequestsInv'
<1>1. pc[c] = "begin" /\ UNCHANGED <<chainVars, pool, seen, bundleVars>> /\ UNCHANGED mode
  BY DEF SetConfiguration, Handles, At, chainVars
<1>2. Answers(c)
  BY OkAnswers DEF SetConfiguration
<1>3. CallInv' /\ BundleInv' /\ RequestsKept
  BY <1>1, <1>2, CallSteps, CallsKeepRequests, BundleStays DEF RequestsInv
<1>4. \A op \in UserOp : pool'[op] # None => Entitled(op, pool[op])'
  BY <1>1, <1>3, PoolStays DEF RequestsInv, StateInv
<1>5. StateInv'
  BY <1>1, <1>4 DEF RequestsInv, StateInv, chainVars
<1> QED
  BY <1>3, <1>5 DEF RequestsInv

LEMMA ClearMempoolStep ==
    ASSUME RequestsInv, NEW c \in Client, ClearMempool(c)
    PROVE  RequestsInv'
<1>1. /\ pc[c] = "begin" /\ UNCHANGED <<chainVars, gasConfig, seen, bundleVars>>
      /\ UNCHANGED mode /\ pool' = [op \in UserOp |-> None]
  BY DEF ClearMempool, Handles, At, chainVars
<1>2. Answers(c) \/ Waits(c)
  BY OkAnswers, NothingLocal DEF ClearMempool, Waits, Steps
<1>3. CallInv' /\ BundleInv'
  BY <1>1, <1>2, CallSteps, BundleStays DEF RequestsInv
<1>4. StateInv'
  BY <1>1 DEF RequestsInv, StateInv, chainVars
<1> QED
  BY <1>3, <1>4 DEF RequestsInv

LEMMA SetSeenStep ==
    ASSUME RequestsInv, NEW c \in Client, ClearReputation(c) \/ SetReputation(c)
    PROVE  RequestsInv'
<1>1. /\ pc[c] \in {"begin", "clearLedger"}
      /\ UNCHANGED <<chainVars, gasConfig, pool, bundleVars>> /\ UNCHANGED mode
  BY DEF ClearReputation, SetReputation, Handles, At, chainVars
<1>2. Answers(c)
  BY OkAnswers DEF ClearReputation, SetReputation
<1>3. CallInv' /\ BundleInv' /\ RequestsKept
  BY <1>1, <1>2, CallSteps, CallsKeepRequests, BundleStays DEF RequestsInv
<1>4. seen' \in {Unseen} \cup -1..MaxSeen
  <2>1. CASE ClearReputation(c)
    BY <2>1 DEF ClearReputation
  <2>2. CASE SetReputation(c)
    <3>1. request[c] \in DOMAIN Ask
      BY <1>1 DEF RequestsInv, CallInv
    <3>2. Asked(c).method = "debug_bundler_setReputation" /\ seen' = Asked(c).seen
      BY <2>2 DEF SetReputation, Handles
    <3>3. seen' \in 0..MaxSeen
      BY <3>1, <3>2, RequestsAssumption DEF Asked
    <3> QED
      BY <3>3, RequestsAssumption
  <2> QED
    BY <2>1, <2>2
<1>5. \A op \in UserOp : pool'[op] # None => Entitled(op, pool[op])'
  BY <1>1, <1>3, PoolStays DEF RequestsInv, StateInv
<1>6. StateInv'
  BY <1>1, <1>4, <1>5 DEF RequestsInv, StateInv, chainVars
<1> QED
  BY <1>3, <1>6 DEF RequestsInv

LEMMA AddUserOpsStep ==
    ASSUME RequestsInv, NEW c \in Client, AddUserOps(c)
    PROVE  RequestsInv'
<1> DEFINE v == [NoLocal EXCEPT !.left = Asked(c).ops]
<1>1. /\ pc[c] = "begin" /\ UNCHANGED <<chainVars, stateVars, bundleVars>>
      /\ AsksToAdd(c) /\ Await(c, "addNext", v)
  BY DEF AddUserOps, Handles, At, AsksToAdd
<1>2. request[c] \in DOMAIN Ask
  BY <1>1 DEF RequestsInv, CallInv
<1>3. Asked(c).ops \in Seq(UserOp)
  BY <1>1, <1>2, RequestsAssumption DEF Asked, AsksToAdd
<1>4. Asked(c).ops \in Seq(Range(Asked(c).ops))
  <2>1. \A n \in 1..Len(Asked(c).ops) : Asked(c).ops[n] \in Range(Asked(c).ops)
    BY <1>3 DEF Range
  <2> QED
    BY <1>3, <2>1
<1>5. IsLocal(v) /\ v.left = Asked(c).ops
  BY DEF IsLocal, NoLocal, Simulated
<1> HIDE DEF v
<1>6. LocalFor(c, "addNext", v)
  BY <1>1, <1>4, <1>5 DEF LocalFor
<1>7. Waits(c)
  BY <1>1, <1>6 DEF Waits, Steps
<1> QED
  BY <1>1, <1>7, HandlerOnly

(* What it puts in the mempool without a validation is on its list.         *)
LEMMA AddNextStep ==
    ASSUME RequestsInv, NEW c \in Client, AddNext(c)
    PROVE  RequestsInv'
<1> DEFINE op == Head(local[c].left)
           v == [local[c] EXCEPT !.left = Tail(@)]
<1>1. pc[c] = "addNext" /\ UNCHANGED <<chainVars, gasConfig, bundleVars>> /\ UNCHANGED mode
  BY DEF AddNext, At, chainVars
<1>2. /\ request[c] \in DOMAIN Ask /\ AsksToAdd(c) /\ IsLocal(local[c])
      /\ local[c].left \in Seq(Range(Asked(c).ops))
  BY <1>1 DEF RequestsInv, CallInv, LocalFor
<1>3. \/ /\ UNCHANGED <<pool, seen>>
         /\ \/ Ok(c) \/ Respond(c, NodeFails, 0) \/ Respond(c, Thrown("Refused"), 0)
            \/ Respond(c, Thrown("Unknown"), 0)
      \/ /\ local[c].left # <<>> /\ Await(c, "addNext", v)
         /\ Admit(op, Unvalidated) \/ UNCHANGED <<pool, seen>>
  BY DEF AddNext
<1>4. local[c].left # <<>> => LocalFor(c, "addNext", v) /\ op \in Range(Asked(c).ops)
  <2>1. local[c].left # <<>> => /\ Tail(local[c].left) \in Seq(Range(Asked(c).ops))
                               /\ op \in Range(Asked(c).ops)
    BY <1>2, HeadTailProperties
  <2>2. IsLocal(v) /\ v.left = Tail(local[c].left)
    <3>1. \A w, left : IsLocal(w) => /\ IsLocal([w EXCEPT !.left = left])
                                    /\ [w EXCEPT !.left = left].left = left
      BY DEF IsLocal
    <3> QED
      BY <1>2, <3>1
  <2> HIDE DEF v
  <2> QED
    BY <1>2, <2>1, <2>2 DEF LocalFor
<1> HIDE DEF v, op
<1>5. Answers(c) \/ Waits(c)
  BY <1>3, <1>4, OkAnswers DEF Answers, Waits, NodeFails, Thrown, Codes, Steps
<1>6. CallInv' /\ BundleInv' /\ RequestsKept
  BY <1>1, <1>5, CallSteps, CallsKeepRequests, BundleStays DEF RequestsInv
<1>7. CASE local[c].left # <<>> /\ Admit(op, Unvalidated)
  <2>1. request[c] # None
    BY <1>2, RequestsAssumption
  <2>2. Listed(op)
    BY <1>2, <1>4, <1>7, <2>1 DEF Listed, AsksToAdd
  <2>3. Entitled(op, Unvalidated)
    BY <2>2 DEF Entitled
  <2>4. StateInv'
    BY <1>1, <1>6, <1>7, <2>3, AdmitType DEF RequestsInv
  <2> QED
    BY <1>6, <2>4 DEF RequestsInv
<1>8. CASE UNCHANGED <<pool, seen>>
  BY <1>1, <1>6, <1>8, StateStays DEF RequestsInv, stateVars
<1> QED
  BY <1>3, <1>7, <1>8

LEMMA SendBundleStep ==
    ASSUME RequestsInv, NEW c \in Client, SendBundleNow(c) \/ BundleSent(c)
    PROVE  RequestsInv'
<1>1. pc[c] \in {"begin", "sendBundle"} /\ UNCHANGED <<chainVars, stateVars, bundleVars>>
  BY DEF SendBundleNow, BundleSent, Handles, At
<1>2. Await(c, "sendBundle", NoLocal) \/ Ok(c) \/ Respond(c, NodeFails, 0)
  BY DEF SendBundleNow, BundleSent
<1>3. Answers(c) \/ Waits(c)
  BY <1>2, OkAnswers, NothingLocal DEF Answers, Waits, NodeFails, Thrown, Codes, Steps
<1> QED
  BY <1>1, <1>3, HandlerOnly

LEMMA DebugStepKeeps ==
    ASSUME RequestsInv, NEW c \in Client, DebugStep(c)
    PROVE  RequestsInv'
BY SetConfigurationStep, ClearMempoolStep, SetSeenStep, AddUserOpsStep, AddNextStep,
   SendBundleStep DEF DebugStep

-----------------------------------------------------------------------------
(* Before a handler is chosen.                                             *)

LEMMA RefuseRequestStep ==
    ASSUME RequestsInv, NEW c \in Client, RefuseRequest(c)
    PROVE  RequestsInv'
<1>1. pc[c] = "begin" /\ UNCHANGED <<chainVars, stateVars, bundleVars>>
  BY DEF RefuseRequest, At
<1>2. request[c] \in DOMAIN Ask
  BY <1>1 DEF RequestsInv, CallInv
<1>3. Valid[request[c]] = RpcValidation(Asked(c))
  BY <1>2 DEF Valid, Asked
<1>4. IsRight(Valid[request[c]]) \/ Valid[request[c]].value \in Codes
  BY <1>3, RpcType
<1>5. Answers(c)
  BY <1>4 DEF RefuseRequest, Answers
<1> QED
  BY <1>1, <1>5, HandlerOnly

LEMMA ReceiveStep ==
    ASSUME RequestsInv, NEW c \in Client, NEW r \in DOMAIN Ask, Receive(c, r)
    PROVE  RequestsInv'
<1>1. /\ pc[c] = "idle" /\ UNCHANGED <<chainVars, stateVars, bundleVars>> /\ UNCHANGED mode
      /\ UNCHANGED <<local, answer, down>>
      /\ request' = [request EXCEPT ![c] = r] /\ pc' = [pc EXCEPT ![c] = "begin"]
  BY DEF Receive, At, chainVars
<1>2. ASSUME NEW d \in Client
      PROVE  LocalFor(d, pc[d], local[d])'
  <2>1. /\ local'[d] = local[d] /\ LocalFor(d, pc[d], local[d])
        /\ \/ pc'[d] = pc[d] /\ request'[d] = request[d]
           \/ pc'[d] = "begin"
    BY <1>1 DEF RequestsInv, CallInv
  <2> QED
    BY <1>1, <2>1 DEF LocalFor, IsLocal, Admissible, AsksToAdd, Asked
<1>3. CallInv'
  BY <1>1, <1>2 DEF RequestsInv, CallInv, Steps
<1>4. RequestsKept
  BY <1>1 DEF RequestsInv, CallInv, RequestsKept
<1> QED
  BY <1>1, <1>3, <1>4, BundleStays, StateStays DEF RequestsInv

-----------------------------------------------------------------------------
(* The bundler and the chain.                                              *)

LEMMA CallsStay == ASSUME CallInv, UNCHANGED <<callVars, answer, down, mode>> PROVE CallInv'
<1>1. ASSUME NEW d \in Client
      PROVE  LocalFor(d, pc[d], local[d])'
  BY DEF CallInv, callVars, LocalFor, IsLocal, Admissible, AsksToAdd, Asked
<1> QED
  BY <1>1 DEF CallInv, callVars

LEMMA RequestsStay == UNCHANGED callVars => RequestsKept
BY DEF callVars, RequestsKept

(* The entry it takes up is the mempool's.                                 *)
LEMMA TakeUpStep ==
    ASSUME RequestsInv, NEW op \in UserOp, TakeUp(op)
    PROVE  RequestsInv'
<1>1. /\ UNCHANGED <<chainVars, stateVars, callVars, answer, down, bundled>> /\ UNCHANGED mode
      /\ bundle' = [pc |-> "compare", op |-> op, entry |-> pool[op], started |-> None]
      /\ pool[op] # None
  BY DEF TakeUp, chainVars
<1>2. pool[op] = Unvalidated \/ Admissible(pool[op])
  BY <1>1 DEF RequestsInv, StateInv, Entitled
<1>3. (bundle.entry = Unvalidated \/ Admissible(bundle.entry))'
  <2>1. bundle'.entry = pool[op]
    BY <1>1
  <2> QED
    BY <1>1, <1>2, <2>1 DEF Admissible, Unvalidated
<1>4. BundleInv'
  BY <1>1, <1>3 DEF RequestsInv, BundleInv, SecondTraceSameCode
<1> QED
  BY <1>1, <1>4, CallsStay, RequestsStay, StateStays DEF RequestsInv

LEMMA CompareCodeStep ==
    ASSUME RequestsInv, CompareCode
    PROVE  RequestsInv'
<1>1. /\ UNCHANGED <<chainVars, gasConfig, seen, callVars, answer, down, bundled>>
      /\ UNCHANGED mode /\ bundle.pc = "compare"
  BY DEF CompareCode, chainVars
<1>2. CASE /\ bundle.entry.hashed \in {None, code}
           /\ bundle' = [bundle EXCEPT !.pc = "simulate", !.started = code]
           /\ UNCHANGED pool
  <2>1. bundle' = [pc |-> "simulate", op |-> bundle.op, entry |-> bundle.entry, started |-> code]
    <3>1. bundle' = [[bundle EXCEPT !.pc = "simulate"] EXCEPT !.started = code]
      BY <1>2
    <3>2. [bundle EXCEPT !.pc = "simulate"] =
            [pc |-> "simulate", op |-> bundle.op, entry |-> bundle.entry,
             started |-> bundle.started]
      BY DEF RequestsInv, BundleInv
    <3> QED
      BY <3>1, <3>2
  <2>2. /\ bundle'.pc = "simulate" /\ bundle'.op = bundle.op /\ bundle'.entry = bundle.entry
        /\ bundle'.started = code
    BY <2>1
  <2>3. bundle'.op \in UserOp /\ (bundle.entry = Unvalidated \/ Admissible(bundle.entry))'
    BY <1>1, <2>2 DEF RequestsInv, BundleInv, Admissible, Unvalidated
  <2>4. BundleInv'
    BY <1>1, <1>2, <2>1, <2>2, <2>3 DEF RequestsInv, BundleInv, SecondTraceSameCode
  <2> QED
    BY <1>1, <1>2, <2>4, CallsStay, RequestsStay, StateStays DEF RequestsInv, stateVars
<1>3. CASE pool' = [pool EXCEPT ![bundle.op] = None] /\ Leave
  <2>1. BundleInv'
    BY <1>1, <1>3 DEF RequestsInv, BundleInv, SecondTraceSameCode, Leave, NoBundle
  <2>2. pool' \in [UserOp -> {None, Unvalidated} \cup Entry]
        /\ \A op \in UserOp : pool'[op] \in {None, pool[op]}
    BY <1>3 DEF RequestsInv, StateInv
  <2>3. \A op \in UserOp : pool'[op] # None => Entitled(op, pool[op])'
    BY <1>1, <2>2, RequestsStay, PoolStays DEF RequestsInv
  <2>4. StateInv'
    BY <1>1, <2>2, <2>3 DEF RequestsInv, StateInv, chainVars
  <2> QED
    BY <1>1, <2>1, <2>4, CallsStay DEF RequestsInv
<1> QED
  BY <1>2, <1>3 DEF CompareCode

(* What is executed was compared with what it had been hashed as when it    *)
(* was admitted.                                                           *)
LEMMA SimulateAgainStep ==
    ASSUME RequestsInv, NEW answered \in NodeAnswers, NEW returned \in Returns,
           NEW keepsRules \in BOOLEAN, NEW blamesAccount \in BOOLEAN,
           SimulateAgain(answered, returned, keepsRules, blamesAccount)
    PROVE  RequestsInv'
<1> DEFINE b == [first |-> bundle.entry.traced, hashed |-> bundle.entry.hashed,
                 started |-> bundle.started, second |-> code]
<1>1. /\ UNCHANGED <<mode, now, code, gasConfig, callVars, answer, down>>
      /\ bundle.pc = "simulate" /\ bundle' = NoBundle
      /\ pool' = [pool EXCEPT ![bundle.op] = None]
  BY DEF SimulateAgain, Leave
<1>2. \/ executed' = executed \cup {bundle.op} /\ bundled' = bundled \cup {b} /\ UNCHANGED seen
      \/ (TakeBack(bundle.op) \/ UNCHANGED seen) /\ UNCHANGED <<executed, bundled>>
  BY DEF SimulateAgain
<1>3. /\ bundle.op \in UserOp /\ (bundle.entry = Unvalidated \/ Admissible(bundle.entry))
      /\ bundle.entry.hashed # None => bundle.started = bundle.entry.hashed
  BY <1>1 DEF RequestsInv, BundleInv
<1>4. bundled' \subseteq bundled \cup {b}
  BY <1>2
<1>5. \A x \in bundled' : /\ x.hashed = None <=> x.first = None
                          /\ mode' = "unsafe" => x.hashed = None
  BY <1>1, <1>3, <1>4 DEF RequestsInv, BundleInv, Admissible, Unvalidated
<1>6. b.hashed # None /\ b.first = b.hashed /\ b.started = b.second => b.first = b.second
  BY <1>3
<1>7. SecondTraceSameCode'
  BY <1>4, <1>6 DEF RequestsInv, BundleInv, SecondTraceSameCode
<1>8. BundleInv'
  BY <1>1, <1>5, <1>7 DEF BundleInv, NoBundle
<1>9. seen' \in {Unseen} \cup -1..MaxSeen
  BY <1>2, RequestsAssumption DEF RequestsInv, StateInv, TakeBack
<1>10. executed' \subseteq UserOp
  BY <1>2, <1>3 DEF RequestsInv, StateInv
<1>11. pool' \in [UserOp -> {None, Unvalidated} \cup Entry]
       /\ \A op \in UserOp : pool'[op] \in {None, pool[op]}
  BY <1>1 DEF RequestsInv, StateInv
<1>12. \A op \in UserOp : pool'[op] # None => Entitled(op, pool[op])'
  BY <1>1, <1>11, RequestsStay, PoolStays DEF RequestsInv
<1>13. StateInv'
  BY <1>1, <1>9, <1>10, <1>11, <1>12 DEF RequestsInv, StateInv
<1> QED
  BY <1>1, <1>8, <1>13, CallsStay DEF RequestsInv

LEMMA BuilderStepKeeps == ASSUME RequestsInv, BuilderStep PROVE RequestsInv'
BY TakeUpStep, CompareCodeStep, SimulateAgainStep DEF BuilderStep

LEMMA EnvironmentKeeps == ASSUME RequestsInv, Environment PROVE RequestsInv'
<1>1. /\ UNCHANGED <<stateVars, callVars, answer, down, bundleVars>> /\ UNCHANGED <<mode, executed>>
      /\ now' \in 1..MaxTime /\ code' \in 0..1
  BY RequestsAssumption DEF Environment, Tick, ChangeCode, RequestsInv, StateInv
<1>2. UNCHANGED pool /\ RequestsKept
  BY <1>1, RequestsStay DEF stateVars
<1>3. \A op \in UserOp : pool'[op] # None => Entitled(op, pool[op])'
  BY <1>1, <1>2, PoolStays DEF RequestsInv, StateInv
<1>4. StateInv'
  BY <1>1, <1>3 DEF RequestsInv, StateInv, stateVars
<1> QED
  BY <1>1, <1>4, CallsStay, BundleStays DEF RequestsInv

-----------------------------------------------------------------------------
(* What filterLogs computes: induction over the numbers, from the fact that *)
(* every set of them has a least member.                                   *)

(* Every set of numbers that is not empty has a least member.              *)
LEMMA LeastNatural ==
    ASSUME NEW T \in SUBSET Nat, T # {}
    PROVE  \E n \in T : \A m \in T : n <= m
<1> DEFINE R == OpToRel(<, Nat)
<1>1. IsWellFoundedOn(R, Nat)
  BY NatLessThanWellFounded
<1>2. \A m, n \in Nat : <<m, n>> \in R <=> m < n
  BY DEF OpToRel
<1> HIDE DEF R
<1>3. PICK n \in T : \A m \in T : ~(<<m, n>> \in R)
  BY <1>1, WFMin
<1>4. ASSUME NEW m \in T PROVE n <= m
  <2>1. ~(m < n) /\ m \in Nat /\ n \in Nat
    BY <1>2, <1>3
  <2> QED
    BY <2>1
<1> QED
  BY <1>4

(* So a set of numbers that has 0 and with each the next has them all.     *)
LEMMA Induction ==
    ASSUME NEW T, 0 \in T, \A n \in Nat : n \in T => n + 1 \in T
    PROVE  Nat \subseteq T
<1>1. SUFFICES ASSUME Nat \ T # {} PROVE FALSE
  OBVIOUS
<1>2. PICK n \in Nat \ T : \A m \in Nat \ T : n <= m
  BY <1>1, LeastNatural
<1>3. n - 1 \in Nat /\ n - 1 \notin Nat \ T
  BY <1>2
<1> QED
  BY <1>2, <1>3

(* A set of places that is not empty has a last one.                       *)
LEMMA LastPlace ==
    ASSUME NEW k \in Nat, NEW D \in SUBSET (1..k), D # {}
    PROVE  Max(D) \in D /\ \A i \in D : i <= Max(D)
<1> DEFINE T == {k - i : i \in D}
<1>1. T \in SUBSET Nat /\ T # {}
  <2>1. \A i \in D : k - i \in Nat
    OBVIOUS
  <2> QED
    BY <2>1
<1>2. PICK n \in T : \A m \in T : n <= m
  <2> HIDE DEF T
  <2> QED
    BY <1>1, LeastNatural
<1>3. PICK x \in D : n = k - x
  BY <1>2
<1>4. ASSUME NEW i \in D
      PROVE  x >= i
  <2>1. k - i \in T /\ i \in Nat /\ x \in Nat
    BY <1>3
  <2>2. k - x <= k - i
    BY <1>2, <1>3, <2>1
  <2> QED
    BY <2>1, <2>2
<1>5. \E y \in D : \A i \in D : y >= i
  BY <1>3, <1>4
<1>6. Max(D) \in D /\ \A i \in D : Max(D) >= i
  BY <1>5 DEF Max
<1> QED
  BY <1>6

(* Without it the others are earlier.                                      *)
LEMMA AllButLast ==
    ASSUME NEW n \in Nat, NEW d \in SUBSET (1..(n + 1)), d # {}
    PROVE  Max(d) \in 1..(n + 1) /\ d \ {Max(d)} \in SUBSET (1..n)
<1> DEFINE m == Max(d)
<1>1. m \in d /\ \A i \in d : i <= m
  <2>1. n + 1 \in Nat
    OBVIOUS
  <2> QED
    BY <2>1, LastPlace
<1> HIDE DEF m
<1>2. ASSUME NEW i \in d \ {m}
      PROVE  i \in 1..n
  <2>1. i \in 1..(n + 1) /\ m \in 1..(n + 1) /\ i <= m /\ i # m
    BY <1>1
  <2> QED
    BY <2>1
<1>3. m \in 1..(n + 1) /\ d \ {m} \in SUBSET (1..n)
  BY <1>1, <1>2
<1> QED
  BY <1>3 DEF m

(* What filterLogs has found before it reads the first log.                *)
NothingFound == [startIndex |-> -1, endIndex |-> -1]

Places(logs) == [n \in 1..Len(logs) |-> n]

(* What it finds in the logs at some places, as it unfolds.                *)
Finds(g, D, op, logs) ==
    g = [d \in D |-> IF d = {} THEN NothingFound
                     ELSE LET i == Max(d)
                          IN  Found(g[d \ {i}], logs[Places(logs)[i]], Places(logs)[i] - 1, op)]

FoundIn(op, logs) == CHOOSE g : Finds(g, SUBSET DOMAIN Places(logs), op, logs)

(* What it finds in all of them.                                           *)
LEMMA EndsAreFound == ASSUME NEW op, NEW logs
                      PROVE  Ends(op, logs) = FoundIn(op, logs)[DOMAIN Places(logs)]
BY DEF Ends, FoundIn, FoldLeft, MapThenFoldSet, Finds, Places, NothingFound

(* It unfolds at each set of its domain.                                   *)
LEMMA FindsAt ==
    ASSUME NEW D, NEW op, NEW logs, NEW g, Finds(g, D, op, logs)
    PROVE  \A d \in D : g[d] = IF d = {} THEN NothingFound
                               ELSE Found(g[d \ {Max(d)}], logs[Places(logs)[Max(d)]],
                                          Places(logs)[Max(d)] - 1, op)
BY DEF Finds

(* There is one for any number of logs.                                    *)
LEMMA FindsExists ==
    ASSUME NEW k \in Nat, NEW op, NEW logs
    PROVE  \E g : Finds(g, SUBSET (1..k), op, logs)
<1> DEFINE T == {n \in Nat : \E g : Finds(g, SUBSET (1..n), op, logs)}
           One(f, i) == Found(f, logs[Places(logs)[i]], Places(logs)[i] - 1, op)
<1>1. 0 \in T
  <2> DEFINE g == [d \in SUBSET (1..0) |-> NothingFound]
  <2>1. \A d \in SUBSET (1..0) : d = {}
    OBVIOUS
  <2>2. Finds(g, SUBSET (1..0), op, logs)
    BY <2>1 DEF Finds
  <2> QED
    BY <2>2
<1>2. ASSUME NEW n \in Nat, n \in T
      PROVE  n + 1 \in T
  <2>1. PICK g : Finds(g, SUBSET (1..n), op, logs)
    BY <1>2
  <2> DEFINE Small == SUBSET (1..n)
             Large == SUBSET (1..(n + 1))
             h == [d \in Large |-> IF d = {} THEN NothingFound ELSE One(g[d \ {Max(d)}], Max(d))]
  <2>2. ASSUME NEW d \in Small
        PROVE  d \in Large /\ h[d] = g[d]
    <3>1. d \in Large
      OBVIOUS
    <3>2. g[d] = IF d = {} THEN NothingFound ELSE One(g[d \ {Max(d)}], Max(d))
      <4>0. Finds(g, Small, op, logs) /\ d \in Small
        BY <2>1, <2>2
      <4> HIDE DEF Small
      <4>1. \A e \in Small : g[e] = IF e = {} THEN NothingFound ELSE One(g[e \ {Max(e)}], Max(e))
        BY <4>0, FindsAt
      <4> HIDE DEF One
      <4> QED
        BY <4>0, <4>1
    <3> HIDE DEF Small, Large, One
    <3>3. h[d] = IF d = {} THEN NothingFound ELSE One(g[d \ {Max(d)}], Max(d))
      BY <3>1
    <3> HIDE DEF h
    <3> QED
      BY <3>1, <3>2, <3>3
  <2>3. ASSUME NEW d \in Large, d # {}
        PROVE  d \ {Max(d)} \in Small
    BY <2>3, AllButLast
  <2>4. ASSUME NEW d \in Large
        PROVE  h[d] = IF d = {} THEN NothingFound ELSE One(h[d \ {Max(d)}], Max(d))
    <3>1. d # {} => h[d \ {Max(d)}] = g[d \ {Max(d)}]
      <4> HIDE DEF h, Small, Large
      <4> QED
        BY <2>2, <2>3
    <3> HIDE DEF Small, Large, One
    <3> QED
      BY <3>1
  <2>5. Finds(h, Large, op, logs)
    <3>1. h = [d \in Large |-> h[d]]
      OBVIOUS
    <3> HIDE DEF h, Small, Large
    <3> QED
      BY <2>4, <3>1, Zenon DEF Finds
  <2> HIDE DEF h
  <2> QED
    BY <2>5
<1>3. k \in T
  <2> HIDE DEF T
  <2> QED
    BY <1>1, <1>2, Induction
<1> QED
  BY <1>3

(* One log more.                                                           *)
LEMMA FindsStep ==
    ASSUME NEW op, NEW logs, Len(logs) \in Nat, NEW n \in Nat, n + 1 <= Len(logs),
           NEW large, NEW g, Finds(g, large, op, logs),
           NEW all, all = 1..(n + 1), all \in large
    PROVE  g[all] = Found(g[1..n], logs[n + 1], n, op)
<1> DEFINE old == 1..n
<1>1. \A d \in large : g[d] = IF d = {} THEN NothingFound
                               ELSE Found(g[d \ {Max(d)}], logs[Places(logs)[Max(d)]],
                                          Places(logs)[Max(d)] - 1, op)
  BY Zenon DEF Finds
<1>2. all # {} /\ all \ {n + 1} = old
  <2>1. n + 1 \in all /\ old \subseteq all /\ \A i \in all : i <= n + 1
    OBVIOUS
  <2>2. \A i \in all \ {n + 1} : i \in old
    OBVIOUS
  <2>3. n + 1 \notin old
    OBVIOUS
  <2> HIDE DEF old
  <2> QED
    BY <2>1, <2>2, <2>3
<1>3. Max(all) = n + 1
  <2>1. n + 1 \in Nat /\ all \in SUBSET (1..(n + 1)) /\ n + 1 \in all
    OBVIOUS
  <2>2. Max(all) \in all /\ \A i \in all : i <= Max(all)
    BY <1>2, <2>1, LastPlace
  <2> DEFINE m == Max(all)
  <2>3. m \in 1..(n + 1) /\ n + 1 <= m
    BY <2>1, <2>2
  <2> HIDE DEF m
  <2>4. m = n + 1
    BY <2>3
  <2> QED
    BY <2>4 DEF m
<1>4. Places(logs)[n + 1] = n + 1 /\ n + 1 - 1 = n
  BY DEF Places
<1>5. g[all] = Found(g[all \ {Max(all)}], logs[Places(logs)[Max(all)]],
                     Places(logs)[Max(all)] - 1, op)
  BY <1>1, <1>2, Zenon
<1>6. Places(logs)[Max(all)] = n + 1 /\ Places(logs)[Max(all)] - 1 = n
  BY <1>3, <1>4
<1>7. g[all \ {Max(all)}] = g[old]
  BY <1>2, <1>3
<1> HIDE DEF old
<1>8. g[all] = Found(g[old], logs[n + 1], n, op)
  BY <1>5, <1>6, <1>7, Zenon
<1> QED
  BY <1>8 DEF old

(* In the logs of a transaction that executed the operation it finds        *)
(* BeforeExecution and the operation's event, whatever other events there  *)
(* are before, between and after them.                                     *)
LEMMA EndsAre ==
    ASSUME NEW op, NEW logs, logs \in Seq(Range(logs)),
           NEW begin \in DOMAIN logs, NEW end \in DOMAIN logs, begin < end,
           \A n \in DOMAIN logs : logs[n].kind = "BeforeExecution" <=> n = begin,
           \A n \in DOMAIN logs : OwnEvent(op, logs[n]) <=> n = end
    PROVE  Ends(op, logs) = [startIndex |-> begin - 1, endIndex |-> end - 1]
<1> DEFINE k == Len(logs)
           large == SUBSET (1..k)
           g == FoundIn(op, logs)
           Between == [startIndex |-> begin - 1, endIndex |-> begin - 1]
           Both == [startIndex |-> begin - 1, endIndex |-> end - 1]
           T == {n \in Nat : n <= k => /\ begin <= n /\ n < end => g[1..n] = Between
                                       /\ end <= n => g[1..n] = Both}
<1>1. k \in Nat /\ DOMAIN logs = 1..k /\ begin \in 1..k /\ end \in 1..k
  OBVIOUS
<1>2. DOMAIN Places(logs) = 1..k
  BY DEF Places
<1>3. Finds(g, large, op, logs)
  <2>1. \E f : Finds(f, large, op, logs)
    BY <1>1, FindsExists
  <2> QED
    BY <1>2, <2>1 DEF FoundIn
<1> HIDE DEF g
<1>4. ASSUME NEW n \in Nat, n + 1 <= k
      PROVE  g[1..(n + 1)] = Found(g[1..n], logs[n + 1], n, op)
  <2> DEFINE all == 1..(n + 1)
  <2>1. all \in large /\ all = 1..(n + 1)
    BY <1>1, <1>4
  <2> HIDE DEF all, large
  <2>2. g[all] = Found(g[1..n], logs[n + 1], n, op)
    BY <1>1, <1>3, <1>4, <2>1, FindsStep
  <2> QED
    BY <2>2 DEF all
<1>5. 0 \in T
  BY <1>1
<1>6. ASSUME NEW n \in Nat, n \in T
      PROVE  n + 1 \in T
  <2>1. SUFFICES ASSUME n + 1 <= k
                 PROVE  /\ begin <= n + 1 /\ n + 1 < end => g[1..(n + 1)] = Between
                        /\ end <= n + 1 => g[1..(n + 1)] = Both
    OBVIOUS
  <2> DEFINE old == g[1..n]
             new == g[1..(n + 1)]
             log == logs[n + 1]
  <2>2. new = Found(old, log, n, op)
    BY <1>4, <2>1
  <2>3. /\ log.kind = "BeforeExecution" <=> n + 1 = begin
        /\ OwnEvent(op, log) <=> n + 1 = end
    BY <1>1, <2>1
  <2>4. /\ begin <= n /\ n < end => old = Between
        /\ end <= n => old = Both
    BY <1>6, <2>1
  <2> HIDE DEF old, new, log
  <2>5. CASE n + 1 = begin
    <3>1. new = [startIndex |-> n, endIndex |-> n]
      BY <2>2, <2>3, <2>5 DEF Found
    <3>2. n = begin - 1 /\ n + 1 < end
      BY <1>1, <2>5
    <3> QED
      BY <1>1, <3>1, <3>2 DEF new
  <2>6. CASE begin <= n /\ n + 1 < end
    <3>1. old = Between /\ begin - 1 # -1
      BY <1>1, <2>4, <2>6
    <3>2. log.kind # "BeforeExecution" /\ ~OwnEvent(op, log)
      BY <1>1, <2>3, <2>6
    <3>3. new = old
      BY <2>2, <3>1, <3>2 DEF Found, OwnEvent
    <3> QED
      BY <1>1, <2>6, <3>1, <3>3 DEF new
  <2>7. CASE n + 1 = end
    <3>1. old = Between /\ n = end - 1 /\ n + 1 # begin
      BY <1>1, <2>4, <2>7
    <3>2. log.kind = "UserOperationEvent" /\ log.op = op
      BY <2>3, <2>7 DEF OwnEvent
    <3>3. new = [old EXCEPT !.endIndex = n]
      BY <2>2, <3>2 DEF Found
    <3>4. new = Both
      BY <3>1, <3>3
    <3> QED
      BY <1>1, <2>7, <3>4 DEF new
  <2>8. CASE end <= n
    <3>1. old = Both /\ end - 1 # -1
      BY <1>1, <2>4, <2>8
    <3>2. log.kind # "BeforeExecution" /\ ~OwnEvent(op, log)
      BY <1>1, <2>3, <2>8
    <3>3. new = old
      BY <2>2, <3>1, <3>2 DEF Found, OwnEvent
    <3> QED
      BY <1>1, <2>8, <3>1, <3>3 DEF new
  <2>9. CASE n + 1 < begin
    BY <1>1, <2>9
  <2>10. n + 1 < begin \/ n + 1 = begin \/ (begin <= n /\ n + 1 < end) \/ n + 1 = end \/ end <= n
    BY <1>1
  <2> QED
    BY <2>5, <2>6, <2>7, <2>8, <2>9, <2>10
<1>7. k \in T
  <2> HIDE DEF T
  <2> QED
    BY <1>1, <1>5, <1>6, Induction
<1>8. g[1..k] = Both
  BY <1>1, <1>7
<1> QED
  BY <1>2, <1>8, EndsAreFound DEF g

(* So the logs of its execution are among those filterLogs keeps.           *)
LEMMA LogsBelong ==
    ASSUME NEW op, NEW logs, ExecutedIn(op, logs)
    PROVE  HasAllOf(op, logs, LogsOf(op, logs))
<1>1. logs \in Seq(Range(logs))
  BY DEF ExecutedIn
<1>2. PICK begin \in DOMAIN logs, end \in DOMAIN logs :
        /\ begin < end
        /\ \A n \in DOMAIN logs :
             /\ logs[n].kind = "BeforeExecution" <=> n = begin
             /\ OwnEvent(op, logs[n]) <=> n = end
             /\ OwnLog(op, logs[n]) => begin < n /\ n < end
  BY DEF ExecutedIn
<1> DEFINE found == LogsOf(op, logs)
           event == CHOOSE n \in DOMAIN logs : OwnEvent(op, logs[n])
<1>3. Ends(op, logs) = [startIndex |-> begin - 1, endIndex |-> end - 1]
  BY <1>1, <1>2, EndsAre
<1>4. DOMAIN logs = 1..Len(logs) /\ Len(logs) \in Nat
  BY <1>1
<1>5. event = end
  BY <1>2
<1>6. found = SubSeq(logs, begin + 1, end - 1)
  <2>1. Ends(op, logs).startIndex + 1 + 1 = begin + 1 /\ Ends(op, logs).endIndex = end - 1
    BY <1>3, <1>4
  <2>2. found = SubSeq(logs, Ends(op, logs).startIndex + 1 + 1, Ends(op, logs).endIndex)
    BY DEF LogsOf, Slice
  <2> HIDE DEF found
  <2> QED
    BY <2>1, <2>2
<1> HIDE DEF found, event
<1>7. Len(found) = end - 1 - begin /\ \A n \in 1..Len(found) : found[n] = logs[begin + n]
  <2> DEFINE first == begin + 1
             last == end - 1
  <2>1. /\ first \in 1..Len(logs) + 1 /\ last \in 0..Len(logs) /\ first <= last + 1
        /\ last - first + 1 = end - 1 - begin
        /\ \A n \in Int : first + n - 1 = begin + n
    BY <1>2, <1>4
  <2>2. found = SubSeq(logs, first, last)
    BY <1>6
  <2> HIDE DEF first, last
  <2>3. first \in Int /\ last \in Int /\ \A i \in first..last : logs[i] \in Range(logs)
    <3>1. first \in Int /\ last \in Int /\ \A i \in first..last : i \in DOMAIN logs
      BY <1>4, <2>1
    <3> QED
      BY <3>1 DEF Range
  <2>4. /\ Len(found) = IF first <= last THEN last - first + 1 ELSE 0
        /\ \A n \in 1..(last - first + 1) : found[n] = logs[first + n - 1]
    BY <2>2, <2>3, SubSeqProperties
  <2>5. Len(found) = last - first + 1
    <3>1. first <= last + 1 /\ first \in Int /\ last \in Int
      BY <2>1, <2>3
    <3>2. Len(found) = IF first <= last THEN last - first + 1 ELSE 0
      BY <2>4
    <3> QED
      BY <3>1, <3>2
  <2>6. ASSUME NEW n \in 1..Len(found)
        PROVE  found[n] = logs[begin + n]
    <3>1. n \in 1..(last - first + 1) /\ n \in Int /\ first + n - 1 = begin + n
      BY <2>1, <2>3, <2>5
    <3> QED
      BY <2>4, <3>1
  <2> QED
    BY <2>1, <2>5, <2>6
<1>8. DOMAIN found = 1..Len(found)
  BY <1>1, <1>2, <1>4, <1>6
<1>9. event - Len(found) = begin + 1
  BY <1>4, <1>5, <1>7
<1>10. ASSUME NEW n \in DOMAIN found
       PROVE  found[n].kind # "BeforeExecution"
  <2>1. begin + n \in DOMAIN logs /\ begin + n # begin /\ found[n] = logs[begin + n]
    BY <1>2, <1>4, <1>7, <1>8
  <2> QED
    BY <1>2, <2>1
<1>11. \A n \in DOMAIN logs : OwnLog(op, logs[n]) => begin + 1 <= n /\ n < event
  BY <1>2, <1>4, <1>5
<1>12. /\ event - Len(found) >= 1
       /\ found = SubSeq(logs, event - Len(found), event - 1)
       /\ \A n \in DOMAIN logs : OwnLog(op, logs[n]) => event - Len(found) <= n /\ n < event
       /\ \A n \in DOMAIN found : found[n].kind # "BeforeExecution"
  <2>1. event - Len(found) >= 1
    BY <1>4, <1>9
  <2>2. found = SubSeq(logs, event - Len(found), event - 1)
    BY <1>5, <1>6, <1>9
  <2> QED
    BY <1>9, <1>10, <1>11, <2>1, <2>2
<1>13. HasAllOf(op, logs, found) <=>
         /\ event - Len(found) >= 1
         /\ found = SubSeq(logs, event - Len(found), event - 1)
         /\ \A n \in DOMAIN logs : OwnLog(op, logs[n]) => event - Len(found) <= n /\ n < event
         /\ \A n \in DOMAIN found : found[n].kind # "BeforeExecution"
  BY Zenon DEF HasAllOf, event
<1>14. HasAllOf(op, logs, found)
  BY <1>12, <1>13
<1> QED
  BY <1>14 DEF found

(* The handler of a receipt request awaits nothing but the transaction, of  *)
(* an operation that is on the chain.                                      *)
AsksReceipt(c) == Asked(c).method = "eth_getUserOperationReceipt"

ReceiptInv ==
    \A c \in Client :
        /\ pc[c] = "receipt" => Asked(c).op \in UserOp
        /\ pc[c] # "idle" /\ AsksReceipt(c) => pc[c] \in {"begin", "receipt", "done"}
        /\ answer[c] # None /\ AsksReceipt(c) /\ answer[c].ok =>
             \/ answer[c].value = None
             \/ HasAllOf(Asked(c).op, TransactionLogs[Asked(c).op], answer[c].value)

LEMMA ReceiptMeans == ReceiptInv => ReceiptLosesNoLog
BY DEF ReceiptInv, ReceiptLosesNoLog, HasReceipt, AsksReceipt

(* How a step of another method ends.                                      *)
Responds(c) == \E e, number : Respond(c, e, number)
Awaits(c) == \E step \in Steps \ {"receipt"} : \E v : Await(c, step, v)

(* A handler's step is of no concern to the other clients.                 *)
LEMMA OneClient ==
    ASSUME CallInv, ReceiptInv, NEW c \in Client, pc[c] \notin {"idle", "done"},
           UNCHANGED request, pc' = [pc EXCEPT ![c] = pc'[c]],
           answer' = [answer EXCEPT ![c] = answer'[c]],
           pc'[c] = "receipt" => Asked(c).op \in UserOp,
           AsksReceipt(c) => pc'[c] \in {"begin", "receipt", "done"},
           answer'[c] # None /\ AsksReceipt(c) /\ answer'[c].ok =>
             \/ answer'[c].value = None
             \/ HasAllOf(Asked(c).op, TransactionLogs[Asked(c).op], answer'[c].value)
    PROVE  ReceiptInv'
<1>1. \A d \in Client : Asked(d)' = Asked(d) /\ AsksReceipt(d)' = AsksReceipt(d)
  BY DEF Asked, AsksReceipt
<1>2. ASSUME NEW d \in Client, d # c
      PROVE  pc'[d] = pc[d] /\ answer'[d] = answer[d]
  BY <1>2 DEF CallInv
<1>3. ASSUME NEW d \in Client
      PROVE  /\ pc'[d] = "receipt" => Asked(d).op \in UserOp
             /\ pc'[d] # "idle" /\ AsksReceipt(d) => pc'[d] \in {"begin", "receipt", "done"}
             /\ answer'[d] # None /\ AsksReceipt(d) /\ answer'[d].ok =>
                  \/ answer'[d].value = None
                  \/ HasAllOf(Asked(d).op, TransactionLogs[Asked(d).op], answer'[d].value)
  BY <1>2 DEF ReceiptInv
<1> QED
  BY <1>1, <1>3 DEF ReceiptInv

LEMMA OtherMethod ==
    ASSUME CallInv, ReceiptInv, NEW c \in Client, pc[c] \notin {"idle", "done"},
           Responds(c) \/ Awaits(c), ~AsksReceipt(c)
    PROVE  ReceiptInv'
<1>1. /\ UNCHANGED request /\ pc' = [pc EXCEPT ![c] = pc'[c]] /\ pc'[c] # "receipt"
      /\ answer' = [answer EXCEPT ![c] = answer'[c]]
  BY DEF CallInv, Responds, Awaits, Respond, Await
<1> QED
  BY <1>1, OneClient

(* What a receipt request is answered with.                                *)
LEMMA ReceiptAnswered ==
    ASSUME CallInv, ReceiptInv, NEW c \in Client, pc[c] \notin {"idle", "done"},
           NEW e, NEW number, Respond(c, e, number),
           IsRight(e) => \/ e.value = None
                         \/ HasAllOf(Asked(c).op, TransactionLogs[Asked(c).op], e.value)
    PROVE  ReceiptInv'
<1>1. /\ UNCHANGED request /\ pc' = [pc EXCEPT ![c] = pc'[c]] /\ pc'[c] = "done"
      /\ answer' = [answer EXCEPT ![c] = answer'[c]]
      /\ answer'[c] = None \/ answer'[c] = IF IsRight(e) THEN Result(e.value) ELSE Error(e.value)
  BY DEF CallInv, Respond
<1>2. answer'[c] # None /\ answer'[c].ok => IsRight(e) /\ answer'[c].value = e.value
  BY <1>1 DEF Result, Error
<1> QED
  BY <1>1, <1>2, OneClient

LEMMA ReceiptAwaited ==
    ASSUME CallInv, ReceiptInv, NEW c \in Client, pc[c] \notin {"idle", "done"},
           NEW v, Await(c, "receipt", v), Asked(c).op \in UserOp
    PROVE  ReceiptInv'
<1>1. /\ UNCHANGED request /\ pc' = [pc EXCEPT ![c] = pc'[c]] /\ pc'[c] = "receipt"
      /\ answer' = [answer EXCEPT ![c] = answer'[c]] /\ answer'[c] = None
  BY DEF CallInv, Await
<1> QED
  BY <1>1, OneClient

LEMMA ReceiptsStay ==
    ASSUME ReceiptInv, UNCHANGED <<callVars, answer>>
    PROVE  ReceiptInv'
BY DEF ReceiptInv, AsksReceipt, Asked, callVars

(* Where a handler of another method may stand.                            *)
LEMMA NotReceipt ==
    ASSUME ReceiptInv, NEW c \in Client,
           pc[c] \in {"prestate", "simulate", "hash", "add", "estimate", "transaction",
                      "clearLedger", "addNext", "sendBundle"}
    PROVE  ~AsksReceipt(c)
BY DEF ReceiptInv

LEMMA ReceiptSendStep ==
    ASSUME RequestsInv, ReceiptInv, NEW c \in Client, SendStep(c)
    PROVE  ReceiptInv'
<1> USE DEF Responds, Awaits, Steps
<1>1. CASE SendUserOperation(c)
  <2>1. pc[c] = "begin" /\ ~AsksReceipt(c)
    BY <1>1 DEF SendUserOperation, Handles, At, AsksReceipt
  <2>2. Responds(c) \/ Awaits(c)
    BY <1>1 DEF SendUserOperation
  <2> QED
    BY <2>1, <2>2, OtherMethod DEF RequestsInv
<1>2. CASE GetUserOpHashFails(c)
  <2>1. pc[c] \in {"prestate", "simulate", "hash"} /\ Responds(c)
    BY <1>2 DEF GetUserOpHashFails, At
  <2> QED
    BY <2>1, NotReceipt, OtherMethod DEF RequestsInv
<1>3. ASSUME NEW answered \in NodeAnswers, RunNativeTracer(c, answered)
      PROVE  ReceiptInv'
  <2>1. pc[c] = "prestate" /\ (Responds(c) \/ Awaits(c))
    BY <1>3 DEF RunNativeTracer, At
  <2> QED
    BY <2>1, NotReceipt, OtherMethod DEF RequestsInv
<1>4. ASSUME NEW answered \in NodeAnswers, HashCode(c, answered)
      PROVE  ReceiptInv'
  <2>1. pc[c] = "hash" /\ (Responds(c) \/ Awaits(c))
    BY <1>4 DEF HashCode, At
  <2> QED
    BY <2>1, NotReceipt, OtherMethod DEF RequestsInv
<1>5. ASSUME NEW answered \in NodeAnswers, NEW returned \in Returns, NEW keepsRules \in BOOLEAN,
             Simulate(c, answered, returned, keepsRules)
      PROVE  ReceiptInv'
  <2>1. pc[c] = "simulate" /\ (Responds(c) \/ Awaits(c))
    BY <1>5 DEF Simulate, At
  <2> QED
    BY <2>1, NotReceipt, OtherMethod DEF RequestsInv
<1>6. ASSUME NEW admitted \in BOOLEAN, SendToMempool(c, admitted)
      PROVE  ReceiptInv'
  <2>1. pc[c] = "add" /\ Responds(c)
    BY <1>6 DEF SendToMempool, At
  <2> QED
    BY <2>1, NotReceipt, OtherMethod DEF RequestsInv
<1> QED
  BY <1>1, <1>2, <1>3, <1>4, <1>5, <1>6 DEF SendStep

(* The logs of an operation that is on the chain are what filterLogs finds  *)
(* in its transaction.                                                     *)
LEMMA ReceiptQueryStep ==
    ASSUME RequestsInv, ReceiptInv, NEW c \in Client, QueryStep(c)
    PROVE  ReceiptInv'
<1> USE DEF Responds, Awaits, Steps
<1>1. CASE AnswerSimple(c)
  <2>1. pc[c] = "begin" /\ Responds(c)
    BY <1>1 DEF AnswerSimple, Handles, At, Ok
  <2>2. ~AsksReceipt(c)
    BY <1>1 DEF AnswerSimple, Handles, Configured, Forwarded, Web3Methods, AsksReceipt
  <2> QED
    BY <2>1, <2>2, OtherMethod DEF RequestsInv
<1>2. CASE Estimate(c)
  <2>1. pc[c] = "begin" /\ ~AsksReceipt(c)
    BY <1>2 DEF Estimate, Handles, At, AsksReceipt
  <2>2. Responds(c) \/ Awaits(c)
    BY <1>2 DEF Estimate
  <2> QED
    BY <2>1, <2>2, OtherMethod DEF RequestsInv
<1>3. CASE DumpReputation(c)
  <2>1. pc[c] = "begin" /\ ~AsksReceipt(c) /\ Responds(c)
    BY <1>3 DEF DumpReputation, Handles, At, AsksReceipt
  <2> QED
    BY <2>1, OtherMethod DEF RequestsInv
<1>4. ASSUME NEW verification \in NodeAnswers, NEW callGas \in NodeAnswers,
             Estimated(c, verification, callGas)
      PROVE  ReceiptInv'
  <2>1. pc[c] = "estimate" /\ Responds(c)
    BY <1>4 DEF Estimated, At
  <2> QED
    BY <2>1, NotReceipt, OtherMethod DEF RequestsInv
<1>5. CASE GetUserOperation(c, "eth_getUserOperationReceipt", "receipt")
  <2>1. pc[c] = "begin"
    BY <1>5 DEF GetUserOperation, Handles, At
  <2>2. \/ Respond(c, Left("InvalidFields"), 0) \/ Respond(c, NodeFails, 0)
        \/ Respond(c, Right(None), 0)
        \/ Asked(c).op \in executed /\ Await(c, "receipt", NoLocal)
    BY <1>5 DEF GetUserOperation
  <2>3. ~IsRight(Left("InvalidFields")) /\ ~IsRight(NodeFails) /\ Right(None).value = None
    BY DEF IsRight, Left, Right, Thrown, NodeFails
  <2>4. Asked(c).op \in executed => Asked(c).op \in UserOp
    BY DEF RequestsInv, StateInv
  <2> QED
    BY <2>1, <2>2, <2>3, <2>4, ReceiptAnswered, ReceiptAwaited DEF RequestsInv
<1>6. CASE GetUserOperation(c, "eth_getUserOperationByHash", "transaction")
  <2>1. pc[c] = "begin" /\ ~AsksReceipt(c)
    BY <1>6 DEF GetUserOperation, Handles, At, AsksReceipt
  <2>2. Responds(c) \/ Awaits(c)
    BY <1>6 DEF GetUserOperation
  <2> QED
    BY <2>1, <2>2, OtherMethod DEF RequestsInv
<1>7. ASSUME NEW fails \in BOOLEAN, GetReceipt(c, fails)
      PROVE  ReceiptInv'
  <2> DEFINE op == Asked(c).op
             logs == TransactionLogs[op]
             found == LogsOf(op, logs)
  <2>1. pc[c] = "receipt"
    BY <1>7 DEF GetReceipt, At
  <2>2. Respond(c, NodeFails, 0) \/ Respond(c, Left("Unknown"), 0)
        \/ Respond(c, Right(found), 0)
    BY <1>7 DEF GetReceipt
  <2>3. op \in UserOp
    BY <2>1 DEF ReceiptInv
  <2>4. HasAllOf(op, logs, found)
    BY <2>3, LogsBelong, TransactionAssumption
  <2> HIDE DEF found
  <2>5. ~IsRight(Left("Unknown")) /\ ~IsRight(NodeFails) /\ Right(found).value = found
    BY DEF IsRight, Left, Right, Thrown, NodeFails
  <2> QED
    BY <2>1, <2>2, <2>4, <2>5, ReceiptAnswered DEF RequestsInv
<1>8. ASSUME NEW fails \in BOOLEAN, GetTransaction(c, fails)
      PROVE  ReceiptInv'
  <2>1. pc[c] = "transaction" /\ Responds(c)
    BY <1>8 DEF GetTransaction, At
  <2> QED
    BY <2>1, NotReceipt, OtherMethod DEF RequestsInv
<1> QED
  BY <1>1, <1>2, <1>3, <1>4, <1>5, <1>6, <1>7, <1>8 DEF QueryStep

LEMMA ReceiptDebugStep ==
    ASSUME RequestsInv, ReceiptInv, NEW c \in Client, DebugStep(c)
    PROVE  ReceiptInv'
<1> USE DEF Responds, Awaits, Steps, Ok
<1>1. CASE SetConfiguration(c) \/ SetReputation(c)
  <2>1. pc[c] = "begin" /\ ~AsksReceipt(c) /\ Responds(c)
    BY <1>1 DEF SetConfiguration, SetReputation, Handles, At, AsksReceipt
  <2> QED
    BY <2>1, OtherMethod DEF RequestsInv
<1>2. CASE ClearMempool(c)
  <2>1. pc[c] = "begin" /\ ~AsksReceipt(c)
    BY <1>2 DEF ClearMempool, Handles, At, AsksReceipt
  <2>2. Responds(c) \/ Awaits(c)
    BY <1>2 DEF ClearMempool
  <2> QED
    BY <2>1, <2>2, OtherMethod DEF RequestsInv
<1>3. CASE ClearReputation(c)
  <2>1. (pc[c] = "begin" /\ ~AsksReceipt(c)) \/ pc[c] = "clearLedger"
    BY <1>3 DEF ClearReputation, Handles, At, AsksReceipt
  <2>2. Responds(c)
    BY <1>3 DEF ClearReputation
  <2> QED
    BY <2>1, <2>2, NotReceipt, OtherMethod DEF RequestsInv
<1>4. CASE AddUserOps(c)
  <2>1. pc[c] = "begin" /\ ~AsksReceipt(c) /\ Awaits(c)
    BY <1>4 DEF AddUserOps, Handles, At, AsksReceipt
  <2> QED
    BY <2>1, OtherMethod DEF RequestsInv
<1>5. CASE AddNext(c)
  <2>1. pc[c] = "addNext" /\ (Responds(c) \/ Awaits(c))
    BY <1>5 DEF AddNext, At
  <2> QED
    BY <2>1, NotReceipt, OtherMethod DEF RequestsInv
<1>6. CASE SendBundleNow(c)
  <2>1. pc[c] = "begin" /\ ~AsksReceipt(c) /\ Awaits(c)
    BY <1>6 DEF SendBundleNow, Handles, At, AsksReceipt
  <2> QED
    BY <2>1, OtherMethod DEF RequestsInv
<1> QED
  BY <1>1, <1>2, <1>3, <1>4, <1>5, <1>6 DEF DebugStep

LEMMA ReceiptBundleSent ==
    ASSUME RequestsInv, ReceiptInv, NEW c \in Client, BundleSent(c)
    PROVE  ReceiptInv'
<1>1. pc[c] = "sendBundle" /\ Responds(c)
  BY DEF BundleSent, At, Ok, Responds
<1> QED
  BY <1>1, NotReceipt, OtherMethod DEF RequestsInv

LEMMA ReceiptReceiveStep ==
    ASSUME RequestsInv, ReceiptInv, NEW c \in Client, NEW r \in DOMAIN Ask, Receive(c, r)
    PROVE  ReceiptInv'
<1>1. /\ pc[c] = "idle" /\ answer[c] = None /\ UNCHANGED answer
      /\ request' = [request EXCEPT ![c] = r] /\ pc' = [pc EXCEPT ![c] = "begin"]
  BY DEF Receive, At, RequestsInv, CallInv
<1>2. ASSUME NEW d \in Client, d # c
      PROVE  /\ pc'[d] = pc[d] /\ Asked(d)' = Asked(d)
             /\ answer'[d] = answer[d]
  BY <1>1, <1>2 DEF RequestsInv, CallInv, Asked
<1>3. pc'[c] = "begin" /\ answer'[c] = None
  BY <1>1 DEF RequestsInv, CallInv
<1> QED
  BY <1>2, <1>3 DEF ReceiptInv, AsksReceipt

LEMMA ReceiptNext == ASSUME RequestsInv, ReceiptInv, [RequestsNext]_vars PROVE ReceiptInv'
<1>1. ASSUME NEW c \in Client, RefuseRequest(c)
      PROVE  ReceiptInv'
  <2>1. pc[c] = "begin" /\ Respond(c, Valid[request[c]], 0) /\ ~IsRight(Valid[request[c]])
    BY <1>1 DEF RefuseRequest, At, IsLeft, IsRight
  <2> QED
    BY <2>1, ReceiptAnswered DEF RequestsInv
<1>2. CASE BuilderStep \/ Environment \/ UNCHANGED vars
  <2>1. UNCHANGED <<callVars, answer>>
    BY <1>2 DEF BuilderStep, TakeUp, CompareCode, SimulateAgain, Environment, vars
  <2> QED
    BY <2>1, ReceiptsStay
<1> QED
  BY <1>1, <1>2, ReceiptReceiveStep, ReceiptSendStep, ReceiptQueryStep, ReceiptDebugStep,
     ReceiptBundleSent DEF RequestsNext, ClientStep

-----------------------------------------------------------------------------
(* The theorems.                                                           *)

LEMMA RequestsInvariant == RequestsSpec => []RequestsInv
<1>1. ASSUME RequestsInv, [RequestsNext]_vars
      PROVE  RequestsInv'
  <2>1. CASE RequestsNext
    BY <1>1, <2>1, ReceiveStep, RefuseRequestStep, SendStepKeeps, QueryStepKeeps, DebugStepKeeps,
       SendBundleStep, BuilderStepKeeps, EnvironmentKeeps DEF RequestsNext, ClientStep
  <2>2. CASE UNCHANGED vars
    <3>1. /\ UNCHANGED <<chainVars, stateVars, bundleVars>> /\ UNCHANGED <<callVars, answer, down>>
          /\ UNCHANGED mode
      BY <2>2 DEF vars, chainVars
    <3> QED
      BY <1>1, <3>1, CallsStay, RequestsStay, BundleStays, StateStays DEF RequestsInv
  <2> QED
    BY <1>1, <2>1, <2>2
<1> QED
  BY <1>1, InvInit, PTL DEF RequestsSpec

(* Whatever clients ask, the server's state keeps its shape: an error has a *)
(* code, of the protocol or of the node's error that was thrown, and what   *)
(* is executed was traced and hashed, or neither (createApp,                *)
(* doHandleRequest, validateUserOp).                                       *)
THEOREM RequestsTypeCorrect == RequestsSpec => []RequestsTypeOK
BY RequestsInvariant, InvMeans, PTL

(* Every operation in the mempool had, when it was checked, a signature of  *)
(* its account and one of its paymaster that held at that time, whatever    *)
(* windows the simulations return and however long handlers wait, unless a  *)
(* debug_bundler_addUserOps has listed it.                                 *)
THEOREM AdmittedValid == RequestsSpec => []AdmittedWasValid
BY RequestsInvariant, InvMeans, PTL

(* An operation is executed with the code it was first traced with, unless  *)
(* the code changed in one of the two places where it is read by calls of   *)
(* their own.                                                              *)
THEOREM SameCodeTwice == RequestsSpec => []SecondTraceSameCode
BY RequestsInvariant, InvMeans, PTL

(* The receipt of an operation has all the logs its execution emitted and   *)
(* none of the validations' or of a later operation's, however many         *)
(* operations the transaction executes, in whatever order, and whatever     *)
(* else it logs (filterLogs, getUserOperationReceipt).                     *)
THEOREM ReceiptsLoseNoLog == RequestsSpec => []ReceiptLosesNoLog
<1>1. RequestsInit => ReceiptInv
  BY DEF RequestsInit, ReceiptInv
<1> QED
  BY <1>1, RequestsInvariant, ReceiptNext, ReceiptMeans, PTL DEF RequestsSpec
=============================================================================
