------------------------------ MODULE Validation ------------------------------
(***************************************************************************)
(* The checks of a user operation: of the request's fields, of the gas it  *)
(* pays for before verification, and of what its simulation returned.  The *)
(* calls of the node are external: a node answers with a result, reverts   *)
(* with a known error, reverts with something that cannot be decoded, or   *)
(* fails.                                                                  *)
(***************************************************************************)
EXTENDS Either, Integers, Sequences

CONSTANTS
    UserOp,         \* the operations
    Input,          \* what the request says of each
    Infinite,       \* stands for JavaScript's Infinity: larger than every gas value
    MaxUint48,
    NoAddress       \* the zero address

GasFields == {"preVerificationGas", "verificationGasLimit", "callGasLimit",
              "maxFeePerGas", "maxPriorityFeePerGas"}
PaymasterLimits == {"paymasterPostOpGasLimit", "paymasterVerificationGasLimit"}
Fields == {"sender", "nonce", "callData", "signature", "paymasterData", "factoryData"}
            \cup GasFields \cup PaymasterLimits

NodeAnswers == {"result", "reverted", "undecodable", "failed"}

(* present are the fields that are there, hex those of them with a          *)
(* hexadecimal value.  cost is what the operation's own bytes and the share *)
(* per operation come to.                                                  *)
ASSUME ValidationAssumption ==
    /\ \A op \in UserOp :
         /\ Input[op].hex \subseteq Input[op].present /\ Input[op].present \subseteq Fields
         /\ Input[op].paymaster \in {"absent", "address", "other"}
         /\ Input[op].factory \in {"absent", "address", "other"}
         /\ {Input[op].preVerificationGas, Input[op].cost, Input[op].fee} \subseteq Nat
    /\ Infinite \in Nat /\ MaxUint48 \in Nat
    /\ NoAddress # "SIG_VALIDATION_FAILED"

-----------------------------------------------------------------------------
(* Pre-verification gas.                                                   *)

(* Math.round(a / b)                                                       *)
Rounded(a, b) == (2 * a + b) \div (2 * b)

(* Division by a bundle size of 0 gives Infinity.                          *)
CalcPreVerificationGas(input, gasConfig) ==
    IF gasConfig.expectedBundleSize = 0 THEN Infinite
    ELSE input.cost + Rounded(gasConfig.fixedGasOverhead, gasConfig.expectedBundleSize)

IsPreVerificationGasValid(input, gasConfig) ==
    CalcPreVerificationGas(input, gasConfig) <= input.preVerificationGas

(* Object.assign: what the request names replaces what was there.          *)
UpdateGasConfig(gasConfig, config) ==
    [k \in DOMAIN gasConfig |-> IF k \in DOMAIN config THEN config[k] ELSE gasConfig[k]]

-----------------------------------------------------------------------------
(* validateInputParameters.                                                *)

(* requireAddressAndFields: a field counts if it is there, whatever it says. *)
HasAddressAndFields(input, addr, must, optional) ==
    \/ addr = "absent" /\ input.present \cap (must \cup optional) = {}
    \/ addr = "address" /\ must \subseteq input.present

MustFields(requireSignature, requireGasParams) ==
    {"sender", "nonce", "callData"}
        \cup (IF requireSignature THEN {"signature"} ELSE {})
        \cup (IF requireGasParams THEN GasFields ELSE {})

ValidateInputParameters(input, supported, signature, gasParams, preVerificationGas, gasConfig) ==
    IF ~supported \/ ~(MustFields(signature, gasParams) \subseteq input.hex)
    THEN Left("InvalidFields")
    ELSE RequireCond(
           /\ HasAddressAndFields(input, input.paymaster, PaymasterLimits, {"paymasterData"})
           /\ HasAddressAndFields(input, input.factory, {"factoryData"}, {})
           /\ preVerificationGas => IsPreVerificationGasValid(input, gasConfig),
           "InvalidFields", input)

-----------------------------------------------------------------------------
(* What a simulation returned.                                             *)

Least(a, b) == IF a < b THEN a ELSE b
Greatest(a, b) == IF a < b THEN b ELSE a

(* validUntil = 0 means for ever.                                          *)
ParseValidationData(data) ==
    [aggregator |-> data.aggregator, validAfter |-> data.validAfter,
     validUntil |-> IF data.validUntil = 0 THEN MaxUint48 ELSE data.validUntil]

(* Mutant of MergeValidationData: the wider of the two windows.             *)
MergedLoosely(account, paymaster) ==
    [aggregator |-> IF paymaster.aggregator # NoAddress THEN "SIG_VALIDATION_FAILED"
                    ELSE account.aggregator,
     validAfter |-> Greatest(account.validAfter, paymaster.validAfter),
     validUntil |-> Greatest(account.validUntil, paymaster.validUntil)]

MergeValidationData(account, paymaster) ==
    [aggregator |-> IF paymaster.aggregator # NoAddress THEN "SIG_VALIDATION_FAILED"
                    ELSE account.aggregator,
     validAfter |-> Greatest(account.validAfter, paymaster.validAfter),
     validUntil |-> Least(account.validUntil, paymaster.validUntil)]

(* parseValidationResult; stakes are read by the mempool and the tracer's  *)
(* parser.                                                                 *)
ParseValidationResult(returned) ==
    LET merged == MergeValidationData(ParseValidationData(returned.account),
                                      ParseValidationData(returned.paymaster))
    IN  [sigFailed |-> merged.aggregator # NoAddress,
         validAfter |-> merged.validAfter, validUntil |-> merged.validUntil,
         returned |-> returned]

(* checkValidationResult.  That an operation expires within 30 seconds,     *)
(* that it has an aggregator or that its verification gas is scarce is      *)
(* noticed, but the Left that says so is not returned.                     *)
CheckValidationResult(res, now) ==
    CASE res.sigFailed -> Left("InvalidSignature")
      [] ~res.sigFailed /\ (res.validAfter > now \/ res.validUntil < now) -> Left("NotInTimeRange")
      [] OTHER -> Right(res)

(* An error of the node that is thrown has a code of its own: a string of   *)
(* ethers, such as CALL_EXCEPTION, which no answer translates.             *)
NodeFails == Thrown("NodeCode")

(* decodeRevertReason itself throws the node's error when it has no revert  *)
(* data; what it cannot decode it returns as it is.                        *)
DecodeRevertReason(answer) ==
    IF answer = "failed" THEN NodeFails ELSE Right(answer)

(* The eth_call of the EntryPoint's simulation.                            *)
PartialSimulateValidation(answer, returned) ==
    IF answer = "result" THEN Right(ParseValidationResult(returned))
    ELSE FlatMap(DecodeRevertReason(answer), LAMBDA reason : Left("SimulateValidation"))

(* provider.debug_traceCall: a trace that ends in a revert is a result.    *)
DebugTraceCall(answer) == IF answer = "failed" THEN Left("InternalError") ELSE Right(answer)

(* parseTracerResultCalls                                                  *)
ParseTracerResultCalls(answer) ==
    IF answer = "reverted" THEN Left("SimulateValidation") ELSE Right(answer)

(* parseValidationResultSafe                                               *)
ParseValidationResultSafe(answer, returned) ==
    IF answer = "undecodable" THEN Left("Unknown") ELSE Right(ParseValidationResult(returned))

FullSimulateValidation(answer, returned) ==
    FlatMap(FlatMap(DebugTraceCall(answer), ParseTracerResultCalls),
            LAMBDA trace : ParseValidationResultSafe(trace, returned))

(* tracerResultParser (module Tracer) throws when a rule is broken.        *)
TracerResultParser(keepsRules, res) == RequireCond(keepsRules, "OpcodeValidation", res)

(* runContractScript: the script reverts with its result; without that the *)
(* call fails.                                                             *)
RunContractScript(answer) ==
    CASE answer = "reverted" -> Right("hash")
      [] answer = "result" -> Thrown("Unknown")
      [] answer \in {"undecodable", "failed"} -> Thrown("InternalError")

(* simulateHandleOp: with an override from the request the EntryPoint's     *)
(* simulation code is not put in its place, and its own has no such         *)
(* function.                                                               *)
SimulateHandleOp(answer, overridden) ==
    IF answer = "result" /\ ~overridden THEN Right("estimate")
    ELSE FlatMap(DecodeRevertReason(answer), LAMBDA reason : Left("SimulateValidation"))

EstimateGas(answer) == IF answer = "result" THEN Right("gas") ELSE Left("UserOperationReverted")
=============================================================================
