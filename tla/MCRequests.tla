------------------------------ MODULE MCRequests ------------------------------
(* One request of each kind, from two clients; two operations of one slot, *)
(* of which one pays a tenth more.                                         *)
EXTENDS Requests

CONSTANTS c1, c2

MCClient == {c1, c2}
MCUserOp == {"op", "dear"}
MCModes == {"unsafe", "native"}
MCHttpApis == {"eth", "debug"}

MCInput == [op \in MCUserOp |->
    [present |-> Fields \ {"factoryData"}, hex |-> Fields \ {"factoryData", "paymasterData"},
     paymaster |-> "address", factory |-> "absent", preVerificationGas |-> 4, cost |-> 2,
     slot |-> "slot", fee |-> IF op = "op" THEN 10 ELSE 11]]

(* The signatures of both, for ever; one of a later time, one that expires. *)
Data(after, until) == [aggregator |-> NoAddress, validAfter |-> after, validUntil |-> until]
MCReturns == {[account |-> Data(0, 0), paymaster |-> Data(2, 0)],
              [account |-> Data(0, 1), paymaster |-> Data(0, 0)],
              [account |-> [Data(0, 0) EXCEPT !.aggregator = "failed"], paymaster |-> Data(0, 0)]}

(* The operation was executed between two others.                          *)
Log(kind, op) == [kind |-> kind, op |-> op]
MCTransactionLogs == [op \in MCUserOp |->
    <<Log("other", "validation"), Log("BeforeExecution", "entryPoint"),
      Log("other", "earlier"), Log("UserOperationEvent", "earlier"),
      Log("other", op), Log("other", op), Log("UserOperationEvent", op),
      Log("other", "later"), Log("UserOperationEvent", "later")>>]

MCBootGasConfig == [fixedGasOverhead |-> 3, expectedBundleSize |-> 2]

Plain(method) == [flaws |-> {}, method |-> method, op |-> "op", supported |-> TRUE,
                  overridden |-> FALSE, config |-> [expectedBundleSize |-> 0], seen |-> 0,
                  ops |-> <<"dear", "op">>]

MCAsk == [
    send |-> Plain("eth_sendUserOperation"),
    sendElsewhere |-> [Plain("eth_sendUserOperation") EXCEPT !.supported = FALSE],
    estimate |-> Plain("eth_estimateUserOperationGas"),
    receipt |-> Plain("eth_getUserOperationReceipt"),
    byHash |-> Plain("eth_getUserOperationByHash"),
    byBadHash |-> [Plain("eth_getUserOperationByHash") EXCEPT !.flaws = {"hash"}],
    chainId |-> Plain("eth_chainId"),
    web3 |-> Plain("web3_clientVersion"),
    configure |-> Plain("debug_bundler_setConfiguration"),
    sendNow |-> Plain("debug_bundler_sendBundleNow"),
    clear |-> Plain("debug_bundler_clearState"),
    setSeen |-> Plain("debug_bundler_setReputation"),
    dump |-> Plain("debug_bundler_dumpReputation"),
    addOps |-> Plain("debug_bundler_addUserOps")]
=============================================================================
