------------------------------ MODULE MCBundler ------------------------------
(* Instances of Bundler for TLC: one user, callbacks, the listener.        *)
EXTENDS Bundler

MCAddress == {"alice", "bob", "pat"}
MCLower == [a \in MCAddress |-> a]
MCMinOps == -2

Op(sender, paymaster, fee) ==
    [sender |-> sender, nonce |-> 1, paymaster |-> paymaster,
     factory |-> None, aggregator |-> None,
     maxPriorityFeePerGas |-> fee, maxFeePerGas |-> fee, maxCost |-> 1]

AllOps ==
    [a1    |-> Op("alice", None, 10),
     a1up  |-> Op("alice", None, 11),       \* replaces a1
     b1    |-> Op("bob", None, 10),
     b1pat |-> Op("bob", "pat", 10),
     a1pat |-> Op("alice", "pat", 11)]

MCUserOp == [h \in Hash |-> AllOps[h]]
MCDeposit == [a \in Account |-> 2]

MCDoes ==
    [p \in Proc |->
       CASE p \in Drivers  -> {"getNextPending", "getAllPending", "updateEntryStatus",
                               "removeUserOp", "removeUserOpsForBannedAddr"}
         [] p \in Listener -> {"updateEntryStatus", "removeUserOp"}
         [] OTHER          -> {"addUserOp"}]

MCOffers == [p \in Proc |-> Hash]
=============================================================================
