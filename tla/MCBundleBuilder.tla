-------------------------- MODULE MCBundleBuilder --------------------------
(* Instances of BundleBuilder for TLC: a paymaster and a factory that      *)
(* several operations share, and a sender spelled in two ways.             *)
EXTENDS BundleBuilder

MCAddress == {"alice", "Alice", "bob", "eve", "pat", "fac"}
MCLower == [a \in MCAddress |-> IF a = "Alice" THEN "alice" ELSE a]

Sponsored(sender, nonce, paymaster, factory, cost) ==
    [sender |-> sender, nonce |-> nonce, paymaster |-> paymaster, factory |-> factory,
     aggregator |-> None, maxPriorityFeePerGas |-> 1, maxFeePerGas |-> 1, maxCost |-> cost]

AllOps ==
    [a1 |-> Sponsored("alice", 1, "pat", None, 1),
     a2 |-> Sponsored("alice", 2, None, None, 1),
     A3 |-> Sponsored("Alice", 3, "pat", None, 1),
     b1 |-> Sponsored("bob", 1, "pat", "fac", 2),
     e1 |-> Sponsored("eve", 1, None, "fac", 1)]

MCUserOp == [h \in Hash |-> AllOps[h]]
MCGas == [h \in Hash |-> IF h = "b1" THEN 2 ELSE 1]
MCBalance == [a \in Account |-> 2]

MCEntries == <<"a1", "a2", "b1", "A3", "e1">>
=============================================================================
