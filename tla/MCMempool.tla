------------------------------ MODULE MCMempool ------------------------------
(* Instances of Mempool for TLC.  Each run names the operations it needs:  *)
(* the sender, nonce, paymaster, fees and cost of every operation are here. *)
EXTENDS Mempool

MCAddress == {"alice", "Alice", "bob", "pat", "eve", "fac", "agg"}
MCLower == [a \in MCAddress |-> IF a = "Alice" THEN "alice" ELSE a]
MCMinOps == 0
MinusOne == -1

Op(sender, nonce, paymaster, fee, cost) ==
    [sender |-> sender, nonce |-> nonce, paymaster |-> paymaster,
     factory |-> None, aggregator |-> None,
     maxPriorityFeePerGas |-> fee, maxFeePerGas |-> fee, maxCost |-> cost]

AllOps ==
    [a1     |-> Op("alice", 1, None, 10, 1),
     a1up   |-> Op("alice", 1, None, 11, 1),     \* replaces a1, barely
     A1up   |-> Op("Alice", 1, None, 13, 1),     \* the same slot in another spelling
     a2     |-> Op("alice", 2, None, 10, 1),
     b1al   |-> Op("bob", 1, "alice", 10, 1),    \* alice as a paymaster
     e1     |-> Op("eve", 1, None, 10, 1),
     e3pat  |-> Op("eve", 3, "pat", 10, 1),
     a1facpat |-> [Op("alice", 1, "pat", 10, 1) EXCEPT !.factory = "fac"],
     a3pat  |-> Op("alice", 3, "pat", 10, 1),
     b2agg  |-> [Op("bob", 2, None, 10, 1) EXCEPT !.aggregator = "agg"]]

MCUserOp == [h \in Hash |-> AllOps[h]]

MCDeposit == [a \in Account |-> 2]
OneEach == [a \in Account |-> 1]

(* Two processes add and one removes.                                      *)
MCDoes == [p \in Proc |-> IF p = "remover" THEN {"removeUserOp"} ELSE {"addUserOp"}]

(* rpc1 and rpc2 never offer the same operation, nor the same slot.        *)
SplitOffers ==
    [p \in Proc |-> {h \in Hash : UserOp[h].nonce = 1 <=> p = "rpc1"}]
=============================================================================
