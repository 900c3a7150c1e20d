--------------------------- MODULE MCMempoolOverlap ---------------------------
(* The instance of MempoolOverlap for TLC: one call that adds, and any call *)
(* beside it, another addition among them.                                 *)
EXTENDS MCMempool, MempoolOverlap

OverlapDoes == [p \in Proc |-> IF p = "rpc" THEN {"addUserOp"} ELSE Functions]

(* The first adds an operation, one whose paymaster is the sender of that   *)
(* one, and one of a banned sender; the other replaces, in either spelling. *)
OverlapOffers == [p \in Proc |-> IF p = "rpc" THEN {"a1", "b1al", "e1"} ELSE {"a1up", "A1up"}]
=============================================================================
