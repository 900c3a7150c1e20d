---------------------------- MODULE MCHourlyCron ----------------------------
(* Instances of HourlyCron for TLC: one account, spelled in two ways, and   *)
(* thresholds scaled down so that every status is a few calls away.  No    *)
(* user operation is needed.                                               *)
EXTENDS HourlyCron

MCAddress == {"paymaster", "Paymaster"}
MCLower == [a \in MCAddress |-> "paymaster"]
MCHash == {}
MCUserOp == [h \in {} |-> 0]
MCMinOps == -2
=============================================================================
