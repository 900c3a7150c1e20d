---------------------------- MODULE MCEventManager ----------------------------
(* A chain of three blocks for TLC: an aggregated bundle, a deployment with *)
(* its operation, which reverts, and another aggregated bundle.            *)
EXTENDS EventManager

Ev(block, index, kind, tx, about, success) ==
    [block |-> block, index |-> index, kind |-> kind, tx |-> tx, about |-> about,
     success |-> success]

MCLog ==
    [s1 |-> Ev(1, 1, SignatureAggregatorChanged, "t1", "agg1", TRUE),
     u1 |-> Ev(1, 2, UserOperationEvent, "t1", "alice", TRUE),
     a2 |-> Ev(2, 3, AccountDeployed, "t2", "fac", TRUE),
     u2 |-> Ev(2, 4, UserOperationEvent, "t2", "bob", FALSE),
     s3 |-> Ev(3, 5, SignatureAggregatorChanged, "t3", "agg2", TRUE),
     u3 |-> Ev(3, 6, UserOperationEvent, "t3", "carol", TRUE)]
=============================================================================
