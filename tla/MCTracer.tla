------------------------------- MODULE MCTracer -------------------------------
(* Slots of a token for TLC: the last of a structure of the sender's and the *)
(* one after it, and one of the paymaster's.                               *)
EXTENDS Tracer

MCSlots ==
    {[of |-> "account", offset |-> 127], [of |-> "paymaster", offset |-> 0],
     [of |-> "account", offset |-> 128], [of |-> None, offset |-> 0]}

Unhashed == [of |-> None, offset |-> 0]
PastStructure == [of |-> "account", offset |-> 128]

(* The token has the entities' slots, the one past the structure also     *)
(* transient; the entities use a slot of their own.                        *)
MCAccesses ==
    [a \in Address |->
        CASE a = "token" -> ({"SLOAD", "SSTORE"} \X (Slots \ {Unhashed}))
                              \cup ({"TLOAD", "TSTORE"} \X {PastStructure})
          [] a \in Roles -> {"SLOAD", "SSTORE"} \X {Unhashed}
          [] OTHER -> {}]

MCCallable ==
    {<<"token", "other", 0>>, <<"token", "other", 1>>, <<"void", "other", 0>>,
     <<"ecrecover", "other", 0>>, <<"entryPoint", "other", 0>>, <<"entryPoint", "depositTo", 1>>}
=============================================================================
