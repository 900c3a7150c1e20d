---------------------------- MODULE AtomicMempool ----------------------------
(***************************************************************************)
(* What the mempool promises its callers: each call takes effect at once.  *)
(* A set of operations, each with a status, whatever the awaits, the       *)
(* copies and the counters of the mempool manager.                         *)
(***************************************************************************)
EXTENDS Entities

VARIABLES pooled, status

atomicVars == <<pooled, status>>

AtomicInit == pooled = {} /\ status = [h \in Hash |-> "pending"]

MarkedAs(hashes, s) == [h \in Hash |-> IF h \in hashes THEN s ELSE status[h]]

(* addUserOp: a sender and nonce nobody has, and no address that is the    *)
(* sender of one operation and a helper of another.                        *)
Admit(h) ==
    /\ \A g \in pooled : ~SameSlot(g, h)
    /\ \A g \in pooled : SenderOf(g) \notin HelpersOf(h) /\ SenderOf(h) \notin HelpersOf(g)
    /\ pooled' = pooled \cup {h}
    /\ status' = MarkedAs({h}, "pending")

(* addUserOp: the operation of the same sender and nonce, for higher fees. *)
Replace(old, h) ==
    /\ SameSlot(old, h) /\ PaysMore(h, old)
    /\ pooled' = (pooled \ {old}) \cup {h}
    /\ status' = MarkedAs({old, h}, "pending")

(* removeUserOp, removeUserOpsForBannedAddr, clearState.                   *)
Drop(gone) ==
    /\ pooled' = pooled \ gone
    /\ status' = MarkedAs(gone, "pending")

(* getNextPending, getAllPending: only what nobody else has been handed.   *)
HandOut(picked) ==
    /\ \A h \in picked : status[h] = "pending"
    /\ status' = MarkedAs(picked, "bundling")
    /\ UNCHANGED pooled

(* updateEntryStatus                                                       *)
SetStatusTo(h, s) ==
    /\ status' = MarkedAs({h}, s)
    /\ UNCHANGED pooled

AtomicNext ==
    \/ \E h \in Hash : Admit(h)
    \/ \E old \in pooled, h \in Hash : Replace(old, h)
    \/ \E gone \in SUBSET pooled : Drop(gone) \/ HandOut(gone)
    \/ \E h \in pooled, s \in {"pending", "failed"} : SetStatusTo(h, s)

AtomicSpec == AtomicInit /\ [][AtomicNext]_atomicVars
=============================================================================
