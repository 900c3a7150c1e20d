---------------------------- MODULE MempoolOverlap ----------------------------
(***************************************************************************)
(* Calls of the mempool manager that overlap.  A call reads the pool,      *)
(* awaits, and writes what it decided from that reading (mempool-manager   *)
(* and mempool-helper take the state's lock for each of the two, not for   *)
(* both).  Two history variables tell when another call came in between    *)
(* and mattered; they follow the steps of Mempool and hinder none.         *)
(***************************************************************************)
EXTENDS Mempool

VARIABLES
    touched,    \* touched[p]: entries that changed since the reading of p's call
    raced       \* entries of a sender and nonce that have two by such a race

overlapVars == <<vars, touched, raced>>

OverlapTypeOK ==
    /\ MempoolTypeOK
    /\ touched \in [Proc -> SUBSET Hash]
    /\ raced \subseteq standardPool.keys

-----------------------------------------------------------------------------
(* The entries this step adds, removes, writes again or gives another      *)
(* status.                                                                 *)
Changed ==
    {h \in Hash :
       \/ h \in standardPool.keys /\ h \notin standardPool'.keys
       \/ h \notin standardPool.keys /\ h \in standardPool'.keys
       \/ entryStatus'[h] # entryStatus[h]
       \/ \E p \in Proc : At(p, "commit") /\ call'[p] # call[p] /\ call[p].hash = h}

(* Where a call has not read the pool yet, or has written it.              *)
Unread == {"idle", "snapshot", "seenSender", "seenHelpers"}

Touch ==
    touched' = [p \in Proc |-> IF call[p].pc \in Unread \/ call'[p].pc \in Unread THEN {}
                               ELSE touched[p] \cup Changed]

(* The operations that must not be pooled when h is added as a new one.    *)
Rivals(h) == {g \in Hash : \/ SameSlot(g, h)
                           \/ SenderOf(g) \in HelpersOf(h) \/ SenderOf(h) \in HelpersOf(g)}

(* What p's next write relies on having found.                             *)
Relies(p) ==
    {g \in Hash :
       \/ At(p, "commit") /\ call[p].old = None /\ g \in Rivals(call[p].hash)
       \/ call[p].pc \in {"commit", "remove", "setStatus"} /\ g = call[p].old
       \/ call[p].pc \in {"ban", "mark"} /\ g \in call[p].picked.keys}

Overtaken(p) == Relies(p) \cap touched[p] # {}

(* The step is one of p's, written although p's call was overtaken.        *)
WritesOvertaken(p) == call'[p] # call[p] /\ Overtaken(p)

(* Such a step writes an entry of h's sender and nonce, and what overtook   *)
(* the call was about that sender and nonce.                               *)
Races(p, h) ==
    /\ WritesOvertaken(p)
    /\ \E g \in Relies(p) \cap touched[p] : SameSlot(g, h)

Doubled(keys, h) == \E g \in keys \ {h} : SameSlot(g, h)

(* An entry is remembered for as long as its sender and nonce have two.    *)
Race ==
    raced' = {h \in standardPool'.keys :
                /\ Doubled(standardPool'.keys, h)
                /\ (\E g \in raced : SameSlot(g, h)) \/ (\E p \in Proc : Races(p, h))}

OverlapInit ==
    /\ MempoolInit
    /\ touched = [p \in Proc |-> {}]
    /\ raced = {}

OverlapNext == MempoolNext /\ Touch /\ Race

OverlapSpec == OverlapInit /\ [][OverlapNext]_overlapVars

-----------------------------------------------------------------------------
(* Properties.                                                             *)

(* The mempool as its callers would have it: a set of operations on which  *)
(* each call takes effect at once.                                         *)
Atomic == INSTANCE AtomicMempool WITH pooled <- standardPool.keys, status <- entryStatus

(* A call takes effect as if it were one atomic step, whatever other calls *)
(* do during its awaits, unless an entry it relies on was changed since it *)
(* looked: an addition relies on the sender and nonce being free and on    *)
(* the roles of its addresses, a replacement on the entry it replaces, a   *)
(* removal, a status update and a hand-out on the entries they found.      *)
(* Reading other entries, copies and stale objects does no harm.           *)
AtomicUnlessOvertaken ==
    [][ \/ UNCHANGED Atomic!atomicVars
        \/ \E p \in Proc : WritesOvertaken(p)
        \/ Atomic!AtomicNext ]_overlapVars

(* A sender and nonce have two entries only because a call that wrote one  *)
(* of them was overtaken by another about the same sender and nonce: never *)
(* by a single call, a replacement in time, or one about something else.   *)
DoubledOnlyByRace ==
    \A h \in standardPool.keys : Doubled(standardPool.keys, h) => h \in raced
=============================================================================
