--------------------------- MODULE MempoolProofs ---------------------------
(***************************************************************************)
(* Proofs about the mempool manager, for any number of concurrent calls,   *)
(* any operations and any initial lists, however the calls overlap.        *)
(***************************************************************************)
EXTENDS MempoolOverlap, ReputationProofs, FiniteSetTheorems

(* The type invariant is inductive together with what a call carries from  *)
(* one await to the next: the operation it adds, the entry it writes.      *)
AddSteps == {"snapshot", "classify", "check", "roles", "commit", "seenSender", "seenHelpers"}

CallOK(c) ==
    /\ c.pc \in AddSteps => c.hash \in Hash
    /\ c.pc \in {"remove", "setStatus"} => c.old \in Hash

TypeInv == MempoolTypeOK /\ \A p \in Proc : CallOK(call[p])

WellFormed(pool) == pool \in Pools /\ pool.precedes \subseteq pool.keys \X pool.keys

-----------------------------------------------------------------------------
(* The pool object.                                                        *)

LEMMA EmptyPoolType == WellFormed(EmptyPool)
BY DEF WellFormed, Pools, EmptyPool

LEMMA WithoutType ==
    ASSUME NEW pool, WellFormed(pool), NEW gone
    PROVE  /\ WellFormed(Without(pool, gone))
           /\ Without(pool, gone).keys = pool.keys \ gone
BY DEF WellFormed, Pools, Without

LEMMA WithKeyType ==
    ASSUME NEW pool, WellFormed(pool), NEW h \in Hash
    PROVE  /\ WellFormed(WithKey(pool, h))
           /\ WithKey(pool, h).keys = pool.keys \cup {h}
BY DEF WellFormed, Pools, WithKey

LEMMA ReplacePoolType ==
    ASSUME poolView \in [Proc -> PoolViews], NEW copy, WellFormed(copy),
           NEW leftBehind \in Pools, ReplacePool(copy, leftBehind)
    PROVE  /\ standardPool' = copy
           /\ WellFormed(standardPool')
           /\ poolView' \in [Proc -> PoolViews]
<1>1. [live |-> FALSE, pool |-> leftBehind] \in PoolViews
  BY DEF PoolViews
<1> QED
  BY <1>1 DEF ReplacePool, WellFormed

LEMMA ReplaceCountType ==
    ASSUME mempoolEntryCount \in Counts, countView \in [Proc -> CountViews],
           NEW copy \in Counts, ReplaceCount(copy)
    PROVE  /\ mempoolEntryCount' \in Counts
           /\ countView' \in [Proc -> CountViews]
<1>1. [live |-> FALSE, count |-> mempoolEntryCount] \in CountViews
  BY DEF CountViews
<1> QED
  BY <1>1 DEF ReplaceCount

LEMMA StatusSetType ==
    ASSUME entryStatus \in [Hash -> EntryStatuses], NEW hashes,
           NEW status \in EntryStatuses, StatusSet(hashes, status)
    PROVE  entryStatus' \in [Hash -> EntryStatuses]
BY DEF StatusSet

LEMMA DropViewsType ==
    ASSUME poolView \in [Proc -> PoolViews], countView \in [Proc -> CountViews],
           NEW p \in Proc, DropViews(p)
    PROVE  poolView' \in [Proc -> PoolViews] /\ countView' \in [Proc -> CountViews]
<1>1. NoPool \in PoolViews /\ NoCount \in CountViews
  BY DEF NoPool, NoCount, PoolViews, CountViews, Pools, EmptyPool, Counts, NoCounts
<1> QED
  BY <1>1 DEF DropViews

-----------------------------------------------------------------------------
(* The calls.                                                              *)

LEMMA IdleType == Idle \in Calls /\ CallOK(Idle)
BY DEF Idle, Calls, Steps, EntryStatuses, EmptyPool, Pools, CallOK, AddSteps

LEMMA CallStep ==
    ASSUME call \in [Proc -> Calls], \A q \in Proc : CallOK(call[q]),
           NEW p \in Proc, NEW c \in Calls, CallOK(c), call' = [call EXCEPT ![p] = c]
    PROVE  call' \in [Proc -> Calls] /\ \A q \in Proc : CallOK(call[q])'
<1>1. call' \in [Proc -> Calls]
  OBVIOUS
<1>2. \A q \in Proc : CallOK(call'[q])
  OBVIOUS
<1> QED
  BY <1>1, <1>2 DEF CallOK

(* A call that goes on keeps the operation it adds.                        *)
LEMMA GotoStep ==
    ASSUME call \in [Proc -> Calls], \A q \in Proc : CallOK(call[q]),
           NEW p \in Proc, call[p].pc \in AddSteps, NEW step \in AddSteps, Goto(p, step)
    PROVE  call' \in [Proc -> Calls] /\ \A q \in Proc : CallOK(call[q])'
<1> DEFINE c == [call[p] EXCEPT !.pc = step]
<1>1. c \in Calls /\ c.hash = call[p].hash /\ c.pc = step
  BY DEF Calls, Steps, AddSteps
<1>2. CallOK(c)
  BY <1>1 DEF CallOK, AddSteps
<1>3. call' = [call EXCEPT ![p] = c]
  BY DEF Goto
<1> HIDE DEF c
<1> QED
  BY <1>1, <1>2, <1>3, CallStep

LEMMA RefuseStep ==
    ASSUME TypeInv, NEW p \in Proc, Refuse(p)
    PROVE  TypeInv'
<1>1. call' \in [Proc -> Calls] /\ \A q \in Proc : CallOK(call[q])'
  BY CallStep, IdleType DEF TypeInv, MempoolTypeOK, Refuse
<1>2. poolView' \in [Proc -> PoolViews] /\ countView' \in [Proc -> CountViews]
  BY DropViewsType DEF TypeInv, MempoolTypeOK, Refuse
<1> QED
  BY <1>1, <1>2 DEF TypeInv, MempoolTypeOK, Refuse, poolVars, repVars, RepTypeOK

(* A step that changes nothing but its own call.                           *)
LEMMA CallOnlyStep ==
    ASSUME TypeInv, NEW p \in Proc, NEW c \in Calls, CallOK(c),
           call' = [call EXCEPT ![p] = c],
           UNCHANGED <<poolVars, poolView, countView, repVars>>
    PROVE  TypeInv'
<1>1. call' \in [Proc -> Calls] /\ \A q \in Proc : CallOK(call[q])'
  BY CallStep DEF TypeInv, MempoolTypeOK
<1> QED
  BY <1>1 DEF TypeInv, MempoolTypeOK, poolVars, repVars, RepTypeOK

LEMMA AddressInAccount ==
    \A h \in Hash :
       /\ {SenderOf(h)} \in SUBSET Account
       /\ HelpersOf(h) \cup AccountOf(UserOp[h].aggregator) \in SUBSET Account
       /\ Counted(h) \in SUBSET Address
<1> TAKE h \in Hash
<1> QED
  BY OperationFacts, AccountFacts DEF Counted

(* Counting operations seen keeps the ledger well formed.                  *)
LEMMA SeenOneType ==
    ASSUME RepTypeOK, NEW accounts \in SUBSET Account, UpdateSeenStatus(accounts, 1)
    PROVE  RepTypeOK'
<1>1. \A a \in accounts : reputationEntries[a].opsSeen + 1 >= MinOps
  BY ReputationAssumption DEF RepTypeOK, Entry
<1> QED
  BY <1>1, SeenType

LEMMA AddStepType ==
    ASSUME TypeInv, NEW p \in Proc, AddStep(p)
    PROVE  TypeInv'
<1> USE DEF TypeInv
<1>c. call[p] \in Calls /\ CallOK(call[p])
  BY DEF MempoolTypeOK
<1>h. call[p].pc \in AddSteps => call[p].hash \in Hash
  BY <1>c DEF CallOK
<1>1. ASSUME NEW h \in Hash, AddUserOp(p, h)
      PROVE  TypeInv'
  <2> DEFINE c == [Idle EXCEPT !.pc = "snapshot", !.hash = h]
  <2>1. c \in Calls /\ CallOK(c)
    BY IdleType DEF Idle, Calls, Steps, CallOK
  <2>2. call' = [call EXCEPT ![p] = c]
    BY <1>1 DEF AddUserOp
  <2> HIDE DEF c
  <2> QED
    BY <1>1, <2>1, <2>2, CallOnlyStep DEF AddUserOp
<1>2. ASSUME Snapshot(p)
      PROVE  TypeInv'
  <2>1. call' \in [Proc -> Calls] /\ \A q \in Proc : CallOK(call[q])'
    BY <1>2, GotoStep DEF Snapshot, At, AddSteps, MempoolTypeOK
  <2>2. LivePool \in PoolViews /\ LiveCount \in CountViews
    BY DEF LivePool, LiveCount, PoolViews, CountViews, Pools, EmptyPool, Counts, NoCounts
  <2>3. poolView' \in [Proc -> PoolViews] /\ countView' \in [Proc -> CountViews]
    BY <1>2, <2>2 DEF Snapshot, MempoolTypeOK
  <2> QED
    BY <1>2, <2>1, <2>3 DEF Snapshot, MempoolTypeOK, poolVars, repVars, RepTypeOK
<1>3. ASSUME ClassifyAsNew(p)
      PROVE  TypeInv'
  <2>1. call' \in [Proc -> Calls] /\ \A q \in Proc : CallOK(call[q])'
    BY <1>3, GotoStep DEF ClassifyAsNew, At, AddSteps, MempoolTypeOK
  <2> QED
    BY <1>3, <2>1 DEF ClassifyAsNew, MempoolTypeOK, poolVars, repVars, RepTypeOK
<1>4. ASSUME NEW old \in Hash, ClassifyAsReplacement(p, old)
      PROVE  TypeInv'
  <2> DEFINE c == [call[p] EXCEPT !.pc = "commit", !.old = old]
  <2>1. c \in Calls /\ CallOK(c)
    BY <1>4, <1>c, <1>h DEF Calls, Steps, CallOK, ClassifyAsReplacement, At, AddSteps
  <2>2. call' = [call EXCEPT ![p] = c]
    BY <1>4 DEF ClassifyAsReplacement
  <2> HIDE DEF c
  <2>3. call' \in [Proc -> Calls] /\ \A q \in Proc : CallOK(call[q])'
    BY <2>1, <2>2, CallStep DEF MempoolTypeOK
  <2>4. poolView' \in [Proc -> PoolViews] /\ countView' \in [Proc -> CountViews]
    BY <1>4, DropViewsType DEF ClassifyAsReplacement, MempoolTypeOK
  <2> QED
    BY <1>4, <2>3, <2>4 DEF ClassifyAsReplacement, MempoolTypeOK, poolVars, repVars, RepTypeOK
<1>5. ASSUME \/ \E old \in Hash : RefuseUnderpriced(p, old)
             \/ RefuseForReputation(p)
             \/ RefuseUnstaked(p)
             \/ RefuseForRoles(p)
      PROVE  TypeInv'
  BY <1>5, RefuseStep DEF RefuseUnderpriced, RefuseForReputation, RefuseUnstaked, RefuseForRoles
<1>6. ASSUME CheckEntity(p)
      PROVE  TypeInv'
  <2> DEFINE next == NextEntity(call[p].hash, call[p].place)
             c == [call[p] EXCEPT !.place = next]
  <2>1. call[p].hash \in Hash /\ call[p].place \in 1..4
    BY <1>6, <1>c, <1>h DEF CheckEntity, At, AddSteps, Calls
  <2>2. next \in 1..5
    BY <2>1, NextEntityFacts
  <2>3. CASE next = 5
    <3>1. call' \in [Proc -> Calls] /\ \A q \in Proc : CallOK(call[q])'
      BY <1>6, <2>3, GotoStep DEF CheckEntity, At, AddSteps, MempoolTypeOK
    <3> QED
      BY <1>6, <3>1 DEF CheckEntity, MempoolTypeOK, poolVars, repVars, RepTypeOK
  <2>4. CASE next # 5
    <3>1. c \in Calls /\ CallOK(c)
      BY <2>2, <2>4, <1>c DEF Calls, CallOK
    <3>2. call' = [call EXCEPT ![p] = c]
      BY <1>6, <2>4 DEF CheckEntity
    <3> HIDE DEF c
    <3> QED
      BY <1>6, <3>1, <3>2, CallOnlyStep DEF CheckEntity
  <2> QED
    BY <2>3, <2>4
<1>7. ASSUME CheckRoles(p)
      PROVE  TypeInv'
  <2>1. call' \in [Proc -> Calls] /\ \A q \in Proc : CallOK(call[q])'
    BY <1>7, GotoStep DEF CheckRoles, At, AddSteps, MempoolTypeOK
  <2>2. poolView' \in [Proc -> PoolViews] /\ countView' \in [Proc -> CountViews]
    BY <1>7, DropViewsType DEF CheckRoles, MempoolTypeOK
  <2> QED
    BY <1>7, <2>1, <2>2 DEF CheckRoles, MempoolTypeOK, poolVars, repVars, RepTypeOK
<1>8. ASSUME CommitReplacement(p)
      PROVE  TypeInv'
  <2> DEFINE rest == Without(standardPool, {call[p].old})
  <2>1. call' \in [Proc -> Calls] /\ \A q \in Proc : CallOK(call[q])'
    BY <1>8, GotoStep DEF CommitReplacement, At, AddSteps, MempoolTypeOK
  <2>2. WellFormed(rest)
    BY WithoutType DEF MempoolTypeOK, WellFormed
  <2>3. call[p].hash \in Hash
    BY <1>8, <1>h DEF CommitReplacement, At, AddSteps
  <2>4. ReplacePool(WithKey(rest, call[p].hash), rest)
    BY <1>8 DEF CommitReplacement
  <2> HIDE DEF rest
  <2>5. WellFormed(standardPool') /\ poolView' \in [Proc -> PoolViews]
    <3>1. WellFormed(WithKey(rest, call[p].hash)) /\ rest \in Pools
      BY <2>2, <2>3, WithKeyType DEF WellFormed
    <3> QED
      BY <2>4, <3>1, ReplacePoolType DEF MempoolTypeOK
  <2>6. entryStatus' \in [Hash -> EntryStatuses]
    BY <1>8, StatusSetType DEF CommitReplacement, MempoolTypeOK, EntryStatuses
  <2> QED
    BY <1>8, <2>1, <2>5, <2>6 DEF CommitReplacement, MempoolTypeOK, WellFormed, repVars, RepTypeOK
<1>9. ASSUME CommitNew(p)
      PROVE  TypeInv'
  <2> DEFINE h == call[p].hash
             counts == [a \in Address |-> IF a \in Counted(h) THEN mempoolEntryCount[a] + 1
                                          ELSE mempoolEntryCount[a]]
  <2>1. call' \in [Proc -> Calls] /\ \A q \in Proc : CallOK(call[q])'
    BY <1>9, GotoStep DEF CommitNew, At, AddSteps, MempoolTypeOK
  <2>2. h \in Hash
    BY <1>9, <1>h DEF CommitNew, At, AddSteps
  <2>3. WellFormed(standardPool') /\ poolView' \in [Proc -> PoolViews]
    <3>1. WellFormed(standardPool)
      BY DEF MempoolTypeOK, WellFormed
    <3>2. WellFormed(WithKey(standardPool, h)) /\ standardPool \in Pools
      BY <3>1, <2>2, WithKeyType DEF WellFormed
    <3>3. ReplacePool(WithKey(standardPool, h), standardPool)
      BY <1>9 DEF CommitNew
    <3> QED
      BY <3>2, <3>3, ReplacePoolType DEF MempoolTypeOK
  <2>4. mempoolEntryCount' \in Counts /\ countView' \in [Proc -> CountViews]
    <3>1. counts \in Counts
      BY DEF Counts, MempoolTypeOK
    <3>2. ReplaceCount(counts)
      BY <1>9 DEF CommitNew
    <3> QED
      BY <3>1, <3>2, ReplaceCountType DEF MempoolTypeOK
  <2>5. entryStatus' \in [Hash -> EntryStatuses]
    BY <1>9, StatusSetType DEF CommitNew, MempoolTypeOK, EntryStatuses
  <2> QED
    BY <1>9, <2>1, <2>3, <2>4, <2>5 DEF CommitNew, MempoolTypeOK, WellFormed, repVars, RepTypeOK
<1>10. ASSUME SeenSender(p)
       PROVE  TypeInv'
  <2>1. call[p].hash \in Hash
    BY <1>10, <1>h DEF SeenSender, At, AddSteps
  <2>2. RepTypeOK'
    BY <1>10, <2>1, AddressInAccount, SeenOneType DEF SeenSender, MempoolTypeOK
  <2>3. call' \in [Proc -> Calls] /\ \A q \in Proc : CallOK(call[q])'
    <3>1. CASE Helpers(p) = {}
      BY <1>10, <3>1, IdleType, CallStep DEF SeenSender, MempoolTypeOK
    <3>2. CASE Helpers(p) # {}
      BY <1>10, <3>2, GotoStep DEF SeenSender, At, AddSteps, Goto, MempoolTypeOK
    <3> QED
      BY <3>1, <3>2
  <2> QED
    BY <1>10, <2>2, <2>3 DEF SeenSender, MempoolTypeOK, poolVars
<1>11. ASSUME SeenHelpers(p)
       PROVE  TypeInv'
  <2>1. call[p].hash \in Hash
    BY <1>11, <1>h DEF SeenHelpers, At, AddSteps
  <2>2. RepTypeOK'
    BY <1>11, <2>1, AddressInAccount, SeenOneType DEF SeenHelpers, Helpers, MempoolTypeOK
  <2>3. call' \in [Proc -> Calls] /\ \A q \in Proc : CallOK(call[q])'
    BY <1>11, IdleType, CallStep DEF SeenHelpers, MempoolTypeOK
  <2> QED
    BY <1>11, <2>2, <2>3 DEF SeenHelpers, MempoolTypeOK, poolVars
<1> HIDE DEF TypeInv
<1>12. \A h \in Offers[p] : h \in Hash
  BY MempoolAssumption
<1> QED
  BY <1>1, <1>2, <1>3, <1>4, <1>5, <1>6, <1>7, <1>8, <1>9, <1>10, <1>11, <1>12 DEF AddStep

LEMMA RemoveStepType ==
    ASSUME TypeInv, NEW p \in Proc, RemoveStep(p)
    PROVE  TypeInv'
<1> USE DEF TypeInv
<1>w. WellFormed(standardPool)
  BY DEF MempoolTypeOK, WellFormed
<1>0. call[p] \in Calls /\ CallOK(call[p])
  BY DEF MempoolTypeOK
<1>i. ASSUME call' = [call EXCEPT ![p] = Idle]
      PROVE  call' \in [Proc -> Calls] /\ \A q \in Proc : CallOK(call[q])'
  BY <1>i, IdleType, CallStep DEF MempoolTypeOK
<1>1. ASSUME NEW h \in Hash, FoundForRemoval(p, h)
      PROVE  TypeInv'
  <2> DEFINE c == [Idle EXCEPT !.pc = "remove", !.old = h]
  <2>1. c \in Calls /\ CallOK(c)
    BY IdleType DEF Idle, Calls, Steps, CallOK, AddSteps
  <2>2. call' = [call EXCEPT ![p] = c]
    BY <1>1 DEF FoundForRemoval
  <2> HIDE DEF c
  <2> QED
    BY <1>1, <2>1, <2>2, CallOnlyStep DEF FoundForRemoval
<1>2. ASSUME NEW h \in Hash, RemoveByHash(p, h) \/ RemoveByUserOp(p, h)
      PROVE  TypeInv'
  <2>1. standardPool.keys \subseteq Hash
    BY DEF MempoolTypeOK, Pools
  <2> HIDE DEF TypeInv
  <2> QED
    BY <1>1, <1>2, <2>1 DEF RemoveByHash, RemoveByUserOp
<1>3. ASSUME Remove(p)
      PROVE  TypeInv'
  <2> DEFINE h == call[p].old
  <2>1. h \in Hash
    BY <1>3, <1>0 DEF Remove, At, CallOK
  <2>2. WellFormed(standardPool')
    BY <1>3, <1>w, WithoutType DEF Remove, ChangePool
  <2>3. mempoolEntryCount' \in Counts
    <3>1. UserOp[h].sender \in Address
      BY <2>1, OperationFacts
    <3>2. mempoolEntryCount \in [Address -> Nat]
      BY DEF MempoolTypeOK, Counts
    <3>3. \A n \in Nat : (IF n > 1 THEN n - 1 ELSE 0) \in Nat
      OBVIOUS
    <3> QED
      BY <1>3, <3>1, <3>2, <3>3 DEF Remove, ChangeCount, Counts
  <2>4. entryStatus' \in [Hash -> EntryStatuses]
    BY <1>3, StatusSetType DEF Remove, MempoolTypeOK, EntryStatuses
  <2> QED
    BY <1>3, <1>i, <2>2, <2>3, <2>4
       DEF Remove, ChangePool, ChangeCount, MempoolTypeOK, WellFormed, repVars, RepTypeOK
<1>4. ASSUME NEW a \in Address, BanSelect(p, a)
      PROVE  TypeInv'
  <2> DEFINE found == {h \in standardPool.keys : a \in Spelled(h)}
             some == Without(standardPool, standardPool.keys \ found)
             c == [Idle EXCEPT !.pc = "ban", !.picked = some]
  <2>1. WellFormed(some)
    BY <1>w, WithoutType
  <2>2. call' = [call EXCEPT ![p] = c]
    BY <1>4 DEF BanSelect
  <2> HIDE DEF some
  <2>3. c \in Calls /\ CallOK(c)
    BY <2>1, IdleType DEF Idle, Calls, Steps, CallOK, AddSteps, WellFormed, Pools
  <2> HIDE DEF c
  <2> QED
    BY <1>4, <2>2, <2>3, CallOnlyStep DEF BanSelect
<1>5. ASSUME BanRemove(p)
      PROVE  TypeInv'
  <2>1. WellFormed(standardPool')
    BY <1>5, <1>w, WithoutType DEF BanRemove, ChangePool
  <2>2. mempoolEntryCount' \in Counts
    BY <1>5 DEF BanRemove, ChangeCount, MempoolTypeOK, Counts
  <2>3. entryStatus' \in [Hash -> EntryStatuses]
    BY <1>5, StatusSetType DEF BanRemove, MempoolTypeOK, EntryStatuses
  <2> QED
    BY <1>5, <1>i, <2>1, <2>2, <2>3
       DEF BanRemove, ChangePool, ChangeCount, MempoolTypeOK, WellFormed, repVars, RepTypeOK
<1>6. ASSUME ClearState(p)
      PROVE  TypeInv'
  <2>1. WellFormed(standardPool') /\ poolView' \in [Proc -> PoolViews]
    BY <1>6, EmptyPoolType, ReplacePoolType DEF ClearState, MempoolTypeOK
  <2>2. NoCounts \in Counts
    BY DEF NoCounts, Counts
  <2>3. mempoolEntryCount' \in Counts /\ countView' \in [Proc -> CountViews]
    BY <1>6, <2>2, ReplaceCountType DEF ClearState, MempoolTypeOK
  <2>4. entryStatus' \in [Hash -> EntryStatuses]
    BY <1>6, StatusSetType DEF ClearState, MempoolTypeOK, EntryStatuses
  <2> QED
    BY <1>6, <2>1, <2>3, <2>4 DEF ClearState, MempoolTypeOK, WellFormed, repVars, RepTypeOK
<1>7. ASSUME ClearLedger(p)
      PROVE  TypeInv'
  BY <1>7, ClearedType DEF ClearLedger, MempoolTypeOK, mempoolVars, poolVars
<1> HIDE DEF TypeInv
<1> QED
  BY <1>2, <1>3, <1>4, <1>5, <1>6, <1>7 DEF RemoveStep

LEMMA BundleStepType ==
    ASSUME TypeInv, NEW p \in Proc, BundleStep(p)
    PROVE  TypeInv'
<1> USE DEF TypeInv
<1>w. WellFormed(standardPool)
  BY DEF MempoolTypeOK, WellFormed
<1>0. call[p] \in Calls /\ CallOK(call[p])
  BY DEF MempoolTypeOK
<1>1. ASSUME NEW function, NEW hashes, Pick(p, function, hashes)
      PROVE  TypeInv'
  <2> DEFINE some == Without(standardPool, standardPool.keys \ hashes)
             c == [Idle EXCEPT !.pc = "mark", !.picked = some]
  <2>1. WellFormed(some)
    BY <1>w, WithoutType
  <2>2. call' = [call EXCEPT ![p] = c]
    BY <1>1 DEF Pick
  <2> HIDE DEF some
  <2>3. c \in Calls /\ CallOK(c)
    BY <2>1, IdleType DEF Idle, Calls, Steps, CallOK, AddSteps, WellFormed
  <2> HIDE DEF c
  <2> QED
    BY <1>1, <2>2, <2>3, CallOnlyStep DEF Pick
<1>2. ASSUME Mark(p)
      PROVE  TypeInv'
  <2> DEFINE some == IF call[p].picked.keys \ standardPool.keys = {} THEN call[p].picked
                     ELSE EmptyPool
             c == [Idle EXCEPT !.picked = some]
  <2>1. some \in Pools
    BY <1>0, EmptyPoolType DEF Calls, WellFormed
  <2>2. call' = [call EXCEPT ![p] = c]
    BY <1>2 DEF Mark
  <2> HIDE DEF some
  <2>3. c \in Calls /\ CallOK(c)
    BY <2>1, IdleType DEF Idle, Calls, Steps, CallOK, AddSteps
  <2> HIDE DEF c
  <2>4. call' \in [Proc -> Calls] /\ \A q \in Proc : CallOK(call[q])'
    BY <2>2, <2>3, CallStep DEF MempoolTypeOK
  <2>5. entryStatus' \in [Hash -> EntryStatuses]
    BY <1>2, StatusSetType DEF Mark, MempoolTypeOK, EntryStatuses
  <2> QED
    BY <1>2, <2>4, <2>5 DEF Mark, MempoolTypeOK, repVars, RepTypeOK
<1>3. ASSUME NEW h \in Hash, NEW status \in {"pending", "failed"}, ReadEntry(p, h, status)
      PROVE  TypeInv'
  <2> DEFINE c == [Idle EXCEPT !.pc = "setStatus", !.old = h, !.status = status]
  <2>1. c \in Calls /\ CallOK(c)
    BY IdleType DEF Idle, Calls, Steps, CallOK, AddSteps, EntryStatuses
  <2>2. call' = [call EXCEPT ![p] = c]
    BY <1>3 DEF ReadEntry
  <2> HIDE DEF c
  <2> QED
    BY <1>3, <2>1, <2>2, CallOnlyStep DEF ReadEntry
<1>4. ASSUME SetStatus(p)
      PROVE  TypeInv'
  <2> DEFINE h == call[p].old
  <2>1. h \in Hash
    BY <1>4, <1>0 DEF SetStatus, At, CallOK
  <2>2. call' \in [Proc -> Calls] /\ \A q \in Proc : CallOK(call[q])'
    BY <1>4, IdleType, CallStep DEF SetStatus, MempoolTypeOK
  <2>3. WellFormed(standardPool') /\ poolView' \in [Proc -> PoolViews]
    <3>1. WellFormed(WithKey(standardPool, h)) /\ standardPool \in Pools
      BY <1>w, <2>1, WithKeyType DEF WellFormed
    <3>2. ReplacePool(WithKey(standardPool, h), standardPool)
      BY <1>4 DEF SetStatus
    <3> QED
      BY <3>1, <3>2, ReplacePoolType DEF MempoolTypeOK
  <2>4. entryStatus' \in [Hash -> EntryStatuses]
    <3>1. call[p].status \in EntryStatuses
      BY <1>0 DEF Calls
    <3> QED
      BY <1>4, <3>1, StatusSetType DEF SetStatus, MempoolTypeOK
  <2> QED
    BY <1>4, <2>2, <2>3, <2>4 DEF SetStatus, MempoolTypeOK, WellFormed, repVars, RepTypeOK
<1> HIDE DEF TypeInv
<1> QED
  BY <1>1, <1>2, <1>3, <1>4 DEF BundleStep, GetNextPending, GetAllPending

LEMMA OtherStepType ==
    ASSUME TypeInv, OtherReputationChange
    PROVE  TypeInv'
<1>1. RepTypeOK
  BY DEF TypeInv, MempoolTypeOK
<1>2. Reported \subseteq Account
  BY MempoolAssumption
<1>3. ASSUME NEW a \in Account, reputationEntries[a].opsSeen > MinOps, UpdateSeenStatus({a}, -1)
      PROVE  RepTypeOK'
  <2>1. reputationEntries[a].opsSeen + (-1) >= MinOps
    BY <1>1, <1>3, ReputationAssumption DEF RepTypeOK, Entry
  <2> QED
    BY <1>1, <1>3, <2>1, SeenType
<1>4. RepTypeOK'
  BY <1>1, <1>2, <1>3, CrashedType DEF OtherReputationChange
<1> QED
  BY <1>4 DEF TypeInv, OtherReputationChange, MempoolTypeOK, mempoolVars, poolVars

LEMMA TypeInvInit == MempoolInit => TypeInv
<1> SUFFICES ASSUME MempoolInit
             PROVE  TypeInv
  OBVIOUS
<1>1. WellFormed(standardPool)
  BY EmptyPoolType DEF MempoolInit
<1>2. \A p \in Proc : call[p] \in Calls /\ CallOK(call[p])
  BY IdleType DEF MempoolInit
<1>3. NoPool \in PoolViews /\ NoCount \in CountViews /\ NoCounts \in Counts
  BY DEF NoPool, NoCount, PoolViews, CountViews, Pools, EmptyPool, Counts, NoCounts
<1>4. RepTypeOK
  BY ReputationAssumption, MempoolAssumption DEF MempoolInit, RepTypeOK, Entry, Unknown
<1> QED
  BY <1>1, <1>2, <1>3, <1>4
     DEF TypeInv, MempoolTypeOK, MempoolInit, WellFormed, EntryStatuses

LEMMA TypeInvStep == TypeInv /\ [MempoolNext]_vars => TypeInv'
<1> SUFFICES ASSUME TypeInv, [MempoolNext]_vars
             PROVE  TypeInv'
  OBVIOUS
<1>1. CASE UNCHANGED vars
  BY <1>1 DEF TypeInv, MempoolTypeOK, CallOK, vars, mempoolVars, poolVars, repVars, RepTypeOK
<1> QED
  BY <1>1, AddStepType, RemoveStepType, BundleStepType, OtherStepType DEF MempoolNext

LEMMA TypeInvHolds == MempoolSpec => []TypeInv
BY TypeInvInit, TypeInvStep, PTL DEF MempoolSpec

(* Whatever calls are interleaved, the pool, its counts, the ledger and    *)
(* the objects the calls hold stay well formed.                            *)
THEOREM MempoolTypeCorrect == MempoolSpec => []MempoolTypeOK
<1>1. TypeInv => MempoolTypeOK
  BY DEF TypeInv
<1> QED
  BY <1>1, TypeInvHolds, PTL

-----------------------------------------------------------------------------
(* What a step may do to the pool.                                         *)

LEMMA PoolStep ==
    ASSUME TypeInv, [MempoolNext]_vars
    PROVE  \/ standardPool' = standardPool
           \/ standardPool' = EmptyPool
           \/ \E gone : standardPool' = Without(standardPool, gone)
           \/ \E p \in Proc : /\ CommitNew(p) \/ SetStatus(p)
                              /\ \E h \in Hash : standardPool' = WithKey(standardPool, h)
           \/ \E p \in Proc : /\ CommitReplacement(p)
                              /\ call[p].hash \in Hash
                              /\ standardPool' = WithKey(Without(standardPool, {call[p].old}),
                                                         call[p].hash)
<1>0. \A p \in Proc : call[p] \in Calls /\ CallOK(call[p])
  BY DEF TypeInv, MempoolTypeOK
<1>1. CASE UNCHANGED vars
  BY <1>1 DEF vars, mempoolVars, poolVars
<1>2. ASSUME NEW p \in Proc, AddStep(p)
      PROVE  \/ standardPool' = standardPool
             \/ CommitNew(p) /\ \E h \in Hash : standardPool' = WithKey(standardPool, h)
             \/ /\ CommitReplacement(p)
                /\ call[p].hash \in Hash
                /\ standardPool' = WithKey(Without(standardPool, {call[p].old}), call[p].hash)
  <2>1. At(p, "commit") => call[p].hash \in Hash
    BY <1>0 DEF CallOK, At, AddSteps
  <2>2. CASE CommitNew(p)
    BY <2>1, <2>2 DEF CommitNew, ReplacePool
  <2>3. CASE CommitReplacement(p)
    BY <2>1, <2>3 DEF CommitReplacement, ReplacePool
  <2>4. CASE ~CommitNew(p) /\ ~CommitReplacement(p)
    BY <1>2, <2>4 DEF AddStep, AddUserOp, Snapshot, ClassifyAsNew, ClassifyAsReplacement,
       RefuseUnderpriced, Refuse, CheckEntity, RefuseForReputation, RefuseUnstaked, CheckRoles,
       RefuseForRoles, SeenSender, SeenHelpers, poolVars
  <2> QED
    BY <2>2, <2>3, <2>4
<1>3. ASSUME NEW p \in Proc, RemoveStep(p)
      PROVE  \/ standardPool' = standardPool
             \/ standardPool' = EmptyPool
             \/ \E gone : standardPool' = Without(standardPool, gone)
  BY <1>3 DEF RemoveStep, RemoveByHash, RemoveByUserOp, FoundForRemoval, Remove, BanSelect,
     BanRemove, ClearState, ClearLedger, ChangePool, ReplacePool, poolVars, mempoolVars
<1>4. ASSUME NEW p \in Proc, BundleStep(p)
      PROVE  \/ standardPool' = standardPool
             \/ SetStatus(p) /\ \E h \in Hash : standardPool' = WithKey(standardPool, h)
  <2>1. CASE SetStatus(p)
    BY <1>0, <2>1 DEF SetStatus, ReplacePool, At, CallOK
  <2>2. CASE ~SetStatus(p)
    BY <1>4, <2>2 DEF BundleStep, GetNextPending, GetAllPending, Pick, Mark, ReadEntry, poolVars
  <2> QED
    BY <2>1, <2>2
<1>5. CASE OtherReputationChange
  BY <1>5 DEF OtherReputationChange, mempoolVars, poolVars
<1> QED
  BY <1>1, <1>2, <1>3, <1>4, <1>5 DEF MempoolNext

-----------------------------------------------------------------------------
(* How the call of one process goes on while it may still write an entry.  *)

Writing == {"snapshot", "classify", "check", "roles", "commit", "setStatus"}

LEMMA CallProgress ==
    ASSUME TypeInv, [MempoolNext]_vars, NEW p \in Proc, call'[p].pc \in Writing
    PROVE  \/ call'[p] = call[p]
           \/ \E h \in Hash : AddUserOp(p, h)
           \/ Snapshot(p)
           \/ ClassifyAsNew(p)
           \/ \E old \in Hash : ClassifyAsReplacement(p, old)
           \/ CheckEntity(p)
           \/ CheckRoles(p)
           \/ \E h \in Hash, status \in {"pending", "failed"} : ReadEntry(p, h, status)
<1>0. call \in [Proc -> Calls] /\ \A h \in Offers[p] : h \in Hash
  BY MempoolAssumption DEF TypeInv, MempoolTypeOK
<1>i. Idle.pc \notin Writing /\ \A pool : [Idle EXCEPT !.picked = pool].pc \notin Writing
  BY DEF Idle, Writing
<1>1. CASE UNCHANGED call
  BY <1>1
<1>2. ASSUME NEW q \in Proc, q # p, AddStep(q)
      PROVE  call'[p] = call[p]
  BY <1>0, <1>2 DEF AddStep, AddUserOp, Snapshot, Goto, ClassifyAsNew, ClassifyAsReplacement,
     RefuseUnderpriced, Refuse, CheckEntity, RefuseForReputation, RefuseUnstaked, CheckRoles,
     RefuseForRoles, SeenSender, SeenHelpers, CommitNew, CommitReplacement
<1>3. ASSUME NEW q \in Proc, q # p, RemoveStep(q)
      PROVE  call'[p] = call[p]
  BY <1>0, <1>3 DEF RemoveStep, RemoveByHash, RemoveByUserOp, FoundForRemoval, Remove, BanSelect,
     BanRemove, ClearState, ClearLedger, mempoolVars
<1>4. ASSUME NEW q \in Proc, q # p, BundleStep(q)
      PROVE  call'[p] = call[p]
  BY <1>0, <1>4 DEF BundleStep, GetNextPending, GetAllPending, Pick, Mark, ReadEntry, SetStatus
<1>5. ASSUME AddStep(p),
             CommitNew(p) \/ CommitReplacement(p) \/ SeenSender(p) \/ SeenHelpers(p)
      PROVE  call'[p].pc \notin Writing
  <2>1. CASE CommitNew(p) \/ CommitReplacement(p)
    BY <1>0, <2>1 DEF CommitNew, CommitReplacement, Goto, Writing, Calls
  <2>2. CASE SeenSender(p) \/ SeenHelpers(p)
    BY <1>0, <1>i, <2>2 DEF SeenSender, SeenHelpers, Writing, Calls
  <2> QED
    BY <1>5, <2>1, <2>2
<1>6. ASSUME \/ \E old \in Hash : RefuseUnderpriced(p, old)
             \/ RefuseForReputation(p) \/ RefuseUnstaked(p) \/ RefuseForRoles(p)
      PROVE  call'[p].pc \notin Writing
  BY <1>0, <1>i, <1>6
     DEF RefuseUnderpriced, RefuseForReputation, RefuseUnstaked, RefuseForRoles, Refuse
<1>7. ASSUME RemoveStep(p)
      PROVE  call'[p].pc \notin Writing \/ call'[p] = call[p]
  <2>1. ASSUME NEW h, FoundForRemoval(p, h)
        PROVE  call'[p].pc \notin Writing
    BY <1>0, <2>1 DEF FoundForRemoval, Idle, Writing
  <2>2. ASSUME NEW a \in Address, BanSelect(p, a)
        PROVE  call'[p].pc \notin Writing
    BY <1>0, <2>2 DEF BanSelect, Idle, Writing
  <2>3. CASE Remove(p) \/ BanRemove(p) \/ ClearState(p) \/ ClearLedger(p)
    BY <1>0, <1>i, <2>3 DEF Remove, BanRemove, ClearState, ClearLedger, mempoolVars
  <2> QED
    BY <1>7, <2>1, <2>2, <2>3 DEF RemoveStep, RemoveByHash, RemoveByUserOp
<1>8. ASSUME BundleStep(p), \A h \in Hash, status \in {"pending", "failed"} : ~ReadEntry(p, h, status)
      PROVE  call'[p].pc \notin Writing
  <2>1. ASSUME NEW function, NEW hashes, Pick(p, function, hashes)
        PROVE  call'[p].pc \notin Writing
    BY <1>0, <2>1 DEF Pick, Idle, Writing
  <2>2. CASE Mark(p) \/ SetStatus(p)
    BY <1>0, <1>i, <2>2 DEF Mark, SetStatus
  <2> QED
    BY <1>8, <2>1, <2>2 DEF BundleStep, GetNextPending, GetAllPending
<1>9. CASE OtherReputationChange
  BY <1>9 DEF OtherReputationChange, mempoolVars
<1>10. CASE AddStep(p)
  BY <1>0, <1>5, <1>6, <1>10 DEF AddStep
<1>11. CASE \E q \in Proc \ {p} : AddStep(q) \/ RemoveStep(q) \/ BundleStep(q)
  BY <1>2, <1>3, <1>4, <1>11
<1>12. CASE UNCHANGED vars
  BY <1>12 DEF vars, mempoolVars
<1> QED
  BY <1>7, <1>8, <1>9, <1>10, <1>11, <1>12 DEF MempoolNext

-----------------------------------------------------------------------------
(* A call that will replace an entry has compared the fees with it.        *)
ReplacementInv ==
    \A p \in Proc :
        LET h == call[p].hash
            old == call[p].old
        IN  /\ call[p].pc \in {"snapshot", "classify", "check", "roles"} => old = None
            /\ call[p].pc = "commit" /\ old # None =>
                  old \in Hash /\ SameSlot(old, h) /\ PaysMore(h, old)

LEMMA ReplacementInvStep == TypeInv /\ ReplacementInv /\ [MempoolNext]_vars => ReplacementInv'
<1> SUFFICES ASSUME TypeInv, ReplacementInv, [MempoolNext]_vars, NEW p \in Proc
             PROVE  LET h == call'[p].hash
                        old == call'[p].old
                    IN  /\ call'[p].pc \in {"snapshot", "classify", "check", "roles"} => old = None
                        /\ call'[p].pc = "commit" /\ old # None =>
                              old \in Hash /\ SameSlot(old, h) /\ PaysMore(h, old)
  BY DEF ReplacementInv, SameSlot, SenderOf, PaysMore, Raises
<1>0. call \in [Proc -> Calls]
  BY DEF TypeInv, MempoolTypeOK
<1>1. CASE call'[p].pc \notin Writing
  BY <1>1 DEF Writing
<1>2. CASE call'[p] = call[p]
  BY <1>2 DEF ReplacementInv
<1>3. CASE \E h \in Hash : AddUserOp(p, h)
  BY <1>0, <1>3 DEF AddUserOp, Idle, Calls
<1>4. CASE Snapshot(p) \/ ClassifyAsNew(p) \/ CheckRoles(p)
  BY <1>0, <1>4 DEF Snapshot, ClassifyAsNew, CheckRoles, Goto, At, ReplacementInv, Calls
<1>5. CASE CheckEntity(p)
  BY <1>0, <1>5 DEF CheckEntity, Goto, At, ReplacementInv, Calls
<1>6. ASSUME NEW old \in Hash, ClassifyAsReplacement(p, old)
      PROVE  /\ call'[p].pc = "commit" /\ call'[p].old = old /\ call'[p].hash = call[p].hash
             /\ SameSlot(old, call[p].hash) /\ PaysMore(call[p].hash, old)
  <2>1. call'[p].pc = "commit" /\ call'[p].old = old /\ call'[p].hash = call[p].hash
    BY <1>0, <1>6 DEF ClassifyAsReplacement, Calls
  <2>2. SameSlot(old, call[p].hash) /\ PaysMore(call[p].hash, old)
    BY <1>6 DEF ClassifyAsReplacement, FoundOld, FirstMatch, Matches
  <2> QED
    BY <2>1, <2>2
<1>7. CASE \E h \in Hash, status \in {"pending", "failed"} : ReadEntry(p, h, status)
  BY <1>0, <1>7 DEF ReadEntry, Idle, Calls
<1> QED
  BY <1>1, <1>2, <1>3, <1>4, <1>5, <1>6, <1>7, CallProgress

LEMMA ReplacementInvHolds == MempoolSpec => []ReplacementInv
<1>1. MempoolInit => ReplacementInv
  BY DEF MempoolInit, ReplacementInv, Idle
<1> QED
  BY <1>1, ReplacementInvStep, TypeInvHolds, PTL DEF MempoolSpec

(* However late an accepted replacement is written, and whatever other     *)
(* calls did in between, an operation that leaves the pool in the step     *)
(* another one enters has the same sender and nonce and is outbid by ten   *)
(* percent in both fees.                                                   *)
THEOREM MempoolReplacementPaysMore == MempoolSpec => ReplacementPaysMore
<1>1. TypeInv /\ ReplacementInv /\ [MempoolNext]_vars =>
        [\A g \in standardPool.keys \ standardPool'.keys,
            h \in standardPool'.keys \ standardPool.keys :
              SameSlot(g, h) /\ PaysMore(h, g)]_vars
  <2> SUFFICES ASSUME TypeInv, ReplacementInv, [MempoolNext]_vars,
                      NEW g \in standardPool.keys \ standardPool'.keys,
                      NEW h \in standardPool'.keys \ standardPool.keys
               PROVE  SameSlot(g, h) /\ PaysMore(h, g)
    OBVIOUS
  <2>1. WellFormed(standardPool)
    BY DEF TypeInv, MempoolTypeOK, WellFormed
  <2>2. standardPool' # EmptyPool /\ standardPool' # standardPool
    BY DEF EmptyPool
  <2>3. \A gone : standardPool' # Without(standardPool, gone)
    BY <2>1, WithoutType
  <2>4. \A k \in Hash : standardPool' # WithKey(standardPool, k)
    BY <2>1, WithKeyType
  <2>5. PICK p \in Proc : /\ CommitReplacement(p)
                          /\ call[p].hash \in Hash
                          /\ standardPool' = WithKey(Without(standardPool, {call[p].old}),
                                                     call[p].hash)
    BY <2>2, <2>3, <2>4, PoolStep
  <2>6. standardPool'.keys = (standardPool.keys \ {call[p].old}) \cup {call[p].hash}
    BY <2>1, <2>5, WithoutType, WithKeyType
  <2>7. g = call[p].old /\ h = call[p].hash
    BY <2>6
  <2>8. call[p].pc = "commit" /\ call[p].old # None
    BY <2>5 DEF CommitReplacement, At
  <2> QED
    BY <2>7, <2>8 DEF ReplacementInv
<1> QED
  BY <1>1, TypeInvHolds, ReplacementInvHolds, PTL DEF MempoolSpec, ReplacementPaysMore

-----------------------------------------------------------------------------
(* No call of the mempool's callers writes the lists.                      *)
LEMMA ListsStay == [MempoolNext]_vars => UNCHANGED <<whiteList, blackList>>
<1> SUFFICES ASSUME [MempoolNext]_vars
             PROVE  UNCHANGED <<whiteList, blackList>>
  OBVIOUS
<1>1. CASE UNCHANGED vars
  BY <1>1 DEF vars, repVars
<1>2. ASSUME NEW p \in Proc, AddStep(p)
      PROVE  UNCHANGED <<whiteList, blackList>>
  BY <1>2 DEF AddStep, AddUserOp, Snapshot, ClassifyAsNew, ClassifyAsReplacement,
     RefuseUnderpriced, Refuse, CheckEntity, RefuseForReputation, RefuseUnstaked, CheckRoles,
     RefuseForRoles, SeenSender, SeenHelpers, CommitNew, CommitReplacement, UpdateSeenStatus, repVars
<1>3. ASSUME NEW p \in Proc, RemoveStep(p)
      PROVE  UNCHANGED <<whiteList, blackList>>
  BY <1>3 DEF RemoveStep, RemoveByHash, RemoveByUserOp, FoundForRemoval, Remove, BanSelect,
     BanRemove, ClearState, ClearLedger, ClearReputation, repVars
<1>4. ASSUME NEW p \in Proc, BundleStep(p)
      PROVE  UNCHANGED <<whiteList, blackList>>
  BY <1>4 DEF BundleStep, GetNextPending, GetAllPending, Pick, Mark, ReadEntry, SetStatus, repVars
<1>5. CASE OtherReputationChange
  BY <1>5 DEF OtherReputationChange, CrashedHandleOps, UpdateSeenStatus
<1> QED
  BY <1>1, <1>2, <1>3, <1>4, <1>5 DEF MempoolNext

(* An entity of h that the lists let pass.                                 *)
Passes(h, i) == Entity(h, i) # None => ~BlackListed(Entity(h, i))

SenderPasses(h) == ~BlackListed(UserOp[h].sender)

(* What a call has found out about the operation it is going to add.       *)
ListsInv ==
    \A p \in Proc :
        LET h == call[p].hash
            place == call[p].place
        IN  /\ call[p].pc \in {"snapshot", "classify"} => place = 1
            /\ call[p].pc = "check" => \A i \in 1..4 : i < place => Passes(h, i)
            /\ call[p].pc = "roles" => \A i \in 1..4 : Passes(h, i)
            /\ call[p].pc = "commit" /\ call[p].old = None => \A i \in 1..4 : Passes(h, i)

LEMMA ListsInvStep == TypeInv /\ ReplacementInv /\ ListsInv /\ [MempoolNext]_vars => ListsInv'
<1> SUFFICES ASSUME TypeInv, ReplacementInv, ListsInv, [MempoolNext]_vars, NEW p \in Proc
             PROVE  LET h == call'[p].hash
                        place == call'[p].place
                    IN  /\ call'[p].pc \in {"snapshot", "classify"} => place = 1
                        /\ call'[p].pc = "check" => \A i \in 1..4 : i < place => Passes(h, i)
                        /\ call'[p].pc = "roles" => \A i \in 1..4 : Passes(h, i)
                        /\ call'[p].pc = "commit" /\ call'[p].old = None =>
                              \A i \in 1..4 : Passes(h, i)
  BY ListsStay DEF ListsInv, Passes, BlackListed, Entity
<1>0. call \in [Proc -> Calls]
  BY DEF TypeInv, MempoolTypeOK
<1>1. CASE call'[p].pc \notin Writing
  BY <1>1 DEF Writing
<1>2. CASE call'[p] = call[p]
  BY <1>2 DEF ListsInv
<1>3. CASE \E h \in Hash : AddUserOp(p, h)
  BY <1>0, <1>3 DEF AddUserOp, Idle, Calls
<1>4. CASE Snapshot(p)
  BY <1>0, <1>4 DEF Snapshot, Goto, At, ListsInv, Calls
<1>5. CASE ClassifyAsNew(p)
  BY <1>0, <1>5 DEF ClassifyAsNew, Goto, At, ListsInv, Calls
<1>6. CASE \E old \in Hash : ClassifyAsReplacement(p, old)
  BY <1>0, <1>6, UserOpAssumption DEF ClassifyAsReplacement, Calls
<1>7. CASE CheckEntity(p)
  <2> DEFINE h == call[p].hash
             place == call[p].place
             next == NextEntity(h, place)
  <2>1. call[p].pc = "check" /\ h \in Hash /\ place \in 1..4
    BY <1>0, <1>7 DEF CheckEntity, At, TypeInv, CallOK, AddSteps, Calls
  <2>2. Passes(h, place)
    BY <1>7 DEF CheckEntity, ReputationRefuses, GetStatus, Checked, Passes, BlackListed
  <2>3. /\ next \in (place + 1)..5
        /\ \A i \in (place + 1)..(next - 1) : Entity(h, i) = None
    BY <2>1, NextEntityFacts
  <2> HIDE DEF next
  <2>4. \A i \in 1..4 : i < next => Passes(h, i)
    <3> TAKE i \in 1..4
    <3>1. CASE i < place
      BY <2>1, <3>1 DEF ListsInv
    <3>2. CASE i = place
      BY <2>2, <3>2
    <3>3. CASE i > place
      BY <2>1, <2>3, <3>3 DEF Passes
    <3> QED
      BY <2>1, <3>1, <3>2, <3>3
  <2>5. CASE next = 5
    <3>1. call'[p].pc = "roles" /\ call'[p].hash = h
      BY <1>0, <1>7, <2>5 DEF CheckEntity, Goto, Calls, next
    <3> QED
      BY <2>4, <2>5, <3>1
  <2>6. CASE next # 5
    <3>1. call'[p].pc = "check" /\ call'[p].hash = h /\ call'[p].place = next
      BY <1>0, <1>7, <2>1, <2>6 DEF CheckEntity, Calls, next
    <3> QED
      BY <2>4, <3>1
  <2> QED
    BY <2>5, <2>6
<1>8. CASE CheckRoles(p)
  BY <1>0, <1>8 DEF CheckRoles, Goto, At, ListsInv, Calls
<1>9. CASE \E h \in Hash, status \in {"pending", "failed"} : ReadEntry(p, h, status)
  BY <1>0, <1>9 DEF ReadEntry, Idle, Calls
<1> QED
  BY <1>1, <1>2, <1>3, <1>4, <1>5, <1>6, <1>7, <1>8, <1>9, CallProgress

LEMMA ListsInvHolds == MempoolSpec => []ListsInv
<1>1. MempoolInit => ListsInv
  BY DEF MempoolInit, ListsInv, Idle
<1> QED
  BY <1>1, ListsInvStep, TypeInvHolds, ReplacementInvHolds, PTL DEF MempoolSpec

(* Every new entry has had all its entities looked up in the lists, each   *)
(* in a step of its own, and the lists still say the same of them.         *)
THEOREM MempoolNewEntriesPassTheLists == MempoolSpec => NewEntriesPassTheLists
<1>1. TypeInv /\ ListsInv /\ [MempoolNext]_vars =>
        [\A p \in Proc : CommitNew(p) =>
           \A i \in 1..4 : Entity(call[p].hash, i) # None
                              => ~BlackListed(Entity(call[p].hash, i))]_vars
  BY DEF CommitNew, At, ListsInv, Passes
<1> QED
  BY <1>1, TypeInvHolds, ListsInvHolds, PTL DEF MempoolSpec, NewEntriesPassTheLists

-----------------------------------------------------------------------------
(* The senders of all entries that exist anywhere: in the pool, in a pool  *)
(* object that was left behind, in a status update under way.              *)
SendersInv ==
    /\ NoBlackListedSender
    /\ \A p \in Proc :
         /\ \A h \in poolView[p].pool.keys : SenderPasses(h)
         /\ call[p].pc = "setStatus" => SenderPasses(call[p].old)
         /\ call[p].pc = "commit" => SenderPasses(call[p].hash)

(* A pool object that a call holds lists entries it listed before, or      *)
(* entries of the pool.                                                    *)
LEMMA ViewStep ==
    ASSUME TypeInv, [MempoolNext]_vars, NEW p \in Proc
    PROVE  poolView'[p].pool.keys \subseteq poolView[p].pool.keys \cup standardPool.keys
<1>0. poolView \in [Proc -> PoolViews] /\ WellFormed(standardPool)
  BY DEF TypeInv, MempoolTypeOK, WellFormed
<1>1. CASE UNCHANGED poolView
  BY <1>1
<1>2. ASSUME NEW q \in Proc, DropViews(q)
      PROVE  poolView'[p].pool.keys \subseteq poolView[p].pool.keys
  BY <1>0, <1>2 DEF DropViews, NoPool, EmptyPool
<1>3. ASSUME NEW copy, NEW leftBehind, leftBehind.keys \subseteq standardPool.keys,
             ReplacePool(copy, leftBehind)
      PROVE  poolView'[p].pool.keys \subseteq poolView[p].pool.keys \cup standardPool.keys
  BY <1>0, <1>3 DEF ReplacePool
<1>4. ASSUME NEW q \in Proc, AddStep(q)
      PROVE  poolView'[p].pool.keys \subseteq poolView[p].pool.keys \cup standardPool.keys
  <2>1. CASE CommitReplacement(q)
    <3>1. Without(standardPool, {call[q].old}).keys \subseteq standardPool.keys
      BY <1>0, WithoutType
    <3> QED
      BY <1>3, <2>1, <3>1 DEF CommitReplacement
  <2>2. CASE CommitNew(q)
    BY <1>3, <2>2 DEF CommitNew
  <2>3. CASE Snapshot(q)
    BY <1>0, <2>3 DEF Snapshot, LivePool, EmptyPool
  <2>4. CASE UNCHANGED poolView \/ DropViews(q)
    BY <1>2, <2>4
  <2> QED
    BY <1>4, <2>1, <2>2, <2>3, <2>4 DEF AddStep, AddUserOp, ClassifyAsNew, ClassifyAsReplacement,
       RefuseUnderpriced, Refuse, CheckEntity, RefuseForReputation, RefuseUnstaked, CheckRoles,
       RefuseForRoles, SeenSender, SeenHelpers
<1>5. ASSUME NEW q \in Proc, RemoveStep(q)
      PROVE  poolView'[p].pool.keys \subseteq poolView[p].pool.keys \cup standardPool.keys
  <2>1. CASE ClearState(q)
    BY <1>3, <2>1 DEF ClearState
  <2>2. CASE UNCHANGED poolView
    BY <2>2
  <2> QED
    BY <1>5, <2>1, <2>2 DEF RemoveStep, RemoveByHash, RemoveByUserOp, FoundForRemoval, Remove,
       BanSelect, BanRemove, ChangePool, ClearLedger, mempoolVars
<1>6. ASSUME NEW q \in Proc, BundleStep(q)
      PROVE  poolView'[p].pool.keys \subseteq poolView[p].pool.keys \cup standardPool.keys
  <2>1. CASE SetStatus(q)
    BY <1>3, <2>1 DEF SetStatus
  <2>2. CASE UNCHANGED poolView
    BY <2>2
  <2> QED
    BY <1>6, <2>1, <2>2 DEF BundleStep, GetNextPending, GetAllPending, Pick, Mark, ReadEntry
<1>7. CASE UNCHANGED vars \/ OtherReputationChange
  BY <1>1, <1>7 DEF vars, mempoolVars, OtherReputationChange
<1> QED
  BY <1>4, <1>5, <1>6, <1>7 DEF MempoolNext

(* What a call is about to write has a sender that passes.                 *)
LEMMA WrittenSenderPasses ==
    ASSUME TypeInv, ListsInv, SendersInv, [MempoolNext]_vars, NEW p \in Proc
    PROVE  /\ call'[p].pc = "setStatus" => SenderPasses(call'[p].old)
           /\ call'[p].pc = "commit" => SenderPasses(call'[p].hash)
<1>0. call \in [Proc -> Calls]
  BY DEF TypeInv, MempoolTypeOK
<1>1. CASE call'[p].pc \notin {"setStatus", "commit"}
  BY <1>1
<1>2. CASE call'[p] = call[p]
  BY <1>2 DEF SendersInv
<1>3. ASSUME NEW old \in Hash, ClassifyAsReplacement(p, old)
      PROVE  call'[p].pc = "commit" /\ SenderPasses(call'[p].hash)
  <2>1. call'[p].pc = "commit" /\ call'[p].hash = call[p].hash
    BY <1>0, <1>3 DEF ClassifyAsReplacement, Calls
  <2>2. old \in PoolSeen(p).keys /\ SenderOf(old) = SenderOf(call[p].hash)
    BY <1>3 DEF ClassifyAsReplacement, FoundOld, FirstMatch, Matches, SameSlot
  <2>3. SenderPasses(old)
    BY <2>2 DEF PoolSeen, SendersInv, NoBlackListedSender, SenderPasses
  <2> QED
    BY <2>1, <2>2, <2>3 DEF SenderPasses, BlackListed, SenderOf
<1>4. CASE CheckRoles(p)
  <2>1. call'[p].pc = "commit" /\ call[p].pc = "roles" /\ call'[p].hash = call[p].hash
    BY <1>0, <1>4 DEF CheckRoles, Goto, At, Calls
  <2>2. call[p].hash \in Hash
    BY <2>1 DEF TypeInv, CallOK, AddSteps
  <2>3. Entity(call[p].hash, 1) = UserOp[call[p].hash].sender
    BY DEF Entity
  <2>4. UserOp[call[p].hash].sender # None
    BY <2>2, OperationFacts, AddressAssumption
  <2>5. Passes(call[p].hash, 1)
    BY <2>1 DEF ListsInv
  <2> QED
    BY <2>1, <2>3, <2>4, <2>5 DEF Passes, SenderPasses
<1>5. ASSUME NEW h \in Hash, NEW status \in {"pending", "failed"}, ReadEntry(p, h, status)
      PROVE  call'[p].pc = "setStatus" /\ SenderPasses(call'[p].old)
  <2>1. call'[p].pc = "setStatus" /\ call'[p].old = h
    BY <1>0, <1>5 DEF ReadEntry, Idle
  <2> QED
    BY <1>5, <2>1 DEF ReadEntry, SendersInv, NoBlackListedSender, SenderPasses
<1>6. CASE \E h \in Hash : AddUserOp(p, h)
  BY <1>0, <1>6 DEF AddUserOp, Idle
<1>7. CASE Snapshot(p) \/ ClassifyAsNew(p)
  BY <1>0, <1>7 DEF Snapshot, ClassifyAsNew, Goto, Calls
<1>8. CASE CheckEntity(p)
  BY <1>0, <1>8 DEF CheckEntity, Goto, At, Calls
<1> QED
  BY <1>1, <1>2, <1>3, <1>4, <1>5, <1>6, <1>7, <1>8, CallProgress DEF Writing

LEMMA SendersInvStep ==
    TypeInv /\ ListsInv /\ SendersInv /\ [MempoolNext]_vars => SendersInv'
<1> SUFFICES ASSUME TypeInv, ListsInv, SendersInv, [MempoolNext]_vars
             PROVE  SendersInv'
  OBVIOUS
<1>0. WellFormed(standardPool)
  BY DEF TypeInv, MempoolTypeOK, WellFormed
<1>1. \A h \in standardPool.keys : SenderPasses(h)
  BY DEF SendersInv, NoBlackListedSender, SenderPasses
<1>2. \A h \in standardPool'.keys : SenderPasses(h)
  <2>1. CASE standardPool' = standardPool \/ standardPool' = EmptyPool
    BY <1>1, <2>1 DEF EmptyPool
  <2>2. CASE \E gone : standardPool' = Without(standardPool, gone)
    BY <1>0, <1>1, <2>2, WithoutType
  <2>3. ASSUME NEW p \in Proc, CommitNew(p)
        PROVE  standardPool'.keys = standardPool.keys \cup {call[p].hash} /\ SenderPasses(call[p].hash)
    <3>1. call[p].pc = "commit" /\ standardPool' = WithKey(standardPool, call[p].hash)
      BY <2>3 DEF CommitNew, At, ReplacePool
    <3>2. call[p].hash \in Hash
      BY <3>1 DEF TypeInv, CallOK, AddSteps
    <3> QED
      BY <1>0, <3>1, <3>2, WithKeyType DEF SendersInv
  <2>4. ASSUME NEW p \in Proc, SetStatus(p)
        PROVE  standardPool'.keys = standardPool.keys \cup {call[p].old} /\ SenderPasses(call[p].old)
    <3>1. call[p].pc = "setStatus" /\ standardPool' = WithKey(standardPool, call[p].old)
      BY <2>4 DEF SetStatus, At, ReplacePool
    <3>2. call[p].old \in Hash
      BY <3>1 DEF TypeInv, CallOK
    <3> QED
      BY <1>0, <3>1, <3>2, WithKeyType DEF SendersInv
  <2>5. ASSUME NEW p \in Proc, CommitReplacement(p), call[p].hash \in Hash,
               standardPool' = WithKey(Without(standardPool, {call[p].old}), call[p].hash)
        PROVE  \A h \in standardPool'.keys : SenderPasses(h)
    <3>1. standardPool'.keys = (standardPool.keys \ {call[p].old}) \cup {call[p].hash}
      BY <1>0, <2>5, WithoutType, WithKeyType
    <3>2. SenderPasses(call[p].hash)
      BY <2>5 DEF CommitReplacement, At, SendersInv
    <3> QED
      BY <1>1, <3>1, <3>2
  <2> QED
    BY <1>1, <2>1, <2>2, <2>3, <2>4, <2>5, PoolStep
<1>3. \A p \in Proc : \A h \in poolView'[p].pool.keys : SenderPasses(h)
  BY <1>1, ViewStep DEF SendersInv
<1>4. \A p \in Proc : /\ call'[p].pc = "setStatus" => SenderPasses(call'[p].old)
                      /\ call'[p].pc = "commit" => SenderPasses(call'[p].hash)
  BY WrittenSenderPasses
<1>5. whiteList' = whiteList /\ blackList' = blackList
  BY ListsStay
<1> QED
  BY <1>2, <1>3, <1>4, <1>5 DEF SendersInv, NoBlackListedSender, SenderPasses, BlackListed

(* No operation of a black-listed sender is in the pool, by whatever way   *)
(* it might come there: as a new entry, as the replacement of an entry     *)
(* (for which no reputation is looked at), or as an entry that a late      *)
(* status update puts back.                                                *)
THEOREM MempoolNoBlackListedSender == MempoolSpec => []NoBlackListedSender
<1>1. MempoolInit => SendersInv
  BY DEF MempoolInit, SendersInv, NoBlackListedSender, Idle, NoPool, EmptyPool
<1>2. SendersInv => NoBlackListedSender
  BY DEF SendersInv
<1> QED
  BY <1>1, <1>2, SendersInvStep, TypeInvHolds, ListsInvHolds, PTL DEF MempoolSpec

-----------------------------------------------------------------------------
(* The steps that write the pool, its statuses or its counts.              *)

LEMMA KeysFinite ==
    ASSUME NEW S, IsFiniteSet(S), NEW x, NEW y
    PROVE  IsFiniteSet((S \ {y}) \cup {x}) /\ IsFiniteSet(S \cup {x}) /\ IsFiniteSet(S \ {y})
<1>1. IsFiniteSet(S \ {y})
  BY FS_RemoveElement
<1> QED
  BY <1>1, FS_AddElement

LEMMA ReplacementWrites ==
    ASSUME TypeInv, NEW p \in Proc, CommitReplacement(p)
    PROVE  /\ call[p].hash \in Hash
           /\ standardPool'.keys = (standardPool.keys \ {call[p].old}) \cup {call[p].hash}
           /\ \A k \in Hash : entryStatus'[k] = IF k \in {call[p].old, call[p].hash} THEN "pending"
                                                ELSE entryStatus[k]
           /\ mempoolEntryCount' = mempoolEntryCount
           /\ call'[p].pc = "seenSender"
<1> DEFINE h == call[p].hash
           old == call[p].old
           rest == Without(standardPool, {old})
<1>1. h \in Hash /\ call[p] \in Calls /\ call \in [Proc -> Calls] /\ WellFormed(standardPool)
  BY DEF TypeInv, MempoolTypeOK, CallOK, AddSteps, CommitReplacement, At, WellFormed
<1>2. WellFormed(rest) /\ rest.keys = standardPool.keys \ {old}
  BY <1>1, WithoutType
<1>3. standardPool' = WithKey(rest, h)
  BY DEF CommitReplacement, ReplacePool
<1> HIDE DEF rest
<1>4. standardPool'.keys = (standardPool.keys \ {old}) \cup {h}
  BY <1>1, <1>2, <1>3, WithKeyType
<1>5. \A k \in Hash : entryStatus'[k] = IF k \in {old, h} THEN "pending" ELSE entryStatus[k]
  BY DEF CommitReplacement, StatusSet
<1>6. call'[p].pc = "seenSender" /\ mempoolEntryCount' = mempoolEntryCount
  BY <1>1 DEF CommitReplacement, Goto, Calls
<1> QED
  BY <1>1, <1>4, <1>5, <1>6

LEMMA AdmissionWrites ==
    ASSUME TypeInv, NEW p \in Proc, CommitNew(p)
    PROVE  /\ call[p].hash \in Hash
           /\ standardPool'.keys = standardPool.keys \cup {call[p].hash}
           /\ \A k \in Hash : entryStatus'[k] = IF k = call[p].hash THEN "pending"
                                                ELSE entryStatus[k]
           /\ \A a \in Account : mempoolEntryCount'[a] =
                IF a \in Counted(call[p].hash) THEN mempoolEntryCount[a] + 1
                ELSE mempoolEntryCount[a]
           /\ call'[p].pc = "seenSender"
<1> DEFINE h == call[p].hash
<1>1. h \in Hash /\ call[p] \in Calls /\ call \in [Proc -> Calls] /\ WellFormed(standardPool)
  BY DEF TypeInv, MempoolTypeOK, CallOK, AddSteps, CommitNew, At, WellFormed
<1>2. standardPool'.keys = standardPool.keys \cup {h}
  BY <1>1, WithKeyType DEF CommitNew, ReplacePool
<1>3. \A k \in Hash : entryStatus'[k] = IF k = h THEN "pending" ELSE entryStatus[k]
  BY DEF CommitNew, StatusSet
<1>4. call'[p].pc = "seenSender"
  BY <1>1 DEF CommitNew, Goto, Calls
<1>5. \A a \in Account : mempoolEntryCount'[a] = IF a \in Counted(h) THEN mempoolEntryCount[a] + 1
                                                ELSE mempoolEntryCount[a]
  BY AccountFacts DEF CommitNew, ReplaceCount
<1> QED
  BY <1>1, <1>2, <1>3, <1>4, <1>5

(* Only these steps write the pool, the statuses or the counts.            *)
LEMMA Writers ==
    ASSUME [MempoolNext]_vars
    PROVE  \/ UNCHANGED poolVars
           \/ \E p \in Proc : \/ CommitNew(p) \/ CommitReplacement(p)
                             \/ Remove(p) \/ BanRemove(p) \/ ClearState(p)
                             \/ Mark(p) \/ SetStatus(p)
<1>1. ASSUME NEW p \in Proc, AddStep(p) \/ RemoveStep(p) \/ BundleStep(p)
      PROVE  \/ UNCHANGED poolVars
             \/ CommitNew(p) \/ CommitReplacement(p) \/ Remove(p) \/ BanRemove(p)
             \/ ClearState(p) \/ Mark(p) \/ SetStatus(p)
  BY <1>1
       DEF AddStep, RemoveStep, BundleStep, AddUserOp, Snapshot, ClassifyAsNew,
           ClassifyAsReplacement, RefuseUnderpriced, Refuse, CheckEntity, RefuseForReputation,
           RefuseUnstaked, CheckRoles, RefuseForRoles, SeenSender, SeenHelpers, RemoveByHash,
           RemoveByUserOp, FoundForRemoval, BanSelect, ClearLedger, mempoolVars,
           GetNextPending, GetAllPending, Pick, ReadEntry
<1>2. UNCHANGED vars \/ OtherReputationChange => UNCHANGED poolVars
  BY DEF vars, mempoolVars, OtherReputationChange
<1> QED
  BY <1>1, <1>2 DEF MempoolNext

(* The sender's quota has been looked at, and there is still room.         *)
PastQuota(p) ==
    \/ call[p].pc = "check" /\ call[p].place # 1
    \/ call[p].pc = "roles"
    \/ call[p].pc = "commit" /\ call[p].old = None

(* The quota is checked against the count: it must not be too low.  (It    *)
(* may be too high: an operation whose sender is spelled in upper case is  *)
(* counted under the lower-case spelling and never uncounted there.)       *)
CountsCover ==
    \A a \in Account : Cardinality(EntriesOf(a)) <= mempoolEntryCount[a]

LEMMA CardPlus ==
    ASSUME NEW S, IsFiniteSet(S), NEW x
    PROVE  Cardinality(S) \in Nat /\ Cardinality(S \cup {x}) <= Cardinality(S) + 1
<1>1. Cardinality(S) \in Nat
  BY FS_CardinalityType
<1>2. Cardinality(S \cup {x}) = IF x \in S THEN Cardinality(S) ELSE Cardinality(S) + 1
  BY FS_AddElement
<1> QED
  BY <1>1, <1>2

LEMMA CardMinus ==
    ASSUME NEW S, IsFiniteSet(S), NEW x \in S
    PROVE  Cardinality(S \ {x}) = Cardinality(S) - 1 /\ Cardinality(S) > 0
<1>1. Cardinality(S \ {x}) = Cardinality(S) - 1 /\ IsFiniteSet(S \ {x})
  BY FS_RemoveElement
<1>2. Cardinality(S) \in Nat /\ Cardinality(S \ {x}) \in Nat
  BY <1>1, FS_CardinalityType
<1> QED
  BY <1>1, <1>2

(* The entries of an account are finitely many.                            *)
LEMMA EntriesFinite ==
    ASSUME IsFiniteSet(standardPool.keys), NEW a
    PROVE  IsFiniteSet(EntriesOf(a)) /\ Cardinality(EntriesOf(a)) \in Nat
<1>1. IsFiniteSet(EntriesOf(a))
  BY FS_Subset DEF EntriesOf
<1> QED
  BY <1>1, FS_CardinalityType

(* An admission adds at most one entry, and counts it.                     *)
LEMMA AdmissionCounts ==
    ASSUME TypeInv, IsFiniteSet(standardPool.keys), CountsCover, NEW p \in Proc, CommitNew(p),
           NEW a \in Account
    PROVE  /\ Cardinality(EntriesOf(a)) \in Nat /\ Cardinality(EntriesOf(a)') \in Nat
           /\ a # SenderOf(call[p].hash) => EntriesOf(a)' = EntriesOf(a)
           /\ Cardinality(EntriesOf(a)') <= Cardinality(EntriesOf(a)) + 1
           /\ Cardinality(EntriesOf(a)') <= mempoolEntryCount'[a]
<1> DEFINE h == call[p].hash
<1>1. /\ standardPool'.keys = standardPool.keys \cup {h}
      /\ mempoolEntryCount'[a] = IF a \in Counted(h) THEN mempoolEntryCount[a] + 1
                                 ELSE mempoolEntryCount[a]
  BY AdmissionWrites
<1>2. mempoolEntryCount[a] \in Nat
  BY AccountFacts DEF TypeInv, MempoolTypeOK, Counts
<1>3. IsFiniteSet(EntriesOf(a)) /\ Cardinality(EntriesOf(a)) \in Nat
  BY EntriesFinite
<1>4. Cardinality(EntriesOf(a)) <= mempoolEntryCount[a]
  BY DEF CountsCover
<1>5. CASE a = SenderOf(h)
  <2>1. EntriesOf(a)' = EntriesOf(a) \cup {h}
    BY <1>1, <1>5 DEF EntriesOf
  <2>2. /\ Cardinality(EntriesOf(a) \cup {h}) <= Cardinality(EntriesOf(a)) + 1
        /\ Cardinality(EntriesOf(a) \cup {h}) \in Nat
    BY <1>3, CardPlus, FS_AddElement, FS_CardinalityType
  <2>3. mempoolEntryCount'[a] = mempoolEntryCount[a] + 1
    BY <1>1, <1>5 DEF Counted
  <2> QED
    BY <1>2, <1>3, <1>4, <1>5, <2>1, <2>2, <2>3
<1>6. CASE a # SenderOf(h)
  <2>1. EntriesOf(a)' = EntriesOf(a)
    BY <1>1, <1>6 DEF EntriesOf
  <2> QED
    BY <1>1, <1>2, <1>3, <1>4, <1>6, <2>1
<1> QED
  BY <1>5, <1>6

(* A removal lowers the sender's count by one at most.                     *)
LEMMA RemovalCounts ==
    ASSUME TypeInv, IsFiniteSet(standardPool.keys), CountsCover, NEW p \in Proc, Remove(p),
           call[p].old \in standardPool.keys, NEW a \in Account
    PROVE  /\ Cardinality(EntriesOf(a)) \in Nat /\ Cardinality(EntriesOf(a)') \in Nat
           /\ Cardinality(EntriesOf(a)') <= Cardinality(EntriesOf(a))
           /\ Cardinality(EntriesOf(a)') <= mempoolEntryCount'[a]
<1> DEFINE h == call[p].old
<1>1. standardPool'.keys = standardPool.keys \ {h}
  BY WithoutType DEF TypeInv, MempoolTypeOK, WellFormed, Remove, ChangePool
<1>2. mempoolEntryCount[a] \in Nat /\ a \in Address
  BY AccountFacts DEF TypeInv, MempoolTypeOK, Counts
<1>3. /\ mempoolEntryCount \in [Address -> Nat]
      /\ mempoolEntryCount' = [mempoolEntryCount EXCEPT ![UserOp[h].sender] = IF @ > 1 THEN @ - 1 ELSE 0]
  BY DEF TypeInv, MempoolTypeOK, Counts, Remove, ChangeCount
<1>4. h \in Hash /\ UserOp[h].sender \in Address
  BY OperationFacts DEF TypeInv, MempoolTypeOK, Pools
<1>5. IsFiniteSet(EntriesOf(a)) /\ Cardinality(EntriesOf(a)) \in Nat
  BY EntriesFinite
<1>6. Cardinality(EntriesOf(a)) <= mempoolEntryCount[a]
  BY DEF CountsCover
<1>7. CASE a = SenderOf(h)
  <2>1. EntriesOf(a)' = EntriesOf(a) \ {h} /\ h \in EntriesOf(a)
    BY <1>1, <1>7 DEF EntriesOf
  <2>2. /\ Cardinality(EntriesOf(a) \ {h}) = Cardinality(EntriesOf(a)) - 1
        /\ Cardinality(EntriesOf(a)) > 0
    BY <1>5, <2>1, CardMinus
  <2>3. mempoolEntryCount'[a] >= mempoolEntryCount[a] - 1 /\ mempoolEntryCount'[a] \in Nat
    BY <1>2, <1>3, <1>4
  <2> QED
    BY <1>2, <1>5, <1>6, <2>1, <2>2, <2>3
<1>8. CASE a # SenderOf(h)
  <2>1. EntriesOf(a)' = EntriesOf(a)
    BY <1>1, <1>8 DEF EntriesOf
  <2>2. a # UserOp[h].sender
    BY <1>8, AccountFacts DEF SenderOf
  <2>3. mempoolEntryCount'[a] = mempoolEntryCount[a]
    BY <1>2, <1>3, <2>2
  <2> QED
    BY <1>2, <1>5, <1>6, <2>1, <2>3
<1> QED
  BY <1>7, <1>8

-----------------------------------------------------------------------------
(* Any number of concurrent additions and removals.                        *)

Adders == {p \in Proc : "addUserOp" \in Does[p]}

(* Some call adds, and only finitely many are in progress at a time.       *)
SomeAdders == Adders # {} /\ IsFiniteSet(Adders)

(* Each of these is a way to make the counts too low while other calls are *)
(* in progress: the ban and clearState drop entries other calls have found, *)
(* a stale updateEntryStatus or a replacement of what has been removed     *)
(* brings back an entry that is not counted, and of two removals of one    *)
(* entry both lower the count.                                             *)
AdditionsAndRemovals ==
    /\ \A p \in Proc :
         Does[p] \cap {"removeUserOpsForBannedAddr", "clearState", "updateEntryStatus"} = {}
    /\ \A p, q \in Proc : "removeUserOp" \in Does[p] \cap Does[q] => p = q
    /\ \A g, h \in Hash : SameSlot(g, h) => ~PaysMore(h, g)

Adding == {"snapshot", "classify", "check", "roles", "commit"}

CallFor(p) ==
    /\ call[p].pc \in Adding => "addUserOp" \in Does[p] /\ call[p].old = None
    /\ call[p].pc \in {"snapshot", "classify"} => call[p].place = 1
    /\ call[p].pc = "remove" => "removeUserOp" \in Does[p] /\ call[p].old \in standardPool.keys
    /\ call[p].pc \notin {"ban", "setStatus"}

(* A call that may still add an entry of the sender a: its quota has been  *)
(* looked at, or will be, against a count below it.                        *)
Hopeful(p, a) ==
    /\ \/ PastQuota(p)
       \/ call[p].pc \in {"classify", "check"} /\ CountSeen(p)[a] < SenderQuota
    /\ SenderOf(call[p].hash) = a

Hopefuls(a) == {p \in Proc : Hopeful(p, a)}

ConcurrentInv ==
    /\ IsFiniteSet(standardPool.keys)
    /\ \A p \in Proc : CallFor(p)
    /\ CountsCover
    /\ \A a \in Account \ Staked :
         Cardinality(EntriesOf(a)) + Cardinality(Hopefuls(a)) <= SenderQuota + Cardinality(Adders) - 1

(* What the steps of another call do to the one in progress: it goes on    *)
(* seeing the counts it saw, or sees those of the moment, and so with the  *)
(* pool.                                                                   *)
LEMMA OtherCalls ==
    ASSUME TypeInv, NEW p \in Proc, AddStep(p) \/ RemoveStep(p) \/ BundleStep(p),
           ~CommitReplacement(p), NEW q \in Proc, q # p
    PROVE  /\ call'[q] = call[q]
           /\ CountSeen(q)' = CountSeen(q) \/ CountSeen(q)' = mempoolEntryCount'
           /\ PoolSeen(q)' = PoolSeen(q) \/ PoolSeen(q)' = standardPool'
<1> DEFINE Untouched == call'[q] = call[q] /\ poolView'[q] = poolView[q] /\ countView'[q] = countView[q]
           Sees == /\ CountSeen(q)' = CountSeen(q) \/ CountSeen(q)' = mempoolEntryCount'
                   /\ PoolSeen(q)' = PoolSeen(q) \/ PoolSeen(q)' = standardPool'
<1>c. /\ call \in [Proc -> Calls] /\ countView \in [Proc -> CountViews]
      /\ poolView \in [Proc -> PoolViews]
  BY DEF TypeInv, MempoolTypeOK
<1>1. ASSUME NEW copy, ReplaceCount(copy)
      PROVE  CountSeen(q)' = CountSeen(q)
  BY <1>1 DEF ReplaceCount, CountSeen
<1>2. ASSUME NEW copy, ReplacePool(copy, standardPool)
      PROVE  PoolSeen(q)' = PoolSeen(q)
  BY <1>2 DEF ReplacePool, PoolSeen
<1>3. ASSUME DropViews(p) PROVE poolView'[q] = poolView[q] /\ countView'[q] = countView[q]
  BY <1>3, <1>c DEF DropViews
<1>4. Untouched => Sees
  BY DEF CountSeen, PoolSeen
<1>5. CASE AddStep(p)
  <2>1. ASSUME NEW h, AddUserOp(p, h) PROVE Untouched
    BY <2>1, <1>c DEF AddUserOp
  <2>2. ASSUME Snapshot(p) PROVE Untouched
    BY <2>2, <1>c DEF Snapshot, Goto
  <2>3. ASSUME ClassifyAsNew(p) \/ CheckEntity(p) PROVE Untouched
    BY <2>3, <1>c DEF ClassifyAsNew, CheckEntity, Goto
  <2>4. ASSUME NEW old, ClassifyAsReplacement(p, old) PROVE Untouched
    BY <2>4, <1>c, <1>3 DEF ClassifyAsReplacement
  <2>5. ASSUME Refuse(p) PROVE Untouched
    BY <2>5, <1>c, <1>3 DEF Refuse
  <2>6. ASSUME CheckRoles(p) PROVE Untouched
    BY <2>6, <1>c, <1>3 DEF CheckRoles, Goto
  <2>7. ASSUME CommitNew(p) PROVE call'[q] = call[q] /\ Sees
    BY <2>7, <1>c, <1>1, <1>2 DEF CommitNew, Goto
  <2>8. ASSUME SeenSender(p) \/ SeenHelpers(p) PROVE Untouched
    BY <2>8, <1>c DEF SeenSender, SeenHelpers
  <2> HIDE DEF Sees
  <2> QED
    BY <1>5, <1>4, <2>1, <2>2, <2>3, <2>4, <2>5, <2>6, <2>7, <2>8
       DEF AddStep, RefuseUnderpriced, RefuseForReputation, RefuseUnstaked, RefuseForRoles, Sees
<1>6. CASE RemoveStep(p)
  <2>1. ASSUME NEW h, FoundForRemoval(p, h) PROVE Untouched
    BY <2>1, <1>c DEF FoundForRemoval
  <2>2. ASSUME NEW a, BanSelect(p, a) PROVE Untouched
    BY <2>2, <1>c DEF BanSelect
  <2>3. ASSUME Remove(p) \/ BanRemove(p) PROVE Untouched
    BY <2>3, <1>c DEF Remove, BanRemove, ChangePool, ChangeCount
  <2>4. ASSUME ClearState(p) PROVE call'[q] = call[q] /\ Sees
    BY <2>4, <1>1, <1>2 DEF ClearState
  <2>5. ASSUME ClearLedger(p) PROVE Untouched
    BY <2>5 DEF ClearLedger, mempoolVars
  <2> QED
    BY <1>6, <1>4, <2>1, <2>2, <2>3, <2>4, <2>5 DEF RemoveStep, RemoveByHash, RemoveByUserOp
<1>7. CASE BundleStep(p)
  <2>1. ASSUME NEW function, NEW hashes, Pick(p, function, hashes) PROVE Untouched
    BY <2>1, <1>c DEF Pick
  <2>2. ASSUME NEW h, NEW status, ReadEntry(p, h, status) PROVE Untouched
    BY <2>2, <1>c DEF ReadEntry
  <2>3. ASSUME Mark(p) PROVE Untouched
    BY <2>3, <1>c DEF Mark
  <2>4. ASSUME SetStatus(p) PROVE call'[q] = call[q] /\ Sees
    BY <2>4, <1>c, <1>2 DEF SetStatus, CountSeen
  <2> QED
    BY <1>7, <1>4, <2>1, <2>2, <2>3, <2>4 DEF BundleStep, GetNextPending, GetAllPending
<1> QED
  BY <1>5, <1>6, <1>7

(* What a step does to its own call: it hopes to add no entry of a sender  *)
(* it did not hope to add before, unless there is still room for one.      *)
OwnFor(p) ==
    /\ CallFor(p)'
    /\ \A a \in Account \ Staked :
         Hopeful(p, a)' => Hopeful(p, a) \/ mempoolEntryCount'[a] < SenderQuota

LEMMA NoHope ==
    ASSUME NEW p \in Proc, call'[p].pc \in {"idle", "seenSender", "seenHelpers", "mark"}
    PROVE  OwnFor(p)
BY DEF OwnFor, CallFor, Hopeful, PastQuota, Adding

(* A call that goes on with the same operation and counts.                 *)
LEMMA SameHope ==
    ASSUME NEW p \in Proc, CallFor(p)', call'[p].hash = call[p].hash,
           \A a \in Account \ Staked : Hopeful(p, a)' => Hopeful(p, a)
    PROVE  OwnFor(p)
BY DEF OwnFor

LEMMA OwnAddStep ==
    ASSUME TypeInv, AdditionsAndRemovals, ConcurrentInv, NEW p \in Proc, AddStep(p)
    PROVE  OwnFor(p)
<1>c. call[p] \in Calls /\ CallOK(call[p]) /\ call \in [Proc -> Calls]
  BY DEF TypeInv, MempoolTypeOK
<1>v. countView \in [Proc -> CountViews]
  BY DEF TypeInv, MempoolTypeOK
<1>i. CallFor(p)
  BY DEF ConcurrentInv
<1>h. call[p].pc \in AddSteps => call[p].hash \in Hash
  BY <1>c DEF CallOK
<1>1. ASSUME NEW h \in Hash, AddUserOp(p, h)
      PROVE  OwnFor(p)
  <2>1. /\ call'[p].pc = "snapshot" /\ call'[p].old = None /\ call'[p].place = 1
        /\ "addUserOp" \in Does[p]
    BY <1>1, <1>c DEF AddUserOp, Idle, Start
  <2>2. CallFor(p)'
    BY <2>1 DEF CallFor, Adding
  <2> QED
    BY <2>1, <2>2 DEF OwnFor, Hopeful, PastQuota
<1>2. ASSUME Snapshot(p)
      PROVE  OwnFor(p)
  <2>1. /\ call'[p].pc = "classify" /\ call'[p].hash = call[p].hash
        /\ call'[p].old = call[p].old /\ call'[p].place = call[p].place /\ call[p].pc = "snapshot"
        /\ countView'[p].live /\ mempoolEntryCount' = mempoolEntryCount
    BY <1>2, <1>c, <1>v DEF Snapshot, At, Goto, LiveCount, Calls, poolVars
  <2>2. CallFor(p)'
    BY <2>1, <1>i DEF CallFor, Adding
  <2>3. CountSeen(p)' = mempoolEntryCount'
    BY <2>1 DEF CountSeen
  <2> QED
    BY <2>1, <2>2, <2>3 DEF OwnFor, Hopeful, PastQuota
<1>3. ASSUME ClassifyAsNew(p)
      PROVE  OwnFor(p)
  <2>1. /\ call'[p].pc = "check" /\ call'[p].hash = call[p].hash /\ call[p].pc = "classify"
        /\ call'[p].old = call[p].old /\ call'[p].place = call[p].place
        /\ CountSeen(p)' = CountSeen(p)
    BY <1>3, <1>c DEF ClassifyAsNew, At, Goto, Calls, CountSeen, poolVars
  <2>2. CallFor(p)' /\ call[p].place = 1
    BY <2>1, <1>i DEF CallFor, Adding
  <2>3. ASSUME NEW a \in Account \ Staked, Hopeful(p, a)'
        PROVE  Hopeful(p, a)
    BY <2>1, <2>2, <2>3 DEF Hopeful, PastQuota
  <2> QED
    BY <2>1, <2>2, <2>3, SameHope
<1>4. ASSUME NEW old \in Hash, ClassifyAsReplacement(p, old)
      PROVE  FALSE
  <2>1. SameSlot(old, call[p].hash) /\ PaysMore(call[p].hash, old)
    BY <1>4 DEF ClassifyAsReplacement, FoundOld, FirstMatch, Matches
  <2>2. call[p].hash \in Hash
    BY <1>4, <1>h DEF ClassifyAsReplacement, At, AddSteps
  <2> QED
    BY <1>4, <2>1, <2>2 DEF AdditionsAndRemovals
<1>5. ASSUME Refuse(p)
      PROVE  OwnFor(p)
  BY <1>5, <1>c, NoHope DEF Refuse, Idle
<1>6. ASSUME CheckEntity(p)
      PROVE  OwnFor(p)
  <2> DEFINE h == call[p].hash
             next == NextEntity(h, call[p].place)
  <2>1. call[p].pc = "check" /\ h \in Hash /\ call[p].place \in 1..4
    BY <1>6, <1>c, <1>h DEF CheckEntity, At, AddSteps, Calls
  <2>2. CountSeen(p)' = CountSeen(p)
    BY <1>6 DEF CheckEntity, CountSeen, poolVars
  <2>3. ASSUME NEW a \in Account \ Staked, SenderOf(h) = a
        PROVE  Hopeful(p, a)
    <3>1. CASE call[p].place # 1
      BY <2>1, <2>3, <3>1 DEF Hopeful, PastQuota
    <3>2. CASE call[p].place = 1
      <4>1. Lower[Checked(p)] = a /\ Quota(p) = SenderQuota
        BY <2>3, <3>2 DEF Checked, Entity, SenderOf, Quota
      <4>2. ~(CountSeen(p)[a] >= SenderQuota)
        BY <1>6, <2>3, <4>1 DEF CheckEntity, StakeRefuses, CheckedCount
      <4>3. CountSeen(p)[a] \in Nat /\ SenderQuota \in Nat
        BY <1>v, AccountFacts, MempoolAssumption
           DEF CountSeen, TypeInv, MempoolTypeOK, CountViews, Counts
      <4> QED
        BY <2>1, <2>3, <4>2, <4>3 DEF Hopeful
    <3> QED
      BY <3>1, <3>2
  <2>4. /\ call'[p].pc \in {"check", "roles"} /\ call'[p].hash = h
        /\ call'[p].old = call[p].old
    <3>1. CASE next = 5
      BY <1>6, <1>c, <2>1, <3>1 DEF CheckEntity, Goto, Calls
    <3>2. CASE next # 5
      BY <1>6, <1>c, <2>1, <3>2 DEF CheckEntity, Calls
    <3> QED
      BY <3>1, <3>2
  <2>5. CallFor(p)'
    BY <1>i, <2>1, <2>4 DEF CallFor, Adding
  <2>6. \A a : Hopeful(p, a)' => SenderOf(h) = a
    BY <2>4 DEF Hopeful
  <2> QED
    BY <2>3, <2>4, <2>5, <2>6, SameHope
<1>7. ASSUME CheckRoles(p)
      PROVE  OwnFor(p)
  <2>1. /\ call'[p].pc = "commit" /\ call'[p].hash = call[p].hash /\ call[p].pc = "roles"
        /\ call'[p].old = call[p].old
    BY <1>7, <1>c DEF CheckRoles, At, Goto, Calls
  <2>2. CallFor(p)'
    BY <1>i, <2>1 DEF CallFor, Adding
  <2>3. ASSUME NEW a \in Account \ Staked, Hopeful(p, a)'
        PROVE  Hopeful(p, a)
    BY <2>1, <2>3 DEF Hopeful, PastQuota
  <2> QED
    BY <2>1, <2>2, <2>3, SameHope
<1>8. ASSUME CommitReplacement(p)
      PROVE  FALSE
  BY <1>8, <1>i DEF CommitReplacement, At, CallFor, Adding
<1>9. ASSUME CommitNew(p)
      PROVE  OwnFor(p)
  BY <1>9, <1>c, NoHope DEF CommitNew, Goto, Calls
<1>10. ASSUME SeenSender(p) \/ SeenHelpers(p)
       PROVE  OwnFor(p)
  <2>1. call'[p].pc \in {"idle", "seenHelpers"}
    BY <1>10, <1>c DEF SeenSender, SeenHelpers, Idle, Calls
  <2> QED
    BY <2>1, NoHope
<1>11. \A h \in Offers[p] : h \in Hash
  BY MempoolAssumption
<1> QED
  BY <1>1, <1>2, <1>3, <1>4, <1>5, <1>6, <1>7, <1>8, <1>9, <1>10, <1>11
     DEF AddStep, RefuseUnderpriced, RefuseForReputation, RefuseUnstaked, RefuseForRoles

LEMMA OwnOtherStep ==
    ASSUME TypeInv, AdditionsAndRemovals, ConcurrentInv, NEW p \in Proc,
           RemoveStep(p) \/ BundleStep(p)
    PROVE  OwnFor(p)
<1>c. call[p] \in Calls /\ call \in [Proc -> Calls]
  BY DEF TypeInv, MempoolTypeOK
<1>i. CallFor(p)
  BY DEF ConcurrentInv
<1>1. ASSUME NEW h \in standardPool.keys, FoundForRemoval(p, h)
      PROVE  OwnFor(p)
  <2>1. /\ call'[p].pc = "remove" /\ call'[p].old = h /\ standardPool' = standardPool
        /\ "removeUserOp" \in Does[p]
    BY <1>1, <1>c DEF FoundForRemoval, Idle, Start, poolVars
  <2> QED
    BY <2>1 DEF OwnFor, CallFor, Adding, Hopeful, PastQuota
<1>2. \A a : ~BanSelect(p, a)
  BY DEF AdditionsAndRemovals, BanSelect, Start
<1>3. ~ClearState(p) /\ ~BanRemove(p) /\ ~SetStatus(p)
  BY <1>i DEF AdditionsAndRemovals, ClearState, Start, BanRemove, SetStatus, At, CallFor
<1>4. ASSUME Remove(p) \/ Mark(p)
      PROVE  OwnFor(p)
  BY <1>4, <1>c, NoHope DEF Remove, Mark, Idle
<1>5. ASSUME ClearLedger(p)
      PROVE  OwnFor(p)
  <2>1. call'[p].pc = "idle"
    BY <1>5 DEF ClearLedger, Start, mempoolVars
  <2> QED
    BY <2>1, NoHope
<1>6. ASSUME NEW function, NEW hashes, Pick(p, function, hashes)
      PROVE  OwnFor(p)
  BY <1>6, <1>c, NoHope DEF Pick, Idle
<1>7. \A h, status : ~ReadEntry(p, h, status)
  BY DEF AdditionsAndRemovals, ReadEntry, Start
<1> QED
  BY <1>1, <1>2, <1>3, <1>4, <1>5, <1>6, <1>7
     DEF RemoveStep, BundleStep, RemoveByHash, RemoveByUserOp, GetNextPending, GetAllPending

(* Which steps write the pool or the counts here.                          *)
LEMMA ConcurrentWriters ==
    ASSUME TypeInv, AdditionsAndRemovals, ConcurrentInv, [MempoolNext]_vars
    PROVE  \/ \E p \in Proc : CommitNew(p)
           \/ \E p \in Proc : Remove(p) /\ call[p].old \in standardPool.keys
           \/ standardPool' = standardPool /\ mempoolEntryCount' = mempoolEntryCount
<1>1. \A p \in Proc : CallFor(p)
  BY DEF ConcurrentInv
<1>2. \A p \in Proc : ~ClearState(p) /\ ~BanRemove(p) /\ ~SetStatus(p)
  BY <1>1 DEF AdditionsAndRemovals, ClearState, Start, BanRemove, SetStatus, At, CallFor
<1>3. \A p \in Proc : ~CommitReplacement(p)
  BY <1>1 DEF CommitReplacement, At, CallFor, Adding
<1>4. \A p \in Proc : Remove(p) => call[p].old \in standardPool.keys
  BY <1>1 DEF Remove, At, CallFor
<1>5. \A p \in Proc : Mark(p) => standardPool' = standardPool /\ mempoolEntryCount' = mempoolEntryCount
  BY DEF Mark
<1> QED
  BY <1>2, <1>3, <1>4, <1>5, Writers DEF poolVars

LEMMA ConcurrentCovers ==
    ASSUME TypeInv, AdditionsAndRemovals, ConcurrentInv, [MempoolNext]_vars
    PROVE  CountsCover' /\ IsFiniteSet(standardPool'.keys)
<1>i. CountsCover /\ IsFiniteSet(standardPool.keys)
  BY DEF ConcurrentInv
<1>1. ASSUME NEW p \in Proc, CommitNew(p)
      PROVE  CountsCover' /\ IsFiniteSet(standardPool'.keys)
  <2>1. \A a \in Account : Cardinality(EntriesOf(a)') <= mempoolEntryCount'[a]
    BY <1>i, <1>1, AdmissionCounts
  <2>2. standardPool'.keys = standardPool.keys \cup {call[p].hash}
    BY <1>1, AdmissionWrites
  <2>3. IsFiniteSet(standardPool.keys \cup {call[p].hash})
    BY <1>i, KeysFinite, Zenon
  <2> QED
    BY <2>1, <2>2, <2>3 DEF CountsCover
<1>2. ASSUME NEW p \in Proc, Remove(p), call[p].old \in standardPool.keys
      PROVE  CountsCover' /\ IsFiniteSet(standardPool'.keys)
  <2>1. \A a \in Account : Cardinality(EntriesOf(a)') <= mempoolEntryCount'[a]
    BY <1>i, <1>2, RemovalCounts
  <2>2. standardPool'.keys = standardPool.keys \ {call[p].old}
    BY <1>2, WithoutType DEF TypeInv, MempoolTypeOK, WellFormed, Remove, ChangePool
  <2>3. IsFiniteSet(standardPool.keys \ {call[p].old})
    BY <1>i, KeysFinite, Zenon
  <2> QED
    BY <2>1, <2>2, <2>3 DEF CountsCover
<1>3. ASSUME standardPool' = standardPool, mempoolEntryCount' = mempoolEntryCount
      PROVE  CountsCover' /\ IsFiniteSet(standardPool'.keys)
  BY <1>i, <1>3 DEF CountsCover, EntriesOf
<1> QED
  BY <1>1, <1>2, <1>3, ConcurrentWriters

(* Every call in progress keeps what it holds, and hopes for no more.      *)
LEMMA ConcurrentCalls ==
    ASSUME TypeInv, AdditionsAndRemovals, ConcurrentInv, [MempoolNext]_vars, NEW q \in Proc
    PROVE  OwnFor(q)
<1>i. CallFor(q)
  BY DEF ConcurrentInv
<1>1. ASSUME NEW p \in Proc, AddStep(p) \/ RemoveStep(p) \/ BundleStep(p), q # p
      PROVE  OwnFor(q)
  <2>1. /\ call'[q] = call[q]
        /\ CountSeen(q)' = CountSeen(q) \/ CountSeen(q)' = mempoolEntryCount'
    <3>1. ~CommitReplacement(p)
      BY DEF ConcurrentInv, CommitReplacement, At, CallFor, Adding
    <3> QED
      BY <1>1, <3>1, OtherCalls
  <2>2. CallFor(q)'
    <3>1. ASSUME call[q].pc = "remove"
          PROVE  call[q].old \in standardPool'.keys
      <4>1. call[q].old \in standardPool.keys /\ "removeUserOp" \in Does[q]
        BY <1>i, <3>1 DEF CallFor
      <4>2. ASSUME NEW r \in Proc, Remove(r), call'[q] = call[q]
            PROVE  FALSE
        <5>1. call[r].pc = "remove" /\ call'[r].pc = "idle"
          BY <4>2 DEF Remove, At, Idle, TypeInv, MempoolTypeOK
        <5>2. "removeUserOp" \in Does[r]
          BY <5>1 DEF ConcurrentInv, CallFor
        <5>3. r = q
          BY <4>1, <5>2 DEF AdditionsAndRemovals
        <5> QED
          BY <3>1, <4>2, <5>1, <5>3
      <4>3. ASSUME NEW r \in Proc, CommitNew(r)
            PROVE  standardPool.keys \subseteq standardPool'.keys
        BY <4>3, AdmissionWrites
      <4> QED
        BY <2>1, <4>1, <4>2, <4>3, ConcurrentWriters
    <3> QED
      BY <1>i, <2>1, <3>1 DEF CallFor
  <2>3. ASSUME NEW a \in Account \ Staked, Hopeful(q, a)', ~Hopeful(q, a)
        PROVE  mempoolEntryCount'[a] < SenderQuota
    BY <2>1, <2>3 DEF Hopeful, PastQuota
  <2> QED
    BY <2>2, <2>3 DEF OwnFor
<1>2. ASSUME UNCHANGED mempoolVars
      PROVE  OwnFor(q)
  BY <1>2, <1>i DEF mempoolVars, poolVars, OwnFor, CallFor, Hopeful, PastQuota, CountSeen
<1>3. ASSUME NEW p \in Proc, AddStep(p) \/ RemoveStep(p) \/ BundleStep(p)
      PROVE  OwnFor(q)
  BY <1>1, <1>3, OwnAddStep, OwnOtherStep
<1>4. UNCHANGED vars \/ OtherReputationChange => UNCHANGED mempoolVars
  BY DEF vars, OtherReputationChange
<1> QED
  BY <1>2, <1>3, <1>4 DEF MempoolNext

(* Only adding calls hope, so at most all of them do.                      *)
LEMMA HopefulsAdd ==
    ASSUME SomeAdders, \A p \in Proc : CallFor(p), NEW a
    PROVE  /\ Hopefuls(a) \subseteq Adders /\ IsFiniteSet(Hopefuls(a))
           /\ Cardinality(Hopefuls(a)) \in Nat
           /\ Cardinality(Hopefuls(a)) <= Cardinality(Adders)
<1>1. Hopefuls(a) \subseteq Adders
  BY DEF Hopefuls, Hopeful, PastQuota, CallFor, Adding, Adders
<1>2. IsFiniteSet(Adders)
  BY DEF SomeAdders
<1> QED
  BY <1>1, <1>2, FS_Subset, FS_CardinalityType

LEMMA ConcurrentStep ==
    SomeAdders /\ AdditionsAndRemovals /\ TypeInv /\ ConcurrentInv /\ [MempoolNext]_vars
    => ConcurrentInv'
<1> SUFFICES ASSUME SomeAdders, AdditionsAndRemovals, TypeInv, ConcurrentInv, [MempoolNext]_vars
             PROVE  ConcurrentInv'
  OBVIOUS
<1> DEFINE N == Cardinality(Adders)
           entries(a) == Cardinality(EntriesOf(a))
           hopes(a) == Cardinality(Hopefuls(a))
<1>1. CountsCover' /\ IsFiniteSet(standardPool'.keys)
  BY ConcurrentCovers
<1>2. \A q \in Proc : OwnFor(q)
  BY ConcurrentCalls
<1>3. \A q \in Proc : CallFor(q)'
  BY <1>2 DEF OwnFor
<1>4. N \in Nat /\ SenderQuota \in Nat
  BY FS_CardinalityType, MempoolAssumption DEF SomeAdders
<1>5. ASSUME NEW a \in Account \ Staked
      PROVE  entries(a)' + hopes(a)' <= SenderQuota + N - 1
  <2>1. entries(a) \in Nat /\ entries(a)' \in Nat
    <3>1. IsFiniteSet(EntriesOf(a)')
      BY <1>1, FS_Subset DEF EntriesOf
    <3> QED
      BY <3>1, EntriesFinite, FS_CardinalityType DEF ConcurrentInv
  <2>2. /\ hopes(a) \in Nat /\ IsFiniteSet(Hopefuls(a))
        /\ entries(a) + hopes(a) <= SenderQuota + N - 1
    BY HopefulsAdd DEF ConcurrentInv
  <2>3. hopes(a)' \in Nat /\ hopes(a)' <= N
    <3>1. Hopefuls(a)' \subseteq Adders
      BY <1>3 DEF Hopefuls, Hopeful, PastQuota, CallFor, Adding, Adders
    <3> QED
      BY <3>1, FS_Subset, FS_CardinalityType DEF SomeAdders
  <2>4. entries(a)' <= mempoolEntryCount'[a] /\ mempoolEntryCount'[a] \in Nat
    <3>1. TypeInv'
      BY TypeInvStep
    <3> QED
      BY <1>1, <3>1, AccountFacts DEF CountsCover, TypeInv, MempoolTypeOK, Counts
  <2>5. CASE mempoolEntryCount'[a] < SenderQuota
    BY <1>4, <2>1, <2>3, <2>4, <2>5
  <2>6. CASE ~(mempoolEntryCount'[a] < SenderQuota)
    <3>1. Hopefuls(a)' \subseteq Hopefuls(a)
      BY <1>2, <2>6 DEF OwnFor, Hopefuls
    <3>2. hopes(a)' <= hopes(a)
      BY <2>2, <3>1, FS_Subset
    <3>3. ASSUME NEW p \in Proc, CommitNew(p)
          PROVE  entries(a)' + hopes(a)' <= SenderQuota + N - 1
      <4>1. /\ entries(a)' <= entries(a) + 1
            /\ a # SenderOf(call[p].hash) => entries(a)' = entries(a)
        BY <3>3, AdmissionCounts DEF ConcurrentInv
      <4>2. CASE a = SenderOf(call[p].hash)
        <5>1. p \in Hopefuls(a)
          BY <3>3, <4>2 DEF CommitNew, At, Hopefuls, Hopeful, PastQuota
        <5>2. p \notin Hopefuls(a)'
          BY <3>3, AdmissionWrites DEF Hopefuls, Hopeful, PastQuota
        <5>3. Hopefuls(a)' \subseteq Hopefuls(a) \ {p}
          BY <3>1, <5>2
        <5>4. /\ IsFiniteSet(Hopefuls(a) \ {p})
              /\ Cardinality(Hopefuls(a) \ {p}) = hopes(a) - 1
          BY <2>2, <5>1, FS_RemoveElement
        <5>5. hopes(a)' <= hopes(a) - 1
          BY <5>3, <5>4, FS_Subset
        <5> QED
          BY <1>4, <2>1, <2>2, <2>3, <4>1, <5>5
      <4>3. CASE a # SenderOf(call[p].hash)
        BY <1>4, <2>1, <2>2, <2>3, <3>2, <4>1, <4>3
      <4> QED
        BY <4>2, <4>3
    <3>4. ASSUME NEW p \in Proc, Remove(p), call[p].old \in standardPool.keys
          PROVE  entries(a)' <= entries(a)
      BY <3>4, RemovalCounts DEF ConcurrentInv
    <3>5. ASSUME standardPool' = standardPool
          PROVE  entries(a)' <= entries(a)
      BY <2>1, <3>5 DEF EntriesOf
    <3>6. ASSUME entries(a)' <= entries(a)
          PROVE  entries(a)' + hopes(a)' <= SenderQuota + N - 1
      BY <1>4, <2>1, <2>2, <2>3, <3>2, <3>6
    <3> HIDE DEF entries, hopes, N
    <3> QED
      BY <3>3, <3>4, <3>5, <3>6, ConcurrentWriters
  <2> QED
    BY <2>5, <2>6
<1> QED
  BY <1>1, <1>3, <1>5 DEF ConcurrentInv

LEMMA ConcurrentInit ==
    SomeAdders /\ MempoolInit => ConcurrentInv
<1> SUFFICES ASSUME SomeAdders, MempoolInit PROVE ConcurrentInv
  OBVIOUS
<1>1. IsFiniteSet(standardPool.keys)
  BY FS_EmptySet DEF MempoolInit, EmptyPool
<1>2. \A p \in Proc : CallFor(p)
  BY DEF MempoolInit, Idle, CallFor, Adding
<1>3. ASSUME NEW a \in Account
      PROVE  Cardinality(EntriesOf(a)) = 0 /\ mempoolEntryCount[a] = 0
  <2>1. EntriesOf(a) = {}
    BY DEF MempoolInit, EmptyPool, EntriesOf
  <2> QED
    BY <2>1, FS_EmptySet, AccountFacts DEF MempoolInit, NoCounts
<1>4. ASSUME NEW a \in Account
      PROVE  Cardinality(Hopefuls(a)) = 0
  <2>1. Hopefuls(a) = {}
    BY DEF MempoolInit, Idle, Hopefuls, Hopeful, PastQuota
  <2> QED
    BY <2>1, FS_EmptySet
<1>5. Cardinality(Adders) \in Nat \ {0} /\ SenderQuota \in Nat
  BY FS_CardinalityType, FS_EmptySet, MempoolAssumption DEF SomeAdders
<1> QED
  BY <1>1, <1>2, <1>3, <1>4, <1>5 DEF ConcurrentInv, CountsCover

LEMMA ConcurrentInvHolds ==
    ASSUME SomeAdders, AdditionsAndRemovals PROVE MempoolSpec => []ConcurrentInv
<1> QED
  BY ConcurrentInit, ConcurrentStep, TypeInvHolds, PTL DEF MempoolSpec

(* However many additions are in progress, and removals beside them, the   *)
(* awaits between the check of a sender's quota and the addition let each  *)
(* call but one overshoot it by at most one entry.                         *)
THEOREM MempoolOvershootIsBounded ==
    ASSUME SomeAdders, AdditionsAndRemovals PROVE MempoolSpec => []OvershootIsBounded
<1>1. ASSUME ConcurrentInv
      PROVE  OvershootIsBounded
  <2> SUFFICES ASSUME NEW a \in Account \ Staked
               PROVE  Cardinality(EntriesOf(a)) <= SenderQuota + Cardinality(Adders) - 1
    BY DEF OvershootIsBounded, Adders
  <2>1. Cardinality(Hopefuls(a)) \in Nat
    BY <1>1, HopefulsAdd DEF ConcurrentInv
  <2>2. Cardinality(EntriesOf(a)) \in Nat
    BY <1>1, EntriesFinite DEF ConcurrentInv
  <2>3. Cardinality(EntriesOf(a)) + Cardinality(Hopefuls(a)) <= SenderQuota + Cardinality(Adders) - 1
    BY <1>1 DEF ConcurrentInv
  <2>4. Cardinality(Adders) \in Nat /\ SenderQuota \in Nat
    BY FS_CardinalityType, MempoolAssumption DEF SomeAdders
  <2> QED
    BY <2>1, <2>2, <2>3, <2>4
<1> QED
  BY <1>1, ConcurrentInvHolds, PTL

-----------------------------------------------------------------------------
(* The exact count: no two calls add the same operation, and senders are   *)
(* spelled in lower case (of any other spelling the count is never         *)
(* lowered).                                                               *)

OwnOffers == \A p, q \in Adders : Offers[p] \cap Offers[q] # {} => p = q

LowerCaseSenders == \A h \in Hash : UserOp[h].sender = SenderOf(h)

(* An operation that a call has classified as new is not in the pool, even *)
(* if the object the call looked at has been left behind.                  *)
NewFor(p) ==
    /\ call[p].pc \in Adding => call[p].hash \in Offers[p]
    /\ call[p].pc = "classify" /\ call[p].hash \in standardPool.keys =>
         call[p].hash \in PoolSeen(p).keys
    /\ call[p].pc \in {"check", "roles", "commit"} => call[p].hash \notin standardPool.keys

ExactInv == SenderCountExact /\ \A p \in Proc : NewFor(p)

LEMMA OwnNew ==
    ASSUME TypeInv, AdditionsAndRemovals, ConcurrentInv, NEW p \in Proc, NewFor(p),
           AddStep(p) \/ RemoveStep(p) \/ BundleStep(p)
    PROVE  NewFor(p)'
<1>c. call[p] \in Calls /\ CallOK(call[p]) /\ call \in [Proc -> Calls]
  BY DEF TypeInv, MempoolTypeOK
<1>v. poolView \in [Proc -> PoolViews]
  BY DEF TypeInv, MempoolTypeOK
<1>0. ASSUME call'[p].pc \notin Adding
      PROVE  NewFor(p)'
  BY <1>0 DEF NewFor, Adding
<1>1. ASSUME NEW h \in Offers[p], AddUserOp(p, h)
      PROVE  NewFor(p)'
  <2>1. call'[p].pc = "snapshot" /\ call'[p].hash = h
    BY <1>1, <1>c DEF AddUserOp, Idle
  <2> QED
    BY <2>1, <1>1 DEF NewFor
<1>2. ASSUME Snapshot(p)
      PROVE  NewFor(p)'
  <2>1. /\ call[p].pc = "snapshot" /\ call'[p].pc = "classify" /\ call'[p].hash = call[p].hash
        /\ poolView'[p].live
    BY <1>2, <1>c, <1>v DEF Snapshot, At, Goto, LivePool, Calls
  <2>2. PoolSeen(p)' = standardPool'
    BY <2>1 DEF PoolSeen
  <2> QED
    BY <2>1, <2>2 DEF NewFor, Adding
<1>3. ASSUME ClassifyAsNew(p)
      PROVE  NewFor(p)'
  <2>1. /\ call[p].pc = "classify" /\ call'[p].pc = "check" /\ call'[p].hash = call[p].hash
        /\ standardPool' = standardPool /\ Matches(PoolSeen(p), call[p].hash) = {}
    BY <1>3, <1>c DEF ClassifyAsNew, At, Goto, Calls, poolVars
  <2>2. call[p].hash \notin PoolSeen(p).keys
    BY <2>1 DEF Matches, SameSlot
  <2> QED
    BY <2>1, <2>2 DEF NewFor, Adding
<1>4. ASSUME NEW old \in Hash, ClassifyAsReplacement(p, old)
      PROVE  FALSE
  <2>1. SameSlot(old, call[p].hash) /\ PaysMore(call[p].hash, old)
    BY <1>4 DEF ClassifyAsReplacement, FoundOld, FirstMatch, Matches
  <2>2. call[p].hash \in Hash
    BY <1>4, <1>c DEF ClassifyAsReplacement, At, CallOK, AddSteps
  <2> QED
    BY <1>4, <2>1, <2>2 DEF AdditionsAndRemovals
<1>5. ASSUME Refuse(p)
      PROVE  NewFor(p)'
  <2>1. call'[p].pc = "idle"
    BY <1>5, <1>c DEF Refuse, Idle
  <2> QED
    BY <2>1, <1>0 DEF Adding
<1>6. ASSUME CheckEntity(p)
      PROVE  NewFor(p)'
  <2>1. /\ call[p].pc = "check" /\ call'[p].pc \in {"check", "roles"}
        /\ call'[p].hash = call[p].hash /\ standardPool' = standardPool
    BY <1>6, <1>c DEF CheckEntity, At, Goto, Calls, poolVars
  <2> QED
    BY <2>1 DEF NewFor, Adding
<1>7. ASSUME CheckRoles(p)
      PROVE  NewFor(p)'
  <2>1. /\ call[p].pc = "roles" /\ call'[p].pc = "commit"
        /\ call'[p].hash = call[p].hash /\ standardPool' = standardPool
    BY <1>7, <1>c DEF CheckRoles, At, Goto, Calls, poolVars
  <2> QED
    BY <2>1 DEF NewFor, Adding
<1>8. ASSUME CommitReplacement(p) \/ CommitNew(p)
      PROVE  NewFor(p)'
  <2>1. call'[p].pc = "seenSender"
    BY <1>8, <1>c DEF CommitReplacement, CommitNew, Goto, Calls
  <2> QED
    BY <2>1, <1>0 DEF Adding
<1>9. ASSUME SeenSender(p) \/ SeenHelpers(p)
      PROVE  NewFor(p)'
  <2>1. call'[p].pc \in {"idle", "seenHelpers"}
    BY <1>9, <1>c DEF SeenSender, SeenHelpers, Idle, Calls
  <2> QED
    BY <2>1, <1>0 DEF Adding
<1>10. ASSUME RemoveStep(p) \/ BundleStep(p)
       PROVE  NewFor(p)'
  <2>1. ASSUME NEW h, FoundForRemoval(p, h) PROVE call'[p].pc = "remove"
    BY <2>1, <1>c DEF FoundForRemoval, Idle
  <2>2. ASSUME NEW a, BanSelect(p, a) PROVE call'[p].pc = "ban"
    BY <2>2, <1>c DEF BanSelect, Idle
  <2>3. ASSUME Remove(p) \/ BanRemove(p) \/ Mark(p) \/ SetStatus(p) PROVE call'[p].pc = "idle"
    BY <2>3, <1>c DEF Remove, BanRemove, Mark, SetStatus, Idle
  <2>4. ASSUME ClearState(p) \/ ClearLedger(p) PROVE call'[p].pc = "idle"
    BY <2>4 DEF ClearState, ClearLedger, Start, mempoolVars
  <2>5. ASSUME NEW function, NEW hashes, Pick(p, function, hashes) PROVE call'[p].pc = "mark"
    BY <2>5, <1>c DEF Pick, Idle
  <2>6. ASSUME NEW h, NEW status, ReadEntry(p, h, status) PROVE call'[p].pc = "setStatus"
    BY <2>6, <1>c DEF ReadEntry, Idle
  <2>7. call'[p].pc \in {"remove", "ban", "idle", "mark", "setStatus"}
    BY <1>10, <2>1, <2>2, <2>3, <2>4, <2>5, <2>6
       DEF RemoveStep, BundleStep, RemoveByHash, RemoveByUserOp, GetNextPending, GetAllPending
  <2> QED
    BY <2>7, <1>0 DEF Adding
<1>11. \A h \in Offers[p] : h \in Hash
  BY MempoolAssumption
<1> QED
  BY <1>1, <1>2, <1>3, <1>4, <1>5, <1>6, <1>7, <1>8, <1>9, <1>10, <1>11
     DEF AddStep, RefuseUnderpriced, RefuseForReputation, RefuseUnstaked, RefuseForRoles

LEMMA NewStays ==
    ASSUME OwnOffers, TypeInv, AdditionsAndRemovals, ConcurrentInv, ExactInv,
           [MempoolNext]_vars, NEW q \in Proc
    PROVE  NewFor(q)'
<1>i. \A p \in Proc : NewFor(p)
  BY DEF ExactInv
<1>1. ASSUME NEW p \in Proc, AddStep(p) \/ RemoveStep(p) \/ BundleStep(p), q # p
      PROVE  NewFor(q)'
  <2>1. ~CommitReplacement(p)
    BY DEF ConcurrentInv, CommitReplacement, At, CallFor, Adding
  <2>2. call'[q] = call[q] /\ (PoolSeen(q)' = PoolSeen(q) \/ PoolSeen(q)' = standardPool')
    BY <1>1, <2>1, OtherCalls
  <2>3. ASSUME call[q].pc \in Adding, call[q].hash \in standardPool'.keys
        PROVE  call[q].hash \in standardPool.keys
    <3>1. ASSUME NEW r \in Proc, CommitNew(r)
          PROVE  call[r].hash # call[q].hash
      <4>1. call[r].pc = "commit" /\ call'[r].pc = "seenSender"
        BY <3>1, AdmissionWrites DEF CommitNew, At
      <4>2. /\ call[r].hash \in Offers[r] /\ call[q].hash \in Offers[q]
            /\ r \in Adders /\ q \in Adders
        BY <4>1, <2>3, <1>i DEF NewFor, Adding, ConcurrentInv, CallFor, Adders
      <4>3. r # q
        BY <4>1, <2>2, <2>3 DEF Adding
      <4> QED
        BY <4>2, <4>3 DEF OwnOffers
    <3>2. ASSUME NEW r \in Proc, CommitNew(r)
          PROVE  standardPool'.keys = standardPool.keys \cup {call[r].hash}
      BY <3>2, AdmissionWrites
    <3>3. ASSUME NEW r \in Proc, Remove(r)
          PROVE  standardPool'.keys \subseteq standardPool.keys
      BY <3>3, WithoutType DEF TypeInv, MempoolTypeOK, WellFormed, Remove, ChangePool
    <3> QED
      BY <2>3, <3>1, <3>2, <3>3, ConcurrentWriters
  <2> QED
    BY <1>i, <2>2, <2>3 DEF NewFor, Adding
<1>2. ASSUME UNCHANGED mempoolVars
      PROVE  NewFor(q)'
  BY <1>2, <1>i DEF mempoolVars, poolVars, NewFor, PoolSeen
<1>3. ASSUME NEW p \in Proc, AddStep(p) \/ RemoveStep(p) \/ BundleStep(p)
      PROVE  NewFor(q)'
  BY <1>1, <1>3, <1>i, OwnNew
<1>4. UNCHANGED vars \/ OtherReputationChange => UNCHANGED mempoolVars
  BY DEF vars, OtherReputationChange
<1> QED
  BY <1>2, <1>3, <1>4 DEF MempoolNext

LEMMA CountStaysExact ==
    ASSUME LowerCaseSenders, TypeInv, AdditionsAndRemovals, ConcurrentInv, ExactInv,
           [MempoolNext]_vars
    PROVE  SenderCountExact'
<1> SUFFICES ASSUME NEW a \in PureSenders
             PROVE  mempoolEntryCount'[a] = Cardinality(EntriesOf(a)')
  BY DEF SenderCountExact
<1>1. a \in Account /\ \A h \in Hash : a \notin HelpersOf(h)
  BY OperationFacts DEF PureSenders
<1>2. mempoolEntryCount[a] = Cardinality(EntriesOf(a)) /\ IsFiniteSet(standardPool.keys)
  BY DEF ExactInv, SenderCountExact, ConcurrentInv
<1>3. IsFiniteSet(EntriesOf(a)) /\ Cardinality(EntriesOf(a)) \in Nat
  BY <1>2, EntriesFinite
<1>4. ASSUME NEW p \in Proc, CommitNew(p)
      PROVE  mempoolEntryCount'[a] = Cardinality(EntriesOf(a)')
  <2> DEFINE h == call[p].hash
  <2>1. /\ h \in Hash /\ standardPool'.keys = standardPool.keys \cup {h}
        /\ mempoolEntryCount'[a] = IF a \in Counted(h) THEN mempoolEntryCount[a] + 1
                                   ELSE mempoolEntryCount[a]
    BY <1>1, <1>4, AdmissionWrites
  <2>2. h \notin standardPool.keys
    BY <1>4 DEF ExactInv, NewFor, CommitNew, At
  <2>3. a \in Counted(h) <=> a = SenderOf(h)
    BY <1>1, <2>1 DEF Counted
  <2>4. CASE a = SenderOf(h)
    <3>1. EntriesOf(a)' = EntriesOf(a) \cup {h} /\ h \notin EntriesOf(a)
      BY <2>1, <2>2, <2>4 DEF EntriesOf
    <3>2. Cardinality(EntriesOf(a) \cup {h}) = Cardinality(EntriesOf(a)) + 1
      BY <1>3, <3>1, FS_AddElement
    <3> QED
      BY <1>2, <2>1, <2>3, <2>4, <3>1, <3>2
  <2>5. CASE a # SenderOf(h)
    <3>1. EntriesOf(a)' = EntriesOf(a)
      BY <2>1, <2>5 DEF EntriesOf
    <3> QED
      BY <1>2, <2>1, <2>3, <2>5, <3>1
  <2> QED
    BY <2>4, <2>5
<1>5. ASSUME NEW p \in Proc, Remove(p), call[p].old \in standardPool.keys
      PROVE  mempoolEntryCount'[a] = Cardinality(EntriesOf(a)')
  <2> DEFINE h == call[p].old
  <2>1. standardPool'.keys = standardPool.keys \ {h} /\ h \in Hash
    BY <1>5, WithoutType DEF TypeInv, MempoolTypeOK, WellFormed, Pools, Remove, ChangePool
  <2>2. UserOp[h].sender = SenderOf(h) /\ SenderOf(h) \in Address /\ a \in Address
    BY <1>1, <2>1, OperationFacts, AccountFacts DEF LowerCaseSenders
  <2>3. mempoolEntryCount'[a] = IF a = SenderOf(h)
                                THEN IF mempoolEntryCount[a] > 1 THEN mempoolEntryCount[a] - 1 ELSE 0
                                ELSE mempoolEntryCount[a]
    BY <1>5, <2>2 DEF TypeInv, MempoolTypeOK, Counts, Remove, ChangeCount
  <2>4. CASE a = SenderOf(h)
    <3>1. EntriesOf(a)' = EntriesOf(a) \ {h} /\ h \in EntriesOf(a)
      BY <1>5, <2>1, <2>4 DEF EntriesOf
    <3>2. /\ Cardinality(EntriesOf(a) \ {h}) = Cardinality(EntriesOf(a)) - 1
          /\ Cardinality(EntriesOf(a)) > 0
      BY <1>3, <3>1, CardMinus
    <3> QED
      BY <1>2, <1>3, <2>3, <2>4, <3>1, <3>2
  <2>5. CASE a # SenderOf(h)
    <3>1. EntriesOf(a)' = EntriesOf(a)
      BY <2>1, <2>5 DEF EntriesOf
    <3> QED
      BY <1>2, <2>3, <2>5, <3>1
  <2> QED
    BY <2>4, <2>5
<1>6. ASSUME standardPool' = standardPool, mempoolEntryCount' = mempoolEntryCount
      PROVE  mempoolEntryCount'[a] = Cardinality(EntriesOf(a)')
  BY <1>2, <1>6 DEF EntriesOf
<1> QED
  BY <1>4, <1>5, <1>6, ConcurrentWriters

(* With additions and removals in progress, the count a sender's quota is  *)
(* checked against is the number of its entries: no update of a concurrent *)
(* call is lost, and none is counted twice.                                *)
THEOREM MempoolSenderCountExact ==
    ASSUME SomeAdders, AdditionsAndRemovals, OwnOffers, LowerCaseSenders
    PROVE  MempoolSpec => []SenderCountExact
<1>1. MempoolInit => ExactInv
  <2> SUFFICES ASSUME MempoolInit PROVE ExactInv
    OBVIOUS
  <2>1. \A p \in Proc : NewFor(p)
    BY DEF MempoolInit, Idle, NewFor, Adding
  <2>2. ASSUME NEW a \in PureSenders
        PROVE  mempoolEntryCount[a] = Cardinality(EntriesOf(a))
    <3>1. EntriesOf(a) = {}
      BY DEF MempoolInit, EmptyPool, EntriesOf
    <3>2. a \in Address
      BY OperationFacts, AccountFacts DEF PureSenders
    <3> QED
      BY <3>1, <3>2, FS_EmptySet DEF MempoolInit, NoCounts
  <2> QED
    BY <2>1, <2>2 DEF ExactInv, SenderCountExact
<1>2. TypeInv /\ ConcurrentInv /\ ExactInv /\ [MempoolNext]_vars => ExactInv'
  BY NewStays, CountStaysExact DEF ExactInv
<1>3. ExactInv => SenderCountExact
  BY DEF ExactInv
<1> QED
  BY <1>1, <1>2, <1>3, TypeInvHolds, ConcurrentInvHolds, PTL DEF MempoolSpec

-----------------------------------------------------------------------------
(* The deposits.  A status update may bring back an entry that has been    *)
(* removed, and so was not charged for; everything else may be in progress. *)

NoStatusUpdates == \A p \in Proc : "updateEntryStatus" \notin Does[p]

(* All operations of the paymaster a cost the same and spell it the same.  *)
Uniform(a, cost) ==
    \A h \in SponsoredBy(a) : UserOp[h].maxCost = cost /\ UserOp[h].paymaster = a

(* The calls that have seen a deposit that covers their operation.         *)
Paying(a) == {p \in Proc : call[p].pc \in Adding /\ call[p].hash \in SponsoredBy(a)}

Charged(a) == standardPool.keys \cap SponsoredBy(a)

PaidFor(a, cost) ==
    (Cardinality(Charged(a)) + Cardinality(Paying(a))) * cost
        <= Deposit[a] + (Cardinality(Adders) - 1) * cost

DepositInv ==
    /\ IsFiniteSet(standardPool.keys)
    /\ \A p \in Proc : /\ call[p].pc \in Adding => p \in Adders
                       /\ call[p].pc # "setStatus"
    /\ \A a \in Account, cost \in Nat : Uniform(a, cost) => PaidFor(a, cost)

LEMMA MoreCostsMore ==
    ASSUME NEW m \in Nat, NEW n \in Nat, NEW c \in Nat, m <= n
    PROVE  m * c <= n * c
OBVIOUS

(* A call pays for an operation it paid for before, or has just looked at  *)
(* the deposit.                                                            *)
LEMMA PayingStep ==
    ASSUME TypeInv, [MempoolNext]_vars, NEW p \in Proc, call'[p].pc \in Adding
    PROVE  \/ call[p].pc \in Adding /\ call'[p].hash = call[p].hash
           \/ \E h \in Hash : AddUserOp(p, h) /\ call'[p].hash = h
<1>c. call \in [Proc -> Calls] /\ call[p] \in Calls
  BY DEF TypeInv, MempoolTypeOK
<1>1. call'[p].pc \in Writing
  BY DEF Adding, Writing
<1>2. ASSUME NEW h \in Hash, AddUserOp(p, h)
      PROVE  call'[p].hash = h
  BY <1>2, <1>c DEF AddUserOp, Idle
<1>3. ASSUME Snapshot(p) \/ ClassifyAsNew(p) \/ CheckRoles(p)
      PROVE  call[p].pc \in Adding /\ call'[p].hash = call[p].hash
  BY <1>3, <1>c DEF Snapshot, ClassifyAsNew, CheckRoles, At, Goto, Adding, Calls
<1>4. ASSUME NEW old \in Hash, ClassifyAsReplacement(p, old)
      PROVE  call[p].pc \in Adding /\ call'[p].hash = call[p].hash
  BY <1>4, <1>c DEF ClassifyAsReplacement, At, Adding, Calls
<1>5. ASSUME CheckEntity(p)
      PROVE  call[p].pc \in Adding /\ call'[p].hash = call[p].hash
  BY <1>5, <1>c DEF CheckEntity, At, Goto, Adding, Calls
<1>6. ASSUME NEW h, NEW status, ReadEntry(p, h, status)
      PROVE  FALSE
  BY <1>6, <1>c DEF ReadEntry, Idle, Adding
<1> QED
  BY <1>1, <1>2, <1>3, <1>4, <1>5, <1>6, CallProgress

(* The check that starts an addition leaves room for all other additions. *)
LEMMA DepositChecked ==
    ASSUME SomeAdders, TypeInv, IsFiniteSet(standardPool.keys), NEW p \in Proc,
           NEW a \in Account, NEW cost \in Nat, Uniform(a, cost),
           NEW h \in SponsoredBy(a), AddUserOp(p, h), Paying(a)' \subseteq Adders
    PROVE  PaidFor(a, cost)'
<1> DEFINE n == Cardinality(Charged(a))
           k == Cardinality(Paying(a)')
           N == Cardinality(Adders)
<1>1. UserOp[h].paymaster = a /\ UserOp[h].maxCost = cost /\ a # None /\ Lower[a] = a
  BY AccountFacts DEF Uniform
<1>2. {g \in standardPool.keys : UserOp[g].paymaster = a} = Charged(a)
  <2>1. standardPool.keys \subseteq Hash
    BY DEF TypeInv, MempoolTypeOK, Pools
  <2>2. ASSUME NEW g \in standardPool.keys, UserOp[g].paymaster = a
        PROVE  g \in SponsoredBy(a)
    BY <1>1, <2>1, <2>2 DEF SponsoredBy, AccountOf
  <2> QED
    BY <2>2 DEF Charged, Uniform
<1>3. Deposit[a] >= cost * (1 + n)
  BY <1>1, <1>2 DEF AddUserOp, DepositCovers
<1>4. Charged(a)' = Charged(a)
  BY DEF AddUserOp, poolVars, Charged, SponsoredBy
<1>5. n \in Nat
  BY FS_Subset, FS_CardinalityType DEF Charged
<1>6. N \in Nat \ {0} /\ k \in Nat /\ k <= N
  BY FS_Subset, FS_CardinalityType, FS_EmptySet DEF SomeAdders
<1>7. Deposit[a] \in Nat
  BY MempoolAssumption
<1>8. Cardinality(Charged(a)') = n
  BY <1>4
<1> HIDE DEF n, k, N
<1>9. (n + k) * cost <= (n + N) * cost
  BY <1>5, <1>6, MoreCostsMore
<1>10. (n + N) * cost = cost * (1 + n) + (N - 1) * cost
  BY <1>5, <1>6
<1>11. (n + k) * cost <= Deposit[a] + (N - 1) * cost
  <2> DEFINE A == (n + k) * cost
             B == (n + N) * cost
             C == cost * (1 + n)
             E == (N - 1) * cost
  <2>1. A \in Int /\ B \in Int /\ C \in Int /\ E \in Int
    BY <1>5, <1>6
  <2>2. A <= B /\ B = C + E /\ Deposit[a] >= C
    BY <1>3, <1>9, <1>10
  <2> HIDE DEF A, B, C, E
  <2>3. A <= Deposit[a] + E
    BY <1>7, <2>1, <2>2
  <2> QED
    BY <2>3 DEF A, E
<1> QED
  BY <1>8, <1>11 DEF PaidFor, n, k, N

(* Nobody starts to pay: what is added has been paid for.                  *)
LEMMA DepositSpent ==
    ASSUME SomeAdders, NoStatusUpdates, TypeInv, DepositInv, [MempoolNext]_vars,
           NEW a \in Account, NEW cost \in Nat, Uniform(a, cost),
           Paying(a)' \subseteq Paying(a)
    PROVE  PaidFor(a, cost)'
<1> DEFINE n == Cardinality(Charged(a))
           m == Cardinality(Charged(a)')
           k == Cardinality(Paying(a))
           j == Cardinality(Paying(a)')
           N == Cardinality(Adders)
<1>1. IsFiniteSet(Charged(a)) /\ n \in Nat
  BY FS_Subset, FS_CardinalityType DEF Charged, DepositInv
<1>2. IsFiniteSet(Paying(a)) /\ k \in Nat /\ j \in Nat /\ j <= k
  <2>1. Paying(a) \subseteq Adders
    BY DEF Paying, DepositInv
  <2> QED
    BY <2>1, FS_Subset, FS_CardinalityType DEF SomeAdders
<1>3. (n + k) * cost <= Deposit[a] + (N - 1) * cost
  BY DEF DepositInv, PaidFor
<1>4. m \in Nat /\ m + j <= n + k
  <2>1. ASSUME Charged(a)' \subseteq Charged(a)
        PROVE  m \in Nat /\ m + j <= n + k
    <3>1. m \in Nat /\ m <= n
      BY <1>1, <2>1, FS_Subset, FS_CardinalityType
    <3> QED
      BY <1>1, <1>2, <3>1
  <2>2. ASSUME NEW p \in Proc, CommitNew(p) \/ CommitReplacement(p)
        PROVE  m \in Nat /\ m + j <= n + k
    <3> DEFINE h == call[p].hash
    <3>1. standardPool'.keys \subseteq standardPool.keys \cup {h} /\ call'[p].pc = "seenSender"
      BY <2>2, AdmissionWrites, ReplacementWrites
    <3>2. CASE h \notin SponsoredBy(a)
      <4>1. Charged(a)' \subseteq Charged(a)
        BY <3>1, <3>2 DEF Charged, SponsoredBy
      <4> QED
        BY <2>1, <4>1
    <3>3. CASE h \in SponsoredBy(a)
      <4>1. Charged(a)' \subseteq Charged(a) \cup {h}
        BY <3>1 DEF Charged, SponsoredBy
      <4>2. /\ IsFiniteSet(Charged(a) \cup {h})
            /\ Cardinality(Charged(a) \cup {h}) <= n + 1
            /\ Cardinality(Charged(a) \cup {h}) \in Nat
        BY <1>1, CardPlus, FS_AddElement, FS_CardinalityType
      <4>3. m \in Nat /\ m <= n + 1
        <5>1. m <= Cardinality(Charged(a) \cup {h}) /\ IsFiniteSet(Charged(a)')
          BY <4>1, <4>2, FS_Subset
        <5>2. m \in Nat
          BY <5>1, FS_CardinalityType
        <5> QED
          BY <1>1, <4>2, <5>1, <5>2
      <4>4. p \in Paying(a) /\ p \notin Paying(a)'
        BY <2>2, <3>1, <3>3 DEF Paying, CommitNew, CommitReplacement, At, Adding
      <4>5. Paying(a)' \subseteq Paying(a) \ {p}
        BY <4>4
      <4>6. IsFiniteSet(Paying(a) \ {p}) /\ Cardinality(Paying(a) \ {p}) = k - 1
        BY <1>2, <4>4, FS_RemoveElement
      <4>7. j <= k - 1
        BY <4>5, <4>6, FS_Subset
      <4> QED
        BY <1>1, <1>2, <4>3, <4>7
    <3> QED
      BY <3>2, <3>3
  <2>3. ASSUME NEW p \in Proc, Remove(p) \/ BanRemove(p) \/ ClearState(p) \/ Mark(p)
        PROVE  standardPool'.keys \subseteq standardPool.keys
    <3>1. WellFormed(standardPool)
      BY DEF TypeInv, MempoolTypeOK, WellFormed
    <3>2. ASSUME NEW gone, ChangePool(Without(standardPool, gone))
          PROVE  standardPool'.keys \subseteq standardPool.keys
      BY <3>1, <3>2, WithoutType DEF ChangePool
    <3> QED
      BY <2>3, <3>2 DEF Remove, BanRemove, ClearState, Mark, ReplacePool, EmptyPool
  <2>4. \A p \in Proc : ~SetStatus(p)
    BY DEF DepositInv, SetStatus, At
  <2>5. ASSUME standardPool'.keys \subseteq standardPool.keys
        PROVE  m \in Nat /\ m + j <= n + k
    <3>1. Charged(a)' \subseteq Charged(a)
      BY <2>5 DEF Charged, SponsoredBy
    <3> QED
      BY <2>1, <3>1
  <2>6. UNCHANGED poolVars => standardPool'.keys \subseteq standardPool.keys
    BY DEF poolVars
  <2> HIDE DEF m, j, n, k
  <2> QED
    BY <2>2, <2>3, <2>4, <2>5, <2>6, Writers
<1>5. N \in Nat /\ Deposit[a] \in Nat
  BY FS_CardinalityType, MempoolAssumption DEF SomeAdders
<1> HIDE DEF n, m, k, j, N
<1>6. (m + j) * cost <= (n + k) * cost
  BY <1>1, <1>2, <1>4, MoreCostsMore
<1>7. (m + j) * cost <= Deposit[a] + (N - 1) * cost
  <2> DEFINE A == (m + j) * cost
             B == (n + k) * cost
             E == (N - 1) * cost
  <2>1. A \in Int /\ B \in Int /\ E \in Int
    BY <1>1, <1>2, <1>4, <1>5
  <2>2. A <= B /\ B <= Deposit[a] + E
    BY <1>3, <1>6
  <2> HIDE DEF A, B, E
  <2>3. A <= Deposit[a] + E
    BY <1>5, <2>1, <2>2
  <2> QED
    BY <2>3 DEF A, E
<1> QED
  BY <1>7 DEF PaidFor, m, j, N

LEMMA DepositFrame ==
    ASSUME NoStatusUpdates, TypeInv, DepositInv, [MempoolNext]_vars
    PROVE  /\ IsFiniteSet(standardPool'.keys)
           /\ \A p \in Proc : /\ call'[p].pc \in Adding => p \in Adders
                              /\ call'[p].pc # "setStatus"
<1>w. WellFormed(standardPool) /\ call \in [Proc -> Calls] /\ IsFiniteSet(standardPool.keys)
  BY DEF TypeInv, MempoolTypeOK, WellFormed, DepositInv
<1>1. IsFiniteSet(standardPool'.keys)
  <2>1. ASSUME NEW x, standardPool'.keys \subseteq standardPool.keys \cup {x}
        PROVE  IsFiniteSet(standardPool'.keys)
    <3>1. IsFiniteSet(standardPool.keys \cup {x})
      BY <1>w, KeysFinite, Zenon
    <3> QED
      BY <2>1, <3>1, FS_Subset
  <2>2. ASSUME NEW p \in Proc, CommitNew(p) \/ CommitReplacement(p)
        PROVE  IsFiniteSet(standardPool'.keys)
    BY <2>1, <2>2, AdmissionWrites, ReplacementWrites
  <2>3. ASSUME NEW p \in Proc, Remove(p) \/ BanRemove(p) \/ ClearState(p) \/ Mark(p)
        PROVE  standardPool'.keys \subseteq standardPool.keys
    <3>1. ASSUME NEW gone, ChangePool(Without(standardPool, gone))
          PROVE  standardPool'.keys \subseteq standardPool.keys
      BY <1>w, <3>1, WithoutType DEF ChangePool
    <3> QED
      BY <2>3, <3>1 DEF Remove, BanRemove, ClearState, Mark, ReplacePool, EmptyPool
  <2>4. \A p \in Proc : ~SetStatus(p)
    BY DEF DepositInv, SetStatus, At
  <2>5. UNCHANGED poolVars => standardPool'.keys \subseteq standardPool.keys
    BY DEF poolVars
  <2>6. standardPool'.keys \subseteq standardPool.keys => IsFiniteSet(standardPool'.keys)
    BY <1>w, FS_Subset
  <2> QED
    BY <2>2, <2>3, <2>4, <2>5, <2>6, Writers
<1>2. ASSUME NEW p \in Proc, call'[p].pc \in Adding
      PROVE  p \in Adders
  <2>1. \A h \in Hash : AddUserOp(p, h) => p \in Adders
    BY DEF AddUserOp, Start, Adders
  <2> QED
    BY <1>2, <2>1, PayingStep DEF DepositInv
<1>3. ASSUME NEW p \in Proc, call'[p].pc = "setStatus"
      PROVE  FALSE
  <2>1. call'[p].pc \in Writing
    BY <1>3 DEF Writing
  <2>2. \A h, status : ~ReadEntry(p, h, status)
    BY DEF NoStatusUpdates, ReadEntry, Start
  <2>3. ~(call'[p] = call[p])
    BY <1>3 DEF DepositInv
  <2>4. \A h : ~AddUserOp(p, h)
    BY <1>w, <1>3 DEF AddUserOp, Idle
  <2>5. ~Snapshot(p) /\ ~ClassifyAsNew(p) /\ ~CheckRoles(p)
    BY <1>w, <1>3 DEF Snapshot, ClassifyAsNew, CheckRoles, Goto, Calls
  <2>6. \A old : ~ClassifyAsReplacement(p, old)
    BY <1>w, <1>3, ZenonT(60) DEF ClassifyAsReplacement, Calls
  <2>7. ~CheckEntity(p)
    BY <1>w, <1>3 DEF CheckEntity, At, Goto, Calls
  <2> QED
    BY <2>1, <2>2, <2>3, <2>4, <2>5, <2>6, <2>7, CallProgress
<1> QED
  BY <1>1, <1>2, <1>3

LEMMA DepositStep ==
    SomeAdders /\ NoStatusUpdates /\ TypeInv /\ DepositInv /\ [MempoolNext]_vars => DepositInv'
<1> SUFFICES ASSUME SomeAdders, NoStatusUpdates, TypeInv, DepositInv, [MempoolNext]_vars
             PROVE  DepositInv'
  OBVIOUS
<1>1. /\ IsFiniteSet(standardPool'.keys)
      /\ \A p \in Proc : /\ call'[p].pc \in Adding => p \in Adders
                         /\ call'[p].pc # "setStatus"
  BY DepositFrame
<1>2. ASSUME NEW a \in Account, NEW cost \in Nat, Uniform(a, cost)
      PROVE  PaidFor(a, cost)'
  <2>1. Paying(a)' \subseteq Adders
    BY <1>1 DEF Paying
  <2>2. CASE \E p \in Proc, h \in SponsoredBy(a) : AddUserOp(p, h)
    BY <1>2, <2>1, <2>2, DepositChecked DEF DepositInv
  <2>3. CASE ~\E p \in Proc, h \in SponsoredBy(a) : AddUserOp(p, h)
    <3>1. ASSUME NEW p \in Paying(a)'
          PROVE  p \in Paying(a)
      <4>1. p \in Proc /\ call'[p].pc \in Adding /\ call'[p].hash \in SponsoredBy(a)
        BY DEF Paying, SponsoredBy
      <4>2. call[p].pc \in Adding /\ call'[p].hash = call[p].hash
        BY <4>1, <2>3, PayingStep
      <4> QED
        BY <4>1, <4>2 DEF Paying
    <3> QED
      BY <1>2, <3>1, DepositSpent
  <2> QED
    BY <2>2, <2>3
<1> QED
  BY <1>1, <1>2 DEF DepositInv, Uniform, SponsoredBy

LEMMA DepositInit == SomeAdders /\ MempoolInit => DepositInv
<1> SUFFICES ASSUME SomeAdders, MempoolInit PROVE DepositInv
  OBVIOUS
<1>1. IsFiniteSet(standardPool.keys)
  BY FS_EmptySet DEF MempoolInit, EmptyPool
<1>2. \A p \in Proc : call[p].pc \notin Adding /\ call[p].pc # "setStatus"
  BY DEF MempoolInit, Idle, Adding
<1>3. ASSUME NEW a \in Account, NEW cost \in Nat
      PROVE  PaidFor(a, cost)
  <2>1. Charged(a) = {} /\ Paying(a) = {}
    BY <1>2 DEF MempoolInit, EmptyPool, Charged, Paying
  <2>2. Cardinality(Charged(a)) = 0 /\ Cardinality(Paying(a)) = 0
    BY <2>1, FS_EmptySet
  <2>3. Cardinality(Adders) \in Nat \ {0} /\ Deposit[a] \in Nat
    BY FS_CardinalityType, FS_EmptySet, MempoolAssumption DEF SomeAdders
  <2>4. (Cardinality(Adders) - 1) * cost \in Nat
    BY <2>3
  <2> QED
    BY <2>2, <2>3, <2>4 DEF PaidFor
<1> QED
  BY <1>1, <1>2, <1>3 DEF DepositInv

(* However many additions are in progress, with replacements, removals and *)
(* bans among them, a paymaster whose operations all cost the same can be   *)
(* overdrawn by one operation for each call but one, not by more.          *)
THEOREM MempoolDepositOvershootIsBounded ==
    ASSUME SomeAdders, NoStatusUpdates PROVE MempoolSpec => []DepositOvershootIsBounded
<1>1. ASSUME DepositInv
      PROVE  DepositOvershootIsBounded
  <2> SUFFICES ASSUME NEW a \in Account, NEW cost \in {UserOp[h].maxCost : h \in SponsoredBy(a)},
                      \A h \in SponsoredBy(a) : UserOp[h].maxCost = cost /\ UserOp[h].paymaster = a
               PROVE  Cardinality(Charged(a)) * cost
                        <= Deposit[a] + (Cardinality(Adders) - 1) * cost
    BY DEF DepositOvershootIsBounded, Charged, Adders
  <2>1. cost \in Nat
    BY OperationFacts DEF SponsoredBy, UserOps
  <2> DEFINE n == Cardinality(Charged(a))
             k == Cardinality(Paying(a))
             E == (Cardinality(Adders) - 1) * cost
  <2>2. n \in Nat
    BY <1>1, FS_Subset, FS_CardinalityType DEF Charged, DepositInv
  <2>3. k \in Nat
    <3>1. Paying(a) \subseteq Adders
      BY <1>1 DEF Paying, DepositInv
    <3> QED
      BY <3>1, FS_Subset, FS_CardinalityType DEF SomeAdders
  <2>4. (n + k) * cost <= Deposit[a] + E
    BY <1>1, <2>1 DEF DepositInv, Uniform, PaidFor
  <2>5. Deposit[a] \in Nat /\ E \in Int
    <3>1. Cardinality(Adders) \in Nat
      BY FS_CardinalityType DEF SomeAdders
    <3> QED
      BY <2>1, <3>1, MempoolAssumption
  <2> HIDE DEF n, k, E
  <2>6. n * cost <= (n + k) * cost /\ n * cost \in Int /\ (n + k) * cost \in Int
    BY <2>1, <2>2, <2>3, MoreCostsMore
  <2>7. n * cost <= Deposit[a] + E
    BY <2>4, <2>5, <2>6
  <2> QED
    BY <2>7 DEF n, E
<1> QED
  BY <1>1, DepositInit, DepositStep, TypeInvHolds, PTL DEF MempoolSpec

-----------------------------------------------------------------------------
(* Calls that overlap: what a call found is still so when it writes, but   *)
(* for the entries that were touched since.                                *)

LEMMA OverlapIsMempool == OverlapSpec => MempoolSpec
<1>1. OverlapInit => MempoolInit
  BY DEF OverlapInit
<1>2. [OverlapNext]_overlapVars => [MempoolNext]_vars
  BY DEF OverlapNext, overlapVars
<1> QED
  BY <1>1, <1>2, PTL DEF OverlapSpec, MempoolSpec

(* What p's call sees differs from the pool by touched entries at most.    *)
SeesTheRest(p) ==
    call[p].pc \in {"classify", "check", "roles"} =>
        \A k \in Hash \ touched[p] : k \in PoolSeen(p).keys <=> k \in standardPool.keys

Untouched(p) == standardPool.keys \ touched[p]

Found(p) ==
    LET c == call[p]
    IN  /\ c.pc \in {"check", "roles"} => \A g \in Untouched(p) : ~SameSlot(g, c.hash)
        /\ c.pc = "commit" /\ c.old = None => \A g \in Untouched(p) : g \notin Rivals(c.hash)
        /\ c.pc = "commit" /\ c.old # None => c.old \in standardPool.keys \cup touched[p]
        /\ c.pc \in {"remove", "setStatus"} => c.old \in standardPool.keys \cup touched[p]
        /\ c.pc = "setStatus" => c.status \in {"pending", "failed"}
        /\ c.pc = "ban" => c.picked.keys \subseteq standardPool.keys \cup touched[p]
        /\ c.pc = "mark" => c.picked.keys \subseteq Pending \cup touched[p]

Holds(p) == SeesTheRest(p) /\ Found(p)

(* A hash that is not pooled has no status left.                           *)
NoStatusLeft == \A k \in Hash \ standardPool.keys : entryStatus[k] = "pending"

OverlapInv ==
    /\ touched \in [Proc -> SUBSET Hash]
    /\ NoStatusLeft
    /\ \A p \in Proc : Holds(p)

LEMMA OverlapInvInit == OverlapInit => OverlapInv
BY DEF OverlapInit, MempoolInit, OverlapInv, Idle, EmptyPool, NoStatusLeft, Holds, SeesTheRest,
       Found

-----------------------------------------------------------------------------
(* The history variable.                                                   *)

LEMMA TouchType ==
    ASSUME touched \in [Proc -> SUBSET Hash], Touch
    PROVE  touched' \in [Proc -> SUBSET Hash]
BY DEF Touch, Changed

(* What is not touched by the end of a step was not touched before, and    *)
(* the step leaves it alone.                                               *)
LEMMA TouchFacts ==
    ASSUME touched \in [Proc -> SUBSET Hash], Touch, NEW p \in Proc,
           call[p].pc \notin Unread, call'[p].pc \notin Unread,
           NEW k \in Hash \ touched'[p]
    PROVE  /\ k \notin touched[p] /\ k \notin Changed
           /\ k \in standardPool.keys <=> k \in standardPool'.keys
           /\ entryStatus'[k] = entryStatus[k]
<1>1. touched'[p] = touched[p] \cup Changed
  BY DEF Touch
<1>2. k \notin touched[p] /\ k \notin Changed
  BY <1>1
<1> QED
  BY <1>2 DEF Changed

(* A call that has read nothing, or has written, holds nothing.            *)
LEMMA NothingHeld ==
    ASSUME NEW p \in Proc, call'[p].pc \in Unread
    PROVE  Holds(p)'
BY DEF Holds, SeesTheRest, Found, Unread

(* A call that stays where it is goes on finding what it found.            *)
LEMMA FoundStays ==
    ASSUME TypeInv, TypeInv', touched \in [Proc -> SUBSET Hash], Touch, NEW p \in Proc,
           Found(p), call'[p] = call[p]
    PROVE  Found(p)'
<1>0. call[p] \in Calls /\ CallOK(call[p]) /\ standardPool' \in Pools
  BY DEF TypeInv, MempoolTypeOK
<1>1. CASE call[p].pc \in Unread
  BY <1>1 DEF Unread, Found
<1>2. CASE call[p].pc \notin Unread
  <2>1. \A k \in Hash \ touched'[p] :
           /\ k \notin touched[p]
           /\ k \in standardPool.keys <=> k \in standardPool'.keys
           /\ entryStatus'[k] = entryStatus[k]
    BY <1>2, TouchFacts
  <2>2. call[p].picked.keys \subseteq Hash /\ call[p].old \in Hash \cup {None}
    BY <1>0 DEF Calls, Pools
  <2>3. Untouched(p)' \subseteq Untouched(p)
    <3>1. standardPool'.keys \subseteq Hash
      BY <1>0 DEF Pools
    <3> QED
      BY <2>1, <3>1 DEF Untouched
  <2>4. \A k \in Hash : k \in standardPool.keys \cup touched[p]
                          => k \in standardPool'.keys \cup touched'[p]
    BY <2>1
  <2>5. \A k \in Hash : k \in Pending \cup touched[p] => k \in Pending' \cup touched'[p]
    BY <2>1 DEF Pending
  <2>6. /\ call[p].pc \in {"remove", "setStatus"} => call[p].old \in Hash
        /\ call[p].pc = "commit" /\ call[p].old # None => call[p].old \in Hash
    BY <1>0, <2>2 DEF CallOK
  <2> QED
    BY <2>2, <2>3, <2>4, <2>5, <2>6 DEF Found, Rivals, SameSlot, SenderOf
<1> QED
  BY <1>1, <1>2

(* The steps of one call leave those of the others what they hold.         *)
LEMMA OthersHold ==
    ASSUME TypeInv, TypeInv', touched \in [Proc -> SUBSET Hash], Touch,
           NEW p \in Proc, AddStep(p) \/ RemoveStep(p) \/ BundleStep(p),
           NEW q \in Proc, q # p, Holds(q)
    PROVE  Holds(q)'
<1>0. call \in [Proc -> Calls] /\ WellFormed(standardPool) /\ poolView \in [Proc -> PoolViews]
  BY DEF TypeInv, MempoolTypeOK, WellFormed
<1>1. call'[q] = call[q]
  <2>1. CASE CommitReplacement(p)
    BY <1>0, <2>1 DEF CommitReplacement, Goto
  <2> QED
    BY <2>1, OtherCalls
<1>2. Found(q)'
  BY <1>1, FoundStays DEF Holds
<1>3. SeesTheRest(q)'
  <2> SUFFICES ASSUME call[q].pc \in {"classify", "check", "roles"}, NEW k \in Hash \ touched'[q]
               PROVE  k \in PoolSeen(q)'.keys <=> k \in standardPool'.keys
    BY <1>1 DEF SeesTheRest
  <2>1. /\ k \notin touched[q] /\ k \notin Changed
        /\ k \in standardPool.keys <=> k \in standardPool'.keys
    BY <1>1, TouchFacts DEF Unread
  <2>2. k \in PoolSeen(q).keys <=> k \in standardPool.keys
    BY <2>1 DEF Holds, SeesTheRest
  <2>3. CASE PoolSeen(q)' = PoolSeen(q) \/ PoolSeen(q)' = standardPool'
    BY <2>1, <2>2, <2>3
  <2>4. CASE CommitReplacement(p)
    <3> DEFINE rest == Without(standardPool, {call[p].old})
    <3>1. rest.keys = standardPool.keys \ {call[p].old}
      BY <1>0, WithoutType
    <3>2. standardPool'.keys = (standardPool.keys \ {call[p].old}) \cup {call[p].hash}
      BY <2>4, ReplacementWrites
    <3>3. call'[p] # call[p] /\ At(p, "commit")
      BY <2>4, ReplacementWrites DEF CommitReplacement, At
    <3>4. k # call[p].hash
      BY <2>1, <3>3 DEF Changed
    <3>5. k \in rest.keys <=> k \in standardPool.keys
      BY <2>1, <3>1, <3>2, <3>4
    <3>6. PoolSeen(q)' = PoolSeen(q) \/ PoolSeen(q)' = rest
      BY <1>0, <2>4 DEF CommitReplacement, ReplacePool, PoolSeen
    <3> HIDE DEF rest
    <3> QED
      BY <2>1, <2>2, <3>5, <3>6
  <2> QED
    BY <2>3, <2>4, OtherCalls
<1> QED
  BY <1>2, <1>3 DEF Holds

-----------------------------------------------------------------------------
(* What a step finds for its own call.                                     *)

LEMMA OwnAddHolds ==
    ASSUME TypeInv, TypeInv', touched \in [Proc -> SUBSET Hash], Touch, NEW p \in Proc,
           AddStep(p), Holds(p), ReplacementInv
    PROVE  Holds(p)'
<1>c. /\ call[p] \in Calls /\ CallOK(call[p]) /\ call \in [Proc -> Calls]
      /\ poolView \in [Proc -> PoolViews] /\ standardPool \in Pools
  BY DEF TypeInv, MempoolTypeOK
<1>h. call[p].pc \in AddSteps => call[p].hash \in Hash
  BY <1>c DEF CallOK
<1>t. ASSUME call[p].pc \notin Unread, call'[p].pc \notin Unread
      PROVE  touched[p] \subseteq touched'[p]
  BY <1>t DEF Touch
<1>k. standardPool.keys \subseteq Hash
  BY <1>c DEF Pools
<1>1. ASSUME NEW h \in Hash, AddUserOp(p, h)
      PROVE  Holds(p)'
  <2>1. call'[p].pc = "snapshot"
    BY <1>1, <1>c DEF AddUserOp, Idle
  <2> QED
    BY <2>1, NothingHeld DEF Unread
<1>2. ASSUME Snapshot(p)
      PROVE  Holds(p)'
  <2>1. call'[p].pc = "classify" /\ poolView'[p].live
    BY <1>2, <1>c DEF Snapshot, Goto, LivePool, Calls
  <2>2. PoolSeen(p)' = standardPool'
    BY <2>1 DEF PoolSeen
  <2> QED
    BY <2>1, <2>2 DEF Holds, SeesTheRest, Found
<1>3. ASSUME ClassifyAsNew(p)
      PROVE  Holds(p)'
  <2>1. /\ call[p].pc = "classify" /\ call'[p].pc = "check"
        /\ call'[p].hash = call[p].hash /\ UNCHANGED <<standardPool, poolView>>
    BY <1>3, <1>c DEF ClassifyAsNew, At, Goto, Calls, poolVars
  <2>2. touched[p] \subseteq touched'[p]
    BY <1>t, <2>1 DEF Unread
  <2>3. \A k \in Hash \ touched[p] : k \in PoolSeen(p).keys <=> k \in standardPool.keys
    BY <2>1 DEF Holds, SeesTheRest
  <2>4. \A g \in Untouched(p) : ~SameSlot(g, call[p].hash)
    BY <1>3, <1>k, <2>3 DEF ClassifyAsNew, Matches, Untouched
  <2>5. SeesTheRest(p)'
    BY <2>1, <2>2, <2>3 DEF SeesTheRest, PoolSeen
  <2>6. Found(p)'
    BY <2>1, <2>2, <2>4 DEF Found, Untouched, SameSlot, SenderOf
  <2> QED
    BY <2>5, <2>6 DEF Holds
<1>4. ASSUME NEW old \in Hash, ClassifyAsReplacement(p, old)
      PROVE  Holds(p)'
  <2>1. /\ call[p].pc = "classify" /\ call'[p].pc = "commit" /\ call'[p].old = old
        /\ old # None /\ UNCHANGED standardPool
    BY <1>4, <1>c, UserOpAssumption DEF ClassifyAsReplacement, At, Calls, poolVars
  <2>2. touched[p] \subseteq touched'[p]
    BY <1>t, <2>1 DEF Unread
  <2>3. old \in PoolSeen(p).keys
    BY <1>4 DEF ClassifyAsReplacement, FoundOld, FirstMatch, Matches
  <2>4. old \in standardPool.keys \cup touched[p]
    BY <2>1, <2>3 DEF Holds, SeesTheRest
  <2> QED
    BY <2>1, <2>2, <2>4 DEF Holds, SeesTheRest, Found
<1>5. ASSUME \/ \E old \in Hash : RefuseUnderpriced(p, old)
             \/ RefuseForReputation(p)
             \/ RefuseUnstaked(p)
             \/ RefuseForRoles(p)
      PROVE  Holds(p)'
  <2>1. Refuse(p)
    BY <1>5 DEF RefuseUnderpriced, RefuseForReputation, RefuseUnstaked, RefuseForRoles
  <2>2. call'[p].pc = "idle"
    BY <2>1, <1>c DEF Refuse, Idle
  <2> QED
    BY <2>2, NothingHeld DEF Unread
<1>6. ASSUME CheckEntity(p)
      PROVE  Holds(p)'
  <2>1. /\ call[p].pc = "check" /\ call'[p].pc \in {"check", "roles"}
        /\ call'[p].hash = call[p].hash /\ UNCHANGED <<standardPool, poolView>>
    <3>1. CASE NextEntity(call[p].hash, call[p].place) = 5
      BY <1>6, <1>c, <3>1 DEF CheckEntity, At, Goto, Calls, poolVars
    <3>2. CASE NextEntity(call[p].hash, call[p].place) # 5
      BY <1>6, <1>c, <3>2 DEF CheckEntity, At, Calls, poolVars
    <3> QED
      BY <3>1, <3>2
  <2>2. touched[p] \subseteq touched'[p]
    BY <1>t, <2>1 DEF Unread
  <2>3. SeesTheRest(p)'
    BY <2>1, <2>2 DEF Holds, SeesTheRest, PoolSeen
  <2>4. \A g \in Untouched(p) : ~SameSlot(g, call[p].hash)
    BY <2>1 DEF Holds, Found
  <2>5. Found(p)'
    BY <2>1, <2>2, <2>4 DEF Found, Untouched, SameSlot, SenderOf
  <2> QED
    BY <2>3, <2>5 DEF Holds
<1>7. ASSUME CheckRoles(p)
      PROVE  Holds(p)'
  <2> DEFINE h == call[p].hash
  <2>1. /\ call[p].pc = "roles" /\ call'[p].pc = "commit" /\ call'[p].old = call[p].old
        /\ call'[p].hash = h /\ UNCHANGED standardPool
    BY <1>7, <1>c DEF CheckRoles, At, Goto, Calls, poolVars
  <2>2. touched[p] \subseteq touched'[p] /\ call[p].old = None
    BY <1>t, <2>1 DEF Unread, ReplacementInv
  <2>3. \A k \in Hash \ touched[p] : k \in PoolSeen(p).keys <=> k \in standardPool.keys
    BY <2>1 DEF Holds, SeesTheRest
  <2>4. \A g \in Untouched(p) : ~SameSlot(g, h)
    BY <2>1 DEF Holds, Found
  <2>5. \A g \in PoolSeen(p).keys : SenderOf(g) \notin HelpersOf(h) /\ SenderOf(h) \notin HelpersOf(g)
    BY <1>7 DEF CheckRoles, ViolatesRoles, KnownSenders, KnownEntities
  <2>6. \A g \in Untouched(p) : g \notin Rivals(h)
    BY <1>k, <2>3, <2>4, <2>5 DEF Untouched, Rivals
  <2> QED
    BY <2>1, <2>2, <2>6 DEF Holds, SeesTheRest, Found, Untouched, Rivals, SameSlot, SenderOf,
                            HelpersOf, AccountOf
<1>8. ASSUME CommitReplacement(p) \/ CommitNew(p) \/ SeenSender(p) \/ SeenHelpers(p)
      PROVE  Holds(p)'
  <2>1. CASE CommitReplacement(p) \/ CommitNew(p)
    BY <2>1, ReplacementWrites, AdmissionWrites, NothingHeld DEF Unread
  <2>2. CASE SeenSender(p) \/ SeenHelpers(p)
    <3>1. call'[p].pc \in {"idle", "seenHelpers"}
      BY <2>2, <1>c DEF SeenSender, SeenHelpers, Idle, Calls
    <3> QED
      BY <3>1, NothingHeld DEF Unread
  <2> QED
    BY <1>8, <2>1, <2>2
<1>9. \A h \in Offers[p] : h \in Hash
  BY MempoolAssumption
<1> QED
  BY <1>1, <1>2, <1>3, <1>4, <1>5, <1>6, <1>7, <1>8, <1>9 DEF AddStep

LEMMA OwnOtherHolds ==
    ASSUME TypeInv, NEW p \in Proc, RemoveStep(p) \/ BundleStep(p), Holds(p)
    PROVE  Holds(p)'
<1>c. call \in [Proc -> Calls] /\ WellFormed(standardPool)
  BY DEF TypeInv, MempoolTypeOK, WellFormed
<1>1. ASSUME NEW h \in standardPool.keys, FoundForRemoval(p, h)
      PROVE  Holds(p)'
  <2>1. call'[p].pc = "remove" /\ call'[p].old = h /\ UNCHANGED standardPool
    BY <1>1, <1>c DEF FoundForRemoval, Idle, poolVars
  <2> QED
    BY <2>1 DEF Holds, SeesTheRest, Found
<1>2. ASSUME NEW a \in Address, BanSelect(p, a)
      PROVE  Holds(p)'
  <2> DEFINE found == {h \in standardPool.keys : a \in Spelled(h)}
             some == Without(standardPool, standardPool.keys \ found)
  <2>1. call' = [call EXCEPT ![p] = [Idle EXCEPT !.pc = "ban", !.picked = some]]
        /\ UNCHANGED standardPool
    BY <1>2 DEF BanSelect, poolVars
  <2>2. some.keys \subseteq standardPool.keys
    BY <1>c, WithoutType
  <2> HIDE DEF some
  <2>3. call'[p].pc = "ban" /\ call'[p].picked = some
    BY <1>c, <2>1 DEF Idle
  <2> QED
    BY <2>1, <2>2, <2>3 DEF Holds, SeesTheRest, Found
<1>3. ASSUME NEW function, NEW hashes, hashes \subseteq Pending, Pick(p, function, hashes)
      PROVE  Holds(p)'
  <2> DEFINE some == Without(standardPool, standardPool.keys \ hashes)
  <2>1. some.keys \subseteq Pending
    <3>1. some.keys = standardPool.keys \ (standardPool.keys \ hashes)
      BY <1>c, WithoutType
    <3> QED
      BY <3>1, <1>3
  <2>2. call' = [call EXCEPT ![p] = [Idle EXCEPT !.pc = "mark", !.picked = some]]
        /\ UNCHANGED <<standardPool, entryStatus>>
    BY <1>3 DEF Pick, poolVars
  <2> HIDE DEF some
  <2>3. call'[p].pc = "mark" /\ call'[p].picked = some /\ Pending' = Pending
    BY <1>c, <2>2 DEF Idle, Pending
  <2> QED
    BY <2>1, <2>3 DEF Holds, SeesTheRest, Found
<1>4. ASSUME NEW h \in Hash, NEW status \in {"pending", "failed"}, ReadEntry(p, h, status)
      PROVE  Holds(p)'
  <2>1. /\ call'[p].pc = "setStatus" /\ call'[p].old = h /\ h \in standardPool.keys
        /\ call'[p].status = status /\ UNCHANGED standardPool
    BY <1>4, <1>c DEF ReadEntry, Idle, poolVars
  <2> QED
    BY <2>1 DEF Holds, SeesTheRest, Found
<1>5. ASSUME \/ Remove(p) \/ BanRemove(p) \/ ClearState(p) \/ ClearLedger(p)
             \/ Mark(p) \/ SetStatus(p)
      PROVE  Holds(p)'
  <2>1. call'[p].pc = "idle"
    BY <1>5, <1>c DEF Remove, BanRemove, ClearState, ClearLedger, Mark, SetStatus, Start,
                      mempoolVars, Idle
  <2> QED
    BY <2>1, NothingHeld DEF Unread
<1> QED
  BY <1>1, <1>2, <1>3, <1>4, <1>5
     DEF RemoveStep, BundleStep, RemoveByHash, RemoveByUserOp, GetNextPending, GetAllPending

(* What the other writing steps do to the pool.                            *)
LEMMA RemovalWrites ==
    ASSUME TypeInv, NEW p \in Proc, Remove(p) \/ BanRemove(p) \/ ClearState(p)
    PROVE  \E gone :
             /\ standardPool'.keys = standardPool.keys \ gone
             /\ \A k \in Hash : entryStatus'[k] = IF k \in gone THEN "pending" ELSE entryStatus[k]
<1>0. WellFormed(standardPool) /\ standardPool.keys \subseteq Hash
  BY DEF TypeInv, MempoolTypeOK, WellFormed, Pools
<1>1. CASE Remove(p)
  <2>1. standardPool'.keys = standardPool.keys \ {call[p].old}
    BY <1>0, <1>1, WithoutType DEF Remove, ChangePool
  <2>2. \A k \in Hash : entryStatus'[k] = IF k \in {call[p].old} THEN "pending" ELSE entryStatus[k]
    BY <1>1 DEF Remove, StatusSet
  <2> QED
    BY <2>1, <2>2
<1>2. CASE BanRemove(p)
  <2>1. standardPool'.keys = standardPool.keys \ call[p].picked.keys
    BY <1>0, <1>2, WithoutType DEF BanRemove, ChangePool
  <2>2. \A k \in Hash : entryStatus'[k] = IF k \in call[p].picked.keys THEN "pending"
                                          ELSE entryStatus[k]
    BY <1>2 DEF BanRemove, StatusSet
  <2> QED
    BY <2>1, <2>2
<1>3. CASE ClearState(p)
  <2>1. standardPool'.keys = standardPool.keys \ Hash
    BY <1>0, <1>3 DEF ClearState, ReplacePool, EmptyPool
  <2>2. \A k \in Hash : entryStatus'[k] = IF k \in Hash THEN "pending" ELSE entryStatus[k]
    BY <1>3 DEF ClearState, StatusSet
  <2> QED
    BY <2>1, <2>2
<1> QED
  BY <1>1, <1>2, <1>3

LEMMA StatusWrites ==
    ASSUME TypeInv, NEW p \in Proc, SetStatus(p)
    PROVE  /\ call[p].old \in Hash
           /\ standardPool'.keys = standardPool.keys \cup {call[p].old}
           /\ \A k \in Hash : entryStatus'[k] = IF k = call[p].old THEN call[p].status
                                                ELSE entryStatus[k]
<1>1. call[p].old \in Hash /\ WellFormed(standardPool)
  BY DEF TypeInv, MempoolTypeOK, WellFormed, CallOK, SetStatus, At
<1>2. standardPool'.keys = standardPool.keys \cup {call[p].old}
  BY <1>1, WithKeyType DEF SetStatus, ReplacePool
<1> QED
  BY <1>1, <1>2 DEF SetStatus, StatusSet

LEMMA StatusLeft ==
    ASSUME TypeInv, NoStatusLeft, [MempoolNext]_vars
    PROVE  NoStatusLeft'
<1>c. call \in [Proc -> Calls] /\ WellFormed(standardPool)
  BY DEF TypeInv, MempoolTypeOK, WellFormed
<1>1. CASE UNCHANGED poolVars
  BY <1>1 DEF poolVars, NoStatusLeft
<1>2. ASSUME NEW p \in Proc, CommitNew(p) \/ CommitReplacement(p)
      PROVE  NoStatusLeft'
  BY <1>2, AdmissionWrites, ReplacementWrites DEF NoStatusLeft
<1>3. ASSUME NEW p \in Proc, Remove(p) \/ BanRemove(p) \/ ClearState(p)
      PROVE  NoStatusLeft'
  BY <1>3, RemovalWrites DEF NoStatusLeft
<1>4. ASSUME NEW p \in Proc, Mark(p)
      PROVE  NoStatusLeft'
  BY <1>4 DEF Mark, StatusSet, NoStatusLeft
<1>5. ASSUME NEW p \in Proc, SetStatus(p)
      PROVE  NoStatusLeft'
  BY <1>5, StatusWrites DEF NoStatusLeft
<1> QED
  BY <1>1, <1>2, <1>3, <1>4, <1>5, Writers

LEMMA OverlapInvStep ==
    TypeInv /\ TypeInv' /\ ReplacementInv /\ OverlapInv /\ [OverlapNext]_overlapVars => OverlapInv'
<1> SUFFICES ASSUME TypeInv, TypeInv', ReplacementInv, OverlapInv, [OverlapNext]_overlapVars
             PROVE  OverlapInv'
  OBVIOUS
<1>1. CASE UNCHANGED overlapVars
  <2>1. /\ UNCHANGED <<standardPool, entryStatus, call, poolView>>
        /\ touched' = touched
    BY <1>1 DEF overlapVars, vars, mempoolVars, poolVars
  <2>2. touched' \in [Proc -> SUBSET Hash] /\ NoStatusLeft'
    BY <2>1 DEF OverlapInv, NoStatusLeft
  <2>3. ASSUME NEW q \in Proc
        PROVE  Holds(q)'
    <3>1. SeesTheRest(q)'
      BY <2>1 DEF OverlapInv, Holds, SeesTheRest, PoolSeen
    <3>2. Found(q)
      BY DEF OverlapInv, Holds
    <3>3. Found(q)'
      BY <2>1, <3>2 DEF Found, Untouched, Pending, Rivals, SameSlot, SenderOf, HelpersOf, AccountOf
    <3> QED
      BY <3>1, <3>3 DEF Holds
  <2> QED
    BY <2>2, <2>3 DEF OverlapInv
<1>2. CASE OverlapNext
  <2>1. MempoolNext /\ Touch /\ touched \in [Proc -> SUBSET Hash] /\ NoStatusLeft
    BY <1>2 DEF OverlapNext, OverlapInv
  <2>2. touched' \in [Proc -> SUBSET Hash] /\ NoStatusLeft'
    BY <2>1, TouchType, StatusLeft
  <2>3. ASSUME NEW q \in Proc
        PROVE  Holds(q)'
    <3>0. Holds(q)
      BY DEF OverlapInv
    <3>1. ASSUME NEW p \in Proc, AddStep(p) \/ RemoveStep(p) \/ BundleStep(p)
          PROVE  Holds(q)'
      <4>1. CASE q # p
        BY <2>1, <3>0, <3>1, <4>1, OthersHold
      <4>2. CASE q = p
        BY <2>1, <3>0, <3>1, <4>2, OwnAddHolds, OwnOtherHolds
      <4> QED
        BY <4>1, <4>2
    <3>2. CASE OtherReputationChange
      <4>1. call' = call /\ UNCHANGED <<standardPool, entryStatus, poolView>>
        BY <3>2 DEF OtherReputationChange, mempoolVars, poolVars
      <4>2. Found(q)'
        BY <2>1, <3>0, <4>1, FoundStays DEF Holds
      <4>3. SeesTheRest(q)'
        <5>1. call[q].pc \notin Unread => touched[q] \subseteq touched'[q]
          BY <2>1, <4>1 DEF Touch
        <5> QED
          BY <3>0, <4>1, <5>1 DEF Holds, SeesTheRest, PoolSeen, Unread
      <4> QED
        BY <4>2, <4>3 DEF Holds
    <3> QED
      BY <2>1, <3>1, <3>2 DEF MempoolNext
  <2> QED
    BY <2>2, <2>3 DEF OverlapInv
<1> QED
  BY <1>1, <1>2

LEMMA OverlapInvHolds == OverlapSpec => [](TypeInv /\ ReplacementInv /\ OverlapInv)
<1>1. OverlapSpec => []TypeInv /\ []ReplacementInv
  BY OverlapIsMempool, TypeInvHolds, ReplacementInvHolds, PTL
<1> QED
  BY <1>1, OverlapInvInit, OverlapInvStep, PTL DEF OverlapSpec

RacedPooled == raced \subseteq standardPool.keys

(* The mempool, the calls and the history keep their types when calls       *)
(* overlap.                                                                *)
THEOREM OverlapTypeCorrect == OverlapSpec => []OverlapTypeOK
<1>1. OverlapInit => RacedPooled
  BY DEF OverlapInit, RacedPooled
<1>2. RacedPooled /\ [OverlapNext]_overlapVars => RacedPooled'
  BY DEF RacedPooled, OverlapNext, Race, overlapVars, vars, mempoolVars, poolVars
<1>3. OverlapSpec => []RacedPooled
  BY <1>1, <1>2, PTL DEF OverlapSpec
<1>4. TypeInv /\ OverlapInv /\ RacedPooled => OverlapTypeOK
  BY DEF TypeInv, OverlapInv, OverlapTypeOK, RacedPooled
<1> QED
  BY <1>3, <1>4, OverlapInvHolds, PTL

-----------------------------------------------------------------------------
(* A step that was not overtaken is a step of the abstract mempool.        *)

LEMMA AtomicSame ==
    /\ \A g, h : Atomic!SameSlot(g, h) <=> SameSlot(g, h)
    /\ \A g, h : Atomic!PaysMore(g, h) <=> PaysMore(g, h)
    /\ \A h : Atomic!SenderOf(h) = SenderOf(h) /\ Atomic!HelpersOf(h) = HelpersOf(h)
BY DEF SameSlot, SenderOf, PaysMore, Raises, HelpersOf, AccountOf, Atomic!SameSlot,
       Atomic!SenderOf, Atomic!PaysMore, Atomic!Raises, Atomic!HelpersOf, Atomic!AccountOf

(* What a writing step relies on, when nothing of it was touched.          *)
InTime(p) == Holds(p) /\ ~Overtaken(p) /\ touched \in [Proc -> SUBSET Hash]

LEMMA AtomicAdmit ==
    ASSUME TypeInv, NEW p \in Proc, CommitNew(p), InTime(p)
    PROVE  Atomic!AtomicNext
<1> DEFINE h == call[p].hash
<1>1. h \in Hash /\ standardPool'.keys = standardPool.keys \cup {h}
  BY AdmissionWrites
<1>2. entryStatus' = Atomic!MarkedAs({h}, "pending")
  BY DEF CommitNew, StatusSet, Atomic!MarkedAs
<1>3. standardPool.keys \subseteq Hash
  BY DEF TypeInv, MempoolTypeOK, Pools
<1>4. \A g \in standardPool.keys : g \notin Rivals(h)
  <2>1. call[p].pc = "commit" /\ call[p].old = None
    BY DEF CommitNew, At
  <2>2. \A g \in Untouched(p) : g \notin Rivals(h)
    BY <2>1 DEF InTime, Holds, Found
  <2>3. \A g \in Rivals(h) : g \notin touched[p]
    BY <2>1 DEF InTime, Overtaken, Relies, At, Rivals
  <2> QED
    BY <2>2, <2>3 DEF Untouched
<1>5. \A g \in standardPool.keys :
         ~SameSlot(g, h) /\ SenderOf(g) \notin HelpersOf(h) /\ SenderOf(h) \notin HelpersOf(g)
  BY <1>3, <1>4 DEF Rivals
<1> HIDE DEF h
<1>6. Atomic!Admit(h)
  BY <1>1, <1>2, <1>5, AtomicSame DEF Atomic!Admit
<1> QED
  BY <1>1, <1>6 DEF Atomic!AtomicNext

LEMMA AtomicReplace ==
    ASSUME TypeInv, ReplacementInv, NEW p \in Proc, CommitReplacement(p), InTime(p)
    PROVE  Atomic!AtomicNext
<1> DEFINE h == call[p].hash
           old == call[p].old
<1>1. /\ h \in Hash /\ standardPool'.keys = (standardPool.keys \ {old}) \cup {h}
      /\ call[p].pc = "commit" /\ old # None
  BY ReplacementWrites DEF CommitReplacement, At
<1>2. old \in Hash /\ SameSlot(old, h) /\ PaysMore(h, old)
  BY <1>1 DEF ReplacementInv
<1>3. old \in standardPool.keys
  <2>1. old \in Relies(p)
    BY <1>1, <1>2 DEF Relies
  <2> QED
    BY <1>1, <2>1 DEF InTime, Overtaken, Holds, Found
<1>4. entryStatus' = Atomic!MarkedAs({old, h}, "pending")
  BY DEF CommitReplacement, StatusSet, Atomic!MarkedAs
<1>5. Atomic!Replace(old, h)
  BY <1>1, <1>2, <1>4, AtomicSame DEF Atomic!Replace
<1> QED
  BY <1>1, <1>3, <1>5 DEF Atomic!AtomicNext

LEMMA AtomicDrop ==
    ASSUME TypeInv, NoStatusLeft, NEW p \in Proc, Remove(p) \/ BanRemove(p) \/ ClearState(p),
           InTime(p)
    PROVE  Atomic!AtomicNext
<1>0. WellFormed(standardPool) /\ call[p] \in Calls
  BY DEF TypeInv, MempoolTypeOK, WellFormed
<1>1. PICK gone :
        /\ standardPool'.keys = standardPool.keys \ gone
        /\ \A k \in Hash : entryStatus'[k] = IF k \in gone THEN "pending" ELSE entryStatus[k]
  BY RemovalWrites
<1> DEFINE some == gone \cap standardPool.keys
<1>2. standardPool'.keys = standardPool.keys \ some
  BY <1>1
<1>3. \A k \in Hash : entryStatus'[k] = IF k \in some THEN "pending" ELSE entryStatus[k]
  BY <1>1 DEF NoStatusLeft
<1>4. DOMAIN entryStatus' = Hash /\ entryStatus' = [k \in DOMAIN entryStatus' |-> entryStatus'[k]]
  BY DEF Remove, BanRemove, ClearState, StatusSet
<1> HIDE DEF some
<1>5. entryStatus' = Atomic!MarkedAs(some, "pending")
  BY <1>3, <1>4 DEF Atomic!MarkedAs
<1>6. Atomic!Drop(some)
  BY <1>2, <1>5 DEF Atomic!Drop
<1>7. some \in SUBSET standardPool.keys
  BY DEF some
<1> QED
  BY <1>6, <1>7 DEF Atomic!AtomicNext

LEMMA AtomicMark ==
    ASSUME TypeInv, NEW p \in Proc, Mark(p), InTime(p)
    PROVE  Atomic!AtomicNext
<1> DEFINE picked == call[p].picked.keys
<1>1. call[p].pc = "mark" /\ picked \subseteq Hash /\ standardPool' = standardPool
  BY DEF Mark, At, TypeInv, MempoolTypeOK, Calls, Pools
<1>2. picked \subseteq Pending
  <2>1. picked \cap touched[p] = {}
    BY <1>1 DEF InTime, Overtaken, Relies
  <2> QED
    BY <1>1, <2>1 DEF InTime, Holds, Found
<1>3. picked \ standardPool.keys = {} /\ picked \ {} = picked
  BY <1>2 DEF Pending
<1>4. entryStatus' = Atomic!MarkedAs(picked, "bundling")
  BY <1>3 DEF Mark, StatusSet, Atomic!MarkedAs
<1>5. Atomic!HandOut(picked) /\ picked \in SUBSET standardPool.keys
  BY <1>1, <1>2, <1>4 DEF Atomic!HandOut, Pending
<1> QED
  BY <1>5 DEF Atomic!AtomicNext

LEMMA AtomicStatus ==
    ASSUME TypeInv, NEW p \in Proc, SetStatus(p), InTime(p)
    PROVE  Atomic!AtomicNext
<1> DEFINE h == call[p].old
<1>1. call[p].pc = "setStatus" /\ h \in Hash /\ standardPool'.keys = standardPool.keys \cup {h}
  BY StatusWrites DEF SetStatus, At
<1>2. h \in standardPool.keys
  <2>1. h \in Relies(p)
    BY <1>1 DEF Relies
  <2> QED
    BY <1>1, <2>1 DEF InTime, Overtaken, Holds, Found
<1>3. entryStatus' = Atomic!MarkedAs({h}, call[p].status)
  BY DEF SetStatus, StatusSet, Atomic!MarkedAs
<1>4. Atomic!SetStatusTo(h, call[p].status)
  BY <1>1, <1>2, <1>3 DEF Atomic!SetStatusTo
<1>5. call[p].status \in {"pending", "failed"}
  BY <1>1 DEF InTime, Holds, Found
<1> QED
  BY <1>2, <1>4, <1>5 DEF Atomic!AtomicNext

(* A step that writes on behalf of p is one of p's call.                   *)
LEMMA WritersMove ==
    ASSUME TypeInv, NEW p \in Proc,
           CommitNew(p) \/ CommitReplacement(p) \/ Remove(p) \/ BanRemove(p) \/ Mark(p) \/ SetStatus(p)
    PROVE  call'[p] # call[p]
<1>0. call \in [Proc -> Calls]
  BY DEF TypeInv, MempoolTypeOK
<1>1. CASE CommitNew(p) \/ CommitReplacement(p)
  BY <1>1, AdmissionWrites, ReplacementWrites DEF CommitNew, CommitReplacement, At
<1>2. CASE Remove(p) \/ BanRemove(p) \/ Mark(p) \/ SetStatus(p)
  <2>1. call'[p].pc = "idle"
    BY <1>0, <1>2 DEF Remove, BanRemove, Mark, SetStatus, Idle
  <2>2. call[p].pc # "idle"
    BY <1>2 DEF Remove, BanRemove, Mark, SetStatus, At
  <2> QED
    BY <2>1, <2>2
<1> QED
  BY <1>1, <1>2

(* However calls overlap, a call is one atomic step of the abstract        *)
(* mempool unless an entry it relies on was touched between its reading    *)
(* and its write: for any number of calls, of any kind.                    *)
THEOREM OverlapIsAtomic == OverlapSpec => AtomicUnlessOvertaken
<1>1. ASSUME TypeInv, ReplacementInv, OverlapInv, [OverlapNext]_overlapVars
      PROVE  [ \/ \E p \in Proc : WritesOvertaken(p)
               \/ Atomic!AtomicNext
               \/ UNCHANGED Atomic!atomicVars ]_overlapVars
  <2>1. [MempoolNext]_vars
    BY <1>1 DEF OverlapNext, overlapVars
  <2>2. UNCHANGED poolVars => UNCHANGED Atomic!atomicVars
    BY DEF poolVars, Atomic!atomicVars
  <2>3. ASSUME NEW p \in Proc, ~WritesOvertaken(p),
               \/ CommitNew(p) \/ CommitReplacement(p)
               \/ Remove(p) \/ BanRemove(p) \/ ClearState(p)
               \/ Mark(p) \/ SetStatus(p)
        PROVE  Atomic!AtomicNext
    <3>1. ~ClearState(p) => ~Overtaken(p)
      BY <1>1, <2>3, WritersMove DEF WritesOvertaken
    <3>2. ClearState(p) => ~Overtaken(p)
      BY DEF ClearState, Start, Overtaken, Relies, At
    <3>3. InTime(p) /\ NoStatusLeft
      BY <1>1, <3>1, <3>2 DEF InTime, OverlapInv
    <3> QED
      BY <1>1, <2>3, <3>3, AtomicAdmit, AtomicReplace, AtomicDrop, AtomicMark, AtomicStatus
  <2> QED
    BY <2>1, <2>2, <2>3, Writers
<1> QED
  BY <1>1, OverlapInvHolds, PTL DEF OverlapSpec, AtomicUnlessOvertaken

-----------------------------------------------------------------------------
(* Two entries of one sender and nonce.                                    *)

LEMMA SlotFacts ==
    /\ \A h : SameSlot(h, h)
    /\ \A g, h : SameSlot(g, h) => SameSlot(h, g)
    /\ \A f, g, h : SameSlot(f, g) /\ SameSlot(g, h) => SameSlot(f, h)
BY DEF SameSlot

(* A step that puts n into the pool, for the sender and nonce of n, keeps   *)
(* the record of what is doubled if it replaces an entry of that sender    *)
(* and nonce, or if the call was overtaken about them.                     *)
LEMMA RaceStep ==
    ASSUME TypeInv, DoubledOnlyByRace, Race, NEW p \in Proc, NEW n \in Hash,
           standardPool'.keys \subseteq standardPool.keys \cup {n},
           \A o \in standardPool.keys \cap standardPool'.keys :
               SameSlot(o, n) /\ o # n /\ n \notin standardPool.keys =>
                   \/ \E k \in raced : SameSlot(k, n)
                   \/ Races(p, n)
    PROVE  DoubledOnlyByRace'
<1> SUFFICES ASSUME NEW h \in standardPool'.keys, NEW g \in standardPool'.keys, g # h, SameSlot(g, h)
             PROVE  h \in raced'
  BY DEF DoubledOnlyByRace, Doubled, SameSlot, SenderOf
<1>1. Doubled(standardPool'.keys, h)
  BY DEF Doubled
<1>2. (\E k \in raced : SameSlot(k, h)) \/ Races(p, h)
  <2>1. CASE g \in standardPool.keys /\ h \in standardPool.keys
    <3>1. h \in raced
      BY <2>1 DEF DoubledOnlyByRace, Doubled
    <3> QED
      BY <3>1, SlotFacts
  <2>2. CASE g \notin standardPool.keys \/ h \notin standardPool.keys
    <3>1. PICK o \in {g, h} : /\ o \in standardPool.keys \cap standardPool'.keys
                              /\ o # n /\ n \notin standardPool.keys /\ n \in {g, h}
      BY <2>2
    <3>2. SameSlot(o, n) /\ SameSlot(n, h)
      BY <3>1, SlotFacts
    <3>3. (\E k \in raced : SameSlot(k, n)) \/ Races(p, n)
      BY <3>1, <3>2
    <3>4. Races(p, n) => Races(p, h)
      BY <3>2, SlotFacts DEF Races
    <3> QED
      BY <3>2, <3>3, <3>4, SlotFacts
  <2> QED
    BY <2>1, <2>2
<1> QED
  BY <1>1, <1>2 DEF Race

(* Fewer entries double none.                                              *)
LEMMA FewerEntries ==
    ASSUME DoubledOnlyByRace, Race, standardPool'.keys \subseteq standardPool.keys
    PROVE  DoubledOnlyByRace'
<1> SUFFICES ASSUME NEW h \in standardPool'.keys, NEW g \in standardPool'.keys, g # h, SameSlot(g, h)
             PROVE  h \in raced'
  BY DEF DoubledOnlyByRace, Doubled, SameSlot, SenderOf
<1>1. h \in raced /\ SameSlot(h, h) /\ Doubled(standardPool'.keys, h)
  BY SlotFacts DEF DoubledOnlyByRace, Doubled
<1> QED
  BY <1>1 DEF Race

LEMMA DoubledStep ==
    ASSUME TypeInv, ReplacementInv, OverlapInv, DoubledOnlyByRace, [OverlapNext]_overlapVars
    PROVE  DoubledOnlyByRace'
<1>1. CASE UNCHANGED overlapVars
  BY <1>1 DEF overlapVars, vars, mempoolVars, poolVars, DoubledOnlyByRace, Doubled, SameSlot,
              SenderOf
<1>2. CASE OverlapNext
  <2>0. /\ MempoolNext /\ Race /\ touched \in [Proc -> SUBSET Hash] /\ \A p \in Proc : Holds(p)
        /\ standardPool.keys \subseteq Hash
    BY <1>2 DEF OverlapNext, OverlapInv, TypeInv, MempoolTypeOK, Pools
  <2>1. ASSUME NEW p \in Proc, CommitNew(p)
        PROVE  DoubledOnlyByRace'
    <3> DEFINE n == call[p].hash
    <3>1. /\ n \in Hash /\ standardPool'.keys = standardPool.keys \cup {n}
          /\ call[p].pc = "commit" /\ call[p].old = None /\ call'[p] # call[p]
      BY <2>1, AdmissionWrites, WritersMove DEF CommitNew, At
    <3>2. ASSUME NEW o \in standardPool.keys, SameSlot(o, n)
          PROVE  Races(p, n)
      <4>1. o \in Rivals(n) /\ o \in Relies(p)
        BY <2>0, <3>1, <3>2 DEF Rivals, Relies, At
      <4>2. o \in touched[p]
        BY <2>0, <3>1, <4>1 DEF Holds, Found, Untouched
      <4> QED
        BY <3>1, <3>2, <4>1, <4>2 DEF Races, WritesOvertaken, Overtaken
    <3> HIDE DEF n
    <3> QED
      BY <2>0, <3>1, <3>2, RaceStep
  <2>2. ASSUME NEW p \in Proc, CommitReplacement(p)
        PROVE  DoubledOnlyByRace'
    <3> DEFINE n == call[p].hash
               old == call[p].old
    <3>1. /\ n \in Hash /\ standardPool'.keys = (standardPool.keys \ {old}) \cup {n}
          /\ call[p].pc = "commit" /\ old # None /\ call'[p] # call[p]
      BY <2>2, ReplacementWrites, WritersMove DEF CommitReplacement, At
    <3>2. old \in Hash /\ SameSlot(old, n)
      BY <3>1 DEF ReplacementInv
    <3>3. ASSUME NEW o \in standardPool.keys \cap standardPool'.keys, SameSlot(o, n), o # n
          PROVE  (\E k \in raced : SameSlot(k, n)) \/ Races(p, n)
      <4>1. CASE old \in standardPool.keys
        <5>1. o # old /\ SameSlot(old, o)
          BY <3>1, <3>2, <3>3, SlotFacts
        <5>2. o \in raced
          BY <4>1, <5>1 DEF DoubledOnlyByRace, Doubled
        <5> QED
          BY <3>3, <5>2
      <4>2. CASE old \notin standardPool.keys
        <5>1. old \in touched[p]
          BY <2>0, <3>1, <4>2 DEF Holds, Found
        <5>2. old \in Relies(p)
          BY <3>1, <3>2 DEF Relies
        <5> QED
          BY <3>1, <3>2, <5>1, <5>2 DEF Races, WritesOvertaken, Overtaken
      <4> QED
        BY <4>1, <4>2
    <3> HIDE DEF n
    <3> QED
      BY <2>0, <3>1, <3>3, RaceStep
  <2>3. ASSUME NEW p \in Proc, SetStatus(p)
        PROVE  DoubledOnlyByRace'
    <3> DEFINE n == call[p].old
    <3>1. /\ n \in Hash /\ standardPool'.keys = standardPool.keys \cup {n}
          /\ call[p].pc = "setStatus" /\ call'[p] # call[p]
      BY <2>3, StatusWrites, WritersMove DEF SetStatus, At
    <3>2. ASSUME n \notin standardPool.keys
          PROVE  Races(p, n)
      <4>1. n \in touched[p] /\ n \in Relies(p)
        BY <2>0, <3>1, <3>2 DEF Holds, Found, Relies
      <4> QED
        BY <3>1, <4>1, SlotFacts DEF Races, WritesOvertaken, Overtaken
    <3> HIDE DEF n
    <3> QED
      BY <2>0, <3>1, <3>2, RaceStep
  <2>4. ASSUME NEW p \in Proc, Remove(p) \/ BanRemove(p) \/ ClearState(p)
        PROVE  DoubledOnlyByRace'
    BY <2>0, <2>4, RemovalWrites, FewerEntries
  <2>5. ASSUME NEW p \in Proc, Mark(p)
        PROVE  DoubledOnlyByRace'
    BY <2>0, <2>5, FewerEntries DEF Mark
  <2>6. UNCHANGED poolVars => DoubledOnlyByRace'
    BY <2>0, FewerEntries DEF poolVars
  <2> QED
    BY <2>0, <2>1, <2>2, <2>3, <2>4, <2>5, <2>6, Writers
<1> QED
  BY <1>1, <1>2

(* However calls overlap, a sender and nonce have two entries only when a   *)
(* call that wrote one of them was overtaken about that sender and nonce.  *)
THEOREM OverlapDoublesOnlyByRace == OverlapSpec => []DoubledOnlyByRace
<1>1. OverlapInit => DoubledOnlyByRace
  BY DEF OverlapInit, MempoolInit, EmptyPool, DoubledOnlyByRace
<1>2. TypeInv /\ ReplacementInv /\ OverlapInv /\ DoubledOnlyByRace /\ [OverlapNext]_overlapVars
        => DoubledOnlyByRace'
  BY DoubledStep
<1> QED
  BY <1>1, <1>2, OverlapInvHolds, PTL DEF OverlapSpec
=============================================================================
