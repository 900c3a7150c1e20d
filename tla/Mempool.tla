------------------------------- MODULE Mempool -------------------------------
(***************************************************************************)
(* The mempool manager.  Its calls are asynchronous: each reads the state  *)
(* (getState), decides, and writes (updateState), and the calls of other   *)
(* processes come in at the awaits.  One action is the code that runs from *)
(* one await to the next (the up to four readings of the ledger that check *)
(* one entity are one action); call[p] is where process p stands.          *)
(*                                                                         *)
(* getState hands out the state's own objects, not copies.  A call that    *)
(* keeps one across an await goes on seeing every change made to it in     *)
(* place (deletions), until some other call replaces the object by a       *)
(* changed copy: from then on it sees the object that was left behind.     *)
(* poolView[p] and countView[p] are what process p holds.                  *)
(***************************************************************************)
EXTENDS Reputation

CONSTANTS
    Proc,           \* the calls that may be in progress at a time
    Does,           \* the functions each of them calls
    Offers,         \* the operations each of them adds
    Reported,       \* accounts the bundle manager reports to the ledger
    Deposit,        \* each account's deposit at the EntryPoint
    BundleSize,     \* most entries getNextPending hands out
    SenderQuota,    \* entries an unstaked sender may have (4 in the code)
    EntityQuota,    \* entries a new unstaked helper may have (10)
    ThrottledQuota, \* count beyond which throttled entities are refused (4)
    BootWhiteList, BootBlackList    \* the lists index.ts boots with

Functions == {"addUserOp", "removeUserOp", "removeUserOpsForBannedAddr", "clearState",
              "clearReputation", "getNextPending", "getAllPending", "updateEntryStatus"}

ASSUME MempoolAssumption ==
    /\ Does \in [Proc -> SUBSET Functions]
    /\ Offers \in [Proc -> SUBSET Hash]
    /\ Reported \subseteq Account
    /\ Deposit \in [Account -> Nat]
    /\ BundleSize \in Nat \ {0}
    /\ {SenderQuota, EntityQuota, ThrottledQuota} \subseteq Nat
    /\ BootWhiteList \subseteq Address /\ BootBlackList \subseteq Address

VARIABLES
    standardPool,       \* the entries' hashes, and which was inserted before which
    entryStatus,        \* the status of each entry; "pending" for a hash not in the pool
    mempoolEntryCount,  \* the count stored under each address; 0 when there is none
    call,               \* each process's call in progress
    poolView,           \* the standardPool object each call holds
    countView           \* the mempoolEntryCount object each call holds

poolVars == <<standardPool, entryStatus, mempoolEntryCount>>
mempoolVars == <<poolVars, call, poolView, countView>>
vars == <<mempoolVars, repVars>>

EntryStatuses == {"pending", "bundling", "failed"}

Pools == [keys : SUBSET Hash, precedes : SUBSET (Hash \X Hash)]
EmptyPool == [keys |-> {}, precedes |-> {}]

Counts == [Address -> Nat]
NoCounts == [a \in Address |-> 0]

PoolViews == [live : BOOLEAN, pool : Pools]
CountViews == [live : BOOLEAN, count : Counts]
LivePool == [live |-> TRUE, pool |-> EmptyPool]
NoPool == [live |-> FALSE, pool |-> EmptyPool]
LiveCount == [live |-> TRUE, count |-> NoCounts]
NoCount == [live |-> FALSE, count |-> NoCounts]

Steps == {"idle", "snapshot", "classify", "check", "roles", "commit", "seenSender",
          "seenHelpers", "remove", "ban", "mark", "setStatus"}

(* hash is the operation the call is about, old the entry it found, place  *)
(* the entity it checks, picked the entries it collected.                  *)
Calls == [pc : Steps, hash : Hash \cup {None}, old : Hash \cup {None}, place : 1..4,
          status : EntryStatuses, picked : Pools]
Idle == [pc |-> "idle", hash |-> None, old |-> None, place |-> 1,
         status |-> "pending", picked |-> EmptyPool]

MempoolTypeOK ==
    /\ standardPool \in Pools
    /\ standardPool.precedes \subseteq standardPool.keys \X standardPool.keys
    /\ entryStatus \in [Hash -> EntryStatuses]
    /\ mempoolEntryCount \in Counts
    /\ call \in [Proc -> Calls]
    /\ poolView \in [Proc -> PoolViews]
    /\ countView \in [Proc -> CountViews]
    /\ RepTypeOK

MempoolInit ==
    /\ standardPool = EmptyPool
    /\ entryStatus = [h \in Hash |-> "pending"]
    /\ mempoolEntryCount = NoCounts
    /\ call = [p \in Proc |-> Idle]
    /\ poolView = [p \in Proc |-> NoPool]
    /\ countView = [p \in Proc |-> NoCount]
    /\ reputationEntries = [a \in Account |-> Unknown]
    /\ whiteList = BootWhiteList
    /\ blackList = BootBlackList

-----------------------------------------------------------------------------
(* The pool object: a key keeps its place when its entry is overwritten,   *)
(* and goes to the end when it is new.                                     *)

Without(pool, gone) ==
    [keys |-> pool.keys \ gone,
     precedes |-> {e \in pool.precedes : e[1] \notin gone /\ e[2] \notin gone}]

WithKey(pool, h) ==
    IF h \in pool.keys THEN pool
    ELSE [keys |-> pool.keys \cup {h}, precedes |-> pool.precedes \cup (pool.keys \X {h})]

(* Mutant of Matches: the senders are compared as spelled.                 *)
MatchesAsSpelled(pool, h) ==
    {g \in pool.keys : UserOp[g].sender = UserOp[h].sender /\ UserOp[g].nonce = UserOp[h].nonce}

(* The entries with the sender (in any spelling) and nonce of h; g is the  *)
(* first of them.                                                          *)
Matches(pool, h) == {g \in pool.keys : SameSlot(g, h)}

FirstMatch(pool, h, g) ==
    /\ g \in Matches(pool, h)
    /\ \A k \in Matches(pool, h) \ {g} : <<g, k>> \in pool.precedes

KnownSenders(pool) == {SenderOf(g) : g \in pool.keys}
KnownEntities(pool) == UNION {HelpersOf(g) : g \in pool.keys}

(* What the objects process p holds contain now.                           *)
PoolSeen(p) == IF poolView[p].live THEN standardPool ELSE poolView[p].pool
CountSeen(p) == IF countView[p].live THEN mempoolEntryCount ELSE countView[p].count

(* A copy takes the object's place; those who hold the object keep what is *)
(* left of it.                                                             *)
ReplacePool(copy, leftBehind) ==
    /\ standardPool' = copy
    /\ poolView' = [q \in Proc |-> IF poolView[q].live
                                   THEN [live |-> FALSE, pool |-> leftBehind]
                                   ELSE poolView[q]]

ReplaceCount(copy) ==
    /\ mempoolEntryCount' = copy
    /\ countView' = [q \in Proc |-> IF countView[q].live
                                    THEN [live |-> FALSE, count |-> mempoolEntryCount]
                                    ELSE countView[q]]

(* A change made in place is seen by everybody who holds the object.       *)
ChangePool(pool) == standardPool' = pool /\ UNCHANGED poolView
ChangeCount(count) == mempoolEntryCount' = count /\ UNCHANGED countView

StatusSet(hashes, status) ==
    entryStatus' = [h \in Hash |-> IF h \in hashes THEN status ELSE entryStatus[h]]

Start(p, function) == call[p].pc = "idle" /\ function \in Does[p]

At(p, step) == call[p].pc = step

Goto(p, step) == call' = [call EXCEPT ![p] = [@ EXCEPT !.pc = step]]

DropViews(p) ==
    /\ poolView' = [poolView EXCEPT ![p] = NoPool]
    /\ countView' = [countView EXCEPT ![p] = NoCount]

(* The call is refused: it returns or throws an error.                     *)
Refuse(p) ==
    /\ call' = [call EXCEPT ![p] = Idle]
    /\ DropViews(p)
    /\ UNCHANGED <<poolVars, repVars>>

-----------------------------------------------------------------------------
(* addUserOp.                                                              *)

(* Mutant of DepositCovers: the pooled operations are not charged for.      *)
DepositCoversOne(h) ==
    UserOp[h].paymaster # None => Deposit[Lower[UserOp[h].paymaster]] >= UserOp[h].maxCost

(* checkPaymasterDeposit charges the new operation's own cost once more    *)
(* for every pooled operation that spells its paymaster the same way.      *)
DepositCovers(h) ==
    LET paymaster == UserOp[h].paymaster
        sharing == {g \in standardPool.keys : UserOp[g].paymaster = paymaster}
    IN  paymaster # None =>
            Deposit[Lower[paymaster]] >= UserOp[h].maxCost * (1 + Cardinality(sharing))

(* Bound: an operation is offered only while its entities were seen less   *)
(* than MaxOps times.                                                      *)
WithinBounds(h) ==
    SeenBelow({SenderOf(h)} \cup HelpersOf(h) \cup AccountOf(UserOp[h].aggregator))

AddUserOp(p, h) ==
    /\ Start(p, "addUserOp")
    /\ WithinBounds(h)
    /\ DepositCovers(h)
    /\ call' = [call EXCEPT ![p] = [Idle EXCEPT !.pc = "snapshot", !.hash = h]]
    /\ UNCHANGED <<poolVars, poolView, countView, repVars>>

Snapshot(p) ==
    /\ At(p, "snapshot")
    /\ Goto(p, "classify")
    /\ poolView' = [poolView EXCEPT ![p] = LivePool]
    /\ countView' = [countView EXCEPT ![p] = LiveCount]
    /\ UNCHANGED <<poolVars, repVars>>

(* At exactly ten percent more, rounding of the product decides either way. *)
FailsToRaise(new, old) == 10 * new < 11 * old \/ (10 * new = 11 * old /\ old > 0)

MayBeUnderpriced(h, old) ==
    \/ FailsToRaise(UserOp[h].maxPriorityFeePerGas, UserOp[old].maxPriorityFeePerGas)
    \/ FailsToRaise(UserOp[h].maxFeePerGas, UserOp[old].maxFeePerGas)

FoundOld(p, old) == FirstMatch(PoolSeen(p), call[p].hash, old)

(* No entry has the sender and nonce: the reputation checks come next.     *)
ClassifyAsNew(p) ==
    /\ At(p, "classify")
    /\ Matches(PoolSeen(p), call[p].hash) = {}
    /\ Goto(p, "check")
    /\ UNCHANGED <<poolVars, poolView, countView, repVars>>

(* Mutant: the fees are not compared.                                      *)
ClassifyAtAnyFee(p, old) ==
    /\ At(p, "classify")
    /\ FoundOld(p, old)
    /\ call' = [call EXCEPT ![p] = [@ EXCEPT !.pc = "commit", !.old = old]]
    /\ DropViews(p)
    /\ UNCHANGED <<poolVars, repVars>>

(* One has: only the fees are compared.                                    *)
ClassifyAsReplacement(p, old) ==
    /\ At(p, "classify")
    /\ FoundOld(p, old)
    /\ PaysMore(call[p].hash, old)
    /\ call' = [call EXCEPT ![p] = [@ EXCEPT !.pc = "commit", !.old = old]]
    /\ DropViews(p)
    /\ UNCHANGED <<poolVars, repVars>>

RefuseUnderpriced(p, old) ==
    /\ At(p, "classify")
    /\ FoundOld(p, old)
    /\ MayBeUnderpriced(call[p].hash, old)
    /\ Refuse(p)

Checked(p) == Entity(call[p].hash, call[p].place)

CheckedCount(p) == CountSeen(p)[Lower[Checked(p)]]

Quota(p) ==
    IF call[p].place = 1 THEN SenderQuota
    ELSE MaxAllowedMempoolOpsUnstaked(Checked(p), EntityQuota)

(* Mutant: the status is looked at only beyond the throttling count.       *)
ReputationRefusesMany(p) ==
    CheckedCount(p) > ThrottledQuota /\ GetStatus(Checked(p)) # "OK"

ReputationRefuses(p) ==
    \/ GetStatus(Checked(p)) = "BANNED"
    \/ CheckedCount(p) > ThrottledQuota /\ GetStatus(Checked(p)) = "THROTTLED"

(* Mutant: one entry beyond the quota passes.                              *)
StakeRefusesLate(p) == CheckedCount(p) > Quota(p) /\ Lower[Checked(p)] \notin Staked

StakeRefuses(p) == CheckedCount(p) >= Quota(p) /\ Lower[Checked(p)] \notin Staked

(* checkReputationStatus of one entity.  It awaits each reading of the     *)
(* ledger; the readings of one entity are taken together here.             *)
CheckEntity(p) ==
    LET next == NextEntity(call[p].hash, call[p].place)
    IN  /\ At(p, "check")
        /\ ~ReputationRefuses(p)
        /\ ~StakeRefuses(p)
        /\ IF next = 5 THEN Goto(p, "roles")
           ELSE call' = [call EXCEPT ![p] = [@ EXCEPT !.place = next]]
        /\ UNCHANGED <<poolVars, poolView, countView, repVars>>

RefuseForReputation(p) == At(p, "check") /\ ReputationRefuses(p) /\ Refuse(p)

RefuseUnstaked(p) ==
    /\ At(p, "check")
    /\ ~ReputationRefuses(p)
    /\ StakeRefuses(p)
    /\ Refuse(p)

(* Mutant: only the sender's other roles are looked for.                   *)
ViolatesSenderRole(h, pool) == SenderOf(h) \in KnownEntities(pool)

ViolatesRoles(h, pool) ==
    \/ SenderOf(h) \in KnownEntities(pool)
    \/ HelpersOf(h) \cap KnownSenders(pool) # {}

CheckRoles(p) ==
    /\ At(p, "roles")
    /\ ~ViolatesRoles(call[p].hash, PoolSeen(p))
    /\ Goto(p, "commit")
    /\ DropViews(p)
    /\ UNCHANGED <<poolVars, repVars>>

RefuseForRoles(p) ==
    At(p, "roles") /\ ViolatesRoles(call[p].hash, PoolSeen(p)) /\ Refuse(p)

(* The entry found when the call was classified is deleted from the object *)
(* of the moment, whatever became of it since; the counts stay.            *)
CommitReplacement(p) ==
    LET h == call[p].hash
        old == call[p].old
        rest == Without(standardPool, {old})
    IN  /\ At(p, "commit")
        /\ old # None
        /\ ReplacePool(WithKey(rest, h), rest)
        /\ StatusSet({old, h}, "pending")
        /\ Goto(p, "seenSender")
        /\ UNCHANGED <<mempoolEntryCount, countView, repVars>>

(* Mutant of Counted: the sender's count is forgotten.                     *)
CountedHelpers(h) == HelpersOf(h)

(* The accounts whose counts an admission raises: not the aggregator's.    *)
Counted(h) == {SenderOf(h)} \cup HelpersOf(h)

CommitNew(p) ==
    LET h == call[p].hash
    IN  /\ At(p, "commit")
        /\ call[p].old = None
        /\ ReplacePool(WithKey(standardPool, h), standardPool)
        /\ ReplaceCount([a \in Address |-> IF a \in Counted(h) THEN mempoolEntryCount[a] + 1
                                           ELSE mempoolEntryCount[a]])
        /\ StatusSet({h}, "pending")
        /\ Goto(p, "seenSender")
        /\ UNCHANGED repVars

Helpers(p) ==
    HelpersOf(call[p].hash) \cup AccountOf(UserOp[call[p].hash].aggregator)

SeenSender(p) ==
    /\ At(p, "seenSender")
    /\ UpdateSeenStatus({SenderOf(call[p].hash)}, 1)
    /\ call' = [call EXCEPT ![p] = IF Helpers(p) = {} THEN Idle ELSE [@ EXCEPT !.pc = "seenHelpers"]]
    /\ UNCHANGED <<poolVars, poolView, countView>>

SeenHelpers(p) ==
    /\ At(p, "seenHelpers")
    /\ UpdateSeenStatus(Helpers(p), 1)
    /\ call' = [call EXCEPT ![p] = Idle]
    /\ UNCHANGED <<poolVars, poolView, countView>>

-----------------------------------------------------------------------------
(* removeUserOp, by hash or by operation.                                  *)

FoundForRemoval(p, h) ==
    /\ Start(p, "removeUserOp")
    /\ call' = [call EXCEPT ![p] = [Idle EXCEPT !.pc = "remove", !.old = h]]
    /\ UNCHANGED <<poolVars, poolView, countView, repVars>>

RemoveByHash(p, h) == h \in standardPool.keys /\ FoundForRemoval(p, h)

RemoveByUserOp(p, h) ==
    \E g \in standardPool.keys : FirstMatch(standardPool, h, g) /\ FoundForRemoval(p, g)

(* Mutant of Remove: the count is lowered below zero.                      *)
RemoveBelowZero(p) ==
    LET h == call[p].old
    IN  /\ At(p, "remove")
        /\ ChangePool(Without(standardPool, {h}))
        /\ ChangeCount([mempoolEntryCount EXCEPT ![UserOp[h].sender] = @ - 1])
        /\ StatusSet({h}, "pending")
        /\ call' = [call EXCEPT ![p] = Idle]
        /\ UNCHANGED repVars

(* Only the sender's count is lowered, and only under the spelling the     *)
(* operation uses.                                                         *)
Remove(p) ==
    LET h == call[p].old
    IN  /\ At(p, "remove")
        /\ ChangePool(Without(standardPool, {h}))
        /\ ChangeCount([mempoolEntryCount EXCEPT ![UserOp[h].sender] = IF @ > 1 THEN @ - 1 ELSE 0])
        /\ StatusSet({h}, "pending")
        /\ call' = [call EXCEPT ![p] = Idle]
        /\ UNCHANGED repVars

-----------------------------------------------------------------------------
(* removeUserOpsForBannedAddr: the addresses are compared as spelled.      *)

Spelled(h) == {UserOp[h].sender, UserOp[h].paymaster, UserOp[h].factory} \ {None}

BanSelect(p, a) ==
    LET found == {h \in standardPool.keys : a \in Spelled(h)}
    IN  /\ Start(p, "removeUserOpsForBannedAddr")
        /\ found # {}
        /\ call' = [call EXCEPT ![p] =
                      [Idle EXCEPT !.pc = "ban",
                                   !.picked = Without(standardPool, standardPool.keys \ found)]]
        /\ UNCHANGED <<poolVars, poolView, countView, repVars>>

BanRemove(p) ==
    LET found == call[p].picked.keys
    IN  /\ At(p, "ban")
        /\ ChangePool(Without(standardPool, found))
        /\ ChangeCount([a \in Address |-> IF \E h \in found : a \in Spelled(h) THEN 0
                                          ELSE mempoolEntryCount[a]])
        /\ StatusSet(found, "pending")
        /\ call' = [call EXCEPT ![p] = Idle]
        /\ UNCHANGED repVars

-----------------------------------------------------------------------------
(* getNextPending and getAllPending.                                       *)

Pending == {h \in standardPool.keys : entryStatus[h] = "pending"}

Ahead(h, hashes) == {g \in hashes : <<g, h>> \in standardPool.precedes}

Pick(p, function, hashes) ==
    /\ Start(p, function)
    /\ hashes # {}
    /\ call' = [call EXCEPT ![p] =
                  [Idle EXCEPT !.pc = "mark",
                               !.picked = Without(standardPool, standardPool.keys \ hashes)]]
    /\ UNCHANGED <<poolVars, poolView, countView, repVars>>

GetNextPending(p) ==
    Pick(p, "getNextPending", {h \in Pending : Cardinality(Ahead(h, Pending)) < BundleSize})

GetAllPending(p) == Pick(p, "getAllPending", Pending)

(* The loop that marks the entries throws at the first one that is gone;   *)
(* those before it stay marked.  The result is left in picked.             *)
Mark(p) ==
    LET picked == call[p].picked
        gone == picked.keys \ standardPool.keys
        marked == {h \in picked.keys \ gone : \A g \in gone : <<h, g>> \in picked.precedes}
    IN  /\ At(p, "mark")
        /\ StatusSet(marked, "bundling")
        /\ call' = [call EXCEPT ![p] =
                      [Idle EXCEPT !.picked = IF gone = {} THEN picked ELSE EmptyPool]]
        /\ UNCHANGED <<standardPool, mempoolEntryCount, poolView, countView, repVars>>

-----------------------------------------------------------------------------
(* updateEntryStatus copies the entry it read into the pool of the moment, *)
(* even if the entry has been removed in between.                          *)

ReadEntry(p, h, status) ==
    /\ Start(p, "updateEntryStatus")
    /\ h \in standardPool.keys
    /\ call' = [call EXCEPT ![p] =
                  [Idle EXCEPT !.pc = "setStatus", !.old = h, !.status = status]]
    /\ UNCHANGED <<poolVars, poolView, countView, repVars>>

SetStatus(p) ==
    LET h == call[p].old
    IN  /\ At(p, "setStatus")
        /\ ReplacePool(WithKey(standardPool, h), standardPool)
        /\ StatusSet({h}, call[p].status)
        /\ call' = [call EXCEPT ![p] = Idle]
        /\ UNCHANGED <<mempoolEntryCount, countView, repVars>>

ClearState(p) ==
    /\ Start(p, "clearState")
    /\ ReplacePool(EmptyPool, standardPool)
    /\ ReplaceCount(NoCounts)
    /\ StatusSet(Hash, "pending")
    /\ UNCHANGED <<call, repVars>>

(* The debug call that clears the ledger.                                  *)
ClearLedger(p) ==
    /\ Start(p, "clearReputation")
    /\ ClearReputation
    /\ UNCHANGED mempoolVars

-----------------------------------------------------------------------------
AddStep(p) ==
    \/ \E h \in Offers[p] : AddUserOp(p, h)
    \/ Snapshot(p)
    \/ ClassifyAsNew(p)
    \/ \E old \in Hash : ClassifyAsReplacement(p, old) \/ RefuseUnderpriced(p, old)
    \/ CheckEntity(p)
    \/ RefuseForReputation(p)
    \/ RefuseUnstaked(p)
    \/ CheckRoles(p)
    \/ RefuseForRoles(p)
    \/ CommitReplacement(p)
    \/ CommitNew(p)
    \/ SeenSender(p)
    \/ SeenHelpers(p)

RemoveStep(p) ==
    \/ \E h \in Hash : RemoveByHash(p, h) \/ RemoveByUserOp(p, h)
    \/ Remove(p)
    \/ \E a \in Address : BanSelect(p, a)
    \/ BanRemove(p)
    \/ ClearState(p)
    \/ ClearLedger(p)

BundleStep(p) ==
    \/ GetNextPending(p)
    \/ GetAllPending(p)
    \/ Mark(p)
    \/ \E h \in Hash, status \in {"pending", "failed"} : ReadEntry(p, h, status)
    \/ SetStatus(p)

(* The bundle manager's writes to the ledger while calls are in progress:   *)
(* a crash it records, an operation seen it takes back from a paymaster.   *)
OtherReputationChange ==
    /\ \E a \in Reported :
         \/ SeenBelow({a}) /\ CrashedHandleOps(a)
         \/ reputationEntries[a].opsSeen > MinOps /\ UpdateSeenStatus({a}, -1)
    /\ UNCHANGED mempoolVars

MempoolNext ==
    \/ \E p \in Proc : AddStep(p) \/ RemoveStep(p) \/ BundleStep(p)
    \/ OtherReputationChange

MempoolSpec == MempoolInit /\ [][MempoolNext]_vars

-----------------------------------------------------------------------------
(* Properties.                                                             *)

EntriesOf(a) == {h \in standardPool.keys : SenderOf(h) = a}

BlackListed(a) == Lower[a] \in blackList /\ Lower[a] \notin whiteList

(* No operation of a black-listed sender is ever in the pool: not by a     *)
(* replacement, for which reputation is not looked at, nor by a stale      *)
(* status update that brings an entry back.                                *)
NoBlackListedSender ==
    \A h \in standardPool.keys : ~BlackListed(UserOp[h].sender)

(* No new entry has a black-listed entity in any role: each of them has     *)
(* been looked at before the entry is added, however many awaits earlier.  *)
NewEntriesPassTheLists ==
    [][\A p \in Proc : CommitNew(p) =>
         \A i \in 1..4 : Entity(call[p].hash, i) # None => ~BlackListed(Entity(call[p].hash, i))]_vars

(* A step that puts an operation in the place of another one raises both   *)
(* fees of that sender and nonce by ten percent, even when the entry it    *)
(* found has long been replaced by another call.                           *)
ReplacementPaysMore ==
    [][\A g \in standardPool.keys \ standardPool'.keys,
          h \in standardPool'.keys \ standardPool.keys :
            SameSlot(g, h) /\ PaysMore(h, g)]_vars

(* The quota is checked against a count read some awaits before the entry  *)
(* is added, so calls in progress can overshoot it, but each by at most    *)
(* one entry.                                                              *)
OvershootIsBounded ==
    \A a \in Account \ Staked :
        Cardinality(EntriesOf(a)) <=
            SenderQuota + Cardinality({p \in Proc : "addUserOp" \in Does[p]}) - 1

PureSenders == {SenderOf(h) : h \in Hash} \ UNION {HelpersOf(h) : h \in Hash}

(* The count the quota is checked against is the number of the sender's    *)
(* entries: no update of a concurrent call is lost and none counted twice. *)
SenderCountExact ==
    \A a \in PureSenders : mempoolEntryCount[a] = Cardinality(EntriesOf(a))

(* The deposit is looked at one await before anything else, so calls in     *)
(* progress can overshoot it too, but each by at most its own operation:    *)
(* when all operations of a paymaster cost the same and spell it the same,  *)
(* counting its entries and charging the new cost for each is exact.       *)
SponsoredBy(a) == {h \in Hash : AccountOf(UserOp[h].paymaster) = {a}}

DepositOvershootIsBounded ==
    \A a \in Account :
        \A cost \in {UserOp[h].maxCost : h \in SponsoredBy(a)} :
            (\A h \in SponsoredBy(a) : UserOp[h].maxCost = cost /\ UserOp[h].paymaster = a) =>
                Cardinality(standardPool.keys \cap SponsoredBy(a)) * cost
                    <= Deposit[a] + (Cardinality({p \in Proc : "addUserOp" \in Does[p]}) - 1) * cost
=============================================================================
