-------------------------- MODULE ReputationProofs --------------------------
(***************************************************************************)
(* Proofs about the reputation ledger, for every value of the thresholds   *)
(* that ReputationAssumption allows.                                       *)
(***************************************************************************)
EXTENDS Reputation, TLAPS

(* The operations and the entities they name.                              *)

(* Accounts are the addresses spelled in lower case.                       *)
LEMMA AccountFacts ==
    /\ Account \subseteq Address
    /\ \A a \in Address : Lower[a] \in Account
    /\ \A a \in Account : Lower[a] = a
    /\ None \notin Account
BY AddressAssumption DEF Account

(* The accounts of an operation's entities are accounts.                   *)
LEMMA OperationFacts ==
    ASSUME NEW h \in Hash
    PROVE  /\ UserOp[h] \in UserOps
           /\ UserOp[h].sender \in Address
           /\ SenderOf(h) \in Account
           /\ HelpersOf(h) \subseteq Account
           /\ AccountOf(UserOp[h].aggregator) \subseteq Account
<1>1. UserOp[h] \in UserOps
  BY UserOpAssumption
<1>2. \A a \in Address \cup {None} : AccountOf(a) \subseteq Account
  BY AccountFacts DEF AccountOf
<1> QED
  BY <1>1, <1>2, AccountFacts DEF UserOps, SenderOf, HelpersOf

(* A place of an operation holds an address, or nothing.                        *)
LEMMA EntityType ==
    ASSUME NEW h \in Hash, NEW i \in 1..4
    PROVE  Entity(h, i) \in Address \cup {None}
BY UserOpAssumption DEF Entity, UserOps

(* The next entity's place lies further on, holds an entity unless it is   *)
(* past the end, and no entity is skipped on the way to it.                *)
LEMMA NextEntityFacts ==
    ASSUME NEW h \in Hash, NEW i \in 1..4
    PROVE  LET j == NextEntity(h, i)
           IN  /\ j \in (i + 1)..5
               /\ j = 5 \/ Entity(h, j) # None
               /\ \A k \in (i + 1)..(j - 1) : Entity(h, k) = None
<1> DEFINE First(j) == /\ j = 5 \/ Entity(h, j) # None
                       /\ \A k \in (i + 1)..(j - 1) : Entity(h, k) = None
<1>1. \E j \in (i + 1)..5 : First(j)
  <2>1. CASE \E k \in (i + 1)..4 : Entity(h, k) # None
    <3>1. PICK k \in (i + 1)..4 : Entity(h, k) # None
      BY <2>1
    <3>2. CASE Entity(h, i + 1) # None
      BY <3>2, <3>1
    <3>3. CASE Entity(h, i + 1) = None /\ i + 2 \in 1..4 /\ Entity(h, i + 2) # None
      <4>1. \A m \in (i + 1)..(i + 2 - 1) : m = i + 1
        OBVIOUS
      <4> QED
        BY <3>3, <4>1
    <3>4. CASE /\ Entity(h, i + 1) = None /\ i + 2 \in 1..4 /\ Entity(h, i + 2) = None
               /\ i + 3 \in 1..4 /\ Entity(h, i + 3) # None
      <4>1. \A m \in (i + 1)..(i + 3 - 1) : m = i + 1 \/ m = i + 2
        OBVIOUS
      <4> QED
        BY <3>4, <4>1
    <3> QED
      BY <3>1, <3>2, <3>3, <3>4
  <2>2. CASE \A k \in (i + 1)..4 : Entity(h, k) = None
    BY <2>2
  <2> QED
    BY <2>1, <2>2
<1> QED
  BY <1>1 DEF NextEntity

-----------------------------------------------------------------------------
(* The quotient of the thresholds.                                         *)

(* The quotient rounds down.                                               *)
LEMMA DivFacts ==
    ASSUME NEW x \in Int, NEW d \in Nat \ {0}
    PROVE  /\ x \div d \in Int
           /\ d * (x \div d) <= x
           /\ x < d * (x \div d) + d
OBVIOUS

(* It is monotonic, ...                                                    *)
LEMMA DivMonotonic ==
    ASSUME NEW x \in Int, NEW y \in Int, NEW d \in Nat \ {0}, x <= y
    PROVE  x \div d <= y \div d
<1> DEFINE q == x \div d
           r == y \div d
<1>1. /\ q \in Int /\ d * q <= x
      /\ r \in Int /\ y < d * r + d
  BY DivFacts
<1> HIDE DEF q, r
<1>2. d * q < d * r + d
  BY <1>1
<1>3. d * r + d = d * (r + 1)
  BY <1>1
<1> QED
  BY <1>1, <1>2, <1>3 DEF q, r

(* ... and adding one to a count adds at most one to it.                   *)
LEMMA DivStep ==
    ASSUME NEW x \in Int, NEW d \in Nat \ {0}
    PROVE  (x + 1) \div d <= (x \div d) + 1
<1> DEFINE q == x \div d
           r == (x + 1) \div d
<1>1. /\ q \in Int /\ x < d * q + d
      /\ r \in Int /\ d * r <= x + 1
  BY DivFacts
<1> HIDE DEF q, r
<1>2. d * r <= d * q + d
  BY <1>1
<1>3. d * q + d = d * (q + 1)
  BY <1>1
<1> QED
  BY <1>1, <1>2, <1>3 DEF q, r

-----------------------------------------------------------------------------
(* What the operations do to the entry of an account.                      *)

LEMMA EntryTypes ==
    /\ Unknown \in Entry
    /\ \A seen, included \in Int : NewEntry(seen, included) \in Entry
    /\ \A e \in Entry, delta \in Int : Seen(e, delta) \in Entry
BY DEF Unknown, NewEntry, Entry, Seen

LEMMA SeenType ==
    ASSUME RepTypeOK, NEW accounts \in SUBSET Account, NEW delta \in Int,
           UpdateSeenStatus(accounts, delta),
           \A a \in accounts : reputationEntries[a].opsSeen + delta >= MinOps
    PROVE  RepTypeOK'
BY EntryTypes, ReputationAssumption DEF RepTypeOK, UpdateSeenStatus, Seen, NewEntry, Entry

LEMMA IncludedType ==
    ASSUME RepTypeOK, NEW a \in Account, UpdateIncludedStatus(a)
    PROVE  RepTypeOK'
BY ReputationAssumption DEF RepTypeOK, UpdateIncludedStatus, Included, NewEntry, Entry

LEMMA CrashedType ==
    ASSUME RepTypeOK, NEW a \in Account, CrashedHandleOps(a)
    PROVE  RepTypeOK'
BY ReputationAssumption DEF RepTypeOK, CrashedHandleOps, Crashed, NewEntry, Entry

LEMMA ClearedType ==
    ASSUME RepTypeOK, ClearReputation
    PROVE  RepTypeOK'
BY ReputationAssumption DEF RepTypeOK, ClearReputation, Unknown, Entry

LEMMA RepTypeStep == RepTypeOK /\ [RepNext]_repVars => RepTypeOK'
<1> SUFFICES ASSUME RepTypeOK, [RepNext]_repVars
             PROVE  RepTypeOK'
  OBVIOUS
<1>1. ASSUME NEW accounts \in SUBSET Account, UpdateSeenStatus(accounts, 1)
      PROVE  RepTypeOK'
  <2>1. \A a \in accounts : reputationEntries[a].opsSeen + 1 >= MinOps
    BY ReputationAssumption DEF RepTypeOK, Entry
  <2> QED
    BY <1>1, <2>1, SeenType
<1>2. ASSUME NEW a \in Account, reputationEntries[a].opsSeen > MinOps, UpdateSeenStatus({a}, -1)
      PROVE  RepTypeOK'
  <2>1. reputationEntries[a].opsSeen + (-1) >= MinOps
    BY <1>2, ReputationAssumption DEF RepTypeOK, Entry
  <2> QED
    BY <1>2, <2>1, SeenType
<1>3. ASSUME NEW a \in Account, UpdateIncludedStatus(a)
      PROVE  RepTypeOK'
  BY <1>3, IncludedType
<1>4. ASSUME NEW a \in Account, CrashedHandleOps(a)
      PROVE  RepTypeOK'
  BY <1>4, CrashedType
<1>5. ASSUME NEW a \in Account, NEW seen \in 0..MaxOps, NEW included \in 0..MaxOps,
             SetReputation(a, seen, included)
      PROVE  RepTypeOK'
  BY <1>5, ReputationAssumption DEF RepTypeOK, SetReputation, NewEntry, Entry
<1>6. CASE ClearReputation
  BY <1>6, ClearedType
<1>7. ASSUME NEW items \in SUBSET Address, AddWhitelist(items) \/ AddBlacklist(items)
      PROVE  RepTypeOK'
  BY <1>7 DEF RepTypeOK, AddWhitelist, AddBlacklist
<1>8. CASE UNCHANGED repVars
  BY <1>8 DEF repVars, RepTypeOK
<1> QED
  BY <1>1, <1>2, <1>3, <1>4, <1>5, <1>6, <1>7, <1>8 DEF RepNext

(* The ledger is well formed, and no count of operations seen falls below  *)
(* the bound, in every state of every sequence of calls.                   *)
THEOREM RepTypeCorrect == RepSpec => []RepTypeOK
<1>1. RepInit => RepTypeOK
  BY ReputationAssumption DEF RepInit, RepTypeOK, Unknown, Entry
<1> QED
  BY <1>1, RepTypeStep, PTL DEF RepSpec

-----------------------------------------------------------------------------
(* How the status of an entry changes with its counts.                     *)

LEMMA FreshIsOK ==
    /\ LedgerStatus(Unknown) = "OK"
    /\ LedgerStatus(NewEntry(0, 0)) = "OK"
<1>1. 0 \div MinInclusionDenominator <= 0
  <2>1. /\ 0 \div MinInclusionDenominator \in Int
        /\ MinInclusionDenominator * (0 \div MinInclusionDenominator) <= 0
    BY DivFacts, ReputationAssumption
  <2> QED
    BY <2>1, ReputationAssumption
<1> QED
  BY <1>1, ReputationAssumption, DivFacts DEF LedgerStatus, Unknown, NewEntry

(* One more operation seen does not take an entry from OK to BANNED: the   *)
(* quotient grows by at most one, and the slacks are at least one apart.   *)
LEMMA SeenOnce ==
    ASSUME NEW e \in Entry, LedgerStatus(e) = "OK"
    PROVE  LedgerStatus(Seen(e, 1)) # "BANNED"
<1> DEFINE q == e.opsSeen \div MinInclusionDenominator
           r == (e.opsSeen + 1) \div MinInclusionDenominator
<1>1. CASE ~e.known
  BY <1>1, FreshIsOK DEF Seen
<1>2. CASE e.known
  <2>1. e.opsSeen \in Int /\ e.opsIncluded \in Int
    BY DEF Entry
  <2>2. q \in Int /\ r \in Int /\ r <= q + 1
    BY <2>1, DivFacts, DivStep, ReputationAssumption
  <2>3. q <= e.opsIncluded + ThrottlingSlack
    BY DEF LedgerStatus
  <2> HIDE DEF q, r
  <2>4. r <= e.opsIncluded + BanSlack
    BY <2>1, <2>2, <2>3, ReputationAssumption
  <2>5. Seen(e, 1) = NewEntry(e.opsSeen + 1, e.opsIncluded)
    BY <1>2 DEF Seen
  <2> QED
    BY <2>4, <2>5 DEF LedgerStatus, NewEntry, r
<1> QED
  BY <1>1, <1>2

(* One operation fewer never makes the status of an entry worse.           *)
LEMMA UnseenOnce ==
    ASSUME NEW e \in Entry
    PROVE  Rank(LedgerStatus(Seen(e, -1))) <= Rank(LedgerStatus(e))
<1> DEFINE q == e.opsSeen \div MinInclusionDenominator
           r == (e.opsSeen + (-1)) \div MinInclusionDenominator
<1>1. CASE ~e.known
  BY <1>1, FreshIsOK DEF Seen, Rank
<1>2. CASE e.known
  <2>1. e.opsSeen \in Int /\ e.opsIncluded \in Int
    BY DEF Entry
  <2>2. q \in Int /\ r \in Int /\ r <= q
    BY <2>1, DivFacts, DivMonotonic, ReputationAssumption
  <2>3. Seen(e, -1) = NewEntry(e.opsSeen + (-1), e.opsIncluded)
    BY <1>2 DEF Seen
  <2>4. LedgerStatus(e) = IF q <= e.opsIncluded + ThrottlingSlack THEN "OK"
                          ELSE IF q <= e.opsIncluded + BanSlack THEN "THROTTLED"
                          ELSE "BANNED"
    BY DEF LedgerStatus
  <2>5. LedgerStatus(Seen(e, -1)) = IF r <= e.opsIncluded + ThrottlingSlack THEN "OK"
                                    ELSE IF r <= e.opsIncluded + BanSlack THEN "THROTTLED"
                                    ELSE "BANNED"
    BY <2>3 DEF LedgerStatus, NewEntry
  <2> HIDE DEF q, r
  <2> QED
    BY <2>1, <2>2, <2>4, <2>5, ReputationAssumption DEF Rank
<1> QED
  BY <1>1, <1>2

(* One more inclusion never makes the status of an entry worse.            *)
LEMMA IncludedOnce ==
    ASSUME NEW e \in Entry
    PROVE  Rank(LedgerStatus(Included(e))) <= Rank(LedgerStatus(e))
<1> DEFINE q == e.opsSeen \div MinInclusionDenominator
<1>1. CASE ~e.known
  BY <1>1, FreshIsOK DEF Included, Rank
<1>2. CASE e.known
  <2>1. q \in Int /\ e.opsIncluded \in Int
    BY DivFacts, ReputationAssumption DEF Entry
  <2>2. Included(e) = NewEntry(e.opsSeen, e.opsIncluded + 1)
    BY <1>2 DEF Included
  <2>3. /\ Included(e).opsSeen = e.opsSeen
        /\ Included(e).opsIncluded = e.opsIncluded + 1
    BY <2>2 DEF NewEntry
  <2> QED
    BY <2>1, <2>3, ReputationAssumption DEF LedgerStatus, Rank
<1> QED
  BY <1>1, <1>2

(* A crash leaves no status but BANNED, as no count of operations seen is  *)
(* below the bound MinOps.                                                 *)
LEMMA CrashBans ==
    ASSUME NEW e \in Entry, e.opsSeen >= MinOps
    PROVE  LedgerStatus(Crashed(e)) = "BANNED"
<1> DEFINE q == (MinOps + CrashPenalty) \div MinInclusionDenominator
           r == (e.opsSeen + CrashPenalty) \div MinInclusionDenominator
<1>1. e.opsSeen \in Int
  BY DEF Entry
<1>2. q \in Int /\ r \in Int /\ q <= r
  <2>1. /\ MinOps + CrashPenalty \in Int
        /\ e.opsSeen + CrashPenalty \in Int
        /\ MinOps + CrashPenalty <= e.opsSeen + CrashPenalty
        /\ MinInclusionDenominator \in Nat \ {0}
    BY <1>1, ReputationAssumption
  <2>2. q \in Int /\ r \in Int
    BY <2>1, DivFacts
  <2>3. q <= r
    BY <2>1, DivMonotonic
  <2> QED
    BY <2>2, <2>3
<1>3. q > BanSlack
  BY ReputationAssumption
<1> HIDE DEF q, r
<1>4. r > BanSlack /\ r > ThrottlingSlack
  BY <1>2, <1>3, ReputationAssumption
<1> QED
  BY <1>2, <1>4, ReputationAssumption DEF LedgerStatus, Crashed, NewEntry, r

-----------------------------------------------------------------------------
(* The status of an account before and after a step.                       *)
LEMMA StatusOfAccount ==
    ASSUME NEW a \in Account
    PROVE  /\ GetStatus(a) = IF a \in whiteList THEN "OK"
                             ELSE IF a \in blackList THEN "BANNED"
                             ELSE LedgerStatus(reputationEntries[a])
           /\ GetStatus(a)' = IF a \in whiteList' THEN "OK"
                              ELSE IF a \in blackList' THEN "BANNED"
                              ELSE LedgerStatus(reputationEntries'[a])
BY AccountFacts, AddressAssumption DEF GetStatus, LedgerStatus

LEMMA RankRange == \A status : Rank(status) \in 0..2
BY DEF Rank

(* What an update of the seen counts writes under each account.            *)
LEMMA SeenEntry ==
    ASSUME NEW accounts \in SUBSET Account, NEW delta \in Int, NEW a \in Account,
           UpdateSeenStatus(accounts, delta)
    PROVE  \/ reputationEntries'[a] = Seen(reputationEntries[a], delta)
           \/ reputationEntries'[a] = reputationEntries[a]
BY DEF UpdateSeenStatus

(* What follows needs no more than well-formed entries, so it holds of     *)
(* every system that keeps the ledger well formed.  One more operation     *)
(* seen moves an account at most one status down, and one fewer never      *)
(* moves it down, for every choice of the thresholds.                      *)
LEMMA TypesDegrade == []RepTypeOK => DegradesGradually
<1>1. ASSUME RepTypeOK, NEW accounts \in SUBSET Account, NEW a \in Account,
             UpdateSeenStatus(accounts, 1)
      PROVE  Rank(GetStatus(a)') <= Rank(GetStatus(a)) + 1
  <2> DEFINE e == reputationEntries[a]
  <2>1. whiteList' = whiteList /\ blackList' = blackList
    BY <1>1 DEF UpdateSeenStatus
  <2>2. reputationEntries'[a] = Seen(e, 1) \/ reputationEntries'[a] = e
    BY <1>1, SeenEntry
  <2>3. e \in Entry
    BY <1>1 DEF RepTypeOK
  <2>4. LedgerStatus(e) = "OK" => LedgerStatus(Seen(e, 1)) # "BANNED"
    BY <2>3, SeenOnce
  <2> HIDE DEF e
  <2>5. Rank(LedgerStatus(reputationEntries'[a])) <= Rank(LedgerStatus(e)) + 1
    <3>1. CASE reputationEntries'[a] = e
      BY <3>1, RankRange
    <3>2. CASE reputationEntries'[a] = Seen(e, 1)
      <4>1. CASE LedgerStatus(e) = "OK"
        <5>1. LedgerStatus(Seen(e, 1)) \in {"OK", "THROTTLED"}
          BY <4>1, <2>4 DEF LedgerStatus
        <5> QED
          BY <3>2, <4>1, <5>1 DEF Rank
      <4>2. CASE LedgerStatus(e) # "OK"
        <5>1. Rank(LedgerStatus(e)) \in {1, 2}
          BY <4>2 DEF Rank
        <5>2. Rank(LedgerStatus(Seen(e, 1))) \in 0..2
          BY RankRange
        <5> QED
          BY <3>2, <5>1, <5>2
      <4> QED
        BY <4>1, <4>2
    <3> QED
      BY <2>2, <3>1, <3>2
  <2>6. Rank("OK") <= Rank("OK") + 1 /\ Rank("BANNED") <= Rank("BANNED") + 1
    BY DEF Rank
  <2>7. CASE a \in whiteList
    BY <2>1, <2>6, <2>7, StatusOfAccount
  <2>8. CASE a \notin whiteList /\ a \in blackList
    BY <2>1, <2>6, <2>8, StatusOfAccount
  <2>9. CASE a \notin whiteList /\ a \notin blackList
    <3>1. /\ GetStatus(a) = LedgerStatus(e)
          /\ GetStatus(a)' = LedgerStatus(reputationEntries'[a])
      BY <2>1, <2>9, StatusOfAccount DEF e
    <3> QED
      BY <2>5, <3>1
  <2> QED
    BY <2>7, <2>8, <2>9
<1>2. ASSUME RepTypeOK, NEW accounts \in SUBSET Account, NEW a \in Account,
             UpdateSeenStatus(accounts, -1)
      PROVE  Rank(GetStatus(a)') <= Rank(GetStatus(a))
  <2> DEFINE e == reputationEntries[a]
  <2>1. whiteList' = whiteList /\ blackList' = blackList
    BY <1>2 DEF UpdateSeenStatus
  <2>2. reputationEntries'[a] = Seen(e, -1) \/ reputationEntries'[a] = e
    BY <1>2, SeenEntry
  <2>3. Rank(LedgerStatus(Seen(e, -1))) <= Rank(LedgerStatus(e))
    BY <1>2, UnseenOnce DEF RepTypeOK
  <2>4. Rank("OK") <= Rank("OK") /\ Rank("BANNED") <= Rank("BANNED")
    BY DEF Rank
  <2>5. Rank(LedgerStatus(e)) <= Rank(LedgerStatus(e))
    BY DEF Rank
  <2> HIDE DEF e
  <2>6. Rank(LedgerStatus(reputationEntries'[a])) <= Rank(LedgerStatus(e))
    BY <2>2, <2>3, <2>5
  <2> QED
    BY <2>1, <2>4, <2>6, StatusOfAccount DEF e
<1>3. RepTypeOK =>
        [\A accounts \in SUBSET Account, a \in Account :
           /\ UpdateSeenStatus(accounts, 1) => Rank(GetStatus(a)') <= Rank(GetStatus(a)) + 1
           /\ UpdateSeenStatus(accounts, -1) => Rank(GetStatus(a)') <= Rank(GetStatus(a))]_repVars
  BY <1>1, <1>2
<1> QED
  BY <1>3, PTL DEF DegradesGradually

(* A crash bans the entity it is put down to, whatever was said of it      *)
(* before, in every reachable state of the ledger.                         *)
LEMMA TypesCrash == []RepTypeOK => CrashBansAtOnce
<1>1. ASSUME RepTypeOK, NEW a \in Account, CrashedHandleOps(a), a \notin whiteList
      PROVE  GetStatus(a)' = "BANNED"
  <2>1. /\ reputationEntries'[a] = Crashed(reputationEntries[a])
        /\ whiteList' = whiteList
    BY <1>1 DEF CrashedHandleOps, RepTypeOK
  <2>2. LedgerStatus(reputationEntries'[a]) = "BANNED"
    BY <2>1, <1>1, CrashBans DEF RepTypeOK
  <2> QED
    BY <1>1, <2>1, <2>2, StatusOfAccount
<1>2. RepTypeOK =>
        [\A a \in Account :
           CrashedHandleOps(a) /\ a \notin whiteList => GetStatus(a)' = "BANNED"]_repVars
  BY <1>1
<1> QED
  BY <1>2, PTL DEF CrashBansAtOnce

(* Being included never makes the status of an account worse.              *)
LEMMA TypesInclude == []RepTypeOK => InclusionNeverDegrades
<1>1. ASSUME RepTypeOK, NEW a \in Account, UpdateIncludedStatus(a), NEW b \in Account
      PROVE  Rank(GetStatus(b)') <= Rank(GetStatus(b))
  <2>1. whiteList' = whiteList /\ blackList' = blackList
    BY <1>1 DEF UpdateIncludedStatus
  <2>2. \/ reputationEntries'[b] = Included(reputationEntries[b])
        \/ reputationEntries'[b] = reputationEntries[b]
    BY <1>1 DEF UpdateIncludedStatus, RepTypeOK
  <2>3. Rank(LedgerStatus(reputationEntries'[b])) <= Rank(LedgerStatus(reputationEntries[b]))
    <3>1. Rank(LedgerStatus(reputationEntries[b])) <= Rank(LedgerStatus(reputationEntries[b]))
      BY DEF Rank
    <3> QED
      BY <1>1, <2>2, <3>1, IncludedOnce DEF RepTypeOK
  <2>4. Rank("OK") <= Rank("OK") /\ Rank("BANNED") <= Rank("BANNED")
    BY DEF Rank
  <2> QED
    BY <2>1, <2>3, <2>4, StatusOfAccount
<1>2. RepTypeOK =>
        [\A a \in Account :
           UpdateIncludedStatus(a) =>
              \A b \in Account : Rank(GetStatus(b)') <= Rank(GetStatus(b))]_repVars
  BY <1>1
<1> QED
  BY <1>2, PTL DEF InclusionNeverDegrades

-----------------------------------------------------------------------------
(* The ledger by itself: at most one status down for one more operation    *)
(* seen, ...                                                               *)
THEOREM RepDegradesGradually == RepSpec => DegradesGradually
BY RepTypeCorrect, TypesDegrade

(* ... BANNED at once for a crash, ...                                     *)
THEOREM RepCrashBansAtOnce == RepSpec => CrashBansAtOnce
BY RepTypeCorrect, TypesCrash

(* ... and never down for an inclusion.                                    *)
THEOREM RepInclusionNeverDegrades == RepSpec => InclusionNeverDegrades
BY RepTypeCorrect, TypesInclude
=============================================================================
