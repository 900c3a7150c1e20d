-------------------------- MODULE HourlyCronProofs --------------------------
(***************************************************************************)
(* Proofs about the hourly decay: it keeps the ledger well formed whatever *)
(* calls come in between its awaits, so that what holds of the ledger by   *)
(* itself holds with the decay running, and it lowers nobody's standing.   *)
(***************************************************************************)
EXTENDS HourlyCron, ReputationProofs

allVars == <<repVars, cronVars>>

(* A decayed count is a count, and falls below the bound no sooner than    *)
(* the count it comes from: the product is divided by more than it was     *)
(* multiplied with.                                                        *)
LEMMA DecayedCount ==
    ASSUME NEW x \in Int, NEW low \in Int, low <= 0, x >= low
    PROVE  /\ (x * 23) \div 24 \in Int
           /\ (x * 23) \div 24 >= low
           /\ x >= 0 => (x * 23) \div 24 >= 0
<1> DEFINE y == x * 23
           q == y \div 24
<1>1. y \in Int /\ 24 \in Nat \ {0}
  OBVIOUS
<1>2. q \in Int /\ y < 24 * q + 24
  BY <1>1, DivFacts
<1>3. y >= 23 * low /\ (x >= 0 => y >= 0)
  OBVIOUS
<1> HIDE DEF y, q
<1>4. q >= low
  BY <1>1, <1>2, <1>3
<1>5. x >= 0 => q >= 0
  BY <1>1, <1>2, <1>3
<1> QED
  BY <1>2, <1>4, <1>5 DEF q, y

LEMMA DecayedType ==
    ASSUME NEW e \in Entry, e.opsSeen >= MinOps
    PROVE  Decayed(e) \in Entry /\ Decayed(e).opsSeen >= MinOps
<1> DEFINE count == (e.opsSeen * 23) \div 24
<1>1. count \in Int /\ count >= MinOps
  <2>1. e.opsSeen \in Int /\ MinOps \in Int /\ MinOps <= 0
    BY ReputationAssumption DEF Entry
  <2> QED
    BY <2>1, DecayedCount
<1> HIDE DEF count
<1>2. CASE Decayed(e) = Unknown
  BY <1>2, ReputationAssumption DEF Unknown, Entry
<1>3. CASE Decayed(e) = NewEntry(count, count)
  BY <1>1, <1>3 DEF NewEntry, Entry
<1> QED
  BY <1>2, <1>3 DEF Decayed, count

LEMMA CronTypeStep == CronTypeOK /\ [CronNext]_allVars => CronTypeOK'
<1> SUFFICES ASSUME CronTypeOK, [CronNext]_allVars
             PROVE  CronTypeOK'
  OBVIOUS
<1>1. CASE StartHourlyCron
  BY <1>1 DEF CronTypeOK, StartHourlyCron, RepTypeOK, repVars
<1>2. CASE Tick
  BY <1>2 DEF CronTypeOK, Tick, Known, RepTypeOK, repVars
<1>3. ASSUME NEW a \in Account, Decay(a)
      PROVE  CronTypeOK'
  <2>1. Decayed(captured[a]) \in Entry /\ Decayed(captured[a]).opsSeen >= MinOps
    BY DecayedType DEF CronTypeOK
  <2>2. RepTypeOK'
    BY <1>3, <2>1 DEF CronTypeOK, RepTypeOK, Decay
  <2> QED
    BY <1>3, <2>2 DEF CronTypeOK, Decay
<1>4. CASE TickEnds
  BY <1>4 DEF CronTypeOK, TickEnds, RepTypeOK, repVars
<1>5. CASE OtherCall
  <2>1. RepTypeOK'
    BY <1>5, RepTypeStep DEF OtherCall, CronTypeOK
  <2> QED
    BY <1>5, <2>1 DEF OtherCall, CronTypeOK, cronVars
<1>6. CASE UNCHANGED allVars
  BY <1>6 DEF allVars, CronTypeOK, RepTypeOK, repVars, cronVars
<1> QED
  BY <1>1, <1>2, <1>3, <1>4, <1>5, <1>6 DEF CronNext

(* The ledger and the cron's reading of it stay well formed, and no tick   *)
(* ends with accounts left to visit.                                       *)
THEOREM CronTypeCorrect == CronSpec => []CronTypeOK
<1>1. CronInit => CronTypeOK
  <2>1. MinOps <= 0 /\ Unknown \in Entry /\ Unknown.opsSeen = 0
    BY ReputationAssumption, EntryTypes DEF Unknown
  <2> QED
    BY <2>1 DEF CronInit, RepInit, CronTypeOK, RepTypeOK
<1> QED
  BY <1>1, CronTypeStep, PTL DEF CronSpec, allVars

LEMMA CronLedgerTypes == CronSpec => []RepTypeOK
<1>1. CronTypeOK => RepTypeOK
  BY DEF CronTypeOK
<1> QED
  BY <1>1, CronTypeCorrect, PTL

(* With the decay interleaved, too, one more operation seen costs at most  *)
(* one status, ...                                                         *)
THEOREM CronDegradesGradually == CronSpec => DegradesGradually
BY CronLedgerTypes, TypesDegrade

(* ... a crash bans at once, ...                                           *)
THEOREM CronCrashBansAtOnce == CronSpec => CrashBansAtOnce
BY CronLedgerTypes, TypesCrash

(* ... and an inclusion costs nothing.                                     *)
THEOREM CronInclusionNeverDegrades == CronSpec => InclusionNeverDegrades
BY CronLedgerTypes, TypesInclude

-----------------------------------------------------------------------------
(* Equal counts that are not negative leave an entry in good standing.     *)
LEMMA EqualCountsAreOK ==
    ASSUME NEW n \in Nat
    PROVE  LedgerStatus(NewEntry(n, n)) = "OK"
<1> DEFINE q == n \div MinInclusionDenominator
           d == MinInclusionDenominator
<1>1. /\ d \in Nat \ {0}
      /\ ThrottlingSlack \in Nat
      /\ q \in Int
      /\ d * q <= n
  BY ReputationAssumption, DivFacts
<1>2. q <= n
  <2> HIDE DEF q, d
  <2>1. CASE q <= 0
    BY <1>1, <2>1
  <2>2. CASE q > 0
    <3>1. q <= d * q
      BY <1>1, <2>2
    <3> QED
      BY <1>1, <3>1
  <2> QED
    BY <1>1, <2>1, <2>2
<1> HIDE DEF q
<1>3. q <= n + ThrottlingSlack
  BY <1>1, <1>2
<1> QED
  BY <1>3 DEF LedgerStatus, NewEntry, q

LEMMA DecayedIsOK ==
    ASSUME NEW e \in Entry, e.opsSeen >= 0
    PROVE  LedgerStatus(Decayed(e)) = "OK"
<1> DEFINE count == (e.opsSeen * 23) \div 24
<1>1. count \in Nat
  <2>1. e.opsSeen \in Int
    BY DEF Entry
  <2> QED
    BY <2>1, DecayedCount
<1> HIDE DEF count
<1>2. LedgerStatus(NewEntry(count, count)) = "OK"
  BY <1>1, EqualCountsAreOK
<1>3. Decayed(e) = Unknown \/ Decayed(e) = NewEntry(count, count)
  BY DEF Decayed, count
<1> QED
  BY <1>2, <1>3, FreshIsOK

(* A visit of the decay loop never lowers an account's standing, for every *)
(* reading of the ledger it may start from, however stale.                 *)
THEOREM CronDecayNeverDegrades == CronSpec => DecayNeverDegrades
<1>1. ASSUME CronTypeOK, NEW a \in Account, Decay(a), captured[a].opsSeen >= 0
      PROVE  Rank(GetStatus(a)') <= Rank(GetStatus(a))
  <2>1. /\ reputationEntries'[a] = Decayed(captured[a])
        /\ whiteList' = whiteList
        /\ blackList' = blackList
    BY <1>1 DEF Decay, CronTypeOK, RepTypeOK
  <2>2. LedgerStatus(reputationEntries'[a]) = "OK"
    BY <1>1, <2>1, DecayedIsOK DEF CronTypeOK
  <2>3. Rank("OK") = 0 /\ Rank("BANNED") <= Rank("BANNED")
    BY DEF Rank
  <2>4. Rank(LedgerStatus(reputationEntries[a])) >= 0
    BY RankRange
  <2> QED
    BY <2>1, <2>2, <2>3, <2>4, StatusOfAccount
<1>2. CronTypeOK =>
        [\A a \in Account :
           Decay(a) /\ captured[a].opsSeen >= 0 =>
              Rank(GetStatus(a)') <= Rank(GetStatus(a))]_<<repVars, cronVars>>
  BY <1>1
<1> QED
  BY <1>2, CronTypeCorrect, PTL DEF DecayNeverDegrades
=============================================================================
