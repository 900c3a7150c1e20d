------------------------- MODULE BundleBuilderProofs -------------------------
(***************************************************************************)
(* Proofs about one createBundle call, for any entries, any answers of the *)
(* node and whatever happens to the ledger meanwhile.                      *)
(***************************************************************************)
EXTENDS BundleBuilder, ReputationProofs, FiniteSetTheorems, WellFoundedInduction

(* A balance is asked for only when there is a paymaster to have one.      *)
BalanceOfPaymaster == step = "balance" => Op.paymaster # None

TypeInv == BundleTypeOK /\ BalanceOfPaymaster

-----------------------------------------------------------------------------
(* The entry under way.                                                    *)

LEMMA CurrentFacts ==
    ASSUME BundleTypeOK, next <= Len(Entries)
    PROVE  /\ next \in DOMAIN Entries
           /\ Current \in Hash
           /\ Op \in UserOps
           /\ \A i \in 1..(next - 1) : Entries[i] # Current
BY BundleAssumption, UserOpAssumption DEF BundleTypeOK, Current, Op

LEMMA NextEntryType ==
    ASSUME BundleTypeOK, next <= Len(Entries), NextEntry
    PROVE  /\ next' \in 1..(Len(Entries) + 1)
           /\ step' = "status"
BY BundleAssumption DEF BundleTypeOK, NextEntry

(* A paymaster or factory has a role of an operation, nobody a negative    *)
(* number of them.                                                         *)
LEMMA RolesInFacts ==
    ASSUME NEW op, NEW a
    PROVE  /\ RolesIn(op, a) \in Nat
           /\ a \in Sponsors(op) => RolesIn(op, a) >= 1
<1> DEFINE roles == {i \in 1..2 : <<op.paymaster, op.factory>>[i] = a}
<1>1. IsFiniteSet(roles)
  <2>1. roles \in SUBSET Nat /\ \A i \in roles : i <= 2
    OBVIOUS
  <2> QED
    BY <2>1, FS_BoundedSetOfNaturals
<1>2. Cardinality(roles) \in Nat /\ (Cardinality(roles) = 0 <=> roles = {})
  BY <1>1, FS_CardinalityType, FS_EmptySet
<1>3. ASSUME a \in Sponsors(op)
      PROVE  roles # {}
  <2>1. op.paymaster = a \/ op.factory = a
    BY <1>3 DEF Sponsors
  <2>2. 1 \in roles \/ 2 \in roles
    BY <2>1
  <2> QED
    BY <2>2
<1> QED
  BY <1>2, <1>3 DEF RolesIn

LEMMA IncludeType ==
    ASSUME BundleTypeOK, next <= Len(Entries), NEW deposit \in Nat, Include(deposit),
           Op.paymaster # None => deposit >= Op.maxCost
    PROVE  BundleTypeOK'
<1>1. Current \in Hash /\ Op \in UserOps /\ Gas[Current] \in Nat
  BY CurrentFacts, BundleAssumption
<1>2. next' \in 1..(Len(Entries) + 1) /\ step' = "status"
  BY NextEntryType DEF Include
<1>3. paymasterDeposit' \in [Address -> Nat]
  <2>1. \A a \in Address : a = Op.paymaster => deposit - Op.maxCost \in Nat
    BY <1>1, AddressAssumption DEF UserOps
  <2> QED
    BY <2>1 DEF Include, BundleTypeOK
<1>4. stakedEntityCount' \in [Address -> Nat]
  <2>1. \A a \in Address : stakedEntityCount[a] + RolesIn(Op, a) \in Nat
    BY RolesInFacts DEF BundleTypeOK
  <2> QED
    BY <2>1 DEF Include
<1>5. RepTypeOK'
  BY DEF Include, BundleTypeOK, RepTypeOK, repVars
<1>6. bundle' \subseteq Hash
  BY <1>1 DEF Include, BundleTypeOK
<1>7. totalGas' \in Nat
  BY <1>1 DEF Include, BundleTypeOK
<1>8. senders' \subseteq Address
  BY <1>1 DEF Include, BundleTypeOK, UserOps
<1> QED
  BY <1>2, <1>3, <1>4, <1>5, <1>6, <1>7, <1>8 DEF Include, BundleTypeOK

LEMMA SkipUnfundedType ==
    ASSUME BundleTypeOK, next <= Len(Entries), NEW deposit \in Nat, SkipUnfunded(deposit)
    PROVE  BundleTypeOK'
<1>1. Current \in Hash
  BY CurrentFacts
<1>2. next' \in 1..(Len(Entries) + 1) /\ step' = "status"
  BY NextEntryType DEF SkipUnfunded
<1>3. RepTypeOK'
  BY DEF SkipUnfunded, BundleTypeOK, RepTypeOK, repVars
<1> QED
  BY <1>1, <1>2, <1>3 DEF SkipUnfunded, SendBack, BundleTypeOK

(* An entry taken without its balance being touched.                       *)
LEMMA SortedType ==
    ASSUME BundleTypeOK, next <= Len(Entries), Drop \/ SendBack, NextEntry,
           UNCHANGED <<tallies, repVars>>
    PROVE  BundleTypeOK'
<1>1. Current \in Hash
  BY CurrentFacts
<1>2. next' \in 1..(Len(Entries) + 1) /\ step' = "status"
  BY NextEntryType
<1>3. RepTypeOK'
  BY DEF BundleTypeOK, RepTypeOK, repVars
<1> QED
  BY <1>1, <1>2, <1>3 DEF Drop, SendBack, BundleTypeOK, tallies

LEMMA AwaitType ==
    ASSUME BundleTypeOK, next <= Len(Entries),
           step' \in {"validation", "balance", "failed"}, UNCHANGED <<next, sorted, tallies, repVars>>
    PROVE  BundleTypeOK'
<1>1. next # Len(Entries) + 1
  BY BundleAssumption DEF BundleTypeOK
<1>2. RepTypeOK'
  BY DEF BundleTypeOK, RepTypeOK, repVars
<1> QED
  BY <1>1, <1>2 DEF BundleTypeOK, sorted, tallies

LEMMA ChargeType ==
    ASSUME BundleTypeOK, next <= Len(Entries), NEW deposit \in Nat, Charge(deposit)
    PROVE  BundleTypeOK'
BY IncludeType, SkipUnfundedType DEF Charge

LEMMA BuilderStepType ==
    ASSUME TypeInv, BuilderStep
    PROVE  BundleTypeOK'
<1>0. BundleTypeOK
  BY DEF TypeInv
<1>1. ASSUME NEW touched, SkipAfterValidation(touched)
      PROVE  BundleTypeOK'
  BY <1>0, <1>1, SortedType DEF SkipAfterValidation, At
<1>2. ASSUME NEW touched, AskBalance(touched)
      PROVE  BundleTypeOK'
  BY <1>0, <1>2, AwaitType DEF AskBalance, At
<1>3. ASSUME NEW touched, IncludeUnsponsored(touched)
      PROVE  BundleTypeOK'
  BY <1>0, <1>3, IncludeType DEF IncludeUnsponsored, At
<1>4. ASSUME NEW touched, ChargeRemembered(touched)
      PROVE  BundleTypeOK'
  <2>1. next <= Len(Entries) /\ Op.paymaster # None /\ Charge(paymasterDeposit[Op.paymaster])
    BY <1>4 DEF ChargeRemembered, At
  <2>2. paymasterDeposit[Op.paymaster] \in Nat
    BY <1>0, <2>1, CurrentFacts DEF UserOps, BundleTypeOK
  <2> QED
    BY <1>0, <2>1, <2>2, ChargeType
<1>5. CASE ChargeFetched
  <2>1. /\ next <= Len(Entries) /\ Op.paymaster # None
        /\ Charge(Balance[Lower[Op.paymaster]])
    BY <1>5 DEF ChargeFetched, At, TypeInv, BalanceOfPaymaster
  <2>2. Balance[Lower[Op.paymaster]] \in Nat
    BY <1>0, <2>1, CurrentFacts, AccountFacts, BundleAssumption DEF UserOps
  <2> QED
    BY <1>0, <2>1, <2>2, ChargeType
<1>6. CASE RemoveBanned \/ SkipThrottledOrDuplicate \/ FailsValidation
  BY <1>0, <1>6, SortedType DEF RemoveBanned, SkipThrottledOrDuplicate, FailsValidation, At
<1>7. CASE Revalidate \/ BalanceFails
  BY <1>0, <1>7, AwaitType DEF Revalidate, BalanceFails, At
<1> QED
  BY <1>1, <1>2, <1>3, <1>4, <1>5, <1>6, <1>7 DEF BuilderStep

LEMMA LedgerStepType ==
    ASSUME TypeInv, LedgerStep
    PROVE  TypeInv'
<1>1. RepTypeOK
  BY DEF TypeInv, BundleTypeOK
<1>2. Reported \subseteq Account
  BY BundleAssumption
<1>3. ASSUME NEW a \in Account, UpdateSeenStatus({a}, 1)
      PROVE  RepTypeOK'
  <2>1. \A b \in {a} : reputationEntries[b].opsSeen + 1 >= MinOps
    BY <1>1, ReputationAssumption DEF RepTypeOK, Entry
  <2> QED
    BY <1>1, <1>3, <2>1, SeenType
<1>4. ASSUME NEW a \in Account, reputationEntries[a].opsSeen > MinOps, UpdateSeenStatus({a}, -1)
      PROVE  RepTypeOK'
  <2>1. reputationEntries[a].opsSeen + (-1) >= MinOps
    BY <1>1, <1>4, ReputationAssumption DEF RepTypeOK, Entry
  <2> QED
    BY <1>1, <1>4, <2>1, SeenType
<1>5. RepTypeOK'
  BY <1>1, <1>2, <1>3, <1>4, CrashedType DEF LedgerStep
<1> QED
  BY <1>5 DEF TypeInv, BalanceOfPaymaster, BundleTypeOK, LedgerStep, builderVars, sorted, tallies,
     Op, Current

LEMMA TypeInvInit == BundleInit => TypeInv
<1> SUFFICES ASSUME BundleInit
             PROVE  TypeInv
  OBVIOUS
<1>1. RepTypeOK
  BY ReputationAssumption DEF BundleInit, RepInit, RepTypeOK, Entry, Unknown
<1> QED
  BY <1>1, BundleAssumption DEF BundleInit, TypeInv, BundleTypeOK, BalanceOfPaymaster

LEMMA TypeInvStep == TypeInv /\ [BundleNext]_bundleVars => TypeInv'
<1> SUFFICES ASSUME TypeInv, [BundleNext]_bundleVars
             PROVE  TypeInv'
  OBVIOUS
<1>1. CASE BuilderStep
  <2>1. BalanceOfPaymaster'
    BY <1>1 DEF BalanceOfPaymaster, BuilderStep, RemoveBanned, SkipThrottledOrDuplicate, Revalidate,
       FailsValidation, SkipAfterValidation, AskBalance, NeedsBalance, IncludeUnsponsored,
       ChargeRemembered, ChargeFetched, Charge, Include, SkipUnfunded, BalanceFails, NextEntry,
       Op, Current
  <2> QED
    BY <1>1, <2>1, BuilderStepType DEF TypeInv
<1>2. CASE UNCHANGED bundleVars
  BY <1>2 DEF TypeInv, BalanceOfPaymaster, BundleTypeOK, bundleVars, builderVars, sorted, tallies,
     repVars, RepTypeOK, Op, Current
<1> QED
  BY <1>1, <1>2, LedgerStepType DEF BundleNext

LEMMA TypeInvHolds == BundleSpec => []TypeInv
BY TypeInvInit, TypeInvStep, PTL DEF BundleSpec

(* Whatever the entries, the answers of the node and the changes of the    *)
(* ledger, createBundle's accumulator is well formed: in particular no      *)
(* remembered deposit is ever charged below zero.                          *)
THEOREM BundleTypeCorrect == BundleSpec => []BundleTypeOK
<1>1. TypeInv => BundleTypeOK
  BY DEF TypeInv
<1> QED
  BY <1>1, TypeInvHolds, PTL

-----------------------------------------------------------------------------
(* What a step does to the accumulator: it drops the entry, sends it back, *)
(* includes it, or awaits something about it.                              *)

Dropped == Drop /\ NextEntry /\ UNCHANGED <<senders, stakedEntityCount>>

SentBack == SendBack /\ NextEntry /\ UNCHANGED <<senders, stakedEntityCount>>

EntryIncluded ==
    /\ step \in {"validation", "balance"}
    /\ \E deposit : Include(deposit)

(* Only an entry whose sender is new to the bundle goes on to an await.    *)
Awaiting ==
    /\ UNCHANGED <<next, sorted, senders, stakedEntityCount>>
    /\ step' \in {"validation", "balance"} =>
         step \in {"validation", "balance"} \/ ~DuplicateSender

LEMMA StepForms ==
    ASSUME TypeInv, [BundleNext]_bundleVars
    PROVE  \/ next <= Len(Entries) /\ (Dropped \/ SentBack \/ EntryIncluded)
           \/ Awaiting
<1>1. ASSUME NEW deposit, next <= Len(Entries), step \in {"validation", "balance"}, Charge(deposit)
      PROVE  SentBack \/ EntryIncluded
  BY <1>1 DEF Charge, SkipUnfunded, SentBack, EntryIncluded
<1>2. CASE RemoveBanned \/ FailsValidation
  BY <1>2 DEF RemoveBanned, FailsValidation, Dropped, At, tallies
<1>3. CASE SkipThrottledOrDuplicate
  BY <1>3 DEF SkipThrottledOrDuplicate, SentBack, At, tallies
<1>4. CASE Revalidate \/ BalanceFails
  BY <1>4 DEF Revalidate, BalanceFails, Awaiting, tallies
<1>5. ASSUME NEW touched, SkipAfterValidation(touched)
      PROVE  next <= Len(Entries) /\ SentBack
  BY <1>5 DEF SkipAfterValidation, SentBack, At, tallies
<1>6. ASSUME NEW touched, AskBalance(touched)
      PROVE  Awaiting
  BY <1>6 DEF AskBalance, At, Awaiting, tallies
<1>7. ASSUME NEW touched, IncludeUnsponsored(touched)
      PROVE  next <= Len(Entries) /\ EntryIncluded
  BY <1>7 DEF IncludeUnsponsored, EntryIncluded, At
<1>8. ASSUME NEW touched, ChargeRemembered(touched)
      PROVE  next <= Len(Entries) /\ (SentBack \/ EntryIncluded)
  BY <1>1, <1>8 DEF ChargeRemembered, At
<1>9. CASE ChargeFetched
  BY <1>1, <1>9 DEF ChargeFetched, At
<1>10. CASE LedgerStep \/ UNCHANGED bundleVars
  BY <1>10 DEF LedgerStep, Awaiting, bundleVars, builderVars, tallies
<1> QED
  BY <1>2, <1>3, <1>4, <1>5, <1>6, <1>7, <1>8, <1>9, <1>10 DEF BundleNext, BuilderStep

-----------------------------------------------------------------------------
(* The entries taken so far.                                               *)

LEMMA TakenFacts ==
    ASSUME BundleTypeOK, next <= Len(Entries)
    PROVE  /\ Current \notin Taken
           /\ NextEntry => Taken' = Taken \cup {Current}
<1>1. Current \notin Taken
  BY CurrentFacts DEF Taken
<1>2. ASSUME NextEntry
      PROVE  Taken' = Taken \cup {Current}
  <2>1. 1..next = 1..(next - 1) \cup {next} /\ next' - 1 = next
    BY <1>2 DEF NextEntry, BundleTypeOK
  <2> QED
    BY <2>1 DEF Taken, Current
<1> QED
  BY <1>1, <1>2

LEMMA FateStep ==
    ASSUME TypeInv, EveryEntryHasOneFate, [BundleNext]_bundleVars
    PROVE  EveryEntryHasOneFate'
<1>0. BundleTypeOK
  BY DEF TypeInv
<1>1. CASE next <= Len(Entries) /\ Dropped
  BY <1>0, <1>1, TakenFacts DEF Dropped, Drop, EveryEntryHasOneFate
<1>2. CASE next <= Len(Entries) /\ SentBack
  BY <1>0, <1>2, TakenFacts DEF SentBack, SendBack, EveryEntryHasOneFate
<1>3. CASE next <= Len(Entries) /\ EntryIncluded
  BY <1>0, <1>3, TakenFacts DEF EntryIncluded, Include, EveryEntryHasOneFate
<1>4. CASE Awaiting
  BY <1>4 DEF Awaiting, sorted, Taken, EveryEntryHasOneFate
<1> QED
  BY <1>1, <1>2, <1>3, <1>4, StepForms

(* Whatever the ledger and the node do meanwhile, every entry taken is in  *)
(* exactly one of the bundle, the list of those to be sent back and the    *)
(* list of those to be removed.                                            *)
THEOREM OneFateEach == BundleSpec => []EveryEntryHasOneFate
<1>1. BundleInit => EveryEntryHasOneFate
  BY DEF BundleInit, EveryEntryHasOneFate, Taken
<1>2. EveryEntryHasOneFate /\ TypeInv /\ [BundleNext]_bundleVars => EveryEntryHasOneFate'
  BY FateStep
<1> QED
  BY <1>1, <1>2, TypeInvHolds, PTL DEF BundleSpec

-----------------------------------------------------------------------------
(* The set of senders is that of the bundle, and the sender of an entry    *)
(* about which something is awaited is not in it.                          *)

SendersOfBundle == senders = {UserOp[h].sender : h \in bundle}

AwaitedIsNew == step \in {"validation", "balance"} => Op.sender \notin senders

SenderInv == SendersOfBundle /\ AwaitedIsNew /\ SpelledSendersDiffer

LEMMA SenderStep ==
    ASSUME TypeInv, SenderInv, [BundleNext]_bundleVars
    PROVE  SenderInv'
<1>0. BundleTypeOK
  BY DEF TypeInv
<1>1. CASE next <= Len(Entries) /\ (Dropped \/ SentBack)
  BY <1>1 DEF Dropped, Drop, SentBack, SendBack, NextEntry, SenderInv, SendersOfBundle,
     AwaitedIsNew, SpelledSendersDiffer
<1>2. CASE next <= Len(Entries) /\ EntryIncluded
  <2>1. /\ bundle' = bundle \cup {Current}
        /\ senders' = senders \cup {UserOp[Current].sender}
        /\ step' = "status"
        /\ UserOp[Current].sender \notin senders
    BY <1>2 DEF EntryIncluded, Include, NextEntry, SenderInv, AwaitedIsNew, Op
  <2>2. SendersOfBundle'
    BY <2>1 DEF SenderInv, SendersOfBundle
  <2>3. SpelledSendersDiffer'
    BY <2>1 DEF SenderInv, SendersOfBundle, SpelledSendersDiffer
  <2> QED
    BY <2>1, <2>2, <2>3 DEF SenderInv, AwaitedIsNew
<1>3. CASE Awaiting
  BY <1>3 DEF Awaiting, sorted, DuplicateSender, Op, Current, SenderInv, SendersOfBundle,
     AwaitedIsNew, SpelledSendersDiffer
<1> QED
  BY <1>1, <1>2, <1>3, StepForms

(* The check for a duplicate comes before the awaits, its record after     *)
(* them; nothing in between lets a second operation of a sender in.        *)
THEOREM SendersDiffer == BundleSpec => []SpelledSendersDiffer
<1>1. BundleInit => SenderInv
  BY DEF BundleInit, SenderInv, SendersOfBundle, AwaitedIsNew, SpelledSendersDiffer
<1>2. SenderInv /\ TypeInv /\ [BundleNext]_bundleVars => SenderInv'
  BY SenderStep
<1>3. SenderInv => SpelledSendersDiffer
  BY DEF SenderInv
<1> QED
  BY <1>1, <1>2, <1>3, TypeInvHolds, PTL DEF BundleSpec

-----------------------------------------------------------------------------
(* The count of a paymaster or factory is never below the operations of it *)
(* in the bundle.                                                          *)

Sponsored(a) == {h \in bundle : a \in Sponsors(UserOp[h])}

CountsCover ==
    /\ IsFiniteSet(bundle)
    /\ \A a \in Address : Cardinality(Sponsored(a)) <= stakedEntityCount[a]

LEMMA IncludedCount ==
    ASSUME BundleTypeOK, CountsCover, next <= Len(Entries), NEW deposit, Include(deposit)
    PROVE  CountsCover'
<1>1. Current \in Hash /\ bundle' = bundle \cup {Current}
  BY CurrentFacts DEF Include
<1>2. IsFiniteSet(bundle')
  BY <1>1, FS_AddElement DEF CountsCover
<1>3. ASSUME NEW a \in Address
      PROVE  Cardinality(Sponsored(a))' <= stakedEntityCount'[a]
  <2>1. /\ IsFiniteSet(Sponsored(a)) /\ Cardinality(Sponsored(a)) \in Nat
    <3>1. Sponsored(a) \subseteq bundle /\ IsFiniteSet(bundle)
      BY DEF Sponsored, CountsCover
    <3> QED
      BY <3>1, FS_Subset, FS_CardinalityType
  <2>2. stakedEntityCount'[a] = stakedEntityCount[a] + RolesIn(Op, a) /\ RolesIn(Op, a) \in Nat
    BY RolesInFacts DEF Include
  <2>3. /\ stakedEntityCount[a] \in Nat
        /\ Cardinality(Sponsored(a)) <= stakedEntityCount[a]
    BY DEF BundleTypeOK, CountsCover
  <2>4. CASE a \in Sponsors(Op)
    <3>1. Sponsored(a)' = Sponsored(a) \cup {Current}
      BY <1>1, <2>4 DEF Sponsored, Op
    <3>2. \/ Cardinality(Sponsored(a) \cup {Current}) = Cardinality(Sponsored(a))
          \/ Cardinality(Sponsored(a) \cup {Current}) = Cardinality(Sponsored(a)) + 1
      <4>1. IsFiniteSet(Sponsored(a))
        BY <2>1
      <4> QED
        BY <4>1, FS_AddElement, Zenon
    <3>3. RolesIn(Op, a) >= 1
      BY <2>4, RolesInFacts
    <3>4. Cardinality(Sponsored(a) \cup {Current}) \in Nat
      <4>1. IsFiniteSet(Sponsored(a) \cup {Current})
        BY <2>1, FS_AddElement
      <4> QED
        BY <4>1, FS_CardinalityType
    <3>5. Cardinality(Sponsored(a) \cup {Current}) <= stakedEntityCount'[a]
      BY <2>1, <2>2, <2>3, <3>2, <3>3, <3>4
    <3> QED
      BY <3>1, <3>5
  <2>5. CASE a \notin Sponsors(Op)
    <3>1. Sponsored(a)' = Sponsored(a)
      BY <1>1, <2>5 DEF Sponsored, Op
    <3>2. Cardinality(Sponsored(a)) <= stakedEntityCount'[a]
      BY <2>1, <2>2, <2>3
    <3> QED
      BY <3>1, <3>2
  <2> QED
    BY <2>4, <2>5
<1> QED
  BY <1>2, <1>3 DEF CountsCover

LEMMA CountStep ==
    ASSUME TypeInv, CountsCover, [BundleNext]_bundleVars
    PROVE  CountsCover'
<1>1. CASE next <= Len(Entries) /\ EntryIncluded
  BY <1>1, IncludedCount DEF EntryIncluded, TypeInv
<1>2. CASE (Dropped \/ SentBack) \/ Awaiting
  BY <1>2 DEF Dropped, Drop, SentBack, SendBack, Awaiting, sorted, CountsCover, Sponsored
<1> QED
  BY <1>1, <1>2, StepForms

(* [SREP-030] The counts that are read cover the bundle, so an entry goes  *)
(* on only while the bundle has room for one more operation of each of its *)
(* throttled entities, however often addresses recur in it and whatever    *)
(* roles they have.                                                        *)
THEOREM ThrottledAreFew == BundleSpec => ThrottledStayFew
<1>1. BundleInit => CountsCover
  BY FS_EmptySet DEF BundleInit, CountsCover, Sponsored
<1>2. CountsCover /\ TypeInv /\ [BundleNext]_bundleVars => CountsCover'
  BY CountStep
<1>3. ASSUME TypeInv, CountsCover, Revalidate,
             NEW a \in Sponsors(Op), GetStatus(a) = "THROTTLED"
      PROVE  Cardinality({h \in bundle : a \in Sponsors(UserOp[h])}) < ThrottledBundleCount
  <2>0. /\ BundleTypeOK /\ IsFiniteSet(bundle)
        /\ next <= Len(Entries) /\ ~Throttled
    BY <1>3 DEF TypeInv, CountsCover, Revalidate, At
  <2>1. a \in Address
    <3>1. Op \in UserOps
      BY <2>0, CurrentFacts
    <3> QED
      BY <3>1 DEF Sponsors, UserOps
  <2>2. ~(stakedEntityCount[a] >= ThrottledBundleCount)
    BY <1>3, <2>0 DEF Throttled
  <2>3. stakedEntityCount[a] \in Nat /\ ThrottledBundleCount \in Nat
    BY <2>0, <2>1, BundleAssumption DEF BundleTypeOK
  <2>4. Cardinality(Sponsored(a)) <= stakedEntityCount[a]
    BY <1>3, <2>1 DEF CountsCover
  <2>5. Cardinality(Sponsored(a)) \in Nat
    <3>1. Sponsored(a) \subseteq bundle
      BY DEF Sponsored
    <3> QED
      BY <2>0, <3>1, FS_Subset, FS_CardinalityType
  <2>6. Cardinality(Sponsored(a)) < ThrottledBundleCount
    BY <2>2, <2>3, <2>4, <2>5
  <2> QED
    BY <2>6 DEF Sponsored
<1>4. TypeInv /\ CountsCover =>
        (Revalidate =>
           \A a \in Sponsors(Op) :
             GetStatus(a) = "THROTTLED" =>
               Cardinality({h \in bundle : a \in Sponsors(UserOp[h])}) < ThrottledBundleCount)
  BY <1>3
<1> QED
  BY <1>1, <1>2, <1>4, TypeInvHolds, PTL DEF BundleSpec, ThrottledStayFew
-----------------------------------------------------------------------------
(* What is added up is the sum over the bundle.  The sum is a fold; what    *)
(* it computes follows from the least number principle.                    *)

(* Every set of numbers that is not empty has a least member.              *)
LEMMA LeastNatural ==
    ASSUME NEW T \in SUBSET Nat, T # {}
    PROVE  \E n \in T : \A m \in T : n <= m
<1> DEFINE R == OpToRel(<, Nat)
<1>1. IsWellFoundedOn(R, Nat)
  BY NatLessThanWellFounded
<1>2. \A m, n \in Nat : <<m, n>> \in R <=> m < n
  BY DEF OpToRel
<1> HIDE DEF R
<1>3. PICK n \in T : \A m \in T : ~(<<m, n>> \in R)
  BY <1>1, WFMin
<1>4. ASSUME NEW m \in T PROVE n <= m
  <2>1. ~(m < n) /\ m \in Nat /\ n \in Nat
    BY <1>2, <1>3
  <2> QED
    BY <2>1
<1> QED
  BY <1>4

(* So a set of numbers that has 0 and with each the next has them all.     *)
LEMMA Induction ==
    ASSUME NEW T, 0 \in T, \A n \in Nat : n \in T => n + 1 \in T
    PROVE  Nat \subseteq T
<1>1. SUFFICES ASSUME Nat \ T # {} PROVE FALSE
  OBVIOUS
<1>2. PICK n \in Nat \ T : \A m \in Nat \ T : n <= m
  BY <1>1, LeastNatural
<1>3. n - 1 \in Nat /\ n - 1 \notin Nat \ T
  BY <1>2
<1> QED
  BY <1>2, <1>3

(* And what holds of a set as soon as it holds of the set less any of its  *)
(* elements holds of all the subsets of a finite set.                      *)
LEMMA SetInduction ==
    ASSUME NEW S, IsFiniteSet(S), NEW T,
           \A s \in SUBSET S : (\A x \in s : s \ {x} \in T) => s \in T
    PROVE  SUBSET S \subseteq T
<1> DEFINE Sizes == {Cardinality(s) : s \in (SUBSET S) \ T}
<1>1. SUFFICES ASSUME (SUBSET S) \ T # {} PROVE FALSE
  OBVIOUS
<1>2. \A s \in SUBSET S : IsFiniteSet(s) /\ Cardinality(s) \in Nat
  BY FS_Subset, FS_CardinalityType
<1>3. Sizes \in SUBSET Nat /\ Sizes # {}
  BY <1>1, <1>2
<1>4. PICK n \in Sizes : \A m \in Sizes : n <= m
  BY <1>3, LeastNatural
<1>5. PICK s \in (SUBSET S) \ T : n = Cardinality(s)
  BY <1>4
<1>6. PICK x \in s : s \ {x} \notin T
  BY <1>5
<1>7. Cardinality(s \ {x}) = n - 1 /\ Cardinality(s \ {x}) \in Sizes
  BY <1>2, <1>5, <1>6, FS_RemoveElement
<1>8. n \in Nat
  BY <1>3
<1>9. n <= n - 1
  <2> HIDE DEF Sizes
  <2> QED
    BY <1>4, <1>7
<1> QED
  BY <1>8, <1>9

(* The sum of the gas, as it unfolds.                                      *)
Unfolds(g, D) ==
    g = [s \in D |-> IF s = {} THEN 0
                     ELSE LET x == CHOOSE x \in s : TRUE IN Gas[x] + g[s \ {x}]]

(* The library's sum is the value of such a function.                      *)
LEMMA SumIsUnfolded ==
    ASSUME NEW S
    PROVE  MapThenSumSet(LAMBDA h : Gas[h], S) = (CHOOSE g : Unfolds(g, SUBSET S))[S]
BY DEF MapThenSumSet, MapThenFoldSet, Unfolds

(* The element that is taken first.                                        *)
Choice(s) == CHOOSE x \in s : TRUE

(* It unfolds at each set of its domain.                                   *)
LEMMA UnfoldsAt ==
    ASSUME NEW D, NEW g, Unfolds(g, D)
    PROVE  \A s \in D : g[s] = IF s = {} THEN 0 ELSE Gas[Choice(s)] + g[s \ {Choice(s)}]
BY DEF Unfolds, Choice

(* There is one for every finite set.                                      *)
LEMMA SumExists ==
    ASSUME NEW S, IsFiniteSet(S)
    PROVE  \E g : Unfolds(g, SUBSET S)
<1> DEFINE Small(k) == {s \in SUBSET S : Cardinality(s) <= k}
           T == {k \in Nat : \E g : Unfolds(g, Small(k))}
<1>1. \A s \in SUBSET S : IsFiniteSet(s) /\ Cardinality(s) \in Nat
  BY FS_Subset, FS_CardinalityType
<1>2. 0 \in T
  <2> DEFINE g == [s \in Small(0) |-> 0]
  <2>1. \A s \in Small(0) : s = {}
    BY <1>1, FS_EmptySet
  <2>2. Unfolds(g, Small(0))
    BY <2>1 DEF Unfolds
  <2> QED
    BY <2>2
<1>3. ASSUME NEW k \in Nat, k \in T
      PROVE  k + 1 \in T
  <2>1. PICK g : Unfolds(g, Small(k))
    BY <1>3
  <2> DEFINE h == [s \in Small(k + 1) |->
                     IF s = {} THEN 0 ELSE Gas[Choice(s)] + g[s \ {Choice(s)}]]
  <2>2. ASSUME NEW s \in Small(k)
        PROVE  s \in Small(k + 1) /\ h[s] = g[s]
    <3>1. s \in Small(k + 1)
      BY <1>1
    <3>2. g[s] = IF s = {} THEN 0 ELSE Gas[Choice(s)] + g[s \ {Choice(s)}]
      <4> HIDE DEF Small
      <4> QED
        BY <2>1, <2>2, UnfoldsAt
    <3>3. h[s] = IF s = {} THEN 0 ELSE Gas[Choice(s)] + g[s \ {Choice(s)}]
      <4> HIDE DEF Small
      <4> QED
        BY <3>1
    <3> HIDE DEF h, Small
    <3> QED
      BY <3>1, <3>2, <3>3
  <2>3. ASSUME NEW s \in Small(k + 1), s # {}
        PROVE  s \ {Choice(s)} \in Small(k)
    <3>1. Choice(s) \in s
      BY <2>3 DEF Choice
    <3>2. Cardinality(s \ {Choice(s)}) = Cardinality(s) - 1
      BY <1>1, <3>1, FS_RemoveElement
    <3> QED
      BY <1>1, <3>2
  <2>4. ASSUME NEW s \in Small(k + 1)
        PROVE  h[s] = IF s = {} THEN 0 ELSE Gas[Choice(s)] + h[s \ {Choice(s)}]
    <3>1. s # {} => h[s \ {Choice(s)}] = g[s \ {Choice(s)}]
      BY <2>2, <2>3
    <3> QED
      BY <3>1
  <2>5. Unfolds(h, Small(k + 1))
    <3>1. h = [s \in Small(k + 1) |-> h[s]]
      OBVIOUS
    <3> HIDE DEF h, Small
    <3> QED
      BY <2>4, <3>1 DEF Unfolds, Choice
  <2> HIDE DEF h, Small
  <2> QED
    BY <2>5
<1>4. Cardinality(S) \in T
  <2> HIDE DEF T
  <2> QED
    BY <1>2, <1>3, FS_CardinalityType, Induction
<1>5. Small(Cardinality(S)) = SUBSET S
  BY FS_Subset
<1> QED
  BY <1>4, <1>5

(* The set is what is summed over, whatever the set of all.                *)
LEMMA SumsAgree ==
    ASSUME NEW S, IsFiniteSet(S), NEW D, SUBSET S \subseteq D,
           NEW g, Unfolds(g, SUBSET S), NEW h, Unfolds(h, D)
    PROVE  g[S] = h[S]
<1> DEFINE T == {s \in SUBSET S : g[s] = h[s]}
<1>0. /\ \A s \in SUBSET S : g[s] = IF s = {} THEN 0 ELSE Gas[Choice(s)] + g[s \ {Choice(s)}]
      /\ \A s \in D : h[s] = IF s = {} THEN 0 ELSE Gas[Choice(s)] + h[s \ {Choice(s)}]
  BY UnfoldsAt, Zenon
<1>1. ASSUME NEW s \in SUBSET S, \A x \in s : s \ {x} \in T
      PROVE  s \in T
  <2>1. s # {} => Choice(s) \in s
    BY DEF Choice
  <2>2. s # {} => g[s \ {Choice(s)}] = h[s \ {Choice(s)}]
    BY <1>1, <2>1
  <2>3. g[s] = IF s = {} THEN 0 ELSE Gas[Choice(s)] + g[s \ {Choice(s)}]
    BY <1>0, Zenon
  <2>4. h[s] = IF s = {} THEN 0 ELSE Gas[Choice(s)] + h[s \ {Choice(s)}]
    BY <1>0, Zenon
  <2> QED
    BY <2>2, <2>3, <2>4
<1>2. SUBSET S \subseteq T
  <2> HIDE DEF T
  <2> QED
    BY <1>1, SetInduction
<1> QED
  BY <1>2

(* The sum is a number.                                                    *)
LEMMA SumIsNatural ==
    ASSUME NEW S \in SUBSET Hash, IsFiniteSet(S), NEW g, Unfolds(g, SUBSET S)
    PROVE  \A s \in SUBSET S : g[s] \in Nat
<1> DEFINE T == {s \in SUBSET S : g[s] \in Nat}
<1>0. \A s \in SUBSET S : g[s] = IF s = {} THEN 0 ELSE Gas[Choice(s)] + g[s \ {Choice(s)}]
  BY UnfoldsAt, Zenon
<1>1. ASSUME NEW s \in SUBSET S, \A x \in s : s \ {x} \in T
      PROVE  s \in T
  <2>1. CASE s = {}
    <3>1. g[s] = 0
      BY <1>0, <2>1, Zenon
    <3> QED
      BY <3>1
  <2>2. CASE s # {}
    <3>1. Choice(s) \in s
      BY <2>2 DEF Choice
    <3>2. g[s \ {Choice(s)}] \in Nat /\ Gas[Choice(s)] \in Nat
      BY <1>1, <3>1, BundleAssumption
    <3>3. g[s] = Gas[Choice(s)] + g[s \ {Choice(s)}]
      BY <1>0, <2>2, Zenon
    <3> QED
      BY <3>2, <3>3
  <2> QED
    BY <2>1, <2>2
<1>2. SUBSET S \subseteq T
  <2> HIDE DEF T
  <2> QED
    BY <1>1, SetInduction
<1> QED
  BY <1>2

(* Any element may be taken first.                                         *)
LEMMA AnyOrder ==
    ASSUME NEW S \in SUBSET Hash, IsFiniteSet(S), NEW g, Unfolds(g, SUBSET S)
    PROVE  \A x \in S : g[S] = Gas[x] + g[S \ {x}]
<1> DEFINE T == {s \in SUBSET S : \A x \in s : g[s] = Gas[x] + g[s \ {x}]}
<1>0. /\ \A x \in S : Gas[x] \in Nat
      /\ \A s \in SUBSET S : g[s] \in Nat
  BY SumIsNatural, BundleAssumption
<1>3. \A s \in SUBSET S : g[s] = IF s = {} THEN 0 ELSE Gas[Choice(s)] + g[s \ {Choice(s)}]
  BY UnfoldsAt, Zenon
<1>1. ASSUME NEW s \in SUBSET S, \A x \in s : s \ {x} \in T, NEW x \in s
      PROVE  g[s] = Gas[x] + g[s \ {x}]
  <2> DEFINE c == Choice(s)
  <2>1. c \in s
    BY DEF Choice
  <2>2. g[s] = Gas[c] + g[s \ {c}]
    BY <1>3, <2>1, Zenon
  <2> HIDE DEF c
  <2>3. CASE x # c
    <3>1. g[s \ {x}] = Gas[c] + g[(s \ {x}) \ {c}]
      <4>1. c \in s \ {x} /\ s \ {x} \in T
        BY <1>1, <2>1, <2>3
      <4> QED
        BY <4>1
    <3>2. g[s \ {c}] = Gas[x] + g[(s \ {c}) \ {x}]
      <4>1. x \in s \ {c} /\ s \ {c} \in T
        BY <1>1, <2>1, <2>3
      <4> QED
        BY <4>1
    <3>3. (s \ {c}) \ {x} = (s \ {x}) \ {c}
      OBVIOUS
    <3>4. g[(s \ {x}) \ {c}] \in Nat /\ Gas[x] \in Nat /\ Gas[c] \in Nat
      <4>1. (s \ {x}) \ {c} \in SUBSET S
        OBVIOUS
      <4> QED
        BY <1>0, <2>1, <4>1
    <3> DEFINE m == g[(s \ {x}) \ {c}]
    <3>5. /\ g[s] = Gas[c] + g[s \ {c}] /\ g[s \ {c}] = Gas[x] + m
          /\ g[s \ {x}] = Gas[c] + m
          /\ m \in Nat /\ Gas[x] \in Nat /\ Gas[c] \in Nat
      BY <2>2, <3>1, <3>2, <3>3, <3>4, Zenon
    <3> HIDE DEF m
    <3> QED
      BY <3>5
  <2> QED
    BY <2>2, <2>3
<1>2. SUBSET S \subseteq T
  <2> HIDE DEF T
  <2>1. ASSUME NEW s \in SUBSET S, \A x \in s : s \ {x} \in T
        PROVE  s \in T
    BY <1>1, <2>1 DEF T
  <2> QED
    BY <2>1, SetInduction
<1> QED
  BY <1>2

(* The gas of a set of operations.                                         *)
GasOf(S) == MapThenSumSet(LAMBDA h : Gas[h], S)

(* The gas of a finite set is what it unfolds to.                          *)
LEMMA GasOfUnfolds ==
    ASSUME NEW S, IsFiniteSet(S)
    PROVE  \E g : Unfolds(g, SUBSET S) /\ GasOf(S) = g[S]
<1> DEFINE g == CHOOSE g : Unfolds(g, SUBSET S)
<1>1. Unfolds(g, SUBSET S)
  BY SumExists
<1>2. GasOf(S) = g[S]
  BY SumIsUnfolded DEF GasOf
<1> QED
  BY <1>1, <1>2

(* No operations, no gas.                                                  *)
LEMMA GasOfNone == GasOf({}) = 0
<1>1. PICK g : Unfolds(g, SUBSET {}) /\ GasOf({}) = g[{}]
  BY GasOfUnfolds, FS_EmptySet
<1> QED
  BY <1>1, UnfoldsAt

(* An operation more adds its gas to the sum.                              *)
LEMMA GasOfOneMore ==
    ASSUME NEW S \in SUBSET Hash, IsFiniteSet(S), NEW x \in Hash \ S
    PROVE  GasOf(S \cup {x}) = Gas[x] + GasOf(S)
<1> DEFINE W == S \cup {x}
<1>1. W \in SUBSET Hash /\ IsFiniteSet(W) /\ x \in W /\ W \ {x} = S /\ SUBSET S \subseteq SUBSET W
  BY FS_AddElement
<1>2. PICK g : Unfolds(g, SUBSET S) /\ GasOf(S) = g[S]
  BY GasOfUnfolds
<1> HIDE DEF W
<1>3. PICK h : Unfolds(h, SUBSET W) /\ GasOf(W) = h[W]
  BY <1>1, GasOfUnfolds
<1>4. h[W] = Gas[x] + h[S]
  BY <1>1, <1>3, AnyOrder
<1>5. g[S] = h[S]
  BY <1>1, <1>2, <1>3, SumsAgree
<1> QED
  BY <1>2, <1>3, <1>4, <1>5 DEF W

(* What is added up along the way is the sum over the bundle, and the      *)
(* entry whose paymaster's balance is awaited still fits.                  *)
TotalIsSum ==
    /\ totalGas = GasOf(bundle)
    /\ totalGas <= MaxBundleGas
    /\ step = "balance" => Fits

(* An operation that fits is put into the bundle.                          *)
LEMMA IncludedGas ==
    ASSUME BundleTypeOK, EveryEntryHasOneFate, IsFiniteSet(bundle), TotalIsSum,
           next <= Len(Entries), Fits, NEW deposit, Include(deposit)
    PROVE  TotalIsSum'
<1>1. /\ Current \in Hash \ bundle /\ bundle \in SUBSET Hash
      /\ Gas[Current] \in Nat /\ totalGas \in Nat /\ MaxBundleGas \in Nat
  <2>1. Current \notin bundle
    BY TakenFacts DEF EveryEntryHasOneFate
  <2> QED
    BY <2>1, CurrentFacts, BundleAssumption DEF BundleTypeOK
<1>2. GasOf(bundle \cup {Current}) = Gas[Current] + GasOf(bundle)
  BY <1>1, GasOfOneMore
<1>3. /\ bundle' = bundle \cup {Current}
      /\ totalGas' = totalGas + Gas[Current] /\ totalGas' <= MaxBundleGas
      /\ step' = "status"
  BY DEF Include, NextEntry, Fits
<1>4. GasOf(bundle)' = GasOf(bundle \cup {Current})
  BY <1>3 DEF GasOf, MapThenSumSet, MapThenFoldSet
<1>5. totalGas' = GasOf(bundle)'
  BY <1>1, <1>2, <1>3, <1>4 DEF TotalIsSum
<1> QED
  BY <1>3, <1>5 DEF TotalIsSum

(* A step that leaves the bundle alone.                                    *)
LEMMA SameGas ==
    ASSUME TotalIsSum, UNCHANGED <<bundle, totalGas>>,
           step' = "balance" => Fits'
    PROVE  TotalIsSum'
<1>1. GasOf(bundle)' = GasOf(bundle)
  BY DEF GasOf, MapThenSumSet, MapThenFoldSet
<1> QED
  BY <1>1 DEF TotalIsSum

(* Its paymaster is charged, or cannot pay.                                *)
LEMMA ChargedGas ==
    ASSUME BundleTypeOK, EveryEntryHasOneFate, IsFiniteSet(bundle), TotalIsSum,
           next <= Len(Entries), Fits, NEW deposit, Charge(deposit)
    PROVE  TotalIsSum'
<1>1. CASE SkipUnfunded(deposit)
  BY <1>1, SameGas DEF SkipUnfunded, SendBack, NextEntry
<1> QED
  BY <1>1, IncludedGas DEF Charge

(* Every step of createBundle and of the ledger.                           *)
LEMMA GasStep ==
    ASSUME TypeInv, EveryEntryHasOneFate, CountsCover, TotalIsSum, [BundleNext]_bundleVars
    PROVE  TotalIsSum'
<1>0. BundleTypeOK /\ IsFiniteSet(bundle)
  BY DEF TypeInv, CountsCover
<1>1. ASSUME NEW touched, SkipAfterValidation(touched)
      PROVE  TotalIsSum'
  BY <1>1, SameGas DEF SkipAfterValidation, SendBack, NextEntry, tallies
<1>2. ASSUME NEW touched, AskBalance(touched)
      PROVE  TotalIsSum'
  BY <1>2, SameGas DEF AskBalance, Fits, Current, sorted, tallies
<1>3. ASSUME NEW touched, IncludeUnsponsored(touched)
      PROVE  TotalIsSum'
  BY <1>0, <1>3, IncludedGas DEF IncludeUnsponsored, At
<1>4. ASSUME NEW touched, ChargeRemembered(touched)
      PROVE  TotalIsSum'
  BY <1>0, <1>4, ChargedGas DEF ChargeRemembered, At
<1>5. CASE ChargeFetched
  BY <1>0, <1>5, ChargedGas DEF ChargeFetched, At, TotalIsSum
<1>6. CASE RemoveBanned \/ SkipThrottledOrDuplicate \/ FailsValidation
  BY <1>6, SameGas DEF RemoveBanned, SkipThrottledOrDuplicate, FailsValidation, Drop, SendBack,
     NextEntry, tallies
<1>7. CASE Revalidate \/ BalanceFails
  BY <1>7, SameGas DEF Revalidate, BalanceFails, sorted, tallies
<1>8. CASE LedgerStep \/ UNCHANGED bundleVars
  BY <1>8, SameGas DEF LedgerStep, bundleVars, builderVars, sorted, tallies, TotalIsSum, Fits, Current
<1> QED
  BY <1>1, <1>2, <1>3, <1>4, <1>5, <1>6, <1>7, <1>8 DEF BundleNext, BuilderStep

(* The limit is checked before the balance of the paymaster is awaited and *)
(* the gas added after it, to a running total; what that total bounds is   *)
(* the sum over the operations in the bundle, in whatever order they came. *)
THEOREM GasIsLimited == BundleSpec => []GasWithinLimit
<1>1. BundleInit => EveryEntryHasOneFate /\ CountsCover /\ TotalIsSum
  <2>1. BundleInit => EveryEntryHasOneFate
    BY DEF BundleInit, EveryEntryHasOneFate, Taken
  <2>2. BundleInit => CountsCover
    BY FS_EmptySet DEF BundleInit, CountsCover, Sponsored
  <2>3. BundleInit => GasOf(bundle) = 0
    <3>1. ASSUME bundle = {}
          PROVE  GasOf(bundle) = 0
      BY <3>1, GasOfNone, Zenon
    <3> QED
      BY <3>1 DEF BundleInit
  <2>4. BundleInit => TotalIsSum
    BY <2>3, BundleAssumption DEF BundleInit, TotalIsSum
  <2> QED
    BY <2>1, <2>2, <2>4
<1>2. ASSUME EveryEntryHasOneFate, CountsCover, TotalIsSum, TypeInv, [BundleNext]_bundleVars
      PROVE  EveryEntryHasOneFate' /\ CountsCover' /\ TotalIsSum'
  BY <1>2, FateStep, CountStep, GasStep
<1>3. TotalIsSum => GasWithinLimit
  <2>1. GasWithinLimit <=> GasOf(bundle) <= MaxBundleGas
    BY DEF GasWithinLimit, GasOf
  <2> QED
    BY <2>1 DEF TotalIsSum
<1> QED
  BY <1>1, <1>2, <1>3, TypeInvHolds, PTL DEF BundleSpec
=============================================================================
