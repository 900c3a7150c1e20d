---------------------------- MODULE BundleBuilder ----------------------------
(***************************************************************************)
(* One createBundle call: the entries handed to it are taken one after the *)
(* other, and each is put into the bundle, sent back to the mempool or     *)
(* marked for removal.  The call awaits the reputation, the second         *)
(* validation and the paymaster's balance of every entry, and the ledger   *)
(* changes in between.                                                     *)
(*                                                                         *)
(* The storage maps of the validations are merged into the result, which   *)
(* nobody reads; they are left out.                                        *)
(***************************************************************************)
EXTENDS Reputation, Sequences, FiniteSetsExt

CONSTANTS
    Entries,                \* the hashes of the entries, in order
    KnownSenders,           \* accounts with an operation in the mempool
    Gas,                    \* preOpGas and callGasLimit of each operation
    MaxBundleGas,
    Balance,                \* the accounts' balances at the EntryPoint
    ThrottledBundleCount,   \* operations of a throttled entity (4 in the code)
    Reported                \* accounts whose ledger entry changes meanwhile

ASSUME BundleAssumption ==
    /\ Entries \in Seq(Hash)
    /\ \A i, j \in DOMAIN Entries : Entries[i] = Entries[j] => i = j
    /\ KnownSenders \subseteq Account
    /\ Gas \in [Hash -> Nat]
    /\ MaxBundleGas \in Nat
    /\ Balance \in [Account -> Nat]
    /\ ThrottledBundleCount \in Nat \ {0}
    /\ Reported \subseteq Account

VARIABLES
    next,               \* the place of the entry under way
    step,               \* what is awaited for it
    bundle,             \* the operations put into the bundle
    notIncluded,        \* the entries to be sent back
    markedToRemove,     \* the entries to be removed
    totalGas,
    senders,            \* the bundle's senders, as spelled
    paymasterDeposit,   \* what is left of each paymaster's balance, by its
                        \* spelling; 0 stands for a missing key as well
    stakedEntityCount   \* the operations of each paymaster and factory, by spelling

sorted == <<bundle, notIncluded, markedToRemove>>
tallies == <<totalGas, senders, paymasterDeposit, stakedEntityCount>>
builderVars == <<next, step, sorted, tallies>>
bundleVars == <<builderVars, repVars>>

BundleTypeOK ==
    /\ next \in 1..(Len(Entries) + 1)
    /\ step \in {"status", "validation", "balance", "failed"}
    /\ next = Len(Entries) + 1 => step = "status"
    /\ bundle \subseteq Hash
    /\ notIncluded \subseteq Hash
    /\ markedToRemove \subseteq Hash
    /\ totalGas \in Nat
    /\ senders \subseteq Address
    /\ paymasterDeposit \in [Address -> Nat]
    /\ stakedEntityCount \in [Address -> Nat]
    /\ RepTypeOK

BundleInit ==
    /\ next = 1
    /\ step = "status"
    /\ bundle = {} /\ notIncluded = {} /\ markedToRemove = {}
    /\ totalGas = 0
    /\ senders = {}
    /\ paymasterDeposit = [a \in Address |-> 0]
    /\ stakedEntityCount = [a \in Address |-> 0]
    /\ RepInit

-----------------------------------------------------------------------------
At(awaited) == next <= Len(Entries) /\ step = awaited

Current == Entries[next]
Op == UserOp[Current]

(* Mutant: the loop does not go on.                                        *)
SameEntry == next' = next /\ step' = "status"

NextEntry == next' = next + 1 /\ step' = "status"

Drop == markedToRemove' = markedToRemove \cup {Current} /\ UNCHANGED <<bundle, notIncluded>>
(* Mutant: the entry is forgotten.                                         *)
Forget == UNCHANGED sorted

SendBack == notIncluded' = notIncluded \cup {Current} /\ UNCHANGED <<bundle, markedToRemove>>

(* The paymaster and the factory of the entry, where there are any.        *)
Sponsors(op) == {op.paymaster, op.factory} \ {None}

(* The first await: the status of paymaster and factory.                   *)

Banned == \E a \in Sponsors(Op) : GetStatus(a) = "BANNED"

Throttled ==
    \E a \in Sponsors(Op) :
        GetStatus(a) = "THROTTLED" /\ stakedEntityCount[a] >= ThrottledBundleCount

(* Mutant: only the senders the mempool does not know are looked for.      *)
DuplicateUnknownSender == Op.sender \in senders \ KnownSenders

DuplicateSender == Op.sender \in senders

RemoveBanned ==
    /\ At("status") /\ Banned
    /\ Drop
    /\ NextEntry
    /\ UNCHANGED <<tallies, repVars>>

SkipThrottledOrDuplicate ==
    /\ At("status") /\ ~Banned
    /\ Throttled \/ DuplicateSender
    /\ SendBack
    /\ NextEntry
    /\ UNCHANGED <<tallies, repVars>>

Revalidate ==
    /\ At("status") /\ ~Banned /\ ~Throttled /\ ~DuplicateSender
    /\ step' = "validation"
    /\ UNCHANGED <<next, sorted, tallies, repVars>>

-----------------------------------------------------------------------------
(* The second await: the validation fails, or says which accounts' storage *)
(* the operation touched.                                                  *)

FailsValidation ==
    /\ At("validation")
    /\ Drop
    /\ NextEntry
    /\ UNCHANGED <<tallies, repVars>>

TouchesOthers(touched) == touched \cap (KnownSenders \ {Lower[Op.sender]}) # {}

(* Mutant: only the operation itself is held against the limit.            *)
FitsAlone == Gas[Current] <= MaxBundleGas

Fits == totalGas + Gas[Current] <= MaxBundleGas

(* The balance is fetched when no positive one is remembered.              *)
NeedsBalance == Op.paymaster # None /\ paymasterDeposit[Op.paymaster] = 0

SkipAfterValidation(touched) ==
    /\ At("validation")
    /\ TouchesOthers(touched) \/ ~Fits
    /\ SendBack
    /\ NextEntry
    /\ UNCHANGED <<tallies, repVars>>

AskBalance(touched) ==
    /\ At("validation") /\ ~TouchesOthers(touched) /\ Fits /\ NeedsBalance
    /\ step' = "balance"
    /\ UNCHANGED <<next, sorted, tallies, repVars>>

(* Mutant of RolesIn: the factory is not counted.                          *)
PaymasterRoles(op, a) == IF op.paymaster = a THEN 1 ELSE 0

(* An operation's count rises once for each of the two roles an address    *)
(* has in it.                                                              *)
RolesIn(op, a) == Cardinality({i \in 1..2 : <<op.paymaster, op.factory>>[i] = a})

(* Mutant of Include: the prefund is taken twice.                          *)
IncludeChargedTwice(deposit) ==
    /\ bundle' = bundle \cup {Current}
    /\ totalGas' = totalGas + Gas[Current]
    /\ senders' = senders \cup {Op.sender}
    /\ paymasterDeposit' =
         [a \in Address |-> IF a = Op.paymaster THEN deposit - 2 * Op.maxCost
                            ELSE paymasterDeposit[a]]
    /\ stakedEntityCount' = [a \in Address |-> stakedEntityCount[a] + RolesIn(Op, a)]
    /\ NextEntry
    /\ UNCHANGED <<notIncluded, markedToRemove, repVars>>

(* The entry goes into the bundle; deposit is what its paymaster has left. *)
Include(deposit) ==
    /\ bundle' = bundle \cup {Current}
    /\ totalGas' = totalGas + Gas[Current]
    /\ senders' = senders \cup {Op.sender}
    /\ paymasterDeposit' =
         [a \in Address |-> IF a = Op.paymaster THEN deposit - Op.maxCost ELSE paymasterDeposit[a]]
    /\ stakedEntityCount' = [a \in Address |-> stakedEntityCount[a] + RolesIn(Op, a)]
    /\ NextEntry
    /\ UNCHANGED <<notIncluded, markedToRemove, repVars>>

(* It is sent back instead if its paymaster cannot pay the prefund; the    *)
(* balance that was fetched is remembered either way.                      *)
SkipUnfunded(deposit) ==
    /\ SendBack
    /\ paymasterDeposit' = [paymasterDeposit EXCEPT ![Op.paymaster] = deposit]
    /\ NextEntry
    /\ UNCHANGED <<totalGas, senders, stakedEntityCount, repVars>>

IncludeUnsponsored(touched) ==
    /\ At("validation") /\ ~TouchesOthers(touched) /\ Fits
    /\ Op.paymaster = None
    /\ Include(0)

Charge(deposit) ==
    \/ deposit >= Op.maxCost /\ Include(deposit)
    \/ deposit < Op.maxCost /\ SkipUnfunded(deposit)

ChargeRemembered(touched) ==
    /\ At("validation") /\ ~TouchesOthers(touched) /\ Fits
    /\ Op.paymaster # None /\ ~NeedsBalance
    /\ Charge(paymasterDeposit[Op.paymaster])

(* The third await: the balance.                                           *)
ChargeFetched == At("balance") /\ Charge(Balance[Lower[Op.paymaster]])

(* It cannot be read: the error is not caught, and createBundle fails.     *)
BalanceFails ==
    /\ At("balance")
    /\ step' = "failed"
    /\ UNCHANGED <<next, sorted, tallies, repVars>>

-----------------------------------------------------------------------------
BuilderStep ==
    \/ RemoveBanned
    \/ SkipThrottledOrDuplicate
    \/ Revalidate
    \/ FailsValidation
    \/ \E touched \in SUBSET Account :
         \/ SkipAfterValidation(touched)
         \/ AskBalance(touched)
         \/ IncludeUnsponsored(touched)
         \/ ChargeRemembered(touched)
    \/ ChargeFetched
    \/ BalanceFails

(* Other calls write to the ledger meanwhile.                              *)
LedgerStep ==
    /\ \E a \in Reported :
         \/ SeenBelow({a}) /\ (UpdateSeenStatus({a}, 1) \/ CrashedHandleOps(a))
         \/ reputationEntries[a].opsSeen > MinOps /\ UpdateSeenStatus({a}, -1)
    /\ UNCHANGED builderVars

(* createBundle has returned, or failed.                                   *)
Settled == next > Len(Entries) \/ step = "failed"

BundleNext == BuilderStep \/ LedgerStep

(* Every await ends: the provider answers, or fails.                       *)
BundleSpec == BundleInit /\ [][BundleNext]_bundleVars /\ WF_bundleVars(BuilderStep)

-----------------------------------------------------------------------------
Taken == {Entries[i] : i \in 1..(next - 1)}

(* Every entry taken so far has exactly one fate: none is left behind, to  *)
(* stay 'bundling' for ever, and none is both sent and sent back.          *)
EveryEntryHasOneFate ==
    /\ bundle \cup notIncluded \cup markedToRemove = Taken
    /\ bundle \cap notIncluded = {}
    /\ bundle \cap markedToRemove = {}
    /\ notIncluded \cap markedToRemove = {}

(* The bundle's gas, summed over its operations, is within the limit.      *)
GasWithinLimit == MapThenSumSet(LAMBDA h : Gas[h], bundle) <= MaxBundleGas

(* No two operations of a bundle have a sender of the same spelling.       *)
SpelledSendersDiffer ==
    \A g, h \in bundle : UserOp[g].sender = UserOp[h].sender => g = h

(* [SREP-030] An entry goes on to validation only while the bundle has     *)
(* fewer than the allowed number of operations of each throttled paymaster *)
(* or factory of its.                                                      *)
ThrottledStayFew ==
    [][Revalidate =>
         \A a \in Sponsors(Op) :
             GetStatus(a) = "THROTTLED" =>
                 Cardinality({h \in bundle : a \in Sponsors(UserOp[h])}) < ThrottledBundleCount
      ]_bundleVars

(* Whatever happens to the ledger meanwhile, createBundle settles.         *)
EventuallySettles == <>Settled
=============================================================================
