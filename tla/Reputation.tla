----------------------------- MODULE Reputation -----------------------------
(***************************************************************************)
(* The reputation manager: a ledger of the operations seen from and        *)
(* included for every entity, the white and black lists, and the status    *)
(* (OK, THROTTLED or BANNED) computed from them.  Every operation is one    *)
(* updateState call, whose update function runs without an await inside    *)
(* the state's mutex: one action each.                                     *)
(***************************************************************************)
EXTENDS Entities

CONSTANTS
    MinInclusionDenominator,    \* 10 in the code
    ThrottlingSlack,            \* 10
    BanSlack,                   \* 50
    CrashPenalty,               \* 10000
    MinOps, MaxOps              \* bounds: the counts a run stays between

ASSUME ReputationAssumption ==
    /\ MinInclusionDenominator \in Nat \ {0}
    /\ ThrottlingSlack \in Nat
    /\ BanSlack \in Nat
    /\ ThrottlingSlack < BanSlack
    /\ MinOps \in Int /\ MaxOps \in Nat /\ MinOps <= 0
    /\ CrashPenalty \in Nat
    /\ (MinOps + CrashPenalty) \div MinInclusionDenominator > BanSlack

VARIABLES
    reputationEntries,  \* the ledger: an entry for every account
    whiteList,          \* spellings of the white-listed addresses
    blackList           \* spellings of the black-listed addresses

repVars == <<reputationEntries, whiteList, blackList>>

Entry == [known : BOOLEAN, opsSeen : Int, opsIncluded : Int]

(* An account the ledger has no entry for.                                 *)
Unknown == [known |-> FALSE, opsSeen |-> 0, opsIncluded |-> 0]

NewEntry(seen, included) ==
    [known |-> TRUE, opsSeen |-> seen, opsIncluded |-> included]

Statuses == {"OK", "THROTTLED", "BANNED"}

RepTypeOK ==
    /\ reputationEntries \in [Account -> Entry]
    /\ \A a \in Account : reputationEntries[a].opsSeen >= MinOps
    /\ whiteList \subseteq Address
    /\ blackList \subseteq Address

RepInit ==
    /\ reputationEntries = [a \in Account |-> Unknown]
    /\ whiteList = {}
    /\ blackList = {}

-----------------------------------------------------------------------------
(* What the ledger says of an entity.                                      *)

(* Mutant: both tests use the same slack.                                  *)
LedgerStatusOneSlack(e) ==
    LET minExpectedIncluded == e.opsSeen \div MinInclusionDenominator
    IN  IF minExpectedIncluded <= e.opsIncluded + ThrottlingSlack THEN "OK" ELSE "BANNED"

LedgerStatus(e) ==
    LET minExpectedIncluded == e.opsSeen \div MinInclusionDenominator
    IN  IF minExpectedIncluded <= e.opsIncluded + ThrottlingSlack THEN "OK"
        ELSE IF minExpectedIncluded <= e.opsIncluded + BanSlack THEN "THROTTLED"
        ELSE "BANNED"

(* The address is lower-cased, the members of the lists are not.           *)
GetStatus(a) ==
    IF a = None \/ Lower[a] \in whiteList THEN "OK"
    ELSE IF Lower[a] \in blackList THEN "BANNED"
    ELSE LedgerStatus(reputationEntries[Lower[a]])

(* floor(10 * included / seen); the denominator may be negative.           *)
InclusionRate(e) ==
    IF e.opsSeen = 0 THEN 0
    ELSE IF e.opsSeen > 0 THEN (10 * e.opsIncluded) \div e.opsSeen
    ELSE (-(10 * e.opsIncluded)) \div (-e.opsSeen)

(* calculateMaxAllowedMempoolOpsUnstaked, with the flat allowance (10 in   *)
(* the code) as a parameter.                                               *)
MaxAllowedMempoolOpsUnstaked(a, allowance) ==
    LET e == reputationEntries[Lower[a]]
    IN  IF ~e.known THEN allowance
        ELSE allowance + InclusionRate(e)
             + (IF e.opsIncluded < 10000 THEN e.opsIncluded ELSE 10000)

-----------------------------------------------------------------------------
(* The entry after delta more operations seen, or one more included: an    *)
(* account met for the first time gets an entry whose counts are zero.     *)
Seen(e, delta) ==
    IF e.known THEN NewEntry(e.opsSeen + delta, e.opsIncluded) ELSE NewEntry(0, 0)

(* Mutant: the count starts again.                                         *)
IncludedAnew(e) ==
    IF e.known THEN NewEntry(e.opsSeen, 0) ELSE NewEntry(0, 0)

Included(e) ==
    IF e.known THEN NewEntry(e.opsSeen, e.opsIncluded + 1) ELSE NewEntry(0, 0)

(* Mutant: the inclusions are kept.                                        *)
CrashedButIncluded(e) == NewEntry(e.opsSeen + CrashPenalty, e.opsIncluded)

(* An unknown account's opsSeen is zero, as the code has it.               *)
Crashed(e) == NewEntry(e.opsSeen + CrashPenalty, 0)

(* updateSeenStatus; updateSeenStatusBatch is the same on several accounts. *)
UpdateSeenStatus(accounts, delta) ==
    /\ reputationEntries' =
         [a \in Account |-> IF a \in accounts THEN Seen(reputationEntries[a], delta)
                            ELSE reputationEntries[a]]
    /\ UNCHANGED <<whiteList, blackList>>

UpdateIncludedStatus(a) ==
    /\ reputationEntries' = [reputationEntries EXCEPT ![a] = Included(@)]
    /\ UNCHANGED <<whiteList, blackList>>

CrashedHandleOps(a) ==
    /\ reputationEntries' = [reputationEntries EXCEPT ![a] = Crashed(@)]
    /\ UNCHANGED <<whiteList, blackList>>

(* setReputation of one account; debug RPC only, as is clearState.         *)
SetReputation(a, seen, included) ==
    /\ reputationEntries' = [reputationEntries EXCEPT ![a] = NewEntry(seen, included)]
    /\ UNCHANGED <<whiteList, blackList>>

ClearReputation ==
    /\ reputationEntries' = [a \in Account |-> Unknown]
    /\ UNCHANGED <<whiteList, blackList>>

AddWhitelist(items) ==
    /\ whiteList' = whiteList \cup items
    /\ UNCHANGED <<reputationEntries, blackList>>

AddBlacklist(items) ==
    /\ blackList' = blackList \cup items
    /\ UNCHANGED <<reputationEntries, whiteList>>

-----------------------------------------------------------------------------
(* Any sequence of calls, with the counts within the bound MaxOps.         *)

SeenBelow(accounts) ==
    \A a \in accounts : reputationEntries[a].opsSeen < MaxOps

RepNext ==
    \/ \E accounts \in SUBSET Account :
         SeenBelow(accounts) /\ UpdateSeenStatus(accounts, 1)
    \/ \E a \in Account : reputationEntries[a].opsSeen > MinOps /\ UpdateSeenStatus({a}, -1)
    \/ \E a \in Account :
         reputationEntries[a].opsIncluded < MaxOps /\ UpdateIncludedStatus(a)
    \/ \E a \in Account : SeenBelow({a}) /\ CrashedHandleOps(a)
    \/ \E a \in Account, seen, included \in 0..MaxOps : SetReputation(a, seen, included)
    \/ ClearReputation
    \/ \E items \in SUBSET Address : AddWhitelist(items)
    \/ \E items \in SUBSET Address : AddBlacklist(items)

RepSpec == RepInit /\ [][RepNext]_repVars

-----------------------------------------------------------------------------
Rank(status) == IF status = "OK" THEN 0 ELSE IF status = "THROTTLED" THEN 1 ELSE 2

(* One more operation seen, however many accounts the call names, moves an *)
(* entity at most one status down, past THROTTLED to BANNED only with the  *)
(* next one; an operation taken back never costs it anything.              *)
DegradesGradually ==
    [][\A accounts \in SUBSET Account, a \in Account :
         /\ UpdateSeenStatus(accounts, 1) => Rank(GetStatus(a)') <= Rank(GetStatus(a)) + 1
         /\ UpdateSeenStatus(accounts, -1) => Rank(GetStatus(a)') <= Rank(GetStatus(a))]_repVars

(* The entity blamed for a reverted handleOps is banned at once, whatever  *)
(* its record was, unless it is white-listed.                              *)
CrashBansAtOnce ==
    [][\A a \in Account :
         CrashedHandleOps(a) /\ a \notin whiteList => GetStatus(a)' = "BANNED"]_repVars

(* Being included never costs an entity its standing.                      *)
InclusionNeverDegrades ==
    [][\A a \in Account :
         UpdateIncludedStatus(a) =>
            \A b \in Account : Rank(GetStatus(b)') <= Rank(GetStatus(b))]_repVars
=============================================================================
