------------------------------- MODULE Bundler -------------------------------
(***************************************************************************)
(* The bundle manager and the bundle processor, composed with the mempool  *)
(* and the ledger: an attempt to bundle is a sequence of their calls, each *)
(* with the awaits it has there.  Attempts are made by the callbacks of    *)
(* the interval, one at a time, and by the debug call sendBundleNow, which *)
(* does not take the interval's mutex.  Users' additions and the listener  *)
(* to the EntryPoint's events come in between.                             *)
(*                                                                         *)
(* What createBundle does with each entry is any choice here;              *)
(* BundleBuilder says which it makes.  The events that handlePastEvents    *)
(* finds are any of those there are, and so may be handled again.  The     *)
(* handlePastEvents with which sendBundleNow ends does what the listener   *)
(* may do at any time, and is left to it.                                  *)
(***************************************************************************)
EXTENDS Mempool, Sequences

CONSTANTS
    Ticks,      \* callbacks of the interval
    Forced,     \* calls of sendBundleNow
    Listener    \* runs of the event listener

Drivers == Ticks \cup Forced

ASSUME BundlerAssumption ==
    /\ Drivers \cup Listener \subseteq Proc
    /\ Ticks \cap Forced = {} /\ Drivers \cap Listener = {}

VARIABLES
    auto,       \* does the interval run?
    queue,      \* the mutex: its holder, and those who wait for it
    attempt,    \* each driver's attempt
    executed,   \* what became of each operation on the chain
    flight,     \* bundles broadcast whose transaction may still be mined
    abandoned,  \* history: entries an attempt took and ended with, other
                \* than by giving them back or removing them
    resent      \* history: operations sent again while the bundler had
                \* them in hand

chain == <<executed, flight>>
bundlerVars == <<auto, queue, attempt, chain, abandoned>>
allVars == <<vars, bundlerVars, resent>>

Stages == {"idle", "waiting", "marking", "query", "building", "settling",
           "mining", "banning", "penalty", "evicting", "ending"}

Outcomes == {"none", "success", "revert"}

(* taken are the entries the attempt marked; of events, back and doomed     *)
(* those still to be handled, to be given back and to be removed; cleared  *)
(* those of doomed for which the paymaster is not to be blamed; failed the *)
(* operation that made handleOps revert.                                   *)
Attempts == [stage : Stages, taken : SUBSET Hash, events : SUBSET Hash, back : SUBSET Hash,
             doomed : SUBSET Hash, cleared : SUBSET Hash, bundle : SUBSET Hash,
             failed : Hash \cup {None}, culprit : Address \cup {None}]
NoAttempt == [stage |-> "idle", taken |-> {}, events |-> {}, back |-> {}, doomed |-> {},
              cleared |-> {}, bundle |-> {}, failed |-> None, culprit |-> None]

BundlerInit ==
    /\ MempoolInit
    /\ auto = TRUE
    /\ queue = <<>>
    /\ attempt = [d \in Drivers |-> NoAttempt]
    /\ executed = [h \in Hash |-> "none"]
    /\ flight = {}
    /\ abandoned = {}
    /\ resent = {}

-----------------------------------------------------------------------------
Executed == {h \in Hash : executed[h] # "none"}

InFlight == UNION flight

(* The EntryPoint takes an operation's nonce once: validation refuses an   *)
(* operation for whose sender and nonce another was executed.              *)
NonceIsFree(h) == \A g \in Executed : ~SameSlot(g, h)

(* d's attempt is at the stage, and no call it makes is in progress.       *)
Stage(d, stage) == attempt[d].stage = stage /\ At(d, "idle")

GotoStage(d, stage) == attempt' = [attempt EXCEPT ![d].stage = stage]

(* Mutant of End: the mutex is not released.                               *)
EndHoldingMutex(d, keeping) ==
    /\ attempt' = [attempt EXCEPT ![d] = NoAttempt]
    /\ abandoned' = abandoned \cup keeping
    /\ UNCHANGED queue

(* The attempt is over, and the mutex is released, if it was taken; keeping *)
(* are the entries it leaves as they are.                                  *)
End(d, keeping) ==
    /\ attempt' = [attempt EXCEPT ![d] = NoAttempt]
    /\ queue' = IF d \in Ticks THEN Tail(queue) ELSE queue
    /\ abandoned' = abandoned \cup keeping

(* A call that changes neither the mempool nor the ledger.                 *)
NoChange == UNCHANGED vars

SetBundlingMode ==
    /\ auto' = ~auto
    /\ UNCHANGED <<vars, queue, attempt, chain, abandoned, resent>>

(* The interval's callback queues for the mutex.                           *)
Fire(d) ==
    /\ d \in Ticks
    /\ auto
    /\ Stage(d, "idle")
    /\ queue' = Append(queue, d)
    /\ GotoStage(d, "waiting")
    /\ NoChange /\ UNCHANGED <<auto, chain, abandoned, resent>>

(* Mutant of MayBegin: the callbacks do not wait for one another.          *)
BeginsAtOnce(d) ==
    /\ \/ d \in Ticks /\ Stage(d, "waiting")
       \/ d \in Forced /\ Stage(d, "idle")
    /\ \A e \in Drivers : ~At(e, "mark")

(* A callback begins its attempt when it holds the mutex, even if the      *)
(* interval has been stopped meanwhile; the debug call begins at once.     *)
(* Entries are read and marked without an await of I/O in between, and the *)
(* timer's callback and the debug call come in turns of the event loop of  *)
(* their own, so no two attempts are at it together.                       *)
MayBegin(d) ==
    /\ \/ d \in Ticks /\ Stage(d, "waiting") /\ Head(queue) = d
       \/ d \in Forced /\ Stage(d, "idle")
    /\ \A e \in Drivers : ~At(e, "mark")

Begin(d) ==
    /\ MayBegin(d)
    /\ IF d \in Forced THEN GetAllPending(d) ELSE GetNextPending(d)
    /\ GotoStage(d, "marking")
    /\ UNCHANGED <<auto, queue, chain, abandoned>>

BeginWithNothing(d) ==
    /\ MayBegin(d)
    /\ Pending = {}
    /\ End(d, {})
    /\ NoChange /\ UNCHANGED <<auto, chain>>

(* The entries are marked; when one of them is gone, the attempt fails.    *)
MarkTaken(d) ==
    LET picked == call[d].picked.keys
    IN  /\ attempt[d].stage = "marking"
        /\ Mark(d)
        /\ IF picked \subseteq standardPool.keys
           THEN /\ attempt' = [attempt EXCEPT ![d].stage = "query", ![d].taken = picked]
                /\ UNCHANGED <<queue, abandoned>>
           ELSE End(d, picked)
        /\ UNCHANGED <<auto, chain>>

-----------------------------------------------------------------------------
(* Events.                                                                 *)

(* Mutant of FailedStatus: a reverted operation is to be tried again.      *)
RetryStatus == "pending"

FailedStatus == "failed"

(* handleUserOperationEvent: the operation is removed if it succeeded, and *)
(* marked if it reverted.                                                  *)
HandleEvent(p, h) ==
    \/ executed[h] = "success" /\ RemoveByHash(p, h)
    \/ executed[h] = "revert" /\ ReadEntry(p, h, FailedStatus)

QueryEvents(d) ==
    /\ Stage(d, "query")
    /\ \E found \in SUBSET Executed :
         attempt' = [attempt EXCEPT ![d].stage = "building", ![d].events = found]
    /\ NoChange /\ UNCHANGED <<auto, queue, chain, abandoned>>

HandlePastEvent(d, h) ==
    /\ Stage(d, "building")
    /\ h \in attempt[d].events
    /\ attempt' = [attempt EXCEPT ![d].events = @ \ {h}]
    /\ HandleEvent(d, h) \/ (h \notin standardPool.keys /\ NoChange)
    /\ UNCHANGED <<auto, queue, chain, abandoned>>

Listen(p, h) ==
    /\ HandleEvent(p, h)
    /\ UNCHANGED bundlerVars

-----------------------------------------------------------------------------
(* createBundle sorts the entries taken.                                   *)

Sponsored(h) == UserOp[h].paymaster # None

(* Mutant of LeftOut: what is in the bundle is given back as well.          *)
LeftOutOrIn(taken, bundle, doomed) == taken \ doomed

LeftOut(taken, bundle, doomed) == taken \ (bundle \cup doomed)

CreateBundle(d) ==
    /\ Stage(d, "building")
    /\ attempt[d].events = {}
    /\ \E bundle \in SUBSET attempt[d].taken :
         /\ \A h \in bundle : NonceIsFree(h)
         /\ \A g, h \in bundle : UserOp[g].sender = UserOp[h].sender => g = h
         /\ \E doomed \in SUBSET (attempt[d].taken \ bundle) :
            \E cleared \in SUBSET {h \in doomed : Sponsored(h)} :
              attempt' = [attempt EXCEPT ![d].stage = "settling", ![d].bundle = bundle,
                                         ![d].back = LeftOut(attempt[d].taken, bundle, doomed),
                                         ![d].doomed = doomed, ![d].cleared = cleared]
    /\ NoChange /\ UNCHANGED <<auto, queue, chain, abandoned>>

(* Mutant of GiveBack: the entry is left as it is.                         *)
GiveUp(d, h) ==
    /\ Stage(d, "settling")
    /\ h \in attempt[d].back
    /\ attempt' = [attempt EXCEPT ![d].back = @ \ {h}]
    /\ NoChange
    /\ UNCHANGED <<auto, queue, chain, abandoned>>

(* The entries left out are set back to pending, those that are still      *)
(* there, ...                                                              *)
GiveBack(d, h) ==
    /\ Stage(d, "settling")
    /\ h \in attempt[d].back
    /\ attempt' = [attempt EXCEPT ![d].back = @ \ {h}]
    /\ ReadEntry(d, h, "pending") \/ (h \notin standardPool.keys /\ NoChange)
    /\ UNCHANGED <<auto, queue, chain, abandoned>>

(* ... and those refused are removed.  A paymaster is not blamed for what  *)
(* the account or the factory did: the operation seen from it is taken     *)
(* back first.  Bound: while more than MinOps of them were seen.           *)
ClearPaymaster(d, h) ==
    /\ Stage(d, "settling") /\ attempt[d].back = {}
    /\ h \in attempt[d].cleared
    /\ reputationEntries[Lower[UserOp[h].paymaster]].opsSeen > MinOps
    /\ attempt' = [attempt EXCEPT ![d].cleared = @ \ {h}]
    /\ UpdateSeenStatus({Lower[UserOp[h].paymaster]}, -1)
    /\ UNCHANGED <<mempoolVars, auto, queue, chain, abandoned>>

Evict(d, h) ==
    /\ Stage(d, "settling") /\ attempt[d].back = {}
    /\ h \in attempt[d].doomed \ attempt[d].cleared
    /\ attempt' = [attempt EXCEPT ![d].doomed = @ \ {h}]
    /\ RemoveByHash(d, h) \/ (h \notin standardPool.keys /\ NoChange)
    /\ UNCHANGED <<auto, queue, chain, abandoned>>

-----------------------------------------------------------------------------
(* sendBundle, with whatever is in the bundle, if anything.                *)

ReadyToSend(d) ==
    Stage(d, "settling") /\ attempt[d].back = {} /\ attempt[d].doomed = {}

(* The transaction is broadcast, and waited for.                           *)
Broadcast(d) ==
    /\ ReadyToSend(d)
    /\ \A h \in attempt[d].bundle : NonceIsFree(h)
    /\ flight' = flight \cup {attempt[d].bundle}
    /\ GotoStage(d, "mining")
    /\ NoChange /\ UNCHANGED <<auto, queue, executed, abandoned>>

(* It is mined when the chain gets to it, if ever, whether it is still     *)
(* waited for or not: handleOps executes the bundle, and each operation    *)
(* may revert by itself; or it reverts as a whole, as it must once one of  *)
(* the nonces is taken, or is dropped.                                     *)
Mine(bundle) ==
    /\ bundle \in flight
    /\ flight' = flight \ {bundle}
    /\ \/ /\ \A h \in bundle : NonceIsFree(h)
          /\ \E outcome \in [bundle -> {"success", "revert"}] :
               executed' = [h \in Hash |-> IF h \in bundle THEN outcome[h] ELSE executed[h]]
       \/ UNCHANGED executed
    /\ NoChange /\ UNCHANGED <<auto, queue, attempt, abandoned, resent>>

(* The wait is over: with the receipt; with an error, be it that the       *)
(* transaction reverted or that the provider failed; or at once, when it   *)
(* was sent to a searcher.  There is no timeout.                           *)
WaitEnds(d) ==
    /\ Stage(d, "mining")
    /\ End(d, attempt[d].bundle)
    /\ NoChange /\ UNCHANGED <<auto, chain, resent>>

(* The provider fails before that, or its error names no operation: nothing *)
(* is done about the bundle.                                               *)
SendFails(d) ==
    /\ ReadyToSend(d)
    /\ End(d, attempt[d].bundle)
    /\ NoChange /\ UNCHANGED <<auto, chain>>

(* findEntityToBan, by the class of the error: AA3, AA2, AA1, any other.    *)
Accountable(h) ==
    LET staked(a) == a # None /\ Lower[a] \in Staked
        op == UserOp[h]
    IN  {IF staked(op.sender) THEN op.sender ELSE op.paymaster,
         IF staked(op.factory) THEN op.factory ELSE op.sender,
         op.factory,
         None}

(* Bound: an account is penalized only while it was seen at most MaxOps    *)
(* times, so once.                                                         *)
SendReverts(d, h) ==
    /\ ReadyToSend(d)
    /\ h \in attempt[d].bundle
    /\ \E culprit \in Accountable(h) :
         /\ culprit # None => reputationEntries[Lower[culprit]].opsSeen <= MaxOps
         /\ attempt' = [attempt EXCEPT ![d].failed = h, ![d].culprit = culprit,
                                    ![d].stage = IF culprit = None THEN "evicting" ELSE "banning"]
    /\ NoChange /\ UNCHANGED <<auto, queue, chain, abandoned>>

(* The culprit's operations are removed, then it is banned, ...            *)
Ban(d) ==
    LET culprit == attempt[d].culprit
    IN  /\ Stage(d, "banning")
        /\ GotoStage(d, "penalty")
        /\ \/ BanSelect(d, culprit)
           \/ (\A h \in standardPool.keys : culprit \notin Spelled(h)) /\ NoChange
        /\ UNCHANGED <<auto, queue, chain, abandoned>>

Penalize(d) ==
    /\ Stage(d, "penalty")
    /\ GotoStage(d, "evicting")
    /\ CrashedHandleOps(Lower[attempt[d].culprit])
    /\ UNCHANGED <<mempoolVars, auto, queue, chain, abandoned>>

(* ... and the first entry with the sender and nonce of the operation that *)
(* failed is removed: the operation itself, or what replaced it.           *)
EvictFailed(d) ==
    /\ Stage(d, "evicting")
    /\ GotoStage(d, "ending")
    /\ \/ RemoveByUserOp(d, attempt[d].failed)
       \/ Matches(standardPool, attempt[d].failed) = {} /\ NoChange
    /\ UNCHANGED <<auto, queue, chain, abandoned>>

EndAfterRevert(d) ==
    /\ Stage(d, "ending")
    /\ End(d, attempt[d].bundle)
    /\ NoChange /\ UNCHANGED <<auto, chain>>

(* The provider fails while events are queried or a balance is read.       *)
AttemptFails(d) ==
    /\ Stage(d, "query") \/ (Stage(d, "building") /\ attempt[d].events = {})
    /\ End(d, attempt[d].taken)
    /\ NoChange /\ UNCHANGED <<auto, chain>>

-----------------------------------------------------------------------------
(* The second half of a call of the mempool.                               *)
FinishCall(p) == Remove(p) \/ SetStatus(p) \/ BanRemove(p)

AttemptStep(d) ==
    /\ UNCHANGED resent
    /\ \/ Begin(d)
       \/ BeginWithNothing(d)
       \/ MarkTaken(d)
       \/ QueryEvents(d)
       \/ \E h \in Hash : HandlePastEvent(d, h)
       \/ CreateBundle(d)
       \/ \E h \in Hash : GiveBack(d, h) \/ ClearPaymaster(d, h) \/ Evict(d, h)
       \/ Broadcast(d)
       \/ SendFails(d)
       \/ \E h \in Hash : SendReverts(d, h)
       \/ Ban(d)
       \/ Penalize(d)
       \/ EvictFailed(d)
       \/ EndAfterRevert(d)
       \/ AttemptFails(d)
       \/ FinishCall(d) /\ UNCHANGED bundlerVars

ListenerStep(p) ==
    /\ UNCHANGED resent
    /\ \/ \E h \in Hash : Listen(p, h)
       \/ FinishCall(p) /\ UNCHANGED bundlerVars

-----------------------------------------------------------------------------
(* The operation that p's addition is about, until it enters the pool.     *)
Admitting(p, h) ==
    call[p].pc \in {"snapshot", "classify", "check", "roles", "commit"} /\ call[p].hash = h

(* What attempt d has taken or is about to.                                *)
Held(d) == attempt[d].taken \cup (IF At(d, "mark") THEN call[d].picked.keys ELSE {})

(* An entry that is in the pool or in an attempt, or that an update has    *)
(* read and will write.                                                    *)
Kept(h) ==
    \/ h \in standardPool.keys
    \/ \E d \in Drivers : h \in Held(d)
    \/ \E p \in Proc : At(p, "setStatus") /\ call[p].old = h

InHand(h) == Kept(h) \/ h \in InFlight \/ \E p \in Proc : Admitting(p, h)

(* eth_sendUserOperation, after the validation of the operation.           *)
UserStep(p) ==
    /\ AddStep(p)
    /\ At(p, "idle") => \E h \in Offers[p] : NonceIsFree(h) /\ AddUserOp(p, h)
    /\ resent' = resent \cup {h \in Hash : AddUserOp(p, h) /\ InHand(h)}
    /\ UNCHANGED bundlerVars

BundlerNext ==
    \/ SetBundlingMode
    \/ \E d \in Drivers : Fire(d) \/ AttemptStep(d) \/ WaitEnds(d)
    \/ \E bundle \in flight : Mine(bundle)
    \/ \E p \in Listener : ListenerStep(p)
    \/ \E p \in Proc \ (Drivers \cup Listener) : UserStep(p)

(* Every await of an attempt ends, for the provider answers or fails, but   *)
(* the one for the transaction to be mined: nothing is assumed of it.  An  *)
(* attempt whose turn it is is not kept from it by others that begin.      *)
BundlerSpec ==
    /\ BundlerInit
    /\ [][BundlerNext]_allVars
    /\ \A d \in Drivers : WF_allVars(AttemptStep(d)) /\ SF_allVars(Begin(d) /\ UNCHANGED resent)

-----------------------------------------------------------------------------
(* Properties.                                                             *)

Under(d) == attempt[d].stage \notin {"idle", "waiting"}

(* The types; the mutex's queue is that of the callbacks that are not idle, *)
(* and only the first of them is under way; an attempt does no two things   *)
(* with one entry.                                                         *)
BundlerTypeOK ==
    /\ MempoolTypeOK
    /\ auto \in BOOLEAN
    /\ queue \in Seq(Ticks)
    /\ attempt \in [Drivers -> Attempts]
    /\ executed \in [Hash -> Outcomes]
    /\ flight \subseteq SUBSET Hash
    /\ abandoned \subseteq Hash /\ resent \subseteq Hash
    /\ \A d \in Ticks :
         /\ attempt[d].stage # "idle" <=> \E i \in DOMAIN queue : queue[i] = d
         /\ Under(d) => Head(queue) = d
    /\ \A d \in Drivers :
         LET a == attempt[d]
         IN  /\ a.back \cup a.doomed \cup a.bundle \subseteq a.taken
             /\ a.back \cap a.doomed = {} /\ (a.back \cup a.doomed) \cap a.bundle = {}
             /\ a.cleared \subseteq a.doomed

(* mempool.types.ts: what getNextPending and getAllPending hand out was     *)
(* pending, however the interval fires, stops and starts while users and   *)
(* events change the pool: unless it was sent again while the bundler had  *)
(* it in hand, and so is added to the pool once more after it was executed, *)
(* for an event to mark.                                                   *)
TakesPendingOnly ==
    [][\A d \in Drivers :
         attempt[d].stage = "marking" /\ attempt'[d].stage = "query" =>
            \A h \in attempt'[d].taken \ resent : entryStatus[h] = "pending"]_allVars

(* No operation is in the bundles of two attempts, nor in a bundle while    *)
(* the transaction of another may still execute it, however many attempts  *)
(* overlap and however late transactions are mined: with the same          *)
(* exception.                                                              *)
SentOnce ==
    /\ \A d, e \in Drivers :
         d # e => attempt[d].bundle \cap attempt[e].bundle \subseteq resent
    /\ \A d \in Drivers :
         attempt[d].stage # "mining" => attempt[d].bundle \cap InFlight \subseteq resent
    /\ \A s, t \in flight : s # t => s \cap t \subseteq resent

(* No entry is forgotten: one that is marked as being bundled is in the     *)
(* hands of an attempt under way, or was in the bundle of one that ended,  *)
(* or the attempt was cut short by an error.                               *)
BundlingIsOwned ==
    \A h \in standardPool.keys :
        entryStatus[h] = "bundling" => h \in abandoned \cup UNION {Held(d) : d \in Drivers}

(* An operation that reverted on the chain, if it is still in the pool, is  *)
(* never offered for another bundle, whichever of the listener and the     *)
(* attempts learns of it first, and however often: unless it was sent again *)
(* while the bundler had it in hand, and so validated once more before it  *)
(* reverted.  (One that succeeded is removed, and may come back by an      *)
(* addition in progress meanwhile.)                                        *)
RevertedNotRetried ==
    \A h \in standardPool.keys \ resent : executed[h] = "revert" => entryStatus[h] # "pending"

(* Unless a transaction is waited for without end, every attempt ends, and  *)
(* every callback that waits gets its turn, however an attempt ends: in    *)
(* success, with a revert or with an error.                                *)
AttemptsEnd ==
    (\A d \in Drivers : []<>(attempt[d].stage # "mining")) =>
        \A d \in Drivers : attempt[d].stage # "idle" ~> attempt[d].stage = "idle"
=============================================================================
