---------------------------- MODULE BundlerProofs ----------------------------
(***************************************************************************)
(* Proofs about the bundle manager, for any number of callbacks, forced    *)
(* bundles, listeners and users.                                           *)
(***************************************************************************)
EXTENDS Bundler, MempoolProofs

(* The entries an attempt has in hand once it sorts them.                  *)
Sorting == {"settling", "mining", "banning", "penalty", "evicting", "ending"}

(* What a driver does in its attempt.                                      *)
Acts(d) == AttemptStep(d) \/ WaitEnds(d)

(* An attempt does one thing with an entry it has taken, and nothing with  *)
(* any before createBundle; all are given back or removed before it sends  *)
(* the bundle; whom it bans is somebody.                                   *)
AttemptOK(a) ==
    /\ a \in Attempts
    /\ a.back \cup a.doomed \cup a.bundle \subseteq a.taken
    /\ a.back \cap a.doomed = {} /\ (a.back \cup a.doomed) \cap a.bundle = {}
    /\ a.cleared \subseteq {h \in a.doomed : Sponsored(h)}
    /\ a.stage \notin Sorting => a.bundle = {}
    /\ a.stage # "settling" => a.back = {} /\ a.doomed = {}
    /\ a.stage \in {"banning", "penalty"} => a.culprit \in Address

(* The callbacks that are not idle queue for the mutex, each once, and the *)
(* one under way is the first.                                             *)
MutexOK ==
    /\ queue \in Seq(Ticks)
    /\ \A i, j \in DOMAIN queue : queue[i] = queue[j] => i = j
    /\ \A d \in Ticks :
         /\ attempt[d].stage # "idle" <=> \E i \in DOMAIN queue : queue[i] = d
         /\ Under(d) => Head(queue) = d

BundlerInv ==
    /\ TypeInv
    /\ MutexOK
    /\ attempt \in [Drivers -> Attempts] /\ \A d \in Drivers : AttemptOK(attempt[d])
    /\ auto \in BOOLEAN
    /\ executed \in [Hash -> Outcomes]
    /\ flight \subseteq SUBSET Hash
    /\ abandoned \subseteq Hash /\ resent \subseteq Hash

LEMMA InvIsType == BundlerInv => BundlerTypeOK
BY DEF BundlerInv, TypeInv, MutexOK, AttemptOK, BundlerTypeOK

-----------------------------------------------------------------------------
(* What the steps do to the mempool and the ledger: nothing, a step of the *)
(* mempool's own, or one of the bundle manager's two changes of the ledger. *)

LEMMA TakeBackType ==
    ASSUME TypeInv, NEW a \in Account, reputationEntries[a].opsSeen > MinOps,
           UpdateSeenStatus({a}, -1), UNCHANGED mempoolVars
    PROVE  TypeInv'
<1>1. reputationEntries[a].opsSeen + (-1) >= MinOps
  BY ReputationAssumption DEF TypeInv, MempoolTypeOK, RepTypeOK, Entry
<1>2. RepTypeOK'
  BY <1>1, SeenType DEF TypeInv, MempoolTypeOK
<1> QED
  BY <1>2 DEF TypeInv, MempoolTypeOK, mempoolVars, poolVars

LEMMA PenaltyType ==
    ASSUME TypeInv, NEW a \in Account, CrashedHandleOps(a), UNCHANGED mempoolVars
    PROVE  TypeInv'
<1>1. RepTypeOK'
  BY CrashedType DEF TypeInv, MempoolTypeOK
<1> QED
  BY <1>1 DEF TypeInv, MempoolTypeOK, mempoolVars, poolVars

LEMMA UnchangedType ==
    ASSUME TypeInv, UNCHANGED vars PROVE TypeInv'
BY DEF TypeInv, MempoolTypeOK, vars, mempoolVars, poolVars, repVars, RepTypeOK

(* Every step of the composition that calls the mempool takes one of its   *)
(* steps.                                                                  *)
Calling(p) ==
    \/ AddStep(p)
    \/ \E h \in Hash : RemoveByHash(p, h)
    \/ \E a \in Address : BanSelect(p, a)
    \/ FinishCall(p)
    \/ GetNextPending(p) \/ GetAllPending(p) \/ Mark(p)
    \/ \E h \in Hash, status \in {"pending", "failed"} : ReadEntry(p, h, status)

LEMMA CallingType ==
    ASSUME TypeInv, NEW p \in Proc, Calling(p) PROVE TypeInv'
<1>1. AddStep(p) \/ RemoveStep(p) \/ BundleStep(p)
  BY DEF Calling, FinishCall, RemoveStep, BundleStep
<1> QED
  BY <1>1, AddStepType, RemoveStepType, BundleStepType

LEMMA DriversCall ==
    ASSUME BundlerInv, NEW d \in Drivers, Acts(d)
    PROVE  \/ Calling(d)
           \/ UNCHANGED vars
           \/ /\ UNCHANGED mempoolVars
              /\ \E a \in Account :
                   \/ reputationEntries[a].opsSeen > MinOps /\ UpdateSeenStatus({a}, -1)
                   \/ CrashedHandleOps(a)
<1>0. AttemptOK(attempt[d])
  BY DEF BundlerInv
<1>k. standardPool.keys \subseteq Hash
  BY DEF BundlerInv, TypeInv, MempoolTypeOK, Pools
<1>1. CASE Begin(d)
  BY <1>1 DEF Begin, Calling
<1>2. CASE BeginWithNothing(d) \/ QueryEvents(d) \/ CreateBundle(d) \/ Broadcast(d)
             \/ WaitEnds(d) \/ SendFails(d) \/ EndAfterRevert(d) \/ AttemptFails(d)
  BY <1>2 DEF BeginWithNothing, QueryEvents, CreateBundle, Broadcast, WaitEnds, SendFails,
     EndAfterRevert, AttemptFails, NoChange
<1>3. CASE MarkTaken(d)
  BY <1>3 DEF MarkTaken, Calling
<1>4. ASSUME NEW h \in Hash, HandlePastEvent(d, h)
      PROVE  Calling(d) \/ UNCHANGED vars
  BY <1>4 DEF HandlePastEvent, HandleEvent, FailedStatus, Calling, NoChange
<1>5. ASSUME NEW h \in Hash, GiveBack(d, h) \/ Evict(d, h)
      PROVE  Calling(d) \/ UNCHANGED vars
  BY <1>5 DEF GiveBack, Evict, Calling, NoChange
<1>6. ASSUME NEW h \in Hash, ClearPaymaster(d, h)
      PROVE  /\ UNCHANGED mempoolVars
             /\ \E a \in Account : /\ reputationEntries[a].opsSeen > MinOps
                                   /\ UpdateSeenStatus({a}, -1)
  <2>1. UserOp[h].paymaster \in Address
    BY <1>0, <1>6, UserOpAssumption DEF AttemptOK, ClearPaymaster, Sponsored, UserOps
  <2> QED
    BY <1>6, <2>1, AccountFacts DEF ClearPaymaster
<1>7. ASSUME NEW h \in Hash, SendReverts(d, h)
      PROVE  UNCHANGED vars
  BY <1>7 DEF SendReverts, NoChange
<1>8. CASE Ban(d)
  BY <1>0, <1>8 DEF Ban, AttemptOK, Stage, Calling, NoChange
<1>9. CASE Penalize(d)
  BY <1>0, <1>9, AccountFacts DEF Penalize, AttemptOK, Stage
<1>10. CASE EvictFailed(d)
  BY <1>10, <1>k DEF EvictFailed, RemoveByUserOp, RemoveByHash, Calling, NoChange
<1>11. CASE FinishCall(d)
  BY <1>11 DEF Calling
<1> QED
  BY <1>1, <1>2, <1>3, <1>4, <1>5, <1>6, <1>7, <1>8, <1>9, <1>10, <1>11 DEF Acts, AttemptStep

-----------------------------------------------------------------------------
(* What a driver's step does to its attempt.                               *)

(* It begins, or goes on, keeping its place in the mutex's queue ...       *)
GoesOn(d) ==
    /\ attempt[d].stage = "idle" => d \in Forced
    /\ attempt'[d].stage # "idle"
    /\ d \in Ticks => Under(d) \/ Head(queue) = d
    /\ queue' = queue

(* ... or it ends.                                                         *)
Ends(d) ==
    /\ attempt'[d] = NoAttempt
    /\ d \in Ticks => attempt[d].stage # "idle" /\ Head(queue) = d
    /\ queue' = IF d \in Ticks THEN Tail(queue) ELSE queue

OwnAttempt(d) ==
    /\ attempt' = [e \in Drivers |-> attempt'[e]]
    /\ \A e \in Drivers \ {d} : attempt'[e] = attempt[e]

LEMMA NoAttemptOK == AttemptOK(NoAttempt)
BY DEF AttemptOK, NoAttempt, Attempts, Stages, Sorting

LEMMA EndStep ==
    ASSUME BundlerInv, NEW d \in Drivers, Stage(d, "waiting") \/ Under(d) \/ d \in Forced,
           d \in Ticks => Head(queue) = d \/ Under(d),
           NEW keeping, End(d, keeping)
    PROVE  OwnAttempt(d) /\ AttemptOK(attempt'[d]) /\ Ends(d)
<1>1. attempt' = [attempt EXCEPT ![d] = NoAttempt] /\ DOMAIN attempt = Drivers
  BY DEF End, BundlerInv
<1>2. d \in Ticks => attempt[d].stage # "idle" /\ Head(queue) = d
  BY BundlerAssumption DEF BundlerInv, MutexOK, Under, Stage, Drivers
<1> QED
  BY <1>1, <1>2, NoAttemptOK DEF OwnAttempt, Ends, End

(* A step to another stage.                                                *)
LEMMA StageStep ==
    ASSUME BundlerInv, NEW d \in Drivers, NEW stage \in Stages \ {"idle", "waiting"},
           Under(d) \/ MayBegin(d), GotoStage(d, stage), queue' = queue,
           stage \notin Sorting => attempt[d].stage \notin Sorting,
           stage # "settling" /\ attempt[d].stage # "settling",
           stage \in {"banning", "penalty"} => attempt[d].culprit \in Address
    PROVE  OwnAttempt(d) /\ AttemptOK(attempt'[d]) /\ GoesOn(d)
<1> DEFINE a == attempt[d]
           b == attempt'[d]
<1>1. /\ OwnAttempt(d)
      /\ b = [a EXCEPT !.stage = stage]
  BY DEF GotoStage, BundlerInv, OwnAttempt
<1>2. a \in Attempts /\ AttemptOK(a)
  BY DEF BundlerInv
<1>3. /\ b \in Attempts /\ b.stage = stage
      /\ b.taken = a.taken /\ b.back = a.back /\ b.doomed = a.doomed /\ b.bundle = a.bundle
      /\ b.cleared = a.cleared /\ b.culprit = a.culprit
  BY <1>1, <1>2 DEF Attempts
<1>4. AttemptOK(b)
  <2> HIDE DEF a, b
  <2> QED
    BY <1>2, <1>3 DEF AttemptOK, a
<1>5. GoesOn(d)
  BY <1>3, BundlerAssumption DEF GoesOn, MayBegin, Under, Stage
<1> QED
  BY <1>1, <1>4, <1>5

(* Every step of a driver begins, carries on or ends its own attempt, or   *)
(* finishes a call it has made.                                            *)
LEMMA DriverStep ==
    ASSUME BundlerInv, NEW d \in Drivers, Acts(d)
    PROVE  \/ UNCHANGED <<queue, attempt>>
           \/ OwnAttempt(d) /\ AttemptOK(attempt'[d]) /\ (GoesOn(d) \/ Ends(d))
<1> DEFINE a == attempt[d]
           b == attempt'[d]
           Good == OwnAttempt(d) /\ AttemptOK(attempt'[d]) /\ (GoesOn(d) \/ Ends(d))
<1>0. a \in Attempts /\ AttemptOK(a) /\ attempt \in [Drivers -> Attempts]
  BY DEF BundlerInv
<1>m. d \in Ticks /\ Under(d) => Head(queue) = d
  BY DEF BundlerInv, MutexOK
<1>g. ASSUME Under(d), queue' = queue, attempt' = [attempt EXCEPT ![d] = b], AttemptOK(b),
             b.stage # "idle"
      PROVE  Good
  BY <1>g, <1>0 DEF OwnAttempt, GoesOn, Under
<1>1. CASE Begin(d)
  <2>1. "marking" \in Stages \ {"idle", "waiting"} /\ "marking" \notin Sorting
    BY DEF Stages, Sorting
  <2>2. a.stage \notin Sorting /\ a.stage # "settling"
    BY <1>1 DEF Begin, MayBegin, Stage, Sorting
  <2>3. MayBegin(d) /\ GotoStage(d, "marking") /\ queue' = queue
    BY <1>1 DEF Begin
  <2> QED
    BY <2>1, <2>2, <2>3, StageStep
<1>2. CASE BeginWithNothing(d)
  <2>1. /\ Stage(d, "waiting") \/ d \in Forced
        /\ d \in Ticks => Head(queue) = d
        /\ End(d, {})
    BY <1>2, BundlerAssumption DEF BeginWithNothing, MayBegin
  <2> QED
    BY <2>1, EndStep
<1>3. CASE MarkTaken(d)
  <2> DEFINE picked == call[d].picked.keys
  <2>1. Under(d) /\ a.stage = "marking"
    BY <1>3 DEF MarkTaken, Under
  <2>2. CASE picked \subseteq standardPool.keys
    <3>1. picked \subseteq Hash
      BY BundlerAssumption DEF BundlerInv, TypeInv, MempoolTypeOK, Calls, Pools, Drivers
    <3>2. /\ attempt' = [attempt EXCEPT ![d] = b] /\ queue' = queue
          /\ b = [a EXCEPT !.stage = "query", !.taken = picked]
      BY <1>0, <1>3, <2>2 DEF MarkTaken
    <3> HIDE DEF picked
    <3>3. /\ b \in Attempts /\ b.stage = "query"
          /\ b.back = a.back /\ b.doomed = a.doomed /\ b.bundle = a.bundle
          /\ b.cleared = a.cleared
      BY <3>1, <3>2, <1>0 DEF Attempts, Stages
    <3>4. AttemptOK(b)
      <4> HIDE DEF a, b
      <4> QED
        BY <1>0, <2>1, <3>3 DEF AttemptOK, Sorting, a
    <3> HIDE DEF b
    <3> QED
      BY <1>g, <2>1, <3>2, <3>3, <3>4
  <2>3. CASE ~(picked \subseteq standardPool.keys)
    <3>1. End(d, picked)
      BY <1>3, <2>3 DEF MarkTaken
    <3> QED
      BY <2>1, <3>1, EndStep
  <2> QED
    BY <2>2, <2>3
<1>4. CASE QueryEvents(d)
  <2>1. Under(d) /\ a.stage = "query"
    BY <1>4 DEF QueryEvents, Stage, Under
  <2>2. PICK found \in SUBSET Executed :
          attempt' = [attempt EXCEPT ![d].stage = "building", ![d].events = found]
    BY <1>4 DEF QueryEvents
  <2>3. found \subseteq Hash /\ queue' = queue
    BY <1>4 DEF Executed, QueryEvents
  <2>4. /\ attempt' = [attempt EXCEPT ![d] = b]
        /\ b = [a EXCEPT !.stage = "building", !.events = found]
    BY <1>0, <2>2
  <2>5. /\ b \in Attempts /\ b.stage = "building"
        /\ b.back = a.back /\ b.doomed = a.doomed /\ b.bundle = a.bundle
        /\ b.cleared = a.cleared
    BY <2>3, <2>4, <1>0 DEF Attempts, Stages
  <2>6. AttemptOK(b)
    <3> HIDE DEF a, b
    <3> QED
      BY <1>0, <2>1, <2>5 DEF AttemptOK, Sorting, a
  <2> HIDE DEF b
  <2> QED
    BY <1>g, <2>1, <2>3, <2>4, <2>5, <2>6
<1>5. ASSUME NEW h \in Hash, HandlePastEvent(d, h)
      PROVE  Good
  <2>1. Under(d) /\ a.stage = "building" /\ queue' = queue
    BY <1>5 DEF HandlePastEvent, Stage, Under
  <2>2. /\ attempt' = [attempt EXCEPT ![d] = b]
        /\ b = [a EXCEPT !.events = @ \ {h}]
    BY <1>0, <1>5 DEF HandlePastEvent
  <2>3. /\ b \in Attempts /\ b.stage = "building"
        /\ b.back = a.back /\ b.doomed = a.doomed /\ b.bundle = a.bundle
        /\ b.cleared = a.cleared
    BY <2>1, <2>2, <1>0 DEF Attempts
  <2>4. AttemptOK(b)
    <3> HIDE DEF a, b
    <3> QED
      BY <1>0, <2>1, <2>3 DEF AttemptOK, Sorting, a
  <2> HIDE DEF b
  <2> QED
    BY <1>g, <2>1, <2>2, <2>3, <2>4
<1>6. CASE CreateBundle(d)
  <2>1. Under(d) /\ a.stage = "building" /\ queue' = queue
    BY <1>6 DEF CreateBundle, Stage, Under
  <2>a. PICK bundle \in SUBSET attempt[d].taken :
          \E doomed \in SUBSET (attempt[d].taken \ bundle) :
          \E cleared \in SUBSET {h \in doomed : Sponsored(h)} :
            attempt' = [attempt EXCEPT ![d].stage = "settling", ![d].bundle = bundle,
                                       ![d].back = LeftOut(attempt[d].taken, bundle, doomed),
                                       ![d].doomed = doomed, ![d].cleared = cleared]
    BY <1>6 DEF CreateBundle
  <2>b. PICK doomed \in SUBSET (attempt[d].taken \ bundle) :
          \E cleared \in SUBSET {h \in doomed : Sponsored(h)} :
            attempt' = [attempt EXCEPT ![d].stage = "settling", ![d].bundle = bundle,
                                       ![d].back = LeftOut(attempt[d].taken, bundle, doomed),
                                       ![d].doomed = doomed, ![d].cleared = cleared]
    BY <2>a
  <2>c. PICK cleared \in SUBSET {h \in doomed : Sponsored(h)} :
            attempt' = [attempt EXCEPT ![d].stage = "settling", ![d].bundle = bundle,
                                       ![d].back = LeftOut(attempt[d].taken, bundle, doomed),
                                       ![d].doomed = doomed, ![d].cleared = cleared]
    BY <2>b
  <2> DEFINE back == LeftOut(a.taken, bundle, doomed)
  <2>3. /\ attempt' = [attempt EXCEPT ![d] = b]
        /\ b = [a EXCEPT !.stage = "settling", !.bundle = bundle, !.back = back,
                         !.doomed = doomed, !.cleared = cleared]
    BY <1>0, <2>c
  <2>4. /\ b \in Attempts /\ b.stage = "settling"
        /\ b.back = back /\ b.doomed = doomed /\ b.bundle = bundle
        /\ b.cleared = cleared /\ b.taken = a.taken
    <3>1. /\ bundle \subseteq Hash /\ back \subseteq Hash /\ doomed \subseteq Hash
          /\ cleared \subseteq Hash
      BY <1>0, <2>a, <2>b, <2>c DEF Attempts, LeftOut
    <3>2. b = [a EXCEPT !.stage = "settling", !.bundle = bundle, !.back = back,
                        !.doomed = doomed, !.cleared = cleared]
      BY <2>3
    <3>3. a \in Attempts
      BY <1>0
    <3> HIDE DEF a, b, back
    <3> QED
      BY <3>1, <3>2, <3>3 DEF Attempts, Stages
  <2>5. AttemptOK(b)
    <3>1. /\ back \cup doomed \cup bundle \subseteq a.taken
          /\ back \cap doomed = {} /\ (back \cup doomed) \cap bundle = {}
          /\ cleared \subseteq {h \in doomed : Sponsored(h)}
      BY <2>a, <2>b, <2>c DEF LeftOut
    <3> HIDE DEF a, b, back
    <3> QED
      BY <2>4, <3>1 DEF AttemptOK, Sorting
  <2> HIDE DEF b
  <2> QED
    BY <1>g, <2>1, <2>3, <2>4, <2>5
<1>7. ASSUME NEW h \in Hash, GiveBack(d, h) \/ ClearPaymaster(d, h) \/ Evict(d, h)
      PROVE  Good
  <2>1. Under(d) /\ a.stage = "settling" /\ queue' = queue
    BY <1>7 DEF GiveBack, ClearPaymaster, Evict, Stage, Under
  <2>2. /\ attempt' = [attempt EXCEPT ![d] = b]
        /\ \/ b = [a EXCEPT !.back = @ \ {h}]
           \/ b = [a EXCEPT !.cleared = @ \ {h}]
           \/ b = [a EXCEPT !.doomed = @ \ {h}] /\ h \notin a.cleared
    BY <1>0, <1>7 DEF GiveBack, ClearPaymaster, Evict
  <2>3. /\ b \in Attempts /\ b.stage = "settling"
        /\ b.bundle = a.bundle /\ b.taken = a.taken
        /\ b.back \subseteq a.back /\ b.cleared \subseteq a.cleared
        /\ b.doomed \subseteq a.doomed /\ b.cleared \subseteq b.doomed
    <3>1. a.cleared \subseteq a.doomed
      BY <1>0 DEF AttemptOK
    <3> QED
      BY <2>1, <2>2, <1>0, <3>1 DEF Attempts
  <2>4. AttemptOK(b)
    <3> HIDE DEF a, b
    <3> QED
      BY <1>0, <2>3 DEF AttemptOK, Sorting
  <2> HIDE DEF b
  <2> QED
    BY <1>g, <2>1, <2>2, <2>3, <2>4
<1>8. CASE WaitEnds(d) \/ SendFails(d) \/ EndAfterRevert(d) \/ AttemptFails(d)
  <2>1. Under(d)
    BY <1>8 DEF WaitEnds, SendFails, EndAfterRevert, AttemptFails, ReadyToSend, Stage, Under
  <2>2. \E keeping : End(d, keeping)
    BY <1>8 DEF WaitEnds, SendFails, EndAfterRevert, AttemptFails
  <2> QED
    BY <2>1, <2>2, <1>m, EndStep
<1>9. ASSUME NEW h \in Hash, SendReverts(d, h)
      PROVE  Good
  <2>1. Under(d) /\ a.stage = "settling" /\ queue' = queue
    BY <1>9 DEF SendReverts, ReadyToSend, Stage, Under
  <2>2. PICK culprit \in Accountable(h) :
          attempt' = [attempt EXCEPT ![d].failed = h, ![d].culprit = culprit,
                        ![d].stage = IF culprit = None THEN "evicting" ELSE "banning"]
    BY <1>9 DEF SendReverts
  <2>3. culprit \in Address \cup {None}
    BY UserOpAssumption DEF Accountable, UserOps
  <2> DEFINE stage == IF culprit = None THEN "evicting" ELSE "banning"
  <2>4. /\ attempt' = [attempt EXCEPT ![d] = b]
        /\ b = [a EXCEPT !.failed = h, !.culprit = culprit, !.stage = stage]
    BY <1>0, <2>2
  <2>5. /\ stage \in Stages /\ stage \in {"evicting", "banning"}
        /\ stage = "banning" => culprit \in Address
    BY <2>3 DEF Stages
  <2> HIDE DEF stage
  <2>6. /\ b \in Attempts /\ b.stage = stage /\ b.culprit = culprit
        /\ b.back = a.back /\ b.doomed = a.doomed /\ b.bundle = a.bundle
        /\ b.cleared = a.cleared /\ b.taken = a.taken
    BY <2>3, <2>4, <2>5, <1>0 DEF Attempts
  <2>r. a.back = {} /\ a.doomed = {}
    BY <1>9 DEF SendReverts, ReadyToSend
  <2>7. AttemptOK(b)
    <3> HIDE DEF a, b
    <3> QED
      BY <1>0, <2>5, <2>6, <2>r DEF AttemptOK, Sorting
  <2> HIDE DEF b
  <2> QED
    BY <1>g, <2>1, <2>4, <2>5, <2>6, <2>7
<1>b. CASE Broadcast(d)
  <2>1. /\ Under(d) /\ a.stage = "settling" /\ queue' = queue
        /\ a.back = {} /\ a.doomed = {}
    BY <1>b DEF Broadcast, ReadyToSend, Stage, Under
  <2>2. /\ attempt' = [attempt EXCEPT ![d] = b]
        /\ b = [a EXCEPT !.stage = "mining"]
    BY <1>0, <1>b DEF Broadcast, GotoStage
  <2>3. /\ b \in Attempts /\ b.stage = "mining"
        /\ b.back = a.back /\ b.doomed = a.doomed /\ b.bundle = a.bundle
        /\ b.cleared = a.cleared /\ b.taken = a.taken
    BY <2>2, <1>0 DEF Attempts, Stages
  <2>4. AttemptOK(b)
    <3> HIDE DEF a, b
    <3> QED
      BY <1>0, <2>1, <2>3 DEF AttemptOK, Sorting
  <2> HIDE DEF b
  <2> QED
    BY <1>g, <2>1, <2>2, <2>3, <2>4
<1>10. CASE Ban(d) \/ Penalize(d) \/ EvictFailed(d)
  <2>1. Under(d) /\ queue' = queue /\ attempt[d].stage # "settling"
    BY <1>10 DEF Ban, Penalize, EvictFailed, Stage, Under
  <2>2. CASE Ban(d)
    <3>1. GotoStage(d, "penalty") /\ a.culprit \in Address
      BY <1>0, <2>2 DEF Ban, Stage, AttemptOK
    <3> QED
      BY <2>1, <3>1, StageStep DEF Stages, Sorting
  <2>3. CASE Penalize(d)
    <3>1. GotoStage(d, "evicting")
      BY <2>3 DEF Penalize
    <3> QED
      BY <2>1, <3>1, StageStep DEF Stages, Sorting
  <2>4. CASE EvictFailed(d)
    <3>1. GotoStage(d, "ending")
      BY <2>4 DEF EvictFailed
    <3> QED
      BY <2>1, <3>1, StageStep DEF Stages, Sorting
  <2> QED
    BY <1>10, <2>2, <2>3, <2>4
<1>11. CASE FinishCall(d) /\ UNCHANGED bundlerVars
  BY <1>11 DEF bundlerVars
<1> HIDE DEF Good
<1> QED
  BY <1>1, <1>2, <1>3, <1>4, <1>5, <1>6, <1>7, <1>8, <1>9, <1>b, <1>10, <1>11
     DEF Acts, AttemptStep, Good

-----------------------------------------------------------------------------
(* The mutex.                                                              *)

LEMMA MutexStays ==
    ASSUME BundlerInv, NEW d \in Drivers, OwnAttempt(d), GoesOn(d)
    PROVE  MutexOK'
<1>1. queue' = queue /\ queue \in Seq(Ticks)
  BY DEF GoesOn, BundlerInv, MutexOK
<1>2. ASSUME NEW t \in Ticks
      PROVE  /\ attempt'[t].stage # "idle" <=> attempt[t].stage # "idle"
             /\ Under(t)' => Head(queue) = t
  <2>1. CASE t = d
    BY <2>1, BundlerAssumption DEF GoesOn, Under, BundlerInv, MutexOK
  <2>2. CASE t # d
    BY <2>2 DEF OwnAttempt, Under, BundlerInv, MutexOK, Drivers
  <2> QED
    BY <2>1, <2>2
<1> QED
  BY <1>1, <1>2 DEF MutexOK, BundlerInv

LEMMA MutexReleased ==
    ASSUME BundlerInv, NEW d \in Drivers, OwnAttempt(d), Ends(d)
    PROVE  MutexOK'
<1>q. queue \in Seq(Ticks)
  BY DEF BundlerInv, MutexOK
<1>0. attempt'[d].stage = "idle"
  BY DEF Ends, NoAttempt
<1>t. \A t \in Ticks \ {d} : attempt'[t] = attempt[t]
  BY DEF OwnAttempt, Drivers
<1>1. CASE d \in Ticks
  <2>1. queue # <<>> /\ Head(queue) = d /\ queue' = Tail(queue)
    BY <1>1, <1>q DEF Ends, BundlerInv, MutexOK
  <2>2. /\ queue' \in Seq(Ticks)
        /\ DOMAIN queue = 1..Len(queue) /\ DOMAIN queue' = 1..(Len(queue) - 1)
        /\ \A i \in DOMAIN queue' : i + 1 \in DOMAIN queue /\ queue'[i] = queue[i + 1]
        /\ Len(queue) \in Nat \ {0}
    BY <1>q, <2>1
  <2>3. queue[1] = d
    BY <1>q, <2>1
  <2>4. \A i, j \in DOMAIN queue : queue[i] = queue[j] => i = j
    BY DEF BundlerInv, MutexOK
  <2>5. \A i, j \in DOMAIN queue' : queue'[i] = queue'[j] => i = j
    BY <2>2, <2>4
  <2>6. \A i \in DOMAIN queue' : queue'[i] # d
    BY <2>2, <2>3, <2>4
  <2>7. ASSUME NEW t \in Ticks
        PROVE  /\ attempt'[t].stage # "idle" <=> \E i \in DOMAIN queue' : queue'[i] = t
               /\ ~Under(t)'
    <3>1. CASE t = d
      BY <3>1, <1>0, <2>6 DEF Under
    <3>2. CASE t # d
      <4>1. ~Under(t)'
        BY <3>2, <1>t, <2>1 DEF BundlerInv, MutexOK, Under
      <4>2. ASSUME NEW i \in DOMAIN queue, queue[i] = t
            PROVE  \E j \in DOMAIN queue' : queue'[j] = t
        <5>1. i # 1 /\ i - 1 \in DOMAIN queue' /\ queue'[i - 1] = queue[i]
          BY <3>2, <4>2, <2>2, <2>3
        <5> QED
          BY <4>2, <5>1
      <4>3. attempt[t].stage # "idle" <=> \E i \in DOMAIN queue : queue[i] = t
        BY DEF BundlerInv, MutexOK
      <4> QED
        BY <3>2, <4>1, <4>2, <4>3, <1>t, <2>2
    <3> QED
      BY <3>1, <3>2
  <2> QED
    BY <2>2, <2>5, <2>7 DEF MutexOK
<1>2. CASE d \notin Ticks
  <2>1. queue' = queue
    BY <1>2 DEF Ends
  <2> QED
    BY <1>2, <1>t, <2>1 DEF MutexOK, BundlerInv, Under
<1> QED
  BY <1>1, <1>2

LEMMA FireStep ==
    ASSUME BundlerInv, NEW d \in Drivers, Fire(d)
    PROVE  MutexOK' /\ OwnAttempt(d) /\ AttemptOK(attempt'[d])
<1>0. attempt \in [Drivers -> Attempts] /\ AttemptOK(attempt[d]) /\ attempt[d].stage = "idle"
  BY DEF BundlerInv, Fire, Stage
<1>q. queue \in Seq(Ticks) /\ d \in Ticks /\ queue' = Append(queue, d)
  BY DEF BundlerInv, MutexOK, Fire
<1>1. /\ OwnAttempt(d)
      /\ attempt'[d] = [attempt[d] EXCEPT !.stage = "waiting"]
  BY <1>0 DEF Fire, GotoStage, OwnAttempt
<1>2. AttemptOK(attempt'[d]) /\ attempt'[d].stage = "waiting"
  <2> DEFINE a == attempt[d]
             b == attempt'[d]
  <2>1. b = [a EXCEPT !.stage = "waiting"] /\ a \in Attempts /\ AttemptOK(a) /\ a.stage = "idle"
    BY <1>0, <1>1
  <2> HIDE DEF a, b
  <2>2. /\ b \in Attempts /\ b.stage = "waiting"
        /\ b.back = a.back /\ b.doomed = a.doomed /\ b.bundle = a.bundle
        /\ b.cleared = a.cleared /\ b.taken = a.taken
    BY <2>1 DEF Attempts, Stages
  <2> QED
    BY <2>1, <2>2 DEF AttemptOK, Sorting, b
<1>3. MutexOK'
  <2>1. /\ queue' \in Seq(Ticks)
        /\ Len(queue) \in Nat /\ Len(queue') = Len(queue) + 1
        /\ DOMAIN queue = 1..Len(queue) /\ DOMAIN queue' = 1..(Len(queue) + 1)
        /\ \A i \in DOMAIN queue : queue'[i] = queue[i]
        /\ queue'[Len(queue) + 1] = d
    BY <1>q
  <2>2. /\ \A i, j \in DOMAIN queue : queue[i] = queue[j] => i = j
        /\ \A i \in DOMAIN queue : queue[i] # d
    BY <1>0, <1>q DEF BundlerInv, MutexOK
  <2>3. \A i, j \in DOMAIN queue' : queue'[i] = queue'[j] => i = j
    BY <2>1, <2>2
  <2>4. ASSUME NEW t \in Ticks
        PROVE  /\ attempt'[t].stage # "idle" <=> \E i \in DOMAIN queue' : queue'[i] = t
               /\ Under(t)' => Head(queue') = t
    <3>1. CASE t = d
      BY <3>1, <1>2, <2>1 DEF Under
    <3>2. CASE t # d
      <4>1. attempt'[t] = attempt[t]
        BY <3>2, <1>1 DEF OwnAttempt, Drivers
      <4>2. attempt[t].stage # "idle" <=> \E i \in DOMAIN queue : queue[i] = t
        BY DEF BundlerInv, MutexOK
      <4>3. (\E i \in DOMAIN queue' : queue'[i] = t) <=> (\E i \in DOMAIN queue : queue[i] = t)
        BY <3>2, <2>1
      <4>4. Under(t)' => Head(queue') = t
        <5>1. Under(t)' => Under(t) /\ Head(queue) = t /\ \E i \in DOMAIN queue : queue[i] = t
          BY <4>1, <4>2 DEF BundlerInv, MutexOK, Under
        <5> QED
          BY <5>1, <1>q, <2>1
      <4> QED
        BY <4>1, <4>2, <4>3, <4>4
    <3> QED
      BY <3>1, <3>2
  <2> QED
    BY <2>1, <2>3, <2>4 DEF MutexOK
<1> QED
  BY <1>1, <1>2, <1>3

-----------------------------------------------------------------------------
(* The types.                                                              *)

LEMMA AttemptsKept ==
    ASSUME BundlerInv, NEW d \in Drivers, OwnAttempt(d), AttemptOK(attempt'[d])
    PROVE  attempt' \in [Drivers -> Attempts] /\ \A e \in Drivers : AttemptOK(attempt'[e])
<1>1. \A e \in Drivers : AttemptOK(attempt'[e])
  BY DEF OwnAttempt, BundlerInv
<1>2. \A e \in Drivers : attempt'[e] \in Attempts
  BY <1>1 DEF AttemptOK
<1> QED
  BY <1>1, <1>2 DEF OwnAttempt

(* The rest of the variables.                                              *)
RestOK ==
    /\ auto \in BOOLEAN
    /\ executed \in [Hash -> Outcomes]
    /\ flight \subseteq SUBSET Hash
    /\ abandoned \subseteq Hash /\ resent \subseteq Hash

LEMMA DriverRest ==
    ASSUME BundlerInv, NEW d \in Drivers, Acts(d)
    PROVE  RestOK'
<1>0. /\ RestOK /\ AttemptOK(attempt[d]) /\ attempt[d] \in Attempts
      /\ resent' = resent
  BY DEF BundlerInv, RestOK, Acts, AttemptStep, WaitEnds
<1>1. \A keeping \in SUBSET Hash : End(d, keeping) => abandoned' \subseteq Hash
  BY <1>0 DEF End, RestOK
<1>2. CASE BeginWithNothing(d) \/ WaitEnds(d) \/ SendFails(d) \/ EndAfterRevert(d)
             \/ AttemptFails(d)
  BY <1>0, <1>1, <1>2
     DEF BeginWithNothing, WaitEnds, SendFails, EndAfterRevert, AttemptFails, RestOK, Attempts,
         chain
<1>3. CASE MarkTaken(d)
  <2>1. call[d].picked.keys \subseteq Hash
    BY BundlerAssumption DEF BundlerInv, TypeInv, MempoolTypeOK, Calls, Pools, Drivers
  <2> QED
    BY <1>0, <1>1, <1>3, <2>1 DEF MarkTaken, RestOK, chain
<1>4. CASE Broadcast(d)
  <2>1. attempt[d].bundle \in SUBSET Hash
    BY <1>0 DEF Attempts
  <2> QED
    BY <1>0, <1>4, <2>1 DEF Broadcast, RestOK
<1>5. CASE ~(BeginWithNothing(d) \/ WaitEnds(d) \/ SendFails(d) \/ EndAfterRevert(d)
               \/ AttemptFails(d) \/ MarkTaken(d) \/ Broadcast(d))
  <2>1. UNCHANGED <<auto, executed, flight, abandoned>>
    BY <1>5 DEF Acts, AttemptStep, Begin, QueryEvents, HandlePastEvent, CreateBundle, GiveBack,
       ClearPaymaster, Evict, SendReverts, Ban, Penalize, EvictFailed, bundlerVars, chain
  <2> QED
    BY <1>0, <2>1 DEF RestOK
<1> QED
  BY <1>2, <1>3, <1>4, <1>5

(* The chain's steps.                                                      *)
LEMMA MineStep ==
    ASSUME BundlerInv, NEW bundle \in flight, Mine(bundle)
    PROVE  /\ UNCHANGED <<mempoolVars, vars, queue, attempt, abandoned, resent>>
           /\ flight' = flight \ {bundle} /\ bundle \subseteq Hash
           /\ executed' \in [Hash -> Outcomes]
           /\ \A h \in Hash : executed[h] # "none" => executed'[h] # "none"
           /\ \A h \in Hash \ bundle : executed'[h] = executed[h]
           /\ RestOK'
<1>0. /\ UNCHANGED <<mempoolVars, vars, queue, attempt, auto, abandoned, resent>>
      /\ flight' = flight \ {bundle}
  BY DEF Mine, NoChange, vars
<1>1. bundle \subseteq Hash /\ executed \in [Hash -> Outcomes] /\ flight \subseteq SUBSET Hash
  BY DEF BundlerInv
<1>2. /\ executed' \in [Hash -> Outcomes]
      /\ \A h \in Hash : executed[h] # "none" => executed'[h] # "none"
      /\ \A h \in Hash \ bundle : executed'[h] = executed[h]
  <2>1. CASE UNCHANGED executed
    BY <1>1, <2>1
  <2>2. CASE ~UNCHANGED executed
    <3>1. PICK outcome \in [bundle -> {"success", "revert"}] :
            executed' = [h \in Hash |-> IF h \in bundle THEN outcome[h] ELSE executed[h]]
      BY <2>2 DEF Mine
    <3> QED
      BY <1>1, <3>1 DEF Outcomes
  <2> QED
    BY <2>1, <2>2
<1> QED
  BY <1>0, <1>1, <1>2 DEF RestOK, BundlerInv

(* The steps of the users and the listener.                                *)
LEMMA OthersCall ==
    ASSUME BundlerInv,
           \/ \E p \in Listener : ListenerStep(p)
           \/ \E p \in Proc \ (Drivers \cup Listener) : UserStep(p)
    PROVE  UNCHANGED bundlerVars /\ \E p \in Proc \ Drivers : Calling(p)
<1>1. ASSUME NEW p \in Listener, ListenerStep(p)
      PROVE  UNCHANGED bundlerVars /\ p \in Proc \ Drivers /\ Calling(p)
  BY <1>1, BundlerAssumption
     DEF ListenerStep, Listen, HandleEvent, FailedStatus, Calling
<1>2. ASSUME NEW p \in Proc \ (Drivers \cup Listener), UserStep(p)
      PROVE  UNCHANGED bundlerVars /\ Calling(p)
  BY <1>2 DEF UserStep, Calling
<1> QED
  BY <1>1, <1>2

LEMMA BundlerInvStep == BundlerInv /\ [BundlerNext]_allVars => BundlerInv'
<1> SUFFICES ASSUME BundlerInv, [BundlerNext]_allVars
             PROVE  BundlerInv'
  OBVIOUS
<1>0. /\ TypeInv /\ MutexOK /\ RestOK
      /\ attempt \in [Drivers -> Attempts] /\ \A d \in Drivers : AttemptOK(attempt[d])
  BY DEF BundlerInv, RestOK
<1>p. Drivers \subseteq Proc
  BY BundlerAssumption
<1>1. ASSUME TypeInv', MutexOK', RestOK',
             attempt' \in [Drivers -> Attempts], \A d \in Drivers : AttemptOK(attempt'[d])
      PROVE  BundlerInv'
  BY <1>1 DEF BundlerInv, RestOK, AttemptOK
<1>2. ASSUME TypeInv', UNCHANGED <<queue, attempt>>, RestOK'
      PROVE  BundlerInv'
  BY <1>0, <1>1, <1>2 DEF MutexOK, Under
<1>3. CASE SetBundlingMode
  BY <1>0, <1>2, <1>3, UnchangedType DEF SetBundlingMode, RestOK, chain
<1>4. ASSUME NEW d \in Drivers, Fire(d)
      PROVE  BundlerInv'
  BY <1>0, <1>1, <1>4, FireStep, AttemptsKept, UnchangedType
     DEF Fire, NoChange, RestOK, chain
<1>5. ASSUME NEW d \in Drivers, Acts(d)
      PROVE  BundlerInv'
  <2>1. TypeInv'
    BY <1>0, <1>p, <1>5, DriversCall, CallingType, UnchangedType, TakeBackType, PenaltyType
  <2>2. RestOK'
    BY <1>5, DriverRest
  <2>3. CASE UNCHANGED <<queue, attempt>>
    BY <1>2, <2>1, <2>2, <2>3
  <2>4. CASE OwnAttempt(d) /\ AttemptOK(attempt'[d]) /\ (GoesOn(d) \/ Ends(d))
    BY <1>1, <2>1, <2>2, <2>4, MutexStays, MutexReleased, AttemptsKept
  <2> QED
    BY <1>5, <2>3, <2>4, DriverStep
<1>6. CASE \/ \E p \in Listener : ListenerStep(p)
           \/ \E p \in Proc \ (Drivers \cup Listener) : UserStep(p)
  <2>1. UNCHANGED bundlerVars /\ \E p \in Proc \ Drivers : Calling(p)
    BY <1>6, OthersCall
  <2>2. TypeInv'
    BY <1>0, <2>1, CallingType
  <2> QED
    BY <1>0, <1>2, <1>6, <2>1, <2>2
       DEF bundlerVars, chain, RestOK, ListenerStep, UserStep
<1>7. CASE UNCHANGED allVars
  <2>1. UNCHANGED vars /\ UNCHANGED bundlerVars /\ UNCHANGED resent
    BY <1>7 DEF allVars
  <2> QED
    BY <1>0, <1>2, <2>1, UnchangedType DEF bundlerVars, chain, RestOK
<1>8. ASSUME NEW bundle \in flight, Mine(bundle)
      PROVE  BundlerInv'
  BY <1>0, <1>2, <1>8, MineStep, UnchangedType
<1> QED
  BY <1>3, <1>4, <1>5, <1>6, <1>7, <1>8 DEF BundlerNext, Acts

LEMMA BundlerInvInit == BundlerInit => BundlerInv
<1> SUFFICES ASSUME BundlerInit PROVE BundlerInv
  OBVIOUS
<1>1. TypeInv
  BY TypeInvInit DEF BundlerInit
<1>2. queue = <<>> /\ \A d \in Drivers : attempt[d].stage = "idle"
  BY DEF BundlerInit, NoAttempt
<1>3. MutexOK
  BY <1>2, BundlerAssumption DEF MutexOK, Under, Drivers
<1>4. NoAttempt \in Attempts
  BY NoAttemptOK DEF AttemptOK
<1> QED
  BY <1>1, <1>3, <1>4, NoAttemptOK DEF BundlerInv, BundlerInit, Outcomes

LEMMA BundlerInvHolds == BundlerSpec => []BundlerInv
BY BundlerInvInit, BundlerInvStep, PTL DEF BundlerSpec

(* However callbacks fire, wait, run and end, and whatever users, events   *)
(* and forced bundles do meanwhile: the mutex is held by the callback      *)
(* under way and no other, and no attempt does two things with one entry.  *)
THEOREM BundlerTypeCorrect == BundlerSpec => []BundlerTypeOK
BY BundlerInvHolds, InvIsType, PTL

-----------------------------------------------------------------------------
(* No entry is forgotten.  The entries an attempt still answers for: all it *)
(* has taken before createBundle, then those it has still to give back, to *)
(* remove or to send, those it is about to mark, and the one of the call   *)
(* in progress.                                                            *)
Claimed(d) ==
    LET a == attempt[d]
    IN  (IF a.stage \in {"query", "building"} THEN a.taken ELSE {})
          \cup a.back \cup a.doomed \cup a.bundle
          \cup (IF At(d, "mark") THEN call[d].picked.keys ELSE {})
          \cup (IF At(d, "setStatus") \/ At(d, "remove") THEN {call[d].old} \cap a.taken ELSE {})

Bundling(h) == h \in standardPool.keys /\ entryStatus[h] = "bundling"

OwnedInv ==
    /\ \A h \in Hash : Bundling(h) => h \in abandoned \/ \E d \in Drivers : h \in Claimed(d)
    /\ \A p \in Proc : At(p, "setStatus") => call[p].status \in {"pending", "failed"}

LEMMA OwnedMeans == BundlerInv /\ OwnedInv => BundlingIsOwned
<1> SUFFICES ASSUME BundlerInv, OwnedInv, NEW h \in standardPool.keys, entryStatus[h] = "bundling"
             PROVE  h \in abandoned \cup UNION {Held(d) : d \in Drivers}
  BY DEF BundlingIsOwned
<1>1. h \in Hash
  BY DEF BundlerInv, TypeInv, MempoolTypeOK, Pools
<1>2. h \in abandoned \/ \E d \in Drivers : h \in Claimed(d)
  BY <1>1 DEF OwnedInv, Bundling
<1>3. ASSUME NEW d \in Drivers, h \in Claimed(d)
      PROVE  h \in Held(d)
  BY <1>3 DEF Claimed, Held, BundlerInv, AttemptOK
<1> QED
  BY <1>2, <1>3

(* The steps of the mempool's calls, those that take and mark entries left  *)
(* out.                                                                    *)
Serving(p) ==
    \/ AddStep(p)
    \/ \E h \in Hash : RemoveByHash(p, h)
    \/ \E a \in Address : BanSelect(p, a)
    \/ FinishCall(p)
    \/ \E h \in Hash, status \in {"pending", "failed"} : ReadEntry(p, h, status)

(* None of them marks an entry as being bundled, and the one it writes is  *)
(* not so marked afterwards.                                               *)
LEMMA ServingWrites ==
    ASSUME BundlerInv, OwnedInv, NEW p \in Proc, Serving(p)
    PROVE  /\ \A h \in Hash : Bundling(h)' => Bundling(h)
           /\ \A h \in Hash : h = call[p].old /\ (At(p, "setStatus") \/ At(p, "remove"))
                               => ~Bundling(h)'
           /\ \A q \in Proc \ {p} : call'[q] = call[q]
           /\ call'[p].pc = "setStatus" => call'[p].status \in {"pending", "failed"}
           /\ call'[p].pc # "mark"
<1>0. /\ call \in [Proc -> Calls] /\ CallOK(call[p]) /\ WellFormed(standardPool)
      /\ entryStatus \in [Hash -> EntryStatuses] /\ standardPool.keys \subseteq Hash
  BY DEF BundlerInv, TypeInv, MempoolTypeOK, WellFormed, Pools
<1>1. ASSUME UNCHANGED <<standardPool, entryStatus>>
      PROVE  \A h \in Hash : Bundling(h)' => Bundling(h)
  BY <1>1 DEF Bundling
<1>i. ASSUME call' = [call EXCEPT ![p] = Idle]
      PROVE  /\ \A q \in Proc \ {p} : call'[q] = call[q]
             /\ call'[p].pc = "idle"
  BY <1>0, <1>i DEF Idle
<1>g. ASSUME Goto(p, "seenSender")
      PROVE  /\ \A q \in Proc \ {p} : call'[q] = call[q]
             /\ call'[p].pc = "seenSender"
  BY <1>0, <1>g DEF Goto, Calls
<1>2. CASE Remove(p)
  <2>1. standardPool'.keys = standardPool.keys \ {call[p].old}
    BY <1>0, <1>2, WithoutType DEF Remove, ChangePool
  <2>2. /\ \A h \in Hash \ {call[p].old} : entryStatus'[h] = entryStatus[h]
        /\ call' = [call EXCEPT ![p] = Idle]
    BY <1>0, <1>2 DEF Remove, StatusSet
  <2> QED
    BY <1>i, <2>1, <2>2 DEF Bundling
<1>3. CASE SetStatus(p)
  <2>1. call[p].old \in Hash /\ call[p].status \in {"pending", "failed"}
    BY <1>0, <1>3 DEF SetStatus, At, CallOK, OwnedInv
  <2>2. standardPool'.keys = standardPool.keys \cup {call[p].old}
    BY <1>0, <1>3, <2>1, WithKeyType DEF SetStatus, ReplacePool
  <2>3. /\ \A h \in Hash : entryStatus'[h] = IF h = call[p].old THEN call[p].status
                                             ELSE entryStatus[h]
        /\ call' = [call EXCEPT ![p] = Idle]
    BY <1>3 DEF SetStatus, StatusSet
  <2>4. \A h \in Hash : h = call[p].old => entryStatus'[h] # "bundling"
    BY <2>1, <2>3
  <2> QED
    BY <1>i, <2>1, <2>2, <2>3, <2>4 DEF Bundling
<1>4. CASE BanRemove(p)
  <2>1. /\ standardPool'.keys = standardPool.keys \ call[p].picked.keys
        /\ call[p].pc = "ban" /\ call' = [call EXCEPT ![p] = Idle]
    BY <1>0, <1>4, WithoutType DEF BanRemove, ChangePool, At
  <2>2. \A h \in Hash \ call[p].picked.keys : entryStatus'[h] = entryStatus[h]
    BY <1>4 DEF BanRemove, StatusSet
  <2> QED
    BY <1>i, <2>1, <2>2 DEF Bundling, At
<1>5. CASE CommitNew(p)
  <2>1. call[p].hash \in Hash /\ call[p].pc = "commit" /\ Goto(p, "seenSender")
    BY <1>0, <1>5 DEF CommitNew, At, CallOK, AddSteps
  <2>2. standardPool'.keys = standardPool.keys \cup {call[p].hash}
    BY <1>0, <1>5, <2>1, WithKeyType DEF CommitNew, ReplacePool
  <2>3. \A h \in Hash : entryStatus'[h] = IF h = call[p].hash THEN "pending" ELSE entryStatus[h]
    BY <1>5 DEF CommitNew, StatusSet
  <2> QED
    BY <1>g, <2>1, <2>2, <2>3 DEF Bundling, At
<1>6. CASE CommitReplacement(p)
  <2>1. call[p].hash \in Hash /\ call[p].pc = "commit" /\ Goto(p, "seenSender")
    BY <1>0, <1>6 DEF CommitReplacement, At, CallOK, AddSteps
  <2>2. standardPool'.keys = (standardPool.keys \ {call[p].old}) \cup {call[p].hash}
    BY <1>0, <1>6, <2>1, WithoutType, WithKeyType DEF CommitReplacement, ReplacePool
  <2>3. \A h \in Hash : entryStatus'[h] = IF h \in {call[p].old, call[p].hash} THEN "pending"
                                         ELSE entryStatus[h]
    BY <1>6 DEF CommitReplacement, StatusSet
  <2> QED
    BY <1>g, <2>1, <2>2, <2>3 DEF Bundling, At
<1>7. CASE AddStep(p) /\ ~CommitNew(p) /\ ~CommitReplacement(p)
  <2> DEFINE Quiet ==
               /\ UNCHANGED <<standardPool, entryStatus>>
               /\ call[p].pc \notin {"setStatus", "remove"}
               /\ call'[p].pc \notin {"setStatus", "mark"}
               /\ \A q \in Proc \ {p} : call'[q] = call[q]
  <2>1. ASSUME NEW h \in Offers[p], AddUserOp(p, h) PROVE Quiet
    BY <1>0, <2>1 DEF AddUserOp, Start, poolVars, Idle
  <2>2. ASSUME NEW step \in {"classify", "check", "roles", "commit", "seenHelpers"},
               Goto(p, step), poolVars' = poolVars,
               call[p].pc \notin {"setStatus", "remove"}
        PROVE  Quiet
    BY <1>0, <2>2 DEF Goto, poolVars, Calls
  <2>3. ASSUME call' = [call EXCEPT ![p] = Idle], poolVars' = poolVars,
               call[p].pc \notin {"setStatus", "remove"}
        PROVE  Quiet
    BY <1>0, <2>3 DEF poolVars, Idle
  <2>4. ASSUME Snapshot(p) \/ ClassifyAsNew(p) \/ CheckRoles(p) PROVE Quiet
    <3>1. \/ Goto(p, "classify") \/ Goto(p, "check") \/ Goto(p, "commit")
      BY <2>4 DEF Snapshot, ClassifyAsNew, CheckRoles
    <3>2. poolVars' = poolVars /\ call[p].pc \notin {"setStatus", "remove"}
      BY <2>4 DEF Snapshot, ClassifyAsNew, CheckRoles, At
    <3> QED
      BY <2>2, <3>1, <3>2
  <2>5. ASSUME \/ \E old \in Hash : RefuseUnderpriced(p, old)
               \/ RefuseForReputation(p) \/ RefuseUnstaked(p) \/ RefuseForRoles(p)
        PROVE  Quiet
    <3>1. Refuse(p) /\ call[p].pc \notin {"setStatus", "remove"}
      BY <2>5 DEF RefuseUnderpriced, RefuseForReputation, RefuseUnstaked, RefuseForRoles, At
    <3> QED
      BY <2>3, <3>1 DEF Refuse
  <2>6. ASSUME NEW old \in Hash, ClassifyAsReplacement(p, old) PROVE Quiet
    BY <1>0, <2>6 DEF ClassifyAsReplacement, At, poolVars, Calls
  <2>7. ASSUME CheckEntity(p) PROVE Quiet
    <3>1. /\ poolVars' = poolVars /\ call[p].pc = "check"
          /\ \/ Goto(p, "roles")
             \/ \E next : call' = [call EXCEPT ![p] = [@ EXCEPT !.place = next]]
      BY <2>7 DEF CheckEntity, At
    <3>2. ASSUME NEW next, call' = [call EXCEPT ![p] = [@ EXCEPT !.place = next]]
          PROVE  Quiet
      BY <1>0, <3>1, <3>2 DEF poolVars, Calls
    <3> HIDE DEF Quiet
    <3> QED
      BY <2>2, <3>1, <3>2
  <2>8. ASSUME SeenSender(p) \/ SeenHelpers(p) PROVE Quiet
    <3>1. /\ poolVars' = poolVars /\ call[p].pc \notin {"setStatus", "remove"}
          /\ Goto(p, "seenHelpers") \/ call' = [call EXCEPT ![p] = Idle]
      BY <1>0, <2>8 DEF SeenSender, SeenHelpers, At, Goto
    <3> HIDE DEF Quiet
    <3> QED
      BY <2>2, <2>3, <3>1
  <2> HIDE DEF Quiet
  <2>9. Quiet
    BY <1>7, <2>1, <2>4, <2>5, <2>6, <2>7, <2>8 DEF AddStep
  <2> QED
    BY <1>1, <2>9 DEF At, Quiet
<1>8. CASE \/ \E h \in Hash : RemoveByHash(p, h)
           \/ \E a \in Address : BanSelect(p, a)
           \/ \E h \in Hash, status \in {"pending", "failed"} : ReadEntry(p, h, status)
  <2> DEFINE Quiet ==
               /\ UNCHANGED <<standardPool, entryStatus>>
               /\ call[p].pc = "idle"
               /\ call'[p].pc = "setStatus" => call'[p].status \in {"pending", "failed"}
               /\ call'[p].pc # "mark"
               /\ \A q \in Proc \ {p} : call'[q] = call[q]
  <2>1. ASSUME NEW h \in Hash, RemoveByHash(p, h) PROVE Quiet
    BY <1>0, <2>1 DEF RemoveByHash, FoundForRemoval, Start, poolVars, Idle
  <2>2. ASSUME NEW a \in Address, BanSelect(p, a) PROVE Quiet
    BY <1>0, <2>2 DEF BanSelect, Start, poolVars, Idle
  <2>3. ASSUME NEW h \in Hash, NEW status \in {"pending", "failed"}, ReadEntry(p, h, status)
        PROVE  Quiet
    BY <1>0, <2>3 DEF ReadEntry, Start, poolVars, Idle
  <2> HIDE DEF Quiet
  <2>4. Quiet
    BY <1>8, <2>1, <2>2, <2>3
  <2> QED
    BY <1>1, <2>4 DEF At, Quiet
<1> QED
  BY <1>2, <1>3, <1>4, <1>5, <1>6, <1>7, <1>8 DEF Serving, FinishCall

-----------------------------------------------------------------------------
(* What a step of d must do for no entry to be forgotten.                  *)
Answers(d) ==
    /\ \A h \in Hash : Bundling(h)' => Bundling(h) \/ h \in Claimed(d)' \cup abandoned'
    /\ \A h \in Claimed(d) : Bundling(h)' => h \in Claimed(d)' \cup abandoned'
    /\ abandoned \subseteq abandoned'
    /\ \A p \in Proc \ {d} : call'[p] = call[p]
    /\ call'[d].pc = "setStatus" => call'[d].status \in {"pending", "failed"}

LEMMA OwnedIfAnswered ==
    ASSUME BundlerInv, OwnedInv, NEW d \in Drivers, Answers(d),
           \A e \in Drivers \ {d} : attempt'[e] = attempt[e]
    PROVE  OwnedInv'
<1>1. \A e \in Drivers \ {d} : Claimed(e)' = Claimed(e)
  BY BundlerAssumption DEF Answers, Claimed, At
<1>2. ASSUME NEW h \in Hash, Bundling(h)'
      PROVE  h \in abandoned' \/ \E e \in Drivers : h \in Claimed(e)'
  <2>1. CASE Bundling(h)
    <3>1. h \in abandoned \/ \E e \in Drivers : h \in Claimed(e)
      BY <2>1 DEF OwnedInv
    <3> QED
      BY <1>1, <1>2, <3>1 DEF Answers
  <2> QED
    BY <1>2, <2>1 DEF Answers
<1>3. ASSUME NEW p \in Proc, At(p, "setStatus")'
      PROVE  call'[p].status \in {"pending", "failed"}
  BY <1>3 DEF Answers, At, OwnedInv
<1> QED
  BY <1>2, <1>3 DEF OwnedInv

(* A step that leaves the mempool alone.                                   *)
LEMMA AnswersIdly ==
    ASSUME BundlerInv, OwnedInv, NEW d \in Drivers, UNCHANGED mempoolVars,
           abandoned \subseteq abandoned', Claimed(d) \subseteq Claimed(d)' \cup abandoned'
    PROVE  Answers(d)
<1>1. /\ \A h \in Hash : Bundling(h)' => Bundling(h)
      /\ \A p \in Proc : call'[p] = call[p]
  BY DEF Bundling, mempoolVars, poolVars
<1>2. call[d].pc = "setStatus" => call[d].status \in {"pending", "failed"}
  BY BundlerAssumption DEF OwnedInv, At
<1> QED
  BY <1>1, <1>2, BundlerAssumption DEF Answers

(* A step that makes a call of the mempool or finishes one.                *)
LEMMA AnswersServed ==
    ASSUME BundlerInv, OwnedInv, NEW d \in Drivers, Serving(d), abandoned' = abandoned,
           \A h \in Claimed(d) : Bundling(h)' => h \in Claimed(d)'
    PROVE  Answers(d)
BY ServingWrites, BundlerAssumption DEF Answers

LEMMA DriverAnswers ==
    ASSUME BundlerInv, OwnedInv, NEW d \in Drivers, Acts(d)
    PROVE  Answers(d)
<1> DEFINE a == attempt[d]
           b == attempt'[d]
<1>0. a \in Attempts /\ AttemptOK(a) /\ attempt \in [Drivers -> Attempts]
  BY DEF BundlerInv
<1>c. call \in [Proc -> Calls] /\ d \in Proc
  BY BundlerAssumption DEF BundlerInv, TypeInv, MempoolTypeOK
<1>i. ASSUME At(d, "idle")
      PROVE  /\ a.stage \in {"query", "building"} => Claimed(d) = a.taken
             /\ a.stage \notin {"query", "building", "settling"} => Claimed(d) = a.bundle
             /\ a.stage \in {"idle", "waiting", "marking"} => Claimed(d) = {}
             /\ a.stage = "settling" => Claimed(d) = a.back \cup a.doomed \cup a.bundle
  BY <1>0, <1>i DEF Claimed, At, AttemptOK, Sorting
<1>e. \A keeping : End(d, keeping) => abandoned' = abandoned \cup keeping
  BY DEF End
<1>1. CASE Begin(d)
  <2>1. Claimed(d) = {} /\ abandoned' = abandoned
    BY <1>1, <1>i DEF Begin, MayBegin, Stage
  <2>2. /\ UNCHANGED <<standardPool, entryStatus>>
        /\ \A p \in Proc \ {d} : call'[p] = call[p]
        /\ call'[d].pc = "mark"
    BY <1>1, <1>c DEF Begin, GetAllPending, GetNextPending, Pick, Idle, poolVars
  <2> QED
    BY <2>1, <2>2 DEF Answers, Bundling
<1>2. CASE BeginWithNothing(d)
  <2>1. Claimed(d) = {} /\ abandoned' = abandoned /\ UNCHANGED mempoolVars
    BY <1>2, <1>i, <1>e DEF BeginWithNothing, MayBegin, Stage, NoChange, vars
  <2> QED
    BY <2>1, AnswersIdly
<1>3. CASE MarkTaken(d)
  <2> DEFINE picked == call[d].picked.keys
  <2>1. a.stage = "marking" /\ At(d, "mark") /\ Mark(d)
    BY <1>3 DEF MarkTaken, Mark
  <2>2. Claimed(d) = picked
    BY <1>0, <2>1 DEF Claimed, At, AttemptOK, Sorting
  <2>3. /\ \A h \in Hash : Bundling(h)' => Bundling(h) \/ h \in picked
        /\ \A p \in Proc \ {d} : call'[p] = call[p]
        /\ call'[d].pc = "idle"
    BY <2>1, <1>c DEF Mark, StatusSet, Bundling, Idle
  <2>4. abandoned \subseteq abandoned' /\ picked \subseteq Claimed(d)' \cup abandoned'
    <3>1. CASE picked \subseteq standardPool.keys
      <4>1. b.stage = "query" /\ b.taken = picked /\ abandoned' = abandoned
        BY <1>0, <1>3, <3>1 DEF MarkTaken, Attempts
      <4> QED
        BY <4>1 DEF Claimed
    <3>2. CASE ~(picked \subseteq standardPool.keys)
      BY <1>3, <1>e, <3>2 DEF MarkTaken
    <3> QED
      BY <3>1, <3>2
  <2> HIDE DEF picked
  <2> QED
    BY <2>2, <2>3, <2>4 DEF Answers
<1>4. CASE QueryEvents(d)
  <2>1. /\ a.stage = "query" /\ At(d, "idle")
        /\ b.stage = "building" /\ b.taken = a.taken
        /\ UNCHANGED mempoolVars /\ abandoned' = abandoned
    BY <1>0, <1>4 DEF QueryEvents, Stage, NoChange, vars, Attempts
  <2>2. Claimed(d) \subseteq Claimed(d)'
    BY <2>1, <1>i DEF Claimed
  <2> QED
    BY <2>1, <2>2, AnswersIdly
<1>5. ASSUME NEW h \in Hash, HandlePastEvent(d, h)
      PROVE  Answers(d)
  <2>1. /\ a.stage = "building" /\ At(d, "idle") /\ abandoned' = abandoned
        /\ b.stage = "building" /\ b.taken = a.taken
    BY <1>0, <1>5 DEF HandlePastEvent, Stage, Attempts
  <2>2. Claimed(d) \subseteq Claimed(d)'
    BY <2>1, <1>i DEF Claimed
  <2>3. Serving(d) \/ UNCHANGED mempoolVars
    BY <1>5 DEF HandlePastEvent, HandleEvent, FailedStatus, Serving, NoChange, vars
  <2> QED
    BY <2>1, <2>2, <2>3, AnswersIdly, AnswersServed
<1>6. CASE CreateBundle(d)
  <2>a. PICK bundle \in SUBSET attempt[d].taken :
          \E doomed \in SUBSET (attempt[d].taken \ bundle) :
          \E cleared \in SUBSET {h \in doomed : Sponsored(h)} :
            attempt' = [attempt EXCEPT ![d].stage = "settling", ![d].bundle = bundle,
                                       ![d].back = LeftOut(attempt[d].taken, bundle, doomed),
                                       ![d].doomed = doomed, ![d].cleared = cleared]
    BY <1>6 DEF CreateBundle
  <2>b. PICK doomed \in SUBSET (attempt[d].taken \ bundle) :
          \E cleared \in SUBSET {h \in doomed : Sponsored(h)} :
            attempt' = [attempt EXCEPT ![d].stage = "settling", ![d].bundle = bundle,
                                       ![d].back = LeftOut(attempt[d].taken, bundle, doomed),
                                       ![d].doomed = doomed, ![d].cleared = cleared]
    BY <2>a
  <2>1. /\ b.back = a.taken \ (bundle \cup doomed)
        /\ b.doomed = doomed /\ b.bundle = bundle
    BY <1>0, <2>b DEF Attempts, LeftOut
  <2>2. a.stage = "building" /\ At(d, "idle") /\ UNCHANGED mempoolVars /\ abandoned' = abandoned
    BY <1>6 DEF CreateBundle, Stage, NoChange, vars
  <2>3. Claimed(d) \subseteq Claimed(d)'
    <3>1. b.back \cup b.doomed \cup b.bundle \subseteq Claimed(d)'
      BY DEF Claimed
    <3> HIDE DEF a, b
    <3>2. Claimed(d) = a.taken
      BY <2>2, <1>i
    <3> QED
      BY <2>1, <3>1, <3>2
  <2> QED
    BY <2>2, <2>3, AnswersIdly
<1>7. ASSUME NEW h \in Hash, GiveBack(d, h) \/ Evict(d, h)
      PROVE  Answers(d)
  <2>1. /\ a.stage = "settling" /\ At(d, "idle") /\ abandoned' = abandoned
        /\ Claimed(d) = a.back \cup a.doomed \cup a.bundle
        /\ h \in a.back \cup a.doomed /\ h \in a.taken
    BY <1>0, <1>7, <1>i DEF GiveBack, Evict, Stage, AttemptOK
  <2>2. /\ b.taken = a.taken /\ b.bundle = a.bundle
        /\ a.back \ {h} \subseteq b.back /\ a.doomed \ {h} \subseteq b.doomed
    BY <1>0, <1>7 DEF GiveBack, Evict, Attempts
  <2>3. Claimed(d) \ {h} \subseteq Claimed(d)'
    <3>1. b.back \cup b.doomed \cup b.bundle \subseteq Claimed(d)'
      BY DEF Claimed
    <3> HIDE DEF a, b
    <3> QED
      BY <2>1, <2>2, <3>1
  <2>4. \/ ReadEntry(d, h, "pending") \/ RemoveByHash(d, h)
        \/ h \notin standardPool.keys /\ UNCHANGED mempoolVars
    BY <1>7 DEF GiveBack, Evict, NoChange, vars
  <2>5. CASE ReadEntry(d, h, "pending") \/ RemoveByHash(d, h)
    <3>1. Serving(d)
      BY <2>5 DEF Serving
    <3>2. call'[d].pc \in {"setStatus", "remove"} /\ call'[d].old = h
      BY <1>c, <2>5 DEF ReadEntry, RemoveByHash, FoundForRemoval, Idle
    <3>3. h \in Claimed(d)'
      BY <2>1, <2>2, <3>2 DEF Claimed, At
    <3> QED
      BY <2>1, <2>3, <3>1, <3>3, AnswersServed
  <2>6. CASE h \notin standardPool.keys /\ UNCHANGED mempoolVars
    <3>1. ~Bundling(h)' /\ \A p \in Proc : call'[p] = call[p]
      BY <2>6 DEF Bundling, mempoolVars, poolVars
    <3>2. \A g \in Hash : Bundling(g)' => Bundling(g)
      BY <2>6 DEF Bundling, mempoolVars, poolVars
    <3>3. call'[d].pc = "idle"
      BY <2>1, <3>1, <1>c DEF At
    <3> QED
      BY <2>1, <2>3, <3>1, <3>2, <3>3 DEF Answers
  <2> QED
    BY <2>4, <2>5, <2>6
<1>8. ASSUME NEW h \in Hash, ClearPaymaster(d, h) \/ SendReverts(d, h)
      PROVE  Answers(d)
  <2>1. /\ a.stage = "settling" /\ At(d, "idle") /\ abandoned' = abandoned
        /\ UNCHANGED mempoolVars
    BY <1>8 DEF ClearPaymaster, SendReverts, ReadyToSend, Stage, NoChange, vars
  <2>2. b.back = a.back /\ b.doomed = a.doomed /\ b.bundle = a.bundle
    <3>1. CASE ClearPaymaster(d, h)
      BY <1>0, <3>1 DEF ClearPaymaster, Attempts
    <3>2. CASE SendReverts(d, h)
      <4>1. PICK culprit \in Accountable(h) :
              attempt' = [attempt EXCEPT ![d].failed = h, ![d].culprit = culprit,
                            ![d].stage = IF culprit = None THEN "evicting" ELSE "banning"]
        BY <3>2 DEF SendReverts
      <4> QED
        BY <1>0, <4>1 DEF Attempts
    <3> QED
      BY <1>8, <3>1, <3>2
  <2>3. Claimed(d) \subseteq Claimed(d)'
    <3>1. b.back \cup b.doomed \cup b.bundle \subseteq Claimed(d)'
      BY DEF Claimed
    <3> HIDE DEF a, b
    <3> QED
      BY <1>i, <2>1, <2>2, <3>1
  <2> QED
    BY <2>1, <2>3, AnswersIdly
<1>b. CASE Broadcast(d)
  <2>1. /\ a.stage = "settling" /\ At(d, "idle") /\ a.back = {} /\ a.doomed = {}
        /\ abandoned' = abandoned /\ UNCHANGED mempoolVars
    BY <1>b DEF Broadcast, ReadyToSend, Stage, NoChange, vars
  <2>2. b.bundle = a.bundle
    BY <1>0, <1>b DEF Broadcast, GotoStage, Attempts
  <2>3. Claimed(d) = a.bundle /\ Claimed(d) \subseteq Claimed(d)'
    BY <1>i, <2>1, <2>2 DEF Claimed
  <2> QED
    BY <2>1, <2>3, AnswersIdly
<1>9. CASE WaitEnds(d) \/ SendFails(d) \/ EndAfterRevert(d) \/ AttemptFails(d)
  <2>1. PICK keeping : End(d, keeping) /\ Claimed(d) \subseteq keeping
    <3>1. CASE WaitEnds(d) \/ SendFails(d)
      BY <3>1, <1>i DEF WaitEnds, SendFails, ReadyToSend, Stage
    <3>2. CASE EndAfterRevert(d)
      BY <3>2, <1>i DEF EndAfterRevert, Stage
    <3>3. CASE AttemptFails(d)
      BY <3>3, <1>i DEF AttemptFails, Stage
    <3> QED
      BY <1>9, <3>1, <3>2, <3>3
  <2>2. UNCHANGED mempoolVars
    BY <1>9 DEF WaitEnds, SendFails, EndAfterRevert, AttemptFails, NoChange, vars
  <2> QED
    BY <2>1, <2>2, <1>e, AnswersIdly
<1>10. CASE Ban(d) \/ Penalize(d) \/ EvictFailed(d)
  <2>1. /\ Claimed(d) = a.bundle /\ abandoned' = abandoned
        /\ \E stage : GotoStage(d, stage)
    BY <1>10, <1>i DEF Ban, Penalize, EvictFailed, Stage
  <2>2. b.bundle = a.bundle
    BY <1>0, <2>1 DEF GotoStage, Attempts
  <2>3. Claimed(d) \subseteq Claimed(d)'
    BY <2>1, <2>2 DEF Claimed
  <2>4. Serving(d) \/ UNCHANGED mempoolVars
    <3>1. CASE Ban(d)
      BY <1>0, <3>1 DEF Ban, AttemptOK, Stage, Serving, NoChange, vars
    <3>2. CASE Penalize(d)
      BY <3>2 DEF Penalize
    <3>3. CASE EvictFailed(d)
      <4>1. standardPool.keys \subseteq Hash
        BY DEF BundlerInv, TypeInv, MempoolTypeOK, Pools
      <4> QED
        BY <3>3, <4>1 DEF EvictFailed, RemoveByUserOp, RemoveByHash, Serving, NoChange, vars
    <3> QED
      BY <1>10, <3>1, <3>2, <3>3
  <2> QED
    BY <2>1, <2>3, <2>4, AnswersIdly, AnswersServed
<1>11. CASE FinishCall(d) /\ UNCHANGED bundlerVars
  <2>1. Serving(d) /\ call[d].pc \in {"remove", "setStatus", "ban"}
    BY <1>11 DEF Serving, FinishCall, Remove, SetStatus, BanRemove, At
  <2>2. attempt' = attempt /\ abandoned' = abandoned
    BY <1>11 DEF bundlerVars
  <2>3. ASSUME NEW h \in Claimed(d), Bundling(h)'
        PROVE  h \in Claimed(d)'
    <3>1. h \in Hash
      BY <2>3, <1>0, <2>1 DEF Claimed, At, Attempts
    <3>2. CASE h = call[d].old /\ (At(d, "setStatus") \/ At(d, "remove"))
      BY <1>c, <2>1, <2>3, <3>1, <3>2, ServingWrites
    <3>3. CASE ~(h = call[d].old /\ (At(d, "setStatus") \/ At(d, "remove")))
      BY <2>1, <2>2, <2>3, <3>3 DEF Claimed, At
    <3> QED
      BY <3>2, <3>3
  <2> QED
    BY <2>1, <2>2, <2>3, AnswersServed
<1> QED
  BY <1>1, <1>2, <1>3, <1>4, <1>5, <1>6, <1>7, <1>8, <1>9, <1>b, <1>10, <1>11
     DEF Acts, AttemptStep

-----------------------------------------------------------------------------
LEMMA OwnedInvStep == BundlerInv /\ OwnedInv /\ [BundlerNext]_allVars => OwnedInv'
<1> SUFFICES ASSUME BundlerInv, OwnedInv, [BundlerNext]_allVars
             PROVE  OwnedInv'
  OBVIOUS
<1>1. ASSUME UNCHANGED <<mempoolVars, attempt, abandoned>>
      PROVE  OwnedInv'
  BY <1>1 DEF OwnedInv, Bundling, Claimed, At, mempoolVars, poolVars
<1>2. CASE SetBundlingMode
  BY <1>1, <1>2 DEF SetBundlingMode, vars
<1>3. ASSUME NEW d \in Drivers, Fire(d)
      PROVE  OwnedInv'
  <2>1. OwnAttempt(d)
    BY <1>3, FireStep
  <2>2. Claimed(d) = {} /\ abandoned' = abandoned /\ UNCHANGED mempoolVars
    <3>1. attempt[d].stage = "idle" /\ At(d, "idle") /\ AttemptOK(attempt[d])
      BY <1>3 DEF Fire, Stage, BundlerInv
    <3> QED
      BY <1>3, <3>1 DEF Fire, NoChange, vars, AttemptOK, Sorting, Claimed, At
  <2>3. Answers(d)
    BY <2>2, AnswersIdly
  <2> QED
    BY <2>1, <2>3, OwnedIfAnswered DEF OwnAttempt
<1>4. ASSUME NEW d \in Drivers, Acts(d)
      PROVE  OwnedInv'
  <2>1. \A e \in Drivers \ {d} : attempt'[e] = attempt[e]
    BY <1>4, DriverStep DEF OwnAttempt
  <2> QED
    BY <1>4, <2>1, DriverAnswers, OwnedIfAnswered
<1>5. ASSUME NEW p \in Proc \ Drivers, Serving(p), UNCHANGED bundlerVars
      PROVE  OwnedInv'
  <2>1. /\ \A h \in Hash : Bundling(h)' => Bundling(h)
        /\ \A q \in Proc \ {p} : call'[q] = call[q]
        /\ call'[p].pc = "setStatus" => call'[p].status \in {"pending", "failed"}
    BY <1>5, ServingWrites
  <2>2. /\ \A d \in Drivers : Claimed(d)' = Claimed(d)
        /\ abandoned' = abandoned
    BY <1>5, <2>1, BundlerAssumption DEF bundlerVars, Claimed, At
  <2>3. \A q \in Proc : At(q, "setStatus")' => call'[q].status \in {"pending", "failed"}
    BY <2>1 DEF OwnedInv, At
  <2> QED
    BY <2>1, <2>2, <2>3 DEF OwnedInv
<1>6. ASSUME NEW p \in Listener, ListenerStep(p)
      PROVE  OwnedInv'
  <2>1. p \in Proc \ Drivers /\ Serving(p) /\ UNCHANGED bundlerVars
    BY <1>6, BundlerAssumption DEF ListenerStep, Listen, HandleEvent, FailedStatus, Serving
  <2> QED
    BY <1>5, <2>1
<1>7. ASSUME NEW p \in Proc \ (Drivers \cup Listener), UserStep(p)
      PROVE  OwnedInv'
  <2>1. Serving(p) /\ UNCHANGED bundlerVars
    BY <1>7 DEF UserStep, Serving
  <2> QED
    BY <1>5, <2>1
<1>8. CASE UNCHANGED allVars
  BY <1>1, <1>8 DEF allVars, vars, bundlerVars
<1>9. ASSUME NEW bundle \in flight, Mine(bundle)
      PROVE  OwnedInv'
  BY <1>1, <1>9, MineStep
<1> QED
  BY <1>2, <1>3, <1>4, <1>6, <1>7, <1>8, <1>9 DEF BundlerNext, Acts

LEMMA OwnedInvInit == BundlerInit => OwnedInv
<1> SUFFICES ASSUME BundlerInit PROVE OwnedInv
  OBVIOUS
<1>1. standardPool.keys = {}
  BY DEF BundlerInit, MempoolInit, EmptyPool
<1>2. \A p \in Proc : ~At(p, "setStatus")
  BY DEF BundlerInit, MempoolInit, Idle, At
<1> QED
  BY <1>1, <1>2 DEF OwnedInv, Bundling

(* No entry is forgotten, for any number of callbacks, forced bundles and  *)
(* users: one marked as being bundled is in the hands of an attempt that   *)
(* has not ended, or an attempt that was cut short or had sent it left it  *)
(* so.                                                                     *)
THEOREM BundlerEntriesAreOwned == BundlerSpec => []BundlingIsOwned
<1>1. BundlerInit => BundlerInv /\ OwnedInv
  BY BundlerInvInit, OwnedInvInit
<1>2. BundlerInv /\ OwnedInv /\ [BundlerNext]_allVars => BundlerInv' /\ OwnedInv'
  BY BundlerInvStep, OwnedInvStep
<1> QED
  BY <1>1, <1>2, OwnedMeans, PTL DEF BundlerSpec

-----------------------------------------------------------------------------
(* No two attempts pick at once.  What one is about to mark is not being   *)
(* bundled; it is pending, unless an event comes meanwhile.                *)
TakesNothingTwice ==
    [][\A d \in Drivers :
         attempt[d].stage = "marking" /\ attempt'[d].stage = "query" =>
            \A h \in attempt'[d].taken : entryStatus[h] # "bundling"]_allVars

PicksWell(d) ==
    /\ ~At(d, "idle") => Under(d)
    /\ At(d, "mark") => /\ attempt[d].stage = "marking"
                        /\ \A h \in call[d].picked.keys : ~Bundling(h)

PickedInv ==
    /\ \A d \in Drivers : PicksWell(d)
    /\ \A d, e \in Drivers : At(d, "mark") /\ At(e, "mark") => d = e

LEMMA AddingKeepsPending ==
    ASSUME NEW p \in Proc, AddStep(p)
    PROVE  \A h \in Hash : entryStatus[h] = "pending" => entryStatus'[h] = "pending"
<1>1. CASE CommitNew(p) \/ CommitReplacement(p)
  BY <1>1 DEF CommitNew, CommitReplacement, StatusSet
<1>2. CASE ~(CommitNew(p) \/ CommitReplacement(p))
  <2>1. entryStatus' = entryStatus
    BY <1>2 DEF AddStep, AddUserOp, Snapshot, ClassifyAsNew, ClassifyAsReplacement,
       RefuseUnderpriced, Refuse, CheckEntity, RefuseForReputation, RefuseUnstaked, CheckRoles,
       RefuseForRoles, SeenSender, SeenHelpers, poolVars
  <2> QED
    BY <2>1
<1> QED
  BY <1>1, <1>2

(* Only an attempt that marks what it has picked marks anything.           *)
LEMMA DriverMarks ==
    ASSUME BundlerInv, OwnedInv, NEW d \in Drivers, Acts(d), ~At(d, "mark"), NEW h \in Hash,
           Bundling(h)'
    PROVE  Bundling(h)
<1>0. d \in Proc
  BY BundlerAssumption
<1>1. CASE Serving(d)
  BY <1>0, <1>1, ServingWrites
<1>2. CASE UNCHANGED <<standardPool, entryStatus>>
  BY <1>2 DEF Bundling
<1>3. CASE GetNextPending(d) \/ GetAllPending(d)
  BY <1>2, <1>3 DEF GetNextPending, GetAllPending, Pick, poolVars
<1>4. ~Mark(d)
  BY DEF Mark
<1> QED
  BY <1>1, <1>2, <1>3, <1>4, DriversCall DEF Calling, Serving, vars, mempoolVars, poolVars

(* What the driver's own step leaves it in.                                *)
LEMMA DriverPicks ==
    ASSUME BundlerInv, OwnedInv, PickedInv, NEW d \in Drivers, Acts(d)
    PROVE  /\ PicksWell(d)'
           /\ At(d, "mark")' => \A e \in Drivers : ~At(e, "mark")
<1>0. attempt \in [Drivers -> Attempts] /\ call \in [Proc -> Calls] /\ d \in Proc
  BY BundlerAssumption DEF BundlerInv, TypeInv, MempoolTypeOK
<1>i. At(d, "idle") /\ UNCHANGED call => At(d, "idle")'
  BY DEF At
<1>n. At(d, "idle")' => ~At(d, "mark")'
  BY DEF At
<1>s. Serving(d) => ~At(d, "mark")'
  BY <1>0, ServingWrites DEF At
<1>w. (At(d, "idle")' \/ Under(d)') /\ ~At(d, "mark")' => PicksWell(d)'
  BY DEF PicksWell
<1>1. CASE Begin(d)
  <2>1. PICK hashes \in SUBSET Pending :
          /\ call' = [call EXCEPT ![d] =
                        [Idle EXCEPT !.pc = "mark",
                                     !.picked = Without(standardPool, standardPool.keys \ hashes)]]
          /\ UNCHANGED poolVars
    BY <1>1, ZenonT(60) DEF Begin, GetNextPending, GetAllPending, Pick
  <2>2. call'[d].picked.keys \subseteq Pending
    BY <1>0, <2>1 DEF Idle, Without, Pending
  <2>3. \A h \in Pending : ~Bundling(h)'
    BY <2>1 DEF Pending, Bundling, poolVars
  <2>4. attempt'[d].stage = "marking"
    BY <1>0, <1>1 DEF Begin, GotoStage, Attempts
  <2>5. \A e \in Drivers : ~At(e, "mark")
    BY <1>1 DEF Begin, MayBegin
  <2> QED
    BY <2>2, <2>3, <2>4, <2>5 DEF PicksWell, Under
<1>2. CASE MarkTaken(d)
  <2>1. At(d, "idle")'
    BY <1>0, <1>2 DEF MarkTaken, Mark, Idle, At
  <2> QED
    BY <2>1, <1>n, <1>w
<1>3. CASE \/ BeginWithNothing(d) \/ QueryEvents(d) \/ CreateBundle(d) \/ Broadcast(d)
           \/ WaitEnds(d) \/ SendFails(d) \/ Penalize(d) \/ EndAfterRevert(d) \/ AttemptFails(d)
           \/ \E h \in Hash : SendReverts(d, h) \/ ClearPaymaster(d, h)
  <2>1. At(d, "idle")
    BY <1>3 DEF BeginWithNothing, MayBegin, QueryEvents, CreateBundle, Broadcast, WaitEnds,
       SendFails, Penalize, EndAfterRevert, AttemptFails, SendReverts, ClearPaymaster,
       ReadyToSend, Stage
  <2>2. UNCHANGED call
    BY <1>3 DEF BeginWithNothing, QueryEvents, CreateBundle, Broadcast, WaitEnds, SendFails,
       Penalize, EndAfterRevert, AttemptFails, SendReverts, ClearPaymaster, NoChange, vars,
       mempoolVars
  <2> QED
    BY <2>1, <2>2, <1>i, <1>n, <1>w
<1>4. CASE \/ \E h \in Hash : HandlePastEvent(d, h) \/ GiveBack(d, h) \/ Evict(d, h)
           \/ Ban(d) \/ EvictFailed(d)
  <2>1. Under(d)'
    BY <1>0, <1>4 DEF HandlePastEvent, GiveBack, Evict, Ban, EvictFailed, GotoStage, Stage,
       Under, Attempts
  <2>2. At(d, "idle")
    BY <1>4 DEF HandlePastEvent, GiveBack, Evict, Ban, EvictFailed, Stage
  <2>3. Serving(d) \/ UNCHANGED call
    <3>1. standardPool.keys \subseteq Hash /\ AttemptOK(attempt[d])
      BY DEF BundlerInv, TypeInv, MempoolTypeOK, Pools
    <3> QED
      BY <1>4, <3>1 DEF HandlePastEvent, HandleEvent, FailedStatus, GiveBack, Evict, Ban,
         EvictFailed, RemoveByUserOp, RemoveByHash, AttemptOK, Stage, Serving, NoChange, vars,
         mempoolVars
  <2> QED
    BY <2>1, <2>2, <2>3, <1>i, <1>n, <1>s, <1>w
<1>5. CASE FinishCall(d) /\ UNCHANGED bundlerVars
  <2>1. ~At(d, "idle") /\ Serving(d)
    BY <1>5 DEF FinishCall, Remove, SetStatus, BanRemove, At, Serving
  <2>2. Under(d)'
    BY <1>5, <2>1 DEF PickedInv, PicksWell, Under, bundlerVars
  <2> QED
    BY <2>1, <2>2, <1>s, <1>w
<1> QED
  BY <1>1, <1>2, <1>3, <1>4, <1>5 DEF Acts, AttemptStep

LEMMA PickedInvStep == BundlerInv /\ OwnedInv /\ PickedInv /\ [BundlerNext]_allVars => PickedInv'
<1> SUFFICES ASSUME BundlerInv, OwnedInv, PickedInv, [BundlerNext]_allVars
             PROVE  PickedInv'
  OBVIOUS
<1>k. \A d \in Drivers : d \in Proc /\ call[d].picked.keys \subseteq Hash
  BY BundlerAssumption DEF BundlerInv, TypeInv, MempoolTypeOK, Calls, Pools
<1>u. ASSUME NEW e \in Drivers, call'[e] = call[e], Under(e) => Under(e)',
             attempt[e].stage = "marking" => attempt'[e].stage = "marking",
             At(e, "mark") => \A h \in Hash : Bundling(h)' => Bundling(h)
      PROVE  PicksWell(e)'
  BY <1>k, <1>u DEF PickedInv, PicksWell, At
<1>1. ASSUME UNCHANGED mempoolVars,
             \A d \in Drivers :
               /\ Under(d) => Under(d)'
               /\ attempt[d].stage = "marking" => attempt'[d].stage = "marking"
      PROVE  PickedInv'
  <2>1. \A d \in Drivers : PicksWell(d)'
    BY <1>1, <1>u DEF Bundling, mempoolVars, poolVars
  <2> QED
    BY <1>1, <2>1 DEF PickedInv, At, mempoolVars
<1>2. CASE SetBundlingMode
  BY <1>1, <1>2 DEF SetBundlingMode, vars, Under
<1>3. ASSUME NEW d \in Drivers, Fire(d)
      PROVE  PickedInv'
  <2>1. OwnAttempt(d) /\ attempt[d].stage = "idle" /\ UNCHANGED mempoolVars
    BY <1>3, FireStep DEF Fire, Stage, NoChange, vars
  <2>2. \A e \in Drivers :
          /\ Under(e) => Under(e)'
          /\ attempt[e].stage = "marking" => attempt'[e].stage = "marking"
    BY <2>1 DEF OwnAttempt, Under
  <2> QED
    BY <1>1, <2>1, <2>2
<1>4. ASSUME NEW d \in Drivers, Acts(d)
      PROVE  PickedInv'
  <2>0. \A e \in Drivers \ {d} : call'[e] = call[e] /\ attempt'[e] = attempt[e]
    BY <1>k, <1>4, DriverAnswers, DriverStep DEF Answers, OwnAttempt
  <2>1. ASSUME NEW e \in Drivers \ {d}
        PROVE  PicksWell(e)'
    <3>1. At(e, "mark") => ~At(d, "mark")
      BY DEF PickedInv
    <3>2. At(e, "mark") => \A h \in Hash : Bundling(h)' => Bundling(h)
      BY <1>4, <3>1, DriverMarks
    <3> QED
      BY <1>u, <2>0, <3>2 DEF Under
  <2>2. ASSUME NEW e \in Drivers, NEW f \in Drivers, At(e, "mark")', At(f, "mark")'
        PROVE  e = f
    <3>1. \A g \in Drivers \ {d} : At(g, "mark")' => At(g, "mark")
      BY <2>0 DEF At
    <3>2. At(d, "mark")' => \A g \in Drivers : ~At(g, "mark")
      BY <1>4, DriverPicks
    <3> QED
      BY <2>2, <3>1, <3>2 DEF PickedInv
  <2> QED
    BY <1>4, <2>1, <2>2, DriverPicks DEF PickedInv
<1>5. ASSUME NEW p \in Proc \ Drivers, Serving(p), UNCHANGED bundlerVars
      PROVE  PickedInv'
  <2>1. /\ \A h \in Hash : Bundling(h)' => Bundling(h)
        /\ \A q \in Proc \ {p} : call'[q] = call[q]
    BY <1>5, ServingWrites
  <2>2. \A d \in Drivers : PicksWell(d)'
    BY <1>5, <1>k, <1>u, <2>1 DEF bundlerVars, Under
  <2> QED
    BY <1>5, <1>k, <2>1, <2>2 DEF PickedInv, At
<1>6. ASSUME NEW p \in Listener, ListenerStep(p)
      PROVE  PickedInv'
  <2>1. p \in Proc \ Drivers /\ Serving(p) /\ UNCHANGED bundlerVars
    BY <1>6, BundlerAssumption DEF ListenerStep, Listen, HandleEvent, FailedStatus, Serving
  <2> QED
    BY <1>5, <2>1
<1>7. ASSUME NEW p \in Proc \ (Drivers \cup Listener), UserStep(p)
      PROVE  PickedInv'
  <2>1. Serving(p) /\ UNCHANGED bundlerVars
    BY <1>7 DEF UserStep, Serving
  <2> QED
    BY <1>5, <2>1
<1>8. CASE UNCHANGED allVars
  BY <1>1, <1>8 DEF allVars, vars, bundlerVars, Under
<1>9. ASSUME NEW bundle \in flight, Mine(bundle)
      PROVE  PickedInv'
  BY <1>1, <1>9, MineStep DEF Under
<1> QED
  BY <1>2, <1>3, <1>4, <1>6, <1>7, <1>8, <1>9 DEF BundlerNext, Acts

LEMMA PickedInvInit == BundlerInit => PickedInv
BY BundlerAssumption DEF BundlerInit, MempoolInit, Idle, At, PickedInv, PicksWell

(* What an attempt takes it has picked.                                    *)
LEMMA TakingPicked ==
    ASSUME BundlerInv, [BundlerNext]_allVars,
           NEW d \in Drivers, attempt[d].stage = "marking", attempt'[d].stage = "query"
    PROVE  /\ At(d, "mark") /\ attempt'[d].taken = call[d].picked.keys
           /\ call[d].picked.keys \subseteq standardPool.keys
<1>0. attempt \in [Drivers -> Attempts]
  BY DEF BundlerInv
<1>1. MarkTaken(d)
  <2>1. attempt' # attempt
    OBVIOUS
  <2>2. ASSUME NEW e \in Drivers, Fire(e)
        PROVE  FALSE
    BY <2>2, <1>0 DEF Fire, GotoStage, Stage, Attempts
  <2>3. ASSUME NEW e \in Drivers, Acts(e)
        PROVE  e = d
    BY <2>1, <2>3, DriverStep DEF OwnAttempt
  <2>m. ASSUME NEW bundle \in flight, Mine(bundle)
        PROVE  FALSE
    BY <2>1, <2>m DEF Mine
  <2>4. Acts(d)
    BY <2>1, <2>2, <2>3, <2>m DEF BundlerNext, SetBundlingMode, ListenerStep, Listen, UserStep,
       bundlerVars, allVars, Acts
  <2>5. ~(Begin(d) \/ BeginWithNothing(d))
    BY DEF Begin, BeginWithNothing, MayBegin, Stage
  <2> QED
    BY <2>1, <2>4, <2>5 DEF Acts, AttemptStep, QueryEvents, HandlePastEvent, CreateBundle,
       GiveBack, ClearPaymaster, Evict, Broadcast, WaitEnds, SendFails, SendReverts, Ban,
       Penalize, EvictFailed, EndAfterRevert, AttemptFails, ReadyToSend, Stage, bundlerVars
<1>2. CASE call[d].picked.keys \subseteq standardPool.keys
  BY <1>0, <1>1, <1>2 DEF MarkTaken, Mark, Attempts
<1>3. CASE ~(call[d].picked.keys \subseteq standardPool.keys)
  BY <1>0, <1>1, <1>3 DEF MarkTaken, End, NoAttempt
<1> QED
  BY <1>2, <1>3

LEMMA PickedInvHolds == BundlerSpec => [](BundlerInv /\ OwnedInv /\ PickedInv)
<1>1. BundlerInit => BundlerInv /\ OwnedInv /\ PickedInv
  BY BundlerInvInit, OwnedInvInit, PickedInvInit
<1>2. BundlerInv /\ OwnedInv /\ PickedInv /\ [BundlerNext]_allVars
        => BundlerInv' /\ OwnedInv' /\ PickedInv'
  BY BundlerInvStep, OwnedInvStep, PickedInvStep
<1> QED
  BY <1>1, <1>2, PTL DEF BundlerSpec

(* No attempt takes an entry that is being bundled, however many attempts  *)
(* are forced while the interval's run, and whatever users and events      *)
(* change meanwhile.                                                       *)
THEOREM BundlerTakesNothingTwice == BundlerSpec => TakesNothingTwice
<1>1. BundlerInv /\ OwnedInv /\ PickedInv /\ [BundlerNext]_allVars
        => [\A d \in Drivers :
              attempt[d].stage = "marking" /\ attempt'[d].stage = "query" =>
                 \A h \in attempt'[d].taken : entryStatus[h] # "bundling"]_allVars
  BY TakingPicked DEF PickedInv, PicksWell, Bundling
<1> QED
  BY <1>1, PickedInvHolds, PTL DEF BundlerSpec, TakesNothingTwice

-----------------------------------------------------------------------------
(* What has reverted is not tried again, and what is taken is pending and  *)
(* is not sent by another attempt, unless it was sent again while the      *)
(* bundler had it in hand.                                                 *)
Offered(h) == h \in standardPool.keys /\ entryStatus[h] = "pending"

(* It was not executed, and is in no transaction that may be mined.        *)
Unspent(h) == executed[h] = "none" /\ h \notin InFlight

(* What an attempt has taken until it sorts it, then its bundle and what it *)
(* has to give back, the entry it is giving back included: it is not       *)
(* offered to another.                                                     *)
Withheld(d) ==
    attempt[d].bundle \cup attempt[d].back
      \cup (IF attempt[d].stage \in {"query", "building"} THEN attempt[d].taken ELSE {})
      \cup (IF At(d, "setStatus") /\ call[d].status = "pending" THEN {call[d].old} ELSE {})

(* What it alone may come to send or to offer.                             *)
Owns(d) == Withheld(d) \cup (IF At(d, "mark") THEN call[d].picked.keys ELSE {})

(* An attempt has taken nothing before it marks the entries.               *)
EmptyHanded(d) == ~Under(d) \/ attempt[d].stage = "marking" => attempt[d].taken = {}

(* Only an attempt that sorts its entries offers one again, and only one it *)
(* has done with; only what was executed is marked as failed.              *)
UpdatesWell(p) ==
    At(p, "setStatus") =>
        /\ call[p].status = "pending" =>
             /\ p \in Drivers /\ attempt[p].stage = "settling"
             /\ call[p].old \in attempt[p].taken \ (attempt[p].bundle \cup attempt[p].back)
        /\ call[p].status = "failed" => executed[call[p].old] # "none"

AddsAfresh(p, h) ==
    Admitting(p, h) => /\ Unspent(h) /\ ~Kept(h)
                       /\ \A q \in Proc \ {p} : ~Admitting(q, h)

(* Until it has sent it, nothing that an attempt has in hand is spent.     *)
HoldsUnspent(d) ==
    /\ attempt[d].stage # "mining" => \A h \in Owns(d) \ resent : Unspent(h)
    /\ \A h \in Withheld(d) \ resent : ~Offered(h)
    /\ At(d, "mark") => \A h \in call[d].picked.keys \ resent : entryStatus[h] = "pending"

UnspentInv ==
    /\ \A p \in Proc, h \in Hash \ resent : AddsAfresh(p, h)
    /\ \A h \in Hash \ resent : Offered(h) => Unspent(h)
    /\ \A d \in Drivers : EmptyHanded(d) /\ HoldsUnspent(d)
    /\ \A d, e \in Drivers : d # e => Owns(d) \cap Owns(e) \subseteq resent
    /\ \A p \in Proc : UpdatesWell(p)
    /\ \A s, t \in flight : s # t => s \cap t \subseteq resent

LEMMA UnspentMeans == BundlerInv /\ UnspentInv => RevertedNotRetried /\ SentOnce
<1> SUFFICES ASSUME BundlerInv, UnspentInv PROVE RevertedNotRetried /\ SentOnce
  OBVIOUS
<1>1. RevertedNotRetried
  BY DEF BundlerInv, TypeInv, MempoolTypeOK, Pools, UnspentInv, Offered, Unspent,
     RevertedNotRetried
<1>2. \A d \in Drivers : attempt[d].bundle \subseteq Owns(d)
  BY DEF Owns, Withheld
<1>3. SentOnce
  BY <1>2 DEF SentOnce, UnspentInv, HoldsUnspent, Unspent
<1> QED
  BY <1>1, <1>3

(* An attempt has in hand only what it holds on to.                        *)
LEMMA OwnsKept ==
    ASSUME BundlerInv, UnspentInv, NEW d \in Drivers
    PROVE  /\ Owns(d) \subseteq Hash
           /\ \A h \in Owns(d) : Kept(h)
<1>0. /\ d \in Proc /\ AttemptOK(attempt[d]) /\ attempt[d] \in Attempts
      /\ call[d].picked.keys \subseteq Hash /\ UpdatesWell(d)
      /\ attempt[d].taken \subseteq Hash
  BY BundlerAssumption DEF BundlerInv, TypeInv, MempoolTypeOK, Calls, Pools, Attempts, UnspentInv
<1>1. Owns(d) \subseteq Held(d)
  BY <1>0 DEF Owns, Withheld, Held, AttemptOK, UpdatesWell
<1>2. Held(d) \subseteq Hash
  BY <1>0 DEF Held
<1> QED
  BY <1>1, <1>2 DEF Kept

(* What a step of p may do to the pool, other than to take entries and to  *)
(* mark them.                                                              *)
Touches(p) ==
    /\ \A h \in Hash : Offered(h)' =>
         \/ Offered(h)
         \/ Admitting(p, h)
         \/ At(p, "setStatus") /\ call[p].status = "pending" /\ call[p].old = h
    /\ \A h \in Hash : h \in standardPool'.keys =>
         \/ h \in standardPool.keys
         \/ Admitting(p, h) /\ ~Admitting(p, h)'
         \/ At(p, "setStatus") /\ call[p].old = h
    /\ \A h \in Hash : entryStatus[h] = "pending" =>
         \/ entryStatus'[h] = "pending"
         \/ At(p, "setStatus") /\ call[p].status = "failed" /\ call[p].old = h
    /\ \A q \in Proc \ {p} : call'[q] = call[q]
    /\ At(p, "setStatus")' => call'[p].old \in standardPool.keys
    /\ ~At(p, "mark")'

(* What p sends again is noted.                                            *)
NotesResent(p) ==
    /\ resent \subseteq resent'
    /\ \A h \in Hash \ resent' : Admitting(p, h)' /\ ~Admitting(p, h) => Unspent(h) /\ ~InHand(h)

LEMMA TouchesIdly ==
    ASSUME NEW p \in Proc, At(p, "idle"), UNCHANGED mempoolVars PROVE Touches(p)
BY DEF Touches, Offered, At, mempoolVars, poolVars

(* A step of d that lets nothing go that it withholds, but for what it now *)
(* offers again.                                                           *)
Retains(d) ==
    /\ attempt'[d].taken \subseteq attempt[d].taken
    /\ Withheld(d)' \subseteq Withheld(d)
    /\ EmptyHanded(d)'
    /\ attempt[d].stage = "mining" => attempt'[d].stage = "mining" \/ Withheld(d)' = {}
    /\ At(d, "setStatus") /\ call[d].status = "pending" => call[d].old \notin Withheld(d)'

(* A step of p that keeps to this leaves no operation that was executed to *)
(* be offered, if its attempt lets nothing go.                             *)
LEMMA UnspentIfTouched ==
    ASSUME BundlerInv, OwnedInv, PickedInv, UnspentInv, NEW p \in Proc, Touches(p),
           NotesResent(p), chain' = chain,
           \A d \in Drivers \ {p} : attempt'[d] = attempt[d],
           p \in Drivers => Retains(p),
           UpdatesWell(p)'
    PROVE  UnspentInv'
<1>0. /\ \A d \in Drivers : d \in Proc
      /\ \A h \in Hash : Unspent(h)' <=> Unspent(h)
      /\ \A h \in Hash \ resent' : h \in Hash \ resent
      /\ executed' = executed /\ flight' = flight
  BY BundlerAssumption DEF Unspent, InFlight, NotesResent, chain
<1>k. /\ \A d \in Drivers : \A h \in Owns(d) : h \in Hash /\ Kept(h)
      /\ \A d \in Drivers : \A h \in Withheld(d) : h \in Owns(d)
  BY OwnsKept DEF Owns
<1>1. ASSUME NEW d \in Drivers
      PROVE  /\ Held(d)' \subseteq Held(d)
             /\ Withheld(d)' \subseteq Withheld(d)
             /\ Owns(d)' \subseteq Owns(d)
             /\ EmptyHanded(d)'
             /\ attempt'[d].stage # "mining" => attempt[d].stage # "mining" \/ Owns(d)' = {}
  <2>1. CASE d = p
    <3>1. ~At(d, "mark")' /\ Retains(d)
      BY <2>1 DEF Touches
    <3>2. Owns(d)' = Withheld(d)' /\ Held(d)' = attempt'[d].taken
      BY <3>1 DEF Owns, Held
    <3>3. attempt[d].taken \subseteq Held(d)
      BY DEF Held
    <3> QED
      BY <1>k, <3>1, <3>2, <3>3 DEF Retains
  <2>2. CASE d # p
    <3>1. attempt'[d] = attempt[d] /\ call'[d] = call[d] /\ EmptyHanded(d)
      BY <1>0, <2>2 DEF Touches, UnspentInv
    <3>2. Held(d)' = Held(d) /\ Withheld(d)' = Withheld(d) /\ Owns(d)' = Owns(d)
      BY <3>1 DEF Held, Withheld, Owns, At
    <3>3. EmptyHanded(d)'
      BY <3>1 DEF EmptyHanded, Under
    <3> QED
      BY <3>1, <3>2, <3>3
  <2> QED
    BY <2>1, <2>2
<1>2. ASSUME NEW q \in Proc
      PROVE  UpdatesWell(q)'
  BY <1>0, <1>2 DEF Touches, UnspentInv, UpdatesWell, At
<1>3. ASSUME NEW q \in Proc, NEW h \in Hash \ resent', Admitting(q, h)'
      PROVE  Unspent(h) /\ ~Kept(h) /\ \A r \in Proc \ {q} : ~Admitting(r, h)
  <2>1. CASE Admitting(q, h)
    BY <1>0, <2>1 DEF UnspentInv, AddsAfresh
  <2>2. CASE ~Admitting(q, h)
    <3>1. q = p
      BY <1>3, <2>2 DEF Touches, Admitting
    <3> QED
      BY <1>3, <2>2, <3>1 DEF NotesResent, InHand
  <2> QED
    BY <2>1, <2>2
<1>4. ASSUME NEW q \in Proc, NEW h \in Hash \ resent', Admitting(q, h)'
      PROVE  AddsAfresh(q, h)'
  <2>1. Unspent(h) /\ ~Kept(h) /\ \A r \in Proc \ {q} : ~Admitting(r, h)
    BY <1>3, <1>4
  <2>2. h \notin standardPool'.keys
    BY <1>4, <2>1 DEF Touches, Kept
  <2>3. \A d \in Drivers : h \notin Held(d)'
    BY <1>1, <2>1 DEF Kept
  <2>4. \A r \in Proc : ~(At(r, "setStatus")' /\ call'[r].old = h)
    BY <2>1 DEF Touches, Kept, At
  <2>5. ~Kept(h)'
    BY <2>2, <2>3, <2>4 DEF Kept, At
  <2>6. ASSUME NEW r \in Proc \ {q}, Admitting(r, h)'
        PROVE  FALSE
    <3>1. (r # p => Admitting(r, h)) /\ (q # p => Admitting(q, h))
      BY <1>4, <2>6 DEF Touches, Admitting
    <3>2. ~Admitting(q, h)
      BY <1>3, <2>6
    <3> QED
      BY <2>1, <3>1, <3>2
  <2> QED
    BY <1>0, <2>1, <2>5, <2>6 DEF AddsAfresh
<1>s. ASSUME NEW h \in Hash, At(p, "setStatus"), call[p].status = "pending", call[p].old = h
      PROVE  /\ p \in Drivers /\ h \in Withheld(p) /\ h \notin Withheld(p)'
             /\ attempt[p].stage # "mining"
  <2>1. p \in Drivers /\ attempt[p].stage = "settling"
    BY <1>s DEF UnspentInv, UpdatesWell
  <2> QED
    BY <1>s, <2>1 DEF Withheld, Retains
<1>5. ASSUME NEW h \in Hash \ resent', Offered(h)'
      PROVE  Unspent(h)'
  <2>1. CASE At(p, "setStatus") /\ call[p].status = "pending" /\ call[p].old = h
    <3>1. p \in Drivers /\ h \in Owns(p) /\ attempt[p].stage # "mining"
      BY <1>k, <1>s, <2>1
    <3>2. Unspent(h)
      BY <1>0, <3>1 DEF UnspentInv, HoldsUnspent
    <3> QED
      BY <1>0, <3>2
  <2>2. CASE Offered(h) \/ Admitting(p, h)
    BY <1>0, <2>2 DEF UnspentInv, AddsAfresh
  <2> QED
    BY <1>5, <2>1, <2>2 DEF Touches
<1>6. ASSUME NEW d \in Drivers, NEW h \in Withheld(d)' \ resent', Offered(h)'
      PROVE  FALSE
  <2>1. /\ h \in Withheld(d) /\ h \in Owns(d) /\ Kept(h)
        /\ h \in Hash \ resent' /\ h \notin resent
    BY <1>0, <1>1, <1>6, <1>k
  <2>2. ~Offered(h) /\ ~Admitting(p, h)
    BY <2>1 DEF UnspentInv, HoldsUnspent, AddsAfresh
  <2>3. At(p, "setStatus") /\ call[p].status = "pending" /\ call[p].old = h
    BY <1>6, <2>1, <2>2 DEF Touches
  <2>4. p \in Drivers /\ h \in Owns(p) /\ h \notin Withheld(p)'
    BY <1>k, <1>s, <2>1, <2>3
  <2>5. d = p
    BY <2>1, <2>4 DEF UnspentInv
  <2> QED
    BY <1>6, <2>4, <2>5
<1>7. ASSUME NEW d \in Drivers, attempt'[d].stage # "mining", NEW h \in Owns(d)' \ resent'
      PROVE  Unspent(h)'
  <2>1. attempt[d].stage # "mining" /\ h \in Owns(d) /\ h \in Hash /\ h \notin resent
    BY <1>0, <1>1, <1>7, <1>k
  <2>2. Unspent(h)
    BY <2>1 DEF UnspentInv, HoldsUnspent
  <2> QED
    BY <1>0, <2>1, <2>2
<1>8. ASSUME NEW d \in Drivers, At(d, "mark")', NEW h \in call'[d].picked.keys \ resent'
      PROVE  entryStatus'[h] = "pending"
  <2>1. d # p /\ call'[d] = call[d] /\ At(d, "mark")
    BY <1>0, <1>8 DEF Touches, At
  <2>2. /\ h \in Owns(d) /\ h \in Hash /\ h \notin resent
        /\ attempt[d].stage # "mining"
    BY <1>0, <1>8, <1>k, <2>1 DEF Owns, PickedInv, PicksWell
  <2>3. entryStatus[h] = "pending" /\ Unspent(h)
    BY <1>8, <2>1, <2>2 DEF UnspentInv, HoldsUnspent
  <2>4. ~(At(p, "setStatus") /\ call[p].status = "failed" /\ call[p].old = h)
    BY <2>3 DEF UnspentInv, UpdatesWell, Unspent
  <2> QED
    BY <2>2, <2>3, <2>4 DEF Touches
<1>9. ASSUME NEW d \in Drivers
      PROVE  EmptyHanded(d)' /\ HoldsUnspent(d)'
  BY <1>1, <1>6, <1>7, <1>8 DEF HoldsUnspent, At
<1>10. ASSUME NEW d \in Drivers, NEW e \in Drivers, d # e
       PROVE  Owns(d)' \cap Owns(e)' \subseteq resent'
  BY <1>1, <1>10 DEF UnspentInv, NotesResent
<1>11. \A s, t \in flight' : s # t => s \cap t \subseteq resent'
  BY <1>0 DEF UnspentInv, NotesResent
<1> QED
  BY <1>2, <1>4, <1>5, <1>9, <1>10, <1>11 DEF UnspentInv, AddsAfresh

(* The steps of a call other than an addition.                             *)
Handling(p) ==
    \/ \E h \in Hash : RemoveByHash(p, h)
    \/ \E a \in Address : BanSelect(p, a)
    \/ FinishCall(p)
    \/ \E h \in Hash, status \in {"pending", "failed"} : ReadEntry(p, h, status)

LEMMA HandlingTouches ==
    ASSUME BundlerInv, OwnedInv, NEW p \in Proc, Handling(p)
    PROVE  Touches(p) /\ \A h \in Hash : ~Admitting(p, h)'
<1>0. /\ call \in [Proc -> Calls] /\ CallOK(call[p]) /\ WellFormed(standardPool)
      /\ standardPool.keys \subseteq Hash
  BY DEF BundlerInv, TypeInv, MempoolTypeOK, WellFormed, Pools
<1>1. \A q \in Proc \ {p} : call'[q] = call[q]
  BY ServingWrites DEF Handling, Serving
<1>2. CASE Remove(p) \/ BanRemove(p)
  <2>1. /\ standardPool'.keys \subseteq standardPool.keys
        /\ \A h \in Hash : h \in standardPool'.keys => entryStatus'[h] = entryStatus[h]
        /\ \A h \in Hash : entryStatus[h] = "pending" => entryStatus'[h] = "pending"
    <3>1. CASE Remove(p)
      <4>1. standardPool'.keys = standardPool.keys \ {call[p].old}
        BY <1>0, <3>1, WithoutType DEF Remove, ChangePool
      <4> QED
        BY <3>1, <4>1 DEF Remove, StatusSet
    <3>2. CASE BanRemove(p)
      <4>1. standardPool'.keys = standardPool.keys \ call[p].picked.keys
        BY <1>0, <3>2, WithoutType DEF BanRemove, ChangePool
      <4> QED
        BY <3>2, <4>1 DEF BanRemove, StatusSet
    <3> QED
      BY <1>2, <3>1, <3>2
  <2>2. call'[p].pc = "idle"
    BY <1>0, <1>2 DEF Remove, BanRemove, Idle
  <2> QED
    BY <1>1, <2>1, <2>2 DEF Touches, Offered, Admitting, At
<1>3. CASE SetStatus(p)
  <2>1. /\ At(p, "setStatus") /\ call[p].old \in Hash
        /\ call[p].status \in {"pending", "failed"}
    BY <1>0, <1>3 DEF SetStatus, At, CallOK, OwnedInv
  <2>2. standardPool'.keys = standardPool.keys \cup {call[p].old}
    BY <1>0, <1>3, <2>1, WithKeyType DEF SetStatus, ReplacePool
  <2>3. /\ \A h \in Hash : entryStatus'[h] = IF h = call[p].old THEN call[p].status
                                             ELSE entryStatus[h]
        /\ call'[p].pc = "idle"
    BY <1>0, <1>3 DEF SetStatus, StatusSet, Idle
  <2> QED
    BY <1>1, <2>1, <2>2, <2>3 DEF Touches, Offered, Admitting, At
<1>4. CASE \/ \E h \in Hash : RemoveByHash(p, h)
           \/ \E a \in Address : BanSelect(p, a)
           \/ \E h \in Hash, status \in {"pending", "failed"} : ReadEntry(p, h, status)
  <2>1. UNCHANGED <<standardPool, entryStatus>>
    BY <1>4 DEF RemoveByHash, FoundForRemoval, BanSelect, ReadEntry, poolVars
  <2>2. /\ call'[p].pc \in {"remove", "ban", "setStatus"}
        /\ call'[p].pc = "setStatus" => call'[p].old \in standardPool.keys
    BY <1>0, <1>4, ZenonT(60) DEF RemoveByHash, FoundForRemoval, BanSelect, ReadEntry, Idle
  <2> QED
    BY <1>1, <2>1, <2>2 DEF Touches, Offered, Admitting, At
<1> QED
  BY <1>2, <1>3, <1>4 DEF Handling, FinishCall

LEMMA AddingTouches ==
    ASSUME BundlerInv, OwnedInv, NEW p \in Proc, AddStep(p)
    PROVE  /\ Touches(p) /\ ~At(p, "setStatus")'
           /\ \A h \in Hash : Admitting(p, h)' /\ ~Admitting(p, h) => At(p, "idle")
<1>0. /\ call \in [Proc -> Calls] /\ CallOK(call[p]) /\ WellFormed(standardPool)
      /\ standardPool.keys \subseteq Hash
  BY DEF BundlerInv, TypeInv, MempoolTypeOK, WellFormed, Pools
<1>1. /\ \A q \in Proc \ {p} : call'[q] = call[q]
      /\ ~At(p, "mark")'
      /\ \A h \in Hash : entryStatus[h] = "pending" => entryStatus'[h] = "pending"
  BY ServingWrites, AddingKeepsPending DEF Serving, At
<1>2. CASE CommitNew(p) \/ CommitReplacement(p)
  <2>1. call[p].hash \in Hash /\ At(p, "commit") /\ Goto(p, "seenSender")
    BY <1>0, <1>2 DEF CommitNew, CommitReplacement, At, CallOK, AddSteps
  <2>2. call'[p].pc = "seenSender"
    BY <1>0, <2>1 DEF Goto, Calls
  <2>3. /\ standardPool'.keys \subseteq standardPool.keys \cup {call[p].hash}
        /\ \A h \in Hash : h \in standardPool'.keys /\ h # call[p].hash
              => entryStatus'[h] = entryStatus[h]
    <3>1. CASE CommitNew(p)
      <4>1. standardPool'.keys = standardPool.keys \cup {call[p].hash}
        BY <1>0, <3>1, <2>1, WithKeyType DEF CommitNew, ReplacePool
      <4> QED
        BY <3>1, <4>1 DEF CommitNew, StatusSet
    <3>2. CASE CommitReplacement(p)
      <4>1. standardPool'.keys = (standardPool.keys \ {call[p].old}) \cup {call[p].hash}
        BY <1>0, <3>2, <2>1, WithoutType, WithKeyType DEF CommitReplacement, ReplacePool
      <4> QED
        BY <3>2, <4>1 DEF CommitReplacement, StatusSet
    <3> QED
      BY <1>2, <3>1, <3>2
  <2> QED
    BY <1>1, <2>1, <2>2, <2>3 DEF Touches, Offered, Admitting, At
<1>3. CASE ~(CommitNew(p) \/ CommitReplacement(p))
  <2>1. UNCHANGED <<standardPool, entryStatus>>
    BY <1>3 DEF AddStep, AddUserOp, Snapshot, ClassifyAsNew, ClassifyAsReplacement,
       RefuseUnderpriced, Refuse, CheckEntity, RefuseForReputation, RefuseUnstaked, CheckRoles,
       RefuseForRoles, SeenSender, SeenHelpers, poolVars
  <2> DEFINE Goes ==
               /\ call'[p].pc # "setStatus"
               /\ \A h \in Hash : Admitting(p, h)' => Admitting(p, h) \/ At(p, "idle")
  <2>2. ASSUME At(p, "idle"), \E h \in Offers[p] : AddUserOp(p, h)
        PROVE  Goes
    BY <1>0, <2>2 DEF AddUserOp, Idle
  <2>3. ASSUME NEW step \in {"classify", "check", "roles", "commit", "seenHelpers"},
               Goto(p, step),
               call[p].pc \in {"snapshot", "classify", "check", "roles", "commit"}
                 \/ step = "seenHelpers"
        PROVE  Goes
    BY <1>0, <2>3 DEF Goto, Calls, Admitting
  <2>4. ASSUME call' = [call EXCEPT ![p] = Idle]
        PROVE  Goes
    BY <1>0, <2>4 DEF Idle, Admitting
  <2>5. ASSUME Snapshot(p) \/ ClassifyAsNew(p) \/ CheckRoles(p) PROVE Goes
    <3>1. \/ Goto(p, "classify") \/ Goto(p, "check") \/ Goto(p, "commit")
      BY <2>5 DEF Snapshot, ClassifyAsNew, CheckRoles
    <3>2. call[p].pc \in {"snapshot", "classify", "roles"}
      BY <2>5 DEF Snapshot, ClassifyAsNew, CheckRoles, At
    <3> HIDE DEF Goes
    <3> QED
      BY <2>3, <3>1, <3>2
  <2>6. ASSUME \/ \E old \in Hash : RefuseUnderpriced(p, old)
               \/ RefuseForReputation(p) \/ RefuseUnstaked(p) \/ RefuseForRoles(p)
        PROVE  Goes
    <3>1. Refuse(p)
      BY <2>6 DEF RefuseUnderpriced, RefuseForReputation, RefuseUnstaked, RefuseForRoles
    <3> HIDE DEF Goes
    <3> QED
      BY <2>4, <3>1 DEF Refuse
  <2>7. ASSUME NEW old \in Hash, ClassifyAsReplacement(p, old) PROVE Goes
    BY <1>0, <2>7 DEF ClassifyAsReplacement, At, Calls, Admitting
  <2>8. ASSUME CheckEntity(p) PROVE Goes
    <3>1. /\ call[p].pc = "check"
          /\ \/ Goto(p, "roles")
             \/ \E next : call' = [call EXCEPT ![p] = [@ EXCEPT !.place = next]]
      BY <2>8 DEF CheckEntity, At
    <3>2. ASSUME NEW next, call' = [call EXCEPT ![p] = [@ EXCEPT !.place = next]]
          PROVE  Goes
      BY <1>0, <3>1, <3>2 DEF Calls, Admitting
    <3> HIDE DEF Goes
    <3> QED
      BY <2>3, <3>1, <3>2
  <2>9. ASSUME SeenSender(p) \/ SeenHelpers(p) PROVE Goes
    <3>1. Goto(p, "seenHelpers") \/ call' = [call EXCEPT ![p] = Idle]
      BY <1>0, <2>9 DEF SeenSender, SeenHelpers, At, Goto
    <3> HIDE DEF Goes
    <3> QED
      BY <2>3, <2>4, <3>1
  <2>10. ASSUME NEW h \in Offers[p], AddUserOp(p, h) PROVE At(p, "idle")
    BY <2>10 DEF AddUserOp, Start, At
  <2> HIDE DEF Goes
  <2>11. Goes
    BY <1>3, <2>2, <2>5, <2>6, <2>7, <2>8, <2>9, <2>10 DEF AddStep
  <2> QED
    BY <1>1, <2>1, <2>11 DEF Goes, Touches, Offered, At
<1> QED
  BY <1>2, <1>3

-----------------------------------------------------------------------------
(* What a driver's step lets go of.                                        *)

(* An attempt begins with entries that are pending.                        *)
LEMMA UnspentBegin ==
    ASSUME BundlerInv, UnspentInv, NEW d \in Drivers, Begin(d), resent' = resent
    PROVE  UnspentInv'
<1>0. /\ attempt \in [Drivers -> Attempts] /\ call \in [Proc -> Calls] /\ d \in Proc
      /\ \A e \in Drivers : e \in Proc
      /\ standardPool.keys \subseteq Hash
      /\ AttemptOK(attempt[d])
  BY BundlerAssumption DEF BundlerInv, TypeInv, MempoolTypeOK, Pools
<1>k. \A e \in Drivers : /\ Owns(e) \subseteq Hash
                       /\ Withheld(e) \subseteq Owns(e)
  BY OwnsKept DEF Owns
<1>1. PICK hashes \in SUBSET Pending :
        /\ call' = [call EXCEPT ![d] =
                      [Idle EXCEPT !.pc = "mark",
                                   !.picked = Without(standardPool, standardPool.keys \ hashes)]]
        /\ UNCHANGED poolVars
  BY ZenonT(60) DEF Begin, GetNextPending, GetAllPending, Pick
<1>2. /\ call'[d].pc = "mark" /\ call'[d].picked.keys \subseteq Pending
      /\ \A q \in Proc \ {d} : call'[q] = call[q]
      /\ UNCHANGED <<standardPool, entryStatus, executed, flight>>
  BY <1>0, <1>1 DEF Begin, Idle, Without, Pending, poolVars, chain
<1>3. /\ attempt[d].stage \in {"idle", "waiting"} /\ attempt'[d].stage = "marking"
      /\ attempt'[d].taken = attempt[d].taken /\ attempt'[d].bundle = attempt[d].bundle
      /\ attempt'[d].back = attempt[d].back
      /\ \A e \in Drivers \ {d} : attempt'[e] = attempt[e] /\ ~At(e, "mark")
  BY <1>0 DEF Begin, MayBegin, Stage, GotoStage, Attempts
<1>4. attempt[d].taken = {} /\ attempt[d].bundle = {} /\ attempt[d].back = {}
  BY <1>0, <1>3 DEF UnspentInv, EmptyHanded, Under, AttemptOK
<1>5. /\ \A h \in Hash : Unspent(h)' <=> Unspent(h)
      /\ \A h \in Hash : Offered(h)' <=> Offered(h)
      /\ \A h \in Pending : h \in Hash /\ Offered(h)
  BY <1>0, <1>2 DEF Unspent, InFlight, Offered, Pending
<1>6. ASSUME NEW e \in Drivers, e # d
      PROVE  /\ Held(e)' = Held(e) /\ Withheld(e)' = Withheld(e) /\ Owns(e)' = Withheld(e)
             /\ Owns(e) = Withheld(e)
             /\ EmptyHanded(e)' = EmptyHanded(e)
  BY <1>0, <1>2, <1>3, <1>6 DEF Held, At, Withheld, Owns, EmptyHanded, Under
<1>7. /\ Held(d)' \subseteq Pending /\ Withheld(d)' = {} /\ EmptyHanded(d)'
      /\ Owns(d)' \subseteq Pending
  <2>1. Withheld(d)' = {} /\ Held(d)' = call'[d].picked.keys /\ EmptyHanded(d)'
    BY <1>2, <1>3, <1>4 DEF Held, At, Withheld, EmptyHanded
  <2>2. Owns(d)' = call'[d].picked.keys
    BY <1>2, <2>1 DEF Owns, At
  <2> QED
    BY <1>2, <2>1, <2>2
<1>8. \A q \in Proc, h \in Hash : Admitting(q, h)' => Admitting(q, h)
  BY <1>2 DEF Admitting
<1>9. \A h \in Hash : Kept(h)' => Kept(h)
  <2>1. ASSUME NEW h \in Hash, NEW q \in Proc, At(q, "setStatus")', call'[q].old = h
        PROVE  At(q, "setStatus") /\ call[q].old = h
    BY <1>2, <2>1 DEF At
  <2>2. ASSUME NEW h \in Hash, NEW e \in Drivers, h \in Held(e)'
        PROVE  Kept(h)
    BY <1>0, <1>6, <1>7, <2>2 DEF Kept, Pending
  <2> QED
    BY <1>2, <2>1, <2>2 DEF Kept, At
<1>10. \A q \in Proc, h \in Hash \ resent' : AddsAfresh(q, h)'
  BY <1>5, <1>8, <1>9 DEF UnspentInv, AddsAfresh
<1>11. \A q \in Proc : UpdatesWell(q)'
  BY <1>2, <1>3 DEF UnspentInv, UpdatesWell, At
<1>12. ASSUME NEW e \in Drivers
       PROVE  EmptyHanded(e)' /\ HoldsUnspent(e)'
  <2>1. CASE e = d
    <3>1. \A h \in Owns(d)' \ resent' : Unspent(h)'
      BY <1>5, <1>7 DEF UnspentInv
    <3>2. \A h \in call'[d].picked.keys : entryStatus'[h] = "pending"
      BY <1>2 DEF Pending
    <3> QED
      BY <1>7, <2>1, <3>1, <3>2 DEF HoldsUnspent
  <2>2. CASE e # d
    <3>1. EmptyHanded(e) /\ HoldsUnspent(e)
      BY DEF UnspentInv
    <3>2. Owns(e) \subseteq Hash /\ Withheld(e) \subseteq Hash
      BY <1>k
    <3>3. call'[e] = call[e] /\ entryStatus' = entryStatus /\ attempt'[e] = attempt[e]
      BY <1>0, <1>2, <1>3, <2>2
    <3> QED
      BY <1>5, <1>6, <2>2, <3>1, <3>2, <3>3 DEF HoldsUnspent, At
  <2> QED
    BY <2>1, <2>2
<1>13. ASSUME NEW e \in Drivers, e # d
       PROVE  Owns(d)' \cap Owns(e)' \subseteq resent
  BY <1>5, <1>6, <1>7, <1>13 DEF UnspentInv, HoldsUnspent
<1>14. ASSUME NEW e \in Drivers, NEW f \in Drivers, e # f
       PROVE  Owns(e)' \cap Owns(f)' \subseteq resent'
  BY <1>6, <1>13, <1>14 DEF UnspentInv
<1> QED
  BY <1>2, <1>5, <1>10, <1>11, <1>12, <1>14 DEF UnspentInv

(* The entries that it takes are then being bundled.                       *)
LEMMA UnspentMark ==
    ASSUME BundlerInv, PickedInv, UnspentInv, NEW d \in Drivers, MarkTaken(d),
           resent' = resent
    PROVE  UnspentInv'
<1> DEFINE picked == call[d].picked.keys
<1>0. /\ attempt \in [Drivers -> Attempts] /\ call \in [Proc -> Calls] /\ d \in Proc
      /\ \A e \in Drivers : e \in Proc
      /\ AttemptOK(attempt[d])
  BY BundlerAssumption DEF BundlerInv, TypeInv, MempoolTypeOK
<1>k. \A e \in Drivers : /\ Owns(e) \subseteq Hash
                       /\ Withheld(e) \subseteq Owns(e)
  BY OwnsKept DEF Owns
<1>1. /\ At(d, "mark") /\ call'[d].pc = "idle" /\ attempt[d].stage = "marking"
      /\ \A q \in Proc \ {d} : call'[q] = call[q]
      /\ UNCHANGED <<standardPool, executed, flight>>
      /\ \A h \in Hash : entryStatus'[h] \in {entryStatus[h], "bundling"}
  BY <1>0 DEF MarkTaken, Mark, StatusSet, Idle, chain
<1>2. /\ \A h \in Hash : Unspent(h)' <=> Unspent(h)
      /\ \A h \in Hash : Offered(h)' => Offered(h)
  BY <1>1 DEF Unspent, InFlight, Offered
<1>3. /\ picked \subseteq Held(d) /\ picked \subseteq Owns(d) /\ picked \subseteq Hash
      /\ attempt[d].taken = {} /\ attempt[d].bundle = {} /\ attempt[d].back = {}
  BY <1>0, <1>1 DEF Held, Owns, UnspentInv, EmptyHanded, Calls, Pools, AttemptOK
<1>4. /\ attempt'[d].taken \subseteq picked
      /\ Withheld(d)' \subseteq attempt'[d].taken
      /\ attempt'[d].taken # {} => attempt'[d].stage = "query" /\ picked \subseteq standardPool.keys
      /\ attempt'[d].stage # "mining"
      /\ \A e \in Drivers \ {d} : attempt'[e] = attempt[e]
  <2>1. CASE picked \subseteq standardPool.keys
    <3>1. /\ attempt'[d].stage = "query" /\ attempt'[d].taken = picked
          /\ attempt'[d].bundle = attempt[d].bundle /\ attempt'[d].back = attempt[d].back
          /\ \A e \in Drivers \ {d} : attempt'[e] = attempt[e]
      BY <1>0, <2>1 DEF MarkTaken, Attempts
    <3> QED
      BY <1>1, <1>3, <2>1, <3>1 DEF Withheld, At
  <2>2. CASE ~(picked \subseteq standardPool.keys)
    BY <1>0, <1>1, <2>2 DEF MarkTaken, End, NoAttempt, Withheld, At
  <2> QED
    BY <2>1, <2>2
<1>5. \A h \in attempt'[d].taken : ~Offered(h)'
  <2>1. ASSUME picked \subseteq standardPool.keys, NEW h \in picked
        PROVE  entryStatus'[h] = "bundling"
    BY <1>3, <2>1 DEF MarkTaken, Mark, StatusSet
  <2> QED
    BY <1>4, <2>1 DEF Offered
<1> HIDE DEF picked
<1>6. ASSUME NEW e \in Drivers, e # d
      PROVE  /\ Held(e)' = Held(e) /\ Withheld(e)' = Withheld(e) /\ Owns(e)' = Owns(e)
             /\ EmptyHanded(e)' = EmptyHanded(e) /\ ~At(e, "mark")'
  BY <1>0, <1>1, <1>4, <1>6 DEF Held, At, Withheld, Owns, EmptyHanded, Under, PickedInv
<1>7. /\ Held(d)' \subseteq Held(d) /\ Owns(d)' \subseteq Owns(d) /\ EmptyHanded(d)'
      /\ ~At(d, "mark")'
  <2>1. Held(d)' = attempt'[d].taken /\ Owns(d)' = Withheld(d)' /\ ~At(d, "mark")'
    BY <1>1 DEF Held, Owns, At
  <2>2. attempt'[d].taken \subseteq Held(d) /\ attempt'[d].taken \subseteq Owns(d)
    BY <1>3, <1>4
  <2> QED
    BY <1>4, <2>1, <2>2 DEF EmptyHanded, Under
<1>8. \A q \in Proc, h \in Hash : Admitting(q, h)' => Admitting(q, h)
  BY <1>1 DEF Admitting
<1>9. \A h \in Hash : Kept(h)' => Kept(h)
  <2>1. ASSUME NEW h \in Hash, NEW q \in Proc, At(q, "setStatus")', call'[q].old = h
        PROVE  At(q, "setStatus") /\ call[q].old = h
    BY <1>1, <2>1 DEF At
  <2>2. ASSUME NEW h \in Hash, NEW e \in Drivers, h \in Held(e)'
        PROVE  h \in Held(e)
    BY <1>6, <1>7, <2>2
  <2> QED
    BY <1>1, <2>1, <2>2 DEF Kept, At
<1>10. \A q \in Proc, h \in Hash \ resent' : AddsAfresh(q, h)'
  BY <1>2, <1>8, <1>9 DEF UnspentInv, AddsAfresh
<1>11. \A q \in Proc : UpdatesWell(q)'
  BY <1>1, <1>4 DEF UnspentInv, UpdatesWell, At
<1>12. ASSUME NEW e \in Drivers
       PROVE  EmptyHanded(e)' /\ HoldsUnspent(e)'
  <2>1. EmptyHanded(e) /\ HoldsUnspent(e)
    BY DEF UnspentInv
  <2>2. Owns(e) \subseteq Hash /\ Withheld(e) \subseteq Hash
    BY <1>k
  <2>3. CASE e = d
    <3>1. \A h \in Owns(d)' \ resent' : Unspent(h)'
      BY <1>1, <1>2, <1>7, <2>1, <2>2, <2>3 DEF HoldsUnspent
    <3>2. \A h \in Withheld(d)' : ~Offered(h)'
      BY <1>4, <1>5
    <3> QED
      BY <1>7, <2>3, <3>1, <3>2 DEF HoldsUnspent
  <2>4. CASE e # d
    <3>1. attempt'[e] = attempt[e]
      BY <1>4, <2>4
    <3> QED
      BY <1>2, <1>6, <2>1, <2>2, <2>4, <3>1 DEF HoldsUnspent
  <2> QED
    BY <2>3, <2>4
<1>13. ASSUME NEW e \in Drivers, NEW f \in Drivers, e # f
       PROVE  Owns(e)' \cap Owns(f)' \subseteq resent'
  <2>1. Owns(e)' \subseteq Owns(e) /\ Owns(f)' \subseteq Owns(f)
    BY <1>6, <1>7
  <2> QED
    BY <1>13, <2>1 DEF UnspentInv
<1> QED
  BY <1>1, <1>2, <1>10, <1>11, <1>12, <1>13 DEF UnspentInv

(* What is broadcast no other attempt has in hand, and it is neither       *)
(* offered nor added.                                                      *)
LEMMA UnspentBroadcast ==
    ASSUME BundlerInv, PickedInv, UnspentInv, NEW d \in Drivers, Broadcast(d),
           resent' = resent
    PROVE  UnspentInv'
<1> DEFINE bundle == attempt[d].bundle
<1>0. /\ attempt \in [Drivers -> Attempts] /\ call \in [Proc -> Calls]
      /\ \A e \in Drivers : e \in Proc
      /\ bundle \subseteq Withheld(d) /\ bundle \subseteq Owns(d)
  BY BundlerAssumption DEF BundlerInv, TypeInv, MempoolTypeOK, Withheld, Owns
<1>k. /\ \A e \in Drivers : \A h \in Owns(e) : h \in Hash /\ Kept(h)
      /\ \A e \in Drivers : \A h \in Withheld(e) : h \in Owns(e)
  BY OwnsKept DEF Owns
<1>1. /\ At(d, "idle") /\ attempt[d].stage = "settling"
      /\ UNCHANGED <<standardPool, entryStatus, call, executed>>
      /\ flight' = flight \cup {bundle}
  BY DEF Broadcast, ReadyToSend, Stage, NoChange, vars, mempoolVars, poolVars
<1>2. /\ attempt'[d].stage = "mining" /\ attempt'[d].bundle = bundle
      /\ attempt'[d].back = attempt[d].back /\ attempt'[d].taken = attempt[d].taken
      /\ \A e \in Drivers \ {d} : attempt'[e] = attempt[e]
  BY <1>0 DEF Broadcast, GotoStage, Attempts
<1>3. /\ \A h \in Hash : h \notin bundle /\ Unspent(h) => Unspent(h)'
      /\ \A h \in Hash : Offered(h)' <=> Offered(h)
  BY <1>1 DEF Unspent, InFlight, Offered
<1>4. ASSUME NEW e \in Drivers
      PROVE  /\ Held(e)' = Held(e) /\ Withheld(e)' = Withheld(e) /\ Owns(e)' = Owns(e)
             /\ EmptyHanded(e)'
  <2>1. CASE e = d
    BY <1>1, <1>2, <2>1 DEF Held, Withheld, Owns, EmptyHanded, At, Under
  <2>2. CASE e # d
    <3>1. attempt'[e] = attempt[e] /\ call'[e] = call[e] /\ EmptyHanded(e)
      BY <1>1, <1>2, <2>2 DEF UnspentInv
    <3> QED
      BY <3>1 DEF Held, Withheld, Owns, EmptyHanded, At, Under
  <2> QED
    BY <2>1, <2>2
<1>5. \A h \in Hash : Kept(h)' <=> Kept(h)
  BY <1>1, <1>4 DEF Kept, At
<1>b. bundle \cap InFlight \subseteq resent
  BY <1>0, <1>1 DEF UnspentInv, HoldsUnspent, Unspent
<1>h. \A h \in bundle : h \in Hash /\ Kept(h)
  BY <1>0, <1>k
<1> HIDE DEF bundle
<1>6. ASSUME NEW q \in Proc, NEW h \in Hash \ resent
      PROVE  AddsAfresh(q, h)'
  <2>1. CASE Admitting(q, h)
    <3>1. Unspent(h) /\ ~Kept(h) /\ \A r \in Proc \ {q} : ~Admitting(r, h)
      BY <2>1 DEF UnspentInv, AddsAfresh
    <3>2. h \notin bundle
      BY <1>h, <3>1
    <3> QED
      BY <1>1, <1>3, <1>5, <3>1, <3>2 DEF AddsAfresh, Admitting
  <2>2. CASE ~Admitting(q, h)
    BY <1>1, <2>2 DEF AddsAfresh, Admitting
  <2> QED
    BY <2>1, <2>2
<1>7. ASSUME NEW h \in Hash \ resent, Offered(h)'
      PROVE  Unspent(h)'
  BY <1>0, <1>3, <1>7 DEF UnspentInv, HoldsUnspent
<1>8. ASSUME NEW q \in Proc
      PROVE  UpdatesWell(q)'
  <2>1. UpdatesWell(q) /\ (q = d => At(q, "idle"))
    BY <1>1 DEF UnspentInv
  <2> QED
    BY <1>1, <1>2, <2>1 DEF UpdatesWell, At
<1>9. ASSUME NEW e \in Drivers
      PROVE  HoldsUnspent(e)'
  <2>1. HoldsUnspent(e)
    BY DEF UnspentInv
  <2>2. \A h \in Withheld(e)' \ resent' : ~Offered(h)'
    BY <1>3, <1>4, <1>k, <2>1 DEF HoldsUnspent
  <2>3. At(e, "mark")' => \A h \in call'[e].picked.keys \ resent' : entryStatus'[h] = "pending"
    BY <1>1, <2>1 DEF HoldsUnspent, At
  <2>4. ASSUME attempt'[e].stage # "mining", NEW h \in Owns(e)' \ resent'
        PROVE  Unspent(h)'
    <3>1. e # d /\ attempt[e].stage # "mining" /\ h \in Owns(e) /\ h \notin resent
      BY <1>2, <1>4, <2>4
    <3>2. h \notin bundle
      BY <1>0, <3>1 DEF UnspentInv
    <3> QED
      BY <1>3, <1>k, <2>1, <3>1, <3>2 DEF HoldsUnspent
  <2> QED
    BY <2>2, <2>3, <2>4 DEF HoldsUnspent
<1>10. ASSUME NEW e \in Drivers, NEW f \in Drivers, e # f
       PROVE  Owns(e)' \cap Owns(f)' \subseteq resent'
  BY <1>4, <1>10 DEF UnspentInv
<1>11. ASSUME NEW s \in flight', NEW t \in flight', s # t
       PROVE  s \cap t \subseteq resent'
  <2>1. \A u \in flight : u \cap bundle \subseteq resent
    BY <1>b DEF InFlight
  <2> QED
    BY <1>1, <1>11, <2>1 DEF UnspentInv
<1> QED
  BY <1>4, <1>6, <1>7, <1>8, <1>9, <1>10, <1>11 DEF UnspentInv

(* What is mined was in flight.                                            *)
LEMMA UnspentMine ==
    ASSUME BundlerInv, UnspentInv, NEW bundle \in flight, Mine(bundle)
    PROVE  UnspentInv'
<1>1. /\ UNCHANGED <<standardPool, entryStatus, call, attempt, resent>>
      /\ flight' = flight \ {bundle} /\ bundle \subseteq Hash
      /\ \A h \in Hash : executed[h] # "none" => executed'[h] # "none"
      /\ \A h \in Hash \ bundle : executed'[h] = executed[h]
  BY MineStep DEF mempoolVars, poolVars
<1>2. \A h \in Hash : Unspent(h) => Unspent(h)'
  BY <1>1 DEF Unspent, InFlight
<1>3. \A d \in Drivers : /\ Owns(d)' = Owns(d) /\ Withheld(d)' = Withheld(d)
                       /\ Held(d)' = Held(d) /\ EmptyHanded(d)' = EmptyHanded(d)
                       /\ Owns(d) \subseteq Hash
  BY <1>1, OwnsKept DEF Owns, Withheld, Held, EmptyHanded, Under, At
<1>4. /\ \A h : Kept(h)' = Kept(h)
      /\ \A h : Offered(h)' = Offered(h)
      /\ \A q \in Proc : \A h : Admitting(q, h)' = Admitting(q, h)
  BY <1>1, <1>3 DEF Kept, Offered, Admitting, At
<1>5. \A q \in Proc, h \in Hash \ resent' : AddsAfresh(q, h)'
  BY <1>1, <1>2, <1>4 DEF UnspentInv, AddsAfresh
<1>6. \A d \in Drivers : EmptyHanded(d)' /\ HoldsUnspent(d)'
  BY <1>1, <1>2, <1>3, <1>4 DEF UnspentInv, HoldsUnspent, At
<1>7. ASSUME NEW q \in Proc
      PROVE  UpdatesWell(q)'
  <2>1. At(q, "setStatus") => call[q].old \in Hash
    BY DEF BundlerInv, TypeInv, CallOK, At
  <2> QED
    BY <1>1, <2>1 DEF UnspentInv, UpdatesWell, At
<1> QED
  BY <1>1, <1>2, <1>3, <1>4, <1>5, <1>6, <1>7 DEF UnspentInv

(* The other steps of an attempt let nothing go that was withheld.         *)
LEMMA EndRetains ==
    ASSUME BundlerInv, NEW d \in Drivers, NEW keeping, End(d, keeping), At(d, "idle"),
           UNCHANGED call
    PROVE  Retains(d)
<1>1. attempt'[d] = NoAttempt /\ ~At(d, "setStatus") /\ ~At(d, "setStatus")'
  BY DEF End, BundlerInv, At
<1> QED
  BY <1>1 DEF NoAttempt, Retains, Withheld, EmptyHanded

LEMMA StageRetains ==
    ASSUME NEW d \in Drivers, attempt'[d].taken = attempt[d].taken,
           attempt'[d].bundle = attempt[d].bundle, attempt'[d].back \subseteq attempt[d].back,
           attempt[d].stage # "mining", At(d, "idle"),
           attempt'[d].stage \notin {"idle", "waiting", "marking", "query"},
           attempt'[d].stage = "building" => attempt[d].stage \in {"query", "building"},
           At(d, "setStatus")' /\ call'[d].status = "pending" => call'[d].old \in attempt[d].back
    PROVE  Retains(d)
<1>1. ~At(d, "setStatus")
  BY DEF At
<1> QED
  BY <1>1 DEF Retains, Withheld, EmptyHanded, Under

LEMMA DriverUnspent ==
    ASSUME BundlerInv, OwnedInv, PickedInv, UnspentInv,
           NEW d \in Drivers, Acts(d)
    PROVE  UnspentInv'
<1>0. /\ attempt \in [Drivers -> Attempts] /\ call \in [Proc -> Calls] /\ d \in Proc
      /\ AttemptOK(attempt[d]) /\ standardPool.keys \subseteq Hash
  BY BundlerAssumption DEF BundlerInv, TypeInv, MempoolTypeOK, Pools
<1>a. \A e \in Drivers \ {d} : attempt'[e] = attempt[e]
  BY DriverStep DEF OwnAttempt
<1>r. resent' = resent
  BY DEF Acts, AttemptStep, WaitEnds
<1>n. At(d, "idle") /\ UNCHANGED mempoolVars => UpdatesWell(d)' /\ NotesResent(d)
  BY <1>r DEF At, UpdatesWell, NotesResent, Admitting, mempoolVars
<1>i. ASSUME At(d, "idle"), UNCHANGED mempoolVars, chain' = chain, Retains(d)
      PROVE  UnspentInv'
  <2>1. Touches(d) /\ UpdatesWell(d)' /\ NotesResent(d)
    BY <1>0, <1>i, <1>n, TouchesIdly
  <2> QED
    BY <1>0, <1>a, <1>i, <2>1, UnspentIfTouched DEF Retains
<1>h. ASSUME Handling(d), chain' = chain, Retains(d), UpdatesWell(d)'
      PROVE  UnspentInv'
  <2>1. Touches(d) /\ NotesResent(d)
    BY <1>0, <1>h, <1>r, HandlingTouches DEF NotesResent
  <2> QED
    BY <1>0, <1>a, <1>h, <2>1, UnspentIfTouched DEF Retains
<1>1. CASE BeginWithNothing(d) \/ WaitEnds(d) \/ SendFails(d) \/ EndAfterRevert(d)
             \/ AttemptFails(d)
  <2>1. /\ At(d, "idle") /\ UNCHANGED mempoolVars /\ chain' = chain
        /\ \E keeping : End(d, keeping)
    BY <1>1 DEF BeginWithNothing, MayBegin, WaitEnds, SendFails, ReadyToSend, EndAfterRevert,
       AttemptFails, Stage, NoChange, vars
  <2>2. UNCHANGED call
    BY <2>1 DEF mempoolVars
  <2> QED
    BY <1>i, <2>1, <2>2, EndRetains
<1>2. CASE QueryEvents(d) \/ Penalize(d)
  <2>1. /\ At(d, "idle") /\ UNCHANGED mempoolVars /\ chain' = chain
        /\ attempt'[d].taken = attempt[d].taken /\ attempt'[d].bundle = attempt[d].bundle
        /\ attempt'[d].back = attempt[d].back
        /\ \/ attempt[d].stage = "query" /\ attempt'[d].stage = "building"
           \/ attempt[d].stage = "penalty" /\ attempt'[d].stage = "evicting"
    <3>1. CASE QueryEvents(d)
      BY <1>0, <3>1 DEF QueryEvents, Stage, NoChange, vars, Attempts
    <3>2. CASE Penalize(d)
      BY <1>0, <3>2 DEF Penalize, GotoStage, Stage, Attempts
    <3> QED
      BY <1>2, <3>1, <3>2
  <2>2. ~At(d, "setStatus")'
    BY <2>1 DEF At, mempoolVars
  <2>3. Retains(d)
    BY <2>1, <2>2, StageRetains
  <2> QED
    BY <1>i, <2>1, <2>3
<1>3. CASE CreateBundle(d)
  <2>a. PICK bundle \in SUBSET attempt[d].taken :
          \E doomed \in SUBSET (attempt[d].taken \ bundle) :
          \E cleared \in SUBSET {h \in doomed : Sponsored(h)} :
            attempt' = [attempt EXCEPT ![d].stage = "settling", ![d].bundle = bundle,
                                       ![d].back = LeftOut(attempt[d].taken, bundle, doomed),
                                       ![d].doomed = doomed, ![d].cleared = cleared]
    BY <1>3 DEF CreateBundle
  <2>1. /\ attempt'[d].taken = attempt[d].taken /\ attempt'[d].bundle = bundle
        /\ attempt'[d].stage = "settling" /\ attempt'[d].back \subseteq attempt[d].taken
    BY <1>0, <2>a DEF Attempts, LeftOut
  <2>2. /\ attempt[d].stage = "building" /\ At(d, "idle")
        /\ UNCHANGED mempoolVars /\ chain' = chain
    BY <1>3 DEF CreateBundle, Stage, NoChange, vars
  <2>3. ~At(d, "setStatus") /\ ~At(d, "setStatus")'
    BY <2>2 DEF At, mempoolVars
  <2>4. Retains(d)
    BY <2>1, <2>2, <2>3 DEF Retains, Withheld, EmptyHanded, Under
  <2> QED
    BY <1>i, <2>2, <2>4
<1>4. ASSUME NEW h \in Hash, ClearPaymaster(d, h) \/ SendReverts(d, h)
      PROVE  UnspentInv'
  <2>1. /\ At(d, "idle") /\ UNCHANGED mempoolVars /\ chain' = chain
    BY <1>4 DEF ClearPaymaster, SendReverts, ReadyToSend, Stage, NoChange, vars
  <2>2. /\ attempt'[d].taken = attempt[d].taken /\ attempt'[d].bundle = attempt[d].bundle
        /\ attempt'[d].stage \in {"settling", "banning", "evicting"}
        /\ attempt'[d].back = attempt[d].back /\ attempt[d].stage = "settling"
    <3>1. CASE ClearPaymaster(d, h)
      BY <1>0, <3>1 DEF ClearPaymaster, Stage, Attempts
    <3>2. CASE SendReverts(d, h)
      <4>1. PICK culprit \in Accountable(h) :
              attempt' = [attempt EXCEPT ![d].failed = h, ![d].culprit = culprit,
                            ![d].stage = IF culprit = None THEN "evicting" ELSE "banning"]
        BY <3>2 DEF SendReverts
      <4>2. attempt[d].stage = "settling"
        BY <3>2 DEF SendReverts, ReadyToSend, Stage
      <4> QED
        BY <1>0, <4>1, <4>2 DEF Attempts
    <3> QED
      BY <1>4, <3>1, <3>2
  <2>3. ~At(d, "setStatus")'
    BY <2>1 DEF At, mempoolVars
  <2>4. Retains(d)
    BY <2>1, <2>2, <2>3, StageRetains
  <2> QED
    BY <1>i, <2>1, <2>4
<1>5. ASSUME NEW h \in Hash, HandlePastEvent(d, h)
      PROVE  UnspentInv'
  <2>1. /\ At(d, "idle") /\ chain' = chain
        /\ attempt'[d].taken = attempt[d].taken /\ attempt'[d].bundle = attempt[d].bundle
        /\ attempt'[d].back = attempt[d].back
        /\ attempt[d].stage = "building" /\ attempt'[d].stage = "building"
    BY <1>0, <1>5 DEF HandlePastEvent, Stage, Attempts
  <2>2. At(d, "setStatus")' => call'[d].status # "pending"
    <3>1. CASE UNCHANGED mempoolVars
      BY <2>1, <3>1 DEF At, mempoolVars
    <3>2. CASE RemoveByHash(d, h)
      BY <1>0, <3>2 DEF RemoveByHash, FoundForRemoval, Idle, At
    <3>3. CASE ReadEntry(d, h, "failed")
      BY <1>0, <3>3 DEF ReadEntry, Idle
    <3> QED
      BY <1>5, <3>1, <3>2, <3>3 DEF HandlePastEvent, HandleEvent, FailedStatus, NoChange, vars
  <2>3. Retains(d)
    BY <2>1, <2>2, StageRetains
  <2>4. \/ UNCHANGED mempoolVars
        \/ RemoveByHash(d, h)
        \/ executed[h] = "revert" /\ ReadEntry(d, h, "failed")
    BY <1>5 DEF HandlePastEvent, HandleEvent, FailedStatus, NoChange, vars
  <2>5. RemoveByHash(d, h) => Handling(d) /\ UpdatesWell(d)'
    BY <1>0 DEF RemoveByHash, FoundForRemoval, Handling, Idle, UpdatesWell, At
  <2>6. executed[h] = "revert" /\ ReadEntry(d, h, "failed") => Handling(d) /\ UpdatesWell(d)'
    BY <1>0, <2>1 DEF ReadEntry, Handling, Idle, UpdatesWell, chain, At
  <2> QED
    BY <1>h, <1>i, <2>1, <2>3, <2>4, <2>5, <2>6
<1>6. ASSUME NEW h \in Hash, GiveBack(d, h) \/ Evict(d, h)
      PROVE  UnspentInv'
  <2>1. /\ At(d, "idle") /\ chain' = chain
        /\ attempt'[d].taken = attempt[d].taken /\ attempt'[d].bundle = attempt[d].bundle
        /\ attempt'[d].back \subseteq attempt[d].back
        /\ attempt[d].stage = "settling" /\ attempt'[d].stage = "settling"
    BY <1>0, <1>6 DEF GiveBack, Evict, Stage, Attempts
  <2>2. ASSUME ~At(d, "setStatus")' PROVE Retains(d)
    BY <2>1, <2>2, StageRetains
  <2>3. CASE UNCHANGED mempoolVars
    <3>1. ~At(d, "setStatus")'
      BY <2>1, <2>3 DEF At, mempoolVars
    <3> QED
      BY <1>i, <2>1, <2>2, <2>3, <3>1
  <2>4. CASE RemoveByHash(d, h)
    <3>1. Handling(d) /\ UpdatesWell(d)' /\ ~At(d, "setStatus")'
      BY <1>0, <2>4 DEF RemoveByHash, FoundForRemoval, Handling, Idle, UpdatesWell, At
    <3> QED
      BY <1>h, <2>1, <2>2, <3>1
  <2>5. CASE GiveBack(d, h) /\ ReadEntry(d, h, "pending")
    <3>1. /\ h \in attempt[d].taken \ attempt[d].bundle /\ h \in attempt[d].back
          /\ attempt'[d].back = attempt[d].back \ {h}
      BY <1>0, <2>5 DEF GiveBack, AttemptOK, Attempts
    <3>2. Handling(d) /\ call'[d].old = h /\ call'[d].status = "pending"
      BY <1>0, <2>5 DEF ReadEntry, Handling, Idle
    <3>3. UpdatesWell(d)'
      BY <2>1, <3>1, <3>2 DEF UpdatesWell
    <3>4. Retains(d)
      BY <2>1, <3>1, <3>2, StageRetains
    <3> QED
      BY <1>h, <2>1, <3>2, <3>3, <3>4
  <2> QED
    BY <1>6, <2>3, <2>4, <2>5 DEF GiveBack, Evict, NoChange, vars
<1>7. CASE Ban(d) \/ EvictFailed(d)
  <2>1. /\ At(d, "idle") /\ chain' = chain
        /\ attempt'[d].taken = attempt[d].taken /\ attempt'[d].bundle = attempt[d].bundle
        /\ attempt'[d].back = attempt[d].back
        /\ attempt[d].stage \in {"banning", "evicting"}
        /\ attempt'[d].stage \in {"penalty", "ending"}
    BY <1>0, <1>7 DEF Ban, EvictFailed, GotoStage, Stage, Attempts
  <2>2. \/ UNCHANGED mempoolVars
        \/ \E h \in Hash : RemoveByHash(d, h)
        \/ \E a \in Address : BanSelect(d, a)
    BY <1>0, <1>7 DEF Ban, EvictFailed, RemoveByUserOp, RemoveByHash, AttemptOK, Stage,
       NoChange, vars
  <2>3. ASSUME \/ \E h \in Hash : RemoveByHash(d, h)
               \/ \E a \in Address : BanSelect(d, a)
        PROVE  Handling(d) /\ UpdatesWell(d)' /\ ~At(d, "setStatus")'
    BY <1>0, <2>3, ZenonT(60) DEF RemoveByHash, FoundForRemoval, BanSelect, Handling, Idle,
       UpdatesWell, At
  <2>4. UNCHANGED mempoolVars => ~At(d, "setStatus")'
    BY <2>1 DEF At, mempoolVars
  <2>5. Retains(d)
    BY <2>1, <2>2, <2>3, <2>4, StageRetains
  <2> QED
    BY <1>h, <1>i, <2>1, <2>2, <2>3, <2>5
<1>8. CASE FinishCall(d) /\ UNCHANGED bundlerVars
  <2>1. /\ Handling(d) /\ chain' = chain /\ attempt' = attempt
    BY <1>8 DEF Handling, bundlerVars
  <2>2. call'[d].pc = "idle"
    BY <1>0, <1>8 DEF FinishCall, Remove, SetStatus, BanRemove, Idle
  <2>3. ~At(d, "setStatus")' /\ UpdatesWell(d)'
    BY <2>2 DEF UpdatesWell, At
  <2>4. EmptyHanded(d) /\ UpdatesWell(d)
    BY <1>0 DEF UnspentInv
  <2>5. EmptyHanded(d)' /\ Withheld(d)' \subseteq Withheld(d)
    BY <2>1, <2>3, <2>4 DEF EmptyHanded, Under, Withheld
  <2>6. At(d, "setStatus") /\ call[d].status = "pending" => call[d].old \notin Withheld(d)'
    BY <2>1, <2>3, <2>4 DEF UpdatesWell, Withheld
  <2>7. Retains(d)
    BY <2>1, <2>5, <2>6 DEF Retains
  <2> QED
    BY <1>h, <2>1, <2>3, <2>7
<1> QED
  BY <1>1, <1>2, <1>3, <1>4, <1>5, <1>6, <1>7, <1>8, <1>r, UnspentBegin, UnspentMark,
     UnspentBroadcast DEF Acts, AttemptStep

LEMMA UnspentInvStep ==
    BundlerInv /\ OwnedInv /\ PickedInv /\ UnspentInv /\ [BundlerNext]_allVars => UnspentInv'
<1> SUFFICES ASSUME BundlerInv, OwnedInv, PickedInv, UnspentInv, [BundlerNext]_allVars
             PROVE  UnspentInv'
  OBVIOUS
<1>u. ASSUME UNCHANGED <<mempoolVars, attempt, chain, resent>>
      PROVE  UnspentInv'
  <2>1. UNCHANGED <<standardPool, entryStatus, call, executed, flight>>
    BY <1>u DEF mempoolVars, poolVars, chain
  <2>2. \A d \in Drivers :
          /\ Owns(d)' = Owns(d) /\ Withheld(d)' = Withheld(d) /\ Held(d)' = Held(d)
          /\ EmptyHanded(d)' = EmptyHanded(d)
    BY <1>u, <2>1 DEF Owns, Withheld, Held, EmptyHanded, Under, At
  <2>3. /\ \A h : Kept(h)' = Kept(h)
        /\ \A h : Offered(h)' = Offered(h)
        /\ \A h : Unspent(h)' = Unspent(h)
        /\ \A q \in Proc : \A h : Admitting(q, h)' = Admitting(q, h)
    BY <2>1, <2>2 DEF Kept, Offered, Unspent, InFlight, Admitting, At
  <2>4. /\ \A q \in Proc, h \in Hash \ resent' : AddsAfresh(q, h)'
        /\ \A q \in Proc : UpdatesWell(q)'
    BY <1>u, <2>1, <2>3 DEF UnspentInv, AddsAfresh, UpdatesWell, At
  <2>5. \A d \in Drivers : EmptyHanded(d)' /\ HoldsUnspent(d)'
    BY <1>u, <2>1, <2>2, <2>3 DEF UnspentInv, HoldsUnspent, At
  <2> QED
    BY <1>u, <2>1, <2>2, <2>3, <2>4, <2>5 DEF UnspentInv
<1>1. CASE UNCHANGED allVars
  BY <1>1, <1>u DEF allVars, vars, bundlerVars
<1>2. CASE SetBundlingMode
  BY <1>u, <1>2 DEF SetBundlingMode, vars
<1>3. ASSUME NEW d \in Drivers, Fire(d)
      PROVE  UnspentInv'
  <2>1. /\ attempt[d].stage = "idle" /\ At(d, "idle") /\ chain' = chain
        /\ attempt'[d].stage = "waiting" /\ attempt'[d].taken = attempt[d].taken
        /\ attempt'[d].bundle = attempt[d].bundle /\ attempt'[d].back = attempt[d].back
        /\ UNCHANGED <<mempoolVars, resent>>
        /\ \A e \in Drivers \ {d} : attempt'[e] = attempt[e] /\ d \in Proc
    BY <1>3, BundlerAssumption DEF Fire, Stage, GotoStage, NoChange, vars, BundlerInv, Attempts
  <2>2. ~At(d, "setStatus") /\ ~At(d, "setStatus")' /\ EmptyHanded(d) /\ d \in Proc
    BY <2>1, BundlerAssumption DEF At, mempoolVars, UnspentInv
  <2>3. Retains(d)
    BY <2>1, <2>2 DEF Retains, Withheld, EmptyHanded, Under
  <2>4. UpdatesWell(d)' /\ NotesResent(d)
    BY <2>1, <2>2 DEF UpdatesWell, NotesResent, Admitting, mempoolVars
  <2> QED
    BY <2>1, <2>2, <2>3, <2>4, TouchesIdly, UnspentIfTouched
<1>4. ASSUME NEW d \in Drivers, Acts(d)
      PROVE  UnspentInv'
  BY <1>4, DriverUnspent
<1>5. ASSUME NEW p \in Proc \ Drivers, Touches(p), NotesResent(p), UNCHANGED bundlerVars,
             UpdatesWell(p)'
      PROVE  UnspentInv'
  BY <1>5, UnspentIfTouched DEF bundlerVars
<1>6. ASSUME NEW p \in Listener, ListenerStep(p)
      PROVE  UnspentInv'
  <2>1. p \in Proc \ Drivers /\ Handling(p) /\ UNCHANGED <<bundlerVars, resent>>
    BY <1>6, BundlerAssumption DEF ListenerStep, Listen, HandleEvent, FailedStatus, Handling
  <2>2. call \in [Proc -> Calls] /\ chain' = chain
    BY <2>1 DEF BundlerInv, TypeInv, MempoolTypeOK, bundlerVars
  <2>3. UpdatesWell(p)'
    <3>1. ASSUME NEW h \in Hash, RemoveByHash(p, h) PROVE call'[p].pc = "remove"
      BY <2>1, <2>2, <3>1 DEF RemoveByHash, FoundForRemoval, Idle
    <3>2. ASSUME NEW h \in Hash, executed[h] = "revert", ReadEntry(p, h, "failed")
          PROVE  UpdatesWell(p)'
      BY <2>1, <2>2, <3>2 DEF ReadEntry, Idle, UpdatesWell, chain
    <3>3. ASSUME FinishCall(p) PROVE call'[p].pc = "idle"
      BY <2>1, <2>2, <3>3 DEF FinishCall, Remove, SetStatus, BanRemove, Idle
    <3>4. call'[p].pc # "setStatus" => UpdatesWell(p)'
      BY DEF UpdatesWell, At
    <3> QED
      BY <1>6, <3>1, <3>2, <3>3, <3>4 DEF ListenerStep, Listen, HandleEvent, FailedStatus
  <2>4. NotesResent(p)
    BY <2>1, HandlingTouches DEF NotesResent
  <2> QED
    BY <1>5, <2>1, <2>3, <2>4, HandlingTouches
<1>7. ASSUME NEW p \in Proc \ (Drivers \cup Listener), UserStep(p)
      PROVE  UnspentInv'
  <2>1. /\ AddStep(p) /\ UNCHANGED bundlerVars
        /\ resent' = resent \cup {h \in Hash : AddUserOp(p, h) /\ InHand(h)}
    BY <1>7 DEF UserStep
  <2>2. /\ Touches(p) /\ ~At(p, "setStatus")'
        /\ \A h \in Hash : Admitting(p, h)' /\ ~Admitting(p, h) => At(p, "idle")
    BY <2>1, AddingTouches
  <2>3. ASSUME NEW h \in Hash \ resent', Admitting(p, h)', ~Admitting(p, h)
        PROVE  Unspent(h) /\ ~InHand(h)
    <3>1. PICK g \in Offers[p] : NonceIsFree(g) /\ AddUserOp(p, g)
      BY <1>7, <2>2, <2>3 DEF UserStep
    <3>2. g = h
      BY <2>3, <3>1 DEF AddUserOp, Idle, Admitting, BundlerInv, TypeInv, MempoolTypeOK
    <3> QED
      BY <2>1, <3>1, <3>2 DEF NonceIsFree, Executed, SameSlot, Unspent, InHand
  <2>4. UpdatesWell(p)' /\ NotesResent(p)
    BY <2>1, <2>2, <2>3 DEF UpdatesWell, NotesResent
  <2> QED
    BY <1>5, <2>1, <2>2, <2>4
<1>8. ASSUME NEW bundle \in flight, Mine(bundle)
      PROVE  UnspentInv'
  BY <1>8, UnspentMine
<1> QED
  BY <1>1, <1>2, <1>3, <1>4, <1>6, <1>7, <1>8 DEF BundlerNext, Acts

LEMMA UnspentInvInit == BundlerInit => UnspentInv
<1> SUFFICES ASSUME BundlerInit PROVE UnspentInv
  OBVIOUS
<1>1. /\ standardPool.keys = {} /\ \A p \in Proc : call[p].pc = "idle"
      /\ flight = {}
      /\ \A d \in Drivers : /\ d \in Proc /\ attempt[d].taken = {} /\ attempt[d].bundle = {}
                            /\ attempt[d].back = {}
  BY BundlerAssumption DEF BundlerInit, MempoolInit, EmptyPool, Idle, NoAttempt
<1>2. \A d \in Drivers : Owns(d) = {} /\ Withheld(d) = {} /\ EmptyHanded(d)
  BY <1>1 DEF Owns, Withheld, EmptyHanded, At
<1> QED
  BY <1>1, <1>2 DEF UnspentInv, AddsAfresh, Admitting, HoldsUnspent, UpdatesWell, Offered, At

LEMMA UnspentInvHolds == BundlerSpec => [](BundlerInv /\ OwnedInv /\ PickedInv /\ UnspentInv)
<1>1. BundlerInit => BundlerInv /\ OwnedInv /\ PickedInv /\ UnspentInv
  BY BundlerInvInit, OwnedInvInit, PickedInvInit, UnspentInvInit
<1>2. BundlerInv /\ OwnedInv /\ PickedInv /\ UnspentInv /\ [BundlerNext]_allVars
        => BundlerInv' /\ OwnedInv' /\ PickedInv' /\ UnspentInv'
  BY BundlerInvStep, OwnedInvStep, PickedInvStep, UnspentInvStep
<1> QED
  BY <1>1, <1>2, PTL DEF BundlerSpec

(* An operation that reverted on the chain is not offered again, for any   *)
(* number of callbacks, forced bundles, listeners and users, whatever      *)
(* replaces what, and however late transactions are mined and events come: *)
(* but for what was sent again while the bundler had it in hand.           *)
THEOREM BundlerRetriesNoRevert == BundlerSpec => []RevertedNotRetried
<1>1. BundlerInv /\ UnspentInv => RevertedNotRetried
  BY UnspentMeans
<1> QED
  BY <1>1, UnspentInvHolds, PTL

(* And no two transactions that may still be mined, nor two attempts, have *)
(* an operation in common, nor has one a transaction and an attempt yet to *)
(* send.                                                                   *)
THEOREM BundlerSendsOnce == BundlerSpec => []SentOnce
<1>1. BundlerInv /\ UnspentInv => SentOnce
  BY UnspentMeans
<1> QED
  BY <1>1, UnspentInvHolds, PTL

(* Nor does an event or another attempt come between the picking of an     *)
(* entry and its marking that makes an attempt take what is no longer      *)
(* pending.                                                                *)
THEOREM BundlerTakesPendingOnly == BundlerSpec => TakesPendingOnly
<1>1. BundlerInv /\ UnspentInv /\ [BundlerNext]_allVars
        => [\A d \in Drivers :
              attempt[d].stage = "marking" /\ attempt'[d].stage = "query" =>
                 \A h \in attempt'[d].taken \ resent : entryStatus[h] = "pending"]_allVars
  BY TakingPicked DEF UnspentInv, HoldsUnspent
<1> QED
  BY <1>1, UnspentInvHolds, PTL DEF BundlerSpec, TakesPendingOnly
=============================================================================
