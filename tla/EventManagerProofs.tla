-------------------------- MODULE EventManagerProofs --------------------------
(***************************************************************************)
(* Proofs about the event manager, for any chain, any number of attempts   *)
(* that handle past events at a time and any calls of the listener.        *)
(***************************************************************************)
EXTENDS EventManager, TLAPS

USE EventAssumption DEF UserOperationEvent, AccountDeployed, SignatureAggregatorChanged, Kinds

(* The handlers and what they may have in hand.                            *)
LEMMA HandlerFacts ==
    /\ Pass \subseteq Handler /\ Heard \subseteq Handler
    /\ Heard \subseteq UserOpEvents /\ UserOpEvents \subseteq Event
    /\ Pass \cap Heard = {}
BY DEF Handler, UserOpEvents, OfKind

(* The event under way is determined.                                      *)
LEMMA CurrentUnique ==
    ASSUME EventTypeOK, NEW h \in Handler, NEW e, NEW f, Current(h, e), Current(h, f)
    PROVE  e = f
<1>1. e \in Event /\ f \in Event /\ ~Before(e, f) /\ ~Before(f, e)
  BY DEF EventTypeOK, Current, Mined
<1> QED
  BY <1>1 DEF Before

-----------------------------------------------------------------------------
(* Types.                                                                  *)

LEMMA EventTypeInit == EventInit => EventTypeOK
BY HandlerFacts DEF EventInit, EventTypeOK, Stages, Fates, Mined

LEMMA NextEventType ==
    ASSUME EventTypeOK, NEW h \in Handler, NEW e \in todo[h], NextEvent(h, e), Mined' = Mined
    PROVE  /\ stage' \in [Handler -> Stages]
           /\ todo' \in [Handler -> SUBSET Mined']
           /\ \A g \in Handler : stage'[g] \in {"handle", "lookUp", "advance"} <=> todo'[g] # {}
           /\ \A d \in Pass : stage'[d] # "query" => waiting'[d] = Kinds /\ answer'[d] = {}
           /\ \A g \in Heard : todo'[g] \subseteq {g}
           /\ lastBlock' \in {None} \cup 1..(head' + 1)
<1>1. todo' = [todo EXCEPT ![h] = @ \ {e}]
  BY DEF NextEvent
<1>2. stage' = [stage EXCEPT ![h] = IF todo[h] = {e} THEN "idle" ELSE "handle"]
  BY DEF NextEvent
<1>3. todo' \in [Handler -> SUBSET Mined']
  BY <1>1 DEF EventTypeOK
<1>4. stage' \in [Handler -> Stages]
  BY <1>2 DEF EventTypeOK, Stages
<1>5. \A g \in Handler : stage'[g] \in {"handle", "lookUp", "advance"} <=> todo'[g] # {}
  BY <1>1, <1>2 DEF EventTypeOK
<1>6. \A d \in Pass : stage'[d] # "query" => waiting'[d] = Kinds /\ answer'[d] = {}
  <2>1. stage[h] # "query"
    BY DEF EventTypeOK
  <2> QED
    BY <1>2, <2>1, HandlerFacts DEF EventTypeOK, NextEvent, passVars
<1>7. \A g \in Heard : todo'[g] \subseteq {g}
  BY <1>1, HandlerFacts DEF EventTypeOK
<1>8. lastBlock' \in {None} \cup 1..(head' + 1)
  <2>1. e \in Event /\ Log[e].block \in 1..head
    BY DEF EventTypeOK, Mined, Block
  <2> QED
    BY <2>1 DEF NextEvent, Advanced, BlockNumber, EventTypeOK
<1> QED
  BY <1>3, <1>4, <1>5, <1>6, <1>7, <1>8

LEMMA MineType ==
    ASSUME EventTypeOK, Mine
    PROVE  EventTypeOK'
<1>1. head \in Nat /\ head' = head + 1 /\ head' \in 0..Height /\ Mined \subseteq Mined'
  BY DEF EventTypeOK, Mine, Mined, Block
<1>2. raced' \subseteq Mined'
  BY <1>1 DEF EventTypeOK, Mine, Mined, Block
<1>3. lastBlock' \in {None} \cup 1..(head' + 1) /\ from' \in [Pass -> 1..(head' + 1)]
  <2>1. 1..(head + 1) \subseteq 1..(head' + 1)
    BY <1>1
  <2> QED
    BY <2>1 DEF EventTypeOK, Mine, cursorVars, passVars
<1>4. /\ answer' \in [Pass -> SUBSET Mined']
      /\ todo' \in [Handler -> SUBSET Mined']
      /\ delivered' \subseteq Heard \cap Mined'
  BY <1>1 DEF EventTypeOK, Mine, passVars
<1> QED
  BY <1>1, <1>2, <1>3, <1>4 DEF EventTypeOK, Mine, cursorVars, passVars, effectVars

LEMMA DeliverType ==
    ASSUME EventTypeOK, NEW e \in Heard, Deliver(e)
    PROVE  EventTypeOK'
<1>1. Mined' = Mined /\ e \in Mined /\ e \in Handler /\ e \notin Pass
  BY HandlerFacts DEF Deliver, Mined
<1>2. /\ stage' \in [Handler -> Stages]
      /\ todo' \in [Handler -> SUBSET Mined']
      /\ \A g \in Handler : stage'[g] \in {"handle", "lookUp", "advance"} <=> todo'[g] # {}
      /\ \A g \in Heard : todo'[g] \subseteq {g}
  BY <1>1, HandlerFacts DEF EventTypeOK, Deliver, Stages
<1>3. \A d \in Pass : stage'[d] # "query" => waiting'[d] = Kinds /\ answer'[d] = {}
  BY <1>1, HandlerFacts DEF EventTypeOK, Deliver, passVars
<1> QED
  BY <1>1, <1>2, <1>3 DEF EventTypeOK, Deliver, cursorVars, passVars, effectVars

(* What the steps of a pass before it has its events leave alone.          *)
LEMMA BeginPassType ==
    ASSUME EventTypeOK, NEW d \in Pass, BeginPass(d)
    PROVE  EventTypeOK'
<1>1. Mined' = Mined /\ d \in Handler /\ stage[d] = "idle"
  BY HandlerFacts DEF BeginPass, Mined
<1>2. from' \in [Pass -> 1..(head' + 1)]
  BY DEF BeginPass, EventTypeOK
<1>3. /\ stage' \in [Handler -> Stages]
      /\ \A g \in Handler : stage'[g] \in {"handle", "lookUp", "advance"} <=> todo'[g] # {}
      /\ \A c \in Pass : stage'[c] # "query" => waiting'[c] = Kinds /\ answer'[c] = {}
  BY <1>1, HandlerFacts DEF BeginPass, EventTypeOK, Stages
<1> QED
  BY <1>1, <1>2, <1>3 DEF EventTypeOK, BeginPass, cursorVars, effectVars

LEMMA WindowStartType ==
    ASSUME EventTypeOK
    PROVE  WindowStart \in 1..(head + 1)
BY DEF EventTypeOK, WindowStart

LEMMA InitializeType ==
    ASSUME EventTypeOK, NEW d \in Pass, Initialize(d)
    PROVE  EventTypeOK'
<1>1. Mined' = Mined /\ d \in Handler /\ stage[d] = "initialize"
  BY HandlerFacts DEF Initialize, Mined
<1>2. from' \in [Pass -> 1..(head' + 1)] /\ lastBlock' \in {None} \cup 1..(head' + 1)
  BY WindowStartType DEF Initialize, EventTypeOK
<1>3. /\ stage' \in [Handler -> Stages]
      /\ \A g \in Handler : stage'[g] \in {"handle", "lookUp", "advance"} <=> todo'[g] # {}
      /\ \A c \in Pass : stage'[c] # "query" => waiting'[c] = Kinds /\ answer'[c] = {}
  BY <1>1, HandlerFacts DEF Initialize, EventTypeOK, Stages
<1> QED
  BY <1>1, <1>2, <1>3 DEF EventTypeOK, Initialize, effectVars

LEMMA AnswersType ==
    ASSUME EventTypeOK, NEW d \in Pass, NEW k \in Kinds
    PROVE  Answers(d, k) \subseteq Mined
BY DEF EventTypeOK, Answers, Found, OfKind, Mined

LEMMA AnswerType ==
    ASSUME EventTypeOK, NEW d \in Pass, NEW k \in Kinds, Answer(d, k)
    PROVE  EventTypeOK'
<1>1. Mined' = Mined /\ d \in Handler /\ stage[d] = "query"
  BY HandlerFacts DEF Answer, Mined
<1>2. /\ waiting' \in [Pass -> SUBSET Kinds]
      /\ answer' \in [Pass -> SUBSET Mined']
  BY <1>1, AnswersType DEF Answer, EventTypeOK
<1>3. \A c \in Pass : stage'[c] # "query" => waiting'[c] = Kinds /\ answer'[c] = {}
  BY <1>1 DEF Answer, EventTypeOK
<1> QED
  BY <1>1, <1>2, <1>3 DEF EventTypeOK, Answer, cursorVars, effectVars

(* A pass whose queries have ended has nothing waiting or answered.        *)
LEMMA LastAnswerType ==
    ASSUME EventTypeOK, NEW d \in Pass, NEW k \in Kinds, LastAnswer(d, k)
    PROVE  EventTypeOK'
<1>1. Mined' = Mined /\ d \in Handler /\ d \notin Heard /\ stage[d] = "query" /\ head \in Nat
  BY HandlerFacts DEF LastAnswer, Mined, EventTypeOK
<1>2. /\ waiting' \in [Pass -> SUBSET Kinds]
      /\ answer' \in [Pass -> SUBSET Mined']
      /\ from' \in [Pass -> 1..(head' + 1)]
  BY <1>1 DEF LastAnswer, EventTypeOK
<1>3. \A c \in Pass : stage'[c] # "query" => waiting'[c] = Kinds /\ answer'[c] = {}
  BY <1>1, HandlerFacts DEF LastAnswer, EventTypeOK
<1>4. /\ stage' \in [Handler -> Stages]
      /\ todo' \in [Handler -> SUBSET Mined']
      /\ \A g \in Heard : todo'[g] \subseteq {g}
  BY <1>1, AnswersType, HandlerFacts DEF LastAnswer, EventTypeOK, Stages
<1>5. \A g \in Handler : stage'[g] \in {"handle", "lookUp", "advance"} <=> todo'[g] # {}
  BY <1>1 DEF LastAnswer, EventTypeOK
<1> QED
  BY <1>1, <1>2, <1>3, <1>4, <1>5 DEF EventTypeOK, LastAnswer, cursorVars, effectVars

LEMMA QueryFailsType ==
    ASSUME EventTypeOK, NEW d \in Pass, QueryFails(d)
    PROVE  EventTypeOK'
<1>1. Mined' = Mined /\ d \in Handler /\ stage[d] \in {"initialize", "query"} /\ head \in Nat
  BY HandlerFacts DEF QueryFails, Mined, EventTypeOK
<1>2. /\ waiting' \in [Pass -> SUBSET Kinds]
      /\ answer' \in [Pass -> SUBSET Mined']
      /\ from' \in [Pass -> 1..(head' + 1)]
  BY <1>1 DEF QueryFails, EventTypeOK
<1>3. \A c \in Pass : stage'[c] # "query" => waiting'[c] = Kinds /\ answer'[c] = {}
  BY <1>1, HandlerFacts DEF QueryFails, EventTypeOK
<1>4. /\ stage' \in [Handler -> Stages]
      /\ \A g \in Handler : stage'[g] \in {"handle", "lookUp", "advance"} <=> todo'[g] # {}
  BY <1>1 DEF QueryFails, EventTypeOK, Stages
<1> QED
  BY <1>1, <1>2, <1>3, <1>4 DEF EventTypeOK, QueryFails, cursorVars, effectVars

(* The steps of the handler.                                               *)
LEMMA SettleType ==
    ASSUME EventTypeOK, NEW h \in Handler, NEW e \in todo[h], Settle(h, e)
    PROVE  EventTypeOK'
<1>1. Mined' = Mined /\ stage[h] = "handle" /\ e \in UserOpEvents
  BY DEF Settle, Handling, Mined, EventTypeOK, UserOpEvents, OfKind
<1>2. /\ stage' \in [Handler -> Stages]
      /\ \A g \in Handler : stage'[g] \in {"handle", "lookUp", "advance"} <=> todo'[g] # {}
  BY <1>1 DEF Settle, EventTypeOK, Stages
<1>3. \A c \in Pass : stage'[c] # "query" => waiting'[c] = Kinds /\ answer'[c] = {}
  BY <1>1, HandlerFacts DEF Settle, EventTypeOK, passVars
<1>4. fate' \in [UserOpEvents -> Fates]
  BY <1>1 DEF Settle, EventTypeOK, Fates
<1>5. credited' \subseteq Abouts
  BY <1>1, HandlerFacts DEF Settle, EventTypeOK, Included, Abouts
<1> QED
  BY <1>1, <1>2, <1>3, <1>4, <1>5 DEF EventTypeOK, Settle, cursorVars, passVars

(* The aggregator of an event is that of some event about one.             *)
LEMMA AggregatorNowType ==
    ASSUME EventTypeOK, NEW h, NEW e
    PROVE  /\ AggregatorNow(h, e) \in {None} \cup {Log[c].about : c \in AggregatorEvents}
           /\ {AggregatorNow(h, e)} \ {None} \subseteq Abouts
<1>1. AggregatorNow(h, e) \in {None} \cup {Log[c].about : c \in AggregatorEvents}
  BY DEF EventTypeOK, AggregatorNow
<1>2. {Log[c].about : c \in AggregatorEvents} \subseteq Abouts
  BY DEF Abouts, AggregatorEvents, OfKind
<1> QED
  BY <1>1, <1>2

LEMMA LookUpType ==
    ASSUME EventTypeOK, NEW h \in Handler, NEW e \in todo[h], LookUp(h, e)
    PROVE  EventTypeOK'
<1>1. Mined' = Mined /\ stage[h] = "lookUp" /\ e \in UserOpEvents /\ e \in Event
  BY DEF LookUp, Handling, Mined, EventTypeOK, UserOpEvents, OfKind
<1>2. /\ stage' \in [Handler -> Stages]
      /\ \A g \in Handler : stage'[g] \in {"handle", "lookUp", "advance"} <=> todo'[g] # {}
  BY <1>1 DEF LookUp, EventTypeOK, Stages
<1>3. \A c \in Pass : stage'[c] # "query" => waiting'[c] = Kinds /\ answer'[c] = {}
  BY <1>1, HandlerFacts DEF LookUp, EventTypeOK, passVars
<1>4. named' \in [UserOpEvents -> SUBSET Abouts] /\ credited' \subseteq Abouts
  BY <1>1, AggregatorNowType DEF LookUp, EventTypeOK, Included
<1>5. eventAggregator' \in {None} \cup {Log[c].about : c \in AggregatorEvents}
  BY AggregatorNowType DEF LookUp
<1>6. eventAggregatorTxHash' \in {None} \cup {Log[c].tx : c \in Event}
  BY <1>1 DEF LookUp, TransactionHash
<1> QED
  BY <1>1, <1>2, <1>3, <1>4, <1>5, <1>6 DEF EventTypeOK, LookUp, passVars

LEMMA FinishType ==
    ASSUME EventTypeOK, NEW h \in Handler, NEW e \in todo[h],
           \/ AdvanceCursor(h, e)
           \/ HandleAccountDeployed(h, e)
           \/ HandleAggregatorChanged(h, e)
    PROVE  EventTypeOK'
<1>1. NextEvent(h, e) /\ Mined' = Mined /\ e \in Event
  BY DEF AdvanceCursor, HandleAccountDeployed, HandleAggregatorChanged, NextEvent, Mined, EventTypeOK
<1>2. /\ stage' \in [Handler -> Stages]
      /\ todo' \in [Handler -> SUBSET Mined']
      /\ \A g \in Handler : stage'[g] \in {"handle", "lookUp", "advance"} <=> todo'[g] # {}
      /\ \A d \in Pass : stage'[d] # "query" => waiting'[d] = Kinds /\ answer'[d] = {}
      /\ \A g \in Heard : todo'[g] \subseteq {g}
      /\ lastBlock' \in {None} \cup 1..(head' + 1)
  BY <1>1, NextEventType
<1>3. CASE AdvanceCursor(h, e)
  BY <1>1, <1>2, <1>3 DEF EventTypeOK, AdvanceCursor, NextEvent, passVars, effectVars
<1>4. CASE HandleAccountDeployed(h, e)
  <2>1. credited' \subseteq Abouts
    BY <1>1, <1>4 DEF HandleAccountDeployed, EventTypeOK, Included, Abouts
  <2> QED
    BY <1>1, <1>2, <1>4, <2>1, ZenonT(60) DEF EventTypeOK, HandleAccountDeployed, NextEvent, passVars
<1>5. CASE HandleAggregatorChanged(h, e)
  <2>1. /\ eventAggregator' \in {None} \cup {Log[c].about : c \in AggregatorEvents}
        /\ eventAggregatorTxHash' \in {None} \cup {Log[c].tx : c \in Event}
    BY <1>1, <1>5 DEF HandleAggregatorChanged, Handling, AggregatorEvents, OfKind
  <2> QED
    BY <1>1, <1>2, <1>5, <2>1
    DEF EventTypeOK, HandleAggregatorChanged, NextEvent, passVars, effectVars
<1> QED
  BY <1>3, <1>4, <1>5

LEMMA EventTypeStep == EventTypeOK /\ [EventNext]_vars => EventTypeOK'
<1> SUFFICES ASSUME EventTypeOK, [EventNext]_vars
             PROVE  EventTypeOK'
  OBVIOUS
<1>1. ASSUME NEW h \in Handler, HandlerStep(h)
      PROVE  EventTypeOK'
  BY <1>1, SettleType, LookUpType, FinishType DEF HandlerStep
<1>2. ASSUME NEW d \in Pass, PassStep(d)
      PROVE  EventTypeOK'
  BY <1>1, <1>2, HandlerFacts, InitializeType, AnswerType, LastAnswerType, QueryFailsType DEF PassStep
<1>3. CASE UNCHANGED vars
  BY <1>3 DEF EventTypeOK, vars, cursorVars, passVars, effectVars, Mined
<1> QED
  BY <1>1, <1>2, <1>3, HandlerFacts, MineType, DeliverType, BeginPassType DEF EventNext

(* The event manager's state is well formed: in particular a pass that has *)
(* not sent its queries, or has all their answers, has none half done, and *)
(* the cursor is never more than one past the newest block.                *)
THEOREM EventTypeCorrect == EventSpec => []EventTypeOK
BY EventTypeInit, EventTypeStep, PTL DEF EventSpec

-----------------------------------------------------------------------------
(* The aggregator that is remembered is of the transaction remembered with *)
(* it; the listener's events, which have none, do not match any.           *)

AggregatorKnown ==
    eventAggregator # None =>
        \E c \in AggregatorEvents :
            Log[c].tx = eventAggregatorTxHash /\ Log[c].about = eventAggregator

AggregatorInv == AggregatorKnown /\ AggregatorOfOwnBundle

LEMMA AggregatorStep ==
    ASSUME EventTypeOK, AggregatorInv, [EventNext]_vars
    PROVE  AggregatorInv'
<1>1. ASSUME NEW h \in Handler, NEW e \in todo[h], LookUp(h, e)
      PROVE  AggregatorInv'
  <2>1. e \in UserOpEvents /\ named' = [named EXCEPT ![e] = @ \cup ({AggregatorNow(h, e)} \ {None})]
    BY <1>1 DEF LookUp, Handling, EventTypeOK, Mined, UserOpEvents, OfKind
  <2>2. AggregatorKnown'
    BY <1>1 DEF AggregatorInv, AggregatorKnown, LookUp, AggregatorNow
  <2>3. ASSUME AggregatorNow(h, e) # None
        PROVE  \E c \in AggregatorEvents : Log[c].tx = Log[e].tx /\ Log[c].about = AggregatorNow(h, e)
    <3>1. /\ eventAggregator # None /\ AggregatorNow(h, e) = eventAggregator
          /\ TransactionHash(h, e) = eventAggregatorTxHash
      BY <2>3 DEF AggregatorNow
    <3>2. PICK c \in AggregatorEvents :
            Log[c].tx = eventAggregatorTxHash /\ Log[c].about = eventAggregator
      BY <3>1 DEF AggregatorInv, AggregatorKnown
    <3>3. eventAggregatorTxHash # None
      BY <3>2 DEF AggregatorEvents, OfKind
    <3>4. TransactionHash(h, e) = Log[e].tx
      BY <3>1, <3>3 DEF TransactionHash
    <3> QED
      BY <3>1, <3>2, <3>4
  <2>4. ASSUME NEW f \in UserOpEvents, NEW a \in named'[f]
        PROVE  \E c \in AggregatorEvents : Log[c].tx = Log[f].tx /\ Log[c].about = a
    <3>1. CASE f = e /\ a \notin named[e]
      BY <2>1, <2>3, <3>1 DEF EventTypeOK
    <3>2. CASE a \in named[f]
      BY <3>2 DEF AggregatorInv, AggregatorOfOwnBundle
    <3> QED
      BY <2>1, <3>1, <3>2 DEF EventTypeOK
  <2> QED
    BY <2>2, <2>4 DEF AggregatorInv, AggregatorOfOwnBundle
<1>2. ASSUME NEW h \in Handler, NEW e \in todo[h], HandleAggregatorChanged(h, e)
      PROVE  AggregatorInv'
  <2>1. e \in AggregatorEvents
    BY <1>2 DEF HandleAggregatorChanged, Handling, EventTypeOK, Mined, AggregatorEvents, OfKind
  <2> QED
    BY <1>2, <2>1
    DEF AggregatorInv, AggregatorKnown, AggregatorOfOwnBundle, HandleAggregatorChanged, effectVars
<1>3. CASE UNCHANGED <<eventAggregator, eventAggregatorTxHash, named>>
  BY <1>3 DEF AggregatorInv, AggregatorKnown, AggregatorOfOwnBundle
<1>4. ASSUME NEW h \in Handler, HandlerStep(h)
      PROVE  AggregatorInv'
  BY <1>1, <1>2, <1>3, <1>4
  DEF HandlerStep, Settle, AdvanceCursor, HandleAccountDeployed, cursorVars, effectVars
<1>5. ASSUME NEW d \in Pass, PassStep(d)
      PROVE  AggregatorInv'
  <2>1. CASE HandlerStep(d)
    BY <1>4, <2>1, HandlerFacts
  <2> QED
    BY <1>3, <1>5, <2>1
    DEF PassStep, Initialize, Answer, LastAnswer, QueryFails, cursorVars, effectVars
<1>6. CASE Mine \/ (\E e \in Heard : Deliver(e)) \/ (\E d \in Pass : BeginPass(d)) \/ UNCHANGED vars
  BY <1>3, <1>6 DEF Mine, Deliver, BeginPass, vars, cursorVars, effectVars
<1> QED
  BY <1>4, <1>5, <1>6, HandlerFacts DEF EventNext

(* However passes and the listener interleave, an operation is never       *)
(* credited to an aggregator of another transaction.                       *)
THEOREM AggregatorIsOwn == EventSpec => []AggregatorOfOwnBundle
<1>1. EventInit => AggregatorInv
  BY DEF EventInit, AggregatorInv, AggregatorKnown, AggregatorOfOwnBundle
<1>2. AggregatorInv /\ EventTypeOK /\ [EventNext]_vars => AggregatorInv'
  BY AggregatorStep
<1>3. AggregatorInv => AggregatorOfOwnBundle
  BY DEF AggregatorInv
<1> QED
  BY <1>1, <1>2, <1>3, EventTypeCorrect, PTL DEF EventSpec

-----------------------------------------------------------------------------
(* What a pass knows.  An event is safe when its operation is settled or   *)
(* some handler has it in hand.                                            *)

Safe(e) == Settled(e) \/ InHand(e)

(* Every event before the block a pass queries from is safe.               *)
QuerySafe ==
    \A d \in Pass : stage[d] = "query" =>
        \A e \in Expected : Block(e) < from[d] => Safe(e)

(* Once the query for operations is answered, the answer has every event   *)
(* from that block on.                                                     *)
AnswerComplete ==
    \A d \in Pass : stage[d] = "query" /\ UserOperationEvent \notin waiting[d] =>
        \A e \in Expected : Block(e) >= from[d] => e \in answer[d]

(* Every event up to the block of one that a pass has in hand is safe.     *)
HandSafe ==
    \A d \in Pass : \A f \in todo[d] : \A e \in Expected : Block(e) <= Block(f) => Safe(e)

(* The operation of an event is settled before the handler goes on.        *)
SettledFirst ==
    \A h \in Handler : stage[h] \in {"lookUp", "advance"} =>
        \A e \in todo[h] : Current(h, e) => e \in UserOpEvents /\ Settled(e)

SkipInv ==
    /\ NoEventSkipped
    /\ QuerySafe
    /\ AnswerComplete
    /\ HandSafe
    /\ SettledFirst

LEMMA SettledStays ==
    ASSUME EventTypeOK, [EventNext]_vars, NEW e \in UserOpEvents, Settled(e)
    PROVE  Settled(e)'
<1>1. ASSUME NEW h \in Handler, NEW g \in todo[h], Settle(h, g)
      PROVE  Settled(e)'
  <2>1. g \in UserOpEvents
    BY <1>1 DEF Settle, Handling, EventTypeOK, Mined, UserOpEvents, OfKind
  <2> QED
    BY <1>1, <2>1 DEF Settle, Settled, EventTypeOK, Fates
<1>2. CASE UNCHANGED fate
  BY <1>2 DEF Settled
<1>3. ASSUME NEW h \in Handler, HandlerStep(h)
      PROVE  Settled(e)'
  BY <1>1, <1>2, <1>3
  DEF HandlerStep, LookUp, AdvanceCursor, HandleAccountDeployed, HandleAggregatorChanged, effectVars
<1> QED
  BY <1>2, <1>3, HandlerFacts
  DEF EventNext, Mine, Deliver, BeginPass, PassStep, Initialize, Answer, LastAnswer, QueryFails,
      effectVars, vars

(* An event leaves the hands of a handler only when it is settled.         *)
LEMMA HandStays ==
    ASSUME EventTypeOK, SettledFirst, [EventNext]_vars,
           NEW e \in UserOpEvents, NEW h \in Handler, e \in todo[h]
    PROVE  e \in todo'[h] \/ Settled(e)'
<1>1. ASSUME NEW g \in Handler, NEW f \in todo[g], AdvanceCursor(g, f)
      PROVE  e \in todo'[h] \/ Settled(e)'
  <2>1. Settled(f)
    BY <1>1 DEF SettledFirst, AdvanceCursor, Handling
  <2> QED
    BY <1>1, <2>1, SettledStays DEF AdvanceCursor, NextEvent, EventTypeOK, Settled, effectVars
<1>2. ASSUME NEW g \in Handler, NEW f \in todo[g],
             HandleAccountDeployed(g, f) \/ HandleAggregatorChanged(g, f)
      PROVE  e \in todo'[h]
  <2>1. f # e /\ NextEvent(g, f)
    BY <1>2 DEF HandleAccountDeployed, HandleAggregatorChanged, Handling, UserOpEvents, OfKind
  <2> QED
    BY <2>1 DEF NextEvent, EventTypeOK
<1>3. ASSUME NEW g \in Handler, HandlerStep(g)
      PROVE  e \in todo'[h] \/ Settled(e)'
  BY <1>1, <1>2, <1>3 DEF HandlerStep, Settle, LookUp
<1>4. ASSUME NEW d \in Pass, NEW k \in Kinds, LastAnswer(d, k)
      PROVE  e \in todo'[h]
  <2>1. h # d
    BY <1>4, HandlerFacts DEF LastAnswer, EventTypeOK
  <2> QED
    BY <1>4, <2>1 DEF LastAnswer, EventTypeOK
<1>5. ASSUME NEW g \in Heard, Deliver(g)
      PROVE  e \in todo'[h]
  BY <1>5, HandlerFacts DEF Deliver, EventTypeOK
<1>6. ASSUME NEW d \in Pass, PassStep(d)
      PROVE  e \in todo'[h] \/ Settled(e)'
  BY <1>3, <1>4, <1>6, HandlerFacts DEF PassStep, Initialize, Answer, QueryFails
<1> QED
  BY <1>3, <1>5, <1>6, HandlerFacts DEF EventNext, Mine, BeginPass, vars

LEMMA SafeStays ==
    ASSUME EventTypeOK, SettledFirst, [EventNext]_vars, NEW e \in UserOpEvents, Safe(e)
    PROVE  Safe(e)'
<1>1. CASE Settled(e)
  BY <1>1, SettledStays DEF Safe
<1>2. ASSUME NEW h \in Handler, e \in todo[h]
      PROVE  Safe(e)'
  BY <1>2, HandStays DEF Safe, InHand
<1> QED
  BY <1>1, <1>2 DEF Safe, InHand

(* An event becomes one to be handled when it is mined, while no pass has  *)
(* part of its answers, and never later.                                   *)
LEMMA ExpectedStep ==
    ASSUME EventTypeOK, [EventNext]_vars, NEW e \in Expected'
    PROVE  /\ e \in UserOpEvents
           /\ \/ e \in Expected
              \/ Mine /\ Block(e) = head + 1 /\ \A d \in Pass : ~Answering(d)
<1>1. e \in UserOpEvents /\ Block(e) \in Nat /\ head \in Nat /\ LookBack \in Nat
  BY HandlerFacts DEF Expected, Block, EventTypeOK
<1>2. CASE UNCHANGED <<head, raced>>
  BY <1>1, <1>2 DEF Expected
<1>3. CASE Mine
  <2>1. head' = head + 1 /\ raced \subseteq raced'
    BY <1>3 DEF Mine
  <2>2. /\ Block(e) <= head + 1 /\ Block(e) >= (head + 1) - LookBack
        /\ e \notin raced'
    BY <2>1 DEF Expected
  <2>3. CASE Block(e) <= head
    <3>1. Block(e) >= head - LookBack
      BY <1>1, <2>2
    <3> QED
      BY <1>1, <2>1, <2>2, <2>3, <3>1 DEF Expected
  <2>4. CASE Block(e) = head + 1
    <3>1. e \notin {f \in Event : Block(f) = head' /\ \E d \in Pass : Answering(d)}
      BY <1>3, <2>2 DEF Mine
    <3> QED
      BY <1>1, <1>3, <2>1, <2>4, <3>1, HandlerFacts
  <2> QED
    BY <1>1, <2>2, <2>3, <2>4
<1>4. ASSUME NEW h, HandlerStep(h)
      PROVE  UNCHANGED <<head, raced>>
  BY <1>4 DEF HandlerStep, Settle, LookUp, AdvanceCursor, HandleAccountDeployed,
     HandleAggregatorChanged, NextEvent
<1> QED
  BY <1>1, <1>2, <1>3, <1>4
  DEF EventNext, Deliver, BeginPass, PassStep, Initialize, Answer, LastAnswer, QueryFails, vars

(* Where only the handler of an event goes on, what passes know stays true *)
(* of the events they still have.                                          *)
LEMMA KnowledgeStays ==
    ASSUME EventTypeOK, SkipInv, [EventNext]_vars, UNCHANGED <<head, raced, passVars>>,
           \A d \in Pass : stage'[d] = "query" => stage[d] = "query",
           \A d \in Pass : todo'[d] \subseteq todo[d]
    PROVE  /\ QuerySafe' /\ AnswerComplete' /\ HandSafe'
           /\ \A e \in Expected' : e \in Expected /\ (Safe(e) => Safe(e)')
<1>1. \A e \in Expected' : e \in Expected /\ (Safe(e) => Safe(e)')
  <2>1. Expected' = Expected
    BY DEF Expected
  <2>2. Expected \subseteq UserOpEvents
    BY DEF Expected
  <2> QED
    BY <2>1, <2>2, SafeStays DEF SkipInv
<1>2. QuerySafe'
  BY <1>1 DEF SkipInv, QuerySafe, passVars
<1>3. AnswerComplete'
  BY <1>1 DEF SkipInv, AnswerComplete, passVars
<1>4. HandSafe'
  BY <1>1 DEF SkipInv, HandSafe
<1> QED
  BY <1>1, <1>2, <1>3, <1>4

LEMMA MineSkip ==
    ASSUME EventTypeOK, SkipInv, Mine
    PROVE  SkipInv'
<1>0. [EventNext]_vars /\ head \in Nat /\ head' = head + 1
  BY DEF EventNext, Mine, EventTypeOK
<1>1. ASSUME NEW e \in Expected'
      PROVE  /\ e \in Expected => (Safe(e) => Safe(e)')
             /\ e \notin Expected => Block(e) = head + 1 /\ \A d \in Pass : ~Answering(d)
             /\ Block(e) \in Nat
  BY <1>0, <1>1, ExpectedStep, SafeStays, HandlerFacts DEF SkipInv, Block
<1>2. NoEventSkipped'
  <2>1. lastBlock' = lastBlock /\ lastBlock \in {None} \cup 1..(head + 1)
    BY DEF Mine, EventTypeOK, cursorVars
  <2>2. ASSUME NEW e \in Expected', lastBlock # None, Block(e) < lastBlock
        PROVE  Safe(e)'
    <3>1. e \in Expected
      BY <1>0, <1>1, <2>1, <2>2
    <3> QED
      BY <1>1, <2>2, <3>1 DEF SkipInv, NoEventSkipped, Safe
  <2> QED
    BY <2>1, <2>2 DEF NoEventSkipped, Safe
<1>3. QuerySafe'
  <2>1. ASSUME NEW d \in Pass, stage[d] = "query", NEW e \in Expected', Block(e) < from[d]
        PROVE  Safe(e)'
    <3>1. from[d] \in 1..(head + 1)
      BY DEF EventTypeOK
    <3>2. e \in Expected
      BY <1>0, <1>1, <2>1, <3>1
    <3> QED
      BY <1>1, <2>1, <3>2 DEF SkipInv, QuerySafe
  <2> QED
    BY <2>1 DEF QuerySafe, Mine, passVars
<1>4. AnswerComplete'
  <2>1. ASSUME NEW d \in Pass, stage[d] = "query", UserOperationEvent \notin waiting[d],
               NEW e \in Expected', Block(e) >= from[d]
        PROVE  e \in answer[d]
    <3>1. Answering(d)
      BY <2>1 DEF Answering
    <3>2. e \in Expected
      BY <1>1, <3>1
    <3> QED
      BY <2>1, <3>2 DEF SkipInv, AnswerComplete
  <2> QED
    BY <2>1 DEF AnswerComplete, Mine, passVars
<1>5. HandSafe'
  <2>1. ASSUME NEW d \in Pass, NEW f \in todo[d], NEW e \in Expected', Block(e) <= Block(f)
        PROVE  Safe(e)'
    <3>1. f \in Event /\ Block(f) <= head /\ Block(f) \in Nat
      BY HandlerFacts DEF EventTypeOK, Mined, Block
    <3>2. e \in Expected
      BY <1>0, <1>1, <2>1, <3>1
    <3> QED
      BY <1>1, <2>1, <3>2 DEF SkipInv, HandSafe
  <2> QED
    BY <2>1 DEF HandSafe, Mine
<1>6. SettledFirst'
  BY DEF SkipInv, SettledFirst, Mine, effectVars, Current, Settled
<1> QED
  BY <1>2, <1>3, <1>4, <1>5, <1>6 DEF SkipInv

LEMMA DeliverSkip ==
    ASSUME EventTypeOK, SkipInv, NEW g \in Heard, Deliver(g)
    PROVE  SkipInv'
<1>1. [EventNext]_vars /\ g \in Handler /\ g \notin Pass
  BY HandlerFacts DEF EventNext
<1>2. /\ QuerySafe' /\ AnswerComplete' /\ HandSafe'
      /\ \A e \in Expected' : e \in Expected /\ (Safe(e) => Safe(e)')
  <2>1. /\ UNCHANGED <<head, raced, passVars>>
        /\ \A d \in Pass : stage'[d] = stage[d] /\ todo'[d] = todo[d]
    BY <1>1, HandlerFacts DEF Deliver, EventTypeOK
  <2> QED
    BY <1>1, <2>1, KnowledgeStays
<1>3. NoEventSkipped'
  BY <1>2 DEF SkipInv, NoEventSkipped, Safe, Deliver, cursorVars
<1>4. SettledFirst'
  BY <1>1 DEF SkipInv, SettledFirst, Deliver, effectVars, Current, Settled, EventTypeOK
<1> QED
  BY <1>2, <1>3, <1>4 DEF SkipInv

LEMMA BeginPassSkip ==
    ASSUME EventTypeOK, SkipInv, NEW d \in Pass, BeginPass(d)
    PROVE  SkipInv'
<1>1. [EventNext]_vars /\ d \in Handler /\ stage[d] = "idle"
  BY HandlerFacts DEF EventNext, BeginPass
<1>2. \A e \in Expected' : e \in Expected /\ (Safe(e) => Safe(e)')
  <2>1. Expected' = Expected /\ Expected \subseteq UserOpEvents
    BY DEF Expected, BeginPass
  <2> QED
    BY <1>1, <2>1, SafeStays DEF SkipInv
<1>3. QuerySafe'
  <2>1. ASSUME NEW c \in Pass, stage'[c] = "query", NEW e \in Expected', Block(e) < from'[c]
        PROVE  Safe(e)'
    <3>1. CASE c = d
      <4>1. lastBlock # None /\ from'[c] = lastBlock
        BY <1>1, <2>1, <3>1 DEF BeginPass, EventTypeOK
      <4> QED
        BY <1>2, <2>1, <4>1 DEF SkipInv, NoEventSkipped, Safe
    <3>2. CASE c # d
      <4>1. stage[c] = "query" /\ from'[c] = from[c]
        BY <1>1, <2>1, <3>2, HandlerFacts DEF BeginPass, EventTypeOK
      <4> QED
        BY <1>2, <2>1, <4>1 DEF SkipInv, QuerySafe
    <3> QED
      BY <3>1, <3>2
  <2> QED
    BY <2>1 DEF QuerySafe
<1>4. AnswerComplete'
  <2>1. waiting'[d] = Kinds /\ waiting' = waiting /\ answer' = answer
    BY <1>1 DEF BeginPass, EventTypeOK
  <2>2. \A c \in Pass : c # d => stage'[c] = stage[c] /\ from'[c] = from[c]
    BY HandlerFacts DEF BeginPass, EventTypeOK
  <2> QED
    BY <1>2, <2>1, <2>2 DEF SkipInv, AnswerComplete
<1>5. HandSafe'
  BY <1>2 DEF SkipInv, HandSafe, BeginPass
<1>6. NoEventSkipped'
  BY <1>2 DEF SkipInv, NoEventSkipped, Safe, BeginPass, cursorVars
<1>7. SettledFirst'
  BY <1>1 DEF SkipInv, SettledFirst, BeginPass, effectVars, Current, Settled, EventTypeOK
<1> QED
  BY <1>3, <1>4, <1>5, <1>6, <1>7 DEF SkipInv

(* No event to be handled is before the window.                            *)
LEMMA WindowFacts ==
    ASSUME EventTypeOK, NEW e \in Expected
    PROVE  Block(e) >= WindowStart
<1>1. Block(e) \in Nat /\ Block(e) >= 1 /\ Block(e) >= head - LookBack
  BY HandlerFacts DEF Expected, Block
<1> QED
  BY <1>1 DEF WindowStart, EventTypeOK

LEMMA InitializeSkip ==
    ASSUME EventTypeOK, SkipInv, NEW d \in Pass, Initialize(d)
    PROVE  SkipInv'
<1>1. [EventNext]_vars /\ d \in Handler /\ stage[d] = "initialize"
  BY HandlerFacts DEF EventNext, PassStep, Initialize
<1>2. \A e \in Expected' : e \in Expected /\ (Safe(e) => Safe(e)') /\ ~(Block(e) < WindowStart)
  <2>1. Expected' = Expected /\ Expected \subseteq UserOpEvents
    BY DEF Expected, Initialize
  <2>2. WindowStart \in Int /\ \A e \in Expected : Block(e) \in Int
    BY WindowStartType, <2>1, HandlerFacts DEF EventTypeOK, Block
  <2> QED
    BY <1>1, <2>1, <2>2, SafeStays, WindowFacts DEF SkipInv
<1>3. \A c \in Pass : c # d => stage'[c] = stage[c] /\ from'[c] = from[c]
  BY HandlerFacts DEF Initialize, EventTypeOK
<1>4. QuerySafe'
  <2>1. from'[d] = WindowStart
    BY DEF Initialize, EventTypeOK
  <2> QED
    BY <1>2, <1>3, <2>1 DEF SkipInv, QuerySafe
<1>5. AnswerComplete'
  <2>1. waiting'[d] = Kinds /\ waiting' = waiting /\ answer' = answer
    BY <1>1 DEF Initialize, EventTypeOK
  <2> QED
    BY <1>2, <1>3, <2>1 DEF SkipInv, AnswerComplete
<1>6. HandSafe'
  BY <1>2 DEF SkipInv, HandSafe, Initialize
<1>7. NoEventSkipped'
  BY <1>2 DEF NoEventSkipped, Initialize
<1>8. SettledFirst'
  BY <1>1 DEF SkipInv, SettledFirst, Initialize, effectVars, Current, Settled, EventTypeOK
<1> QED
  BY <1>4, <1>5, <1>6, <1>7, <1>8 DEF SkipInv

(* The answer for operations has all of them there are to be handled, from *)
(* the block on that was asked for.                                        *)
LEMMA FoundFacts ==
    ASSUME NEW e \in Expected, NEW first, Block(e) >= first
    PROVE  e \in Found(UserOperationEvent, first)
BY HandlerFacts DEF Expected, Found, UserOpEvents, OfKind, Block

LEMMA AnswerSkip ==
    ASSUME EventTypeOK, SkipInv, NEW d \in Pass, NEW k \in Kinds, Answer(d, k)
    PROVE  SkipInv'
<1>1. [EventNext]_vars /\ d \in Handler /\ stage[d] = "query"
  BY HandlerFacts DEF EventNext, PassStep, Answer
<1>2. \A e \in Expected' : e \in Expected /\ (Safe(e) => Safe(e)')
  <2>1. Expected' = Expected /\ Expected \subseteq UserOpEvents
    BY DEF Expected, Answer
  <2> QED
    BY <1>1, <2>1, SafeStays DEF SkipInv
<1>3. QuerySafe'
  BY <1>2 DEF SkipInv, QuerySafe, Answer
<1>4. AnswerComplete'
  <2>1. ASSUME NEW c \in Pass, stage[c] = "query", UserOperationEvent \notin waiting'[c],
               NEW e \in Expected', Block(e) >= from[c]
        PROVE  e \in answer'[c]
    <3>1. CASE UserOperationEvent \notin waiting[c]
      <4>1. e \in answer[c] /\ answer[c] \subseteq answer'[c]
        BY <1>2, <2>1, <3>1 DEF SkipInv, AnswerComplete, Answer, Answers, EventTypeOK
      <4> QED
        BY <4>1
    <3>2. CASE UserOperationEvent \in waiting[c]
      <4>1. c = d /\ k = UserOperationEvent
        BY <2>1, <3>2 DEF Answer, EventTypeOK
      <4>2. e \in Found(k, from[d])
        BY <1>2, <2>1, <4>1, FoundFacts
      <4> QED
        BY <4>1, <4>2 DEF Answer, Answers, EventTypeOK
    <3> QED
      BY <3>1, <3>2
  <2> QED
    BY <2>1 DEF AnswerComplete, Answer
<1>5. HandSafe'
  BY <1>2 DEF SkipInv, HandSafe, Answer
<1>6. NoEventSkipped'
  BY <1>2 DEF SkipInv, NoEventSkipped, Safe, Answer, cursorVars
<1>7. SettledFirst'
  BY DEF SkipInv, SettledFirst, Answer, effectVars, Current, Settled
<1> QED
  BY <1>3, <1>4, <1>5, <1>6, <1>7 DEF SkipInv

(* With its last answer a pass makes every event to be handled safe: those *)
(* before the block it queried from were, the others are now in its hands. *)
LEMMA LastAnswerSkip ==
    ASSUME EventTypeOK, SkipInv, NEW d \in Pass, NEW k \in Kinds, LastAnswer(d, k)
    PROVE  SkipInv'
<1>1. [EventNext]_vars /\ d \in Handler /\ stage[d] = "query" /\ waiting[d] = {k}
  BY HandlerFacts DEF EventNext, PassStep, LastAnswer
<1>2. \A e \in Expected' : e \in Expected /\ (Safe(e) => Safe(e)')
  <2>1. Expected' = Expected /\ Expected \subseteq UserOpEvents
    BY DEF Expected, LastAnswer
  <2> QED
    BY <1>1, <2>1, SafeStays DEF SkipInv
<1>3. \A e \in Expected' : Safe(e)'
  <2>1. ASSUME NEW e \in Expected'
        PROVE  Safe(e)'
    <3>1. e \in Expected /\ Block(e) \in Int /\ from[d] \in Int
      BY <1>2, HandlerFacts DEF Expected, Block, EventTypeOK
    <3>2. CASE Block(e) < from[d]
      BY <1>1, <1>2, <3>1, <3>2 DEF SkipInv, QuerySafe
    <3>3. CASE Block(e) >= from[d]
      <4>1. e \in Answers(d, k)
        <5>1. CASE k = UserOperationEvent
          BY <3>1, <3>3, <5>1, FoundFacts DEF Answers
        <5>2. CASE k # UserOperationEvent
          BY <1>1, <3>1, <3>3, <5>2 DEF SkipInv, AnswerComplete, Answers
        <5> QED
          BY <5>1, <5>2
      <4>2. e \in todo'[d]
        BY <1>1, <4>1 DEF LastAnswer, EventTypeOK
      <4> QED
        BY <1>1, <4>2 DEF Safe, InHand
    <3> QED
      BY <3>1, <3>2, <3>3
  <2> QED
    BY <2>1
<1>4. \A c \in Pass : stage'[c] = "query" =>
        stage[c] = "query" /\ waiting'[c] = waiting[c] /\ answer'[c] = answer[c] /\ from'[c] = from[c]
  BY HandlerFacts DEF LastAnswer, EventTypeOK
<1>5. QuerySafe' /\ HandSafe' /\ NoEventSkipped'
  BY <1>3 DEF QuerySafe, HandSafe, NoEventSkipped, Safe
<1>6. AnswerComplete'
  BY <1>2, <1>4 DEF SkipInv, AnswerComplete
<1>7. SettledFirst'
  <2>1. \A h \in Handler : stage'[h] \in {"lookUp", "advance"} => h # d /\ stage'[h] = stage[h] /\ todo'[h] = todo[h]
    BY <1>1 DEF LastAnswer, EventTypeOK
  <2> QED
    BY <2>1 DEF SkipInv, SettledFirst, LastAnswer, effectVars, Current, Settled
<1> QED
  BY <1>5, <1>6, <1>7 DEF SkipInv

LEMMA QueryFailsSkip ==
    ASSUME EventTypeOK, SkipInv, NEW d \in Pass, QueryFails(d)
    PROVE  SkipInv'
<1>1. [EventNext]_vars /\ d \in Handler
  BY HandlerFacts DEF EventNext, PassStep
<1>2. \A e \in Expected' : e \in Expected /\ (Safe(e) => Safe(e)')
  <2>1. Expected' = Expected /\ Expected \subseteq UserOpEvents
    BY DEF Expected, QueryFails
  <2> QED
    BY <1>1, <2>1, SafeStays DEF SkipInv
<1>3. \A c \in Pass : stage'[c] = "query" =>
        stage[c] = "query" /\ waiting'[c] = waiting[c] /\ answer'[c] = answer[c] /\ from'[c] = from[c]
  BY HandlerFacts DEF QueryFails, EventTypeOK
<1>4. QuerySafe'
  BY <1>2, <1>3 DEF SkipInv, QuerySafe
<1>5. AnswerComplete'
  BY <1>2, <1>3 DEF SkipInv, AnswerComplete
<1>6. HandSafe'
  BY <1>2 DEF SkipInv, HandSafe, QueryFails
<1>7. NoEventSkipped'
  BY <1>2 DEF SkipInv, NoEventSkipped, Safe, QueryFails, cursorVars
<1>8. SettledFirst'
  BY <1>1 DEF SkipInv, SettledFirst, QueryFails, effectVars, Current, Settled, EventTypeOK
<1> QED
  BY <1>4, <1>5, <1>6, <1>7, <1>8 DEF SkipInv

LEMMA SettleSkip ==
    ASSUME EventTypeOK, SkipInv, NEW h \in Handler, NEW e \in todo[h],
           Settle(h, e) \/ LookUp(h, e)
    PROVE  SkipInv'
<1>1. [EventNext]_vars
  <2>1. HandlerStep(h)
    BY DEF HandlerStep
  <2> QED
    BY <2>1, HandlerFacts DEF Handler, EventNext, PassStep
<1>2. /\ UNCHANGED <<head, raced, passVars, todo, lastBlock>>
      /\ e \in UserOpEvents /\ Current(h, e)
      /\ \A g \in Handler : g # h => stage'[g] = stage[g]
      /\ stage[h] # "query" /\ stage'[h] # "query"
  BY DEF Settle, LookUp, Handling, cursorVars, EventTypeOK, Mined, UserOpEvents, OfKind
<1>3. /\ QuerySafe' /\ AnswerComplete' /\ HandSafe'
      /\ \A f \in Expected' : f \in Expected /\ (Safe(f) => Safe(f)')
  <2>1. \A d \in Pass : stage'[d] = "query" => stage[d] = "query"
    BY <1>2, HandlerFacts
  <2> QED
    BY <1>1, <1>2, <2>1, KnowledgeStays
<1>4. NoEventSkipped'
  BY <1>2, <1>3 DEF SkipInv, NoEventSkipped, Safe
<1>5. Settled(e)'
  <2>1. CASE Settle(h, e)
    BY <1>2, <2>1 DEF Settle, Settled, EventTypeOK
  <2>2. CASE LookUp(h, e)
    BY <1>2, <2>2 DEF SkipInv, SettledFirst, LookUp, Handling, Settled
  <2> QED
    BY <2>1, <2>2
<1>6. SettledFirst'
  <2>1. ASSUME NEW g \in Handler, stage'[g] \in {"lookUp", "advance"}, NEW f \in todo[g], Current(g, f)
        PROVE  f \in UserOpEvents /\ Settled(f)'
    <3>1. CASE g = h
      BY <1>2, <1>5, <2>1, <3>1, CurrentUnique
    <3>2. CASE g # h
      BY <1>1, <1>2, <2>1, <3>2, SettledStays DEF SkipInv, SettledFirst
    <3> QED
      BY <3>1, <3>2
  <2> QED
    BY <1>2, <2>1 DEF SettledFirst, Current
<1> QED
  BY <1>3, <1>4, <1>6 DEF SkipInv

(* The cursor moves past the block of an event in hand: all up to it is    *)
(* safe.  The listener makes it NaN, which promises nothing.               *)
LEMMA FinishSkip ==
    ASSUME EventTypeOK, SkipInv, NEW h \in Handler, NEW e \in todo[h],
           \/ AdvanceCursor(h, e)
           \/ HandleAccountDeployed(h, e)
           \/ HandleAggregatorChanged(h, e)
    PROVE  SkipInv'
<1>1. [EventNext]_vars
  <2>1. HandlerStep(h)
    BY DEF HandlerStep
  <2> QED
    BY <2>1, HandlerFacts DEF Handler, EventNext, PassStep
<1>2. /\ NextEvent(h, e) /\ e \in Event /\ fate' = fate
      /\ UNCHANGED <<head, raced, passVars>>
  BY DEF AdvanceCursor, HandleAccountDeployed, HandleAggregatorChanged, NextEvent, effectVars,
     EventTypeOK, Mined
<1>3. /\ todo' = [todo EXCEPT ![h] = @ \ {e}]
      /\ \A g \in Handler : g # h => stage'[g] = stage[g]
      /\ stage'[h] \in {"idle", "handle"}
  BY <1>2 DEF NextEvent, EventTypeOK
<1>4. /\ QuerySafe' /\ AnswerComplete' /\ HandSafe'
      /\ \A f \in Expected' : f \in Expected /\ (Safe(f) => Safe(f)')
  <2>1. \A d \in Pass : stage'[d] = "query" => stage[d] = "query"
    BY <1>3, HandlerFacts
  <2>2. \A d \in Pass : todo'[d] \subseteq todo[d]
    BY <1>3, HandlerFacts DEF EventTypeOK
  <2> QED
    BY <1>1, <1>2, <2>1, <2>2, KnowledgeStays
<1>5. NoEventSkipped'
  <2>1. ASSUME NEW f \in Expected', lastBlock' # None, Block(f) < lastBlock'
        PROVE  Safe(f)'
    <3>1. h \in Pass /\ lastBlock' = Block(e) + 1
      BY <1>2, <2>1 DEF NextEvent, Advanced, BlockNumber, Block
    <3>2. Block(e) \in Int /\ Block(f) \in Int
      BY <1>2, HandlerFacts DEF Expected, Block
    <3>3. Block(f) <= Block(e)
      BY <2>1, <3>1, <3>2
    <3> QED
      BY <1>4, <3>1, <3>3 DEF SkipInv, HandSafe
  <2> QED
    BY <2>1 DEF NoEventSkipped, Safe
<1>6. SettledFirst'
  BY <1>2, <1>3 DEF SkipInv, SettledFirst, Current, Settled, EventTypeOK
<1> QED
  BY <1>4, <1>5, <1>6 DEF SkipInv

LEMMA SkipStep ==
    ASSUME EventTypeOK, SkipInv, [EventNext]_vars
    PROVE  SkipInv'
<1>1. ASSUME NEW h \in Handler, HandlerStep(h)
      PROVE  SkipInv'
  BY <1>1, SettleSkip, FinishSkip DEF HandlerStep
<1>2. ASSUME NEW d \in Pass, PassStep(d)
      PROVE  SkipInv'
  BY <1>1, <1>2, HandlerFacts, InitializeSkip, AnswerSkip, LastAnswerSkip, QueryFailsSkip DEF PassStep
<1>3. CASE UNCHANGED vars
  BY <1>3 DEF SkipInv, NoEventSkipped, QuerySafe, AnswerComplete, HandSafe, SettledFirst, Expected,
     Safe, InHand, Settled, Current, vars, cursorVars, passVars, effectVars
<1> QED
  BY <1>1, <1>2, <1>3, HandlerFacts, MineSkip, DeliverSkip, BeginPassSkip DEF EventNext

(* Passes and the listener move one cursor, each to the block of whatever  *)
(* it handled last; still the cursor never passes an operation whose event *)
(* nobody has handled or has in hand, unless it was mined while a pass had *)
(* part of its answers or the window has moved past it.                    *)
THEOREM CursorSkipsNothing == EventSpec => []NoEventSkipped
<1>1. EventInit => SkipInv
  BY HandlerFacts DEF EventInit, SkipInv, NoEventSkipped, QuerySafe, AnswerComplete, HandSafe, SettledFirst
<1>2. SkipInv /\ EventTypeOK /\ [EventNext]_vars => SkipInv'
  BY SkipStep
<1>3. SkipInv => NoEventSkipped
  BY DEF SkipInv
<1> QED
  BY <1>1, <1>2, <1>3, EventTypeCorrect, PTL DEF EventSpec
=============================================================================
