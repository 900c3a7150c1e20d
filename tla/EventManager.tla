----------------------------- MODULE EventManager -----------------------------
(***************************************************************************)
(* The event manager follows the EntryPoint's events in two ways at once:  *)
(* a listener is called for each UserOperationEvent as it is noticed, and  *)
(* handlePastEvents, called in every attempt to bundle, queries all events *)
(* from the block lastBlock on.  Both run the same handler, which awaits   *)
(* the mempool, and both move lastBlock.                                   *)
(*                                                                         *)
(* The chain is a constant: what each event says and where it is.  The     *)
(* listener may miss any of them and may be called late, in any order.     *)
(***************************************************************************)
EXTENDS Integers, Sequences

CONSTANTS
    Event,      \* the events the EntryPoint emits
    Log,        \* what each of them says
    Height,     \* the number of blocks
    Pass,       \* the attempts that may be handling past events at a time
    Heard,      \* the UserOperationEvents the listener may be called with
    LookBack,   \* how far a pass looks back when it has no cursor (1000 in the code)
    None

(* The kinds of events, in the order in which a pass queries them.         *)
UserOperationEvent == 1
AccountDeployed == 2
SignatureAggregatorChanged == 3
Kinds == 1..3

OfKind(k) == {e \in Event : Log[e].kind = k}
UserOpEvents == OfKind(UserOperationEvent)
AggregatorEvents == OfKind(SignatureAggregatorChanged)

(* An event says its kind, its block, its place among the events of the    *)
(* chain and its transaction; about is the sender (the paymaster is        *)
(* treated alike), the factory or the new aggregator.                      *)
ASSUME EventAssumption ==
    /\ Height \in Nat
    /\ \A e \in Event : /\ Log[e].kind \in Kinds
                       /\ Log[e].block \in 1..Height
                       /\ Log[e].index \in Nat
                       /\ Log[e].tx # None
                       /\ Log[e].success \in BOOLEAN
    /\ \A e, f \in Event : Log[e].index = Log[f].index => e = f
    /\ Heard \subseteq UserOpEvents
    /\ LookBack \in Nat
    /\ Pass \cap Event = {}

Block(e) == Log[e].block

(* Every pass and every call of the listener runs the handler.             *)
Handler == Pass \cup Heard

VARIABLES
    head,                   \* the newest block
    lastBlock,              \* the cursor; None for null and for NaN
    eventAggregator,        \* the aggregator of the last event about one
    eventAggregatorTxHash,  \* and the transaction it was in
    stage,                  \* where each handler stands
    from,                   \* the block a pass queries from
    waiting,                \* the kinds of event whose query is not answered
    answer,                 \* the events the other queries have returned
    todo,                   \* the events a handler has in hand
    fate,                   \* what became of the operation of each event
    delivered,              \* the events the listener was called with
    named,                  \* the aggregators looked up for each operation (history)
    credited,               \* who was credited with an inclusion
    raced                   \* events mined between two answers of a pass (history)

cursorVars == <<lastBlock, eventAggregator, eventAggregatorTxHash>>
passVars == <<from, waiting, answer>>
effectVars == <<fate, named, credited>>
vars == <<head, cursorVars, stage, passVars, todo, effectVars, delivered, raced>>

Stages == {"idle", "initialize", "query", "handle", "lookUp", "advance"}
Fates == {"pooled", "removed", "failed"}
Abouts == {Log[e].about : e \in Event}

Mined == {e \in Event : Block(e) <= head}

EventTypeOK ==
    /\ head \in 0..Height
    /\ lastBlock \in {None} \cup 1..(head + 1)
    /\ eventAggregator \in {None} \cup {Log[e].about : e \in AggregatorEvents}
    /\ eventAggregatorTxHash \in {None} \cup {Log[e].tx : e \in Event}
    /\ stage \in [Handler -> Stages]
    /\ from \in [Pass -> 1..(head + 1)]
    /\ waiting \in [Pass -> SUBSET Kinds]
    /\ answer \in [Pass -> SUBSET Mined]
    /\ \A d \in Pass : stage[d] # "query" => waiting[d] = Kinds /\ answer[d] = {}
    /\ todo \in [Handler -> SUBSET Mined]
    /\ \A h \in Handler : stage[h] \in {"handle", "lookUp", "advance"} <=> todo[h] # {}
    /\ \A e \in Heard : todo[e] \subseteq {e}
    /\ fate \in [UserOpEvents -> Fates]
    /\ named \in [UserOpEvents -> SUBSET Abouts]
    /\ credited \subseteq Abouts
    /\ delivered \subseteq Heard \cap Mined
    /\ raced \subseteq Mined

EventInit ==
    /\ head = 0
    /\ lastBlock = None /\ eventAggregator = None /\ eventAggregatorTxHash = None
    /\ stage = [h \in Handler |-> "idle"]
    /\ from = [d \in Pass |-> 1]
    /\ waiting = [d \in Pass |-> Kinds]
    /\ answer = [d \in Pass |-> {}]
    /\ todo = [h \in Handler |-> {}]
    /\ fate = [e \in UserOpEvents |-> "pooled"]
    /\ named = [e \in UserOpEvents |-> {}]
    /\ credited = {}
    /\ delivered = {} /\ raced = {}

-----------------------------------------------------------------------------
(* The chain and the listener.                                             *)

Answering(d) == stage[d] = "query" /\ waiting[d] # Kinds

Mine ==
    /\ head < Height
    /\ head' = head + 1
    /\ raced' = raced \cup {e \in Event : Block(e) = head' /\ \E d \in Pass : Answering(d)}
    /\ UNCHANGED <<cursorVars, stage, passVars, todo, effectVars, delivered>>

Deliver(e) ==
    /\ Block(e) <= head /\ e \notin delivered
    /\ delivered' = delivered \cup {e}
    /\ stage' = [stage EXCEPT ![e] = "handle"]
    /\ todo' = [todo EXCEPT ![e] = {e}]
    /\ UNCHANGED <<head, cursorVars, passVars, effectVars, raced>>

-----------------------------------------------------------------------------
(* handlePastEvents.                                                       *)

(* Without a cursor the newest block is asked for first.                   *)
BeginPass(d) ==
    /\ stage[d] = "idle"
    /\ stage' = [stage EXCEPT ![d] = IF lastBlock = None THEN "initialize" ELSE "query"]
    /\ from' = [from EXCEPT ![d] = IF lastBlock = None THEN @ ELSE lastBlock]
    /\ UNCHANGED <<head, cursorVars, waiting, answer, todo, effectVars, delivered, raced>>

WindowStart == IF head - LookBack > 1 THEN head - LookBack ELSE 1

(* The answer replaces whatever the cursor has become meanwhile.           *)
Initialize(d) ==
    /\ stage[d] = "initialize"
    /\ stage' = [stage EXCEPT ![d] = "query"]
    /\ lastBlock' = WindowStart
    /\ from' = [from EXCEPT ![d] = WindowStart]
    /\ UNCHANGED <<head, eventAggregator, eventAggregatorTxHash, waiting, answer, todo,
                   effectVars, delivered, raced>>

(* Mutant: the block the cursor points at is left out.                     *)
FoundAfter(k, first) == {e \in OfKind(k) : first < Block(e) /\ Block(e) <= head}

(* The events of a kind from a block to the newest, as queryFilter returns *)
(* them.                                                                   *)
Found(k, first) == {e \in OfKind(k) : first <= Block(e) /\ Block(e) <= head}

(* The three queries are sent together and answered one by one.            *)
Answers(d, k) == answer[d] \cup Found(k, from[d])

Answer(d, k) ==
    /\ stage[d] = "query" /\ k \in waiting[d] /\ waiting[d] # {k}
    /\ waiting' = [waiting EXCEPT ![d] = @ \ {k}]
    /\ answer' = [answer EXCEPT ![d] = Answers(d, k)]
    /\ UNCHANGED <<head, cursorVars, stage, from, todo, effectVars, delivered, raced>>

(* With the last answer the events are put together.                       *)
LastAnswer(d, k) ==
    /\ stage[d] = "query" /\ waiting[d] = {k}
    /\ waiting' = [waiting EXCEPT ![d] = Kinds]
    /\ answer' = [answer EXCEPT ![d] = {}]
    /\ from' = [from EXCEPT ![d] = 1]
    /\ todo' = [todo EXCEPT ![d] = Answers(d, k)]
    /\ stage' = [stage EXCEPT ![d] = IF Answers(d, k) = {} THEN "idle" ELSE "handle"]
    /\ UNCHANGED <<head, cursorVars, effectVars, delivered, raced>>

(* A query that fails rejects them all and ends the attempt.               *)
QueryFails(d) ==
    /\ stage[d] \in {"initialize", "query"}
    /\ stage' = [stage EXCEPT ![d] = "idle"]
    /\ waiting' = [waiting EXCEPT ![d] = Kinds]
    /\ answer' = [answer EXCEPT ![d] = {}]
    /\ from' = [from EXCEPT ![d] = 1]
    /\ UNCHANGED <<head, cursorVars, todo, effectVars, delivered, raced>>

-----------------------------------------------------------------------------
(* handleEvent, run by a pass for each of its events and by the listener   *)
(* for its one.                                                            *)

(* The answers are concatenated kind by kind, each in the chain's order.   *)
Before(e, f) ==
    \/ Log[e].kind < Log[f].kind
    \/ Log[e].kind = Log[f].kind /\ Log[e].index < Log[f].index

(* The event under way.                                                    *)
Current(h, e) == e \in todo[h] /\ \A f \in todo[h] : ~Before(f, e)

Handling(h, e, step, kind) == stage[h] = step /\ Log[e].kind = kind /\ Current(h, e)

(* includedAddress credits a string of more than 42 characters; an address *)
(* has 42.                                                                 *)
AddressLength == 42
Included(addresses) == {a \in addresses : AddressLength > 42}

(* The payload ethers gives a listener holds the log; it has no block      *)
(* number and no transaction hash of its own.                              *)
BlockNumber(h, e) == IF h \in Pass THEN Log[e].block + 1 ELSE None
TransactionHash(h, e) == IF h \in Pass THEN Log[e].tx ELSE None

(* Mutant of Advanced: the cursor goes past the newest block.              *)
AdvancedPast(h, e) == IF h \in Pass THEN head + 1 ELSE None

(* The value lastBlock gets from the event in hand; undefined + 1 is NaN.  *)
Advanced(h, e) == BlockNumber(h, e)

(* Mutant of NextEvent: the handler of the last event is not done.         *)
SameStage(h, e) ==
    /\ todo' = [todo EXCEPT ![h] = @ \ {e}]
    /\ stage' = [stage EXCEPT ![h] = "handle"]
    /\ lastBlock' = Advanced(h, e)
    /\ UNCHANGED <<head, passVars, delivered, raced>>

NextEvent(h, e) ==
    /\ todo' = [todo EXCEPT ![h] = @ \ {e}]
    /\ stage' = [stage EXCEPT ![h] = IF todo[h] = {e} THEN "idle" ELSE "handle"]
    /\ lastBlock' = Advanced(h, e)
    /\ UNCHANGED <<head, passVars, delivered, raced>>

(* A successful operation is removed from the mempool, a reverted one is   *)
(* marked failed, if it is there.                                          *)
Settle(h, e) ==
    /\ Handling(h, e, "handle", UserOperationEvent)
    /\ fate' = [fate EXCEPT ![e] =
                  IF @ = "removed" \/ Log[e].success THEN "removed" ELSE "failed"]
    /\ stage' = [stage EXCEPT ![h] = "lookUp"]
    /\ credited' = credited \cup Included({Log[e].about})
    /\ UNCHANGED <<head, cursorVars, passVars, todo, named, delivered, raced>>

(* Mutant of AggregatorNow: one from another transaction is kept.          *)
AggregatorKept(h, e) == eventAggregator

(* getEventAggregator forgets an aggregator of another transaction.        *)
AggregatorNow(h, e) ==
    IF TransactionHash(h, e) = eventAggregatorTxHash THEN eventAggregator ELSE None

LookUp(h, e) ==
    /\ Handling(h, e, "lookUp", UserOperationEvent)
    /\ eventAggregator' = AggregatorNow(h, e)
    /\ eventAggregatorTxHash' = TransactionHash(h, e)
    /\ named' = [named EXCEPT ![e] = @ \cup ({AggregatorNow(h, e)} \ {None})]
    /\ credited' = credited \cup Included({AggregatorNow(h, e)} \ {None})
    /\ stage' = [stage EXCEPT ![h] = "advance"]
    /\ UNCHANGED <<head, lastBlock, passVars, todo, fate, delivered, raced>>

AdvanceCursor(h, e) ==
    /\ Handling(h, e, "advance", UserOperationEvent)
    /\ NextEvent(h, e)
    /\ UNCHANGED <<eventAggregator, eventAggregatorTxHash, effectVars>>

HandleAccountDeployed(h, e) ==
    /\ Handling(h, e, "handle", AccountDeployed)
    /\ credited' = credited \cup Included({Log[e].about})
    /\ NextEvent(h, e)
    /\ UNCHANGED <<eventAggregator, eventAggregatorTxHash, fate, named>>

HandleAggregatorChanged(h, e) ==
    /\ Handling(h, e, "handle", SignatureAggregatorChanged)
    /\ eventAggregator' = Log[e].about
    /\ eventAggregatorTxHash' = Log[e].tx
    /\ NextEvent(h, e)
    /\ UNCHANGED effectVars

HandlerStep(h) ==
    \E e \in todo[h] :
        \/ Settle(h, e)
        \/ LookUp(h, e)
        \/ AdvanceCursor(h, e)
        \/ HandleAccountDeployed(h, e)
        \/ HandleAggregatorChanged(h, e)

PassStep(d) ==
    \/ Initialize(d)
    \/ \E k \in Kinds : Answer(d, k) \/ LastAnswer(d, k)
    \/ QueryFails(d)
    \/ HandlerStep(d)

EventNext ==
    \/ Mine
    \/ \E e \in Heard : Deliver(e) \/ HandlerStep(e)
    \/ \E d \in Pass : BeginPass(d) \/ PassStep(d)

(* A handler that was begun goes on: it awaits the state and the provider, *)
(* and every query is answered or fails.  Nothing is assumed of the chain, *)
(* the listener or the attempts.                                           *)
EventSpec ==
    /\ EventInit /\ [][EventNext]_vars
    /\ \A e \in Heard : WF_vars(HandlerStep(e))
    /\ \A d \in Pass : WF_vars(PassStep(d))

-----------------------------------------------------------------------------
(* Properties.                                                             *)

Settled(e) == fate[e] # "pooled"

InHand(e) == \E h \in Handler : e \in todo[h]

(* The events of the window a pass without a cursor would look at, without *)
(* those mined while a pass had some of its three answers and not yet all. *)
Expected == {e \in UserOpEvents : Block(e) <= head /\ Block(e) >= head - LookBack} \ raced

(* The cursor never passes an operation whose event nobody has handled or   *)
(* has in hand, although passes and the listener move it concurrently,     *)
(* each to the block of whatever it handled last, and the listener may     *)
(* have missed the event.                                                  *)
NoEventSkipped ==
    \A e \in Expected :
        lastBlock # None /\ Block(e) < lastBlock =>
            Settled(e) \/ InHand(e)

(* An operation is credited to an aggregator of its own transaction or to  *)
(* none: events come grouped by kind and are handled concurrently, and one *)
(* pair of variables remembers the aggregator for all of them.             *)
AggregatorOfOwnBundle ==
    \A e \in UserOpEvents : \A a \in named[e] :
        \E c \in AggregatorEvents : Log[c].tx = Log[e].tx /\ Log[c].about = a

(* As long as attempts go on to query events and are answered, again and   *)
(* again every operation mined is settled, unless the window has moved     *)
(* past it or it was mined between the answers of one pass.                *)
EveryEventHandled ==
    []<><<\E d \in Pass, k \in Kinds : LastAnswer(d, k)>>_vars =>
        []<>(\A e \in Expected : Settled(e))

(* The sender of an operation whose event was handled has been credited    *)
(* with an inclusion, which is what includedAddress is called for.         *)
InclusionIsCredited ==
    \A e \in UserOpEvents : Settled(e) /\ ~InHand(e) => Log[e].about \in credited
=============================================================================
