----------------------------- MODULE HourlyCron -----------------------------
(***************************************************************************)
(* The hourly decay of the reputation ledger.  startHourlyCron reads the   *)
(* ledger once and installs an interval; each tick then walks the entries  *)
(* of that first reading, with an await for every one of them, so that     *)
(* other calls come in between.  Ledger entries are never modified in      *)
(* place, so what was read once stays what it was.                         *)
(***************************************************************************)
EXTENDS Reputation

CONSTANT
    Restartable     \* may startHourlyCron be called again?  index.ts calls
                    \* it once, before the first operation arrives
ASSUME CronAssumption == Restartable \in BOOLEAN

VARIABLES
    captured,   \* the ledger as startHourlyCron read it
    ticking,    \* is the interval's callback running?
    todo        \* the accounts it has still to visit

cronVars == <<captured, ticking, todo>>

CronTypeOK ==
    /\ RepTypeOK
    /\ captured \in [Account -> Entry]
    /\ \A a \in Account : captured[a].opsSeen >= MinOps
    /\ ticking \in BOOLEAN
    /\ todo \subseteq Account
    /\ ~ticking => todo = {}

Known(ledger) == {a \in Account : ledger[a].known}

(* The state index.ts is in when startHourlyCron has returned.             *)
CronInit ==
    /\ RepInit
    /\ captured = [a \in Account |-> Unknown]
    /\ ticking = FALSE
    /\ todo = {}

(* The interval of an earlier call is cleared first.                       *)
StartHourlyCron ==
    /\ Restartable
    /\ ~ticking
    /\ captured' = reputationEntries
    /\ UNCHANGED <<ticking, todo, repVars>>

Tick ==
    /\ ~ticking
    /\ ticking' = TRUE
    /\ todo' = Known(captured)
    /\ UNCHANGED <<captured, repVars>>

(* Mutant: each count decays by itself.                                    *)
DecayedApart(e) ==
    IF e.opsSeen = 0 /\ e.opsIncluded = 0 THEN Unknown
    ELSE NewEntry((e.opsSeen * 23) \div 24, (e.opsIncluded * 23) \div 24)

(* Both new counts come from the opsSeen that was captured.                *)
Decayed(e) ==
    IF e.opsSeen = 0 /\ e.opsIncluded = 0 THEN Unknown
    ELSE NewEntry((e.opsSeen * 23) \div 24, (e.opsSeen * 23) \div 24)

Decay(a) ==
    /\ a \in todo
    /\ todo' = todo \ {a}
    /\ reputationEntries' = [reputationEntries EXCEPT ![a] = Decayed(captured[a])]
    /\ UNCHANGED <<captured, ticking, whiteList, blackList>>

(* Mutant: the tick is taken to be over before all accounts are visited.   *)
TickEndsEarly ==
    /\ ticking
    /\ ticking' = FALSE
    /\ UNCHANGED <<captured, todo, repVars>>

TickEnds ==
    /\ ticking
    /\ todo = {}
    /\ ticking' = FALSE
    /\ UNCHANGED <<captured, todo, repVars>>

(* A call of the bundler between two awaits of the tick.                   *)
OtherCall == RepNext /\ UNCHANGED cronVars

CronNext ==
    \/ StartHourlyCron
    \/ Tick
    \/ \E a \in Account : Decay(a)
    \/ TickEnds
    \/ OtherCall

CronSpec == CronInit /\ [][CronNext]_<<repVars, cronVars>>

-----------------------------------------------------------------------------
(* A visit of the decay loop never makes an entity's standing worse, though *)
(* it writes counts computed from a reading that other calls have made     *)
(* stale by then: as long as the count it starts from is not negative      *)
(* (taking operations back has no floor), both new counts are the same.    *)
DecayNeverDegrades ==
    [][\A a \in Account :
         Decay(a) /\ captured[a].opsSeen >= 0 =>
            Rank(GetStatus(a)') <= Rank(GetStatus(a))]_<<repVars, cronVars>>

(* reputation-manager.ts: the hourly run reduces the counts of every entry *)
(* of the ledger; so a tick has all known accounts to visit.               *)
TickCoversLedger ==
    [][Tick => Known(reputationEntries) \subseteq todo']_<<repVars, cronVars>>
=============================================================================
