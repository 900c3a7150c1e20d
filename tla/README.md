# Verification of the opnode bundler

The bundler takes ERC-4337 user operations over JSON-RPC, validates them, keeps them in a mempool,
puts them into bundles that it sends to an EntryPoint contract, and follows the contract's events to
learn what became of them. It limits abuse by keeping a reputation for every address that takes part in
an operation. Everything is one Node.js process: there are no threads, but nearly every function is
`async`, and calls of several RPC requests, of the bundling interval, of the event listener and of the
hourly timer are interleaved wherever one of them awaits. Nothing is persisted: a restart is a fresh
start, so crash recovery is not a concern of this program; lost time is.

All source paths below are relative to `src/src/`.

## 1. Inventory

| Part | State | Operations that change it | What makes it correct |
|---|---|---|---|
| state (`state/state.ts`) | the one `State` object, a mutex | `updateState` | a write replaces whole keys under the mutex; a read hands out the live objects |
| mempool (`mempool/`) | `standardPool`, `mempoolEntryCount`, `bundleTxs` | `addUserOp`, `removeUserOp`, `removeUserOpsForBannedAddr`, `getNextPending`, `getAllPending`, `updateEntryStatus`, `clearState`, `addBundleTxnConfirmation` | one entry per sender and nonce, quotas, roles, standing of every entity, a replacement pays more |
| reputation (`reputation/`) | `reputationEntries`, `whiteList`, `blackList`, the cron's captured entries | `updateSeenStatus(Batch)`, `updateIncludedStatus`, `crashedHandleOps`, `setReputation`, `addWhitelist`, `addBlacklist`, `clearState`, the hourly decay | standing degrades step by step, a crash bans at once, lists are binding, decay forgives |
| deposit (`deposit/`) | none (reads the pool and the chain) | `checkPaymasterDeposit` | pooled operations never cost a paymaster more than its deposit |
| bundle builder (`bundle/bundle-builder.ts`) | the accumulator of one `createBundle` call | `createBundle` | every entry has one fate; gas, deposit, sender and throttling limits |
| bundle manager (`bundle/bundle-manager.ts`) | mode, interval, its own mutex | `doAttemptBundle`, `setBundlingMode`, the interval | no operation is sent twice; an entry taken is given back, removed or sent |
| bundle processor (`bundle/bundle-processor.ts`) | none; the transactions it broadcast | `sendBundle` | the entity blamed for a revert is the accountable one; nothing is in two transactions that may be executed |
| event manager (`event/`) | `lastBlock`, the current aggregator and its transaction | `handlePastEvents`, the listener, `filterLogs` | every event is handled; the cursor never skips a block; logs are those of the operation asked for |
| validation (`validation/`, `utils/validation.utils.ts`) | none | `validateInputParameters`, `validateUserOp`, `checkValidationResult` | what is admitted has the signatures and is in the time range of both; what executes has the code that was traced |
| simulator (`sim/sim.ts`) | none | `partial` and `fullSimulateValidation`, `runNativeTracer`, `simulateHandleOp`, `getCodeHashes` | every answer of the node becomes a result or an error |
| tracer and its parser (`sim/tracer.js`, `sim/parseTracerResult.ts`) | the collector's fields during one trace | `enter`, `exit`, `step`; `tracerResultParser` | what is accepted broke no opcode, call or storage rule; what broke none is accepted |
| RPC (`rpc/`) | none | the checks of a request, dispatch, the answer, `eth_*`, `web3_*`, `debug_*` | every request gets one well-formed answer |
| gas (`gas/`) | the gas configuration | `calcPreVerificationGas`, `updateGasConfig` | an operation pays for its share of the bundle |
| either (`monad/`) | none | `map`, `flatMap`, `fold` | an error ends the chain it occurs in |
| boot, provider, signer, config, metrics, p2p, logger, abis, contracts, utils | none of the program's own logic | | |

**Interactions.** `eth_sendUserOperation` validates the operation (simulation on a node), then calls
`addUserOp`, which reads the pool, the ledger and the paymaster's deposit, writes the pool and then the
ledger, and the answer is converted to hexadecimal. The interval (or `debug_bundler_sendBundleNow`) calls `doAttemptBundle`: `getNextPending` marks
entries `bundling`, past events are handled, `createBundle` sorts the entries, those left out are set back
to `pending`, those refused are removed (and a paymaster's `opsSeen` may be taken back), the bundle is
broadcast and its transaction waited for, without a timeout, and if it reverts the accountable entity is banned and its operations are
removed. The wait may also end with the transaction still to be mined. Events remove
operations from the pool and are meant to credit entities with inclusions. Once an hour a timer decays the ledger.

**What is hard.** Every manager reads state, awaits, and acts on what it read. The mempool even keeps the
*objects* it read: `getState` hands out the live ones; deletions are made in place and so are seen by
everyone who holds the object, additions go to a copy that takes its place and so are not. Addresses are
strings in either case, lower-cased in some places and not in others. Several lists are processed entry by
entry with an await each, so a failure in the middle leaves the rest undone. The `hazards` of
`PROJECT.json` name every such place with its line and the properties aimed at it.

## 2. Modules

| Module | Models |
|---|---|
| `Entities` | addresses and their spellings, operations, the roles an address has in an operation, the order in which entities are checked |
| `Reputation` | the reputation manager: `RepSpec` is any sequence of its calls |
| `HourlyCron` | `startHourlyCron` and its tick, one action per visited account, with every other ledger call in between |
| `Mempool` | the mempool manager with its helper functions, the deposit manager, and the state service's aliasing, one action per stretch of code between two awaits |
| `BundleBuilder` | one `createBundle` call, with the ledger changing at its awaits |
| `AtomicMempool` | the abstract specification of the mempool: every call takes effect at once |
| `MempoolOverlap` | `Mempool` with the history of what other calls change during a call's awaits: when a call that overlaps others is still atomic |
| `Bundler` | the bundle manager and the bundle processor, composed with `Mempool` and `Reputation`: attempts of the interval and of `sendBundleNow`, the transactions they broadcast, the events, the users |
| `EventManager` | the listener and `handlePastEvents`, both running the same handler and moving the same cursor |
| `Tracer` | the collector, driven by arbitrary steps of the EVM, and the parser that judges what it collected |
| `Either`, `FilterLogs`, `Validation` | pure parts: results and errors, the logs of one operation, the checks of a request and of what a simulation returned |
| `Requests` | the RPC server with the handlers of several clients at a time, the second validation, the chain |
| `MCHourlyCron`, `MCMempool`, `MCMempoolOverlap`, `MCBundleBuilder`, `MCBundler`, `MCEventManager`, `MCTracer`, `MCRequests` | the instances for TLC |
| `ReputationProofs`, `HourlyCronProofs`, `MempoolProofs`, `BundleBuilderProofs`, `BundlerProofs`, `EventManagerProofs`, `TracerProofs`, `RequestsProofs` | the theorems, one module for each module they are about |

**Correspondence.** `reputationEntries`, `whiteList`, `blackList`, `standardPool`, `mempoolEntryCount` are
the keys of `State` (`state/state.types.ts`). A key that is missing from an object is a default value of
the function that models it (`Unknown`, 0). `Entity` spellings: `Address` is the set of strings, `Lower` is
`toLowerCase`, and each comparison in a module is made on what the code compares: `Lower[..]` where the
code lowers, the spelling where it does not.

In `Mempool`, `standardPool` is a set of keys with the order they were inserted in (a JavaScript object
keeps it: `getNextPending` and `findBySenderNonce` depend on it), and `entryStatus` is the status in each
entry object. `call[p]` is the call process `p` is in: where it stands and its local variables.
`poolView[p]` and `countView[p]` are the objects it holds: *live* while they are the state's own, a value
of their own from the moment some call replaces the object (`ReplacePool`, `ReplaceCount`), and changed
together with the state's by deletions in place (`ChangePool`, `ChangeCount`). Entry objects themselves are
changed in place by `getNextPending` and replaced by `updateEntryStatus`; nothing that holds an old one
reads its status, so one status per hash is enough.

`addUserOp` is the sequence `AddUserOp` (deposit check), `Snapshot` (`getState`), `ClassifyAs...` (look for
an entry to replace and compare the fees), `CheckEntity` for each entity in the code's order (banned,
throttled, quota and stake), `CheckRoles`, `Commit...` (the `updateState` call, in the mutex), `SeenSender`,
`SeenHelpers`. The up to four reads of the ledger for one entity are one action; everything between two
entities may interleave. A refusal is `Refuse`. The other calls are a read and a write action each.

In `BundleBuilder`, one entry takes up to three actions: the statuses, the second validation and the
balance are awaited, and `LedgerStep` comes in between. What the validation says the operation touched is
any set of accounts, its failure is `FailsValidation`; the only use of the touched storage is the comparison
with the other known senders. `paymasterDeposit` is a function into the naturals where 0 stands for a
missing key as well, because the code does not tell the two apart.

In `Bundler`, `attempt[d]` is where driver `d` stands in `doAttemptBundle`, with its local lists; the calls it
makes are `Mempool`'s and `Reputation`'s own actions, so everything else interleaves with them. `queue` is the
mutex: its head is the holder, and to release it is to take the head off. `ClearPaymaster` takes operations back while more than `MinOps` were seen. `End` is every way an attempt can end, the `catch` of the interval included.
`executed` is what the chain knows: an operation's nonce is used once, and validation refuses it then.
`Broadcast` puts the bundle into `flight`, where `Mine` finds it when the chain gets to it, which may be while the attempt waits,
after it has ended (`WaitEnds`: a receipt, an error, or the searcher's call, which does not wait) or never; `handleOps` executes all of it,
each operation with an outcome of its own, or reverts or is dropped as a whole. `SendFails` and `SendReverts` are the failures before
the broadcast: gas is estimated then, and the estimation shows the revert.
Entries are read and marked without a call of the provider in between, so only continuations of promises run there; a timer's callback and an
HTTP request come in turns of the event loop of their own. Hence two picks do not interleave (`MayBegin`), whether they share the mutex or not.
`resent` and `abandoned` are history variables: the former records what was sent again while the pool, an attempt, a transaction in flight, an update or
another addition had it, the latter which entries an attempt left marked: those of a bundle that was
sent or lost, and those of an attempt cut short by an error, for which the code does nothing. What `createBundle`
decides is arbitrary here; `BundleBuilder` models which decisions it makes.

In `EventManager`, the chain is a constant, `Height` blocks and the events in them, and `Mine` shows the next one. A handler
is a pass (`handlePastEvents`, called by each attempt) or a call of the listener for one event, which may come late, in any
order, or never; `todo` is what a handler has in hand and `stage` where it awaits. `lastBlock` is `None` for `null` and
for the `NaN` that the listener leaves: the payload ethers hands it has no block number of its own. A pass without a cursor asks for the
newest block first (`Initialize`); the three queries are sent at once and each sees the chain of the moment it
is answered (`waiting` are the kinds that are not, `answer` what the others returned), then the events are handled kind by kind and in the
order of their places. `Log` says of each event its kind, block, place, transaction and whom it is about. `fate` stands for the entry in the pool. `named`, `credited`
and `raced` are history.

In `Tracer`, each action of the EVM is an instruction of the contract on top of `frames`, and what the collector's `step`
makes of it: `callsFromEntryPoint` holds one level per entity, `calls` what `enter` and `exit` record, and the window of the three last
opcodes with `lastOp` decides about `EXTCODE*` and `GAS` one step later, as in the code. A slot is the
address it was hashed from and the distance from the hash, which is all `parseEntitySlots` finds out about it. `Parse`
evaluates `Accepts` for every set of staked entities at once. Contracts that entities call, and those they call in turn, run the same
instructions as the entities, and are put down to the entity at the top as in the code; the precompiles (addresses 1 to 9) have no code and may be touched all the same
(`isAllowedPrecompiled`). `executed` is history: the steps really
taken, each with the one before where that matters; the properties compare the verdict with it and never with
the collection.

In `Requests`, `pc[c]` and `local[c]` are where the handler of client `c` stands and its variables; everything between two
awaits is one action. A chain of calls is a composition of `FlatMap`s in the order of the code, and a call that throws is
a third case beside `Left` and `Right` (`Thrown`), which `Respond` catches as `createApp` does. A node answers a call with a
result, a known revert, one that cannot be decoded, or not at all. `pool` holds the result an operation was admitted with, and
the moments at which its contracts were traced and hashed; `TakeUp`, `CompareCode` and `SimulateAgain` are the second validation
of `createBundle`. `code` is a version number of the contracts' code. Mempool and ledger are reduced to what the handlers
read back: whether an operation is in the pool, whose sender and nonce it takes and what it pays, and the paymaster's `opsSeen`. `debug_bundler_addUserOps` goes through its list entry
by entry (`AddNext`): an operation for a taken slot replaces what is there without a validation if it pays a tenth more (`Unvalidated`) and is skipped if it does not, since nobody looks at
the refusal; one for a free slot throws, having no sender info, and the rest of the list is dropped. `sendBundleNow` waits for an attempt (`SendBundleNow`, `BundleSent`).
An error that is thrown keeps its own code: one of `RpcError`'s, or for the node's failures (`NodeFails`) a string of ethers such as `CALL_EXCEPTION`, although
`JsonRpcErrorResponse` has a number there; one without a code gets the server's.

`AtomicMempool` is a set of operations with a status each, and `MempoolOverlap` says how far `Mempool` implements it under the mapping
`pooled <- standardPool.keys`, `status <- entryStatus`: the commit of `addUserOp` is `Admit` or `Replace`, a write of
the pool is `Drop`, the marking of what `getNextPending` found is `HandOut`, and all other actions stutter. `touched[p]` are the entries other
calls changed since `p`'s call looked at the pool, and `Relies(p)` those its next write depends on: the entries that would keep a new operation out, the one a
replacement replaces, the ones a removal, a status update or a hand-out found. A write with both in common is *overtaken*. It need not be
one of the steps of `AtomicMempool`; any other write is. `raced` are entries that share a sender and nonce since an overtaken write.

**Simplifications.** Operations are the fields decisions read. `maxCost` stands for `getUserOpMaxCost` and
`Gas` for `preOpGas + callGasLimit`. The fee rule compares doubles (`old * 1.1`); at exactly ten percent
rounding decides, so `Raises` and `FailsToRaise` both hold there. Bytes are never looked at: the cost of an
operation's own bytes is an input of `Validation`; a field is there or not (`present`), and in hexadecimal form or not (`hex`): `requireAddressAndFields` compares
with null only, the other checks ask for the form. `OtherReputationChange` and `LedgerStep`
stand for what the bundle manager does to the ledger. Inclusions are left out of `Mempool` and
`BundleBuilder`: `includedAddress` (`event-manager-with-reputation.ts:82`) takes only strings longer than
42 characters and an address has exactly 42, so no call of `updateIncludedStatus` ever comes from an event.
`Reputation` models the operation all the same.

## 3. Runs

All thresholds are scaled down so that each status is a few calls away; what the properties use is
their order (`ThrottlingSlack < BanSlack`, the penalty past the ban slack), which `ReputationAssumption`
states and the code's 10, 10, 50 and 10000 satisfy. `MinOps` and `MaxOps` bound the counts, by guards named
`SeenBelow`/`WithinBounds` and `> MinOps`; the real counts have no bound, and the theorems do not depend on
which bounds are chosen.

| Run | Instance | Shows |
|---|---|---|
| `reputation` | one account in two spellings, denominator 2, counts -2..2 plus a penalty of 6, cron restarted at will | types, and what an operation seen, a crash and a decay may do to a standing |
| `mempool_overlap` | a process that adds an operation, another whose paymaster is the first one's sender, and one of a black-listed sender; beside it one that makes any call, additions of a replacement in two spellings among them; quota 1 | each call is one atomic step (`AtomicMempool`) unless it was overtaken, two entries share a slot only by such a race, no black-listed sender, replacements pay more |
| `mempool_adders` | two processes adding five operations of three senders, with a factory, a paymaster whose deposit covers one operation, and a black-listed aggregator among them, a remover, crashes and take-backs of the paymaster; quota 1 | counts of pure senders stay exact, quota and deposit are overshot by at most the calls in progress, every role passes the lists |
| `bundle_builder` | five entries, two sharing a paymaster in one spelling of the sender each, one factory; gas for four, deposit for two | one fate per entry, gas, senders, throttling, and the call returns or fails |
| `bundler` | two callbacks and a user with two operations for one slot, the second with a paymaster; each can be blamed | the mutex; attempts end and it is passed on, unless a transaction is waited for without end |
| `bundler_forced` | a callback, a forced bundle, the listener and a user with two operations for one slot, the second for a higher fee | nothing is taken twice, forgotten, in two bundles that may be executed, or retried after a revert (below on what is sent again) |
| `events` | three blocks: an aggregated bundle, a deployment with an operation that reverts, another aggregated bundle; one pass at a time, a listener for two of the three operations; a window of one block | the cursor never passes an unhandled event, aggregators are never mixed up, every event is handled in the end |
| `tracer` | factory, account and paymaster, a token, a precompile and a contract without code; three instructions, returns and hashes apart; the last slot of a structure, the first past it, one of the paymaster's | accepted entities kept the storage, opcode and call rules, and a harmless account needs no stake |
| `requests` | two clients with one request each, of fourteen; two sponsored operations of one slot, of which one pays a tenth more; time 1 and 2; modes `unsafe` and `native`; signatures that begin late, end early or are missing | what is admitted was valid or listed for `debug_bundler_addUserOps`, what executes was traced with its code, receipts miss no log of the operation, every request is answered |

Both mempool runs check `OverlapSpec`, which is `MempoolSpec` with two history variables that hinder no step. Its next-state relation is a
conjunction, which TLC counts as one action; its coverage by line (`-coverage`) shows every action of `Mempool` taken in `mempool_overlap`, but for
the crashes and take-backs, which `mempool_adders` takes. Two processes are enough for the races of `addUserOp`: each keeps what it read in its own view,
and a third could only repeat what the second does to it (the theorems are about any number). Three rivals for one slot are needed for a
replacement whose target was replaced meanwhile. Two blocks past the window would repeat the third; a
window of one block (1000 in the code) makes the second pass look at a part of the chain only. Attempts of the interval and of
`sendBundleNow` may overlap; with `Pass = {"tick", "forced"}` and no listener the invariants of `events` hold as well (1,090,613 states), which
is too many for the liveness property beside them. `bundler` leaves out the listener and the forced bundle, which take no mutex; the safety of an attempt is `bundler_forced`'s question, with
a single callback, since a forced bundle overlaps it as another one never would. Three instructions are
enough for every pair the collector looks at (`GAS` and the next one, an `EXTCODE*` and what follows it) with another access beside it,
and for a write before and after a read of the same slot. Two clients, because handlers share nothing but the pool, the ledger and
the gas configuration, each of which one request writes and another reads.

Premises in the properties, and why they are there. `NoEventSkipped` and `EveryEventHandled` leave out the events mined between two answers
of one pass (`raced`): the pass may have its answer for one kind from before that block and handle an event of another kind in
it, which moves the cursor past the former; the listener is then the only one left to notice it. `SecondTraceSameCode` leaves out a
change of code between a trace and the call that hashes it, which are two calls of the node. `DepositOvershootIsBounded` is about a
paymaster whose operations cost the same; with different costs there is no bound (below). `AdmittedWasValid` leaves out what a
`debug_bundler_addUserOps` has listed, and nothing else that has no validation is pooled. `EveryRequestAnswered` leaves out a `sendBundleNow` that waits for its transaction, `AttemptsEnd` attempts
that wait without end: `wait()` (`bundle-processor.ts:162`) has no timeout, and a transaction that is never mined holds the interval's mutex for ever. `OpcodeRulesHold` lets `GAS` stand before what the collector
takes for a call because of its name (`TakenForCalls`, below). `RevertedNotRetried`, `SentOnce` and `TakesPendingOnly` leave out the operations that were sent again while
the bundler had them in hand (`resent`, a history variable): an operation that an attempt has taken is
replaced in the pool by another of its sender, and sent again; it is validated, for it has not been executed yet; then
the bundle with it is mined and it reverts; its replacement is evicted as invalid; and now the addition that was validated puts it into the pool as new and pending. An
attempt picks it, and an event of the first execution, handled once more, sets it to `failed` before it is marked. The chain refuses it a second
time, so nothing but work is lost. TLC finds this against `RevertedNotRetried` without the exception when `MaxOps` is 2; with the run's `MaxOps = 1` no operation enters the pool
a second time after it was counted, and the exception of `RevertedNotRetried` and `SentOnce` is not used. The theorems have no such bound and need it.

These runs find what the code does not keep of what its documentation says, each with its trace; the
quotations are in `findings`.

| Run | Refuted | Why |
|---|---|---|
| `hourly_cron_boot` | a tick visits every known account | the cron captured the ledger at boot, when it was empty; updates replace the object (`:61,81`) |
| `events_inclusion` | the sender of a handled event is credited with an inclusion | an address has 42 characters and more than 42 are asked for (`event-manager-with-reputation.ts:82`) |
| `receipts` | a receipt has only the logs of its operation | `filterLogs` takes `endIndex == -1` for "not found yet", but `BeforeExecution` has set it, so the logs of earlier operations of the bundle stay (`event-manager-with-reputation.ts:229`, `Found`) |

Divergences the model follows without a run of their own, by component:

- *Mempool.* Look-up and write are in different critical sections (`mempool-manager.ts:89,119`), so overlapping additions may
  put two entries into one slot, against `mempool.types.ts:25`, and give an address two roles; hence `AtomicUnlessOvertaken` and `DoubledOnlyByRace`, which say
  that nothing else does. A replacement skips the reputation and the roles checks (`mempool-helper.ts:334-349`), so an operation with a banned paymaster, or one whose paymaster is
  the sender of another, enters that way even with no other call about, against
  `mempool.types.ts:113`; hence `NewEntriesPassTheLists`, and no property about roles. With fees of zero an operation replaces itself. An entry that is removed
  while its status is updated comes back (`mempool-manager.ts:281`, `SetStatus`). Removing an entry lowers only the sender's count,
  once for every call that found the entry, and the paymaster's and factory's stay (`mempool-manager.ts:181`, `Remove`;
  `mempool_adders` has one remover for this reason). A ban of a paymaster deletes the whole count of every
  sender found with it, so that the sender's quota starts again although it has entries left (`mempool-manager.ts:214`, `BanRemove`); the
  quota is therefore no invariant of the pool.
- *Deposit.* The new operation's cost is charged for every pooled one (`deposit-manager.ts:38`, against `:11`), so
  a cheap operation after expensive ones exceeds the deposit.
- *Reputation.* Members of the lists are stored as they came and looked up in lower case, so a checksummed
  one has no effect (`reputation-manager.ts:122,192`, `GetStatus`). A white-listed entity at its quota is asked for a stake
  although the comment says it need not have one (`reputation-manager.ts:398`, action `RefuseUnstaked`).
- *Bundle builder.* Senders are compared as spelled (`bundle-builder.ts:116`, `DuplicateSender`; hence `SpelledSendersDiffer`). A
  remembered deposit of exactly zero is fetched again (`:192`, against `:237`), so a bundle may exceed a deposit it used up.
- *Events.* The listener's payload has neither block
  number nor transaction, so a call of it makes the next pass begin anew 1000 blocks back, and it never knows the aggregator.
- *Tracer.* The collector takes every opcode with CALL in its name for a call (`tracer.js:147`), `CALLER` and `CALLDATALOAD` too, so `GAS` before
  one of these is not seen (`TakenForCalls`), although the rule allows it before a call only.
- *Validation.* That an operation expires soon, has an aggregator or is short of verification gas is noticed, but the error
  is built and not returned (`validation-service.ts:99-123`, `CheckValidationResult`).
- *Estimate.* A state override in the request takes the place of the simulation code instead of being added to it
  (`SimulateHandleOp`), although `Eth.ts:160-165` offers the override.
- *Debug.* `addUserOps` passes no sender info, so it throws for the first operation whose sender and nonce are free and drops the rest of the list
  (`Debug.ts:144`, `AddNext`), although it is to "accept them directly" (`Debug.ts:133-134`); only what outbids a pooled operation gets in.
- *Server.* A result with a negative number or with Infinity cannot be printed; what that throws in `createSuccessResponse` is caught there, but
  nothing is returned, and the server folds that outside its `catch` (`rpc-handler.ts:29`, `rpc-server.ts:58`, `Respond`): a ledger dumped after an operation was
  taken back below zero, or an estimate with a bundle size of 0, ends the process.

`DecayNeverDegrades` has a premise: the captured count is not negative. `updateSeenStatus('decrement')` has no
floor, and a negative `opsSeen` decays to an equally negative `opsIncluded`, which may cost a standing.

**Fairness.** `BundleSpec` has `WF(BuilderStep)` and `BundlerSpec` has `WF(AttemptStep(d))` for each driver: every
await of `createBundle` and of an attempt is a call of the provider or of the state; the former ends in an
answer or an error, both of which are actions (`BalanceFails`, `AttemptFails`, `SendFails`), the latter always ends. `WaitEnds` is no part of
`AttemptStep` and not fair, nor is `Mine`: nothing ends the wait for a transaction. `Begin` is strongly fair: an attempt that may begin is kept from it only for the moment another one marks its entries.
Nothing keeps a resolved promise from continuing, and `async-mutex` serves in order. No fairness is assumed of the ledger's
other users. `EventSpec` has `WF` for each handler that was begun (`HandlerStep`, `PassStep`): it awaits the state and the provider, and a
query is answered or fails. Nothing is assumed of the chain, the listener or the attempts; that attempts go on and are
answered is the premise of `EveryEventHandled`. `RequestsSpec` has `WF(ClientStep(c))` for each client: every await of its handler is
settled one way or the other, but for `sendBundleNow`'s (`BundleSent`, not fair). `BundleBuilder` (the call has returned), `EventManager` (the chain ends), `Tracer` (the verdict is given) and
`Requests` (all are answered) may stop, so their configurations do not check deadlock; the others do.

## 4. Proofs

`tlapm` checks every proof, for any number of processes, operations, accounts, callbacks, clients, blocks and contracts. The
assumptions are the named `ASSUME`s of the modules, which TLC evaluates on every instance: `AddressAssumption` and `UserOpAssumption`
(types; lower-casing is idempotent), `ReputationAssumption` (the order of the thresholds), `CronAssumption`, `MempoolAssumption`,
`BundleAssumption` (no entry is listed twice), `BundlerAssumption` (callbacks, forced bundles and the listener are different
processes), `EventAssumption` (every event has a block of the chain and a place of its own), `ValidationAssumption`, `RequestsAssumption`
(types; what is listed are operations),
`TransactionAssumption` (the transaction of an operation logs its execution as the EntryPoint does: `BeforeExecution` once, later the operation's event once, and what the
operation logs itself in between) and `TracerAssumption` (types; the EntryPoint is no entity of an operation; an opcode the collector treats like any other is none of those it treats in a way of its own). Each proof
module extends the module it is about; an invariance proof is `Init => Inv`, one lemma per action or kind of action for the step, and one
temporal step. Where a theorem has hypotheses of its own, they are named definitions in the proof module and say why they are needed.

**Ledger (`ReputationProofs`).** `RepTypeOK` is inductive by itself. The arithmetic is in four lemmas on the quotient
(`DivFacts`, `DivMonotonic`, `DivStep`) and one lemma per change of an entry (`SeenOnce`,
`UnseenOnce`, `IncludedOnce`, `CrashBans`). From `[]RepTypeOK` alone follow `DegradesGradually` (the quotient grows
by at most one and the slacks are at least one apart), `CrashBansAtOnce` (no count is below `MinOps`, and the
penalty outweighs the slack from there) and `InclusionNeverDegrades`, so they hold of every system that
keeps the ledger well formed: `RepSpec` and `CronSpec` both do.

**Decay (`HourlyCronProofs`).** `CronTypeOK` is inductive (a decayed count is a count and not below `MinOps`). `DecayNeverDegrades`:
both new counts are the same number, and a quotient of a natural number is at most that number.

**Mempool (`MempoolProofs`), whatever calls are interleaved.** `TypeInv` (`MempoolTypeOK` and where each call can stand with which
locals) is the base of everything else. `ReplacementPaysMore`
needs `ReplacementInv`: a call that is about to commit a replacement found an entry of its slot and pays
more than it; this is about the operation found, not the pool of the moment, which is why it survives
everything other calls do meanwhile. `NewEntriesPassTheLists` needs `ListsInv`: each entity before
`place` has been checked, and the lists are never changed after boot. `NoBlackListedSender` needs
`SendersInv`, which extends the claim from the pool to what calls hold on to (the entry an
`updateEntryStatus` may bring back, the entry a replacement found: it has the same sender).

**Mempool, additions and removals in progress together.** How far the checks of `addUserOp` can be overshot is a count of calls:

| Theorem | Invariant | Hypotheses, and what happens without them |
|---|---|---|
| `MempoolOvershootIsBounded` | `ConcurrentInv`: the entries of an unstaked sender and the calls that may still add one (`Hopefuls`: past the quota, or looking at a count below it) are at most the quota and all adders but one; a count is never below the entries it is for | `SomeAdders` (finitely many, at least one); `AdditionsAndRemovals`: no ban and no `clearState` (they drop entries other calls have found), no `updateEntryStatus` and no replacement (a stale one brings an entry back that is not counted), one remover (two removals of one entry lower the count twice) |
| `MempoolSenderCountExact` | `ExactInv`: a call that has found its operation to be new is right although the object it looked at may have been left behind | the same, `OwnOffers` (of two additions of one operation both count it) and `LowerCaseSenders` (another spelling is counted in one place and uncounted in another) |
| `MempoolDepositOvershootIsBounded` | `DepositInv`: entries and calls under way that have seen the deposit cover their operation (`Paying`) together cost at most the deposit and one operation per call but one | `SomeAdders`, `NoStatusUpdates` (what a stale update brings back was not charged for); replacements, bans and `clearState` are allowed |

`mempool_adders` satisfies all of these hypotheses.

**Mempool, calls that overlap** (`OverlapSpec`, any number of processes, any calls). `OverlapInv` says that what a call has in hand differs from the pool only in `touched`:
what it sees of entries nobody touched is so (`SeesTheRest`), and what it found is still so but for them (`Found`): no untouched entry has the slot of an addition past `classify`, none is a rival of
one at its commit, and what a replacement, a removal, an update, a ban or a hand-out found is there, or was touched. Hence a write that was not overtaken finds what it relies on, and is a step of
`AtomicMempool` (`OverlapIsAtomic`): one call's steps are then one atomic call, since only the commit or the write changes what is mapped.
`OverlapDoublesOnlyByRace` is inductive with it: a commit that gives a slot a second entry relied on the slot being free, or on the entry it replaces, so it was overtaken by a call about that
slot; a status update that brings an entry back was overtaken as well.

**Bundle builder (`BundleBuilderProofs`).** `BundleTypeCorrect` with `BalanceOfPaymaster` (a balance is awaited only for a
paymaster; no remembered deposit is charged below zero). `OneFateEach`: entries before `next` are partitioned, those from `next` on are in no part.
`SendersDiffer` needs `SenderInv`: `senders` are exactly the senders of the bundle, and the one awaited is none of them. `ThrottledAreFew`
needs `CountsCover`: the count of a paymaster or factory is at least the number of operations of the bundle it is in. It is more when one address
has both roles, and it is the count that is compared. `GasIsLimited` needs `TotalIsSum`: `totalGas` is the sum over the bundle and within the limit, and the
entry whose paymaster's balance is awaited still fits (no other entry is added meanwhile). That the sum over a set does not depend on the order in which `MapThenSumSet`
chooses is `AnyOrder`.

**Bundler (`BundlerProofs`).** `BundlerInv` puts together the mempool's `TypeInv`, what an attempt holds at each stage (`AttemptOK`: `back`,
`doomed` and `bundle` are apart) and the mutex (`MutexOK`: the callbacks that are not idle queue once each, and
only the head is under way). `BundlerEntriesAreOwned`, for any mixture of callbacks, forced bundles, listeners and users: `OwnedInv` is stronger than `BundlingIsOwned`
in that it says what an attempt *still* answers for (`Claimed`: before `createBundle` all it took, afterwards what it has not yet given back, removed or sent, and
the entry of the call in progress), so that an entry it is done with cannot hide behind an attempt that goes on. `BundlerTakesNothingTwice` needs
`PickedInv`: what is picked is not marked by anyone else before it is marked, because no other attempt begins meanwhile (`MayBegin`), forced or not.

`BundlerRetriesNoRevert`, `BundlerSendsOnce` and `BundlerTakesPendingOnly`, with any callbacks, forced bundles, listeners and users, rest on `UnspentInv`. An operation is *unspent* if it was not executed and is in no
transaction in flight. Of every operation that was not sent again while in hand it says: what is offered, picked, taken, in a bundle or on its way into the pool is unspent (`HoldsUnspent`, `AddsAfresh`), until the
attempt that has it broadcasts it; what an attempt has taken and not yet sorted, put into its bundle or is giving back is not offered beside it (`Withheld`), and no two attempts own it (`Owns`), nor do two transactions in flight
have it; an update of an entry that is under way makes it pending only for an attempt that gives it back, so it is in no
bundle, and marks it as failed only if it was executed (`UpdatesWell`). So when a bundle is mined, be it long after its attempt has ended, there is nobody left through whom its operations could return, and an event cannot touch what was
picked. `resent` is where the argument ends: an addition that was validated while the operation was in hand is the one way left. Each step either changes little
enough (`Touches`: one lemma, `UnspentIfTouched`, covers all of them) or begins, marks, broadcasts or mines.

**Events (`EventManagerProofs`).** `EventTypeCorrect`; `AggregatorIsOwn` with `AggregatorInv` (the aggregator that is remembered comes from an event of the
transaction that is remembered with it). `CursorSkipsNothing` needs `SkipInv`: every event below the block a pass queries from is settled or in some handler's hand (`QuerySafe`);
once its query for operations is answered, the pass has every one from there on (`AnswerComplete`); everything up to the block of an event in hand is safe
(`HandSafe`), so moving the cursor there skips nothing; and an event is settled before its handler moves the cursor (`SettledFirst`).

**Tracer (`TracerProofs`).** `TraceInv` is `TraceTypes`, `RunOK` (something runs only at a level; a `GAS` in the window is in `lastOp` as well), `NothingMissed`
(for each step taken and the one before it, some level of the same entity holds what the step function has to record of them, `Records`) and `VerdictStands`.
What makes it inductive is that a level only grows and that `Records` is monotonic (`RecordsStay`). From it
`StorageRulesAreKept` follows for runs of any length, while TLC sees three instructions. `OpcodeRulesAreKept` needs `CallInv` for the calls as well: `parseCallStack`
is a fold that keeps a stack of the calls that are open, and after every prefix of what was recorded this stack has one call for each contract being run (`CallsPaired`),
every call an entity made is on it or among those that returned (`NoCallMissed`), and nothing else is but the EntryPoint's own (`NoCallInvented`).
What a called contract runs is recorded for the entity at the top, so one argument serves both; of `GAS` the theorem says what the collector can know, that the next opcode is a call or spelled like one.
`VerdictIs` ties the verdict to the collection in both directions, so that `NobodyNeedlesslyRefused` can be proved: as long as all steps are harmless, no level holds anything against its
entity and the window is harmless too (`NothingHeld`), and all calls are the EntryPoint's calls of entities; that the parser finds the account is `StoppedAfterAccount`.

**Requests (`RequestsProofs`).** `RequestsInv` is `CallInv` (what a handler has in its variables at each await), `BundleInv` (the second
validation) and `StateInv` (every entry of the pool is `Admissible`: checked at the time it says, hashed unless validation is
unsafe; or it has no validation and a list of `debug_bundler_addUserOps` names it, `Entitled`). The mode never changes after boot, which is why a traced entry has a hash to compare. From it
`RequestsTypeCorrect`, `AdmittedValid` and `SameCodeTwice`. `ReceiptsLoseNoLog` needs `ReceiptInv` (what a handler of a receipt request is waiting for, and what it answered) and lemmas about
`filterLogs`: the fold ends with the places of `BeforeExecution` and of the operation's event (`EndsAreFound`, `EndsAre`), and the logs in between have all of the operation's own. That they are only its own, `ReceiptHasOwnLogs`,
is false, as `receipts` shows.

**Folds.** The library's induction theorems take the property as an operator, which the provers cannot instantiate. Where a theorem rests on what a fold computes, induction is done with sets instead: the
set of numbers (or of finite sets, `SetInduction`) for which the claim holds contains the first one and is closed under the next, so it contains all, because a least number outside of it (`LeastNatural`, from
`WFMin` and `NatLessThanWellFounded`) would be a contradiction. The folds of the community modules are defined by a function with a `CHOOSE`; that there is one is proved (`SumExists`, `PairsExists`, `FindsExists`), and that it
has the value claimed is proved for each prefix or subset.

**Left to TLC.** Liveness under fairness (`EventuallySettles`, `AttemptsEnd`, `EveryEventHandled`, `EveryRequestAnswered`) is out of the prover's reach. Every safety property of a passing run is stated by a theorem,
under the hypotheses named above.

## 5. Not modelled, and the plan

Next: `Bundler` with `BundleBuilder` in the place of the arbitrary `CreateBundle`: an entry that never fits does not keep the others
waiting. Two independent senders in an attempt exceed two million states, so this needs a coarser `Bundler` first.

Not modelled, for want of logic of their own: the EVM and the node, whose steps and answers are nondeterministic
inputs; the signer, which `index.ts` does not use; configuration (read once; its values are the constants), logging, metrics,
ABIs, the p2p stub (`index.ts` throws when it is enabled) and the two helper contracts, whose answers are the version in `code`. The
preflight checks of `index.ts` are calls made once. Packing and hexadecimal conversion have one outcome; only what
`deepHexlify` cannot convert is modelled (`DeepHexlify`). `bundleTxs` is written and never read. The readers of the
mempool and of the ledger (`size`, `dump`, `findByHash`) change nothing.

Partly modelled: `state` (the checks of updated keys never fail for the callers there are), `mempool` (without
`addBundleTxnConfirmation`), `provider` (the calls whose failures decide something), `boot` (the initial states).
