# TLA+ models of altica-node

Altica is a name service: nodes keep domain records in a Kademlia DHT, agree on
new ones by voting, and an Ethereum contract holds the binding of each name to a
resolver. This directory holds TLA+ models of its core, TLC configurations that
check them, and TLAPS proofs. Paths below are relative to `src/`.

Run a check with `tlc -workers 2 -config <run>.cfg <MC module>` and a proof with
`tlapm <module>Proofs.tla`; `PROJECT.json` lists the runs, the mutants that show
each property can fail, the source lines behind each definition, the findings
and the hazards.

## The system

| Part | State it keeps | Operations |
|---|---|---|
| DHT locks (`core/store.go`) | lock cells in the DHT; per node `pendingLocks` and `lockMutex` | `TryAcquireLock`, `ReleaseLock` |
| Registration (`core/store.go`, `rpc/records.go`) | DHT: pending index, pending records, records, namehash map; per node a LevelDB | `domain_register`, `binding_add`, `Get`, `GetByNamehash`, `Add`, `SavePendingRecordToDHT`, `ConfirmRecord`, `RejectRecord`, `SaveRecord`, `BindAddressResolver` |
| Voting (`core/voting.go`) | a `VoteResult` per domain in the DHT | `SubmitVote`, `processPendingRecords` (every 15 s), `decide` |
| Gossip (`core/gossip.go`, `core/node.go`) | two pubsub topics, ids already seen | publish and listen: records, NameBound events |
| Contract (`AlticaRegistry.sol`) | `bindings`, `bindingSigner` | `SubmitBinding`, `updateResolver`, `oracleDecideSigner`, `oracleUnbind`, `resolve` |
| Oracle (`contracts/evm/listener.go`) | `lastSyncedBlock` in a LevelDB, a log subscription | `Start`, `handleSubmittedBinding`, `handleNameBound` |
| EVM client (`contracts/evm/utils.go`) | none | `ValidateSignedTx`, `SubmitSignedTx` |

How they interact. `domain_register` looks the domain up, tries its signed
transaction on chain, locks the domain in the DHT, stores the record as pending
and starts two goroutines: a vote and a publication. The ticker of the decision
maker finds the domain in the pending index, submits the transaction and
confirms the record, or rejects it when the submission fails. The transaction
calls `SubmitBinding`; the oracle node sees the event, looks the record up by
its namehash and accepts or rejects the signer on chain; the resulting NameBound
event is gossiped and every node stores the address in its record.

What is hard here: nothing in the DHT is atomic (every lock, index and vote is
a read followed by a write); the node's mutexes do not exclude other nodes; a
decision spans a chain transaction, a vote result, an index, a record and two
locks, any of which can fail after the others are done; the listener must not
lose events between its history and its subscription, nor over a crash; its
answers reach the contract late. `hazards` in `PROJECT.json` lists them by line.

What makes each part correct:

- locks: two sessions never hold the same key; a release only releases one's own
  lock; every call returns.
- registration: a record is confirmed once, only if its transaction was mined, and
  stays confirmed (on several nodes: as long as the chain keeps the name for it); a
  decision is not undone; a look-up never misses a record that
  is being confirmed; the index lists every pending record; a lock is never left
  behind; a decision maker that is gone is replaced.
- contract: only the accepted signer's binding is active, and only it resolves; an
  unexpired binding is not taken over.
- oracle: no event is skipped; only a binding of the record's owner becomes active;
  the owner's submission is decided.

## Modules

| Module | Models | Notes |
|---|---|---|
| `DHTLock` | lock cells, `lockMutex`, the halves of `TryAcquireLock` and `ReleaseLock` | actions on its own variables, for the modules that extend it |
| `AbstractLock` | what a lock promises | the abstract specification |
| `DomainLock` | sessions that take and release a lock, crashes | refines `AbstractLock` on local keys |
| `VoteRules` | the arithmetic of a `VoteResult` and of `selectDecisionMaker` | no variables |
| `Registration` | `domain_register` to `ConfirmRecord` and the updates after it, on several nodes that may crash | extends `DHTLock` and `VoteRules` |
| `AbstractRegistration` | what registration promises: a name goes to who comes first | the abstract specification, which `Registration` refines |
| `AlticaRegistry` | the contract | |
| `Oracle` | listener, gossip and records on top of the contract | extends `AlticaRegistry` |
| `DomainLockProofs`, `AlticaRegistryProofs`, `OracleProofs` | theorems on the module of that name | |
| `RegistrationProofs` | types and control of `Registration`, what a step of each kind may change | |
| `RecordProofs` | theorems on the records that `Registration` saves | extends `RegistrationProofs` |
| `IndexProofs` | theorem on the pending index | extends `RecordProofs` |
| `DecisionProofs` | theorems on the decision of a registration | extends `IndexProofs` |
| `OwnershipProofs` | theorem on the owners of the domain locks | extends `DecisionProofs` |
| `MC...` | instances for TLC | |

**DHTLock, DomainLock.** `lockCell` is the value under `/altica/locks/<key>`; an
absent key and the empty string, which the code treats alike, are `None`.
`TryAcquireLock` is two steps, `LockGet` (or `LockBusy`) and `LockPut` (or
`LockPutError`), because another node may act between them; the node's
`lockMutex` is held in between. `ReleaseLock` likewise is `UnlockGet` and
`UnlockPut`. A session is identified with its lock id (host and nanosecond
clock). The release may run on another node, as it does when the decision maker
is not the node that received the request. `Crash` kills the calls that a node
is running, with the write in progress done or not, and empties its memory.
`Faults` says which operations can fail: a failed read gives the absent value
(the code ignores the error), a failed write may or may not have been stored.

**Registration.** Each goroutine is a thread with a program counter: one per call of
`domain_register`, the vote and the publication it starts, one per call of `binding_add`
or NameBound message, and the decision loop of each node. Each access to the DHT, the
database or the chain is a step. The functions that update the pending index share the
actions for locking, reading, writing and releasing it, and differ by `op` ("add",
"confirm", "reject"); the functions that save a record share `SaveRecordDHT`,
`SaveRecordLocal`, `SaveNamehash` and `SaveNamehashLocal`, one per write of
`SaveRecord`. A record is its status and the request that carried it, which is also its
`LockID`; the bindings that an update changes are not kept apart. Requests are well
formed. `AddBinding` is `binding_add`; `GetByNamehash` is what a NameBound message sets
off (`BindAddressResolver`, which does not ask for a confirmed record).

The chain is seen from the nodes: `mined` are the requests whose `SubmitBinding` has been
executed, `sent` those that wait in the mempool after `SubmitSignedTx` has given up
on them, `lapsed` those mined whose binding blocks the name no longer. `SubmitBinding`
takes a name that has no binding or whose binding has lapsed (`BoundOnChain`).
`Mine` executes a waiting transaction, or reverts it, at any later time. `Lapse` stands for
the expiry of a binding, which may come at once (`validateTxData` accepts an
expiry in the past), for its rejection and for its removal by the oracle. Bindings of
the requests in `MayLapse` may lapse, which most runs leave empty: these look at the time
in which no binding expires.

`Crash` kills the threads of a node (a call that is cut short is "dead", its write in
progress done or not), empties its memory and leaves its LevelDB; `Restart` brings
it back, as `NewRecordStore` does. What the Go runtime kills is a crash too: the write of
`pendingLocks` in `TryAcquireIndexLock` that `lockMutex` does not protect
(`core/store.go:395`), and a receipt that `SubmitSignedTx` uses before its error
(`contracts/evm/utils.go:466`). `PanicInVote` is the index of `selectDecisionMaker` out
of range: it kills the whole process as well. The peers that a node counts or lists
(`OnlineNodes`) are any of the other nodes: the routing table may miss one that
runs and have one that has gone.

`Publish` only matters when it fails: receivers cannot decode a record message
(`gossip.go:164-166`), so no other peer votes. `recordsMutex` is left out: the single
decision loop of a node holds it while `ConfirmRecord` saves, and `PublishRecord` takes
it for a moment to list the local records (`computeStateRoot`), without another lock, so
nobody waits for ever. Errors of the local LevelDB are left out, and so is the version
that `ConfirmRecord` counts there, which nothing reads. Domains are taken to be in lower
case: the code folds the keys of locks and pending records (`core/store.go:249`, `673`)
but not those of records, votes and the index, so names that differ only in case would
share the former. A tick over an empty index is not a step. In `Tick`, the domains of
the list are examined in any order. The attempt that `Examine` counts when the decision
maker is gone is made in a copy that is never saved, so it is no change of state: that
is the finding of `reg_maker_gone`.

`ImplementsNames` is the refinement of `AbstractRegistration`, whose state is, for each
domain, who came first, who was executed on the chain and whose record it is. In
`Registration` the first is the pending request until the chain has executed one, and
that one from then on. `Enter` is then the write of the pending record in `Add`, `Execute`
is `SubmitSignedTx` and `Confirm` is the write of the record in `ConfirmRecord`;
everything else is a stutter. The refinement is checked and proved while no binding
lapses: the abstract specification confirms a name once and for good.

**AlticaRegistry.** One action per external function; a call that reverts is no
step. A signature is the address it recovers to. Left out: the ether a call
carries, `withdraw`, the upgrade and ownership machinery.

**Oracle.** `now` of the contract is the block in progress; `Seal` ends it, makes its
events and state readable and delivers its events to a live subscription (a subscription
sends the logs of new blocks only, as Ethereum nodes do). `Start` reads the history from
`lastSyncedBlock` to the block number it got first, `Subscribe` runs when all of it has
been handled. `LookUp`, `Decide`, `PublishNameBound` and `Sync` are the steps of the
handlers; `Sync` stores the block whether the handler failed or not, as the code does.
`Decide` reads the signer of the last sealed block and appends a transaction to `txs`;
`OracleTx` executes it later, or reverts. `OwnerTx` is the contract's owner calling
`oracleUnbind` by hand. `missed` is a history variable: the events that no query and no
subscription gave to the listener, because the block was sealed between the reading of
the block number and the subscription, or because `FilterLogs` failed and the code only
logged it, or because a crash left it over in the latest block. The handler answers with
the signer of the record that it finds: any of `Signers[x]`, at every look-up anew,
since on several nodes the record of a name may be replaced (`reg_bind`, and a
registration after an expiry). With one signer per name the model is that of one node,
where the record stays (`ConfirmedStaysBound`). Receivers of the gossip do not influence
each other, so there is one.

## Runs

| Run | Expect | Instance | Shows |
|---|---|---|---|
| `lock_sessions` | pass | 2 nodes, 5 sessions, failing writes, one node crashes | `LocalExclusion`, `LockInvariant`, `ImplementsLock`, `CallsReturn` |
| `lock_two_nodes` | violation | the same without failures | `LockExclusion` fails on the key that both nodes want |
| `reg_one_node` | pass | 1 node, 3 requests for a domain, 1 for another, no failures, no binding lapses | `IndexListsPending`, `ConfirmedWasMined`, `NoLookupGap`, `NoOrphanLock`, `ImplementsNames` |
| `reg_lapses` | pass | 1 node, 3 requests for a domain, 1 update, no failures, every binding may lapse | `LockReleased`, `ConfirmedStable`, `DecisionKept` |
| `reg_two_nodes` | pass | 2 nodes that may miss each other, may panic in a vote and restart, 3 requests for one domain, no binding lapses | `ConfirmedWhileBound` |
| `reg_faults` | pass | 1 node, 1 request, everything may fail, the node crashes and restarts | `NamehashResolves`, `HandlersReturn` |
| `reg_unmined` | violation | 1 node, 3 requests for one domain, chain calls may fail | `ConfirmedWasMined` fails |
| `reg_mined_rejected` | violation | 1 node, 2 requests for 2 domains, no failures | `RejectedNotMined` fails |
| `reg_maker_gone` | violation | 2 nodes, 1 request, one node crashes | `MakerReplaced` fails |
| `reg_bind` | violation | 2 nodes, 1 request, 1 update, no failures | `ConfirmedStable` fails |
| `registry_resolve` | violation | the contract, 2 names, clock up to 6 | `ResolvedIsAccepted` fails |
| `oracle` | pass | 1 name, 3 accounts, a record of either of two, 3 events, 2 failures | `ActiveIsOwners`, `ActiveIsAccepted`, `SyncedHandled`, `SignerKept`, `UnexpiredKept`, `SubmissionDecided` |

The violations are findings; in short:

- `lock_two_nodes`: both nodes read the empty cell and both write it. The read
  back that might have told them is commented out in the code.
- `reg_unmined`: a rejection leaves its votes in the DHT. With them the next
  request is decided before its own vote, which then fails and releases the
  domain lock in the middle of the confirmation; a third request overwrites the
  pending record and is confirmed without ever having been submitted. It takes
  three requests and a submission that fails: without failures
  `ConfirmedWasMined` holds for the same three requests (`reg_one_node`).
- `reg_mined_rejected`: `ConfirmRecord` gives up on the index lock after the
  transaction was mined; the next tick submits it again, fails and rejects it.
- `reg_maker_gone`: the node that finds the decision maker gone counts the attempt in
  its own copy and never saves it, so the count never gets to where another one
  is selected, and the domain stays pending and locked.
- `reg_bind`: `Get` on a node without a local copy returns the pending record for as
  long as `ConfirmRecord` has not emptied the pending key; `BindAddressResolver` saves it
  over the confirmed one. It takes a decision maker on another node: on one
  node `ConfirmedStable` holds with an update (`reg_lapses`).
- `registry_resolve`: `resolve` tests `active || unexpired` and that there is a
  signer, not that the binding is his. In the trace a binding is accepted, then
  `oracleDecideSigner` rejects a submission for the same name, which deletes the binding and
  keeps the signer, and whatever is submitted next resolves at once. (No binding
  expires in the trace; an expiry leaves the signer behind too.)

One more thing is not a finding, since nothing in the code promises otherwise, but a
reader should know it: on two nodes a confirmed record is replaced, without any failure
and without a NameBound message, once its binding has lapsed on chain (`reg_two_nodes`
with `MayLapse = {r1, r3}` and `ConfirmedStable`: a trace of some 70 steps). Two nodes
have taken the domain lock, one confirms its request, the other has no copy of the
record, decides a request that is pending for the name and submits it to a chain that
takes the name again. That is why `reg_two_nodes` checks `ConfirmedWhileBound`. On one
node the record stays (`reg_lapses`).

**Bounds.** Two sessions per key suffice for a race; the third local session and the
second releaser let a lock be taken, released elsewhere and taken again. Three requests
for a domain let one be decided, one be refused and one come after both, with every
interleaving of their handlers, votes and the decision loop; a request for another
domain contends for the index, and an update meets the record in each of its states. In
`reg_lapses` the third request may come when two bindings have lapsed. Requests for the
same domain on the same node are interchangeable, so `reg_one_node` and `reg_two_nodes`
use symmetry; the liveness runs do not. `reg_two_nodes` has no other crash than the
panic, which may come to each vote. `MaxIndexAttempts` is 5, as in the code, in
`reg_one_node`, `reg_unmined` and `reg_mined_rejected`, and 2 in the others: one attempt
that retries and one that gives up. A node that may crash does so any number of times,
without a bound. `Oracle` has `maxRetries` 2 (4 in the code) for the same reason, and
`MaxEvents` 3: users send transactions as long as the log has fewer events (one missed,
one that moves `lastSyncedBlock`, one more), the oracle's answers add theirs. Bindings
expire at 3 and `MaxTime` is 4, so that a name can be accepted in time, expire, be
unbound or be submitted again; after a rejection it is submitted again at any time.
Users bind names to one resolver (`Resolvers`), since no decision depends on it. There
are three accounts, of which two may own the record, and two failures (`MaxFailures`),
each a crash, a lost subscription, an unreadable history or a failed call: a failure
while recovering from another.

**Fairness.** `DomainLock`: weak fairness of each session, since goroutines that can
run do. `Registration`: strong fairness of what has started (a request or an
update need not come, a crashed node need not return), since `sync.RWMutex` does not
starve a waiter and the ticker fires for ever. It is stated once for all threads other than
the decision loops, because each of them takes a bounded number of steps: while one
can run infinitely often, some step is taken, so in the end all have been.
Each decision loop, which never ends, has a condition of its own.
`Oracle`: weak fairness of the listener's steps, of a restart after a crash, of the
execution of its transactions and of the delivery of gossip; users, the contract's
owner, the clock and failures are not fair.

**Deadlock** is not checked: each model may come to rest when all requests are
served. That nobody waits for ever is what `CallsReturn`, `HandlersReturn` and
`LockReleased` state.

## Proofs

`DomainLockProofs`, for any nodes, keys, sessions, releasers, crashes and failing
writes:

- `TypeCorrect`: `Spec => []TypeOK`.
- `LockInvariantHolds`, `LocalLockExclusion`, `LockRefinement`, if reads do not
  fail (`"get" \notin Faults`; otherwise they are false, as a failed read counts
  as "no lock"). Exclusion is not inductive: it needs that the call between its
  read and its write holds the mutex (`MutexOfCall`), that only such a call does
  (`CallOfMutex`), and that for a key that only one node acquires what the call
  read is still true when it writes (`CellOfCall`). The last holds although the
  release may run on another node under another mutex: a release only goes on
  if the cell holds its own id, and nobody else writes a cell that is taken.

`AlticaRegistryProofs`, for any names, addresses, drift, expiries and clock:
`AcceptedBindings`, from `TypeOK /\ ActiveIsAccepted`, which is inductive, and from
it the action properties `SignerIsKept` and `UnexpiredIsKept`.

`OracleProofs`, for any bounds and failures, the owner's own `oracleUnbind` included:
`ContractRespected` (every step of the composition is a step of the contract or leaves
it alone), `OracleTypes` and `OwnersOnly`. The last rests on `AnswersOwner` (the
transactions in flight name an account of `Signers`) and `SignerIsOwner` (so the
accepted signer is one of them or none), together with the contract's
`ActiveIsAccepted`. The module also has `NothingSkipped`, that is `SyncedHandled`, for
any log, bounds, failures and restarts. The inductive invariant is `SyncInvariant`: the
log and the channel are in the order of the blocks (`LogOrdered`, `QueueOrdered`), and
while the listener runs every sealed event is handled, missed or waiting
(`EventsAccounted`). The order is what lets `Sync` store the block of one event and
still be right about the events before it; a crash empties the channel, but not what has
been handled up to the stored block. The lemmas `PrefixOfLog`, `SealedPart` and
`ProgressPart` say what a query and a subscription return: the events on either side of
a block.

`RegistrationProofs`, for any nodes, domains, requests and updates, whatever fails and
whoever crashes: `RegistrationTypes`, that is `TypeOK` together with `StartedByAdd`
(votes and publications only run for requests that `Add` accepted). `TypeOK` is more
than types: `ThreadOK` says in which function a thread may be and that it has a
record in hand wherever one is used. The lemmas `DHTFrame`, `NodeFrame`, `ChainFrame`
and `LockFrame` list the steps that change each part of the state; every later proof
rests on them.

`RecordProofs`, for any nodes, domains, requests, updates and crashes:

- `NamehashesResolve`: `NamehashResolves`, whatever fails, since `SaveRecord` writes the
  record before its namehash (`SavedInOrder`) and no step removes a record.
- `ConfirmedStays`: `ConfirmedWhileBound` on any number of nodes and with any faults and
  late transactions, while no NameBound message is handled (`NoNameBound`, the case of
  `reg_bind`; `binding_add` is included). Although the locks do not exclude the nodes
  from each other, the chain takes one submission for a name until its binding lapses,
  so one thread at most gets to `ConfirmRecord` (`OneConfirmation`), and whatever else
  saves a record saves the confirmed one (`SavedIsRecord`). It needs that records stay
  with their domain (`RecordsFit`) and that what is pending is not confirmed
  (`OwnRecord`). A failure that is reported for a transaction that was executed does no
  harm here: nobody confirms it. After a lapse it is false on two nodes, as said above.

`IndexProofs`, on one node (`OneNode`) whose reads and writes do not fail (`Reliable`),
while submissions and publications may fail and the node may crash anywhere:
`IndexIsComplete`, that is `IndexListsPending`. `IndexLocked` says that the call between
its read and its write of a lock has the mutex and that whoever updates the list has the
index lock; `IndexHeld` that the list it read is still the list when it writes. With two
nodes the lock does not exclude (`lock_two_nodes`), and a failed read writes back a
list without the other domains.

`DecisionProofs`, on one node (`OneNode`) where nothing fails and no binding lapses
(`Undisturbed`) but which may crash anywhere and start again, for any domains, requests
and updates: `ConfirmsWhatWasMined` (`ConfirmedWasMined`), `DecisionsStay`
(`DecisionKept`), `ConfirmedStaysBound` (`ConfirmedStable` with NameBound messages),
`LooksUpAll` (`NoLookupGap`) and `FirstComeFirstServed` (`ImplementsNames`). The
invariant follows a domain through its registration:

- as long as the chain has no binding for it, the domain belongs to one request
  (`OneRequest`): the pending one has the domain lock, no other request has come through
  `Add`, and a vote result that is stored is that request's and undecided;
- from the submission until the pending record is removed, that request stays pending
  and keeps the lock, and its vote is in (`DecisionHeld`), so `ConfirmRecord`, which
  reads the pending record again, finds the one whose transaction was submitted;
- a vote that is about to be saved meets no decision (`ResultsFit`);
- `DomainLocked` and `VoteRecord` say that between the two halves of
  `TryAcquireLock` and `ReleaseLock` the cell is as it was read, and that a vote only
  releases the lock of its own request;
- a namehash resolves, in the DHT or on the node, only once the node has the confirmed
  record (`NamesKnown`), which is what makes NameBound messages harmless on one node.

`FirstComeFirstServed` proves `ImplementsNames` from the same invariant and
`OneExecution`, that the chain executes one request per domain. Step by step: what is
submitted for a free domain is its pending request (`Submits`, `ExecuteStep`); the
pending request only changes where nobody has come yet or the chain has executed one
(`EnterStep`, from `OneRequest`); what is confirmed first was executed, and nothing is
confirmed in its place (`ConfirmStep`).

`LooksUpAll` adds `LookupFits`, about the three reads of `Get`, between which the record may
move: what was pending at the first is still pending, or its record is in the DHT by the
time `Get` reads it there, or it is gone for good. It does not become pending again, its
request having been added, and it is not confirmed, `ConfirmRecord` saving only what is
still pending (`DecisionHeld`).

`OwnershipProofs`, on one node where nothing fails, no binding lapses and that does not
crash (`NoCrashes`): `LocksHaveOwners`, that is `NoOrphanLock`. `Add` takes the lock of
a domain, but the vote, `ConfirmRecord` or `RejectRecord` releases it, each with the id
of the record that it has in hand. That the lock is never left behind needs, in
`OwnerInvariant`:

- `LockOwned`: the request that has the lock is being added or given up (`Adding`), or its
  vote is still open or failing (`VoteOpen`), or it is the pending record, or a
  `ConfirmRecord` or `RejectRecord` that has emptied the pending key is about to release
  its lock (`Cleared`);
- `RejectFits`: what `RejectRecord` has read may have been replaced in the meantime, as
  long as it does not have the index lock. It then empties the pending key of another
  request and releases nothing; but that one's domain is already bound, so that it is
  either still being added or its vote comes too late, fails and releases the lock;
- `DecisionStored`: a domain that is bound has a decided vote result, or its decision
  loop is about to store it: that is why such a vote fails;
- `IndexTaken` and `MinedByLoop`: the index lock has a holder too, which with
  `IndexListsPending` gives the second half of `NoOrphanLock`, and on a node that does not
  vote nothing is bound.

These assumptions are needed too. TLC finds `NoOrphanLock` violated on one node that
crashes, on two nodes, and on one node with failing reads or writes (two requests for a
domain), with failing publications (three), or with failing submissions (four: a late
vote of a rejected request overwrites the decision, with which the vote of another
succeeds while the rejection is under way). A crash leaves a lock behind whose owner is
gone; failures make a release fail for good or meet another's lock.

The assumptions of `DecisionProofs` are needed: with failing submissions
`ConfirmedWasMined` is false (`reg_unmined`), on two nodes `ConfirmedStable` is false as
soon as NameBound messages come (`reg_bind`), and with failing publications
`ConfirmedWasMined` and `DecisionKept` are false on one node with two requests.
`NoLookupGap` is false in the instance of `reg_two_nodes`, and on one node if
publications fail (`reg_one_node` with `Faults = {"publish"}`): a rejection empties the
pending key while a confirmation has the record in hand, so that for a moment the domain
has neither. Without failures all of them hold of the instance of `reg_one_node`. That
no binding lapses is an assumption of the proofs, which rest on the chain taking one
request per name; `reg_lapses` checks `ConfirmedStable` and `DecisionKept` without it,
on a small instance. All the inductive invariants were checked with TLC before they were
proved, that of `DecisionProofs` on one domain with three requests and on two domains
with two and one, with an update and crashes, `ImplementsNames` also with the four
requests of `reg_one_node` and a node that crashes, and `OwnerInvariant` on one domain
with three requests and an update, on two domains with four requests, and without a
voter.

Assumptions are the named `ASSUME`s on the constants, which TLC evaluates in the
runs, and the hypotheses named above. One that matters:
`RegistrationAssumption` keeps the key of the index apart from the domains.

Every safety property of the passing runs is proved, on the instances and under the
assumptions named with its theorem; `ConfirmedStable` and `DecisionKept` are checked with
bindings that lapse and proved without. Only model-checked is what is liveness
(`CallsReturn`, `LockReleased`, `HandlersReturn`, `SubmissionDecided`), which the
prover does not handle. The properties of the runs that expect a violation are false,
so there is nothing to prove.

## Not modelled

- Node set-up and shutdown, the RPC server and read-only handlers, command line tools,
  cryptography, ABI and JSON: input and output, or pure data.
- Votes of other peers, rejecting votes and `handleRegistrationIntent`: a received
  record message is not decoded (`gossip.go:164-166`), so the code is not reached.
- `SyncManager`, which is never started, and the version of the store: the
  synchronisation at start reads `/store/version` from the DHT, where nobody writes it.
  `UpdateRecord`, `GetRecord`, `GetLatestVersion` and the verification of votes have no
  callers.
- What a record's bindings hold. That two updates of one record can lose each other's
  bindings (`binding_add` and `BindAddressResolver` read, change and save) is listed as
  a hazard and follows from the code by reading alone.
- DHT replicas that differ: a read gives the last value stored, or fails.
- Names that differ only in case, and a domain called `_index`.
- That a refused request stays out: `Add` refuses a request whose pending record could
  not be saved, but a write that reports an error may have been stored, and such a
  request may be confirmed. Without failing writes a refusal precedes the only write of
  the record, so there is nothing to check.
- Ether, upgrades and the transfer of ownership in the contract.

## Plan

Done: locks with their refinement and proofs; registration with updates, crashes,
panics and lost decision makers, and proofs of its records, its index and its decisions;
the contract and the oracle with proofs.

1. Proofs: `ConfirmedStable` and `DecisionKept` on one node with bindings that lapse; lemmas on
   `VoteRules` for more than one voter (one vote keeps the others, a quorum is monotone).
2. Addresses in `Oracle`: the stored address follows the last NameBound event
   (event ids collide within a block, messages are reordered).
3. `Registration` with failing index reads on several requests, and a publication
   that fails while the record is being decided.
