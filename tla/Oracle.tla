------------------------------- MODULE Oracle -------------------------------
(***************************************************************************)
(* The oracle node between the contract and the records: EventListener     *)
(* (contracts/evm/listener.go) reads the contract's log, answers each      *)
(* SubmittedBinding with oracleDecideSigner and gossips each NameBound;    *)
(* GossipManager (core/gossip.go) of a receiving node hands the gossip to  *)
(* BindAddressResolver (core/store.go).  The chain is AlticaRegistry: now  *)
(* is the number of the block in progress, whose events and state can be   *)
(* read once it is sealed, that is once now has moved on.                  *)
(*                                                                         *)
(* The handler answers with the signer of the record that it finds.  On    *)
(* one node that record stays (DecisionProofs), on several nodes it may be *)
(* replaced (Registration), so it may have any signer of Signers[x] at any *)
(* time.                                                                   *)
(***************************************************************************)
EXTENDS AlticaRegistry, Sequences, FiniteSets, Functions

CONSTANTS Signers,       \* name -> the signers its record may have
          Resolvers,     \* the resolvers that users bind names to
          None,          \* no address binding
          maxRetries,    \* look-ups of a record per event (4 in the code)
          Failures,      \* what may fail: a subset of FailureKinds
          MaxEvents,     \* bound: length of the contract's log
          MaxFailures    \* bound: number of failures

FailureKinds == {"crash", "disconnect", "rpc", "filter"}

ASSUME OracleAssumption ==
  /\ Signers \in [Names -> SUBSET Addresses]
  /\ Resolvers \subseteq Addresses
  /\ maxRetries \in Nat \ {0}
  /\ Failures \subseteq FailureKinds
  /\ MaxEvents \in Nat
  /\ MaxFailures \in Nat

VARIABLES log,             \* chain: the events, in order
          sealedSigner,    \* chain: bindingSigner as of the last sealed block
          txs,             \* chain: the oracle's transactions to be executed
          recorded,        \* the names whose record can be found by namehash
          address,         \* name -> address in the bindings of its record
          lastSyncedBlock, \* the listener's LevelDB
          phase,           \* of the listener: "down", "history" or "live"
          step,            \* of the handler: "next", "decide" or "sync"
          tries,           \* look-ups made for the event in hand
          queue,           \* events read and not yet handled
          subscribed,      \* the subscription delivers
          topic,           \* NameBound gossip in flight
          eventSeen,       \* GossipManager.eventSeen of the receiver
          failures,        \* number of failures so far
          handled,         \* history: the events handled
          missed           \* history: the events that no query or subscription gave

chainVars == <<bindings, bindingSigner, now, log, sealedSigner, txs>>
handlerVars == <<step, tries>>
historyVars == <<handled, missed>>
listenVars == <<lastSyncedBlock, phase, handlerVars, queue, subscribed, historyVars>>
recordVars == <<recorded, address>>
gossipVars == <<topic, eventSeen>>
oracleVars == <<chainVars, listenVars, recordVars, gossipVars, failures>>

OracleInit ==
  /\ Init
  /\ log = <<>> /\ txs = <<>> /\ queue = <<>>
  /\ sealedSigner = bindingSigner
  /\ recorded = {} /\ topic = {} /\ eventSeen = {}
  /\ handled = {} /\ missed = {}
  /\ address = [x \in Names |-> None]
  /\ lastSyncedBlock = 0    \* EVM_DEPLOYMENT_BLOCK
  /\ phase = "down" /\ step = "next" /\ tries = 0
  /\ subscribed = FALSE
  /\ failures = 0

Fail(kind) == kind \in Failures /\ failures < MaxFailures /\ failures' = failures + 1

-----------------------------------------------------------------------------
(* The chain *)

Emit(kind, x, a) ==
  log' = Append(log, [kind |-> kind, name |-> x, addr |-> a, block |-> now,
                      index |-> Len(log) + 1])

\* Anybody's transaction: SubmitBinding, signed just now, or updateResolver.
UserTx ==
  /\ Len(log) < MaxEvents
  /\ \E x \in Names, a \in Resolvers, s \in Addresses :
       \/ \E e \in Expiries :
            SubmitBinding(x, a, e, now, s) /\ Emit("SubmittedBinding", x, s)
       \/ updateResolver(x, a, s) /\ Emit("NameBound", x, a)
  /\ UNCHANGED <<sealedSigner, txs, listenVars, recordVars, gossipVars, failures>>

\* The owner of the contract removes an expired binding by hand.
OwnerTx ==
  /\ \E x \in Names : oracleUnbind(x)
  /\ UNCHANGED <<log, sealedSigner, txs, listenVars, recordVars, gossipVars, failures>>

\* The oracle's next transaction is executed, or reverts.
OracleTx ==
  /\ txs # <<>>
  /\ LET tx == Head(txs)
     IN \/ /\ tx.accepted /\ acceptSigner(tx.name, tx.signer)
           /\ Emit("NameBound", tx.name, bindings[tx.name].resolver)
        \/ /\ ~tx.accepted /\ rejectSigner(tx.name)
           /\ UNCHANGED log
        \/ /\ tx.accepted /\ ~CanAccept(tx.name, tx.signer)
           /\ UNCHANGED <<vars, log>>
  /\ txs' = Tail(txs)
  /\ UNCHANGED <<sealedSigner, listenVars, recordVars, gossipVars, failures>>

\* The log is in the order of the blocks.  The events of the sealed blocks from
\* block b on, and those of the block in progress.
EventsBefore(b) == Cardinality({i \in 1 .. Len(log) : log[i].block < b})
SealedFrom(b) == SubSeq(log, EventsBefore(b) + 1, EventsBefore(now))
InProgress == SubSeq(log, EventsBefore(now) + 1, Len(log))

\* The block in progress is sealed: its events go to whoever has subscribed.  A
\* listener that runs without a subscription never gets them (one that is down
\* will find them in the history).
Seal ==
  /\ Clock
  /\ sealedSigner' = bindingSigner
  /\ queue' = IF subscribed THEN queue \o InProgress ELSE queue
  /\ missed' = IF phase = "down" \/ subscribed THEN missed ELSE missed \cup Range(InProgress)
  /\ UNCHANGED <<log, txs, lastSyncedBlock, phase, handlerVars, subscribed, handled,
                 recordVars, gossipVars, failures>>

-----------------------------------------------------------------------------
(* EventListener.Start *)

LatestBlock == now - 1

\* The history is read when the last synced block is behind the latest one.  A
\* failure to read it is logged, no more.
Start ==
  /\ phase = "down"
  /\ phase' = "history"
  /\ \/ /\ lastSyncedBlock < LatestBlock
        /\ queue' = SealedFrom(lastSyncedBlock)
        /\ UNCHANGED <<missed, failures>>
     \/ /\ \/ lastSyncedBlock >= LatestBlock /\ UNCHANGED failures
           \/ lastSyncedBlock < LatestBlock /\ Fail("filter")
        /\ queue' = <<>>
        /\ missed' = missed \cup (Range(SealedFrom(lastSyncedBlock)) \ handled)
  /\ UNCHANGED <<chainVars, lastSyncedBlock, handlerVars, subscribed, handled,
                 recordVars, gossipVars>>

\* (A bug: the channel is emptied when the subscription is renewed.)
SubscribeDropping ==
  /\ step = "next"
  /\ \/ phase = "history" /\ queue = <<>>
     \/ phase = "live"
  /\ ~subscribed
  /\ phase' = "live"
  /\ subscribed' = TRUE
  /\ queue' = <<>>
  /\ UNCHANGED <<chainVars, lastSyncedBlock, handlerVars, historyVars,
                 recordVars, gossipVars, failures>>

\* The subscription when the history has been handled, and again after an error
\* of the first one.  It delivers new blocks only, whatever its FromBlock: what was
\* in the channel stays there.  (When a resubscription fails, sub is nil and the next turn
\* of the loop panics: a Crash.)
Subscribe ==
  /\ step = "next"
  /\ \/ phase = "history" /\ queue = <<>>
     \/ phase = "live"
  /\ ~subscribed
  /\ phase' = "live"
  /\ subscribed' = TRUE
  /\ UNCHANGED <<chainVars, lastSyncedBlock, handlerVars, queue, historyVars,
                 recordVars, gossipVars, failures>>

Disconnect ==
  /\ subscribed
  /\ Fail("disconnect")
  /\ subscribed' = FALSE
  /\ UNCHANGED <<chainVars, lastSyncedBlock, phase, handlerVars, queue, historyVars,
                 recordVars, gossipVars>>

\* The process stops and will be started again; only the LevelDB is kept.
Crash ==
  /\ phase # "down"
  /\ Fail("crash")
  /\ phase' = "down" /\ step' = "next" /\ tries' = 0
  /\ queue' = <<>> /\ subscribed' = FALSE
  /\ UNCHANGED <<chainVars, lastSyncedBlock, historyVars, recordVars, gossipVars>>

-----------------------------------------------------------------------------
(* EventListener.handleLogEvent, for the event at the head of the queue *)

Handling(s, kind) ==
  /\ phase # "down"
  /\ step = s
  /\ queue # <<>>
  /\ Head(queue).kind = kind

\* (A bug: one look-up too many.)
LookUpOnceMore ==
  /\ Handling("next", "SubmittedBinding")
  /\ IF Head(queue).name \in recorded
       THEN step' = "decide" /\ tries' = 0
       ELSE IF tries < maxRetries
         THEN tries' = tries + 1 /\ UNCHANGED step
         ELSE step' = "sync" /\ tries' = 0
  /\ UNCHANGED <<chainVars, lastSyncedBlock, phase, queue, subscribed, historyVars,
                 recordVars, gossipVars, failures>>

\* handleSubmittedBinding looks the record up, at most maxRetries times.
LookUp ==
  /\ Handling("next", "SubmittedBinding")
  /\ IF Head(queue).name \in recorded
       THEN step' = "decide" /\ tries' = 0
       ELSE IF tries + 1 < maxRetries
         THEN tries' = tries + 1 /\ UNCHANGED step
         ELSE step' = "sync" /\ tries' = 0
  /\ UNCHANGED <<chainVars, lastSyncedBlock, phase, queue, subscribed, historyVars,
                 recordVars, gossipVars, failures>>

Decision(e, signer) == [name |-> e.name, signer |-> signer, accepted |-> e.addr = signer]

\* (A bug: the decision names the signer of the event, whoever it is.)
DecideForEvent ==
  /\ Handling("decide", "SubmittedBinding")
  /\ step' = "sync"
  /\ txs' = Append(txs, Decision(Head(queue), Head(queue).addr))
  /\ UNCHANGED <<vars, log, sealedSigner, lastSyncedBlock, phase, tries, queue,
                 subscribed, historyVars, recordVars, gossipVars, failures>>

\* (A bug: the decision is skipped when no signer is bound.)
DecideWhenBound ==
  /\ Handling("decide", "SubmittedBinding")
  /\ step' = "sync"
  /\ LET e == Head(queue)
     IN IF sealedSigner[e.name] = zero THEN UNCHANGED txs
        ELSE \E signer \in Signers[e.name] : txs' = Append(txs, Decision(e, signer))
  /\ UNCHANGED <<vars, log, sealedSigner, lastSyncedBlock, phase, tries, queue,
                 subscribed, historyVars, recordVars, gossipVars, failures>>

\* It sends the oracle's decision, unless the record's signer is bound already.
Decide ==
  /\ Handling("decide", "SubmittedBinding")
  /\ step' = "sync"
  /\ \/ /\ LET e == Head(queue)
           IN \E signer \in Signers[e.name] :
                txs' = IF sealedSigner[e.name] = signer THEN txs
                       ELSE Append(txs, Decision(e, signer))
        /\ UNCHANGED failures
     \/ Fail("rpc") /\ UNCHANGED txs
  /\ UNCHANGED <<vars, log, sealedSigner, lastSyncedBlock, phase, tries, queue,
                 subscribed, historyVars, recordVars, gossipVars>>

\* handleNameBound gossips the event.  Its id is the name and the block.
EventID(e) == <<e.name, e.block>>

PublishNameBound ==
  /\ Handling("next", "NameBound")
  /\ step' = "sync"
  /\ \/ topic' = topic \cup {Head(queue)} /\ UNCHANGED failures
     \/ Fail("rpc") /\ UNCHANGED topic
  /\ UNCHANGED <<chainVars, lastSyncedBlock, phase, tries, queue, subscribed,
                 historyVars, recordVars, eventSeen>>

\* The block of the event is stored, whether its handler failed or not.
Sync ==
  /\ phase # "down" /\ step = "sync"
  /\ lastSyncedBlock' = Head(queue).block
  /\ handled' = handled \cup {Head(queue)}
  /\ queue' = Tail(queue)
  /\ step' = "next"
  /\ UNCHANGED <<chainVars, phase, tries, subscribed, missed, recordVars, gossipVars,
                 failures>>

-----------------------------------------------------------------------------
(* Records and gossip *)

\* The record of x is confirmed: SaveRecord stores its namehash.
RecordSaved(x) ==
  /\ x \notin recorded
  /\ recorded' = recorded \cup {x}
  /\ UNCHANGED <<chainVars, listenVars, address, gossipVars, failures>>

\* The address goes into the bindings of the record, if there is one.
BindAddressResolver(e) ==
  IF e.name \in recorded THEN [address EXCEPT ![e.name] = e.addr] ELSE address

\* ListenNameBound, in any order: an id that was seen is skipped, another one
\* goes to BindAddressResolver.
Receive(e) ==
  /\ e \in topic
  /\ topic' = topic \ {e}
  /\ eventSeen' = eventSeen \cup {EventID(e)}
  /\ address' = IF EventID(e) \in eventSeen THEN address ELSE BindAddressResolver(e)
  /\ UNCHANGED <<chainVars, listenVars, recorded, failures>>

-----------------------------------------------------------------------------
Handle == LookUp \/ Decide \/ PublishNameBound \/ Sync

OracleNext ==
  \/ UserTx \/ OwnerTx \/ OracleTx \/ Seal
  \/ Start \/ Subscribe \/ Disconnect \/ Crash \/ Handle
  \/ \E x \in Names : RecordSaved(x)
  \/ \E e \in topic : Receive(e)

OracleSpec == OracleInit /\ [][OracleNext]_oracleVars

\* The process is started again after a crash, the listener's loop goes on, the
\* miners execute the oracle's transactions and the gossip arrives.  Users, the
\* clock and the failures are not fair.
OracleFairSpec ==
  /\ OracleSpec
  /\ WF_oracleVars(Start) /\ WF_oracleVars(Subscribe) /\ WF_oracleVars(Handle)
  /\ WF_oracleVars(OracleTx)
  /\ WF_oracleVars(\E e \in topic : Receive(e))

-----------------------------------------------------------------------------
Event == [kind : {"SubmittedBinding", "NameBound"}, name : Names, addr : AddressOrZero,
          block : Nat, index : Nat]

Answer == [name : Names, signer : Addresses, accepted : BOOLEAN]

OracleTypeOK ==
  /\ TypeOK
  /\ log \in Seq(Event) /\ queue \in Seq(Event) /\ txs \in Seq(Answer)
  /\ sealedSigner \in [Names -> AddressOrZero]
  /\ recorded \subseteq Names /\ address \in [Names -> AddressOrZero \cup {None}]
  /\ topic \subseteq Event /\ handled \subseteq Event /\ missed \subseteq Event
  /\ lastSyncedBlock \in Nat
  /\ phase \in {"down", "history", "live"} /\ step \in {"next", "decide", "sync"}
  /\ tries \in 0 .. maxRetries - 1
  /\ step # "next" => phase # "down" /\ queue # <<>>
  /\ subscribed \in BOOLEAN /\ failures \in Nat

\* The contract only ever activates a binding of an account whose record the oracle may
\* have found: the oracle's answers come late, twice and out of order with what users
\* submit, and finalizeBinding compares the signer once more.
ActiveIsOwners ==
  \A x \in Names : bindings[x].status = "active" => bindings[x].signer \in Signers[x]

\* When lastSyncedBlock has moved past a block, every event of that block has been
\* handled or is one that the listener was never given: sealed while it ran without
\* a subscription (between the reading of the history or a lost subscription and
\* the next one), in a history that could not be read, or left over in the latest
\* block by a crash.  Nothing else is skipped: not what a crash interrupts, nor what
\* waits in the channel when a subscription is lost.
SyncedHandled ==
  \A i \in 1 .. Len(log) : log[i].block < lastSyncedBlock => log[i] \in handled \cup missed

\* A submission by a waits in the channel, the record can be found and nothing fails
\* any more.
Awaited(x, a) ==
  /\ \E i \in 1 .. Len(queue) :
       queue[i].kind = "SubmittedBinding" /\ queue[i].name = x /\ queue[i].addr = a
  /\ step = "next" /\ tries = 0
  /\ x \in recorded
  /\ failures = MaxFailures

\* A submission of an account that may own the record, once it has reached the listener,
\* is decided on chain: an owner is accepted or the submission is removed, unless it
\* expires first.
SubmissionDecided ==
  \A x \in Names : \A a \in Signers[x] :
    Awaited(x, a) ~> \/ bindingSigner[x] \in Signers[x]
                     \/ bindings[x].expiresAt <= now
                     \/ bindings[x].signer # a

-----------------------------------------------------------------------------
(* The inductive invariant behind ActiveIsOwners *)

\* The oracle's transactions name an owner of the record, whoever submitted.
AnswersOwner == \A i \in 1 .. Len(txs) : txs[i].signer \in Signers[txs[i].name]

SignerIsOwner == \A x \in Names : bindingSigner[x] \in {zero} \cup Signers[x]

OracleInvariant == OracleTypeOK /\ ActiveIsAccepted /\ AnswersOwner /\ SignerIsOwner

(* The inductive invariant behind SyncedHandled *)

\* Events are logged in the order of the blocks, none later than the block in
\* progress.
LogOrdered ==
  \A i \in 1 .. Len(log) :
    log[i].block <= now /\ \A j \in i .. Len(log) : log[i].block <= log[j].block

\* The channel keeps that order, and only has events of sealed blocks.
QueueOrdered ==
  \A i \in 1 .. Len(queue) :
    queue[i].block < now /\ \A j \in i .. Len(queue) : queue[i].block <= queue[j].block

\* While the listener runs, every sealed event is handled, waits or was never given.
EventsAccounted ==
  phase # "down" =>
    \A i \in 1 .. Len(log) :
      log[i].block < now => log[i] \in handled \cup missed \cup Range(queue)

SyncInvariant ==
  LogOrdered /\ QueueOrdered /\ EventsAccounted /\ lastSyncedBlock < now /\ SyncedHandled
=============================================================================
