---------------------------- MODULE Registration ----------------------------
(***************************************************************************)
(* A domain's way from domain_register to a confirmed record and the       *)
(* updates of that record: the RPC handlers (rpc/records.go),              *)
(* RecordStore.Add and its vote goroutine, BindAddressResolver             *)
(* (core/store.go), Node.PublishRecord (core/node.go) and the periodic     *)
(* decision of VotingManager (core/voting.go), on one or several nodes     *)
(* that share a DHT and may crash.  Every access to the DHT, to the local  *)
(* database or to the chain is a step of its own; between two steps any    *)
(* other thread of any node may run.                                       *)
(*                                                                         *)
(* A record is abstracted to its status and to the request that carried    *)
(* it, which is also the id of its domain lock.  The lock on the pending   *)
(* index has the id of the thread that took it.                            *)
(***************************************************************************)
EXTENDS DHTLock, VoteRules

CONSTANTS Domains,           \* names in lower case: lock and pending keys are folded
          Requests,          \* the calls of domain_register
          Updates,           \* the calls of binding_add, the NameBound messages
          NodeOf,            \* request or update -> the node that receives it
          DomainOf,          \* request or update -> the domain it is about
          Crashes,           \* the nodes that may crash
          MayLapse,          \* the requests whose binding on chain may lapse
          indexKey,          \* the lock key of the pending index
          Voters,            \* the nodes that have a voting manager
          MaxIndexAttempts   \* maxAttempts of TryAcquireIndexLock (5 in the code)

Records == [req : Requests, status : {"pending", "confirmed"}]

ASSUME RegistrationAssumption ==
  /\ IsFiniteSet(Nodes)
  /\ None \notin Records \cup Requests \cup VoteResults(Nodes)
  /\ indexKey \notin Domains
  /\ Keys = Domains \cup {indexKey}
  /\ Requests \cap Updates = {}
  /\ NodeOf \in [Requests \cup Updates -> Nodes]
  /\ DomainOf \in [Requests \cup Updates -> Domains]
  /\ Crashes \subseteq Nodes
  /\ MayLapse \subseteq Requests
  /\ Voters \subseteq Nodes
  /\ MaxIndexAttempts \in Nat \ {0}

VARIABLES index,       \* DHT: the domains listed as pending
          pending,     \* DHT: domain -> pending record
          votes,       \* DHT: domain -> VoteResult
          record,      \* DHT: domain -> record
          nameMap,     \* DHT: the domains whose namehash is mapped
          db,          \* node -> domain -> record in its LevelDB
          dbNames,     \* node -> the domains whose namehash it has stored
          up,          \* node -> it is running
          mined,       \* chain: the requests whose transaction has been executed
          sent,        \* chain: those whose transaction waits in the mempool
          lapsed,      \* chain: those mined whose binding blocks the name no longer
          rejected,    \* history: the requests RejectRecord has cancelled
          th           \* thread -> its program counter and local variables

dhtVars == <<index, pending, votes, record, nameMap>>
nodeVars == <<db, dbNames, up>>
chainVars == <<mined, sent, lapsed>>
vars == <<lockVars, dhtVars, nodeVars, chainVars, rejected, th>>

\* A record of request r, before and after ConfirmRecord.
Pending(r) == [req |-> r, status |-> "pending"]
Confirmed(r) == [req |-> r, status |-> "confirmed"]

IsConfirmed(r) == r # None /\ r.status = "confirmed"

\* The goroutines: one per call of domain_register or binding_add and per NameBound
\* message, the vote and the publication that a registration starts, and the
\* decision loop of each voting manager.  A publication changes nothing here
\* unless it may fail: peers cannot decode the message.
RequestThreads ==
  {"register", "vote"} \cup IF "publish" \in Faults THEN {"publish"} ELSE {}

Threads ==
  (RequestThreads \X Requests) \cup ({"update"} \X Updates) \cup ({"tick"} \X Voters)

ASSUME ThreadAssumption == None \notin Threads

Node(t) == IF t[1] = "tick" THEN t[2] ELSE NodeOf[t[2]]

\* op: the function the thread is in; rec: the record in hand; idx: the index
\* as read; result: the vote result as read; todo: domains left in this tick;
\* ok: no error so far; seen: history, what was pending when Get began.
Idle(t) ==
  [pc |-> CASE t[1] = "register" -> "get"
            [] t[1] \in {"update", "tick"} -> t[1]
            [] OTHER -> "off",
   op |-> t[1],
   dom |-> IF t[1] = "tick" THEN None ELSE DomainOf[t[2]],
   rec |-> None, seen |-> None, idx |-> {}, result |-> None, tries |-> 0,
   todo |-> {}, ok |-> TRUE]

Init ==
  /\ LockInit
  /\ index = {}
  /\ pending = [d \in Domains |-> None]
  /\ votes = [d \in Domains |-> None]
  /\ record = [d \in Domains |-> None]
  /\ nameMap = {}
  /\ db = [n \in Nodes |-> [d \in Domains |-> None]]
  /\ dbNames = [n \in Nodes |-> {}]
  /\ up = [n \in Nodes |-> TRUE]
  /\ mined = {} /\ sent = {} /\ lapsed = {}
  /\ rejected = {}
  /\ th = [t \in Threads |-> Idle(t)]

\* SubmitBinding refuses a name whose binding has not lapsed.
BoundOnChain(d) == \E r \in mined \ lapsed : DomainOf[r] = d

At(t, pc) == th[t].pc = pc
Become(t, local) == th' = [th EXCEPT ![t] = local]
Goto(t, pc) == Become(t, [th[t] EXCEPT !.pc = pc])

\* The call has not come yet; the thread is not in the middle of a call ("dead":
\* its call was cut short by a crash).
Starts(t) == t[1] \in {"register", "update"} /\ At(t, Idle(t).pc)
Resting(t) == Starts(t) \/ th[t].pc \in {"off", "tick", "done", "refused", "dead"}

\* The state of a decision loop that goes on with its next domain.
NextDomain(t) == [Idle(t) EXCEPT !.todo = th[t].todo]

-----------------------------------------------------------------------------
(* RecordStore.Get, called by domain_register, binding_add, GetByNamehash    *)
(* and GetAndSubmitSignedTx.                                                 *)
(* lockMutex is read-held from the first look-up to the return.              *)

\* binding_add changes a confirmed record, BindAddressResolver any; both save it.
AfterGetForUpdate(t, r) ==
  IF IsConfirmed(r) \/ (r # None /\ th[t].op = "nameBound")
    THEN [th[t] EXCEPT !.pc = "saveRecord", !.op = "update", !.rec = r]
    ELSE [Idle(t) EXCEPT !.pc = "refused"]

\* What the caller does with the record Get returns, None when not found.
AfterGet(t, r) ==
  CASE th[t].op = "register" -> [th[t] EXCEPT !.pc = IF r = None THEN "validate" ELSE "refused"]
    [] th[t].op \in {"bindingAdd", "nameBound"} -> AfterGetForUpdate(t, r)
    [] th[t].op = "decide" /\ r # None -> [th[t] EXCEPT !.pc = "submit", !.rec = r]
    [] OTHER -> [th[t] EXCEPT !.pc = "find", !.op = "reject"]

\* binding_add begins with Get (what follows until SaveRecord reads nothing else).
AddBinding(t) ==
  /\ At(t, "update")
  /\ Become(t, [th[t] EXCEPT !.pc = "get", !.op = "bindingAdd"])
  /\ UNCHANGED <<lockVars, dhtVars, nodeVars, chainVars, rejected>>

\* BindAddressResolver begins with GetByNamehash: the node's own mapping, then the
\* DHT's, then Get.  A NameBound event comes from a transaction that has been mined,
\* perhaps long ago.
GetByNamehash(t) ==
  /\ At(t, "update")
  /\ \E r \in mined : DomainOf[r] = th[t].dom
  /\ \/ /\ th[t].dom \in dbNames[Node(t)] \cup nameMap
        /\ Become(t, [th[t] EXCEPT !.pc = "get", !.op = "nameBound"])
     \/ /\ th[t].dom \notin dbNames[Node(t)]
        /\ th[t].dom \notin nameMap \/ "get" \in Faults
        /\ Goto(t, "refused")
  /\ UNCHANGED <<lockVars, dhtVars, nodeVars, chainVars, rejected>>

\* The local database is asked first; a local copy that is still pending is passed
\* over for the record in the DHT.
GetLocal(t) ==
  LET n == Node(t)
      d == th[t].dom
  IN /\ At(t, "get")
     /\ \/ /\ IsConfirmed(db[n][d])
           /\ lockMutex[n] = None
           /\ Become(t, AfterGet(t, db[n][d]))
           /\ UNCHANGED lockVars
        \/ /\ ~IsConfirmed(db[n][d])
           /\ RLock(n, t)
           /\ Become(t, [th[t] EXCEPT
                           !.pc = IF db[n][d] = None THEN "getPending" ELSE "getRecord",
                           !.seen = IF th[t].op = "register" THEN pending[d] ELSE None])
     /\ UNCHANGED <<dhtVars, nodeVars, chainVars, rejected>>

\* Then the pending records in the DHT.
GetPendingRecord(t) ==
  /\ At(t, "getPending")
  /\ \E r \in GetValue(pending[th[t].dom]) :
       \/ r # None /\ Become(t, AfterGet(t, r)) /\ RUnlock(Node(t), t)
       \/ r = None /\ Goto(t, "getRecord") /\ UNCHANGED lockVars
  /\ UNCHANGED <<dhtVars, nodeVars, chainVars, rejected>>

\* Then the records in the DHT; one that is found is saved again.
GetLatestRecord(t) ==
  /\ At(t, "getRecord")
  /\ \E r \in GetValue(record[th[t].dom]) :
       \/ /\ r # None
          /\ Become(t, [th[t] EXCEPT !.pc = "saveRecord", !.rec = r])
          /\ UNCHANGED lockVars
       \/ r = None /\ Become(t, AfterGet(t, None)) /\ RUnlock(Node(t), t)
  /\ UNCHANGED <<dhtVars, nodeVars, chainVars, rejected>>

-----------------------------------------------------------------------------
(* RecordStore.SaveRecord, called by Get, ConfirmRecord and the updates: the *)
(* record in the DHT, in the local database, then the namehash mapping in    *)
(* both.                                                                     *)

\* SaveRecord returns: Get ignores an error, the others return it.
AfterSave(t, ok) ==
  CASE th[t].op = "confirm" ->
         [th[t] EXCEPT !.pc = IF ok THEN "clear" ELSE "releaseIndex", !.ok = ok]
    [] th[t].op = "update" -> [Idle(t) EXCEPT !.pc = "done"]
    [] OTHER -> AfterGet(t, th[t].rec)

UnlockAfterGet(t, done) ==
  IF done /\ th[t].op \notin {"confirm", "update"}
    THEN RUnlock(Node(t), t) ELSE UNCHANGED lockVars

\* (A bug: the namehash mapping is written before the record.)
SaveNamehashFirst(t) ==
  /\ At(t, "saveRecord")
  /\ IF th[t].dom \in nameMap
       THEN /\ record' = [record EXCEPT ![th[t].dom] = th[t].rec]
            /\ Goto(t, "saveLocal") /\ UNCHANGED nameMap
       ELSE nameMap' = nameMap \cup {th[t].dom} /\ UNCHANGED <<record, th>>
  /\ UNCHANGED <<lockVars, index, pending, votes, nodeVars, chainVars, rejected>>

SaveRecordDHT(t) ==
  /\ At(t, "saveRecord")
  /\ \E p \in PutValue(record[th[t].dom], th[t].rec) :
       /\ record' = [record EXCEPT ![th[t].dom] = p.value]
       /\ IF p.ok THEN Goto(t, "saveLocal") ELSE Become(t, AfterSave(t, FALSE))
       /\ UnlockAfterGet(t, ~p.ok)
  /\ UNCHANGED <<index, pending, votes, nameMap, nodeVars, chainVars, rejected>>

SaveRecordLocal(t) ==
  /\ At(t, "saveLocal")
  /\ db' = [db EXCEPT ![Node(t)][th[t].dom] = th[t].rec]
  /\ Goto(t, "saveName")
  /\ UNCHANGED <<lockVars, dhtVars, dbNames, up, chainVars, rejected>>

SaveNamehash(t) ==
  /\ At(t, "saveName")
  /\ \E p \in PutValue(nameMap, nameMap \cup {th[t].dom}) :
       /\ nameMap' = p.value
       /\ IF p.ok THEN Goto(t, "saveNameLocal") ELSE Become(t, AfterSave(t, FALSE))
       /\ UnlockAfterGet(t, ~p.ok)
  /\ UNCHANGED <<index, pending, votes, record, nodeVars, chainVars, rejected>>

SaveNamehashLocal(t) ==
  /\ At(t, "saveNameLocal")
  /\ dbNames' = [dbNames EXCEPT ![Node(t)] = @ \cup {th[t].dom}]
  /\ Become(t, AfterSave(t, TRUE))
  /\ UnlockAfterGet(t, TRUE)
  /\ UNCHANGED <<dhtVars, db, up, chainVars, rejected>>

-----------------------------------------------------------------------------
(* domain_register goes on, the domain being unknown: ValidateSignedTx, then *)
(* RecordStore.Add: the domain lock, then SavePendingRecordToDHT             *)

\* The transaction is tried out on the chain (requests are well formed: their
\* signatures, nonces and arguments are right).
ValidateSignedTx(t) ==
  /\ At(t, "validate")
  /\ \/ ~BoundOnChain(th[t].dom) /\ Goto(t, "lock")
     \/ /\ BoundOnChain(th[t].dom) \/ "submit" \in Faults
        /\ Goto(t, "refused")
  /\ UNCHANGED <<lockVars, dhtVars, nodeVars, chainVars, rejected>>

LockDomain(t) ==
  /\ At(t, "lock")
  /\ \/ LockBusy(Node(t), th[t].dom) /\ Goto(t, "refused")
     \/ LockGet(Node(t), t, th[t].dom) /\ Goto(t, "lockPut")
  /\ UNCHANGED <<dhtVars, nodeVars, chainVars, rejected>>

LockDomainPut(t) ==
  /\ At(t, "lockPut")
  /\ \/ /\ LockPut(Node(t), t, th[t].dom, t[2])
        /\ Become(t, [th[t] EXCEPT !.pc = "indexLock", !.op = "add", !.rec = Pending(t[2])])
     \/ LockPutError(Node(t), t, th[t].dom, t[2]) /\ Goto(t, "refused")
  /\ UNCHANGED <<dhtVars, nodeVars, chainVars, rejected>>

\* The index lock is taken: save the pending record, then release the index.
SavePending(t) ==
  /\ At(t, "savePending")
  /\ \E p \in PutValue(pending[th[t].dom], th[t].rec) :
       /\ pending' = [pending EXCEPT ![th[t].dom] = p.value]
       /\ Become(t, [th[t] EXCEPT !.pc = "releaseIndex", !.ok = p.ok])
  /\ UNCHANGED <<lockVars, index, votes, record, nameMap, nodeVars, chainVars, rejected>>

-----------------------------------------------------------------------------
(* The functions that update the pending index: SavePendingRecordToDHT,      *)
(* ConfirmRecord and RejectRecord.  Each takes the index lock, reads the     *)
(* list, writes it back, does its own work and releases the lock on return.  *)

\* What a function does when it cannot even lock the index: it returns an error.
\* Add then releases the domain lock; the others leave everything as it is.
\* (A bug: Add returns the error with the domain still locked.)
AbandonLocked(t) ==
  IF t[1] = "tick" THEN [Idle(t) EXCEPT !.todo = th[t].todo]
  ELSE [Idle(t) EXCEPT !.pc = IF t[1] = "register" THEN "refused" ELSE "done"]

Abandon(t) ==
  CASE th[t].op = "add" -> [th[t] EXCEPT !.pc = "releaseDomain", !.op = "undo"]
    [] t[1] = "tick" -> NextDomain(t)
    [] OTHER -> [Idle(t) EXCEPT !.pc = "done"]

\* ConfirmRecord and RejectRecord read the pending record first.
FindPending(t) ==
  /\ At(t, "find")
  /\ \E r \in GetValue(pending[th[t].dom]) :
       \/ r # None /\ Become(t, [th[t] EXCEPT !.pc = "indexLock", !.rec = r])
       \/ r = None /\ Become(t, Abandon(t))
  /\ UNCHANGED <<lockVars, dhtVars, nodeVars, chainVars, rejected>>

\* TryAcquireIndexLock: up to MaxIndexAttempts attempts with a growing pause; it
\* may give up sooner, when the attempts have taken more than ten seconds.
\* (A bug: one attempt too many.)
AttemptFailedLate(t) ==
  IF th[t].tries < MaxIndexAttempts
    THEN Become(t, [th[t] EXCEPT !.pc = "indexLock", !.tries = @ + 1])
    ELSE Become(t, [Abandon(t) EXCEPT !.tries = 0])

AttemptFailed(t) ==
  \/ /\ th[t].tries + 1 < MaxIndexAttempts
     /\ Become(t, [th[t] EXCEPT !.pc = "indexLock", !.tries = @ + 1])
  \/ Become(t, [Abandon(t) EXCEPT !.tries = 0])

LockIndex(t) ==
  /\ At(t, "indexLock")
  /\ \/ LockBusy(Node(t), indexKey) /\ AttemptFailed(t)
     \/ LockGet(Node(t), t, indexKey) /\ Goto(t, "indexPut")
  /\ UNCHANGED <<dhtVars, nodeVars, chainVars, rejected>>

LockIndexPut(t) ==
  /\ At(t, "indexPut")
  /\ \/ /\ LockPut(Node(t), t, indexKey, t)
        /\ Become(t, [th[t] EXCEPT !.pc = "indexRead", !.tries = 0])
     \/ LockPutError(Node(t), t, indexKey, t) /\ AttemptFailed(t)
  /\ UNCHANGED <<dhtVars, nodeVars, chainVars, rejected>>

\* A read error is taken for an empty list.
ReadIndex(t) ==
  /\ At(t, "indexRead")
  /\ \E i \in {index} \cup IF "get" \in Faults THEN {{}} ELSE {} :
       Become(t, [th[t] EXCEPT !.pc = "indexWrite", !.idx = i])
  /\ UNCHANGED <<lockVars, dhtVars, nodeVars, chainVars, rejected>>

\* (A bug: the pending record goes together with its entry in the index.)
WriteIndexAndClear(t) ==
  /\ At(t, "indexWrite")
  /\ index' = IF th[t].op = "add" THEN index \cup {th[t].dom} ELSE index \ {th[t].dom}
  /\ pending' = IF th[t].op = "add" THEN pending
                ELSE [pending EXCEPT ![th[t].dom] = None]
  /\ Become(t, [th[t] EXCEPT !.idx = {},
       !.rec = IF th[t].op = "confirm" THEN Confirmed(@.req) ELSE @,
       !.pc = CASE th[t].op = "add" -> "savePending"
                [] th[t].op = "confirm" -> "saveRecord"
                [] th[t].op = "reject" -> "clear"])
  /\ UNCHANGED <<lockVars, votes, record, nameMap, nodeVars, chainVars, rejected>>

\* The list is written back with the domain added (nothing is written if it is
\* there already) or removed.  ConfirmRecord then marks its copy of the record.
WriteIndex(t) ==
  LET d == th[t].dom
      new == IF th[t].op = "add" THEN th[t].idx \cup {d} ELSE th[t].idx \ {d}
      after == CASE th[t].op = "add" -> "savePending"
                 [] th[t].op = "confirm" -> "saveRecord"
                 [] th[t].op = "reject" -> "clear"
  IN /\ At(t, "indexWrite")
     /\ \/ /\ th[t].op = "add" /\ d \in th[t].idx
           /\ Become(t, [th[t] EXCEPT !.pc = after, !.idx = {}])
           /\ UNCHANGED index
        \/ /\ ~(th[t].op = "add" /\ d \in th[t].idx)
           /\ \E p \in PutValue(index, new) :
                /\ index' = p.value
                /\ Become(t, [th[t] EXCEPT !.pc = IF p.ok THEN after ELSE "releaseIndex",
                                           !.idx = {}, !.ok = p.ok,
                                           !.rec = IF th[t].op = "confirm" /\ p.ok
                                                     THEN Confirmed(@.req) ELSE @])
     /\ UNCHANGED <<lockVars, pending, votes, record, nameMap, nodeVars, chainVars, rejected>>

\* (A bug: the domain lock is not released.)
ClearPendingOnly(t) ==
  /\ At(t, "clear")
  /\ pending' = [pending EXCEPT ![th[t].dom] = None]
  /\ Goto(t, "releaseIndex")
  /\ UNCHANGED <<lockVars, index, votes, record, nameMap, nodeVars, chainVars, rejected>>

\* ConfirmRecord and RejectRecord empty the pending key, ignoring an error.
ClearPending(t) ==
  /\ At(t, "clear")
  /\ \E p \in PutValue(pending[th[t].dom], None) :
       pending' = [pending EXCEPT ![th[t].dom] = p.value]
  /\ rejected' = IF th[t].op = "reject" THEN rejected \cup {th[t].rec.req} ELSE rejected
  /\ Goto(t, "releaseDomain")
  /\ UNCHANGED <<lockVars, index, votes, record, nameMap, nodeVars, chainVars>>

\* ReleaseLock(domain, LockID of the record in hand).
AfterReleaseDomain(t) ==
  CASE th[t].op = "undo" -> [Idle(t) EXCEPT !.pc = "refused"]
    [] th[t].op = "vote" -> [Idle(t) EXCEPT !.pc = "done"]
    [] OTHER -> [th[t] EXCEPT !.pc = "releaseIndex"]

ReleaseDomain(t) ==
  /\ At(t, "releaseDomain")
  /\ \/ /\ UnlockInvalid(Node(t), th[t].dom, th[t].rec.req)
        /\ Become(t, AfterReleaseDomain(t))
     \/ UnlockGet(Node(t), t, th[t].dom, th[t].rec.req) /\ Goto(t, "domainClear")
  /\ UNCHANGED <<dhtVars, nodeVars, chainVars, rejected>>

ReleaseDomainPut(t) ==
  /\ At(t, "domainClear")
  /\ UnlockPut(Node(t), t, th[t].dom, th[t].rec.req)
  /\ Become(t, AfterReleaseDomain(t))
  /\ UNCHANGED <<dhtVars, nodeVars, chainVars, rejected>>

\* The deferred release of the index lock, and the return.  An Add that worked
\* starts the vote (if the node has a voting manager) and the publication.
Started(t, u) ==
  /\ u[2] = t[2]
  /\ \/ u[1] = "vote" /\ NodeOf[t[2]] \in Voters
     \/ u[1] = "publish"

AfterReleaseIndex(t) ==
  IF th[t].op = "add" /\ th[t].ok
    THEN th' = [u \in Threads |->
                  CASE u = t -> [Idle(t) EXCEPT !.pc = "done", !.seen = th[t].seen]
                    [] u # t /\ Started(t, u) -> [th[u] EXCEPT !.pc = u[1]]
                    [] OTHER -> th[u]]
    ELSE Become(t, Abandon(t))

ReleaseIndex(t) ==
  /\ At(t, "releaseIndex")
  /\ \/ UnlockInvalid(Node(t), indexKey, t) /\ AfterReleaseIndex(t)
     \/ UnlockGet(Node(t), t, indexKey, t) /\ Goto(t, "indexClear")
  /\ UNCHANGED <<dhtVars, nodeVars, chainVars, rejected>>

ReleaseIndexPut(t) ==
  /\ At(t, "indexClear")
  /\ UnlockPut(Node(t), t, indexKey, t)
  /\ AfterReleaseIndex(t)
  /\ UNCHANGED <<dhtVars, nodeVars, chainVars, rejected>>

-----------------------------------------------------------------------------
(* Crashes *)

\* The node stops: its goroutines and its memory are gone, the DHT and its database
\* stay as its last completed write left them.  Calls that have not come yet may
\* come after the restart.
Stop(n) ==
  /\ up' = [up EXCEPT ![n] = FALSE]
  /\ th' = [t \in Threads |->
              CASE Node(t) = n /\ t[1] = "tick" -> Idle(t)
                [] Node(t) = n /\ t[1] # "tick" /\ ~Resting(t) -> [Idle(t) EXCEPT !.pc = "dead"]
                [] OTHER -> th[t]]
  /\ lockMutex' = [lockMutex EXCEPT ![n] = None]
  /\ readers' = [readers EXCEPT ![n] = {}]
  /\ pendingLocks' = [pendingLocks EXCEPT ![n] = [k \in Keys |-> None]]
  /\ UNCHANGED <<lockCell, dhtVars, db, dbNames, chainVars, rejected>>

\* (That includes what the Go runtime kills: TryAcquireIndexLock writes pendingLocks
\* again after lockMutex is released, which may meet another write, and SubmitSignedTx
\* uses a receipt that it may not have got.)
Crash(n) == n \in Crashes /\ up[n] /\ Stop(n)

\* NewRecordStore, with an empty memory.
Restart(n) ==
  /\ ~up[n]
  /\ up' = [up EXCEPT ![n] = TRUE]
  /\ UNCHANGED <<lockVars, dhtVars, db, dbNames, chainVars, rejected, th>>

-----------------------------------------------------------------------------
(* The vote that Add submits: SubmitVote(domain, true), a read-modify-write  *)

\* The peers in the node's routing table, apart from bootstrap nodes: some that run may
\* be missing, some that have gone may still be there.
OnlineNodes(n) == SUBSET (Nodes \ {n})

\* (A bug: a result that is decided is taken for none.)
ReadVotesAfresh(t) ==
  LET stored == votes[th[t].dom]
      result == IF stored = None \/ stored.consensus THEN NewResult(Node(t), 0) ELSE stored
  IN /\ At(t, "vote")
     /\ Become(t, [th[t] EXCEPT !.pc = "voteSave", !.result = WithVote(result, Node(t), TRUE)])
     /\ UNCHANGED <<lockVars, dhtVars, nodeVars, chainVars, rejected>>

\* SubmitVote fails when the domain is decided (or the read fails): the vote
\* goroutine then releases the domain lock and leaves the record pending.  A read
\* may also find nothing although a result is stored; it is then replaced.
ReadVotes(t) ==
  LET n == Node(t)
      Vote(result) ==
        Become(t, [th[t] EXCEPT !.pc = "voteSave", !.result = WithVote(result, n, TRUE)])
      Fail == Become(t, [th[t] EXCEPT !.pc = "releaseDomain", !.rec = Pending(t[2])])
  IN /\ At(t, "vote")
     /\ \/ \E stored \in GetValue(votes[th[t].dom]) :
             \/ /\ stored = None
                /\ \E counted \in OnlineNodes(n), peers \in OnlineNodes(n) :
                     \E m \in DecisionMakers(n, Cardinality(counted), peers) :
                       Vote(NewResult(m, Cardinality(counted)))
             \/ stored # None /\ ~stored.consensus /\ Vote(stored)
             \/ stored # None /\ stored.consensus /\ Fail
        \/ "get" \in Faults /\ Fail
     /\ UNCHANGED <<lockVars, dhtVars, nodeVars, chainVars, rejected>>

\* A panic of the vote goroutine stops the process.
PanicInVote(t) ==
  /\ At(t, "vote")
  /\ None \in GetValue(votes[th[t].dom])
  /\ \E counted \in OnlineNodes(Node(t)), peers \in OnlineNodes(Node(t)) :
       MayPanic(Cardinality(counted), peers)
  /\ Stop(Node(t))

SaveVote(t) ==
  /\ At(t, "voteSave")
  /\ \E p \in PutValue(votes[th[t].dom], th[t].result) :
       /\ votes' = [votes EXCEPT ![th[t].dom] = p.value]
       /\ Become(t, IF p.ok THEN [Idle(t) EXCEPT !.pc = "done"]
                    ELSE [th[t] EXCEPT !.pc = "releaseDomain", !.rec = Pending(t[2]),
                                       !.result = None])
  /\ UNCHANGED <<lockVars, index, pending, record, nameMap, nodeVars, chainVars, rejected>>

-----------------------------------------------------------------------------
(* PublishRecord: the record is rejected when the message cannot be sent *)

Publish(t) ==
  /\ At(t, "publish")
  /\ \/ Become(t, [Idle(t) EXCEPT !.pc = "done"])
     \/ /\ "publish" \in Faults
        /\ Become(t, [th[t] EXCEPT !.pc = "find", !.op = "reject"])
  /\ UNCHANGED <<lockVars, dhtVars, nodeVars, chainVars, rejected>>

-----------------------------------------------------------------------------
(* processPendingRecords and decide *)

\* A tick reads the list of pending domains.
Tick(t) ==
  /\ At(t, "tick")
  /\ t[1] = "tick"
  /\ th[t].todo = {}
  /\ index # {}
  /\ Become(t, [th[t] EXCEPT !.todo = index])
  /\ UNCHANGED <<lockVars, dhtVars, nodeVars, chainVars, rejected>>

\* The node decides a domain if it is the decision maker of a result with enough
\* votes.  Otherwise, when it finds the decision maker gone or late, it counts an
\* attempt in its own copy of the result, which is not saved: no trace is left,
\* and as the stored count stays 0 no other decision maker is ever chosen.
MayDecide(n, result) ==
  result # None /\ result.decisionMaker = n /\ HasQuorum(result)

Examine(t) ==
  /\ At(t, "tick")
  /\ \E d \in th[t].todo :
       LET rest == [th[t] EXCEPT !.todo = @ \ {d}]
       IN \/ /\ MayDecide(Node(t), votes[d])
             /\ Become(t, [rest EXCEPT !.pc = "get", !.op = "decide", !.dom = d,
                                       !.result = Decided(votes[d])])
          \/ /\ ~MayDecide(Node(t), votes[d]) \/ "get" \in Faults
             /\ Become(t, rest)
  /\ UNCHANGED <<lockVars, dhtVars, nodeVars, chainVars, rejected>>

\* The chain executes a transaction once, and only for a name that is free.
Executable(t) == ~BoundOnChain(th[t].dom) /\ th[t].rec.req \notin mined \cup sent

\* SubmitSignedTx(the transaction of the record Get returned).
\* (A bug: the error of the submission is dropped.)
SubmitIgnoringErrors(t) ==
  /\ At(t, "submit")
  /\ mined' = IF Executable(t) THEN mined \cup {th[t].rec.req} ELSE mined
  /\ Become(t, [th[t] EXCEPT !.pc = "saveResult", !.rec = None])
  /\ UNCHANGED <<lockVars, dhtVars, nodeVars, sent, lapsed, rejected>>

\* When it gives up, its transaction may have got into the mempool.
SubmitSignedTx(t) ==
  LET Failed == Become(t, [th[t] EXCEPT !.pc = "find", !.op = "reject",
                                        !.rec = None, !.result = None])
  IN /\ At(t, "submit")
     /\ \/ /\ Executable(t)
           /\ mined' = mined \cup {th[t].rec.req}
           /\ Become(t, [th[t] EXCEPT !.pc = "saveResult", !.rec = None])
           /\ UNCHANGED sent
        \/ ~Executable(t) /\ UNCHANGED <<mined, sent>> /\ Failed
        \/ /\ Executable(t) /\ "submit" \in Faults
           /\ UNCHANGED mined
           /\ sent' \in {sent, sent \cup {th[t].rec.req}}
           /\ Failed
     /\ UNCHANGED <<lockVars, dhtVars, nodeVars, lapsed, rejected>>

\* The decided result overwrites the stored one; then ConfirmRecord.
SaveResult(t) ==
  /\ At(t, "saveResult")
  /\ \E p \in PutValue(votes[th[t].dom], th[t].result) :
       /\ votes' = [votes EXCEPT ![th[t].dom] = p.value]
       /\ Become(t, IF p.ok THEN [th[t] EXCEPT !.pc = "find", !.op = "confirm", !.result = None]
                    ELSE NextDomain(t))
  /\ UNCHANGED <<lockVars, index, pending, record, nameMap, nodeVars, chainVars, rejected>>

-----------------------------------------------------------------------------
(* What the chain does by itself *)

\* A transaction in the mempool is mined late: executed, or reverted if the name is bound.
Mine(r) ==
  /\ r \in sent
  /\ sent' = sent \ {r}
  /\ mined' = IF BoundOnChain(DomainOf[r]) THEN mined ELSE mined \cup {r}
  /\ UNCHANGED <<lockVars, dhtVars, nodeVars, lapsed, rejected, th>>

\* A binding blocks its name until it expires (its expiresAt may be in the past from
\* the start), or the oracle rejects it or unbinds the name.
Lapse(r) ==
  /\ r \in (mined \ lapsed) \cap MayLapse
  /\ lapsed' = lapsed \cup {r}
  /\ UNCHANGED <<lockVars, dhtVars, nodeVars, mined, sent, rejected, th>>

-----------------------------------------------------------------------------
Step(t) ==
  \/ AddBinding(t) \/ GetByNamehash(t) \/ GetLocal(t) \/ GetPendingRecord(t) \/ GetLatestRecord(t)
  \/ SaveRecordDHT(t) \/ SaveRecordLocal(t)
  \/ SaveNamehash(t) \/ SaveNamehashLocal(t)
  \/ ValidateSignedTx(t) \/ LockDomain(t) \/ LockDomainPut(t) \/ SavePending(t)
  \/ FindPending(t) \/ LockIndex(t) \/ LockIndexPut(t)
  \/ ReadIndex(t) \/ WriteIndex(t) \/ ClearPending(t)
  \/ ReleaseDomain(t) \/ ReleaseDomainPut(t)
  \/ ReleaseIndex(t) \/ ReleaseIndexPut(t)
  \/ ReadVotes(t) \/ PanicInVote(t) \/ SaveVote(t) \/ Publish(t)
  \/ Tick(t) \/ Examine(t) \/ SubmitSignedTx(t) \/ SaveResult(t)

Runs(t) == up[Node(t)] /\ Step(t)

Next ==
  \/ \E t \in Threads : Runs(t)
  \/ \E n \in Nodes : Crash(n) \/ Restart(n)
  \/ \E r \in Requests : Mine(r) \/ Lapse(r)

Spec == Init /\ [][Next]_vars

\* A request or an update may or may not come; everything that has started goes
\* on, and the ticker fires for ever; a node that has crashed need not come back.
\* Strong fairness, because the mutex a thread waits for is taken and released by
\* others: sync.RWMutex lets no new reader in before a writer that waits, and
\* hands over to a waiting writer.  All threads but the decision loops take a
\* bounded number of steps, so it is enough that one of those that can run does.
Loops == {"tick"} \X Voters
FairSpec ==
  /\ Spec
  /\ SF_vars(\E t \in Threads \ Loops : Runs(t) /\ ~Starts(t))
  /\ \A t \in Loops : SF_vars(Runs(t))

-----------------------------------------------------------------------------
RecordOrNone == Records \cup {None}
ResultOrNone == VoteResults(Nodes) \cup {None}

SavePcs == {"saveRecord", "saveLocal", "saveName", "saveNameLocal"}
GetPcs == {"get", "getPending", "getRecord"} \cup SavePcs
LockPcs == {"indexLock", "indexPut", "indexRead", "indexWrite"}
UnlockPcs == {"releaseIndex", "indexClear"}
ReleasePcs == {"releaseDomain", "domainClear"}

Pcs == GetPcs \cup LockPcs \cup UnlockPcs \cup ReleasePcs \cup
  {"off", "vote", "voteSave", "publish", "update", "tick", "validate", "lock", "lockPut",
   "savePending", "find", "clear", "submit", "saveResult", "done", "refused", "dead"}

Ops == {"register", "add", "undo", "vote", "publish", "reject", "update", "bindingAdd",
        "nameBound", "tick", "decide", "confirm"}

ThreadState ==
  [pc : Pcs, op : Ops, dom : Domains \cup {None}, rec : RecordOrNone, seen : RecordOrNone,
   idx : SUBSET Domains, result : ResultOrNone, tries : 0 .. MaxIndexAttempts - 1,
   todo : SUBSET Domains, ok : BOOLEAN]

\* Where a thread of kind k can be in each function.
Control(k, op, pc) ==
  \/ k = "register" /\ op = "register"
       /\ pc \in GetPcs \cup {"validate", "lock", "lockPut", "done", "refused", "dead"}
  \/ k = "register" /\ op = "add" /\ pc \in LockPcs \cup UnlockPcs \cup {"savePending"}
  \/ k = "register" /\ op = "undo" /\ pc \in ReleasePcs
  \/ k = "vote" /\ op = "vote"
       /\ pc \in ReleasePcs \cup {"off", "vote", "voteSave", "done", "dead"}
  \/ k = "publish" /\ op = "publish" /\ pc \in {"off", "publish", "done", "dead"}
  \/ k = "update" /\ op = "update" /\ pc \in SavePcs \cup {"update", "done", "refused", "dead"}
  \/ k = "update" /\ op \in {"bindingAdd", "nameBound"} /\ pc \in GetPcs
  \/ k = "tick" /\ op = "tick" /\ pc = "tick"
  \/ k = "tick" /\ op = "decide" /\ pc \in GetPcs \cup {"submit", "saveResult"}
  \/ k \in {"publish", "tick"} /\ op = "reject"
       /\ pc \in LockPcs \cup UnlockPcs \cup ReleasePcs \cup {"find", "clear"}
  \/ k = "tick" /\ op = "confirm"
       /\ pc \in SavePcs \cup LockPcs \cup UnlockPcs \cup ReleasePcs \cup {"find", "clear"}

\* A thread that is to lock, save or release something has the record in hand.
HasRecord(pc) ==
  pc \in SavePcs \cup LockPcs \cup UnlockPcs \cup ReleasePcs
           \cup {"savePending", "clear", "submit"}

ThreadOK(t, s) ==
  /\ s \in ThreadState
  /\ Control(t[1], s.op, s.pc)
  /\ HasRecord(s.pc) => s.rec # None
  /\ s.op # "tick" => s.dom \in Domains
  /\ t[1] # "tick" => s.dom = DomainOf[t[2]]

\* The threads are where their kind and the function they are in allow: in a
\* function that updates the index, say, only with a record in hand.
TypeOK ==
  /\ lockCell \in [Keys -> Requests \cup {None} \cup Threads]
  /\ pendingLocks \in [Nodes -> [Keys -> Requests \cup {None} \cup Threads]]
  /\ lockMutex \in [Nodes -> Threads \cup {None}]
  /\ readers \in [Nodes -> SUBSET Threads]
  /\ index \subseteq Domains /\ nameMap \subseteq Domains
  /\ pending \in [Domains -> RecordOrNone] /\ record \in [Domains -> RecordOrNone]
  /\ votes \in [Domains -> ResultOrNone]
  /\ db \in [Nodes -> [Domains -> RecordOrNone]] /\ dbNames \in [Nodes -> SUBSET Domains]
  /\ up \in [Nodes -> BOOLEAN]
  /\ mined \subseteq Requests /\ rejected \subseteq Requests
  /\ sent \subseteq (IF "submit" \in Faults THEN Requests ELSE {})
  /\ lapsed \subseteq mined \cap MayLapse
  /\ th \in [Threads -> ThreadState] /\ \A t \in Threads : ThreadOK(t, th[t])

\* A request is voted on and published once it has been added: what starts those
\* threads is the return of Add.
StartedByAdd ==
  \A t \in Threads :
    t[1] \in {"vote", "publish"} /\ th[t].pc # "off" => th[<<"register", t[2]>>].pc = "done"

\* The index lists every pending record whenever nobody is updating it: the
\* read-modify-writes of SavePendingRecordToDHT, ConfirmRecord and RejectRecord
\* lose no entry.  A pending record that is not listed is never decided, since
\* processPendingRecords only looks at the list.
IndexListsPending ==
  lockCell[indexKey] = None => \A d \in Domains : pending[d] # None => d \in index

\* A confirmed record is never replaced by another request's nor by a pending one:
\* not by a registration, although domain_register checks that the domain is
\* unknown long before Add takes its lock, and not by an update, which saves what
\* Get returned some time before.
ConfirmedStable ==
  [][\A d \in Domains : IsConfirmed(record[d]) => record'[d] = record[d]]_vars

\* On several nodes a confirmed record is kept as long as the chain keeps the name for
\* it: the locks do not exclude the nodes from each other, but the chain takes one
\* binding for a name until it lapses, and what decides first is what is confirmed.
Unlapsed(d) == \A r \in lapsed : DomainOf[r] # d

ConfirmedWhileBound ==
  [][\A d \in Domains : IsConfirmed(record[d]) /\ Unlapsed(d) => record'[d] = record[d]]_vars

\* A decision is not undone: the vote of a later request, which read the result
\* before it was decided or takes it for a new one, does not overwrite it.
DecisionKept ==
  [][\A d \in Domains :
       votes[d] # None /\ votes[d].consensus => votes'[d] # None /\ votes'[d].consensus]_vars

\* Only a request whose transaction is on chain becomes the confirmed record:
\* ConfirmRecord reads the pending record again after decide has submitted it.
ConfirmedWasMined ==
  \A d \in Domains : record[d] # None => record[d].req \in mined

\* Get never misses a record on its way from pending to confirmed: if it was
\* pending when the look-up of domain_register began and the look-up found
\* nothing, then it does not turn out to be confirmed (Get reads the pending key
\* before the record key, ConfirmRecord writes them in the other order).
NoLookupGap ==
  \A r \in Requests :
    LET t == <<"register", r>>
    IN th[t].pc \notin (GetPcs \ {"get"}) \cup {"refused"}
         /\ th[t].seen # None => record[th[t].dom] # Confirmed(th[t].seen.req)

\* A domain lock is never orphaned: when nothing is running, a locked domain is
\* one whose pending record carries the lock and is listed for the next tick.
NoOrphanLock ==
  (\A t \in Threads : Resting(t)) =>
    \A d \in Domains : lockCell[d] # None => pending[d] = Pending(lockCell[d]) /\ d \in index

\* A namehash that resolves to a domain, in the DHT or on a node, resolves to a
\* domain that has a record: SaveRecord writes the mapping last.
NamehashResolves ==
  \A d \in Domains :
    /\ d \in nameMap => record[d] # None
    /\ \A n \in Nodes : d \in dbNames[n] => db[n][d] # None

\* What decide and RejectRecord say of a rejection ("rejecting record after
\* failed signedTx submission", "cancels a pending record registration"): the
\* transaction of a cancelled request has not been executed.
RejectedNotMined == rejected \cap mined = {}

\* First come, first served: from the point of view of AbstractRegistration the request
\* that is pending has come first until the chain has executed one, then the one that
\* it has executed.  Neither the locks that are given up and taken again nor the records
\* that replace each other in the DHT make a later request overtake it.
RequestOf(r) == IF r = None THEN None ELSE r.req
ExecutedFor(d) == IF BoundOnChain(d) THEN CHOOSE r \in mined : DomainOf[r] = d ELSE None
FirstFor(d) == IF BoundOnChain(d) THEN ExecutedFor(d) ELSE RequestOf(pending[d])

Names ==
  INSTANCE AbstractRegistration WITH first <- [d \in Domains |-> FirstFor(d)],
                                     executed <- [d \in Domains |-> ExecutedFor(d)],
                                     confirmed <- [d \in Domains |-> RequestOf(record[d])]
ImplementsNames == Names!Spec

\* A locked domain is decided or given up: its lock does not stay for ever.
LockReleased ==
  \A d \in Domains : lockCell[d] # None ~> lockCell[d] = None

\* Every handler returns, whatever fails: no thread waits for ever on lockMutex
\* or in the retries of the index lock.
HandlersReturn ==
  \A t \in Threads : ~Resting(t) ~> Resting(t)

\* A listed domain whose decision maker is gone gets another one, unless the decision
\* maker comes back or the domain is not pending any more ("If decision maker is
\* unavailable or timeout reached, select new decision maker").
Undecided(d, n) ==
  /\ d \in index /\ pending[d] # None
  /\ votes[d] # None /\ ~votes[d].consensus
  /\ votes[d].decisionMaker = n /\ ~up[n]

MakerReplaced ==
  \A d \in Domains, n \in Nodes : Undecided(d, n) ~> ~Undecided(d, n)

-----------------------------------------------------------------------------
(* The inductive invariants behind the properties *)

\* A record is in the DHT and in the node's database before its namehash.
SavedInOrder ==
  \A t \in Threads :
    /\ th[t].pc \in SavePcs \ {"saveRecord"} => record[th[t].dom] # None
    /\ th[t].pc \in {"saveName", "saveNameLocal"} => db[Node(t)][th[t].dom] # None

\* A record is kept, and handled, under the domain it was registered for.
Of(r, d) == r # None => DomainOf[r.req] = d

RecordsFit ==
  /\ \A d \in Domains : Of(pending[d], d) /\ Of(record[d], d) /\ \A n \in Nodes : Of(db[n][d], d)
  /\ \A t \in Threads : IF th[t].op = "tick" THEN th[t].rec = None ELSE Of(th[t].rec, th[t].dom)

\* Add has the record of its own request in hand, and what is pending is not confirmed.
OwnRecord ==
  /\ \A d \in Domains : ~IsConfirmed(pending[d])
  /\ \A t \in Threads : th[t].op \in {"add", "undo"} => th[t].rec = Pending(t[2])

\* The thread has submitted the transaction of a request for d and has not saved
\* the confirmed record yet.
Confirming(t, d) ==
  /\ th[t].dom = d
  /\ \/ th[t].pc = "saveResult"
     \/ th[t].op = "confirm" /\ th[t].pc \in LockPcs \cup {"find", "saveRecord"}

\* A domain is confirmed once, as long as no binding of it lapses: the chain takes one
\* submission for it, and only the thread that made it goes on to ConfirmRecord.
OneConfirmation ==
  /\ \A d \in Domains :
       record[d] # None /\ Unlapsed(d) => BoundOnChain(d) /\ IsConfirmed(record[d])
  /\ \A t \in Threads, d \in Domains : Confirming(t, d) /\ Unlapsed(d) =>
       BoundOnChain(d) /\ record[d] = None /\ \A u \in Threads : Confirming(u, d) => u = t

\* Whatever else saves a record saves the one that is in the DHT.
SavedIsRecord ==
  /\ \A n \in Nodes, d \in Domains : Unlapsed(d) => db[n][d] \in {None, record[d]}
  /\ \A t \in Threads : th[t].pc \in SavePcs /\ Unlapsed(th[t].dom) =>
       IF th[t].pc = "saveRecord" /\ th[t].op = "confirm" THEN IsConfirmed(th[t].rec)
       ELSE th[t].rec = record[th[t].dom]

\* NameBound messages are the exception: BindAddressResolver saves what it finds.
NoNameBound == \A t \in Threads : th[t].op # "nameBound"

\* The requests whose pending record has been saved: Add is about to return or has.
Added ==
  {r \in Requests :
     LET s == th[<<"register", r>>]
     IN s.pc \in {"done", "dead"} \/ (s.op = "add" /\ s.pc \in UnlockPcs)}

\* Every record that is stored, or that a thread has in hand, is of a request that
\* was added, apart from the one that the request's own thread is adding.
RecordsAdded ==
  /\ \A d \in Domains : pending[d] # None => pending[d].req \in Added
  /\ \A d \in Domains : record[d] # None => record[d].req \in Added
  /\ \A n \in Nodes, d \in Domains : db[n][d] # None => db[n][d].req \in Added
  /\ \A t \in Threads : th[t].ok
  /\ \A t \in Threads : th[t].rec # None =>
       \/ th[t].rec.req \in Added
       \/ t = <<"register", th[t].rec.req>> /\ th[t].op \in {"add", "undo"}

\* Between TryAcquireIndexLock and the deferred release.
InSection(t) ==
  th[t].op \in {"add", "confirm", "reject"} /\ th[t].pc \notin {"find", "indexLock", "indexPut"}

\* The call between its read and its write of a lock holds the node's mutex; the
\* index lock is found free by the one that takes it and has the id of the one that
\* has it.
IndexLocked ==
  \A t \in Threads :
    /\ th[t].pc \in {"lockPut", "indexPut", "domainClear", "indexClear"} => lockMutex[Node(t)] = t
    /\ th[t].pc = "indexPut" => lockCell[indexKey] = None
    /\ InSection(t) => lockCell[indexKey] = t

\* What holds of the list for the one that updates it: it has read the list as it is,
\* and lists every pending record but the one it is removing.
IndexHeld ==
  \A t \in Threads : InSection(t) =>
    /\ th[t].pc = "indexWrite" => th[t].idx = index
    /\ th[t].pc = "savePending" => th[t].dom \in index
    /\ \A d \in Domains : pending[d] # None =>
         d \in index \/ (d = th[t].dom /\ th[t].pc \in SavePcs \cup {"clear"})

IndexInvariant == IndexLocked /\ IndexHeld /\ IndexListsPending
=============================================================================
