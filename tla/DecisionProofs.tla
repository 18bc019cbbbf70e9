--------------------------- MODULE DecisionProofs ---------------------------
(***************************************************************************)
(* The decision of a registration on one node, when neither the DHT, the   *)
(* chain nor a publication fails and no binding lapses on chain: the       *)
(* domain lock keeps everyone else away from a request until the chain has *)
(* taken its transaction, so that what ConfirmRecord finds pending is what *)
(* decide has submitted.  The node may crash at any point.                 *)
(***************************************************************************)
EXTENDS IndexProofs

\* Nothing fails, and no binding expires or is removed.
Undisturbed == Faults = {} /\ MayLapse = {}

-----------------------------------------------------------------------------
(* The invariants *)

\* Between the read and the write of a domain lock the cell is as it was read, and
\* Add has the lock until it returns.
DomainLocked ==
  \A t \in Threads :
    /\ th[t].pc = "lockPut" => lockCell[th[t].dom] = None
    /\ th[t].pc = "domainClear" => lockCell[th[t].dom] = th[t].rec.req
    /\ th[t].op \in {"add", "undo"} => lockCell[th[t].dom] = t[2]

\* Add is about to return, or has and its vote is on its way or given.
Entered(r) ==
  \/ th[<<"register", r>>].op = "add" /\ th[<<"register", r>>].pc \in UnlockPcs
  \/ th[<<"vote", r>>].pc # "off"

Voted(r) == th[<<"vote", r>>].pc = "done"

\* As long as the chain has no binding for d, the domain belongs to one request: the
\* one that is pending has the lock, and only its vote counts.
BeforeBound(d) ==
  /\ pending[d] # None => lockCell[d] = pending[d].req
  /\ \A r \in Requests : DomainOf[r] = d /\ Entered(r) => pending[d] = Pending(r)
  /\ votes[d] # None =>
       ~votes[d].consensus /\ pending[d] # None /\ Voted(pending[d].req)

\* What its decision loop and its votes are at in the meantime.
BeforeBoundThread(t) ==
  /\ th[t].op \notin {"confirm", "reject"} /\ (th[t].op = "vote" => th[t].pc \notin ReleasePcs)
  /\ th[t].op = "decide" =>
       /\ votes[th[t].dom] # None
       /\ th[t].pc \in {"get", "getPending", "submit"}
       /\ th[t].rec \in {None, pending[th[t].dom]}

OneRequest ==
  /\ \A d \in Domains : ~BoundOnChain(d) => BeforeBound(d)
  /\ \A t \in Threads : th[t].op # "tick" /\ ~BoundOnChain(th[t].dom) => BeforeBoundThread(t)

\* From the submission until the pending record is removed.
Decides(t) ==
  \/ th[t].pc = "saveResult"
  \/ th[t].op = "confirm" /\ th[t].pc \in {"find", "clear"} \cup LockPcs \cup SavePcs

\* The request that the chain has taken stays the pending one, and keeps the lock.
DecidedHeld(t) ==
  LET d == th[t].dom
  IN /\ pending[d] # None /\ lockCell[d] = pending[d].req
     /\ pending[d].req \in mined /\ Voted(pending[d].req)
     /\ th[t].pc \notin {"saveResult", "find"} => th[t].rec.req = pending[d].req
     /\ \A r \in Requests : DomainOf[r] = d => th[<<"vote", r>>].pc \in {"off", "done", "dead"}

DecisionHeld == \A t \in Threads : Decides(t) => DecidedHeld(t)

\* The results in hand: of a vote that is not decided, and of the decision.
ResultsFit ==
  \A t \in Threads :
    /\ th[t].pc = "voteSave" =>
         /\ th[t].result # None /\ ~th[t].result.consensus
         /\ votes[th[t].dom] # None => ~votes[th[t].dom].consensus
    /\ th[t].op = "decide" => th[t].result # None /\ th[t].result.consensus

\* SaveRecord stores the record on the node before it maps the namehash, so that a
\* NameBound message only gets through when the node has the confirmed record.
NamesKnown ==
  /\ \A n \in Nodes, d \in Domains : d \in nameMap => db[n][d] # None
  /\ NameBoundKnown

\* A vote that failed releases the lock of its own request.
VoteRecord ==
  \A t \in Threads : th[t].op = "vote" /\ th[t].pc \in ReleasePcs => th[t].rec = Pending(t[2])

DecisionInvariant ==
  /\ DomainLocked /\ VoteRecord /\ OneRequest /\ DecisionHeld /\ ResultsFit /\ NamesKnown
  /\ ConfirmedWasMined

Inv ==
  /\ ConfirmInvariant /\ SavedInOrder /\ NamehashResolves /\ RecordsAdded /\ IndexInvariant
  /\ DecisionInvariant

-----------------------------------------------------------------------------
(* One loop, and nothing that fails *)

LEMMA NothingFails ==
  ASSUME Undisturbed
  PROVE  /\ Reliable
         /\ \A v : GetValue(v) = {v}
         /\ \A v, new : \A p \in PutValue(v, new) : p.ok /\ p.value = new
BY DEF Undisturbed, Reliable, GetValue, PutValue

\* Then a name that is bound stays bound, and a transaction that is submitted is executed
\* at once or not at all.
LEMMA NothingLapses ==
  ASSUME TypeOK, Undisturbed
  PROVE  /\ lapsed = {} /\ \A d : Unlapsed(d)
         /\ \A d : BoundOnChain(d) <=> \E r \in mined : DomainOf[r] = d
         /\ \A r \in Requests : ~Mine(r) /\ ~Lapse(r)
<1>1. lapsed = {} /\ sent = {} /\ MayLapse = {}
  BY DEF TypeOK, Undisturbed
<1>2. QED BY <1>1 DEF Unlapsed, BoundOnChain, Mine, Lapse

\* The chain executes what is submitted for a name that is free.
LEMMA Executes ==
  ASSUME TypeOK, Undisturbed, RecordsFit, NEW t \in Threads, SubmitSignedTx(t)
  PROVE  IF BoundOnChain(th[t].dom) THEN mined' = mined
         ELSE /\ mined' = mined \cup {th[t].rec.req}
              /\ Become(t, [th[t] EXCEPT !.pc = "saveResult", !.rec = None])
<1>1. "submit" \notin Faults /\ sent = {}
  BY DEF TypeOK, Undisturbed
<1>2. CASE BoundOnChain(th[t].dom)
  BY <1>1, <1>2 DEF SubmitSignedTx, Executable
<1>3. CASE ~BoundOnChain(th[t].dom)
  <2>1. th[t].op = "decide" /\ th[t].rec # None
    BY DecideMoves, ThreadFacts DEF SubmitSignedTx, At, ThreadOK, HasRecord
  <2>2. DomainOf[th[t].rec.req] = th[t].dom
    BY <2>1 DEF RecordsFit, Of
  <2>3. Executable(t)
    BY <1>1, <1>3, <2>2, NothingLapses DEF Executable
  <2>4. QED BY <1>1, <1>3, <2>3 DEF SubmitSignedTx
<1>4. QED BY <1>2, <1>3

LEMMA OneLoop ==
  ASSUME TypeOK, OneNode, Undisturbed, NEW t \in Threads
  PROVE  /\ t[1] # "publish" /\ th[t].op # "publish"
         /\ th[t].op \in {"tick", "decide", "confirm", "reject"} => t[1] = "tick"
         /\ t[1] = "tick" => th[t].op \in {"tick", "decide", "confirm", "reject"}
         /\ \A u \in Threads : t[1] = "tick" /\ u[1] = "tick" => u = t
<1>1. ThreadOK(t, th[t])
  BY ThreadFacts
<1>2. t[1] # "publish"
  BY DEF Threads, RequestThreads, Undisturbed
<1>3. \A u \in Threads : u[1] = "tick" => u = <<"tick", u[2]>> /\ u[2] \in Nodes
  BY ThreadKinds, RegistrationAssumption DEF Threads, RequestThreads
<1>4. QED BY <1>1, <1>2, <1>3 DEF ThreadOK, Control, OneNode

-----------------------------------------------------------------------------
(* Who writes the lock of a domain, its pending record and its votes *)

LEMMA DomainCellStep ==
  ASSUME TypeOK, Undisturbed, NEW t \in Threads, Step(t), ~PanicInVote(t), NEW d \in Domains
  PROVE  \/ lockCell'[d] = lockCell[d] /\ ~(LockDomainPut(t) /\ th[t].dom = d)
         \/ LockDomainPut(t) /\ th[t].dom = d /\ lockCell'[d] = t[2]
         \/ ReleaseDomainPut(t) /\ th[t].dom = d /\ lockCell'[d] = None
<1>1. /\ lockCell \in [Keys -> Requests \cup {None} \cup Threads] /\ d \in Keys
      /\ d # indexKey
  BY RegistrationAssumption DEF TypeOK
<1>2. \A k, id : ~LockPutError(Node(t), t, k, id)
  BY NothingFails DEF LockPutError
<1>3. CASE \/ UNCHANGED lockVars
           \/ RLock(Node(t), t) \/ RUnlock(Node(t), t)
           \/ LockGet(Node(t), t, th[t].dom) \/ LockGet(Node(t), t, indexKey)
           \/ UnlockGet(Node(t), t, th[t].dom, th[t].rec.req) \/ UnlockGet(Node(t), t, indexKey, t)
  <2>1. lockCell' = lockCell
    BY <1>3 DEF lockVars, RLock, RUnlock, LockGet, UnlockGet
  <2>2. CASE ~LockDomainPut(t)
    BY <2>1, <2>2
  <2>3. CASE LockDomainPut(t)
    <3>1. LockPut(Node(t), t, th[t].dom, t[2])
      BY <1>2, <2>3 DEF LockDomainPut
    <3>2. lockCell' = [lockCell EXCEPT ![th[t].dom] = t[2]]
      BY <3>1 DEF LockPut
    <3>3. QED BY <1>1, <2>3, <3>2
  <2>4. QED BY <2>2, <2>3
<1>4. CASE \/ LockIndexPut(t) /\ LockPut(Node(t), t, indexKey, t)
           \/ ReleaseIndexPut(t) /\ UnlockPut(Node(t), t, indexKey, t)
  <2>1. \E v : lockCell' = [lockCell EXCEPT ![indexKey] = v]
    BY <1>4 DEF LockPut, UnlockPut
  <2>2. ~LockDomainPut(t)
    BY <1>4 DEF LockIndexPut, ReleaseIndexPut, LockDomainPut, At
  <2>3. QED BY <1>1, <2>1, <2>2
<1>5. CASE LockDomainPut(t) /\ LockPut(Node(t), t, th[t].dom, t[2])
  <2>1. lockCell' = [lockCell EXCEPT ![th[t].dom] = t[2]]
    BY <1>5 DEF LockPut
  <2>2. QED BY <1>1, <1>5, <2>1
<1>6. CASE ReleaseDomainPut(t) /\ UnlockPut(Node(t), t, th[t].dom, th[t].rec.req)
  <2>1. PICK p \in PutValue(lockCell[th[t].dom], None) :
          lockCell' = [lockCell EXCEPT ![th[t].dom] = p.value]
    BY <1>6 DEF UnlockPut
  <2>2. p.value = None
    BY NothingFails
  <2>3. QED BY <1>1, <1>6, <2>1, <2>2
<1>7. QED BY <1>3, <1>4, <1>5, <1>6, <1>2, LockFrame

LEMMA PendingStep ==
  ASSUME TypeOK, Undisturbed, OwnRecord, NEW t \in Threads, Step(t), NEW d \in Domains
  PROVE  \/ pending'[d] = pending[d]
         \/ /\ SavePending(t) /\ th[t].op = "add" /\ th[t].dom = d
            /\ pending'[d] = Pending(t[2])
         \/ ClearPending(t) /\ th[t].dom = d
<1>1. pending \in [Domains -> RecordOrNone]
  BY DEF TypeOK
<1>2. CASE SavePending(t)
  <2>1. th[t].op = "add" /\ th[t].rec = Pending(t[2])
    BY <1>2, AddMoves DEF OwnRecord
  <2>2. PICK p \in PutValue(pending[th[t].dom], th[t].rec) :
          pending' = [pending EXCEPT ![th[t].dom] = p.value]
    BY <1>2 DEF SavePending
  <2>3. p.value = Pending(t[2])
    BY <2>1, NothingFails
  <2>4. QED BY <1>1, <1>2, <2>1, <2>2, <2>3
<1>3. CASE ClearPending(t)
  <2>1. \E v : pending' = [pending EXCEPT ![th[t].dom] = v]
    BY <1>3 DEF ClearPending
  <2>2. QED BY <1>1, <1>3, <2>1
<1>4. CASE UNCHANGED pending
  BY <1>4
<1>5. QED BY <1>2, <1>3, <1>4, DHTFrame DEF dhtVars

LEMMA VotesStep ==
  ASSUME TypeOK, Undisturbed, NEW t \in Threads, Step(t), NEW d \in Domains
  PROVE  \/ votes'[d] = votes[d]
         \/ (SaveVote(t) \/ SaveResult(t)) /\ th[t].dom = d /\ votes'[d] = th[t].result
<1>1. votes \in [Domains -> ResultOrNone]
  BY DEF TypeOK
<1>2. CASE SaveVote(t) \/ SaveResult(t)
  <2>1. PICK p \in PutValue(votes[th[t].dom], th[t].result) :
          votes' = [votes EXCEPT ![th[t].dom] = p.value]
    BY <1>2 DEF SaveVote, SaveResult
  <2>2. p.value = th[t].result
    BY NothingFails
  <2>3. QED BY <1>1, <1>2, <2>1, <2>2
<1>3. CASE UNCHANGED votes
  BY <1>3
<1>4. QED BY <1>2, <1>3, DHTFrame DEF dhtVars

-----------------------------------------------------------------------------
(* The lock of a domain *)

LEMMA VoteThread ==
  ASSUME NEW r \in Requests
  PROVE  LET t == <<"vote", r>>
         IN t \in Threads /\ t[1] = "vote" /\ t[2] = r
  BY DEF Threads, RequestThreads

LEMMA VotedDone ==
  ASSUME StartedByAdd, NEW r \in Requests, th[<<"vote", r>>].pc # "off"
  PROVE  th[<<"register", r>>].pc = "done"
  BY VoteThread DEF StartedByAdd

\* While Add is running, what is pending with the lock of the domain is its own record,
\* and has not been voted on.
LEMMA AddingAlone ==
  ASSUME TypeOK, StartedByAdd, RecordsAdded, DomainLocked, NEW t \in Threads,
         th[t].op \in {"add", "undo"},
         pending[th[t].dom] # None, lockCell[th[t].dom] = pending[th[t].dom].req
  PROVE  /\ pending[th[t].dom].req = t[2] /\ ~Voted(t[2])
         /\ th[t].op = "add" /\ th[t].pc \in UnlockPcs
<1>1. ThreadOK(t, th[t]) /\ th[t].dom \in Domains
  BY ThreadFacts DEF ThreadOK
<1>2. t = <<"register", t[2]>> /\ t[2] \in Requests
  BY <1>1, ThreadKinds DEF ThreadOK, Control
<1>3. pending[th[t].dom].req = t[2]
  BY DEF DomainLocked
<1>4. t[2] \in Added
  BY <1>1, <1>3 DEF RecordsAdded
<1>5. th[t].pc \notin {"done", "dead"}
  BY <1>1 DEF ThreadOK, Control, LockPcs, UnlockPcs, ReleasePcs
<1>6. th[t].op = "add" /\ th[t].pc \in UnlockPcs
  BY <1>2, <1>4, <1>5 DEF Added
<1>7. ~Voted(t[2])
  <2>1. ASSUME Voted(t[2])
        PROVE  th[t].pc = "done"
    BY <1>2, <2>1, VotedDone DEF Voted
  <2>2. QED BY <1>5, <2>1
<1>8. QED BY <1>3, <1>6, <1>7

\* A pending record that has the lock of its domain stays, and so does the lock, until
\* a function other than Add takes them away.
LEMMA HeldStays ==
  ASSUME TypeOK, StartedByAdd, Undisturbed, OwnRecord, RecordsAdded, DomainLocked,
         NEW t \in Threads, Step(t), ~PanicInVote(t), NEW d \in Domains,
         pending[d] # None, lockCell[d] = pending[d].req,
         th[t].dom = d => ~ClearPending(t) /\ (ReleaseDomainPut(t) => th[t].op = "undo")
  PROVE  pending'[d] = pending[d] /\ lockCell'[d] = lockCell[d]
<1>1. pending[d].req \in Requests /\ None \notin Requests
  BY RegistrationAssumption DEF TypeOK, RecordOrNone, Records
<1>2. pending'[d] = pending[d]
  <2>1. ~(SavePending(t) /\ th[t].op = "add" /\ th[t].dom = d)
    BY AddingAlone DEF SavePending, At, UnlockPcs
  <2>2. QED BY <2>1, PendingStep
<1>3. lockCell'[d] = lockCell[d]
  <2>1. ~(LockDomainPut(t) /\ th[t].dom = d)
    BY <1>1 DEF LockDomainPut, At, DomainLocked
  <2>2. ~(ReleaseDomainPut(t) /\ th[t].dom = d)
    BY AddingAlone
  <2>3. QED BY <2>1, <2>2, DomainCellStep
<1>4. QED BY <1>2, <1>3

\* Nobody else releases the lock that Add has taken.
LEMMA ReleasesOwn ==
  ASSUME TypeOK, StartedByAdd, Undisturbed, OwnRecord, RecordsAdded, IndexLocked, VoteRecord,
         NEW t \in Threads, th[t].op \in {"add", "undo"},
         NEW u \in Threads, th[u].pc \in ReleasePcs, th[u].rec.req = t[2]
  PROVE  u = t
<1>1. ThreadOK(t, th[t]) /\ ThreadOK(u, th[u])
  BY ThreadFacts
<1>2. t = <<"register", t[2]>> /\ t[2] \in Requests
  BY <1>1, ThreadKinds DEF ThreadOK, Control
<1>3. th[u].op \in {"undo", "vote", "confirm", "reject"} /\ th[u].rec # None
  BY <1>1
     DEF ThreadOK, Control, HasRecord, GetPcs, SavePcs, LockPcs, UnlockPcs, ReleasePcs
<1>4. CASE th[u].op = "undo"
  <2>1. u = <<"register", u[2]>> /\ th[u].rec = Pending(u[2])
    BY <1>1, <1>4, ThreadKinds DEF ThreadOK, Control, OwnRecord
  <2>2. QED BY <1>2, <2>1 DEF Pending
<1>5. CASE th[u].op = "vote"
  <2>1. u = <<"vote", u[2]>> /\ u[2] \in Requests /\ th[u].rec = Pending(u[2])
    BY <1>1, <1>5, ThreadKinds DEF ThreadOK, Control, VoteRecord
  <2>2. th[<<"register", u[2]>>].pc = "done"
    BY <2>1, VotedDone DEF ReleasePcs
  <2>3. u[2] = t[2]
    BY <2>1 DEF Pending
  <2>4. QED BY <1>1, <1>2, <2>2, <2>3 DEF ThreadOK, Control, LockPcs, UnlockPcs, ReleasePcs
<1>6. CASE th[u].op \in {"confirm", "reject"}
  <2>1. u # t /\ th[u].rec.req \in Added
    BY <1>3, <1>6 DEF RecordsAdded
  <2>2. th[t].pc \in {"done", "dead"} \/ (th[t].op = "add" /\ th[t].pc \in UnlockPcs)
    BY <1>2, <2>1 DEF Added
  <2>3. th[t].op = "add" /\ th[t].pc \in UnlockPcs
    BY <1>1, <2>2 DEF ThreadOK, Control, LockPcs, UnlockPcs, ReleasePcs
  <2>4. InSection(t) /\ InSection(u)
    BY <1>6, <2>3 DEF InSection, UnlockPcs, ReleasePcs
  <2>5. QED BY <2>1, <2>4 DEF IndexLocked
<1>7. QED BY <1>3, <1>4, <1>5, <1>6

-----------------------------------------------------------------------------
(* Where the threads go when nothing fails *)

\* How a thread comes to be in a function.
LEMMA OpMoves ==
  ASSUME TypeOK, StartedByAdd, Undisturbed, NEW t \in Threads, Step(t), ~PanicInVote(t)
  PROVE  /\ th'[t].op \in {"add", "undo"} => LockDomainPut(t) \/ th[t].op \in {"add", "undo"}
         /\ th'[t].op = "confirm" => SaveResult(t) \/ th[t].op = "confirm"
         /\ th'[t].op = "decide" => Examine(t) \/ th[t].op = "decide"
         /\ th'[t].op = "nameBound" => GetByNamehash(t) \/ th[t].op = "nameBound"
         /\ th'[t].pc = "voteSave" => ReadVotes(t)
         /\ th'[t].op = "vote" /\ th'[t].pc \in ReleasePcs =>
              \/ Takes(t, "releaseDomain", "vote", Pending(t[2]))
              \/ th[t].op = "vote" /\ th[t].pc \in ReleasePcs /\ Keeps(t, th'[t])
<1> USE DEF GoesTo, Takes, Ends, ReleasePcs
<1>1. t[1] \in {"register", "vote", "publish", "update", "tick"}
  BY ThreadKinds
<1>2. CASE \/ AddBinding(t) \/ GetByNamehash(t) \/ GetLocal(t) \/ GetPendingRecord(t)
           \/ GetLatestRecord(t)
  <2>1. CASE AddBinding(t) \/ GetByNamehash(t)
    BY <2>1, GetMoves
  <2>2. CASE GetLocal(t) \/ GetPendingRecord(t) \/ GetLatestRecord(t)
    <3>1. th[t].op # "vote"
      BY <2>2, ThreadFacts
         DEF GetLocal, GetPendingRecord, GetLatestRecord, At, ThreadOK, Control, GetPcs
    <3>2. QED BY <2>2, <3>1, GetMoves DEF GetReturns
  <2>3. QED BY <1>2, <2>1, <2>2
<1>3. CASE SaveRecordDHT(t) \/ SaveRecordLocal(t) \/ SaveNamehash(t) \/ SaveNamehashLocal(t)
  <2>1. th[t].pc \in SavePcs
    BY <1>3 DEF SaveRecordDHT, SaveRecordLocal, SaveNamehash, SaveNamehashLocal, At, SavePcs
  <2>2. th[t].op \notin {"vote", "nameBound"} \/ th[t].op = "nameBound"
    BY <2>1, ThreadFacts DEF ThreadOK, Control, SavePcs
  <2>3. ASSUME NEW ok, SaveReturns(t, ok, th'[t])
        PROVE  /\ th'[t].op \in {"confirm", "decide", "nameBound"} => th'[t].op = th[t].op
               /\ th'[t].op \notin {"add", "undo", "vote"} /\ th'[t].pc # "voteSave"
    BY <2>3 DEF SaveReturns, GetReturns
  <2>4. QED BY <1>3, <2>2, <2>3, SaveMoves
<1>4. CASE ValidateSignedTx(t) \/ LockDomain(t) \/ LockDomainPut(t) \/ SavePending(t)
  BY <1>4, AddMoves
<1>5. CASE \/ FindPending(t) \/ LockIndex(t) \/ LockIndexPut(t) \/ ReadIndex(t) \/ WriteIndex(t)
           \/ ClearPending(t)
  <2>1. th[t].op \in {"add", "confirm", "reject"}
    BY <1>5, ThreadFacts
       DEF FindPending, LockIndex, LockIndexPut, ReadIndex, WriteIndex, ClearPending, At, ThreadOK,
       Control, LockPcs, GetPcs, SavePcs, UnlockPcs
  <2>2. \/ th'[t].op = th[t].op /\ th'[t].pc # "voteSave"
        \/ Abandons(t, th'[t])
    BY <1>5, <2>1, IndexMoves DEF IndexWritten
  <2>3. QED BY <1>1, <2>1, <2>2 DEF Abandons
<1>6. CASE ReleaseDomain(t) \/ ReleaseDomainPut(t) \/ ReleaseIndex(t) \/ ReleaseIndexPut(t)
  <2>1. th[t].pc \in {"releaseDomain", "domainClear", "releaseIndex", "indexClear"}
    BY <1>6 DEF ReleaseDomain, ReleaseDomainPut, ReleaseIndex, ReleaseIndexPut, At
  <2>2. th[t].op = "vote" => th[t].pc \in ReleasePcs
    BY <2>1, ThreadFacts DEF ThreadOK, Control
  <2>3. QED BY <1>1, <1>6, <2>2, ReleaseMoves DEF DomainReleased, Abandons, AddReturns
<1>7. CASE ReadVotes(t) \/ SaveVote(t) \/ Publish(t)
  BY <1>1, <1>7, VoteMoves
<1>8. CASE Tick(t) \/ Examine(t) \/ SubmitSignedTx(t) \/ SaveResult(t)
  BY <1>1, <1>8, DecideMoves
<1>9. QED BY <1>2, <1>3, <1>4, <1>5, <1>6, <1>7, <1>8 DEF Step

\* A thread is about one domain until the decision loop takes the next.
LEMMA DomKept ==
  ASSUME TypeOK, TypeOK', StartedByAdd, Undisturbed, NEW t \in Threads, Step(t), ~PanicInVote(t),
         NEW u \in Threads, th[u].op # "tick", th'[u].op # "tick"
  PROVE  th'[u].dom = th[u].dom
<1>1. ThreadOK(u, th[u]) /\ ThreadOK(u, th'[u])
  BY ThreadFacts DEF TypeOK
<1>2. CASE u[1] # "tick"
  BY <1>1, <1>2 DEF ThreadOK
<1>3. CASE u # t
  BY <1>3, OtherThreads
<1>4. CASE u = t /\ t[1] = "tick"
  <2> USE DEF GoesTo, Takes, Ends, Keeps
  <2>1. th[t].op \in {"decide", "confirm", "reject"} /\ th[t].pc # "tick"
    BY <1>1, <1>4 DEF ThreadOK, Control, GetPcs, LockPcs, UnlockPcs, ReleasePcs, SavePcs
  <2>2. CASE GetLocal(t) \/ GetPendingRecord(t) \/ GetLatestRecord(t)
    BY <1>4, <2>1, <2>2, GetMoves DEF GetReturns
  <2>3. CASE SaveRecordDHT(t) \/ SaveRecordLocal(t) \/ SaveNamehash(t) \/ SaveNamehashLocal(t)
    <3>1. ASSUME NEW ok, SaveReturns(t, ok, th'[t])
          PROVE  th'[t].dom = th[t].dom
      BY <2>1, <3>1 DEF SaveReturns, GetReturns
    <3>2. QED BY <1>4, <2>3, <3>1, SaveMoves
  <2>4. CASE \/ FindPending(t) \/ LockIndex(t) \/ LockIndexPut(t) \/ ReadIndex(t) \/ WriteIndex(t)
             \/ ClearPending(t)
    BY <1>4, <2>1, <2>4, IndexMoves DEF IndexWritten, Abandons
  <2>5. CASE ReleaseDomain(t) \/ ReleaseDomainPut(t) \/ ReleaseIndex(t) \/ ReleaseIndexPut(t)
    BY <1>4, <2>1, <2>5, ReleaseMoves DEF DomainReleased, Abandons, AddReturns
  <2>6. CASE SubmitSignedTx(t) \/ SaveResult(t)
    BY <1>4, <2>6, DecideMoves
  <2>7. CASE \/ AddBinding(t) \/ GetByNamehash(t) \/ ValidateSignedTx(t) \/ LockDomain(t)
             \/ LockDomainPut(t) \/ SavePending(t) \/ ReadVotes(t) \/ SaveVote(t) \/ Publish(t)
             \/ Tick(t) \/ Examine(t)
    BY <1>1, <1>4, <2>1, <2>7
       DEF AddBinding, GetByNamehash, ValidateSignedTx, LockDomain, LockDomainPut, SavePending,
       ReadVotes, SaveVote, Publish, Tick, Examine, At, ThreadOK, Control, GetPcs, LockPcs,
       UnlockPcs, ReleasePcs, SavePcs
  <2>8. QED BY <2>2, <2>3, <2>4, <2>5, <2>6, <2>7 DEF Step
<1>5. QED BY <1>2, <1>3, <1>4

\* The vote starts when Add returns.
LEMMA VoteStarts ==
  ASSUME TypeOK, StartedByAdd, NEW t \in Threads, Step(t), ~PanicInVote(t), NEW r \in Requests,
         th[<<"vote", r>>].pc = "off", th'[<<"vote", r>>].pc # "off"
  PROVE  th[t].op = "add" /\ th[t].pc \in UnlockPcs /\ t = <<"register", r>>
<1> DEFINE w == <<"vote", r>>
<1>1. w \in Threads /\ w[1] = "vote" /\ w[2] = r
  BY VoteThread
<1>2. w # t
  BY Active
<1>3. ~\E s : Become(t, s)
  BY <1>1, <1>2, Moved DEF TypeOK, ThreadsOK
<1>4. /\ ReleaseIndex(t) \/ ReleaseIndexPut(t)
      /\ AfterReleaseIndex(t) /\ th[t].op = "add" /\ th[t].ok
  BY <1>3, ThreadFrame DEF TypeOK, ThreadsOK
<1>5. th[t].pc \in UnlockPcs
  BY <1>4 DEF ReleaseIndex, ReleaseIndexPut, At, UnlockPcs
<1>6. t = <<"register", t[2]>>
  BY <1>4, ThreadFacts, ThreadKinds DEF ThreadOK, Control
<1>7. Started(t, w)
  <2>1. th'[w] = IF Started(t, w) THEN [th[w] EXCEPT !.pc = w[1]] ELSE th[w]
    BY <1>1, <1>2, <1>4 DEF AfterReleaseIndex
  <2>2. QED BY <2>1
<1>8. t[2] = r
  BY <1>1, <1>7 DEF Started
<1>9. QED BY <1>4, <1>5, <1>6, <1>8

\* Add is about to return once it has saved the pending record.
LEMMA Enters ==
  ASSUME TypeOK, StartedByAdd, Undisturbed, IndexHeld, NEW t \in Threads, Step(t), ~PanicInVote(t),
         NEW r \in Requests, Entered(r)'
  PROVE  Entered(r) \/ (SavePending(t) /\ t = <<"register", r>>)
<1> DEFINE u == <<"register", r>>
<1>1. u \in Threads /\ u[1] = "register" /\ u[2] = r
  BY RegisterThread
<1>2. CASE th'[<<"vote", r>>].pc # "off"
  BY <1>2, VoteStarts DEF Entered
<1>3. CASE th'[u].op = "add" /\ th'[u].pc \in UnlockPcs
  <2>1. CASE u # t
    BY <1>1, <1>3, <2>1, OtherThreads DEF Entered
  <2>2. CASE u = t
    <3>1. SectionMove(t)
      <4>1. InSection(t)'
        BY <1>3, <2>2 DEF InSection, UnlockPcs
      <4>2. QED BY <4>1, SectionMoves, NothingFails
    <3>2. \/ SavePending(t) \/ ReleaseDomain(t) \/ ReleaseDomainPut(t) \/ ReleaseIndex(t)
          \/ ReleaseIndexPut(t)
      BY <1>3, <2>2, <3>1 DEF SectionMove, UnlockPcs, SavePcs
    <3>3. CASE ReleaseDomain(t) \/ ReleaseDomainPut(t)
      BY <1>3, <2>2, <3>3, ReleaseMoves DEF GoesTo, DomainReleased, UnlockPcs
    <3>4. CASE ReleaseIndex(t) \/ ReleaseIndexPut(t)
      <4>1. th[t].pc \in UnlockPcs
        BY <3>4 DEF ReleaseIndex, ReleaseIndexPut, At, UnlockPcs
      <4>2. th[t].op = "add"
        BY <1>1, <1>3, <2>2, <3>4, ReleaseMoves DEF GoesTo, Abandons, AddReturns
      <4>3. QED BY <2>2, <4>1, <4>2 DEF Entered
    <3>5. QED BY <2>2, <3>2, <3>3, <3>4
  <2>3. QED BY <2>1, <2>2
<1>4. QED BY <1>2, <1>3 DEF Entered

LEMMA VotedStays ==
  ASSUME TypeOK, StartedByAdd, NEW t \in Threads, Step(t), ~PanicInVote(t), NEW r \in Requests,
         Voted(r)
  PROVE  Voted(r)'
  BY VoteThread, Active, OtherThreads DEF Voted

-----------------------------------------------------------------------------
(* The steps that keep the invariants *)

LEMMA DomainLockedStep ==
  ASSUME TypeOK, TypeOK', StartedByAdd, OneNode, Undisturbed, OwnRecord, RecordsAdded, IndexLocked,
         VoteRecord, DomainLocked, NEW t \in Threads, Step(t), ~PanicInVote(t)
  PROVE  DomainLocked'
<1> DEFINE Between == {"lockPut", "domainClear"}
           Adding == {"add", "undo"}
<1>1. ASSUME NEW u \in Threads
      PROVE  /\ ThreadOK(u, th[u]) /\ ThreadOK(u, th'[u]) /\ Node(u) \in Nodes
             /\ u # t /\ th'[u].pc \in Between => th'[u] = th[u]
             /\ u # t /\ th'[u].op \in Adding => th'[u] = th[u]
  BY OtherThreads, ThreadFacts, ThreadKinds DEF TypeOK
<1>2. ASSUME NEW u \in Threads
      PROVE  /\ th[u].pc \in Between \/ th[u].op \in Adding => th[u].dom \in Domains
             /\ th'[u].pc \in Between \/ th'[u].op \in Adding => th'[u].dom \in Domains
  BY <1>1 DEF ThreadOK, Control
<1>3. ASSUME NEW u \in Threads, u # t, th[u].pc \in Between
      PROVE  lockCell'[th[u].dom] = lockCell[th[u].dom]
  <2>1. lockMutex[Node(u)] = u
    BY <1>3 DEF IndexLocked
  <2>2. LockDomainPut(t) \/ ReleaseDomainPut(t) => lockMutex[Node(t)] = t
    BY DEF LockDomainPut, ReleaseDomainPut, At, IndexLocked
  <2>3. Node(u) = Node(t)
    BY <1>1 DEF OneNode
  <2>4. QED BY <1>2, <1>3, <2>1, <2>2, <2>3, DomainCellStep
<1>4. ASSUME NEW u \in Threads, th'[u].pc = "lockPut"
      PROVE  lockCell'[th'[u].dom] = None
  <2>1. CASE u = t
    <3>1. LockDomain(t) /\ None \in GetValue(lockCell[th[t].dom])
      BY <1>4, <2>1, MutexTaken
    <3>2. th'[t].dom = th[t].dom /\ lockCell[th[t].dom] = None
      BY <3>1, AddMoves, NothingFails DEF GoesTo, Keeps
    <3>3. ~LockDomainPut(t) /\ ~ReleaseDomainPut(t)
      BY <3>1 DEF LockDomain, LockDomainPut, ReleaseDomainPut, At
    <3>4. QED BY <1>2, <1>4, <2>1, <3>2, <3>3, DomainCellStep
  <2>2. CASE u # t
    BY <1>1, <1>3, <1>4, <2>2 DEF DomainLocked
  <2>3. QED BY <2>1, <2>2
<1>5. ASSUME NEW u \in Threads, th'[u].pc = "domainClear"
      PROVE  lockCell'[th'[u].dom] = th'[u].rec.req
  <2>1. CASE u = t
    <3>1. ReleaseDomain(t) /\ th[t].rec.req \in GetValue(lockCell[th[t].dom])
      BY <1>5, <2>1, MutexTaken
    <3>2. Keeps(t, th'[t]) /\ lockCell[th[t].dom] = th[t].rec.req
      BY <1>5, <2>1, <3>1, ReleaseMoves, NothingFails DEF GoesTo, DomainReleased
    <3>3. ~LockDomainPut(t) /\ ~ReleaseDomainPut(t)
      BY <3>1 DEF ReleaseDomain, LockDomainPut, ReleaseDomainPut, At
    <3>4. QED BY <1>2, <1>5, <2>1, <3>2, <3>3, DomainCellStep DEF Keeps
  <2>2. CASE u # t
    BY <1>1, <1>3, <1>5, <2>2 DEF DomainLocked
  <2>3. QED BY <2>1, <2>2
<1>6. ASSUME NEW u \in Threads, th'[u].op \in Adding
      PROVE  lockCell'[th'[u].dom] = u[2]
  <2>1. u[1] = "register" /\ th'[u].dom = DomainOf[u[2]] /\ u[2] \in Requests /\ u[2] # None
    BY <1>1, <1>6, ThreadKinds, RegistrationAssumption DEF ThreadOK, Control
  <2>2. th[u].dom = DomainOf[u[2]]
    BY <1>1, <2>1 DEF ThreadOK
  <2>3. CASE u = t
    <3>1. CASE LockDomainPut(t)
      <4>1. ~ReleaseDomainPut(t)
        BY <3>1 DEF LockDomainPut, ReleaseDomainPut, At
      <4>2. th'[u].dom \in Domains /\ th[t].dom = th'[u].dom
        BY <1>2, <1>6, <2>1, <2>2, <2>3
      <4>3. QED BY <2>3, <3>1, <4>1, <4>2, DomainCellStep
    <3>2. CASE ~LockDomainPut(t)
      <4>1. th[t].op \in Adding
        BY <1>6, <2>3, <3>2, OpMoves
      <4>2. ~ReleaseDomainPut(t)
        <5>1. ASSUME ReleaseDomainPut(t)
              PROVE  FALSE
          <6>1. DomainReleased(t, th'[t])
            <7>1. th'[t].pc # "domainClear"
              BY <5>1, MutexTaken DEF ReleaseDomain, ReleaseDomainPut, At
            <7>2. QED BY <5>1, <7>1, ReleaseMoves DEF GoesTo
          <6>2. th[t].op = "undo"
            BY <1>1, <4>1, <5>1 DEF ReleaseDomainPut, At, ThreadOK, Control, LockPcs, UnlockPcs
          <6>3. QED BY <1>6, <2>3, <6>1, <6>2 DEF DomainReleased
        <5>2. QED BY <5>1
      <4>3. lockCell[th[t].dom] = t[2]
        BY <4>1 DEF DomainLocked
      <4>4. QED BY <1>2, <2>1, <2>2, <2>3, <3>2, <4>1, <4>2, <4>3, DomainCellStep
    <3>3. QED BY <3>1, <3>2
  <2>4. CASE u # t
    <3>1. th'[u] = th[u] /\ th[u].op \in Adding /\ lockCell[th[u].dom] = u[2]
      BY <1>1, <1>6, <2>4 DEF DomainLocked
    <3>2. ~(LockDomainPut(t) /\ th[t].dom = th[u].dom)
      BY <2>1, <3>1 DEF LockDomainPut, At, DomainLocked
    <3>3. ~(ReleaseDomainPut(t) /\ th[t].dom = th[u].dom)
      <4>1. ASSUME ReleaseDomainPut(t), th[t].dom = th[u].dom
            PROVE  FALSE
        <5>1. th[t].pc \in ReleasePcs /\ th[t].rec.req = u[2]
          BY <3>1, <4>1 DEF ReleaseDomainPut, At, DomainLocked, ReleasePcs
        <5>2. QED BY <2>4, <3>1, <5>1, ReleasesOwn
      <4>2. QED BY <4>1
    <3>4. QED BY <1>2, <3>1, <3>2, <3>3, DomainCellStep
  <2>5. QED BY <2>3, <2>4
<1>7. QED BY <1>4, <1>5, <1>6 DEF DomainLocked

LEMMA VoteRecordStep ==
  ASSUME TypeOK, StartedByAdd, Undisturbed, VoteRecord, NEW t \in Threads, Step(t), ~PanicInVote(t)
  PROVE  VoteRecord'
<1> SUFFICES ASSUME NEW u \in Threads, th'[u].op = "vote", th'[u].pc \in ReleasePcs
             PROVE  th'[u].rec = Pending(u[2])
  BY DEF VoteRecord, Pending
<1>1. CASE u = t
  BY <1>1, OpMoves DEF Takes, Keeps, VoteRecord
<1>2. CASE u # t
  BY <1>2, OtherThreads DEF VoteRecord, ReleasePcs
<1>3. QED BY <1>1, <1>2

\* What a vote and a decision read and write.
LEMMA VoteReadWritten ==
  ASSUME TypeOK, Undisturbed, NEW t \in Threads
  PROVE  /\ ReadVotes(t) =>
              \/ votes[th[t].dom] # None /\ votes[th[t].dom].consensus
              \/ /\ th'[t].pc = "voteSave" /\ th'[t].result \in VoteResults(Nodes)
                 /\ ~th'[t].result.consensus
                 /\ votes[th[t].dom] # None => ~votes[th[t].dom].consensus
         /\ SaveVote(t) => th'[t].pc = "done"
<1>1. ThreadsOK /\ th[t] \in ThreadState /\ ThreadOK(t, th[t]) /\ Node(t) \in Nodes
  BY ThreadFacts, ThreadKinds
<1>2. ASSUME NEW s, Become(t, s)
      PROVE  th'[t] = s
  BY <1>1, <1>2, Moved
<1>3. ASSUME NEW result \in VoteResults(Nodes), ~result.consensus,
             Become(t, [th[t] EXCEPT !.pc = "voteSave", !.result = WithVote(result, Node(t), TRUE)])
      PROVE  /\ th'[t].pc = "voteSave" /\ th'[t].result \in VoteResults(Nodes)
             /\ ~th'[t].result.consensus
  <2>1. WithVote(result, Node(t), TRUE) \in VoteResults(Nodes)
    BY <1>1, VoteTypes
  <2>2. ~WithVote(result, Node(t), TRUE).consensus
    BY <1>3 DEF WithVote, VoteResults
  <2>3. th'[t] = [th[t] EXCEPT !.pc = "voteSave", !.result = WithVote(result, Node(t), TRUE)]
    BY <1>2, <1>3
  <2> HIDE DEF WithVote
  <2>4. QED BY <1>1, <2>1, <2>2, <2>3 DEF ThreadState
<1>4. ASSUME ReadVotes(t)
      PROVE  \/ votes[th[t].dom] # None /\ votes[th[t].dom].consensus
             \/ /\ th'[t].pc = "voteSave" /\ th'[t].result \in VoteResults(Nodes)
                /\ ~th'[t].result.consensus
                /\ votes[th[t].dom] # None => ~votes[th[t].dom].consensus
  <2> DEFINE stored == votes[th[t].dom]
             Vote(result) ==
               Become(t, [th[t] EXCEPT !.pc = "voteSave", !.result = WithVote(result, Node(t), TRUE)])
  <2>1. th[t].dom \in Domains
    BY <1>1, <1>4, VoteMoves DEF ThreadOK
  <2>2. stored \in VoteResults(Nodes) \cup {None}
    BY <2>1 DEF TypeOK, ResultOrNone
  <2>3. \/ /\ stored = None
           /\ \E counted \in OnlineNodes(Node(t)), peers \in OnlineNodes(Node(t)) :
                \E m \in DecisionMakers(Node(t), Cardinality(counted), peers) :
                  Vote(NewResult(m, Cardinality(counted)))
        \/ stored # None /\ ~stored.consensus /\ Vote(stored)
        \/ stored # None /\ stored.consensus
    <3>1. GetValue(stored) = {stored}
      BY NothingFails
    <3>2. QED BY <1>4, <3>1 DEF ReadVotes, Undisturbed
  <2>4. CASE stored = None
    <3>1. PICK counted \in OnlineNodes(Node(t)), peers \in OnlineNodes(Node(t)) :
            \E m \in DecisionMakers(Node(t), Cardinality(counted), peers) :
              Vote(NewResult(m, Cardinality(counted)))
      BY <2>3, <2>4
    <3>2. PICK m \in DecisionMakers(Node(t), Cardinality(counted), peers) :
            Vote(NewResult(m, Cardinality(counted)))
      BY <3>1
    <3>3. m \in Nodes /\ Cardinality(counted) \in Nat
      BY <1>1, PeersType DEF DecisionMakers
    <3>4. NewResult(m, Cardinality(counted)) \in VoteResults(Nodes)
      BY <3>3, NewResultType
    <3>5. ~NewResult(m, Cardinality(counted)).consensus
      BY DEF NewResult
    <3>6. QED BY <1>3, <2>4, <3>2, <3>4, <3>5
  <2>5. CASE stored # None
    BY <1>3, <2>2, <2>3, <2>5
  <2>6. QED BY <2>4, <2>5
<1>5. ASSUME SaveVote(t)
      PROVE  th'[t].pc = "done"
  <2>1. PICK p \in PutValue(votes[th[t].dom], th[t].result) :
          Become(t, IF p.ok THEN [Idle(t) EXCEPT !.pc = "done"]
                    ELSE [th[t] EXCEPT !.pc = "releaseDomain", !.rec = Pending(t[2]), !.result = None])
    BY <1>5 DEF SaveVote
  <2>2. p.ok
    BY NothingFails
  <2>3. th'[t] = [Idle(t) EXCEPT !.pc = "done"]
    BY <1>2, <2>1, <2>2
  <2>4. "done" \in Pcs
    BY DEF Pcs
  <2> HIDE DEF Idle
  <2>5. QED BY <2>3, <2>4, Returned
<1>6. QED BY <1>4, <1>5

LEMMA DecidingSteps ==
  ASSUME NEW t \in Threads, Step(t), th[t].pc \in GetPcs \cup {"submit", "saveResult"}
  PROVE  \/ GetLocal(t) \/ GetPendingRecord(t) \/ GetLatestRecord(t)
         \/ SaveRecordDHT(t) \/ SaveRecordLocal(t) \/ SaveNamehash(t) \/ SaveNamehashLocal(t)
         \/ SubmitSignedTx(t) \/ SaveResult(t)
  BY DEF Step, GetPcs, SavePcs, At, AddBinding, GetByNamehash, ValidateSignedTx, LockDomain,
     LockDomainPut, SavePending, FindPending, LockIndex, LockIndexPut, ReadIndex, WriteIndex,
     ClearPending, ReleaseDomain, ReleaseDomainPut, ReleaseIndex, ReleaseIndexPut, ReadVotes,
     PanicInVote, SaveVote, Publish, Tick, Examine

\* decide takes a result that a quorum has voted on, and keeps it.
LEMMA DecisionTaken ==
  ASSUME TypeOK, StartedByAdd, Undisturbed, NEW t \in Threads, Step(t), ~PanicInVote(t), th'[t].op = "decide"
  PROVE  \/ /\ Examine(t) /\ th'[t].pc = "get" /\ th'[t].dom \in Domains
            /\ votes[th'[t].dom] # None /\ th'[t].result = Decided(votes[th'[t].dom])
         \/ th[t].op = "decide" /\ th'[t].result = th[t].result
<1>1. ThreadsOK /\ th[t] \in ThreadState /\ ThreadOK(t, th[t])
  BY ThreadFacts
<1>2. ASSUME NEW s, Become(t, s)
      PROVE  th'[t] = s
  BY <1>1, <1>2, Moved
<1>3. CASE Examine(t)
  <2>1. th[t].op = "tick"
    BY <1>1, <1>3 DEF Examine, At, ThreadOK, Control, GetPcs, LockPcs, UnlockPcs, ReleasePcs, SavePcs
  <2>2. PICK d \in th[t].todo :
          LET rest == [th[t] EXCEPT !.todo = @ \ {d}]
          IN \/ /\ MayDecide(Node(t), votes[d])
                /\ Become(t, [rest EXCEPT !.pc = "get", !.op = "decide", !.dom = d,
                                          !.result = Decided(votes[d])])
             \/ Become(t, rest)
    BY <1>3 DEF Examine
  <2>3. d \in Domains
    BY <1>1 DEF ThreadState
  <2>4. ~Become(t, [th[t] EXCEPT !.todo = @ \ {d}])
    <3>1. ASSUME Become(t, [th[t] EXCEPT !.todo = @ \ {d}])
          PROVE  FALSE
      <4>1. th'[t] = [th[t] EXCEPT !.todo = @ \ {d}]
        BY <1>2, <3>1
      <4>2. QED BY <1>1, <2>1, <4>1 DEF ThreadState
    <3>2. QED BY <3>1
  <2>5. /\ votes[d] # None
        /\ th'[t] = [[th[t] EXCEPT !.todo = @ \ {d}]
                       EXCEPT !.pc = "get", !.op = "decide", !.dom = d, !.result = Decided(votes[d])]
    BY <1>2, <2>2, <2>4 DEF MayDecide
  <2>6. th'[t].pc = "get" /\ th'[t].dom = d /\ th'[t].result = Decided(votes[d])
    BY <1>1, <2>5 DEF ThreadState
  <2>7. QED BY <1>3, <2>3, <2>5, <2>6
<1>4. CASE ~Examine(t)
  <2>1. th[t].op = "decide"
    BY <1>4, OpMoves
  <2>2. th[t].pc \in GetPcs \cup {"submit", "saveResult"}
    BY <1>1, <2>1 DEF ThreadOK, Control, GetPcs, LockPcs, UnlockPcs, ReleasePcs, SavePcs
  <2>3. ASSUME NEW r, Become(t, AfterGet(t, r))
        PROVE  th'[t].result = th[t].result
    <3>1. th'[t] = AfterGet(t, r)
      BY <1>2, <2>3
    <3>2. AfterGet(t, r) = [th[t] EXCEPT !.pc = "submit", !.rec = r]
      BY <2>1, <3>1 DEF AfterGet, ThreadState
    <3>3. QED BY <1>1, <3>1, <3>2 DEF ThreadState
  <2>4. ASSUME NEW pc, \/ Become(t, [th[t] EXCEPT !.pc = pc])
                       \/ \E r : Become(t, [th[t] EXCEPT !.pc = pc, !.rec = r])
                       \/ \E r : Become(t, [th[t] EXCEPT !.pc = pc, !.seen = r])
        PROVE  th'[t].result = th[t].result
    <3>1. \/ th'[t] = [th[t] EXCEPT !.pc = pc]
          \/ \E r : th'[t] = [th[t] EXCEPT !.pc = pc, !.rec = r]
          \/ \E r : th'[t] = [th[t] EXCEPT !.pc = pc, !.seen = r]
      BY <1>2, <2>4
    <3>2. QED BY <1>1, <3>1 DEF ThreadState
  <2>5. CASE GetLocal(t) \/ GetPendingRecord(t) \/ GetLatestRecord(t)
    <3>1. \/ \E r : Become(t, AfterGet(t, r))
          \/ \E pc : \/ Become(t, [th[t] EXCEPT !.pc = pc])
                     \/ \E r : Become(t, [th[t] EXCEPT !.pc = pc, !.rec = r])
                     \/ \E r : Become(t, [th[t] EXCEPT !.pc = pc, !.seen = r])
      BY <2>5 DEF GetLocal, GetPendingRecord, GetLatestRecord, Goto
    <3>2. QED BY <2>1, <2>3, <2>4, <3>1
  <2>6. CASE SaveRecordDHT(t) \/ SaveRecordLocal(t) \/ SaveNamehash(t) \/ SaveNamehashLocal(t)
    <3>1. \/ \E ok : Become(t, AfterSave(t, ok))
          \/ \E pc : Become(t, [th[t] EXCEPT !.pc = pc])
      BY <2>6 DEF SaveRecordDHT, SaveRecordLocal, SaveNamehash, SaveNamehashLocal, Goto
    <3>2. \A ok : AfterSave(t, ok) = AfterGet(t, th[t].rec)
      BY <2>1 DEF AfterSave
    <3>3. QED BY <2>1, <2>3, <2>4, <3>1, <3>2
  <2>7. CASE SubmitSignedTx(t)
    <3>1. \/ Become(t, [th[t] EXCEPT !.pc = "saveResult", !.rec = None])
          \/ Become(t, [th[t] EXCEPT !.pc = "find", !.op = "reject", !.rec = None, !.result = None])
      BY <2>7 DEF SubmitSignedTx
    <3>2. ~Become(t, [th[t] EXCEPT !.pc = "find", !.op = "reject", !.rec = None, !.result = None])
      <4>1. ASSUME Become(t, [th[t] EXCEPT !.pc = "find", !.op = "reject", !.rec = None, !.result = None])
            PROVE  FALSE
        <5>1. th'[t] = [th[t] EXCEPT !.pc = "find", !.op = "reject", !.rec = None, !.result = None]
          BY <1>2, <4>1
        <5>2. QED BY <1>1, <5>1 DEF ThreadState
      <4>2. QED BY <4>1
    <3>3. QED BY <2>1, <2>4, <3>1, <3>2
  <2>8. ~SaveResult(t)
    <3>1. t[1] # "decide"
      BY ThreadKinds
    <3>2. QED BY <3>1, DecideMoves DEF GoesTo, Ends
  <2>9. QED BY <2>1, <2>2, <2>5, <2>6, <2>7, <2>8, DecidingSteps
<1>5. QED BY <1>3, <1>4

\* Before the domain is bound, Get returns the pending record to decide.
LEMMA DecidingGets ==
  ASSUME TypeOK, Undisturbed, NEW t \in Threads, Step(t), th[t].op = "decide",
         th[t].pc \in {"get", "getPending", "submit"},
         db[Node(t)][th[t].dom] = None, pending[th[t].dom] # None
  PROVE  \/ th[t].pc = "get" /\ GoesTo(t, "getPending", "decide")
         \/ th[t].pc = "getPending" /\ Takes(t, "submit", "decide", pending[th[t].dom])
         \/ SubmitSignedTx(t)
<1>1. ThreadsOK /\ th[t] \in ThreadState
  BY ThreadFacts
<1>2. ASSUME NEW s, Become(t, s)
      PROVE  th'[t] = s
  BY <1>1, <1>2, Moved
<1>3. CASE GetLocal(t)
  <2>1. Become(t, [th[t] EXCEPT !.pc = "getPending", !.seen = None])
    BY <1>3 DEF GetLocal, IsConfirmed
  <2>2. th'[t] = [th[t] EXCEPT !.pc = "getPending", !.seen = None]
    BY <1>2, <2>1
  <2>3. th[t].pc = "get"
    BY <1>3 DEF GetLocal, At
  <2>4. QED BY <1>1, <2>2, <2>3 DEF GoesTo, Keeps, ThreadState
<1>4. CASE GetPendingRecord(t)
  <2>1. Become(t, AfterGet(t, pending[th[t].dom]))
    BY <1>4, NothingFails DEF GetPendingRecord
  <2>2. GetReturns(t, pending[th[t].dom], th'[t])
    BY <1>2, <2>1, AfterGetFields DEF GetOps
  <2>3. th[t].pc = "getPending"
    BY <1>4 DEF GetPendingRecord, At
  <2>4. QED BY <2>2, <2>3 DEF GetReturns, Takes
<1>5. QED
  BY <1>3, <1>4, DecidingSteps
     DEF GetPcs, GetLatestRecord, SaveRecordDHT, SaveRecordLocal, SaveNamehash, SaveNamehashLocal,
        SaveResult, At

\* As long as the chain has no binding for the domain, its pending record and the lock
\* of that record stay.
LEMMA BeforeBoundStays ==
  ASSUME TypeOK, StartedByAdd, Undisturbed, OwnRecord, RecordsAdded, DomainLocked, OneRequest,
         NEW t \in Threads, Step(t), ~PanicInVote(t), NEW d \in Domains,
         ~BoundOnChain(d), pending[d] # None
  PROVE  pending'[d] = pending[d] /\ lockCell'[d] = lockCell[d]
<1>1. lockCell[d] = pending[d].req
  BY DEF OneRequest, BeforeBound
<1>2. ThreadOK(t, th[t])
  BY ThreadFacts
<1>3. ASSUME th[t].dom = d
      PROVE  ~ClearPending(t) /\ (ReleaseDomainPut(t) => th[t].op = "undo")
  <2>1. th[t].op # "tick" => BeforeBoundThread(t)
    BY <1>3 DEF OneRequest
  <2>2. ClearPending(t) => th[t].op \in {"confirm", "reject"}
    BY <1>2
       DEF ClearPending, At, ThreadOK, Control, GetPcs, LockPcs, UnlockPcs, ReleasePcs, SavePcs
  <2>3. ReleaseDomainPut(t) =>
          th[t].op \in {"undo", "vote", "confirm", "reject"} /\ th[t].pc \in ReleasePcs
    BY <1>2
       DEF ReleaseDomainPut, At, ThreadOK, Control, GetPcs, LockPcs, UnlockPcs, ReleasePcs, SavePcs
  <2>4. QED BY <2>1, <2>2, <2>3 DEF BeforeBoundThread
<1>4. QED BY <1>1, <1>3, HeldStays

LEMMA BeforeBoundStep ==
  ASSUME TypeOK, TypeOK', StartedByAdd, OneNode, Undisturbed, OwnRecord, RecordsAdded, IndexHeld,
         DomainLocked, OneRequest, ResultsFit, NEW t \in Threads, Step(t), ~PanicInVote(t),
         NEW d \in Domains, ~BoundOnChain(d)
  PROVE  BeforeBound(d)'
<1>1. BeforeBound(d) /\ (th[t].op # "tick" /\ th[t].dom = d => BeforeBoundThread(t))
  BY DEF OneRequest
<1>2. ThreadOK(t, th[t])
  BY ThreadFacts
<1>3. pending[d] # None => pending'[d] = pending[d] /\ lockCell'[d] = lockCell[d]
  BY BeforeBoundStays
<1>4. pending[d] # None => pending[d].req \in Requests
  BY DEF TypeOK, RecordOrNone, Records
<1>5. ASSUME pending'[d] # None
      PROVE  lockCell'[d] = pending'[d].req
  <2>1. CASE pending[d] # None
    BY <1>1, <1>3, <2>1 DEF BeforeBound
  <2>2. CASE pending[d] = None
    <3>1. ~(ClearPending(t) /\ th[t].dom = d)
      BY <1>1, <1>2
         DEF ClearPending, At, ThreadOK, Control, BeforeBoundThread, GetPcs, LockPcs, UnlockPcs,
         ReleasePcs, SavePcs
    <3>2. SavePending(t) /\ th[t].op = "add" /\ th[t].dom = d /\ pending'[d] = Pending(t[2])
      BY <1>5, <2>2, <3>1, PendingStep
    <3>3. lockCell[d] = t[2]
      BY <3>2 DEF DomainLocked
    <3>4. lockCell' = lockCell
      BY <3>2 DEF SavePending, lockVars
    <3>5. QED BY <3>2, <3>3, <3>4 DEF Pending
  <2>3. QED BY <2>1, <2>2
<1>6. ASSUME NEW r \in Requests, DomainOf[r] = d, Entered(r)'
      PROVE  pending'[d] = Pending(r)
  <2>1. CASE Entered(r)
    <3>1. pending[d] = Pending(r)
      BY <1>1, <1>6, <2>1 DEF BeforeBound
    <3>2. Pending(r) # None
      BY RegistrationAssumption DEF Pending, Records
    <3>3. QED BY <1>3, <3>1, <3>2
  <2>2. CASE SavePending(t) /\ t = <<"register", r>>
    <3>1. t[2] = r /\ t[1] # "tick"
      BY <2>2
    <3>2. th[t].dom = d
      BY <1>2, <1>6, <3>1 DEF ThreadOK
    <3>3. th[t].op = "add" /\ th[t].rec = Pending(r)
      BY <2>2, <3>1, AddMoves DEF OwnRecord
    <3>4. PICK p \in PutValue(pending[th[t].dom], th[t].rec) :
            pending' = [pending EXCEPT ![th[t].dom] = p.value]
      BY <2>2 DEF SavePending
    <3>5. pending \in [Domains -> RecordOrNone]
      BY DEF TypeOK
    <3>6. QED BY <3>2, <3>3, <3>4, <3>5, NothingFails
  <2>3. QED BY <1>6, <2>1, <2>2, Enters
<1>7. ASSUME votes'[d] # None
      PROVE  /\ ~votes'[d].consensus /\ pending'[d] # None /\ Voted(pending[d].req)'
  <2>1. CASE votes'[d] = votes[d]
    <3>1. ~votes[d].consensus /\ pending[d] # None /\ Voted(pending[d].req)
      BY <1>1, <1>7, <2>1 DEF BeforeBound
    <3>2. \A r \in Requests : Voted(r) => Voted(r)'
      BY VotedStays
    <3>3. pending'[d] = pending[d]
      BY <1>3, <3>1
    <3>4. pending'[d].req = pending[d].req /\ pending[d].req \in Requests
      BY <1>4, <3>1, <3>3
    <3>5. Voted(pending[d].req)'
      BY <3>1, <3>2, <3>3, <3>4 DEF Voted
    <3>6. QED BY <2>1, <3>1, <3>3, <3>5
  <2>2. CASE SaveResult(t) /\ th[t].dom = d
    <3>1. th[t].op = "decide" /\ th[t].pc = "saveResult"
      BY <1>2, <2>2
         DEF SaveResult, At, ThreadOK, Control, GetPcs, LockPcs, UnlockPcs, ReleasePcs, SavePcs
    <3>2. QED BY <1>1, <2>2, <3>1 DEF BeforeBoundThread
  <2>3. CASE SaveVote(t) /\ th[t].dom = d /\ votes'[d] = th[t].result
    <3>1. th[t].pc = "voteSave" /\ t[1] = "vote"
      BY <2>3, VoteMoves DEF SaveVote, At
    <3>2. t = <<"vote", t[2]>> /\ t[2] \in Requests
      BY <3>1, ThreadKinds
    <3>3. DomainOf[t[2]] = d
      BY <1>2, <2>3, <3>1 DEF ThreadOK
    <3>4. Entered(t[2])
      BY <3>1, <3>2 DEF Entered
    <3>5. pending[d] = Pending(t[2])
      BY <1>1, <3>2, <3>3, <3>4 DEF BeforeBound
    <3>6. Pending(t[2]) # None /\ Pending(t[2]).req = t[2]
      BY <3>2, RegistrationAssumption DEF Pending, Records
    <3>7. th'[t].pc = "done"
      BY <2>3, VoteReadWritten
    <3>8. pending'[d] = pending[d]
      BY <1>3, <3>5, <3>6
    <3>9. Voted(pending[d].req)'
      BY <3>2, <3>5, <3>6, <3>7, <3>8 DEF Voted
    <3>10. ~th[t].result.consensus
      BY <3>1 DEF ResultsFit
    <3>11. QED BY <2>3, <3>5, <3>6, <3>8, <3>9, <3>10
  <2>4. QED BY <2>1, <2>2, <2>3, VotesStep
<1>8. QED BY <1>5, <1>6, <1>7 DEF BeforeBound

\* The thread that moves, as long as its domain is not bound.
LEMMA BeforeBoundMove ==
  ASSUME TypeOK, TypeOK', StartedByAdd, OneNode, Undisturbed, RecordsFit, OwnRecord, RecordsAdded,
         OneConfirmation, SavedIsRecord, DomainLocked, OneRequest, ResultsFit,
         NEW t \in Threads, Step(t), ~PanicInVote(t),
         th'[t].op # "tick", ~BoundOnChain(th[t].dom)'
  PROVE  BeforeBoundThread(t)'
<1> DEFINE d == th'[t].dom
<1>1. /\ ThreadOK(t, th[t]) /\ ThreadOK(t, th'[t]) /\ d \in Domains /\ ~BoundOnChain(d)
      /\ t[1] \in {"register", "vote", "publish", "update", "tick"} /\ Node(t) \in Nodes
  <2>1. ThreadOK(t, th[t]) /\ ThreadOK(t, th'[t])
    BY ThreadFacts DEF TypeOK
  <2>2. mined \subseteq mined' /\ UNCHANGED lapsed
    BY MinedGrows
  <2>3. ~BoundOnChain(d)
    BY <2>2 DEF BoundOnChain
  <2>4. QED BY <2>1, <2>3, ThreadKinds DEF ThreadOK
<1>2. record[d] = None /\ db[Node(t)][d] = None
  BY <1>1, NothingLapses DEF OneConfirmation, SavedIsRecord
<1>3. th[t].op # "tick" => th[t].dom = d /\ BeforeBoundThread(t)
  BY <1>1, DomKept DEF OneRequest
<1>4. th'[t].op \notin {"confirm", "reject"}
  <2>1. ASSUME th'[t].op = "confirm"
        PROVE  FALSE
    <3>1. CASE SaveResult(t)
      <4>1. th[t].op = "decide" /\ th[t].pc = "saveResult"
        BY <1>1, <3>1
           DEF SaveResult, At, ThreadOK, Control, GetPcs, LockPcs, UnlockPcs, ReleasePcs, SavePcs
      <4>2. QED BY <1>3, <4>1 DEF BeforeBoundThread
    <3>2. CASE th[t].op = "confirm"
      BY <1>3, <3>2 DEF BeforeBoundThread
    <3>3. QED BY <2>1, <3>1, <3>2, OpMoves
  <2>2. ASSUME th'[t].op = "reject"
        PROVE  FALSE
    <3>1. t[1] = "tick" /\ th[t].op \in {"tick", "decide", "confirm", "reject"}
      BY <1>1, <2>2, OneLoop DEF ThreadOK, Control
    <3>2. CASE th[t].op = "tick"
      <4>1. Tick(t) \/ Examine(t)
        BY <1>1, <3>2
           DEF ThreadOK, Control, GetPcs, LockPcs, UnlockPcs, ReleasePcs, SavePcs, Step, At,
           AddBinding, GetByNamehash, GetLocal, GetPendingRecord, GetLatestRecord, SaveRecordDHT,
           SaveRecordLocal, SaveNamehash, SaveNamehashLocal, ValidateSignedTx, LockDomain,
           LockDomainPut, SavePending, FindPending, LockIndex, LockIndexPut, ReadIndex,
           WriteIndex, ClearPending, ReleaseDomain, ReleaseDomainPut, ReleaseIndex,
           ReleaseIndexPut, ReadVotes, PanicInVote, SaveVote, Publish, SubmitSignedTx, SaveResult
      <4>2. QED BY <2>2, <4>1, DecideMoves DEF GoesTo
    <3>3. CASE th[t].op = "decide"
      <4>1. votes[d] # None /\ pending[d] # None /\ th[t].pc \in {"get", "getPending", "submit"}
        BY <1>1, <1>3, <3>3 DEF OneRequest, BeforeBound, BeforeBoundThread
      <4>2. SubmitSignedTx(t)
        BY <1>2, <1>3, <2>2, <3>3, <4>1, DecidingGets DEF GoesTo, Takes
      <4>3. ~BoundOnChain(th[t].dom)
        BY <1>1, <1>3, <3>3
      <4>4. Become(t, [th[t] EXCEPT !.pc = "saveResult", !.rec = None])
        BY <4>2, <4>3, Executes
      <4>5. th'[t] = [th[t] EXCEPT !.pc = "saveResult", !.rec = None] /\ th[t] \in ThreadState
        BY <4>4, Moved, ThreadFacts
      <4>6. QED BY <2>2, <3>3, <4>5 DEF ThreadState
    <3>4. CASE th[t].op \in {"confirm", "reject"}
      BY <1>3, <3>4 DEF BeforeBoundThread
    <3>5. QED BY <3>1, <3>2, <3>3, <3>4
  <2>3. QED BY <2>1, <2>2
<1>5. ASSUME th'[t].op = "vote"
      PROVE  th'[t].pc \notin ReleasePcs
  <2>1. ASSUME th'[t].pc \in ReleasePcs
        PROVE  FALSE
    <3>1. t[1] = "vote" /\ th[t].op = "vote"
      BY <1>1, <1>5, OneLoop DEF ThreadOK, Control
    <3>2. th[t].pc \notin ReleasePcs
      BY <1>3, <3>1 DEF BeforeBoundThread
    <3>3. votes[d] # None => ~votes[d].consensus
      BY <1>1 DEF OneRequest, BeforeBound
    <3>4. ReadVotes(t) \/ SaveVote(t)
      BY <1>1, <3>1, <3>2, Active
         DEF ThreadOK, Control, ReleasePcs, Step, At, AddBinding, GetByNamehash, GetLocal,
         GetPendingRecord, GetLatestRecord, SaveRecordDHT, SaveRecordLocal, SaveNamehash,
         SaveNamehashLocal, ValidateSignedTx, LockDomain, LockDomainPut, SavePending, FindPending,
         LockIndex, LockIndexPut, ReadIndex, WriteIndex, ClearPending, ReleaseDomain,
         ReleaseDomainPut, ReleaseIndex, ReleaseIndexPut, Publish, Tick, Examine, SubmitSignedTx,
         SaveResult
    <3>5. th'[t].pc \in {"voteSave", "done"}
      BY <1>3, <3>1, <3>3, <3>4, VoteReadWritten
    <3>6. QED BY <2>1, <3>5 DEF ReleasePcs
  <2>2. QED BY <2>1
<1>6. ASSUME th'[t].op = "decide"
      PROVE  /\ votes'[d] # None
             /\ th'[t].pc \in {"get", "getPending", "submit"}
             /\ th'[t].rec \in {None, pending'[d]}
  <2>1. CASE Examine(t) /\ th[t].op # "decide"
    <3>1. votes[d] # None /\ th'[t].pc = "get"
      BY <1>6, <2>1, DecisionTaken
    <3>2. UNCHANGED votes
      BY <2>1 DEF Examine, dhtVars
    <3>3. th[t].op = "tick"
      BY <1>1, <2>1
         DEF Examine, At, ThreadOK, Control, GetPcs, LockPcs, UnlockPcs, ReleasePcs, SavePcs
    <3>4. th'[t].rec = None
      BY <1>6, <2>1, <3>3, DecideMoves DEF GoesTo, Keeps, RecordsFit
    <3>5. QED BY <3>1, <3>2, <3>4
  <2>2. CASE th[t].op = "decide"
    <3>1. /\ th[t].dom = d /\ votes[d] # None /\ pending[d] # None
          /\ th[t].pc \in {"get", "getPending", "submit"} /\ th[t].rec \in {None, pending[d]}
      BY <1>1, <1>3, <2>2 DEF OneRequest, BeforeBound, BeforeBoundThread
    <3>2. pending'[d] = pending[d]
      BY <1>1, <3>1, BeforeBoundStays
    <3>3. votes'[d] = votes[d]
      <4>1. ~SaveVote(t) /\ ~SaveResult(t)
        BY <3>1 DEF SaveVote, SaveResult, At
      <4>2. QED BY <1>1, <4>1, VotesStep
    <3>4. ~SubmitSignedTx(t)
      <4>1. ASSUME SubmitSignedTx(t)
            PROVE  FALSE
        <5>1. th[t].pc = "submit" /\ th[t].rec # None
          BY <1>1, <4>1 DEF SubmitSignedTx, At, ThreadOK, HasRecord
        <5>2. th[t].rec.req \in Requests /\ DomainOf[th[t].rec.req] = d
          BY <1>1, <2>2, <3>1, <5>1 DEF RecordsFit, Of, ThreadOK, ThreadState, RecordOrNone, Records
        <5>3. mined' = mined \cup {th[t].rec.req}
          BY <1>1, <3>1, <4>1, Executes
        <5>4. lapsed = {} /\ UNCHANGED lapsed
          BY NothingLapses, MinedGrows
        <5>5. ~\E r \in mined' \ lapsed' : DomainOf[r] = d
          BY DEF BoundOnChain
        <5>6. QED BY <5>2, <5>3, <5>4, <5>5
      <4>2. QED BY <4>1
    <3>5. \/ th[t].pc = "get" /\ GoesTo(t, "getPending", "decide")
          \/ th[t].pc = "getPending" /\ Takes(t, "submit", "decide", pending[d])
      BY <1>2, <2>2, <3>1, <3>4, DecidingGets
    <3>6. QED BY <3>1, <3>2, <3>3, <3>5 DEF GoesTo, Keeps, Takes
  <2>3. QED BY <1>6, <2>1, <2>2, DecisionTaken
<1>7. QED BY <1>4, <1>5, <1>6 DEF BeforeBoundThread

LEMMA OneRequestStep ==
  ASSUME TypeOK, TypeOK', StartedByAdd, OneNode, Undisturbed, RecordsFit, OwnRecord, RecordsAdded,
         IndexHeld, OneConfirmation, SavedIsRecord, DomainLocked, OneRequest, ResultsFit,
         NEW t \in Threads, Step(t), ~PanicInVote(t)
  PROVE  OneRequest'
<1>1. \A d : ~BoundOnChain(d)' => ~BoundOnChain(d)
  BY MinedGrows
<1>2. ASSUME NEW d \in Domains, ~BoundOnChain(d)'
      PROVE  BeforeBound(d)'
  BY <1>1, <1>2, BeforeBoundStep
<1>3. ASSUME NEW u \in Threads, u # t, th'[u].op # "tick", ~BoundOnChain(th[u].dom)'
      PROVE  BeforeBoundThread(u)'
  <2>1. CASE th'[u] = th[u]
    <3> DEFINE d == th[u].dom
    <3>1. /\ BeforeBoundThread(u) /\ ~BoundOnChain(d) /\ d \in Domains
          /\ th[u].op = "decide" => u[1] = "tick"
      <4>1. ~BoundOnChain(d)'
        BY <1>3, <2>1 DEF BoundOnChain
      <4>2. QED BY <1>1, <1>3, <2>1, <4>1, ThreadFacts DEF OneRequest, ThreadOK, Control
    <3>2. ASSUME th[u].op = "decide"
          PROVE  votes'[d] # None /\ pending'[d] = pending[d]
      <4>1. votes[d] # None /\ pending[d] # None
        BY <3>1, <3>2 DEF BeforeBoundThread, OneRequest, BeforeBound
      <4>2. pending'[d] = pending[d]
        BY <3>1, <4>1, BeforeBoundStays
      <4>3. t[1] # "tick"
        BY <1>3, <3>1, <3>2, OneLoop
      <4>4. ~SaveResult(t)
        BY <4>3, ThreadFacts DEF SaveResult, At, ThreadOK, Control, GetPcs, LockPcs, UnlockPcs,
           ReleasePcs, SavePcs
      <4>5. SaveVote(t) => th[t].result # None
        BY DEF SaveVote, At, ResultsFit
      <4>6. QED BY <3>1, <4>1, <4>2, <4>4, <4>5, VotesStep
    <3>3. QED BY <2>1, <3>1, <3>2 DEF BeforeBoundThread
  <2>2. CASE th'[u].op \in {"vote", "publish"} /\ th'[u].pc \in {"vote", "publish"}
    BY <2>2 DEF BeforeBoundThread, ReleasePcs
  <2>3. QED BY <1>3, <2>1, <2>2, OtherThreads
<1>4. QED BY <1>2, <1>3, BeforeBoundMove DEF OneRequest

\* How a thread comes to decide, and what it does with the record in hand.
LEMMA DecidesMoves ==
  ASSUME TypeOK, TypeOK', StartedByAdd, OneNode, Undisturbed, NEW t \in Threads, Step(t),
         ~PanicInVote(t), Decides(t)'
  PROVE  \/ /\ SubmitSignedTx(t) /\ ~BoundOnChain(th[t].dom) /\ th[t].op = "decide"
            /\ mined' = mined \cup {th[t].rec.req} /\ Takes(t, "saveResult", "decide", None)
         \/ /\ Decides(t) /\ t[1] = "tick" /\ th'[t].dom = th[t].dom
            /\ ~ClearPending(t) /\ ~ReleaseDomainPut(t)
            /\ \/ th'[t].pc \in {"saveResult", "find"}
               \/ th'[t].rec = pending[th[t].dom]
               \/ th[t].pc \notin {"saveResult", "find"} /\ th'[t].rec.req = th[t].rec.req
<1> USE DEF GoesTo, Takes, Ends, Keeps, LockPcs, SavePcs
<1>1. /\ ThreadOK(t, th[t]) /\ ThreadOK(t, th'[t])
      /\ t[1] \in {"register", "vote", "publish", "update", "tick"}
  BY ThreadFacts, ThreadKinds DEF TypeOK
<1>2. t[1] = "tick" /\ th'[t].op \in {"decide", "confirm"}
  BY <1>1 DEF Decides, ThreadOK, Control, GetPcs, UnlockPcs, ReleasePcs
<1>3. th[t].op \in {"tick", "decide", "confirm", "reject"}
  BY <1>2, OneLoop
<1>4. ASSUME NEW r
      PROVE  ~GetReturns(t, r, th'[t])
  BY DEF GetReturns, Decides
<1>5. CASE \/ AddBinding(t) \/ GetByNamehash(t) \/ GetLocal(t) \/ GetPendingRecord(t)
           \/ GetLatestRecord(t)
  <2>1. CASE AddBinding(t) \/ GetByNamehash(t)
    BY <1>3, <2>1, GetMoves
  <2>2. CASE GetLocal(t) \/ GetPendingRecord(t) \/ GetLatestRecord(t)
    <3>1. th[t].op = "decide"
      BY <1>1, <1>3, <2>2
         DEF GetLocal, GetPendingRecord, GetLatestRecord, At, ThreadOK, Control, UnlockPcs,
            ReleasePcs
    <3>2. QED BY <1>4, <2>2, <3>1, GetMoves DEF Decides
  <2>3. QED BY <1>5, <2>1, <2>2
<1>6. CASE SaveRecordDHT(t) \/ SaveRecordLocal(t) \/ SaveNamehash(t) \/ SaveNamehashLocal(t)
  <2>1. th[t].pc \in SavePcs
    BY <1>6 DEF SaveRecordDHT, SaveRecordLocal, SaveNamehash, SaveNamehashLocal, At
  <2>2. \/ \E ok : SaveReturns(t, ok, th'[t])
        \/ th'[t].op = th[t].op /\ th'[t].pc \in SavePcs /\ Keeps(t, th'[t])
    BY <1>6, SaveMoves
  <2>3. th[t].op = "confirm" /\ th'[t].rec = th[t].rec /\ th'[t].dom = th[t].dom
    BY <1>3, <1>4, <2>2 DEF SaveReturns, Decides
  <2>4. ~ClearPending(t) /\ ~ReleaseDomainPut(t)
    BY <2>1 DEF ClearPending, ReleaseDomainPut, At
  <2>5. QED BY <1>2, <2>1, <2>3, <2>4 DEF Decides
<1>7. CASE ValidateSignedTx(t) \/ LockDomain(t) \/ LockDomainPut(t) \/ SavePending(t)
  BY <1>2, <1>7, AddMoves
<1>8. CASE \/ FindPending(t) \/ LockIndex(t) \/ LockIndexPut(t) \/ ReadIndex(t) \/ WriteIndex(t)
           \/ ClearPending(t)
  <2>1. ~Abandons(t, th'[t])
    BY <1>2, <1>3 DEF Abandons
  <2>2. th'[t].op = "confirm" /\ ~ReleaseDomainPut(t)
    <3>1. ASSUME th'[t].op = "decide"
          PROVE  FALSE
      <4>1. th[t].op = "decide"
        BY <1>8, <2>1, <3>1, IndexMoves DEF IndexWritten
      <4>2. QED BY <1>1, <1>8, <4>1
                DEF FindPending, LockIndex, LockIndexPut, ReadIndex, WriteIndex, ClearPending, At,
                ThreadOK, Control, GetPcs, UnlockPcs, ReleasePcs
    <3>2. QED BY <1>2, <1>8, <3>1
              DEF FindPending, LockIndex, LockIndexPut, ReadIndex, WriteIndex, ClearPending, At,
              ReleaseDomainPut
  <2>3. CASE FindPending(t)
    <3>1. th[t].op = "confirm" /\ th[t].pc = "find"
      BY <2>1, <2>2, <2>3, IndexMoves DEF FindPending, At
    <3>2. QED BY <1>2, <2>1, <2>2, <2>3, <3>1, IndexMoves DEF Decides, FindPending, ClearPending, At
  <2>4. CASE LockIndex(t) \/ LockIndexPut(t) \/ ReadIndex(t)
    <3>1. th[t].op = "confirm" /\ Keeps(t, th'[t])
      BY <2>1, <2>2, <2>4, IndexMoves
    <3>2. th[t].pc \in LockPcs
      BY <2>4 DEF LockIndex, LockIndexPut, ReadIndex, At
    <3>3. QED BY <1>2, <2>2, <3>1, <3>2 DEF Decides, ClearPending, At
  <2>5. CASE WriteIndex(t)
    <3>1. IndexWritten(t, th'[t]) /\ th[t].pc = "indexWrite"
      BY <2>5, IndexMoves DEF WriteIndex, At
    <3>2. Confirmed(th[t].rec.req).req = th[t].rec.req
      BY DEF Confirmed
    <3>3. th[t].op = "confirm" /\ th'[t].dom = th[t].dom /\ th'[t].rec.req = th[t].rec.req
      BY <2>2, <3>1, <3>2 DEF IndexWritten, Undisturbed
    <3>4. QED BY <1>2, <2>2, <3>1, <3>3 DEF Decides, ClearPending, At
  <2>6. CASE ClearPending(t)
    BY <2>2, <2>6, IndexMoves DEF Decides
  <2>7. QED BY <1>8, <2>3, <2>4, <2>5, <2>6
<1>9. CASE ReleaseDomain(t) \/ ReleaseDomainPut(t) \/ ReleaseIndex(t) \/ ReleaseIndexPut(t)
  BY <1>2, <1>3, <1>9, ReleaseMoves DEF DomainReleased, Abandons, AddReturns, Decides
<1>10. CASE ReadVotes(t) \/ SaveVote(t) \/ Publish(t)
  BY <1>2, <1>10, VoteMoves DEF Publish, At, Decides
<1>11. CASE Tick(t) \/ Examine(t) \/ SubmitSignedTx(t) \/ SaveResult(t)
  <2>1. CASE Tick(t) \/ Examine(t)
    BY <1>2, <2>1, DecideMoves DEF Decides
  <2>2. CASE SubmitSignedTx(t)
    BY <1>2, <2>2, DecideMoves
  <2>3. CASE SaveResult(t)
    <3>1. th[t].pc = "saveResult"
      BY <2>3 DEF SaveResult, At
    <3>2. QED BY <1>2, <2>3, <3>1, DecideMoves DEF Decides, ClearPending, ReleaseDomainPut, At
  <2>4. QED BY <1>11, <2>1, <2>2, <2>3
<1>12. QED BY <1>5, <1>6, <1>7, <1>8, <1>9, <1>10, <1>11 DEF Step

LEMMA DecisionHeldStep ==
  ASSUME TypeOK, TypeOK', StartedByAdd, OneNode, Undisturbed, RecordsFit, OwnRecord, RecordsAdded,
         DomainLocked, OneRequest, DecisionHeld, NEW t \in Threads, Step(t), ~PanicInVote(t)
  PROVE  DecisionHeld'
<1> DEFINE Quiet(s) == s.pc \in {"off", "done", "dead"}
<1>1. ASSUME NEW u \in Threads, Decides(u)'
      PROVE  /\ u[1] = "tick" /\ th'[u].dom \in Domains /\ th'[u].op # "tick"
             /\ u # t => Decides(u) /\ th'[u] = th[u] /\ t[1] # "tick"
  <2>1. ThreadOK(u, th'[u])
    BY DEF TypeOK
  <2>2. u[1] = "tick" /\ th'[u].dom \in Domains /\ th'[u].op # "tick"
    BY <1>1, <2>1
       DEF Decides, ThreadOK, Control, GetPcs, LockPcs, UnlockPcs, ReleasePcs, SavePcs
  <2>3. u # t => th'[u] = th[u] /\ t[1] # "tick"
    BY <2>2, OtherThreads, OneLoop
  <2>4. QED BY <1>1, <2>2, <2>3 DEF Decides
\* what stays of the decision on d: its record, its lock and the votes for it
<1>2. ASSUME NEW d \in Domains, pending[d] # None, lockCell[d] = pending[d].req,
             pending[d].req \in mined', Voted(pending[d].req),
             \A r \in Requests : DomainOf[r] = d => Quiet(th[<<"vote", r>>]),
             th[t].dom = d => ~ClearPending(t) /\ (ReleaseDomainPut(t) => th[t].op = "undo")
      PROVE  /\ pending'[d] = pending[d] /\ lockCell'[d] = lockCell[d]
             /\ pending'[d].req \in mined' /\ Voted(pending[d].req)'
             /\ \A r \in Requests : DomainOf[r] = d => Quiet(th'[<<"vote", r>>])
  <2>1. pending'[d] = pending[d] /\ lockCell'[d] = lockCell[d]
    BY <1>2, HeldStays
  <2>2. pending[d].req \in Requests
    BY <1>2 DEF TypeOK, RecordOrNone, Records
  <2>3. Voted(pending[d].req)'
    BY <1>2, <2>1, <2>2, VotedStays DEF Voted
  <2>4. ASSUME NEW r \in Requests, DomainOf[r] = d
        PROVE  Quiet(th'[<<"vote", r>>])
    <3> DEFINE w == <<"vote", r>>
    <3>1. w \in Threads /\ w # t /\ Quiet(th[w])
      BY <1>2, <2>4, VoteThread, Active
    <3>2. CASE th'[w] = th[w]
      BY <3>1, <3>2
    <3>3. CASE th[w].pc = "off" /\ th'[w].pc # "off"
      <4>1. th[t].op = "add" /\ t = <<"register", r>>
        BY <2>4, <3>3, VoteStarts
      <4>2. th[t].dom = d /\ t[2] = r
        BY <2>4, <4>1, ThreadFacts DEF ThreadOK
      <4>3. pending[d].req = r /\ ~Voted(r)
        BY <1>2, <4>1, <4>2, AddingAlone
      <4>4. QED BY <1>2, <4>3
    <3>4. QED BY <3>1, <3>2, <3>3, OtherThreads
  <2>5. QED BY <1>2, <2>1, <2>3, <2>4
<1>3. mined \subseteq mined'
  BY MinedGrows
<1>4. ASSUME NEW u \in Threads, u # t, Decides(u)'
      PROVE  DecidedHeld(u)'
  <2> DEFINE d == th[u].dom
  <2>1. /\ Decides(u) /\ th'[u] = th[u] /\ d \in Domains /\ t[1] # "tick" /\ DecidedHeld(u)
    BY <1>1, <1>4 DEF DecisionHeld
  <2>2. ThreadOK(t, th[t])
    BY ThreadFacts
  <2>3. th[t].op \notin {"confirm", "reject"}
    BY <2>1, OneLoop
  <2>4. ASSUME th[t].dom = d
        PROVE  ~ClearPending(t) /\ (ReleaseDomainPut(t) => th[t].op = "undo")
    <3>1. ~ClearPending(t)
      BY <2>2, <2>3
         DEF ClearPending, At, ThreadOK, Control, GetPcs, LockPcs, UnlockPcs, ReleasePcs, SavePcs
    <3>2. ASSUME ReleaseDomainPut(t), th[t].op # "undo"
          PROVE  FALSE
      <4>1. t[1] = "vote" /\ th[t].pc = "domainClear"
        BY <2>2, <2>3, <3>2
           DEF ReleaseDomainPut, At, ThreadOK, Control, GetPcs, LockPcs, UnlockPcs, ReleasePcs,
              SavePcs
      <4>2. t = <<"vote", t[2]>> /\ t[2] \in Requests /\ DomainOf[t[2]] = d
        BY <2>2, <2>4, <4>1, ThreadKinds DEF ThreadOK
      <4>3. QED BY <2>1, <4>1, <4>2 DEF DecidedHeld
    <3>3. QED BY <3>1, <3>2
  <2>5. /\ pending'[d] = pending[d] /\ lockCell'[d] = lockCell[d]
        /\ pending'[d].req \in mined' /\ Voted(pending[d].req)'
        /\ \A r \in Requests : DomainOf[r] = d => Quiet(th'[<<"vote", r>>])
    BY <1>2, <1>3, <2>1, <2>4 DEF DecidedHeld
  <2>6. QED BY <2>1, <2>5 DEF DecidedHeld
<1>5. ASSUME Decides(t)'
      PROVE  DecidedHeld(t)'
  <2> DEFINE d == th[t].dom
  <2>1. CASE /\ SubmitSignedTx(t) /\ ~BoundOnChain(d) /\ th[t].op = "decide"
             /\ mined' = mined \cup {th[t].rec.req} /\ Takes(t, "saveResult", "decide", None)
    <3>1. th[t].pc = "submit" /\ th[t].rec # None /\ d \in Domains
      BY <2>1, ThreadFacts DEF SubmitSignedTx, At, ThreadOK, HasRecord
    <3>2. votes[d] # None /\ th[t].rec = pending[d]
      <4>1. BeforeBoundThread(t)
        BY <2>1 DEF OneRequest
      <4>2. QED BY <2>1, <3>1, <4>1 DEF BeforeBoundThread
    <3>3. BeforeBound(d)
      BY <2>1, <3>1 DEF OneRequest
    <3>4. /\ pending[d] # None /\ lockCell[d] = pending[d].req /\ pending[d].req \in mined'
          /\ Voted(pending[d].req)
      BY <2>1, <3>1, <3>2, <3>3 DEF BeforeBound
    <3>5. ASSUME NEW r \in Requests, DomainOf[r] = d
          PROVE  Quiet(th[<<"vote", r>>])
      <4>1. CASE th[<<"vote", r>>].pc # "off"
        <5>1. pending[d] = Pending(r)
          BY <3>3, <3>5, <4>1 DEF BeforeBound, Entered
        <5>2. QED BY <3>4, <5>1 DEF Pending, Voted
      <4>2. QED BY <4>1
    <3>6. ~ClearPending(t) /\ ~ReleaseDomainPut(t)
      BY <3>1 DEF ClearPending, ReleaseDomainPut, At
    <3>7. th'[t].dom = d /\ th'[t].pc = "saveResult"
      BY <2>1 DEF Takes
    <3>8. /\ pending'[d] = pending[d] /\ lockCell'[d] = lockCell[d]
          /\ pending'[d].req \in mined' /\ Voted(pending[d].req)'
          /\ \A r \in Requests : DomainOf[r] = d => Quiet(th'[<<"vote", r>>])
      BY <1>2, <3>1, <3>4, <3>5, <3>6, <3>7
    <3>9. pending'[d] # None /\ lockCell'[d] = pending'[d].req
      BY <3>4, <3>8
    <3>10. QED BY <3>7, <3>8, <3>9 DEF DecidedHeld
  <2>2. CASE /\ Decides(t) /\ t[1] = "tick" /\ th'[t].dom = d
             /\ ~ClearPending(t) /\ ~ReleaseDomainPut(t)
             /\ \/ th'[t].pc \in {"saveResult", "find"}
                \/ th'[t].rec = pending[d]
                \/ th[t].pc \notin {"saveResult", "find"} /\ th'[t].rec.req = th[t].rec.req
    <3>1. DecidedHeld(t) /\ d \in Domains
      BY <1>1, <1>5, <2>2 DEF DecisionHeld
    <3>2. /\ pending'[d] = pending[d] /\ lockCell'[d] = lockCell[d]
          /\ pending'[d].req \in mined' /\ Voted(pending[d].req)'
          /\ \A r \in Requests : DomainOf[r] = d => Quiet(th'[<<"vote", r>>])
      BY <1>2, <1>3, <2>2, <3>1 DEF DecidedHeld
    <3>3. th'[t].pc \notin {"saveResult", "find"} => th'[t].rec.req = pending'[d].req
      BY <2>2, <3>1, <3>2 DEF DecidedHeld
    <3>4. QED BY <2>2, <3>1, <3>2, <3>3 DEF DecidedHeld
  <2>3. QED BY <1>5, <2>1, <2>2, DecidesMoves
<1>6. QED BY <1>4, <1>5 DEF DecisionHeld

LEMMA ResultsFitStep ==
  ASSUME TypeOK, TypeOK', StartedByAdd, OneNode, Undisturbed, DecisionHeld, ResultsFit,
         NEW t \in Threads, Step(t), ~PanicInVote(t)
  PROVE  ResultsFit'
<1>1. ASSUME NEW u \in Threads, th'[u].pc = "voteSave"
      PROVE  /\ th'[u].result # None /\ ~th'[u].result.consensus
             /\ votes'[th'[u].dom] # None => ~votes'[th'[u].dom].consensus
  <2>1. CASE u = t
    <3>1. ReadVotes(t) /\ UNCHANGED votes
      BY <1>1, <2>1, OpMoves DEF ReadVotes, dhtVars
    <3>2. th'[t].dom = th[t].dom
      BY <1>1, <2>1, <3>1, VoteMoves DEF GoesTo, Takes, Keeps
    <3>3. ~(votes[th[t].dom] # None /\ votes[th[t].dom].consensus)
      <4>1. ASSUME votes[th[t].dom] # None /\ votes[th[t].dom].consensus
            PROVE  FALSE
        <5>1. Become(t, [th[t] EXCEPT !.pc = "releaseDomain", !.rec = Pending(t[2])])
          <6>1. GetValue(votes[th[t].dom]) = {votes[th[t].dom]}
            BY NothingFails
          <6>2. QED BY <3>1, <4>1, <6>1 DEF ReadVotes, Undisturbed
        <5>2. /\ th'[t] = [th[t] EXCEPT !.pc = "releaseDomain", !.rec = Pending(t[2])]
              /\ th[t] \in ThreadState
          BY <5>1, Moved, ThreadFacts
        <5>3. QED BY <1>1, <2>1, <5>2 DEF ThreadState
      <4>2. QED BY <4>1
    <3>4. th'[t].result \in VoteResults(Nodes) /\ ~th'[t].result.consensus
      BY <3>1, <3>3, VoteReadWritten
    <3>5. None \notin VoteResults(Nodes)
      BY RegistrationAssumption
    <3>6. QED BY <2>1, <3>1, <3>2, <3>3, <3>4, <3>5
  <2>2. CASE u # t
    <3> DEFINE d == th[u].dom
    <3>1. th'[u] = th[u]
      BY <1>1, <2>2, OtherThreads
    <3>2. u[1] = "vote" /\ u = <<"vote", u[2]>> /\ u[2] \in Requests /\ d = DomainOf[u[2]] /\ d \in Domains
      BY <1>1, <3>1, ThreadFacts, ThreadKinds
         DEF ThreadOK, Control, GetPcs, LockPcs, UnlockPcs, ReleasePcs, SavePcs
    <3>3. /\ th[u].result # None /\ ~th[u].result.consensus
          /\ votes[d] # None => ~votes[d].consensus
      BY <1>1, <3>1 DEF ResultsFit
    <3>4. CASE votes'[d] = votes[d]
      BY <3>1, <3>3, <3>4
    <3>5. CASE SaveVote(t) /\ votes'[d] = th[t].result
      BY <3>1, <3>3, <3>5 DEF SaveVote, At, ResultsFit
    <3>6. CASE SaveResult(t) /\ th[t].dom = d
      <4>1. DecidedHeld(t)
        BY <3>6 DEF SaveResult, At, Decides, DecisionHeld
      <4>2. QED BY <1>1, <3>1, <3>2, <3>6, <4>1 DEF DecidedHeld
    <3>7. QED BY <3>2, <3>4, <3>5, <3>6, VotesStep
  <2>3. QED BY <2>1, <2>2
<1>2. ASSUME NEW u \in Threads, th'[u].op = "decide"
      PROVE  th'[u].result # None /\ th'[u].result.consensus
  <2>1. CASE u = t
    <3>1. CASE /\ th'[t].dom \in Domains /\ votes[th'[t].dom] # None
               /\ th'[t].result = Decided(votes[th'[t].dom])
      <4>1. votes[th'[t].dom] \in VoteResults(Nodes)
        BY <3>1 DEF TypeOK, ResultOrNone
      <4>2. Decided(votes[th'[t].dom]) \in VoteResults(Nodes)
        BY <4>1, ThreadKinds, VoteTypes
      <4>3. Decided(votes[th'[t].dom]).consensus
        BY <4>1 DEF Decided, VoteResults
      <4>4. None \notin VoteResults(Nodes)
        BY RegistrationAssumption
      <4>5. QED BY <2>1, <3>1, <4>2, <4>3, <4>4
    <3>2. CASE th[t].op = "decide" /\ th'[t].result = th[t].result
      BY <2>1, <3>2 DEF ResultsFit
    <3>3. QED BY <1>2, <2>1, <3>1, <3>2, DecisionTaken
  <2>2. CASE u # t
    <3>1. th'[u] = th[u]
      BY <1>2, <2>2, OtherThreads
    <3>2. QED BY <1>2, <3>1 DEF ResultsFit
  <2>3. QED BY <2>1, <2>2
<1>3. QED BY <1>1, <1>2 DEF ResultsFit

LEMMA NamesKnownStep ==
  ASSUME TypeOK, TypeOK', StartedByAdd, OneNode, Undisturbed, OneConfirmation, SavedIsRecord,
         OneConfirmation', SavedIsRecord', SavedInOrder, NamehashResolves, NamesKnown,
         NEW t \in Threads, Step(t), ~PanicInVote(t)
  PROVE  NamesKnown'
<1>1. ASSUME NEW n \in Nodes, NEW d \in Domains, d \in nameMap'
      PROVE  db'[n][d] # None
  <2>1. CASE SaveNamehash(t) /\ d = th[t].dom
    <3>1. th[t].pc = "saveName" /\ Node(t) = n
      BY <2>1, ThreadKinds DEF SaveNamehash, At, OneNode
    <3>2. QED BY <2>1, <3>1, RecordsStay DEF SavedInOrder
  <2>2. CASE ~(SaveNamehash(t) /\ d = th[t].dom)
    <3>1. d \in nameMap
      <4>1. CASE SaveNamehash(t)
        <5>1. PICK p \in PutValue(nameMap, nameMap \cup {th[t].dom}) : nameMap' = p.value
          BY <4>1 DEF SaveNamehash
        <5>2. nameMap' = nameMap \cup {th[t].dom}
          BY <5>1, NothingFails
        <5>3. QED BY <1>1, <2>2, <4>1, <5>2
      <4>2. CASE ~SaveNamehash(t)
        BY <1>1, <4>2, DHTFrame DEF dhtVars
      <4>3. QED BY <4>1, <4>2
    <3>2. QED BY <3>1, RecordsStay DEF NamesKnown
  <2>3. QED BY <2>1, <2>2
<1>2. ASSUME NEW n \in Nodes, NEW d \in Domains, IsConfirmed(db[n][d])
      PROVE  IsConfirmed(db'[n][d])
  <2>1. db'[n][d] # None
    BY <1>2, RecordsStay DEF IsConfirmed
  <2>2. Unlapsed(d)'
    BY NothingLapses, MinedGrows
  <2>3. QED BY <2>1, <2>2 DEF SavedIsRecord, OneConfirmation
<1>3. ASSUME NEW u \in Threads, th'[u].op = "nameBound"
      PROVE  th'[u].pc = "get" /\ IsConfirmed(db'[Node(u)][th'[u].dom])
  <2>1. Node(u) \in Nodes /\ ThreadOK(u, th[u]) /\ ThreadOK(u, th'[u])
    BY ThreadKinds, ThreadFacts DEF TypeOK
  <2>2. u[1] = "update" /\ th'[u].dom = th[u].dom /\ th[u].dom \in Domains
    BY <1>3, <2>1, ThreadKinds DEF ThreadOK, Control
  <2>3. CASE GetByNamehash(t) /\ u = t
    <3>1. GoesTo(t, "get", "nameBound")
      BY <1>3, <2>3, GetMoves DEF GoesTo
    <3>2. th[t].dom \in dbNames[Node(t)] \cup nameMap
      <4>1. ~Goto(t, "refused")
        <5>1. ASSUME Goto(t, "refused")
              PROVE  FALSE
          <6>1. th'[t] = [th[t] EXCEPT !.pc = "refused"] /\ th[t] \in ThreadState
            BY <5>1, Moved, ThreadFacts DEF Goto
          <6>2. QED BY <3>1, <6>1 DEF GoesTo, ThreadState
        <5>2. QED BY <5>1
      <4>2. QED BY <2>3, <4>1 DEF GetByNamehash
    <3>3. db[Node(t)][th[t].dom] # None
      BY <2>1, <2>2, <2>3, <3>2 DEF NamesKnown, NamehashResolves
    <3>4. IsConfirmed(db[Node(t)][th[t].dom])
      BY <2>1, <2>2, <2>3, <3>3, NothingLapses DEF SavedIsRecord, OneConfirmation
    <3>5. QED BY <1>2, <2>1, <2>2, <2>3, <3>1, <3>4 DEF GoesTo
  <2>4. CASE th[u].op = "nameBound" /\ th'[u] = th[u]
    BY <1>2, <2>1, <2>2, <2>4 DEF NamesKnown, NameBoundKnown
  <2>5. CASE th[t].op = "nameBound" /\ u = t
    <3>1. th[t].pc = "get" /\ IsConfirmed(db[Node(t)][th[t].dom])
      BY <2>5 DEF NamesKnown, NameBoundKnown
    <3>2. GetLocal(t)
      BY <3>1, DecidingSteps
         DEF GetPcs, At, GetPendingRecord, GetLatestRecord, SaveRecordDHT, SaveRecordLocal,
         SaveNamehash, SaveNamehashLocal, SubmitSignedTx, SaveResult
    <3>3. Become(t, AfterGet(t, db[Node(t)][th[t].dom]))
      BY <3>1, <3>2 DEF GetLocal
    <3>4. GetReturns(t, db[Node(t)][th[t].dom], th'[t])
      BY <2>5, <3>3, Moved, ThreadFacts, AfterGetFields DEF GetOps
    <3>5. QED BY <1>3, <2>5, <3>4 DEF GetReturns
  <2>6. u # t => th'[u] = th[u]
    BY <2>2, OtherThreads
  <2>7. QED BY <1>3, <2>3, <2>4, <2>5, <2>6, OpMoves
<1>4. QED BY <1>1, <1>3 DEF NamesKnown, NameBoundKnown

LEMMA ConfirmedWasMinedStep ==
  ASSUME TypeOK, Undisturbed, OneConfirmation, SavedIsRecord, DecisionHeld, ConfirmedWasMined,
         NEW t \in Threads, Step(t)
  PROVE  ConfirmedWasMined'
<1> SUFFICES ASSUME NEW d \in Domains, record'[d] # None PROVE record'[d].req \in mined'
  BY DEF ConfirmedWasMined
<1>1. mined \subseteq mined'
  BY MinedGrows
<1>2. CASE record'[d] = record[d]
  BY <1>1, <1>2 DEF ConfirmedWasMined
<1>3. CASE SaveRecordDHT(t) /\ Confirming(t, d) /\ record'[d] = th[t].rec
  <2>1. th[t].pc = "saveRecord" /\ Decides(t)
    BY <1>3 DEF SaveRecordDHT, At, Confirming, Decides, SavePcs
  <2>2. DecidedHeld(t)
    BY <2>1 DEF DecisionHeld
  <2>3. QED BY <1>1, <1>3, <2>1, <2>2 DEF DecidedHeld
<1>4. QED BY <1>2, <1>3, RecordChange, NothingLapses

-----------------------------------------------------------------------------
(* Crashes *)

LEMMA StoppedRests ==
  ASSUME TypeOK, StartedByAdd, OneNode, NEW n \in Nodes, Stop(n), NEW u \in Threads
  PROVE  /\ th'[u].op = u[1]
         /\ th'[u].pc \in {"get", "update", "off", "tick", "done", "refused", "dead"}
         /\ th[u].pc \in {"off", "done"} => th'[u] = th[u]
<1>1. /\ Node(u) = n /\ ThreadOK(u, th[u])
      /\ u[1] \in {"register", "vote", "publish", "update", "tick"}
  BY ThreadKinds, ThreadFacts DEF OneNode
<1>2. th[u].pc \in {"off", "done"} => Resting(u) /\ u[1] # "tick"
  BY <1>1
     DEF Resting, ThreadOK, Control, GetPcs, SavePcs, LockPcs, UnlockPcs, ReleasePcs
<1>3. CASE u[1] = "tick"
  <2>1. th'[u] = Idle(u)
    BY <1>1, <1>3 DEF Stop
  <2>2. QED BY <1>2, <1>3, <2>1 DEF Idle
<1>4. CASE u[1] # "tick" /\ ~Resting(u)
  <2>1. th'[u] = [Idle(u) EXCEPT !.pc = "dead"]
    BY <1>1, <1>4 DEF Stop
  <2>2. "dead" \in Pcs
    BY DEF Pcs
  <2> HIDE DEF Idle
  <2>3. QED BY <1>2, <1>4, <2>1, <2>2, Returned
<1>5. CASE u[1] # "tick" /\ Resting(u)
  <2>1. th'[u] = th[u]
    BY <1>1, <1>5 DEF Stop
  <2>2. \/ th[u].pc \in {"off", "tick", "done", "refused", "dead"}
        \/ u[1] = "register" /\ th[u].pc = "get"
        \/ u[1] = "update" /\ th[u].pc = "update"
    BY <1>5 DEF Resting, Starts, At, Idle
  <2>3. th[u].op = u[1]
    BY <1>1, <2>2 DEF ThreadOK, Control, GetPcs, SavePcs, LockPcs, UnlockPcs, ReleasePcs
  <2>4. QED BY <2>1, <2>2, <2>3
<1>6. QED BY <1>3, <1>4, <1>5

LEMMA DecisionStop ==
  ASSUME TypeOK, StartedByAdd, OneNode, DecisionInvariant, NEW n \in Nodes, Stop(n)
  PROVE  DecisionInvariant'
<1>1. UNCHANGED <<lockCell, pending, votes, record, nameMap, db, dbNames, mined, lapsed>>
  BY DEF Stop, dhtVars, chainVars
<1>2. ASSUME NEW u \in Threads
      PROVE  /\ th'[u].op = u[1] /\ u[1] \in {"register", "vote", "publish", "update", "tick"}
             /\ th'[u].pc \in {"get", "update", "off", "tick", "done", "refused", "dead"}
  BY StoppedRests, ThreadKinds
<1>3. \A u \in Threads : ~Decides(u)'
  BY <1>2 DEF Decides
<1>4. DomainLocked' /\ VoteRecord' /\ DecisionHeld' /\ ResultsFit'
  BY <1>2, <1>3 DEF DomainLocked, VoteRecord, DecisionHeld, ResultsFit, ReleasePcs
<1>5. NamesKnown' /\ ConfirmedWasMined'
  BY <1>1, <1>2 DEF DecisionInvariant, NamesKnown, NameBoundKnown, ConfirmedWasMined
<1>6. \A d : BoundOnChain(d)' <=> BoundOnChain(d)
  BY <1>1 DEF BoundOnChain
<1>7. ASSUME NEW r \in Requests
      PROVE  (Entered(r)' => Entered(r)) /\ (Voted(r) => Voted(r)')
  <2>1. th'[<<"register", r>>].op # "add"
    BY <1>2, RegisterThread
  <2>2. th[<<"vote", r>>].pc \in {"off", "done"} => th'[<<"vote", r>>] = th[<<"vote", r>>]
    BY StoppedRests, VoteThread
  <2>3. QED BY <2>1, <2>2 DEF Entered, Voted
<1>8. ASSUME NEW d \in Domains, ~BoundOnChain(d)'
      PROVE  BeforeBound(d)'
  <2>1. BeforeBound(d)
    BY <1>6, <1>8 DEF DecisionInvariant, OneRequest
  <2>2. pending[d] # None => pending[d].req \in Requests
    BY DEF TypeOK, RecordOrNone, Records
  <2>3. votes[d] # None => Voted(pending[d].req)'
    BY <1>1, <1>7, <2>1, <2>2 DEF BeforeBound, Voted
  <2>4. QED BY <1>1, <1>7, <2>1, <2>3 DEF BeforeBound
<1>9. \A u \in Threads : BeforeBoundThread(u)'
  BY <1>2 DEF BeforeBoundThread, ReleasePcs
<1>10. OneRequest'
  BY <1>8, <1>9 DEF OneRequest
<1>11. QED BY <1>4, <1>5, <1>10 DEF DecisionInvariant

-----------------------------------------------------------------------------
(* The theorems *)

LEMMA DecisionInit ==
  ASSUME Init
  PROVE  Inv
<1>1. ASSUME NEW t \in Threads
      PROVE  /\ th[t].op = t[1] /\ t[1] \in {"register", "vote", "publish", "update", "tick"}
             /\ th[t].pc \in {"get", "update", "tick", "off"} /\ th[t].rec = None /\ th[t].ok
             /\ t[1] = "vote" => th[t].pc = "off"
  BY InitIdle, ThreadKinds DEF Init, Idle
<1>2. \A t \in Threads : ~Decides(t) /\ BeforeBoundThread(t)
  BY <1>1 DEF Decides, BeforeBoundThread, ReleasePcs
<1>3. \A r \in Requests : ~Entered(r)
  BY <1>1, VoteThread, RegisterThread DEF Entered
<1>4. \A d \in Domains : BeforeBound(d)
  BY <1>3 DEF Init, BeforeBound
<1>5. OneRequest /\ DecisionHeld
  BY <1>2, <1>4 DEF OneRequest, DecisionHeld
<1>6. DomainLocked /\ VoteRecord /\ ResultsFit
  BY <1>1 DEF DomainLocked, VoteRecord, ResultsFit, ReleasePcs
<1>7. /\ record = [d \in Domains |-> None] /\ nameMap = {}
      /\ dbNames = [n \in Nodes |-> {}]
  BY DEF Init
<1>8. NamesKnown /\ ConfirmedWasMined /\ NamehashResolves
  BY <1>1, <1>7 DEF NamesKnown, NameBoundKnown, ConfirmedWasMined, NamehashResolves
<1>9. SavedInOrder /\ RecordsAdded
  BY <1>1 DEF Init, SavedInOrder, SavePcs, RecordsAdded
<1>10. ConfirmInvariant /\ IndexInvariant
  BY ConfirmInvariantInit, IndexInvariantInit
<1>11. QED BY <1>5, <1>6, <1>8, <1>9, <1>10 DEF Inv, DecisionInvariant

LEMMA InvStep ==
  ASSUME OneNode, Undisturbed, Inv, ConfirmInvariant', NEW t \in Threads, Step(t), ~PanicInVote(t)
  PROVE  SavedInOrder' /\ NamehashResolves' /\ RecordsAdded' /\ DecisionInvariant'
<1>1. /\ TypeOK /\ StartedByAdd /\ RecordsFit /\ OwnRecord /\ OneConfirmation /\ SavedIsRecord
      /\ SavedInOrder /\ NamehashResolves /\ RecordsAdded
  BY DEF Inv, ConfirmInvariant
<1>2. IndexLocked /\ IndexHeld
  BY DEF Inv, IndexInvariant
<1>3. /\ DomainLocked /\ VoteRecord /\ OneRequest /\ DecisionHeld /\ ResultsFit /\ NamesKnown
      /\ ConfirmedWasMined
  BY DEF Inv, DecisionInvariant
<1>4. TypeOK' /\ OneConfirmation' /\ SavedIsRecord'
  BY DEF ConfirmInvariant
<1>5. "put" \notin Faults
  BY DEF Undisturbed
<1>6. SavedInOrder' /\ NamehashResolves'
  BY <1>1, SavedInOrderStep
<1>7. RecordsAdded'
  BY <1>1, <1>4, <1>5, RecordsAddedStep
<1>8. DomainLocked' /\ VoteRecord'
  BY <1>1, <1>2, <1>3, <1>4, DomainLockedStep, VoteRecordStep
<1>9. OneRequest'
  BY <1>1, <1>2, <1>3, <1>4, OneRequestStep
<1>10. DecisionHeld'
  BY <1>1, <1>3, <1>4, DecisionHeldStep
<1>11. ResultsFit'
  BY <1>1, <1>3, <1>4, ResultsFitStep
<1>12. NamesKnown'
  BY <1>1, <1>3, <1>4, NamesKnownStep
<1>13. ConfirmedWasMined'
  BY <1>1, <1>3, ConfirmedWasMinedStep
<1>14. QED BY <1>6, <1>7, <1>8, <1>9, <1>10, <1>11, <1>12, <1>13 DEF DecisionInvariant

LEMMA InvKept ==
  ASSUME OneNode, Undisturbed, Inv, [Next]_vars
  PROVE  Inv'
<1>1. ConfirmInvariant' /\ IndexInvariant'
  <2>1. NameBoundKnown
    BY DEF Inv, DecisionInvariant, NamesKnown
  <2>2. ConfirmInvariant'
    BY <2>1, ConfirmInvariantKept DEF Inv
  <2>3. IndexInvariant'
    BY IndexInvariantKept, NothingFails DEF Inv, ConfirmInvariant
  <2>4. QED BY <2>2, <2>3
<1>2. ASSUME NEW n \in Nodes, Stop(n)
      PROVE  SavedInOrder' /\ NamehashResolves' /\ RecordsAdded' /\ DecisionInvariant'
  BY <1>2, SavedInOrderStop, RecordsAddedStop, DecisionStop DEF Inv, ConfirmInvariant
<1>3. CASE \E t \in Threads : Runs(t)
  <2>1. PICK t \in Threads : Step(t)
    BY <1>3 DEF Runs
  <2>2. CASE PanicInVote(t)
    BY <1>1, <1>2, <2>2, ThreadKinds DEF PanicInVote, Inv
  <2>3. CASE ~PanicInVote(t)
    BY <1>1, <2>1, <2>3, InvStep DEF Inv
  <2>4. QED BY <2>2, <2>3
<1>4. CASE \E n \in Nodes : Crash(n)
  BY <1>1, <1>2, <1>4 DEF Crash, Inv
<1>5. CASE (\E n \in Nodes : Restart(n)) \/ UNCHANGED vars
  <2>1. UNCHANGED <<lockCell, pending, votes, record, nameMap, db, dbNames, mined, lapsed, th>>
    BY <1>5 DEF Restart, vars, lockVars, dhtVars, nodeVars, chainVars
  <2>2. SavedInOrder' /\ NamehashResolves' /\ RecordsAdded'
    BY <2>1 DEF Inv, SavedInOrder, NamehashResolves, RecordsAdded, Added
  <2>3. DomainLocked' /\ VoteRecord' /\ ResultsFit' /\ NamesKnown' /\ ConfirmedWasMined'
    BY <2>1
       DEF Inv, DecisionInvariant, DomainLocked, VoteRecord, ResultsFit, NamesKnown, NameBoundKnown,
       ConfirmedWasMined
  <2>4. OneRequest'
    BY <2>1
       DEF Inv, DecisionInvariant, OneRequest, BoundOnChain, BeforeBound, BeforeBoundThread,
       Entered, Voted
  <2>5. DecisionHeld'
    BY <2>1 DEF Inv, DecisionInvariant, DecisionHeld, Decides, DecidedHeld, Voted
  <2>6. QED BY <1>1, <2>2, <2>3, <2>4, <2>5 DEF Inv, DecisionInvariant
<1>6. ~\E r \in Requests : Mine(r) \/ Lapse(r)
  BY NothingLapses DEF Inv, ConfirmInvariant
<1>7. QED BY <1>3, <1>4, <1>5, <1>6 DEF Next

\* On one node where nothing fails and no binding lapses, only a request whose
\* transaction is on chain becomes the confirmed record: from the submission until ConfirmRecord has read the
\* pending record again, the domain lock keeps that record where it was.  The node
\* may crash between any two steps and start again.
THEOREM ConfirmsWhatWasMined ==
  ASSUME OneNode, Undisturbed
  PROVE  Spec => []ConfirmedWasMined
<1>1. Init => Inv
  BY DecisionInit
<1>2. Inv /\ [Next]_vars => Inv'
  BY InvKept
<1>3. Inv => ConfirmedWasMined
  BY DEF Inv, DecisionInvariant
<1>4. QED BY <1>1, <1>2, <1>3, PTL DEF Spec

\* On one node where nothing fails and no binding lapses, a decision is not undone: a vote that has read the
\* result before the decision is saved before it, because the vote of a request is in
\* before its decision loop finds a quorum and no other request can enter.
THEOREM DecisionsStay ==
  ASSUME OneNode, Undisturbed
  PROVE  Spec => DecisionKept
<1>1. Init => Inv
  BY DecisionInit
<1>2. Inv /\ [Next]_vars => Inv'
  BY InvKept
<1>3. ASSUME Inv, Next, NEW d \in Domains, votes[d] # None, votes[d].consensus
      PROVE  votes'[d] # None /\ votes'[d].consensus
  <2>1. TypeOK /\ ResultsFit
    BY <1>3 DEF Inv, ConfirmInvariant, DecisionInvariant
  <2>2. CASE \E t \in Threads : Runs(t)
    <3>1. PICK t \in Threads : Step(t)
      BY <2>2 DEF Runs
    <3>2. CASE votes'[d] = votes[d]
      BY <1>3, <3>2
    <3>3. CASE SaveVote(t) /\ th[t].dom = d
      BY <1>3, <2>1, <3>3 DEF SaveVote, At, ResultsFit
    <3>4. CASE SaveResult(t) /\ votes'[d] = th[t].result
      <4>1. th[t].op = "decide"
        BY <2>1, <3>4, ThreadFacts
           DEF SaveResult, At, ThreadOK, Control, GetPcs, LockPcs, UnlockPcs, ReleasePcs, SavePcs
      <4>2. QED BY <2>1, <3>4, <4>1 DEF ResultsFit
    <3>5. QED BY <2>1, <3>1, <3>2, <3>3, <3>4, VotesStep
  <2>3. CASE \E n \in Nodes : Crash(n) \/ Restart(n)
    BY <1>3, <2>3 DEF Crash, Stop, Restart, dhtVars
  <2>4. ~\E r \in Requests : Mine(r) \/ Lapse(r)
    BY <2>1, NothingLapses
  <2>5. QED BY <1>3, <2>2, <2>3, <2>4 DEF Next
<1>4. Inv /\ [Next]_vars
        => [\A d \in Domains :
              votes[d] # None /\ votes[d].consensus => votes'[d] # None /\ votes'[d].consensus]_vars
  BY <1>3
<1>5. QED BY <1>1, <1>2, <1>4, PTL DEF Spec, DecisionKept

\* On one node where nothing fails and no binding lapses, a confirmed record stays
\* although NameBound messages make BindAddressResolver save what it finds: the namehash of a domain only resolves
\* once the node has the confirmed record.
THEOREM ConfirmedStaysBound ==
  ASSUME OneNode, Undisturbed
  PROVE  Spec => ConfirmedStable
<1>1. Init => Inv
  BY DecisionInit
<1>2. Inv /\ [Next]_vars => Inv'
  BY InvKept
<1>3. Inv /\ [Next]_vars
        => [\A d \in Domains : IsConfirmed(record[d]) => record'[d] = record[d]]_vars
  BY ConfirmedNotReplaced, NothingLapses DEF Inv, ConfirmInvariant, vars, dhtVars
<1>4. QED BY <1>1, <1>2, <1>3, PTL DEF Spec, ConfirmedStable


-----------------------------------------------------------------------------
(* Look-ups *)

\* The look-up of domain_register is on its way, or has found a record.
LookPcs == {"getPending", "getRecord", "refused"} \cup SavePcs

\* What was pending at the beginning of a look-up that has found nothing is no
\* longer pending, and has not been confirmed; since its request has been added, it
\* never will be.
LookupFits ==
  \A r \in Requests :
    LET s == th[<<"register", r>>]
        d == DomainOf[r]
    IN s.seen # None =>
         /\ s.seen = Pending(s.seen.req) /\ s.seen.req \in Added
         /\ s.pc = "getRecord" => record[d] # None \/ pending[d] # s.seen
         /\ s.pc \notin LookPcs => pending[d] # s.seen /\ record[d] # Confirmed(s.seen.req)

\* A step leaves what the look-up has seen; the look-up goes from the pending record
\* to the record in the DHT, and to the validation if both are absent.
LEMMA LookupMoves ==
  ASSUME TypeOK, StartedByAdd, Undisturbed, NEW t \in Threads, Step(t), t[1] = "register",
         th'[t].seen # None
  PROVE  \/ /\ th'[t].seen = pending[th[t].dom] /\ th'[t].pc \in {"getPending", "getRecord"}
            /\ th'[t].pc = "getRecord" => db[Node(t)][th[t].dom] # None
         \/ /\ th'[t].seen = th[t].seen
            /\ th[t].pc \notin LookPcs \/ th'[t].pc \in LookPcs \/ th[t].pc = "getRecord"
            /\ th[t].pc = "getRecord" /\ th'[t].pc \notin LookPcs => record[th[t].dom] = None
            /\ th'[t].pc = "getRecord" => th[t].pc = "getPending" /\ pending[th[t].dom] = None
<1>1. /\ ThreadsOK /\ th[t] \in ThreadState /\ ThreadOK(t, th[t])
      /\ th[t].op \in {"register", "add", "undo"}
      /\ th[t].op = "register" =>
           th[t].pc \in GetPcs \cup {"validate", "lock", "lockPut", "done", "refused", "dead"}
      /\ th[t].op = "add" => th[t].pc \in LockPcs \cup UnlockPcs \cup {"savePending"}
      /\ th[t].op = "undo" => th[t].pc \in ReleasePcs
  BY ThreadFacts DEF ThreadOK, Control
<1>2. ASSUME NEW s, Become(t, s)
      PROVE  th'[t] = s
  BY <1>1, <1>2, Moved
<1>3. \A p \in Pcs : [Idle(t) EXCEPT !.pc = p].seen = None
  BY DEF Idle
<1>4. ASSUME NEW r, Become(t, AfterGet(t, r)), th[t].op = "register"
      PROVE  /\ th'[t].seen = th[t].seen
             /\ th'[t].pc = IF r = None THEN "validate" ELSE "refused"
  <2>1. th'[t] = AfterGet(t, r)
    BY <1>2, <1>4
  <2>2. QED BY <1>1, <1>4, <2>1 DEF AfterGet, ThreadState
<1>5. CASE th[t].op = "register" /\ th[t].pc \in GetPcs
  <2>1. CASE GetLocal(t)
    <3>1. CASE Become(t, AfterGet(t, db[Node(t)][th[t].dom])) /\ IsConfirmed(db[Node(t)][th[t].dom])
      BY <1>4, <1>5, <3>1 DEF IsConfirmed, LookPcs
    <3>2. CASE Become(t, [th[t] EXCEPT
                 !.pc = IF db[Node(t)][th[t].dom] = None THEN "getPending" ELSE "getRecord",
                 !.seen = IF th[t].op = "register" THEN pending[th[t].dom] ELSE None])
      <4>1. th'[t] = [th[t] EXCEPT
                 !.pc = IF db[Node(t)][th[t].dom] = None THEN "getPending" ELSE "getRecord",
                 !.seen = IF th[t].op = "register" THEN pending[th[t].dom] ELSE None]
        BY <1>2, <3>2
      <4>2. QED BY <1>1, <1>5, <4>1 DEF ThreadState
    <3>3. QED BY <2>1, <3>1, <3>2 DEF GetLocal
  <2>2. CASE GetPendingRecord(t)
    <3>1. \/ pending[th[t].dom] # None /\ Become(t, AfterGet(t, pending[th[t].dom]))
          \/ pending[th[t].dom] = None /\ Become(t, [th[t] EXCEPT !.pc = "getRecord"])
      BY <2>2, NothingFails DEF GetPendingRecord, Goto
    <3>2. CASE pending[th[t].dom] # None /\ Become(t, AfterGet(t, pending[th[t].dom]))
      BY <1>4, <1>5, <3>2 DEF LookPcs
    <3>3. CASE pending[th[t].dom] = None /\ Become(t, [th[t] EXCEPT !.pc = "getRecord"])
      <4>1. th'[t] = [th[t] EXCEPT !.pc = "getRecord"] /\ th[t].pc = "getPending"
        BY <1>2, <2>2, <3>3 DEF GetPendingRecord, At
      <4>2. QED BY <1>1, <3>3, <4>1 DEF ThreadState, LookPcs
    <3>4. QED BY <3>1, <3>2, <3>3
  <2>3. CASE GetLatestRecord(t)
    <3>1. /\ th[t].pc = "getRecord"
          /\ \/ \E r : Become(t, [th[t] EXCEPT !.pc = "saveRecord", !.rec = r])
             \/ record[th[t].dom] = None /\ Become(t, AfterGet(t, None))
      <4>1. GetValue(record[th[t].dom]) = {record[th[t].dom]}
        BY NothingFails
      <4>2. QED BY <2>3, <4>1 DEF GetLatestRecord, At
    <3>2. CASE \E r : Become(t, [th[t] EXCEPT !.pc = "saveRecord", !.rec = r])
      <4>1. PICK r : th'[t] = [th[t] EXCEPT !.pc = "saveRecord", !.rec = r]
        BY <1>2, <3>2
      <4>2. th'[t].seen = th[t].seen /\ th'[t].pc = "saveRecord"
        BY <1>1, <4>1 DEF ThreadState
      <4>3. QED BY <4>2 DEF LookPcs, SavePcs
    <3>3. CASE record[th[t].dom] = None /\ Become(t, AfterGet(t, None))
      BY <1>4, <1>5, <3>1, <3>3
    <3>4. QED BY <3>1, <3>2, <3>3
  <2>4. CASE SaveRecordDHT(t) \/ SaveRecordLocal(t) \/ SaveNamehash(t) \/ SaveNamehashLocal(t)
    <3>1. \/ \E p \in {"saveLocal", "saveName", "saveNameLocal"} : Become(t, [th[t] EXCEPT !.pc = p])
          \/ Become(t, AfterGet(t, th[t].rec))
      BY <1>5, <2>4 DEF SaveRecordDHT, SaveRecordLocal, SaveNamehash, SaveNamehashLocal, Goto, AfterSave
    <3>2. th[t].pc \in SavePcs /\ th[t].rec # None
      BY <1>1, <2>4
         DEF SaveRecordDHT, SaveRecordLocal, SaveNamehash, SaveNamehashLocal, At, SavePcs,
            ThreadOK, HasRecord
    <3>3. CASE Become(t, AfterGet(t, th[t].rec))
      BY <1>4, <1>5, <3>2, <3>3 DEF LookPcs
    <3>4. CASE \E p \in {"saveLocal", "saveName", "saveNameLocal"} : Become(t, [th[t] EXCEPT !.pc = p])
      <4>1. PICK p \in {"saveLocal", "saveName", "saveNameLocal"} : th'[t] = [th[t] EXCEPT !.pc = p]
        BY <1>2, <3>4
      <4>2. th'[t].seen = th[t].seen /\ th'[t].pc \in {"saveLocal", "saveName", "saveNameLocal"}
        BY <1>1, <4>1 DEF ThreadState
      <4>3. QED BY <4>2 DEF LookPcs, SavePcs
    <3>5. QED BY <3>1, <3>3, <3>4
  <2>5. QED
    BY <1>5, <2>1, <2>2, <2>3, <2>4
       DEF Step, At, GetPcs, SavePcs, AddBinding, GetByNamehash, ValidateSignedTx, LockDomain,
       LockDomainPut, SavePending, FindPending, LockIndex, LockIndexPut, ReadIndex, WriteIndex,
       ClearPending, ReleaseDomain, ReleaseDomainPut, ReleaseIndex, ReleaseIndexPut, ReadVotes,
       PanicInVote, SaveVote, Publish, Tick, Examine, SubmitSignedTx, SaveResult
<1>6. CASE ~(th[t].op = "register" /\ th[t].pc \in GetPcs)
  <2>1. th[t].pc \notin LookPcs
    BY <1>1, <1>6, Active
       DEF LookPcs, GetPcs, SavePcs, LockPcs, UnlockPcs, ReleasePcs
  <2>2. th'[t].seen = th[t].seen /\ th'[t].pc # "getRecord"
    <3>1. ASSUME NEW p \in Pcs \ {"getRecord"}, Goto(t, p)
          PROVE  th'[t].seen = th[t].seen /\ th'[t].pc # "getRecord"
      <4>1. th'[t] = [th[t] EXCEPT !.pc = p]
        BY <1>2, <3>1 DEF Goto
      <4>2. QED BY <1>1, <4>1 DEF ThreadState
    <3>2. CASE ValidateSignedTx(t) \/ LockDomain(t) \/ LockDomainPut(t) \/ SavePending(t)
      <4>1. \/ \E p \in {"lock", "lockPut", "refused"} : Goto(t, p)
            \/ th'[t] = [th[t] EXCEPT !.pc = "indexLock", !.op = "add", !.rec = Pending(t[2])]
            \/ \E ok : th'[t] = [th[t] EXCEPT !.pc = "releaseIndex", !.ok = ok]
        BY <1>2, <3>2 DEF ValidateSignedTx, LockDomain, LockDomainPut, SavePending
      <4>2. CASE \E p \in {"lock", "lockPut", "refused"} : Goto(t, p)
        BY <3>1, <4>2 DEF Pcs
      <4>3. CASE th'[t] = [th[t] EXCEPT !.pc = "indexLock", !.op = "add", !.rec = Pending(t[2])]
        BY <1>1, <4>3 DEF ThreadState
      <4>4. CASE \E ok : th'[t] = [th[t] EXCEPT !.pc = "releaseIndex", !.ok = ok]
        BY <1>1, <4>4 DEF ThreadState
      <4>5. QED BY <4>1, <4>2, <4>3, <4>4
    <3>3. CASE LockIndex(t) \/ LockIndexPut(t)
      <4>1. th[t].op = "add"
        BY <1>1, <3>3 DEF LockIndex, LockIndexPut, At, GetPcs, SavePcs, ReleasePcs
      <4>2. Abandon(t) = [th[t] EXCEPT !.pc = "releaseDomain", !.op = "undo"]
        BY <4>1 DEF Abandon
      <4>3. \/ Goto(t, "indexPut")
            \/ th'[t] = [th[t] EXCEPT !.pc = "indexRead", !.tries = 0]
            \/ th'[t] = [th[t] EXCEPT !.pc = "indexLock", !.tries = @ + 1]
            \/ th'[t] = [[th[t] EXCEPT !.pc = "releaseDomain", !.op = "undo"] EXCEPT !.tries = 0]
        BY <1>2, <3>3, <4>2 DEF LockIndex, LockIndexPut, AttemptFailed
      <4>4. CASE Goto(t, "indexPut")
        BY <3>1, <4>4 DEF Pcs, LockPcs
      <4>5. QED BY <1>1, <4>3, <4>4 DEF ThreadState
    <3>4. CASE ReadIndex(t) \/ WriteIndex(t)
      <4>1. th[t].op = "add"
        BY <1>1, <3>4 DEF ReadIndex, WriteIndex, At, GetPcs, SavePcs, ReleasePcs
      <4>2. \/ \E i : th'[t] = [th[t] EXCEPT !.pc = "indexWrite", !.idx = i]
            \/ th'[t] = [th[t] EXCEPT !.pc = "savePending", !.idx = {}]
            \/ \E p \in {"savePending", "releaseIndex"} : \E ok, r :
                 th'[t] = [th[t] EXCEPT !.pc = p, !.idx = {}, !.ok = ok, !.rec = r]
        <5>1. CASE ReadIndex(t)
          BY <1>2, <5>1 DEF ReadIndex
        <5>2. CASE WriteIndex(t)
          <6>1. \/ Become(t, [th[t] EXCEPT !.pc = "savePending", !.idx = {}])
                \/ \E ok, r : Become(t, [th[t] EXCEPT !.pc = IF ok THEN "savePending" ELSE "releaseIndex",
                                        !.idx = {}, !.ok = ok, !.rec = r])
            BY <4>1, <5>2 DEF WriteIndex
          <6>2. QED BY <1>2, <6>1
        <5>3. QED BY <3>4, <5>1, <5>2
      <4>3. CASE \E i : th'[t] = [th[t] EXCEPT !.pc = "indexWrite", !.idx = i]
        BY <1>1, <4>3 DEF ThreadState
      <4>4. CASE th'[t] = [th[t] EXCEPT !.pc = "savePending", !.idx = {}]
        BY <1>1, <4>4 DEF ThreadState
      <4>5. CASE \E p \in {"savePending", "releaseIndex"} : \E ok, r :
                   th'[t] = [th[t] EXCEPT !.pc = p, !.idx = {}, !.ok = ok, !.rec = r]
        BY <1>1, <4>5 DEF ThreadState
      <4>6. QED BY <4>2, <4>3, <4>4, <4>5
    <3>5. CASE ReleaseDomain(t) \/ ReleaseDomainPut(t)
      <4>1. th[t].op = "undo"
        BY <1>1, <3>5
           DEF ReleaseDomain, ReleaseDomainPut, At, GetPcs, SavePcs, LockPcs, UnlockPcs
      <4>2. Goto(t, "domainClear") \/ th'[t] = [Idle(t) EXCEPT !.pc = "refused"]
        BY <1>2, <3>5, <4>1 DEF ReleaseDomain, ReleaseDomainPut, AfterReleaseDomain
      <4>3. CASE Goto(t, "domainClear")
        BY <3>1, <4>3 DEF Pcs, ReleasePcs
      <4>4. QED BY <1>3, <4>2, <4>3 DEF Pcs
    <3>6. CASE ReleaseIndex(t) \/ ReleaseIndexPut(t)
      <4>1. th[t].op = "add"
        BY <1>1, <3>6 DEF ReleaseIndex, ReleaseIndexPut, At, GetPcs, SavePcs, ReleasePcs
      <4>2. Abandon(t) = [th[t] EXCEPT !.pc = "releaseDomain", !.op = "undo"]
        BY <4>1 DEF Abandon
      <4>3. \/ Goto(t, "indexClear")
            \/ th'[t] = [th[t] EXCEPT !.pc = "releaseDomain", !.op = "undo"]
            \/ th'[t] = [Idle(t) EXCEPT !.pc = "done", !.seen = th[t].seen]
        BY <1>2, <3>6, <4>2 DEF ReleaseIndex, ReleaseIndexPut, AfterReleaseIndex
      <4>4. CASE Goto(t, "indexClear")
        BY <3>1, <4>4 DEF Pcs, UnlockPcs
      <4>5. CASE th'[t] = [th[t] EXCEPT !.pc = "releaseDomain", !.op = "undo"]
        BY <1>1, <4>5 DEF ThreadState
      <4>6. CASE th'[t] = [Idle(t) EXCEPT !.pc = "done", !.seen = th[t].seen]
        BY <4>6 DEF Idle
      <4>7. QED BY <4>3, <4>4, <4>5, <4>6
    <3>7. QED
      BY <1>1, <1>6, <3>2, <3>3, <3>4, <3>5, <3>6, Active
         DEF Step, At, GetPcs, SavePcs, LockPcs, UnlockPcs, ReleasePcs, AddBinding, GetByNamehash,
         GetLocal, GetPendingRecord, GetLatestRecord, SaveRecordDHT, SaveRecordLocal,
         SaveNamehash, SaveNamehashLocal, FindPending, ClearPending, ReadVotes, PanicInVote,
         SaveVote, Publish, Tick, Examine, SubmitSignedTx, SaveResult
  <2>3. QED BY <2>1, <2>2 DEF LookPcs
<1>7. QED BY <1>5, <1>6

\* What was pending and is not will not be pending again, nor be confirmed.
LEMMA PastStays ==
  ASSUME TypeOK, StartedByAdd, Undisturbed, OwnRecord, OneConfirmation, SavedIsRecord, RecordsAdded,
         DecisionHeld, NEW t \in Threads, Step(t), NEW d \in Domains, NEW r \in Added,
         pending[d] # Pending(r)
  PROVE  /\ pending'[d] # Pending(r)
         /\ record[d] # Confirmed(r) => record'[d] # Confirmed(r)
<1>1. r \in Requests /\ Pending(r) # None /\ Pending(r).req = r /\ Confirmed(r).req = r
  <2>1. r \in Requests
    BY DEF Added
  <2>2. Pending(r) \in Records /\ Pending(r).req = r /\ Confirmed(r).req = r
    BY <2>1 DEF Pending, Confirmed, Records
  <2>3. QED BY <2>1, <2>2, RegistrationAssumption
<1>2. pending'[d] # Pending(r)
  <2>1. CASE SavePending(t) /\ th[t].op = "add" /\ pending'[d] = Pending(t[2])
    <3>1. t[1] = "register" /\ t = <<t[1], t[2]>> /\ th[t].pc = "savePending"
      BY <2>1, ThreadKinds, ThreadFacts DEF SavePending, At, ThreadOK, Control
    <3>2. t[2] # r
      BY <3>1 DEF Added, UnlockPcs
    <3>3. QED BY <2>1, <3>2 DEF Pending
  <2>2. CASE ClearPending(t) /\ th[t].dom = d
    <3>1. pending \in [Domains -> RecordOrNone]
      BY DEF TypeOK
    <3>2. PICK p \in PutValue(pending[d], None) : pending' = [pending EXCEPT ![d] = p.value]
      BY <2>2 DEF ClearPending
    <3>3. p.value = None
      BY NothingFails
    <3>4. QED BY <1>1, <3>1, <3>2, <3>3
  <2>3. QED BY <2>1, <2>2, PendingStep
<1>3. ASSUME record[d] # Confirmed(r), record'[d] = Confirmed(r)
      PROVE  FALSE
  <2>1. /\ SaveRecordDHT(t) /\ Confirming(t, d) /\ th[t].rec = Confirmed(r)
    BY <1>3, RecordChange, NothingLapses
  <2>2. th[t].pc = "saveRecord" /\ th[t].dom = d /\ Decides(t)
    BY <2>1 DEF SaveRecordDHT, At, Confirming, Decides, SavePcs
  <2>3. pending[d] # None /\ pending[d].req = r
    BY <1>1, <2>1, <2>2 DEF DecisionHeld, DecidedHeld
  <2>4. pending[d] \in Records /\ pending[d].status # "confirmed"
    BY <2>3 DEF OwnRecord, IsConfirmed, TypeOK, RecordOrNone
  <2>5. pending[d] = Pending(r)
    BY <2>3, <2>4 DEF Records, Pending
  <2>6. QED BY <2>5
<1>4. QED BY <1>2, <1>3

LEMMA LookupStep ==
  ASSUME TypeOK, StartedByAdd, Undisturbed, OwnRecord, OneConfirmation, SavedIsRecord, RecordsAdded,
         DecisionHeld, LookupFits, NEW t \in Threads, Step(t), ~PanicInVote(t)
  PROVE  LookupFits'
<1> SUFFICES ASSUME NEW r \in Requests, th'[<<"register", r>>].seen # None
             PROVE  LET s == th'[<<"register", r>>]
                        d == DomainOf[r]
                    IN /\ s.seen = Pending(s.seen.req) /\ s.seen.req \in Added'
                       /\ s.pc = "getRecord" => record'[d] # None \/ pending'[d] # s.seen
                       /\ s.pc \notin LookPcs => pending'[d] # s.seen /\ record'[d] # Confirmed(s.seen.req)
  BY DEF LookupFits
<1> DEFINE u == <<"register", r>>
           d == DomainOf[r]
           q == th'[u].seen
<1>1. u \in Threads /\ u[1] = "register" /\ u[2] = r /\ d \in Domains
  BY RegisterThread, ThreadKinds
<1>2. ASSUME q = Pending(q.req), q.req \in Added
      PROVE  /\ q.req \in Added'
             /\ pending[d] # q => pending'[d] # q
             /\ pending[d] # q /\ record[d] # Confirmed(q.req) => record'[d] # Confirmed(q.req)
  <2>1. q.req \in Requests
    BY <1>2 DEF Added
  <2>2. q.req \in Added'
    BY <1>2, <2>1, AddedStays
  <2>3. pending[d] # Pending(q.req) =>
          /\ pending'[d] # Pending(q.req)
          /\ record[d] # Confirmed(q.req) => record'[d] # Confirmed(q.req)
    BY <1>1, <1>2, PastStays
  <2>4. QED BY <1>2, <2>2, <2>3
<1>3. record[d] # None => record'[d] # None
  BY <1>1, RecordsStay
<1>4. CASE u # t
  <2>1. th'[u] = th[u]
    BY <1>1, <1>4, OtherThreads
  <2>2. /\ q = Pending(q.req) /\ q.req \in Added
        /\ th[u].pc = "getRecord" => record[d] # None \/ pending[d] # q
        /\ th[u].pc \notin LookPcs => pending[d] # q /\ record[d] # Confirmed(q.req)
    BY <2>1 DEF LookupFits
  <2>3. QED BY <1>2, <1>3, <2>1, <2>2
<1>5. CASE u = t
  <2>1. th[t].dom = d
    BY <1>1, <1>5, ThreadFacts DEF ThreadOK
  <2>2. CASE /\ q = pending[d] /\ th'[t].pc \in {"getPending", "getRecord"}
             /\ th'[t].pc = "getRecord" => db[Node(t)][d] # None
    <3>1. q \in Records /\ q.status # "confirmed" /\ q.req \in Added
      BY <1>1, <2>2 DEF TypeOK, RecordOrNone, OwnRecord, IsConfirmed, RecordsAdded
    <3>2. q = Pending(q.req)
      BY <3>1 DEF Records, Pending
    <3>3. db[Node(t)][d] \in {None, record[d]}
      BY <1>1, ThreadKinds, NothingLapses DEF SavedIsRecord
    <3>4. QED BY <1>2, <1>3, <1>5, <2>2, <3>1, <3>2, <3>3 DEF LookPcs
  <2>3. CASE /\ q = th[t].seen
             /\ th[t].pc \notin LookPcs \/ th'[t].pc \in LookPcs \/ th[t].pc = "getRecord"
             /\ th[t].pc = "getRecord" /\ th'[t].pc \notin LookPcs => record[d] = None
             /\ th'[t].pc = "getRecord" => th[t].pc = "getPending" /\ pending[d] = None
    <3>1. /\ q = Pending(q.req) /\ q.req \in Added
          /\ th[t].pc = "getRecord" => record[d] # None \/ pending[d] # q
          /\ th[t].pc \notin LookPcs => pending[d] # q /\ record[d] # Confirmed(q.req)
      BY <1>5, <2>3 DEF LookupFits
    <3>2. Confirmed(q.req) # None
      <4>1. Confirmed(q.req) \in Records
        BY <3>1 DEF Confirmed, Added, Records
      <4>2. QED BY <4>1, RegistrationAssumption
    <3>3. th'[t].pc = "getRecord" => pending'[d] # q
      BY <1>2, <2>3, <3>1
    <3>4. th'[t].pc \notin LookPcs => pending[d] # q /\ record[d] # Confirmed(q.req)
      BY <2>3, <3>1, <3>2
    <3>5. QED BY <1>2, <1>5, <3>1, <3>3, <3>4
  <2>4. QED BY <1>1, <1>5, <2>1, <2>2, <2>3, LookupMoves
<1>6. QED BY <1>4, <1>5

LEMMA LookupStop ==
  ASSUME TypeOK, StartedByAdd, RecordsAdded, LookupFits, NEW n \in Nodes, Stop(n)
  PROVE  LookupFits'
<1> SUFFICES ASSUME NEW r \in Requests, th'[<<"register", r>>].seen # None
             PROVE  LET s == th'[<<"register", r>>]
                        d == DomainOf[r]
                    IN /\ s.seen = Pending(s.seen.req) /\ s.seen.req \in Added'
                       /\ s.pc = "getRecord" => record'[d] # None \/ pending'[d] # s.seen
                       /\ s.pc \notin LookPcs => pending'[d] # s.seen /\ record'[d] # Confirmed(s.seen.req)
  BY DEF LookupFits
<1> DEFINE u == <<"register", r>>
<1>1. u \in Threads /\ u[1] = "register"
  BY RegisterThread
<1>2. th'[u] = th[u]
  <2>1. [Idle(u) EXCEPT !.pc = "dead"].seen = None
    BY DEF Idle
  <2>2. th'[u] \in {th[u], [Idle(u) EXCEPT !.pc = "dead"]}
    BY <1>1 DEF Stop
  <2>3. QED BY <2>1, <2>2
<1>3. UNCHANGED <<pending, record>>
  BY DEF Stop, dhtVars
<1>4. ASSUME NEW a \in Added
      PROVE  a \in Added'
  <2>1. a \in Requests /\ <<"register", a>> \in Threads
    BY RegisterThread DEF Added
  <2>2. th'[<<"register", a>>] = th[<<"register", a>>] \/ th'[<<"register", a>>].pc = "dead"
    BY <2>1, StoppedThreads
  <2>3. QED BY <1>4, <2>2 DEF Added
<1>5. QED BY <1>2, <1>3, <1>4 DEF LookupFits

\* On one node where nothing fails and no binding lapses, a look-up never misses a
\* record: what was pending
\* when Get began and is found neither pending nor confirmed has been rejected or
\* replaced, and is not confirmed later.
THEOREM LooksUpAll ==
  ASSUME OneNode, Undisturbed
  PROVE  Spec => []NoLookupGap
<1>1. Init => Inv /\ LookupFits
  <2>1. ASSUME Init, NEW r \in Requests
        PROVE  th[<<"register", r>>].seen = None
    BY <2>1, RegisterThread DEF Init, Idle
  <2>2. QED BY <2>1, DecisionInit DEF LookupFits
<1>2. Inv /\ LookupFits /\ [Next]_vars => (Inv /\ LookupFits)'
  <2> SUFFICES ASSUME Inv, LookupFits, [Next]_vars PROVE LookupFits'
    BY InvKept
  <2>1. /\ TypeOK /\ StartedByAdd /\ OwnRecord /\ OneConfirmation /\ SavedIsRecord /\ RecordsAdded
        /\ DecisionHeld
    BY DEF Inv, ConfirmInvariant, DecisionInvariant
  <2>2. CASE \E t \in Threads : Runs(t)
    <3>1. PICK t \in Threads : Step(t)
      BY <2>2 DEF Runs
    <3>2. CASE PanicInVote(t)
      BY <2>1, <3>2, ThreadKinds, LookupStop DEF PanicInVote
    <3>3. CASE ~PanicInVote(t)
      BY <2>1, <3>1, <3>3, LookupStep
    <3>4. QED BY <3>2, <3>3
  <2>3. CASE \E n \in Nodes : Crash(n)
    BY <2>1, <2>3, LookupStop DEF Crash
  <2>4. CASE (\E n \in Nodes : Restart(n)) \/ UNCHANGED vars
    <3>1. UNCHANGED <<th, pending, record>>
      BY <2>4 DEF Restart, vars, dhtVars
    <3>2. Added' = Added
      BY <3>1 DEF Added
    <3>3. QED BY <3>1, <3>2 DEF LookupFits
  <2>5. ~\E r \in Requests : Mine(r) \/ Lapse(r)
    BY <2>1, NothingLapses
  <2>6. QED BY <2>2, <2>3, <2>4, <2>5 DEF Next
<1>3. Inv /\ LookupFits => NoLookupGap
  <2> SUFFICES ASSUME Inv, LookupFits, NEW r \in Requests,
                      th[<<"register", r>>].seen # None,
                      th[<<"register", r>>].pc \notin (GetPcs \ {"get"}) \cup {"refused"}
               PROVE  record[th[<<"register", r>>].dom] # Confirmed(th[<<"register", r>>].seen.req)
    BY DEF NoLookupGap
  <2>1. <<"register", r>> \in Threads /\ th[<<"register", r>>].dom = DomainOf[r]
    BY RegisterThread, ThreadFacts DEF Inv, ConfirmInvariant, ThreadOK
  <2>2. QED BY <2>1 DEF LookupFits, LookPcs, GetPcs, SavePcs
<1>4. QED BY <1>1, <1>2, <1>3, PTL DEF Spec

-----------------------------------------------------------------------------
(* First come, first served *)

\* The chain has executed one request for a domain at most.
OneExecution == \A r, s \in mined : DomainOf[r] = DomainOf[s] => r = s

LEMMA TheOnly ==
  ASSUME NEW M, NEW d, NEW r \in M, DomainOf[r] = d, \A s \in M : DomainOf[s] = d => s = r
  PROVE  (CHOOSE s \in M : DomainOf[s] = d) = r
<1>1. \E s \in M : DomainOf[s] = d
  OBVIOUS
<1>2. QED BY <1>1

LEMMA ExecutedIs ==
  ASSUME OneExecution, lapsed = {}, NEW r \in mined
  PROVE  ExecutedFor(DomainOf[r]) = r
<1>1. BoundOnChain(DomainOf[r])
  BY DEF BoundOnChain
<1>2. (CHOOSE s \in mined : DomainOf[s] = DomainOf[r]) = r
  BY TheOnly DEF OneExecution
<1>3. QED BY <1>1, <1>2 DEF ExecutedFor

LEMMA ExecutedIsNext ==
  ASSUME OneExecution', lapsed' = {}, NEW r \in mined'
  PROVE  ExecutedFor(DomainOf[r])' = r
<1>1. BoundOnChain(DomainOf[r])'
  BY DEF BoundOnChain
<1>2. (CHOOSE s \in mined' : DomainOf[s] = DomainOf[r]) = r
  BY TheOnly DEF OneExecution
<1>3. QED BY <1>1, <1>2 DEF ExecutedFor

\* What is submitted for a domain that is free is the pending request, and the chain
\* takes it.
LEMMA Submits ==
  ASSUME TypeOK, Undisturbed, RecordsFit, OneRequest, NEW t \in Threads, SubmitSignedTx(t),
         mined' # mined
  PROVE  /\ th[t].dom \in Domains /\ ~BoundOnChain(th[t].dom) /\ pending[th[t].dom] # None
         /\ pending[th[t].dom].req \in Requests /\ DomainOf[pending[th[t].dom].req] = th[t].dom
         /\ mined' = mined \cup {pending[th[t].dom].req}
<1>1. th[t].op = "decide" /\ th[t].pc = "submit"
  BY DecideMoves DEF SubmitSignedTx, At
<1>2. /\ ThreadOK(t, th[t]) /\ th[t].dom \in Domains /\ pending[th[t].dom] \in RecordOrNone
      /\ th[t].rec # None
  BY <1>1, ThreadFacts DEF ThreadOK, HasRecord
<1>3. ~BoundOnChain(th[t].dom) /\ mined' = mined \cup {th[t].rec.req}
  BY Executes
<1>4. th[t].rec = pending[th[t].dom]
  BY <1>1, <1>2, <1>3 DEF OneRequest, BeforeBoundThread
<1>5. DomainOf[th[t].rec.req] = th[t].dom
  BY <1>1, <1>2 DEF RecordsFit, Of
<1>6. QED BY <1>2, <1>3, <1>4, <1>5 DEF RecordOrNone, Records

LEMMA OneExecutionStep ==
  ASSUME TypeOK, Undisturbed, RecordsFit, OneRequest, OneExecution, NEW t \in Threads, Step(t)
  PROVE  OneExecution'
<1>1. CASE mined' = mined
  BY <1>1 DEF OneExecution
<1>2. CASE SubmitSignedTx(t) /\ mined' # mined
  BY <1>2, Submits, NothingLapses DEF OneExecution
<1>3. QED BY <1>1, <1>2, ChainFrame

\* The state of the names, as AbstractRegistration has it.
FirstMap == [d \in Domains |-> FirstFor(d)]
ExecutedMap == [d \in Domains |-> ExecutedFor(d)]
ConfirmedMap == [d \in Domains |-> RequestOf(record[d])]

\* SubmitSignedTx is what executes a request.
LEMMA ExecuteStep ==
  ASSUME TypeOK, Undisturbed, RecordsFit, OneRequest, OneExecution, OneExecution',
         NEW t \in Threads, SubmitSignedTx(t), mined' # mined
  PROVE  \E d \in Domains : Names!Execute(d)
<1> lapsed = {} /\ lapsed' = {}
  BY NothingLapses DEF SubmitSignedTx
<1>1. PICK d \in Domains, r \in Requests :
        /\ ~BoundOnChain(d) /\ pending[d] # None /\ pending[d].req = r
        /\ DomainOf[r] = d /\ mined' = mined \cup {r}
  BY Submits
<1>2. UNCHANGED <<pending, record>> /\ r # None
  BY <1>1, RegistrationAssumption DEF SubmitSignedTx, dhtVars
<1>3. FirstFor(d) = r /\ ExecutedFor(d) = None
  BY <1>1 DEF FirstFor, ExecutedFor, RequestOf
<1>4. ExecutedFor(d)' = r
  BY <1>1, ExecutedIsNext
<1>5. FirstFor(d)' = r
  <2>1. BoundOnChain(d)'
    BY <1>1 DEF BoundOnChain
  <2>2. QED BY <1>4, <2>1 DEF FirstFor
<1>6. ASSUME NEW e \in Domains, e # d
      PROVE  ExecutedFor(e)' = ExecutedFor(e) /\ FirstFor(e)' = FirstFor(e)
  <2>1. BoundOnChain(e)' <=> BoundOnChain(e)
    BY <1>1, <1>6 DEF BoundOnChain
  <2>2. CASE BoundOnChain(e)
    <3>1. PICK s \in mined : DomainOf[s] = e
      BY <2>2 DEF BoundOnChain
    <3>2. ExecutedFor(e) = s /\ ExecutedFor(e)' = s
      BY <1>1, <3>1, ExecutedIs, ExecutedIsNext
    <3>3. QED BY <2>1, <2>2, <3>2 DEF FirstFor
  <2>3. CASE ~BoundOnChain(e)
    BY <1>2, <2>1, <2>3 DEF FirstFor, ExecutedFor, RequestOf
  <2>4. QED BY <2>2, <2>3
<1>7. FirstMap' = FirstMap
  BY <1>3, <1>5, <1>6 DEF FirstMap
<1>8. ExecutedMap' = [ExecutedMap EXCEPT ![d] = FirstMap[d]]
  BY <1>1, <1>3, <1>4, <1>6 DEF FirstMap, ExecutedMap
<1>9. ConfirmedMap' = ConfirmedMap
  BY <1>2 DEF ConfirmedMap, RequestOf
<1>10. FirstMap[d] # None /\ ExecutedMap[d] = None
  BY <1>1, <1>2, <1>3 DEF FirstMap, ExecutedMap
<1>11. QED BY <1>1, <1>7, <1>8, <1>9, <1>10
           DEF Names!Execute, FirstMap, ExecutedMap, ConfirmedMap

\* As long as nothing is executed, only a domain that nobody has come for changes its
\* first request, when Add saves the pending record.
LEMMA EnterStep ==
  ASSUME TypeOK, StartedByAdd, Undisturbed, OwnRecord, RecordsAdded, DomainLocked, OneRequest,
         NEW t \in Threads, Step(t), ~PanicInVote(t), UNCHANGED <<mined, lapsed, record>>
  PROVE  (\E r \in Requests : Names!Enter(r)) \/ UNCHANGED <<FirstMap, ExecutedMap, ConfirmedMap>>
<1>1. UNCHANGED <<ExecutedMap, ConfirmedMap>>
  BY DEF ExecutedMap, ExecutedFor, BoundOnChain, ConfirmedMap, RequestOf
<1>2. ASSUME NEW d \in Domains
      PROVE  \/ FirstFor(d)' = FirstFor(d)
             \/ /\ SavePending(t) /\ th[t].op = "add" /\ th[t].dom = d /\ FirstFor(d) = None
                /\ FirstFor(d)' = t[2]
  <2>1. BoundOnChain(d)' <=> BoundOnChain(d)
    BY DEF BoundOnChain
  <2>2. CASE BoundOnChain(d)
    BY <2>1, <2>2 DEF FirstFor, ExecutedFor
  <2>3. CASE pending'[d] = pending[d]
    BY <2>1, <2>3 DEF FirstFor, ExecutedFor, RequestOf
  <2>4. CASE ~BoundOnChain(d) /\ pending[d] # None
    BY <2>3, <2>4, BeforeBoundStays
  <2>5. CASE ~BoundOnChain(d) /\ pending[d] = None
    <3>1. CASE /\ SavePending(t) /\ th[t].op = "add" /\ th[t].dom = d
               /\ pending'[d] = Pending(t[2])
      <4>1. t[2] \in Requests
        BY <3>1, ThreadFacts, ThreadKinds DEF ThreadOK, Control
      <4>2. pending'[d] # None /\ pending'[d].req = t[2]
        BY <3>1, <4>1, RegistrationAssumption DEF Pending, Records
      <4>3. QED BY <2>1, <2>5, <3>1, <4>2 DEF FirstFor, RequestOf
    <3>2. CASE ClearPending(t) /\ th[t].dom = d
      <4>1. PICK p \in PutValue(pending[d], None) : pending' = [pending EXCEPT ![d] = p.value]
        BY <3>2 DEF ClearPending
      <4>2. p.value = None
        BY NothingFails
      <4>3. pending'[d] = pending[d]
        BY <2>5, <4>1, <4>2 DEF TypeOK
      <4>4. QED BY <2>3, <4>3
    <3>3. QED BY <2>3, <3>1, <3>2, PendingStep
  <2>6. QED BY <2>2, <2>4, <2>5
<1>3. CASE \A d \in Domains : FirstFor(d)' = FirstFor(d)
  BY <1>1, <1>3 DEF FirstMap
<1>4. CASE \E d \in Domains : FirstFor(d)' # FirstFor(d)
  <2>1. PICK d \in Domains : FirstFor(d)' # FirstFor(d)
    BY <1>4
  <2>2. PICK r : r = t[2]
    OBVIOUS
  <2>3. th[t].op = "add" /\ th[t].dom = d /\ FirstFor(d) = None /\ FirstFor(d)' = r
    BY <1>2, <2>1, <2>2
  <2>4. r \in Requests /\ DomainOf[r] = d
    BY <2>2, <2>3, ThreadFacts, ThreadKinds DEF ThreadOK, Control
  <2>5. \A e \in Domains \ {d} : FirstFor(e)' = FirstFor(e)
    BY <1>2, <2>3
  <2>6. FirstMap[d] = None /\ FirstMap' = [FirstMap EXCEPT ![d] = r]
    BY <2>3, <2>5 DEF FirstMap
  <2>7. Names!Enter(r)
    BY <1>1, <2>4, <2>6 DEF Names!Enter, FirstMap, ExecutedMap, ConfirmedMap
  <2>8. QED BY <2>4, <2>7
<1>5. QED BY <1>3, <1>4

\* ConfirmRecord confirms what has been executed.
LEMMA ConfirmStep ==
  ASSUME TypeOK, Undisturbed, RecordsFit', OneConfirmation, SavedIsRecord, ConfirmedWasMined',
         OneExecution, NEW t \in Threads, Step(t), UNCHANGED <<mined, lapsed, pending>>
  PROVE  (\E d \in Domains : Names!Confirm(d)) \/ UNCHANGED <<FirstMap, ExecutedMap, ConfirmedMap>>
<1>1. UNCHANGED <<FirstMap, ExecutedMap>>
  BY DEF FirstMap, FirstFor, ExecutedMap, ExecutedFor, BoundOnChain, RequestOf
<1>2. CASE \A d \in Domains : record'[d] = record[d]
  BY <1>1, <1>2 DEF ConfirmedMap, RequestOf
<1>3. CASE \E d \in Domains : record'[d] # record[d]
  <2>1. PICK d \in Domains : record'[d] # record[d]
    BY <1>3
  <2>2. /\ th[t].dom = d /\ record[d] = None /\ record'[d] # None
        /\ \A e \in Domains \ {d} : record'[e] = record[e]
    BY <2>1, RecordChange, NothingLapses DEF Confirming, IsConfirmed
  <2>3. PICK r : r = record'[d].req
    OBVIOUS
  <2>4. r \in mined /\ DomainOf[r] = d
    BY <2>2, <2>3 DEF ConfirmedWasMined, RecordsFit, Of
  <2>5. ExecutedFor(d) = r /\ r # None
    BY <2>4, ExecutedIs, NothingLapses, RegistrationAssumption DEF TypeOK
  <2>6. ConfirmedMap[d] = None /\ ConfirmedMap' = [ConfirmedMap EXCEPT ![d] = r]
    BY <2>2, <2>3 DEF ConfirmedMap, RequestOf
  <2>7. ExecutedMap[d] = r
    BY <2>5 DEF ExecutedMap
  <2>8. Names!Confirm(d)
    BY <1>1, <2>5, <2>6, <2>7 DEF Names!Confirm, FirstMap, ExecutedMap, ConfirmedMap
  <2>9. QED BY <2>8
<1>4. QED BY <1>2, <1>3

LEMMA NamesStep ==
  ASSUME OneNode, Undisturbed, Inv, Inv', OneExecution, OneExecution',
         NEW t \in Threads, Step(t), ~PanicInVote(t)
  PROVE  [Names!Next]_<<FirstMap, ExecutedMap, ConfirmedMap>>
<1>1. /\ TypeOK /\ StartedByAdd /\ RecordsFit /\ OwnRecord /\ OneConfirmation /\ SavedIsRecord
      /\ RecordsAdded /\ DomainLocked /\ OneRequest
      /\ RecordsFit' /\ ConfirmedWasMined'
  BY DEF Inv, ConfirmInvariant, DecisionInvariant
<1>2. CASE SubmitSignedTx(t) /\ mined' # mined
  BY <1>1, <1>2, ExecuteStep DEF Names!Next
<1>3. CASE UNCHANGED <<mined, record>>
  BY <1>1, <1>3, MinedGrows, EnterStep DEF Names!Next
<1>4. CASE UNCHANGED <<mined, pending>>
  BY <1>1, <1>4, MinedGrows, ConfirmStep DEF Names!Next
<1>5. UNCHANGED <<mined, record>> \/ UNCHANGED <<mined, pending>> \/ mined' # mined
  BY DHTFrame DEF dhtVars
<1>6. QED BY <1>2, <1>3, <1>4, <1>5, ChainFrame

\* On one node where nothing fails and no binding lapses, a name goes to who comes
\* first: the request that is
\* the first to be pending is the one that decide submits and ConfirmRecord confirms,
\* although neither looks at who came first, the pending record may be cleared and
\* written again, and the node may crash between any two steps.
THEOREM FirstComeFirstServed ==
  ASSUME OneNode, Undisturbed
  PROVE  Spec => ImplementsNames
<1>1. Init => Inv /\ OneExecution
  BY DecisionInit DEF Init, OneExecution
<1>2. ASSUME Inv, OneExecution, [Next]_vars
      PROVE  /\ Inv' /\ OneExecution'
             /\ [Names!Next]_<<FirstMap, ExecutedMap, ConfirmedMap>>
  <2>1. Inv'
    BY <1>2, InvKept
  <2>2. TypeOK /\ RecordsFit /\ OneRequest
    BY <1>2 DEF Inv, ConfirmInvariant, DecisionInvariant
  <2>3. CASE UNCHANGED <<mined, lapsed, pending, record>>
    <3>1. UNCHANGED <<FirstMap, ExecutedMap, ConfirmedMap>>
      BY <2>3
         DEF FirstMap, FirstFor, ExecutedMap, ExecutedFor, ConfirmedMap, BoundOnChain, RequestOf
    <3>2. QED BY <1>2, <2>1, <2>3, <3>1 DEF OneExecution
  <2>4. CASE \E t \in Threads : Runs(t)
    <3>1. PICK t \in Threads : Step(t)
      BY <2>4 DEF Runs
    <3>2. CASE PanicInVote(t)
      <4>1. UNCHANGED <<mined, lapsed, pending, record>>
        BY <3>2 DEF PanicInVote, Stop, dhtVars, chainVars
      <4>2. QED BY <2>3, <4>1
    <3>3. CASE ~PanicInVote(t)
      BY <1>2, <2>1, <2>2, <3>1, <3>3, OneExecutionStep, NamesStep
    <3>4. QED BY <3>2, <3>3
  <2>5. CASE (\E n \in Nodes : Crash(n) \/ Restart(n)) \/ UNCHANGED vars
    <3>1. UNCHANGED <<mined, lapsed, pending, record>>
      BY <2>5 DEF Crash, Stop, Restart, vars, dhtVars, chainVars
    <3>2. QED BY <2>3, <3>1
  <2>6. ~\E r \in Requests : Mine(r) \/ Lapse(r)
    BY <2>2, NothingLapses
  <2>7. QED BY <1>2, <2>4, <2>5, <2>6 DEF Next
<1>3. Init => Names!Init
  BY DEF Init, Names!Init, FirstFor, ExecutedFor, BoundOnChain, RequestOf
<1>4. Inv /\ OneExecution /\ [Next]_vars =>
        /\ Inv' /\ OneExecution'
        /\ [Names!Next]_<<[d \in Domains |-> FirstFor(d)], [d \in Domains |-> ExecutedFor(d)],
                          [d \in Domains |-> RequestOf(record[d])]>>
  BY <1>2 DEF FirstMap, ExecutedMap, ConfirmedMap
<1>5. QED BY <1>1, <1>3, <1>4, PTL DEF Spec, ImplementsNames, Names!Spec
=============================================================================
