-------------------------- MODULE OwnershipProofs --------------------------
(***************************************************************************)
(* Who owns the lock of a domain, on one node where nothing fails, that    *)
(* does not crash and while no binding lapses on chain: from LockDomain    *)
(* until the lock is released there is always a call that is going to      *)
(* release it, or a pending record that carries it, although Add takes the *)
(* lock, the vote and the decision loop release it, and each of them may   *)
(* leave it to another.                                                    *)
(***************************************************************************)
EXTENDS DecisionProofs

NoCrashes == Crashes = {}

-----------------------------------------------------------------------------
(* The invariants *)

\* Add is at work on the request, or gives it up.
Adding(r) == th[<<"register", r>>].op \in {"add", "undo"}

\* The vote on the request has not been read, or has failed.
VoteOpen(r) == th[<<"vote", r>>].pc \in {"vote"} \cup ReleasePcs

\* ConfirmRecord or RejectRecord has emptied the pending key.
Cleared(t) == th[t].op \in {"confirm", "reject"} /\ th[t].pc \in ReleasePcs

Owned(r) ==
  \/ Adding(r)
  \/ VoteOpen(r) \/ th[<<"vote", r>>].pc = "voteSave"
  \/ pending[DomainOf[r]] = Pending(r)
  \/ \E t \in Threads : Cleared(t) /\ th[t].rec.req = r

\* The lock of a domain has an owner, a request for that domain.
LockOwned ==
  \A d \in Domains : lockCell[d] # None =>
    \E r \in Requests : lockCell[d] = r /\ DomainOf[r] = d /\ Owned(r)

\* RejectRecord may find that the record it has read has been replaced; the owner of
\* the new one then releases the lock itself, its vote being too late.
RejectFits ==
  \A t \in Threads, r \in Requests :
    /\ th[t].op = "reject" /\ th[t].pc \in LockPcs \cup {"clear"}
    /\ lockCell[th[t].dom] = r /\ r # th[t].rec.req
    => Adding(r) \/ VoteOpen(r)

\* A domain that is bound on the chain is decided, or about to be.
DecisionStored ==
  \A d \in Domains : BoundOnChain(d) =>
    \/ votes[d] # None /\ votes[d].consensus
    \/ \E t \in Threads : th[t].pc = "saveResult" /\ th[t].dom = d

\* The lock of the index is held by a function that is going to release it.
IndexTaken == lockCell[indexKey] # None => \E t \in Threads : InSection(t)

\* It takes a decision loop to submit a transaction.
MinedByLoop == mined # {} => Voters # {}

OwnerInvariant == LockOwned /\ RejectFits /\ DecisionStored /\ IndexTaken /\ MinedByLoop

-----------------------------------------------------------------------------
(* The operations on locks *)

\* With no other peer to count, selectDecisionMaker does not panic.
LEMMA NoPanic ==
  ASSUME OneNode, NEW t \in Threads
  PROVE  ~PanicInVote(t)
<1>1. OnlineNodes(Node(t)) = {{}}
  BY ThreadKinds DEF OneNode, OnlineNodes
<1>2. Cardinality({}) = 0
  BY FS_EmptySet
<1>3. QED BY <1>1, <1>2 DEF PanicInVote, MayPanic

\* ReleaseLock goes through when the lock is the caller's, and empties the cell.
LEMMA ReleasesLock ==
  ASSUME TypeOK, Undisturbed, NEW t \in Threads
  PROVE  /\ ReleaseDomain(t) /\ lockCell[th[t].dom] = th[t].rec.req =>
              GoesTo(t, "domainClear", th[t].op)
         /\ ReleaseDomainPut(t) => lockCell'[th[t].dom] = None
<1>1. ThreadsOK /\ th[t] \in ThreadState /\ ThreadOK(t, th[t])
  BY ThreadFacts
<1>2. CASE ReleaseDomain(t) /\ lockCell[th[t].dom] = th[t].rec.req
  <2>1. GetValue(lockCell[th[t].dom]) = {th[t].rec.req}
    BY <1>2, NothingFails
  <2>2. Goto(t, "domainClear")
    BY <1>2, <2>1 DEF ReleaseDomain, UnlockInvalid
  <2>3. th'[t] = [th[t] EXCEPT !.pc = "domainClear"]
    BY <1>1, <2>2, Moved DEF Goto
  <2>4. QED BY <1>1, <2>3, <1>2 DEF GoesTo, Keeps, ThreadState, ReleaseDomainPut, ReleaseDomain, At
<1>3. CASE ReleaseDomainPut(t)
  <2>1. th[t].pc = "domainClear"
    BY <1>3 DEF ReleaseDomainPut, At
  <2>2. th[t].dom \in Keys
    BY <1>1, <2>1, RegistrationAssumption
       DEF ThreadOK, Control, GetPcs, SavePcs, LockPcs, UnlockPcs, ReleasePcs
  <2>3. PICK p \in PutValue(lockCell[th[t].dom], None) :
          lockCell' = [lockCell EXCEPT ![th[t].dom] = p.value]
    BY <1>3 DEF ReleaseDomainPut, UnlockPut
  <2>4. p.value = None
    BY NothingFails
  <2>5. QED BY <2>1, <2>2, <2>3, <2>4 DEF TypeOK, ReleaseDomain, At
<1>4. QED BY <1>2, <1>3


-----------------------------------------------------------------------------
(* What a step does to an owner *)

\* A vote that is about to be saved is one on a domain that is not bound.
LEMMA VoteUnbound ==
  ASSUME TypeOK, DecisionHeld, ResultsFit, DecisionStored, NEW r \in Requests,
         th[<<"vote", r>>].pc = "voteSave"
  PROVE  ~BoundOnChain(DomainOf[r])
<1>1. /\ <<"vote", r>> \in Threads /\ DomainOf[r] \in Domains
      /\ th[<<"vote", r>>].dom = DomainOf[r]
  BY VoteThread, ThreadFacts, ThreadKinds DEF ThreadOK
<1>2. ~(votes[DomainOf[r]] # None /\ votes[DomainOf[r]].consensus)
  BY <1>1 DEF ResultsFit
<1>3. ASSUME NEW t \in Threads, th[t].pc = "saveResult", th[t].dom = DomainOf[r]
      PROVE  FALSE
  BY <1>3 DEF DecisionHeld, Decides, DecidedHeld
<1>4. QED BY <1>1, <1>2, <1>3 DEF DecisionStored

\* A thread that is at work is only changed by its own steps.
LEMMA StaysAtWork ==
  ASSUME TypeOK, StartedByAdd, NEW t \in Threads, Step(t), ~PanicInVote(t),
         NEW u \in Threads \ {t}, th[u].pc # "off"
  PROVE  th'[u] = th[u]
  BY OtherThreads

\* When Add returns its vote is open, if the node votes.
LEMMA VoteOpens ==
  ASSUME TypeOK, StartedByAdd, OneNode, NEW t \in Threads, Step(t), ~PanicInVote(t),
         th[t].op = "add", th'[t].op \notin {"add", "undo"}
  PROVE  /\ th[t].pc \in UnlockPcs /\ t = <<"register", t[2]>> /\ t[2] \in Requests
         /\ UNCHANGED <<dhtVars, mined>>
         /\ Voters # {} => VoteOpen(t[2])'
<1>1. /\ ThreadsOK /\ ThreadOK(t, th[t]) /\ t[1] = "register" /\ t = <<t[1], t[2]>>
      /\ t[2] \in Requests /\ NodeOf[t[2]] \in Nodes
      /\ th[t].pc \in LockPcs \cup UnlockPcs \cup {"savePending"}
  <2>1. ThreadsOK /\ ThreadOK(t, th[t])
    BY ThreadFacts
  <2>2. t[1] = "register" /\ th[t].pc \in LockPcs \cup UnlockPcs \cup {"savePending"}
    BY <2>1 DEF ThreadOK, Control
  <2>3. QED BY <2>1, <2>2, ThreadKinds, RegistrationAssumption
<1>2. ~(LockIndex(t) \/ LockIndexPut(t) \/ ReadIndex(t) \/ WriteIndex(t) \/ SavePending(t))
  BY IndexMoves, AddMoves DEF Abandons, GoesTo, IndexWritten, Keeps
<1>3. ReleaseIndex(t) \/ ReleaseIndexPut(t)
  BY <1>1, <1>2
     DEF Step, At, GetPcs, SavePcs, LockPcs, UnlockPcs, ReleasePcs, AddBinding, GetByNamehash,
     GetLocal, GetPendingRecord, GetLatestRecord, SaveRecordDHT, SaveRecordLocal, SaveNamehash,
     SaveNamehashLocal, ValidateSignedTx, LockDomain, LockDomainPut, FindPending, ClearPending,
     ReleaseDomain, ReleaseDomainPut, ReadVotes, PanicInVote, SaveVote, Publish, Tick, Examine,
     SubmitSignedTx, SaveResult
<1>4. th[t].pc \in UnlockPcs
  BY <1>3 DEF ReleaseIndex, ReleaseIndexPut, At, UnlockPcs
<1>5. UNCHANGED <<dhtVars, mined>>
  BY <1>3 DEF ReleaseIndex, ReleaseIndexPut, chainVars
<1>6. AfterReleaseIndex(t)
  <2>1. ~Goto(t, "indexClear")
    <3>1. ASSUME Goto(t, "indexClear")
          PROVE  th'[t].op = "add"
      <4>1. th'[t] = [th[t] EXCEPT !.pc = "indexClear"]
        BY <1>1, <3>1, Moved DEF Goto
      <4>2. QED BY <1>1, <4>1 DEF ThreadOK, ThreadState
    <3>2. QED BY <3>1
  <2>2. QED BY <1>3, <2>1 DEF ReleaseIndex, ReleaseIndexPut
<1>7. th[t].ok
  BY <1>6, GivesUp DEF AfterReleaseIndex, Abandons
<1>8. th' = [u \in Threads |->
               CASE u = t -> [Idle(t) EXCEPT !.pc = "done", !.seen = th[t].seen]
                 [] u # t /\ Started(t, u) -> [th[u] EXCEPT !.pc = u[1]]
                 [] OTHER -> th[u]]
  BY <1>6, <1>7 DEF AfterReleaseIndex
<1>9. ASSUME Voters # {}
      PROVE  th'[<<"vote", t[2]>>].pc = "vote"
  <2> DEFINE u == <<"vote", t[2]>>
  <2>1. NodeOf[t[2]] \in Voters
    BY <1>1, <1>9, RegistrationAssumption DEF OneNode
  <2>2. u \in Threads /\ u[1] = "vote" /\ u[2] = t[2] /\ u # t
    BY <1>1, VoteThread
  <2>3. Started(t, u)
    BY <2>1, <2>2 DEF Started
  <2>4. th'[u] = [th[u] EXCEPT !.pc = "vote"]
    BY <1>8, <2>2, <2>3
  <2>5. th[u] \in ThreadState
    BY <2>2, ThreadFacts
  <2>6. QED BY <2>4, <2>5 DEF ThreadState
<1>10. QED BY <1>1, <1>4, <1>5, <1>9 DEF VoteOpen


\* The one that is to release the lock does, or is about to.
LEMMA ReleasingStays ==
  ASSUME TypeOK, StartedByAdd, Undisturbed, NEW t \in Threads, Step(t), ~PanicInVote(t),
         NEW u \in Threads, th[u].pc \in ReleasePcs,
         lockCell[th[u].dom] = th[u].rec.req, lockCell'[th[u].dom] # None
  PROVE  th'[u].pc \in ReleasePcs /\ th'[u].op = th[u].op /\ th'[u].rec = th[u].rec
<1>1. CASE u # t
  <2>1. th'[u] = th[u]
    BY <1>1, StaysAtWork DEF ReleasePcs
  <2>2. QED BY <2>1
<1>2. CASE u = t
  <2>1. ReleaseDomain(t) \/ ReleaseDomainPut(t)
    BY <1>2
       DEF Step, At, ReleasePcs, AddBinding, GetByNamehash, GetLocal, GetPendingRecord,
       GetLatestRecord, SaveRecordDHT, SaveRecordLocal, SaveNamehash, SaveNamehashLocal,
       ValidateSignedTx, LockDomain, LockDomainPut, SavePending, FindPending, LockIndex,
       LockIndexPut, ReadIndex, WriteIndex, ClearPending, ReleaseIndex, ReleaseIndexPut,
       ReadVotes, PanicInVote, SaveVote, Publish, Tick, Examine, SubmitSignedTx, SaveResult
  <2>2. GoesTo(t, "domainClear", th[t].op)
    BY <1>2, <2>1, ReleasesLock
  <2>3. QED BY <1>2, <2>2 DEF GoesTo, Keeps, ReleasePcs
<1>3. QED BY <1>1, <1>2

\* Add holds on to the lock until it has given it up or its vote is open.
LEMMA AddingStays ==
  ASSUME TypeOK, StartedByAdd, OneNode, Undisturbed, OwnRecord, NEW t \in Threads, Step(t),
         ~PanicInVote(t), NEW r \in Requests, Adding(r),
         lockCell[DomainOf[r]] = r, lockCell'[DomainOf[r]] # None
  PROVE  \/ Adding(r)'
         \/ /\ th[<<"register", r>>].op = "add" /\ th[<<"register", r>>].pc \in UnlockPcs
            /\ UNCHANGED <<dhtVars, mined>>
            /\ Voters # {} => VoteOpen(r)'
<1> DEFINE u == <<"register", r>>
<1>1. /\ u \in Threads /\ u[1] = "register" /\ u[2] = r /\ ThreadOK(u, th[u])
      /\ th[u].dom = DomainOf[r]
  BY RegisterThread, ThreadFacts DEF ThreadOK
<1>2. CASE u # t
  <2>1. th[u].pc # "off"
    BY <1>1 DEF Adding, ThreadOK, Control, LockPcs, UnlockPcs, ReleasePcs
  <2>2. th'[u] = th[u]
    BY <1>1, <1>2, <2>1, StaysAtWork
  <2>3. QED BY <2>2 DEF Adding
<1>3. CASE u = t /\ th[u].op = "add"
  BY <1>1, <1>3, VoteOpens DEF Adding
<1>4. CASE u = t /\ th[u].op = "undo"
  <2>1. th[u].pc \in ReleasePcs
    BY <1>1, <1>4 DEF ThreadOK, Control
  <2>2. th[u].rec.req = r
    <3>1. th[u].rec = Pending(u[2])
      BY <1>1, <1>4 DEF OwnRecord
    <3>2. QED BY <1>1, <3>1 DEF Pending
  <2>3. th'[u].op = "undo"
    BY <1>1, <1>4, <2>1, <2>2, ReleasingStays
  <2>4. QED BY <2>3 DEF Adding
<1>5. QED BY <1>2, <1>3, <1>4 DEF Adding

LEMMA VoteStaysOpen ==
  ASSUME TypeOK, StartedByAdd, Undisturbed, VoteRecord, NEW t \in Threads, Step(t), ~PanicInVote(t),
         NEW r \in Requests, VoteOpen(r),
         lockCell[DomainOf[r]] = r, lockCell'[DomainOf[r]] # None
  PROVE  VoteOpen(r)' \/ th'[<<"vote", r>>].pc = "voteSave"
<1> DEFINE u == <<"vote", r>>
<1>1. /\ u \in Threads /\ u[1] = "vote" /\ u[2] = r /\ ThreadOK(u, th[u])
      /\ th[u].dom = DomainOf[r] /\ th[u].op = "vote"
  BY VoteThread, ThreadFacts DEF ThreadOK, Control
<1>2. CASE th[u].pc \in ReleasePcs
  <2>1. th[u].rec.req = r
    <3>1. th[u].rec = Pending(u[2])
      BY <1>1, <1>2 DEF VoteRecord
    <3>2. QED BY <1>1, <3>1 DEF Pending
  <2>2. th'[u].pc \in ReleasePcs
    BY <1>1, <1>2, <2>1, ReleasingStays
  <2>3. QED BY <2>2 DEF VoteOpen
<1>3. CASE th[u].pc = "vote" /\ u # t
  <2>1. th'[u] = th[u]
    BY <1>1, <1>3, StaysAtWork
  <2>2. QED BY <2>1 DEF VoteOpen
<1>4. CASE th[u].pc = "vote" /\ u = t
  <2>1. ReadVotes(t)
    BY <1>4
       DEF Step, At, AddBinding, GetByNamehash, GetLocal, GetPendingRecord, GetLatestRecord,
       SaveRecordDHT, SaveRecordLocal, SaveNamehash, SaveNamehashLocal, ValidateSignedTx,
       LockDomain, LockDomainPut, SavePending, FindPending, LockIndex, LockIndexPut, ReadIndex,
       WriteIndex, ClearPending, ReleaseDomain, ReleaseDomainPut, ReleaseIndex, ReleaseIndexPut,
       SaveVote, Publish, Tick, Examine, SubmitSignedTx, SaveResult
  <2>2. th'[u].pc \in {"voteSave", "releaseDomain"}
    BY <1>4, <2>1, VoteMoves DEF GoesTo, Takes
  <2>3. QED BY <2>2 DEF VoteOpen, ReleasePcs
<1>5. QED BY <1>2, <1>3, <1>4 DEF VoteOpen


-----------------------------------------------------------------------------
(* The steps keep the invariants *)

LEMMA MinedByLoopStep ==
  ASSUME TypeOK, MinedByLoop, NEW t \in Threads, Step(t)
  PROVE  MinedByLoop'
<1>1. CASE UNCHANGED mined
  BY <1>1 DEF MinedByLoop
<1>2. CASE SubmitSignedTx(t)
  <2>1. th[t].op = "decide"
    BY <1>2, DecideMoves
  <2>2. t[1] = "tick"
    BY <2>1, ThreadFacts DEF ThreadOK, Control
  <2>3. t \notin RequestThreads \X Requests /\ t \notin {"update"} \X Updates
    BY <2>2 DEF RequestThreads
  <2>4. Voters # {}
    BY <2>3 DEF Threads
  <2>5. QED BY <2>4 DEF MinedByLoop
<1>3. QED BY <1>1, <1>2, ChainFrame

LEMMA DecisionStoredStep ==
  ASSUME TypeOK, TypeOK', StartedByAdd, Undisturbed, RecordsFit, DecisionHeld, ResultsFit,
         DecisionStored, NEW t \in Threads, Step(t), ~PanicInVote(t)
  PROVE  DecisionStored'
<1> SUFFICES ASSUME NEW d \in Domains, BoundOnChain(d)'
             PROVE  \/ votes'[d] # None /\ votes'[d].consensus
                    \/ \E u \in Threads : th'[u].pc = "saveResult" /\ th'[u].dom = d
  BY DEF DecisionStored
<1>1. ThreadsOK /\ th[t] \in ThreadState /\ ThreadOK(t, th[t])
  BY ThreadFacts
<1>2. CASE ~BoundOnChain(d)
  <2> lapsed = {} /\ lapsed' = {}
    BY NothingLapses, MinedGrows
  <2>1. SubmitSignedTx(t) /\ mined' # mined
    BY <1>2, ChainFrame DEF BoundOnChain
  <2>2. /\ mined' = mined \cup {th[t].rec.req}
        /\ Become(t, [th[t] EXCEPT !.pc = "saveResult", !.rec = None])
    BY <2>1, Executes
  <2>3. DomainOf[th[t].rec.req] = d
    BY <1>2, <2>2 DEF BoundOnChain
  <2>4. th[t].rec # None /\ th[t].op # "tick"
    BY <1>1, <2>1, DecideMoves DEF ThreadOK, HasRecord, SubmitSignedTx, At
  <2>5. th[t].dom = d
    BY <2>3, <2>4 DEF RecordsFit, Of
  <2>6. th'[t] = [th[t] EXCEPT !.pc = "saveResult", !.rec = None]
    BY <1>1, <2>2, Moved
  <2>7. th'[t].pc = "saveResult" /\ th'[t].dom = d
    BY <1>1, <2>5, <2>6 DEF ThreadState
  <2>8. QED BY <2>7
<1>3. CASE \E u \in Threads : th[u].pc = "saveResult" /\ th[u].dom = d
  <2>1. PICK u \in Threads : th[u].pc = "saveResult" /\ th[u].dom = d
    BY <1>3
  <2>2. CASE u # t
    BY <2>1, <2>2, StaysAtWork
  <2>3. CASE u = t
    <3>1. SaveResult(t)
      BY <2>1, <2>3
         DEF Step, At, AddBinding, GetByNamehash, GetLocal, GetPendingRecord, GetLatestRecord,
         SaveRecordDHT, SaveRecordLocal, SaveNamehash, SaveNamehashLocal, ValidateSignedTx,
         LockDomain, LockDomainPut, SavePending, FindPending, LockIndex, LockIndexPut, ReadIndex,
         WriteIndex, ClearPending, ReleaseDomain, ReleaseDomainPut, ReleaseIndex, ReleaseIndexPut,
         ReadVotes, PanicInVote, SaveVote, Publish, Tick, Examine, SubmitSignedTx
    <3>2. PICK p \in PutValue(votes[d], th[t].result) : votes' = [votes EXCEPT ![d] = p.value]
      BY <2>1, <2>3, <3>1 DEF SaveResult
    <3>3. p.value = th[t].result
      BY NothingFails
    <3>4. votes'[d] = th[t].result
      BY <3>2, <3>3 DEF TypeOK
    <3>5. th[t].op = "decide"
      BY <1>1, <2>1, <2>3
         DEF ThreadOK, Control, GetPcs, SavePcs, LockPcs, UnlockPcs, ReleasePcs
    <3>6. QED BY <3>4, <3>5 DEF ResultsFit
  <2>4. QED BY <2>2, <2>3
<1>4. CASE BoundOnChain(d) /\ votes[d] # None /\ votes[d].consensus
  <2>1. CASE votes'[d] = votes[d]
    BY <1>4, <2>1
  <2>2. CASE SaveVote(t) /\ th[t].dom = d
    BY <1>4, <2>2 DEF SaveVote, At, ResultsFit
  <2>3. CASE SaveResult(t) /\ th[t].dom = d /\ votes'[d] = th[t].result
    <3>1. th[t].op = "decide"
      BY <1>1, <2>3
         DEF SaveResult, At, ThreadOK, Control, GetPcs, SavePcs, LockPcs, UnlockPcs, ReleasePcs
    <3>2. QED BY <2>3, <3>1 DEF ResultsFit
  <2>4. QED BY <2>1, <2>2, <2>3, VotesStep
<1>5. QED BY <1>2, <1>3, <1>4 DEF DecisionStored

\* A function that has the lock of the index keeps it until it releases it.
LEMMA SectionLeft ==
  ASSUME TypeOK, Undisturbed, StartedByAdd, IndexLocked, NEW t \in Threads, Step(t), InSection(t)
  PROVE  InSection(t)' \/ lockCell'[indexKey] = None
<1>1. /\ ThreadsOK /\ th[t] \in ThreadState /\ th[t].op \in {"add", "confirm", "reject"}
      /\ th[t].pc \in SectionPcs /\ lockCell[indexKey] = t
      /\ th[t].pc \in ReleasePcs => th[t].op \in {"confirm", "reject"}
      /\ th[t].pc \in SavePcs => th[t].op = "confirm"
  BY ThreadFacts, SectionAt
     DEF IndexLocked, InSection, ThreadOK, Control, ReleasePcs, LockPcs, UnlockPcs, SavePcs, GetPcs
<1>2. CASE th[t].pc \in {"indexRead", "indexWrite", "savePending", "clear"}
  <2>1. ReadIndex(t) \/ WriteIndex(t) \/ SavePending(t) \/ ClearPending(t)
    BY <1>2
       DEF Step, At, AddBinding, GetByNamehash, GetLocal, GetPendingRecord, GetLatestRecord,
       SaveRecordDHT, SaveRecordLocal, SaveNamehash, SaveNamehashLocal, ValidateSignedTx,
       LockDomain, LockDomainPut, FindPending, LockIndex, LockIndexPut, ReleaseDomain,
       ReleaseDomainPut, ReleaseIndex, ReleaseIndexPut, ReadVotes, PanicInVote, SaveVote, Publish,
       Tick, Examine, SubmitSignedTx, SaveResult
  <2>2. CASE ReadIndex(t) \/ ClearPending(t) \/ SavePending(t)
    BY <1>1, <2>2, IndexMoves, AddMoves DEF GoesTo, InSection
  <2>3. CASE WriteIndex(t)
    BY <1>1, <2>3, IndexMoves DEF IndexWritten, InSection, Undisturbed
  <2>4. QED BY <2>1, <2>2, <2>3
<1>3. CASE th[t].pc \in SavePcs
  <2>1. SaveRecordDHT(t) \/ SaveRecordLocal(t) \/ SaveNamehash(t) \/ SaveNamehashLocal(t)
    BY <1>3
       DEF SavePcs, Step, At, AddBinding, GetByNamehash, GetLocal, GetPendingRecord,
       GetLatestRecord, ValidateSignedTx, LockDomain, LockDomainPut, SavePending, FindPending,
       LockIndex, LockIndexPut, ReadIndex, WriteIndex, ClearPending, ReleaseDomain,
       ReleaseDomainPut, ReleaseIndex, ReleaseIndexPut, ReadVotes, PanicInVote, SaveVote, Publish,
       Tick, Examine, SubmitSignedTx, SaveResult
  <2>2. th[t].op = "confirm"
    BY <1>1, <1>3
  <2>3. ASSUME NEW ok, SaveReturns(t, ok, th'[t])
        PROVE  th'[t].op = "confirm" /\ th'[t].pc \in {"clear", "releaseIndex"}
    BY <2>2, <2>3 DEF SaveReturns, GetOps
  <2>4. /\ th'[t].op = "confirm"
        /\ th'[t].pc \in {"saveLocal", "saveName", "saveNameLocal", "clear", "releaseIndex"}
    BY <2>1, <2>2, <2>3, SaveMoves DEF GoesTo
  <2>5. QED BY <2>4 DEF InSection
<1>4. CASE th[t].pc \in ReleasePcs
  <2>1. ReleaseDomain(t) \/ ReleaseDomainPut(t)
    BY <1>4
       DEF ReleasePcs, Step, At, AddBinding, GetByNamehash, GetLocal, GetPendingRecord,
       GetLatestRecord, SaveRecordDHT, SaveRecordLocal, SaveNamehash, SaveNamehashLocal,
       ValidateSignedTx, LockDomain, LockDomainPut, SavePending, FindPending, LockIndex,
       LockIndexPut, ReadIndex, WriteIndex, ClearPending, ReleaseIndex, ReleaseIndexPut,
       ReadVotes, PanicInVote, SaveVote, Publish, Tick, Examine, SubmitSignedTx, SaveResult
  <2>2. GoesTo(t, "domainClear", th[t].op) \/ DomainReleased(t, th'[t])
    BY <2>1, ReleaseMoves
  <2>3. th[t].op \in {"confirm", "reject"}
    BY <1>1, <1>4
  <2>4. QED BY <2>2, <2>3 DEF GoesTo, DomainReleased, InSection
<1>5. CASE ReleaseIndex(t)
  <2>1. ~UnlockInvalid(Node(t), indexKey, t)
    BY <1>1, NothingFails DEF UnlockInvalid
  <2>2. Goto(t, "indexClear")
    BY <1>5, <2>1 DEF ReleaseIndex
  <2>3. th'[t] = [th[t] EXCEPT !.pc = "indexClear"]
    BY <1>1, <2>2, Moved DEF Goto
  <2>4. th'[t].pc = "indexClear" /\ th'[t].op = th[t].op
    BY <1>1, <2>3 DEF ThreadState
  <2>5. QED BY <1>1, <2>4 DEF InSection
<1>6. CASE ReleaseIndexPut(t)
  <2>1. PICK p \in PutValue(lockCell[indexKey], None) :
          lockCell' = [lockCell EXCEPT ![indexKey] = p.value]
    BY <1>6 DEF ReleaseIndexPut, UnlockPut
  <2>2. p.value = None
    BY NothingFails
  <2>3. indexKey \in Keys
    BY RegistrationAssumption
  <2>4. QED BY <2>1, <2>2, <2>3 DEF TypeOK
<1>7. CASE th[t].pc \in UnlockPcs
  <2>1. ReleaseIndex(t) \/ ReleaseIndexPut(t)
    BY <1>7
       DEF UnlockPcs, Step, At, AddBinding, GetByNamehash, GetLocal, GetPendingRecord,
       GetLatestRecord, SaveRecordDHT, SaveRecordLocal, SaveNamehash, SaveNamehashLocal,
       ValidateSignedTx, LockDomain, LockDomainPut, SavePending, FindPending, LockIndex,
       LockIndexPut, ReadIndex, WriteIndex, ClearPending, ReleaseDomain, ReleaseDomainPut,
       ReadVotes, PanicInVote, SaveVote, Publish, Tick, Examine, SubmitSignedTx, SaveResult
  <2>2. QED BY <1>5, <1>6, <2>1
<1>8. QED BY <1>1, <1>2, <1>3, <1>4, <1>7 DEF SectionPcs

LEMMA IndexTakenStep ==
  ASSUME TypeOK, Undisturbed, StartedByAdd, IndexLocked, IndexTaken,
         NEW t \in Threads, Step(t), ~PanicInVote(t)
  PROVE  IndexTaken'
<1> SUFFICES ASSUME lockCell'[indexKey] # None
             PROVE  \E u \in Threads : InSection(u)'
  BY DEF IndexTaken
<1>1. CASE LockIndexPut(t)
  <2>1. LockPut(Node(t), t, indexKey, t)
          /\ Become(t, [th[t] EXCEPT !.pc = "indexRead", !.tries = 0])
    BY <1>1, NothingFails DEF LockIndexPut, LockPutError
  <2>2. th'[t] = [th[t] EXCEPT !.pc = "indexRead", !.tries = 0]
    BY <2>1, ThreadFacts, Moved
  <2>3. th'[t].pc = "indexRead" /\ th'[t].op = th[t].op
    BY <2>2, ThreadFacts DEF ThreadState
  <2>4. th[t].op \in {"add", "confirm", "reject"}
    BY <1>1, ThreadFacts
       DEF LockIndexPut, At, ThreadOK, Control, GetPcs, SavePcs, LockPcs, UnlockPcs, ReleasePcs
  <2>5. QED BY <2>3, <2>4 DEF InSection
<1>2. CASE lockCell'[indexKey] = lockCell[indexKey]
  <2>1. PICK u \in Threads : InSection(u)
    BY <1>2 DEF IndexTaken
  <2>2. CASE u = t
    BY <2>1, <2>2, SectionLeft
  <2>3. CASE u # t
    <3>1. th[u].pc # "off"
      BY <2>1, SectionAt DEF SectionPcs, SavePcs, ReleasePcs, UnlockPcs
    <3>2. th'[u] = th[u]
      BY <2>3, <3>1, StaysAtWork
    <3>3. QED BY <2>1, <3>2 DEF InSection
  <2>4. QED BY <2>2, <2>3
<1>3. QED BY <1>1, <1>2, IndexCellStep, NothingFails

\* The same of the state after a step.
LEMMA VoteUnboundNext ==
  ASSUME TypeOK', DecisionHeld', ResultsFit', DecisionStored', NEW r \in Requests,
         th'[<<"vote", r>>].pc = "voteSave"
  PROVE  ~BoundOnChain(DomainOf[r])'
<1>1. /\ <<"vote", r>> \in Threads /\ DomainOf[r] \in Domains
      /\ th'[<<"vote", r>>].dom = DomainOf[r]
  BY VoteThread, ThreadKinds DEF TypeOK, ThreadOK
<1>2. ~(votes'[DomainOf[r]] # None /\ votes'[DomainOf[r]].consensus)
  BY <1>1 DEF ResultsFit
<1>3. ASSUME NEW t \in Threads, th'[t].pc = "saveResult", th'[t].dom = DomainOf[r]
      PROVE  FALSE
  BY <1>3 DEF DecisionHeld, Decides, DecidedHeld
<1>4. QED BY <1>1, <1>2, <1>3 DEF DecisionStored

\* Add takes the lock of a domain for its own request, and goes on with it.
LEMMA LocksDomain ==
  ASSUME TypeOK, Undisturbed, NEW t \in Threads, LockDomainPut(t)
  PROVE  t[2] \in Requests /\ DomainOf[t[2]] = th[t].dom /\ Adding(t[2])'
<1>1. ThreadOK(t, th[t]) /\ th[t].pc = "lockPut"
  BY ThreadFacts DEF LockDomainPut, At
<1>2. t[1] = "register" /\ t = <<"register", t[2]>> /\ t[2] \in Requests
  BY <1>1, ThreadKinds
     DEF ThreadOK, Control, GetPcs, SavePcs, LockPcs, UnlockPcs, ReleasePcs
<1>3. Become(t, [th[t] EXCEPT !.pc = "indexLock", !.op = "add", !.rec = Pending(t[2])])
  BY NothingFails DEF LockDomainPut, LockPutError
<1>4. th'[t] = [th[t] EXCEPT !.pc = "indexLock", !.op = "add", !.rec = Pending(t[2])]
  BY <1>3, ThreadFacts, Moved
<1>5. th'[t].op = "add"
  BY <1>4, ThreadFacts DEF ThreadState
<1>6. QED BY <1>1, <1>2, <1>5 DEF ThreadOK, Adding

\* On a domain that is bound, a request that has the lock and no pending record stays
\* on its way out.
LEMMA StaysOnWayOut ==
  ASSUME TypeOK, TypeOK', StartedByAdd, OneNode, Undisturbed, OwnRecord, VoteRecord,
         DecisionHeld', ResultsFit', DecisionStored', Voters # {},
         NEW t \in Threads, Step(t), ~PanicInVote(t), NEW r \in Requests,
         Adding(r) \/ VoteOpen(r), BoundOnChain(DomainOf[r])',
         lockCell[DomainOf[r]] = r, lockCell'[DomainOf[r]] # None
  PROVE  Adding(r)' \/ VoteOpen(r)'
<1>1. CASE Adding(r)
  BY <1>1, AddingStays
<1>2. CASE VoteOpen(r)
  BY <1>2, VoteStaysOpen, VoteUnboundNext
<1>3. QED BY <1>1, <1>2

\* Where RejectRecord gets the record it rejects.
LEMMA RejectMoves ==
  ASSUME TypeOK, StartedByAdd, Undisturbed, NEW t \in Threads, Step(t), ~PanicInVote(t),
         th'[t].op = "reject", th'[t].pc \in LockPcs \cup {"clear"}
  PROVE  /\ th[t].op = "reject" /\ th'[t].dom = th[t].dom
         /\ \/ FindPending(t) /\ th'[t].rec = pending[th[t].dom]
            \/ th[t].pc \in LockPcs /\ th'[t].rec = th[t].rec
<1> USE DEF LockPcs
<1>1. ThreadOK(t, th[t]) /\ t[1] \in {"register", "vote", "publish", "update", "tick"}
  BY ThreadFacts, ThreadKinds
<1>2. CASE FindPending(t)
  BY <1>1, <1>2, IndexMoves DEF Takes, Abandons
<1>3. CASE LockIndex(t) \/ LockIndexPut(t) \/ ReadIndex(t) \/ WriteIndex(t)
  <2>1. th[t].pc \in LockPcs
    BY <1>3 DEF LockIndex, LockIndexPut, ReadIndex, WriteIndex, At
  <2>2. th[t].op \in {"add", "confirm", "reject"}
    BY <1>1, <2>1 DEF ThreadOK, Control, GetPcs, SavePcs, UnlockPcs, ReleasePcs
  <2>3. ~Abandons(t, th'[t])
    BY <1>1 DEF Abandons
  <2>4. CASE LockIndex(t) \/ LockIndexPut(t) \/ ReadIndex(t)
    BY <2>1, <2>3, <2>4, IndexMoves DEF GoesTo, Keeps
  <2>5. CASE WriteIndex(t)
    BY <2>1, <2>5, IndexMoves DEF IndexWritten, Keeps, Undisturbed
  <2>6. QED BY <1>3, <2>4, <2>5
<1>4. CASE ~(FindPending(t) \/ LockIndex(t) \/ LockIndexPut(t) \/ ReadIndex(t) \/ WriteIndex(t))
  <2>1. CASE \/ AddBinding(t) \/ GetByNamehash(t) \/ GetLocal(t) \/ GetPendingRecord(t)
             \/ GetLatestRecord(t)
    BY <2>1, GetMoves DEF GoesTo, GetReturns
  <2>2. CASE SaveRecordDHT(t) \/ SaveRecordLocal(t) \/ SaveNamehash(t) \/ SaveNamehashLocal(t)
    <3>1. th[t].op # "reject"
      BY <1>1, <2>2
         DEF ThreadOK, Control, SaveRecordDHT, SaveRecordLocal, SaveNamehash, SaveNamehashLocal,
            At, UnlockPcs, ReleasePcs
    <3>2. ASSUME NEW ok, SaveReturns(t, ok, th'[t])
          PROVE  th'[t].op = "reject" => th'[t].pc = "find"
      BY <3>2 DEF SaveReturns, GetReturns
    <3>3. QED BY <2>2, <3>1, <3>2, SaveMoves DEF GoesTo
  <2>3. CASE ValidateSignedTx(t) \/ LockDomain(t) \/ LockDomainPut(t) \/ SavePending(t)
    BY <2>3, AddMoves DEF GoesTo, Takes
  <2>4. CASE ClearPending(t)
    BY <2>4, IndexMoves DEF GoesTo
  <2>5. CASE ReleaseDomain(t) \/ ReleaseDomainPut(t) \/ ReleaseIndex(t) \/ ReleaseIndexPut(t)
    BY <1>1, <2>5, ReleaseMoves DEF GoesTo, DomainReleased, Abandons, AddReturns
  <2>6. CASE ReadVotes(t) \/ SaveVote(t) \/ Publish(t)
    BY <1>1, <2>6, VoteMoves DEF GoesTo, Takes, Ends
  <2>7. CASE Tick(t) \/ Examine(t) \/ SubmitSignedTx(t) \/ SaveResult(t)
    BY <1>1, <2>7, DecideMoves DEF GoesTo, Takes, Ends
  <2>8. QED BY <1>4, <2>1, <2>2, <2>3, <2>4, <2>5, <2>6, <2>7 DEF Step
<1>5. QED BY <1>2, <1>3, <1>4

LEMMA RejectFitsStep ==
  ASSUME TypeOK, TypeOK', StartedByAdd, OneNode, Undisturbed, OwnRecord, VoteRecord, OneRequest,
         OneRequest', DecisionHeld, DecisionHeld', ResultsFit, ResultsFit', DecisionStored,
         DecisionStored', LockOwned, RejectFits, NEW t \in Threads, Step(t), ~PanicInVote(t)
  PROVE  RejectFits'
<1> SUFFICES ASSUME NEW u \in Threads, NEW r \in Requests, NEW d,
                    th'[u].op = "reject", th'[u].pc \in LockPcs \cup {"clear"},
                    d = th'[u].dom, lockCell'[d] = r, r # th'[u].rec.req
             PROVE  Adding(r)' \/ VoteOpen(r)'
  BY DEF RejectFits
<1>1. d \in Domains /\ u[1] = "tick" /\ u[1] \notin {"register", "vote"}
  <2>1. ThreadOK(u, th'[u])
    BY DEF TypeOK
  <2>2. d \in Domains
    BY <2>1 DEF ThreadOK
  <2>3. u[1] \in {"publish", "tick"}
    BY <2>1 DEF ThreadOK, Control
  <2>4. u[1] # "publish"
    <3>1. RequestThreads = {"register", "vote"}
      BY DEF RequestThreads, Undisturbed
    <3>2. QED BY <3>1 DEF Threads
  <2>5. QED BY <2>2, <2>3, <2>4
<1>2. Voters # {} /\ BoundOnChain(d)'
  <2>1. u \notin RequestThreads \X Requests /\ u \notin {"update"} \X Updates
    BY <1>1 DEF RequestThreads
  <2>2. Voters # {}
    BY <2>1 DEF Threads
  <2>3. BoundOnChain(d)'
    <3>1. BoundOnChain(th[u].dom)'
      BY DEF OneRequest, BeforeBoundThread
    <3>2. QED BY <3>1 DEF BoundOnChain
  <2>4. QED BY <2>2, <2>3
<1>3. CASE LockDomainPut(t) /\ th[t].dom = d /\ r = t[2]
  BY <1>3, LocksDomain
<1>4. CASE lockCell'[d] = lockCell[d]
  <2>1. DomainOf[r] = d /\ lockCell[d] = r /\ lockCell'[d] # None /\ Owned(r)
    <3>1. r # None
      BY RegistrationAssumption
    <3>2. QED BY <1>1, <1>4, <3>1 DEF LockOwned
  <2>2. /\ th[u].op = "reject" /\ th[u].dom = d
        /\ \/ u = t /\ FindPending(t) /\ th'[u].rec = pending[d]
           \/ th[u].pc \in LockPcs \cup {"clear"} /\ th'[u].rec = th[u].rec
    <3>1. CASE u = t
      BY <3>1, RejectMoves
    <3>2. CASE u # t
      <4>1. th'[u] = th[u]
        BY <1>1, <3>2, OtherThreads
      <4>2. QED BY <4>1
    <3>3. QED BY <3>1, <3>2
  <2>3. Adding(r) \/ VoteOpen(r)
    <3>1. CASE th[u].pc \in LockPcs \cup {"clear"} /\ th'[u].rec = th[u].rec
      BY <1>4, <2>2, <3>1 DEF RejectFits
    <3>2. CASE u = t /\ FindPending(t) /\ th'[u].rec = pending[d]
      <4>1. pending[d] # Pending(r)
        BY <3>2 DEF Pending
      <4>2. th[<<"vote", r>>].pc # "voteSave"
        <5>1. BoundOnChain(d)
          BY <2>2 DEF OneRequest, BeforeBoundThread
        <5>2. QED BY <2>1, <5>1, VoteUnbound
      <4>3. \A v \in Threads : ~Cleared(v)
        <5>1. ~Cleared(t)
          BY <3>2 DEF Cleared, FindPending, At, ReleasePcs
        <5>2. QED BY <1>1, <3>2, <5>1, OneLoop DEF Cleared
      <4>4. QED BY <2>1, <4>1, <4>2, <4>3 DEF Owned
    <3>3. QED BY <2>2, <3>1, <3>2
  <2>4. QED BY <1>2, <2>1, <2>3, StaysOnWayOut
<1>5. r # None
  BY RegistrationAssumption
<1>6. QED BY <1>1, <1>3, <1>4, <1>5, DomainCellStep

\* What has the lock and is pending stays pending until ConfirmRecord or RejectRecord
\* empties the key, which then goes on to release the lock.
LEMMA PendingOwned ==
  ASSUME TypeOK, Undisturbed, OwnRecord, DomainLocked, DecisionHeld, RejectFits,
         NEW t \in Threads, Step(t), NEW r \in Requests,
         lockCell[DomainOf[r]] = r, pending[DomainOf[r]] = Pending(r)
  PROVE  \/ pending'[DomainOf[r]] = Pending(r)
         \/ Cleared(t)' /\ th'[t].rec.req = r
         \/ Adding(r) \/ VoteOpen(r)
<1> DEFINE d == DomainOf[r]
<1>1. d \in Domains /\ pending[d] # None /\ pending[d].req = r
  BY RegistrationAssumption DEF Pending, Records
<1>2. CASE SavePending(t) /\ th[t].op = "add" /\ th[t].dom = d /\ pending'[d] = Pending(t[2])
  BY <1>2 DEF DomainLocked
<1>3. CASE ClearPending(t) /\ th[t].dom = d
  <2>1. th[t].pc = "clear" /\ th[t].op \in {"confirm", "reject"}
    BY <1>3, ThreadFacts
       DEF ClearPending, At, ThreadOK, Control, GetPcs, SavePcs, LockPcs, UnlockPcs, ReleasePcs
  <2>2. GoesTo(t, "releaseDomain", th[t].op)
    BY <1>3, IndexMoves
  <2>3. CASE th[t].rec.req = r
    BY <2>1, <2>2, <2>3 DEF GoesTo, Keeps, Cleared, ReleasePcs
  <2>4. CASE th[t].op = "confirm"
    <3>1. th[t].rec.req = pending[d].req
      BY <1>3, <2>1, <2>4 DEF DecisionHeld, Decides, DecidedHeld
    <3>2. QED BY <1>1, <2>3, <3>1
  <2>5. CASE th[t].op = "reject" /\ th[t].rec.req # r
    BY <1>3, <2>1, <2>5 DEF RejectFits
  <2>6. QED BY <2>1, <2>3, <2>4, <2>5
<1>4. QED BY <1>1, <1>2, <1>3, PendingStep

LEMMA LockOwnedStep ==
  ASSUME TypeOK, StartedByAdd, OneNode, Undisturbed, RecordsFit, OwnRecord, DomainLocked, VoteRecord,
         OneRequest, DecisionHeld, ResultsFit, DecisionStored, LockOwned, RejectFits, MinedByLoop,
         NEW t \in Threads, Step(t), ~PanicInVote(t)
  PROVE  LockOwned'
<1> SUFFICES ASSUME NEW d \in Domains, lockCell'[d] # None
             PROVE  \E r \in Requests : lockCell'[d] = r /\ DomainOf[r] = d /\ Owned(r)'
  BY DEF LockOwned
<1>1. CASE LockDomainPut(t) /\ th[t].dom = d /\ lockCell'[d] = t[2]
  BY <1>1, LocksDomain DEF Owned
<1>2. CASE lockCell'[d] = lockCell[d]
  <2>1. PICK r \in Requests : lockCell[d] = r /\ DomainOf[r] = d /\ Owned(r)
    BY <1>2 DEF LockOwned
  <2>2. ASSUME Entered(r), ~BoundOnChain(d)
        PROVE  pending[d] = Pending(r)
    BY <2>1, <2>2 DEF OneRequest, BeforeBound
  <2>3. ASSUME Adding(r)
        PROVE  Owned(r)'
    <3>1. CASE Adding(r)'
      BY <3>1 DEF Owned
    <3>2. CASE /\ th[<<"register", r>>].op = "add" /\ th[<<"register", r>>].pc \in UnlockPcs
               /\ UNCHANGED <<dhtVars, mined>> /\ Voters = {}
      <4>1. ~BoundOnChain(d)
        BY <3>2 DEF MinedByLoop, BoundOnChain
      <4>2. pending'[d] = Pending(r)
        BY <2>2, <3>2, <4>1 DEF Entered, dhtVars
      <4>3. QED BY <2>1, <4>2 DEF Owned, Pending
    <3>3. CASE VoteOpen(r)'
      BY <3>3 DEF Owned
    <3>4. QED BY <1>2, <2>1, <2>3, <3>1, <3>2, <3>3, AddingStays
  <2>4. ASSUME VoteOpen(r)
        PROVE  Owned(r)'
    BY <1>2, <2>1, <2>4, VoteStaysOpen DEF Owned
  <2>5. ASSUME pending[d] = Pending(r)
        PROVE  Owned(r)'
    <3>1. CASE pending'[d] = Pending(r)
      BY <2>1, <3>1 DEF Owned, Pending
    <3>2. CASE Cleared(t)' /\ th'[t].rec.req = r
      BY <3>2 DEF Owned
    <3>3. QED BY <2>1, <2>3, <2>4, <2>5, <3>1, <3>2, PendingOwned
  <2>6. ASSUME th[<<"vote", r>>].pc = "voteSave"
        PROVE  Owned(r)'
    BY <2>1, <2>2, <2>5, <2>6, VoteUnbound DEF Entered
  <2>7. ASSUME NEW u \in Threads, Cleared(u), th[u].rec.req = r
        PROVE  Owned(r)'
    <3>1. th[u].dom = d
      <4>1. th[u].rec # None
        BY <2>7, ThreadFacts DEF Cleared, ThreadOK, HasRecord
      <4>2. QED BY <2>1, <2>7, <4>1 DEF Cleared, RecordsFit, Of
    <3>2. th'[u].pc \in ReleasePcs /\ th'[u].op = th[u].op /\ th'[u].rec = th[u].rec
      BY <1>2, <2>1, <2>7, <3>1, ReleasingStays DEF Cleared
    <3>3. Cleared(u)' /\ th'[u].rec.req = r
      BY <2>7, <3>2 DEF Cleared
    <3>4. QED BY <3>3 DEF Owned
  <2>8. QED BY <1>2, <2>1, <2>3, <2>4, <2>5, <2>6, <2>7 DEF Owned
<1>3. QED BY <1>1, <1>2, DomainCellStep

-----------------------------------------------------------------------------
(* The theorem *)

LEMMA OwnerInit ==
  ASSUME Init
  PROVE  OwnerInvariant
<1>1. \A t \in Threads : th[t].op = t[1] /\ th[t].pc \in {"get", "update", "tick", "off"}
  BY InitIdle, ThreadKinds DEF Init, Idle
<1>2. \A t \in Threads : th[t].op # "reject"
  BY <1>1, ThreadKinds
<1>3. \A k \in Keys : lockCell[k] = None
  BY DEF Init, LockInit
<1>4. LockOwned /\ IndexTaken
  BY <1>3, RegistrationAssumption DEF LockOwned, IndexTaken
<1>5. RejectFits /\ DecisionStored /\ MinedByLoop
  BY <1>2 DEF Init, RejectFits, DecisionStored, MinedByLoop, BoundOnChain
<1>6. QED BY <1>4, <1>5 DEF OwnerInvariant

LEMMA OwnerStep ==
  ASSUME OneNode, Undisturbed, Inv, Inv', OwnerInvariant, NEW t \in Threads, Step(t), ~PanicInVote(t)
  PROVE  OwnerInvariant'
<1>1. /\ TypeOK /\ StartedByAdd /\ RecordsFit /\ OwnRecord /\ IndexLocked
      /\ DomainLocked /\ VoteRecord /\ OneRequest /\ DecisionHeld /\ ResultsFit
  BY DEF Inv, ConfirmInvariant, IndexInvariant, DecisionInvariant
<1>2. TypeOK' /\ OneRequest' /\ DecisionHeld' /\ ResultsFit'
  BY DEF Inv, ConfirmInvariant, DecisionInvariant
<1>3. LockOwned /\ RejectFits /\ DecisionStored /\ IndexTaken /\ MinedByLoop
  BY DEF OwnerInvariant
<1>4. DecisionStored'
  BY <1>1, <1>2, <1>3, DecisionStoredStep
<1>5. LockOwned'
  BY <1>1, <1>3, LockOwnedStep
<1>6. RejectFits'
  BY <1>1, <1>2, <1>3, <1>4, RejectFitsStep
<1>7. IndexTaken' /\ MinedByLoop'
  BY <1>1, <1>3, IndexTakenStep, MinedByLoopStep
<1>8. QED BY <1>4, <1>5, <1>6, <1>7 DEF OwnerInvariant

LEMMA OwnerInvariantKept ==
  ASSUME OneNode, Undisturbed, NoCrashes, Inv, OwnerInvariant, [Next]_vars
  PROVE  OwnerInvariant'
<1>1. Inv'
  BY InvKept
<1>2. CASE \E t \in Threads : Runs(t)
  BY <1>1, <1>2, NoPanic, OwnerStep DEF Runs
<1>3. CASE (\E n \in Nodes : Restart(n)) \/ UNCHANGED vars
  <2>1. UNCHANGED <<lockCell, pending, votes, mined, lapsed, th>>
    BY <1>3 DEF Restart, vars, lockVars, dhtVars, nodeVars, chainVars
  <2>2. LockOwned' /\ RejectFits'
    BY <2>1 DEF OwnerInvariant, LockOwned, RejectFits, Owned, Adding, VoteOpen, Cleared
  <2>3. DecisionStored' /\ IndexTaken' /\ MinedByLoop'
    BY <2>1
       DEF OwnerInvariant, DecisionStored, IndexTaken, MinedByLoop, BoundOnChain, InSection
  <2>4. QED BY <2>2, <2>3 DEF OwnerInvariant
<1>4. ~\E r \in Requests : Mine(r) \/ Lapse(r)
  BY NothingLapses DEF Inv, ConfirmInvariant
<1>5. QED BY <1>2, <1>3, <1>4 DEF Next, Crash, NoCrashes

\* The owners that are at work are not resting, so that the pending record is left.
LEMMA OwnedAtRest ==
  ASSUME Inv, OwnerInvariant
  PROVE  NoOrphanLock
<1> SUFFICES ASSUME \A t \in Threads : Resting(t), NEW d \in Domains, lockCell[d] # None
             PROVE  pending[d] = Pending(lockCell[d]) /\ d \in index
  BY DEF NoOrphanLock
<1>1. TypeOK /\ IndexListsPending
  BY DEF Inv, ConfirmInvariant, IndexInvariant
<1>2. \A t \in Threads :
        th[t].pc \in {"get", "update", "off", "tick", "done", "refused", "dead"}
          /\ (t[1] = "vote" => th[t].pc # "get")
  BY DEF Resting, Starts, At, Idle
<1>3. \A t \in Threads : th[t].op \notin {"add", "undo", "confirm", "reject"}
  BY <1>1, <1>2, ThreadFacts
     DEF ThreadOK, Control, GetPcs, SavePcs, LockPcs, UnlockPcs, ReleasePcs
<1>4. PICK r \in Requests : lockCell[d] = r /\ DomainOf[r] = d /\ Owned(r)
  BY DEF OwnerInvariant, LockOwned
<1>5. ~Adding(r) /\ ~VoteOpen(r) /\ th[<<"vote", r>>].pc # "voteSave"
  BY <1>2, <1>3, RegisterThread, VoteThread DEF Adding, VoteOpen, ReleasePcs
<1>6. pending[d] = Pending(r)
  BY <1>3, <1>4, <1>5 DEF Owned, Cleared
<1>7. pending[d] # None
  BY <1>6, RegistrationAssumption DEF Pending, Records
<1>8. lockCell[indexKey] = None
  BY <1>3 DEF OwnerInvariant, IndexTaken, InSection
<1>9. QED BY <1>1, <1>4, <1>6, <1>7, <1>8 DEF IndexListsPending

\* On one node that does not crash, where nothing fails and no binding lapses, no domain
\* stays locked for nothing: whatever order the registrations, the votes and the decision loop run in,
\* once they have all returned a domain that is locked is one that is pending under
\* that lock and listed, so that the next tick can decide it.
THEOREM LocksHaveOwners ==
  ASSUME OneNode, Undisturbed, NoCrashes
  PROVE  Spec => []NoOrphanLock
<1>1. Init => Inv /\ OwnerInvariant
  BY DecisionInit, OwnerInit
<1>2. Inv /\ OwnerInvariant /\ [Next]_vars => Inv' /\ OwnerInvariant'
  BY InvKept, OwnerInvariantKept
<1>3. Inv /\ OwnerInvariant => NoOrphanLock
  BY OwnedAtRest
<1>4. QED BY <1>1, <1>2, <1>3, PTL DEF Spec
=============================================================================
