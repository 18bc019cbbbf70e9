---------------------------- MODULE IndexProofs ----------------------------
(***************************************************************************)
(* The pending index of Registration on one node whose reads and writes of *)
(* the DHT do not fail: TryAcquireIndexLock excludes the functions that    *)
(* update the list from each other, for any domains, requests and updates, *)
(* wherever the node crashes, and whatever submissions or publications     *)
(* fail.                                                                   *)
(***************************************************************************)
EXTENDS RecordProofs

OneNode == \A m, n \in Nodes : m = n
Reliable == "get" \notin Faults /\ "put" \notin Faults

-----------------------------------------------------------------------------
(* lockMutex and the lock of the index, step by step *)

\* The mutex of a node is taken when it is free and released by the thread that has it.
LEMMA MutexStep ==
  ASSUME TypeOK, NEW t \in Threads, Step(t), ~PanicInVote(t), NEW n \in Nodes
  PROVE  \/ lockMutex'[n] = lockMutex[n]
         \/ lockMutex[n] = None /\ n = Node(t) /\ lockMutex'[n] = t
         \/ lockMutex[n] = t /\ n = Node(t) /\ lockMutex'[n] = None
<1>1. lockMutex \in [Nodes -> Threads \cup {None}] /\ Node(t) \in Nodes
  BY ThreadKinds DEF TypeOK
<1>2. ASSUME NEW k, NEW id, LockStep(t, k, id)
      PROVE  \/ lockMutex' = lockMutex
             \/ lockMutex[Node(t)] = None /\ lockMutex' = [lockMutex EXCEPT ![Node(t)] = t]
             \/ lockMutex[Node(t)] = t /\ lockMutex' = [lockMutex EXCEPT ![Node(t)] = None]
  BY <1>2 DEF LockStep, lockVars, RLock, RUnlock, LockGet, LockPut, LockPutError, UnlockGet,
     UnlockPut, MutexFree
<1>3. \E k, id : LockStep(t, k, id)
  BY LockFrame DEF LockStep
<1>4. QED BY <1>1, <1>2, <1>3

\* A thread is between the read and the write of a lock because it has taken the mutex.
LEMMA MutexTaken ==
  ASSUME TypeOK, StartedByAdd, NEW t \in Threads, Step(t), ~PanicInVote(t),
         th'[t].pc \in {"lockPut", "indexPut", "domainClear", "indexClear"}
  PROVE  /\ lockMutex'[Node(t)] = t
         /\ th'[t].pc = "indexPut" => LockIndex(t) /\ None \in GetValue(lockCell[indexKey])
         /\ th'[t].pc = "lockPut" => LockDomain(t) /\ None \in GetValue(lockCell[th[t].dom])
         /\ th'[t].pc = "domainClear" =>
              ReleaseDomain(t) /\ th[t].rec.req \in GetValue(lockCell[th[t].dom])
<1>1. ThreadsOK /\ th[t] \in ThreadState /\ ThreadOK(t, th[t]) /\ Node(t) \in Nodes
  BY ThreadFacts, ThreadKinds
<1> USE DEF GoesTo, Takes, Ends
<1>2. \A r : ~GetReturns(t, r, th'[t])
  BY DEF GetReturns
<1>3. \A ok : ~SaveReturns(t, ok, th'[t])
  BY <1>2 DEF SaveReturns
<1>4. ~Abandons(t, th'[t]) /\ ~IndexWritten(t, th'[t]) /\ ~DomainReleased(t, th'[t]) /\ ~AddReturns(t)
  BY DEF Abandons, DomainReleased, AddReturns, IndexWritten, Keeps
<1>5. \/ LockDomain(t) /\ th'[t].pc = "lockPut"
      \/ (LockIndex(t) \/ LockIndexPut(t)) /\ th'[t].pc = "indexPut"
      \/ (ReleaseDomain(t) \/ ReleaseDomainPut(t)) /\ th'[t].pc = "domainClear"
      \/ (ReleaseIndex(t) \/ ReleaseIndexPut(t)) /\ th'[t].pc = "indexClear"
  <2>1. CASE \/ AddBinding(t) \/ GetByNamehash(t) \/ GetLocal(t) \/ GetPendingRecord(t)
             \/ GetLatestRecord(t)
    BY <1>2, <2>1, GetMoves
  <2>2. CASE SaveRecordDHT(t) \/ SaveRecordLocal(t) \/ SaveNamehash(t) \/ SaveNamehashLocal(t)
    BY <1>3, <2>2, SaveMoves
  <2>3. CASE ValidateSignedTx(t) \/ LockDomain(t) \/ LockDomainPut(t) \/ SavePending(t)
    BY <2>3, AddMoves
  <2>4. CASE \/ FindPending(t) \/ LockIndex(t) \/ LockIndexPut(t) \/ ReadIndex(t) \/ WriteIndex(t)
             \/ ClearPending(t)
    BY <1>4, <2>4, IndexMoves
  <2>5. CASE ReleaseDomain(t) \/ ReleaseDomainPut(t) \/ ReleaseIndex(t) \/ ReleaseIndexPut(t)
    BY <1>4, <2>5, ReleaseMoves
  <2>6. CASE ReadVotes(t) \/ SaveVote(t) \/ Publish(t)
    BY <2>6, VoteMoves
  <2>7. CASE Tick(t) \/ Examine(t) \/ SubmitSignedTx(t) \/ SaveResult(t)
    BY <2>7, DecideMoves
  <2>8. QED BY <2>1, <2>2, <2>3, <2>4, <2>5, <2>6, <2>7 DEF Step
<1>6. ASSUME NEW s, Become(t, s)
      PROVE  th'[t] = s
  BY <1>1, <1>6, Moved
<1>7. CASE LockDomain(t) /\ th'[t].pc = "lockPut"
  <2>1. ~Goto(t, "refused")
    BY <1>1, <1>6, <1>7 DEF Goto, ThreadState
  <2>2. LockGet(Node(t), t, th[t].dom)
    BY <1>7, <2>1 DEF LockDomain
  <2>3. QED BY <1>1, <1>7, <2>2 DEF LockGet, TypeOK
<1>8. CASE (LockIndex(t) \/ LockIndexPut(t)) /\ th'[t].pc = "indexPut"
  <2>1. ~\E k : Become(t, [th[t] EXCEPT !.pc = "indexLock", !.tries = k])
    <3>1. ASSUME NEW k, Become(t, [th[t] EXCEPT !.pc = "indexLock", !.tries = k])
          PROVE  FALSE
      <4>1. th'[t] = [th[t] EXCEPT !.pc = "indexLock", !.tries = k]
        BY <1>6, <3>1
      <4>2. QED BY <1>1, <1>8, <4>1 DEF ThreadState
    <3>2. QED BY <3>1
  <2>2. ~Become(t, [Abandon(t) EXCEPT !.tries = 0])
    BY <1>4, GivesUp
  <2>3. ~AttemptFailed(t)
    BY <2>1, <2>2 DEF AttemptFailed
  <2>4. ~Become(t, [th[t] EXCEPT !.pc = "indexRead", !.tries = 0])
    <3>1. ASSUME Become(t, [th[t] EXCEPT !.pc = "indexRead", !.tries = 0])
          PROVE  FALSE
      <4>1. th'[t] = [th[t] EXCEPT !.pc = "indexRead", !.tries = 0]
        BY <1>6, <3>1
      <4>2. QED BY <1>1, <1>8, <4>1 DEF ThreadState
    <3>2. QED BY <3>1
  <2>5. LockIndex(t)
    BY <1>8, <2>3, <2>4 DEF LockIndexPut
  <2>6. LockGet(Node(t), t, indexKey)
    BY <2>3, <2>5 DEF LockIndex
  <2>7. QED BY <1>1, <1>8, <2>5, <2>6 DEF LockGet, TypeOK
<1>9. CASE (ReleaseDomain(t) \/ ReleaseDomainPut(t)) /\ th'[t].pc = "domainClear"
  <2>1. ~Become(t, AfterReleaseDomain(t))
    <3>1. th[t].pc \in ReleasePcs
      BY <1>9 DEF ReleaseDomain, ReleaseDomainPut, At, ReleasePcs
    <3>2. QED BY <1>4, <1>6, <3>1, AfterReleaseFields
  <2>2. ReleaseDomain(t)
    BY <1>9, <2>1 DEF ReleaseDomainPut
  <2>3. UnlockGet(Node(t), t, th[t].dom, th[t].rec.req)
    BY <2>1, <2>2 DEF ReleaseDomain
  <2>4. QED BY <1>1, <1>9, <2>2, <2>3 DEF UnlockGet, TypeOK
<1>10. CASE (ReleaseIndex(t) \/ ReleaseIndexPut(t)) /\ th'[t].pc = "indexClear"
  <2>1. ~AfterReleaseIndex(t)
    <3>1. th[t].pc \in UnlockPcs
      BY <1>10 DEF ReleaseIndex, ReleaseIndexPut, At, UnlockPcs
    <3>2. QED BY <1>4, <1>10, <3>1, StartsThreads, GivesUp DEF AfterReleaseIndex, AddReturns
  <2>2. UnlockGet(Node(t), t, indexKey, t)
    BY <1>10, <2>1 DEF ReleaseIndex, ReleaseIndexPut
  <2>3. QED BY <1>1, <1>10, <2>2 DEF UnlockGet, TypeOK
<1>11. QED BY <1>5, <1>7, <1>8, <1>9, <1>10

\* Only a call of TryAcquireIndexLock or ReleaseIndexLock that holds the mutex changes
\* the lock of the index.
LEMMA IndexCellStep ==
  ASSUME TypeOK, Reliable, NEW t \in Threads, Step(t), ~PanicInVote(t)
  PROVE  \/ lockCell'[indexKey] = lockCell[indexKey]
         \/ LockIndexPut(t) /\ lockCell'[indexKey] = t
         \/ ReleaseIndexPut(t) /\ lockCell'[indexKey] = None
<1>1. /\ lockCell \in [Keys -> Requests \cup {None} \cup Threads] /\ indexKey \in Keys
      /\ indexKey \notin Domains
  BY RegistrationAssumption DEF TypeOK
<1>2. CASE \/ UNCHANGED lockVars
           \/ RLock(Node(t), t) \/ RUnlock(Node(t), t)
           \/ LockGet(Node(t), t, th[t].dom) \/ LockGet(Node(t), t, indexKey)
           \/ UnlockGet(Node(t), t, th[t].dom, th[t].rec.req) \/ UnlockGet(Node(t), t, indexKey, t)
  BY <1>2 DEF lockVars, RLock, RUnlock, LockGet, UnlockGet
<1>3. CASE LockDomainPut(t) \/ ReleaseDomainPut(t)
  <2>1. th[t].dom \in Domains
    BY <1>3, ThreadFacts
       DEF LockDomainPut, ReleaseDomainPut, At, ThreadOK, Control, LockPcs, UnlockPcs, ReleasePcs,
       GetPcs
  <2>2. \/ lockCell' = lockCell \/ \E v : lockCell' = [lockCell EXCEPT ![th[t].dom] = v]
    BY <1>3 DEF LockDomainPut, ReleaseDomainPut, LockPut, LockPutError, UnlockPut
  <2>3. QED BY <1>1, <2>1, <2>2
<1>4. CASE LockIndexPut(t) /\ LockPut(Node(t), t, indexKey, t)
  BY <1>1, <1>4 DEF LockPut
<1>5. ~LockPutError(Node(t), t, indexKey, t)
  BY DHTTypes DEF LockPutError, Reliable
<1>6. CASE ReleaseIndexPut(t) /\ UnlockPut(Node(t), t, indexKey, t)
  BY <1>1, <1>6, DHTTypes DEF UnlockPut, Reliable
<1>7. QED BY <1>2, <1>3, <1>4, <1>5, <1>6, LockFrame

-----------------------------------------------------------------------------
(* The section between TryAcquireIndexLock and ReleaseIndexLock *)

SectionPcs ==
  {"indexRead", "indexWrite", "savePending", "clear"} \cup SavePcs \cup ReleasePcs \cup UnlockPcs

LEMMA SectionAt ==
  ASSUME TypeOK, NEW t \in Threads
  PROVE  /\ InSection(t) => th[t].pc \in SectionPcs /\ th[t].dom \in Domains
         /\ th[t].pc \in {"indexRead", "indexWrite", "savePending", "clear"} \cup UnlockPcs => InSection(t)
<1>1. ThreadOK(t, th[t])
  BY ThreadFacts
<1>2. QED BY <1>1
          DEF ThreadOK, Control, InSection, SectionPcs, GetPcs, SavePcs, LockPcs, UnlockPcs,
             ReleasePcs

\* How a thread comes to hold the lock of the index, and where it goes with it.
SectionMove(t) ==
  \/ LockIndexPut(t) /\ LockPut(Node(t), t, indexKey, t) /\ th'[t].pc = "indexRead"
  \/ ReadIndex(t) /\ th'[t].pc = "indexWrite" /\ th'[t].idx = index
  \/ /\ WriteIndex(t) /\ th'[t].dom = th[t].dom
     /\ \/ th'[t].pc = "savePending" /\ index' = index \cup {th[t].dom}
        \/ th'[t].pc \in {"saveRecord", "clear"} /\ index' = index \ {th[t].dom}
  \/ SavePending(t) /\ th'[t].pc = "releaseIndex"
  \/ /\ SaveRecordDHT(t) \/ SaveRecordLocal(t) \/ SaveNamehash(t) \/ SaveNamehashLocal(t)
     /\ InSection(t) /\ th'[t].pc \in SavePcs \cup {"clear"} /\ th'[t].dom = th[t].dom
  \/ ClearPending(t) /\ th'[t].pc = "releaseDomain"
  \/ /\ ReleaseDomain(t) \/ ReleaseDomainPut(t) \/ ReleaseIndex(t) \/ ReleaseIndexPut(t)
     /\ InSection(t) /\ th[t].pc # "indexClear" /\ th'[t].pc \in ReleasePcs \cup UnlockPcs

\* What TryAcquireIndexLock, the read and the write of the list do to a thread.
LEMMA LockedReadWritten ==
  ASSUME TypeOK, Reliable, NEW t \in Threads, InSection(t)',
         th[t].pc = "indexWrite" => th[t].idx = index
  PROVE  /\ ~LockIndex(t)
         /\ LockIndexPut(t) => LockPut(Node(t), t, indexKey, t) /\ th'[t].pc = "indexRead"
         /\ ReadIndex(t) => th'[t].pc = "indexWrite" /\ th'[t].idx = index
         /\ WriteIndex(t) =>
              /\ th'[t].dom = th[t].dom
              /\ \/ th'[t].pc = "savePending" /\ index' = index \cup {th[t].dom}
                 \/ th'[t].pc \in {"saveRecord", "clear"} /\ index' = index \ {th[t].dom}
<1>1. ThreadsOK /\ th[t] \in ThreadState /\ ThreadOK(t, th[t])
  BY ThreadFacts
<1>2. ASSUME NEW s, Become(t, s)
      PROVE  th'[t] = s
  BY <1>1, <1>2, Moved
<1>3. ~AttemptFailed(t)
  <2>1. ASSUME NEW k, Become(t, [th[t] EXCEPT !.pc = "indexLock", !.tries = k])
        PROVE  FALSE
    <3>1. th'[t] = [th[t] EXCEPT !.pc = "indexLock", !.tries = k]
      BY <1>2, <2>1
    <3>2. QED BY <1>1, <3>1 DEF InSection, ThreadState
  <2>2. ASSUME Become(t, [Abandon(t) EXCEPT !.tries = 0])
        PROVE  FALSE
    <3>1. Abandons(t, th'[t])
      BY <2>2, GivesUp
    <3>2. t[1] \notin {"add", "confirm", "reject"}
      BY ThreadKinds
    <3>3. QED BY <3>1, <3>2 DEF Abandons, InSection
  <2>3. QED BY <2>1, <2>2 DEF AttemptFailed
<1>4. ~LockIndex(t)
  <2>1. ASSUME Goto(t, "indexPut")
        PROVE  FALSE
    <3>1. th'[t] = [th[t] EXCEPT !.pc = "indexPut"]
      BY <1>2, <2>1 DEF Goto
    <3>2. QED BY <1>1, <3>1 DEF InSection, ThreadState
  <2>2. QED BY <1>3, <2>1 DEF LockIndex
<1>5. ASSUME LockIndexPut(t)
      PROVE  LockPut(Node(t), t, indexKey, t) /\ th'[t].pc = "indexRead"
  <2>1. /\ LockPut(Node(t), t, indexKey, t)
        /\ Become(t, [th[t] EXCEPT !.pc = "indexRead", !.tries = 0])
    BY <1>3, <1>5 DEF LockIndexPut
  <2>2. th'[t] = [th[t] EXCEPT !.pc = "indexRead", !.tries = 0]
    BY <1>2, <2>1
  <2>3. QED BY <1>1, <2>1, <2>2 DEF ThreadState
<1>6. ASSUME ReadIndex(t)
      PROVE  th'[t].pc = "indexWrite" /\ th'[t].idx = index
  <2>1. Become(t, [th[t] EXCEPT !.pc = "indexWrite", !.idx = index])
    BY <1>6 DEF ReadIndex, Reliable
  <2>2. th'[t] = [th[t] EXCEPT !.pc = "indexWrite", !.idx = index]
    BY <1>2, <2>1
  <2>3. QED BY <1>1, <2>2 DEF ThreadState
<1>7. ASSUME WriteIndex(t)
      PROVE  /\ th'[t].dom = th[t].dom
             /\ \/ th'[t].pc = "savePending" /\ index' = index \cup {th[t].dom}
                \/ th'[t].pc \in {"saveRecord", "clear"} /\ index' = index \ {th[t].dom}
  <2> DEFINE d == th[t].dom
             new == IF th[t].op = "add" THEN index \cup {d} ELSE index \ {d}
  <2>1. th[t].idx = index /\ th[t].op \in {"add", "confirm", "reject"}
    BY <1>1, <1>7
       DEF WriteIndex, At, ThreadOK, Control, GetPcs, SavePcs, LockPcs, UnlockPcs, ReleasePcs
  <2>2. /\ th'[t].dom = th[t].dom
        /\ \/ th[t].op = "add" /\ th'[t].pc = "savePending"
           \/ th[t].op \in {"confirm", "reject"} /\ th'[t].pc \in {"saveRecord", "clear"}
    BY <1>7, IndexMoves DEF IndexWritten, Keeps, Reliable
  <2>3. index' = new
    <3>1. \/ th[t].op = "add" /\ d \in index /\ index' = index
          \/ \E p \in PutValue(index, new) : index' = p.value
      BY <1>7, <2>1 DEF WriteIndex
    <3>2. th[t].op = "add" /\ d \in index => new = index
      OBVIOUS
    <3> HIDE DEF new
    <3>3. QED BY <3>1, <3>2, DHTTypes DEF Reliable
  <2>4. QED BY <2>1, <2>2, <2>3
<1>8. QED BY <1>4, <1>5, <1>6, <1>7

LEMMA SectionMoves ==
  ASSUME TypeOK, StartedByAdd, Reliable, IndexHeld, NEW t \in Threads, Step(t), ~PanicInVote(t),
         InSection(t)'
  PROVE  SectionMove(t)
<1> USE DEF GoesTo, Takes, Ends
<1>1. th[t].pc = "indexWrite" => th[t].idx = index
  BY SectionAt DEF IndexHeld
<1>2. t[1] \notin {"add", "confirm", "reject"}
  BY ThreadKinds
<1>3. \A r : ~GetReturns(t, r, th'[t])
  BY DEF GetReturns, InSection
<1>4. ~Abandons(t, th'[t]) /\ ~AddReturns(t)
  BY <1>2 DEF Abandons, AddReturns, InSection
<1>5. ASSUME NEW ok, ok, SaveReturns(t, ok, th'[t])
      PROVE  th[t].op = "confirm" /\ th'[t].pc = "clear" /\ th'[t].dom = th[t].dom
  BY <1>3, <1>5 DEF SaveReturns, InSection
<1>6. CASE \/ AddBinding(t) \/ GetByNamehash(t) \/ GetLocal(t) \/ GetPendingRecord(t)
           \/ GetLatestRecord(t)
  <2>1. CASE AddBinding(t) \/ GetByNamehash(t)
    BY <2>1, GetMoves DEF InSection
  <2>2. CASE GetLocal(t) \/ GetPendingRecord(t) \/ GetLatestRecord(t)
    <3>1. th[t].op \notin {"add", "confirm", "reject"}
      BY <2>2, ThreadFacts
         DEF GetLocal, GetPendingRecord, GetLatestRecord, At, ThreadOK, Control, LockPcs, UnlockPcs,
         ReleasePcs, SavePcs
    <3>2. QED BY <1>3, <2>2, <3>1, GetMoves DEF InSection
  <2>3. QED BY <1>6, <2>1, <2>2
<1>7. CASE SaveRecordDHT(t) \/ SaveRecordLocal(t) \/ SaveNamehash(t) \/ SaveNamehashLocal(t)
  <2>1. th[t].pc \in SavePcs
    BY <1>7 DEF SaveRecordDHT, SaveRecordLocal, SaveNamehash, SaveNamehashLocal, At, SavePcs
  <2>2. /\ th'[t].dom = th[t].dom /\ th'[t].pc \in SavePcs \cup {"clear"}
        /\ th[t].op \in {"add", "confirm", "reject"}
    <3>1. CASE SaveRecordDHT(t)
      <4>1. GoesTo(t, "saveLocal", th[t].op)
        BY <3>1, SaveMoves, DHTTypes DEF Reliable
      <4>2. QED BY <4>1 DEF Keeps, SavePcs, InSection
    <3>2. CASE SaveRecordLocal(t)
      <4>1. GoesTo(t, "saveName", th[t].op)
        BY <3>2, SaveMoves
      <4>2. QED BY <4>1 DEF Keeps, SavePcs, InSection
    <3>3. CASE SaveNamehash(t)
      <4>1. GoesTo(t, "saveNameLocal", th[t].op)
        BY <3>3, SaveMoves DEF Reliable
      <4>2. QED BY <4>1 DEF Keeps, SavePcs, InSection
    <3>4. CASE SaveNamehashLocal(t)
      BY <1>5, <3>4, SaveMoves
    <3>5. QED BY <1>7, <3>1, <3>2, <3>3, <3>4
  <2>3. InSection(t)
    BY <2>1, <2>2 DEF InSection, SavePcs
  <2>4. QED BY <1>7, <2>2, <2>3 DEF SectionMove
<1>8. CASE ValidateSignedTx(t) \/ LockDomain(t) \/ LockDomainPut(t) \/ SavePending(t)
  BY <1>8, AddMoves DEF InSection, SectionMove
<1>9. CASE FindPending(t)
  BY <1>4, <1>9, IndexMoves DEF InSection
<1>10. CASE LockIndex(t) \/ LockIndexPut(t) \/ ReadIndex(t) \/ WriteIndex(t)
  BY <1>1, <1>10, LockedReadWritten DEF SectionMove
<1>11. CASE ClearPending(t)
  BY <1>11, IndexMoves DEF SectionMove
<1>12. CASE ReleaseDomain(t) \/ ReleaseDomainPut(t)
  <2>1. th[t].pc \in {"releaseDomain", "domainClear"}
    BY <1>12 DEF ReleaseDomain, ReleaseDomainPut, At
  <2>2. /\ th[t].op = th'[t].op /\ th'[t].pc \in ReleasePcs \cup UnlockPcs
    BY <1>12, ReleaseMoves DEF DomainReleased, InSection, ReleasePcs, UnlockPcs
  <2>3. QED BY <1>12, <2>1, <2>2 DEF InSection, SectionMove
<1>13. CASE ReleaseIndex(t) \/ ReleaseIndexPut(t)
  <2>1. GoesTo(t, "indexClear", th[t].op)
    BY <1>4, <1>13, ReleaseMoves
  <2>2. ~ReleaseIndexPut(t)
    <3>1. ASSUME ReleaseIndexPut(t)
          PROVE  FALSE
      <4>1. th[t].pc \in UnlockPcs /\ AfterReleaseIndex(t)
        BY <3>1 DEF ReleaseIndexPut, At, UnlockPcs
      <4>2. QED BY <1>4, <2>1, <4>1, StartsThreads, GivesUp DEF AfterReleaseIndex
    <3>2. QED BY <3>1
  <2>3. th[t].pc = "releaseIndex"
    BY <1>13, <2>2 DEF ReleaseIndex, At
  <2>4. QED BY <1>13, <2>1, <2>3 DEF InSection, SectionMove, UnlockPcs
<1>14. CASE ReadVotes(t) \/ SaveVote(t) \/ Publish(t)
  BY <1>2, <1>14, VoteMoves DEF InSection
<1>15. CASE Tick(t) \/ Examine(t) \/ SubmitSignedTx(t) \/ SaveResult(t)
  BY <1>2, <1>15, DecideMoves DEF InSection
<1>16. QED BY <1>6, <1>7, <1>8, <1>9, <1>10, <1>11, <1>12, <1>13, <1>14, <1>15 DEF Step

\* Only the thread that holds the lock of the index changes the list or a pending record.
LEMMA SectionWrites ==
  ASSUME TypeOK, NEW t \in Threads, Step(t), ~InSection(t)
  PROVE  UNCHANGED <<index, pending>>
<1>1. ~WriteIndex(t) /\ ~SavePending(t) /\ ~ClearPending(t)
  BY SectionAt DEF WriteIndex, SavePending, ClearPending, At
<1>2. QED BY <1>1, DHTFrame DEF dhtVars

LEMMA IndexLockedStep ==
  ASSUME TypeOK, StartedByAdd, OneNode, Reliable, IndexLocked, IndexHeld,
         NEW t \in Threads, Step(t), ~PanicInVote(t)
  PROVE  IndexLocked'
<1> DEFINE Calls == {"lockPut", "indexPut", "domainClear", "indexClear"}
<1>1. \A u \in Threads : u # None /\ Node(u) = Node(t) /\ Node(u) \in Nodes
  BY ThreadAssumption, ThreadKinds DEF OneNode
<1>2. ASSUME NEW u \in Threads, u # t
      PROVE  /\ th'[u].pc \in Calls \/ InSection(u)' => th'[u].pc = th[u].pc /\ th'[u].op = th[u].op
             /\ InSection(u)' => InSection(u)
  <2>1. u[1] \notin {"add", "confirm", "reject"}
    BY ThreadKinds
  <2>2. QED BY <1>2, <2>1, OtherThreads DEF InSection
<1>3. ASSUME NEW u \in Threads, th'[u].pc \in Calls
      PROVE  lockMutex'[Node(u)] = u
  <2>1. CASE u = t
    BY <1>3, <2>1, MutexTaken
  <2>2. CASE u # t
    <3>1. lockMutex[Node(u)] = u
      BY <1>2, <1>3, <2>2 DEF IndexLocked
    <3>2. QED BY <1>1, <2>2, <3>1, MutexStep
  <2>3. QED BY <2>1, <2>2
<1>4. LockIndexPut(t) \/ ReleaseIndexPut(t) => lockMutex[Node(t)] = t
  BY DEF LockIndexPut, ReleaseIndexPut, At, IndexLocked
<1>5. ASSUME NEW u \in Threads, th'[u].pc = "indexPut"
      PROVE  lockCell'[indexKey] = None
  <2>1. CASE u = t
    <3>1. LockIndex(t) /\ lockCell[indexKey] = None
      BY <1>5, <2>1, MutexTaken, DHTTypes DEF Reliable
    <3>2. ~LockIndexPut(t) /\ ~ReleaseIndexPut(t)
      BY <3>1 DEF LockIndex, LockIndexPut, ReleaseIndexPut, At
    <3>3. QED BY <3>1, <3>2, IndexCellStep
  <2>2. CASE u # t
    <3>1. lockMutex[Node(u)] = u /\ lockCell[indexKey] = None
      BY <1>2, <1>5, <2>2 DEF IndexLocked
    <3>2. ~LockIndexPut(t) /\ ~ReleaseIndexPut(t)
      BY <1>1, <1>4, <2>2, <3>1
    <3>3. QED BY <3>1, <3>2, IndexCellStep
  <2>3. QED BY <2>1, <2>2
<1>6. LockIndexPut(t) => lockCell[indexKey] = None
  BY DEF LockIndexPut, At, IndexLocked
<1>7. ReleaseIndexPut(t) => th[t].pc = "indexClear" /\ InSection(t)
  BY SectionAt DEF ReleaseIndexPut, At, UnlockPcs
<1>8. ASSUME NEW u \in Threads, InSection(u)'
      PROVE  lockCell'[indexKey] = u
  <2>1. CASE u = t
    <3>1. SectionMove(t)
      BY <1>8, <2>1, SectionMoves
    <3>2. CASE LockIndexPut(t) /\ LockPut(Node(t), t, indexKey, t)
      <4>1. lockCell' = [lockCell EXCEPT ![indexKey] = t]
        BY <3>2 DEF LockPut
      <4>2. lockCell \in [Keys -> Requests \cup {None} \cup Threads] /\ indexKey \in Keys
        BY RegistrationAssumption DEF TypeOK
      <4>3. QED BY <2>1, <4>1, <4>2
    <3>3. CASE ~LockIndexPut(t)
      <4>1. InSection(t) /\ th[t].pc # "indexClear"
        BY <3>1, <3>3, SectionAt
           DEF SectionMove, ReadIndex, WriteIndex, SavePending, SaveRecordDHT, SaveRecordLocal,
           SaveNamehash, SaveNamehashLocal, ClearPending, At
      <4>2. ~ReleaseIndexPut(t)
        BY <1>7, <4>1
      <4>3. lockCell[indexKey] = t
        BY <4>1 DEF IndexLocked
      <4>4. QED BY <2>1, <3>3, <4>2, <4>3, IndexCellStep
    <3>4. QED BY <3>1, <3>2, <3>3, LockedReadWritten, <1>8, <2>1, SectionAt DEF IndexHeld
  <2>2. CASE u # t
    <3>1. lockCell[indexKey] = u
      BY <1>2, <1>8, <2>2 DEF IndexLocked
    <3>2. ~LockIndexPut(t)
      BY <1>1, <1>6, <3>1
    <3>3. ~ReleaseIndexPut(t)
      BY <1>7, <2>2, <3>1 DEF IndexLocked
    <3>4. QED BY <3>1, <3>2, <3>3, IndexCellStep
  <2>3. QED BY <2>1, <2>2
<1>9. QED BY <1>3, <1>5, <1>8 DEF IndexLocked

LEMMA IndexHeldStep ==
  ASSUME TypeOK, StartedByAdd, Reliable, IndexInvariant, NEW t \in Threads, Step(t), ~PanicInVote(t)
  PROVE  IndexHeld'
<1> USE DEF IndexInvariant
<1>1. index \subseteq Domains /\ pending \in [Domains -> RecordOrNone]
  BY DEF TypeOK
<1> DEFINE Listed(u, d) ==
      d \in index' \/ (d = th'[u].dom /\ th'[u].pc \in SavePcs \cup {"clear"})
<1>2. ASSUME NEW u \in Threads, u # t, InSection(u)'
      PROVE  /\ th'[u].pc = "indexWrite" => th'[u].idx = index'
             /\ th'[u].pc = "savePending" => th'[u].dom \in index'
             /\ \A d \in Domains : pending'[d] # None => Listed(u, d)
  <2>1. th'[u] = th[u]
    <3>1. u[1] \notin {"add", "confirm", "reject"}
      BY ThreadKinds
    <3>2. QED BY <1>2, <3>1, OtherThreads DEF InSection
  <2>2. InSection(u)
    BY <1>2, <2>1 DEF InSection
  <2>3. ~InSection(t)
    BY <1>2, <2>2 DEF IndexLocked
  <2>4. UNCHANGED <<index, pending>>
    BY <2>3, SectionWrites
  <2>5. QED BY <2>1, <2>2, <2>4 DEF IndexHeld
<1>3. ASSUME InSection(t)'
      PROVE  /\ th'[t].pc = "indexWrite" => th'[t].idx = index'
             /\ th'[t].pc = "savePending" => th'[t].dom \in index'
             /\ \A d \in Domains : pending'[d] # None => Listed(t, d)
  <2>1. SectionMove(t)
    BY <1>3, SectionMoves
  <2>2. InSection(t) =>
          /\ th[t].pc = "savePending" => th[t].dom \in index
          /\ \A d \in Domains : pending[d] # None =>
               d \in index \/ (d = th[t].dom /\ th[t].pc \in SavePcs \cup {"clear"})
    BY DEF IndexHeld
  <2>3. \/ UNCHANGED <<index, pending>>
        \/ WriteIndex(t) /\ UNCHANGED pending
        \/ (SavePending(t) \/ ClearPending(t)) /\ UNCHANGED index
    BY DHTFrame DEF dhtVars
  <2>4. CASE LockIndexPut(t) /\ LockPut(Node(t), t, indexKey, t) /\ th'[t].pc = "indexRead"
    <3>1. lockCell[indexKey] = None
      BY <2>4 DEF LockIndexPut, At, IndexLocked
    <3>2. UNCHANGED <<index, pending>>
      BY <2>4 DEF LockIndexPut, dhtVars
    <3>3. QED BY <2>4, <3>1, <3>2 DEF IndexListsPending
  <2>5. CASE ReadIndex(t) /\ th'[t].pc = "indexWrite" /\ th'[t].idx = index
    <3>1. InSection(t) /\ th[t].pc = "indexRead" /\ UNCHANGED <<index, pending>>
      BY <2>5, SectionAt DEF ReadIndex, At, dhtVars
    <3>2. QED BY <2>2, <2>5, <3>1 DEF SavePcs
  <2>6. CASE /\ WriteIndex(t) /\ th'[t].dom = th[t].dom
             /\ \/ th'[t].pc = "savePending" /\ index' = index \cup {th[t].dom}
                \/ th'[t].pc \in {"saveRecord", "clear"} /\ index' = index \ {th[t].dom}
    <3>1. InSection(t) /\ th[t].pc = "indexWrite" /\ UNCHANGED pending
      BY <2>6, SectionAt DEF WriteIndex, At
    <3>2. QED BY <2>2, <2>6, <3>1 DEF SavePcs
  <2>7. CASE SavePending(t) /\ th'[t].pc = "releaseIndex"
    <3>1. InSection(t) /\ th[t].pc = "savePending" /\ UNCHANGED index
      BY <2>7, SectionAt DEF SavePending, At
    <3>2. \E v : pending' = [pending EXCEPT ![th[t].dom] = v]
      BY <2>7 DEF SavePending
    <3>3. QED BY <1>1, <2>2, <2>7, <3>1, <3>2 DEF SavePcs
  <2>8. CASE /\ SaveRecordDHT(t) \/ SaveRecordLocal(t) \/ SaveNamehash(t) \/ SaveNamehashLocal(t)
             /\ InSection(t) /\ th'[t].pc \in SavePcs \cup {"clear"} /\ th'[t].dom = th[t].dom
    <3>1. UNCHANGED <<index, pending>>
      BY <2>8 DEF SaveRecordDHT, SaveRecordLocal, SaveNamehash, SaveNamehashLocal, dhtVars
    <3>2. th[t].pc \in SavePcs
      BY <2>8 DEF SaveRecordDHT, SaveRecordLocal, SaveNamehash, SaveNamehashLocal, At, SavePcs
    <3>3. QED BY <2>2, <2>8, <3>1, <3>2 DEF SavePcs
  <2>9. CASE ClearPending(t) /\ th'[t].pc = "releaseDomain"
    <3>1. InSection(t) /\ th[t].pc = "clear" /\ UNCHANGED index
      BY <2>9, SectionAt DEF ClearPending, At
    <3>2. pending' = [pending EXCEPT ![th[t].dom] = None]
      <4>1. PICK p \in PutValue(pending[th[t].dom], None) :
              pending' = [pending EXCEPT ![th[t].dom] = p.value]
        BY <2>9 DEF ClearPending
      <4>2. p.value = None
        BY DHTTypes DEF Reliable
      <4>3. QED BY <4>1, <4>2
    <3>3. QED BY <1>1, <2>2, <2>9, <3>1, <3>2 DEF SavePcs
  <2>10. CASE /\ ReleaseDomain(t) \/ ReleaseDomainPut(t) \/ ReleaseIndex(t) \/ ReleaseIndexPut(t)
              /\ InSection(t) /\ th[t].pc # "indexClear" /\ th'[t].pc \in ReleasePcs \cup UnlockPcs
    <3>1. UNCHANGED <<index, pending>>
      BY <2>10 DEF ReleaseDomain, ReleaseDomainPut, ReleaseIndex, ReleaseIndexPut, dhtVars
    <3>2. th[t].pc \notin SavePcs \cup {"clear"}
      BY <2>10
         DEF ReleaseDomain, ReleaseDomainPut, ReleaseIndex, ReleaseIndexPut, At, SavePcs
    <3>3. QED BY <2>2, <2>10, <3>1, <3>2 DEF ReleasePcs, UnlockPcs
  <2>11. QED BY <2>1, <2>4, <2>5, <2>6, <2>7, <2>8, <2>9, <2>10 DEF SectionMove
<1>4. QED BY <1>2, <1>3 DEF IndexHeld

LEMMA IndexListsStep ==
  ASSUME TypeOK, StartedByAdd, Reliable, IndexInvariant, NEW t \in Threads, Step(t), ~PanicInVote(t)
  PROVE  IndexListsPending'
<1> USE DEF IndexInvariant
<1>1. SUFFICES ASSUME lockCell'[indexKey] = None
               PROVE  \A d \in Domains : pending'[d] # None => d \in index'
  BY DEF IndexListsPending
<1>2. t # None
  BY ThreadAssumption
<1>3. CASE ReleaseIndexPut(t)
  <2>1. InSection(t) /\ th[t].pc = "indexClear" /\ UNCHANGED <<index, pending>>
    BY <1>3, SectionAt DEF ReleaseIndexPut, At, UnlockPcs, dhtVars
  <2>2. QED BY <2>1 DEF IndexHeld, SavePcs
<1>4. CASE ~ReleaseIndexPut(t)
  <2>1. lockCell[indexKey] = None
    BY <1>1, <1>2, <1>4, IndexCellStep
  <2>2. ~InSection(t)
    BY <1>2, <2>1 DEF IndexLocked
  <2>3. UNCHANGED <<index, pending>>
    BY <2>2, SectionWrites
  <2>4. QED BY <2>1, <2>3 DEF IndexListsPending
<1>5. QED BY <1>3, <1>4

LEMMA IndexStop ==
  ASSUME TypeOK, StartedByAdd, OneNode, IndexInvariant, NEW n \in Nodes, Stop(n)
  PROVE  IndexInvariant'
<1>1. UNCHANGED <<lockCell, index, pending>>
  BY DEF Stop, dhtVars
<1>2. ASSUME NEW u \in Threads
      PROVE  /\ th'[u].pc \notin {"lockPut", "indexPut", "domainClear", "indexClear"}
             /\ ~InSection(u)'
  <2>1. Node(u) = n /\ u[1] \notin {"add", "confirm", "reject"} /\ ThreadOK(u, th[u])
    BY ThreadKinds, ThreadFacts DEF OneNode
  <2>2. CASE th'[u] # th[u]
    BY <2>1, <2>2, StoppedThreads DEF InSection
  <2>3. CASE th'[u] = th[u]
    <3>1. CASE u[1] = "tick"
      <4>1. th'[u] = Idle(u)
        BY <2>1, <3>1 DEF Stop
      <4>2. QED BY <3>1, <4>1 DEF Idle, InSection
    <3>2. CASE u[1] # "tick" /\ ~Resting(u)
      <4>1. th'[u] = [Idle(u) EXCEPT !.pc = "dead"]
        BY <2>1, <3>2 DEF Stop
      <4>2. "dead" \in Pcs
        BY DEF Pcs
      <4> HIDE DEF Idle
      <4>3. th'[u].pc = "dead" /\ th'[u].op = u[1]
        BY <4>1, <4>2, Returned
      <4>4. QED BY <2>1, <4>3 DEF InSection
    <3>3. CASE Resting(u)
      <4>1. th[u].pc \in {"get", "update", "off", "tick", "done", "refused", "dead"}
        BY <3>3, ThreadKinds DEF Resting, Starts, At, Idle
      <4>2. QED BY <2>1, <2>3, <4>1
                DEF InSection, ThreadOK, Control, GetPcs, SavePcs, LockPcs, UnlockPcs, ReleasePcs
    <3>4. QED BY <3>1, <3>2, <3>3
  <2>4. QED BY <2>2, <2>3
<1>3. IndexLocked' /\ IndexHeld'
  BY <1>2 DEF IndexLocked, IndexHeld
<1>4. QED BY <1>1, <1>3 DEF IndexInvariant, IndexListsPending

LEMMA IndexInvariantKept ==
  ASSUME TypeOK, StartedByAdd, OneNode, Reliable, IndexInvariant, [Next]_vars
  PROVE  IndexInvariant'
<1>1. CASE \E t \in Threads : Runs(t)
  <2>1. PICK t \in Threads : Step(t)
    BY <1>1 DEF Runs
  <2>2. CASE PanicInVote(t)
    BY <2>2, IndexStop, ThreadKinds DEF PanicInVote
  <2>3. CASE ~PanicInVote(t)
    BY <2>1, <2>3, IndexLockedStep, IndexHeldStep, IndexListsStep DEF IndexInvariant
  <2>4. QED BY <2>2, <2>3
<1>2. CASE \E n \in Nodes : Crash(n)
  BY <1>2, IndexStop DEF Crash
<1>3. CASE \E n \in Nodes : Restart(n)
  <2>1. UNCHANGED <<lockCell, lockMutex, index, pending, th>>
    BY <1>3 DEF Restart, lockVars, dhtVars
  <2>2. QED BY <2>1 DEF IndexInvariant, IndexLocked, IndexHeld, IndexListsPending, InSection
<1>4. CASE UNCHANGED vars
  <2>1. UNCHANGED <<lockCell, lockMutex, index, pending, th>>
    BY <1>4 DEF vars, lockVars, dhtVars
  <2>2. QED BY <2>1 DEF IndexInvariant, IndexLocked, IndexHeld, IndexListsPending, InSection
<1>5. CASE \E r \in Requests : Mine(r) \/ Lapse(r)
  <2>1. UNCHANGED <<lockCell, lockMutex, index, pending, th>>
    BY <1>5, ChainSteps DEF lockVars, dhtVars
  <2>2. QED BY <2>1 DEF IndexInvariant, IndexLocked, IndexHeld, IndexListsPending, InSection
<1>6. QED BY <1>1, <1>2, <1>3, <1>4, <1>5 DEF Next

LEMMA IndexInvariantInit ==
  ASSUME Init
  PROVE  IndexInvariant
<1>1. ASSUME NEW t \in Threads
      PROVE  /\ th[t].pc \notin {"lockPut", "indexPut", "domainClear", "indexClear"}
             /\ ~InSection(t)
  <2>1. t[1] \notin {"add", "confirm", "reject"}
    BY ThreadKinds
  <2>2. QED BY <2>1, InitIdle DEF InSection
<1>2. QED BY <1>1 DEF Init, IndexInvariant, IndexLocked, IndexHeld, IndexListsPending

\* On one node whose accesses to the DHT do not fail, the index lists every pending
\* record whenever nobody is updating it: TryAcquireIndexLock makes the
\* read-modify-writes of SavePendingRecordToDHT, ConfirmRecord and RejectRecord
\* exclude each other, whatever submissions or publications fail, and a crash in the
\* middle of one leaves the index locked.
THEOREM IndexIsComplete ==
  ASSUME OneNode, Reliable
  PROVE  Spec => []IndexListsPending
<1> DEFINE Inv == TypeOK /\ StartedByAdd /\ IndexInvariant
<1>1. Init => Inv
  BY InitTypes, IndexInvariantInit
<1>2. Inv /\ [Next]_vars => Inv'
  <2> SUFFICES ASSUME Inv, [Next]_vars PROVE Inv'
    OBVIOUS
  <2>1. QED BY TypesKept, IndexInvariantKept
<1>3. Inv => IndexListsPending
  BY DEF IndexInvariant
<1>4. QED BY <1>1, <1>2, <1>3, PTL DEF Spec
=============================================================================
