-------------------------- MODULE DomainLockProofs --------------------------
(***************************************************************************)
(* For every number of nodes, keys and sessions, whatever writes fail and  *)
(* whichever nodes crash: the DHT lock excludes the sessions of a key that *)
(* one node contends for, and implements the abstract lock on those keys.  *)
(* The one fault that must not happen is a read error, which               *)
(* TryAcquireLock takes for a free lock.                                   *)
(***************************************************************************)
EXTENDS DomainLock, TLAPS

USE SessionsAssumption DEF Steps

\* What a step of a session needs to know about the constants.
LEMMA SessionConstants ==
  ASSUME NEW s \in Sessions
  PROVE  s # None /\ KeyOf[s] \in Keys /\ Home[s] \in Nodes /\ Releaser[s] \in Nodes
  OBVIOUS

\* Every variable keeps its type: pendingLocks and the cells hold ids of
\* sessions, and nothing takes lockMutex for reading in these calls.
LEMMA TypeStep ==
  ASSUME TypeOK, [Next]_vars
  PROVE  TypeOK'
<1>1. ASSUME NEW s \in Sessions, TryAcquireLock(s)
      PROVE  TypeOK'
  <2>1. pc' \in [Sessions -> Steps]
    BY <1>1 DEF TypeOK, TryAcquireLock, Goto
  <2>2. lockMutex' \in [Nodes -> Sessions \cup {None}]
    BY <1>1 DEF TypeOK, TryAcquireLock, LockBusy, LockGet, lockVars
  <2>3. UNCHANGED <<lockCell, pendingLocks, readers>>
    BY <1>1 DEF TryAcquireLock, LockBusy, LockGet, lockVars
  <2>4. QED BY <2>1, <2>2, <2>3 DEF TypeOK
<1>2. ASSUME NEW s \in Sessions, PutLock(s)
      PROVE  TypeOK'
  <2>1. CASE LockPut(Home[s], s, KeyOf[s], s)
    BY <1>2, <2>1 DEF TypeOK, PutLock, Goto, LockPut, LockPutError
  <2>2. CASE LockPutError(Home[s], s, KeyOf[s], s)
    BY <1>2, <2>2 DEF TypeOK, PutLock, Goto, LockPut, LockPutError, PutValue
  <2>3. QED BY <1>2, <2>1, <2>2 DEF PutLock
<1>3. ASSUME NEW s \in Sessions, ReleaseLock(s)
      PROVE  TypeOK'
  <2>1. pc' \in [Sessions -> Steps]
    BY <1>3 DEF TypeOK, ReleaseLock, Goto
  <2>2. lockMutex' \in [Nodes -> Sessions \cup {None}]
    BY <1>3 DEF TypeOK, ReleaseLock, UnlockInvalid, UnlockGet, lockVars
  <2>3. UNCHANGED <<lockCell, pendingLocks, readers>>
    BY <1>3 DEF ReleaseLock, UnlockInvalid, UnlockGet, lockVars
  <2>4. QED BY <2>1, <2>2, <2>3 DEF TypeOK
<1>4. ASSUME NEW s \in Sessions, ClearLock(s)
      PROVE  TypeOK'
  BY <1>4 DEF TypeOK, ClearLock, Goto, UnlockPut, PutValue
<1>5. ASSUME NEW n \in Nodes, Crash(n)
      PROVE  TypeOK'
  <2>1. lockMutex[n] # None => CellsAfterWrite(n) \in [Keys -> Sessions \cup {None}]
    BY DEF TypeOK, CellsAfterWrite
  <2>2. lockCell' \in [Keys -> Sessions \cup {None}]
    BY <1>5, <2>1 DEF TypeOK, Crash
  <2>3. pc' \in [Sessions -> Steps]
    BY <1>5 DEF TypeOK, Crash
  <2>4. QED BY <1>5, <2>2, <2>3 DEF TypeOK, Crash
<1>6. CASE UNCHANGED vars
  BY <1>6 DEF TypeOK, vars, lockVars
<1>7. QED BY <1>1, <1>2, <1>3, <1>4, <1>5, <1>6 DEF Next, Step

\* The mutex invariants: a call is between its read and its write exactly while
\* it holds the lockMutex of the node that runs it.
LEMMA MutexStep ==
  ASSUME TypeOK, MutexOfCall, CallOfMutex, [Next]_vars
  PROVE  MutexOfCall' /\ CallOfMutex'
<1> USE DEF TypeOK, MutexOfCall, CallOfMutex, RunsAt
<1>1. ASSUME NEW s \in Sessions, TryAcquireLock(s)
      PROVE  MutexOfCall' /\ CallOfMutex'
  <2>1. CASE Goto(s, "idle", "failed") /\ LockBusy(Home[s], KeyOf[s])
    BY <2>1 DEF Goto, LockBusy, lockVars
  <2>2. CASE Goto(s, "idle", "put") /\ LockGet(Home[s], s, KeyOf[s])
    BY <2>2, SessionConstants DEF Goto, LockGet, MutexFree
  <2>3. QED BY <1>1, <2>1, <2>2 DEF TryAcquireLock
<1>2. ASSUME NEW s \in Sessions, PutLock(s)
      PROVE  MutexOfCall' /\ CallOfMutex'
  <2>1. /\ pc[s] = "put" /\ lockMutex[Home[s]] = s
        /\ lockMutex' = [lockMutex EXCEPT ![Home[s]] = None]
    BY <1>2 DEF PutLock, Goto, LockPut, LockPutError
  <2>2. \E to \in {"holding", "failed"} : pc' = [pc EXCEPT ![s] = to]
    BY <1>2 DEF PutLock, Goto
  <2>3. QED BY <2>1, <2>2, SessionConstants
<1>3. ASSUME NEW s \in Sessions, ReleaseLock(s)
      PROVE  MutexOfCall' /\ CallOfMutex'
  <2>1. CASE Goto(s, "holding", "released") /\ UnlockInvalid(Releaser[s], KeyOf[s], s)
    BY <2>1 DEF Goto, UnlockInvalid, lockVars
  <2>2. CASE Goto(s, "holding", "clear") /\ UnlockGet(Releaser[s], s, KeyOf[s], s)
    BY <2>2, SessionConstants DEF Goto, UnlockGet, MutexFree
  <2>3. QED BY <1>3, <2>1, <2>2 DEF ReleaseLock
<1>4. ASSUME NEW s \in Sessions, ClearLock(s)
      PROVE  MutexOfCall' /\ CallOfMutex'
  BY <1>4 DEF ClearLock, Goto, UnlockPut
<1>5. ASSUME NEW n \in Nodes, Crash(n)
      PROVE  MutexOfCall' /\ CallOfMutex'
  BY <1>5 DEF Crash
<1>6. CASE UNCHANGED vars
  BY <1>6 DEF vars, lockVars
<1>7. QED BY <1>1, <1>2, <1>3, <1>4, <1>5, <1>6 DEF Next, Step

\* A cell of a local key is what the call that is about to write it has read:
\* a second call on the same key would need the same lockMutex, or the id that
\* the cell does not hold.
LEMMA CellStep ==
  ASSUME LockInvariant, [Next]_vars, "get" \notin Faults
  PROVE  CellOfCall'
<1> USE DEF LockInvariant, TypeOK, CellOfCall, LocalSessions
<1>1. ASSUME NEW s \in Sessions, TryAcquireLock(s)
      PROVE  CellOfCall'
  BY <1>1 DEF TryAcquireLock, Goto, LockBusy, LockGet, GetValue, lockVars
<1>2. ASSUME NEW s \in Sessions, PutLock(s)
      PROVE  CellOfCall'
  <2>1. lockMutex[Home[s]] = s /\ pc[s] = "put"
    BY <1>2 DEF PutLock, Goto, LockPut, LockPutError
  <2>2. ASSUME NEW z \in LocalSessions, z # s, KeyOf[z] = KeyOf[s]
        PROVE  pc[z] \notin {"put", "holding", "clear"}
    <3>1. Home[z] = Home[s] /\ s \in LocalSessions
      BY <2>2 DEF LocalKeys
    <3>2. lockCell[KeyOf[s]] = None
      BY <3>1, <2>1
    <3>3. pc[z] # "put"
      BY <3>1, <2>1, <2>2 DEF MutexOfCall
    <3>4. QED BY <2>2, <3>2, <3>3
  <2>3. CASE LockPut(Home[s], s, KeyOf[s], s)
    BY <1>2, <2>1, <2>2, <2>3 DEF PutLock, Goto, LockPut, LockPutError
  <2>4. CASE LockPutError(Home[s], s, KeyOf[s], s)
    BY <1>2, <2>1, <2>2, <2>4 DEF PutLock, Goto, LockPut, LockPutError, PutValue
  <2>5. QED BY <1>2, <2>3, <2>4 DEF PutLock
<1>3. ASSUME NEW s \in Sessions, ReleaseLock(s)
      PROVE  CellOfCall'
  BY <1>3 DEF ReleaseLock, Goto, UnlockInvalid, UnlockGet, lockVars
<1>4. ASSUME NEW s \in Sessions, ClearLock(s)
      PROVE  CellOfCall'
  <2>1. ASSUME NEW z \in LocalSessions, z # s, KeyOf[z] = KeyOf[s]
        PROVE  pc[z] \notin {"holding", "clear"}
    BY <1>4, <2>1 DEF ClearLock, Goto
  <2>2. QED BY <1>4, <2>1 DEF ClearLock, Goto, UnlockPut, PutValue
<1>5. ASSUME NEW n \in Nodes, Crash(n)
      PROVE  CellOfCall'
  <2>1. CASE UNCHANGED lockCell
    BY <1>5, <2>1 DEF Crash
  <2>2. CASE lockMutex[n] # None /\ lockCell' = CellsAfterWrite(n)
    <3> DEFINE s == lockMutex[n]
    <3>1. s \in Sessions /\ pc[s] \in {"put", "clear"} /\ RunsAt(s) = n
      BY <2>2 DEF CallOfMutex
    <3>2. ASSUME NEW z \in LocalSessions, z # s, KeyOf[z] = KeyOf[s], RunsAt(z) # n
          PROVE  pc[z] \notin {"put", "holding", "clear"}
      <4>1. Home[z] = Home[s] /\ s \in LocalSessions
        BY <3>1, <3>2 DEF LocalKeys
      <4>2. CASE pc[s] = "put"
        BY <3>1, <3>2, <4>1, <4>2 DEF RunsAt, MutexOfCall
      <4>3. CASE pc[s] = "clear"
        BY <3>1, <3>2, <4>1, <4>3
      <4>4. QED BY <3>1, <4>2, <4>3
    <3>3. \A z \in LocalSessions :
            pc'[z] \in {"put", "holding", "clear"} =>
              pc'[z] = pc[z] /\ RunsAt(z) # n
      BY <1>5 DEF Crash
    <3>4. pc'[s] = "dead"
      BY <1>5, <3>1 DEF Crash
    <3> HIDE DEF s
    <3>5. ASSUME NEW z \in LocalSessions, pc'[z] \in {"put", "holding", "clear"}
          PROVE  lockCell'[KeyOf[z]] = lockCell[KeyOf[z]]
      <4>1. KeyOf[z] # KeyOf[s]
        BY <3>2, <3>3, <3>4, <3>5
      <4>2. QED BY <4>1, <2>2, <3>1 DEF CellsAfterWrite, s
    <3>6. QED BY <3>3, <3>5
  <2>3. QED BY <1>5, <2>1, <2>2 DEF Crash
<1>6. CASE UNCHANGED vars
  BY <1>6 DEF vars, lockVars
<1>7. QED BY <1>1, <1>2, <1>3, <1>4, <1>5, <1>6 DEF Next, Step

\* Before any session starts no mutex is held and every cell is empty.
LEMMA InitInvariant == Init => LockInvariant
  BY DEF Init, LockInit, LockInvariant, TypeOK, MutexOfCall, CallOfMutex,
         CellOfCall, LocalSessions

\* Every step of a session, and every crash, keeps the invariant.
LEMMA InvariantStep ==
  ASSUME LockInvariant, [Next]_vars, "get" \notin Faults
  PROVE  LockInvariant'
  BY TypeStep, MutexStep, CellStep DEF LockInvariant

\* The inductive invariant holds in every reachable state.
THEOREM LockInvariantHolds ==
  ASSUME "get" \notin Faults
  PROVE  Spec => []LockInvariant
  BY InitInvariant, InvariantStep, PTL DEF Spec

\* Type correctness needs no assumption on the faults.
THEOREM TypeCorrect == Spec => []TypeOK
<1>1. Init => TypeOK
  BY InitInvariant DEF LockInvariant
<1>2. QED BY <1>1, TypeStep, PTL DEF Spec

\* TryAcquireLock is an exclusive lock among the sessions of one node.
THEOREM LocalLockExclusion ==
  ASSUME "get" \notin Faults
  PROVE  Spec => []LocalExclusion
<1>1. LockInvariant => LocalExclusion
  BY DEF LockInvariant, CellOfCall, LocalExclusion, Exclusive, Holders, LocalSessions
<1>2. QED BY <1>1, LockInvariantHolds, PTL

\* A step of the code on the cells of local keys is a step of the abstract lock.
LEMMA StepRefines ==
  ASSUME LockInvariant, [Next]_vars, "get" \notin Faults
  PROVE  [Abstract!Next]_([k \in LocalKeys |-> lockCell[k]])
<1> DEFINE owner == [k \in LocalKeys |-> lockCell[k]]
<1> USE DEF LockInvariant, TypeOK, LocalSessions
<1>0. LocalKeys \subseteq Keys
  BY DEF LocalKeys
<1>1. ASSUME UNCHANGED lockCell
      PROVE  UNCHANGED owner
  BY <1>1
<1>2. ASSUME NEW s \in Sessions, lockCell' = [lockCell EXCEPT ![KeyOf[s]] = s],
             s \in LocalSessions => lockCell[KeyOf[s]] = None
      PROVE  [Abstract!Next]_owner
  <2>1. CASE s \in LocalSessions
    <3>1. KeyOf[s] \in LocalKeys /\ owner[KeyOf[s]] = None
      BY <1>0, <1>2, <2>1 DEF LocalKeys
    <3>2. owner' = [owner EXCEPT ![KeyOf[s]] = s]
      BY <1>0, <1>2, <3>1
    <3>3. Abstract!Acquire(s)
      BY <2>1, <3>1, <3>2 DEF Abstract!Acquire
    <3>4. QED BY <2>1, <3>3 DEF Abstract!Next
  <2>2. CASE s \notin LocalSessions
    BY <1>0, <1>2, <2>2
  <2>3. QED BY <2>1, <2>2
<1>3. ASSUME NEW s \in Sessions, lockCell' = [lockCell EXCEPT ![KeyOf[s]] = None],
             s \in LocalSessions => lockCell[KeyOf[s]] = s
      PROVE  [Abstract!Next]_owner
  <2>1. CASE s \in LocalSessions
    BY <1>0, <1>3, <2>1 DEF Abstract!Next, Abstract!Release
  <2>2. CASE s \notin LocalSessions
    BY <1>0, <1>3, <2>2
  <2>3. QED BY <2>1, <2>2
<1>4. ASSUME NEW s \in Sessions, TryAcquireLock(s) \/ ReleaseLock(s)
      PROVE  UNCHANGED lockCell
  BY <1>4 DEF TryAcquireLock, LockBusy, LockGet, ReleaseLock, UnlockInvalid,
              UnlockGet, lockVars
<1>5. ASSUME NEW s \in Sessions, PutLock(s)
      PROVE  [Abstract!Next]_owner
  <2>1. pc[s] = "put"
    BY <1>5 DEF PutLock, Goto
  <2>2. \/ UNCHANGED lockCell
        \/ lockCell' = [lockCell EXCEPT ![KeyOf[s]] = s]
    BY <1>5 DEF PutLock, LockPut, LockPutError, PutValue
  <2>3. QED BY <1>1, <1>2, <2>1, <2>2 DEF CellOfCall
<1>6. ASSUME NEW s \in Sessions, ClearLock(s)
      PROVE  [Abstract!Next]_owner
  <2>1. pc[s] = "clear"
    BY <1>6 DEF ClearLock, Goto
  <2>2. \/ UNCHANGED lockCell
        \/ lockCell' = [lockCell EXCEPT ![KeyOf[s]] = None]
    <3>1. PICK p \in PutValue(lockCell[KeyOf[s]], None) :
            lockCell' = [lockCell EXCEPT ![KeyOf[s]] = p.value]
      BY <1>6 DEF ClearLock, UnlockPut
    <3>2. p.value \in {lockCell[KeyOf[s]], None}
      BY DEF PutValue
    <3>3. QED BY <3>1, <3>2
  <2>3. QED BY <1>1, <1>3, <2>1, <2>2 DEF CellOfCall
<1>7. ASSUME NEW n \in Nodes, Crash(n)
      PROVE  [Abstract!Next]_owner
  <2>1. CASE UNCHANGED lockCell
    BY <1>1, <2>1
  <2>2. CASE lockMutex[n] # None /\ lockCell' = CellsAfterWrite(n)
    <3>1. PICK s \in Sessions : s = lockMutex[n]
      BY <2>2
    <3>2. pc[s] \in {"put", "clear"}
      BY <2>2, <3>1 DEF CallOfMutex
    <3>3. CASE pc[s] = "put"
      BY <1>2, <2>2, <3>1, <3>3 DEF CellsAfterWrite, CellOfCall
    <3>4. CASE pc[s] = "clear"
      BY <1>3, <2>2, <3>1, <3>4 DEF CellsAfterWrite, CellOfCall
    <3>5. QED BY <3>2, <3>3, <3>4
  <2>3. QED BY <1>7, <2>1, <2>2 DEF Crash
<1>8. CASE UNCHANGED vars
  BY <1>1, <1>8 DEF vars, lockVars
<1>9. QED BY <1>1, <1>4, <1>5, <1>6, <1>7, <1>8 DEF Next, Step

\* The DHT cells of the local keys implement the abstract lock.
THEOREM LockRefinement ==
  ASSUME "get" \notin Faults
  PROVE  Spec => ImplementsLock
<1>1. Init => Abstract!Init
  BY DEF Init, LockInit, Abstract!Init, LocalKeys
<1>2. LockInvariant /\ [Next]_vars => [Abstract!Next]_([k \in LocalKeys |-> lockCell[k]])
  BY StepRefines
<1>3. QED
  BY <1>1, <1>2, LockInvariantHolds, PTL DEF Spec, ImplementsLock, Abstract!Spec
=============================================================================
