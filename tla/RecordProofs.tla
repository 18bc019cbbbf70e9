---------------------------- MODULE RecordProofs ----------------------------
(***************************************************************************)
(* The records that Registration saves, for any nodes, domains, requests   *)
(* and updates, whichever nodes crash: in which order SaveRecord writes,   *)
(* what may replace a confirmed record, and which requests can become one. *)
(***************************************************************************)
EXTENDS RegistrationProofs

-----------------------------------------------------------------------------
(* Where a step takes its thread *)

\* The fields that a return resets.
LEMMA Returned ==
  ASSUME TypeOK, NEW t \in Threads
  PROVE  /\ \A p \in Pcs : LET s == [Idle(t) EXCEPT !.pc = p]
                           IN s.pc = p /\ s.op = t[1] /\ s.rec = None /\ s.ok
         /\ t[1] = "tick" =>
              /\ NextDomain(t).pc = "tick" /\ NextDomain(t).op = "tick"
              /\ NextDomain(t).rec = None /\ NextDomain(t).ok
<1>1. th[t] \in ThreadState /\ ThreadOK(t, th[t]) /\ ThreadOK(t, Idle(t))
  BY ThreadFacts, IdleOK
<1>2. Idle(t) \in ThreadState
  BY <1>1 DEF ThreadOK
<1>3. Idle(t).op = t[1] /\ Idle(t).rec = None /\ Idle(t).ok /\ (t[1] = "tick" => Idle(t).pc = "tick")
  BY DEF Idle
<1> HIDE DEF Idle
<1>4. \A p \in Pcs : LET s == [Idle(t) EXCEPT !.pc = p]
                     IN s.pc = p /\ s.op = t[1] /\ s.rec = None /\ s.ok
  BY <1>2, <1>3 DEF ThreadState
<1>5. t[1] = "tick" =>
        /\ NextDomain(t).pc = "tick" /\ NextDomain(t).op = "tick"
        /\ NextDomain(t).rec = None /\ NextDomain(t).ok
  BY <1>2, <1>3 DEF NextDomain, ThreadState
<1>6. QED BY <1>4, <1>5

\* The thread goes to pc, in the same function or in op, with its record and domain.
Keeps(t, s) == s.dom = th[t].dom /\ s.rec = th[t].rec /\ s.ok = th[t].ok
GoesTo(t, pc, op) == th'[t].pc = pc /\ th'[t].op = op /\ Keeps(t, th'[t])

\* Get returns r.
GetReturns(t, r, s) ==
  \/ /\ th[t].op = "register" /\ s.op = "register" /\ Keeps(t, s)
     /\ s.pc = IF r = None THEN "validate" ELSE "refused"
  \/ /\ th[t].op \in {"bindingAdd", "nameBound"} /\ r # None
     /\ IsConfirmed(r) \/ th[t].op = "nameBound"
     /\ s.op = "update" /\ s.pc = "saveRecord" /\ s.rec = r /\ s.dom = th[t].dom /\ s.ok = th[t].ok
  \/ /\ th[t].op \in {"bindingAdd", "nameBound"}
     /\ s.op = "update" /\ s.pc = "refused" /\ s.rec = None /\ s.ok
  \/ /\ th[t].op = "decide" /\ r # None
     /\ s.op = "decide" /\ s.pc = "submit" /\ s.rec = r /\ s.dom = th[t].dom /\ s.ok = th[t].ok
  \/ /\ th[t].op = "decide" /\ r = None
     /\ s.op = "reject" /\ s.pc = "find" /\ Keeps(t, s)

\* SaveRecord returns.
SaveReturns(t, ok, s) ==
  \/ /\ th[t].op = "confirm" /\ s.op = "confirm" /\ s.pc = IF ok THEN "clear" ELSE "releaseIndex"
     /\ s.dom = th[t].dom /\ s.rec = th[t].rec /\ s.ok = ok
  \/ /\ th[t].op = "update"
     /\ s.op = "update" /\ s.pc = "done" /\ s.rec = None /\ s.ok
  \/ th[t].op \in GetOps /\ GetReturns(t, th[t].rec, s)

\* A function on the index returns with an error, or its caller has nothing to add.
Abandons(t, s) ==
  \/ /\ th[t].op = "add" /\ s.op = "undo" /\ s.pc = "releaseDomain" /\ Keeps(t, s)
  \/ /\ th[t].op # "add" /\ s.op = t[1] /\ s.pc \in {"done", "tick"} /\ s.rec = None /\ s.ok

LEMMA AfterGetFields ==
  ASSUME TypeOK, NEW t \in Threads, th[t].op \in GetOps, NEW r
  PROVE  GetReturns(t, r, AfterGet(t, r))
<1>1. th[t] \in ThreadState /\ ThreadOK(t, th[t])
  BY ThreadFacts
<1>2. CASE th[t].op = "register"
  BY <1>1, <1>2 DEF AfterGet, GetReturns, Keeps, ThreadState
<1>3. CASE th[t].op \in {"bindingAdd", "nameBound"}
  <2>1. AfterGet(t, r) = AfterGetForUpdate(t, r) /\ t[1] = "update"
    BY <1>1, <1>3 DEF AfterGet, ThreadOK, Control
  <2>2. CASE IsConfirmed(r) \/ (r # None /\ th[t].op = "nameBound")
    BY <1>1, <1>3, <2>1, <2>2 DEF AfterGetForUpdate, GetReturns, IsConfirmed, ThreadState
  <2>3. CASE ~(IsConfirmed(r) \/ (r # None /\ th[t].op = "nameBound"))
    <3>1. AfterGet(t, r) = [Idle(t) EXCEPT !.pc = "refused"]
      BY <2>1, <2>3 DEF AfterGetForUpdate
    <3>2. QED BY <1>3, <2>1, <3>1, Returned DEF GetReturns, Pcs
  <2>4. QED BY <2>2, <2>3
<1>4. CASE th[t].op = "decide" /\ r # None
  BY <1>1, <1>4 DEF AfterGet, GetReturns, Keeps, ThreadState
<1>5. CASE th[t].op = "decide" /\ r = None
  BY <1>1, <1>5 DEF AfterGet, GetReturns, Keeps, ThreadState
<1>6. QED BY <1>2, <1>3, <1>4, <1>5 DEF GetOps

LEMMA AfterSaveFields ==
  ASSUME TypeOK, NEW t \in Threads, th[t].pc \in SavePcs, NEW ok \in BOOLEAN
  PROVE  SaveReturns(t, ok, AfterSave(t, ok))
<1>1. th[t] \in ThreadState /\ ThreadOK(t, th[t])
  BY ThreadFacts
<1>2. CASE th[t].op = "confirm"
  BY <1>1, <1>2 DEF AfterSave, SaveReturns, ThreadState
<1>3. CASE th[t].op = "update"
  <2>1. t[1] = "update" /\ AfterSave(t, ok) = [Idle(t) EXCEPT !.pc = "done"]
    BY <1>1, <1>3 DEF AfterSave, ThreadOK, Control
  <2>2. QED BY <1>3, <2>1, Returned DEF SaveReturns, Pcs
<1>4. CASE th[t].op \notin {"confirm", "update"}
  <2>1. th[t].op \in GetOps
    BY <1>1, <1>4 DEF ThreadOK, Control, GetOps, SavePcs, LockPcs, UnlockPcs, ReleasePcs
  <2>2. AfterSave(t, ok) = AfterGet(t, th[t].rec)
    BY <1>4 DEF AfterSave
  <2>3. QED BY <2>1, <2>2, AfterGetFields DEF SaveReturns
<1>5. QED BY <1>2, <1>3, <1>4

LEMMA GetMoves ==
  ASSUME TypeOK, NEW t \in Threads
  PROVE  /\ AddBinding(t) => GoesTo(t, "get", "bindingAdd") /\ th[t].op = "update"
         /\ GetByNamehash(t) =>
              th[t].op = "update" /\ (GoesTo(t, "get", "nameBound") \/ GoesTo(t, "refused", "update"))
         /\ GetLocal(t) =>
              \/ /\ IsConfirmed(db[Node(t)][th[t].dom])
                 /\ GetReturns(t, db[Node(t)][th[t].dom], th'[t])
              \/ GoesTo(t, "getPending", th[t].op) \/ GoesTo(t, "getRecord", th[t].op)
         /\ GetPendingRecord(t) =>
              \/ \E r \in GetValue(pending[th[t].dom]) : r # None /\ GetReturns(t, r, th'[t])
              \/ GoesTo(t, "getRecord", th[t].op)
         /\ GetLatestRecord(t) =>
              \/ /\ record[th[t].dom] # None /\ th'[t].pc = "saveRecord" /\ th'[t].op = th[t].op
                 /\ th'[t].rec = record[th[t].dom] /\ th'[t].dom = th[t].dom /\ th'[t].ok = th[t].ok
              \/ GetReturns(t, None, th'[t])
<1>1. ThreadsOK /\ th[t] \in ThreadState /\ ThreadOK(t, th[t])
  BY ThreadFacts
<1>2. /\ th[t].pc \in {"get", "getPending", "getRecord"} => th[t].op \in GetOps
      /\ th[t].pc = "update" => th[t].op = "update"
  BY <1>1 DEF ThreadOK, Control, GetOps, GetPcs, SavePcs, LockPcs, UnlockPcs, ReleasePcs
<1>3. ASSUME AddBinding(t)
      PROVE  GoesTo(t, "get", "bindingAdd") /\ th[t].op = "update"
  <2>1. th'[t] = [th[t] EXCEPT !.pc = "get", !.op = "bindingAdd"]
    BY <1>1, <1>3, Moved DEF AddBinding
  <2>2. QED BY <1>1, <1>2, <1>3, <2>1 DEF AddBinding, At, GoesTo, Keeps, ThreadState
<1>4. ASSUME GetByNamehash(t)
      PROVE  th[t].op = "update" /\ (GoesTo(t, "get", "nameBound") \/ GoesTo(t, "refused", "update"))
  <2>1. \/ th'[t] = [th[t] EXCEPT !.pc = "get", !.op = "nameBound"]
        \/ th'[t] = [th[t] EXCEPT !.pc = "refused"]
    BY <1>1, <1>4, Moved DEF GetByNamehash, Goto
  <2>2. th[t].op = "update"
    BY <1>2, <1>4 DEF GetByNamehash, At
  <2>3. QED BY <1>1, <2>1, <2>2 DEF GoesTo, Keeps, ThreadState
<1>5. ASSUME GetLocal(t)
      PROVE  \/ /\ IsConfirmed(db[Node(t)][th[t].dom])
                /\ GetReturns(t, db[Node(t)][th[t].dom], th'[t])
             \/ GoesTo(t, "getPending", th[t].op) \/ GoesTo(t, "getRecord", th[t].op)
  <2> DEFINE r == db[Node(t)][th[t].dom]
             p == IF r = None THEN "getPending" ELSE "getRecord"
             seen == IF th[t].op = "register" THEN pending[th[t].dom] ELSE None
  <2>1. th[t].op \in GetOps
    BY <1>2, <1>5 DEF GetLocal, At
  <2>2. \/ IsConfirmed(r) /\ th'[t] = AfterGet(t, r)
        \/ th'[t] = [th[t] EXCEPT !.pc = p, !.seen = seen]
    BY <1>1, <1>5, Moved DEF GetLocal
  <2>3. CASE IsConfirmed(r) /\ th'[t] = AfterGet(t, r)
    BY <2>1, <2>3, AfterGetFields
  <2>4. CASE th'[t] = [th[t] EXCEPT !.pc = p, !.seen = seen]
    <3> HIDE DEF seen
    <3>1. QED BY <1>1, <2>4 DEF GoesTo, Keeps, ThreadState
  <2>5. QED BY <2>2, <2>3, <2>4
<1>6. ASSUME GetPendingRecord(t)
      PROVE  \/ \E r \in GetValue(pending[th[t].dom]) : r # None /\ GetReturns(t, r, th'[t])
             \/ GoesTo(t, "getRecord", th[t].op)
  <2>1. th[t].op \in GetOps
    BY <1>2, <1>6 DEF GetPendingRecord, At
  <2>2. PICK r \in GetValue(pending[th[t].dom]) :
          (r # None /\ Become(t, AfterGet(t, r))) \/ Become(t, [th[t] EXCEPT !.pc = "getRecord"])
    BY <1>6 DEF GetPendingRecord, Goto
  <2>3. CASE r # None /\ Become(t, AfterGet(t, r))
    BY <1>1, <2>1, <2>3, AfterGetFields, Moved
  <2>4. CASE Become(t, [th[t] EXCEPT !.pc = "getRecord"])
    <3>1. th'[t] = [th[t] EXCEPT !.pc = "getRecord"]
      BY <1>1, <2>4, Moved
    <3>2. QED BY <1>1, <3>1 DEF GoesTo, Keeps, ThreadState
  <2>5. QED BY <2>2, <2>3, <2>4
<1>7. ASSUME GetLatestRecord(t)
      PROVE  \/ /\ record[th[t].dom] # None /\ th'[t].pc = "saveRecord" /\ th'[t].op = th[t].op
                /\ th'[t].rec = record[th[t].dom] /\ th'[t].dom = th[t].dom /\ th'[t].ok = th[t].ok
             \/ GetReturns(t, None, th'[t])
  <2>1. th[t].op \in GetOps
    BY <1>2, <1>7 DEF GetLatestRecord, At
  <2>2. PICK r \in GetValue(record[th[t].dom]) :
          \/ r # None /\ Become(t, [th[t] EXCEPT !.pc = "saveRecord", !.rec = r])
          \/ Become(t, AfterGet(t, None))
    BY <1>7 DEF GetLatestRecord
  <2>3. CASE r # None /\ Become(t, [th[t] EXCEPT !.pc = "saveRecord", !.rec = r])
    <3>1. r = record[th[t].dom]
      BY <2>3, DHTTypes
    <3>2. th'[t] = [th[t] EXCEPT !.pc = "saveRecord", !.rec = r]
      BY <1>1, <2>3, Moved
    <3>3. QED BY <1>1, <2>3, <3>1, <3>2 DEF ThreadState
  <2>4. CASE Become(t, AfterGet(t, None))
    BY <1>1, <2>1, <2>4, AfterGetFields, Moved
  <2>5. QED BY <2>2, <2>3, <2>4
<1>8. QED BY <1>3, <1>4, <1>5, <1>6, <1>7

LEMMA SaveMoves ==
  ASSUME TypeOK, NEW t \in Threads
  PROVE  /\ SaveRecordDHT(t) =>
              \E p \in PutValue(record[th[t].dom], th[t].rec) :
                /\ record' = [record EXCEPT ![th[t].dom] = p.value]
                /\ \/ p.ok /\ GoesTo(t, "saveLocal", th[t].op)
                   \/ ~p.ok /\ SaveReturns(t, FALSE, th'[t])
         /\ SaveRecordLocal(t) => GoesTo(t, "saveName", th[t].op)
         /\ SaveNamehash(t) =>
              \/ GoesTo(t, "saveNameLocal", th[t].op)
              \/ "put" \in Faults /\ SaveReturns(t, FALSE, th'[t])
         /\ SaveNamehashLocal(t) => SaveReturns(t, TRUE, th'[t])
<1>1. ThreadsOK /\ th[t] \in ThreadState /\ ThreadOK(t, th[t])
  BY ThreadFacts
<1>2. ASSUME SaveRecordDHT(t)
      PROVE  \E p \in PutValue(record[th[t].dom], th[t].rec) :
                /\ record' = [record EXCEPT ![th[t].dom] = p.value]
                /\ \/ p.ok /\ GoesTo(t, "saveLocal", th[t].op)
                   \/ ~p.ok /\ SaveReturns(t, FALSE, th'[t])
  <2>1. th[t].pc \in SavePcs
    BY <1>2 DEF SaveRecordDHT, At, SavePcs
  <2>2. PICK p \in PutValue(record[th[t].dom], th[t].rec) :
          /\ record' = [record EXCEPT ![th[t].dom] = p.value]
          /\ IF p.ok THEN Become(t, [th[t] EXCEPT !.pc = "saveLocal"])
             ELSE Become(t, AfterSave(t, FALSE))
    BY <1>2 DEF SaveRecordDHT, Goto
  <2>3. CASE p.ok
    <3>1. th'[t] = [th[t] EXCEPT !.pc = "saveLocal"]
      BY <1>1, <2>2, <2>3, Moved
    <3>2. GoesTo(t, "saveLocal", th[t].op)
      BY <1>1, <3>1 DEF GoesTo, Keeps, ThreadState
    <3>3. QED BY <2>2, <2>3, <3>2
  <2>4. CASE ~p.ok
    <3>1. th'[t] = AfterSave(t, FALSE)
      BY <1>1, <2>2, <2>4, Moved
    <3>2. SaveReturns(t, FALSE, th'[t])
      BY <2>1, <3>1, AfterSaveFields
    <3>3. QED BY <2>2, <2>4, <3>2
  <2>5. QED BY <2>3, <2>4
<1>3. ASSUME SaveRecordLocal(t)
      PROVE  GoesTo(t, "saveName", th[t].op)
  <2>1. th'[t] = [th[t] EXCEPT !.pc = "saveName"]
    BY <1>1, <1>3, Moved DEF SaveRecordLocal, Goto
  <2>2. QED BY <1>1, <2>1 DEF GoesTo, Keeps, ThreadState
<1>4. ASSUME SaveNamehash(t)
      PROVE  \/ GoesTo(t, "saveNameLocal", th[t].op)
             \/ "put" \in Faults /\ SaveReturns(t, FALSE, th'[t])
  <2>1. th[t].pc \in SavePcs
    BY <1>4 DEF SaveNamehash, At, SavePcs
  <2>2. PICK p \in PutValue(nameMap, nameMap \cup {th[t].dom}) :
          IF p.ok THEN Become(t, [th[t] EXCEPT !.pc = "saveNameLocal"])
          ELSE Become(t, AfterSave(t, FALSE))
    BY <1>4 DEF SaveNamehash, Goto
  <2>3. p.ok \/ "put" \in Faults
    BY DHTTypes
  <2>4. CASE p.ok
    <3>1. th'[t] = [th[t] EXCEPT !.pc = "saveNameLocal"]
      BY <1>1, <2>2, <2>4, Moved
    <3>2. QED BY <1>1, <3>1 DEF GoesTo, Keeps, ThreadState
  <2>5. CASE ~p.ok
    <3>1. th'[t] = AfterSave(t, FALSE)
      BY <1>1, <2>2, <2>5, Moved
    <3>2. QED BY <2>1, <2>3, <2>5, <3>1, AfterSaveFields
  <2>6. QED BY <2>4, <2>5
<1>5. ASSUME SaveNamehashLocal(t)
      PROVE  SaveReturns(t, TRUE, th'[t])
  <2>1. th[t].pc \in SavePcs
    BY <1>5 DEF SaveNamehashLocal, At, SavePcs
  <2>2. th'[t] = AfterSave(t, TRUE)
    BY <1>1, <1>5, Moved DEF SaveNamehashLocal
  <2>3. QED BY <2>1, <2>2, AfterSaveFields
<1>6. QED BY <1>2, <1>3, <1>4, <1>5

\* The thread goes to pc, in the function op, with another record.
Takes(t, pc, op, r) ==
  /\ th'[t].pc = pc /\ th'[t].op = op /\ th'[t].rec = r
  /\ th'[t].dom = th[t].dom /\ th'[t].ok = th[t].ok

LEMMA AddMoves ==
  ASSUME TypeOK, NEW t \in Threads
  PROVE  /\ ValidateSignedTx(t) => GoesTo(t, "lock", "register") \/ GoesTo(t, "refused", "register")
         /\ LockDomain(t) => GoesTo(t, "lockPut", "register") \/ GoesTo(t, "refused", "register")
         /\ LockDomainPut(t) =>
              /\ t[1] = "register"
              /\ Takes(t, "indexLock", "add", Pending(t[2])) \/ GoesTo(t, "refused", "register")
         /\ SavePending(t) =>
              /\ th[t].op = "add"
              /\ \E p \in PutValue(pending[th[t].dom], th[t].rec) :
                   /\ pending' = [pending EXCEPT ![th[t].dom] = p.value]
                   /\ th'[t].pc = "releaseIndex" /\ th'[t].op = "add"
                   /\ th'[t].rec = th[t].rec /\ th'[t].dom = th[t].dom /\ th'[t].ok = p.ok
<1>1. ThreadsOK /\ th[t] \in ThreadState /\ ThreadOK(t, th[t])
  BY ThreadFacts
<1>2. /\ th[t].pc \in {"validate", "lock", "lockPut"} => th[t].op = "register" /\ t[1] = "register"
      /\ th[t].pc = "savePending" => th[t].op = "add"
  BY <1>1 DEF ThreadOK, Control, GetPcs, SavePcs, LockPcs, UnlockPcs, ReleasePcs
<1>3. ASSUME NEW p, Goto(t, p)
      PROVE  GoesTo(t, p, th[t].op)
  <2>1. th'[t] = [th[t] EXCEPT !.pc = p]
    BY <1>1, <1>3, Moved DEF Goto
  <2>2. QED BY <1>1, <2>1 DEF GoesTo, Keeps, ThreadState
<1>4. ASSUME ValidateSignedTx(t)
      PROVE  GoesTo(t, "lock", "register") \/ GoesTo(t, "refused", "register")
  <2>1. Goto(t, "lock") \/ Goto(t, "refused")
    BY <1>4 DEF ValidateSignedTx
  <2>2. th[t].op = "register"
    BY <1>2, <1>4 DEF ValidateSignedTx, At
  <2>3. QED BY <1>3, <2>1, <2>2
<1>5. ASSUME LockDomain(t)
      PROVE  GoesTo(t, "lockPut", "register") \/ GoesTo(t, "refused", "register")
  <2>1. Goto(t, "lockPut") \/ Goto(t, "refused")
    BY <1>5 DEF LockDomain
  <2>2. th[t].op = "register"
    BY <1>2, <1>5 DEF LockDomain, At
  <2>3. QED BY <1>3, <2>1, <2>2
<1>6. ASSUME LockDomainPut(t)
      PROVE  /\ t[1] = "register"
             /\ Takes(t, "indexLock", "add", Pending(t[2])) \/ GoesTo(t, "refused", "register")
  <2>1. \/ Become(t, [th[t] EXCEPT !.pc = "indexLock", !.op = "add", !.rec = Pending(t[2])])
        \/ Goto(t, "refused")
    BY <1>6 DEF LockDomainPut
  <2>2. th[t].op = "register" /\ t[1] = "register"
    BY <1>2, <1>6 DEF LockDomainPut, At
  <2>3. CASE Become(t, [th[t] EXCEPT !.pc = "indexLock", !.op = "add", !.rec = Pending(t[2])])
    <3>1. th'[t] = [th[t] EXCEPT !.pc = "indexLock", !.op = "add", !.rec = Pending(t[2])]
      BY <1>1, <2>3, Moved
    <3>2. QED BY <1>1, <2>2, <3>1 DEF Takes, ThreadState
  <2>4. QED BY <1>3, <2>1, <2>2, <2>3
<1>7. ASSUME SavePending(t)
      PROVE  /\ th[t].op = "add"
             /\ \E p \in PutValue(pending[th[t].dom], th[t].rec) :
                  /\ pending' = [pending EXCEPT ![th[t].dom] = p.value]
                  /\ th'[t].pc = "releaseIndex" /\ th'[t].op = "add"
                  /\ th'[t].rec = th[t].rec /\ th'[t].dom = th[t].dom /\ th'[t].ok = p.ok
  <2>1. th[t].op = "add"
    BY <1>2, <1>7 DEF SavePending, At
  <2>2. PICK p \in PutValue(pending[th[t].dom], th[t].rec) :
          /\ pending' = [pending EXCEPT ![th[t].dom] = p.value]
          /\ Become(t, [th[t] EXCEPT !.pc = "releaseIndex", !.ok = p.ok])
    BY <1>7 DEF SavePending
  <2>3. th'[t] = [th[t] EXCEPT !.pc = "releaseIndex", !.ok = p.ok]
    BY <1>1, <2>2, Moved
  <2>4. /\ th'[t].pc = "releaseIndex" /\ th'[t].op = "add"
        /\ th'[t].rec = th[t].rec /\ th'[t].dom = th[t].dom /\ th'[t].ok = p.ok
    BY <1>1, <2>1, <2>3 DEF ThreadState
  <2>5. QED BY <2>1, <2>2, <2>4
<1>8. QED BY <1>4, <1>5, <1>6, <1>7

\* What WriteIndex does with the record in hand.
IndexWritten(t, s) ==
  \/ /\ th[t].op = "add" /\ s.pc = "savePending" /\ s.op = "add" /\ Keeps(t, s)
  \/ /\ s.op = th[t].op /\ s.dom = th[t].dom /\ s.ok
     /\ s.rec = IF th[t].op = "confirm" THEN Confirmed(th[t].rec.req) ELSE th[t].rec
     /\ \/ th[t].op = "add" /\ s.pc = "savePending"
        \/ th[t].op = "confirm" /\ s.pc = "saveRecord"
        \/ th[t].op = "reject" /\ s.pc = "clear"
  \/ /\ "put" \in Faults /\ s.pc = "releaseIndex" /\ s.op = th[t].op
     /\ s.dom = th[t].dom /\ s.rec = th[t].rec

LEMMA GivesUp ==
  ASSUME TypeOK, NEW t \in Threads, \/ Become(t, Abandon(t))
                                    \/ Become(t, [Abandon(t) EXCEPT !.tries = 0])
  PROVE  Abandons(t, th'[t])
<1>1. ThreadsOK /\ ThreadOK(t, th[t]) /\ th[t] \in ThreadState
  BY ThreadFacts
<1>2. th'[t] = Abandon(t) \/ th'[t] = [Abandon(t) EXCEPT !.tries = 0]
  BY <1>1, Moved
<1>3. CASE th[t].op = "add"
  <2> DEFINE a == [th[t] EXCEPT !.pc = "releaseDomain", !.op = "undo"]
  <2>1. Abandon(t) = a
    BY <1>1, <1>3 DEF Abandon, ThreadOK, Control
  <2>2. /\ a \in ThreadState /\ a.op = "undo" /\ a.pc = "releaseDomain" /\ Keeps(t, a)
    BY <1>1 DEF Keeps, ThreadState, Pcs, ReleasePcs, Ops
  <2> HIDE DEF a
  <2>3. th'[t].op = "undo" /\ th'[t].pc = "releaseDomain" /\ Keeps(t, th'[t])
    <3>1. th'[t] = a \/ th'[t] = [a EXCEPT !.tries = 0]
      BY <1>2, <2>1
    <3>2. QED BY <2>2, <3>1 DEF Keeps, ThreadState
  <2>4. QED BY <1>3, <2>3 DEF Abandons
<1>4. CASE th[t].op # "add"
  <2> DEFINE a == Abandon(t)
  <2>1. a = [Idle(t) EXCEPT !.pc = "done"] \/ (t[1] = "tick" /\ a = NextDomain(t))
    BY <1>4 DEF Abandon
  <2>2. a.op = t[1] /\ a.pc \in {"done", "tick"} /\ a.rec = None /\ a.ok
    <3>1. CASE a = [Idle(t) EXCEPT !.pc = "done"]
      <4>1. "done" \in Pcs
        BY DEF Pcs
      <4> HIDE DEF a, Idle
      <4>2. QED BY <3>1, <4>1, Returned
    <3>2. CASE t[1] = "tick" /\ a = NextDomain(t)
      <4> HIDE DEF a
      <4>1. QED BY <3>2, Returned
    <3>3. QED BY <2>1, <3>1, <3>2
  <2>3. a \in ThreadState
    <3>1. Idle(t) \in ThreadState
      BY IdleOK DEF ThreadOK
    <3> HIDE DEF Idle
    <3>2. QED BY <1>1, <2>1, <3>1 DEF NextDomain, ThreadState, Pcs
  <2> HIDE DEF a
  <2>4. th'[t].op = t[1] /\ th'[t].pc \in {"done", "tick"} /\ th'[t].rec = None /\ th'[t].ok
    <3>1. th'[t] = a \/ th'[t] = [a EXCEPT !.tries = 0]
      BY <1>2 DEF a
    <3>2. QED BY <2>2, <2>3, <3>1 DEF ThreadState
  <2>5. QED BY <1>4, <2>4 DEF Abandons
<1>5. QED BY <1>3, <1>4

LEMMA IndexMoves ==
  ASSUME TypeOK, NEW t \in Threads
  PROVE  /\ FindPending(t) =>
              \/ pending[th[t].dom] # None /\ Takes(t, "indexLock", th[t].op, pending[th[t].dom])
              \/ Abandons(t, th'[t])
         /\ LockIndex(t) \/ LockIndexPut(t) =>
              \/ \E p \in {"indexLock", "indexPut", "indexRead"} : GoesTo(t, p, th[t].op)
              \/ Abandons(t, th'[t])
         /\ ReadIndex(t) => GoesTo(t, "indexWrite", th[t].op)
         /\ WriteIndex(t) => IndexWritten(t, th'[t])
         /\ ClearPending(t) => GoesTo(t, "releaseDomain", th[t].op)
<1>1. ThreadsOK /\ th[t] \in ThreadState /\ ThreadOK(t, th[t])
  BY ThreadFacts
<1>2. ASSUME FindPending(t)
      PROVE  \/ pending[th[t].dom] # None /\ Takes(t, "indexLock", th[t].op, pending[th[t].dom])
             \/ Abandons(t, th'[t])
  <2>1. PICK r \in GetValue(pending[th[t].dom]) :
          \/ r # None /\ Become(t, [th[t] EXCEPT !.pc = "indexLock", !.rec = r])
          \/ Become(t, Abandon(t))
    BY <1>2 DEF FindPending
  <2>2. CASE r # None /\ Become(t, [th[t] EXCEPT !.pc = "indexLock", !.rec = r])
    <3>1. r = pending[th[t].dom]
      BY <2>2, DHTTypes
    <3>2. th'[t] = [th[t] EXCEPT !.pc = "indexLock", !.rec = r]
      BY <1>1, <2>2, Moved
    <3>3. QED BY <1>1, <2>2, <3>1, <3>2 DEF Takes, ThreadState
  <2>3. QED BY <2>1, <2>2, GivesUp
<1>3. ASSUME LockIndex(t) \/ LockIndexPut(t)
      PROVE  \/ \E p \in {"indexLock", "indexPut", "indexRead"} : GoesTo(t, p, th[t].op)
             \/ Abandons(t, th'[t])
  <2>1. \/ \E p \in {"indexLock", "indexPut", "indexRead"} :
             \E k : Become(t, [th[t] EXCEPT !.pc = p, !.tries = k])
        \/ Become(t, [th[t] EXCEPT !.pc = "indexPut"])
        \/ Become(t, [Abandon(t) EXCEPT !.tries = 0])
    BY <1>3 DEF LockIndex, LockIndexPut, AttemptFailed, Goto
  <2>2. CASE \E p \in {"indexLock", "indexPut", "indexRead"} :
               \E k : Become(t, [th[t] EXCEPT !.pc = p, !.tries = k])
    <3>1. PICK p \in {"indexLock", "indexPut", "indexRead"} :
            \E k : Become(t, [th[t] EXCEPT !.pc = p, !.tries = k])
      BY <2>2
    <3>2. PICK k : Become(t, [th[t] EXCEPT !.pc = p, !.tries = k])
      BY <3>1
    <3>3. th'[t] = [th[t] EXCEPT !.pc = p, !.tries = k]
      BY <1>1, <3>2, Moved
    <3>4. GoesTo(t, p, th[t].op)
      BY <1>1, <3>3 DEF GoesTo, Keeps, ThreadState
    <3>5. QED BY <3>4
  <2>3. CASE Become(t, [th[t] EXCEPT !.pc = "indexPut"])
    <3>1. th'[t] = [th[t] EXCEPT !.pc = "indexPut"]
      BY <1>1, <2>3, Moved
    <3>2. GoesTo(t, "indexPut", th[t].op)
      BY <1>1, <3>1 DEF GoesTo, Keeps, ThreadState
    <3>3. QED BY <3>2
  <2>4. QED BY <2>1, <2>2, <2>3, GivesUp
<1>4. ASSUME ReadIndex(t)
      PROVE  GoesTo(t, "indexWrite", th[t].op)
  <2>1. PICK i : th'[t] = [th[t] EXCEPT !.pc = "indexWrite", !.idx = i]
    BY <1>1, <1>4, Moved DEF ReadIndex
  <2>2. QED BY <1>1, <2>1 DEF GoesTo, Keeps, ThreadState
<1>5. ASSUME WriteIndex(t)
      PROVE  IndexWritten(t, th'[t])
  <2> DEFINE after == CASE th[t].op = "add" -> "savePending"
                        [] th[t].op = "confirm" -> "saveRecord"
                        [] th[t].op = "reject" -> "clear"
             new == IF th[t].op = "add" THEN th[t].idx \cup {th[t].dom}
                    ELSE th[t].idx \ {th[t].dom}
  <2>1. \/ th[t].op = "add" /\ Become(t, [th[t] EXCEPT !.pc = after, !.idx = {}])
        \/ \E p \in PutValue(index, new) :
             Become(t, [th[t] EXCEPT !.pc = IF p.ok THEN after ELSE "releaseIndex",
                                     !.idx = {}, !.ok = p.ok,
                                     !.rec = IF th[t].op = "confirm" /\ p.ok
                                               THEN Confirmed(@.req) ELSE @])
    BY <1>5 DEF WriteIndex
  <2>2. CASE th[t].op = "add" /\ Become(t, [th[t] EXCEPT !.pc = after, !.idx = {}])
    <3>1. th'[t] = [th[t] EXCEPT !.pc = "savePending", !.idx = {}]
      BY <1>1, <2>2, Moved
    <3>2. QED BY <1>1, <2>2, <3>1 DEF IndexWritten, Keeps, ThreadState
  <2>3. CASE \E p \in PutValue(index, new) :
               Become(t, [th[t] EXCEPT !.pc = IF p.ok THEN after ELSE "releaseIndex",
                                       !.idx = {}, !.ok = p.ok,
                                       !.rec = IF th[t].op = "confirm" /\ p.ok
                                                 THEN Confirmed(@.req) ELSE @])
    <3> HIDE DEF after, new
    <3>1. PICK p \in PutValue(index, new) :
            th'[t] = [th[t] EXCEPT !.pc = IF p.ok THEN after ELSE "releaseIndex",
                                   !.idx = {}, !.ok = p.ok,
                                   !.rec = IF th[t].op = "confirm" /\ p.ok
                                             THEN Confirmed(@.req) ELSE @]
      BY <1>1, <2>3, Moved
    <3>2. p.ok \in BOOLEAN /\ (p.ok \/ "put" \in Faults)
      BY DHTTypes
    <3>3. /\ th'[t].op = th[t].op /\ th'[t].dom = th[t].dom
          /\ th'[t].pc = IF p.ok THEN after ELSE "releaseIndex"
          /\ th'[t].ok = p.ok
          /\ th'[t].rec = IF th[t].op = "confirm" /\ p.ok THEN Confirmed(th[t].rec.req) ELSE th[t].rec
      BY <1>1, <3>1 DEF ThreadState
    <3>4. th[t].op \in {"add", "confirm", "reject"}
      BY <1>1, <1>5
         DEF WriteIndex, At, ThreadOK, Control, GetPcs, SavePcs, LockPcs, UnlockPcs, ReleasePcs
    <3>5. \/ th[t].op = "add" /\ after = "savePending"
          \/ th[t].op = "confirm" /\ after = "saveRecord"
          \/ th[t].op = "reject" /\ after = "clear"
      BY <3>4 DEF after
    <3>6. QED BY <3>2, <3>3, <3>5 DEF IndexWritten
  <2>4. QED BY <2>1, <2>2, <2>3
<1>6. ASSUME ClearPending(t)
      PROVE  GoesTo(t, "releaseDomain", th[t].op)
  <2>1. th'[t] = [th[t] EXCEPT !.pc = "releaseDomain"]
    BY <1>1, <1>6, Moved DEF ClearPending, Goto
  <2>2. QED BY <1>1, <2>1 DEF GoesTo, Keeps, ThreadState
<1>7. QED BY <1>2, <1>3, <1>4, <1>5, <1>6

\* The domain lock has been released, or was not ours.
DomainReleased(t, s) ==
  \/ th[t].op = "undo" /\ s.op = "register" /\ s.pc = "refused" /\ s.rec = None /\ s.ok
  \/ th[t].op = "vote" /\ s.op = "vote" /\ s.pc = "done" /\ s.rec = None /\ s.ok
  \/ th[t].op \in {"confirm", "reject"} /\ s.op = th[t].op /\ s.pc = "releaseIndex" /\ Keeps(t, s)

LEMMA AfterReleaseFields ==
  ASSUME TypeOK, NEW t \in Threads, th[t].pc \in ReleasePcs
  PROVE  DomainReleased(t, AfterReleaseDomain(t))
<1>1. th[t] \in ThreadState /\ ThreadOK(t, th[t])
  BY ThreadFacts
<1>2. "refused" \in Pcs /\ "done" \in Pcs
  BY DEF Pcs
<1>3. CASE th[t].op = "undo"
  <2>1. t[1] = "register" /\ AfterReleaseDomain(t) = [Idle(t) EXCEPT !.pc = "refused"]
    BY <1>1, <1>3 DEF AfterReleaseDomain, ThreadOK, Control
  <2> HIDE DEF Idle
  <2>2. QED BY <1>2, <1>3, <2>1, Returned DEF DomainReleased
<1>4. CASE th[t].op = "vote"
  <2>1. t[1] = "vote" /\ AfterReleaseDomain(t) = [Idle(t) EXCEPT !.pc = "done"]
    BY <1>1, <1>4 DEF AfterReleaseDomain, ThreadOK, Control
  <2> HIDE DEF Idle
  <2>2. QED BY <1>2, <1>4, <2>1, Returned DEF DomainReleased
<1>5. CASE th[t].op \notin {"undo", "vote"}
  <2>1. th[t].op \in {"confirm", "reject"}
    BY <1>1, <1>5 DEF ThreadOK, Control, GetPcs, SavePcs, LockPcs, UnlockPcs, ReleasePcs
  <2>2. AfterReleaseDomain(t) = [th[t] EXCEPT !.pc = "releaseIndex"]
    BY <1>5 DEF AfterReleaseDomain
  <2>3. QED BY <1>1, <2>1, <2>2 DEF DomainReleased, Keeps, ThreadState
<1>6. QED BY <1>3, <1>4, <1>5

\* The other threads stay, apart from the ones a return of Add starts.
AddReturns(t) ==
  /\ th[t].op = "add" /\ th[t].ok /\ t = <<"register", t[2]>> /\ t[2] \in Requests
  /\ th'[t].pc = "done" /\ th'[t].op = "register" /\ th'[t].rec = None /\ th'[t].ok

LEMMA ReleaseMoves ==
  ASSUME TypeOK, StartedByAdd, NEW t \in Threads
  PROVE  /\ ReleaseDomain(t) \/ ReleaseDomainPut(t) =>
              GoesTo(t, "domainClear", th[t].op) \/ DomainReleased(t, th'[t])
         /\ ReleaseIndex(t) \/ ReleaseIndexPut(t) =>
              \/ GoesTo(t, "indexClear", th[t].op)
              \/ Abandons(t, th'[t]) /\ (th[t].op = "add" => ~th[t].ok)
              \/ AddReturns(t)
<1>1. ThreadsOK /\ th[t] \in ThreadState /\ ThreadOK(t, th[t])
  BY ThreadFacts
<1>2. ASSUME NEW p, Goto(t, p)
      PROVE  GoesTo(t, p, th[t].op)
  <2>1. th'[t] = [th[t] EXCEPT !.pc = p]
    BY <1>1, <1>2, Moved DEF Goto
  <2>2. QED BY <1>1, <2>1 DEF GoesTo, Keeps, ThreadState
<1>3. ASSUME ReleaseDomain(t) \/ ReleaseDomainPut(t)
      PROVE  GoesTo(t, "domainClear", th[t].op) \/ DomainReleased(t, th'[t])
  <2>1. th[t].pc \in ReleasePcs
    BY <1>3 DEF ReleaseDomain, ReleaseDomainPut, At, ReleasePcs
  <2>2. Goto(t, "domainClear") \/ Become(t, AfterReleaseDomain(t))
    BY <1>3 DEF ReleaseDomain, ReleaseDomainPut
  <2>3. QED BY <1>1, <1>2, <2>1, <2>2, AfterReleaseFields, Moved
<1>4. ASSUME ReleaseIndex(t) \/ ReleaseIndexPut(t)
      PROVE  \/ GoesTo(t, "indexClear", th[t].op)
             \/ Abandons(t, th'[t]) /\ (th[t].op = "add" => ~th[t].ok)
             \/ AddReturns(t)
  <2>1. th[t].pc \in UnlockPcs
    BY <1>4 DEF ReleaseIndex, ReleaseIndexPut, At, UnlockPcs
  <2>2. Goto(t, "indexClear") \/ AfterReleaseIndex(t)
    BY <1>4 DEF ReleaseIndex, ReleaseIndexPut
  <2>3. CASE AfterReleaseIndex(t) /\ th[t].op = "add" /\ th[t].ok
    BY <2>1, <2>3, StartsThreads DEF AfterReleaseIndex, AddReturns
  <2>4. CASE AfterReleaseIndex(t) /\ ~(th[t].op = "add" /\ th[t].ok)
    BY <2>4, GivesUp DEF AfterReleaseIndex
  <2>5. QED BY <1>2, <2>2, <2>3, <2>4
<1>5. QED BY <1>3, <1>4

\* The thread returns.
Ends(t, pc) == th'[t].pc = pc /\ th'[t].op = t[1] /\ th'[t].rec = None /\ th'[t].ok

LEMMA VoteMoves ==
  ASSUME TypeOK, NEW t \in Threads
  PROVE  /\ ReadVotes(t) => /\ th[t].op = "vote" /\ t[1] = "vote"
                            /\ \/ GoesTo(t, "voteSave", "vote")
                               \/ Takes(t, "releaseDomain", "vote", Pending(t[2]))
         /\ SaveVote(t) => /\ th[t].op = "vote" /\ t[1] = "vote"
                           /\ \/ Ends(t, "done")
                              \/ Takes(t, "releaseDomain", "vote", Pending(t[2]))
         /\ Publish(t) => Ends(t, "done") \/ GoesTo(t, "find", "reject")
<1>1. ThreadsOK /\ th[t] \in ThreadState /\ ThreadOK(t, th[t])
  BY ThreadFacts
<1>2. "done" \in Pcs
  BY DEF Pcs
<1>3. th[t].pc \in {"vote", "voteSave"} => th[t].op = "vote" /\ t[1] = "vote"
  BY <1>1 DEF ThreadOK, Control, GetPcs, SavePcs, LockPcs, UnlockPcs, ReleasePcs
<1>4. ASSUME Become(t, [Idle(t) EXCEPT !.pc = "done"])
      PROVE  Ends(t, "done")
  <2>1. th'[t] = [Idle(t) EXCEPT !.pc = "done"]
    BY <1>1, <1>4, Moved
  <2> HIDE DEF Idle
  <2>2. QED BY <1>2, <2>1, Returned DEF Ends
<1>5. ASSUME ReadVotes(t)
      PROVE  /\ th[t].op = "vote" /\ t[1] = "vote"
             /\ \/ GoesTo(t, "voteSave", "vote")
                \/ Takes(t, "releaseDomain", "vote", Pending(t[2]))
  <2>1. th[t].op = "vote" /\ t[1] = "vote"
    BY <1>3, <1>5 DEF ReadVotes, At
  <2>2. \/ \E v : Become(t, [th[t] EXCEPT !.pc = "voteSave", !.result = v])
        \/ Become(t, [th[t] EXCEPT !.pc = "releaseDomain", !.rec = Pending(t[2])])
    BY <1>5 DEF ReadVotes
  <2>3. CASE \E v : Become(t, [th[t] EXCEPT !.pc = "voteSave", !.result = v])
    <3>1. PICK v : Become(t, [th[t] EXCEPT !.pc = "voteSave", !.result = v])
      BY <2>3
    <3>2. th'[t] = [th[t] EXCEPT !.pc = "voteSave", !.result = v]
      BY <1>1, <3>1, Moved
    <3>3. QED BY <1>1, <2>1, <3>2 DEF GoesTo, Keeps, ThreadState
  <2>4. CASE Become(t, [th[t] EXCEPT !.pc = "releaseDomain", !.rec = Pending(t[2])])
    <3>1. th'[t] = [th[t] EXCEPT !.pc = "releaseDomain", !.rec = Pending(t[2])]
      BY <1>1, <2>4, Moved
    <3>2. QED BY <1>1, <2>1, <3>1 DEF Takes, ThreadState
  <2>5. QED BY <2>1, <2>2, <2>3, <2>4
<1>6. ASSUME SaveVote(t)
      PROVE  /\ th[t].op = "vote" /\ t[1] = "vote"
             /\ Ends(t, "done") \/ Takes(t, "releaseDomain", "vote", Pending(t[2]))
  <2>1. th[t].op = "vote" /\ t[1] = "vote"
    BY <1>3, <1>6 DEF SaveVote, At
  <2>2. \/ Become(t, [Idle(t) EXCEPT !.pc = "done"])
        \/ Become(t, [th[t] EXCEPT !.pc = "releaseDomain", !.rec = Pending(t[2]), !.result = None])
    BY <1>6 DEF SaveVote
  <2>3. CASE Become(t, [th[t] EXCEPT !.pc = "releaseDomain", !.rec = Pending(t[2]), !.result = None])
    <3>1. th'[t] = [th[t] EXCEPT !.pc = "releaseDomain", !.rec = Pending(t[2]), !.result = None]
      BY <1>1, <2>3, Moved
    <3>2. QED BY <1>1, <2>1, <3>1 DEF Takes, ThreadState
  <2>4. QED BY <1>4, <2>1, <2>2, <2>3
<1>7. ASSUME Publish(t)
      PROVE  Ends(t, "done") \/ GoesTo(t, "find", "reject")
  <2>1. \/ Become(t, [Idle(t) EXCEPT !.pc = "done"])
        \/ Become(t, [th[t] EXCEPT !.pc = "find", !.op = "reject"])
    BY <1>7 DEF Publish
  <2>2. CASE Become(t, [th[t] EXCEPT !.pc = "find", !.op = "reject"])
    <3>1. th'[t] = [th[t] EXCEPT !.pc = "find", !.op = "reject"]
      BY <1>1, <2>2, Moved
    <3>2. QED BY <1>1, <3>1 DEF GoesTo, Keeps, ThreadState
  <2>3. QED BY <1>4, <2>1, <2>2
<1>8. QED BY <1>5, <1>6, <1>7

LEMMA DecideMoves ==
  ASSUME TypeOK, NEW t \in Threads
  PROVE  /\ Tick(t) => GoesTo(t, "tick", "tick")
         /\ Examine(t) =>
              \/ GoesTo(t, "tick", "tick")
              \/ /\ th'[t].pc = "get" /\ th'[t].op = "decide"
                 /\ th'[t].rec = th[t].rec /\ th'[t].ok = th[t].ok
         /\ SubmitSignedTx(t) =>
              /\ th[t].op = "decide"
              /\ \/ /\ ~BoundOnChain(th[t].dom) /\ mined' = mined \cup {th[t].rec.req}
                    /\ Takes(t, "saveResult", "decide", None)
                 \/ Takes(t, "find", "reject", None)
         /\ SaveResult(t) => GoesTo(t, "find", "confirm") \/ Ends(t, "tick")
<1>1. ThreadsOK /\ th[t] \in ThreadState /\ ThreadOK(t, th[t])
  BY ThreadFacts
<1>2. /\ th[t].pc = "tick" => th[t].op = "tick"
      /\ th[t].pc \in {"submit", "saveResult"} => th[t].op = "decide" /\ t[1] = "tick"
  BY <1>1 DEF ThreadOK, Control, GetPcs, SavePcs, LockPcs, UnlockPcs, ReleasePcs
<1>3. ASSUME Tick(t)
      PROVE  GoesTo(t, "tick", "tick")
  <2>1. th[t].pc = "tick" /\ th'[t] = [th[t] EXCEPT !.todo = index]
    BY <1>1, <1>3, Moved DEF Tick, At
  <2>2. QED BY <1>1, <1>2, <2>1 DEF GoesTo, Keeps, ThreadState
<1>4. ASSUME Examine(t)
      PROVE  \/ GoesTo(t, "tick", "tick")
             \/ /\ th'[t].pc = "get" /\ th'[t].op = "decide"
                /\ th'[t].rec = th[t].rec /\ th'[t].ok = th[t].ok
  <2>1. th[t].pc = "tick"
    BY <1>4 DEF Examine, At
  <2>2. PICK d \in th[t].todo :
          \/ Become(t, [[th[t] EXCEPT !.todo = @ \ {d}] EXCEPT
                          !.pc = "get", !.op = "decide", !.dom = d, !.result = Decided(votes[d])])
          \/ Become(t, [th[t] EXCEPT !.todo = @ \ {d}])
    BY <1>4 DEF Examine
  <2>3. \/ th'[t] = [[th[t] EXCEPT !.todo = @ \ {d}] EXCEPT
                       !.pc = "get", !.op = "decide", !.dom = d, !.result = Decided(votes[d])]
        \/ th'[t] = [th[t] EXCEPT !.todo = @ \ {d}]
    BY <1>1, <2>2, Moved
  <2>4. CASE th'[t] = [[th[t] EXCEPT !.todo = @ \ {d}] EXCEPT
                         !.pc = "get", !.op = "decide", !.dom = d, !.result = Decided(votes[d])]
    BY <1>1, <2>4 DEF ThreadState
  <2>5. CASE th'[t] = [th[t] EXCEPT !.todo = @ \ {d}]
    BY <1>1, <1>2, <2>1, <2>5 DEF GoesTo, Keeps, ThreadState
  <2>6. QED BY <2>3, <2>4, <2>5
<1>5. ASSUME SubmitSignedTx(t)
      PROVE  /\ th[t].op = "decide"
             /\ \/ /\ ~BoundOnChain(th[t].dom) /\ mined' = mined \cup {th[t].rec.req}
                   /\ Takes(t, "saveResult", "decide", None)
                \/ Takes(t, "find", "reject", None)
  <2>1. th[t].op = "decide"
    BY <1>2, <1>5 DEF SubmitSignedTx, At
  <2>2. \/ /\ ~BoundOnChain(th[t].dom) /\ mined' = mined \cup {th[t].rec.req}
           /\ Become(t, [th[t] EXCEPT !.pc = "saveResult", !.rec = None])
        \/ Become(t, [th[t] EXCEPT !.pc = "find", !.op = "reject", !.rec = None, !.result = None])
    BY <1>5 DEF SubmitSignedTx, Executable
  <2>3. CASE Become(t, [th[t] EXCEPT !.pc = "saveResult", !.rec = None])
    <3>1. th'[t] = [th[t] EXCEPT !.pc = "saveResult", !.rec = None]
      BY <1>1, <2>3, Moved
    <3>2. Takes(t, "saveResult", "decide", None)
      BY <1>1, <2>1, <3>1 DEF Takes, ThreadState
    <3>3. th'[t] # [th[t] EXCEPT !.pc = "find", !.op = "reject", !.rec = None, !.result = None]
      BY <1>1, <3>1 DEF ThreadState
    <3>4. QED BY <1>1, <2>1, <2>2, <3>2, <3>3, Moved
  <2>4. CASE Become(t, [th[t] EXCEPT !.pc = "find", !.op = "reject", !.rec = None, !.result = None])
    <3>1. th'[t] = [th[t] EXCEPT !.pc = "find", !.op = "reject", !.rec = None, !.result = None]
      BY <1>1, <2>4, Moved
    <3>2. QED BY <1>1, <2>1, <3>1 DEF Takes, ThreadState
  <2>5. QED BY <2>2, <2>3, <2>4
<1>6. ASSUME SaveResult(t)
      PROVE  GoesTo(t, "find", "confirm") \/ Ends(t, "tick")
  <2>1. \/ Become(t, [th[t] EXCEPT !.pc = "find", !.op = "confirm", !.result = None])
        \/ Become(t, NextDomain(t))
    BY <1>6 DEF SaveResult
  <2>2. t[1] = "tick"
    BY <1>2, <1>6 DEF SaveResult, At
  <2>3. CASE Become(t, [th[t] EXCEPT !.pc = "find", !.op = "confirm", !.result = None])
    <3>1. th'[t] = [th[t] EXCEPT !.pc = "find", !.op = "confirm", !.result = None]
      BY <1>1, <2>3, Moved
    <3>2. QED BY <1>1, <3>1 DEF GoesTo, Keeps, ThreadState
  <2>4. CASE Become(t, NextDomain(t))
    BY <1>1, <2>2, <2>4, Moved, Returned DEF Ends
  <2>5. QED BY <2>1, <2>3, <2>4
<1>7. QED BY <1>3, <1>4, <1>5, <1>6

\* A step changes no other thread, unless it starts it or stops the node.
LEMMA OtherThreads ==
  ASSUME TypeOK, StartedByAdd, NEW t \in Threads, Step(t), ~PanicInVote(t), NEW u \in Threads \ {t}
  PROVE  \/ th'[u] = th[u]
         \/ /\ u[1] \in {"vote", "publish"} /\ th[u].pc = "off" /\ th[u].op = u[1]
            /\ th'[u].pc = u[1] /\ th'[u].op = u[1] /\ th'[u].dom = th[u].dom
            /\ th'[u].rec = th[u].rec /\ th'[u].ok = th[u].ok
<1>1. ThreadsOK /\ th[u] \in ThreadState
  BY ThreadFacts
<1>2. CASE \E s : Become(t, s)
  BY <1>1, <1>2, Moved
<1>3. CASE (ReleaseIndex(t) \/ ReleaseIndexPut(t)) /\ AfterReleaseIndex(t) /\ th[t].op = "add" /\ th[t].ok
  <2>1. th[t].pc \in UnlockPcs
    BY <1>3 DEF ReleaseIndex, ReleaseIndexPut, At, UnlockPcs
  <2>2. \/ th'[u] = th[u]
        \/ /\ u[1] \in {"vote", "publish"} /\ th[u].pc = "off" /\ th[u].op = u[1]
           /\ th'[u] = [th[u] EXCEPT !.pc = u[1]]
    BY <1>3, <2>1, StartsThreads DEF AfterReleaseIndex
  <2>3. QED BY <1>1, <2>2 DEF ThreadState
<1>4. QED BY <1>1, <1>2, <1>3, ThreadFrame

\* What a stop leaves of a thread.
LEMMA StoppedThreads ==
  ASSUME TypeOK, StartedByAdd, NEW n \in Nodes, Stop(n), NEW u \in Threads
  PROVE  \/ th'[u] = th[u]
         \/ /\ th'[u].op = u[1] /\ th'[u].rec = None /\ th'[u].ok /\ Node(u) = n
            /\ \/ u[1] = "tick" /\ th'[u].pc = "tick"
               \/ u[1] # "tick" /\ th'[u].pc = "dead" /\ ~Resting(u)
<1>1. \/ th'[u] = th[u]
      \/ Node(u) = n /\ u[1] = "tick" /\ th'[u] = Idle(u)
      \/ Node(u) = n /\ u[1] # "tick" /\ ~Resting(u) /\ th'[u] = [Idle(u) EXCEPT !.pc = "dead"]
  BY StopThreads
<1>2. /\ Idle(u).op = u[1] /\ Idle(u).rec = None /\ Idle(u).ok
      /\ u[1] = "tick" => Idle(u).pc = "tick"
  BY DEF Idle
<1>3. "dead" \in Pcs
  BY DEF Pcs
<1> HIDE DEF Idle
<1>4. LET s == [Idle(u) EXCEPT !.pc = "dead"]
      IN s.pc = "dead" /\ s.op = u[1] /\ s.rec = None /\ s.ok
  BY <1>3, Returned
<1>5. QED BY <1>1, <1>2, <1>4

-----------------------------------------------------------------------------
(* The order in which SaveRecord writes *)

LEMMA RecordsStay ==
  ASSUME TypeOK, NEW t \in Threads, Step(t), NEW d \in Domains
  PROVE  /\ record[d] # None => record'[d] # None
         /\ \A n \in Nodes : db[n][d] # None => db'[n][d] # None
<1>1. /\ th[t] \in ThreadState /\ ThreadOK(t, th[t]) /\ Node(t) \in Nodes
      /\ th[t].pc \in SavePcs => th[t].rec # None
      /\ th[t].op # "tick" => th[t].dom \in Domains
      /\ record \in [Domains -> RecordOrNone] /\ db \in [Nodes -> [Domains -> RecordOrNone]]
  BY ThreadFacts, ThreadKinds DEF ThreadOK, HasRecord, TypeOK
<1>2. record[d] # None => record'[d] # None
  <2>1. CASE SaveRecordDHT(t)
    <3>1. th[t].rec # None
      BY <1>1, <2>1 DEF SaveRecordDHT, At, SavePcs
    <3>2. PICK p \in PutValue(record[th[t].dom], th[t].rec) :
            record' = [record EXCEPT ![th[t].dom] = p.value]
      BY <2>1, SaveMoves
    <3>3. p.value = record[th[t].dom] \/ p.value = th[t].rec
      BY DHTTypes
    <3>4. QED BY <1>1, <3>1, <3>2, <3>3
  <2>2. CASE UNCHANGED record
    BY <2>2
  <2>3. QED BY <2>1, <2>2, DHTFrame DEF dhtVars
<1>3. \A n \in Nodes : db[n][d] # None => db'[n][d] # None
  <2>1. CASE SaveRecordLocal(t)
    <3>1. th[t].rec # None
      BY <1>1, <2>1 DEF SaveRecordLocal, At, SavePcs
    <3>2. db' = [db EXCEPT ![Node(t)][th[t].dom] = th[t].rec]
      BY <2>1 DEF SaveRecordLocal
    <3>3. QED BY <1>1, <3>1, <3>2
  <2>2. CASE UNCHANGED db
    BY <2>2
  <2>3. QED BY <2>1, <2>2, NodeFrame DEF nodeVars
<1>4. QED BY <1>2, <1>3

LEMMA ToSave ==
  ASSUME TypeOK, StartedByAdd, NEW t \in Threads, Step(t), ~PanicInVote(t),
         th'[t].pc \in {"saveLocal", "saveName", "saveNameLocal"}
  PROVE  \/ SaveRecordDHT(t) /\ GoesTo(t, "saveLocal", th[t].op)
         \/ SaveRecordLocal(t) /\ GoesTo(t, "saveName", th[t].op)
         \/ SaveNamehash(t) /\ GoesTo(t, "saveNameLocal", th[t].op)
<1> USE DEF GoesTo, Takes, Ends
<1>1. \A r : ~GetReturns(t, r, th'[t])
  BY DEF GetReturns
<1>2. \A ok : ~SaveReturns(t, ok, th'[t])
  BY <1>1 DEF SaveReturns
<1>3. ~Abandons(t, th'[t]) /\ ~IndexWritten(t, th'[t]) /\ ~DomainReleased(t, th'[t]) /\ ~AddReturns(t)
  BY DEF Abandons, DomainReleased, AddReturns, IndexWritten, Keeps
<1>4. CASE \/ AddBinding(t) \/ GetByNamehash(t) \/ GetLocal(t) \/ GetPendingRecord(t)
           \/ GetLatestRecord(t)
  BY <1>1, <1>4, GetMoves
<1>5. CASE SaveRecordDHT(t) \/ SaveRecordLocal(t) \/ SaveNamehash(t) \/ SaveNamehashLocal(t)
  BY <1>2, <1>5, SaveMoves
<1>6. CASE ValidateSignedTx(t) \/ LockDomain(t) \/ LockDomainPut(t) \/ SavePending(t)
  BY <1>6, AddMoves
<1>7. CASE \/ FindPending(t) \/ LockIndex(t) \/ LockIndexPut(t) \/ ReadIndex(t) \/ WriteIndex(t)
           \/ ClearPending(t)
  BY <1>3, <1>7, IndexMoves
<1>8. CASE ReleaseDomain(t) \/ ReleaseDomainPut(t) \/ ReleaseIndex(t) \/ ReleaseIndexPut(t)
  BY <1>3, <1>8, ReleaseMoves
<1>9. CASE ReadVotes(t) \/ SaveVote(t) \/ Publish(t)
  BY <1>9, VoteMoves
<1>10. CASE Tick(t) \/ Examine(t) \/ SubmitSignedTx(t) \/ SaveResult(t)
  BY <1>10, DecideMoves
<1>11. QED BY <1>4, <1>5, <1>6, <1>7, <1>8, <1>9, <1>10 DEF Step

LEMMA SavedInOrderStep ==
  ASSUME TypeOK, StartedByAdd, SavedInOrder, NamehashResolves, NEW t \in Threads, Step(t),
         ~PanicInVote(t)
  PROVE  SavedInOrder' /\ NamehashResolves'
<1>1. /\ th[t] \in ThreadState /\ ThreadOK(t, th[t]) /\ Node(t) \in Nodes
      /\ th[t].pc # "tick" => th[t].dom \in Domains
      /\ record \in [Domains -> RecordOrNone] /\ db \in [Nodes -> [Domains -> RecordOrNone]]
      /\ nameMap \subseteq Domains /\ dbNames \in [Nodes -> SUBSET Domains]
      /\ th[t].pc \in SavePcs => th[t].rec # None
  BY ThreadFacts, ThreadKinds DEF ThreadOK, Control, HasRecord, TypeOK
<1>2. ASSUME NEW u \in Threads, th'[u].pc \in SavePcs \ {"saveRecord"}
      PROVE  /\ record'[th'[u].dom] # None
             /\ th'[u].pc \in {"saveName", "saveNameLocal"} => db'[Node(u)][th'[u].dom] # None
  <2>1. CASE u # t
    <3>1. th'[u] = th[u]
      BY <1>2, <2>1, OtherThreads DEF SavePcs
    <3>2. ThreadOK(u, th[u]) /\ Node(u) \in Nodes
      BY ThreadFacts, ThreadKinds
    <3>3. th[u].dom \in Domains
      BY <1>2, <3>1, <3>2 DEF ThreadOK, Control, SavePcs
    <3>4. QED BY <1>2, <3>1, <3>2, <3>3, RecordsStay DEF SavedInOrder
  <2>2. CASE u = t /\ SaveRecordDHT(t) /\ GoesTo(t, "saveLocal", th[t].op)
    <3>1. th[t].pc = "saveRecord" /\ th[t].rec # None /\ th[t].dom \in Domains
      BY <1>1, <2>2 DEF SaveRecordDHT, At, SavePcs
    <3>2. PICK p \in PutValue(record[th[t].dom], th[t].rec) :
            /\ record' = [record EXCEPT ![th[t].dom] = p.value]
            /\ p.ok \/ SaveReturns(t, FALSE, th'[t])
      BY <2>2, SaveMoves
    <3>3. ~SaveReturns(t, FALSE, th'[t])
      BY <2>2 DEF GoesTo, SaveReturns, GetReturns
    <3>4. p.value = th[t].rec
      BY <3>2, <3>3, DHTTypes
    <3>5. QED BY <1>1, <2>2, <3>1, <3>2, <3>4 DEF GoesTo, Keeps
  <2>3. CASE u = t /\ SaveRecordLocal(t) /\ GoesTo(t, "saveName", th[t].op)
    <3>1. th[t].pc = "saveLocal" /\ th[t].rec # None /\ th[t].dom \in Domains
      BY <1>1, <2>3 DEF SaveRecordLocal, At, SavePcs
    <3>2. db' = [db EXCEPT ![Node(t)][th[t].dom] = th[t].rec]
      BY <2>3 DEF SaveRecordLocal
    <3>3. record'[th[t].dom] # None
      BY <3>1, RecordsStay DEF SavedInOrder, SavePcs
    <3>4. QED BY <1>1, <2>3, <3>1, <3>2, <3>3 DEF GoesTo, Keeps
  <2>4. CASE u = t /\ SaveNamehash(t) /\ GoesTo(t, "saveNameLocal", th[t].op)
    <3>1. th[t].pc = "saveName" /\ th[t].dom \in Domains
      BY <1>1, <2>4 DEF SaveNamehash, At
    <3>2. record'[th[t].dom] # None /\ db'[Node(t)][th[t].dom] # None
      BY <1>1, <3>1, RecordsStay DEF SavedInOrder, SavePcs
    <3>3. QED BY <2>4, <3>2 DEF GoesTo, Keeps
  <2>5. QED BY <1>2, <2>1, <2>2, <2>3, <2>4, ToSave DEF SavePcs
<1>3. SavedInOrder'
  BY <1>2 DEF SavedInOrder, SavePcs
<1>4. CASE SaveNamehash(t)
  <2>1. th[t].pc = "saveName" /\ th[t].dom \in Domains
    BY <1>1, <1>4 DEF SaveNamehash, At
  <2>2. record[th[t].dom] # None /\ db[Node(t)][th[t].dom] # None
    BY <2>1 DEF SavedInOrder, SavePcs
  <2>3. PICK p \in PutValue(nameMap, nameMap \cup {th[t].dom}) : nameMap' = p.value
    BY <1>4 DEF SaveNamehash
  <2>4. nameMap' \subseteq nameMap \cup {th[t].dom} /\ UNCHANGED dbNames
    BY <1>4, <2>3, DHTTypes DEF SaveNamehash, nodeVars
  <2>5. QED BY <1>3, <2>2, <2>4, RecordsStay DEF NamehashResolves
<1>5. CASE SaveNamehashLocal(t)
  <2>1. th[t].pc = "saveNameLocal" /\ th[t].dom \in Domains
    BY <1>1, <1>5 DEF SaveNamehashLocal, At
  <2>2. record[th[t].dom] # None /\ db[Node(t)][th[t].dom] # None
    BY <2>1 DEF SavedInOrder, SavePcs
  <2>3. UNCHANGED nameMap /\ dbNames' = [dbNames EXCEPT ![Node(t)] = @ \cup {th[t].dom}]
    BY <1>5 DEF SaveNamehashLocal, dhtVars
  <2>4. \A n \in Nodes : dbNames'[n] \subseteq dbNames[n] \cup (IF n = Node(t) THEN {th[t].dom} ELSE {})
    BY <1>1, <2>3
  <2>5. QED BY <1>3, <2>2, <2>3, <2>4, RecordsStay DEF NamehashResolves
<1>6. CASE UNCHANGED <<nameMap, dbNames>>
  BY <1>3, <1>6, RecordsStay DEF NamehashResolves
<1>7. QED BY <1>4, <1>5, <1>6, DHTFrame, NodeFrame DEF dhtVars, nodeVars

LEMMA SavedInOrderStop ==
  ASSUME TypeOK, StartedByAdd, SavedInOrder, NamehashResolves, NEW n \in Nodes, Stop(n)
  PROVE  SavedInOrder' /\ NamehashResolves'
<1>1. UNCHANGED <<record, nameMap, db, dbNames>>
  BY DEF Stop, dhtVars
<1>2. ASSUME NEW u \in Threads, th'[u].pc \in SavePcs
      PROVE  th'[u] = th[u]
  BY <1>2, StoppedThreads DEF SavePcs
<1>3. SavedInOrder'
  BY <1>1, <1>2 DEF SavedInOrder, SavePcs
<1>4. QED BY <1>1, <1>3 DEF NamehashResolves

\* A namehash resolves to a domain that has a record, in the DHT and on every node,
\* whatever fails and whoever crashes in the middle of SaveRecord.
THEOREM NamehashesResolve == Spec => []NamehashResolves
<1> DEFINE Inv == TypeOK /\ StartedByAdd /\ SavedInOrder /\ NamehashResolves
<1>1. Init => Inv
  <2> SUFFICES ASSUME Init PROVE Inv
    OBVIOUS
  <2>1. TypeOK /\ StartedByAdd
    BY InitTypes
  <2>2. ASSUME NEW t \in Threads
        PROVE  th[t].pc \notin SavePcs
    <3>1. th[t] = Idle(t)
      BY DEF Init
    <3>2. QED BY <3>1, ThreadKinds DEF Idle, SavePcs
  <2>3. SavedInOrder /\ NamehashResolves
    BY <2>2 DEF SavedInOrder, NamehashResolves, Init, SavePcs
  <2>4. QED BY <2>1, <2>3
<1>2. Inv /\ [Next]_vars => Inv'
  <2> SUFFICES ASSUME Inv, [Next]_vars PROVE Inv'
    OBVIOUS
  <2>1. TypeOK' /\ StartedByAdd'
    BY TypesKept
  <2>2. CASE \E t \in Threads : Runs(t)
    BY <2>1, <2>2, SavedInOrderStep, SavedInOrderStop, ThreadKinds DEF Runs, PanicInVote
  <2>3. CASE \E n \in Nodes : Crash(n)
    BY <2>1, <2>3, SavedInOrderStop DEF Crash
  <2>4. CASE (\E n \in Nodes : Restart(n)) \/ UNCHANGED vars
    <3>1. UNCHANGED <<record, nameMap, db, dbNames, th>>
      BY <2>4 DEF Restart, vars, dhtVars, nodeVars
    <3>2. QED BY <2>1, <3>1 DEF SavedInOrder, NamehashResolves
  <2>5. CASE \E r \in Requests : Mine(r) \/ Lapse(r)
    <3>1. UNCHANGED <<record, nameMap, db, dbNames, th>>
      BY <2>5, ChainSteps DEF dhtVars, nodeVars
    <3>2. QED BY <2>1, <3>1 DEF SavedInOrder, NamehashResolves
  <2>6. QED BY <2>2, <2>3, <2>4, <2>5 DEF Next
<1>3. Inv => NamehashResolves
  OBVIOUS
<1>4. QED BY <1>1, <1>2, <1>3, PTL DEF Spec

-----------------------------------------------------------------------------
(* Records and domains *)

Fits(s) == IF s.op = "tick" THEN s.rec = None ELSE Of(s.rec, s.dom)
Owns(t, s) == s.op \in {"add", "undo"} => s.rec = Pending(t[2])

LEMMA FitsThread ==
  ASSUME TypeOK, StartedByAdd, RecordsFit, OwnRecord, NEW t \in Threads, Step(t), ~PanicInVote(t)
  PROVE  Fits(th'[t]) /\ Owns(t, th'[t])
<1>1. /\ ThreadOK(t, th[t]) /\ Node(t) \in Nodes
      /\ th[t].op # "tick" => th[t].dom \in Domains
  BY ThreadFacts, ThreadKinds
<1>2. Fits(th[t]) /\ Owns(t, th[t])
  BY DEF RecordsFit, OwnRecord, Fits, Owns
<1>3. th[t].op = "tick" <=> th[t].pc = "tick"
  BY <1>1 DEF ThreadOK, Control, GetPcs, SavePcs, LockPcs, UnlockPcs, ReleasePcs
<1>4. th[t].op # "tick" =>
        /\ Of(pending[th[t].dom], th[t].dom) /\ Of(record[th[t].dom], th[t].dom)
        /\ Of(db[Node(t)][th[t].dom], th[t].dom)
  BY <1>1 DEF RecordsFit
<1>5. ASSUME NEW pc, NEW op, GoesTo(t, pc, op), th[t].op = "tick" <=> op = "tick",
             op \in {"add", "undo"} => th[t].op \in {"add", "undo"}
      PROVE  Fits(th'[t]) /\ Owns(t, th'[t])
  BY <1>2, <1>5 DEF GoesTo, Keeps, Fits, Owns, Of
<1>6. ASSUME NEW r, GetReturns(t, r, th'[t]), Of(r, th[t].dom), th[t].op # "tick"
      PROVE  Fits(th'[t]) /\ Owns(t, th'[t])
  BY <1>2, <1>6 DEF GetReturns, Keeps, Fits, Owns, Of
<1>7. ASSUME NEW ok, SaveReturns(t, ok, th'[t]), th[t].op # "tick"
      PROVE  Fits(th'[t]) /\ Owns(t, th'[t])
  <2>1. CASE GetReturns(t, th[t].rec, th'[t])
    BY <1>2, <1>6, <1>7, <2>1 DEF Fits
  <2>2. QED BY <1>2, <1>7, <2>1 DEF SaveReturns, Fits, Owns, Of
<1>8. ASSUME Abandons(t, th'[t])
      PROVE  Fits(th'[t]) /\ Owns(t, th'[t])
  <2>1. t[1] \notin {"add", "undo"}
    BY ThreadKinds
  <2>2. QED BY <1>2, <1>8, <2>1 DEF Abandons, Keeps, Fits, Owns, Of
<1>9. ASSUME NEW pc, Ends(t, pc)
      PROVE  Fits(th'[t]) /\ Owns(t, th'[t])
  <2>1. t[1] \notin {"add", "undo"}
    BY ThreadKinds
  <2>2. QED BY <1>9, <2>1 DEF Ends, Fits, Owns, Of
<1>10. ASSUME NEW pc, NEW op, NEW r, Takes(t, pc, op, r), Of(r, th[t].dom), op # "tick",
              op \in {"add", "undo"} => r = Pending(t[2])
       PROVE  Fits(th'[t]) /\ Owns(t, th'[t])
  BY <1>10 DEF Takes, Fits, Owns, Of
<1>11. t[1] # "tick" => Of(Pending(t[2]), th[t].dom)
  BY <1>1 DEF ThreadOK, Of, Pending
<1>12. CASE AddBinding(t) \/ GetByNamehash(t)
  BY <1>5, <1>12, GetMoves
<1>13. CASE GetLocal(t)
  <2>1. th[t].op # "tick"
    BY <1>3, <1>13 DEF GetLocal, At
  <2>2. QED BY <1>4, <1>5, <1>6, <1>13, <2>1, GetMoves
<1>14. CASE GetPendingRecord(t)
  <2>1. th[t].op # "tick"
    BY <1>3, <1>14 DEF GetPendingRecord, At
  <2>2. \A r \in GetValue(pending[th[t].dom]) : Of(r, th[t].dom)
    BY <1>4, <2>1, DHTTypes DEF Of
  <2>3. QED BY <1>5, <1>6, <1>14, <2>1, <2>2, GetMoves
<1>15. CASE GetLatestRecord(t)
  <2>1. th[t].op # "tick"
    BY <1>3, <1>15 DEF GetLatestRecord, At
  <2>2. CASE GetReturns(t, None, th'[t])
    BY <1>6, <2>1, <2>2 DEF Of
  <2>3. CASE Takes(t, "saveRecord", th[t].op, record[th[t].dom])
    <3>1. th[t].op \notin {"add", "undo"}
      BY <1>1, <1>15 DEF GetLatestRecord, At, ThreadOK, Control, LockPcs, UnlockPcs, ReleasePcs
    <3>2. QED BY <1>4, <1>10, <2>1, <2>3, <3>1
  <2>4. QED BY <1>15, <2>2, <2>3, GetMoves DEF Takes
<1>16. CASE SaveRecordDHT(t) \/ SaveRecordLocal(t) \/ SaveNamehash(t) \/ SaveNamehashLocal(t)
  <2>1. th[t].op # "tick"
    BY <1>3, <1>16 DEF SaveRecordDHT, SaveRecordLocal, SaveNamehash, SaveNamehashLocal, At
  <2>2. QED BY <1>5, <1>7, <1>16, <2>1, SaveMoves
<1>17. CASE ValidateSignedTx(t) \/ LockDomain(t) \/ LockDomainPut(t)
  <2>1. th[t].op # "tick"
    BY <1>3, <1>17 DEF ValidateSignedTx, LockDomain, LockDomainPut, At
  <2>2. QED BY <1>5, <1>10, <1>11, <1>17, <2>1, AddMoves
<1>18. CASE SavePending(t)
  BY <1>2, <1>18, AddMoves DEF Fits, Owns
<1>19. CASE FindPending(t)
  <2>1. th[t].op \notin {"tick", "add", "undo"}
    BY <1>1, <1>19
       DEF FindPending, At, ThreadOK, Control, LockPcs, UnlockPcs, ReleasePcs
  <2>2. QED BY <1>4, <1>8, <1>10, <1>19, <2>1, IndexMoves
<1>20. CASE LockIndex(t) \/ LockIndexPut(t) \/ ReadIndex(t) \/ ClearPending(t)
  <2>1. th[t].op # "tick"
    BY <1>3, <1>20 DEF LockIndex, LockIndexPut, ReadIndex, ClearPending, At
  <2>2. QED BY <1>5, <1>8, <1>20, <2>1, IndexMoves
<1>21. CASE WriteIndex(t)
  <2>1. th[t].op # "tick" /\ th[t].rec # None
    BY <1>1, <1>3, <1>21 DEF WriteIndex, At, ThreadOK, HasRecord, LockPcs
  <2>2. IndexWritten(t, th'[t])
    BY <1>21, IndexMoves
  <2>3. QED BY <1>2, <2>1, <2>2 DEF IndexWritten, Keeps, Fits, Owns, Of, Confirmed
<1>22. CASE ReleaseDomain(t) \/ ReleaseDomainPut(t)
  <2>1. th[t].op # "tick"
    BY <1>3, <1>22 DEF ReleaseDomain, ReleaseDomainPut, At
  <2>2. CASE DomainReleased(t, th'[t])
    BY <1>2, <2>2 DEF DomainReleased, Keeps, Fits, Owns, Of
  <2>3. QED BY <1>5, <1>22, <2>1, <2>2, ReleaseMoves
<1>23. CASE ReleaseIndex(t) \/ ReleaseIndexPut(t)
  <2>1. th[t].op # "tick"
    BY <1>3, <1>23 DEF ReleaseIndex, ReleaseIndexPut, At
  <2>2. CASE AddReturns(t)
    BY <2>2 DEF AddReturns, Fits, Owns, Of
  <2>3. QED BY <1>5, <1>8, <1>23, <2>1, <2>2, ReleaseMoves
<1>24. CASE ReadVotes(t) \/ SaveVote(t)
  BY <1>5, <1>9, <1>10, <1>11, <1>24, VoteMoves
<1>25. CASE Publish(t)
  <2>1. th[t].op # "tick"
    BY <1>3, <1>25 DEF Publish, At
  <2>2. QED BY <1>5, <1>9, <1>25, <2>1, VoteMoves
<1>26. CASE Tick(t) \/ Examine(t)
  <2>1. th[t].op = "tick"
    BY <1>3, <1>26 DEF Tick, Examine, At
  <2>2. QED BY <1>2, <1>5, <1>26, <2>1, DecideMoves DEF Fits, Owns, Of
<1>27. CASE SubmitSignedTx(t) \/ SaveResult(t)
  <2>1. th[t].op # "tick" /\ Of(None, th[t].dom)
    BY <1>3, <1>27 DEF SubmitSignedTx, SaveResult, At, Of
  <2>2. QED BY <1>5, <1>9, <1>10, <1>27, <2>1, DecideMoves
<1>28. QED BY <1>12, <1>13, <1>14, <1>15, <1>16, <1>17, <1>18, <1>19, <1>20, <1>21, <1>22, <1>23,
              <1>24, <1>25, <1>26, <1>27 DEF Step

LEMMA FitsKept ==
  ASSUME TypeOK, StartedByAdd, RecordsFit, OwnRecord, [Next]_vars
  PROVE  RecordsFit' /\ OwnRecord'
<1>1. ASSUME NEW t \in Threads, Step(t), ~PanicInVote(t)
      PROVE  RecordsFit' /\ OwnRecord'
  <2>1. /\ ThreadOK(t, th[t]) /\ Node(t) \in Nodes
        /\ th[t].pc # "tick" => th[t].op # "tick" /\ th[t].dom \in Domains
        /\ pending \in [Domains -> RecordOrNone] /\ record \in [Domains -> RecordOrNone]
        /\ db \in [Nodes -> [Domains -> RecordOrNone]]
    BY ThreadFacts, ThreadKinds DEF ThreadOK, Control, TypeOK
  <2>2. th[t].pc # "tick" => Of(th[t].rec, th[t].dom)
    BY <2>1 DEF RecordsFit
  <2>3. ASSUME NEW u \in Threads
        PROVE  Fits(th'[u]) /\ Owns(u, th'[u])
    <3>1. CASE u = t
      BY <1>1, <3>1, FitsThread
    <3>2. CASE u # t
      <4>1. Fits(th[u]) /\ Owns(u, th[u])
        BY DEF RecordsFit, OwnRecord, Fits, Owns
      <4>2. \/ th'[u] = th[u]
            \/ th'[u].op = th[u].op /\ th'[u].rec = th[u].rec /\ th'[u].dom = th[u].dom
        BY <1>1, <3>2, OtherThreads
      <4>3. QED BY <4>1, <4>2 DEF Fits, Owns
    <3>3. QED BY <3>1, <3>2
  <2>4. \A d \in Domains : Of(pending'[d], d) /\ ~IsConfirmed(pending'[d])
    <3>1. CASE SavePending(t)
      <4>1. th[t].pc = "savePending" /\ th[t].op = "add"
        BY <3>1, AddMoves DEF SavePending, At
      <4>2. th[t].rec = Pending(t[2])
        BY <4>1 DEF OwnRecord
      <4>3. PICK p \in PutValue(pending[th[t].dom], th[t].rec) :
              pending' = [pending EXCEPT ![th[t].dom] = p.value]
        BY <3>1, AddMoves
      <4>4. p.value = pending[th[t].dom] \/ p.value = th[t].rec
        BY DHTTypes
      <4>5. ~IsConfirmed(th[t].rec)
        BY <4>2 DEF Pending, IsConfirmed
      <4>6. QED BY <2>1, <2>2, <4>1, <4>3, <4>4, <4>5 DEF RecordsFit, OwnRecord
    <3>2. CASE ClearPending(t)
      <4>1. PICK p \in PutValue(pending[th[t].dom], None) :
              pending' = [pending EXCEPT ![th[t].dom] = p.value]
        BY <3>2 DEF ClearPending
      <4>2. p.value = pending[th[t].dom] \/ p.value = None
        BY DHTTypes
      <4>3. QED BY <2>1, <4>1, <4>2 DEF RecordsFit, OwnRecord, Of, IsConfirmed
    <3>3. CASE UNCHANGED pending
      BY <3>3 DEF RecordsFit, OwnRecord
    <3>4. QED BY <1>1, <3>1, <3>2, <3>3, DHTFrame DEF dhtVars
  <2>5. \A d \in Domains : Of(record'[d], d)
    <3>1. CASE SaveRecordDHT(t)
      <4>1. th[t].pc # "tick"
        BY <3>1 DEF SaveRecordDHT, At
      <4>2. PICK p \in PutValue(record[th[t].dom], th[t].rec) :
              record' = [record EXCEPT ![th[t].dom] = p.value]
        BY <3>1, SaveMoves
      <4>3. p.value = record[th[t].dom] \/ p.value = th[t].rec
        BY DHTTypes
      <4>4. QED BY <2>1, <2>2, <4>1, <4>2, <4>3 DEF RecordsFit
    <3>2. CASE UNCHANGED record
      BY <3>2 DEF RecordsFit
    <3>3. QED BY <1>1, <3>1, <3>2, DHTFrame DEF dhtVars
  <2>6. \A d \in Domains, n \in Nodes : Of(db'[n][d], d)
    <3>1. CASE SaveRecordLocal(t)
      <4>1. th[t].pc # "tick" /\ db' = [db EXCEPT ![Node(t)][th[t].dom] = th[t].rec]
        BY <3>1 DEF SaveRecordLocal, At
      <4>2. QED BY <2>1, <2>2, <4>1 DEF RecordsFit
    <3>2. CASE UNCHANGED db
      BY <3>2 DEF RecordsFit
    <3>3. QED BY <1>1, <3>1, <3>2, NodeFrame DEF nodeVars
  <2>7. QED BY <2>3, <2>4, <2>5, <2>6 DEF RecordsFit, OwnRecord, Fits, Owns
<1>2. ASSUME NEW n \in Nodes, Stop(n)
      PROVE  RecordsFit' /\ OwnRecord'
  <2>1. UNCHANGED <<pending, record, db>>
    BY <1>2 DEF Stop, dhtVars
  <2>2. ASSUME NEW u \in Threads
        PROVE  Fits(th'[u]) /\ Owns(u, th'[u])
    <3>1. Fits(th[u]) /\ Owns(u, th[u]) /\ u[1] \notin {"add", "undo"}
      BY ThreadKinds DEF RecordsFit, OwnRecord, Fits, Owns
    <3>2. QED BY <1>2, <3>1, StoppedThreads DEF Fits, Owns, Of
  <2>3. QED BY <2>1, <2>2 DEF RecordsFit, OwnRecord, Fits, Owns
<1>3. CASE (\E n \in Nodes : Restart(n)) \/ UNCHANGED vars
  BY <1>3 DEF Restart, vars, dhtVars, nodeVars, RecordsFit, OwnRecord
<1>4. CASE \E r \in Requests : Mine(r) \/ Lapse(r)
  <2>1. UNCHANGED <<pending, record, db, th>>
    BY <1>4, ChainSteps DEF dhtVars, nodeVars
  <2>2. QED BY <2>1 DEF RecordsFit, OwnRecord
<1>5. QED BY <1>1, <1>2, <1>3, <1>4, ThreadKinds DEF Next, Runs, Crash, PanicInVote

LEMMA InitIdle ==
  ASSUME Init, NEW t \in Threads
  PROVE  /\ th[t].op = t[1] /\ th[t].rec = None /\ th[t].ok
         /\ th[t].pc \in {"get", "update", "tick", "off"}
<1>1. th[t] = Idle(t)
  BY DEF Init
<1>2. QED BY <1>1, ThreadKinds DEF Idle

LEMMA InitFits ==
  ASSUME Init
  PROVE  RecordsFit /\ OwnRecord
<1>1. \A t \in Threads : th[t].op = t[1] /\ th[t].rec = None /\ t[1] \notin {"add", "undo"}
  BY InitIdle, ThreadKinds
<1>2. QED BY <1>1 DEF RecordsFit, OwnRecord, Init, Of, IsConfirmed

-----------------------------------------------------------------------------
(* A domain is confirmed once *)

\* Only a submission that the chain takes leads to ConfirmRecord.
LEMMA ConfirmingThread ==
  ASSUME TypeOK, StartedByAdd, NEW t \in Threads, Step(t), ~PanicInVote(t), NEW d,
         Confirming(t, d)'
  PROVE  /\ ~SaveRecordDHT(t)
         /\ \/ Confirming(t, d)
            \/ /\ SubmitSignedTx(t) /\ d = th[t].dom /\ ~BoundOnChain(d)
               /\ mined' = mined \cup {th[t].rec.req}
<1>1. ThreadOK(t, th[t])
  BY ThreadFacts
<1>2. /\ th'[t].dom = d
      /\ \/ th'[t].pc = "saveResult"
         \/ th'[t].op = "confirm" /\ th'[t].pc \in LockPcs \cup {"find", "saveRecord"}
  BY DEF Confirming
<1> USE DEF GoesTo, Takes, Ends, Keeps
<1>3. \A r : ~GetReturns(t, r, th'[t])
  BY <1>2 DEF GetReturns, LockPcs
<1>4. \A ok : ~SaveReturns(t, ok, th'[t])
  BY <1>2, <1>3 DEF SaveReturns, LockPcs
<1>5. ~Abandons(t, th'[t]) /\ ~DomainReleased(t, th'[t]) /\ ~AddReturns(t)
  BY <1>2 DEF Abandons, DomainReleased, AddReturns, LockPcs
<1>6. CASE AddBinding(t) \/ GetByNamehash(t) \/ GetLocal(t) \/ GetPendingRecord(t)
  BY <1>2, <1>3, <1>6, GetMoves DEF LockPcs
<1>7. CASE GetLatestRecord(t)
  <2>1. th[t].op # "confirm"
    BY <1>1, <1>7
       DEF GetLatestRecord, At, ThreadOK, Control, SavePcs, LockPcs, UnlockPcs, ReleasePcs
  <2>2. QED BY <1>2, <1>3, <1>7, <2>1, GetMoves
<1>8. CASE SaveRecordDHT(t) \/ SaveRecordLocal(t) \/ SaveNamehash(t) \/ SaveNamehashLocal(t)
  BY <1>2, <1>4, <1>8, SaveMoves DEF LockPcs
<1>9. CASE ValidateSignedTx(t) \/ LockDomain(t) \/ LockDomainPut(t) \/ SavePending(t)
  BY <1>2, <1>9, AddMoves
<1>10. CASE FindPending(t) \/ LockIndex(t) \/ LockIndexPut(t) \/ ReadIndex(t) \/ WriteIndex(t)
  <2>1. th[t].pc \in LockPcs \cup {"find"} /\ ~SaveRecordDHT(t)
    BY <1>10
       DEF FindPending, LockIndex, LockIndexPut, ReadIndex, WriteIndex, SaveRecordDHT, At, LockPcs
  <2>2. th'[t].op = th[t].op /\ th'[t].dom = th[t].dom /\ th'[t].pc # "saveResult"
    BY <1>5, <1>10, IndexMoves DEF IndexWritten
  <2>3. QED BY <1>2, <2>1, <2>2 DEF Confirming
<1>11. CASE ClearPending(t)
  BY <1>2, <1>11, IndexMoves DEF LockPcs
<1>12. CASE ReleaseDomain(t) \/ ReleaseDomainPut(t) \/ ReleaseIndex(t) \/ ReleaseIndexPut(t)
  BY <1>2, <1>5, <1>12, ReleaseMoves DEF LockPcs
<1>13. CASE ReadVotes(t) \/ SaveVote(t) \/ Publish(t)
  BY <1>2, <1>13, VoteMoves DEF LockPcs
<1>14. CASE Tick(t) \/ Examine(t)
  BY <1>2, <1>14, DecideMoves
<1>15. CASE SubmitSignedTx(t)
  <2>1. ~SaveRecordDHT(t)
    BY <1>15 DEF SubmitSignedTx, SaveRecordDHT, At
  <2>2. QED BY <1>2, <1>15, <2>1, DecideMoves
<1>16. CASE SaveResult(t)
  <2>1. th[t].pc = "saveResult" /\ ~SaveRecordDHT(t)
    BY <1>16 DEF SaveResult, SaveRecordDHT, At
  <2>2. QED BY <1>2, <1>16, <2>1, DecideMoves DEF Confirming, LockPcs
<1>17. QED BY <1>6, <1>7, <1>8, <1>9, <1>10, <1>11, <1>12, <1>13, <1>14, <1>15, <1>16 DEF Step

\* The record of a domain whose binding lasts changes once, when ConfirmRecord saves it.
LEMMA RecordChange ==
  ASSUME TypeOK, OneConfirmation, SavedIsRecord, NEW t \in Threads, Step(t), NEW d \in Domains,
         Unlapsed(d)
  PROVE  \/ record'[d] = record[d]
         \/ /\ SaveRecordDHT(t) /\ Confirming(t, d) /\ record[d] = None
            /\ record'[d] = th[t].rec /\ IsConfirmed(th[t].rec)
<1>1. record \in [Domains -> RecordOrNone]
  BY DEF TypeOK
<1>2. CASE SaveRecordDHT(t)
  <2>1. th[t].pc = "saveRecord" /\ th[t].pc \in SavePcs
    BY <1>2 DEF SaveRecordDHT, At, SavePcs
  <2>2. PICK p \in PutValue(record[th[t].dom], th[t].rec) :
          record' = [record EXCEPT ![th[t].dom] = p.value]
    BY <1>2, SaveMoves
  <2>3. p.value = record[th[t].dom] \/ p.value = th[t].rec
    BY DHTTypes
  <2>4. CASE d # th[t].dom
    BY <1>1, <2>2, <2>4
  <2>5. CASE d = th[t].dom /\ th[t].op = "confirm"
    <3>1. IsConfirmed(th[t].rec) /\ Confirming(t, d)
      BY <2>1, <2>5 DEF SavedIsRecord, Confirming
    <3>2. record[d] = None
      BY <3>1 DEF OneConfirmation
    <3>3. QED BY <1>1, <1>2, <2>2, <2>3, <2>5, <3>1, <3>2
  <2>6. CASE d = th[t].dom /\ th[t].op # "confirm"
    <3>1. th[t].rec = record[th[t].dom]
      BY <2>1, <2>6 DEF SavedIsRecord
    <3>2. QED BY <1>1, <2>2, <2>3, <2>6, <3>1
  <2>7. QED BY <2>4, <2>5, <2>6
<1>3. CASE UNCHANGED record
  BY <1>3
<1>4. QED BY <1>2, <1>3, DHTFrame DEF dhtVars

\* A NameBound message does no harm on a node that has the confirmed record: Get
\* returns that one.
NameBoundKnown ==
  \A t \in Threads : th[t].op = "nameBound" =>
    th[t].pc = "get" /\ IsConfirmed(db[Node(t)][th[t].dom])

\* Whatever a thread is about to save is the record in the DHT, as long as the binding lasts.
LEMMA SavedThread ==
  ASSUME TypeOK, StartedByAdd, OwnRecord, OneConfirmation, SavedIsRecord, NameBoundKnown,
         NEW t \in Threads, Step(t), ~PanicInVote(t), th'[t].pc \in SavePcs, Unlapsed(th'[t].dom)
  PROVE  IF th'[t].pc = "saveRecord" /\ th'[t].op = "confirm" THEN IsConfirmed(th'[t].rec)
         ELSE th'[t].rec = record'[th'[t].dom]
<1>1. /\ ThreadOK(t, th[t]) /\ Node(t) \in Nodes
      /\ th[t].pc # "tick" => th[t].dom \in Domains
      /\ record \in [Domains -> RecordOrNone]
  BY ThreadFacts, ThreadKinds DEF ThreadOK, Control, TypeOK
<1>2. ASSUME NEW r, GetReturns(t, r, th'[t]), th[t].pc = "get" => IsConfirmed(r)
      PROVE  /\ IsConfirmed(r) /\ th'[t].op = "update" /\ th'[t].rec = r
             /\ th'[t].dom = th[t].dom
  BY <1>2 DEF GetReturns, SavePcs, NameBoundKnown
<1> USE DEF GoesTo, Takes, Ends, Keeps, SavePcs
<1>3. CASE GetLocal(t)
  <2>1. UNCHANGED record /\ th[t].dom \in Domains
    BY <1>1, <1>3 DEF GetLocal, At, dhtVars
  <2>2. /\ IsConfirmed(db[Node(t)][th[t].dom])
        /\ GetReturns(t, db[Node(t)][th[t].dom], th'[t])
    BY <1>3, GetMoves
  <2>3. db[Node(t)][th[t].dom] = record[th[t].dom]
    <3>1. Unlapsed(th[t].dom)
      BY <1>2, <2>2
    <3>2. QED BY <1>1, <2>1, <2>2, <3>1 DEF SavedIsRecord, IsConfirmed
  <2>4. QED BY <1>2, <2>1, <2>2, <2>3
<1>4. CASE GetPendingRecord(t)
  <2>1. th[t].dom \in Domains /\ th[t].pc # "get"
    BY <1>1, <1>4 DEF GetPendingRecord, At
  <2>2. PICK r \in GetValue(pending[th[t].dom]) : r # None /\ GetReturns(t, r, th'[t])
    BY <1>4, GetMoves
  <2>3. r = pending[th[t].dom]
    BY <2>2, DHTTypes
  <2>4. QED BY <1>2, <2>1, <2>2, <2>3 DEF OwnRecord
<1>5. CASE GetLatestRecord(t)
  <2>1. UNCHANGED record
    BY <1>5 DEF GetLatestRecord, dhtVars
  <2>2. ~IsConfirmed(None)
    BY DEF IsConfirmed
  <2>3. th[t].op # "confirm" /\ th[t].pc # "get"
    BY <1>1, <1>5
       DEF GetLatestRecord, At, ThreadOK, Control, LockPcs, UnlockPcs, ReleasePcs
  <2>4. QED BY <1>2, <1>5, <2>1, <2>2, <2>3, GetMoves
<1>6. CASE SaveRecordDHT(t)
  <2>1. th[t].pc = "saveRecord" /\ th[t].dom \in Domains
    BY <1>1, <1>6 DEF SaveRecordDHT, At
  <2>2. PICK p \in PutValue(record[th[t].dom], th[t].rec) :
          /\ record' = [record EXCEPT ![th[t].dom] = p.value]
          /\ \/ p.ok /\ GoesTo(t, "saveLocal", th[t].op)
             \/ ~p.ok /\ SaveReturns(t, FALSE, th'[t])
    BY <1>6, SaveMoves
  <2>3. CASE p.ok /\ GoesTo(t, "saveLocal", th[t].op)
    <3>1. p.value = th[t].rec
      BY <2>3, DHTTypes
    <3>2. QED BY <1>1, <2>1, <2>2, <2>3, <3>1
  <2>4. CASE SaveReturns(t, FALSE, th'[t])
    <3>1. th[t].op \in GetOps /\ GetReturns(t, th[t].rec, th'[t])
      BY <2>4 DEF SaveReturns
    <3>2. th[t].rec = record[th[t].dom]
      <4>1. Unlapsed(th[t].dom)
        BY <1>2, <2>1, <3>1
      <4>2. QED BY <2>1, <3>1, <4>1 DEF SavedIsRecord, GetOps
    <3>3. p.value = record[th[t].dom]
      BY <3>2, DHTTypes
    <3>4. QED BY <1>1, <1>2, <2>1, <2>2, <3>1, <3>2, <3>3
  <2>5. QED BY <2>2, <2>3, <2>4
<1>7. CASE SaveRecordLocal(t) \/ SaveNamehash(t) \/ SaveNamehashLocal(t)
  <2>1. th[t].pc \in {"saveLocal", "saveName", "saveNameLocal"} /\ UNCHANGED record
    BY <1>7 DEF SaveRecordLocal, SaveNamehash, SaveNamehashLocal, At, dhtVars
  <2>2. Unlapsed(th[t].dom) => th[t].rec = record[th[t].dom]
    BY <2>1 DEF SavedIsRecord
  <2>3. CASE \E pc \in {"saveName", "saveNameLocal"} : GoesTo(t, pc, th[t].op)
    BY <2>1, <2>2, <2>3
  <2>4. CASE \E ok : SaveReturns(t, ok, th'[t])
    <3>1. GetReturns(t, th[t].rec, th'[t])
      BY <2>4 DEF SaveReturns
    <3>2. QED BY <1>2, <2>1, <2>2, <3>1
  <2>5. QED BY <1>7, <2>3, <2>4, SaveMoves
<1>8. CASE WriteIndex(t)
  <2>1. IndexWritten(t, th'[t])
    BY <1>8, IndexMoves
  <2>2. th[t].pc = "indexWrite"
    BY <1>8 DEF WriteIndex, At
  <2>3. th[t].rec \in Records
    BY <1>1, <2>2 DEF ThreadOK, ThreadState, HasRecord, LockPcs, RecordOrNone
  <2>4. Confirmed(th[t].rec.req) \in Records
    BY <2>3 DEF Records, Confirmed
  <2>5. Confirmed(th[t].rec.req) # None
    BY <2>4, RegistrationAssumption
  <2>6. IsConfirmed(Confirmed(th[t].rec.req))
    BY <2>5 DEF Confirmed, IsConfirmed
  <2>7. QED BY <2>1, <2>6 DEF IndexWritten
<1>9. CASE AddBinding(t) \/ GetByNamehash(t)
  BY <1>9, GetMoves
<1>10. CASE ValidateSignedTx(t) \/ LockDomain(t) \/ LockDomainPut(t) \/ SavePending(t)
  BY <1>10, AddMoves
<1>11. CASE FindPending(t) \/ LockIndex(t) \/ LockIndexPut(t) \/ ReadIndex(t) \/ ClearPending(t)
  BY <1>11, IndexMoves DEF Abandons
<1>12. CASE ReleaseDomain(t) \/ ReleaseDomainPut(t) \/ ReleaseIndex(t) \/ ReleaseIndexPut(t)
  BY <1>12, ReleaseMoves DEF Abandons, DomainReleased, AddReturns
<1>13. CASE ReadVotes(t) \/ SaveVote(t) \/ Publish(t)
  BY <1>13, VoteMoves
<1>14. CASE Tick(t) \/ Examine(t) \/ SubmitSignedTx(t) \/ SaveResult(t)
  BY <1>14, DecideMoves
<1>15. QED BY <1>3, <1>4, <1>5, <1>6, <1>7, <1>8, <1>9, <1>10, <1>11, <1>12, <1>13, <1>14 DEF Step

LEMMA MinedGrows ==
  ASSUME NEW t \in Threads, Step(t)
  PROVE  /\ mined \subseteq mined' /\ UNCHANGED lapsed
         /\ \A d : BoundOnChain(d) => BoundOnChain(d)'
         /\ \A d : Unlapsed(d)' <=> Unlapsed(d)
<1>1. mined \subseteq mined' /\ UNCHANGED lapsed
  BY ChainFrame DEF SubmitSignedTx
<1>2. QED BY <1>1 DEF BoundOnChain, Unlapsed

LEMMA ConfirmationStep ==
  ASSUME TypeOK, StartedByAdd, RecordsFit, OwnRecord, OneConfirmation, SavedIsRecord, NameBoundKnown,
         NEW t \in Threads, Step(t), ~PanicInVote(t)
  PROVE  OneConfirmation' /\ SavedIsRecord'
<1>1. ASSUME NEW u \in Threads, u # t
      PROVE  /\ \A d : Confirming(u, d)' => Confirming(u, d)
             /\ th'[u].pc \in SavePcs => th'[u] = th[u]
  BY <1>1, OtherThreads DEF Confirming, LockPcs, SavePcs
<1>2. ASSUME NEW d \in Domains, record'[d] # None, Unlapsed(d)'
      PROVE  BoundOnChain(d)' /\ IsConfirmed(record'[d])
  BY <1>2, RecordChange, MinedGrows DEF OneConfirmation
<1>3. ASSUME NEW d \in Domains, Confirming(t, d)', ~Confirming(t, d), Unlapsed(d)'
      PROVE  ~BoundOnChain(d) /\ BoundOnChain(d)' /\ record'[d] = None
  <2>1. /\ SubmitSignedTx(t) /\ d = th[t].dom /\ ~BoundOnChain(d)
        /\ mined' = mined \cup {th[t].rec.req}
    BY <1>3, ConfirmingThread
  <2>2. th[t].pc = "submit" /\ th[t].op = "decide" /\ UNCHANGED record
    BY <2>1, DecideMoves DEF SubmitSignedTx, At, dhtVars
  <2>3. th[t].rec # None
    BY <2>2, ThreadFacts DEF ThreadOK, HasRecord
  <2>4. DomainOf[th[t].rec.req] = d
    BY <2>1, <2>2, <2>3 DEF RecordsFit, Of
  <2>5. BoundOnChain(d)'
    BY <1>3, <2>1, <2>4 DEF BoundOnChain, Unlapsed
  <2>6. QED BY <1>3, <2>1, <2>2, <2>5, MinedGrows DEF OneConfirmation
<1>4. ASSUME NEW u \in Threads, NEW d \in Domains, Confirming(u, d)', Unlapsed(d)'
      PROVE  BoundOnChain(d)' /\ record'[d] = None /\ \A w \in Threads : Confirming(w, d)' => w = u
  <2>1. CASE u = t /\ ~Confirming(t, d)
    <3>1. \A w \in Threads : ~Confirming(w, d)
      BY <1>3, <1>4, <2>1, MinedGrows DEF OneConfirmation
    <3>2. QED BY <1>1, <1>3, <1>4, <2>1, <3>1
  <2>2. CASE Confirming(u, d)
    <3>1. /\ Unlapsed(d) /\ BoundOnChain(d) /\ record[d] = None
          /\ \A w \in Threads : Confirming(w, d) => w = u
      BY <1>4, <2>2, MinedGrows DEF OneConfirmation
    <3>2. record'[d] = None
      <4>1. CASE u = t
        BY <1>4, <3>1, <4>1, RecordChange, ConfirmingThread
      <4>2. CASE u # t
        BY <3>1, <4>2, RecordChange
      <4>3. QED BY <4>1, <4>2
    <3>3. ASSUME NEW w \in Threads, Confirming(w, d)'
          PROVE  w = u
      <4>1. Confirming(w, d)
        BY <1>1, <1>3, <1>4, <3>1, <3>3
      <4>2. QED BY <3>1, <4>1
    <3>4. QED BY <3>1, <3>2, <3>3, MinedGrows
  <2>3. QED BY <1>1, <1>4, <2>1, <2>2
<1>5. OneConfirmation'
  BY <1>2, <1>4 DEF OneConfirmation
<1>6. ASSUME NEW n \in Nodes, NEW d \in Domains, Unlapsed(d)'
      PROVE  db'[n][d] \in {None, record'[d]}
  <2>1. Unlapsed(d) /\ db[n][d] \in {None, record[d]}
    BY <1>6, MinedGrows DEF SavedIsRecord
  <2>2. db[n][d] \in {None, record'[d]}
    BY <2>1, RecordChange
  <2>3. CASE SaveRecordLocal(t)
    <3>1. th[t].pc = "saveLocal" /\ th[t].pc \in SavePcs /\ UNCHANGED record
      BY <2>3 DEF SaveRecordLocal, At, SavePcs, dhtVars
    <3>2. d = th[t].dom => th[t].rec = record[th[t].dom]
      BY <2>1, <3>1 DEF SavedIsRecord
    <3>3. db' = [db EXCEPT ![Node(t)][th[t].dom] = th[t].rec]
      BY <2>3 DEF SaveRecordLocal
    <3>4. db \in [Nodes -> [Domains -> RecordOrNone]]
      BY DEF TypeOK
    <3>5. QED BY <2>2, <3>1, <3>2, <3>3, <3>4
  <2>4. CASE UNCHANGED db
    BY <2>2, <2>4
  <2>5. QED BY <2>3, <2>4, NodeFrame DEF nodeVars
<1>7. ASSUME NEW u \in Threads, th'[u].pc \in SavePcs, (Unlapsed(th[u].dom))'
      PROVE  IF th'[u].pc = "saveRecord" /\ th'[u].op = "confirm" THEN IsConfirmed(th'[u].rec)
             ELSE th'[u].rec = record'[th'[u].dom]
  <2> HIDE DEF Unlapsed
  <2>0. Unlapsed(th'[u].dom)
    BY <1>7, MinedGrows DEF Unlapsed
  <2>1. CASE u = t
    BY <1>7, <2>0, <2>1, SavedThread
  <2>2. CASE u # t
    <3>1. th'[u] = th[u] /\ Unlapsed(th[u].dom)
      BY <1>1, <1>7, <2>0, <2>2
    <3>2. ThreadOK(u, th[u]) /\ th[u].rec # None /\ th[u].dom \in Domains
      BY <1>7, <3>1, ThreadFacts DEF ThreadOK, HasRecord, Control, SavePcs
    <3>3. CASE th[u].pc = "saveRecord" /\ th[u].op = "confirm"
      BY <1>7, <3>1, <3>3 DEF SavedIsRecord
    <3>4. CASE ~(th[u].pc = "saveRecord" /\ th[u].op = "confirm")
      <4>1. th[u].rec = record[th[u].dom]
        BY <1>7, <3>1, <3>4 DEF SavedIsRecord
      <4>2. record'[th[u].dom] = record[th[u].dom]
        BY <3>1, <3>2, <4>1, RecordChange
      <4>3. QED BY <3>1, <3>4, <4>1, <4>2
    <3>5. QED BY <3>3, <3>4
  <2>3. QED BY <2>1, <2>2
<1>8. SavedIsRecord'
  BY <1>6, <1>7 DEF SavedIsRecord
<1>9. QED BY <1>5, <1>8

LEMMA ConfirmationStop ==
  ASSUME TypeOK, StartedByAdd, OneConfirmation, SavedIsRecord, NEW n \in Nodes, Stop(n)
  PROVE  OneConfirmation' /\ SavedIsRecord'
<1>1. UNCHANGED <<record, db, mined, lapsed>>
  BY DEF Stop, dhtVars, chainVars
<1>2. ASSUME NEW u \in Threads
      PROVE  /\ \A d : Confirming(u, d)' => Confirming(u, d)
             /\ th'[u].pc \in SavePcs => th'[u] = th[u]
  <2>1. u[1] # "confirm"
    BY ThreadKinds
  <2>2. QED BY <2>1, StoppedThreads DEF Confirming, SavePcs
<1>3. \A d : (BoundOnChain(d)' <=> BoundOnChain(d)) /\ (Unlapsed(d)' <=> Unlapsed(d))
  BY <1>1 DEF BoundOnChain, Unlapsed
<1>4. OneConfirmation'
  BY <1>1, <1>2, <1>3 DEF OneConfirmation
<1>5. SavedIsRecord'
  BY <1>1, <1>2 DEF SavedIsRecord, Unlapsed
<1>6. QED BY <1>4, <1>5

\* The chain binds a name, or lets a binding lapse, without the nodes.
LEMMA ConfirmationOnChain ==
  ASSUME TypeOK, OneConfirmation, SavedIsRecord, NEW r \in Requests, Mine(r) \/ Lapse(r)
  PROVE  OneConfirmation' /\ SavedIsRecord'
<1>1. UNCHANGED <<record, db, th>> /\ mined \subseteq mined' /\ lapsed \subseteq lapsed'
  BY ChainSteps DEF dhtVars, nodeVars
<1>2. ASSUME NEW d, Unlapsed(d)'
      PROVE  Unlapsed(d) /\ (BoundOnChain(d) => BoundOnChain(d)')
  BY <1>1, <1>2 DEF Unlapsed, BoundOnChain
<1>3. \A t \in Threads, d \in Domains : Confirming(t, d)' <=> Confirming(t, d)
  BY <1>1 DEF Confirming
<1>4. OneConfirmation'
  BY <1>1, <1>2, <1>3 DEF OneConfirmation
<1>5. SavedIsRecord'
  BY <1>1 DEF SavedIsRecord, Unlapsed
<1>6. QED BY <1>4, <1>5

ConfirmInvariant ==
  TypeOK /\ StartedByAdd /\ RecordsFit /\ OwnRecord /\ OneConfirmation /\ SavedIsRecord

LEMMA ConfirmInvariantKept ==
  ASSUME ConfirmInvariant, NameBoundKnown, [Next]_vars
  PROVE  ConfirmInvariant'
<1> USE DEF ConfirmInvariant
<1>1. TypeOK' /\ StartedByAdd' /\ RecordsFit' /\ OwnRecord'
  BY TypesKept, FitsKept
<1>2. CASE \E t \in Threads : Runs(t)
  BY <1>1, <1>2, ConfirmationStep, ConfirmationStop, ThreadKinds DEF Runs, PanicInVote
<1>3. CASE \E n \in Nodes : Crash(n)
  BY <1>1, <1>3, ConfirmationStop DEF Crash
<1>4. CASE (\E n \in Nodes : Restart(n)) \/ UNCHANGED vars
  <2>1. UNCHANGED <<record, db, mined, lapsed, th>>
    BY <1>4 DEF Restart, vars, dhtVars, nodeVars, chainVars
  <2>2. QED BY <1>1, <2>1 DEF OneConfirmation, SavedIsRecord, Confirming, BoundOnChain, Unlapsed
<1>5. CASE \E r \in Requests : Mine(r) \/ Lapse(r)
  BY <1>1, <1>5, ConfirmationOnChain
<1>6. QED BY <1>2, <1>3, <1>4, <1>5 DEF Next

LEMMA ConfirmInvariantInit ==
  ASSUME Init
  PROVE  ConfirmInvariant
<1>1. ASSUME NEW t \in Threads
      PROVE  th[t].pc \notin SavePcs /\ \A d : ~Confirming(t, d)
  <2>1. th[t].op = t[1] /\ th[t].pc \in {"get", "update", "tick", "off"} /\ t[1] # "confirm"
    BY InitIdle, ThreadKinds
  <2>2. QED BY <2>1 DEF Confirming, SavePcs
<1>2. OneConfirmation /\ SavedIsRecord
  BY <1>1 DEF Init, OneConfirmation, SavedIsRecord
<1>3. QED BY <1>2, InitTypes, InitFits DEF ConfirmInvariant

LEMMA ConfirmedNotReplaced ==
  ASSUME ConfirmInvariant, Next, NEW d \in Domains, IsConfirmed(record[d]), Unlapsed(d)
  PROVE  record'[d] = record[d]
<1>1. CASE \E t \in Threads : Runs(t)
  BY <1>1, RecordChange DEF Runs, ConfirmInvariant, IsConfirmed
<1>2. CASE \E n \in Nodes : Crash(n) \/ Restart(n)
  BY <1>2 DEF Crash, Stop, Restart, dhtVars
<1>3. CASE \E r \in Requests : Mine(r) \/ Lapse(r)
  BY <1>3, ChainSteps DEF dhtVars
<1>4. QED BY <1>1, <1>2, <1>3 DEF Next

\* A confirmed record stays as long as no binding of its name lapses: whatever requests,
\* updates by binding_add, faults, late transactions and crashes come, on any number of
\* nodes and although the domain locks do not exclude nodes from each other, nothing
\* replaces it.  The chain, which takes one binding for a name, is what makes the
\* confirmation unique.  NameBound messages are left out: BindAddressResolver may
\* overwrite the record.
THEOREM ConfirmedStays == Spec /\ []NoNameBound => ConfirmedWhileBound
<1>1. Init => ConfirmInvariant
  BY ConfirmInvariantInit
<1>2. ConfirmInvariant /\ NoNameBound /\ [Next]_vars => ConfirmInvariant'
  BY ConfirmInvariantKept DEF NoNameBound, NameBoundKnown
<1>3. ConfirmInvariant /\ [Next]_vars
        => [\A d \in Domains : IsConfirmed(record[d]) /\ Unlapsed(d) => record'[d] = record[d]]_vars
  BY ConfirmedNotReplaced
<1>4. QED BY <1>1, <1>2, <1>3, PTL DEF Spec, ConfirmedWhileBound

-----------------------------------------------------------------------------
(* Whose record is stored *)

\* Once Add has saved the pending record without an error, the request is added.
LEMMA AddedStays ==
  ASSUME TypeOK, StartedByAdd, RecordsAdded, NEW t \in Threads, Step(t), ~PanicInVote(t),
         NEW r \in Requests, r \in Added
  PROVE  r \in Added'
<1> DEFINE u == <<"register", r>>
<1>1. u \in Threads /\ u[1] = "register"
  BY RegisterThread
<1>2. th[u].pc \in {"done", "dead"} \/ (th[u].op = "add" /\ th[u].pc \in UnlockPcs)
  BY DEF Added
<1>3. CASE u # t
  <2>1. th'[u] = th[u]
    BY <1>1, <1>3, OtherThreads
  <2>2. QED BY <2>1 DEF Added
<1>4. CASE u = t
  <2>1. th[t].op = "add" /\ th[t].pc \in {"releaseIndex", "indexClear"} /\ th[t].ok
    BY <1>2, <1>4, Active DEF RecordsAdded, UnlockPcs
  <2>2. ReleaseIndex(t) \/ ReleaseIndexPut(t)
    BY <2>1
       DEF Step, At, AddBinding, GetByNamehash, GetLocal, GetPendingRecord, GetLatestRecord,
       SaveRecordDHT, SaveRecordLocal, SaveNamehash, SaveNamehashLocal, ValidateSignedTx,
       LockDomain, LockDomainPut, SavePending, FindPending, LockIndex, LockIndexPut, ReadIndex,
       WriteIndex, ClearPending, ReleaseDomain, ReleaseDomainPut, ReadVotes, PanicInVote,
       SaveVote, Publish, Tick, Examine, SubmitSignedTx, SaveResult
  <2>3. GoesTo(t, "indexClear", "add") \/ AddReturns(t)
    BY <2>1, <2>2, ReleaseMoves
  <2>4. th'[t].pc = "done" \/ (th'[t].op = "add" /\ th'[t].pc \in UnlockPcs)
    BY <2>3 DEF GoesTo, AddReturns, UnlockPcs
  <2>5. QED BY <1>4, <2>4 DEF Added
<1>5. QED BY <1>3, <1>4

\* The record in hand is of a request that was added, or is being added by the thread.
Backed(t, s) ==
  /\ s.ok
  /\ s.rec # None => \/ s.rec.req \in Added
                     \/ t = <<"register", s.rec.req>> /\ s.op \in {"add", "undo"}

LEMMA BackedThread ==
  ASSUME TypeOK, StartedByAdd, RecordsAdded, "put" \notin Faults, NEW t \in Threads, Step(t),
         ~PanicInVote(t)
  PROVE  Backed(t, th'[t])
<1>1. /\ ThreadOK(t, th[t]) /\ Node(t) \in Nodes
      /\ th[t].pc # "tick" => th[t].dom \in Domains
  BY ThreadFacts, ThreadKinds DEF ThreadOK, Control
<1>2. Backed(t, th[t])
  BY DEF RecordsAdded, Backed
<1>3. ASSUME NEW pc, NEW op, GoesTo(t, pc, op),
             th[t].op \in {"add", "undo"} => op \in {"add", "undo"}
      PROVE  Backed(t, th'[t])
  BY <1>2, <1>3 DEF GoesTo, Keeps, Backed
<1>4. ASSUME NEW r, GetReturns(t, r, th'[t]), r # None => r.req \in Added,
             th[t].op \notin {"add", "undo"}
      PROVE  Backed(t, th'[t])
  BY <1>2, <1>4 DEF GetReturns, Keeps, Backed
<1>5. ASSUME NEW ok, ok, SaveReturns(t, ok, th'[t])
      PROVE  Backed(t, th'[t])
  <2>1. CASE th[t].op \in GetOps /\ GetReturns(t, th[t].rec, th'[t])
    BY <1>2, <1>4, <2>1 DEF Backed, GetOps
  <2>2. QED BY <1>2, <1>5, <2>1 DEF SaveReturns, Backed
<1>6. ASSUME Abandons(t, th'[t])
      PROVE  Backed(t, th'[t])
  BY <1>2, <1>6 DEF Abandons, Keeps, Backed
<1>7. ASSUME NEW pc, NEW op, NEW r, Takes(t, pc, op, r), r # None => r.req \in Added
      PROVE  Backed(t, th'[t])
  BY <1>2, <1>7 DEF Takes, Backed
<1>8. CASE AddBinding(t) \/ GetByNamehash(t)
  BY <1>3, <1>8, GetMoves
<1>9. CASE GetLocal(t) \/ GetPendingRecord(t) \/ GetLatestRecord(t)
  <2>1. th[t].op \notin {"add", "undo"} /\ th[t].dom \in Domains
    BY <1>1, <1>9
       DEF GetLocal, GetPendingRecord, GetLatestRecord, At, ThreadOK, Control, LockPcs, UnlockPcs,
       ReleasePcs
  <2>2. /\ db[Node(t)][th[t].dom] # None => db[Node(t)][th[t].dom].req \in Added
        /\ record[th[t].dom] # None => record[th[t].dom].req \in Added
        /\ pending[th[t].dom] # None => pending[th[t].dom].req \in Added
    BY <1>1, <2>1 DEF RecordsAdded
  <2>3. \A r \in GetValue(pending[th[t].dom]) : r # None => r = pending[th[t].dom]
    BY DHTTypes
  <2>4. CASE GetLocal(t)
    BY <1>3, <1>4, <2>1, <2>2, <2>4, GetMoves
  <2>5. CASE GetPendingRecord(t)
    BY <1>3, <1>4, <2>1, <2>2, <2>3, <2>5, GetMoves
  <2>6. CASE GetLatestRecord(t)
    <3>1. CASE GetReturns(t, None, th'[t])
      BY <1>4, <2>1, <3>1
    <3>2. CASE Takes(t, "saveRecord", th[t].op, record[th[t].dom])
      BY <1>7, <2>2, <3>2
    <3>3. QED BY <2>6, <3>1, <3>2, GetMoves DEF Takes
  <2>7. QED BY <1>9, <2>4, <2>5, <2>6
<1>10. CASE SaveRecordDHT(t)
  BY <1>3, <1>10, SaveMoves, DHTTypes
<1>11. CASE SaveRecordLocal(t)
  BY <1>3, <1>11, SaveMoves
<1>12. CASE SaveNamehash(t) \/ SaveNamehashLocal(t)
  BY <1>3, <1>5, <1>12, SaveMoves
<1>13. CASE ValidateSignedTx(t) \/ LockDomain(t)
  <2>1. th[t].op = "register"
    BY <1>1, <1>13
       DEF ValidateSignedTx, LockDomain, At, ThreadOK, Control, GetPcs, SavePcs, LockPcs, UnlockPcs,
       ReleasePcs
  <2>2. QED BY <1>3, <1>13, <2>1, AddMoves
<1>14. CASE LockDomainPut(t)
  <2>1. th[t].op = "register"
    BY <1>1, <1>14
       DEF LockDomainPut, At, ThreadOK, Control, GetPcs, SavePcs, LockPcs, UnlockPcs, ReleasePcs
  <2>2. CASE Takes(t, "indexLock", "add", Pending(t[2]))
    <3>1. t = <<"register", Pending(t[2]).req>>
      BY <1>14, AddMoves, ThreadKinds DEF Pending
    <3>2. QED BY <1>2, <2>2, <3>1 DEF Takes, Backed
  <2>3. QED BY <1>3, <1>14, <2>1, <2>2, AddMoves
<1>15. CASE SavePending(t)
  <2>1. PICK p \in PutValue(pending[th[t].dom], th[t].rec) :
          th'[t].op = th[t].op /\ th'[t].rec = th[t].rec /\ th'[t].ok = p.ok
    BY <1>15, AddMoves
  <2>2. p.ok
    BY DHTTypes
  <2>3. QED BY <1>2, <2>1, <2>2 DEF Backed
<1>16. CASE FindPending(t)
  <2>1. th[t].dom \in Domains
    BY <1>1, <1>16 DEF FindPending, At
  <2>2. QED BY <1>6, <1>7, <1>16, <2>1, IndexMoves DEF RecordsAdded
<1>17. CASE LockIndex(t) \/ LockIndexPut(t) \/ ReadIndex(t) \/ ClearPending(t)
  BY <1>3, <1>6, <1>17, IndexMoves
<1>18. CASE WriteIndex(t)
  <2>1. th[t].rec # None
    BY <1>1, <1>18 DEF WriteIndex, At, ThreadOK, HasRecord, LockPcs
  <2>2. IndexWritten(t, th'[t])
    BY <1>18, IndexMoves
  <2>3. Confirmed(th[t].rec.req).req = th[t].rec.req
    BY DEF Confirmed
  <2>4. th'[t].rec.req = th[t].rec.req /\ th'[t].op = th[t].op
    BY <2>2, <2>3 DEF IndexWritten, Keeps
  <2>5. th'[t].ok
    <3>1. th[t].ok
      BY <1>2 DEF Backed
    <3>2. QED BY <2>2, <3>1 DEF IndexWritten, Keeps
  <2>6. QED BY <1>2, <2>1, <2>4, <2>5 DEF Backed
<1>19. CASE ReleaseDomain(t) \/ ReleaseDomainPut(t)
  <2>1. CASE DomainReleased(t, th'[t])
    BY <1>2, <2>1 DEF DomainReleased, Keeps, Backed
  <2>2. QED BY <1>3, <1>19, <2>1, ReleaseMoves
<1>20. CASE ReleaseIndex(t) \/ ReleaseIndexPut(t)
  <2>1. CASE AddReturns(t)
    BY <2>1 DEF AddReturns, Backed
  <2>2. QED BY <1>3, <1>6, <1>20, <2>1, ReleaseMoves
<1>21. CASE ReadVotes(t) \/ SaveVote(t)
  <2>1. th[t].op = "vote" /\ t[1] = "vote" /\ th[t].pc # "off"
    BY <1>21, VoteMoves, Active
  <2>2. t[2] \in Added
    BY <2>1, ThreadKinds DEF StartedByAdd, Added
  <2>3. Pending(t[2]).req = t[2]
    BY DEF Pending
  <2>4. CASE Ends(t, "done")
    BY <2>4 DEF Ends, Backed
  <2>5. QED BY <1>3, <1>7, <1>21, <2>1, <2>2, <2>3, <2>4, VoteMoves
<1>22. CASE Publish(t)
  <2>1. th[t].op \notin {"add", "undo"}
    BY <1>1, <1>22
       DEF Publish, At, ThreadOK, Control, GetPcs, SavePcs, LockPcs, UnlockPcs, ReleasePcs
  <2>2. CASE Ends(t, "done")
    BY <2>2 DEF Ends, Backed
  <2>3. QED BY <1>3, <1>22, <2>1, <2>2, VoteMoves
<1>23. CASE Tick(t) \/ Examine(t)
  <2>1. th[t].op = "tick"
    BY <1>1, <1>23
       DEF Tick, Examine, At, ThreadOK, Control, GetPcs, SavePcs, LockPcs, UnlockPcs, ReleasePcs
  <2>2. CASE GoesTo(t, "tick", "tick")
    BY <1>3, <2>1, <2>2
  <2>3. CASE th'[t].rec = th[t].rec /\ th'[t].ok = th[t].ok
    BY <1>2, <2>1, <2>3 DEF Backed
  <2>4. QED BY <1>23, <2>2, <2>3, DecideMoves
<1>24. CASE SubmitSignedTx(t)
  BY <1>7, <1>24, DecideMoves
<1>25. CASE SaveResult(t)
  <2>1. th[t].op = "decide"
    BY <1>1, <1>25
       DEF SaveResult, At, ThreadOK, Control, GetPcs, SavePcs, LockPcs, UnlockPcs, ReleasePcs
  <2>2. CASE Ends(t, "tick")
    BY <2>2 DEF Ends, Backed
  <2>3. QED BY <1>3, <1>25, <2>1, <2>2, DecideMoves
<1>26. QED BY <1>8, <1>9, <1>10, <1>11, <1>12, <1>13, <1>14, <1>15, <1>16, <1>17, <1>18, <1>19,
              <1>20, <1>21, <1>22, <1>23, <1>24, <1>25 DEF Step

LEMMA RecordsAddedStep ==
  ASSUME TypeOK, TypeOK', StartedByAdd, OwnRecord, RecordsAdded, "put" \notin Faults,
         NEW t \in Threads, Step(t), ~PanicInVote(t)
  PROVE  RecordsAdded'
<1>1. /\ ThreadOK(t, th[t]) /\ Node(t) \in Nodes
      /\ th[t].pc # "tick" => th[t].dom \in Domains
      /\ pending \in [Domains -> RecordOrNone] /\ record \in [Domains -> RecordOrNone]
      /\ db \in [Nodes -> [Domains -> RecordOrNone]]
  BY ThreadFacts, ThreadKinds DEF ThreadOK, Control, TypeOK
<1>2. /\ pending' \in [Domains -> RecordOrNone] /\ record' \in [Domains -> RecordOrNone]
      /\ db' \in [Nodes -> [Domains -> RecordOrNone]]
      /\ \A u \in Threads : th'[u].rec \in RecordOrNone
  BY DEF TypeOK, ThreadState
<1>3. \A r \in RecordOrNone : r # None => r.req \in Requests
  BY DEF RecordOrNone, Records
<1>4. \A r \in Requests : r \in Added => r \in Added'
  BY AddedStays
<1>5. /\ \A d \in Domains : pending[d] # None => pending[d].req \in Added'
      /\ \A d \in Domains : record[d] # None => record[d].req \in Added'
      /\ \A n \in Nodes, d \in Domains : db[n][d] # None => db[n][d].req \in Added'
  BY <1>1, <1>3, <1>4 DEF RecordsAdded
<1>6. th[t].pc \in SavePcs => th[t].rec.req \in Added'
  <2>1. ASSUME th[t].pc \in SavePcs
        PROVE  th[t].rec # None /\ th[t].rec \in RecordOrNone /\ th[t].op \notin {"add", "undo"}
    BY <1>1, <2>1
       DEF ThreadOK, ThreadState, HasRecord, Control, SavePcs, LockPcs, UnlockPcs, ReleasePcs
  <2>2. QED BY <1>3, <1>4, <2>1 DEF RecordsAdded
<1>7. \A d \in Domains : pending'[d] # None => pending'[d].req \in Added'
  <2>1. CASE SavePending(t)
    <3>1. PICK p \in PutValue(pending[th[t].dom], th[t].rec) :
            /\ pending' = [pending EXCEPT ![th[t].dom] = p.value]
            /\ th'[t].pc = "releaseIndex" /\ th'[t].op = "add" /\ th[t].op = "add"
      BY <2>1, AddMoves
    <3>2. p.value = th[t].rec
      BY DHTTypes
    <3>3. th[t].rec.req = t[2]
      <4>1. th[t].rec = Pending(t[2])
        BY <3>1 DEF OwnRecord
      <4>2. QED BY <4>1 DEF Pending
    <3>4. t = <<"register", t[2]>>
      BY <1>1, <3>1, ThreadKinds DEF ThreadOK, Control
    <3>5. t[2] \in Added'
      <4>1. t[2] \in Requests
        BY <1>1, <3>1, ThreadKinds DEF ThreadOK, Control
      <4>2. QED BY <3>1, <3>4, <4>1 DEF Added, UnlockPcs
    <3>6. QED BY <1>1, <1>5, <3>1, <3>2, <3>3, <3>5
  <2>2. CASE ClearPending(t)
    <3>1. PICK p \in PutValue(pending[th[t].dom], None) :
            pending' = [pending EXCEPT ![th[t].dom] = p.value]
      BY <2>2 DEF ClearPending
    <3>2. p.value = None
      BY DHTTypes
    <3>3. QED BY <1>1, <1>5, <3>1, <3>2
  <2>3. CASE UNCHANGED pending
    BY <1>5, <2>3
  <2>4. QED BY <2>1, <2>2, <2>3, DHTFrame DEF dhtVars
<1>8. \A d \in Domains : record'[d] # None => record'[d].req \in Added'
  <2>1. CASE SaveRecordDHT(t)
    <3>1. th[t].pc \in SavePcs
      BY <2>1 DEF SaveRecordDHT, At, SavePcs
    <3>2. PICK p \in PutValue(record[th[t].dom], th[t].rec) :
            record' = [record EXCEPT ![th[t].dom] = p.value]
      BY <2>1, SaveMoves
    <3>3. p.value = th[t].rec
      BY DHTTypes
    <3>4. QED BY <1>1, <1>5, <1>6, <3>1, <3>2, <3>3
  <2>2. CASE UNCHANGED record
    BY <1>5, <2>2
  <2>3. QED BY <2>1, <2>2, DHTFrame DEF dhtVars
<1>9. \A n \in Nodes, d \in Domains : db'[n][d] # None => db'[n][d].req \in Added'
  <2>1. CASE SaveRecordLocal(t)
    <3>1. /\ th[t].pc \in SavePcs
          /\ db' = [db EXCEPT ![Node(t)][th[t].dom] = th[t].rec]
      BY <2>1 DEF SaveRecordLocal, At, SavePcs
    <3>2. QED BY <1>1, <1>5, <1>6, <3>1
  <2>2. CASE UNCHANGED db
    BY <1>5, <2>2
  <2>3. QED BY <2>1, <2>2, NodeFrame DEF nodeVars
<1>10. ASSUME NEW u \in Threads
       PROVE  /\ th'[u].ok
              /\ th'[u].rec # None =>
                   \/ th'[u].rec.req \in Added'
                   \/ u = <<"register", th'[u].rec.req>> /\ th'[u].op \in {"add", "undo"}
  <2>1. Backed(u, th'[u])
    <3>1. CASE u = t
      BY <3>1, BackedThread
    <3>2. CASE u # t
      <4>1. Backed(u, th[u])
        BY DEF RecordsAdded, Backed
      <4>2. \/ th'[u] = th[u]
            \/ th'[u].op = th[u].op /\ th'[u].rec = th[u].rec /\ th'[u].ok = th[u].ok
        BY <3>2, OtherThreads
      <4>3. QED BY <4>1, <4>2 DEF Backed
    <3>3. QED BY <3>1, <3>2
  <2>2. th'[u].rec # None => th'[u].rec.req \in Requests
    BY <1>2, <1>3
  <2>3. QED BY <1>4, <2>1, <2>2 DEF Backed
<1>11. QED BY <1>7, <1>8, <1>9, <1>10 DEF RecordsAdded

LEMMA RecordsAddedStop ==
  ASSUME TypeOK, StartedByAdd, RecordsAdded, NEW n \in Nodes, Stop(n)
  PROVE  RecordsAdded'
<1>1. /\ pending \in [Domains -> RecordOrNone] /\ record \in [Domains -> RecordOrNone]
      /\ db \in [Nodes -> [Domains -> RecordOrNone]]
      /\ UNCHANGED <<pending, record, db>>
  BY DEF TypeOK, Stop, dhtVars
<1>2. \A r \in RecordOrNone : r # None => r.req \in Requests
  BY DEF RecordOrNone, Records
<1>3. ASSUME NEW r \in Requests, r \in Added
      PROVE  r \in Added'
  <2> DEFINE u == <<"register", r>>
  <2>1. u \in Threads /\ u[1] = "register"
    BY RegisterThread
  <2>2. th'[u] = th[u] \/ th'[u].pc = "dead"
    BY <2>1, StoppedThreads
  <2>3. QED BY <1>3, <2>2 DEF Added
<1>4. ASSUME NEW u \in Threads
      PROVE  /\ th'[u].ok
             /\ th'[u].rec # None =>
                  \/ th'[u].rec.req \in Added'
                  \/ u = <<"register", th'[u].rec.req>> /\ th'[u].op \in {"add", "undo"}
  <2>1. th[u].rec \in RecordOrNone
    BY ThreadFacts DEF ThreadState
  <2>2. th'[u] = th[u] \/ (th'[u].rec = None /\ th'[u].ok)
    BY StoppedThreads
  <2>3. QED BY <1>2, <1>3, <2>1, <2>2 DEF RecordsAdded
<1>5. QED BY <1>1, <1>2, <1>3, <1>4 DEF RecordsAdded
=============================================================================
