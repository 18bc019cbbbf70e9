------------------------- MODULE RegistrationProofs -------------------------
(***************************************************************************)
(* Registration, for any nodes, domains, requests and updates, whatever    *)
(* fails and whichever nodes crash: types and control, and the order in    *)
(* which SaveRecord writes.                                                *)
(***************************************************************************)
EXTENDS Registration, FiniteSetTheorems, TLAPS

USE FaultsAssumption, RegistrationAssumption

ThreadsOK == th \in [Threads -> ThreadState] /\ \A t \in Threads : ThreadOK(t, th[t])

-----------------------------------------------------------------------------
(* Threads and their states *)

LEMMA ThreadKinds ==
  ASSUME NEW t \in Threads
  PROVE  /\ Node(t) \in Nodes
         /\ t[1] \in {"register", "vote", "publish", "update", "tick"}
         /\ t[1] \in {"register", "vote", "publish"} => t[2] \in Requests
         /\ t[1] # "tick" => DomainOf[t[2]] \in Domains
         /\ t = <<t[1], t[2]>>
<1>1. CASE t \in RequestThreads \X Requests
  BY <1>1 DEF Node, RequestThreads
<1>2. CASE t \in {"update"} \X Updates
  BY <1>2 DEF Node
<1>3. CASE t \in {"tick"} \X Voters
  BY <1>3 DEF Node
<1>4. QED BY <1>1, <1>2, <1>3 DEF Threads

LEMMA RegisterThread ==
  ASSUME NEW r \in Requests
  PROVE  LET t == <<"register", r>>
         IN t \in Threads /\ t[1] = "register" /\ t[2] = r
  BY DEF Threads, RequestThreads

LEMMA IdleOK ==
  ASSUME NEW t \in Threads
  PROVE  /\ ThreadOK(t, Idle(t))
         /\ t[1] # "tick" => ThreadOK(t, [Idle(t) EXCEPT !.pc = "dead"])
         /\ t[1] # "tick" => ThreadOK(t, [Idle(t) EXCEPT !.pc = "done"])
         /\ t[1] \in {"register", "update"} => ThreadOK(t, [Idle(t) EXCEPT !.pc = "refused"])
<1>1. Idle(t) \in ThreadState
  BY ThreadKinds DEF Idle, ThreadState, Pcs, GetPcs, LockPcs, UnlockPcs, ReleasePcs, Ops,
     RecordOrNone, ResultOrNone
<1>2. Idle(t).op = t[1] /\ (t[1] # "tick" => Idle(t).dom \in Domains /\ Idle(t).dom = DomainOf[t[2]])
  BY ThreadKinds DEF Idle
<1>3. Idle(t).pc = CASE t[1] = "register" -> "get"
                     [] t[1] \in {"update", "tick"} -> t[1]
                     [] OTHER -> "off"
  BY DEF Idle
<1> HIDE DEF Idle
<1>4. ASSUME NEW p \in Pcs
      PROVE  LET s == [Idle(t) EXCEPT !.pc = p]
             IN s \in ThreadState /\ s.pc = p /\ s.op = Idle(t).op /\ s.dom = Idle(t).dom
  BY <1>1 DEF ThreadState
<1>5. ThreadOK(t, Idle(t))
  BY <1>1, <1>2, <1>3, ThreadKinds
     DEF ThreadOK, Control, HasRecord, GetPcs, SavePcs, LockPcs, UnlockPcs, ReleasePcs
<1>6. {"dead", "done", "refused"} \subseteq Pcs
  BY DEF Pcs
<1>7. QED
  BY <1>2, <1>4, <1>5, <1>6, ThreadKinds
     DEF ThreadOK, Control, HasRecord, SavePcs, LockPcs, UnlockPcs, ReleasePcs

\* Another program counter, in the same function.
LEMMA GotoOK ==
  ASSUME NEW t \in Threads, NEW s, ThreadOK(t, s), NEW p \in Pcs,
         Control(t[1], s.op, p), HasRecord(p) => s.rec # None
  PROVE  ThreadOK(t, [s EXCEPT !.pc = p])
  BY DEF ThreadOK, ThreadState

LEMMA BecomeOK ==
  ASSUME ThreadsOK, NEW t \in Threads, NEW s, ThreadOK(t, s), Become(t, s)
  PROVE  ThreadsOK'
<1>1. s \in ThreadState
  BY DEF ThreadOK
<1>2. th' = [th EXCEPT ![t] = s]
  BY DEF Become
<1>3. \A u \in Threads : th'[u] = IF u = t THEN s ELSE th[u]
  BY <1>2 DEF ThreadsOK
<1>4. QED BY <1>1, <1>2, <1>3 DEF ThreadsOK

LEMMA NextDomainOK ==
  ASSUME ThreadsOK, NEW t \in Threads, t[1] = "tick"
  PROVE  ThreadOK(t, NextDomain(t))
<1>1. ThreadOK(t, Idle(t)) /\ th[t] \in ThreadState /\ Idle(t) \in ThreadState
  BY IdleOK DEF ThreadsOK, ThreadOK
<1>2. /\ NextDomain(t) \in ThreadState
      /\ NextDomain(t).pc = Idle(t).pc /\ NextDomain(t).op = Idle(t).op
      /\ NextDomain(t).dom = Idle(t).dom /\ NextDomain(t).rec = Idle(t).rec
  <2> HIDE DEF Idle
  <2>1. QED BY <1>1 DEF NextDomain, ThreadState
<1>3. QED BY <1>1, <1>2 DEF ThreadOK

\* What a function returns to.
LEMMA AbandonOK ==
  ASSUME ThreadsOK, NEW t \in Threads, th[t].op \in {"add", "confirm", "reject"},
         th[t].op = "add" => th[t].rec # None
  PROVE  ThreadOK(t, Abandon(t)) /\ ThreadOK(t, [Abandon(t) EXCEPT !.tries = 0])
<1>1. ThreadOK(t, th[t]) /\ th[t] \in ThreadState
  BY DEF ThreadsOK
<1>2. ASSUME NEW s, ThreadOK(t, s)
      PROVE  ThreadOK(t, [s EXCEPT !.tries = 0])
  BY <1>2 DEF ThreadOK, ThreadState
<1>3. CASE th[t].op = "add"
  <2>1. t[1] = "register"
    BY <1>1, <1>3 DEF ThreadOK, Control
  <2>2. ThreadOK(t, [th[t] EXCEPT !.pc = "releaseDomain", !.op = "undo"])
    BY <1>1, <1>3, <2>1
       DEF ThreadOK, ThreadState, Control, Pcs, Ops, SavePcs, LockPcs, UnlockPcs, ReleasePcs,
           HasRecord
  <2>3. Abandon(t) = [th[t] EXCEPT !.pc = "releaseDomain", !.op = "undo"]
    BY <1>3, <2>1 DEF Abandon
  <2>4. QED BY <1>2, <2>2, <2>3
<1>4. CASE th[t].op # "add" /\ t[1] = "tick"
  <2>1. Abandon(t) = NextDomain(t)
    BY <1>4 DEF Abandon
  <2>2. QED BY <1>2, <1>4, <2>1, NextDomainOK
<1>5. CASE th[t].op # "add" /\ t[1] # "tick"
  <2>1. Abandon(t) = [Idle(t) EXCEPT !.pc = "done"]
    BY <1>5 DEF Abandon
  <2>2. QED BY <1>2, <1>5, <2>1, IdleOK
<1>6. QED BY <1>3, <1>4, <1>5

GetOps == {"register", "bindingAdd", "nameBound", "decide"}

LEMMA AfterGetOK ==
  ASSUME ThreadsOK, NEW t \in Threads, th[t].op \in GetOps, NEW r \in RecordOrNone
  PROVE  ThreadOK(t, AfterGet(t, r))
<1>1. ThreadOK(t, th[t]) /\ th[t] \in ThreadState
  BY DEF ThreadsOK
<1> USE DEF ThreadOK, ThreadState, Control, Pcs, Ops, GetPcs, SavePcs, LockPcs, UnlockPcs,
            ReleasePcs, HasRecord
<1>2. CASE th[t].op = "register"
  BY <1>1, <1>2 DEF AfterGet
<1>3. CASE th[t].op \in {"bindingAdd", "nameBound"}
  <2>1. t[1] = "update"
    BY <1>1, <1>3
  <2>2. ThreadOK(t, [Idle(t) EXCEPT !.pc = "refused"])
    BY <2>1, IdleOK
  <2>3. r # None => ThreadOK(t, [th[t] EXCEPT !.pc = "saveRecord", !.op = "update", !.rec = r])
    BY <1>1, <1>3, <2>1
  <2>4. AfterGet(t, r) = AfterGetForUpdate(t, r)
    BY <1>3 DEF AfterGet
  <2>5. AfterGetForUpdate(t, r) = [Idle(t) EXCEPT !.pc = "refused"] \/
        (r # None /\ AfterGetForUpdate(t, r)
                       = [th[t] EXCEPT !.pc = "saveRecord", !.op = "update", !.rec = r])
    BY DEF AfterGetForUpdate, IsConfirmed
  <2> HIDE DEF ThreadOK
  <2>6. QED BY <2>2, <2>3, <2>4, <2>5
<1>4. CASE th[t].op = "decide"
  <2>1. t[1] = "tick"
    BY <1>1, <1>4
  <2>2. CASE r # None
    BY <1>1, <1>4, <2>1, <2>2 DEF AfterGet
  <2>3. CASE r = None
    BY <1>1, <1>4, <2>1, <2>3 DEF AfterGet
  <2>4. QED BY <2>2, <2>3
<1>5. QED BY <1>2, <1>3, <1>4 DEF GetOps

LEMMA AfterSaveOK ==
  ASSUME ThreadsOK, NEW t \in Threads, th[t].pc \in SavePcs, NEW ok \in BOOLEAN
  PROVE  ThreadOK(t, AfterSave(t, ok))
<1>1. ThreadOK(t, th[t]) /\ th[t] \in ThreadState
  BY DEF ThreadsOK
<1>2. CASE th[t].op = "confirm"
  BY <1>1, <1>2
     DEF AfterSave, ThreadOK, ThreadState, Control, Pcs, Ops, SavePcs, LockPcs, ReleasePcs,
         UnlockPcs, HasRecord
<1>3. CASE th[t].op = "update"
  <2>1. t[1] # "tick"
    BY <1>1, <1>3 DEF ThreadOK, Control
  <2>2. QED BY <1>3, <2>1, IdleOK DEF AfterSave
<1>4. CASE th[t].op \notin {"confirm", "update"}
  <2>1. th[t].op \in GetOps
    BY <1>1, <1>4
       DEF ThreadOK, Control, GetOps, SavePcs, LockPcs, UnlockPcs, ReleasePcs
  <2>2. AfterSave(t, ok) = AfterGet(t, th[t].rec) /\ th[t].rec \in RecordOrNone
    BY <1>1, <1>4 DEF AfterSave, ThreadState
  <2>3. QED BY <2>1, <2>2, AfterGetOK
<1>5. QED BY <1>2, <1>3, <1>4

LEMMA AfterReleaseDomainOK ==
  ASSUME ThreadsOK, NEW t \in Threads, th[t].pc \in ReleasePcs
  PROVE  ThreadOK(t, AfterReleaseDomain(t))
<1>1. ThreadOK(t, th[t]) /\ th[t] \in ThreadState
  BY DEF ThreadsOK
<1>2. CASE th[t].op = "undo"
  <2>1. t[1] = "register"
    BY <1>1, <1>2 DEF ThreadOK, Control
  <2>2. QED BY <1>2, <2>1, IdleOK DEF AfterReleaseDomain
<1>3. CASE th[t].op = "vote"
  <2>1. t[1] # "tick"
    BY <1>1, <1>3 DEF ThreadOK, Control
  <2>2. QED BY <1>3, <2>1, IdleOK DEF AfterReleaseDomain
<1>4. CASE th[t].op \notin {"undo", "vote"}
  BY <1>1, <1>4
     DEF AfterReleaseDomain, ThreadOK, ThreadState, Control, Pcs, Ops, GetPcs, SavePcs, LockPcs,
         ReleasePcs, UnlockPcs, HasRecord
<1>5. QED BY <1>2, <1>3, <1>4

-----------------------------------------------------------------------------
(* The steps of a thread *)

LEMMA VoteTypes ==
  ASSUME NEW result \in VoteResults(Nodes), NEW n \in Nodes, NEW decision \in BOOLEAN
  PROVE  /\ WithVote(result, n, decision) \in VoteResults(Nodes)
         /\ Decided(result) \in VoteResults(Nodes)
<1>1. PICK P \in SUBSET Nodes : result.votes \in [P -> BOOLEAN]
  BY DEF VoteResults
<1> DEFINE v == [p \in DOMAIN result.votes \cup {n} |->
                   IF p = n THEN decision ELSE result.votes[p]]
<1>2. v \in [P \cup {n} -> BOOLEAN] /\ P \cup {n} \in SUBSET Nodes
  BY <1>1
<1>3. v \in UNION {[Q -> BOOLEAN] : Q \in SUBSET Nodes}
  BY <1>2
<1> HIDE DEF v
<1>4. [result EXCEPT !.votes = v] \in VoteResults(Nodes)
  BY <1>3 DEF VoteResults
<1>5. WithVote(result, n, decision) = [result EXCEPT !.votes = v]
  BY DEF WithVote, v, VoteResults
<1>6. Accepted(result) \in BOOLEAN
  BY DEF Accepted
<1>7. Decided(result) \in VoteResults(Nodes)
  BY <1>6 DEF Decided, VoteResults
<1>8. QED BY <1>4, <1>5, <1>7

LEMMA NewResultType ==
  ASSUME NEW m \in Nodes, NEW c \in Nat
  PROVE  NewResult(m, c) \in VoteResults(Nodes)
<1>1. Threshold(c) \in Nat
  BY DEF Threshold
<1>2. [p \in {} |-> TRUE] \in UNION {[P -> BOOLEAN] : P \in SUBSET Nodes}
  <2>1. [p \in {} |-> TRUE] \in [{} -> BOOLEAN] /\ {} \in SUBSET Nodes
    OBVIOUS
  <2>2. QED BY <2>1
<1>3. QED BY <1>1, <1>2 DEF NewResult, VoteResults

LEMMA PeersType ==
  ASSUME NEW n \in Nodes, NEW counted \in OnlineNodes(n)
  PROVE  counted \subseteq Nodes /\ Cardinality(counted) \in Nat
<1>1. counted \in SUBSET Nodes
  BY DEF OnlineNodes
<1>2. QED BY <1>1, FS_Subset, FS_CardinalityType

LEMMA PutOutcomes ==
  ASSUME NEW v, NEW new, NEW p \in PutValue(v, new)
  PROVE  \/ p = [ok |-> TRUE, value |-> new]
         \/ "put" \in Faults /\ p = [ok |-> FALSE, value |-> v]
         \/ "put" \in Faults /\ p = [ok |-> FALSE, value |-> new]
<1>1. CASE "put" \in Faults
  <2>1. \A w \in {v, new} : w = v \/ w = new
    OBVIOUS
  <2>2. p = [ok |-> TRUE, value |-> new] \/ p \in {[ok |-> FALSE, value |-> w] : w \in {v, new}}
    BY <1>1 DEF PutValue
  <2>3. ASSUME p \in {[ok |-> FALSE, value |-> w] : w \in {v, new}}
        PROVE  \E w \in {v, new} : p = [ok |-> FALSE, value |-> w]
    BY <2>3
  <2>4. QED BY <1>1, <2>1, <2>2, <2>3
<1>2. CASE "put" \notin Faults
  BY <1>2 DEF PutValue
<1>3. QED BY <1>1, <1>2

\* What a read and a write of the DHT return.
LEMMA DHTTypes ==
  /\ \A v : \A w \in GetValue(v) : w = v \/ (w = None /\ "get" \in Faults)
  /\ \A v, new : \A p \in PutValue(v, new) :
       /\ p.ok \in BOOLEAN /\ (p.value = v \/ p.value = new)
       /\ p.ok => p.value = new
       /\ p.ok \/ "put" \in Faults
<1>1. \A v : \A w \in GetValue(v) : w = v \/ (w = None /\ "get" \in Faults)
  BY DEF GetValue
<1>2. ASSUME NEW v, NEW new, NEW p \in PutValue(v, new)
      PROVE  /\ p.ok \in BOOLEAN /\ (p.value = v \/ p.value = new)
             /\ p.ok => p.value = new
             /\ p.ok \/ "put" \in Faults
  <2>1. CASE p = [ok |-> TRUE, value |-> new]
    BY <2>1
  <2>2. CASE "put" \in Faults /\ p = [ok |-> FALSE, value |-> v]
    BY <2>2
  <2>3. CASE "put" \in Faults /\ p = [ok |-> FALSE, value |-> new]
    BY <2>3
  <2>4. QED BY <2>1, <2>2, <2>3, PutOutcomes
<1>3. QED BY <1>1, <1>2

\* The steps of Get and of SaveRecord.
LEMMA GetThreads ==
  ASSUME TypeOK, NEW t \in Threads,
         \/ AddBinding(t) \/ GetByNamehash(t) \/ GetLocal(t) \/ GetPendingRecord(t)
         \/ GetLatestRecord(t) \/ SaveRecordDHT(t) \/ SaveRecordLocal(t)
         \/ SaveNamehash(t) \/ SaveNamehashLocal(t)
  PROVE  ThreadsOK'
<1>1. /\ ThreadsOK /\ th[t] \in ThreadState /\ ThreadOK(t, th[t])
      /\ th[t].op # "tick" => th[t].dom \in Domains
  BY DEF TypeOK, ThreadsOK, ThreadOK
<1>2. th[t].pc \in {"get", "getPending", "getRecord"} => th[t].op \in GetOps
  BY <1>1 DEF ThreadOK, Control, GetOps, GetPcs, SavePcs, LockPcs, UnlockPcs, ReleasePcs
<1>3. th[t].pc \in {"update", "get", "getPending", "getRecord", "saveRecord"} => th[t].op # "tick"
  BY <1>1 DEF ThreadOK, Control
<1> DEFINE d == th[t].dom
<1>4. th[t].op # "tick" => pending[d] \in RecordOrNone /\ record[d] \in RecordOrNone
                           /\ db[Node(t)][d] \in RecordOrNone
  BY <1>1, ThreadKinds DEF TypeOK
<1>5. None \in RecordOrNone
  BY DEF RecordOrNone
<1>6. CASE AddBinding(t)
  <2>1. ThreadOK(t, [th[t] EXCEPT !.pc = "get", !.op = "bindingAdd"])
    BY <1>1, <1>6 DEF AddBinding, At, ThreadOK, ThreadState, Control, Pcs, Ops, GetPcs, HasRecord,
       SavePcs, LockPcs, UnlockPcs, ReleasePcs
  <2>2. QED BY <1>1, <1>6, <2>1, BecomeOK DEF AddBinding
<1>7. CASE GetByNamehash(t)
  <2>1. /\ ThreadOK(t, [th[t] EXCEPT !.pc = "get", !.op = "nameBound"])
        /\ ThreadOK(t, [th[t] EXCEPT !.pc = "refused"])
    BY <1>1, <1>7 DEF GetByNamehash, At, ThreadOK, ThreadState, Control, Pcs, Ops, GetPcs,
       HasRecord, SavePcs, LockPcs, UnlockPcs, ReleasePcs
  <2>2. QED BY <1>1, <1>7, <2>1, BecomeOK DEF GetByNamehash, Goto
<1>8. CASE GetLocal(t)
  <2> DEFINE s == [th[t] EXCEPT
                     !.pc = IF db[Node(t)][d] = None THEN "getPending" ELSE "getRecord",
                     !.seen = IF th[t].op = "register" THEN pending[d] ELSE None]
  <2>1. th[t].op \in GetOps /\ th[t].op # "tick" /\ th[t].pc = "get"
    BY <1>2, <1>3, <1>8 DEF GetLocal, At
  <2>2. ThreadOK(t, s)
    <3> DEFINE pc == IF db[Node(t)][d] = None THEN "getPending" ELSE "getRecord"
               seen == IF th[t].op = "register" THEN pending[d] ELSE None
    <3>1. pc \in {"getPending", "getRecord"} /\ pc \in Pcs
      BY DEF Pcs, GetPcs
    <3>2. seen \in RecordOrNone
      BY <1>4, <1>5, <2>1
    <3>3. th[t] \in ThreadState
      BY <1>1
    <3>4. s = [th[t] EXCEPT !.pc = pc, !.seen = seen]
      OBVIOUS
    <3> HIDE DEF pc, seen, s
    <3>5. /\ s.pc \in {"getPending", "getRecord"} /\ s.op = th[t].op /\ s.dom = th[t].dom
          /\ s \in ThreadState
      BY <3>1, <3>2, <3>3, <3>4 DEF ThreadState
    <3>6. Control(t[1], s.op, s.pc)
      BY <1>1, <2>1, <3>5 DEF ThreadOK, Control, GetPcs, GetOps
    <3>7. ~HasRecord(s.pc)
      BY <3>5 DEF HasRecord, SavePcs, LockPcs, UnlockPcs, ReleasePcs
    <3>8. QED BY <1>1, <3>5, <3>6, <3>7 DEF ThreadOK
  <2>3. ThreadOK(t, AfterGet(t, db[Node(t)][d]))
    BY <1>1, <1>4, <2>1, AfterGetOK
  <2>4. Become(t, s) \/ Become(t, AfterGet(t, db[Node(t)][d]))
    BY <1>8 DEF GetLocal
  <2> HIDE DEF s
  <2>5. QED BY <1>1, <2>2, <2>3, <2>4, BecomeOK
<1>9. CASE GetPendingRecord(t)
  <2>1. th[t].op \in GetOps /\ th[t].op # "tick" /\ th[t].pc = "getPending"
    BY <1>2, <1>3, <1>9 DEF GetPendingRecord, At
  <2>2. PICK r \in GetValue(pending[d]) : Become(t, AfterGet(t, r)) \/ Goto(t, "getRecord")
    BY <1>9 DEF GetPendingRecord
  <2>3. r \in RecordOrNone
    BY <1>4, <1>5, <2>1, DHTTypes
  <2>4. ThreadOK(t, [th[t] EXCEPT !.pc = "getRecord"])
    BY <1>1, <2>1
       DEF ThreadOK, ThreadState, Control, Pcs, GetPcs, HasRecord, SavePcs, LockPcs, UnlockPcs,
           ReleasePcs, GetOps
  <2>5. ThreadOK(t, AfterGet(t, r))
    BY <1>1, <2>1, <2>3, AfterGetOK
  <2>6. QED BY <1>1, <2>2, <2>4, <2>5, BecomeOK DEF Goto
<1>10. CASE GetLatestRecord(t)
  <2>1. th[t].op \in GetOps /\ th[t].op # "tick" /\ th[t].pc = "getRecord"
    BY <1>2, <1>3, <1>10 DEF GetLatestRecord, At
  <2>2. PICK r \in GetValue(record[d]) :
          \/ r # None /\ Become(t, [th[t] EXCEPT !.pc = "saveRecord", !.rec = r])
          \/ Become(t, AfterGet(t, None))
    BY <1>10 DEF GetLatestRecord
  <2>3. r \in RecordOrNone
    BY <1>4, <1>5, <2>1, DHTTypes
  <2>4. r # None => ThreadOK(t, [th[t] EXCEPT !.pc = "saveRecord", !.rec = r])
    BY <1>1, <2>1, <2>3
       DEF ThreadOK, ThreadState, Control, Pcs, GetPcs, HasRecord, SavePcs, LockPcs, UnlockPcs,
           ReleasePcs, GetOps
  <2>5. ThreadOK(t, AfterGet(t, None))
    BY <1>1, <1>5, <2>1, AfterGetOK
  <2>6. QED BY <1>1, <2>2, <2>4, <2>5, BecomeOK
<1>11. ASSUME th[t].pc \in SavePcs, NEW p \in {"saveLocal", "saveName", "saveNameLocal"}
       PROVE  ThreadOK(t, [th[t] EXCEPT !.pc = p])
  BY <1>1, <1>11
     DEF ThreadOK, ThreadState, Control, Pcs, GetPcs, HasRecord, SavePcs, LockPcs, UnlockPcs,
         ReleasePcs
<1>12. CASE SaveRecordDHT(t)
  <2>1. th[t].pc \in SavePcs
    BY <1>12 DEF SaveRecordDHT, At, SavePcs
  <2>2. Goto(t, "saveLocal") \/ Become(t, AfterSave(t, FALSE))
    BY <1>12 DEF SaveRecordDHT
  <2>3. ThreadOK(t, AfterSave(t, FALSE))
    BY <1>1, <2>1, AfterSaveOK
  <2>4. QED BY <1>1, <1>11, <2>1, <2>2, <2>3, BecomeOK DEF Goto
<1>13. CASE SaveRecordLocal(t)
  <2>1. th[t].pc \in SavePcs /\ Goto(t, "saveName")
    BY <1>13 DEF SaveRecordLocal, At, SavePcs
  <2>2. QED BY <1>1, <1>11, <2>1, BecomeOK DEF Goto
<1>14. CASE SaveNamehash(t)
  <2>1. th[t].pc \in SavePcs
    BY <1>14 DEF SaveNamehash, At, SavePcs
  <2>2. Goto(t, "saveNameLocal") \/ Become(t, AfterSave(t, FALSE))
    BY <1>14 DEF SaveNamehash
  <2>3. ThreadOK(t, AfterSave(t, FALSE))
    BY <1>1, <2>1, AfterSaveOK
  <2>4. QED BY <1>1, <1>11, <2>1, <2>2, <2>3, BecomeOK DEF Goto
<1>15. CASE SaveNamehashLocal(t)
  <2>1. th[t].pc \in SavePcs /\ Become(t, AfterSave(t, TRUE))
    BY <1>15 DEF SaveNamehashLocal, At, SavePcs
  <2>2. QED BY <1>1, <2>1, AfterSaveOK, BecomeOK
<1>16. QED BY <1>6, <1>7, <1>8, <1>9, <1>10, <1>12, <1>13, <1>14, <1>15

LEMMA ThreadFacts ==
  ASSUME TypeOK, NEW t \in Threads
  PROVE  /\ ThreadsOK /\ th[t] \in ThreadState /\ ThreadOK(t, th[t])
         /\ th[t].op # "tick" =>
              /\ th[t].dom \in Domains
              /\ pending[th[t].dom] \in RecordOrNone /\ record[th[t].dom] \in RecordOrNone
              /\ votes[th[t].dom] \in ResultOrNone
              /\ db[Node(t)][th[t].dom] \in RecordOrNone
<1>1. ThreadsOK /\ th[t] \in ThreadState /\ ThreadOK(t, th[t])
  BY DEF TypeOK, ThreadsOK
<1>2. th[t].op # "tick" => th[t].dom \in Domains
  BY <1>1 DEF ThreadOK
<1>3. QED BY <1>1, <1>2, ThreadKinds DEF TypeOK

\* domain_register until Add has saved the pending record.
LEMMA AddThreads ==
  ASSUME TypeOK, NEW t \in Threads,
         ValidateSignedTx(t) \/ LockDomain(t) \/ LockDomainPut(t) \/ SavePending(t)
  PROVE  ThreadsOK'
<1>1. ThreadsOK /\ th[t] \in ThreadState /\ ThreadOK(t, th[t])
  BY ThreadFacts
<1>2. th[t].pc \in {"validate", "lock", "lockPut", "savePending"}
  BY DEF ValidateSignedTx, LockDomain, LockDomainPut, SavePending, At
<1>3. t[1] = "register"
  BY <1>1, <1>2
     DEF ThreadOK, Control, GetPcs, SavePcs, LockPcs, UnlockPcs, ReleasePcs
<1> USE DEF ThreadOK, ThreadState, Control, HasRecord, Pcs, Ops, GetPcs, SavePcs, LockPcs, UnlockPcs,
            ReleasePcs
<1>4. CASE th[t].pc # "savePending"
  <2>1. th[t].op = "register"
    BY <1>1, <1>2, <1>4
  <2>2. \A p \in {"refused", "lock", "lockPut"} : ThreadOK(t, [th[t] EXCEPT !.pc = p])
    BY <1>1, <1>3, <2>1
  <2>3. ThreadOK(t, [th[t] EXCEPT !.pc = "indexLock", !.op = "add", !.rec = Pending(t[2])])
    <3>1. Pending(t[2]) \in RecordOrNone /\ Pending(t[2]) # None
      BY <1>3, ThreadKinds DEF Pending, RecordOrNone, Records
    <3>2. QED BY <1>1, <1>3, <2>1, <3>1
  <2>4. \/ \E p \in {"refused", "lock", "lockPut"} : Become(t, [th[t] EXCEPT !.pc = p])
        \/ Become(t, [th[t] EXCEPT !.pc = "indexLock", !.op = "add", !.rec = Pending(t[2])])
    BY <1>4 DEF ValidateSignedTx, LockDomain, LockDomainPut, SavePending, At, Goto
  <2> HIDE DEF ThreadOK
  <2>5. QED BY <1>1, <2>2, <2>3, <2>4, BecomeOK
<1>5. CASE th[t].pc = "savePending"
  <2>1. PICK p \in PutValue(pending[th[t].dom], th[t].rec) :
          Become(t, [th[t] EXCEPT !.pc = "releaseIndex", !.ok = p.ok])
    BY <1>5 DEF ValidateSignedTx, LockDomain, LockDomainPut, SavePending, At
  <2>2. p.ok \in BOOLEAN
    BY DHTTypes
  <2>3. ThreadOK(t, [th[t] EXCEPT !.pc = "releaseIndex", !.ok = p.ok])
    BY <1>1, <1>5, <2>2
  <2> HIDE DEF ThreadOK
  <2>4. QED BY <1>1, <2>1, <2>3, BecomeOK
<1>6. QED BY <1>4, <1>5

LEMMA AttemptFailedThreads ==
  ASSUME ThreadsOK, NEW t \in Threads, th[t].pc \in {"indexLock", "indexPut"}, AttemptFailed(t)
  PROVE  ThreadsOK'
<1>1. th[t] \in ThreadState /\ ThreadOK(t, th[t])
  BY DEF ThreadsOK
<1>2. th[t].op \in {"add", "confirm", "reject"} /\ th[t].rec # None
  BY <1>1 DEF ThreadOK, Control, HasRecord, GetPcs, SavePcs, LockPcs, UnlockPcs, ReleasePcs
<1>3. CASE /\ th[t].tries + 1 < MaxIndexAttempts
           /\ Become(t, [th[t] EXCEPT !.pc = "indexLock", !.tries = @ + 1])
  <2>1. th[t].tries + 1 \in 0 .. MaxIndexAttempts - 1
    BY <1>1, <1>3 DEF ThreadState
  <2>2. ThreadOK(t, [th[t] EXCEPT !.pc = "indexLock", !.tries = @ + 1])
    BY <1>1, <1>2, <2>1
       DEF ThreadOK, ThreadState, Control, HasRecord, Pcs, GetPcs, SavePcs, LockPcs, UnlockPcs,
           ReleasePcs
  <2>3. QED BY <1>3, <2>2, BecomeOK
<1>4. CASE Become(t, [Abandon(t) EXCEPT !.tries = 0])
  BY <1>2, <1>4, AbandonOK, BecomeOK
<1>5. QED BY <1>3, <1>4 DEF AttemptFailed

LEMMA WriteIndexThreads ==
  ASSUME TypeOK, NEW t \in Threads, WriteIndex(t)
  PROVE  ThreadsOK'
<1>1. ThreadsOK /\ th[t] \in ThreadState /\ ThreadOK(t, th[t]) /\ th[t].pc = "indexWrite"
  BY ThreadFacts DEF WriteIndex, At
<1>2. th[t].op \in {"add", "confirm", "reject"} /\ th[t].rec # None /\ th[t].rec \in Records
  BY <1>1 DEF ThreadOK, ThreadState, RecordOrNone, Control, HasRecord, GetPcs, SavePcs, LockPcs,
     UnlockPcs, ReleasePcs
<1> DEFINE after == CASE th[t].op = "add" -> "savePending"
                      [] th[t].op = "confirm" -> "saveRecord"
                      [] th[t].op = "reject" -> "clear"
           Marked(ok) == IF th[t].op = "confirm" /\ ok THEN Confirmed(th[t].rec.req) ELSE th[t].rec
           S(pc, ok) == [th[t] EXCEPT !.pc = pc, !.idx = {}, !.ok = ok, !.rec = Marked(ok)]
<1>3. after \in Pcs /\ Control(t[1], th[t].op, after)
  BY <1>1, <1>2
     DEF ThreadOK, Control, Pcs, GetPcs, SavePcs, LockPcs, UnlockPcs, ReleasePcs
<1>4. "releaseIndex" \in Pcs /\ Control(t[1], th[t].op, "releaseIndex")
  BY <1>1, <1>2
     DEF ThreadOK, Control, Pcs, GetPcs, SavePcs, LockPcs, UnlockPcs, ReleasePcs
<1>5. \A ok \in BOOLEAN : Marked(ok) \in RecordOrNone /\ Marked(ok) # None
  BY <1>2 DEF Confirmed, Records, RecordOrNone
<1> HIDE DEF after, Marked
<1>6. ThreadOK(t, [th[t] EXCEPT !.pc = after, !.idx = {}])
  BY <1>1, <1>2, <1>3 DEF ThreadOK, ThreadState
<1>7. ASSUME NEW ok \in BOOLEAN, NEW pc \in {after, "releaseIndex"}
      PROVE  ThreadOK(t, S(pc, ok))
  <2>1. pc \in Pcs /\ Control(t[1], th[t].op, pc)
    BY <1>3, <1>4
  <2>2. Marked(ok) \in RecordOrNone /\ Marked(ok) # None
    BY <1>5
  <2>3. S(pc, ok) \in ThreadState
    BY <1>1, <2>1, <2>2 DEF ThreadState
  <2>4. QED BY <1>1, <2>1, <2>2, <2>3 DEF ThreadOK, ThreadState
<1>8. CASE Become(t, [th[t] EXCEPT !.pc = after, !.idx = {}])
  BY <1>1, <1>6, <1>8, BecomeOK
<1>9. CASE \E p \in PutValue(index, IF th[t].op = "add" THEN th[t].idx \cup {th[t].dom}
                                    ELSE th[t].idx \ {th[t].dom}) :
             Become(t, S(IF p.ok THEN after ELSE "releaseIndex", p.ok))
  <2> DEFINE new == IF th[t].op = "add" THEN th[t].idx \cup {th[t].dom}
                    ELSE th[t].idx \ {th[t].dom}
  <2> HIDE DEF S
  <2>1. PICK p \in PutValue(index, new) : Become(t, S(IF p.ok THEN after ELSE "releaseIndex", p.ok))
    BY <1>9
  <2> HIDE DEF new
  <2>2. p.ok \in BOOLEAN
    BY DHTTypes
  <2>3. QED BY <1>1, <1>7, <2>1, <2>2, BecomeOK
<1>10. QED BY <1>8, <1>9 DEF WriteIndex, after, Marked

\* The functions that update the index.
LEMMA IndexThreads ==
  ASSUME TypeOK, NEW t \in Threads,
         \/ FindPending(t) \/ LockIndex(t) \/ LockIndexPut(t) \/ ReadIndex(t) \/ ClearPending(t)
  PROVE  ThreadsOK'
<1>1. ThreadsOK /\ th[t] \in ThreadState /\ ThreadOK(t, th[t])
  BY ThreadFacts
<1>2. th[t].pc \in LockPcs \cup {"find", "clear"}
  BY DEF FindPending, LockIndex, LockIndexPut, ReadIndex, ClearPending, At, LockPcs
<1> USE DEF ThreadOK, ThreadState, Control, HasRecord, Pcs, Ops, GetPcs, SavePcs, LockPcs, UnlockPcs,
            ReleasePcs
<1>3. /\ th[t].op \in {"add", "confirm", "reject"}
      /\ th[t].pc \in {"find", "clear"} => th[t].op # "add"
      /\ th[t].pc # "find" => th[t].rec # None
  BY <1>1, <1>2
<1>4. CASE FindPending(t)
  <2>1. PICK r \in GetValue(pending[th[t].dom]) :
          \/ r # None /\ Become(t, [th[t] EXCEPT !.pc = "indexLock", !.rec = r])
          \/ Become(t, Abandon(t))
    BY <1>4 DEF FindPending
  <2>2. r \in RecordOrNone
    BY <1>3, ThreadFacts, DHTTypes DEF RecordOrNone
  <2>3. th[t].pc = "find"
    BY <1>4 DEF FindPending, At
  <2>4. r # None => ThreadOK(t, [th[t] EXCEPT !.pc = "indexLock", !.rec = r])
    BY <1>1, <1>3, <2>2, <2>3
  <2>5. ThreadOK(t, Abandon(t))
    BY <1>1, <1>3, <2>3, AbandonOK
  <2> HIDE DEF ThreadOK
  <2>6. QED BY <1>1, <2>1, <2>4, <2>5, BecomeOK
<1>5. CASE LockIndex(t)
  <2>1. th[t].pc = "indexLock"
    BY <1>5 DEF LockIndex, At
  <2>2. ThreadOK(t, [th[t] EXCEPT !.pc = "indexPut"])
    BY <1>1, <1>3, <2>1
  <2>3. AttemptFailed(t) \/ Become(t, [th[t] EXCEPT !.pc = "indexPut"])
    BY <1>5 DEF LockIndex, Goto
  <2> HIDE DEF ThreadOK
  <2>4. QED BY <1>1, <2>1, <2>2, <2>3, BecomeOK, AttemptFailedThreads
<1>6. CASE LockIndexPut(t)
  <2>1. th[t].pc = "indexPut"
    BY <1>6 DEF LockIndexPut, At
  <2>2. ThreadOK(t, [th[t] EXCEPT !.pc = "indexRead", !.tries = 0])
    <3>1. 0 \in 0 .. MaxIndexAttempts - 1
      OBVIOUS
    <3>2. Control(t[1], th[t].op, "indexRead")
      BY <1>1, <1>3, <2>1
    <3> HIDE DEF Control
    <3>3. QED BY <1>1, <1>3, <2>1, <3>1, <3>2
  <2>3. AttemptFailed(t) \/ Become(t, [th[t] EXCEPT !.pc = "indexRead", !.tries = 0])
    BY <1>6 DEF LockIndexPut
  <2> HIDE DEF ThreadOK
  <2>4. QED BY <1>1, <2>1, <2>2, <2>3, BecomeOK, AttemptFailedThreads
<1>7. CASE ReadIndex(t)
  <2>1. PICK i \in SUBSET Domains : Become(t, [th[t] EXCEPT !.pc = "indexWrite", !.idx = i])
    BY <1>7 DEF ReadIndex, TypeOK
  <2>2. th[t].pc = "indexRead"
    BY <1>7 DEF ReadIndex, At
  <2>3. ThreadOK(t, [th[t] EXCEPT !.pc = "indexWrite", !.idx = i])
    BY <1>1, <1>3, <2>2
  <2> HIDE DEF ThreadOK
  <2>4. QED BY <1>1, <2>1, <2>3, BecomeOK
<1>8. CASE ClearPending(t)
  <2>1. th[t].pc = "clear" /\ Become(t, [th[t] EXCEPT !.pc = "releaseDomain"])
    BY <1>8 DEF ClearPending, At, Goto
  <2>2. ThreadOK(t, [th[t] EXCEPT !.pc = "releaseDomain"])
    BY <1>1, <1>3, <2>1
  <2> HIDE DEF ThreadOK
  <2>3. QED BY <1>1, <2>1, <2>2, BecomeOK
<1>9. QED BY <1>4, <1>5, <1>6, <1>7, <1>8

\* The return of Add starts the vote and the publication of its request.
LEMMA StartsThreads ==
  ASSUME TypeOK, StartedByAdd, NEW t \in Threads, th[t].op = "add", th[t].pc \in UnlockPcs,
         th' = [u \in Threads |->
                  CASE u = t -> [Idle(t) EXCEPT !.pc = "done", !.seen = th[t].seen]
                    [] u # t /\ Started(t, u) -> [th[u] EXCEPT !.pc = u[1]]
                    [] OTHER -> th[u]]
  PROVE  /\ ThreadsOK' /\ StartedByAdd'
         /\ th'[t].pc = "done" /\ t = <<"register", t[2]>> /\ t[2] \in Requests
         /\ th'[t].op = "register" /\ th'[t].rec = None /\ th'[t].ok /\ th'[t].seen = th[t].seen
         /\ th'[t].dom = DomainOf[t[2]]
         /\ \A u \in Threads \ {t} :
              \/ th'[u] = th[u]
              \/ /\ u[1] \in {"vote", "publish"} /\ th[u].pc = "off" /\ th[u].op = u[1]
                 /\ th'[u] = [th[u] EXCEPT !.pc = u[1]]
<1>1. ThreadsOK /\ th[t] \in ThreadState /\ ThreadOK(t, th[t])
  BY ThreadFacts
<1>2. t[1] = "register" /\ t = <<"register", t[2]>> /\ t[2] \in Requests
  BY <1>1, ThreadKinds DEF ThreadOK, Control
<1>3. /\ ThreadOK(t, [Idle(t) EXCEPT !.pc = "done"])
      /\ Idle(t).op = "register" /\ Idle(t).rec = None /\ Idle(t).ok /\ Idle(t) \in ThreadState
      /\ Idle(t).dom = DomainOf[t[2]]
  BY <1>2, IdleOK DEF Idle, ThreadOK
<1> DEFINE s == [Idle(t) EXCEPT !.pc = "done", !.seen = th[t].seen]
<1>4. /\ ThreadOK(t, s) /\ s.pc = "done" /\ s.op = "register" /\ s.rec = None /\ s.ok
      /\ s.seen = th[t].seen /\ s.dom = DomainOf[t[2]]
  <2> HIDE DEF Idle
  <2>1. QED BY <1>1, <1>3 DEF ThreadOK, ThreadState
<1>5. th'[t] = s
  OBVIOUS
<1>6. ASSUME NEW u \in Threads, u # t, Started(t, u)
      PROVE  /\ u[1] \in {"vote", "publish"} /\ th[u].pc = "off" /\ th[u].op = u[1]
             /\ th'[u] = [th[u] EXCEPT !.pc = u[1]]
             /\ ThreadOK(u, th'[u])
  <2>1. u[1] \in {"vote", "publish"} /\ u[2] = t[2]
    BY <1>6 DEF Started
  <2>2. th[<<"register", u[2]>>].pc # "done"
    BY <1>2, <2>1 DEF UnlockPcs
  <2>3. th[u].pc = "off"
    BY <2>1, <2>2 DEF StartedByAdd
  <2>4. ThreadOK(u, th[u]) /\ th[u] \in ThreadState
    BY ThreadFacts
  <2>5. th[u].op = u[1]
    BY <2>1, <2>3, <2>4 DEF ThreadOK, Control, LockPcs, UnlockPcs, ReleasePcs
  <2>6. th'[u] = [th[u] EXCEPT !.pc = u[1]]
    BY <1>6
  <2>7. u[1] \in Pcs /\ Control(u[1], th[u].op, u[1]) /\ ~HasRecord(u[1])
    BY <2>1, <2>5 DEF Pcs, Control, HasRecord, SavePcs, LockPcs, UnlockPcs, ReleasePcs
  <2>8. QED BY <2>1, <2>3, <2>4, <2>5, <2>6, <2>7, GotoOK
<1>7. ASSUME NEW u \in Threads, u # t, ~Started(t, u)
      PROVE  th'[u] = th[u]
  BY <1>7
<1> HIDE DEF s
<1>8. ThreadsOK'
  <2>1. \A u \in Threads : ThreadOK(u, th'[u])
    BY <1>1, <1>4, <1>5, <1>6, <1>7 DEF ThreadsOK
  <2>2. \A u \in Threads : th'[u] \in ThreadState
    BY <2>1 DEF ThreadOK
  <2>3. th' \in [Threads -> ThreadState]
    BY <2>2
  <2>4. QED BY <2>1, <2>3 DEF ThreadsOK
<1>9. StartedByAdd'
  <2> SUFFICES ASSUME NEW u \in Threads, u[1] \in {"vote", "publish"}, th'[u].pc # "off"
               PROVE  th'[<<"register", u[2]>>].pc = "done"
    BY DEF StartedByAdd
  <2>1. u # t
    BY <1>2
  <2>2. CASE Started(t, u)
    BY <1>2, <1>4, <1>5, <2>2 DEF Started
  <2>3. CASE ~Started(t, u)
    <3>1. th[<<"register", u[2]>>].pc = "done"
      BY <1>7, <2>1, <2>3 DEF StartedByAdd
    <3>2. u[2] \in Requests
      BY ThreadKinds
    <3> DEFINE w == <<"register", u[2]>>
    <3>3. w \in Threads /\ w # t /\ w[1] = "register"
      BY <3>1, <3>2, RegisterThread DEF UnlockPcs
    <3>4. ~Started(t, w)
      BY <3>3 DEF Started
    <3>5. QED BY <1>7, <3>1, <3>3, <3>4
  <2>4. QED BY <2>2, <2>3
<1>10. QED BY <1>2, <1>4, <1>5, <1>6, <1>7, <1>8, <1>9

\* The releases.
LEMMA ReleaseThreads ==
  ASSUME TypeOK, StartedByAdd, NEW t \in Threads,
         ReleaseDomain(t) \/ ReleaseDomainPut(t) \/ ReleaseIndex(t) \/ ReleaseIndexPut(t)
  PROVE  ThreadsOK'
<1>1. ThreadsOK /\ th[t] \in ThreadState /\ ThreadOK(t, th[t])
  BY ThreadFacts
<1>2. CASE ReleaseDomain(t) \/ ReleaseDomainPut(t)
  <2>1. th[t].pc \in ReleasePcs
    BY <1>2 DEF ReleaseDomain, ReleaseDomainPut, At, ReleasePcs
  <2>2. ThreadOK(t, [th[t] EXCEPT !.pc = "domainClear"])
    BY <1>1, <2>1
       DEF ThreadOK, ThreadState, Control, HasRecord, Pcs, GetPcs, SavePcs, LockPcs, UnlockPcs,
           ReleasePcs
  <2>3. Become(t, AfterReleaseDomain(t)) \/ Become(t, [th[t] EXCEPT !.pc = "domainClear"])
    BY <1>2 DEF ReleaseDomain, ReleaseDomainPut, Goto
  <2>4. QED BY <1>1, <2>1, <2>2, <2>3, AfterReleaseDomainOK, BecomeOK
<1>3. CASE ReleaseIndex(t) \/ ReleaseIndexPut(t)
  <2>1. th[t].pc \in UnlockPcs
    BY <1>3 DEF ReleaseIndex, ReleaseIndexPut, At, UnlockPcs
  <2>2. th[t].op \in {"add", "confirm", "reject"} /\ th[t].rec # None
    BY <1>1, <2>1 DEF ThreadOK, Control, HasRecord, GetPcs, SavePcs, LockPcs, UnlockPcs, ReleasePcs
  <2>3. ThreadOK(t, [th[t] EXCEPT !.pc = "indexClear"])
    BY <1>1, <2>1, <2>2
       DEF ThreadOK, ThreadState, Control, HasRecord, Pcs, GetPcs, SavePcs, LockPcs, UnlockPcs,
           ReleasePcs
  <2>4. AfterReleaseIndex(t) \/ Become(t, [th[t] EXCEPT !.pc = "indexClear"])
    BY <1>3 DEF ReleaseIndex, ReleaseIndexPut, Goto
  <2>5. CASE AfterReleaseIndex(t)
    <3>1. CASE th[t].op = "add" /\ th[t].ok
      BY <2>1, <2>5, <3>1, StartsThreads DEF AfterReleaseIndex
    <3>2. CASE ~(th[t].op = "add" /\ th[t].ok)
      BY <1>1, <2>2, <2>5, <3>2, AbandonOK, BecomeOK DEF AfterReleaseIndex
    <3>3. QED BY <3>1, <3>2
  <2>6. QED BY <1>1, <2>3, <2>4, <2>5, BecomeOK
<1>4. QED BY <1>2, <1>3

\* The vote and the publication.
LEMMA ReadVotesThreads ==
  ASSUME TypeOK, NEW t \in Threads, ReadVotes(t)
  PROVE  ThreadsOK'
<1>1. ThreadsOK /\ th[t] \in ThreadState /\ ThreadOK(t, th[t]) /\ th[t].pc = "vote"
  BY ThreadFacts DEF ReadVotes, At
<1>2. t[1] = "vote" /\ th[t].op = "vote" /\ t[2] \in Requests /\ Node(t) \in Nodes
  BY <1>1, ThreadKinds DEF ThreadOK, Control, GetPcs, SavePcs, LockPcs, UnlockPcs, ReleasePcs
<1> USE DEF ThreadOK, ThreadState, Control, HasRecord, Pcs, Ops, GetPcs, SavePcs, LockPcs, UnlockPcs,
            ReleasePcs
<1>3. ThreadOK(t, [th[t] EXCEPT !.pc = "releaseDomain", !.rec = Pending(t[2])])
  <2>1. Pending(t[2]) \in RecordOrNone /\ Pending(t[2]) # None
    BY <1>2 DEF Pending, RecordOrNone, Records
  <2>2. QED BY <1>1, <1>2, <2>1
<1>4. ASSUME NEW result \in VoteResults(Nodes)
      PROVE  ThreadOK(t, [th[t] EXCEPT !.pc = "voteSave", !.result = WithVote(result, Node(t), TRUE)])
  <2>1. WithVote(result, Node(t), TRUE) \in ResultOrNone
    BY <1>2, VoteTypes DEF ResultOrNone
  <2>2. QED BY <1>1, <1>2, <2>1
<1> HIDE DEF ThreadOK
<1>5. CASE Become(t, [th[t] EXCEPT !.pc = "releaseDomain", !.rec = Pending(t[2])])
  BY <1>1, <1>3, <1>5, BecomeOK
<1>6. CASE \E result \in VoteResults(Nodes) :
             Become(t, [th[t] EXCEPT !.pc = "voteSave", !.result = WithVote(result, Node(t), TRUE)])
  BY <1>1, <1>4, <1>6, BecomeOK
<1>7. CASE \E counted \in OnlineNodes(Node(t)), peers \in OnlineNodes(Node(t)) :
             \E m \in DecisionMakers(Node(t), Cardinality(counted), peers) :
               Become(t, [th[t] EXCEPT !.pc = "voteSave",
                            !.result = WithVote(NewResult(m, Cardinality(counted)), Node(t), TRUE)])
  <2>1. PICK counted \in OnlineNodes(Node(t)), peers \in OnlineNodes(Node(t)) :
             \E m \in DecisionMakers(Node(t), Cardinality(counted), peers) :
               Become(t, [th[t] EXCEPT !.pc = "voteSave",
                            !.result = WithVote(NewResult(m, Cardinality(counted)), Node(t), TRUE)])
    BY <1>7
  <2>2. Cardinality(counted) \in Nat /\ peers \subseteq Nodes
    BY <1>2, PeersType
  <2>3. DecisionMakers(Node(t), Cardinality(counted), peers) \subseteq Nodes
    BY <1>2, <2>2 DEF DecisionMakers
  <2>4. QED BY <1>6, <2>1, <2>2, <2>3, NewResultType
<1>8. \A v \in GetValue(votes[th[t].dom]) : v # None => v \in VoteResults(Nodes)
  BY <1>2, ThreadFacts, DHTTypes DEF ResultOrNone
<1>9. QED BY <1>5, <1>6, <1>7, <1>8 DEF ReadVotes

LEMMA VoteThreads ==
  ASSUME TypeOK, NEW t \in Threads, SaveVote(t) \/ Publish(t)
  PROVE  ThreadsOK'
<1>1. ThreadsOK /\ th[t] \in ThreadState /\ ThreadOK(t, th[t])
  BY ThreadFacts
<1>2. CASE SaveVote(t)
  <2>1. t[1] = "vote" /\ th[t].op = "vote" /\ t[2] \in Requests /\ th[t].pc = "voteSave"
    BY <1>1, <1>2, ThreadKinds
       DEF SaveVote, At, ThreadOK, Control, GetPcs, SavePcs, LockPcs, UnlockPcs, ReleasePcs
  <2>2. Pending(t[2]) \in RecordOrNone /\ Pending(t[2]) # None
    BY <2>1 DEF Pending, RecordOrNone, Records
  <2>3. ThreadOK(t, [th[t] EXCEPT !.pc = "releaseDomain", !.rec = Pending(t[2]), !.result = None])
    BY <1>1, <2>1, <2>2
       DEF ThreadOK, ThreadState, Control, HasRecord, Pcs, ReleasePcs, ResultOrNone
  <2>4. ThreadOK(t, [Idle(t) EXCEPT !.pc = "done"])
    BY <2>1, IdleOK
  <2>5. \/ Become(t, [Idle(t) EXCEPT !.pc = "done"])
        \/ Become(t, [th[t] EXCEPT !.pc = "releaseDomain", !.rec = Pending(t[2]), !.result = None])
    BY <1>2 DEF SaveVote
  <2>6. QED BY <1>1, <2>3, <2>4, <2>5, BecomeOK
<1>3. CASE Publish(t)
  <2>1. t[1] = "publish" /\ th[t].op = "publish" /\ th[t].pc = "publish"
    BY <1>1, <1>3
       DEF Publish, At, ThreadOK, Control, GetPcs, SavePcs, LockPcs, UnlockPcs, ReleasePcs
  <2>2. ThreadOK(t, [th[t] EXCEPT !.pc = "find", !.op = "reject"])
    BY <1>1, <2>1
       DEF ThreadOK, ThreadState, Control, HasRecord, Pcs, Ops, SavePcs, LockPcs, UnlockPcs,
           ReleasePcs
  <2>3. ThreadOK(t, [Idle(t) EXCEPT !.pc = "done"])
    BY <2>1, IdleOK
  <2>4. QED BY <1>1, <1>3, <2>2, <2>3, BecomeOK DEF Publish
<1>4. QED BY <1>2, <1>3

\* The decision loop.
LEMMA DecideThreads ==
  ASSUME TypeOK, NEW t \in Threads, Tick(t) \/ Examine(t) \/ SubmitSignedTx(t) \/ SaveResult(t)
  PROVE  ThreadsOK'
<1>1. ThreadsOK /\ th[t] \in ThreadState /\ ThreadOK(t, th[t])
  BY ThreadFacts
<1>2. th[t].pc \in {"tick", "submit", "saveResult"}
  BY DEF Tick, Examine, SubmitSignedTx, SaveResult, At
<1> USE DEF ThreadOK, ThreadState, Control, HasRecord, Pcs, Ops, GetPcs, SavePcs, LockPcs, UnlockPcs,
            ReleasePcs
<1>3. t[1] = "tick" /\ th[t].op = IF th[t].pc = "tick" THEN "tick" ELSE "decide"
  BY <1>1, <1>2
<1>4. None \in RecordOrNone /\ None \in ResultOrNone
  BY DEF RecordOrNone, ResultOrNone
<1>5. CASE Tick(t)
  <2>1. ThreadOK(t, [th[t] EXCEPT !.todo = index])
    <3>1. index \in SUBSET Domains
      BY DEF TypeOK
    <3> HIDE DEF Control, HasRecord, Pcs, Ops
    <3>2. QED BY <1>1, <3>1
  <2>2. Become(t, [th[t] EXCEPT !.todo = index])
    BY <1>5 DEF Tick
  <2> HIDE DEF ThreadOK
  <2>3. QED BY <1>1, <2>1, <2>2, BecomeOK
<1>6. CASE Examine(t)
  <2>1. th[t].pc = "tick"
    BY <1>6 DEF Examine, At
  <2>2. PICK d \in th[t].todo :
          \/ /\ MayDecide(Node(t), votes[d])
             /\ Become(t, [[th[t] EXCEPT !.todo = @ \ {d}] EXCEPT
                             !.pc = "get", !.op = "decide", !.dom = d, !.result = Decided(votes[d])])
          \/ Become(t, [th[t] EXCEPT !.todo = @ \ {d}])
    BY <1>6 DEF Examine
  <2>3. d \in Domains
    BY <1>1
  <2>4. ThreadOK(t, [th[t] EXCEPT !.todo = @ \ {d}])
    BY <1>1
  <2>5. ASSUME MayDecide(Node(t), votes[d])
        PROVE  ThreadOK(t, [[th[t] EXCEPT !.todo = @ \ {d}] EXCEPT
                             !.pc = "get", !.op = "decide", !.dom = d, !.result = Decided(votes[d])])
    <3>1. votes[d] \in VoteResults(Nodes)
      BY <2>3, <2>5 DEF MayDecide, TypeOK, ResultOrNone
    <3>2. Decided(votes[d]) \in ResultOrNone
      BY <3>1, VoteTypes, ThreadKinds DEF ResultOrNone
    <3>3. QED BY <1>1, <1>3, <2>1, <2>3, <3>2
  <2> HIDE DEF ThreadOK
  <2>6. QED BY <1>1, <2>2, <2>4, <2>5, BecomeOK
<1>7. CASE SubmitSignedTx(t)
  <2>1. th[t].pc = "submit"
    BY <1>7 DEF SubmitSignedTx, At
  <2>2. /\ ThreadOK(t, [th[t] EXCEPT !.pc = "saveResult", !.rec = None])
        /\ ThreadOK(t, [th[t] EXCEPT !.pc = "find", !.op = "reject", !.rec = None, !.result = None])
    BY <1>1, <1>3, <1>4, <2>1
  <2>3. \/ Become(t, [th[t] EXCEPT !.pc = "saveResult", !.rec = None])
        \/ Become(t, [th[t] EXCEPT !.pc = "find", !.op = "reject", !.rec = None, !.result = None])
    BY <1>7 DEF SubmitSignedTx
  <2> HIDE DEF ThreadOK
  <2>4. QED BY <1>1, <2>2, <2>3, BecomeOK
<1>8. CASE SaveResult(t)
  <2>1. th[t].pc = "saveResult"
    BY <1>8 DEF SaveResult, At
  <2>2. ThreadOK(t, [th[t] EXCEPT !.pc = "find", !.op = "confirm", !.result = None])
    BY <1>1, <1>3, <1>4, <2>1
  <2>3. \/ Become(t, [th[t] EXCEPT !.pc = "find", !.op = "confirm", !.result = None])
        \/ Become(t, NextDomain(t))
    BY <1>8 DEF SaveResult
  <2> HIDE DEF ThreadOK
  <2>4. QED BY <1>1, <1>3, <2>2, <2>3, BecomeOK, NextDomainOK
<1>9. QED BY <1>5, <1>6, <1>7, <1>8

\* A node stops.
LEMMA StopThreads ==
  ASSUME TypeOK, StartedByAdd, NEW n \in Nodes, Stop(n)
  PROVE  /\ ThreadsOK' /\ StartedByAdd'
         /\ \A u \in Threads :
              \/ th'[u] = th[u]
              \/ Node(u) = n /\ u[1] = "tick" /\ th'[u] = Idle(u)
              \/ Node(u) = n /\ u[1] # "tick" /\ ~Resting(u) /\ th'[u] = [Idle(u) EXCEPT !.pc = "dead"]
<1>1. ThreadsOK
  BY DEF TypeOK, ThreadsOK
<1>2. ASSUME NEW u \in Threads
      PROVE  \/ th'[u] = th[u]
             \/ Node(u) = n /\ u[1] = "tick" /\ th'[u] = Idle(u)
             \/ /\ Node(u) = n /\ u[1] # "tick" /\ ~Resting(u)
                /\ th'[u] = [Idle(u) EXCEPT !.pc = "dead"]
  <2>1. th'[u] = CASE Node(u) = n /\ u[1] = "tick" -> Idle(u)
                   [] Node(u) = n /\ u[1] # "tick" /\ ~Resting(u) -> [Idle(u) EXCEPT !.pc = "dead"]
                   [] OTHER -> th[u]
    BY DEF Stop
  <2>2. CASE Node(u) = n /\ u[1] = "tick"
    BY <2>1, <2>2
  <2>3. CASE Node(u) = n /\ u[1] # "tick" /\ ~Resting(u)
    BY <2>1, <2>3
  <2>4. CASE Node(u) # n \/ (u[1] # "tick" /\ Resting(u))
    BY <2>1, <2>4
  <2>5. QED BY <2>2, <2>3, <2>4
<1>3. \A u \in Threads : ThreadOK(u, th'[u]) /\ th'[u] \in ThreadState
  <2> SUFFICES ASSUME NEW u \in Threads PROVE ThreadOK(u, th'[u])
    BY DEF ThreadOK
  <2>1. QED BY <1>1, <1>2, IdleOK DEF ThreadsOK
<1>4. ThreadsOK'
  <2>1. th' \in [Threads -> ThreadState]
    BY <1>3 DEF Stop
  <2>2. QED BY <1>3, <2>1 DEF ThreadsOK
<1>5. StartedByAdd'
  <2> SUFFICES ASSUME NEW u \in Threads, u[1] \in {"vote", "publish"}, th'[u].pc # "off"
               PROVE  th'[<<"register", u[2]>>].pc = "done"
    BY DEF StartedByAdd
  <2>1. th[u].pc # "off"
    BY <1>2 DEF Resting
  <2>2. u[2] \in Requests /\ th[<<"register", u[2]>>].pc = "done"
    BY <2>1, ThreadKinds DEF StartedByAdd
  <2> DEFINE w == <<"register", u[2]>>
  <2>3. w \in Threads /\ w[1] = "register"
    BY <2>2, RegisterThread
  <2>4. Resting(w)
    BY <2>2 DEF Resting
  <2>5. QED BY <1>2, <2>2, <2>3, <2>4
<1>6. QED BY <1>2, <1>4, <1>5

-----------------------------------------------------------------------------
(* What each step may change *)

LocksOK ==
  /\ lockCell \in [Keys -> Requests \cup {None} \cup Threads]
  /\ pendingLocks \in [Nodes -> [Keys -> Requests \cup {None} \cup Threads]]
  /\ lockMutex \in [Nodes -> Threads \cup {None}]
  /\ readers \in [Nodes -> SUBSET Threads]

DHTOK ==
  /\ index \subseteq Domains /\ nameMap \subseteq Domains
  /\ pending \in [Domains -> RecordOrNone] /\ record \in [Domains -> RecordOrNone]
  /\ votes \in [Domains -> ResultOrNone]

NodesOK ==
  /\ db \in [Nodes -> [Domains -> RecordOrNone]] /\ dbNames \in [Nodes -> SUBSET Domains]
  /\ up \in [Nodes -> BOOLEAN]

ChainOK ==
  /\ mined \subseteq Requests /\ rejected \subseteq Requests
  /\ sent \subseteq (IF "submit" \in Faults THEN Requests ELSE {})
  /\ lapsed \subseteq mined \cap MayLapse

LEMMA TypeParts == TypeOK <=> LocksOK /\ DHTOK /\ NodesOK /\ ChainOK /\ ThreadsOK
  BY DEF TypeOK, LocksOK, DHTOK, NodesOK, ChainOK, ThreadsOK

\* Each variable of the DHT, of the nodes and of the chain has its writers.
LEMMA DHTFrame ==
  ASSUME NEW t, Step(t)
  PROVE  \/ UNCHANGED dhtVars
         \/ WriteIndex(t) /\ UNCHANGED <<pending, votes, record, nameMap>>
         \/ (SavePending(t) \/ ClearPending(t)) /\ UNCHANGED <<index, votes, record, nameMap>>
         \/ (SaveVote(t) \/ SaveResult(t)) /\ UNCHANGED <<index, pending, record, nameMap>>
         \/ SaveRecordDHT(t) /\ UNCHANGED <<index, pending, votes, nameMap>>
         \/ SaveNamehash(t) /\ UNCHANGED <<index, pending, votes, record>>
  BY DEF Step, dhtVars, AddBinding, GetByNamehash, GetLocal, GetPendingRecord, GetLatestRecord,
     SaveRecordDHT, SaveRecordLocal, SaveNamehash, SaveNamehashLocal, ValidateSignedTx,
     LockDomain, LockDomainPut, SavePending, FindPending, LockIndex, LockIndexPut, ReadIndex,
     WriteIndex, ClearPending, ReleaseDomain, ReleaseDomainPut, ReleaseIndex, ReleaseIndexPut,
     ReadVotes, PanicInVote, Stop, SaveVote, Publish, Tick, Examine, SubmitSignedTx, SaveResult

LEMMA NodeFrame ==
  ASSUME NEW t, Step(t)
  PROVE  \/ UNCHANGED nodeVars
         \/ SaveRecordLocal(t) /\ UNCHANGED <<dbNames, up>>
         \/ SaveNamehashLocal(t) /\ UNCHANGED <<db, up>>
         \/ PanicInVote(t) /\ UNCHANGED <<db, dbNames>>
<1>1. CASE SaveRecordLocal(t) \/ SaveNamehashLocal(t) \/ PanicInVote(t)
  BY <1>1 DEF SaveRecordLocal, SaveNamehashLocal, PanicInVote, Stop
<1>2. CASE \/ AddBinding(t) \/ GetByNamehash(t) \/ GetLocal(t) \/ GetPendingRecord(t)
           \/ GetLatestRecord(t) \/ SaveRecordDHT(t) \/ SaveNamehash(t) \/ ReadVotes(t) \/ SaveVote(t)
           \/ Publish(t) \/ Tick(t) \/ Examine(t) \/ SubmitSignedTx(t) \/ SaveResult(t)
  BY <1>2
     DEF nodeVars, AddBinding, GetByNamehash, GetLocal, GetPendingRecord, GetLatestRecord,
     SaveRecordDHT, SaveNamehash, ReadVotes, SaveVote, Publish, Tick, Examine, SubmitSignedTx,
     SaveResult
<1>3. CASE \/ ValidateSignedTx(t) \/ LockDomain(t) \/ LockDomainPut(t) \/ SavePending(t)
           \/ FindPending(t) \/ LockIndex(t) \/ LockIndexPut(t) \/ ReadIndex(t) \/ WriteIndex(t)
           \/ ClearPending(t) \/ ReleaseDomain(t) \/ ReleaseDomainPut(t) \/ ReleaseIndex(t)
           \/ ReleaseIndexPut(t)
  BY <1>3
     DEF nodeVars, ValidateSignedTx, LockDomain, LockDomainPut, SavePending, FindPending,
     LockIndex, LockIndexPut, ReadIndex, WriteIndex, ClearPending, ReleaseDomain,
     ReleaseDomainPut, ReleaseIndex, ReleaseIndexPut
<1>4. QED BY <1>1, <1>2, <1>3 DEF Step

LEMMA ChainFrame ==
  ASSUME NEW t, Step(t)
  PROVE  /\ UNCHANGED <<mined, sent>> \/ SubmitSignedTx(t)
         /\ UNCHANGED lapsed
         /\ UNCHANGED rejected \/ ClearPending(t)
  BY DEF Step, chainVars, AddBinding, GetByNamehash, GetLocal, GetPendingRecord, GetLatestRecord,
     SaveRecordDHT, SaveRecordLocal, SaveNamehash, SaveNamehashLocal, ValidateSignedTx,
     LockDomain, LockDomainPut, SavePending, FindPending, LockIndex, LockIndexPut, ReadIndex,
     WriteIndex, ClearPending, ReleaseDomain, ReleaseDomainPut, ReleaseIndex, ReleaseIndexPut,
     ReadVotes, PanicInVote, Stop, SaveVote, Publish, Tick, Examine, SubmitSignedTx, SaveResult

\* What the chain does by itself.
LEMMA ChainSteps ==
  ASSUME NEW r \in Requests, Mine(r) \/ Lapse(r)
  PROVE  /\ UNCHANGED <<lockVars, dhtVars, nodeVars, rejected, th>>
         /\ mined \subseteq mined' /\ lapsed \subseteq lapsed'
         /\ mined' \subseteq mined \cup sent /\ lapsed' \subseteq lapsed \cup MayLapse
         /\ r \in sent \/ r \in MayLapse
  BY DEF Mine, Lapse

\* A step moves its own thread; the return of Add starts two others, a panic stops
\* those of its node.
LEMMA ThreadFrame ==
  ASSUME ThreadsOK, NEW t \in Threads, Step(t)
  PROVE  \/ \E s : Become(t, s)
         \/ PanicInVote(t)
         \/ (ReleaseIndex(t) \/ ReleaseIndexPut(t)) /\ AfterReleaseIndex(t) /\ th[t].op = "add" /\ th[t].ok
  BY DEF Step, Goto, AttemptFailed, AddBinding, GetByNamehash, GetLocal, GetPendingRecord,
     GetLatestRecord, SaveRecordDHT, SaveRecordLocal, SaveNamehash, SaveNamehashLocal,
     ValidateSignedTx, LockDomain, LockDomainPut, SavePending, FindPending, LockIndex,
     LockIndexPut, ReadIndex, WriteIndex, ClearPending, ReleaseDomain, ReleaseDomainPut,
     ReleaseIndex, ReleaseIndexPut, AfterReleaseIndex, ReadVotes, SaveVote, Publish, Tick,
     Examine, SubmitSignedTx, SaveResult

\* What a step does to the locks: one operation on the key k with the id.
LockStep(t, k, id) ==
  \/ UNCHANGED lockVars
  \/ RLock(Node(t), t) \/ RUnlock(Node(t), t)
  \/ LockGet(Node(t), t, k) \/ LockPut(Node(t), t, k, id) \/ LockPutError(Node(t), t, k, id)
  \/ UnlockGet(Node(t), t, k, id) \/ UnlockPut(Node(t), t, k, id)

LEMMA LockStepTypes ==
  ASSUME LocksOK, NEW t \in Threads, NEW k \in Keys, NEW id \in Requests \cup Threads,
         LockStep(t, k, id)
  PROVE  LocksOK'
<1>1. Node(t) \in Nodes
  BY ThreadKinds
<1>2. CASE UNCHANGED lockVars
  BY <1>2 DEF LocksOK, lockVars
<1>3. CASE RLock(Node(t), t) \/ RUnlock(Node(t), t)
  <2>1. \/ readers' = [readers EXCEPT ![Node(t)] = @ \cup {t}]
        \/ readers' = [readers EXCEPT ![Node(t)] = @ \ {t}]
    BY <1>3 DEF RLock, RUnlock
  <2>2. readers[Node(t)] \subseteq Threads
    BY <1>1 DEF LocksOK
  <2>3. readers[Node(t)] \cup {t} \subseteq Threads /\ readers[Node(t)] \ {t} \subseteq Threads
    BY <2>2
  <2>4. readers \in [Nodes -> SUBSET Threads]
    BY DEF LocksOK
  <2>5. readers' \in [Nodes -> SUBSET Threads]
    BY <1>1, <2>1, <2>3, <2>4
  <2>6. QED BY <1>3, <2>5 DEF LocksOK, RLock, RUnlock
<1>4. CASE LockGet(Node(t), t, k) \/ UnlockGet(Node(t), t, k, id)
  <2>1. /\ lockMutex' = [lockMutex EXCEPT ![Node(t)] = t]
        /\ UNCHANGED <<lockCell, pendingLocks, readers>>
    BY <1>4 DEF LockGet, UnlockGet
  <2>2. lockMutex' \in [Nodes -> Threads \cup {None}]
    BY <1>1, <2>1 DEF LocksOK
  <2>3. QED BY <2>1, <2>2 DEF LocksOK
<1>5. CASE LockPut(Node(t), t, k, id)
  BY <1>1, <1>5 DEF LocksOK, LockPut
<1>6. CASE LockPutError(Node(t), t, k, id)
  <2>1. PICK p \in PutValue(lockCell[k], id) : lockCell' = [lockCell EXCEPT ![k] = p.value]
    BY <1>6 DEF LockPutError
  <2>2. p.value \in Requests \cup {None} \cup Threads
    BY DHTTypes DEF LocksOK
  <2>3. QED BY <1>1, <1>6, <2>1, <2>2 DEF LocksOK, LockPutError
<1>7. CASE UnlockPut(Node(t), t, k, id)
  <2>1. PICK p \in PutValue(lockCell[k], None) : lockCell' = [lockCell EXCEPT ![k] = p.value]
    BY <1>7 DEF UnlockPut
  <2>2. p.value \in Requests \cup {None} \cup Threads
    BY DHTTypes DEF LocksOK
  <2>3. QED BY <1>1, <1>7, <2>1, <2>2 DEF LocksOK, UnlockPut
<1>8. QED BY <1>2, <1>3, <1>4, <1>5, <1>6, <1>7 DEF LockStep

\* Which operation it is: on the domain of the record in hand, or on the index.
LEMMA LockFrame ==
  ASSUME NEW t, Step(t)
  PROVE  \/ UNCHANGED lockVars
         \/ RLock(Node(t), t) \/ RUnlock(Node(t), t)
         \/ LockDomain(t) /\ LockGet(Node(t), t, th[t].dom)
         \/ LockDomainPut(t) /\ ( \/ LockPut(Node(t), t, th[t].dom, t[2])
                                  \/ LockPutError(Node(t), t, th[t].dom, t[2]))
         \/ LockIndex(t) /\ LockGet(Node(t), t, indexKey)
         \/ LockIndexPut(t) /\ ( \/ LockPut(Node(t), t, indexKey, t)
                                 \/ LockPutError(Node(t), t, indexKey, t))
         \/ ReleaseDomain(t) /\ UnlockGet(Node(t), t, th[t].dom, th[t].rec.req)
         \/ ReleaseDomainPut(t) /\ UnlockPut(Node(t), t, th[t].dom, th[t].rec.req)
         \/ ReleaseIndex(t) /\ UnlockGet(Node(t), t, indexKey, t)
         \/ ReleaseIndexPut(t) /\ UnlockPut(Node(t), t, indexKey, t)
         \/ PanicInVote(t)
<1>1. CASE \/ AddBinding(t) \/ GetByNamehash(t) \/ GetLocal(t) \/ GetPendingRecord(t)
           \/ GetLatestRecord(t) \/ SaveRecordDHT(t) \/ SaveRecordLocal(t) \/ SaveNamehash(t)
           \/ SaveNamehashLocal(t)
  <2>1. UNCHANGED lockVars \/ RLock(Node(t), t) \/ RUnlock(Node(t), t)
    BY <1>1 DEF AddBinding, GetByNamehash, GetLocal, GetPendingRecord, GetLatestRecord,
       SaveRecordDHT, SaveRecordLocal, SaveNamehash, SaveNamehashLocal, UnlockAfterGet
  <2>2. QED BY <2>1
<1>2. CASE LockDomain(t) \/ LockDomainPut(t) \/ LockIndex(t) \/ LockIndexPut(t)
  BY <1>2 DEF LockDomain, LockDomainPut, LockIndex, LockIndexPut, LockBusy
<1>3. CASE ReleaseDomain(t) \/ ReleaseDomainPut(t) \/ ReleaseIndex(t) \/ ReleaseIndexPut(t)
  BY <1>3 DEF ReleaseDomain, ReleaseDomainPut, ReleaseIndex, ReleaseIndexPut, UnlockInvalid
<1>4. CASE \/ ValidateSignedTx(t) \/ SavePending(t) \/ FindPending(t) \/ ReadIndex(t)
           \/ WriteIndex(t) \/ ClearPending(t) \/ ReadVotes(t) \/ SaveVote(t) \/ Publish(t)
           \/ Tick(t) \/ Examine(t) \/ SubmitSignedTx(t) \/ SaveResult(t)
  <2>1. UNCHANGED lockVars
    BY <1>4 DEF ValidateSignedTx, SavePending, FindPending, ReadIndex, WriteIndex, ClearPending,
       ReadVotes, SaveVote, Publish, Tick, Examine, SubmitSignedTx, SaveResult
  <2>2. QED BY <2>1
<1>5. QED BY <1>1, <1>2, <1>3, <1>4 DEF Step

LEMMA StopLocks ==
  ASSUME LocksOK, NEW n \in Nodes, Stop(n)
  PROVE  LocksOK'
<1>1. [k \in Keys |-> None] \in [Keys -> Requests \cup {None} \cup Threads]
  OBVIOUS
<1>2. pendingLocks' \in [Nodes -> [Keys -> Requests \cup {None} \cup Threads]]
  BY <1>1 DEF LocksOK, Stop
<1>3. QED BY <1>2 DEF LocksOK, Stop

LEMMA StepLocks ==
  ASSUME TypeOK, NEW t \in Threads, Step(t)
  PROVE  LocksOK'
<1>1. LocksOK /\ ThreadOK(t, th[t]) /\ th[t] \in ThreadState /\ Node(t) \in Nodes
  BY TypeParts, ThreadFacts, ThreadKinds
<1>2. th[t].pc \in ReleasePcs \cup {"lock", "lockPut"} => th[t].dom \in Keys
  BY <1>1 DEF ThreadOK, Control, GetPcs, SavePcs, LockPcs, UnlockPcs, ReleasePcs
<1>3. th[t].pc = "lockPut" => t[2] \in Requests
  BY <1>1, ThreadKinds DEF ThreadOK, Control, GetPcs, SavePcs, LockPcs, UnlockPcs, ReleasePcs
<1>4. th[t].pc \in ReleasePcs => th[t].rec.req \in Requests
  BY <1>1 DEF ThreadOK, ThreadState, HasRecord, RecordOrNone, Records
<1>5. CASE PanicInVote(t)
  BY <1>1, <1>5, StopLocks DEF PanicInVote
<1>6. CASE LockDomain(t) /\ LockGet(Node(t), t, th[t].dom)
  <2>1. th[t].dom \in Keys
    BY <1>2, <1>6 DEF LockDomain, At
  <2>2. QED BY <1>1, <1>6, <2>1, LockStepTypes DEF LockStep
<1>7. CASE /\ LockDomainPut(t)
           /\ \/ LockPut(Node(t), t, th[t].dom, t[2]) \/ LockPutError(Node(t), t, th[t].dom, t[2])
  <2>1. th[t].dom \in Keys /\ t[2] \in Requests
    BY <1>2, <1>3, <1>7 DEF LockDomainPut, At
  <2>2. QED BY <1>1, <1>7, <2>1, LockStepTypes DEF LockStep
<1>8. CASE \/ ReleaseDomain(t) /\ UnlockGet(Node(t), t, th[t].dom, th[t].rec.req)
           \/ ReleaseDomainPut(t) /\ UnlockPut(Node(t), t, th[t].dom, th[t].rec.req)
  <2>1. th[t].dom \in Keys /\ th[t].rec.req \in Requests
    BY <1>2, <1>4, <1>8 DEF ReleaseDomain, ReleaseDomainPut, At, ReleasePcs
  <2>2. QED BY <1>1, <1>8, <2>1, LockStepTypes DEF LockStep
<1>9. CASE \/ UNCHANGED lockVars \/ RLock(Node(t), t) \/ RUnlock(Node(t), t)
           \/ LockGet(Node(t), t, indexKey)
           \/ LockPut(Node(t), t, indexKey, t) \/ LockPutError(Node(t), t, indexKey, t)
           \/ UnlockGet(Node(t), t, indexKey, t) \/ UnlockPut(Node(t), t, indexKey, t)
  BY <1>1, <1>9, LockStepTypes DEF LockStep
<1>10. QED BY <1>5, <1>6, <1>7, <1>8, <1>9, LockFrame

LEMMA StepDHT ==
  ASSUME TypeOK, NEW t \in Threads, Step(t)
  PROVE  DHTOK'
<1>1. /\ DHTOK /\ ThreadOK(t, th[t]) /\ th[t] \in ThreadState
      /\ th[t].op # "tick" => th[t].dom \in Domains
  BY TypeParts, ThreadFacts
<1>2. th[t].pc # "tick" => th[t].dom \in Domains
  BY <1>1 DEF ThreadOK, Control
<1>3. None \in RecordOrNone
  BY DEF RecordOrNone
<1>4. CASE UNCHANGED dhtVars
  BY <1>1, <1>4 DEF DHTOK, dhtVars
<1>5. CASE WriteIndex(t) /\ UNCHANGED <<pending, votes, record, nameMap>>
  <2> DEFINE new == IF th[t].op = "add" THEN th[t].idx \cup {th[t].dom}
                    ELSE th[t].idx \ {th[t].dom}
  <2>1. index' = index \/ \E p \in PutValue(index, new) : index' = p.value
    BY <1>5 DEF WriteIndex
  <2>2. new \subseteq Domains
    BY <1>1, <1>2, <1>5 DEF WriteIndex, At, ThreadState
  <2> HIDE DEF new
  <2>3. index' \subseteq Domains
    BY <1>1, <2>1, <2>2, DHTTypes DEF DHTOK
  <2>4. QED BY <1>1, <1>5, <2>3 DEF DHTOK
<1>6. CASE (SavePending(t) \/ ClearPending(t)) /\ UNCHANGED <<index, votes, record, nameMap>>
  <2>1. th[t].dom \in Domains
    BY <1>2, <1>6 DEF SavePending, ClearPending, At
  <2>2. PICK new \in {th[t].rec, None} :
          \E p \in PutValue(pending[th[t].dom], new) :
            pending' = [pending EXCEPT ![th[t].dom] = p.value]
    BY <1>6 DEF SavePending, ClearPending
  <2>3. PICK p \in PutValue(pending[th[t].dom], new) :
          pending' = [pending EXCEPT ![th[t].dom] = p.value]
    BY <2>2
  <2>4. new \in RecordOrNone
    BY <1>1, <1>3 DEF ThreadState
  <2>5. p.value \in RecordOrNone
    BY <1>1, <2>1, <2>4, DHTTypes DEF DHTOK
  <2>6. QED BY <1>1, <1>6, <2>1, <2>3, <2>5 DEF DHTOK
<1>7. CASE (SaveVote(t) \/ SaveResult(t)) /\ UNCHANGED <<index, pending, record, nameMap>>
  <2>1. th[t].dom \in Domains
    BY <1>2, <1>7 DEF SaveVote, SaveResult, At
  <2>2. PICK p \in PutValue(votes[th[t].dom], th[t].result) :
          votes' = [votes EXCEPT ![th[t].dom] = p.value]
    BY <1>7 DEF SaveVote, SaveResult
  <2>3. p.value \in ResultOrNone
    BY <1>1, <2>1, DHTTypes DEF DHTOK, ThreadState
  <2>4. QED BY <1>1, <1>7, <2>1, <2>2, <2>3 DEF DHTOK
<1>8. CASE SaveRecordDHT(t) /\ UNCHANGED <<index, pending, votes, nameMap>>
  <2>1. th[t].dom \in Domains
    BY <1>2, <1>8 DEF SaveRecordDHT, At
  <2>2. PICK p \in PutValue(record[th[t].dom], th[t].rec) :
          record' = [record EXCEPT ![th[t].dom] = p.value]
    BY <1>8 DEF SaveRecordDHT
  <2>3. p.value \in RecordOrNone
    BY <1>1, <2>1, DHTTypes DEF DHTOK, ThreadState
  <2>4. QED BY <1>1, <1>8, <2>1, <2>2, <2>3 DEF DHTOK
<1>9. CASE SaveNamehash(t) /\ UNCHANGED <<index, pending, votes, record>>
  <2>1. th[t].dom \in Domains
    BY <1>2, <1>9 DEF SaveNamehash, At
  <2>2. PICK p \in PutValue(nameMap, nameMap \cup {th[t].dom}) : nameMap' = p.value
    BY <1>9 DEF SaveNamehash
  <2>3. p.value \subseteq Domains
    BY <1>1, <2>1, DHTTypes DEF DHTOK
  <2>4. QED BY <1>1, <1>9, <2>2, <2>3 DEF DHTOK
<1>10. QED BY <1>4, <1>5, <1>6, <1>7, <1>8, <1>9, DHTFrame

LEMMA StopNodes ==
  ASSUME NodesOK, NEW n \in Nodes, Stop(n)
  PROVE  NodesOK'
  BY DEF NodesOK, Stop

LEMMA StepNodes ==
  ASSUME TypeOK, NEW t \in Threads, Step(t)
  PROVE  NodesOK' /\ ChainOK'
<1>1. /\ NodesOK /\ ChainOK /\ ThreadOK(t, th[t]) /\ th[t] \in ThreadState /\ Node(t) \in Nodes
      /\ th[t].op # "tick" => th[t].dom \in Domains
  BY TypeParts, ThreadFacts, ThreadKinds
<1>2. th[t].pc # "tick" => th[t].dom \in Domains
  BY <1>1 DEF ThreadOK, Control
<1>3. th[t].pc \in {"submit", "clear"} => th[t].rec.req \in Requests
  BY <1>1 DEF ThreadOK, ThreadState, HasRecord, RecordOrNone, Records
<1>4. NodesOK'
  <2>1. CASE UNCHANGED nodeVars
    BY <1>1, <2>1 DEF NodesOK, nodeVars
  <2>2. CASE SaveRecordLocal(t) /\ UNCHANGED <<dbNames, up>>
    <3>1. th[t].dom \in Domains /\ th[t].rec \in RecordOrNone
      BY <1>1, <1>2, <2>2 DEF SaveRecordLocal, At, ThreadState
    <3>2. db' = [db EXCEPT ![Node(t)][th[t].dom] = th[t].rec]
      BY <2>2 DEF SaveRecordLocal
    <3>3. db' \in [Nodes -> [Domains -> RecordOrNone]]
      BY <1>1, <3>1, <3>2 DEF NodesOK
    <3>4. QED BY <1>1, <2>2, <3>3 DEF NodesOK
  <2>3. CASE SaveNamehashLocal(t) /\ UNCHANGED <<db, up>>
    <3>1. th[t].dom \in Domains
      BY <1>2, <2>3 DEF SaveNamehashLocal, At
    <3>2. dbNames' = [dbNames EXCEPT ![Node(t)] = @ \cup {th[t].dom}]
      BY <2>3 DEF SaveNamehashLocal
    <3>3. dbNames' \in [Nodes -> SUBSET Domains]
      <4>1. dbNames \in [Nodes -> SUBSET Domains] /\ dbNames[Node(t)] \subseteq Domains
        BY <1>1 DEF NodesOK
      <4>2. dbNames[Node(t)] \cup {th[t].dom} \subseteq Domains
        BY <3>1, <4>1
      <4>3. QED BY <1>1, <3>2, <4>1, <4>2
    <3>4. QED BY <1>1, <2>3, <3>3 DEF NodesOK
  <2>4. CASE PanicInVote(t)
    BY <1>1, <2>4, StopNodes DEF PanicInVote
  <2>5. QED BY <2>1, <2>2, <2>3, <2>4, NodeFrame
<1>5. /\ mined' \subseteq Requests /\ lapsed' \subseteq mined' \cap MayLapse
      /\ sent' \subseteq (IF "submit" \in Faults THEN Requests ELSE {})
  <2>1. CASE SubmitSignedTx(t)
    <3>1. mined' = mined \/ mined' = mined \cup {th[t].rec.req}
      BY <2>1 DEF SubmitSignedTx
    <3>2. sent' = sent \/ ("submit" \in Faults /\ sent' = sent \cup {th[t].rec.req})
      BY <2>1 DEF SubmitSignedTx
    <3>3. th[t].rec.req \in Requests
      BY <1>3, <2>1 DEF SubmitSignedTx, At
    <3>4. QED BY <1>1, <3>1, <3>2, <3>3, ChainFrame DEF ChainOK
  <2>2. QED BY <1>1, <2>1, ChainFrame DEF ChainOK
<1>6. rejected' \subseteq Requests
  <2>1. CASE ClearPending(t)
    <3>1. rejected' = rejected \/ rejected' = rejected \cup {th[t].rec.req}
      BY <2>1 DEF ClearPending
    <3>2. th[t].rec.req \in Requests
      BY <1>3, <2>1 DEF ClearPending, At
    <3>3. QED BY <1>1, <3>1, <3>2 DEF ChainOK
  <2>2. QED BY <1>1, <2>1, ChainFrame DEF ChainOK
<1>7. QED BY <1>4, <1>5, <1>6 DEF ChainOK

-----------------------------------------------------------------------------
(* Types and control *)

LEMMA Moved ==
  ASSUME ThreadsOK, NEW t \in Threads, NEW s, Become(t, s)
  PROVE  th'[t] = s /\ \A u \in Threads \ {t} : th'[u] = th[u]
  BY DEF Become, ThreadsOK

LEMMA StepThreads ==
  ASSUME TypeOK, StartedByAdd, NEW t \in Threads, Step(t)
  PROVE  ThreadsOK'
<1>1. Node(t) \in Nodes
  BY ThreadKinds
<1>2. CASE PanicInVote(t)
  BY <1>1, <1>2, StopThreads DEF PanicInVote
<1>3. QED BY <1>2, GetThreads, AddThreads, IndexThreads, WriteIndexThreads, ReleaseThreads,
             ReadVotesThreads, VoteThreads, DecideThreads DEF Step

\* A thread that has not been started, or has returned, takes no step.
LEMMA Active ==
  ASSUME NEW t, Step(t)
  PROVE  th[t].pc \notin {"off", "done", "refused", "dead"}
  BY DEF Step, At, AddBinding, GetByNamehash, GetLocal, GetPendingRecord, GetLatestRecord,
     SaveRecordDHT, SaveRecordLocal, SaveNamehash, SaveNamehashLocal, ValidateSignedTx,
     LockDomain, LockDomainPut, SavePending, FindPending, LockIndex, LockIndexPut, ReadIndex,
     WriteIndex, ClearPending, ReleaseDomain, ReleaseDomainPut, ReleaseIndex, ReleaseIndexPut,
     ReadVotes, PanicInVote, SaveVote, Publish, Tick, Examine, SubmitSignedTx, SaveResult

LEMMA StepStarted ==
  ASSUME TypeOK, StartedByAdd, NEW t \in Threads, Step(t)
  PROVE  StartedByAdd'
<1>1. ThreadsOK /\ th[t].pc \notin {"off", "done"} /\ Node(t) \in Nodes
  BY TypeParts, Active, ThreadKinds
<1>2. CASE \E s : Become(t, s)
  <2>1. \A u \in Threads \ {t} : th'[u] = th[u]
    BY <1>1, <1>2, Moved
  <2> SUFFICES ASSUME NEW u \in Threads, u[1] \in {"vote", "publish"}, th'[u].pc # "off"
               PROVE  th'[<<"register", u[2]>>].pc = "done"
    BY DEF StartedByAdd
  <2>2. th[u].pc # "off"
    BY <1>1, <2>1
  <2>3. th[<<"register", u[2]>>].pc = "done" /\ u[2] \in Requests
    BY <2>2, ThreadKinds DEF StartedByAdd
  <2>4. <<"register", u[2]>> \in Threads \ {t}
    BY <1>1, <2>3, RegisterThread
  <2>5. QED BY <2>1, <2>3, <2>4
<1>3. CASE PanicInVote(t)
  BY <1>1, <1>3, StopThreads DEF PanicInVote
<1>4. CASE (ReleaseIndex(t) \/ ReleaseIndexPut(t)) /\ AfterReleaseIndex(t) /\ th[t].op = "add" /\ th[t].ok
  <2>1. th[t].pc \in UnlockPcs
    BY <1>4 DEF ReleaseIndex, ReleaseIndexPut, At, UnlockPcs
  <2>2. QED BY <1>4, <2>1, StartsThreads DEF AfterReleaseIndex
<1>5. QED BY <1>1, <1>2, <1>3, <1>4, ThreadFrame

LEMMA TypesKept ==
  ASSUME TypeOK, StartedByAdd, [Next]_vars
  PROVE  TypeOK' /\ StartedByAdd'
<1>0. LocksOK' /\ DHTOK' /\ NodesOK' /\ ChainOK' /\ ThreadsOK' => TypeOK'
  BY DEF TypeOK, LocksOK, DHTOK, NodesOK, ChainOK, ThreadsOK
<1>1. ASSUME NEW t \in Threads, Step(t)
      PROVE  TypeOK' /\ StartedByAdd'
  BY <1>0, <1>1, StepLocks, StepDHT, StepNodes, StepThreads, StepStarted
<1>2. ASSUME NEW n \in Nodes, Crash(n)
      PROVE  TypeOK' /\ StartedByAdd'
  <2>1. Stop(n)
    BY <1>2 DEF Crash
  <2>2. DHTOK' /\ ChainOK'
    BY <2>1, TypeParts DEF Stop, dhtVars, chainVars, DHTOK, ChainOK
  <2>3. QED BY <1>0, <2>1, <2>2, StopLocks, StopNodes, StopThreads, TypeParts
<1>3. ASSUME NEW n \in Nodes, Restart(n)
      PROVE  TypeOK' /\ StartedByAdd'
  BY <1>3 DEF Restart, TypeOK, StartedByAdd, lockVars, dhtVars, chainVars
<1>4. ASSUME NEW r \in Requests, Mine(r) \/ Lapse(r)
      PROVE  TypeOK' /\ StartedByAdd'
  <2>1. ChainOK'
    BY <1>4, TypeParts DEF ChainOK, Mine, Lapse
  <2>2. QED BY <1>0, <1>4, <2>1, ChainSteps, TypeParts
          DEF LocksOK, DHTOK, NodesOK, ThreadsOK, StartedByAdd, lockVars, dhtVars, nodeVars
<1>5. ASSUME UNCHANGED vars
      PROVE  TypeOK' /\ StartedByAdd'
  BY <1>5 DEF vars, lockVars, dhtVars, nodeVars, chainVars, TypeOK, StartedByAdd
<1>6. QED BY <1>1, <1>2, <1>3, <1>4, <1>5 DEF Next, Runs

LEMMA InitTypes ==
  ASSUME Init
  PROVE  TypeOK /\ StartedByAdd
<1>1. \A t \in Threads : th[t] = Idle(t) /\ ThreadOK(t, th[t]) /\ th[t] \in ThreadState
  BY IdleOK DEF Init, ThreadOK
<1>2. ThreadsOK
  <2>1. th \in [Threads -> ThreadState]
    BY <1>1 DEF Init
  <2>2. QED BY <1>1, <2>1 DEF ThreadsOK
<1>3. StartedByAdd
  <2>1. ASSUME NEW t \in Threads, t[1] \in {"vote", "publish"}
        PROVE  Idle(t).pc = "off"
    BY <2>1 DEF Idle
  <2>2. QED BY <1>1, <2>1 DEF StartedByAdd
<1>4. LocksOK /\ DHTOK /\ NodesOK /\ ChainOK
  <2>1. [k \in Keys |-> None] \in [Keys -> Requests \cup {None} \cup Threads]
    OBVIOUS
  <2>2. LocksOK
    BY <2>1 DEF Init, LockInit, LocksOK
  <2>3. [d \in Domains |-> None] \in [Domains -> RecordOrNone]
    BY DEF RecordOrNone
  <2>4. [d \in Domains |-> None] \in [Domains -> ResultOrNone]
    BY DEF ResultOrNone
  <2>5. DHTOK /\ ChainOK
    BY <2>3, <2>4 DEF Init, DHTOK, ChainOK
  <2>6. db \in [Nodes -> [Domains -> RecordOrNone]]
    BY <2>3 DEF Init
  <2>7. NodesOK
    BY <2>6 DEF Init, NodesOK
  <2>8. QED BY <2>2, <2>5, <2>7
<1>5. QED BY <1>2, <1>3, <1>4, TypeParts

\* Whatever fails and whoever crashes, every thread is where its kind and the
\* function it is in allow, with the values that this function needs: a release has
\* a record in hand whose lock id it can compare, no retry loop counts beyond
\* maxAttempts, and the DHT, the databases and the locks hold values of their types.
THEOREM RegistrationTypes == Spec => [](TypeOK /\ StartedByAdd)
<1>1. Init => TypeOK /\ StartedByAdd
  BY InitTypes
<1>2. TypeOK /\ StartedByAdd /\ [Next]_vars => (TypeOK /\ StartedByAdd)'
  BY TypesKept
<1>3. QED BY <1>1, <1>2, PTL DEF Spec
=============================================================================
