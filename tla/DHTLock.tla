------------------------------ MODULE DHTLock ------------------------------
(***************************************************************************)
(* The lock cells that nodes keep in the DHT under "/altica/locks" and the *)
(* operations of RecordStore (core/store.go) on them.  TryAcquireLock and  *)
(* ReleaseLock are read-then-write: each is two steps, with the node's own *)
(* lockMutex held in between.  The mutex is local to a node, the cells are *)
(* shared by all nodes.                                                    *)
(*                                                                         *)
(* This module offers actions on its own variables.  A module that EXTENDS *)
(* it conjoins them with the program counters of the callers.              *)
(***************************************************************************)
EXTENDS Naturals, FiniteSets

CONSTANTS Nodes,    \* the peers that run a RecordStore
          Keys,     \* the names that can be locked (domains and "_index")
          None,     \* an absent value: no such key, or the empty byte string
          Faults    \* which DHT operations may fail: a subset of FaultKinds

VARIABLES lockCell,     \* DHT: key -> lock id
          pendingLocks, \* node -> key -> lock id (RecordStore.pendingLocks)
          lockMutex,    \* node -> the thread that write-holds lockMutex
          readers       \* node -> the threads that read-hold lockMutex

lockVars == <<lockCell, pendingLocks, lockMutex, readers>>

FaultKinds == {"get", "put", "publish", "submit"}

ASSUME FaultsAssumption == Faults \subseteq FaultKinds

(***************************************************************************)
(* The DHT.  A read returns the stored value, or fails; callers that do    *)
(* not look at the error see the absent value.  A write stores its value,  *)
(* or reports an error after having stored it or not.                      *)
(***************************************************************************)
GetValue(stored) ==
  {stored} \cup IF "get" \in Faults THEN {None} ELSE {}

PutValue(stored, new) ==
  {[ok |-> TRUE, value |-> new]}
    \cup IF "put" \in Faults
           THEN {[ok |-> FALSE, value |-> v] : v \in {stored, new}} ELSE {}

LockInit ==
  /\ lockCell = [k \in Keys |-> None]
  /\ pendingLocks = [n \in Nodes |-> [k \in Keys |-> None]]
  /\ lockMutex = [n \in Nodes |-> None]
  /\ readers = [n \in Nodes |-> {}]

-----------------------------------------------------------------------------
(* lockMutex, a sync.RWMutex *)

MutexFree(n) == lockMutex[n] = None /\ readers[n] = {}

RLock(n, t) ==
  /\ lockMutex[n] = None
  /\ readers' = [readers EXCEPT ![n] = @ \cup {t}]
  /\ UNCHANGED <<lockCell, pendingLocks, lockMutex>>

RUnlock(n, t) ==
  /\ readers' = [readers EXCEPT ![n] = @ \ {t}]
  /\ UNCHANGED <<lockCell, pendingLocks, lockMutex>>

-----------------------------------------------------------------------------
(* TryAcquireLock(k) by thread t of node n *)

\* The key is already locked: return false.
LockBusy(n, k) ==
  /\ MutexFree(n)
  /\ lockCell[k] # None
  /\ UNCHANGED lockVars

\* (A bug: the value that was read is not looked at.)
LockGetBlind(n, t, k) ==
  /\ MutexFree(n)
  /\ lockMutex' = [lockMutex EXCEPT ![n] = t]
  /\ UNCHANGED <<lockCell, pendingLocks, readers>>

\* The read finds no lock, or fails: go on to the write, mutex held.
LockGet(n, t, k) ==
  /\ MutexFree(n)
  /\ None \in GetValue(lockCell[k])
  /\ lockMutex' = [lockMutex EXCEPT ![n] = t]
  /\ UNCHANGED <<lockCell, pendingLocks, readers>>

\* (A bug: the key is stored for the lock id.)
LockPutSwapped(n, t, k, id) ==
  /\ lockMutex[n] = t
  /\ lockCell' = [lockCell EXCEPT ![k] = k]
  /\ pendingLocks' = [pendingLocks EXCEPT ![n][k] = k]
  /\ lockMutex' = [lockMutex EXCEPT ![n] = None]
  /\ UNCHANGED readers

\* The write of the lock id succeeds: the caller has the lock.
LockPut(n, t, k, id) ==
  /\ lockMutex[n] = t
  /\ lockCell' = [lockCell EXCEPT ![k] = id]
  /\ pendingLocks' = [pendingLocks EXCEPT ![n][k] = id]
  /\ lockMutex' = [lockMutex EXCEPT ![n] = None]
  /\ UNCHANGED readers

\* The write reports an error: return false, whether it was stored or not.
LockPutError(n, t, k, id) ==
  /\ lockMutex[n] = t
  /\ \E p \in PutValue(lockCell[k], id) :
       ~p.ok /\ lockCell' = [lockCell EXCEPT ![k] = p.value]
  /\ lockMutex' = [lockMutex EXCEPT ![n] = None]
  /\ UNCHANGED <<pendingLocks, readers>>

-----------------------------------------------------------------------------
(* ReleaseLock(k, id) by thread t of node n *)

\* IsLockValid(k, id): the cell is read and holds the id.
UnlockGet(n, t, k, id) ==
  /\ MutexFree(n)
  /\ id \in GetValue(lockCell[k])
  /\ lockMutex' = [lockMutex EXCEPT ![n] = t]
  /\ UNCHANGED <<lockCell, pendingLocks, readers>>

\* Not our lock, or the read fails: return false, nothing changes.
UnlockInvalid(n, k, id) ==
  /\ MutexFree(n)
  /\ \E v \in GetValue(lockCell[k]) : v # id
  /\ UNCHANGED lockVars

\* (A bug: the mutex is left locked when the call returns.)
UnlockPutKeepsMutex(n, t, k, id) ==
  /\ lockMutex[n] = t
  /\ lockCell' = [lockCell EXCEPT ![k] = None]
  /\ pendingLocks' = [pendingLocks EXCEPT ![n][k] = None]
  /\ UNCHANGED <<lockMutex, readers>>

\* Empty the cell (an error is ignored) and forget the local copy if it is ours.
UnlockPut(n, t, k, id) ==
  /\ lockMutex[n] = t
  /\ \E p \in PutValue(lockCell[k], None) :
       lockCell' = [lockCell EXCEPT ![k] = p.value]
  /\ pendingLocks' = [pendingLocks EXCEPT ![n][k] = IF @ = id THEN None ELSE @]
  /\ lockMutex' = [lockMutex EXCEPT ![n] = None]
  /\ UNCHANGED readers
=============================================================================
