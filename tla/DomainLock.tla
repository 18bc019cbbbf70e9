----------------------------- MODULE DomainLock -----------------------------
(***************************************************************************)
(* Sessions of the DHT lock: one session takes the lock of one key with    *)
(* TryAcquireLock and gives it back with ReleaseLock.  The release may run *)
(* on another node than the acquisition: the lock a registration takes on  *)
(* the node that received it is released by ConfirmRecord or RejectRecord  *)
(* on the node that decides (RecordStore.ReleaseLock is given the LockID   *)
(* stored in the pending record).                                          *)
(***************************************************************************)
EXTENDS DHTLock

CONSTANTS Sessions,  \* attempts to take a lock; a session is its lock id
          KeyOf,     \* session -> the key it wants
          Home,      \* session -> the node that runs TryAcquireLock
          Releaser,  \* session -> the node that runs ReleaseLock
          Crashes    \* the nodes that may crash

ASSUME SessionsAssumption ==
  /\ None \notin Sessions
  /\ KeyOf \in [Sessions -> Keys]
  /\ Home \in [Sessions -> Nodes]
  /\ Releaser \in [Sessions -> Nodes]
  /\ Crashes \subseteq Nodes

VARIABLE pc  \* session -> where it is

vars == <<lockVars, pc>>

Steps == {"idle",     \* not started
          "put",      \* the cell was read as free, lockMutex of Home held
          "holding",  \* TryAcquireLock returned true
          "clear",    \* ReleaseLock checked the id, lockMutex of Releaser held
          "released", \* ReleaseLock returned
          "failed",   \* TryAcquireLock returned false
          "dead"}     \* the node running it crashed

Goto(s, from, to) == pc[s] = from /\ pc' = [pc EXCEPT ![s] = to]

Init == LockInit /\ pc = [s \in Sessions |-> "idle"]

TryAcquireLock(s) ==
  \/ Goto(s, "idle", "failed") /\ LockBusy(Home[s], KeyOf[s])
  \/ Goto(s, "idle", "put") /\ LockGet(Home[s], s, KeyOf[s])

PutLock(s) ==
  \/ Goto(s, "put", "holding") /\ LockPut(Home[s], s, KeyOf[s], s)
  \/ Goto(s, "put", "failed") /\ LockPutError(Home[s], s, KeyOf[s], s)

ReleaseLock(s) ==
  \/ Goto(s, "holding", "released") /\ UnlockInvalid(Releaser[s], KeyOf[s], s)
  \/ Goto(s, "holding", "clear") /\ UnlockGet(Releaser[s], s, KeyOf[s], s)

ClearLock(s) ==
  Goto(s, "clear", "released") /\ UnlockPut(Releaser[s], s, KeyOf[s], s)

\* The node that runs the session's current call, if one is running.
RunsAt(s) == IF pc[s] = "put" THEN Home[s] ELSE Releaser[s]

\* The cells after the write that node n may be in the middle of.
CellsAfterWrite(n) ==
  LET s == lockMutex[n]
  IN [lockCell EXCEPT ![KeyOf[s]] = IF pc[s] = "put" THEN s ELSE None]

\* A crash stops the calls the node is running, with the write in progress
\* stored or not, and loses its memory; the DHT keeps the cells.  The node comes
\* back with an empty RecordStore (NewRecordStore).
Crash(n) ==
  /\ n \in Crashes
  /\ pc' = [s \in Sessions |->
              IF pc[s] \in {"put", "holding", "clear"} /\ RunsAt(s) = n
                THEN "dead" ELSE pc[s]]
  /\ pc' # pc
  /\ \/ UNCHANGED lockCell
     \/ lockMutex[n] # None /\ lockCell' = CellsAfterWrite(n)
  /\ lockMutex' = [lockMutex EXCEPT ![n] = None]
  /\ pendingLocks' = [pendingLocks EXCEPT ![n] = [k \in Keys |-> None]]
  /\ UNCHANGED readers

Step(s) == TryAcquireLock(s) \/ PutLock(s) \/ ReleaseLock(s) \/ ClearLock(s)

Next == (\E s \in Sessions : Step(s)) \/ (\E n \in Nodes : Crash(n))

Spec == Init /\ [][Next]_vars

\* The Go scheduler runs every goroutine that can run, and sync.RWMutex does
\* not starve a waiter.
FairSpec == Spec /\ \A s \in Sessions : WF_vars(Step(s))

-----------------------------------------------------------------------------
TypeOK ==
  /\ lockCell \in [Keys -> Sessions \cup {None}]
  /\ pendingLocks \in [Nodes -> [Keys -> Sessions \cup {None}]]
  /\ lockMutex \in [Nodes -> Sessions \cup {None}]
  /\ readers = [n \in Nodes |-> {}]
  /\ pc \in [Sessions -> Steps]

\* The sessions that TryAcquireLock told that they have the lock of k.
Holders(k) == {s \in Sessions : KeyOf[s] = k /\ pc[s] \in {"holding", "clear"}}

Exclusive(k) == \A s1, s2 \in Holders(k) : s1 = s2

\* A key is local if all the sessions that contend for it run TryAcquireLock on
\* the same node, and so under the same lockMutex; they may release elsewhere.
LocalKeys ==
  {k \in Keys : \A s1, s2 \in Sessions :
                  KeyOf[s1] = k /\ KeyOf[s2] = k => Home[s1] = Home[s2]}

LocalSessions == {s \in Sessions : KeyOf[s] \in LocalKeys}

\* What the comment of TryAcquireLock claims ("a distributed lock for a domain
\* using DHT"): two sessions never both believe that they hold the same key.
LockExclusion == \A k \in Keys : Exclusive(k)

\* What the code gives: TryAcquireLock and ReleaseLock, each a read and a write
\* of the cell, exclude each other on the keys that only one node contends for,
\* through lost writes, crashes and releases that run on other nodes.
LocalExclusion == \A k \in LocalKeys : Exclusive(k)

\* On those keys the cells of the DHT implement the abstract lock: no
\* TryAcquireLock takes a held key over (not even from a session that died
\* holding it) and no ReleaseLock empties the cell of another session.
Abstract ==
  INSTANCE AbstractLock WITH Keys <- LocalKeys, Sessions <- LocalSessions,
                             owner <- [k \in LocalKeys |-> lockCell[k]]
ImplementsLock == Abstract!Spec

\* Every call of TryAcquireLock and ReleaseLock that took lockMutex returns, and
\* a session that is to release its lock gets the mutex to do so, whichever
\* write fails and whichever node crashes inside its critical section.
CallsReturn ==
  \A s \in Sessions :
    pc[s] \in {"put", "holding", "clear"} ~> pc[s] \in {"released", "failed", "dead"}

-----------------------------------------------------------------------------
(* The inductive invariant behind LocalExclusion and ImplementsLock *)

\* lockMutex is held exactly by the call that is between its read and its write.
MutexOfCall ==
  \A s \in Sessions :
    /\ pc[s] = "put" => lockMutex[Home[s]] = s
    /\ pc[s] = "clear" => lockMutex[Releaser[s]] = s

CallOfMutex ==
  \A n \in Nodes : lockMutex[n] # None =>
    /\ pc[lockMutex[n]] \in {"put", "clear"}
    /\ RunsAt(lockMutex[n]) = n

\* What a call has read of a local key is still true when it writes.
CellOfCall ==
  \A s \in LocalSessions :
    /\ pc[s] = "put" => lockCell[KeyOf[s]] = None
    /\ pc[s] \in {"holding", "clear"} => lockCell[KeyOf[s]] = s

LockInvariant == TypeOK /\ MutexOfCall /\ CallOfMutex /\ CellOfCall
=============================================================================
