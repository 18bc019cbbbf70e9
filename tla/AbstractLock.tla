---------------------------- MODULE AbstractLock ----------------------------
(***************************************************************************)
(* What "a distributed lock for a domain" (core/store.go, TryAcquireLock)  *)
(* promises: a key has at most one owner; it is taken only when it is free *)
(* and becomes free only when the session that owns it gives it up.        *)
(***************************************************************************)
CONSTANTS Keys,      \* what can be locked
          Sessions,  \* the attempts to take a lock
          KeyOf,     \* session -> the key it wants
          None

VARIABLE owner       \* key -> the session that owns it, or None

Init == owner = [k \in Keys |-> None]

Acquire(s) ==
  /\ owner[KeyOf[s]] = None
  /\ owner' = [owner EXCEPT ![KeyOf[s]] = s]

Release(s) ==
  /\ owner[KeyOf[s]] = s
  /\ owner' = [owner EXCEPT ![KeyOf[s]] = None]

Next == \E s \in Sessions : Acquire(s) \/ Release(s)

Spec == Init /\ [][Next]_owner
=============================================================================
