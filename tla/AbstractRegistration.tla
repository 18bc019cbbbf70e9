------------------------ MODULE AbstractRegistration ------------------------
(***************************************************************************)
(* What the registration of a name promises its users: first come, first   *)
(* served.  The first request that is pending for a domain is the one      *)
(* whose transaction is executed on the chain, and the request that was    *)
(* executed is the one that is confirmed, once and for good.  (That is     *)
(* what rpc/records.go, domain_register, and core/store.go, Add and        *)
(* ConfirmRecord, are to give between them.)                               *)
(***************************************************************************)
CONSTANTS Domains,
          Requests,
          DomainOf,  \* request -> the domain it is about
          None

VARIABLES first,     \* domain -> the request that came first
          executed,  \* domain -> the request the chain has executed
          confirmed  \* domain -> the request that is its record

Init ==
  /\ first = [d \in Domains |-> None]
  /\ executed = [d \in Domains |-> None]
  /\ confirmed = [d \in Domains |-> None]

Enter(r) ==
  /\ first[DomainOf[r]] = None
  /\ first' = [first EXCEPT ![DomainOf[r]] = r]
  /\ UNCHANGED <<executed, confirmed>>

Execute(d) ==
  /\ first[d] # None /\ executed[d] = None
  /\ executed' = [executed EXCEPT ![d] = first[d]]
  /\ UNCHANGED <<first, confirmed>>

Confirm(d) ==
  /\ executed[d] # None /\ confirmed[d] = None
  /\ confirmed' = [confirmed EXCEPT ![d] = executed[d]]
  /\ UNCHANGED <<first, executed>>

Next ==
  \/ \E r \in Requests : Enter(r)
  \/ \E d \in Domains : Execute(d) \/ Confirm(d)

Spec == Init /\ [][Next]_<<first, executed, confirmed>>
=============================================================================
