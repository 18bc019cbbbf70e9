--------------------------- MODULE AlticaRegistry ---------------------------
(***************************************************************************)
(* The contract contracts/evm/contracts/src/AlticaRegistry.sol: bindings   *)
(* of name hashes to resolvers, submitted by anybody with a signature and  *)
(* decided by the contract's owner, the oracle node.  A call that reverts  *)
(* changes nothing and is not a step.  The ether a call carries is left    *)
(* out.                                                                    *)
(***************************************************************************)
EXTENDS Integers

CONSTANTS Names,          \* name hashes
          Addresses,      \* accounts and resolvers
          zero,           \* address(0)
          MAX_TIME_DRIFT, \* how late a signed message may be executed
          Expiries,       \* the expiry times that messages carry
          MaxTime         \* bound of the clock

ASSUME RegistryAssumption ==
  /\ zero \notin Addresses
  /\ MAX_TIME_DRIFT \in Nat
  /\ Expiries \subseteq Nat
  /\ MaxTime \in Nat \ {0}

VARIABLES bindings,       \* name -> Binding
          bindingSigner,  \* name -> the signer the oracle has accepted
          now             \* block.timestamp

vars == <<bindings, bindingSigner, now>>

AddressOrZero == Addresses \cup {zero}

Binding == [resolver : AddressOrZero, expiresAt : Nat, signer : AddressOrZero,
            status : {"pending", "active"}]

\* What the mapping holds for a name without a binding: all fields zero.
Unbound == [resolver |-> zero, expiresAt |-> 0, signer |-> zero, status |-> "pending"]

Init ==
  /\ bindings = [x \in Names |-> Unbound]
  /\ bindingSigner = [x \in Names |-> zero]
  /\ now = 1

\* (A bug: a binding may be replaced before it expires.)
SubmitBindingAlways(x, resolver, expiresAt, timestamp, signer) ==
  /\ now <= timestamp + MAX_TIME_DRIFT
  /\ bindings' = [bindings EXCEPT ![x] =
       [resolver |-> resolver, expiresAt |-> expiresAt, signer |-> signer,
        status |-> "pending"]]
  /\ UNCHANGED <<bindingSigner, now>>

\* Anybody submits a message; signer is who the signature recovers to.
SubmitBinding(x, resolver, expiresAt, timestamp, signer) ==
  /\ now <= timestamp + MAX_TIME_DRIFT
  /\ now > bindings[x].expiresAt
  /\ bindings' = [bindings EXCEPT ![x] =
       [resolver |-> resolver, expiresAt |-> expiresAt, signer |-> signer,
        status |-> "pending"]]
  /\ UNCHANGED <<bindingSigner, now>>

updateResolver(x, resolver, sender) ==
  /\ bindingSigner[x] = sender
  /\ bindings[x].status = "active"
  /\ bindings[x].expiresAt > now
  /\ bindings' = [bindings EXCEPT ![x].resolver = resolver]
  /\ UNCHANGED <<bindingSigner, now>>

\* (A bug: only the signer is removed.)
oracleUnbindSigner(x) ==
  /\ bindings[x].expiresAt < now
  /\ bindingSigner' = [bindingSigner EXCEPT ![x] = zero]
  /\ UNCHANGED <<bindings, now>>

\* The owner removes a binding that has expired; nothing happens otherwise.
oracleUnbind(x) ==
  /\ bindings[x].expiresAt < now
  /\ bindings' = [bindings EXCEPT ![x] = Unbound]
  /\ bindingSigner' = [bindingSigner EXCEPT ![x] = zero]
  /\ UNCHANGED now

\* The owner rejects: the binding goes, an accepted signer stays.
rejectSigner(x) ==
  /\ bindings' = [bindings EXCEPT ![x] = Unbound]
  /\ UNCHANGED <<bindingSigner, now>>

\* (A bug: the binding is finalized whoever submitted it.)
acceptAnySigner(x, signer) ==
  /\ bindingSigner[x] = zero
  /\ bindingSigner' = [bindingSigner EXCEPT ![x] = signer]
  /\ signer # zero
  /\ bindings[x].status = "pending"
  /\ bindings[x].expiresAt > now
  /\ bindings' = [bindings EXCEPT ![x].status = "active"]
  /\ UNCHANGED now

\* What oracleDecideSigner and finalizeBinding require; otherwise they revert.
CanAccept(x, signer) ==
  /\ bindingSigner[x] = zero
  /\ signer # zero
  /\ bindings[x].status = "pending"
  /\ bindings[x].expiresAt > now
  /\ bindings[x].signer = signer

\* The owner accepts: the signer is recorded and the binding activated.
acceptSigner(x, signer) ==
  /\ CanAccept(x, signer)
  /\ bindingSigner' = [bindingSigner EXCEPT ![x] = signer]
  /\ bindings' = [bindings EXCEPT ![x].status = "active"]
  /\ UNCHANGED now

oracleDecideSigner(x, signer, accepted) ==
  IF accepted THEN acceptSigner(x, signer) ELSE rejectSigner(x)

\* The resolver a reader is given.
resolve(x) ==
  IF /\ bindingSigner[x] # zero
     /\ bindings[x].status = "active" \/ bindings[x].expiresAt > now
    THEN bindings[x].resolver ELSE zero

Clock == now < MaxTime /\ now' = now + 1 /\ UNCHANGED <<bindings, bindingSigner>>

OwnerStep ==
  \E x \in Names :
    \/ oracleUnbind(x)
    \/ \E s \in Addresses, accepted \in BOOLEAN : oracleDecideSigner(x, s, accepted)

UserStep ==
  \E x \in Names, a, s \in Addresses :
    \/ \E e \in Expiries, ts \in 0 .. MaxTime : SubmitBinding(x, a, e, ts, s)
    \/ updateResolver(x, a, s)

Next == OwnerStep \/ UserStep \/ Clock

Spec == Init /\ [][Next]_vars

-----------------------------------------------------------------------------
TypeOK ==
  /\ bindings \in [Names -> Binding]
  /\ bindingSigner \in [Names -> AddressOrZero]
  /\ now \in 1 .. MaxTime

\* An active binding is the oracle's decision: it was submitted by the signer
\* that the oracle accepted for the name, through any number of expiries,
\* resubmissions, rejections and removals.
ActiveIsAccepted ==
  \A x \in Names :
    bindings[x].status = "active" =>
      bindings[x].signer = bindingSigner[x] /\ bindingSigner[x] # zero

\* A step keeps the accepted signer of a name, or unbinds the name, or gives a
\* name without one the signer of the binding it activates.
KeepsSigner(x) ==
  \/ bindingSigner'[x] = bindingSigner[x]
  \/ bindingSigner'[x] = zero /\ bindings'[x] = Unbound
  \/ /\ bindingSigner[x] = zero
     /\ bindings'[x].status = "active"
     /\ bindings'[x].signer = bindingSigner'[x]

\* A name that has an accepted signer keeps it until the name is unbound, and
\* gets one only together with the activation of that signer's binding.
SignerKept == [][\A x \in Names : KeepsSigner(x)]_vars

\* A step leaves a binding alone, removes it, activates it once its signer is the
\* accepted one, or gives it another resolver when it is active.
KeepsBinding(x) ==
  \/ bindings'[x] = bindings[x]
  \/ bindings'[x] = Unbound
  \/ /\ bindings'[x] = [bindings[x] EXCEPT !.status = "active"]
     /\ bindingSigner'[x] = bindings[x].signer
  \/ /\ bindings[x].status = "active"
     /\ bindings'[x] = [bindings[x] EXCEPT !.resolver = bindings'[x].resolver]

\* A binding that has not expired keeps its signer and its expiry for as long as
\* it is there: no other submission takes the name over.
UnexpiredKept ==
  [][\A x \in Names : bindings[x].expiresAt >= now => KeepsBinding(x)]_vars

\* A name resolves to the binding of the signer that the oracle accepted, as
\* finalizeBinding requires of a binding it activates ("Invalid signer"): not to one
\* that somebody else has submitted since and that nobody has decided.
ResolvedIsAccepted ==
  \A x \in Names : resolve(x) # zero => bindings[x].signer = bindingSigner[x]
=============================================================================
