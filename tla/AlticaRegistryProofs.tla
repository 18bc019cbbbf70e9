------------------------ MODULE AlticaRegistryProofs ------------------------
(***************************************************************************)
(* The contract's promises for any number of names and accounts and an     *)
(* unbounded history.                                                      *)
(***************************************************************************)
EXTENDS AlticaRegistry, TLAPS

USE RegistryAssumption DEF AddressOrZero, Binding, Unbound

RegistryInvariant == TypeOK /\ ActiveIsAccepted

\* The steps of the contract, one by one.
LEMMA StepCases ==
  ASSUME Next
  PROVE  \/ \E x \in Names : oracleUnbind(x) \/ rejectSigner(x)
         \/ \E x \in Names, s \in Addresses : acceptSigner(x, s)
         \/ \E x \in Names, a, s \in Addresses, e \in Expiries, ts \in 0 .. MaxTime :
              SubmitBinding(x, a, e, ts, s)
         \/ \E x \in Names, a, s \in Addresses : updateResolver(x, a, s)
         \/ Clock
<1>1. ASSUME NEW x \in Names, NEW s \in Addresses, NEW accepted \in BOOLEAN,
             oracleDecideSigner(x, s, accepted)
      PROVE  acceptSigner(x, s) \/ rejectSigner(x)
  BY <1>1, Zenon DEF oracleDecideSigner
<1>2. QED BY <1>1 DEF Next, OwnerStep, UserStep

\* The deployed contract satisfies the invariant.
LEMMA InvariantInit == Init => RegistryInvariant
  BY DEF Init, RegistryInvariant, TypeOK, ActiveIsAccepted

\* No call disturbs it: a binding becomes active only through acceptSigner, and a
\* name whose signer is zero has no active binding.
LEMMA InvariantStep ==
  ASSUME RegistryInvariant, [Next]_vars
  PROVE  RegistryInvariant'
<1> USE DEF RegistryInvariant, TypeOK, ActiveIsAccepted
<1>1. ASSUME NEW x \in Names, oracleUnbind(x) \/ rejectSigner(x)
      PROVE  RegistryInvariant'
  BY <1>1 DEF oracleUnbind, rejectSigner
<1>2. ASSUME NEW x \in Names, NEW s \in Addresses, acceptSigner(x, s)
      PROVE  RegistryInvariant'
  BY <1>2 DEF acceptSigner, CanAccept
<1>3. ASSUME NEW x \in Names, NEW a \in Addresses, NEW s \in Addresses,
             NEW e \in Expiries, NEW ts \in 0 .. MaxTime, SubmitBinding(x, a, e, ts, s)
      PROVE  RegistryInvariant'
  BY <1>3 DEF SubmitBinding
<1>4. ASSUME NEW x \in Names, NEW a \in Addresses, NEW s \in Addresses,
             updateResolver(x, a, s)
      PROVE  RegistryInvariant'
  BY <1>4 DEF updateResolver
<1>5. CASE Clock
  BY <1>5 DEF Clock
<1>6. CASE UNCHANGED vars
  BY <1>6 DEF vars
<1>7. QED BY <1>1, <1>2, <1>3, <1>4, <1>5, <1>6, StepCases

\* The invariant of the contract holds after any sequence of calls.
THEOREM InvariantHolds == Spec => []RegistryInvariant
  BY InvariantInit, InvariantStep, PTL DEF Spec

\* Every binding that is active was submitted by the signer the oracle accepted.
THEOREM AcceptedBindings == Spec => []ActiveIsAccepted
  BY InvariantHolds, PTL DEF RegistryInvariant

\* One call keeps the accepted signer, or removes it, or accepts one.
LEMMA SignerStep ==
  ASSUME RegistryInvariant, [Next]_vars, NEW x \in Names
  PROVE  KeepsSigner(x)
<1> USE DEF RegistryInvariant, TypeOK, KeepsSigner
<1>1. ASSUME NEW y \in Names, oracleUnbind(y) \/ rejectSigner(y)
      PROVE  KeepsSigner(x)
  BY <1>1 DEF oracleUnbind, rejectSigner
<1>2. ASSUME NEW y \in Names, NEW s \in Addresses, acceptSigner(y, s)
      PROVE  KeepsSigner(x)
  BY <1>2 DEF acceptSigner, CanAccept
<1>3. ASSUME NEW y \in Names, NEW a \in Addresses, NEW s \in Addresses,
             \/ \E e \in Expiries, ts \in 0 .. MaxTime : SubmitBinding(y, a, e, ts, s)
             \/ updateResolver(y, a, s)
      PROVE  KeepsSigner(x)
  BY <1>3 DEF SubmitBinding, updateResolver
<1>4. CASE Clock \/ UNCHANGED vars
  BY <1>4 DEF Clock, vars
<1>5. QED BY <1>1, <1>2, <1>3, <1>4, StepCases

\* The accepted signer of a name changes only by unbinding the name, or from
\* nobody to the signer of the binding that is activated with it.
THEOREM SignerIsKept == Spec => SignerKept
<1>1. RegistryInvariant /\ [Next]_vars => [\A x \in Names : KeepsSigner(x)]_vars
  BY SignerStep
<1>2. QED BY <1>1, InvariantHolds, PTL DEF Spec, SignerKept

\* One call keeps the binding that has not expired: SubmitBinding is refused.
LEMMA UnexpiredStep ==
  ASSUME RegistryInvariant, [Next]_vars, NEW x \in Names, bindings[x].expiresAt >= now
  PROVE  KeepsBinding(x)
<1> USE DEF RegistryInvariant, TypeOK, KeepsBinding
<1>1. ASSUME NEW y \in Names, oracleUnbind(y) \/ rejectSigner(y)
      PROVE  KeepsBinding(x)
  BY <1>1 DEF oracleUnbind, rejectSigner
<1>2. ASSUME NEW y \in Names, NEW s \in Addresses, acceptSigner(y, s)
      PROVE  KeepsBinding(x)
  BY <1>2 DEF acceptSigner, CanAccept
<1>3. ASSUME NEW y \in Names, NEW a \in Addresses, NEW s \in Addresses,
             NEW e \in Expiries, NEW ts \in 0 .. MaxTime, SubmitBinding(y, a, e, ts, s)
      PROVE  KeepsBinding(x)
  <2>1. y # x
    BY <1>3 DEF SubmitBinding
  <2>2. QED BY <1>3, <2>1 DEF SubmitBinding
<1>4. ASSUME NEW y \in Names, NEW a \in Addresses, NEW s \in Addresses,
             updateResolver(y, a, s)
      PROVE  KeepsBinding(x)
  BY <1>4 DEF updateResolver
<1>5. CASE Clock \/ UNCHANGED vars
  BY <1>5 DEF Clock, vars
<1>6. QED BY <1>1, <1>2, <1>3, <1>4, <1>5, StepCases

\* A binding that has not expired keeps its signer and its expiry.
THEOREM UnexpiredIsKept == Spec => UnexpiredKept
<1>1. RegistryInvariant /\ [Next]_vars =>
        [\A x \in Names : bindings[x].expiresAt >= now => KeepsBinding(x)]_vars
  BY UnexpiredStep
<1>2. QED BY <1>1, InvariantHolds, PTL DEF Spec, UnexpiredKept
=============================================================================
