---------------------------- MODULE OracleProofs ----------------------------
(***************************************************************************)
(* The oracle and the contract together, for any number of names, accounts *)
(* and events, and whatever fails: the oracle's steps are steps of the     *)
(* contract, only an account that the record may belong to has an active   *)
(* binding, and lastSyncedBlock never moves past an event that was given   *)
(* to the listener and that it has not handled.                            *)
(***************************************************************************)
EXTENDS Oracle, AlticaRegistryProofs, SequenceTheorems, FiniteSetTheorems, TLAPS

USE RegistryAssumption, OracleAssumption DEF AddressOrZero

\* A part of the log between two counts of its events is a sequence of events.
LEMMA CountType ==
  ASSUME log \in Seq(Event), NEW b
  PROVE  EventsBefore(b) \in 0 .. Len(log)
<1> DEFINE I == {i \in 1 .. Len(log) : log[i].block < b}
<1>1. Len(log) \in Nat
  OBVIOUS
<1>2. IsFiniteSet(1 .. Len(log)) /\ Cardinality(1 .. Len(log)) = Len(log)
  <2>1. 1 \in Int /\ Len(log) \in Int
    BY <1>1
  <2>2. IsFiniteSet(1 .. Len(log))
        /\ Cardinality(1 .. Len(log)) = IF 1 > Len(log) THEN 0 ELSE Len(log) - 1 + 1
    BY <2>1, FS_Interval, Zenon
  <2>3. QED BY <1>1, <2>2
<1>3. IsFiniteSet(I) /\ Cardinality(I) <= Len(log)
  <2>1. I \in SUBSET (1 .. Len(log))
    OBVIOUS
  <2>2. QED BY <1>2, <2>1, FS_Subset
<1>4. Cardinality(I) \in Nat
  BY <1>3, FS_CardinalityType
<1>5. QED BY <1>1, <1>3, <1>4 DEF EventsBefore

LEMMA PartsOfLog ==
  ASSUME log \in Seq(Event)
  PROVE  /\ \A b : SealedFrom(b) \in Seq(Event) /\ Range(SealedFrom(b)) \subseteq Event
         /\ InProgress \in Seq(Event) /\ Range(InProgress) \subseteq Event
<1>1. Len(log) \in Nat
  OBVIOUS
<1>2. \A m \in 1 .. Len(log) + 1, n \in 0 .. Len(log) : SubSeq(log, m, n) \in Seq(Event)
  BY <1>1, SubSeqProperties
<1>3. ASSUME NEW b PROVE SealedFrom(b) \in Seq(Event)
  BY <1>1, <1>2, CountType DEF SealedFrom
<1>4. InProgress \in Seq(Event)
  BY <1>1, <1>2, CountType DEF InProgress
<1>5. \A s \in Seq(Event) : Range(s) \subseteq Event
  BY DEF Range
<1>6. QED BY <1>3, <1>4, <1>5

-----------------------------------------------------------------------------
(* The steps of the contract *)

\* Every step of the composed system is a step of the contract or leaves it alone.
LEMMA ContractStep ==
  ASSUME OracleTypeOK, [OracleNext]_oracleVars
  PROVE  [Next]_vars
<1>1. now \in 0 .. MaxTime
  BY DEF OracleTypeOK, TypeOK
<1>2. CASE UserTx
  BY <1>1, <1>2 DEF UserTx, Next, UserStep
<1>3. CASE OracleTx
  <2> DEFINE tx == Head(txs)
  <2>1. tx \in Answer
    BY <1>3 DEF OracleTx, OracleTypeOK
  <2>2. tx.name \in Names /\ tx.signer \in Addresses
    BY <2>1 DEF Answer
  <2>3. CASE acceptSigner(tx.name, tx.signer)
    BY <2>2, <2>3 DEF Next, OwnerStep, oracleDecideSigner
  <2>4. CASE rejectSigner(tx.name)
    BY <2>2, <2>4 DEF Next, OwnerStep, oracleDecideSigner
  <2>5. CASE UNCHANGED vars
    BY <2>5
  <2>6. QED BY <1>3, <2>3, <2>4, <2>5 DEF OracleTx
<1>4. CASE Seal
  BY <1>4 DEF Seal, Next
<1>5. CASE UNCHANGED chainVars
  BY <1>5 DEF chainVars, vars
<1>6. CASE Decide
  BY <1>6 DEF Decide, vars
<1>7. CASE OwnerTx
  BY <1>7 DEF OwnerTx, Next, OwnerStep
<1>8. QED
  BY <1>2, <1>3, <1>4, <1>5, <1>6, <1>7
     DEF OracleNext, oracleVars, Handle, Start, Subscribe, Disconnect, Crash, LookUp,
         PublishNameBound, Sync, RecordSaved, Receive

-----------------------------------------------------------------------------
(* The invariant of the composition *)

LEMMA OracleInitInvariant == OracleInit => OracleInvariant
<1> SUFFICES ASSUME OracleInit PROVE OracleInvariant
  OBVIOUS
<1>1. RegistryInvariant
  BY InvariantInit DEF OracleInit
<1>2. OracleTypeOK
  <2>1. TypeOK /\ sealedSigner \in [Names -> AddressOrZero]
    BY <1>1 DEF OracleInit, RegistryInvariant, TypeOK
  <2>2. log \in Seq(Event) /\ queue \in Seq(Event) /\ txs \in Seq(Answer)
    BY DEF OracleInit
  <2>3. 0 \in 0 .. maxRetries - 1
    OBVIOUS
  <2>4. QED BY <2>1, <2>2, <2>3 DEF OracleInit, OracleTypeOK
<1>3. AnswersOwner /\ SignerIsOwner
  BY DEF OracleInit, Init, AnswersOwner, SignerIsOwner
<1>4. QED BY <1>1, <1>2, <1>3 DEF OracleInvariant, RegistryInvariant

\* An event that is logged has its type: resolvers and signers are addresses.
LEMMA EmitType ==
  ASSUME log \in Seq(Event), now \in Nat,
         NEW kind \in {"SubmittedBinding", "NameBound"},
         NEW x \in Names, NEW a \in AddressOrZero, Emit(kind, x, a)
  PROVE  log' \in Seq(Event)
<1> DEFINE e == [kind |-> kind, name |-> x, addr |-> a, block |-> now,
                 index |-> Len(log) + 1]
<1>1. e \in Event
  BY DEF Event
<1>2. log' = Append(log, e)
  BY DEF Emit
<1>3. QED BY <1>1, <1>2

\* The steps of the chain keep the types.
LEMMA ChainTypes ==
  ASSUME OracleInvariant, UserTx \/ OwnerTx \/ OracleTx \/ Seal, TypeOK'
  PROVE  OracleTypeOK'
<1> USE DEF OracleInvariant, OracleTypeOK
<1>1. now \in Nat
  BY DEF TypeOK
<1>2. CASE UserTx
  <2>1. log' \in Seq(Event)
    BY <1>1, <1>2, EmitType DEF UserTx
  <2>2. QED BY <1>2, <2>1 DEF UserTx, listenVars, handlerVars, historyVars, recordVars, gossipVars
<1>3. CASE OracleTx
  <2>1. Head(txs) \in Answer /\ txs' \in Seq(Answer)
    BY <1>3 DEF OracleTx
  <2>2. Head(txs).name \in Names
    BY <2>1 DEF Answer
  <2>3. bindings[Head(txs).name].resolver \in AddressOrZero
    BY <2>2 DEF TypeOK, Binding
  <2>4. log' \in Seq(Event)
    BY <1>1, <1>3, <2>2, <2>3, EmitType DEF OracleTx
  <2>5. QED
    BY <1>3, <2>1, <2>4 DEF OracleTx, listenVars, handlerVars, historyVars, recordVars, gossipVars
<1>4. CASE Seal
  <2>1. queue \o InProgress \in Seq(Event)
    BY PartsOfLog
  <2>2. queue' \in Seq(Event) /\ (queue # <<>> => queue' # <<>>)
    BY <1>4, <2>1 DEF Seal
  <2>3. sealedSigner' \in [Names -> AddressOrZero]
    BY <1>4 DEF Seal, TypeOK
  <2>4. missed' \subseteq Event
    BY <1>4, PartsOfLog DEF Seal
  <2>5. QED BY <1>4, <2>2, <2>3, <2>4 DEF Seal, handlerVars, recordVars, gossipVars
<1>5. CASE OwnerTx
  BY <1>5 DEF OwnerTx, listenVars, handlerVars, historyVars, recordVars, gossipVars
<1>6. QED BY <1>2, <1>3, <1>4, <1>5

\* So do those of the listener and of the gossip.
ListenerStep == Start \/ Subscribe \/ Disconnect \/ Crash \/ Handle

LEMMA ListenerTypes ==
  ASSUME OracleInvariant, ListenerStep, TypeOK'
  PROVE  OracleTypeOK'
<1> USE DEF OracleInvariant, OracleTypeOK
<1>1. /\ \A b : SealedFrom(b) \in Seq(Event)
      /\ <<>> \in Seq(Event)
  BY PartsOfLog
<1>2. CASE Start
  <2>1. missed' \subseteq Event
    BY <1>2, PartsOfLog DEF Start
  <2>2. queue' \in Seq(Event)
    BY <1>1, <1>2 DEF Start
  <2>3. failures' \in Nat
    BY <1>2 DEF Start, Fail
  <2>4. step' = "next"
    BY <1>2 DEF Start, handlerVars
  <2>5. QED BY <1>2, <2>1, <2>2, <2>3, <2>4 DEF Start, chainVars, handlerVars, recordVars, gossipVars
<1>3. CASE Subscribe
  BY <1>3 DEF Subscribe, chainVars, handlerVars, historyVars, recordVars, gossipVars
<1>4. CASE Disconnect
  <2>1. failures' \in Nat
    BY <1>4 DEF Disconnect, Fail
  <2>2. QED BY <1>4, <2>1 DEF Disconnect, chainVars, handlerVars, historyVars, recordVars, gossipVars
<1>5. CASE Crash
  <2>1. queue' \in Seq(Event) /\ 0 \in 0 .. maxRetries - 1
    BY <1>1, <1>5 DEF Crash
  <2>2. failures' \in Nat
    BY <1>5 DEF Crash, Fail
  <2>3. QED BY <1>5, <2>1, <2>2 DEF Crash, chainVars, historyVars, recordVars, gossipVars
<1>6. CASE LookUp
  <2>1. tries' \in 0 .. maxRetries - 1 /\ step' \in {"next", "decide", "sync"}
    BY <1>6 DEF LookUp
  <2>2. QED BY <1>6, <2>1 DEF LookUp, Handling, chainVars, historyVars, recordVars, gossipVars
<1>7. ASSUME queue # <<>>
      PROVE  Head(queue) \in Event /\ Tail(queue) \in Seq(Event)
  BY <1>7
<1>8. CASE Decide
  <2>1. ASSUME NEW signer \in Signers[Head(queue).name]
        PROVE  Append(txs, Decision(Head(queue), signer)) \in Seq(Answer)
    <3>1. Decision(Head(queue), signer) \in Answer
      BY <1>7, <1>8 DEF Decide, Handling, Decision, Event, Answer
    <3>2. QED BY <3>1
  <2>2. txs' \in Seq(Answer)
    BY <1>8, <2>1 DEF Decide
  <2>3. failures' \in Nat
    BY <1>8 DEF Decide, Fail
  <2>4. QED BY <1>8, <2>2, <2>3 DEF Decide, Handling, vars, historyVars, recordVars, gossipVars
<1>9. CASE PublishNameBound
  <2>1. topic' \subseteq Event /\ failures' \in Nat
    BY <1>7, <1>9 DEF PublishNameBound, Handling, Fail
  <2>2. QED BY <1>9, <2>1 DEF PublishNameBound, Handling, chainVars, historyVars, recordVars
<1>10. CASE Sync
  <2>1. queue' \in Seq(Event) /\ handled' \subseteq Event
    BY <1>7, <1>10 DEF Sync
  <2>2. lastSyncedBlock' \in Nat
    BY <1>7, <1>10 DEF Sync, Event
  <2>3. QED BY <1>10, <2>1, <2>2 DEF Sync, chainVars, recordVars, gossipVars
<1>11. QED
  BY <1>2, <1>3, <1>4, <1>5, <1>6, <1>8, <1>9, <1>10 DEF ListenerStep, Handle

LEMMA GossipTypes ==
  ASSUME OracleInvariant, TypeOK',
         (\E x \in Names : RecordSaved(x)) \/ (\E e \in topic : Receive(e))
  PROVE  OracleTypeOK'
<1> USE DEF OracleInvariant, OracleTypeOK
<1>1. ASSUME NEW x \in Names, RecordSaved(x)
      PROVE  OracleTypeOK'
  BY <1>1 DEF RecordSaved, chainVars, listenVars, handlerVars, historyVars, gossipVars
<1>2. ASSUME NEW e \in topic, Receive(e)
      PROVE  OracleTypeOK'
  <2>1. e.name \in Names /\ e.addr \in AddressOrZero
    BY DEF Event
  <2>2. address' \in [Names -> AddressOrZero \cup {None}]
    BY <1>2, <2>1 DEF Receive, BindAddressResolver
  <2>3. QED BY <1>2, <2>2 DEF Receive, chainVars, listenVars, handlerVars, historyVars
<1>3. QED BY <1>1, <1>2

\* The oracle's answers stay an owner's, and so do the accepted signers.
LEMMA AnswersStep ==
  ASSUME OracleInvariant, [OracleNext]_oracleVars
  PROVE  AnswersOwner' /\ SignerIsOwner'
<1> USE DEF OracleInvariant, OracleTypeOK
<1>1. CASE UNCHANGED <<txs, bindingSigner>>
  BY <1>1 DEF AnswersOwner, SignerIsOwner
<1>2. CASE OracleTx
  <2>1. txs # <<>> /\ txs' = Tail(txs)
    BY <1>2 DEF OracleTx
  <2>2. Len(txs') = Len(txs) - 1 /\ \A i \in 1 .. Len(txs') : txs'[i] = txs[i + 1]
    BY <2>1
  <2>3. Head(txs) = txs[1] /\ 1 \in 1 .. Len(txs)
    BY <2>1
  <2>4. AnswersOwner'
    <3>1. Len(txs) \in Nat
      OBVIOUS
    <3>2. \A i \in 1 .. Len(txs') : i + 1 \in 1 .. Len(txs)
      BY <2>2, <3>1
    <3>3. ASSUME NEW i \in 1 .. Len(txs')
          PROVE  txs'[i].signer \in Signers[txs'[i].name]
      <4>1. txs[i + 1].signer \in Signers[txs[i + 1].name]
        BY <3>2 DEF AnswersOwner
      <4>2. QED BY <2>2, <4>1
    <3>4. QED BY <3>3 DEF AnswersOwner
  <2>5. Head(txs).signer \in Signers[Head(txs).name]
    BY <2>3 DEF AnswersOwner
  <2>6. SignerIsOwner'
    BY <1>2, <2>5
       DEF OracleTx, acceptSigner, rejectSigner, SignerIsOwner, TypeOK, vars
  <2>7. QED BY <2>4, <2>6
<1>3. CASE Decide
  <2>1. ASSUME NEW signer \in Signers[Head(queue).name],
               txs' = Append(txs, Decision(Head(queue), signer))
        PROVE  AnswersOwner'
    <3> DEFINE a == Decision(Head(queue), signer)
    <3>1. a.signer \in Signers[a.name]
      BY DEF Decision
    <3>2. Head(queue) \in Event
      BY <1>3 DEF Decide, Handling
    <3>3. a \in Answer
      BY <3>2 DEF Decision, Event, Answer
    <3>4. /\ Len(txs') = Len(txs) + 1
          /\ \A i \in 1 .. Len(txs') : txs'[i] = IF i <= Len(txs) THEN txs[i] ELSE a
      BY <2>1, <3>3
    <3> HIDE DEF a
    <3>5. ASSUME NEW i \in 1 .. Len(txs')
          PROVE  txs'[i].signer \in Signers[txs'[i].name]
      <4>1. CASE i <= Len(txs)
        <5>1. i \in 1 .. Len(txs) /\ txs'[i] = txs[i]
          BY <3>4, <4>1
        <5>2. QED BY <5>1 DEF AnswersOwner
      <4>2. CASE ~(i <= Len(txs))
        BY <3>1, <3>4, <4>2
      <4>3. QED BY <4>1, <4>2
    <3>6. QED BY <3>5 DEF AnswersOwner
  <2>2. ASSUME txs' = txs PROVE AnswersOwner'
    BY <2>2 DEF AnswersOwner
  <2>3. AnswersOwner'
    BY <1>3, <2>1, <2>2 DEF Decide
  <2>4. QED BY <1>3, <2>3 DEF Decide, SignerIsOwner, vars
<1>4. CASE OwnerTx
  BY <1>4 DEF OwnerTx, oracleUnbind, AnswersOwner, SignerIsOwner, TypeOK
<1>5. QED
  BY <1>1, <1>2, <1>3, <1>4
     DEF OracleNext, oracleVars, chainVars, UserTx, SubmitBinding, updateResolver, Seal, Clock,
         Start, Subscribe, Disconnect, Crash, Handle, LookUp, PublishNameBound, Sync,
         RecordSaved, Receive

\* Together: the invariant is inductive.
LEMMA OracleInvariantStep ==
  ASSUME OracleInvariant, [OracleNext]_oracleVars
  PROVE  OracleInvariant'
<1>1. RegistryInvariant /\ [Next]_vars
  BY ContractStep DEF OracleInvariant, RegistryInvariant, OracleTypeOK
<1>2. TypeOK' /\ ActiveIsAccepted'
  BY <1>1, InvariantStep DEF RegistryInvariant
<1>3. AnswersOwner' /\ SignerIsOwner'
  BY AnswersStep
<1>4. OracleTypeOK'
  <2>1. CASE UserTx \/ OwnerTx \/ OracleTx \/ Seal
    BY <1>2, <2>1, ChainTypes
  <2>2. CASE ListenerStep
    BY <1>2, <2>2, ListenerTypes
  <2>3. CASE (\E x \in Names : RecordSaved(x)) \/ (\E e \in topic : Receive(e))
    BY <1>2, <2>3, GossipTypes
  <2>4. CASE UNCHANGED oracleVars
    BY <1>2, <2>4
       DEF OracleInvariant, OracleTypeOK, oracleVars, chainVars, listenVars, handlerVars,
           historyVars, recordVars, gossipVars
  <2>5. QED BY <2>1, <2>2, <2>3, <2>4 DEF OracleNext, ListenerStep
<1>5. QED BY <1>2, <1>3, <1>4 DEF OracleInvariant

-----------------------------------------------------------------------------
\* The invariant holds in every state the oracle and the contract can reach.
THEOREM OracleInvariantHolds == OracleSpec => []OracleInvariant
  BY OracleInitInvariant, OracleInvariantStep, PTL DEF OracleSpec

\* The oracle, the gossip and the records have their types: the handler is never
\* inside an event that is not there, nor past its last look-up.
THEOREM OracleTypes == OracleSpec => []OracleTypeOK
  BY OracleInvariantHolds, PTL DEF OracleInvariant

\* Only an account that the record of a name may belong to ever has an active binding,
\* whatever is submitted, lost, repeated or answered late, and however the record changes.
THEOREM OwnersOnly == OracleSpec => []ActiveIsOwners
<1>1. OracleInvariant => ActiveIsOwners
  BY DEF OracleInvariant, ActiveIsAccepted, SignerIsOwner, ActiveIsOwners
<1>2. QED BY <1>1, OracleInvariantHolds, PTL

\* The composed system is an implementation of the contract alone, so all that
\* is proved of the contract holds in it.
THEOREM ContractRespected == OracleSpec => Spec
<1>1. OracleInit => Init
  BY DEF OracleInit
<1>2. OracleInvariant /\ [OracleNext]_oracleVars => [Next]_vars
  BY ContractStep DEF OracleInvariant
<1>3. QED BY <1>1, <1>2, OracleInvariantHolds, PTL DEF OracleSpec, Spec

-----------------------------------------------------------------------------
(* The listener's bookkeeping: the parts of an ordered log *)

LEMMA EventsOfLog ==
  ASSUME log \in Seq(Event)
  PROVE  \A i \in 1 .. Len(log) : log[i] \in Event /\ log[i].block \in Nat
<1>1. \A i \in 1 .. Len(log) : log[i] \in Event
  OBVIOUS
<1>2. \A e \in Event : e.block \in Nat
  BY DEF Event
<1>3. QED BY <1>1, <1>2

\* The events before block b are the first ones of the log.
LEMMA PrefixOfLog ==
  ASSUME log \in Seq(Event), LogOrdered, NEW b \in Nat
  PROVE  /\ EventsBefore(b) \in 0 .. Len(log)
         /\ \A i \in 1 .. Len(log) : log[i].block < b <=> i <= EventsBefore(b)
<1> DEFINE I == {i \in 1 .. Len(log) : log[i].block < b}
           c == EventsBefore(b)
<1>1. Len(log) \in Nat /\ c \in 0 .. Len(log) /\ c = Cardinality(I)
  <2>1. Len(log) \in Nat
    OBVIOUS
  <2>2. c = Cardinality(I)
    BY DEF EventsBefore
  <2>3. c \in 0 .. Len(log)
    BY CountType
  <2>4. QED BY <2>1, <2>2, <2>3
<1>2. \A i \in 1 .. Len(log) : log[i].block \in Nat
  BY EventsOfLog
<1>3. ASSUME NEW i \in I, NEW j \in 1 .. i PROVE j \in I
  <2>1. j \in 1 .. Len(log) /\ i \in j .. Len(log) /\ i \in 1 .. Len(log)
    BY <1>1
  <2>2. log[j].block <= log[i].block
    BY <2>1 DEF LogOrdered
  <2>3. QED BY <1>2, <2>1, <2>2
<1>4. ASSUME NEW n \in 0 .. Len(log)
      PROVE  IsFiniteSet(1 .. n) /\ Cardinality(1 .. n) = n
  <2>1. n \in Int /\ 1 \in Int /\ n \in Nat
    BY <1>1
  <2>2. IsFiniteSet(1 .. n) /\ Cardinality(1 .. n) = IF 1 > n THEN 0 ELSE n - 1 + 1
    BY <2>1, FS_Interval, Zenon
  <2>3. QED BY <2>1, <2>2
<1>5. IsFiniteSet(I)
  <2>1. I \in SUBSET (1 .. Len(log)) /\ Len(log) \in 0 .. Len(log)
    BY <1>1
  <2>2. QED BY <1>4, <2>1, FS_Subset
<1>6. c + 1 \notin I
  <2> SUFFICES ASSUME c + 1 \in I PROVE FALSE
    OBVIOUS
  <2>1. c + 1 \in 0 .. Len(log)
    BY <1>1
  <2>2. 1 .. (c + 1) \in SUBSET I
    BY <1>3
  <2>3. Cardinality(1 .. (c + 1)) <= Cardinality(I)
    BY <1>5, <2>2, FS_Subset
  <2>4. Cardinality(1 .. (c + 1)) = c + 1
    BY <1>4, <2>1
  <2>5. QED BY <1>1, <2>3, <2>4
<1>7. I \in SUBSET (1 .. c)
  <2> SUFFICES ASSUME NEW i \in I PROVE i <= c
    BY <1>1
  <2>1. i \in 1 .. Len(log)
    OBVIOUS
  <2>2. c + 1 \notin 1 .. i
    BY <1>3, <1>6
  <2>3. QED BY <1>1, <2>1, <2>2
<1>8. I = 1 .. c
  BY <1>1, <1>4, <1>7, FS_Subset
<1>9. QED
  <2>1. \A i \in 1 .. Len(log) : i \in I <=> log[i].block < b
    OBVIOUS
  <2>2. \A i \in 1 .. Len(log) : i \in 1 .. c <=> i <= c
    BY <1>1
  <2>3. QED BY <1>1, <1>8, <2>1, <2>2

\* What a query from block b gives: the sealed events from b on, in order.
LEMMA SealedPart ==
  ASSUME log \in Seq(Event), LogOrdered, now \in Nat, NEW b \in Nat
  PROVE  LET s == SealedFrom(b)
         IN /\ s \in Seq(Event)
            /\ \A i \in 1 .. Len(s) :
                 s[i].block < now /\ \A j \in i .. Len(s) : s[i].block <= s[j].block
            /\ \A i \in 1 .. Len(log) :
                 b <= log[i].block /\ log[i].block < now => log[i] \in Range(s)
<1> DEFINE s == SealedFrom(b)
           m == EventsBefore(b) + 1
           n == EventsBefore(now)
<1>1. /\ Len(log) \in Nat /\ m \in 1 .. Len(log) + 1 /\ n \in 0 .. Len(log)
      /\ m \in Int /\ n \in Int
      /\ \A i \in 1 .. Len(log) : /\ log[i].block < b <=> i < m
                                  /\ log[i].block < now <=> i <= n
  <2>1. Len(log) \in Nat
    OBVIOUS
  <2>2. /\ EventsBefore(b) \in 0 .. Len(log)
        /\ \A i \in 1 .. Len(log) : log[i].block < b <=> i <= EventsBefore(b)
    BY PrefixOfLog
  <2>3. /\ n \in 0 .. Len(log)
        /\ \A i \in 1 .. Len(log) : log[i].block < now <=> i <= n
    BY PrefixOfLog
  <2>4. QED BY <2>1, <2>2, <2>3
<1>2. \A i \in m .. n : log[i] \in Event
  <2>1. \A i \in m .. n : i \in 1 .. Len(log)
    BY <1>1
  <2>2. QED BY <2>1, EventsOfLog
<1>3. /\ s \in Seq(Event)
      /\ Len(s) = IF m <= n THEN n - m + 1 ELSE 0
      /\ \A i \in 1 .. n - m + 1 : s[i] = log[m + i - 1]
  <2>1. s = SubSeq(log, m, n)
    BY DEF SealedFrom
  <2>2. m \in Int /\ n \in Int
    BY <1>1
  <2> HIDE DEF s, m, n
  <2>3. /\ SubSeq(log, m, n) \in Seq(Event)
        /\ Len(SubSeq(log, m, n)) = IF m <= n THEN n - m + 1 ELSE 0
        /\ \A i \in 1 .. n - m + 1 : SubSeq(log, m, n)[i] = log[m + i - 1]
    BY <1>2, <2>2, SubSeqProperties
  <2>4. QED BY <2>1, <2>3
<1> HIDE DEF s, m, n
<1>4. ASSUME NEW i \in 1 .. Len(s), NEW j \in i .. Len(s)
      PROVE  s[i].block < now /\ s[i].block <= s[j].block
  <2> DEFINE k == m + i - 1
             l == m + j - 1
  <2>1. /\ i \in 1 .. n - m + 1 /\ j \in 1 .. n - m + 1
        /\ k \in 1 .. Len(log) /\ k <= n /\ l \in k .. Len(log)
    BY <1>1, <1>3
  <2>2. s[i] = log[k] /\ s[j] = log[l]
    BY <1>3, <2>1
  <2> HIDE DEF k, l
  <2>3. log[k].block < now /\ log[k].block <= log[l].block
    BY <1>1, <2>1 DEF LogOrdered
  <2>4. QED BY <2>2, <2>3
<1>5. ASSUME NEW i \in 1 .. Len(log), b <= log[i].block, log[i].block < now
      PROVE  log[i] \in Range(s)
  <2>1. log[i].block \in Nat
    BY EventsOfLog
  <2>2. i \in m .. n
    BY <1>1, <1>5, <2>1
  <2>3. i - m + 1 \in 1 .. Len(s) /\ s[i - m + 1] = log[m + (i - m + 1) - 1]
    <3>1. m <= n /\ i - m + 1 \in 1 .. n - m + 1
      BY <1>1, <2>2
    <3>2. Len(s) = n - m + 1
      BY <1>3, <3>1
    <3>3. QED BY <1>3, <3>1, <3>2
  <2>4. m + (i - m + 1) - 1 = i
    BY <1>1
  <2>5. s[i - m + 1] = log[i] /\ DOMAIN s = 1 .. Len(s)
    BY <1>3, <2>3, <2>4
  <2>6. QED BY <2>3, <2>5 DEF Range
<1>6. \A i \in 1 .. Len(s) : i \in i .. Len(s)
  BY <1>1, <1>3
<1>7. QED BY <1>3, <1>4, <1>5, <1>6 DEF s

\* The events of the block in progress are all the others.
LEMMA ProgressPart ==
  ASSUME log \in Seq(Event), LogOrdered, now \in Nat
  PROVE  /\ InProgress \in Seq(Event)
         /\ \A i \in 1 .. Len(InProgress) : InProgress[i].block = now
         /\ \A i \in 1 .. Len(log) : ~(log[i].block < now) => log[i] \in Range(InProgress)
<1> DEFINE s == InProgress
           m == EventsBefore(now) + 1
           n == Len(log)
<1>1. /\ n \in Nat /\ m \in 1 .. n + 1
      /\ \A i \in 1 .. n : log[i].block < now <=> i < m
  <2>1. n \in Nat
    OBVIOUS
  <2>2. /\ EventsBefore(now) \in 0 .. n
        /\ \A i \in 1 .. n : log[i].block < now <=> i <= EventsBefore(now)
    BY PrefixOfLog
  <2>3. QED BY <2>1, <2>2
<1>2. \A i \in m .. n : log[i] \in Event
  <2>1. \A i \in m .. n : i \in 1 .. n
    BY <1>1
  <2>2. QED BY <2>1, EventsOfLog
<1>3. /\ s \in Seq(Event)
      /\ Len(s) = IF m <= n THEN n - m + 1 ELSE 0
      /\ \A i \in 1 .. n - m + 1 : s[i] = log[m + i - 1]
  <2>1. s = SubSeq(log, m, n)
    BY DEF InProgress
  <2>2. m \in Int /\ n \in Int
    BY <1>1
  <2> HIDE DEF s, m, n
  <2>3. /\ SubSeq(log, m, n) \in Seq(Event)
        /\ Len(SubSeq(log, m, n)) = IF m <= n THEN n - m + 1 ELSE 0
        /\ \A i \in 1 .. n - m + 1 : SubSeq(log, m, n)[i] = log[m + i - 1]
    BY <1>2, <2>2, SubSeqProperties
  <2>4. QED BY <2>1, <2>3
<1>4. \A i \in 1 .. n : log[i].block \in Nat /\ log[i].block <= now
  BY EventsOfLog DEF LogOrdered
<1> HIDE DEF s, m, n
<1>5. ASSUME NEW i \in 1 .. Len(s)
      PROVE  s[i].block = now
  <2> DEFINE k == m + i - 1
  <2>1. i \in 1 .. n - m + 1 /\ k \in 1 .. n /\ ~(k < m)
    BY <1>1, <1>3
  <2>2. s[i] = log[k]
    BY <1>3, <2>1
  <2> HIDE DEF k
  <2>3. log[k].block = now
    BY <1>1, <1>4, <2>1
  <2>4. QED BY <2>2, <2>3
<1>6. ASSUME NEW i \in 1 .. n, ~(log[i].block < now)
      PROVE  log[i] \in Range(s)
  <2>1. i \in m .. n
    BY <1>1, <1>6
  <2>2. i - m + 1 \in 1 .. Len(s) /\ s[i - m + 1] = log[m + (i - m + 1) - 1]
    <3>1. m <= n /\ i - m + 1 \in 1 .. n - m + 1
      BY <1>1, <2>1
    <3>2. Len(s) = n - m + 1
      BY <1>3, <3>1
    <3>3. QED BY <1>3, <3>1, <3>2
  <2>3. m + (i - m + 1) - 1 = i
    BY <1>1
  <2>4. s[i - m + 1] = log[i] /\ DOMAIN s = 1 .. Len(s)
    BY <1>3, <2>2, <2>3
  <2>5. QED BY <2>2, <2>4 DEF Range
<1>7. QED BY <1>3, <1>5, <1>6 DEF s, n

-----------------------------------------------------------------------------
(* The steps *)

syncVars == <<log, now, queue, phase, lastSyncedBlock, historyVars>>

\* A step that leaves the log and the listener's position alone.
LEMMA SyncUnchanged ==
  ASSUME SyncInvariant, UNCHANGED syncVars
  PROVE  SyncInvariant'
  BY DEF SyncInvariant, syncVars, historyVars, LogOrdered, QueueOrdered, EventsAccounted,
         SyncedHandled

\* A new event is of the block in progress: it is not sealed yet.
LEMMA SyncEmit ==
  ASSUME OracleTypeOK, SyncInvariant,
         NEW kind \in {"SubmittedBinding", "NameBound"},
         NEW x \in Names, NEW a \in AddressOrZero, Emit(kind, x, a),
         UNCHANGED <<now, queue, phase, lastSyncedBlock, historyVars>>
  PROVE  SyncInvariant'
<1> DEFINE e == [kind |-> kind, name |-> x, addr |-> a, block |-> now,
                 index |-> Len(log) + 1]
<1>1. now \in Nat /\ log \in Seq(Event) /\ lastSyncedBlock \in Nat
  BY DEF OracleTypeOK, TypeOK
<1>2. e \in Event /\ e.block = now
  BY <1>1 DEF Event
<1>3. log' = Append(log, e)
  BY DEF Emit
<1> HIDE DEF e
<1>4. /\ Len(log) \in Nat /\ Len(log') = Len(log) + 1
      /\ \A i \in 1 .. Len(log) : log'[i] = log[i]
      /\ log'[Len(log) + 1] = e
  BY <1>1, <1>2, <1>3, AppendProperties
<1>5. \A i \in 1 .. Len(log') : i \in 1 .. Len(log) \/ log'[i] = e
  BY <1>4
<1>6. LogOrdered'
  <2>1. \A i \in 1 .. Len(log) : log[i].block <= now
    BY DEF SyncInvariant, LogOrdered
  <2> SUFFICES ASSUME NEW i \in 1 .. Len(log'), NEW j \in i .. Len(log')
               PROVE  log'[i].block <= now /\ log'[i].block <= log'[j].block
    BY DEF historyVars, LogOrdered
  <2>2. log'[i].block <= now
    BY <1>1, <1>2, <1>4, <1>5, <2>1
  <2>3. CASE j \in 1 .. Len(log)
    <3>1. i \in 1 .. Len(log) /\ j \in i .. Len(log)
      BY <1>4, <2>3
    <3>2. QED BY <1>4, <2>2, <2>3, <3>1 DEF SyncInvariant, LogOrdered
  <2>4. CASE log'[j] = e
    BY <1>2, <2>2, <2>4
  <2>5. j \in 1 .. Len(log')
    BY <1>4
  <2>6. QED BY <1>5, <2>3, <2>4, <2>5
<1>7. QueueOrdered' /\ (lastSyncedBlock < now)'
  BY DEF SyncInvariant, QueueOrdered
<1>8. EventsAccounted'
  BY <1>1, <1>2, <1>4, <1>5 DEF SyncInvariant, EventsAccounted, historyVars
<1>9. SyncedHandled'
  BY <1>1, <1>2, <1>4, <1>5 DEF SyncInvariant, SyncedHandled, historyVars
<1>10. QED BY <1>6, <1>7, <1>8, <1>9 DEF SyncInvariant

\* The events of a block that is sealed go to the channel, are missed, or will be
\* in the history.
LEMMA SyncSeal ==
  ASSUME OracleTypeOK, SyncInvariant, Seal
  PROVE  SyncInvariant'
<1> DEFINE s == InProgress
<1>1. now \in Nat /\ log \in Seq(Event) /\ lastSyncedBlock \in Nat /\ queue \in Seq(Event)
  BY DEF OracleTypeOK, TypeOK
<1>2. now' = now + 1
  BY DEF Seal, Clock
<1>3. /\ s \in Seq(Event)
      /\ \A i \in 1 .. Len(s) : s[i].block = now
      /\ \A i \in 1 .. Len(log) : ~(log[i].block < now) => log[i] \in Range(s)
  BY <1>1, ProgressPart DEF SyncInvariant
<1>4. /\ UNCHANGED <<log, phase, lastSyncedBlock, handled>>
      /\ queue' = IF subscribed THEN queue \o s ELSE queue
      /\ missed' = IF phase = "down" \/ subscribed THEN missed ELSE missed \cup Range(s)
  BY DEF Seal
<1> HIDE DEF s
<1>5. \A i \in 1 .. Len(log) : log[i].block \in Nat
  BY <1>1, EventsOfLog
<1>6. /\ Len(queue) \in Nat /\ Len(s) \in Nat
      /\ Len(queue \o s) = Len(queue) + Len(s)
      /\ \A i \in 1 .. Len(queue) : (queue \o s)[i] = queue[i] /\ queue[i].block \in Nat
      /\ \A i \in 1 .. Len(queue) + Len(s) :
           i \in 1 .. Len(queue) \/ (queue \o s)[i].block = now
      /\ Range(queue) \subseteq Range(queue \o s) /\ Range(s) \subseteq Range(queue \o s)
  <2>1. Len(queue) \in Nat /\ Len(s) \in Nat
    BY <1>1, <1>3
  <2>2. /\ Len(queue \o s) = Len(queue) + Len(s) /\ queue \o s \in Seq(Event)
        /\ \A i \in 1 .. Len(queue) + Len(s) :
             (queue \o s)[i] = IF i <= Len(queue) THEN queue[i] ELSE s[i - Len(queue)]
    BY <1>1, <1>3, ConcatProperties
  <2>3. \A i \in 1 .. Len(queue) : (queue \o s)[i] = queue[i] /\ queue[i].block \in Nat
    <3>1. \A i \in 1 .. Len(queue) : queue[i] \in Event
      BY <1>1
    <3>2. \A e \in Event : e.block \in Nat
      BY DEF Event
    <3>3. QED BY <2>1, <2>2, <3>1, <3>2
  <2>4. \A j \in 1 .. Len(s) :
          /\ Len(queue) + j \in 1 .. Len(queue) + Len(s)
          /\ (queue \o s)[Len(queue) + j] = s[j]
    <3> TAKE j \in 1 .. Len(s)
    <3>1. /\ Len(queue) + j \in 1 .. Len(queue) + Len(s)
          /\ ~(Len(queue) + j <= Len(queue)) /\ (Len(queue) + j) - Len(queue) = j
      BY <2>1
    <3>2. QED BY <2>2, <3>1
  <2>5. \A i \in 1 .. Len(queue) + Len(s) :
          i \in 1 .. Len(queue) \/ (queue \o s)[i].block = now
    <3> TAKE i \in 1 .. Len(queue) + Len(s)
    <3>1. CASE i <= Len(queue)
      BY <2>1, <3>1
    <3>2. CASE ~(i <= Len(queue))
      <4>1. i - Len(queue) \in 1 .. Len(s)
        BY <2>1, <3>2
      <4>2. QED BY <1>3, <2>2, <3>2, <4>1
    <3>3. QED BY <3>1, <3>2
  <2>6. DOMAIN (queue \o s) = 1 .. Len(queue) + Len(s) /\ DOMAIN queue = 1 .. Len(queue)
        /\ DOMAIN s = 1 .. Len(s)
    BY <1>1, <1>3, <2>2
  <2>7. \A i \in 1 .. Len(queue) : i \in 1 .. Len(queue) + Len(s)
    BY <2>1
  <2>8. Range(queue) \subseteq Range(queue \o s)
    BY <2>3, <2>6, <2>7 DEF Range
  <2>9. Range(s) \subseteq Range(queue \o s)
    BY <2>4, <2>6 DEF Range
  <2>10. QED BY <2>1, <2>2, <2>3, <2>5, <2>8, <2>9
<1>7. LogOrdered'
  BY <1>1, <1>2, <1>4, <1>5 DEF SyncInvariant, LogOrdered
<1>8. QueueOrdered'
  <2>1. CASE ~subscribed
    BY <1>1, <1>2, <1>4, <1>6, <2>1 DEF SyncInvariant, QueueOrdered
  <2>2. CASE subscribed
    <3> SUFFICES ASSUME NEW i \in 1 .. Len(queue'), NEW j \in i .. Len(queue')
                 PROVE  queue'[i].block < now' /\ queue'[i].block <= queue'[j].block
      BY DEF QueueOrdered
    <3>1. /\ i \in 1 .. Len(queue) + Len(s) /\ j \in 1 .. Len(queue) + Len(s)
          /\ queue' = queue \o s /\ i <= j
      BY <1>4, <1>6, <2>2
    <3>2. \A k \in 1 .. Len(queue) : queue[k].block < now
      BY DEF SyncInvariant, QueueOrdered
    <3>3. queue'[i].block < now'
      BY <1>1, <1>2, <1>6, <3>1, <3>2
    <3>4. CASE j \in 1 .. Len(queue)
      <4>1. i \in 1 .. Len(queue) /\ j \in i .. Len(queue)
        BY <1>6, <3>1, <3>4
      <4>2. QED BY <1>6, <3>1, <3>3, <4>1 DEF SyncInvariant, QueueOrdered
    <3>5. CASE queue'[j].block = now
      <4>1. CASE i \in 1 .. Len(queue)
        <5>1. queue'[i].block \in Nat /\ queue'[i].block < now
          BY <1>6, <3>1, <3>2, <4>1
        <5>2. QED BY <1>1, <1>2, <3>3, <3>5, <5>1
      <4>2. CASE queue'[i].block = now
        BY <1>1, <1>2, <3>3, <3>5, <4>2
      <4>3. QED BY <1>6, <3>1, <4>1, <4>2
    <3>6. QED BY <1>6, <3>1, <3>4, <3>5
  <2>3. QED BY <2>1, <2>2
<1>9. EventsAccounted'
  BY <1>1, <1>2, <1>3, <1>4, <1>6 DEF SyncInvariant, EventsAccounted
<1>10. (lastSyncedBlock < now)' /\ SyncedHandled'
  BY <1>1, <1>2, <1>4 DEF SyncInvariant, SyncedHandled
<1>11. QED BY <1>7, <1>8, <1>9, <1>10 DEF SyncInvariant

\* A listener that starts reads what it has not synced, or misses it.
LEMMA SyncStart ==
  ASSUME OracleTypeOK, SyncInvariant, Start
  PROVE  SyncInvariant'
<1> DEFINE s == SealedFrom(lastSyncedBlock)
<1>1. now \in Nat /\ log \in Seq(Event) /\ lastSyncedBlock \in Nat
  BY DEF OracleTypeOK, TypeOK
<1>2. /\ s \in Seq(Event)
      /\ \A i \in 1 .. Len(s) :
           s[i].block < now /\ \A j \in i .. Len(s) : s[i].block <= s[j].block
      /\ \A i \in 1 .. Len(log) :
           lastSyncedBlock <= log[i].block /\ log[i].block < now => log[i] \in Range(s)
  BY <1>1, SealedPart DEF SyncInvariant
<1>3. /\ UNCHANGED <<log, now, lastSyncedBlock, handled>>
      /\ \/ queue' = s /\ missed' = missed
         \/ queue' = <<>> /\ missed' = missed \cup (Range(s) \ handled)
  BY DEF Start, chainVars
<1> HIDE DEF s
<1>4. \A i \in 1 .. Len(log) : log[i].block \in Nat
  BY <1>1, EventsOfLog
<1>5. LogOrdered' /\ (lastSyncedBlock < now)' /\ SyncedHandled'
  BY <1>3 DEF SyncInvariant, LogOrdered, SyncedHandled
<1>6. QueueOrdered'
  BY <1>2, <1>3 DEF QueueOrdered
<1>7. EventsAccounted'
  <2> SUFFICES ASSUME NEW i \in 1 .. Len(log), log[i].block < now
               PROVE  log[i] \in handled \cup missed' \cup Range(queue')
    BY <1>3 DEF EventsAccounted
  <2>1. CASE log[i].block < lastSyncedBlock
    BY <1>3, <2>1 DEF SyncInvariant, SyncedHandled
  <2>2. CASE ~(log[i].block < lastSyncedBlock)
    <3>1. log[i] \in Range(s)
      BY <1>1, <1>2, <1>4, <2>2
    <3>2. QED BY <1>3, <3>1
  <2>3. QED BY <2>1, <2>2
<1>8. QED BY <1>5, <1>6, <1>7 DEF SyncInvariant

\* When the event at the head of the channel is done, the earlier blocks are too:
\* whatever waits behind it is of its block or of a later one.
LEMMA SyncSync ==
  ASSUME OracleTypeOK, SyncInvariant, Sync
  PROVE  SyncInvariant'
<1>1. /\ now \in Nat /\ log \in Seq(Event) /\ queue \in Seq(Event) /\ queue # <<>>
      /\ lastSyncedBlock \in Nat
  BY DEF OracleTypeOK, TypeOK, Sync
<1>2. /\ UNCHANGED <<log, now, phase, missed>>
      /\ lastSyncedBlock' = Head(queue).block
      /\ handled' = handled \cup {Head(queue)}
      /\ queue' = Tail(queue) /\ phase # "down"
  BY DEF Sync, chainVars
<1>3. /\ Len(queue) \in Nat \ {0} /\ Len(queue') = Len(queue) - 1
      /\ Head(queue) = queue[1] /\ DOMAIN queue = 1 .. Len(queue)
      /\ queue' \in Seq(Event) /\ DOMAIN queue' = 1 .. Len(queue')
      /\ \A i \in 1 .. Len(queue') : queue'[i] = queue[i + 1]
  BY <1>1, <1>2, HeadTailProperties
<1>4. \A e \in Event : e.block \in Nat
  BY DEF Event
<1>5. \A i \in 1 .. Len(queue) : queue[i].block \in Nat /\ queue[1].block <= queue[i].block
  <2>1. 1 \in 1 .. Len(queue)
    BY <1>3
  <2>2. \A i \in 1 .. Len(queue) : queue[i] \in Event
    BY <1>1
  <2>3. QED BY <1>4, <2>1, <2>2 DEF SyncInvariant, QueueOrdered
<1>6. LogOrdered'
  BY <1>2 DEF SyncInvariant, LogOrdered
<1>7. QueueOrdered'
  <2> SUFFICES ASSUME NEW i \in 1 .. Len(queue'), NEW j \in i .. Len(queue')
               PROVE  queue'[i].block < now /\ queue'[i].block <= queue'[j].block
    BY <1>2 DEF QueueOrdered
  <2>1. /\ i + 1 \in 1 .. Len(queue) /\ j + 1 \in (i + 1) .. Len(queue)
        /\ j \in 1 .. Len(queue')
    BY <1>3
  <2>2. queue'[i] = queue[i + 1] /\ queue'[j] = queue[j + 1]
    BY <1>3, <2>1
  <2>3. QED BY <2>1, <2>2 DEF SyncInvariant, QueueOrdered
<1>8. Range(queue) \subseteq {Head(queue)} \cup Range(queue')
  <2> SUFFICES ASSUME NEW i \in 1 .. Len(queue), i # 1
               PROVE  queue[i] \in Range(queue')
    BY <1>3 DEF Range
  <2>1. i - 1 \in 1 .. Len(queue') /\ (i - 1) + 1 = i
    BY <1>3
  <2>2. queue'[i - 1] = queue[i]
    BY <1>3, <2>1
  <2>3. QED BY <1>3, <2>1, <2>2 DEF Range
<1>9. EventsAccounted'
  BY <1>2, <1>8 DEF SyncInvariant, EventsAccounted
<1>10. (lastSyncedBlock < now)'
  <2>1. 1 \in 1 .. Len(queue)
    BY <1>3
  <2>2. QED BY <1>2, <1>3, <2>1 DEF SyncInvariant, QueueOrdered
<1>11. SyncedHandled'
  <2> SUFFICES ASSUME NEW i \in 1 .. Len(log), log[i].block < queue[1].block
               PROVE  log[i] \in handled \cup missed
    BY <1>2, <1>3 DEF SyncedHandled
  <2>1. log[i].block \in Nat /\ 1 \in 1 .. Len(queue)
    BY <1>1, <1>3, EventsOfLog
  <2>2. queue[1].block \in Nat /\ queue[1].block < now
    BY <1>5, <2>1 DEF SyncInvariant, QueueOrdered
  <2>3. log[i] \in handled \cup missed \cup Range(queue)
    BY <1>1, <1>2, <2>1, <2>2 DEF SyncInvariant, EventsAccounted
  <2>4. log[i] \notin Range(queue)
    BY <1>3, <1>5, <2>1, <2>2 DEF Range
  <2>5. QED BY <2>3, <2>4
<1>12. QED BY <1>6, <1>7, <1>9, <1>10, <1>11 DEF SyncInvariant

\* A crash loses the channel; the history starts again at lastSyncedBlock.
LEMMA SyncCrash ==
  ASSUME SyncInvariant, Crash
  PROVE  SyncInvariant'
<1>1. /\ UNCHANGED <<log, now, lastSyncedBlock, handled, missed>>
      /\ queue' = <<>> /\ phase' = "down"
  BY DEF Crash, chainVars, historyVars
<1>2. QueueOrdered' /\ EventsAccounted'
  BY <1>1 DEF QueueOrdered, EventsAccounted
<1>3. LogOrdered' /\ (lastSyncedBlock < now)' /\ SyncedHandled'
  BY <1>1 DEF SyncInvariant, LogOrdered, SyncedHandled
<1>4. QED BY <1>2, <1>3 DEF SyncInvariant

\* Together: the invariant is inductive.
LEMMA SyncStep ==
  ASSUME OracleInvariant, SyncInvariant, [OracleNext]_oracleVars
  PROVE  SyncInvariant'
<1>1. OracleTypeOK
  BY DEF OracleInvariant
<1>2. CASE UNCHANGED syncVars
  BY <1>2, SyncUnchanged
<1>3. CASE UserTx
  <2>1. UNCHANGED <<now, queue, phase, lastSyncedBlock, historyVars>>
    BY <1>3 DEF UserTx, listenVars, SubmitBinding, updateResolver
  <2>2. QED BY <1>1, <1>3, <2>1, SyncEmit DEF UserTx
<1>4. CASE OracleTx
  <2>1. UNCHANGED <<now, queue, phase, lastSyncedBlock, historyVars>>
    BY <1>4 DEF OracleTx, listenVars, acceptSigner, rejectSigner, vars
  <2>2. CASE UNCHANGED log
    BY <2>1, <2>2, SyncUnchanged DEF syncVars
  <2>3. Head(txs).name \in Names /\ bindings[Head(txs).name].resolver \in AddressOrZero
    <3>1. Head(txs) \in Answer
      BY <1>1, <1>4 DEF OracleTx, OracleTypeOK
    <3>2. Head(txs).name \in Names
      BY <3>1 DEF Answer
    <3>3. QED BY <1>1, <3>2 DEF OracleTypeOK, TypeOK, Binding
  <2>4. CASE Emit("NameBound", Head(txs).name, bindings[Head(txs).name].resolver)
    BY <1>1, <2>1, <2>3, <2>4, SyncEmit
  <2>5. QED BY <1>4, <2>2, <2>4 DEF OracleTx
<1>5. CASE Seal
  BY <1>1, <1>5, SyncSeal
<1>6. CASE Start
  BY <1>1, <1>6, SyncStart
<1>7. CASE Sync
  BY <1>1, <1>7, SyncSync
<1>8. CASE Crash
  BY <1>8, SyncCrash
<1>9. CASE Subscribe
  BY <1>9 DEF Subscribe, chainVars, historyVars, SyncInvariant, LogOrdered, QueueOrdered,
              EventsAccounted, SyncedHandled
<1>10. CASE OwnerTx \/ Disconnect \/ LookUp \/ Decide \/ PublishNameBound
  BY <1>2, <1>10
     DEF syncVars, OwnerTx, oracleUnbind, Disconnect, LookUp, Decide, PublishNameBound,
         chainVars, listenVars, vars
<1>11. CASE (\E x \in Names : RecordSaved(x)) \/ (\E e \in topic : Receive(e))
  BY <1>2, <1>11 DEF syncVars, RecordSaved, Receive, chainVars, listenVars
<1>12. CASE UNCHANGED oracleVars
  BY <1>2, <1>12 DEF syncVars, oracleVars, chainVars, listenVars
<1>13. QED
  BY <1>3, <1>4, <1>5, <1>6, <1>7, <1>8, <1>9, <1>10, <1>11, <1>12 DEF OracleNext, Handle

-----------------------------------------------------------------------------
\* lastSyncedBlock never moves past an event that the listener was given and has
\* not handled, through crashes, lost subscriptions and unreadable histories.
THEOREM NothingSkipped == OracleSpec => []SyncedHandled
<1>1. OracleInit => SyncInvariant
  BY DEF OracleInit, Init, SyncInvariant, LogOrdered, QueueOrdered, EventsAccounted,
         SyncedHandled
<1>2. OracleInvariant /\ SyncInvariant /\ [OracleNext]_oracleVars => SyncInvariant'
  BY SyncStep
<1>3. SyncInvariant => SyncedHandled
  BY DEF SyncInvariant
<1>4. QED BY <1>1, <1>2, <1>3, OracleInvariantHolds, PTL DEF OracleSpec
=============================================================================
