--------------------------- MODULE Reconcile_proofs ---------------------------
(***************************************************************************)
(* Theorems about Reconcile, for every set of contacts, properties and     *)
(* values, every policy, every number of edits and faults.                 *)
(***************************************************************************)
EXTENDS Reconcile, VCardMerge_proofs, FiniteSetTheorems

\* A write leaves a card on Proton, without the properties Proton drops.
LEMMA StoresType ==
    ASSUME NEW card \in Card
    PROVE  /\ ProtonStores(card) \in Card
           /\ \A p \in Dropped : ProtonStores(card)[p] = None
<1>1. \A name \in Name : card[name] \in Value \cup {None}
    BY DEF Card
<1>2. \A name \in Name : ProtonStores(card)[name] \in Value \cup {None}
    BY <1>1, CardAssumption, ReconcileAssumption DEF ProtonStores
<1>3. \A p \in Dropped : ProtonStores(card)[p] = None
  <2> SUFFICES ASSUME NEW p \in Dropped PROVE ProtonStores(card)[p] = None
      OBVIOUS
  <2>1. p \in Name /\ p # "VERSION"
      BY CardAssumption, ReconcileAssumption DEF Name
  <2> QED BY <2>1 DEF ProtonStores
<1> QED BY <1>2, <1>3 DEF ProtonStores, Card

\* The cards of the two users, and the changes they are recorded as.
LEMMA UserCardType ==
    /\ UserCard \subseteq Card
    /\ ProtonCard \subseteq Card
    /\ \A card \in ProtonCard, p \in Dropped : card[p] = None
    /\ \A old, new : ChangedProps(old, new) \subseteq Prop
BY StoresType, ReconcileAssumption DEF ProtonCard, ChangedProps

\* The bases a merge starts from are cards.
LEMMA BasesType ==
    ASSUME TypeOK, NEW u \in UID
    PROVE  Bases(u) \in Row
<1>1. EmptyCard \in Card
    BY EmptyCardType
<1> QED BY <1>1 DEF TypeOK, Bases, Row
-----------------------------------------------------------------------------
LEMMA InitType == Init => TypeOK
<1> SUFFICES ASSUME Init PROVE TypeOK
    OBVIOUS
<1>1. /\ objects \in [UID -> [Path -> Card \cup {NoCard}]]
      /\ contacts \in [UID -> [ID -> Card \cup {NoCard, Deleted}]]
    BY UserCardType DEF Init
<1>2. edited \in [UID -> [seen : SUBSET Change, late : SUBSET Change]]
    BY DEF Init, Given, Change
<1>3. work \in [uid : UID \cup {NoCard}, id : ID \cup {NoCard}, merged : Card,
                protonBase : Card, push : BOOLEAN]
    BY EmptyCardType DEF Init, NoLocals, NoWork
<1> QED BY <1>1, <1>2, <1>3, ReconcileAssumption DEF Init, TypeOK, NoLocals, PC

\* Recording a change keeps the record a record of changes.
LEMMA RecordType ==
    ASSUME TypeOK, NEW u \in UID, NEW side \in {"C", "P"}, NEW props \in SUBSET Prop,
           Record(u, side, props)
    PROVE  edited' \in [UID -> [seen : SUBSET Change, late : SUBSET Change]]
<1> DEFINE changes == {side} \X props
<1>1. changes \subseteq Change
    BY DEF Change
<1>2. edited[u] \in [seen : SUBSET Change, late : SUBSET Change]
    BY DEF TypeOK
<1>3. edited' = [edited EXCEPT ![u] =
            IF pc = "idle"
            THEN [seen |-> edited[u].seen \cup changes, late |-> edited[u].late]
            ELSE [seen |-> edited[u].seen, late |-> edited[u].late \cup changes]]
    BY DEF Record
<1> HIDE DEF changes
<1> QED BY <1>1, <1>2, <1>3 DEF TypeOK

\* No step of a user gives a variable a value of another type.
LEMMA UserType == TypeOK /\ User => TypeOK'
<1> SUFFICES ASSUME TypeOK, User PROVE TypeOK'
    OBVIOUS
<1> DEFINE Recorded == edited' \in [UID -> [seen : SUBSET Change, late : SUBSET Change]]
           Objects  == objects' \in [UID -> [Path -> Card \cup {NoCard}]]
           Contacts == contacts' \in [UID -> [ID -> Card \cup {NoCard, Deleted}]]
<1>1. /\ UNCHANGED <<rows, pc, locals, faults>> /\ quiet' = "no"
      /\ edits < MaxEdit /\ edits' = edits + 1
    BY DEF User, UserStep, EditCardDAV, CreateCardDAV, DeleteCardDAV,
           EditProton, CreateProton, DeleteProton
<1>2. edits' \in 0 .. MaxEdit
    BY <1>1, ReconcileAssumption DEF TypeOK
<1>3. ASSUME NEW u \in UID, NEW path \in Path,
             EditCardDAV(u, path) \/ CreateCardDAV(u, path) \/ DeleteCardDAV(u, path)
      PROVE  Objects /\ Contacts /\ Recorded
  <2>1. Contacts
      BY <1>3 DEF EditCardDAV, CreateCardDAV, DeleteCardDAV, TypeOK
  <2>2. CASE EditCardDAV(u, path)
    <3>1. PICK card \in UserCard :
              /\ objects' = [objects EXCEPT ![u][path] = card]
              /\ Record(u, "C", ChangedProps(objects[u][path], card))
        BY <2>2 DEF EditCardDAV
    <3> QED BY <2>1, <3>1, RecordType, UserCardType DEF TypeOK
  <2>3. CASE CreateCardDAV(u, path)
    <3>1. PICK card \in UserCard :
              /\ objects' = [objects EXCEPT ![u][path] = card]
              /\ Record(u, "C", ChangedProps(NoCard, card))
        BY <2>3 DEF CreateCardDAV
    <3> QED BY <2>1, <3>1, RecordType, UserCardType DEF TypeOK
  <2>4. CASE DeleteCardDAV(u, path)
      BY <2>1, <2>4, RecordType, UserCardType DEF TypeOK, DeleteCardDAV
  <2> QED BY <1>3, <2>2, <2>3, <2>4
<1>4. ASSUME NEW u \in UID, NEW id \in ID,
             EditProton(u, id) \/ CreateProton(u, id) \/ DeleteProton(u, id)
      PROVE  Objects /\ Contacts /\ Recorded
  <2>1. Objects
      BY <1>4 DEF EditProton, CreateProton, DeleteProton, TypeOK
  <2>2. CASE EditProton(u, id)
    <3>1. PICK card \in ProtonCard :
              /\ contacts' = [contacts EXCEPT ![u][id] = card]
              /\ Record(u, "P", ChangedProps(contacts[u][id], card))
        BY <2>2 DEF EditProton
    <3> QED BY <2>1, <3>1, RecordType, UserCardType DEF TypeOK
  <2>3. CASE CreateProton(u, id)
    <3>1. PICK card \in ProtonCard :
              /\ contacts' = [contacts EXCEPT ![u][id] = card]
              /\ Record(u, "P", ChangedProps(NoCard, card))
        BY <2>3 DEF CreateProton
    <3> QED BY <2>1, <3>1, RecordType, UserCardType DEF TypeOK
  <2>4. CASE DeleteProton(u, id)
      BY <2>1, <2>4, RecordType, UserCardType DEF TypeOK, DeleteProton
  <2> QED BY <1>4, <2>2, <2>3, <2>4
<1>5. Objects /\ Contacts /\ Recorded
    BY <1>3, <1>4 DEF User
<1> QED BY <1>1, <1>2, <1>5 DEF TypeOK, locals

\* A run that ends has forgotten everything, and forgets no edit.
LEMMA EndRunType ==
    ASSUME TypeOK, EndRun
    PROVE  /\ pc' = "idle" /\ pending' = {} /\ todo' = {} /\ newProton' = 0
           /\ work' \in [uid : UID \cup {NoCard}, id : ID \cup {NoCard}, merged : Card,
                          protonBase : Card, push : BOOLEAN]
           /\ protonIdx' \in [UID -> PEntry \cup {NoCard}]
           /\ carddavIdx' \in [UID -> Card \cup {NoCard}]
           /\ edits' = edits
           /\ edited' \in [UID -> [seen : SUBSET Change, late : SUBSET Change]]
<1>1. NoWork \in [uid : UID \cup {NoCard}, id : ID \cup {NoCard}, merged : Card,
                  protonBase : Card, push : BOOLEAN]
    BY EmptyCardType DEF NoWork
<1>2. edited' \in [UID -> [seen : SUBSET Change, late : SUBSET Change]]
    BY DEF EndRun, TypeOK
<1> QED BY <1>1, <1>2 DEF EndRun

\* A fault counts against its bound.
LEMMA FailsType ==
    ASSUME TypeOK, NEW call, Fails(call) \/ Works
    PROVE  faults' \in 0 .. MaxFault /\ quiet' \in {"no", "running", "yes"}
BY ReconcileAssumption DEF TypeOK, Fails, Works

\* The stores after a write of the contact in hand.
LEMMA EffectType ==
    ASSUME TypeOK
    PROVE  /\ PutEffect => objects' \in [UID -> [Path -> Card \cup {NoCard}]]
           /\ UpdateEffect => contacts' \in [UID -> [ID -> Card \cup {NoCard, Deleted}]]
           /\ \A id \in ID : CreateEffect(id) =>
                  contacts' \in [UID -> [ID -> Card \cup {NoCard, Deleted}]]
<1>1. work.merged \in Card /\ ProtonStores(work.merged) \in Card
    BY StoresType DEF TypeOK
<1>2. ASSUME PutEffect PROVE objects' \in [UID -> [Path -> Card \cup {NoCard}]]
    BY <1>1, <1>2 DEF TypeOK, PutEffect
<1>3. ASSUME UpdateEffect
      PROVE  contacts' \in [UID -> [ID -> Card \cup {NoCard, Deleted}]]
    BY <1>1, <1>3 DEF TypeOK, UpdateEffect
<1>4. ASSUME NEW id \in ID, CreateEffect(id)
      PROVE  contacts' \in [UID -> [ID -> Card \cup {NoCard, Deleted}]]
    BY <1>1, <1>4 DEF TypeOK, CreateEffect
<1> QED BY <1>2, <1>3, <1>4

\* No step of a run that ends it does.
LEMMA EndingType ==
    TypeOK /\ (Stop \/ IndexFails \/ Finish \/ PutFails \/ SaveFails) => TypeOK'
<1> SUFFICES ASSUME TypeOK, Stop \/ IndexFails \/ Finish \/ PutFails \/ SaveFails
             PROVE  TypeOK'
    OBVIOUS
<1>1. EndRun
    BY DEF Stop, IndexFails, Finish, PutFails, SaveFails
<1>2. faults' \in 0 .. MaxFault /\ quiet' \in {"no", "running", "yes"}
    BY ReconcileAssumption
       DEF TypeOK, Fails, Stop, IndexFails, Finish, PutFails, SaveFails
<1>3. /\ objects' \in [UID -> [Path -> Card \cup {NoCard}]]
      /\ contacts' = contacts /\ rows' = rows
    BY EffectType DEF TypeOK, stores, Stop, IndexFails, Finish, PutFails, SaveFails
<1> QED BY <1>1, <1>2, <1>3, EndRunType DEF TypeOK, PC

\* Nor does a step that indexes one of the sides.
LEMMA IndexType ==
    TypeOK /\ (StartRun \/ IndexCardDAV
              \/ \E u \in UID, id \in ID : FetchCard(u, id) \/ SkipCard(u, id)) => TypeOK'
<1>1. ASSUME TypeOK, StartRun PROVE TypeOK'
    BY <1>1 DEF TypeOK, StartRun, stores, PC
<1>2. ASSUME TypeOK, IndexCardDAV PROVE TypeOK'
  <2>1. carddavIdx' \in [UID -> Card \cup {NoCard}]
      BY <1>2 DEF IndexCardDAV, Indexes, TypeOK
  <2> QED BY <1>2, <2>1 DEF TypeOK, IndexCardDAV, stores, PC, Works
<1>3. ASSUME TypeOK, NEW u \in UID, NEW id \in ID, FetchCard(u, id) PROVE TypeOK'
    BY <1>3 DEF TypeOK, FetchCard, stores, Works, PEntry
<1>4. ASSUME TypeOK, NEW u \in UID, NEW id \in ID, SkipCard(u, id) PROVE TypeOK'
  <2>1. faults' \in 0 .. MaxFault /\ quiet' \in {"no", "running", "yes"}
      BY <1>4, FailsType DEF SkipCard
  <2> QED BY <1>4, <2>1 DEF TypeOK, SkipCard, stores
<1> QED BY <1>1, <1>2, <1>3, <1>4

\* Nor does a visit to a contact.
LEMMA VisitType ==
    ASSUME TypeOK, NEW u \in UID,
           MergeBoth(u) \/ CopyToCardDAV(u) \/ LeaveOneSided(u) \/ Defer(u)
             \/ CopyToProton(u)
    PROVE  TypeOK'
<1>1. Visit(u)
    BY DEF MergeBoth, CopyToCardDAV, LeaveOneSided, Defer, CopyToProton
<1>2. CASE MergeBoth(u)
  <2> DEFINE p      == protonIdx[u].vcard
             c      == carddavIdx[u]
             base   == Bases(u)
             merged == ThreeWayString(base.protonBase, base.carddavBase, p, c, SyncPolicy)
  <2>1. p \in Card /\ protonIdx[u].id \in ID /\ c \in Card
      BY <1>2 DEF MergeBoth, TypeOK, PEntry
  <2>2. base.protonBase \in Card /\ base.carddavBase \in Card
      BY BasesType DEF Row
  <2>3. merged \in Card
      BY <2>1, <2>2, MergeType, ReconcileAssumption
  <2>4. ProtonRelevantDiff(merged, p, base.protonBase) \in BOOLEAN
      BY DEF ProtonRelevantDiff
  <2>5. work' = [uid |-> u, id |-> protonIdx[u].id, merged |-> merged, protonBase |-> p,
                 push |-> ProtonRelevantDiff(merged, p, base.protonBase)]
      BY <1>2 DEF MergeBoth
  <2>6. pc' \in {"put", "update", "save"}
      BY <1>2 DEF MergeBoth
  <2> HIDE DEF p, c, base, merged
  <2>7. work' \in [uid : UID \cup {NoCard}, id : ID \cup {NoCard}, merged : Card,
                   protonBase : Card, push : BOOLEAN]
      BY <2>1, <2>3, <2>4, <2>5 DEF p
  <2> QED BY <1>1, <1>2, <2>6, <2>7 DEF MergeBoth, Visit, TypeOK, stores, PC
<1>3. CASE CopyToCardDAV(u)
    BY <1>1, <1>3 DEF CopyToCardDAV, Visit, TypeOK, stores, PC, PEntry
<1>4. CASE CopyToProton(u)
  <2>1. carddavIdx[u] \in Card
      BY <1>4 DEF CopyToProton, TypeOK
  <2> QED BY <1>1, <1>4, <2>1 DEF CopyToProton, Visit, TypeOK, stores, PC
<1>5. CASE LeaveOneSided(u) \/ Defer(u)
    BY <1>1, <1>5 DEF LeaveOneSided, Defer, Visit, TypeOK, stores
<1> QED BY <1>2, <1>3, <1>4, <1>5

\* Nor does a write, its failure, or the saving of the bases.
LEMMA WriteType ==
    ASSUME TypeOK,
           Put \/ Update \/ UpdateFails \/ CreateFails \/ Refetch \/ RefetchFails \/ Save
             \/ \E id \in ID : Create(id)
    PROVE  TypeOK'
<1> DEFINE InHand == [uid : UID \cup {NoCard}, id : ID \cup {NoCard}, merged : Card,
                      protonBase : Card, push : BOOLEAN]
<1>1. NoWork \in InHand
    BY EmptyCardType DEF NoWork
<1>2. CASE Put
    BY <1>2, EffectType DEF Put, Works, TypeOK, locals, PC
<1>3. CASE Update
    BY <1>3, EffectType DEF Update, Works, TypeOK, locals, PC
<1>4. CASE UpdateFails
  <2>1. faults' \in 0 .. MaxFault /\ quiet' \in {"no", "running", "yes"}
      BY <1>4, FailsType DEF UpdateFails
  <2>2. contacts' \in [UID -> [ID -> Card \cup {NoCard, Deleted}]]
      BY <1>4, EffectType DEF UpdateFails, TypeOK
  <2> QED BY <1>1, <1>4, <2>1, <2>2 DEF UpdateFails, SkipContact, TypeOK, PC
<1>5. CASE CreateFails
  <2>1. faults' \in 0 .. MaxFault /\ quiet' \in {"no", "running", "yes"}
      BY <1>5, FailsType DEF CreateFails
  <2>2. contacts' \in [UID -> [ID -> Card \cup {NoCard, Deleted}]]
      BY <1>5, EffectType DEF CreateFails, TypeOK
  <2> QED BY <1>1, <1>5, <2>1, <2>2 DEF CreateFails, SkipContact, TypeOK, PC
<1>6. ASSUME NEW id \in ID, Create(id) PROVE TypeOK'
  <2>1. contacts' \in [UID -> [ID -> Card \cup {NoCard, Deleted}]]
      BY <1>6, EffectType DEF Create
  <2>2. work' \in InHand
      BY <1>6 DEF Create, TypeOK
  <2>3. newProton' \in Nat
      BY <1>6 DEF Create, TypeOK
  <2> QED BY <1>6, <2>1, <2>2, <2>3 DEF Create, Works, TypeOK, PC
<1>7. CASE Refetch
  <2>1. work' \in InHand
      BY <1>7 DEF Refetch, TypeOK
  <2> QED BY <1>7, <2>1 DEF Refetch, Works, TypeOK, stores, PC
<1>8. CASE RefetchFails
  <2>1. faults' \in 0 .. MaxFault /\ quiet' \in {"no", "running", "yes"}
      BY <1>8, FailsType DEF RefetchFails
  <2> QED BY <1>8, <2>1 DEF RefetchFails, TypeOK, stores, locals, PC
<1>9. CASE Save
  <2>1. rows' \in [UID -> Row \cup {NoCard}]
      BY <1>9 DEF Save, TypeOK, Row
  <2>2. edited' \in [UID -> [seen : SUBSET Change, late : SUBSET Change]]
      BY <1>9 DEF Save, TypeOK
  <2> QED BY <1>1, <1>9, <2>1, <2>2 DEF Save, Works, TypeOK, PC
<1> QED BY <1>2, <1>3, <1>4, <1>5, <1>6, <1>7, <1>8, <1>9

\* The type invariant, for every step.
LEMMA NextType == TypeOK /\ [Next]_vars => TypeOK'
<1> SUFFICES ASSUME TypeOK, [Next]_vars PROVE TypeOK'
    OBVIOUS
<1>1. CASE User
    BY <1>1, UserType
<1>2. CASE RunStep
    BY <1>2, IndexType, VisitType, WriteType, EndingType DEF RunStep
<1>3. CASE FaultStep
    BY <1>3, IndexType, WriteType, EndingType DEF FaultStep
<1>4. CASE UNCHANGED vars
    BY <1>4 DEF TypeOK, vars, stores, locals
<1> QED BY <1>1, <1>2, <1>3, <1>4 DEF Next, Run

\* The stores, the indexes and the work in hand keep their types through every
\* interleaving of runs, users and faults (reconcile, reconcileBoth).
THEOREM TypeTheorem == Spec => []TypeOK
BY InitType, NextType, PTL DEF Spec
-----------------------------------------------------------------------------
\* Between two calls for a contact, the run holds that contact's UID, and its
\* Proton ID once it has one.
LEMMA InHandStep == TypeOK /\ ContactInHand /\ [Next]_vars => ContactInHand'
<1> SUFFICES ASSUME TypeOK, ContactInHand, [Next]_vars PROVE ContactInHand'
    OBVIOUS
<1> USE DEF ContactInHand
<1>1. CASE User
    BY <1>1 DEF User, UserStep, locals, EditCardDAV, CreateCardDAV, DeleteCardDAV,
           EditProton, CreateProton, DeleteProton
<1>2. CASE StartRun \/ IndexCardDAV \/ Finish \/ IndexFails \/ PutFails \/ SaveFails
             \/ Stop
    BY <1>2 DEF StartRun, IndexCardDAV, Finish, IndexFails, PutFails, SaveFails, Stop,
           EndRun
<1>3. ASSUME NEW u \in UID, NEW id \in ID, FetchCard(u, id) \/ SkipCard(u, id)
      PROVE  ContactInHand'
    BY <1>3 DEF FetchCard, SkipCard
<1>4. ASSUME NEW u \in UID, MergeBoth(u) PROVE ContactInHand'
  <2>1. protonIdx[u].id \in ID
      BY <1>4 DEF MergeBoth, TypeOK, PEntry
  <2>2. work'.uid = u /\ work'.id = protonIdx[u].id /\ pc' \in {"put", "update", "save"}
      BY <1>4 DEF MergeBoth
  <2> QED BY <2>1, <2>2
<1>5. ASSUME NEW u \in UID, CopyToCardDAV(u) \/ CopyToProton(u) \/ LeaveOneSided(u)
                               \/ Defer(u)
      PROVE  ContactInHand'
    BY <1>5 DEF CopyToCardDAV, CopyToProton, LeaveOneSided, Defer, Visit, TypeOK, PEntry
<1>6. CASE Put
    BY <1>6 DEF Put, locals
<1>7. CASE Update \/ RefetchFails
    BY <1>7 DEF Update, RefetchFails, locals
<1>8. CASE UpdateFails \/ CreateFails \/ Save
    BY <1>8 DEF UpdateFails, CreateFails, Save, SkipContact
<1>9. ASSUME NEW id \in ID, Create(id) PROVE ContactInHand'
    BY <1>9 DEF Create, TypeOK
<1>10. CASE Refetch
    BY <1>10 DEF Refetch, TypeOK
<1>11. CASE UNCHANGED vars
    BY <1>11 DEF vars, locals
<1> QED BY <1>1, <1>2, <1>3, <1>4, <1>5, <1>6, <1>7, <1>8, <1>9, <1>10, <1>11
        DEF Next, Run, RunStep, FaultStep

\* Unless a refetch fails, or a contact is deleted before it, every card the run
\* takes for Proton's has been through a write to Proton.
LEMMA StoredStep ==
    ASSUME "refetch" \notin CallFault \cup EditPhase
    PROVE  TypeOK /\ ContactInHand /\ ProtonCardsAreStored /\ [Next]_vars
              => ProtonCardsAreStored'
<1> SUFFICES ASSUME TypeOK, ContactInHand, ProtonCardsAreStored, [Next]_vars
             PROVE  ProtonCardsAreStored'
    OBVIOUS
<1>0. NoCard \notin Card /\ Deleted \notin Card
    BY ReconcileAssumption
<1>1. ASSUME NEW u \in UID, NEW path \in Path,
             EditCardDAV(u, path) \/ CreateCardDAV(u, path) \/ DeleteCardDAV(u, path)
      PROVE  ProtonCardsAreStored'
    BY <1>1 DEF EditCardDAV, CreateCardDAV, DeleteCardDAV, UserStep, locals,
           ProtonCardsAreStored, LacksDropped
<1>2. ASSUME NEW u \in UID, NEW id \in ID,
             EditProton(u, id) \/ CreateProton(u, id) \/ DeleteProton(u, id)
      PROVE  ProtonCardsAreStored'
  <2>1. PICK card \in ProtonCard \cup {Deleted} : contacts' = [contacts EXCEPT ![u][id] = card]
      BY <1>2 DEF EditProton, CreateProton, DeleteProton
  <2>2. pc # "refetch" /\ UNCHANGED <<rows, pc, locals>>
      BY <1>2 DEF EditProton, CreateProton, DeleteProton, UserStep
  <2>3. \A v \in UID, i \in ID : contacts'[v][i] \in Card => LacksDropped(contacts'[v][i])
      BY <1>0, <2>1, UserCardType DEF TypeOK, ProtonCardsAreStored, LacksDropped
  <2> QED BY <2>2, <2>3 DEF ProtonCardsAreStored, locals
<1>3. CASE StartRun \/ IndexCardDAV
    BY <1>3 DEF StartRun, IndexCardDAV, stores, ProtonCardsAreStored
<1>4. CASE Finish \/ IndexFails \/ PutFails \/ SaveFails \/ Stop
    BY <1>4 DEF Finish, IndexFails, PutFails, SaveFails, Stop, EndRun, stores,
           ProtonCardsAreStored
<1>5. ASSUME NEW u \in UID, NEW id \in ID, FetchCard(u, id) PROVE ProtonCardsAreStored'
    BY <1>5 DEF FetchCard, stores, ProtonCardsAreStored, TypeOK
<1>6. ASSUME NEW u \in UID, NEW id \in ID, SkipCard(u, id) PROVE ProtonCardsAreStored'
    BY <1>6 DEF SkipCard, stores, ProtonCardsAreStored
<1>7. ASSUME NEW u \in UID, MergeBoth(u) \/ CopyToCardDAV(u) \/ CopyToProton(u)
                              \/ LeaveOneSided(u) \/ Defer(u)
      PROVE  ProtonCardsAreStored'
  <2>1. UNCHANGED <<stores, protonIdx>> /\ pc = "loop"
      BY <1>7 DEF MergeBoth, CopyToCardDAV, CopyToProton, LeaveOneSided, Defer, Visit
  <2>2. pc' # "refetch" /\ (pc' \in {"put", "save"} => LacksDropped(work'.protonBase))
      BY <1>7, <2>1 DEF MergeBoth, CopyToCardDAV, CopyToProton, LeaveOneSided, Defer,
             ProtonCardsAreStored
  <2> QED BY <2>1, <2>2 DEF ProtonCardsAreStored, stores
<1>8. CASE Put
    BY <1>8 DEF Put, locals, ProtonCardsAreStored
<1>9. ASSUME UpdateEffect, work.uid \in UID, work.id \in ID
      PROVE  /\ contacts'[work.uid][work.id] \in Card
             /\ \A u \in UID, id \in ID :
                    contacts'[u][id] \in Card => LacksDropped(contacts'[u][id])
  <2>1. ProtonStores(work.merged) \in Card /\ LacksDropped(ProtonStores(work.merged))
      BY StoresType DEF TypeOK, LacksDropped
  <2> QED BY <1>9, <2>1 DEF TypeOK, UpdateEffect, ProtonCardsAreStored
<1>10. ASSUME NEW id \in ID, CreateEffect(id), work.uid \in UID
       PROVE  /\ contacts'[work.uid][id] \in Card
              /\ \A u \in UID, i \in ID :
                     contacts'[u][i] \in Card => LacksDropped(contacts'[u][i])
  <2>1. ProtonStores(work.merged) \in Card /\ LacksDropped(ProtonStores(work.merged))
      BY StoresType DEF TypeOK, LacksDropped
  <2> QED BY <1>10, <2>1 DEF TypeOK, CreateEffect, ProtonCardsAreStored
<1>11. CASE Update
    BY <1>9, <1>11 DEF Update, locals, ContactInHand, ProtonCardsAreStored
<1>12. CASE UpdateFails
    BY <1>9, <1>12 DEF UpdateFails, SkipContact, ContactInHand, ProtonCardsAreStored
<1>13. ASSUME NEW id \in ID, Create(id) PROVE ProtonCardsAreStored'
  <2>1. work'.uid = work.uid /\ work'.id = id
      BY <1>13 DEF Create, TypeOK
  <2> QED BY <1>10, <1>13, <2>1 DEF Create, ContactInHand, ProtonCardsAreStored
<1>14. CASE CreateFails
    BY <1>10, <1>14 DEF CreateFails, SkipContact, ContactInHand, ProtonCardsAreStored
<1>15. CASE Refetch
  <2>1. work'.protonBase = contacts[work.uid][work.id]
      BY <1>15 DEF Refetch, TypeOK
  <2> QED BY <1>15, <2>1 DEF Refetch, stores, ContactInHand, ProtonCardsAreStored
<1>16. ~RefetchFails
    BY <1>0 DEF RefetchFails, Fails, ProtonCardsAreStored
<1>17. CASE Save
  <2>1. \A u \in UID : rows'[u] # NoCard => LacksDropped(rows'[u].protonBase)
      BY <1>17 DEF Save, TypeOK, ProtonCardsAreStored
  <2> QED BY <1>17, <2>1 DEF Save, ProtonCardsAreStored
<1>18. CASE UNCHANGED vars
    BY <1>18 DEF vars, stores, locals, ProtonCardsAreStored
<1> QED BY <1>1, <1>2, <1>3, <1>4, <1>5, <1>6, <1>7, <1>8, <1>11, <1>12, <1>13, <1>14,
           <1>15, <1>16, <1>17, <1>18
        DEF Next, User, Run, RunStep, FaultStep

\* The contacts that Proton has at first have been through a write, too.
LEMMA StoredInit ==
    ASSUME Init
    PROVE  ProtonCardsAreStored
<1>1. \A u \in UID, id \in ID : contacts[u][id] \in Card => contacts[u][id] \in ProtonCard
    BY ReconcileAssumption DEF Init
<1>2. pc = "idle" /\ rows = [u \in UID |-> NoCard] /\ protonIdx = [u \in UID |-> NoCard]
    BY DEF Init, NoLocals
<1> QED BY <1>1, <1>2, UserCardType DEF ProtonCardsAreStored, LacksDropped

\* What MergeBoth decides to write keeps CardDAV's value of a dropped property,
\* and the index it compares with stays as it is until the contact is written.
LEMMA KeptStep ==
    TypeOK /\ ProtonCardsAreStored /\ CardDAVOnlyKept /\ [Next]_vars => CardDAVOnlyKept'
<1> SUFFICES ASSUME TypeOK, ProtonCardsAreStored, CardDAVOnlyKept, [Next]_vars
             PROVE  CardDAVOnlyKept'
    OBVIOUS
<1>1. ASSUME NEW u \in UID, MergeBoth(u) PROVE CardDAVOnlyKept'
  <2> DEFINE p      == protonIdx[u].vcard
             c      == carddavIdx[u]
             base   == Bases(u)
             merged == ThreeWayString(base.protonBase, base.carddavBase, p, c, SyncPolicy)
  <2>1. p \in Card /\ c \in Card /\ LacksDropped(p)
      BY <1>1 DEF MergeBoth, TypeOK, PEntry, ProtonCardsAreStored
  <2>2. base.protonBase \in Card /\ base.carddavBase \in Card
      BY BasesType DEF Row
  <2>3. LacksDropped(base.protonBase)
      BY ReconcileAssumption
         DEF Bases, ProtonCardsAreStored, LacksDropped, EmptyCard, Name
  <2>4. work'.uid = u /\ work'.merged = merged /\ carddavIdx' = carddavIdx
      BY <1>1 DEF MergeBoth, Visit
  <2> HIDE DEF p, c, base, merged
  <2>5. \A d \in Dropped : merged[d] = c[d]
      BY <2>1, <2>2, <2>3, MergeKeepsCardDAVOnly, ReconcileAssumption
         DEF merged, LacksDropped
  <2> QED BY <2>4, <2>5 DEF CardDAVOnlyKept, c
<1>2. ASSUME NEW u \in UID, CopyToCardDAV(u) \/ CopyToProton(u) \/ LeaveOneSided(u)
                              \/ Defer(u)
      PROVE  CardDAVOnlyKept'
    BY <1>2 DEF CopyToCardDAV, CopyToProton, LeaveOneSided, Defer, Visit, CardDAVOnlyKept
<1>3. CASE Put
    BY <1>3 DEF Put, locals, CardDAVOnlyKept
<1>4. CASE User \/ UNCHANGED vars
    BY <1>4 DEF User, UserStep, locals, vars, CardDAVOnlyKept, EditCardDAV,
           CreateCardDAV, DeleteCardDAV, EditProton, CreateProton, DeleteProton
<1>5. CASE Next /\ ~User /\ ~Put
           /\ ~(\E u \in UID : MergeBoth(u) \/ CopyToCardDAV(u) \/ CopyToProton(u)
                              \/ LeaveOneSided(u) \/ Defer(u))
  <2>1. pc' \notin {"put", "update"}
      BY <1>5 DEF Next, Run, RunStep, FaultStep, StartRun, IndexCardDAV, Finish,
             IndexFails, PutFails, SaveFails, Stop, EndRun, FetchCard, SkipCard, Update,
             UpdateFails, CreateFails, SkipContact, Create, Refetch, RefetchFails, Save
  <2> QED BY <2>1 DEF CardDAVOnlyKept
<1> QED BY <1>1, <1>2, <1>3, <1>4, <1>5

\* While no refetch fails, Proton's lossy round trip is never taken for an edit
\* made on Proton: what a run writes to CardDAV for a contact of both sides has
\* every CardDAV-only property as the run read it (ThreeWay, reconcileBoth).
THEOREM CardDAVOnlyTheorem ==
    ASSUME "refetch" \notin CallFault \cup EditPhase
    PROVE  Spec => []CardDAVOnlyKept
<1> DEFINE Inv == TypeOK /\ ContactInHand /\ ProtonCardsAreStored /\ CardDAVOnlyKept
<1>1. Init => Inv
    BY InitType, StoredInit DEF Init, ContactInHand, CardDAVOnlyKept
<1>2. Inv /\ [Next]_vars => Inv'
    BY NextType, InHandStep, StoredStep, KeptStep
<1> QED BY <1>1, <1>2, PTL DEF Spec
-----------------------------------------------------------------------------
\* While users edit between runs only: the run's index of CardDAV shows objects
\* that are there, and what it is about to create on a side has no row.
LEMMA CreatesStep ==
    ASSUME EditPhase \subseteq {"idle"}
    PROVE  TypeOK /\ ContactInHand /\ CreatesAreNew /\ [Next]_vars => CreatesAreNew'
<1> SUFFICES ASSUME TypeOK, ContactInHand, CreatesAreNew, [Next]_vars
             PROVE  CreatesAreNew'
    OBVIOUS
<1>1. CASE User
  <2>1. pc = "idle" /\ UNCHANGED <<rows, pc, locals>>
      BY <1>1 DEF User, UserStep, EditCardDAV, CreateCardDAV, DeleteCardDAV,
             EditProton, CreateProton, DeleteProton
  <2> QED BY <2>1 DEF CreatesAreNew, locals
<1>2. CASE Finish \/ IndexFails \/ PutFails \/ SaveFails \/ Stop
    BY <1>2 DEF Finish, IndexFails, PutFails, SaveFails, Stop, EndRun, CreatesAreNew
<1>3. CASE StartRun \/ \E u \in UID, id \in ID : FetchCard(u, id) \/ SkipCard(u, id)
    BY <1>3 DEF StartRun, FetchCard, SkipCard, stores, CreatesAreNew, HasObject
<1>4. CASE IndexCardDAV
    BY <1>4 DEF IndexCardDAV, Indexes, stores, CreatesAreNew, HasObject
<1>5. ASSUME NEW u \in UID, MergeBoth(u) \/ CopyToCardDAV(u) \/ CopyToProton(u)
                              \/ LeaveOneSided(u) \/ Defer(u)
      PROVE  CreatesAreNew'
    BY <1>5 DEF MergeBoth, CopyToCardDAV, CopyToProton, LeaveOneSided, Defer, Visit,
           stores, CreatesAreNew, HasObject
<1>6. CASE Put
  <2>1. \A u \in UID : HasObject(u) => HasObject(u)'
      BY <1>6, ReconcileAssumption DEF Put, PutEffect, HasObject, TypeOK
  <2> QED BY <1>6, <2>1 DEF Put, locals, CreatesAreNew
<1>7. CASE Update \/ UpdateFails \/ CreateFails \/ Refetch \/ RefetchFails \/ Save
           \/ \E id \in ID : Create(id)
    BY <1>7 DEF Update, UpdateFails, CreateFails, SkipContact, Refetch, RefetchFails, Save,
           Create, stores, locals, CreatesAreNew, HasObject
<1>8. CASE UNCHANGED vars
    BY <1>8 DEF vars, stores, locals, CreatesAreNew, HasObject
<1> QED BY <1>1, <1>2, <1>3, <1>4, <1>5, <1>6, <1>7, <1>8
        DEF Next, Run, RunStep, FaultStep

\* A contact that a step of a run makes appear on a side has no row.
LEMMA RunAppears ==
    ASSUME TypeOK, ContactInHand, CreatesAreNew, Run, NEW u \in UID
    PROVE  /\ (~HasObject(u) /\ HasObject(u)') => rows[u] = NoCard
           /\ (~HasContact(u) /\ HasContact(u)') => rows[u] = NoCard
<1>1. ASSUME ~HasObject(u), HasObject(u)' PROVE rows[u] = NoCard
  <2>1. pc = "put" /\ PutEffect
      BY <1>1 DEF Run, RunStep, FaultStep, HasObject, stores, Put, PutFails, StartRun,
             IndexCardDAV, Finish, IndexFails, SaveFails, Stop, FetchCard, SkipCard,
             MergeBoth, CopyToCardDAV, CopyToProton, LeaveOneSided, Defer, Visit, Update,
             UpdateFails, CreateFails, SkipContact, Create, Refetch, RefetchFails, Save
  <2>2. work.uid = u
      BY <1>1, <2>1 DEF PutEffect, HasObject, TypeOK
  <2> QED BY <1>1, <2>1, <2>2 DEF CreatesAreNew
<1>2. ASSUME ~HasContact(u), HasContact(u)' PROVE rows[u] = NoCard
  <2>1. \/ pc = "create" /\ \E id \in ID : CreateEffect(id)
        \/ pc = "update" /\ contacts[work.uid][work.id] \in Card /\ UpdateEffect
      BY <1>2 DEF Run, RunStep, FaultStep, HasContact, stores, Put, PutFails, StartRun,
             IndexCardDAV, Finish, IndexFails, SaveFails, Stop, FetchCard, SkipCard,
             MergeBoth, CopyToCardDAV, CopyToProton, LeaveOneSided, Defer, Visit, Update,
             UpdateFails, CreateFails, SkipContact, Create, Refetch, RefetchFails, Save
  <2>2. work.uid = u
      BY <1>2, <2>1 DEF CreateEffect, UpdateEffect, HasContact, TypeOK
  <2>3. CASE pc = "create"
      BY <2>2, <2>3 DEF CreatesAreNew
  <2>4. CASE pc = "update"
      BY <1>2, <2>1, <2>2, <2>4 DEF ContactInHand, HasContact
  <2> QED BY <2>1, <2>3, <2>4
<1> QED BY <1>1, <1>2

\* While users edit between runs only, no run, whatever fails in it, brings back
\* a contact on a side it is gone from once a row was saved for it (the hasBase
\* checks of reconcile).
THEOREM NoResurrectionTheorem ==
    ASSUME EditPhase \subseteq {"idle"}
    PROVE  Spec => NoResurrection
<1> DEFINE Inv == TypeOK /\ ContactInHand /\ CreatesAreNew
           Step(u) == Run => /\ (~HasObject(u) /\ HasObject(u)') => rows[u] = NoCard
                             /\ (~HasContact(u) /\ HasContact(u)') => rows[u] = NoCard
<1>1. Init => Inv
  <2> SUFFICES ASSUME Init PROVE Inv
      OBVIOUS
  <2>1. pc = "idle" /\ carddavIdx = [u \in UID |-> NoCard]
      BY DEF Init, NoLocals
  <2> QED BY <2>1, InitType DEF ContactInHand, CreatesAreNew
<1>2. Inv /\ [Next]_vars => Inv'
    BY NextType, InHandStep, CreatesStep
<1>3. Inv /\ [Next]_vars => [\A u \in UID : Step(u)]_vars
    BY RunAppears
<1> QED BY <1>1, <1>2, <1>3, PTL DEF Spec, NoResurrection
-----------------------------------------------------------------------------
(***************************************************************************)
(* NoDuplicateContact and QuietAgreement: whatever happened before, one    *)
(* undisturbed run leaves the two sides in agreement.                      *)
(***************************************************************************)
\* Proton refuses a duplicate, or a run misses no contact that is there.
NoneIsMissed == RejectDuplicateUID \/ (EditPhase \subseteq {"idle"} /\ "fetch" \notin CallFault)

\* CardDAV clients write to <uid>.vcf, and write cards that have a VERSION, as
\* vCards must, and a REV that Proton leaves as it is.
PlainClients ==
    /\ UserPath = {OwnPath}
    /\ \A card \in UserCard : CardDAVStable(card)
-----------------------------------------------------------------------------
(***************************************************************************)
(* Cards.                                                                  *)
(***************************************************************************)
LEMMA StoresNames ==
    ASSUME NEW card \in Card, NEW name \in Name \ {"VERSION"}
    PROVE  /\ card[name] \in Value \cup {None}
           /\ ProtonStores(card)[name] = IF name \in Dropped THEN None ELSE Fold[card[name]]
<1>1. card[name] \in Value \cup {None}
    BY DEF Card
<1> QED BY <1>1 DEF ProtonStores

\* What a write leaves on Proton is left alone by the next one.
LEMMA StoresStable ==
    ASSUME NEW card \in Card
    PROVE  ProtonStable(ProtonStores(card))
<1>1. "VERSION" \in Name /\ "VERSION" \notin Dropped
    BY CardAssumption, ReconcileAssumption DEF Name
<1>2. \A name \in Name \ {"VERSION"} :
        Fold[ProtonStores(card)[name]] = ProtonStores(card)[name]
    BY StoresNames, ReconcileAssumption
<1> QED BY <1>1, <1>2 DEF ProtonStable, ProtonStores

\* A write of c agrees with c.
LEMMA StoresAgrees ==
    ASSUME NEW c \in Card
    PROVE  Agree(ProtonStores(c), c)
<1>1. "UID" \in Name \ {"VERSION"}
    BY DEF Name
<1>2. ProtonStores(c)["UID"] # None => c["UID"] # None
    BY <1>1, StoresNames, ReconcileAssumption
<1> QED BY <1>2 DEF Agree

LEMMA MergedIdentity ==
    ASSUME NEW pb \in Card, NEW cb \in Card, NEW p \in Card, NEW c \in Card,
           NEW pol \in Policy, NEW m, m = ThreeWayString(pb, cb, p, c, pol)
    PROVE  /\ m["UID"] = setIdentity("UID", c, p)
           /\ m["VERSION"] = MergedVersion(p, c)
           /\ m["REV"] = MergedRev(p, c)
BY DEF ThreeWayString, ThreeWay, Name

\* A merge that warrants no write to Proton agrees with Proton's card.
LEMMA UnpushedAgrees ==
    ASSUME NEW pb \in Card, NEW cb \in Card, NEW p \in Card, NEW c \in Card,
           NEW pol \in Policy, NEW m, m = ThreeWayString(pb, cb, p, c, pol),
           ~ProtonRelevantDiff(m, p, pb)
    PROVE  Agree(p, m)
<1>1. p["UID"] # None => m["UID"] # None
    BY MergedIdentity DEF setIdentity
<1>2. \A name \in Keys(p) \ {"VERSION"} : m[name] = p[name]
    BY DEF ProtonRelevantDiff, unionKeys
<1> QED BY <1>1, <1>2 DEF Agree

LEMMA MergeStable ==
    ASSUME NEW pb \in Card, NEW cb \in Card, NEW p \in Card, NEW c \in Card,
           NEW pol \in Policy, ProtonStable(p), CardDAVStable(c)
    PROVE  CardDAVStable(ThreeWayString(pb, cb, p, c, pol))
<1> DEFINE m == ThreeWayString(pb, cb, p, c, pol)
<1>1. m["VERSION"] = MergedVersion(p, c) /\ m["REV"] = MergedRev(p, c)
    BY MergedIdentity
<1>2. "REV" \in Name \ {"VERSION"}
    BY DEF Name
<1>3. Fold[p["REV"]] = p["REV"] /\ Fold[c["REV"]] = c["REV"]
    BY <1>2 DEF ProtonStable, CardDAVStable
<1>4. MergedRev(p, c) \in {p["REV"], c["REV"]}
    BY DEF MergedRev, setIdentity
<1>5. MergedVersion(p, c) # None
    BY DEF MergedVersion, setIdentity, CardDAVStable
<1> QED BY <1>1, <1>3, <1>4, <1>5 DEF CardDAVStable

\* Proton's card in a pair that agrees, name by name.
LEMMA AgreedNames ==
    ASSUME NEW p \in Card, NEW c \in Card, Agree(p, c), ProtonStable(p),
           NEW name \in Name \ {"VERSION"}
    PROVE  p[name] \in {None, Fold[c[name]]}
<1>1. CASE p = ProtonStores(c)
    BY <1>1, StoresNames
<1>2. CASE \A n \in Keys(p) \ {"VERSION"} : c[n] = p[n]
    BY <1>2 DEF Keys, ProtonStable
<1> QED BY <1>1, <1>2 DEF Agree

\* With two cards that agree as bases, their merge is CardDAV's card.
LEMMA SettledMerge ==
    ASSUME NEW p \in Card, NEW c \in Card, NEW pol \in Policy, Agree(p, c),
           ProtonStable(p), CardDAVStable(c)
    PROVE  ThreeWayString(p, c, p, c, pol) = c
<1> DEFINE m == ThreeWayString(p, c, p, c, pol)
           winner == Winner(pol, p, c)
<1>1. m \in Card
    BY MergeType
<1>2. m["UID"] = c["UID"] /\ m["VERSION"] = c["VERSION"]
    BY MergedIdentity DEF setIdentity, MergedVersion, Agree, CardDAVStable
<1>3. m["REV"] = c["REV"]
  <2>1. "REV" \in Name \ {"VERSION"}
      BY DEF Name
  <2>2. p["REV"] \in {None, c["REV"]}
      BY <2>1, AgreedNames DEF CardDAVStable
  <2>3. c["REV"] = None => p["REV"] = None
      BY <2>2
  <2>4. MergedRev(p, c) = c["REV"]
      BY <2>2, <2>3 DEF MergedRev, setIdentity
  <2> QED BY <2>4, MergedIdentity
<1>4. ASSUME NEW name \in Name, name \notin {"UID", "VERSION", "REV"}
      PROVE  m[name] = c[name]
  <2>1. p[name] \in {None, Fold[c[name]]}
      BY <1>4, AgreedNames
  <2>2. c[name] = None => p[name] = None
      BY <2>1, ReconcileAssumption
  <2>3. m[name] = MergeProp(p[name], c[name], p[name], c[name], winner)
      BY <1>4 DEF ThreeWayString, ThreeWay
  <2> QED BY <2>2, <2>3 DEF MergeProp
<1> QED BY <1>1, <1>2, <1>3, <1>4, CardExtensionality

\* A write that such a merge still warrants is of a value that Proton changes,
\* and leaves what is there.
LEMMA SettledPush ==
    ASSUME NEW p \in Card, NEW c \in Card, Agree(p, c), ProtonRelevantDiff(c, p, p)
    PROVE  p = ProtonStores(c) /\ Normalised(c)
<1>1. PICK name \in Keys(p) \ {"VERSION"} : c[name] # p[name]
    BY DEF ProtonRelevantDiff, unionKeys
<1>2. p = ProtonStores(c)
    BY <1>1 DEF Agree
<1>3. name \in Name \ {"VERSION"} /\ p[name] = Fold[c[name]]
    BY <1>1, <1>2, StoresNames DEF Keys
<1> QED BY <1>1, <1>2, <1>3 DEF Normalised
-----------------------------------------------------------------------------
(***************************************************************************)
(* One contact for each UID.                                               *)
(***************************************************************************)
LEMMA OneInit == Init => OneContact
<1> SUFFICES ASSUME Init PROVE OneContact
    OBVIOUS
<1>1. \/ \A u \in UID, id \in ID : contacts[u][id] = NoCard
      \/ \E first \in ID : \A u \in UID, id \in ID : id # first => contacts[u][id] = NoCard
    BY DEF Init
<1>2. \A u \in UID, i, j \in ID :
        contacts[u][i] \in Card /\ contacts[u][j] \in Card => i = j
    BY <1>1, ReconcileAssumption
<1> QED BY <1>2 DEF Init, OneContact

\* A contact that a write changes is there before and after it, and one that is
\* created is alone.
LEMMA WritesOneContact ==
    ASSUME TypeOK, ContactInHand, OneContact,
           \/ pc = "update" /\ contacts[work.uid][work.id] \in Card /\ UpdateEffect
           \/ pc = "create" /\ \E id \in ID : CreateEffect(id)
    PROVE  /\ \A u \in UID, i, j \in ID :
                 contacts'[u][i] \in Card /\ contacts'[u][j] \in Card => i = j
           /\ \A u \in UID \ {work.uid} : contacts'[u] = contacts[u]
<1>1. CASE pc = "update"
  <2>1. /\ contacts[work.uid][work.id] \in Card
        /\ work.uid \in UID /\ work.id \in ID
        /\ contacts' = [contacts EXCEPT ![work.uid][work.id] = ProtonStores(work.merged)]
      BY <1>1 DEF UpdateEffect, ContactInHand
  <2>2. \A u \in UID, i \in ID : contacts'[u][i] \in Card => contacts[u][i] \in Card
      BY <2>1 DEF TypeOK
  <2> QED BY <2>1, <2>2 DEF OneContact, TypeOK
<1>2. CASE pc = "create"
  <2>1. PICK id \in ID : CreateEffect(id)
      BY <1>2
  <2>2. ~HasContact(work.uid)
      BY <1>2, <2>1, ReconcileAssumption DEF CreateEffect, Refused, OneContact
  <2> QED BY <1>2, <2>1, <2>2 DEF CreateEffect, ContactInHand, OneContact, TypeOK,
             HasContact
<1> QED BY <1>1, <1>2

LEMMA OneStep ==
    ASSUME NoneIsMissed, TypeOK, ContactInHand, OneContact, [Next]_vars
    PROVE  OneContact'
<1>1. CASE User
  <2>1. UNCHANGED <<pc, locals>> /\ (RejectDuplicateUID \/ pc = "idle")
      BY <1>1 DEF User, UserStep, EditCardDAV, CreateCardDAV, DeleteCardDAV,
             EditProton, CreateProton, DeleteProton, NoneIsMissed
  <2>2. \/ UNCHANGED contacts
        \/ \E u \in UID, id \in ID, card \in Card \cup {Deleted} :
              /\ contacts[u][id] \in Card \/ ~HasContact(u)
              /\ contacts' = [contacts EXCEPT ![u][id] = card]
      BY <1>1, UserCardType DEF User, EditCardDAV, CreateCardDAV, DeleteCardDAV,
             EditProton, CreateProton, DeleteProton
  <2>3. \A u \in UID, i, j \in ID :
           contacts'[u][i] \in Card /\ contacts'[u][j] \in Card => i = j
    <3>1. CASE UNCHANGED contacts
        BY <3>1 DEF OneContact
    <3>2. ASSUME NEW u \in UID, NEW id \in ID, NEW card \in Card \cup {Deleted},
                 contacts[u][id] \in Card \/ ~HasContact(u),
                 contacts' = [contacts EXCEPT ![u][id] = card]
          PROVE  \A v \in UID, i, j \in ID :
                    contacts'[v][i] \in Card /\ contacts'[v][j] \in Card => i = j
      <4>1. \A v \in UID, i \in ID : contacts'[v][i] \in Card
               => contacts[v][i] \in Card \/ (v = u /\ i = id)
          BY <3>2 DEF TypeOK
      <4> QED BY <3>2, <4>1 DEF OneContact, HasContact
    <3> QED BY <2>2, <3>1, <3>2
  <2> QED BY <2>1, <2>3 DEF OneContact, locals
<1>2. CASE Finish \/ IndexFails \/ PutFails \/ SaveFails \/ Stop
    BY <1>2 DEF Finish, IndexFails, PutFails, SaveFails, Stop, EndRun, OneContact, stores
<1>3. CASE StartRun
    BY <1>3 DEF StartRun, OneContact, stores
<1>4. ASSUME NEW u \in UID, NEW id \in ID, FetchCard(u, id) \/ SkipCard(u, id)
      PROVE  OneContact'
  <2>1. /\ UNCHANGED <<contacts, pc>> /\ pc = "fetch" /\ pending' = pending \ {<<u, id>>}
        /\ \A v \in UID \ {u} : protonIdx'[v] = protonIdx[v]
        /\ ~RejectDuplicateUID /\ contacts[u][id] \in Card
             => protonIdx'[u] = [id |-> id, vcard |-> contacts[u][id]]
        /\ protonIdx[u] # NoCard => protonIdx'[u] # NoCard
      BY <1>4, ReconcileAssumption, RowAssumption
         DEF FetchCard, SkipCard, stores, Fails, NoneIsMissed, TypeOK, PEntry
  <2>2. ~RejectDuplicateUID /\ contacts[u][id] \in Card => protonIdx'[u] # NoCard
      BY <2>1, RowAssumption DEF PEntry
  <2> QED BY <2>1, <2>2 DEF OneContact
<1>5. CASE IndexCardDAV
    BY <1>5 DEF IndexCardDAV, stores, OneContact, HasContact
<1>6. ASSUME NEW u \in UID, MergeBoth(u) \/ CopyToCardDAV(u) \/ CopyToProton(u)
                              \/ LeaveOneSided(u) \/ Defer(u)
      PROVE  OneContact'
    BY <1>6 DEF MergeBoth, CopyToCardDAV, CopyToProton, LeaveOneSided, Defer, Visit,
           stores, OneContact, HasContact
<1>7. CASE Put \/ Refetch \/ RefetchFails \/ Save
    BY <1>7 DEF Put, Refetch, RefetchFails, Save, stores, locals, OneContact, HasContact
<1>8. CASE Update \/ UpdateFails \/ CreateFails \/ \E id \in ID : Create(id)
  <2>1. /\ pc \in {"update", "create"} /\ pc' \in {"loop", "refetch"}
        /\ UNCHANGED <<pending, protonIdx, todo>>
      BY <1>8 DEF Update, UpdateFails, CreateFails, SkipContact, Create, locals
  <2>2. CASE UNCHANGED contacts
      BY <2>1, <2>2 DEF OneContact, HasContact
  <2>3. CASE \/ pc = "update" /\ contacts[work.uid][work.id] \in Card /\ UpdateEffect
             \/ pc = "create" /\ \E id \in ID : CreateEffect(id)
    <3>1. \A u \in todo : HasContact(u)' => HasContact(u) \/ (pc = "create" /\ u = work.uid)
        BY <2>3, WritesOneContact DEF TypeOK, HasContact, ContactInHand
    <3> QED BY <2>1, <2>3, <3>1, WritesOneContact DEF OneContact
  <2> QED BY <1>8, <2>2, <2>3 DEF Update, UpdateFails, CreateFails, Create
<1>9. CASE UNCHANGED vars
    BY <1>9 DEF vars, stores, locals, OneContact, HasContact
<1> QED BY <1>1, <1>2, <1>3, <1>4, <1>5, <1>6, <1>7, <1>8, <1>9
        DEF Next, Run, RunStep, FaultStep

LEMMA OneCorrect ==
    ASSUME NoneIsMissed
    PROVE  Spec => [](TypeOK /\ ContactInHand /\ OneContact)
<1>1. Init => ContactInHand
    BY DEF Init, ContactInHand
<1>2. TypeOK /\ ContactInHand /\ OneContact /\ [Next]_vars
        => (TypeOK /\ ContactInHand /\ OneContact)'
    BY NextType, InHandStep, OneStep
<1> QED BY <1>1, <1>2, InitType, OneInit, PTL DEF Spec

\* As long as a run misses no contact that is there, or Proton refuses a second
\* one, no retry after any number of faults and kills makes a UID's second
\* contact (protonByUID and the create of reconcile).
THEOREM NoDuplicateTheorem ==
    ASSUME NoneIsMissed
    PROVE  Spec => []NoDuplicateContact
<1>1. OneContact => NoDuplicateContact
  <2> SUFFICES ASSUME OneContact, NEW u \in UID
               PROVE  Cardinality({id \in ID : contacts[u][id] \in Card}) <= 1
      BY DEF NoDuplicateContact
  <2> DEFINE found == {id \in ID : contacts[u][id] \in Card}
  <2>1. found = {} \/ \E id \in ID : found = {id}
      BY DEF OneContact
  <2> HIDE DEF found
  <2>2. Cardinality(found) = 0 \/ Cardinality(found) = 1
      BY <2>1, FS_EmptySet, FS_Singleton
  <2>3. Cardinality(found) <= 1
      BY <2>2
  <2> QED BY <2>3 DEF found
<1> QED BY <1>1, OneCorrect, PTL
-----------------------------------------------------------------------------
(***************************************************************************)
(* The cards that are about.                                               *)
(***************************************************************************)
\* What users write is as the two sides have it.
LEMMA UserCardsStable ==
    ASSUME PlainClients
    PROVE  /\ \A card \in UserCard : CardDAVStable(card)
           /\ \A card \in ProtonCard : ProtonStable(card)
BY UserCardType, StoresStable DEF PlainClients, ProtonCard

LEMMA StableInit ==
    ASSUME PlainClients, Init
    PROVE  CardsAreStable
<1>1. \A u \in UID, path \in Path : objects[u][path] # NoCard
         => path = OwnPath /\ objects[u][path] \in UserCard
  <2>1. /\ objects \in [UID -> [Path -> UserCard \cup {NoCard}]]
        /\ \A u \in UID, path \in Path \ UserPath : objects[u][path] = NoCard
      BY DEF Init
  <2> QED BY <2>1 DEF PlainClients
<1>2. \A u \in UID, id \in ID : contacts[u][id] \in Card => contacts[u][id] \in ProtonCard
    BY ReconcileAssumption DEF Init
<1>3. /\ pc = "idle"
      /\ \A u \in UID : protonIdx[u] = NoCard /\ carddavIdx[u] = NoCard
    BY DEF Init, NoLocals
<1> QED BY <1>1, <1>2, <1>3, UserCardsStable DEF CardsAreStable, Handling

\* A stored card is as Proton has it, wherever it is.
LEMMA StableStores ==
    ASSUME TypeOK, ContactInHand, CardsAreStable,
           \/ pc = "update" /\ UpdateEffect
           \/ pc = "create" /\ \E id \in ID : CreateEffect(id)
    PROVE  \A u \in UID, id \in ID : contacts'[u][id] \in Card => ProtonStable(contacts'[u][id])
<1>1. PICK id : contacts' = [contacts EXCEPT ![work.uid][id] = ProtonStores(work.merged)]
    BY DEF UpdateEffect, CreateEffect
<1>2. work.merged \in Card /\ work.uid \in UID
    BY DEF TypeOK, ContactInHand
<1>3. ProtonStable(ProtonStores(work.merged))
    BY <1>2, StoresStable
<1> HIDE DEF ProtonStores
<1> QED BY <1>1, <1>2, <1>3 DEF CardsAreStable, TypeOK

LEMMA StablePut ==
    ASSUME TypeOK, ContactInHand, CardsAreStable, pc = "put", PutEffect
    PROVE  \A u \in UID, path \in Path : objects'[u][path] # NoCard
              => path = OwnPath /\ CardDAVStable(objects'[u][path])
BY ReconcileAssumption DEF PutEffect, CardsAreStable, Handling, ContactInHand, TypeOK

\* A card from Proton is as CardDAV may have one.
LEMMA ProtonStableSends ==
    ASSUME NEW card, ProtonStable(card)
    PROVE  CardDAVStable(card)
<1>1. "REV" \in Name \ {"VERSION"}
    BY DEF Name
<1> QED BY <1>1, CardAssumption DEF ProtonStable, CardDAVStable

LEMMA StableStep ==
    ASSUME PlainClients, TypeOK, ContactInHand, CardsAreStable, [Next]_vars
    PROVE  CardsAreStable'
<1>1. CASE User
  <2>1. UNCHANGED <<pc, locals>>
      BY <1>1 DEF User, UserStep, EditCardDAV, CreateCardDAV, DeleteCardDAV,
             EditProton, CreateProton, DeleteProton
  <2>2. \A u \in UID, path \in Path : objects'[u][path] # NoCard
           => \/ objects'[u][path] = objects[u][path]
              \/ path = OwnPath /\ objects'[u][path] \in UserCard
    <3>1. \/ UNCHANGED objects
          \/ \E u \in UID, path \in Path, card \in UserCard \cup {NoCard} :
                /\ card # NoCard => path = OwnPath
                /\ objects' = [objects EXCEPT ![u][path] = card]
        BY <1>1, ReconcileAssumption
           DEF User, EditCardDAV, CreateCardDAV, DeleteCardDAV, EditProton, CreateProton,
               DeleteProton, PlainClients, CardsAreStable
    <3>2. ASSUME NEW u \in UID, NEW path \in Path, NEW card \in UserCard \cup {NoCard},
                 card # NoCard => path = OwnPath,
                 objects' = [objects EXCEPT ![u][path] = card],
                 NEW v \in UID, NEW q \in Path, objects'[v][q] # NoCard
          PROVE  objects'[v][q] = objects[v][q] \/ (q = OwnPath /\ objects'[v][q] \in UserCard)
      <4>1. CASE v = u /\ q = path
          BY <3>2, <4>1 DEF TypeOK
      <4>2. CASE ~(v = u /\ q = path)
          BY <3>2, <4>2 DEF TypeOK
      <4> QED BY <4>1, <4>2
    <3> QED BY <3>1, <3>2
  <2>3. \A u \in UID, id \in ID : contacts'[u][id] \in Card
           => contacts'[u][id] = contacts[u][id] \/ contacts'[u][id] \in ProtonCard
    <3>1. \/ UNCHANGED contacts
          \/ \E u \in UID, id \in ID, card \in ProtonCard \cup {Deleted} :
                contacts' = [contacts EXCEPT ![u][id] = card]
        BY <1>1 DEF User, EditCardDAV, CreateCardDAV, DeleteCardDAV, EditProton,
               CreateProton, DeleteProton
    <3>2. ASSUME NEW u \in UID, NEW id \in ID, NEW card \in ProtonCard \cup {Deleted},
                 contacts' = [contacts EXCEPT ![u][id] = card],
                 NEW v \in UID, NEW i \in ID, contacts'[v][i] \in Card
          PROVE  contacts'[v][i] = contacts[v][i] \/ contacts'[v][i] \in ProtonCard
      <4>1. CASE v = u /\ i = id
          BY <3>2, <4>1, ReconcileAssumption DEF TypeOK
      <4>2. CASE ~(v = u /\ i = id)
          BY <3>2, <4>2 DEF TypeOK
      <4> QED BY <4>1, <4>2
    <3> QED BY <3>1, <3>2
  <2> QED BY <2>1, <2>2, <2>3, UserCardsStable DEF locals, CardsAreStable, Handling
<1>2. CASE Finish \/ IndexFails \/ SaveFails \/ Stop
  <2>1. UNCHANGED <<objects, contacts>> /\ EndRun
      BY <1>2 DEF Finish, IndexFails, SaveFails, Stop, stores
  <2> QED BY <2>1 DEF EndRun, CardsAreStable, Handling
<1>3. CASE PutFails
    BY <1>3, StablePut DEF PutFails, EndRun, CardsAreStable, Handling
<1>4. CASE StartRun
    BY <1>4 DEF StartRun, stores, CardsAreStable, Handling
<1>5. ASSUME NEW u \in UID, NEW id \in ID, FetchCard(u, id) \/ SkipCard(u, id)
      PROVE  CardsAreStable'
  <2>1. /\ UNCHANGED <<objects, contacts, carddavIdx, work, pc>> /\ pc = "fetch"
        /\ \A v \in UID \ {u} : protonIdx'[v] = protonIdx[v]
        /\ \/ protonIdx'[u] = protonIdx[u]
           \/ contacts[u][id] \in Card
              /\ protonIdx'[u] = [id |-> id, vcard |-> contacts[u][id]]
      BY <1>5 DEF FetchCard, SkipCard, stores, TypeOK
  <2>2. protonIdx'[u] # NoCard => ProtonStable(protonIdx'[u].vcard)
      BY <2>1 DEF CardsAreStable
  <2> QED BY <2>1, <2>2 DEF CardsAreStable, Handling
<1>6. CASE IndexCardDAV
  <2>1. \A u \in UID : carddavIdx'[u] # NoCard => CardDAVStable(carddavIdx'[u])
      BY <1>6 DEF IndexCardDAV, Indexes, CardsAreStable
  <2> QED BY <1>6, <2>1 DEF IndexCardDAV, stores, CardsAreStable, Handling
<1>7. ASSUME NEW u \in UID, MergeBoth(u) PROVE CardsAreStable'
  <2> DEFINE p == protonIdx[u].vcard
             c == carddavIdx[u]
             base == Bases(u)
             m == ThreeWayString(base.protonBase, base.carddavBase, p, c, SyncPolicy)
  <2>1. p \in Card /\ c \in Card /\ base.protonBase \in Card /\ base.carddavBase \in Card
      BY <1>7, BasesType DEF MergeBoth, TypeOK, PEntry, Row
  <2>2. ProtonStable(p) /\ CardDAVStable(c)
      BY <1>7 DEF MergeBoth, CardsAreStable
  <2>3. CardDAVStable(m)
      BY <2>1, <2>2, MergeStable, ReconcileAssumption
  <2>4. work'.merged = m /\ pc' # "idle"
      BY <1>7 DEF MergeBoth
  <2> QED BY <1>7, <2>3, <2>4 DEF MergeBoth, Visit, stores, CardsAreStable
<1>8. ASSUME NEW u \in UID, CopyToCardDAV(u) \/ CopyToProton(u) \/ LeaveOneSided(u)
                               \/ Defer(u)
      PROVE  CardsAreStable'
  <2>1. CASE CopyToCardDAV(u)
    <3>1. CardDAVStable(protonIdx[u].vcard)
        BY <2>1, ProtonStableSends DEF CopyToCardDAV, CardsAreStable
    <3> QED BY <2>1, <3>1 DEF CopyToCardDAV, Visit, stores, CardsAreStable
  <2>2. CASE CopyToProton(u) \/ LeaveOneSided(u) \/ Defer(u)
      BY <2>2 DEF CopyToProton, LeaveOneSided, Defer, Visit, stores, CardsAreStable, Handling
  <2> QED BY <1>8, <2>1, <2>2
<1>9. CASE Put
    BY <1>9, StablePut DEF Put, locals, CardsAreStable, Handling
<1>10. CASE Update \/ UpdateFails \/ CreateFails \/ \E id \in ID : Create(id)
  <2>1. /\ pc \in {"update", "create"} /\ pc' \in {"loop", "refetch"}
        /\ UNCHANGED <<objects, protonIdx, carddavIdx>>
        /\ pc' = "refetch" => work'.merged = work.merged
      BY <1>10 DEF Update, UpdateFails, CreateFails, SkipContact, Create, locals, TypeOK
  <2>2. \A u \in UID, id \in ID :
           contacts'[u][id] \in Card => ProtonStable(contacts'[u][id])
    <3>1. \/ UNCHANGED contacts
          \/ pc = "update" /\ UpdateEffect
          \/ pc = "create" /\ \E id \in ID : CreateEffect(id)
        BY <1>10 DEF Update, UpdateFails, CreateFails, Create
    <3> QED BY <3>1, StableStores DEF CardsAreStable
  <2> QED BY <2>1, <2>2 DEF CardsAreStable, Handling
<1>11. CASE Refetch \/ RefetchFails \/ Save
    BY <1>11 DEF Refetch, RefetchFails, Save, stores, locals, CardsAreStable, Handling, TypeOK
<1>12. CASE UNCHANGED vars
    BY <1>12 DEF vars, stores, locals, CardsAreStable, Handling
<1> QED BY <1>1, <1>2, <1>3, <1>4, <1>5, <1>6, <1>7, <1>8, <1>9, <1>10, <1>11, <1>12
        DEF Next, Run, RunStep, FaultStep
-----------------------------------------------------------------------------
(***************************************************************************)
(* An undisturbed run settles every contact.                               *)
(***************************************************************************)
Known == TypeOK /\ ContactInHand /\ OneContact /\ CardsAreStable

\* Nothing that settles u is anywhere but in the stores.
LEMMA SettledSame ==
    ASSUME NEW u \in UID, Settled(u), UNCHANGED <<objects[u], contacts[u], rows[u]>>
    PROVE  Settled(u)'
BY DEF Settled, HasObject, HasContact

LEMMA IndexedSame ==
    ASSUME NEW u \in UID, IndexedProton(u), UNCHANGED <<contacts[u], protonIdx[u]>>
    PROVE  IndexedProton(u)'
BY DEF IndexedProton, HasContact

LEMMA OneObject ==
    ASSUME Known, NEW u \in UID
    PROVE  HasObject(u) <=> objects[u][OwnPath] # NoCard
BY ReconcileAssumption DEF Known, CardsAreStable, HasObject

LEMMA SettleInit ==
    ASSUME Init
    PROVE  RunSettles /\ HandSettles
BY DEF Init, RunSettles, HandSettles

LEMMA SettleStart ==
    ASSUME Known, RunSettles, StartRun
    PROVE  RunSettles' /\ HandSettles'
<1>1. ASSUME NEW u \in UID, NEW id \in ID
      PROVE  <<u, id>> \in pending' <=> contacts[u][id] \in Card
    BY DEF StartRun
<1>2. \A u \in UID : protonIdx'[u] = NoCard
    BY DEF StartRun, Known, CardsAreStable
<1>3. quiet' = "yes" => \A u \in UID : Settled(u)'
    BY SettledSame DEF StartRun, RunSettles, stores
<1>4. contacts' = contacts /\ pc' = "fetch"
    BY DEF StartRun, stores
<1> QED BY <1>1, <1>2, <1>3, <1>4 DEF RunSettles, HandSettles, Handling, IndexedProton, HasContact

LEMMA SettleFetch ==
    ASSUME Known, RunSettles, NEW u \in UID, NEW id \in ID,
           FetchCard(u, id) \/ SkipCard(u, id)
    PROVE  RunSettles' /\ HandSettles'
<1>1. CASE quiet' = "no"
    BY <1>1 DEF RunSettles, HandSettles
<1>2. CASE quiet' # "no"
  <2>1. /\ pc = "fetch" /\ pc' = "fetch" /\ quiet' = quiet /\ UNCHANGED stores
        /\ pending' = pending \ {<<u, id>>} /\ <<u, id>> \in pending
        /\ \A v \in UID \ {u} : protonIdx'[v] = protonIdx[v]
      BY <1>2 DEF FetchCard, SkipCard, Works, Fails, Known, TypeOK
  <2>2. contacts[u][id] \in Card
      BY <1>2, <2>1 DEF RunSettles
  <2>3. protonIdx'[u] = [id |-> id, vcard |-> contacts[u][id]]
      BY <1>2, <2>2, ReconcileAssumption
         DEF FetchCard, SkipCard, Works, Fails, Known, TypeOK
  <2>4. IndexedProton(u)'
    <3>1. protonIdx'[u] \in PEntry
        BY <2>2, <2>3 DEF PEntry
    <3> QED BY <2>1, <2>3, <3>1, RowAssumption DEF IndexedProton, stores
  <2>5. ASSUME NEW v \in UID, v # u
        PROVE  IndexedProton(v)' \/ \E i \in ID : <<v, i>> \in pending'
    <3>1. CASE IndexedProton(v)
        BY <2>1, <2>5, <3>1, IndexedSame DEF stores
    <3>2. CASE \E i \in ID : <<v, i>> \in pending
        BY <2>1, <2>5, <3>2
    <3> QED BY <1>2, <2>1, <3>1, <3>2 DEF RunSettles
  <2>6. quiet' = "yes" => \A v \in UID : Settled(v)'
      BY <2>1, SettledSame DEF RunSettles, stores
  <2> QED BY <1>2, <2>1, <2>4, <2>5, <2>6 DEF RunSettles, HandSettles, Handling, stores
<1> QED BY <1>1, <1>2

LEMMA SettleIndex ==
    ASSUME Known, RunSettles, IndexCardDAV
    PROVE  RunSettles' /\ HandSettles'
<1>1. CASE quiet' = "no"
    BY <1>1 DEF RunSettles, HandSettles
<1>2. CASE quiet' # "no"
  <2>1. /\ pc = "fetch" /\ pc' = "loop" /\ quiet' = quiet /\ pending = {}
        /\ UNCHANGED <<objects, contacts, rows, protonIdx>>
        /\ todo' = {u \in UID : protonIdx[u] # NoCard \/ carddavIdx'[u] # NoCard}
      BY DEF IndexCardDAV, Works, stores
  <2>2. \A u \in UID : IndexedProton(u)
      BY <1>2, <2>1 DEF RunSettles
  <2>3. \A u \in UID : IndexedProton(u)'
      BY <2>1, <2>2, IndexedSame
  <2>4. ASSUME NEW u \in UID PROVE carddavIdx'[u] = objects[u][OwnPath]
    <3>1. PICK path \in Path : /\ carddavIdx'[u] = objects[u][path]
                               /\ HasObject(u) => objects[u][path] # NoCard
        BY DEF IndexCardDAV, Indexes
    <3> QED BY <3>1, OneObject DEF Known, CardsAreStable
  <2>5. ASSUME NEW u \in UID, u \notin todo' PROVE Settled(u)'
    <3>1. protonIdx[u] = NoCard /\ carddavIdx'[u] = NoCard
        BY <2>1, <2>5
    <3>2. ~HasContact(u) /\ ~HasObject(u)
        BY <2>2, <2>4, <3>1, OneObject DEF IndexedProton
    <3>3. Settled(u)
        BY <3>2 DEF Settled
    <3> QED BY <2>1, <3>3, SettledSame
  <2>6. quiet' = "yes" => \A u \in UID : Settled(u)'
      BY <2>1, SettledSame DEF RunSettles
  <2> QED BY <2>1, <2>3, <2>4, <2>5, <2>6 DEF RunSettles, HandSettles, Handling
<1> QED BY <1>1, <1>2

\* What all cases of a visit share: what is not u's is as it was.
LEMMA SettleVisit ==
    ASSUME Known, RunSettles, NEW u \in UID, Visit(u), quiet' = quiet, quiet # "no",
           pc' # "idle", pc' # "fetch",
           Settled(u) \/ (Handling' /\ work'.uid = u),
           quiet = "yes" => pc' \notin {"put", "create"}
    PROVE  RunSettles'
<1>1. /\ pc = "loop" /\ todo' = todo \ {u}
      /\ UNCHANGED <<objects, contacts, rows, protonIdx, carddavIdx>>
    BY DEF Visit, stores
<1>2. \A v \in todo' : IndexedProton(v)' /\ carddavIdx'[v] = objects'[v][OwnPath]
    BY <1>1, IndexedSame DEF RunSettles, Known, TypeOK
<1>3. \A v \in UID : Settled(v) => Settled(v)'
    BY <1>1, SettledSame
<1>4. \A v \in UID \ todo : Settled(v)
    BY <1>1 DEF RunSettles, Handling
<1> QED BY <1>1, <1>2, <1>3, <1>4 DEF RunSettles

\* A contact found on both sides goes on to where it is settled; if it is settled
\* already, the run does not write it to CardDAV.
LEMMA SettleMerge ==
    ASSUME Known, RunSettles, NEW u \in UID, MergeBoth(u)
    PROVE  RunSettles' /\ HandSettles'
<1>1. CASE quiet' = "no"
    BY <1>1 DEF RunSettles, HandSettles
<1>2. CASE quiet' # "no"
  <2> DEFINE i == protonIdx[u].id
             p == protonIdx[u].vcard
             c == carddavIdx[u]
             base == Bases(u)
             m == ThreeWayString(base.protonBase, base.carddavBase, p, c, SyncPolicy)
             push == ProtonRelevantDiff(m, p, base.protonBase)
  <2>1. /\ Visit(u) /\ quiet' = quiet /\ quiet # "no" /\ pc = "loop" /\ u \in todo
        /\ protonIdx[u] # NoCard /\ c # NoCard
        /\ work' = [uid |-> u, id |-> i, merged |-> m, protonBase |-> p, push |-> push]
        /\ pc' = CASE ~EqualString(m, c) -> "put"
                   [] EqualString(m, c) /\ push -> "update"
                   [] OTHER -> "save"
      BY <1>2 DEF MergeBoth, Visit
  <2>2. /\ p \in Card /\ c \in Card /\ i \in ID /\ m \in Card
        /\ base.protonBase \in Card /\ base.carddavBase \in Card
    <3>1. /\ p \in Card /\ c \in Card /\ i \in ID
          /\ base.protonBase \in Card /\ base.carddavBase \in Card
        BY <2>1, BasesType DEF Known, TypeOK, PEntry, Row
    <3> QED BY <3>1, MergeType, ReconcileAssumption
  <2> HIDE DEF m, push
  <2>3. contacts[u][i] = p /\ objects[u][OwnPath] = c
      BY <2>1 DEF RunSettles, IndexedProton
  <2>4. \A id \in ID : contacts[u][id] \in Card => id = i
      BY <2>2, <2>3 DEF Known, OneContact
  <2>5. pc' = IF m # c THEN "put" ELSE IF push THEN "update" ELSE "save"
      BY <2>1, <2>2, EqualStringIsEquality
  <2>6. ~push => Agree(p, m)
      BY <2>2, UnpushedAgrees, ReconcileAssumption DEF m, push
  <2>7. ASSUME quiet = "yes"
        PROVE  m = c /\ (push => p = ProtonStores(c) /\ Normalised(c))
    <3>1. Settled(u)
        BY <2>7 DEF RunSettles
    <3>2. HasObject(u) /\ contacts[u][i] \in Card
        BY <2>1, <2>2, <2>3, OneObject
    <3>3. rows[u] = [protonBase |-> p, carddavBase |-> c] /\ rows[u] # NoCard /\ Agree(p, c)
        BY <2>2, <2>3, <3>1, <3>2 DEF Settled
    <3>4. base = [protonBase |-> p, carddavBase |-> c]
        BY <3>3 DEF Bases
    <3>5. ProtonStable(p) /\ CardDAVStable(c)
        BY <2>1 DEF Known, CardsAreStable
    <3>6. m = c
        BY <2>2, <3>3, <3>4, <3>5, SettledMerge, ReconcileAssumption DEF m
    <3> QED BY <2>2, <3>3, <3>4, <3>6, SettledPush DEF push
  <2>8. Handling' /\ work'.uid = u
      BY <2>1, <2>5 DEF Handling
  <2>9. RunSettles'
      BY <2>1, <2>5, <2>7, <2>8, SettleVisit
  <2>10. /\ work'.uid = u /\ work'.id = i /\ work'.merged = m /\ work'.protonBase = p
         /\ work'.push = push /\ todo' = todo \ {u}
         /\ UNCHANGED <<objects, contacts, quiet>>
      BY <2>1 DEF Visit, stores
  <2>11. HasContact(u)'
      BY <2>2, <2>3, <2>10 DEF HasContact
  <2>12. Normalised(work'.merged) = Normalised(m)
      BY <2>10
  <2> HIDE DEF Normalised
  <2>13. HandSettles'
      BY <2>2, <2>3, <2>4, <2>5, <2>6, <2>7, <2>10, <2>11, <2>12 DEF HandSettles
  <2> QED BY <2>9, <2>13
<1> QED BY <1>1, <1>2

LEMMA SettleOneSided ==
    ASSUME Known, RunSettles, NEW u \in UID,
           CopyToCardDAV(u) \/ CopyToProton(u) \/ LeaveOneSided(u) \/ Defer(u)
    PROVE  RunSettles' /\ HandSettles'
<1>1. CASE quiet' = "no"
    BY <1>1 DEF RunSettles, HandSettles
<1>2. CASE quiet' # "no"
  <2>1. /\ Visit(u) /\ quiet' = quiet /\ quiet # "no" /\ pc = "loop" /\ u \in todo
        /\ todo' = todo \ {u} /\ UNCHANGED <<objects, contacts, rows>>
      BY <1>2 DEF CopyToCardDAV, CopyToProton, LeaveOneSided, Defer, Visit, stores
  <2>2. IndexedProton(u) /\ carddavIdx[u] = objects[u][OwnPath]
      BY <2>1 DEF RunSettles
  <2>3. quiet = "yes" => Settled(u)
      BY DEF RunSettles
  <2>4. CASE CopyToCardDAV(u)
    <3> DEFINE p == protonIdx[u].vcard
    <3>1. /\ work'.uid = u /\ work'.id = protonIdx[u].id /\ work'.merged = p
          /\ work'.protonBase = p /\ pc' = "put"
          /\ protonIdx[u] # NoCard /\ rows[u] = NoCard
        BY <2>4 DEF CopyToCardDAV
    <3>2. contacts[u][protonIdx[u].id] = p /\ p \in Card /\ protonIdx[u].id \in ID
        BY <2>2, <3>1 DEF IndexedProton, Known, TypeOK, PEntry
    <3>3. quiet # "yes"
        BY <2>3, <3>1, <3>2 DEF Settled, HasContact
    <3>4. Agree(p, p)
        BY DEF Agree
    <3>5. RunSettles'
        BY <2>1, <3>1, <3>3, SettleVisit DEF Handling
    <3>6. HandSettles'
        BY <2>1, <3>1, <3>2, <3>4 DEF HandSettles
    <3> QED BY <3>5, <3>6
  <2>5. CASE CopyToProton(u)
    <3>1. /\ work'.uid = u /\ work'.merged = carddavIdx[u] /\ pc' = "create"
          /\ protonIdx[u] = NoCard /\ carddavIdx[u] # NoCard /\ rows[u] = NoCard
        BY <2>5 DEF CopyToProton
    <3>2. HasObject(u) /\ ~HasContact(u)
        BY <2>2, <3>1, OneObject DEF IndexedProton
    <3>3. quiet # "yes"
        BY <2>3, <3>1, <3>2 DEF Settled
    <3>4. RunSettles'
        BY <2>1, <3>1, <3>3, SettleVisit DEF Handling
    <3>5. HandSettles'
        BY <2>1, <2>2, <3>1, <3>2 DEF HandSettles, HasContact
    <3> QED BY <3>4, <3>5
  <2>6. CASE LeaveOneSided(u)
    <3>1. /\ protonIdx[u] = NoCard \/ carddavIdx[u] = NoCard
          /\ rows[u] # NoCard /\ pc' = pc
        BY <2>6 DEF LeaveOneSided
    <3>2. ~HasContact(u) \/ ~HasObject(u)
        BY <2>2, <3>1, OneObject DEF IndexedProton
    <3>3. Settled(u)
        BY <3>1, <3>2 DEF Settled, HasContact
    <3>4. RunSettles'
        BY <2>1, <3>1, <3>3, SettleVisit
    <3> QED BY <2>1, <3>1, <3>4 DEF HandSettles, Handling
  <2>7. ~Defer(u)
      BY <1>2 DEF Defer
  <2> QED BY <2>4, <2>5, <2>6, <2>7
<1> QED BY <1>1, <1>2

\* What all writes share: only the contact in hand changes, and it is not to be
\* visited again.
LEMMA SettleWrite ==
    ASSUME Known, RunSettles, HandSettles, Handling, quiet' = quiet, quiet # "no",
           NEW u \in UID, u = work.uid,
           pc' # "idle", pc' # "fetch", quiet = "yes" => pc' \notin {"put", "create"},
           UNCHANGED <<protonIdx, carddavIdx, todo>>,
           \A v \in UID \ {u} : UNCHANGED <<objects[v], contacts[v], rows[v]>>,
           Settled(u)' \/ (Handling' /\ work'.uid = u),
           quiet = "yes" => Settled(u)'
    PROVE  RunSettles'
<1>1. pc \notin {"idle", "fetch"} /\ work.uid \notin todo /\ work.uid \in UID
    BY DEF Handling, HandSettles, Known, ContactInHand
<1>2. \A v \in todo' : IndexedProton(v)' /\ carddavIdx'[v] = objects'[v][OwnPath]
    BY <1>1, IndexedSame DEF RunSettles, Known, TypeOK
<1>3. \A v \in UID \ {u} : Settled(v) => Settled(v)'
    BY SettledSame
<1>4. \A v \in UID \ todo : v # u => Settled(v)
    BY <1>1 DEF RunSettles
<1>5. quiet = "yes" => \A v \in UID : Settled(v)
    BY DEF RunSettles
<1> QED BY <1>1, <1>2, <1>3, <1>4, <1>5 DEF RunSettles

LEMMA SettlePut ==
    ASSUME Known, RunSettles, HandSettles, Put
    PROVE  RunSettles' /\ HandSettles'
<1>1. CASE quiet' = "no"
    BY <1>1 DEF RunSettles, HandSettles
<1>2. CASE quiet' # "no"
  <2>1. /\ quiet' = quiet /\ quiet # "no" /\ pc = "put" /\ Handling /\ Handling'
        /\ pc' = IF work.push THEN "update" ELSE "save"
        /\ UNCHANGED <<contacts, rows, protonIdx, carddavIdx, todo, work>>
      BY <1>2 DEF Put, Works, Handling, locals
  <2>2. work.uid \in UID /\ work.id \in ID /\ work.merged \in Card /\ work.protonBase \in Card
      BY <2>1 DEF Known, TypeOK, ContactInHand
  <2>3. /\ objects'[work.uid][OwnPath] = work.merged
        /\ \A v \in UID \ {work.uid} : objects'[v] = objects[v]
      BY <2>2, ReconcileAssumption DEF Put, PutEffect, Known, TypeOK
  <2>4. quiet # "yes"
      BY <2>1 DEF RunSettles
  <2>5. RunSettles'
      BY <2>1, <2>2, <2>3, <2>4, SettleWrite
  <2>6. /\ contacts[work.uid][work.id] = work.protonBase /\ work.uid \notin todo
        /\ work.push \/ Agree(work.protonBase, work.merged)
      BY <2>1 DEF HandSettles
  <2>7. \A id \in ID : contacts[work.uid][id] \in Card => id = work.id
      BY <2>2, <2>6 DEF Known, OneContact
  <2>8. HandSettles'
      BY <2>1, <2>2, <2>3, <2>4, <2>6, <2>7 DEF HandSettles
  <2> QED BY <2>5, <2>8
<1> QED BY <1>1, <1>2

LEMMA SettleUpdate ==
    ASSUME Known, RunSettles, HandSettles, Update
    PROVE  RunSettles' /\ HandSettles'
<1>1. CASE quiet' = "no"
    BY <1>1 DEF RunSettles, HandSettles
<1>2. CASE quiet' # "no"
  <2>1. /\ quiet' = quiet /\ quiet # "no" /\ pc = "update" /\ pc' = "refetch"
        /\ Handling /\ Handling'
        /\ UNCHANGED <<objects, rows, protonIdx, carddavIdx, todo, work>>
        /\ contacts' = [contacts EXCEPT ![work.uid][work.id] = ProtonStores(work.merged)]
      BY <1>2 DEF Update, UpdateEffect, Works, Handling, locals
  <2>2. work.uid \in UID /\ work.id \in ID /\ work.merged \in Card
      BY <2>1 DEF Known, TypeOK, ContactInHand
  <2> HIDE DEF ProtonStores
  <2>3. /\ contacts'[work.uid][work.id] = ProtonStores(work.merged)
        /\ \A v \in UID \ {work.uid} : contacts'[v] = contacts[v]
      BY <2>1, <2>2 DEF Known, TypeOK
  <2>4. quiet = "yes" => contacts'[work.uid] = contacts[work.uid]
      BY <2>1, <2>2 DEF Known, TypeOK, HandSettles
  <2>5. \A u \in UID : quiet = "yes" /\ u = work.uid => Settled(u)'
      BY <2>1, <2>2, <2>4, SettledSame DEF RunSettles
  <2>6. RunSettles'
      BY <2>1, <2>2, <2>3, <2>5, SettleWrite
  <2>7. HandSettles'
      BY <2>1, <2>3 DEF HandSettles
  <2> QED BY <2>6, <2>7
<1> QED BY <1>1, <1>2

LEMMA SettleCreate ==
    ASSUME Known, RunSettles, HandSettles, NEW id \in ID, Create(id)
    PROVE  RunSettles' /\ HandSettles'
<1>1. CASE quiet' = "no"
    BY <1>1 DEF RunSettles, HandSettles
<1>2. CASE quiet' # "no"
  <2> HIDE DEF ProtonStores
  <2>1. /\ quiet' = quiet /\ quiet # "no" /\ pc = "create" /\ pc' = "refetch"
        /\ Handling /\ Handling' /\ UNCHANGED <<objects, rows, protonIdx, carddavIdx, todo>>
        /\ work'.uid = work.uid /\ work'.id = id /\ work'.merged = work.merged
        /\ contacts' = [contacts EXCEPT ![work.uid][id] = ProtonStores(work.merged)]
      BY <1>2 DEF Create, CreateEffect, Works, Handling, Known, TypeOK
  <2>2. work.uid \in UID
      BY <2>1 DEF Known, ContactInHand
  <2>3. /\ contacts'[work.uid][id] = ProtonStores(work.merged)
        /\ \A v \in UID \ {work.uid} : contacts'[v] = contacts[v]
      BY <2>1, <2>2 DEF Known, TypeOK
  <2>4. quiet # "yes"
      BY <2>1 DEF RunSettles
  <2>5. RunSettles'
      BY <2>1, <2>2, <2>3, <2>4, SettleWrite
  <2>6. HandSettles'
      BY <2>1, <2>3 DEF HandSettles
  <2> QED BY <2>5, <2>6
<1> QED BY <1>1, <1>2

LEMMA SettleRefetch ==
    ASSUME Known, RunSettles, HandSettles, Refetch \/ RefetchFails
    PROVE  RunSettles' /\ HandSettles'
<1>1. CASE quiet' = "no"
    BY <1>1 DEF RunSettles, HandSettles
<1>2. CASE quiet' # "no"
  <2> HIDE DEF ProtonStores
  <2>1. /\ quiet' = quiet /\ quiet # "no" /\ pc = "refetch" /\ pc' = "save"
        /\ Handling /\ Handling'
        /\ UNCHANGED <<objects, contacts, rows, protonIdx, carddavIdx, todo>>
      BY <1>2 DEF Refetch, RefetchFails, Works, Fails, Handling, stores, locals
  <2>2. work.uid \in UID /\ work.id \in ID /\ work.merged \in Card
      BY <2>1 DEF Known, TypeOK, ContactInHand
  <2>3. contacts[work.uid][work.id] = ProtonStores(work.merged)
      BY <2>1 DEF HandSettles
  <2>4. ProtonStores(work.merged) \in Card
      BY <2>2, StoresType
  <2>5. /\ work'.uid = work.uid /\ work'.merged = work.merged
        /\ work'.protonBase = ProtonStores(work.merged)
      BY <1>2, <2>3, <2>4, ReconcileAssumption
         DEF Refetch, RefetchFails, Fails, Known, TypeOK
  <2>6. \A id \in ID : contacts[work.uid][id] \in Card => id = work.id
      BY <2>2, <2>3, <2>4 DEF Known, OneContact
  <2>7. \A u \in UID : quiet = "yes" /\ u = work.uid => Settled(u)'
      BY <2>1, <2>2, SettledSame DEF RunSettles
  <2>8. RunSettles'
      BY <2>1, <2>2, <2>5, <2>7, SettleWrite
  <2>9. HasContact(work.uid)'
      BY <2>1, <2>2, <2>3, <2>4, <2>5 DEF HasContact
  <2>10. HandSettles'
      BY <2>1, <2>2, <2>3, <2>5, <2>6, <2>9, StoresAgrees DEF HandSettles
  <2> QED BY <2>8, <2>10
<1> QED BY <1>1, <1>2

LEMMA SettleSave ==
    ASSUME Known, RunSettles, HandSettles, Save
    PROVE  RunSettles' /\ HandSettles'
<1>1. CASE quiet' = "no"
    BY <1>1 DEF RunSettles, HandSettles
<1>2. CASE quiet' # "no"
  <2>1. /\ quiet' = quiet /\ quiet # "no" /\ pc = "save" /\ pc' = "loop" /\ Handling
        /\ UNCHANGED <<objects, contacts, protonIdx, carddavIdx, todo>>
        /\ rows' = [rows EXCEPT ![work.uid] =
                      [protonBase |-> work.protonBase, carddavBase |-> work.merged]]
      BY <1>2 DEF Save, Works, Handling
  <2>2. work.uid \in UID /\ work.merged \in Card /\ work.protonBase \in Card
      BY <2>1 DEF Known, TypeOK, ContactInHand
  <2>3. /\ rows'[work.uid] = [protonBase |-> work.protonBase, carddavBase |-> work.merged]
        /\ \A v \in UID \ {work.uid} : rows'[v] = rows[v]
      BY <2>1, <2>2 DEF Known, TypeOK
  <2>4. rows'[work.uid] # NoCard
      BY <2>2, <2>3, RowAssumption DEF Row
  <2>5. /\ objects[work.uid][OwnPath] = work.merged
        /\ Agree(work.protonBase, work.merged)
        /\ \A id \in ID : contacts[work.uid][id] \in Card
                            => contacts[work.uid][id] = work.protonBase
      BY <2>1 DEF HandSettles
  <2>6. \A u \in UID : u = work.uid => Settled(u)'
      BY <2>1, <2>3, <2>4, <2>5 DEF Settled
  <2>7. RunSettles'
      BY <2>1, <2>2, <2>3, <2>6, SettleWrite
  <2> QED BY <2>1, <2>7 DEF HandSettles, Handling
<1> QED BY <1>1, <1>2

\* An update or a create that fails does so in a disturbed run.
LEMMA SettleSkip ==
    ASSUME Known, HandSettles, UpdateFails \/ CreateFails
    PROVE  quiet' = "no"
<1>1. CASE UpdateFails
    BY <1>1, ReconcileAssumption
       DEF UpdateFails, Works, Fails, HandSettles, Handling, Known, TypeOK
<1>2. CASE CreateFails
    BY <1>2 DEF CreateFails, Works, Fails, Refused, HandSettles, Handling
<1> QED BY <1>1, <1>2

LEMMA SettleStep ==
    ASSUME Known, RunSettles, HandSettles, [Next]_vars
    PROVE  RunSettles' /\ HandSettles'
<1>1. CASE quiet' = "no"
    BY <1>1 DEF RunSettles, HandSettles
<1>2. CASE User
    BY <1>1, <1>2 DEF User, UserStep, EditCardDAV, CreateCardDAV, DeleteCardDAV,
           EditProton, CreateProton, DeleteProton
<1>3. CASE Finish
  <2>1. pc = "loop" /\ todo = {} /\ pc' = "idle" /\ UNCHANGED stores
        /\ quiet' = IF quiet = "running" THEN "yes" ELSE quiet
      BY <1>3 DEF Finish, EndRun
  <2>2. quiet # "no" => \A u \in UID : Settled(u)
      BY <2>1 DEF RunSettles, Handling
  <2>3. quiet # "no" => \A u \in UID : Settled(u)'
      BY <2>1, <2>2, SettledSame DEF stores
  <2> QED BY <2>1, <2>3 DEF RunSettles, HandSettles, Handling
<1>4. CASE IndexFails \/ PutFails \/ UpdateFails \/ CreateFails \/ SaveFails \/ Stop
    BY <1>1, <1>4, SettleSkip DEF IndexFails, PutFails, SaveFails, Stop, Fails
<1>5. CASE UNCHANGED vars
    BY <1>5 DEF vars, stores, locals, RunSettles, HandSettles, Handling, Settled,
           IndexedProton, HasObject, HasContact
<1> QED BY <1>2, <1>3, <1>4, <1>5, SettleStart, SettleFetch, SettleIndex, SettleMerge,
           SettleOneSided, SettlePut, SettleUpdate, SettleCreate, SettleRefetch, SettleSave
        DEF Next, Run, RunStep, FaultStep

LEMMA SettleCorrect ==
    ASSUME NoneIsMissed, PlainClients
    PROVE  Spec => [](Known /\ RunSettles /\ HandSettles)
<1>1. Init => Known
    BY InitType, OneInit, StableInit DEF Init, ContactInHand, Known
<1>2. Known /\ RunSettles /\ HandSettles /\ [Next]_vars
        => (Known /\ RunSettles /\ HandSettles)'
    BY NextType, InHandStep, OneStep, StableStep, SettleStep DEF Known
<1> QED BY <1>1, <1>2, SettleInit, PTL DEF Spec

\* What is settled agrees.
LEMMA SettledAgreement == Known /\ RunSettles => QuietAgreement
<1> SUFFICES ASSUME Known, RunSettles, quiet = "yes", NEW u \in UID, NEW id \in ID,
                    contacts[u][id] \in Card, objects[u][OwnPath] \in Card
             PROVE  /\ \A p \in Prop :
                          contacts[u][id][p] \in {None, Fold[objects[u][OwnPath][p]]}
                    /\ rows[u] = [protonBase  |-> contacts[u][id],
                                  carddavBase |-> objects[u][OwnPath]]
    BY DEF QuietAgreement
<1>1. HasObject(u)
    BY ReconcileAssumption DEF HasObject
<1>2. /\ rows[u] = [protonBase |-> contacts[u][id], carddavBase |-> objects[u][OwnPath]]
      /\ Agree(contacts[u][id], objects[u][OwnPath])
    BY <1>1 DEF RunSettles, Settled
<1>3. ProtonStable(contacts[u][id])
    BY DEF Known, CardsAreStable
<1>4. \A p \in Prop : p \in Name \ {"VERSION"}
    BY CardAssumption DEF Name
<1> QED BY <1>2, <1>3, <1>4, AgreedNames

\* After one undisturbed run the two sides agree and the row holds what they
\* have, whatever was edited, failed or killed before it: for every policy, cap
\* and number of contacts (reconcile and saveBases).
THEOREM QuietTheorem ==
    ASSUME NoneIsMissed, PlainClients
    PROVE  Spec => []QuietAgreement
BY SettledAgreement, SettleCorrect, PTL

\* What a run does in a state in which there is nothing left to do.
LEMMA QuietRun ==
    ASSUME Known, RunSettles, HandSettles, quiet = "yes", Run
    PROVE  UNCHANGED stores /\ (pc' = "update" => Normalised(work'.merged))
<1>1. pc \notin {"put", "create"} /\ \A u \in UID : Settled(u)
    BY DEF RunSettles
<1> HIDE DEF Normalised
<1>2. CASE \/ StartRun \/ IndexCardDAV \/ Finish \/ IndexFails \/ SaveFails \/ Stop
           \/ Refetch \/ RefetchFails
           \/ \E u \in UID, id \in ID : FetchCard(u, id) \/ SkipCard(u, id)
    BY <1>2 DEF StartRun, IndexCardDAV, Finish, IndexFails, SaveFails, Stop, EndRun,
           Refetch, RefetchFails, FetchCard, SkipCard
<1>3. ASSUME NEW u \in UID, CopyToCardDAV(u) \/ LeaveOneSided(u) \/ Defer(u)
                              \/ CopyToProton(u)
      PROVE  UNCHANGED stores /\ pc' # "update"
    BY <1>3 DEF CopyToCardDAV, LeaveOneSided, Defer, CopyToProton, Visit
<1>4. ASSUME NEW u \in UID, MergeBoth(u)
      PROVE  UNCHANGED stores /\ (pc' = "update" => Normalised(work'.merged))
  <2>1. UNCHANGED <<stores, quiet>>
      BY <1>4 DEF MergeBoth, Visit
  <2>2. HandSettles'
      BY <1>4, SettleMerge
  <2> QED BY <2>1, <2>2 DEF HandSettles, Handling
<1>5. CASE Update \/ UpdateFails
  <2>1. pc = "update" /\ pc' # "update" /\ UNCHANGED <<objects, rows>>
      BY <1>5 DEF Update, UpdateFails, SkipContact
  <2>2. UNCHANGED contacts \/ UpdateEffect
      BY <1>5 DEF Update, UpdateFails
  <2>3. work.uid \in UID /\ work.id \in ID
        /\ contacts[work.uid][work.id] = ProtonStores(work.merged)
      BY <2>1 DEF HandSettles, Handling, Known, ContactInHand
  <2> HIDE DEF ProtonStores
  <2>4. UNCHANGED contacts
      BY <2>2, <2>3 DEF UpdateEffect, Known, TypeOK
  <2> QED BY <2>1, <2>4 DEF stores
<1>6. CASE Save
  <2>1. /\ pc = "save" /\ pc' # "update" /\ UNCHANGED <<objects, contacts>>
        /\ rows' = [rows EXCEPT ![work.uid] =
                      [protonBase |-> work.protonBase, carddavBase |-> work.merged]]
      BY <1>6 DEF Save
  <2>2. /\ work.uid \in UID /\ work.merged \in Card
        /\ objects[work.uid][OwnPath] = work.merged /\ HasContact(work.uid)
        /\ \A id \in ID : contacts[work.uid][id] \in Card
                            => contacts[work.uid][id] = work.protonBase
      BY <2>1 DEF HandSettles, Handling, Known, ContactInHand, TypeOK
  <2>3. HasObject(work.uid)
      BY <2>2, ReconcileAssumption DEF HasObject
  <2>4. rows[work.uid] = [protonBase |-> work.protonBase, carddavBase |-> work.merged]
      BY <1>1, <2>2, <2>3 DEF Settled, HasContact
  <2> QED BY <2>1, <2>4 DEF Known, TypeOK, stores
<1> QED BY <1>1, <1>2, <1>3, <1>4, <1>5, <1>6
        DEF Run, RunStep, FaultStep, Put, PutFails, Create, CreateFails

\* From then on no run changes a card of either side or a row until a user edits,
\* whatever Proton makes of the values it stores; a run writes the card of a
\* contact with a value that Proton normalises, and of no other (reconcileBoth).
THEOREM NoChurnTheorem ==
    ASSUME NoneIsMissed, PlainClients
    PROVE  Spec => QuietRunsChangeNothing
<1>1. /\ Known /\ RunSettles /\ HandSettles
      => [ quiet = "yes" /\ Run =>
              /\ UNCHANGED stores
              /\ pc' = "update" => Normalised(work'.merged) ]_vars
    BY QuietRun
<1> QED BY <1>1, SettleCorrect, PTL DEF QuietRunsChangeNothing, Spec
=============================================================================
