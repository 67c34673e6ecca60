----------------------------- MODULE Edits_proofs -----------------------------
(***************************************************************************)
(* That a one-sided edit wins: what a run rewrites on one side, a user has *)
(* changed on the other. EditsAreRecorded ties both bases and both cards to *)
(* the record of the edits; IndexIsCurrent and HandKeepsEdits carry that to *)
(* the contact that a run has in hand.                                     *)
(***************************************************************************)
EXTENDS Reconcile_proofs

\* A run is cut short before it begins to write a contact, or after it has saved
\* its row, and users edit between runs.
WholeWrites ==
    /\ EditPhase \subseteq {"idle"}
    /\ CallFault \subseteq {"fetch", "index", "put", "create"}
    /\ StopAt \subseteq {"idle", "fetch", "loop", "put", "create"}

Edits == Known /\ ProtonCardsAreStored /\ EditsAreRecorded /\ IndexIsCurrent /\ HandKeepsEdits

\* What a merge makes of a property that one side has as its base has it: it is
\* CardDAV's if that side is Proton, and a write of it leaves Proton's if it is
\* CardDAV.
LEMMA MergeKeepsEdits ==
    ASSUME NEW pb \in Card, NEW cb \in Card, NEW p \in Card, NEW c \in Card,
           NEW pol \in Policy, NEW m, m = ThreeWayString(pb, cb, p, c, pol),
           NEW name \in Prop, pb[name] \in {None, Fold[cb[name]]}
    PROVE  /\ p[name] = pb[name] => m[name] = c[name]
           /\ c[name] = cb[name] /\ ProtonStable(p) /\ p[name] # None /\ name \notin Dropped
                 => ProtonStores(m)[name] = p[name]
<1> DEFINE winner == Winner(pol, p, c)
<1>1. name \in Name /\ name \notin {"UID", "VERSION", "REV"}
    BY CardAssumption DEF Name
<1>2. m[name] = MergeProp(pb[name], cb[name], p[name], c[name], winner)
    BY <1>1 DEF ThreeWayString, ThreeWay
<1>3. cb[name] = None => pb[name] = None
    BY ReconcileAssumption
<1>4. p[name] = pb[name] => m[name] = c[name]
    BY <1>2, <1>3 DEF MergeProp
<1>5. ASSUME c[name] = cb[name], ProtonStable(p), p[name] # None, name \notin Dropped
      PROVE  ProtonStores(m)[name] = p[name]
  <2>1. ProtonStores(m)[name] = Fold[m[name]]
      BY <1>1, <1>5, MergeType, StoresNames
  <2>2. Fold[p[name]] = p[name]
      BY <1>1, <1>5 DEF ProtonStable
  <2>3. CASE pb[name] = p[name]
      BY <1>2, <1>3, <1>5, <2>1, <2>3 DEF MergeProp
  <2>4. CASE pb[name] # p[name]
      BY <1>2, <1>5, <2>1, <2>2, <2>4 DEF MergeProp
  <2> QED BY <2>3, <2>4
<1> QED BY <1>4, <1>5

\* Ending a run forgets no edit.
LEMMA UnsyncedSame ==
    ASSUME EndRun \/ UNCHANGED edited, NEW u \in UID
    PROVE  Unsynced(u)' = Unsynced(u)
BY DEF EndRun, Unsynced

\* Nor does what touches neither the contact nor its row.
LEMMA BaseSame ==
    ASSUME NEW u \in UID, UnchangedIsBase(u), Unsynced(u)' = Unsynced(u),
           UNCHANGED <<objects[u], contacts[u], rows[u]>>
    PROVE  UnchangedIsBase(u)'
BY DEF UnchangedIsBase, Bases, HasContact

\* A step that changes neither the stores nor the edits on record.
LEMMA EditsSame ==
    ASSUME EditsAreRecorded, pc \notin {"update", "refetch", "save"}, UNCHANGED stores,
           EndRun \/ UNCHANGED edited
    PROVE  EditsAreRecorded'
<1>1. \A u \in UID : UnchangedIsBase(u)'
    BY UnsyncedSame, BaseSame DEF EditsAreRecorded, stores
<1>2. \A u \in UID : Bases(u)' = Bases(u)
    BY DEF stores, Bases
<1> QED BY <1>1, <1>2 DEF EditsAreRecorded

\* Nothing is in hand, or indexed, once a run has ended.
LEMMA EditsEnd ==
    ASSUME EndRun
    PROVE  IndexIsCurrent' /\ HandKeepsEdits'
BY DEF EndRun, IndexIsCurrent, HandKeepsEdits, Handling

\* At first there is no row, and whatever either side has counts as given to it.
LEMMA EditsInit ==
    ASSUME PlainClients, Init
    PROVE  EditsAreRecorded /\ IndexIsCurrent /\ HandKeepsEdits
<1>1. \A u \in UID : Bases(u) = [protonBase |-> EmptyCard, carddavBase |-> EmptyCard]
    BY DEF Init, Bases
<1>2. ASSUME NEW u \in UID, NEW p \in Prop
      PROVE  Bases(u).protonBase[p] = None /\ Bases(u).carddavBase[p] = None
    BY <1>1 DEF EmptyCard, Name
<1>3. \A u \in UID : Unsynced(u) = Given(u)
    BY DEF Init, Unsynced
<1>4. ASSUME NEW u \in UID PROVE UnchangedIsBase(u)
  <2>1. ASSUME NEW p \in Prop, <<"P", p>> \notin Given(u), NEW id \in ID,
               contacts[u][id] \in Card
        PROVE  contacts[u][id][p] = None
      BY <2>1 DEF Given
  <2>2. ASSUME NEW p \in Prop, <<"C", p>> \notin Given(u), objects[u][OwnPath] \in Card
        PROVE  objects[u][OwnPath][p] = None
      BY <2>2, ReconcileAssumption DEF Given
  <2> QED BY <1>2, <1>3, <2>1, <2>2 DEF UnchangedIsBase
<1> QED BY <1>2, <1>4 DEF Init, NoLocals, EditsAreRecorded, IndexIsCurrent,
           HandKeepsEdits, Handling

-----------------------------------------------------------------------------
(***************************************************************************)
(* Users, and the parts of a run that write to neither side.               *)
(***************************************************************************)
\* What a user does: one card of one side gets another, and what that changes is
\* recorded.
LEMMA UserWrites ==
    ASSUME PlainClients, Known, User
    PROVE  \E u \in UID :
              \/ \E card \in UserCard \cup {NoCard} :
                    /\ objects' = [objects EXCEPT ![u][OwnPath] = card]
                    /\ Record(u, "C", ChangedProps(objects[u][OwnPath], card))
                    /\ UNCHANGED contacts
              \/ \E id \in ID, card \in ProtonCard \cup {Deleted} :
                    /\ contacts[u][id] \in Card \/ (~HasContact(u) /\ contacts[u][id] = NoCard)
                    /\ contacts' = [contacts EXCEPT ![u][id] = card]
                    /\ Record(u, "P", ChangedProps(contacts[u][id], card))
                    /\ UNCHANGED objects
<1>1. ASSUME NEW u \in UID, NEW path \in Path,
             EditCardDAV(u, path) \/ CreateCardDAV(u, path) \/ DeleteCardDAV(u, path)
      PROVE  \E card \in UserCard \cup {NoCard} :
                /\ objects' = [objects EXCEPT ![u][OwnPath] = card]
                /\ Record(u, "C", ChangedProps(objects[u][OwnPath], card))
                /\ UNCHANGED contacts
  <2>1. CASE EditCardDAV(u, path) \/ DeleteCardDAV(u, path)
    <3>1. path = OwnPath
        BY <2>1, ReconcileAssumption DEF EditCardDAV, DeleteCardDAV, Known, CardsAreStable
    <3>2. CASE EditCardDAV(u, path)
        BY <3>1, <3>2 DEF EditCardDAV
    <3>3. CASE DeleteCardDAV(u, path)
      <4>1. ChangedProps(objects[u][OwnPath], NoCard) = ChangedProps(objects[u][path], NoCard)
          BY <3>1
      <4> QED BY <3>1, <3>3 DEF DeleteCardDAV
    <3> QED BY <2>1, <3>2, <3>3
  <2>2. CASE CreateCardDAV(u, path)
    <3>1. path = OwnPath /\ objects[u][OwnPath] = NoCard
        BY <2>2, ReconcileAssumption DEF CreateCardDAV, PlainClients, HasObject
    <3> QED BY <2>2, <3>1 DEF CreateCardDAV
  <2> QED BY <1>1, <2>1, <2>2
<1>2. ASSUME NEW u \in UID, NEW id \in ID,
             EditProton(u, id) \/ CreateProton(u, id) \/ DeleteProton(u, id)
      PROVE  \E card \in ProtonCard \cup {Deleted} :
                /\ contacts[u][id] \in Card \/ (~HasContact(u) /\ contacts[u][id] = NoCard)
                /\ contacts' = [contacts EXCEPT ![u][id] = card]
                /\ Record(u, "P", ChangedProps(contacts[u][id], card))
                /\ UNCHANGED objects
  <2>1. CASE EditProton(u, id)
      BY <2>1 DEF EditProton
  <2>2. CASE CreateProton(u, id)
    <3>1. PICK card \in ProtonCard :
              /\ contacts' = [contacts EXCEPT ![u][id] = card]
              /\ Record(u, "P", ChangedProps(NoCard, card))
        BY <2>2 DEF CreateProton
    <3> QED BY <2>2, <3>1 DEF CreateProton
  <2>3. CASE DeleteProton(u, id)
    <3>1. ChangedProps(contacts[u][id], Deleted) = ChangedProps(contacts[u][id], NoCard)
        BY ReconcileAssumption DEF ChangedProps
    <3> QED BY <2>3, <3>1 DEF DeleteProton
  <2> QED BY <1>2, <2>1, <2>2, <2>3
<1> QED BY <1>1, <1>2 DEF User

\* A user's change is on record, and what is not on record is as it was.
LEMMA EditsUser ==
    ASSUME PlainClients, WholeWrites, Edits, User
    PROVE  EditsAreRecorded' /\ IndexIsCurrent' /\ HandKeepsEdits'
<1>1. pc = "idle" /\ UNCHANGED <<rows, pc, locals>>
    BY DEF User, UserStep, EditCardDAV, CreateCardDAV, DeleteCardDAV,
           EditProton, CreateProton, DeleteProton, WholeWrites
<1>2. IndexIsCurrent' /\ HandKeepsEdits'
    BY <1>1 DEF Edits, Known, CardsAreStable, locals, IndexIsCurrent, HandKeepsEdits, Handling
<1>3. \A u \in UID : UnchangedIsBase(u) /\ Bases(u)' = Bases(u)
    BY <1>1 DEF Edits, EditsAreRecorded, Bases
<1>4. ASSUME NEW u \in UID, NEW side \in {"C", "P"}, NEW props \in SUBSET Prop,
             Record(u, side, props)
      PROVE  /\ Unsynced(u)' = Unsynced(u) \cup {side} \X props
             /\ \A v \in UID \ {u} : Unsynced(v)' = Unsynced(v)
    BY <1>1, <1>4 DEF Record, Unsynced, Edits, Known, TypeOK
<1>5. ASSUME NEW u \in UID, NEW card \in UserCard \cup {NoCard},
             objects' = [objects EXCEPT ![u][OwnPath] = card],
             Record(u, "C", ChangedProps(objects[u][OwnPath], card)),
             UNCHANGED contacts, NEW v \in UID
      PROVE  UnchangedIsBase(v)'
  <2>1. CASE v # u
      BY <1>1, <1>3, <1>4, <1>5, <2>1, UserCardType, BaseSame DEF Edits, Known, TypeOK
  <2>2. CASE v = u
    <3>1. Unsynced(u)' = Unsynced(u) \cup {"C"} \X ChangedProps(objects[u][OwnPath], card)
        BY <1>4, <1>5, UserCardType
    <3>2. objects'[u][OwnPath] = card /\ contacts'[u] = contacts[u]
        BY <1>5, ReconcileAssumption DEF Edits, Known, TypeOK
    <3>3. \A p \in Prop : <<"C", p>> \notin Unsynced(u)' =>
             (IF objects'[u][OwnPath] \in Card THEN objects'[u][OwnPath][p] ELSE None)
                = IF objects[u][OwnPath] \in Card THEN objects[u][OwnPath][p] ELSE None
        BY <3>1, <3>2 DEF ChangedProps
    <3>4. Unsynced(u) \subseteq Unsynced(u)'
        BY <3>1
    <3>5. HasContact(u)' = HasContact(u)
        BY <3>2 DEF HasContact
    <3>6. Bases(u)' = Bases(u)
        BY <1>3
    <3>7. ASSUME NEW p \in Prop, <<"P", p>> \notin Unsynced(u)'
          PROVE  /\ \A id \in ID : contacts'[u][id] \in Card
                                   => contacts'[u][id][p] = Bases(u).protonBase[p]
                 /\ HasContact(u) \/ Bases(u).protonBase[p] = None
      <4>1. UnchangedIsBase(u) /\ <<"P", p>> \notin Unsynced(u)
          BY <1>3, <3>4, <3>7
      <4> QED BY <3>2, <4>1 DEF UnchangedIsBase
    <3>8. \A p \in Prop : <<"C", p>> \notin Unsynced(u)' =>
             Bases(u).carddavBase[p] = IF objects'[u][OwnPath] \in Card
                                       THEN objects'[u][OwnPath][p] ELSE None
        BY <1>3, <3>3, <3>4 DEF UnchangedIsBase
    <3> QED BY <2>2, <3>5, <3>6, <3>7, <3>8 DEF UnchangedIsBase
  <2> QED BY <2>1, <2>2
<1>6. ASSUME NEW u \in UID, NEW id \in ID, NEW card \in ProtonCard \cup {Deleted},
             contacts[u][id] \in Card \/ (~HasContact(u) /\ contacts[u][id] = NoCard),
             contacts' = [contacts EXCEPT ![u][id] = card],
             Record(u, "P", ChangedProps(contacts[u][id], card)),
             UNCHANGED objects, NEW v \in UID
      PROVE  UnchangedIsBase(v)'
  <2>1. CASE v # u
      BY <1>1, <1>3, <1>4, <1>6, <2>1, UserCardType, BaseSame DEF Edits, Known, TypeOK
  <2>2. CASE v = u
    <3>1. Unsynced(u)' = Unsynced(u) \cup {"P"} \X ChangedProps(contacts[u][id], card)
        BY <1>4, <1>6, UserCardType
    <3>2. /\ contacts'[u][id] = card /\ objects'[u] = objects[u]
          /\ \A i \in ID \ {id} : contacts'[u][i] = contacts[u][i]
        BY <1>6 DEF Edits, Known, TypeOK
    <3>3. \A i \in ID \ {id} : contacts'[u][i] \notin Card
        BY <1>6, <3>2 DEF Edits, Known, OneContact, HasContact
    <3>4. Unsynced(u) \subseteq Unsynced(u)'
        BY <3>1
    <3>5. ASSUME NEW p \in Prop, <<"P", p>> \notin Unsynced(u)'
          PROVE  Bases(u).protonBase[p] = IF card \in Card THEN card[p] ELSE None
      <4>1. Bases(u).protonBase[p] = IF contacts[u][id] \in Card THEN contacts[u][id][p] ELSE None
        <5>1. <<"P", p>> \notin Unsynced(u)
            BY <3>4, <3>5
        <5>2. CASE contacts[u][id] \in Card
            BY <1>3, <5>1, <5>2 DEF UnchangedIsBase
        <5>3. CASE contacts[u][id] \notin Card
            BY <1>3, <1>6, <5>1, <5>3 DEF UnchangedIsBase
        <5> QED BY <5>2, <5>3
      <4> QED BY <3>1, <3>5, <4>1 DEF ChangedProps
    <3>6. \A i \in ID : contacts'[u][i] \in Card => i = id
        BY <3>3
    <3>7. HasContact(u)' <=> card \in Card
        BY <3>2, <3>3 DEF HasContact
    <3>8. Bases(u)' = Bases(u)
        BY <1>3
    <3>9. \A p \in Prop : <<"P", p>> \notin Unsynced(u)' =>
             /\ \A i \in ID : contacts'[u][i] \in Card
                              => contacts'[u][i][p] = Bases(u).protonBase[p]
             /\ HasContact(u)' \/ Bases(u).protonBase[p] = None
        BY <3>2, <3>5, <3>6, <3>7
    <3>10. \A p \in Prop : <<"C", p>> \notin Unsynced(u)' =>
             Bases(u).carddavBase[p] = IF objects'[u][OwnPath] \in Card
                                       THEN objects'[u][OwnPath][p] ELSE None
        BY <1>3, <3>2, <3>4 DEF UnchangedIsBase
    <3> QED BY <2>2, <3>8, <3>9, <3>10 DEF UnchangedIsBase
  <2> QED BY <2>1, <2>2
<1>7. \A v \in UID : UnchangedIsBase(v)'
    BY <1>5, <1>6, UserWrites DEF Edits
<1> QED BY <1>2, <1>3, <1>7 DEF Edits, EditsAreRecorded

\* Indexing changes neither side.
LEMMA EditsIndex ==
    ASSUME Edits,
           StartRun \/ IndexCardDAV \/ \E u \in UID, id \in ID : FetchCard(u, id) \/ SkipCard(u, id)
    PROVE  EditsAreRecorded' /\ IndexIsCurrent' /\ HandKeepsEdits'
<1>1. /\ UNCHANGED <<stores, edited>> /\ pc \in {"idle", "fetch"}
      /\ pc' \in {"fetch", "loop"}
    BY DEF StartRun, IndexCardDAV, FetchCard, SkipCard
<1>2. EditsAreRecorded' /\ HandKeepsEdits'
    BY <1>1, EditsSame DEF Edits, HandKeepsEdits, Handling
<1>3. todo = {}
    BY <1>1 DEF Edits, IndexIsCurrent
<1>4. ASSUME StartRun PROVE IndexIsCurrent'
    BY <1>3, <1>4 DEF StartRun, Edits, Known, CardsAreStable, IndexIsCurrent
<1>5. ASSUME NEW u \in UID, NEW id \in ID, FetchCard(u, id) \/ SkipCard(u, id)
      PROVE  IndexIsCurrent'
  <2>1. /\ UNCHANGED <<contacts, todo>> /\ pc = "fetch" /\ pc' = "fetch"
        /\ \A v \in UID \ {u} : protonIdx'[v] = protonIdx[v]
        /\ \/ protonIdx'[u] = protonIdx[u]
           \/ protonIdx'[u] = [id |-> id, vcard |-> contacts[u][id]]
      BY <1>5 DEF FetchCard, SkipCard, stores, Edits, Known, TypeOK
  <2> QED BY <1>3, <2>1 DEF Edits, IndexIsCurrent
<1>6. ASSUME IndexCardDAV PROVE IndexIsCurrent'
  <2>1. UNCHANGED <<objects, contacts, protonIdx>> /\ pc = "fetch" /\ pc' = "loop"
      BY <1>6 DEF IndexCardDAV, stores
  <2>2. ASSUME NEW u \in UID PROVE carddavIdx'[u] = objects[u][OwnPath]
    <3>1. PICK path \in Path : /\ carddavIdx'[u] = objects[u][path]
                               /\ HasObject(u) => objects[u][path] # NoCard
        BY <1>6 DEF IndexCardDAV, Indexes
    <3> QED BY <3>1, OneObject DEF Edits, Known, CardsAreStable
  <2>3. todo' \subseteq UID
      BY <1>6 DEF IndexCardDAV
  <2> QED BY <2>1, <2>2, <2>3 DEF Edits, IndexIsCurrent
<1> QED BY <1>2, <1>4, <1>5, <1>6


\* Nor does a visit to a contact.
LEMMA EditsVisit ==
    ASSUME Edits, NEW u \in UID, Visit(u), pc' \notin {"idle", "fetch"}
    PROVE  EditsAreRecorded' /\ IndexIsCurrent'
<1>1. pc = "loop" /\ todo' = todo \ {u} /\ UNCHANGED <<stores, protonIdx, carddavIdx, edited>>
    BY DEF Visit
<1>2. EditsAreRecorded'
    BY <1>1, EditsSame DEF Edits
<1> QED BY <1>1, <1>2 DEF Edits, IndexIsCurrent, stores

\* The merge of a contact writes to a side what was changed on the other.
LEMMA EditsMerge ==
    ASSUME Edits, NEW u \in UID, MergeBoth(u)
    PROVE  EditsAreRecorded' /\ IndexIsCurrent' /\ HandKeepsEdits'
<1> DEFINE i == protonIdx[u].id
           p == protonIdx[u].vcard
           c == carddavIdx[u]
           base == Bases(u)
           m == ThreeWayString(base.protonBase, base.carddavBase, p, c, SyncPolicy)
           push == ProtonRelevantDiff(m, p, base.protonBase)
<1>1. /\ Visit(u) /\ pc = "loop" /\ u \in todo /\ todo' = todo \ {u}
      /\ UNCHANGED <<objects, contacts, edited>>
      /\ protonIdx[u] # NoCard /\ c # NoCard
      /\ work' = [uid |-> u, id |-> i, merged |-> m, protonBase |-> p, push |-> push]
      /\ pc' = CASE ~EqualString(m, c) -> "put"
                 [] EqualString(m, c) /\ push -> "update"
                 [] OTHER -> "save"
    BY DEF MergeBoth, Visit, stores
<1>2. /\ p \in Card /\ c \in Card /\ i \in ID
      /\ base.protonBase \in Card /\ base.carddavBase \in Card
    BY <1>1, BasesType DEF Edits, Known, TypeOK, PEntry, Row
<1>3. m \in Card
    BY <1>2, MergeType, ReconcileAssumption
<1> HIDE DEF m, push, base, p, c, i
<1>4. contacts[u][i] = p /\ objects[u][OwnPath] = c
    BY <1>1 DEF Edits, IndexIsCurrent, p, c, i
<1>5. \A id \in ID : contacts[u][id] \in Card => id = i
    BY <1>2, <1>4 DEF Edits, Known, OneContact
<1>6. pc' = IF m # c THEN "put" ELSE IF push THEN "update" ELSE "save"
    BY <1>1, <1>2, <1>3, EqualStringIsEquality
<1>7. ~push => Agree(p, m)
    BY <1>2, UnpushedAgrees, ReconcileAssumption DEF m, push
<1>8. UnchangedIsBase(u) /\ ProtonStable(p) /\ LacksDropped(p)
    BY <1>1, <1>2, <1>4 DEF p, Edits, EditsAreRecorded, Known, CardsAreStable, ProtonCardsAreStored
<1>9. ASSUME NEW name \in Prop
      PROVE  /\ m[name] # c[name] => <<"P", name>> \in Unsynced(u)
             /\ p[name] # None /\ p[name] # ProtonStores(m)[name] => <<"C", name>> \in Unsynced(u)
  <2>1. base.protonBase[name] \in {None, Fold[base.carddavBase[name]]}
      BY DEF Edits, EditsAreRecorded, base
  <2>2. <<"P", name>> \notin Unsynced(u) => p[name] = base.protonBase[name]
      BY <1>2, <1>4, <1>8 DEF UnchangedIsBase, base
  <2>3. <<"C", name>> \notin Unsynced(u) => c[name] = base.carddavBase[name]
      BY <1>2, <1>4, <1>8 DEF UnchangedIsBase, base
  <2>4. name \in Dropped => p[name] = None
      BY <1>8 DEF LacksDropped
  <2>5. m = ThreeWayString(base.protonBase, base.carddavBase, p, c, SyncPolicy)
      BY DEF m
  <2>6. SyncPolicy \in Policy
      BY ReconcileAssumption
  <2>7. /\ p[name] = base.protonBase[name] => m[name] = c[name]
        /\ c[name] = base.carddavBase[name] /\ ProtonStable(p) /\ p[name] # None
             /\ name \notin Dropped => ProtonStores(m)[name] = p[name]
      BY <1>2, <2>1, <2>5, <2>6, MergeKeepsEdits
  <2> QED BY <1>8, <2>2, <2>3, <2>4, <2>7
<1>10. EditsAreRecorded' /\ IndexIsCurrent'
    BY <1>1, <1>6, EditsVisit
<1>11. /\ work'.uid = u /\ work'.id = i /\ work'.merged = m /\ work'.protonBase = p
       /\ work'.push = push /\ Unsynced(u)' = Unsynced(u)
    BY <1>1, UnsyncedSame
<1> HIDE DEF ProtonStores
<1>12. HandKeepsEdits'
    BY <1>1, <1>2, <1>4, <1>5, <1>6, <1>7, <1>9, <1>11 DEF HandKeepsEdits, HasContact
<1> QED BY <1>10, <1>12

\* A contact that is copied is new to the side it is copied to.
LEMMA EditsOneSided ==
    ASSUME Edits, NEW u \in UID,
           CopyToCardDAV(u) \/ CopyToProton(u) \/ LeaveOneSided(u) \/ Defer(u)
    PROVE  EditsAreRecorded' /\ IndexIsCurrent' /\ HandKeepsEdits'
<1>1. /\ Visit(u) /\ u \in todo /\ todo' = todo \ {u} /\ pc = "loop"
      /\ pc' \notin {"idle", "fetch"} /\ UNCHANGED <<objects, contacts>>
    BY DEF CopyToCardDAV, CopyToProton, LeaveOneSided, Defer, Visit, stores
<1>2. EditsAreRecorded' /\ IndexIsCurrent'
    BY <1>1, EditsVisit
<1>3. objects[u][OwnPath] = carddavIdx[u]
    BY <1>1 DEF Edits, IndexIsCurrent
<1>4. ASSUME CopyToCardDAV(u) PROVE HandKeepsEdits'
  <2>1. /\ work'.uid = u /\ work'.id = protonIdx[u].id /\ work'.merged = protonIdx[u].vcard
        /\ work'.protonBase = protonIdx[u].vcard /\ work'.push = FALSE /\ pc' = "put"
        /\ protonIdx[u] # NoCard /\ carddavIdx[u] = NoCard
      BY <1>4 DEF CopyToCardDAV
  <2>2. contacts[u][protonIdx[u].id] = protonIdx[u].vcard
      BY <1>1, <2>1 DEF Edits, IndexIsCurrent
  <2>3. Agree(protonIdx[u].vcard, protonIdx[u].vcard)
      BY DEF Agree
  <2> QED BY <1>1, <1>3, <2>1, <2>2, <2>3, ReconcileAssumption DEF HandKeepsEdits
<1>5. ASSUME CopyToProton(u) PROVE HandKeepsEdits'
  <2>1. work'.uid = u /\ work'.merged = carddavIdx[u] /\ pc' = "create"
      BY <1>5 DEF CopyToProton
  <2> QED BY <1>1, <1>3, <2>1 DEF HandKeepsEdits
<1>6. ASSUME LeaveOneSided(u) \/ Defer(u) PROVE HandKeepsEdits'
    BY <1>1, <1>6 DEF LeaveOneSided, Defer, HandKeepsEdits, Handling
<1> QED BY <1>2, <1>4, <1>5, <1>6

-----------------------------------------------------------------------------
(***************************************************************************)
(* The calls for the contact in hand.                                      *)
(***************************************************************************)
\* What all writes of the contact in hand share.
LEMMA EditsWrite ==
    ASSUME Edits, Handling, NEW u \in UID, u = work.uid, pc' \notin {"idle", "fetch"},
           UNCHANGED <<protonIdx, carddavIdx, todo>>,
           \A v \in UID \ {u} : /\ UNCHANGED <<objects[v], contacts[v], rows[v]>>
                                /\ Unsynced(v)' = Unsynced(v),
           \A p \in Prop : Bases(u)'.protonBase[p] \in {None, Fold[Bases(u)'.carddavBase[p]]},
           UnchangedIsBase(u)' \/ (pc' \in {"update", "refetch", "save"} /\ work'.uid = u)
    PROVE  EditsAreRecorded' /\ IndexIsCurrent'
<1>1. u \notin todo /\ todo \subseteq UID
    BY DEF Edits, HandKeepsEdits, Known, TypeOK
<1>2. IndexIsCurrent'
    BY <1>1 DEF Edits, IndexIsCurrent
<1>3. \A v \in UID \ {u} : UnchangedIsBase(v)' /\ Bases(v)' = Bases(v)
    BY BaseSame DEF Edits, EditsAreRecorded, Bases
<1>4. EditsAreRecorded'
    BY <1>3 DEF Edits, EditsAreRecorded
<1> QED BY <1>2, <1>4


\* A write changes the contact in hand only, and no row: what was recorded of
\* the others stands.
LEMMA EditsWriteOnly ==
    ASSUME Edits, Handling, NEW u \in UID, u = work.uid, pc' \in {"update", "refetch", "save"},
           work'.uid = u, UNCHANGED <<rows, edited, protonIdx, carddavIdx, todo>>,
           \A v \in UID \ {u} : UNCHANGED <<objects[v], contacts[v]>>
    PROVE  EditsAreRecorded' /\ IndexIsCurrent'
<1>1. \A v \in UID : Unsynced(v)' = Unsynced(v) /\ Bases(v)' = Bases(v)
    BY DEF Unsynced, Bases
<1>2. \A p \in Prop : Bases(u).protonBase[p] \in {None, Fold[Bases(u).carddavBase[p]]}
    BY DEF Edits, EditsAreRecorded
<1>3. \A p \in Prop : Bases(u)'.protonBase[p] \in {None, Fold[Bases(u)'.carddavBase[p]]}
    BY <1>1, <1>2
<1> QED BY <1>1, <1>3, EditsWrite

\* The put makes CardDAV's card the merge, of which Proton has what is not to be
\* pushed.
LEMMA EditsPut ==
    ASSUME Edits, Put
    PROVE  EditsAreRecorded' /\ IndexIsCurrent' /\ HandKeepsEdits'
<1> DEFINE u == work.uid
<1>1. /\ pc = "put" /\ pc' = IF work.push THEN "update" ELSE "save"
      /\ UNCHANGED <<contacts, rows, edited, protonIdx, carddavIdx, todo, work>>
      /\ Handling /\ Handling'
    BY DEF Put, locals, Handling
<1>2. /\ u \in UID /\ work.id \in ID /\ work.merged \in Card /\ work.protonBase \in Card
      /\ work.push \in BOOLEAN
    BY <1>1 DEF Edits, Known, TypeOK, ContactInHand
<1>3. /\ objects'[u][OwnPath] = work.merged
      /\ \A v \in UID \ {u} : objects'[v] = objects[v]
    BY <1>2, ReconcileAssumption DEF Put, PutEffect, Edits, Known, TypeOK
<1>4. EditsAreRecorded' /\ IndexIsCurrent'
    BY <1>1, <1>2, <1>3, EditsWriteOnly
<1>5. /\ contacts[u][work.id] = work.protonBase /\ u \notin todo
      /\ work.push \/ Agree(work.protonBase, work.merged)
      /\ work.push => \A p \in Prop : contacts[u][work.id][p] # None
            /\ contacts[u][work.id][p] # ProtonStores(work.merged)[p] => <<"C", p>> \in Unsynced(u)
    BY <1>1 DEF Edits, HandKeepsEdits
<1>6. \A id \in ID : contacts[u][id] \in Card => id = work.id
    BY <1>2, <1>5 DEF Edits, Known, OneContact
<1>7. Unsynced(u)' = Unsynced(u)
    BY <1>1 DEF Unsynced
<1>8. HasContact(u)'
    BY <1>1, <1>2, <1>5 DEF HasContact
<1> HIDE DEF ProtonStores
<1>9. HandKeepsEdits'
    BY <1>1, <1>2, <1>3, <1>5, <1>6, <1>7, <1>8 DEF HandKeepsEdits
<1> QED BY <1>4, <1>9

\* The update makes Proton's card what it stores of the merge.
LEMMA EditsUpdate ==
    ASSUME Edits, Update
    PROVE  EditsAreRecorded' /\ IndexIsCurrent' /\ HandKeepsEdits'
<1> DEFINE u == work.uid
<1> HIDE DEF ProtonStores
<1>1. /\ pc = "update" /\ pc' = "refetch" /\ Handling
      /\ UNCHANGED <<objects, rows, edited, protonIdx, carddavIdx, todo, work>>
      /\ contacts' = [contacts EXCEPT ![work.uid][work.id] = ProtonStores(work.merged)]
    BY DEF Update, UpdateEffect, locals, Handling
<1>2. u \in UID /\ work.id \in ID
    BY <1>1 DEF Edits, Known, ContactInHand
<1>3. /\ contacts'[u][work.id] = ProtonStores(work.merged)
      /\ \A v \in UID \ {u} : contacts'[v] = contacts[v]
    BY <1>1, <1>2 DEF Edits, Known, TypeOK
<1>4. EditsAreRecorded' /\ IndexIsCurrent'
    BY <1>1, <1>2, <1>3, EditsWriteOnly
<1>5. HandKeepsEdits'
    BY <1>1, <1>3 DEF Edits, HandKeepsEdits
<1> QED BY <1>4, <1>5

\* So does a create, of the card that CardDAV has.
LEMMA EditsCreate ==
    ASSUME Edits, NEW id \in ID, Create(id)
    PROVE  EditsAreRecorded' /\ IndexIsCurrent' /\ HandKeepsEdits'
<1> DEFINE u == work.uid
<1> HIDE DEF ProtonStores
<1>1. /\ pc = "create" /\ pc' = "refetch" /\ Handling
      /\ UNCHANGED <<objects, rows, edited, protonIdx, carddavIdx, todo>>
      /\ work'.uid = u /\ work'.id = id /\ work'.merged = work.merged
      /\ contacts' = [contacts EXCEPT ![work.uid][id] = ProtonStores(work.merged)]
    BY DEF Create, CreateEffect, Handling, Edits, Known, TypeOK
<1>2. u \in UID
    BY <1>1 DEF Edits, Known, ContactInHand
<1>3. /\ contacts'[u][id] = ProtonStores(work.merged)
      /\ \A v \in UID \ {u} : contacts'[v] = contacts[v]
    BY <1>1, <1>2 DEF Edits, Known, TypeOK
<1>4. EditsAreRecorded' /\ IndexIsCurrent'
    BY <1>1, <1>2, <1>3, EditsWriteOnly
<1>5. HandKeepsEdits'
    BY <1>1, <1>3 DEF Edits, HandKeepsEdits
<1> QED BY <1>4, <1>5

\* The refetch reads the card that Proton stored.
LEMMA EditsRefetch ==
    ASSUME Edits, Refetch
    PROVE  EditsAreRecorded' /\ IndexIsCurrent' /\ HandKeepsEdits'
<1> DEFINE u == work.uid
<1> HIDE DEF ProtonStores
<1>1. /\ pc = "refetch" /\ pc' = "save" /\ Handling
      /\ UNCHANGED <<objects, contacts, rows, edited, protonIdx, carddavIdx, todo>>
      /\ work'.uid = u /\ work'.merged = work.merged
      /\ work'.protonBase = contacts[u][work.id] /\ contacts[u][work.id] \in Card
    BY DEF Refetch, stores, Handling, Edits, Known, TypeOK
<1>2. u \in UID /\ work.id \in ID /\ work.merged \in Card
    BY <1>1 DEF Edits, Known, TypeOK, ContactInHand
<1>3. /\ u \notin todo /\ objects[u][OwnPath] = work.merged
      /\ contacts[u][work.id] = ProtonStores(work.merged)
    BY <1>1 DEF Edits, HandKeepsEdits
<1>4. \A id \in ID : contacts[u][id] \in Card => id = work.id
    BY <1>1, <1>2 DEF Edits, Known, OneContact
<1>5. EditsAreRecorded' /\ IndexIsCurrent'
    BY <1>1, <1>2, EditsWriteOnly
<1>6. Agree(ProtonStores(work.merged), work.merged)
    BY <1>2, StoresAgrees
<1>7. HasContact(u)'
    BY <1>1, <1>2 DEF HasContact
<1>8. HandKeepsEdits'
    BY <1>1, <1>3, <1>4, <1>6, <1>7 DEF HandKeepsEdits
<1> QED BY <1>5, <1>8

\* The row that is saved holds the two cards, so nothing is unsynced.
LEMMA EditsSave ==
    ASSUME Edits, Save
    PROVE  EditsAreRecorded' /\ IndexIsCurrent' /\ HandKeepsEdits'
<1>1. PICK u \in UID, p \in Card, c \in Card :
         u = work.uid /\ p = work.protonBase /\ c = work.merged
    BY DEF Save, Edits, Known, TypeOK, ContactInHand
<1>2. /\ pc = "save" /\ pc' = "loop" /\ Handling
      /\ UNCHANGED <<objects, contacts, protonIdx, carddavIdx, todo>>
      /\ rows' = [rows EXCEPT ![u] = [protonBase |-> p, carddavBase |-> c]]
      /\ edited' = [edited EXCEPT ![u].seen = {}]
    BY <1>1 DEF Save, Handling
<1>3. /\ objects[u][OwnPath] = c /\ Agree(p, c) /\ HasContact(u)
      /\ \A id \in ID : contacts[u][id] \in Card => contacts[u][id] = p
    BY <1>1, <1>2 DEF Edits, HandKeepsEdits
<1>4. /\ rows'[u] = [protonBase |-> p, carddavBase |-> c] /\ rows'[u] # NoCard
      /\ \A v \in UID \ {u} : rows'[v] = rows[v] /\ edited'[v] = edited[v]
    BY <1>1, <1>2, RowAssumption DEF Edits, Known, TypeOK, Row
<1>5. Bases(u)'.protonBase = p /\ Bases(u)'.carddavBase = c
    BY <1>4 DEF Bases
<1>6. \A v \in UID \ {u} : Unsynced(v)' = Unsynced(v)
    BY <1>4 DEF Unsynced
<1>7. ProtonStable(p)
    BY <1>3 DEF HasContact, Edits, Known, CardsAreStable
<1>8. \A name \in Prop : p[name] \in {None, Fold[c[name]]}
  <2>1. \A name \in Prop : name \in Name \ {"VERSION"}
      BY CardAssumption DEF Name
  <2> QED BY <1>2, <1>3, <1>7, <2>1, AgreedNames
<1>9. UnchangedIsBase(u)'
    BY <1>1, <1>2, <1>3, <1>5 DEF UnchangedIsBase, HasContact
<1>10. EditsAreRecorded' /\ IndexIsCurrent'
    BY <1>1, <1>2, <1>4, <1>5, <1>6, <1>8, <1>9, EditsWrite
<1> QED BY <1>2, <1>10 DEF HandKeepsEdits, Handling

\* What fails, fails before anything is written.
LEMMA EditsFails ==
    ASSUME WholeWrites, Edits, FaultStep
    PROVE  EditsAreRecorded' /\ IndexIsCurrent' /\ HandKeepsEdits'
<1>1. ASSUME IndexFails \/ PutFails \/ SaveFails \/ Stop
      PROVE  EditsAreRecorded' /\ IndexIsCurrent' /\ HandKeepsEdits'
  <2>1. EndRun /\ UNCHANGED stores /\ pc \notin {"update", "refetch", "save"}
      BY <1>1 DEF IndexFails, PutFails, SaveFails, Stop, Fails, WholeWrites, stores
  <2> QED BY <2>1, EditsSame, EditsEnd DEF Edits
<1>2. ASSUME CreateFails
      PROVE  EditsAreRecorded' /\ IndexIsCurrent' /\ HandKeepsEdits'
  <2>1. /\ UNCHANGED <<stores, protonIdx, carddavIdx, todo, edited>>
        /\ pc = "create" /\ pc' = "loop"
      BY <1>2 DEF CreateFails, SkipContact, Fails, WholeWrites, stores
  <2> QED BY <2>1, EditsSame DEF Edits, IndexIsCurrent, HandKeepsEdits, Handling, stores
<1>3. ~UpdateFails
    BY ReconcileAssumption DEF UpdateFails, Fails, WholeWrites, Edits, HandKeepsEdits, Handling
<1>4. ~RefetchFails
    BY ReconcileAssumption DEF RefetchFails, Fails, WholeWrites, Edits, ProtonCardsAreStored
<1> QED BY <1>1, <1>2, <1>3, <1>4, EditsIndex DEF FaultStep

\* Every step keeps the three parts of the invariant.
LEMMA EditsStep ==
    ASSUME PlainClients, WholeWrites, Edits, [Next]_vars
    PROVE  EditsAreRecorded' /\ IndexIsCurrent' /\ HandKeepsEdits'
<1>1. CASE Finish
  <2>1. EndRun /\ UNCHANGED stores /\ pc = "loop"
      BY <1>1 DEF Finish
  <2> QED BY <2>1, EditsSame, EditsEnd DEF Edits
<1>2. CASE UNCHANGED vars
    BY <1>2 DEF vars, stores, locals, Edits, EditsAreRecorded, IndexIsCurrent,
           HandKeepsEdits, Handling, UnchangedIsBase, Unsynced, Bases, HasContact
<1> QED BY <1>1, <1>2, EditsUser, EditsIndex, EditsMerge, EditsOneSided, EditsPut, EditsUpdate,
           EditsCreate, EditsRefetch, EditsSave, EditsFails
        DEF Next, Run, RunStep

\* If users edit between runs and whatever fails does so before a run writes the
\* contact, a run rewrites a property only if a user of the other side changed it
\* since the row was saved: for every policy, and any number of contacts, edits,
\* faults and runs cut short ("changed on one side only: that side's value wins",
\* reconcileBoth and saveBases).
THEOREM OneSidedTheorem ==
    ASSUME NoneIsMissed, PlainClients, WholeWrites
    PROVE  Spec => OneSidedEditsWin
<1> DEFINE Kept ==
      /\ \A u \in UID, path \in Path, p \in Prop :
              (Run /\ objects[u][path] \in Card /\ objects'[u][path] \in Card
                   /\ objects'[u][path][p] # objects[u][path][p])
              => <<"P", p>> \in Unsynced(u)
      /\ \A u \in UID, id \in ID, p \in Prop :
              (Run /\ contacts[u][id] \in Card /\ contacts[u][id][p] # None
                   /\ contacts'[u][id][p] # contacts[u][id][p])
              => <<"C", p>> \in Unsynced(u)
<1>1. Init => Edits
  <2> SUFFICES ASSUME Init PROVE Edits
      OBVIOUS
  <2>1. Known
      BY InitType, OneInit, StableInit DEF Init, ContactInHand, Known
  <2>2. ProtonCardsAreStored
      BY StoredInit
  <2> QED BY <2>1, <2>2, EditsInit DEF Edits
<1>2. Edits /\ [Next]_vars => Edits'
  <2>1. "refetch" \notin CallFault \cup EditPhase
      BY DEF WholeWrites
  <2> QED BY <2>1, NextType, InHandStep, OneStep, StableStep, StoredStep, EditsStep
          DEF Edits, Known
<1>3. Edits /\ [Next]_vars => [Kept]_vars
  <2> SUFFICES ASSUME Edits, Run PROVE Kept
      BY DEF Next
  <2>1. ASSUME NEW u \in UID, NEW path \in Path, NEW p \in Prop,
               objects[u][path] \in Card, objects'[u][path] \in Card,
               objects'[u][path][p] # objects[u][path][p]
        PROVE  <<"P", p>> \in Unsynced(u)
    <3>1. pc = "put" /\ PutEffect
        BY <2>1 DEF Run, RunStep, FaultStep, stores, Put, PutFails, StartRun,
               IndexCardDAV, Finish, IndexFails, SaveFails, Stop, FetchCard, SkipCard,
               MergeBoth, CopyToCardDAV, CopyToProton, LeaveOneSided, Defer, Visit, Update,
               UpdateFails, CreateFails, SkipContact, Create, Refetch, RefetchFails, Save
    <3>2. work.uid = u /\ path = OwnPath /\ objects'[u][path] = work.merged
        BY <2>1, <3>1, ReconcileAssumption DEF PutEffect, Edits, Known, TypeOK
    <3> QED BY <2>1, <3>1, <3>2 DEF Edits, HandKeepsEdits, Handling
  <2>2. ASSUME NEW u \in UID, NEW id \in ID, NEW p \in Prop,
               contacts[u][id] \in Card, contacts[u][id][p] # None,
               contacts'[u][id][p] # contacts[u][id][p]
        PROVE  <<"C", p>> \in Unsynced(u)
    <3>1. \/ pc = "update" /\ UpdateEffect
          \/ pc = "create" /\ \E i \in ID : CreateEffect(i)
        BY <2>2 DEF Run, RunStep, FaultStep, stores, Put, PutFails, StartRun,
               IndexCardDAV, Finish, IndexFails, SaveFails, Stop, FetchCard, SkipCard,
               MergeBoth, CopyToCardDAV, CopyToProton, LeaveOneSided, Defer, Visit, Update,
               UpdateFails, CreateFails, SkipContact, Create, Refetch, RefetchFails, Save
    <3> HIDE DEF ProtonStores
    <3>2. CASE pc = "create" /\ \E i \in ID : CreateEffect(i)
        BY <2>2, <3>2, ReconcileAssumption DEF CreateEffect, Edits, Known, TypeOK
    <3>3. CASE pc = "update" /\ UpdateEffect
      <4>1. work.uid = u /\ work.id = id /\ contacts'[u][id] = ProtonStores(work.merged)
          BY <2>2, <3>3 DEF UpdateEffect, Edits, Known, TypeOK
      <4> QED BY <2>2, <3>3, <4>1 DEF Edits, HandKeepsEdits, Handling
    <3> QED BY <3>1, <3>2, <3>3
  <2> QED BY <2>1, <2>2
<1> QED BY <1>1, <1>2, <1>3, PTL DEF Spec, OneSidedEditsWin

=============================================================================
