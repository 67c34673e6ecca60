---------------------------- MODULE OneWay_proofs ----------------------------
(***************************************************************************)
(* Theorems about OneWay: what a change of sync.direction between two runs *)
(* cannot break, for any number of contacts, properties, edits and faults. *)
(***************************************************************************)
EXTENDS OneWay, Reconcile_proofs

\* A step that one-way runs have no part in is one of Reconcile.
LEMMA OtherSteps ==
    ASSUME [OneWayNext]_owVars, ~OneWayRun
    PROVE  [Next]_vars
BY DEF OneWayNext, AnyRun, ReconcileRun, SetDirection, UserBetweenRuns, Next, owVars

\* A one-way run takes no step of a bidirectional one.
LEMMA OneWayPc ==
    ASSUME OneWayInHand, OneWayRun
    PROVE  /\ pc = "idle" => pc' = "idle"
           /\ owpc # "idle" \/ Idle
BY DEF OneWayRun, ListProton, cardDAVByUID, PutOverlaid, ListCardDAV, UpdateByUID, UpsertRow,
       FinishOneWay, OneWayFails, PushNew, PushLater, PushSame, PushChanged, Push,
       OverlayCard, SkipOverlay, CreateNew, OneWayGoto, EndOneWay, EndRun, Idle, OneWayInHand

\* Nor is a one-way run an undisturbed run of both directions.
LEMMA OneWayDisturbs ==
    ASSUME OneWayInHand, OneWayRun
    PROVE  pc = "idle" /\ pc' = "idle" /\ quiet' = "no"
<1>1. pc = "idle" /\ pc' = "idle"
    BY OneWayPc DEF Idle, OneWayInHand
<1>2. ASSUME ListProton \/ ListCardDAV PROVE quiet' = "no"
    BY <1>2 DEF ListProton, ListCardDAV
<1>3. ASSUME owpc # "idle" PROVE quiet' = "no"
  <2>1. quiet = "no"
      BY <1>3 DEF OneWayInHand
  <2> QED BY <2>1, <1>3 DEF OneWayRun, ListProton, cardDAVByUID, PutOverlaid, ListCardDAV,
         UpdateByUID, UpsertRow, FinishOneWay, OneWayFails, PushNew, PushLater, PushSame,
         PushChanged, Push, OverlayCard, SkipOverlay, CreateNew, Works, Fails, Idle
<1>4. owpc = "idle" => ListProton \/ ListCardDAV
    BY DEF OneWayRun, cardDAVByUID, PutOverlaid, UpdateByUID, UpsertRow, FinishOneWay,
           OneWayFails, PushNew, PushLater, PushSame, PushChanged, Push, OverlayCard,
           SkipOverlay, CreateNew
<1> QED BY <1>1, <1>2, <1>3, <1>4

\* What a one-way run does to the two sides: it puts the card in hand, or creates
\* a contact of it, or leaves them as they are.
LEMMA OneWayWrites ==
    ASSUME OneWayRun
    PROVE  \/ UNCHANGED <<objects, contacts>>
           \/ owpc = "put" /\ PutEffect /\ UNCHANGED contacts
           \/ owpc = "create" /\ (\E id \in ID : CreateEffect(id)) /\ UNCHANGED objects
BY DEF OneWayRun, ListProton, cardDAVByUID, PutOverlaid, ListCardDAV, UpdateByUID, UpsertRow,
       FinishOneWay, OneWayFails, PushNew, PushLater, PushSame, PushChanged, Push,
       OverlayCard, SkipOverlay, CreateNew, stores
-----------------------------------------------------------------------------
(***************************************************************************)
(* Types.                                                                  *)
(***************************************************************************)
\* The overlay of a card on another is a card.
LEMMA OverlayType ==
    ASSUME NEW dst \in Card, NEW src \in Card
    PROVE  Overlay(dst, src) \in Card
<1>1. \A name \in Name : /\ dst[name] \in Value \cup {None}
                         /\ src[name] \in Value \cup {None}
    BY DEF Card
<1> QED BY <1>1 DEF Overlay, Card

\* The card that a one-way run puts is one.
LEMMA OverlaidType ==
    ASSUME TypeOK, NEW u \in UID, NEW id \in ID, contacts[u][id] \in Card
    PROVE  Overlaid(u, id) \in Card
BY OverlayType DEF Overlaid, TypeOK

\* An index of CardDAV has cards.
LEMMA IndexesType ==
    ASSUME TypeOK, NEW index \in Indexes
    PROVE  index \in [UID -> Card \cup {NoCard}]
BY DEF Indexes, TypeOK

\* A new contact in hand.
LEMMA WorkType ==
    ASSUME NEW u \in UID, NEW id \in ID \cup {NoCard}, NEW card \in Card
    PROVE  [NoWork EXCEPT !.uid = u, !.id = id, !.merged = card]
               \in [uid : UID \cup {NoCard}, id : ID \cup {NoCard}, merged : Card,
                    protonBase : Card, push : BOOLEAN]
BY EmptyCardType DEF NoWork

\* No contact in hand.
LEMMA NoWorkType ==
    NoWork \in [uid : UID \cup {NoCard}, id : ID \cup {NoCard}, merged : Card,
                protonBase : Card, push : BOOLEAN]
BY EmptyCardType DEF NoWork

\* The types after a step that reads one of the sides.
LEMMA OneWayReadType ==
    ASSUME TypeOK, OneWayTypeOK, OneWayInHand,
           \/ ListProton \/ cardDAVByUID \/ ListCardDAV
           \/ \E u \in UID : \/ PushNew(u) \/ PushLater(u) \/ PushSame(u) \/ PushChanged(u)
                             \/ \E id \in ID : OverlayCard(u, id) \/ SkipOverlay(u, id)
    PROVE  TypeOK' /\ OneWayTypeOK'
<1>1. CASE ListProton
    BY <1>1 DEF ListProton, OneWayGoto, stores, TypeOK, OneWayTypeOK, OneWayPC
<1>2. CASE cardDAVByUID
    BY <1>2, IndexesType DEF cardDAVByUID, OneWayGoto, stores, TypeOK, OneWayTypeOK, OneWayPC
<1>3. CASE ListCardDAV
    BY <1>3, IndexesType DEF ListCardDAV, OneWayGoto, stores, TypeOK, OneWayTypeOK, OneWayPC
<1>4. ASSUME NEW u \in UID, NEW next \in {"push", "create", "update"}, Push(u, next)
      PROVE  TypeOK' /\ OneWayTypeOK'
  <2>1. owpc = "push" /\ u \in todo
      BY <1>4 DEF Push
  <2>2. carddavIdx[u] \in Card
      BY <2>1 DEF OneWayInHand, TypeOK
  <2>3. work' \in [uid : UID \cup {NoCard}, id : ID \cup {NoCard}, merged : Card,
                   protonBase : Card, push : BOOLEAN]
      BY <1>4, <2>2, EmptyCardType DEF Push, NoWork, TypeOK
  <2> QED BY <1>4, <2>3 DEF Push, OneWayGoto, stores, TypeOK, OneWayTypeOK, OneWayPC
<1>5. ASSUME NEW u \in UID, NEW id \in ID, OverlayCard(u, id)
      PROVE  TypeOK' /\ OneWayTypeOK'
  <2>1. work' \in [uid : UID \cup {NoCard}, id : ID \cup {NoCard}, merged : Card,
                   protonBase : Card, push : BOOLEAN]
      BY <1>5, OverlaidType, WorkType DEF OverlayCard
  <2> QED BY <1>5, <2>1 DEF OverlayCard, OneWayGoto, stores, TypeOK, OneWayTypeOK, OneWayPC
<1>6. ASSUME NEW u \in UID, NEW id \in ID, SkipOverlay(u, id)
      PROVE  TypeOK' /\ OneWayTypeOK'
  <2>1. faults' \in 0 .. MaxFault /\ quiet' \in {"no", "running", "yes"}
      BY <1>6, FailsType DEF SkipOverlay
  <2> QED BY <1>6, <2>1 DEF SkipOverlay, stores, TypeOK, OneWayTypeOK, OneWayPC
<1> QED BY <1>1, <1>2, <1>3, <1>4, <1>5, <1>6 DEF PushNew, PushLater, PushSame, PushChanged

\* The types after a step that writes, or that ends the run.
LEMMA OneWayWriteType ==
    ASSUME TypeOK, OneWayTypeOK, OneWayInHand,
           \/ PutOverlaid \/ UpdateByUID \/ UpsertRow \/ FinishOneWay \/ OneWayFails
           \/ \E id \in ID : CreateNew(id)
    PROVE  TypeOK' /\ OneWayTypeOK'
<1>1. CASE PutOverlaid
    BY <1>1, EffectType DEF PutOverlaid, OneWayGoto, locals, TypeOK, OneWayTypeOK, OneWayPC
<1>2. ASSUME NEW id \in ID, CreateNew(id) PROVE TypeOK' /\ OneWayTypeOK'
  <2>1. contacts' \in [UID -> [ID -> Card \cup {NoCard, Deleted}]]
      BY <1>2, EffectType DEF CreateNew
  <2> QED BY <1>2, <2>1 DEF CreateNew, OneWayGoto, TypeOK, OneWayTypeOK, OneWayPC
<1>3. CASE UpsertRow
  <2>1. rows' \in [UID -> Row \cup {NoCard}]
      BY <1>3, EmptyCardType DEF UpsertRow, TypeOK, Row
  <2>2. hashes' \in [UID -> Card \cup {NoCard}]
      BY <1>3 DEF UpsertRow, OneWayTypeOK, TypeOK
  <2> QED BY <1>3, <2>1, <2>2, NoWorkType
          DEF UpsertRow, OneWayGoto, TypeOK, OneWayTypeOK, OneWayPC
<1>4. CASE UpdateByUID \/ FinishOneWay \/ OneWayFails
  <2>1. EndRun /\ owpc' = "idle" /\ UNCHANGED <<dir, hashes, rows>>
      BY <1>4 DEF UpdateByUID, FinishOneWay, OneWayFails, EndOneWay, stores
  <2>2. faults' \in 0 .. MaxFault /\ quiet' \in {"no", "running", "yes"}
      BY <1>4, ReconcileAssumption
         DEF UpdateByUID, FinishOneWay, OneWayFails, Fails, Works, TypeOK
  <2>3. objects' \in [UID -> [Path -> Card \cup {NoCard}]]
      BY <1>4, EffectType DEF UpdateByUID, FinishOneWay, OneWayFails, stores, TypeOK
  <2>4. contacts' \in [UID -> [ID -> Card \cup {NoCard, Deleted}]]
      BY <1>4, EffectType DEF UpdateByUID, FinishOneWay, OneWayFails, stores, TypeOK
  <2> QED BY <2>1, <2>2, <2>3, <2>4, EndRunType DEF TypeOK, OneWayTypeOK, OneWayPC, PC
<1> QED BY <1>1, <1>2, <1>3, <1>4

\* All steps keep the types of what OneWay adds.
LEMMA OneWayTypeStep ==
    TypeOK /\ OneWayTypeOK /\ OneWayInHand /\ [OneWayNext]_owVars => TypeOK' /\ OneWayTypeOK'
<1> SUFFICES ASSUME TypeOK, OneWayTypeOK, OneWayInHand, [OneWayNext]_owVars
             PROVE  TypeOK' /\ OneWayTypeOK'
    OBVIOUS
<1>1. CASE OneWayRun
    BY <1>1, OneWayReadType, OneWayWriteType DEF OneWayRun
<1>2. CASE ~OneWayRun
  <2>1. TypeOK'
      BY <1>2, OtherSteps, NextType
  <2>2. CASE ReconcileRun
      BY <2>1, <2>2 DEF ReconcileRun, OneWayTypeOK, TypeOK
  <2>3. CASE SetDirection \/ UserBetweenRuns \/ UNCHANGED owVars
      BY <2>1, <2>3 DEF SetDirection, UserBetweenRuns, owVars, OneWayTypeOK
  <2> QED BY <1>2, <2>1, <2>2, <2>3 DEF OneWayNext, AnyRun
<1> QED BY <1>1, <1>2

\* A one-way run names the contact in hand, and no bidirectional run goes on.
LEMMA OneWayInHandStep ==
    TypeOK /\ OneWayTypeOK /\ OneWayInHand /\ [OneWayNext]_owVars => OneWayInHand'
<1> SUFFICES ASSUME TypeOK, OneWayTypeOK, OneWayInHand, [OneWayNext]_owVars
             PROVE  OneWayInHand'
    OBVIOUS
<1>1. CASE owpc' = "idle"
    BY <1>1 DEF OneWayInHand
<1>2. CASE OneWayRun /\ owpc' # "idle"
  <2>1. pc' = "idle" /\ quiet' = "no"
      BY <1>2, OneWayDisturbs
  <2>2. CASE ListProton \/ cardDAVByUID \/ PutOverlaid \/ ListCardDAV
      BY <2>1, <2>2 DEF ListProton, cardDAVByUID, PutOverlaid, ListCardDAV, OneWayGoto,
             locals, Idle, OneWayInHand
  <2>3. CASE UpsertRow
      BY <2>1, <2>3 DEF UpsertRow, OneWayGoto, OneWayInHand
  <2>4. CASE \E u \in UID : PushNew(u) \/ PushLater(u) \/ PushSame(u) \/ PushChanged(u)
      BY <2>1, <2>4 DEF PushNew, PushLater, PushSame, PushChanged, Push, NoWork,
             OneWayGoto, OneWayInHand
  <2>5. CASE \E u \in UID, id \in ID : OverlayCard(u, id) \/ SkipOverlay(u, id)
      BY <2>1, <2>5 DEF OverlayCard, SkipOverlay, NoWork, OneWayGoto, OneWayInHand
  <2>6. CASE \E id \in ID : CreateNew(id)
      BY <2>1, <2>6 DEF CreateNew, OneWayGoto, OneWayInHand
  <2>7. CASE UpdateByUID \/ FinishOneWay \/ OneWayFails
      BY <1>2, <2>7 DEF UpdateByUID, FinishOneWay, OneWayFails, EndOneWay
  <2> QED BY <1>2, <2>2, <2>3, <2>4, <2>5, <2>6, <2>7 DEF OneWayRun
<1>3. CASE ~OneWayRun /\ owpc' # "idle"
  <2>1. UNCHANGED owVars
      BY <1>3 DEF OneWayNext, AnyRun, ReconcileRun, SetDirection, UserBetweenRuns, Idle
  <2> QED BY <2>1 DEF owVars, vars, locals, OneWayInHand
<1> QED BY <1>1, <1>2, <1>3
-----------------------------------------------------------------------------
(***************************************************************************)
(* QuietAgreement, and NoDuplicateContact, under any changes of direction. *)
(***************************************************************************)
\* Proton's properties over CardDAV's make a card as CardDAV may have it.
LEMMA OverlayStable ==
    ASSUME NEW dst \in Card, NEW src \in Card, CardDAVStable(dst), ProtonStable(src)
    PROVE  CardDAVStable(Overlay(dst, src))
<1>1. "REV" \in Name \ {"VERSION"} /\ "VERSION" \in Name
    BY DEF Name
<1>2. Overlay(dst, src)["VERSION"] = dst["VERSION"]
    BY <1>1 DEF Overlay, preservedFromDst
<1>3. Overlay(dst, src)["REV"] \in {dst["REV"], src["REV"]}
    BY <1>1 DEF Overlay
<1>4. Fold[src["REV"]] = src["REV"]
    BY <1>1 DEF ProtonStable
<1> QED BY <1>2, <1>3, <1>4 DEF CardDAVStable

\* So is the card that a one-way run puts.
LEMMA OverlaidStable ==
    ASSUME TypeOK, CardsAreStable, NEW u \in UID, NEW id \in ID, contacts[u][id] \in Card
    PROVE  CardDAVStable(Overlaid(u, id))
<1>1. ProtonStable(contacts[u][id])
    BY DEF CardsAreStable
<1>2. carddavIdx[u] # NoCard => carddavIdx[u] \in Card /\ CardDAVStable(carddavIdx[u])
    BY DEF CardsAreStable, TypeOK
<1> QED BY <1>1, <1>2, OverlayStable, ProtonStableSends DEF Overlaid

\* The card in hand has been on CardDAV, or is about to be.
LEMMA OneWayStableStep ==
    ASSUME TypeOK, OneWayTypeOK, OneWayInHand, CardsAreStable, OneWayStable,
           [OneWayNext]_owVars
    PROVE  OneWayStable'
<1>1. CASE owpc' \notin {"put", "create", "update", "upsert"}
    BY <1>1 DEF OneWayStable
<1>2. CASE PutOverlaid \/ \E id \in ID : CreateNew(id)
    BY <1>2 DEF PutOverlaid, CreateNew, locals, OneWayStable
<1>3. ASSUME NEW u \in UID, PushNew(u) \/ PushChanged(u) PROVE OneWayStable'
  <2>1. carddavIdx[u] # NoCard /\ work'.merged = carddavIdx[u]
      BY <1>3 DEF PushNew, PushChanged, Push, NoWork, OneWayInHand
  <2> QED BY <2>1 DEF CardsAreStable, OneWayStable
<1>4. ASSUME NEW u \in UID, NEW id \in ID, OverlayCard(u, id) PROVE OneWayStable'
  <2>1. contacts[u][id] \in Card /\ work'.merged = Overlaid(u, id)
      BY <1>4 DEF OverlayCard, NoWork
  <2> QED BY <2>1, OverlaidStable DEF OneWayStable
<1>5. CASE owpc' = owpc /\ work' = work
    BY <1>5 DEF OneWayStable
<1>6. ASSUME owpc' \in {"put", "create", "update", "upsert"}
      PROVE  \/ PutOverlaid \/ \E id \in ID : CreateNew(id)
             \/ \E u \in UID : \/ PushNew(u) \/ PushChanged(u)
                               \/ \E id \in ID : OverlayCard(u, id)
             \/ owpc' = owpc /\ work' = work
    BY <1>6 DEF OneWayNext, AnyRun, OneWayRun, ListProton, cardDAVByUID, ListCardDAV,
           UpdateByUID, UpsertRow, FinishOneWay, OneWayFails, PushLater, PushSame, Push,
           SkipOverlay, OneWayGoto, EndOneWay, ReconcileRun, SetDirection, UserBetweenRuns,
           Idle, owVars, vars, locals
<1> QED BY <1>1, <1>2, <1>3, <1>4, <1>5, <1>6

\* A one-way run makes no second contact that Proton refuses.
LEMMA OneWayOne ==
    ASSUME RejectDuplicateUID, TypeOK, OneContact, OneWayInHand, OneWayRun
    PROVE  OneContact'
<1>1. CASE UNCHANGED contacts
    BY <1>1 DEF OneContact
<1>2. CASE owpc = "create" /\ \E id \in ID : CreateEffect(id)
  <2>1. PICK id \in ID : CreateEffect(id)
      BY <1>2
  <2>2. ~HasContact(work.uid) /\ work.uid \in UID
      BY <1>2, <2>1 DEF CreateEffect, Refused, OneWayInHand
  <2>3. \A u \in UID, i \in ID : contacts'[u][i] \in Card
          => contacts[u][i] \in Card \/ (u = work.uid /\ i = id)
      BY <2>1, <2>2 DEF CreateEffect, TypeOK
  <2> QED BY <2>2, <2>3 DEF OneContact, HasContact
<1> QED BY <1>1, <1>2, OneWayWrites

\* What a one-way run writes, and indexes, is as the two sides have it.
LEMMA OneWayCards ==
    ASSUME TypeOK, CardsAreStable, OneWayInHand, OneWayStable, OneWayRun
    PROVE  CardsAreStable'
<1>1. pc = "idle" /\ pc' = "idle"
    BY OneWayDisturbs
<1>2. ASSUME NEW u \in UID, NEW path \in Path, objects'[u][path] # NoCard
      PROVE  path = OwnPath /\ CardDAVStable(objects'[u][path])
  <2>1. CASE UNCHANGED objects
      BY <1>2, <2>1 DEF CardsAreStable
  <2>2. CASE owpc = "put" /\ PutEffect
    <3>1. work.uid \in UID /\ CardDAVStable(work.merged)
        BY <2>2 DEF OneWayInHand, OneWayStable
    <3> QED BY <1>2, <2>2, <3>1, ReconcileAssumption DEF PutEffect, TypeOK, CardsAreStable
  <2> QED BY <2>1, <2>2, OneWayWrites
<1>3. ASSUME NEW u \in UID, NEW id \in ID, contacts'[u][id] \in Card
      PROVE  ProtonStable(contacts'[u][id])
  <2>1. CASE UNCHANGED contacts
      BY <1>3, <2>1 DEF CardsAreStable
  <2>2. ASSUME NEW i \in ID, CreateEffect(i), owpc = "create"
        PROVE  ProtonStable(contacts'[u][id])
    <3>1. work.uid \in UID /\ work.merged \in Card
        BY <2>2 DEF OneWayInHand, TypeOK
    <3>2. ProtonStable(ProtonStores(work.merged))
        BY <3>1, StoresStable
    <3> HIDE DEF ProtonStores
    <3> QED BY <1>3, <2>2, <3>1, <3>2 DEF CreateEffect, TypeOK, CardsAreStable
  <2> QED BY <2>1, <2>2, OneWayWrites
<1>4. \A u \in UID : protonIdx[u] = NoCard
    BY <1>1 DEF CardsAreStable
<1>5. \A u \in UID : protonIdx'[u] = NoCard
    BY <1>4 DEF OneWayRun, ListProton, cardDAVByUID, PutOverlaid, ListCardDAV, UpdateByUID,
           UpsertRow, FinishOneWay, OneWayFails, PushNew, PushLater, PushSame, PushChanged,
           Push, OverlayCard, SkipOverlay, CreateNew, EndOneWay, EndRun, locals
<1>6. ASSUME NEW u \in UID, carddavIdx'[u] # NoCard PROVE CardDAVStable(carddavIdx'[u])
  <2>1. \/ carddavIdx' = carddavIdx
        \/ carddavIdx' \in Indexes
        \/ carddavIdx' = [v \in UID |-> NoCard]
      BY DEF OneWayRun, ListProton, cardDAVByUID, PutOverlaid, ListCardDAV, UpdateByUID,
             UpsertRow, FinishOneWay, OneWayFails, PushNew, PushLater, PushSame, PushChanged,
             Push, OverlayCard, SkipOverlay, CreateNew, EndOneWay, EndRun, locals
  <2> QED BY <1>6, <2>1 DEF Indexes, CardsAreStable
<1> QED BY <1>1, <1>2, <1>3, <1>5, <1>6 DEF CardsAreStable, Handling

OneWayKnown == OneWayTypeOK /\ OneWayInHand /\ OneWayStable

\* No run of any direction has begun.
LEMMA OneWayInitType ==
    ASSUME OneWayInit
    PROVE  TypeOK /\ ContactInHand /\ OneWayTypeOK /\ OneWayInHand
BY InitType, OneWayAssumption
   DEF OneWayInit, Init, ContactInHand, OneWayTypeOK, OneWayPC, OneWayInHand

\* The inductive invariant of the bidirectional runs is one of all runs.
LEMMA OneWaySettleStep ==
    ASSUME RejectDuplicateUID, PlainClients
    PROVE  /\ Known /\ RunSettles /\ HandSettles /\ OneWayKnown
           /\ [OneWayNext]_owVars
           => (Known /\ RunSettles /\ HandSettles /\ OneWayKnown)'
<1> SUFFICES ASSUME Known, RunSettles, HandSettles, OneWayKnown, [OneWayNext]_owVars
             PROVE  (Known /\ RunSettles /\ HandSettles /\ OneWayKnown)'
    OBVIOUS
<1>1. TypeOK' /\ OneWayKnown'
    BY OneWayTypeStep, OneWayInHandStep, OneWayStableStep DEF Known, OneWayKnown
<1>2. CASE OneWayRun
  <2>1. pc' = "idle" /\ quiet' = "no"
      BY <1>2, OneWayDisturbs DEF OneWayKnown
  <2>2. ContactInHand' /\ RunSettles' /\ HandSettles'
      BY <2>1 DEF ContactInHand, RunSettles, HandSettles
  <2>3. OneContact' /\ CardsAreStable'
      BY <1>2, OneWayOne, OneWayCards DEF Known, OneWayKnown
  <2> QED BY <1>1, <2>2, <2>3 DEF Known
<1>3. CASE ~OneWayRun
  <2>1. [Next]_vars /\ NoneIsMissed
      BY <1>3, OtherSteps DEF NoneIsMissed
  <2>2. RunSettles' /\ HandSettles'
      BY <2>1, SettleStep
  <2>3. Known'
      BY <1>1, <2>1, InHandStep, OneStep, StableStep DEF Known
  <2> QED BY <1>1, <2>2, <2>3
<1> QED BY <1>2, <1>3

\* It is one of every behaviour.
LEMMA OneWaySettleCorrect ==
    ASSUME RejectDuplicateUID, PlainClients
    PROVE  OneWaySpec => [](Known /\ RunSettles /\ HandSettles /\ OneWayKnown)
<1>1. OneWayInit => Known /\ RunSettles /\ HandSettles /\ OneWayKnown
  <2> SUFFICES ASSUME OneWayInit PROVE Known /\ RunSettles /\ HandSettles /\ OneWayKnown
      OBVIOUS
  <2>1. Init /\ owpc = "idle"
      BY DEF OneWayInit
  <2>2. OneContact /\ CardsAreStable /\ RunSettles /\ HandSettles
      BY <2>1, OneInit, StableInit, SettleInit
  <2> QED BY <2>1, <2>2, OneWayInitType DEF Known, OneWayKnown, OneWayStable
<1>2. Known /\ RunSettles /\ HandSettles /\ OneWayKnown /\ [OneWayNext]_owVars
        => (Known /\ RunSettles /\ HandSettles /\ OneWayKnown)'
    BY OneWaySettleStep
<1> QED BY <1>1, <1>2, PTL DEF OneWaySpec

\* After one undisturbed run of both directions the two sides agree, and the rows
\* hold what they have, whatever one-way runs went before it, rows without bases,
\* hashes and runs cut short included (reconcile after syncProtonToCardDAV and
\* syncCardDAVToProton).
THEOREM OneWayQuietTheorem ==
    ASSUME RejectDuplicateUID, PlainClients
    PROVE  OneWaySpec => []QuietAgreement
BY OneWaySettleCorrect, SettledAgreement, PTL
-----------------------------------------------------------------------------
(***************************************************************************)
(* CardDAVOnlySurvives.                                                    *)
(***************************************************************************)
\* What a one-way run leaves of Proton's cards has been through a write.
LEMMA OneWayStored ==
    ASSUME TypeOK, OneWayInHand, ProtonCardsAreStored, OneWayRun
    PROVE  ProtonCardsAreStored'
<1>1. pc = "idle" /\ pc' = "idle"
    BY OneWayDisturbs
<1>2. ASSUME NEW u \in UID, NEW id \in ID, contacts'[u][id] \in Card
      PROVE  LacksDropped(contacts'[u][id])
  <2>1. CASE UNCHANGED contacts
      BY <1>2, <2>1 DEF ProtonCardsAreStored
  <2>2. ASSUME NEW i \in ID, CreateEffect(i), owpc = "create"
        PROVE  LacksDropped(contacts'[u][id])
    <3>1. work.uid \in UID /\ work.merged \in Card
        BY <2>2 DEF OneWayInHand, TypeOK
    <3>2. LacksDropped(ProtonStores(work.merged))
        BY <3>1, StoresType DEF LacksDropped
    <3> HIDE DEF ProtonStores
    <3> QED BY <1>2, <2>2, <3>1, <3>2 DEF CreateEffect, TypeOK, ProtonCardsAreStored
  <2> QED BY <2>1, <2>2, OneWayWrites
<1>3. \A u \in UID : protonIdx'[u] # NoCard => protonIdx'[u] = protonIdx[u]
    BY DEF OneWayRun, ListProton, cardDAVByUID, PutOverlaid, ListCardDAV, UpdateByUID,
           UpsertRow, FinishOneWay, OneWayFails, PushNew, PushLater, PushSame, PushChanged,
           Push, OverlayCard, SkipOverlay, CreateNew, EndOneWay, EndRun, locals
<1>4. ASSUME NEW u \in UID, rows'[u] # NoCard PROVE LacksDropped(rows'[u].protonBase)
  <2>1. CASE UNCHANGED rows
      BY <1>4, <2>1 DEF ProtonCardsAreStored
  <2>2. CASE UpsertRow
    <3>1. LacksDropped(EmptyCard)
        BY ReconcileAssumption DEF LacksDropped, EmptyCard, Name
    <3> HIDE DEF EmptyCard
    <3> QED BY <1>4, <2>2, <3>1 DEF UpsertRow, ProtonCardsAreStored, TypeOK
  <2>3. UNCHANGED rows \/ UpsertRow
      BY DEF OneWayRun, ListProton, cardDAVByUID, PutOverlaid, ListCardDAV, UpdateByUID,
             FinishOneWay, OneWayFails, PushNew, PushLater, PushSame, PushChanged,
             Push, OverlayCard, SkipOverlay, CreateNew, stores
  <2> QED BY <2>1, <2>2, <2>3
<1> QED BY <1>1, <1>2, <1>3, <1>4 DEF ProtonCardsAreStored

\* The part of DroppedIsIndexed that is about every object.
OnlyOwnPath == \A u \in UID, path \in Path : objects[u][path] # NoCard => path = OwnPath

\* Every index has the objects that there are.
LEMMA IndexShowsObject ==
    ASSUME OnlyOwnPath, NEW index \in Indexes, NEW u \in UID
    PROVE  index[u] = objects[u][OwnPath]
<1>1. PICK path \in Path : /\ index[u] = objects[u][path]
                           /\ HasObject(u) => objects[u][path] # NoCard
    BY DEF Indexes
<1> QED BY <1>1, ReconcileAssumption DEF OnlyOwnPath, HasObject

\* It stays so, whatever direction runs.
LEMMA OwnPathStep ==
    ASSUME TypeOK, ContactInHand, OneWayInHand, OnlyOwnPath, [OneWayNext]_owVars
    PROVE  OnlyOwnPath'
<1>1. CASE UNCHANGED objects
    BY <1>1 DEF OnlyOwnPath
<1>2. CASE PutEffect
    BY <1>2 DEF PutEffect, OnlyOwnPath, TypeOK
<1>3. CASE User
  <2>1. \/ UNCHANGED objects
        \/ \E u \in UID, path \in Path, card \in UserCard \cup {NoCard} :
              /\ card # NoCard => path = OwnPath
              /\ objects' = [objects EXCEPT ![u][path] = card]
      BY <1>3, ReconcileAssumption, OneWayAssumption
         DEF User, EditCardDAV, CreateCardDAV, DeleteCardDAV, EditProton, CreateProton,
             DeleteProton, OnlyOwnPath
  <2>2. ASSUME NEW u \in UID, NEW path \in Path, NEW card \in UserCard \cup {NoCard},
               card # NoCard => path = OwnPath,
               objects' = [objects EXCEPT ![u][path] = card],
               NEW v \in UID, NEW q \in Path, objects'[v][q] # NoCard
        PROVE  q = OwnPath
    <3>1. CASE v = u /\ q = path
        BY <2>2, <3>1 DEF TypeOK
    <3>2. CASE ~(v = u /\ q = path)
        BY <2>2, <3>2 DEF TypeOK, OnlyOwnPath
    <3> QED BY <3>1, <3>2
  <2> QED BY <1>1, <2>1, <2>2 DEF OnlyOwnPath
<1>4. CASE Run
  <2>1. UNCHANGED objects \/ PutEffect
      BY <1>4 DEF Run, RunStep, FaultStep, stores, Put, PutFails, StartRun,
             IndexCardDAV, Finish, IndexFails, SaveFails, Stop, FetchCard, SkipCard,
             MergeBoth, CopyToCardDAV, CopyToProton, LeaveOneSided, Defer, Visit, Update,
             UpdateFails, CreateFails, SkipContact, Create, Refetch, RefetchFails, Save
  <2> QED BY <1>1, <1>2, <2>1
<1>5. CASE OneWayRun
    BY <1>1, <1>2, <1>5, OneWayWrites
<1>6. CASE SetDirection \/ UNCHANGED owVars
    BY <1>1, <1>6 DEF SetDirection, owVars, vars, stores
<1> QED BY <1>3, <1>4, <1>5, <1>6 DEF OneWayNext, AnyRun, ReconcileRun, UserBetweenRuns

\* What a bidirectional run has still to visit, or to put, is as it indexed it.
VisitsAreCurrent ==
    /\ pc \notin {"idle", "fetch"} => \A u \in todo : carddavIdx[u] = objects[u][OwnPath]
    /\ pc = "put" => work.uid \notin todo /\ carddavIdx[work.uid] = objects[work.uid][OwnPath]

\* It stays so, as users edit between runs.
LEMMA VisitsStep ==
    ASSUME EditPhase \subseteq {"idle"}, TypeOK, ContactInHand, OnlyOwnPath, VisitsAreCurrent,
           [Next]_vars
    PROVE  VisitsAreCurrent'
<1>1. CASE pc' \in {"idle", "fetch"}
    BY <1>1 DEF VisitsAreCurrent
<1>2. CASE User
  <2>1. pc' = "idle"
      BY <1>2 DEF User, UserStep, EditCardDAV, CreateCardDAV, DeleteCardDAV,
             EditProton, CreateProton, DeleteProton
  <2> QED BY <1>1, <2>1
<1>3. CASE IndexCardDAV
  <2>1. \A u \in UID : carddavIdx'[u] = objects[u][OwnPath]
      BY <1>3, IndexShowsObject DEF IndexCardDAV
  <2>2. todo' \subseteq UID
      BY <1>3 DEF IndexCardDAV
  <2> QED BY <1>3, <2>1, <2>2 DEF IndexCardDAV, stores, VisitsAreCurrent
<1>4. ASSUME NEW u \in UID, MergeBoth(u) \/ CopyToCardDAV(u) \/ CopyToProton(u)
                              \/ LeaveOneSided(u) \/ Defer(u)
      PROVE  VisitsAreCurrent'
  <2>1. /\ pc = "loop" /\ u \in todo /\ todo' = todo \ {u}
        /\ UNCHANGED <<objects, carddavIdx>>
        /\ pc' = "put" => work'.uid = u
      BY <1>4 DEF MergeBoth, CopyToCardDAV, CopyToProton, LeaveOneSided, Defer, Visit, stores
  <2> QED BY <2>1 DEF VisitsAreCurrent
<1>5. CASE Put
  <2>1. pc = "put" /\ pc' \in {"update", "save"} /\ PutEffect /\ UNCHANGED <<todo, carddavIdx>>
      BY <1>5 DEF Put, locals
  <2>2. work.uid \in UID /\ work.uid \notin todo
      BY <2>1 DEF ContactInHand, VisitsAreCurrent
  <2>3. \A u \in UID \ {work.uid} : objects'[u] = objects[u]
      BY <2>1, <2>2 DEF PutEffect, TypeOK
  <2> QED BY <2>1, <2>2, <2>3 DEF VisitsAreCurrent, TypeOK
<1>6. CASE Update \/ UpdateFails \/ CreateFails \/ Refetch \/ RefetchFails \/ Save
           \/ \E id \in ID : Create(id)
    BY <1>6 DEF Update, UpdateFails, CreateFails, SkipContact, Refetch, RefetchFails, Save,
           Create, stores, locals, VisitsAreCurrent
<1>7. CASE UNCHANGED vars
    BY <1>7 DEF vars, stores, locals, VisitsAreCurrent
<1>8. ASSUME \/ StartRun \/ Finish \/ IndexFails \/ PutFails \/ SaveFails \/ Stop
             \/ \E u \in UID, id \in ID : FetchCard(u, id) \/ SkipCard(u, id)
      PROVE  pc' \in {"idle", "fetch"}
    BY <1>8 DEF StartRun, Finish, IndexFails, PutFails, SaveFails, Stop, EndRun, FetchCard,
           SkipCard
<1> QED BY <1>1, <1>2, <1>3, <1>4, <1>5, <1>6, <1>7, <1>8 DEF Next, Run, RunStep, FaultStep

\* All the objects, and the card that is about to be put, have what the index has.
OneWayDropped ==
    /\ owpc \notin {"idle", "index"} => \A u \in UID, p \in Dropped :
          objects[u][OwnPath] \in Card => objects[u][OwnPath][p] = Indexed(u, p)
    /\ owpc = "put" => \A p \in Dropped : work.merged[p] = Indexed(work.uid, p)

\* The overlay of Proton's card changes nothing that Proton cannot hold.
LEMMA OverlaidKeeps ==
    ASSUME TypeOK, ProtonCardsAreStored, NEW u \in UID, NEW id \in ID,
           contacts[u][id] \in Card, NEW p \in Dropped
    PROVE  Overlaid(u, id)[p] = Indexed(u, p)
<1>1. contacts[u][id][p] = None
    BY DEF ProtonCardsAreStored, LacksDropped
<1>2. p \in Name
    BY ReconcileAssumption DEF Name
<1> QED BY <1>1, <1>2 DEF Overlaid, Indexed, Overlay, Keys

\* What runs put keeps the dropped properties that the index has.
LEMMA DroppedStep ==
    ASSUME TypeOK, OneWayInHand, ProtonCardsAreStored, OnlyOwnPath, OneWayDropped,
           [OneWayNext]_owVars
    PROVE  OneWayDropped'
<1>1. CASE owpc' \in {"idle", "index"}
    BY <1>1 DEF OneWayDropped
<1>2. CASE cardDAVByUID
  <2>1. \A u \in UID : carddavIdx'[u] = objects[u][OwnPath]
      BY <1>2, IndexShowsObject DEF cardDAVByUID
  <2> QED BY <1>2, <2>1, ReconcileAssumption
          DEF cardDAVByUID, OneWayGoto, stores, OneWayDropped, Indexed
<1>3. CASE ListCardDAV
  <2>1. \A u \in UID : carddavIdx'[u] = objects[u][OwnPath]
      BY <1>3, IndexShowsObject DEF ListCardDAV
  <2> QED BY <1>3, <2>1, ReconcileAssumption
          DEF ListCardDAV, OneWayGoto, stores, OneWayDropped, Indexed
<1>4. ASSUME NEW u \in UID, NEW id \in ID, OverlayCard(u, id) PROVE OneWayDropped'
  <2>1. /\ owpc = "overlay" /\ contacts[u][id] \in Card
        /\ work'.uid = u /\ work'.merged = Overlaid(u, id)
        /\ UNCHANGED <<objects, carddavIdx>>
      BY <1>4 DEF OverlayCard, NoWork, stores
  <2>2. \A p \in Dropped : work'.merged[p] = Indexed(u, p)
      BY <2>1, OverlaidKeeps
  <2> QED BY <2>1, <2>2 DEF OneWayDropped, Indexed
<1>5. CASE PutOverlaid
  <2>1. /\ owpc = "put" /\ owpc' = "upsert" /\ UNCHANGED carddavIdx
        /\ objects' = [objects EXCEPT ![work.uid][OwnPath] = work.merged]
      BY <1>5 DEF PutOverlaid, PutEffect, OneWayGoto, locals
  <2>2. ASSUME NEW u \in UID, NEW p \in Dropped, objects'[u][OwnPath] \in Card
        PROVE  objects'[u][OwnPath][p] = Indexed(u, p)
    <3>1. CASE u = work.uid
      <4>1. objects'[u][OwnPath] = work.merged
          BY <2>1, <2>2, <3>1, ReconcileAssumption DEF TypeOK
      <4> QED BY <2>1, <2>2, <3>1, <4>1 DEF OneWayDropped
    <3>2. CASE u # work.uid
      <4>1. objects'[u] = objects[u]
          BY <2>1, <2>2, <3>2 DEF TypeOK
      <4> QED BY <2>1, <2>2, <4>1 DEF OneWayDropped
    <3> QED BY <3>1, <3>2
  <2> QED BY <2>1, <2>2 DEF OneWayDropped, Indexed
<1>6. CASE /\ owpc \notin {"idle", "index"} /\ owpc' # "put"
           /\ UNCHANGED <<objects, carddavIdx>>
    BY <1>6 DEF OneWayDropped, Indexed
<1>7. CASE UNCHANGED <<owpc, objects, carddavIdx, work>>
    BY <1>7 DEF OneWayDropped, Indexed
<1>8. ASSUME owpc' \notin {"idle", "index"}, OneWayRun
      PROVE  \/ cardDAVByUID \/ ListCardDAV \/ PutOverlaid
             \/ \E u \in UID, id \in ID : OverlayCard(u, id)
             \/ /\ owpc \notin {"idle", "index"} /\ owpc' # "put"
                /\ UNCHANGED <<objects, carddavIdx>>
    BY <1>8 DEF OneWayRun, ListProton, UpdateByUID, UpsertRow, FinishOneWay, OneWayFails,
           PushNew, PushLater, PushSame, PushChanged, Push, SkipOverlay, CreateNew,
           OneWayGoto, EndOneWay, stores
<1>9. CASE ~OneWayRun
  <2>1. owpc' = "idle" \/ UNCHANGED owVars
      BY <1>9 DEF OneWayNext, AnyRun, ReconcileRun, SetDirection, UserBetweenRuns, Idle
  <2> QED BY <1>1, <1>7, <2>1 DEF owVars, vars, stores, locals
<1> QED BY <1>1, <1>2, <1>3, <1>4, <1>5, <1>6, <1>8, <1>9

\* No step of a run changes a dropped property of an object that stays.
LEMMA SurvivesStep ==
    ASSUME TypeOK, ContactInHand, OneWayInHand, CardDAVOnlyKept, DroppedIsIndexed, AnyRun,
           NEW u \in UID, NEW p \in Dropped,
           objects[u][OwnPath] \in Card, objects'[u][OwnPath] \in Card
    PROVE  objects'[u][OwnPath][p] = objects[u][OwnPath][p]
<1>1. CASE objects'[u] = objects[u]
    BY <1>1
<1>2. CASE objects'[u] # objects[u]
  <2>1. /\ (pc = "put" /\ Run) \/ owpc = "put"
        /\ PutEffect
    <3>1. CASE OneWayRun
        BY <1>2, <3>1, OneWayWrites
    <3>2. CASE Run
        BY <1>2, <3>2 DEF Run, RunStep, FaultStep, stores, Put, PutFails, StartRun,
               IndexCardDAV, Finish, IndexFails, SaveFails, Stop, FetchCard, SkipCard,
               MergeBoth, CopyToCardDAV, CopyToProton, LeaveOneSided, Defer, Visit, Update,
               UpdateFails, CreateFails, SkipContact, Create, Refetch, RefetchFails, Save
    <3> QED BY <3>1, <3>2 DEF AnyRun, ReconcileRun
  <2>2. u = work.uid /\ objects'[u][OwnPath] = work.merged
      BY <1>2, <2>1, ReconcileAssumption DEF PutEffect, TypeOK
  <2>3. CASE pc = "put"
    <3>1. carddavIdx[u] = objects[u][OwnPath]
        BY <2>2, <2>3 DEF DroppedIsIndexed
    <3>2. carddavIdx[u] # NoCard
        BY <3>1, ReconcileAssumption
    <3> QED BY <2>2, <2>3, <3>1, <3>2 DEF CardDAVOnlyKept
  <2>4. CASE owpc = "put"
      BY <2>2, <2>4 DEF DroppedIsIndexed
  <2> QED BY <2>1, <2>3, <2>4
<1> QED BY <1>1, <1>2

\* While users edit between runs only and no refetch fails, no run of any direction
\* changes a property of an object that Proton cannot hold: neither the overlay of
\* a one-way run, nor a merge that finds a row without bases, nor a run that a
\* fault cut short (OverlayString, ThreeWay, saveBases).
THEOREM SurvivesTheorem ==
    ASSUME EditPhase \subseteq {"idle"}, "refetch" \notin CallFault
    PROVE  OneWaySpec => CardDAVOnlySurvives
<1> DEFINE Held == /\ TypeOK /\ ContactInHand /\ OneWayTypeOK /\ OneWayInHand
                   /\ ProtonCardsAreStored /\ CardDAVOnlyKept
           Inv == Held /\ DroppedIsIndexed
<1>1. DroppedIsIndexed <=> OnlyOwnPath /\ VisitsAreCurrent /\ OneWayDropped
    BY DEF DroppedIsIndexed, OnlyOwnPath, VisitsAreCurrent, OneWayDropped
<1>2. DroppedIsIndexed' <=> OnlyOwnPath' /\ VisitsAreCurrent' /\ OneWayDropped'
    BY DEF DroppedIsIndexed, OnlyOwnPath, VisitsAreCurrent, OneWayDropped
<1>3. OneWayInit => Inv
  <2> SUFFICES ASSUME OneWayInit PROVE Inv
      OBVIOUS
  <2>1. Init /\ pc = "idle" /\ owpc = "idle"
      BY DEF OneWayInit, Init
  <2>2. OnlyOwnPath
    <3>1. \A u \in UID : \A path \in Path \ UserPath : objects[u][path] = NoCard
        BY <2>1 DEF Init
    <3> QED BY <3>1, OneWayAssumption DEF OnlyOwnPath
  <2> QED BY <1>1, <2>1, <2>2, OneWayInitType, StoredInit
          DEF VisitsAreCurrent, OneWayDropped, CardDAVOnlyKept
<1>4. Inv /\ [OneWayNext]_owVars => Inv'
  <2> SUFFICES ASSUME Inv, [OneWayNext]_owVars PROVE Inv'
      OBVIOUS
  <2>1. TypeOK' /\ OneWayTypeOK' /\ OneWayInHand'
      BY OneWayTypeStep, OneWayInHandStep
  <2>2. OnlyOwnPath' /\ OneWayDropped'
      BY <1>1, OwnPathStep, DroppedStep
  <2>3. CASE OneWayRun
    <3>1. pc' = "idle"
        BY <2>3, OneWayDisturbs
    <3> QED BY <1>2, <2>1, <2>2, <2>3, <3>1, OneWayStored
            DEF ContactInHand, CardDAVOnlyKept, VisitsAreCurrent
  <2>4. CASE ~OneWayRun
    <3>1. [Next]_vars
        BY <2>4, OtherSteps
    <3>2. ContactInHand' /\ ProtonCardsAreStored' /\ CardDAVOnlyKept'
        BY <3>1, InHandStep, StoredStep, KeptStep
    <3>3. VisitsAreCurrent'
        BY <1>1, <3>1, VisitsStep
    <3> QED BY <1>2, <2>1, <2>2, <3>2, <3>3
  <2> QED BY <2>3, <2>4
<1>5. Inv /\ [OneWayNext]_owVars
        => [ \A u \in UID, p \in Dropped :
                (AnyRun /\ objects[u][OwnPath] \in Card /\ objects'[u][OwnPath] \in Card)
                => objects'[u][OwnPath][p] = objects[u][OwnPath][p] ]_owVars
    BY SurvivesStep
<1> QED BY <1>3, <1>4, <1>5, PTL DEF OneWaySpec, CardDAVOnlySurvives
-----------------------------------------------------------------------------
(***************************************************************************)
(* DeletionsStand.                                                         *)
(***************************************************************************)
\* A contact that a run is about to create on Proton has no row.
LEMMA OneWayCreatesStep ==
    ASSUME EditPhase \subseteq {"idle"}, TypeOK, ContactInHand, OneWayInHand,
           OneWayCreatesAreNew, [OneWayNext]_owVars
    PROVE  OneWayCreatesAreNew'
<1>1. CASE OneWayRun
  <2>1. pc' = "idle"
      BY <1>1, OneWayDisturbs
  <2>2. CASE owpc' = "idle"
    <3>1. \A u \in UID : carddavIdx'[u] = NoCard
      <4>1. EndOneWay \/ owpc' = owpc
          BY <1>1, <2>2 DEF OneWayRun, ListProton, cardDAVByUID, PutOverlaid, ListCardDAV,
                 UpdateByUID, UpsertRow, FinishOneWay, OneWayFails, PushNew, PushLater,
                 PushSame, PushChanged, Push, OverlayCard, SkipOverlay, CreateNew, OneWayGoto
      <4>2. owpc' # owpc
          BY <1>1, <2>2 DEF OneWayRun, ListProton, cardDAVByUID, PutOverlaid, ListCardDAV,
                 UpdateByUID, UpsertRow, FinishOneWay, OneWayFails, PushNew, PushLater,
                 PushSame, PushChanged, Push, OverlayCard, SkipOverlay, CreateNew, OneWayGoto
      <4> QED BY <4>1, <4>2 DEF EndOneWay, EndRun
    <3> QED BY <2>1, <2>2, <3>1 DEF OneWayCreatesAreNew, CreatesAreNew
  <2>3. CASE \E u \in UID : PushNew(u)
      BY <2>3 DEF PushNew, Push, NoWork, OneWayGoto, stores, OneWayCreatesAreNew
  <2>4. CASE owpc' \notin {"idle", "create"}
      BY <2>4 DEF OneWayCreatesAreNew
  <2>5. owpc' \in {"idle"} \/ owpc' # "create" \/ \E u \in UID : PushNew(u)
      BY <1>1 DEF OneWayRun, ListProton, cardDAVByUID, PutOverlaid, ListCardDAV,
             UpdateByUID, UpsertRow, FinishOneWay, OneWayFails, PushLater, PushSame,
             PushChanged, Push, OverlayCard, SkipOverlay, CreateNew, OneWayGoto, EndOneWay
  <2> QED BY <2>2, <2>3, <2>4, <2>5
<1>2. CASE ~OneWayRun
  <2>1. [Next]_vars
      BY <1>2, OtherSteps
  <2>2. CASE owpc = "idle" /\ owpc' = "idle"
      BY <2>1, <2>2, CreatesStep DEF OneWayCreatesAreNew
  <2>3. CASE UNCHANGED owVars
      BY <2>3 DEF owVars, vars, stores, locals, OneWayCreatesAreNew, CreatesAreNew, HasObject
  <2>4. (owpc = "idle" /\ owpc' = "idle") \/ UNCHANGED owVars
      BY <1>2 DEF OneWayNext, AnyRun, ReconcileRun, SetDirection, UserBetweenRuns, Idle
  <2> QED BY <2>2, <2>3, <2>4
<1> QED BY <1>1, <1>2

\* A contact with a row that a step of a run makes appear does so on CardDAV, in a
\* run of Proton to CardDAV.
LEMMA RestoresStep ==
    ASSUME TypeOK, ContactInHand, OneWayInHand, OneWayCreatesAreNew, AnyRun,
           NEW u \in UID, rows[u] # NoCard
    PROVE  /\ ~(~HasContact(u) /\ HasContact(u)')
           /\ ~HasObject(u) /\ HasObject(u)' => dir = "toCardDAV"
<1>1. CASE ReconcileRun
  <2>1. Run /\ CreatesAreNew
      BY <1>1 DEF ReconcileRun, OneWayCreatesAreNew
  <2> QED BY <2>1, RunAppears
<1>2. CASE OneWayRun
  <2>1. CASE UNCHANGED <<objects, contacts>>
      BY <2>1 DEF HasObject, HasContact
  <2>2. CASE owpc = "put" /\ UNCHANGED contacts
      BY <2>2 DEF HasContact, OneWayInHand
  <2>3. ASSUME NEW id \in ID, owpc = "create", CreateEffect(id), UNCHANGED objects
        PROVE  /\ ~(~HasContact(u) /\ HasContact(u)')
               /\ ~HasObject(u) /\ HasObject(u)' => dir = "toCardDAV"
    <3>1. u # work.uid
        BY <2>3 DEF OneWayCreatesAreNew
    <3>2. contacts'[u] = contacts[u]
        BY <2>3, <3>1 DEF CreateEffect, TypeOK
    <3> QED BY <2>3, <3>2 DEF HasObject, HasContact
  <2> QED BY <1>2, <2>1, <2>2, <2>3, OneWayWrites
<1> QED BY <1>1, <1>2 DEF AnyRun

\* While users edit between runs only, a contact that was saved in a row and is
\* gone from a side is brought back to Proton by no run, and to CardDAV by no
\* bidirectional run, in any sequence of directions and faults (reconcile's and
\* syncCardDAVToProton's checks of the row).
THEOREM DeletionsStandTheorem ==
    ASSUME EditPhase \subseteq {"idle"}
    PROVE  OneWaySpec => DeletionsStand
<1> DEFINE Inv == /\ TypeOK /\ ContactInHand /\ OneWayTypeOK /\ OneWayInHand
                  /\ OneWayCreatesAreNew
<1>1. OneWayInit => Inv
  <2> SUFFICES ASSUME OneWayInit PROVE Inv
      OBVIOUS
  <2>1. pc = "idle" /\ owpc = "idle" /\ carddavIdx = [u \in UID |-> NoCard]
      BY DEF OneWayInit, Init, NoLocals
  <2> QED BY <2>1, OneWayInitType DEF OneWayCreatesAreNew, CreatesAreNew
<1>2. Inv /\ [OneWayNext]_owVars => Inv'
  <2> SUFFICES ASSUME Inv, [OneWayNext]_owVars PROVE Inv'
      OBVIOUS
  <2>1. TypeOK' /\ OneWayTypeOK' /\ OneWayInHand' /\ OneWayCreatesAreNew'
      BY OneWayTypeStep, OneWayInHandStep, OneWayCreatesStep
  <2>2. ContactInHand'
    <3>1. CASE OneWayRun
      <4>1. pc' = "idle"
          BY <3>1, OneWayDisturbs
      <4> QED BY <4>1 DEF ContactInHand
    <3>2. CASE ~OneWayRun
        BY <3>2, OtherSteps, InHandStep
    <3> QED BY <3>1, <3>2
  <2> QED BY <2>1, <2>2
<1>3. Inv /\ [OneWayNext]_owVars
        => [ \A u \in UID : rows[u] # NoCard =>
                /\ AnyRun /\ HasContact(u)' => HasContact(u)
                /\ ReconcileRun /\ HasObject(u)' => HasObject(u) ]_owVars
  <2> SUFFICES ASSUME Inv, NEW u \in UID, rows[u] # NoCard, AnyRun
               PROVE  /\ HasContact(u)' => HasContact(u)
                      /\ ReconcileRun /\ HasObject(u)' => HasObject(u)
      BY DEF AnyRun
  <2>1. ReconcileRun => dir = "both"
      BY DEF ReconcileRun
  <2> QED BY <2>1, RestoresStep
<1> QED BY <1>1, <1>2, <1>3, PTL DEF OneWaySpec, DeletionsStand
=============================================================================
