---------------------------- MODULE Resync_proofs ----------------------------
(***************************************************************************)
(* Theorems about Resync: what the resync command cannot break of the      *)
(* daemon's runs that it works beside, for any number of contacts,         *)
(* properties, resyncs, edits and faults.                                  *)
(***************************************************************************)
EXTENDS Resync, Reconcile_proofs

\* All steps but those of the command are steps of Reconcile.
LEMMA DaemonSteps ==
    ASSUME [ResyncNext]_allVars, ~ForceStep, ~StartForce
    PROVE  [Next]_vars /\ UNCHANGED <<fpc, forceVars, forced>>
BY DEF ResyncNext, DaemonStep, Next, allVars

\* What a step of the command does to the stores: one write of the contact in
\* hand, which disturbs the run beside it, or nothing.
LEMMA ForceWrites ==
    ASSUME ForceStep
    PROVE  /\ UNCHANGED <<pc, locals, edits, edited, forced>>
           /\ \/ UNCHANGED stores /\ quiet' \in {quiet, "no"}
              \/ /\ quiet' = "no" /\ UNCHANGED <<contacts, rows>>
                 /\ fpc = "put" /\ ForcePutEffect
              \/ /\ quiet' = "no" /\ UNCHANGED <<objects, rows>>
                 /\ fpc = "create" /\ \E id \in ID : ForceCreateEffect(id)
              \/ /\ quiet' = "no" /\ UNCHANGED <<objects, rows>>
                 /\ fpc = "update" /\ ForceUpdateEffect
              \/ quiet' = "no" /\ UNCHANGED <<objects, contacts>> /\ ForceSave
<1>1. UNCHANGED <<pc, locals, edits, edited, forced>>
  <2>1. ForceList => Beside
      BY DEF ForceList
  <2>2. ForceGivesUp \/ ForceFails => Beside
      BY DEF ForceGivesUp, ForceFails
  <2>3. \A u \in UID : ForceUnknown(u) \/ ForceToCardDAV(u) \/ ForceToProton(u)
                      \/ ForceRepair(u) => Beside
      BY DEF ForceUnknown, ForceToCardDAV, ForceToProton, ForceRepair, ForceTarget
  <2> QED BY <2>1, <2>2, <2>3
          DEF ForceStep, ForceIndexed, ForceGet, ForcePut, ForceUpdate, ForceRefetch,
              ForceSave, FinishForce, ForceFetch, ForceSkip, ForceCreate, Beside
<1>2. CASE ForceGivesUp
  <2>1. \/ UNCHANGED stores /\ (Works \/ Fails("refetch"))
        \/ UNCHANGED <<contacts, rows>> /\ UNCHANGED objects /\ Fails("put")
        \/ UNCHANGED <<contacts, rows>> /\ fpc = "put" /\ Fails("putLost") /\ ForcePutEffect
        \/ UNCHANGED <<objects, rows>> /\ UNCHANGED contacts
           /\ (Works \/ Fails("create") \/ Fails("update"))
        \/ UNCHANGED <<objects, rows>> /\ fpc = "create" /\ Fails("createLost")
           /\ \E id \in ID : ForceCreateEffect(id)
        \/ UNCHANGED <<objects, rows>> /\ fpc = "update" /\ Fails("updateLost")
           /\ ForceUpdateEffect
      BY <1>2 DEF ForceGivesUp
  <2> QED BY <1>1, <2>1 DEF Works, Fails, stores
<1>3. CASE ForcePut \/ ForceUpdate \/ ForceSave \/ \E id \in ID : ForceCreate(id)
    BY <1>1, <1>3 DEF ForcePut, ForceUpdate, ForceSave, ForceCreate, Writes
<1>4. ASSUME \/ ForceList \/ ForceIndexed \/ ForceGet \/ ForceRefetch \/ FinishForce
             \/ ForceFails
             \/ \E u \in UID : \/ ForceUnknown(u) \/ ForceToCardDAV(u) \/ ForceToProton(u)
                               \/ ForceRepair(u)
                               \/ \E id \in ID : ForceFetch(u, id) \/ ForceSkip(u, id)
      PROVE  UNCHANGED stores /\ quiet' \in {quiet, "no"}
  <2>1. CASE ForceList
      BY <2>1 DEF ForceList
  <2>2. CASE \E u \in UID : ForceUnknown(u) \/ ForceToCardDAV(u) \/ ForceToProton(u)
                          \/ ForceRepair(u)
      BY <2>2 DEF ForceUnknown, ForceToCardDAV, ForceToProton, ForceRepair, ForceTarget
  <2>3. CASE \/ ForceIndexed \/ ForceGet \/ ForceRefetch \/ FinishForce \/ ForceFails
             \/ \E u \in UID, id \in ID : ForceFetch(u, id) \/ ForceSkip(u, id)
      BY <2>3 DEF ForceIndexed, ForceGet, ForceRefetch, FinishForce, ForceFails, ForceFetch,
             ForceSkip, Works, Fails
  <2> QED BY <1>4, <2>1, <2>2, <2>3
<1> QED BY <1>1, <1>2, <1>3, <1>4 DEF ForceStep
-----------------------------------------------------------------------------
(***************************************************************************)
(* Types, and the contact in hand.                                         *)
(***************************************************************************)
ForceKnown == ForceTypeOK /\ ForceInHand

\* The faults of the command count as the daemon's do.
LEMMA ForceFaults ==
    ASSUME TypeOK, ForceStep
    PROVE  faults' \in 0 .. MaxFault
<1>1. ForceList => UNCHANGED faults
    BY DEF ForceList
<1>2. \A u \in UID : ForceUnknown(u) \/ ForceToCardDAV(u) \/ ForceToProton(u)
                    \/ ForceRepair(u) => UNCHANGED faults
    BY DEF ForceUnknown, ForceToCardDAV, ForceToProton, ForceRepair, ForceTarget
<1>3. ASSUME faults < MaxFault, faults' = faults + 1 PROVE faults' \in 0 .. MaxFault
    BY <1>3, ReconcileAssumption DEF TypeOK
<1>4. ForceGivesUp => UNCHANGED faults \/ (faults < MaxFault /\ faults' = faults + 1)
    BY DEF ForceGivesUp, Works, Fails
<1> QED BY <1>1, <1>2, <1>3, <1>4
        DEF TypeOK, ForceStep, ForceIndexed, ForceGet, ForcePut, ForceUpdate, ForceRefetch,
            ForceSave, FinishForce, ForceFails, ForceFetch, ForceSkip, ForceCreate, Works,
            Fails, Writes

\* What the command writes is a card or a row.
LEMMA ForceStoresType ==
    ASSUME TypeOK, ForceKnown, ForceStep
    PROVE  TypeOK'
<1>1. faults' \in 0 .. MaxFault /\ quiet' \in {"no", "running", "yes"}
    BY ForceFaults, ForceWrites DEF TypeOK
<1>2. CASE UNCHANGED stores
    BY <1>1, <1>2, ForceWrites DEF TypeOK, stores, locals
<1>3. CASE UNCHANGED <<contacts, rows>> /\ fpc = "put" /\ ForcePutEffect
  <2>1. fwork.card \in Card
      BY <1>3 DEF ForceKnown, ForceInHand, ForceSends
  <2>2. objects' \in [UID -> [Path -> Card \cup {NoCard}]]
      BY <1>3, <2>1 DEF TypeOK, ForcePutEffect
  <2> QED BY <1>1, <1>3, <2>2, ForceWrites DEF TypeOK, locals
<1>4. CASE /\ UNCHANGED <<objects, rows>>
           /\ \/ fpc = "create" /\ \E id \in ID : ForceCreateEffect(id)
              \/ fpc = "update" /\ ForceUpdateEffect
  <2>1. ProtonStores(fwork.card) \in Card
      BY <1>4, StoresType DEF ForceKnown, ForceInHand, ForceSends
  <2> HIDE DEF ProtonStores
  <2>2. PICK id : contacts' = [contacts EXCEPT ![fwork.uid][id] = ProtonStores(fwork.card)]
      BY <1>4 DEF ForceCreateEffect, ForceUpdateEffect
  <2>3. contacts' \in [UID -> [ID -> Card \cup {NoCard, Deleted}]]
      BY <2>1, <2>2 DEF TypeOK
  <2> QED BY <1>1, <1>4, <2>3, ForceWrites DEF TypeOK, locals
<1>5. CASE UNCHANGED <<objects, contacts>> /\ ForceSave
  <2>1. fwork.card \in Card /\ fwork.protonBase \in Card
      BY <1>5 DEF ForceSave, ForceKnown, ForceInHand, ForceSends
  <2>2. rows' \in [UID -> Row \cup {NoCard}]
      BY <1>5, <2>1 DEF ForceSave, TypeOK, Row
  <2> QED BY <1>1, <1>5, <2>2, ForceWrites DEF TypeOK, locals
<1> QED BY <1>2, <1>3, <1>4, <1>5, ForceWrites

\* The command's own variables, through all its steps.
LEMMA ForceStart ==
    ASSUME TypeOK, ForceKnown, StartForce
    PROVE  ForceKnown'
<1>1. fcarddav' \in [UID -> Card \cup {NoCard}]
    BY DEF StartForce, Indexes, TypeOK
<1>2. forced' \in 0 .. MaxForce
    BY ResyncAssumption DEF StartForce, ForceKnown, ForceTypeOK
<1> QED BY <1>1, <1>2 DEF StartForce, ForceKnown, ForceTypeOK, ForceInHand, ForcePC, ForceSends

\* No contact in hand, and empty indexes.
LEMMA NoForceType ==
    /\ NoForce \in [uid : UID \cup {NoCard}, id : ID \cup {NoCard},
                    card : Card \cup {NoCard}, protonBase : Card \cup {NoCard}]
    /\ Nothing \in [UID -> Card \cup {NoCard}]
    /\ Nothing \in [UID -> [id : ID, vcard : Card \cup {NoCard}] \cup {NoCard}]
BY DEF NoForce, Nothing

\* Listing, and fetching the cards of the index.
LEMMA ForceLists ==
    ASSUME TypeOK, ForceKnown,
           \/ ForceList \/ ForceIndexed
           \/ \E u \in UID, id \in ID : ForceFetch(u, id) \/ ForceSkip(u, id)
    PROVE  ForceKnown'
<1> USE DEF ForceKnown, ForceTypeOK, ForceInHand, ForcePC, ForceSends
<1>1. CASE ForceList
  <2>1. fproton' \in [UID -> [id : ID, vcard : Card \cup {NoCard}] \cup {NoCard}]
    <3>1. CASE fproton' = fproton
        BY <3>1
    <3>2. CASE \E last \in [UID -> ID] :
                  fproton' = [u \in UID |-> IF HasContact(u)
                                            THEN [id |-> last[u], vcard |-> NoCard]
                                            ELSE NoCard]
        BY <3>2
    <3> QED BY <1>1, <3>1, <3>2 DEF ForceList
  <2> QED BY <1>1, <2>1 DEF ForceList, Beside
<1>2. CASE ForceIndexed
    BY <1>2 DEF ForceIndexed, Beside, forceVars
<1>3. ASSUME NEW u \in UID, NEW id \in ID, ForceFetch(u, id) PROVE ForceKnown'
    BY <1>3 DEF ForceFetch, Beside
<1>4. ASSUME NEW u \in UID, NEW id \in ID, ForceSkip(u, id) PROVE ForceKnown'
    BY <1>4 DEF ForceSkip, Beside
<1> QED BY <1>1, <1>2, <1>3, <1>4

\* Taking a target in hand.
LEMMA ForceTakes ==
    ASSUME TypeOK, ForceKnown, NEW u \in UID,
           ForceUnknown(u) \/ ForceToCardDAV(u) \/ ForceToProton(u) \/ ForceRepair(u)
    PROVE  ForceKnown'
<1> USE DEF ForceKnown, ForceTypeOK, ForceInHand, ForcePC, ForceSends
<1>1. CASE ForceUnknown(u)
    BY <1>1, NoForceType DEF ForceUnknown, ForceTarget, Beside
<1>2. ASSUME NEW next \in {"get", "put", "create", "update"}, NEW id \in ID \cup {NoCard},
             NEW card \in Card \cup {NoCard}, ForceTarget(u, next, id, card),
             next \in {"get", "update"} => id \in ID, next # "get" => card \in Card
      PROVE  ForceKnown'
  <2>1. /\ fpc' = next /\ targets' = targets \ {u}
        /\ fwork' = [uid |-> u, id |-> id, card |-> card, protonBase |-> card]
        /\ UNCHANGED <<fcarddav, fproton, fpending, forced>>
      BY <1>2 DEF ForceTarget, Beside
  <2> QED BY <1>2, <2>1
<1>3. CASE ForceToCardDAV(u)
  <2>1. fproton[u] \in [id : ID, vcard : Card \cup {NoCard}]
      BY <1>3 DEF ForceToCardDAV
  <2> QED BY <1>2, <1>3, <2>1 DEF ForceToCardDAV
<1>4. CASE ForceToProton(u)
  <2>1. fcarddav[u] \in Card
      BY <1>4 DEF ForceToProton
  <2> QED BY <1>2, <1>4, <2>1 DEF ForceToProton
<1>5. CASE ForceRepair(u)
  <2>1. fcarddav[u] \in Card /\ fproton[u] \in [id : ID, vcard : Card \cup {NoCard}]
      BY <1>5 DEF ForceRepair
  <2> QED BY <1>2, <1>5, <2>1 DEF ForceRepair
<1> QED BY <1>1, <1>3, <1>4, <1>5

\* The calls for the contact in hand, and the end of the command.
LEMMA ForceCalls ==
    ASSUME TypeOK, ForceKnown,
           \/ ForceGet \/ ForcePut \/ ForceUpdate \/ ForceGivesUp \/ ForceRefetch
           \/ ForceSave \/ FinishForce \/ ForceFails
           \/ \E id \in ID : ForceCreate(id)
    PROVE  ForceKnown'
<1> USE DEF ForceKnown, ForceTypeOK, ForceInHand, ForcePC, ForceSends
<1>1. CASE ForceGet
    BY <1>1 DEF ForceGet, Beside
<1>2. CASE ForcePut \/ ForceUpdate
    BY <1>2 DEF ForcePut, ForceUpdate, Beside, forceVars
<1>3. CASE ForceGivesUp \/ ForceSave
    BY <1>3, NoForceType DEF ForceGivesUp, ForceSave, Beside
<1>4. CASE ForceRefetch
    BY <1>4 DEF ForceRefetch, Beside
<1>5. CASE FinishForce \/ ForceFails
    BY <1>5, NoForceType DEF FinishForce, ForceFails, EndForce, Beside
<1>6. ASSUME NEW id \in ID, ForceCreate(id) PROVE ForceKnown'
    BY <1>6 DEF ForceCreate, Beside
<1> QED BY <1>1, <1>2, <1>3, <1>4, <1>5, <1>6

\* All steps keep the types of what Resync adds, and the contact in hand.
LEMMA ForceKnownStep ==
    TypeOK /\ ForceKnown /\ [ResyncNext]_allVars => TypeOK' /\ ForceKnown'
<1> SUFFICES ASSUME TypeOK, ForceKnown, [ResyncNext]_allVars PROVE TypeOK' /\ ForceKnown'
    OBVIOUS
<1>1. CASE ForceStep
    BY <1>1, ForceStoresType, ForceLists, ForceTakes, ForceCalls DEF ForceStep
<1>2. CASE StartForce
    BY <1>2, ForceStart, NextType DEF StartForce
<1>3. CASE ~ForceStep /\ ~StartForce
  <2>1. TypeOK'
      BY <1>3, DaemonSteps, NextType
  <2> QED BY <1>3, <2>1, DaemonSteps
          DEF forceVars, ForceKnown, ForceTypeOK, ForceInHand
<1> QED BY <1>1, <1>2, <1>3
-----------------------------------------------------------------------------
(***************************************************************************)
(* QuietAgreement and QuietRunsChangeNothing beside resyncs.               *)
(***************************************************************************)
\* What the command indexed, or is to send, has a VERSION and a REV as CardDAV's
\* cards have them.
LEMMA ForceStableStep ==
    ASSUME TypeOK, ForceKnown, CardsAreStable, ForceStable, [ResyncNext]_allVars
    PROVE  ForceStable'
<1> USE DEF ForceStable, ForceSends
<1>1. CASE StartForce
  <2>1. \A u \in UID : fcarddav'[u] # NoCard => CardDAVStable(fcarddav'[u])
      BY <1>1 DEF StartForce, Indexes, CardsAreStable
  <2> QED BY <1>1, <2>1 DEF StartForce
<1>2. CASE ForceList
  <2>1. UNCHANGED fcarddav /\ fpc' \notin ForceSends
      BY <1>2 DEF ForceList
  <2>2. CASE UNCHANGED fproton
      BY <2>1, <2>2
  <2>3. CASE \E last \in [UID -> ID] :
                fproton' = [u \in UID |-> IF HasContact(u)
                                          THEN [id |-> last[u], vcard |-> NoCard]
                                          ELSE NoCard]
    <3>1. \A u \in UID : fproton'[u] # NoCard => fproton'[u].vcard = NoCard
        BY <2>3
    <3> QED BY <2>1, <3>1
  <2> QED BY <1>2, <2>2, <2>3 DEF ForceList
<1>3. ASSUME NEW u \in UID, NEW id \in ID, ForceFetch(u, id) PROVE ForceStable'
  <2>1. CardDAVStable(contacts[u][id])
      BY <1>3, ProtonStableSends DEF ForceFetch, CardsAreStable
  <2>2. /\ UNCHANGED <<fcarddav, fpc, fwork>>
        /\ fproton' = [fproton EXCEPT ![u] = [id |-> id, vcard |-> contacts[u][id]]]
      BY <1>3 DEF ForceFetch
  <2> QED BY <2>1, <2>2 DEF ForceKnown, ForceTypeOK
<1>4. ASSUME NEW u \in UID, NEW id \in ID, ForceSkip(u, id) PROVE ForceStable'
    BY <1>4 DEF ForceSkip
<1>5. ASSUME NEW u \in UID,
             ForceUnknown(u) \/ ForceToCardDAV(u) \/ ForceToProton(u) \/ ForceRepair(u)
      PROVE  ForceStable'
    BY <1>5 DEF ForceUnknown, ForceToCardDAV, ForceToProton, ForceRepair, ForceTarget
<1>6. CASE ForceGet
  <2>1. CardDAVStable(contacts[fwork.uid][fwork.id])
      BY <1>6, ProtonStableSends DEF ForceGet, ForceKnown, ForceInHand, CardsAreStable
  <2> QED BY <1>6, <2>1 DEF ForceGet, ForceKnown, ForceTypeOK
<1>7. CASE ForceIndexed \/ ForcePut \/ ForceUpdate
    BY <1>7 DEF ForceIndexed, ForcePut, ForceUpdate, forceVars
<1>8. CASE ForceGivesUp \/ ForceSave
    BY <1>8 DEF ForceGivesUp, ForceSave
<1>9. CASE ForceRefetch
    BY <1>9 DEF ForceRefetch, ForceKnown, ForceTypeOK
<1>10. CASE FinishForce \/ ForceFails
    BY <1>10 DEF FinishForce, ForceFails, EndForce, Nothing
<1>11. ASSUME NEW id \in ID, ForceCreate(id) PROVE ForceStable'
    BY <1>11 DEF ForceCreate, ForceKnown, ForceTypeOK
<1>12. CASE ~ForceStep /\ ~StartForce
    BY <1>12, DaemonSteps DEF forceVars
<1> QED BY <1>1, <1>2, <1>3, <1>4, <1>5, <1>6, <1>7, <1>8, <1>9, <1>10, <1>11, <1>12
        DEF ForceStep

\* The command makes no second contact that Proton refuses.
LEMMA ForceOne ==
    ASSUME RejectDuplicateUID, TypeOK, ForceKnown, OneContact, ForceStep
    PROVE  OneContact'
<1>1. CASE UNCHANGED contacts
    BY <1>1 DEF OneContact
<1>2. ASSUME NEW id \in ID, fpc = "create", ForceCreateEffect(id) PROVE OneContact'
  <2>1. fwork.uid \in UID /\ ~HasContact(fwork.uid)
      BY <1>2 DEF ForceKnown, ForceInHand, ForceSends, ForceCreateEffect, Refused
  <2>2. \A u \in UID, i \in ID : contacts'[u][i] \in Card
          => contacts[u][i] \in Card \/ (u = fwork.uid /\ i = id)
      BY <1>2, <2>1 DEF ForceCreateEffect, TypeOK
  <2> QED BY <2>1, <2>2 DEF OneContact, HasContact
<1>3. CASE fpc = "update" /\ ForceUpdateEffect
  <2>1. fwork.uid \in UID /\ fwork.id \in ID /\ contacts[fwork.uid][fwork.id] \in Card
      BY <1>3 DEF ForceKnown, ForceInHand, ForceSends, ForceUpdateEffect
  <2>2. \A u \in UID, i \in ID : contacts'[u][i] \in Card => contacts[u][i] \in Card
      BY <1>3, <2>1 DEF ForceUpdateEffect, TypeOK
  <2> QED BY <2>2 DEF OneContact
<1> QED BY <1>1, <1>2, <1>3, ForceWrites DEF stores

\* What the command writes is as the two sides have cards.
LEMMA ForceCards ==
    ASSUME TypeOK, ForceKnown, CardsAreStable, ForceStable, ForceStep
    PROVE  CardsAreStable'
<1>1. UNCHANGED <<pc, protonIdx, carddavIdx, work>>
    BY ForceWrites DEF locals
<1>2. ASSUME NEW u \in UID, NEW path \in Path, objects'[u][path] # NoCard
      PROVE  path = OwnPath /\ CardDAVStable(objects'[u][path])
  <2>1. CASE UNCHANGED objects
      BY <1>2, <2>1 DEF CardsAreStable
  <2>2. CASE fpc = "put" /\ ForcePutEffect
    <3>1. fwork.uid \in UID /\ CardDAVStable(fwork.card)
        BY <2>2 DEF ForceKnown, ForceInHand, ForceStable, ForceSends
    <3> QED BY <1>2, <2>2, <3>1 DEF ForcePutEffect, TypeOK, CardsAreStable
  <2> QED BY <2>1, <2>2, ForceWrites DEF stores
<1>3. ASSUME NEW u \in UID, NEW id \in ID, contacts'[u][id] \in Card
      PROVE  ProtonStable(contacts'[u][id])
  <2>1. CASE UNCHANGED contacts
      BY <1>3, <2>1 DEF CardsAreStable
  <2>2. CASE \/ fpc = "create" /\ \E i \in ID : ForceCreateEffect(i)
             \/ fpc = "update" /\ ForceUpdateEffect
    <3>1. fwork.uid \in UID /\ fwork.card \in Card
        BY <2>2 DEF ForceKnown, ForceInHand, ForceSends
    <3>2. ProtonStable(ProtonStores(fwork.card))
        BY <3>1, StoresStable
    <3>3. PICK i : contacts' = [contacts EXCEPT ![fwork.uid][i] = ProtonStores(fwork.card)]
        BY <2>2 DEF ForceCreateEffect, ForceUpdateEffect
    <3> HIDE DEF ProtonStores
    <3> QED BY <1>3, <3>1, <3>2, <3>3 DEF TypeOK, CardsAreStable
  <2> QED BY <2>1, <2>2, ForceWrites DEF stores
<1> QED BY <1>1, <1>2, <1>3 DEF CardsAreStable, Handling

\* A step that leaves the stores and the run alone settles and unsettles nothing.
LEMMA SettledBeside ==
    ASSUME RunSettles, HandSettles, UNCHANGED <<stores, pc, locals>>, quiet' \in {quiet, "no"}
    PROVE  RunSettles' /\ HandSettles'
<1>1. CASE quiet' = "no"
    BY <1>1 DEF RunSettles, HandSettles
<1>2. CASE quiet' = quiet
    BY <1>2 DEF stores, locals, RunSettles, HandSettles, Handling, Settled, IndexedProton,
           HasObject, HasContact
<1> QED BY <1>1, <1>2

ResyncInv == /\ Known /\ RunSettles /\ HandSettles
             /\ ForceKnown /\ ForceStable

\* A write of the command disturbs the run beside it; its other steps do nothing
\* to it; and the daemon's steps are those of Reconcile.
LEMMA ResyncStep ==
    ASSUME RejectDuplicateUID, PlainClients
    PROVE  ResyncInv /\ [ResyncNext]_allVars => ResyncInv'
<1> SUFFICES ASSUME ResyncInv, [ResyncNext]_allVars PROVE ResyncInv'
    OBVIOUS
<1> USE DEF ResyncInv
<1>1. TypeOK' /\ ForceKnown' /\ ForceStable'
    BY ForceKnownStep, ForceStableStep DEF Known
<1>2. CASE ForceStep
  <2>1. ContactInHand'
      BY <1>2, ForceWrites DEF locals, Known, ContactInHand
  <2>2. OneContact' /\ CardsAreStable'
      BY <1>2, ForceOne, ForceCards DEF Known
  <2>3. RunSettles' /\ HandSettles'
    <3>1. CASE quiet' = "no"
        BY <3>1 DEF RunSettles, HandSettles
    <3>2. CASE UNCHANGED stores /\ quiet' \in {quiet, "no"}
        BY <1>2, <3>2, ForceWrites, SettledBeside
    <3> QED BY <1>2, <3>1, <3>2, ForceWrites
  <2> QED BY <1>1, <2>1, <2>2, <2>3 DEF Known
<1>3. CASE ~ForceStep
  <2>1. [Next]_vars /\ NoneIsMissed
      BY <1>3, DaemonSteps DEF StartForce, NoneIsMissed
  <2>2. RunSettles' /\ HandSettles'
      BY <2>1, SettleStep
  <2>3. Known'
      BY <1>1, <2>1, InHandStep, OneStep, StableStep DEF Known
  <2> QED BY <1>1, <2>2, <2>3
<1> QED BY <1>2, <1>3

\* The invariant is one of every behaviour.
LEMMA ResyncCorrect ==
    ASSUME RejectDuplicateUID, PlainClients
    PROVE  ResyncSpec => []ResyncInv
<1>1. ResyncInit => ResyncInv
  <2> SUFFICES ASSUME ResyncInit PROVE ResyncInv
      OBVIOUS
  <2>1. Init /\ ContactInHand
      BY DEF ResyncInit, Init, ContactInHand
  <2>2. Known /\ RunSettles /\ HandSettles
      BY <2>1, InitType, OneInit, StableInit, SettleInit DEF Known
  <2>3. ForceKnown /\ ForceStable
      BY NoForceType, ResyncAssumption
         DEF ResyncInit, ForceKnown, ForceTypeOK, ForceInHand, ForceStable, ForcePC,
             ForceSends, Nothing
  <2> QED BY <2>2, <2>3 DEF ResyncInv
<1>2. ResyncInv /\ [ResyncNext]_allVars => ResyncInv'
    BY ResyncStep
<1> QED BY <1>1, <1>2, PTL DEF ResyncSpec

\* Whenever a whole run goes by with no edit, fault or write of a resync, the two
\* sides agree and the rows hold what they have, however many resyncs wrote over
\* the runs before it (forceOne beside reconcileBoth and saveBases).
THEOREM ResyncQuietTheorem ==
    ASSUME RejectDuplicateUID, PlainClients
    PROVE  ResyncSpec => []QuietAgreement
<1>1. ResyncInv => QuietAgreement
    BY SettledAgreement DEF ResyncInv
<1> QED BY <1>1, ResyncCorrect, PTL

\* From then on no run changes a card of either side or a row until a user edits
\* or a resync writes, and the only contacts it still writes are those with a value
\* that Proton normalises ("avoids churning", reconcileBoth).
THEOREM ResyncNoChurnTheorem ==
    ASSUME RejectDuplicateUID, PlainClients
    PROVE  ResyncSpec => QuietRunsChangeNothing
<1>1. ResyncInv
      => [ quiet = "yes" /\ Run =>
              /\ UNCHANGED stores
              /\ pc' = "update" => Normalised(work'.merged) ]_vars
    BY QuietRun DEF ResyncInv
<1> QED BY <1>1, ResyncCorrect, PTL DEF QuietRunsChangeNothing
=============================================================================
