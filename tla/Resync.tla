-------------------------------- MODULE Resync --------------------------------
(***************************************************************************)
(* The resync command (ForceContacts and forceOne of                       *)
(* internal/syncer/syncer.go) as a second process, beside the daemon's     *)
(* bidirectional runs: nothing keeps the two from working on the same      *)
(* servers and the same database at once.                                  *)
(***************************************************************************)
EXTENDS Reconcile

CONSTANTS
    ListsUIDs,   \* whether Proton's list names the UIDs: the answers it may give
    MaxForce     \* bound on resyncs in a behaviour

ASSUME ResyncAssumption ==
    /\ ListsUIDs \subseteq BOOLEAN /\ ListsUIDs # {}
    /\ MaxForce \in Nat

VARIABLES
    fpc,       \* where the resync is; "idle" when there is none
    fcarddav,  \* its index of CardDAV: a card, or NoCard
    fproton,   \* protonMeta: a contact's ID, with its card if that was fetched
    fpending,  \* the contacts whose card is still to be fetched for the index
    targets,   \* the UIDs still to be forced
    fwork,     \* the contact in hand: what is sent, and what Proton made of it
    forced     \* resyncs so far, for the bound MaxForce

forceVars == <<fcarddav, fproton, fpending, targets, fwork>>
allVars   == <<vars, fpc, forceVars, forced>>

NoForce == [uid |-> NoCard, id |-> NoCard, card |-> NoCard, protonBase |-> NoCard]
Nothing == [u \in UID |-> NoCard]

ResyncInit ==
    /\ Init
    /\ fpc = "idle" /\ forced = 0
    /\ fcarddav = Nothing /\ fproton = Nothing
    /\ fpending = {} /\ targets = {} /\ fwork = NoForce

\* The command returns, with an error or without, or is killed.
EndForce ==
    /\ fpc' = "idle"
    /\ fcarddav' = Nothing /\ fproton' = Nothing
    /\ fpending' = {} /\ targets' = {} /\ fwork' = NoForce

\* The steps of a resync take place inside, between or across the daemon's
\* runs, and leave what these hold in memory alone.
Beside == UNCHANGED <<pc, locals, edits, edited, forced>>

\* A run that a resync writes under is not an undisturbed one.
Writes == quiet' = "no" /\ UNCHANGED faults
-----------------------------------------------------------------------------
(***************************************************************************)
(* The two indexes.                                                        *)
(***************************************************************************)
\* `resync --uid` for any UIDs; --all is the same as naming every one.
StartForce ==
    /\ fpc = "idle" /\ forced < MaxForce
    /\ forced' = forced + 1
    /\ targets' \in SUBSET UID \ {{}}
    /\ fcarddav' \in Indexes
    /\ fpc' = "list"
    /\ UNCHANGED <<vars, fproton, fpending, fwork>>

\* One call lists the contacts; without UIDs, each one's card is fetched.
ForceList ==
    /\ fpc = "list"
    /\ \/ /\ TRUE \in ListsUIDs
          /\ \E last \in [UID -> ID] :
                /\ \A u \in UID : HasContact(u) => contacts[u][last[u]] \in Card
                /\ fproton' = [u \in UID |-> IF HasContact(u)
                                             THEN [id |-> last[u], vcard |-> NoCard]
                                             ELSE NoCard]
          /\ fpc' = "loop"
          /\ UNCHANGED fpending
       \/ /\ FALSE \in ListsUIDs
          /\ fpending' = {entry \in UID \X ID : contacts[entry[1]][entry[2]] \in Card}
          /\ fpc' = "fetch"
          /\ UNCHANGED fproton
    /\ Beside
    /\ UNCHANGED <<stores, faults, quiet, fcarddav, targets, fwork>>

ForceFetch(u, id) ==
    /\ fpc = "fetch" /\ <<u, id>> \in fpending
    /\ contacts[u][id] \in Card
    /\ fpending' = fpending \ {<<u, id>>}
    /\ fproton' = [fproton EXCEPT ![u] = [id |-> id, vcard |-> contacts[u][id]]]
    /\ Beside
    /\ UNCHANGED <<stores, faults, quiet, fpc, fcarddav, targets, fwork>>

ForceSkip(u, id) ==
    /\ fpc = "fetch" /\ <<u, id>> \in fpending
    /\ (contacts[u][id] = Deleted /\ Works) \/ Fails("fetch")
    /\ fpending' = fpending \ {<<u, id>>}
    /\ Beside
    /\ UNCHANGED <<stores, fpc, fcarddav, fproton, targets, fwork>>

ForceIndexed ==
    /\ fpc = "fetch" /\ fpending = {}
    /\ fpc' = "loop"
    /\ Beside
    /\ UNCHANGED <<stores, faults, quiet, forceVars>>
-----------------------------------------------------------------------------
(***************************************************************************)
(* forceOne: what to do about a target, by the sides that have it.         *)
(***************************************************************************)
ForceTarget(u, next, id, card) ==
    /\ fpc = "loop" /\ u \in targets
    /\ targets' = targets \ {u}
    /\ fpc' = next
    /\ fwork' = IF next = "loop" THEN NoForce
                ELSE [uid |-> u, id |-> id, card |-> card, protonBase |-> card]
    /\ Beside
    /\ UNCHANGED <<stores, faults, quiet, fcarddav, fproton, fpending>>

ForceUnknown(u) ==
    /\ fproton[u] = NoCard /\ fcarddav[u] = NoCard
    /\ ForceTarget(u, "loop", NoCard, NoCard)

ForceToCardDAV(u) ==
    /\ fproton[u] # NoCard /\ fcarddav[u] = NoCard
    /\ ForceTarget(u, IF fproton[u].vcard = NoCard THEN "get" ELSE "put",
             fproton[u].id, fproton[u].vcard)

\* Mutant of ForceToProton: a contact with a row is left alone, as by a run.
ForceToProtonIfNew(u) ==
    /\ fproton[u] = NoCard /\ fcarddav[u] # NoCard
    /\ ForceTarget(u, IF rows[u] = NoCard THEN "create" ELSE "loop", NoCard, fcarddav[u])

ForceToProton(u) ==
    /\ fproton[u] = NoCard /\ fcarddav[u] # NoCard
    /\ ForceTarget(u, "create", NoCard, fcarddav[u])

ForceRepair(u) ==
    /\ fproton[u] # NoCard /\ fcarddav[u] # NoCard
    /\ ForceTarget(u, "update", fproton[u].id, fcarddav[u])

ForceGet ==
    /\ fpc = "get" /\ contacts[fwork.uid][fwork.id] \in Card
    /\ LET card == contacts[fwork.uid][fwork.id]
       IN  fwork' = [fwork EXCEPT !.card = card, !.protonBase = card]
    /\ fpc' = "put"
    /\ Beside
    /\ UNCHANGED <<stores, faults, quiet, fcarddav, fproton, fpending, targets>>
-----------------------------------------------------------------------------
(***************************************************************************)
(* Writing the contact in hand, and its row.                               *)
(***************************************************************************)
ForcePutEffect == objects' = [objects EXCEPT ![fwork.uid][OwnPath] = fwork.card]

ForcePut ==
    /\ fpc = "put"
    /\ ForcePutEffect
    /\ fpc' = "save"
    /\ Writes /\ Beside
    /\ UNCHANGED <<contacts, rows, forceVars>>

ForceCreateEffect(id) ==
    /\ ~Refused(fwork.uid) /\ contacts[fwork.uid][id] = NoCard
    /\ contacts' = [contacts EXCEPT ![fwork.uid][id] = ProtonStores(fwork.card)]

ForceCreate(id) ==
    /\ fpc = "create"
    /\ ForceCreateEffect(id)
    /\ fwork' = [fwork EXCEPT !.id = id]
    /\ fpc' = "refetch"
    /\ Writes /\ Beside
    /\ UNCHANGED <<objects, rows, fcarddav, fproton, fpending, targets>>

ForceUpdateEffect ==
    /\ contacts[fwork.uid][fwork.id] \in Card
    /\ contacts' = [contacts EXCEPT ![fwork.uid][fwork.id] = ProtonStores(fwork.card)]

ForceUpdate ==
    /\ fpc = "update"
    /\ ForceUpdateEffect
    /\ fpc' = "refetch"
    /\ Writes /\ Beside
    /\ UNCHANGED <<objects, rows, forceVars>>

\* A contact that cannot be read or written is logged and skipped.
ForceGivesUp ==
    /\ \/ /\ fpc = "get" /\ UNCHANGED stores
          /\ (contacts[fwork.uid][fwork.id] = Deleted /\ Works) \/ Fails("refetch")
       \/ /\ fpc = "put" /\ UNCHANGED <<contacts, rows>>
          /\ \/ Fails("put") /\ UNCHANGED objects
             \/ Fails("putLost") /\ ForcePutEffect
       \/ /\ fpc = "create" /\ UNCHANGED <<objects, rows>>
          /\ \/ Refused(fwork.uid) /\ Works /\ UNCHANGED contacts
             \/ Fails("create") /\ UNCHANGED contacts
             \/ Fails("createLost") /\ \E id \in ID : ForceCreateEffect(id)
       \/ /\ fpc = "update" /\ UNCHANGED <<objects, rows>>
          /\ \/ contacts[fwork.uid][fwork.id] = Deleted /\ Works /\ UNCHANGED contacts
             \/ Fails("update") /\ UNCHANGED contacts
             \/ Fails("updateLost") /\ ForceUpdateEffect
    /\ fpc' = "loop" /\ fwork' = NoForce
    /\ Beside
    /\ UNCHANGED <<fcarddav, fproton, fpending, targets>>

\* refetchProton: what Proton made of the card, or else the card sent.
ForceRefetch ==
    /\ fpc = "refetch"
    /\ \/ /\ contacts[fwork.uid][fwork.id] \in Card
          /\ fwork' = [fwork EXCEPT !.protonBase = contacts[fwork.uid][fwork.id]]
          /\ Works
       \/ /\ (contacts[fwork.uid][fwork.id] = Deleted /\ Works) \/ Fails("refetch")
          /\ UNCHANGED fwork
    /\ fpc' = "save"
    /\ Beside
    /\ UNCHANGED <<stores, fcarddav, fproton, fpending, targets>>

ForceSave ==
    /\ fpc = "save"
    /\ rows' = [rows EXCEPT ![fwork.uid] =
                  [protonBase |-> fwork.protonBase, carddavBase |-> fwork.card]]
    /\ fpc' = "loop" /\ fwork' = NoForce
    /\ Writes /\ Beside
    /\ UNCHANGED <<objects, contacts, fcarddav, fproton, fpending, targets>>

FinishForce ==
    /\ fpc = "loop" /\ targets = {}
    /\ EndForce /\ Beside
    /\ UNCHANGED <<stores, faults, quiet>>

\* A failed list or save ends the command, as does a kill.
ForceFails ==
    /\ \/ fpc = "list" /\ Fails("index")
       \/ fpc = "save" /\ Fails("save")
       \/ /\ fpc # "idle" /\ StopAt # {} /\ faults < MaxFault
          /\ faults' = faults + 1 /\ UNCHANGED quiet
    /\ EndForce /\ Beside
    /\ UNCHANGED stores
-----------------------------------------------------------------------------
ForceStep ==
    \/ ForceList \/ ForceIndexed \/ ForceGet \/ ForcePut \/ ForceUpdate \/ ForceGivesUp
    \/ ForceRefetch \/ ForceSave \/ FinishForce \/ ForceFails
    \/ \E u \in UID : \/ ForceUnknown(u) \/ ForceToCardDAV(u) \/ ForceToProton(u)
                      \/ ForceRepair(u)
                      \/ \E id \in ID : ForceFetch(u, id) \/ ForceSkip(u, id)
    \/ \E id \in ID : ForceCreate(id)

DaemonStep == Run /\ UNCHANGED <<fpc, forceVars, forced>>

ResyncNext ==
    \/ DaemonStep \/ StartForce \/ ForceStep
    \/ User /\ UNCHANGED <<fpc, forceVars, forced>>

ResyncSpec == /\ ResyncInit /\ [][ResyncNext]_allVars
              /\ WF_allVars(DaemonStep) /\ WF_allVars(ForceStep)
-----------------------------------------------------------------------------
(***************************************************************************)
(* Properties (besides those of Reconcile, which a resync may not break).  *)
(***************************************************************************)
\* "If it exists on only one side it is created on the other": a contact that
\* the command was asked for and that is on a side when the command lists the
\* contacts gets to both sides, whatever runs beside the command, unless a user
\* or a failure intervenes (ForceContacts, forceOne, and reconcile beside them).
ForcedIsOnBothSides ==
    \A u \in UID, e \in 0 .. MaxEdit, f \in 0 .. MaxFault :
        (/\ fpc = "list" /\ u \in targets
         /\ HasObject(u) \/ HasContact(u)
         /\ HasObject(u) <=> fcarddav[u] # NoCard
         /\ edits = e /\ faults = f)
        ~> ((HasObject(u) /\ HasContact(u)) \/ edits # e \/ faults # f)
-----------------------------------------------------------------------------
(***************************************************************************)
(* The inductive invariant behind QuietAgreement beside resyncs.           *)
(***************************************************************************)
ForcePC == {"idle", "list", "fetch", "loop", "get", "put", "create", "update",
            "refetch", "save"}

\* The calls that send, or save, a card.
ForceSends == {"put", "create", "update", "refetch", "save"}

ForceTypeOK ==
    /\ fpc \in ForcePC
    /\ fcarddav \in [UID -> Card \cup {NoCard}]
    /\ fproton \in [UID -> [id : ID, vcard : Card \cup {NoCard}] \cup {NoCard}]
    /\ fpending \subseteq UID \X ID
    /\ targets \subseteq UID
    /\ fwork \in [uid : UID \cup {NoCard}, id : ID \cup {NoCard},
                  card : Card \cup {NoCard}, protonBase : Card \cup {NoCard}]
    /\ forced \in 0 .. MaxForce

\* The resync knows which contact it has in hand, and has a card to send.
ForceInHand ==
    /\ fpc \in ForceSends \cup {"get"} => fwork.uid \in UID
    /\ fpc \in {"get", "update", "refetch"} => fwork.id \in ID
    /\ fpc \in ForceSends => fwork.card \in Card /\ fwork.protonBase \in Card

\* What it sends is as CardDAV has cards, whichever side it has it from.
ForceStable ==
    /\ \A u \in UID : fcarddav[u] # NoCard => CardDAVStable(fcarddav[u])
    /\ \A u \in UID : fproton[u] # NoCard /\ fproton[u].vcard # NoCard
                      => CardDAVStable(fproton[u].vcard)
    /\ fpc \in ForceSends => CardDAVStable(fwork.card)
=============================================================================
