-------------------------------- MODULE OneWay --------------------------------
(***************************************************************************)
(* The one-way directions of internal/syncer/syncer.go on the stores of    *)
(* Reconcile, and what they hand over to each other and to the             *)
(* bidirectional runs when sync.direction is changed between two runs.     *)
(*                                                                         *)
(* A one-way run keeps its locals in Reconcile's variables: pending is the *)
(* list of Proton contacts, carddavIdx and todo the list of CardDAV        *)
(* objects, work the contact in hand.  Each UID has one object at most.    *)
(***************************************************************************)
EXTENDS Reconcile

CONSTANTS
    Direction,   \* the directions the configuration may name
    Shuffled     \* values with several parameters, which are encoded in any order

ASSUME OneWayAssumption ==
    /\ Direction # {} /\ Direction \subseteq {"both", "toCardDAV", "toProton"}
    /\ Shuffled \subseteq Value
    /\ UserPath = {OwnPath}

VARIABLES
    hashes,   \* contacts table: the card that vcard_hash was taken of, or NoCard
    dir,      \* sync.direction
    owpc      \* where the one-way run is; "idle" when there is none

owVars == <<vars, hashes, dir, owpc>>

OneWayInit ==
    /\ Init
    /\ hashes = [u \in UID |-> NoCard]
    /\ dir \in Direction
    /\ owpc = "idle"

Idle == pc = "idle" /\ owpc = "idle"

OneWayGoto(label) == owpc' = label /\ UNCHANGED <<pc, dir>>

\* A one-way run returns, with an error or without.
EndOneWay == owpc' = "idle" /\ EndRun /\ UNCHANGED dir

\* hashString is of the encoded text.  A card encoded twice has two texts if a
\* property's parameters, a Go map, come out in another order.
Reorders(card)        == \E name \in Name : card[name] \in Shuffled
MaySeemChanged(a, b)  == a # b \/ Reorders(a)
-----------------------------------------------------------------------------
(***************************************************************************)
(* syncProtonToCardDAV: list Proton, index CardDAV, then overlay each      *)
(* contact on its object, put the result and upsert the row.               *)
(***************************************************************************)
ListProton ==
    /\ Idle /\ dir = "toCardDAV"
    /\ OneWayGoto("index")
    /\ pending' = {entry \in UID \X ID : contacts[entry[1]][entry[2]] \in Card}
    /\ quiet' = "no"
    /\ UNCHANGED <<stores, hashes, protonIdx, carddavIdx, todo, work, newProton, edits,
                   faults, edited>>

cardDAVByUID ==
    /\ owpc = "index"
    /\ carddavIdx' \in Indexes
    /\ OneWayGoto("overlay")
    /\ UNCHANGED <<stores, hashes, pending, protonIdx, todo, work, newProton, edits,
                   faults, edited, quiet>>

\* Mutants of Overlaid: Proton's card replaces CardDAV's; the overlay the wrong
\* way round.
NotOverlaid(u, id) == contacts[u][id]
OverlaidSwapped(u, id) ==
    IF carddavIdx[u] # NoCard THEN Overlay(contacts[u][id], carddavIdx[u])
                              ELSE contacts[u][id]

\* What CardDAV is to have: Proton's properties over its own, or Proton's card.
Overlaid(u, id) ==
    IF carddavIdx[u] # NoCard THEN Overlay(carddavIdx[u], contacts[u][id])
                              ELSE contacts[u][id]

OverlayCard(u, id) ==
    /\ owpc = "overlay" /\ <<u, id>> \in pending /\ contacts[u][id] \in Card
    /\ carddavIdx[u] # NoCard => MaySeemChanged(Overlaid(u, id), carddavIdx[u])
    /\ pending' = pending \ {<<u, id>>}
    /\ work' = [NoWork EXCEPT !.uid = u, !.id = id, !.merged = Overlaid(u, id)]
    /\ OneWayGoto("put")
    /\ UNCHANGED <<stores, hashes, protonIdx, carddavIdx, todo, newProton, edits, faults,
                   edited, quiet>>

\* The contact looks unchanged, or its card cannot be fetched.
SkipOverlay(u, id) ==
    /\ owpc = "overlay" /\ <<u, id>> \in pending
    /\ \/ contacts[u][id] \in Card /\ carddavIdx[u] = Overlaid(u, id) /\ Works
       \/ contacts[u][id] = Deleted /\ Works
       \/ Fails("fetch")
    /\ pending' = pending \ {<<u, id>>}
    /\ UNCHANGED <<stores, hashes, dir, owpc, pc, protonIdx, carddavIdx, todo, work,
                   newProton, edits, edited>>

PutOverlaid ==
    /\ owpc = "put"
    /\ PutEffect
    /\ OneWayGoto("upsert")
    /\ UNCHANGED <<contacts, rows, hashes, locals, edits, faults, edited, quiet>>
-----------------------------------------------------------------------------
(***************************************************************************)
(* syncCardDAVToProton: list CardDAV, then create the objects that have no *)
(* row, up to the cap, and update those whose hash is not the row's.       *)
(***************************************************************************)
ListCardDAV ==
    /\ Idle /\ dir = "toProton"
    /\ carddavIdx' \in Indexes
    /\ todo' = {u \in UID : carddavIdx'[u] # NoCard}
    /\ OneWayGoto("push")
    /\ quiet' = "no"
    /\ UNCHANGED <<stores, hashes, pending, protonIdx, work, newProton, edits, faults, edited>>

\* The next object, with what the run does about it: create, update or nothing.
Push(u, next) ==
    /\ owpc = "push" /\ u \in todo
    /\ todo' = todo \ {u}
    /\ work' = IF next = "push" THEN work
               ELSE [NoWork EXCEPT !.uid = u, !.merged = carddavIdx[u]]
    /\ OneWayGoto(next)
    /\ UNCHANGED <<stores, hashes, pending, protonIdx, carddavIdx, newProton, edits, faults,
                   edited, quiet>>

\* Mutant of PushNew: the check that there is no row is missing.
PushAlways(u) == Push(u, "create") /\ ~CapReached

PushNew(u)     == Push(u, "create") /\ rows[u] = NoCard /\ ~CapReached
PushLater(u)   == Push(u, "push") /\ rows[u] = NoCard /\ CapReached
PushSame(u)    == Push(u, "push") /\ rows[u] # NoCard /\ hashes[u] = carddavIdx[u]
PushChanged(u) == Push(u, "update") /\ rows[u] # NoCard
                                    /\ MaySeemChanged(carddavIdx[u], hashes[u])

CreateNew(id) ==
    /\ owpc = "create"
    /\ CreateEffect(id)
    /\ newProton' = newProton + 1
    /\ OneWayGoto("upsert")
    /\ UNCHANGED <<objects, rows, hashes, pending, protonIdx, carddavIdx, todo, work, edits,
                   faults, edited, quiet>>

\* UpdateContact is given the vCard UID for an ID.  Proton's IDs are its own: it
\* knows no such contact, and the error ends the run.
UpdateByUID ==
    /\ owpc = "update"
    /\ EndOneWay
    /\ UNCHANGED <<stores, hashes, faults, quiet>>
-----------------------------------------------------------------------------
\* Mutant of UpsertRow: the card sent is saved as both sides' base.
UpsertWithBases ==
    /\ owpc = "upsert"
    /\ rows' = [rows EXCEPT ![work.uid] =
                  [protonBase |-> work.merged, carddavBase |-> work.merged]]
    /\ hashes' = [hashes EXCEPT ![work.uid] = work.merged]
    /\ work' = NoWork
    /\ OneWayGoto(IF dir = "toCardDAV" THEN "overlay" ELSE "push")
    /\ UNCHANGED <<objects, contacts, pending, protonIdx, carddavIdx, todo, newProton,
                   edits, faults, edited, quiet>>

\* The upsert replaces the whole row: the bases of an earlier bidirectional run
\* are gone, and the row has none.
UpsertRow ==
    /\ owpc = "upsert"
    /\ rows' = [rows EXCEPT ![work.uid] =
                  [protonBase |-> EmptyCard, carddavBase |-> EmptyCard]]
    /\ hashes' = [hashes EXCEPT ![work.uid] = work.merged]
    /\ work' = NoWork
    /\ OneWayGoto(IF dir = "toCardDAV" THEN "overlay" ELSE "push")
    /\ UNCHANGED <<objects, contacts, pending, protonIdx, carddavIdx, todo, newProton,
                   edits, faults, edited, quiet>>

FinishOneWay ==
    /\ \/ owpc = "overlay" /\ pending = {}
       \/ owpc = "push" /\ todo = {}
    /\ EndOneWay
    /\ UNCHANGED <<stores, hashes, faults, quiet>>

\* Any failed call but a fetch ends the run, as does a kill.
OneWayFails ==
    /\ \/ owpc = "index" /\ Fails("index") /\ UNCHANGED stores
       \/ owpc = "put" /\ Fails("put") /\ UNCHANGED stores
       \/ owpc = "put" /\ Fails("putLost") /\ PutEffect /\ UNCHANGED <<contacts, rows>>
       \/ owpc = "create" /\ Refused(work.uid) /\ Works /\ UNCHANGED stores
       \/ owpc = "create" /\ Fails("create") /\ UNCHANGED stores
       \/ /\ owpc = "create" /\ Fails("createLost")
          /\ \E id \in ID : CreateEffect(id)
          /\ UNCHANGED <<objects, rows>>
       \/ owpc = "upsert" /\ Fails("save") /\ UNCHANGED stores
       \/ /\ owpc # "idle" /\ StopAt # {} /\ faults < MaxFault
          /\ faults' = faults + 1 /\ UNCHANGED <<stores, quiet>>
    /\ EndOneWay
    /\ UNCHANGED hashes
-----------------------------------------------------------------------------
OneWayRun ==
    \/ ListProton \/ cardDAVByUID \/ PutOverlaid \/ ListCardDAV \/ UpdateByUID
    \/ UpsertRow \/ FinishOneWay \/ OneWayFails
    \/ \E u \in UID : \/ PushNew(u) \/ PushLater(u) \/ PushSame(u) \/ PushChanged(u)
                      \/ \E id \in ID : OverlayCard(u, id) \/ SkipOverlay(u, id)
    \/ \E id \in ID : CreateNew(id)

\* A bidirectional run; saveBases sets the hash as well.
ReconcileRun ==
    /\ dir = "both" /\ owpc = "idle"
    /\ Run
    /\ hashes' = IF pc = "save" /\ pc' = "loop"
                 THEN [hashes EXCEPT ![work.uid] = work.merged] ELSE hashes
    /\ UNCHANGED <<dir, owpc>>

AnyRun == OneWayRun \/ ReconcileRun

\* The configuration names another direction from the next run on.
SetDirection ==
    /\ Idle
    /\ dir' \in Direction \ {dir}
    /\ UNCHANGED <<vars, hashes, owpc>>

UserBetweenRuns == owpc = "idle" /\ User /\ UNCHANGED <<hashes, dir, owpc>>

OneWayNext == AnyRun \/ SetDirection \/ UserBetweenRuns

OneWaySpec     == OneWayInit /\ [][OneWayNext]_owVars
OneWayFairSpec == OneWaySpec /\ WF_owVars(AnyRun)
-----------------------------------------------------------------------------
(***************************************************************************)
(* Properties.                                                             *)
(***************************************************************************)
\* "Preserving CardDAV-only fields": no run of any direction changes a property
\* of an object that Proton cannot hold, not even the first bidirectional run
\* after one-way runs, which finds rows without bases (OverlayString, and the
\* upserts that write no base).
CardDAVOnlySurvives ==
    [][ \A u \in UID, p \in Dropped :
           (AnyRun /\ objects[u][OwnPath] \in Card /\ objects'[u][OwnPath] \in Card)
           => objects'[u][OwnPath][p] = objects[u][OwnPath][p] ]_owVars

\* What holds of "never resurrected": where a run has saved a row for a contact,
\* no run of any direction makes it appear on Proton again, and no bidirectional
\* run on CardDAV, not even over rows that one-way runs wrote (the rows looked up
\* by reconcile and by syncCardDAVToProton).
DeletionsStand ==
    [][ \A u \in UID : rows[u] # NoCard =>
           /\ AnyRun /\ HasContact(u)' => HasContact(u)
           /\ ReconcileRun /\ HasObject(u)' => HasObject(u) ]_owVars

\* "Never auto-deleted or resurrected": a contact that a run has saved a row for,
\* and that is gone from one side since, is made to appear there by no run.
NeverResurrected ==
    [][ \A u \in UID : AnyRun /\ rows[u] # NoCard =>
           /\ HasContact(u)' => HasContact(u)
           /\ HasObject(u)' => HasObject(u) ]_owVars

Mirrored ==
    \A u \in UID, id \in ID : contacts[u][id] \in Card =>
        /\ objects[u][OwnPath] \in Card
        /\ \A p \in Prop : contacts[u][id][p] \in {None, objects[u][OwnPath][p]}

\* If the direction stays Proton to CardDAV, CardDAV has in the end all that
\* Proton has, for good, whatever was deleted, edited or failed before (what was
\* deleted from CardDAV is put back: see NeverResurrected); and then the only
\* objects still written are those whose text is in no fixed order (the hash
\* comparison of syncProtonToCardDAV).
MirrorConverges ==
    <>[](dir = "toCardDAV") =>
        <>[](Mirrored /\ (owpc \in {"put", "upsert"} => Reorders(work.merged)))

\* "CardDAV->Proton sends the full card": a changed card that a run is about to
\* send reaches Proton in the end, unless it is changed or deleted once more.
ChangedCardArrives ==
    \A u \in UID, card \in UserCard :
        (owpc = "update" /\ work.uid = u /\ work.merged = card)
        ~> (\/ \E id \in ID : contacts[u][id] = ProtonStores(card)
            \/ objects[u][OwnPath] # card)
-----------------------------------------------------------------------------
(***************************************************************************)
(* The inductive invariants behind the safety properties.                  *)
(***************************************************************************)
OneWayPC == {"idle", "index", "overlay", "put", "push", "create", "update", "upsert"}

OneWayTypeOK ==
    /\ hashes \in [UID -> Card \cup {NoCard}]
    /\ dir \in Direction
    /\ owpc \in OneWayPC

\* A one-way run takes place between bidirectional runs, in one direction, and
\* knows which contact it has in hand.
OneWayInHand ==
    owpc # "idle" =>
        /\ pc = "idle" /\ quiet = "no" /\ dir \in {"toCardDAV", "toProton"}
        /\ owpc \in {"index", "overlay", "put"} => dir = "toCardDAV"
        /\ owpc \in {"push", "create", "update"} => dir = "toProton"
        /\ dir = "toProton" => \A u \in todo : carddavIdx[u] # NoCard
        /\ owpc \in {"put", "create", "update", "upsert"} => work.uid \in UID

\* The card in hand is one that CardDAV has, or may get.
OneWayStable ==
    owpc \in {"put", "create", "update", "upsert"} => CardDAVStable(work.merged)

\* What a run is about to make appear on Proton has no row.
OneWayCreatesAreNew ==
    /\ owpc = "idle" => CreatesAreNew
    /\ owpc = "create" => rows[work.uid] = NoCard

\* What the run's index of CardDAV has of a property.
Indexed(u, p) == IF carddavIdx[u] = NoCard THEN None ELSE carddavIdx[u][p]

\* Of what Proton cannot hold, an object has what the run's index has: until it
\* is visited, in a bidirectional run, and all the time in a one-way run, which
\* may write an object twice.
DroppedIsIndexed ==
    /\ \A u \in UID, path \in Path : objects[u][path] # NoCard => path = OwnPath
    /\ pc \notin {"idle", "fetch"} => \A u \in todo : carddavIdx[u] = objects[u][OwnPath]
    /\ pc = "put" => work.uid \notin todo /\ carddavIdx[work.uid] = objects[work.uid][OwnPath]
    /\ owpc \notin {"idle", "index"} => \A u \in UID, p \in Dropped :
          objects[u][OwnPath] \in Card => objects[u][OwnPath][p] = Indexed(u, p)
    /\ owpc = "put" => \A p \in Dropped : work.merged[p] = Indexed(work.uid, p)
=============================================================================
