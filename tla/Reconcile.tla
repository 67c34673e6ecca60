------------------------------ MODULE Reconcile ------------------------------
(***************************************************************************)
(* The bidirectional synchronisation of internal/syncer/syncer.go          *)
(* (reconcile, reconcileBoth and what they call), one run after another,   *)
(* between an address book on a CardDAV server, the contacts of a Proton   *)
(* account and the contacts table of the local database, while the users   *)
(* of both sides edit their contacts and calls fail.                       *)
(*                                                                         *)
(* Every remote call and every database write of a run is a step of its    *)
(* own; what the run read earlier is kept in protonIdx, carddavIdx and     *)
(* work, so the users' steps interleave with the run's at every call.      *)
(***************************************************************************)
EXTENDS VCardMerge, FiniteSets

CONSTANTS
    UID,            \* the vCard UIDs, which identify a contact on both sides
    ID,             \* Proton contact IDs; a UID has a set of IDs of its own
    Path,           \* the paths of the objects of one UID in the address book
    OwnPath,        \* <addressBook>/<uid>.vcf, the path PutContact writes
    NoCard,         \* no object at this path, no contact with this ID
    Deleted,        \* a Proton contact that was deleted; its ID is not reused
    SyncPolicy,     \* sync.conflict
    MaxNewProton,   \* sync.max_new_proton_contacts_per_run; 0 is unlimited
    Dropped,        \* properties a Proton contact loses when it is written
    Fold,           \* what Proton makes of a property's value
    RejectDuplicateUID,  \* Proton refuses a second contact with the same UID
    CallFault,      \* the calls that may fail, "...Lost" after taking effect
    StopAt,         \* the program points where the process may stop
    MaxFault,       \* bound on failed calls and stops in a behaviour
    UserCard,       \* the cards a user may give a contact
    UserPath,       \* the paths CardDAV clients give their objects
    EditPhase,      \* the program points at which users may edit
    MaxEdit         \* bound on user edits in a behaviour

PC == {"idle", "fetch", "loop", "put", "update", "create", "refetch", "save"}
Call == {"fetch", "index", "put", "putLost", "update", "updateLost",
         "create", "createLost", "refetch", "save"}

\* What a write leaves on Proton: buildContactCards folds the e-mail labels
\* into the TYPE of EMAIL, drops the type INTERNET (Fold) and the X-ABLABELs it
\* folded; both cards it builds carry VERSION 4.0.  The FN it gives a card without
\* one, and labels that no e-mail takes over, are left out.
ProtonStores(card) ==
    [name \in Name |->
        CASE name \in Dropped   -> None
          [] name = "VERSION"   -> V4
          [] OTHER              -> Fold[card[name]]]

ASSUME ReconcileAssumption ==
    /\ OwnPath \in Path /\ UserPath \subseteq Path
    /\ NoCard \notin Card /\ Deleted \notin Card /\ Deleted # NoCard
    /\ SyncPolicy \in Policy
    /\ MaxNewProton \in Nat
    /\ Dropped \subseteq Prop
    /\ Fold \in [Value \cup {None} -> Value \cup {None}]
    /\ \A v \in Value \cup {None} : (Fold[v] = None) <=> (v = None)
    /\ \A v \in Value : Fold[Fold[v]] = Fold[v]
    /\ RejectDuplicateUID \in BOOLEAN
    /\ CallFault \subseteq Call /\ StopAt \subseteq PC /\ EditPhase \subseteq PC
    /\ MaxFault \in Nat /\ MaxEdit \in Nat
    /\ UserCard \subseteq Card

VARIABLES
    objects,     \* CardDAV: the card of each UID at each path
    contacts,    \* Proton: the card of each UID's contact with each ID
    rows,        \* contacts table: the two bases of a UID, or NoCard
    pc,          \* where the current run is; "idle" between runs
    pending,     \* protonByUID: the contacts whose card is still to be fetched
    protonIdx,   \* the run's index of Proton: a contact's ID and card, or NoCard
    carddavIdx,  \* the run's index of CardDAV: a card, or NoCard
    todo,        \* the UIDs the run has still to visit
    work,        \* the contact in hand
    newProton,   \* contacts the run created, as it counts them
    edits,       \* user edits so far, for the bound MaxEdit
    faults,      \* failed calls and stops so far, for the bound MaxFault
    edited,      \* what users changed since the row was last saved
    quiet        \* "yes" once a whole run went by with no edit, fault or deferral

stores == <<objects, contacts, rows>>
locals == <<pending, protonIdx, carddavIdx, todo, work, newProton>>
vars   == <<stores, pc, locals, edits, faults, edited, quiet>>

Row    == [protonBase : Card, carddavBase : Card]
PEntry == [id : ID, vcard : Card]

ASSUME RowAssumption == NoCard \notin Row \cup PEntry

\* A user's change: of one property ("C" on CardDAV, "P" on Proton), seen by
\* the run in progress (or made between runs) or made too late for it.
Change == {"C", "P"} \X Prop
NoEdit == [seen |-> {}, late |-> {}]

NoWork == [uid |-> NoCard, id |-> NoCard, merged |-> EmptyCard,
           protonBase |-> EmptyCard, push |-> FALSE]

HasObject(u)  == \E path \in Path : objects[u][path] # NoCard
HasContact(u) == \E id \in ID : contacts[u][id] \in Card

NoLocals == [pending |-> {}, protonIdx |-> [u \in UID |-> NoCard],
             carddavIdx |-> [u \in UID |-> NoCard], todo |-> {}, work |-> NoWork,
             newProton |-> 0]

TypeOK ==
    /\ objects \in [UID -> [Path -> Card \cup {NoCard}]]
    /\ contacts \in [UID -> [ID -> Card \cup {NoCard, Deleted}]]
    /\ rows \in [UID -> Row \cup {NoCard}]
    /\ pc \in PC
    /\ pending \subseteq UID \X ID
    /\ protonIdx \in [UID -> PEntry \cup {NoCard}]
    /\ carddavIdx \in [UID -> Card \cup {NoCard}]
    /\ todo \subseteq UID
    /\ work \in [uid : UID \cup {NoCard}, id : ID \cup {NoCard}, merged : Card,
                 protonBase : Card, push : BOOLEAN]
    /\ newProton \in Nat
    /\ edits \in 0 .. MaxEdit /\ faults \in 0 .. MaxFault
    /\ edited \in [UID -> [seen : SUBSET Change, late : SUBSET Change]]
    /\ quiet \in {"no", "running", "yes"}
-----------------------------------------------------------------------------
(***************************************************************************)
(* The users.  A user creates, rewrites or deletes a contact of one side.  *)
(***************************************************************************)
ProtonCard == {ProtonStores(card) : card \in UserCard}

ChangedProps(old, new) ==
    {p \in Prop : (IF old \in Card THEN old[p] ELSE None)
               # (IF new \in Card THEN new[p] ELSE None)}

\* All that the two sides have of u at first is what users gave them.
Given(u) ==
    {"C"} \X {p \in Prop : \E path \in Path : objects[u][path] \in Card
                                            /\ objects[u][path][p] # None}
    \cup
    {"P"} \X {p \in Prop : \E id \in ID : contacts[u][id] \in Card
                                        /\ contacts[u][id][p] # None}

\* The first run finds any contacts on the two sides, and no row.
Init ==
    /\ objects \in [UID -> [Path -> UserCard \cup {NoCard}]]
    /\ \A u \in UID :
          /\ \A path \in Path \ UserPath : objects[u][path] = NoCard
          /\ Cardinality({path \in Path : objects[u][path] # NoCard}) <= 1
    /\ \E first \in ID, f \in [UID -> ProtonCard \cup {NoCard}] :
          contacts = [u \in UID |-> [id \in ID |-> IF id = first THEN f[u] ELSE NoCard]]
    /\ rows = [u \in UID |-> NoCard]
    /\ pc = "idle"
    /\ pending = NoLocals.pending /\ protonIdx = NoLocals.protonIdx
    /\ carddavIdx = NoLocals.carddavIdx /\ todo = NoLocals.todo
    /\ work = NoLocals.work /\ newProton = NoLocals.newProton
    /\ edits = 0 /\ faults = 0
    /\ edited = [u \in UID |-> [seen |-> Given(u), late |-> {}]]
    /\ quiet = "no"

Record(u, side, props) ==
    LET changes == {side} \X props
    IN  edited' = [edited EXCEPT ![u] =
            IF pc = "idle" THEN [seen |-> @.seen \cup changes, late |-> @.late]
                           ELSE [seen |-> @.seen, late |-> @.late \cup changes]]

UserStep ==
    /\ pc \in EditPhase /\ edits < MaxEdit
    /\ edits' = edits + 1
    /\ quiet' = "no"
    /\ UNCHANGED <<rows, pc, locals, faults>>

EditCardDAV(u, path) ==
    /\ objects[u][path] \in Card
    /\ \E card \in UserCard \ {objects[u][path]} :
          /\ objects' = [objects EXCEPT ![u][path] = card]
          /\ Record(u, "C", ChangedProps(objects[u][path], card))
    /\ UNCHANGED contacts
    /\ UserStep

CreateCardDAV(u, path) ==
    /\ ~HasObject(u) /\ path \in UserPath
    /\ \E card \in UserCard :
          /\ objects' = [objects EXCEPT ![u][path] = card]
          /\ Record(u, "C", ChangedProps(NoCard, card))
    /\ UNCHANGED contacts
    /\ UserStep

DeleteCardDAV(u, path) ==
    /\ objects[u][path] \in Card
    /\ objects' = [objects EXCEPT ![u][path] = NoCard]
    /\ Record(u, "C", ChangedProps(objects[u][path], NoCard))
    /\ UNCHANGED contacts
    /\ UserStep

EditProton(u, id) ==
    /\ contacts[u][id] \in Card
    /\ \E card \in ProtonCard \ {contacts[u][id]} :
          /\ contacts' = [contacts EXCEPT ![u][id] = card]
          /\ Record(u, "P", ChangedProps(contacts[u][id], card))
    /\ UNCHANGED objects
    /\ UserStep

CreateProton(u, id) ==
    /\ ~HasContact(u) /\ contacts[u][id] = NoCard
    /\ \E card \in ProtonCard :
          /\ contacts' = [contacts EXCEPT ![u][id] = card]
          /\ Record(u, "P", ChangedProps(NoCard, card))
    /\ UNCHANGED objects
    /\ UserStep

DeleteProton(u, id) ==
    /\ contacts[u][id] \in Card
    /\ contacts' = [contacts EXCEPT ![u][id] = Deleted]
    /\ Record(u, "P", ChangedProps(contacts[u][id], NoCard))
    /\ UNCHANGED objects
    /\ UserStep

User ==
    \E u \in UID :
        \/ \E path \in Path : EditCardDAV(u, path) \/ CreateCardDAV(u, path)
                              \/ DeleteCardDAV(u, path)
        \/ \E id \in ID : EditProton(u, id) \/ CreateProton(u, id)
                          \/ DeleteProton(u, id)
-----------------------------------------------------------------------------
(***************************************************************************)
(* How a call ends, and how a run does.                                    *)
(***************************************************************************)
Works == UNCHANGED <<faults, quiet>>

Fails(call) ==
    /\ call \in CallFault /\ faults < MaxFault
    /\ faults' = faults + 1
    /\ quiet' = "no"

\* Mutant of EndRun: the count of created contacts outlives the run.
EndRunKeepsCount ==
    /\ pc' = "idle"
    /\ pending' = {} /\ todo' = {} /\ work' = NoWork
    /\ protonIdx' = [u \in UID |-> NoCard]
    /\ carddavIdx' = [u \in UID |-> NoCard]
    /\ edited' = [u \in UID |-> [seen |-> edited[u].seen \cup edited[u].late,
                                 late |-> {}]]
    /\ UNCHANGED <<edits, newProton>>

\* The run returns, with an error or without: everything it held is gone.
EndRun ==
    /\ pc' = "idle"
    /\ pending' = {} /\ todo' = {} /\ work' = NoWork /\ newProton' = 0
    /\ protonIdx' = [u \in UID |-> NoCard]
    /\ carddavIdx' = [u \in UID |-> NoCard]
    /\ edited' = [u \in UID |-> [seen |-> edited[u].seen \cup edited[u].late,
                                 late |-> {}]]
    /\ UNCHANGED edits

\* The process is killed, or its context is cancelled, between two calls.
Stop ==
    /\ pc \in StopAt \ {"idle"} /\ faults < MaxFault
    /\ faults' = faults + 1
    /\ quiet' = "no"
    /\ EndRun
    /\ UNCHANGED stores
-----------------------------------------------------------------------------
(***************************************************************************)
(* Indexing both sides: protonByUID lists the contacts, then fetches each  *)
(* card with a call of its own and skips those it cannot get; a UID listed *)
(* twice keeps the last.  carddavIndex is one query.                       *)
(***************************************************************************)
StartRun ==
    /\ pc = "idle"
    /\ pc' = "fetch"
    /\ pending' = {entry \in UID \X ID : contacts[entry[1]][entry[2]] \in Card}
    /\ quiet' = IF quiet = "no" THEN "running" ELSE quiet
    /\ UNCHANGED <<stores, protonIdx, carddavIdx, todo, work, newProton,
                   edits, faults, edited>>

\* Mutant of FetchCard: the error of GetContactVCard is ignored.
FetchCardUnchecked(u, id) ==
    /\ pc = "fetch" /\ <<u, id>> \in pending
    /\ pending' = pending \ {<<u, id>>}
    /\ protonIdx' = [protonIdx EXCEPT ![u] = [id |-> id, vcard |-> contacts[u][id]]]
    /\ Works
    /\ UNCHANGED <<stores, pc, carddavIdx, todo, work, newProton, edits, edited>>

\* Every card has a UID, so that extractUID needs no fallback.
FetchCard(u, id) ==
    /\ pc = "fetch" /\ <<u, id>> \in pending
    /\ contacts[u][id] \in Card
    /\ pending' = pending \ {<<u, id>>}
    /\ protonIdx' = [protonIdx EXCEPT ![u] = [id |-> id, vcard |-> contacts[u][id]]]
    /\ Works
    /\ UNCHANGED <<stores, pc, carddavIdx, todo, work, newProton, edits, edited>>

SkipCard(u, id) ==
    /\ pc = "fetch" /\ <<u, id>> \in pending
    /\ (contacts[u][id] = Deleted /\ Works) \/ Fails("fetch")
    /\ pending' = pending \ {<<u, id>>}
    /\ UNCHANGED <<stores, pc, protonIdx, carddavIdx, todo, work, newProton,
                   edits, edited>>

\* Two objects with one UID: the one the server lists last is the contact.
Indexes ==
    {[u \in UID |-> objects[u][last[u]]] : last \in
        {l \in [UID -> Path] : \A u \in UID : HasObject(u) => objects[u][l[u]] # NoCard}}

IndexCardDAV ==
    /\ pc = "fetch" /\ pending = {}
    /\ carddavIdx' \in Indexes
    /\ todo' = {u \in UID : protonIdx[u] # NoCard \/ carddavIdx'[u] # NoCard}
    /\ pc' = "loop"
    /\ Works
    /\ UNCHANGED <<stores, pending, protonIdx, work, newProton, edits, edited>>

IndexFails ==
    /\ pc = "fetch" /\ pending = {}
    /\ Fails("index")
    /\ EndRun
    /\ UNCHANGED stores
-----------------------------------------------------------------------------
(***************************************************************************)
(* Visiting one UID: the switch of reconcile on the sides that have it.    *)
(***************************************************************************)
\* The row as reconcileBoth sees it: empty bases when there is none.
Bases(u) == IF rows[u] = NoCard
            THEN [protonBase |-> EmptyCard, carddavBase |-> EmptyCard]
            ELSE rows[u]

Visit(u) ==
    /\ pc = "loop" /\ u \in todo
    /\ todo' = todo \ {u}
    /\ UNCHANGED <<stores, pending, protonIdx, carddavIdx, newProton, edits,
                   faults, edited>>

MergeBoth(u) ==
    /\ Visit(u)
    /\ protonIdx[u] # NoCard /\ carddavIdx[u] # NoCard
    /\ LET p      == protonIdx[u].vcard
           c      == carddavIdx[u]
           base   == Bases(u)
           merged == ThreeWayString(base.protonBase, base.carddavBase, p, c, SyncPolicy)
           push   == ProtonRelevantDiff(merged, p, base.protonBase)
       IN  /\ work' = [uid |-> u, id |-> protonIdx[u].id, merged |-> merged,
                       protonBase |-> p, push |-> push]
           /\ pc' = CASE ~EqualString(merged, c) -> "put"
                      [] EqualString(merged, c) /\ push -> "update"
                      [] OTHER -> "save"
    /\ UNCHANGED quiet

\* Mutant of CopyToCardDAV: the check that there is no row is missing.
CopyToCardDAVAlways(u) ==
    /\ Visit(u)
    /\ protonIdx[u] # NoCard /\ carddavIdx[u] = NoCard
    /\ work' = [uid |-> u, id |-> protonIdx[u].id, merged |-> protonIdx[u].vcard,
                protonBase |-> protonIdx[u].vcard, push |-> FALSE]
    /\ pc' = "put"
    /\ UNCHANGED quiet

CopyToCardDAV(u) ==
    /\ Visit(u)
    /\ protonIdx[u] # NoCard /\ carddavIdx[u] = NoCard /\ rows[u] = NoCard
    /\ work' = [uid |-> u, id |-> protonIdx[u].id, merged |-> protonIdx[u].vcard,
                protonBase |-> protonIdx[u].vcard, push |-> FALSE]
    /\ pc' = "put"
    /\ UNCHANGED quiet

\* Known from an earlier run and gone from one side: left alone.
LeaveOneSided(u) ==
    /\ Visit(u)
    /\ protonIdx[u] = NoCard \/ carddavIdx[u] = NoCard
    /\ rows[u] # NoCard
    /\ UNCHANGED <<pc, work, quiet>>

\* Mutant of CapReached: off by one.
CapReachedEarly == MaxNewProton > 0 /\ newProton + 1 >= MaxNewProton

CapReached == MaxNewProton > 0 /\ newProton >= MaxNewProton

Defer(u) ==
    /\ Visit(u)
    /\ protonIdx[u] = NoCard /\ carddavIdx[u] # NoCard /\ rows[u] = NoCard
    /\ CapReached
    /\ quiet' = "no"
    /\ UNCHANGED <<pc, work>>

\* Mutant of CopyToProton: any contact without a row counts as new to Proton.
CopyToProtonByRow(u) ==
    /\ Visit(u)
    /\ carddavIdx[u] # NoCard /\ rows[u] = NoCard /\ ~CapReached
    /\ work' = [uid |-> u, id |-> NoCard, merged |-> carddavIdx[u],
                protonBase |-> carddavIdx[u], push |-> TRUE]
    /\ pc' = "create"
    /\ UNCHANGED quiet

CopyToProton(u) ==
    /\ Visit(u)
    /\ protonIdx[u] = NoCard /\ carddavIdx[u] # NoCard /\ rows[u] = NoCard
    /\ ~CapReached
    /\ work' = [uid |-> u, id |-> NoCard, merged |-> carddavIdx[u],
                protonBase |-> carddavIdx[u], push |-> TRUE]
    /\ pc' = "create"
    /\ UNCHANGED quiet

Finish ==
    /\ pc = "loop" /\ todo = {}
    /\ quiet' = IF quiet = "running" THEN "yes" ELSE quiet
    /\ EndRun
    /\ UNCHANGED <<stores, faults>>
-----------------------------------------------------------------------------
(***************************************************************************)
(* Writing the contact in hand.                                            *)
(***************************************************************************)
PutEffect == objects' = [objects EXCEPT ![work.uid][OwnPath] = work.merged]

Put ==
    /\ pc = "put"
    /\ PutEffect
    /\ pc' = IF work.push THEN "update" ELSE "save"
    /\ Works
    /\ UNCHANGED <<contacts, rows, locals, edits, edited>>

\* A failed PutContact ends the run.
PutFails ==
    /\ pc = "put"
    /\ \/ Fails("put") /\ UNCHANGED objects
       \/ Fails("putLost") /\ PutEffect
    /\ EndRun
    /\ UNCHANGED <<contacts, rows>>

UpdateEffect ==
    contacts' = [contacts EXCEPT ![work.uid][work.id] = ProtonStores(work.merged)]

Update ==
    /\ pc = "update" /\ contacts[work.uid][work.id] \in Card
    /\ UpdateEffect
    /\ pc' = "refetch"
    /\ Works
    /\ UNCHANGED <<objects, rows, locals, edits, edited>>

\* A failed UpdateContact or CreateContact skips the contact: no row is saved.
SkipContact ==
    /\ pc' = "loop"
    /\ work' = NoWork
    /\ UNCHANGED <<objects, rows, pending, protonIdx, carddavIdx, todo, newProton,
                   edits, edited>>

UpdateFails ==
    /\ pc = "update"
    /\ \/ contacts[work.uid][work.id] = Deleted /\ Works /\ UNCHANGED contacts
       \/ Fails("update") /\ UNCHANGED contacts
       \/ contacts[work.uid][work.id] \in Card /\ Fails("updateLost") /\ UpdateEffect
    /\ SkipContact

Refused(u) == RejectDuplicateUID /\ HasContact(u)

CreateEffect(id) ==
    /\ ~Refused(work.uid) /\ contacts[work.uid][id] = NoCard
    /\ contacts' = [contacts EXCEPT ![work.uid][id] = ProtonStores(work.merged)]

Create(id) ==
    /\ pc = "create"
    /\ CreateEffect(id)
    /\ newProton' = newProton + 1
    /\ work' = [work EXCEPT !.id = id]
    /\ pc' = "refetch"
    /\ Works
    /\ UNCHANGED <<objects, rows, pending, protonIdx, carddavIdx, todo, edits, edited>>

CreateFails ==
    /\ pc = "create"
    /\ \/ Refused(work.uid) /\ Works /\ UNCHANGED contacts
       \/ Fails("create") /\ UNCHANGED contacts
       \/ Fails("createLost") /\ \E id \in ID : CreateEffect(id)
    /\ SkipContact

\* The base to save is what Proton made of the card, or else what the run has.
Refetch ==
    /\ pc = "refetch" /\ contacts[work.uid][work.id] \in Card
    /\ work' = [work EXCEPT !.protonBase = contacts[work.uid][work.id]]
    /\ pc' = "save"
    /\ Works
    /\ UNCHANGED <<stores, pending, protonIdx, carddavIdx, todo, newProton, edits, edited>>

RefetchFails ==
    /\ pc = "refetch"
    /\ (contacts[work.uid][work.id] = Deleted /\ Works) \/ Fails("refetch")
    /\ pc' = "save"
    /\ UNCHANGED <<stores, locals, edits, edited>>

\* Mutant of Save: the Proton base stays what it was at the last sync.
SaveStale ==
    /\ pc = "save"
    /\ rows' = [rows EXCEPT ![work.uid] =
                  [protonBase |-> Bases(work.uid).protonBase,
                   carddavBase |-> work.merged]]
    /\ edited' = [edited EXCEPT ![work.uid].seen = {}]
    /\ pc' = "loop" /\ work' = NoWork
    /\ Works
    /\ UNCHANGED <<objects, contacts, pending, protonIdx, carddavIdx, todo,
                   newProton, edits>>

\* Mutant of Save: the bases are swapped.
SaveSwapped ==
    /\ pc = "save"
    /\ rows' = [rows EXCEPT ![work.uid] =
                  [protonBase |-> work.merged, carddavBase |-> work.protonBase]]
    /\ edited' = [edited EXCEPT ![work.uid].seen = {}]
    /\ pc' = "loop" /\ work' = NoWork
    /\ Works
    /\ UNCHANGED <<objects, contacts, pending, protonIdx, carddavIdx, todo,
                   newProton, edits>>

Save ==
    /\ pc = "save"
    /\ rows' = [rows EXCEPT ![work.uid] =
                  [protonBase |-> work.protonBase, carddavBase |-> work.merged]]
    /\ edited' = [edited EXCEPT ![work.uid].seen = {}]
    /\ pc' = "loop" /\ work' = NoWork
    /\ Works
    /\ UNCHANGED <<objects, contacts, pending, protonIdx, carddavIdx, todo,
                   newProton, edits>>

SaveFails ==
    /\ pc = "save"
    /\ Fails("save")
    /\ EndRun
    /\ UNCHANGED stores
-----------------------------------------------------------------------------
\* What the run does when every call works and nobody stops it.
RunStep ==
    \/ StartRun \/ IndexCardDAV \/ Finish
    \/ \E u \in UID :
          \/ MergeBoth(u) \/ CopyToCardDAV(u) \/ LeaveOneSided(u)
          \/ Defer(u) \/ CopyToProton(u)
          \/ \E id \in ID : FetchCard(u, id)
    \/ Put \/ Update \/ Refetch \/ Save
    \/ \E id \in ID : Create(id)

FaultStep ==
    \/ \E u \in UID, id \in ID : SkipCard(u, id)
    \/ IndexFails \/ PutFails \/ UpdateFails \/ CreateFails \/ RefetchFails
    \/ SaveFails \/ Stop

Run == RunStep \/ FaultStep

Next == User \/ Run

Spec == Init /\ [][Next]_vars

\* The daemon's ticker starts run after run and each run goes on until it
\* returns; users need do nothing, and calls fail only MaxFault times.
FairSpec == Spec /\ WF_vars(Run)
-----------------------------------------------------------------------------
(***************************************************************************)
(* Properties.                                                             *)
(***************************************************************************)
\* What the run would write to CardDAV for a contact it found on both sides
\* has every CardDAV-only property just as the run read it: Proton's lossy
\* round trip never looks like an edit made on Proton (ThreeWay's per-side
\* bases, and the refetch that feeds them).
CardDAVOnlyKept ==
    (pc \in {"put", "update"} /\ carddavIdx[work.uid] # NoCard) =>
        \A p \in Dropped : work.merged[p] = carddavIdx[work.uid][p]

\* The users' changes of u that no saved row accounts for.
Unsynced(u) == edited[u].seen \cup edited[u].late

\* "Changed on one side only: that side's value wins."  A run rewrites a
\* property of a CardDAV card only if a Proton user changed that property
\* since the row was last saved, and rewrites a property that a Proton contact
\* has only if a CardDAV user changed it (reconcileBoth and saveBases over any
\* number of runs, some of them cut short).
OneSidedEditsWin ==
    [][ /\ \A u \in UID, path \in Path, p \in Prop :
              (Run /\ objects[u][path] \in Card /\ objects'[u][path] \in Card
                   /\ objects'[u][path][p] # objects[u][path][p])
              => <<"P", p>> \in Unsynced(u)
        /\ \A u \in UID, id \in ID, p \in Prop :
              (Run /\ contacts[u][id] \in Card /\ contacts[u][id][p] # None
                   /\ contacts'[u][id][p] # contacts[u][id][p])
              => <<"C", p>> \in Unsynced(u) ]_vars

\* "A contact present in the last-synced state but now gone from one side is
\* left untouched": a run makes a contact appear on a side only if no earlier
\* run saved a row for it.
NoResurrection ==
    [][ \A u \in UID :
           Run => /\ (~HasObject(u) /\ HasObject(u)') => rows[u] = NoCard
                  /\ (~HasContact(u) /\ HasContact(u)') => rows[u] = NoCard ]_vars

\* Retrying after a lost answer, a failed write or save, or a kill never leaves a
\* UID with two contacts on Proton, even if Proton accepts a second one: the next
\* run finds the contact it does not know of (protonByUID, reconcile).
NoDuplicateContact ==
    \A u \in UID : Cardinality({id \in ID : contacts[u][id] \in Card}) <= 1

\* After one undisturbed run, whatever happened before it, the two sides agree:
\* no property that Proton has says anything else than CardDAV's, and the row
\* holds exactly the two cards, so the next run sees no change.
QuietAgreement ==
    quiet = "yes" =>
        \A u \in UID, id \in ID :
            (contacts[u][id] \in Card /\ objects[u][OwnPath] \in Card) =>
                /\ \A p \in Prop :
                      contacts[u][id][p] \in {None, Fold[objects[u][OwnPath][p]]}
                /\ rows[u] = [protonBase  |-> contacts[u][id],
                              carddavBase |-> objects[u][OwnPath]]

\* Proton stores some value of this card as another.
Normalised(card) == \E name \in Name \ {"VERSION"} : Fold[card[name]] # card[name]

\* Once quiet, runs change nothing: no card of either side and no row.  What they
\* write all the same is the card of a contact with a value that Proton
\* normalises, and that write leaves Proton's card as it is (reconcileBoth).
QuietRunsChangeNothing ==
    [][ quiet = "yes" /\ Run =>
            /\ UNCHANGED stores
            /\ pc' = "update" => Normalised(work'.merged) ]_vars

\* "Write Proton only when a Proton-modelled property changed (avoids churning)":
\* once quiet, runs only read, until a user edits.
QuietMeansNoWrites ==
    quiet = "yes" => pc \notin {"put", "update", "create"}

\* Whatever was edited and whatever failed, the runs get quiet in the end: the
\* cap defers no contact for ever and no retry goes on for ever.
EventuallyQuiet == <>[](quiet = "yes")

\* A contact that no run has ever saved a row for does not stay on one side
\* only: in the end both sides have it, or a row, or neither side has it.
EveryContactCopied ==
    \A u \in UID : []<>( rows[u] # NoCard \/ (~HasObject(u) /\ ~HasContact(u)) )
-----------------------------------------------------------------------------
(***************************************************************************)
(* The inductive invariants behind CardDAVOnlyKept and NoResurrection.     *)
(***************************************************************************)
\* Between the calls for one contact the run knows which contact that is.
ContactInHand ==
    /\ pc \in {"put", "update", "create", "refetch", "save"} => work.uid \in UID
    /\ pc \in {"put", "update", "refetch"} => work.id \in ID

LacksDropped(card) == \A p \in Dropped : card[p] = None

\* Every card that a run holds as Proton's, or saves as Proton's base, has been
\* through a write to Proton.
ProtonCardsAreStored ==
    /\ \A u \in UID, id \in ID : contacts[u][id] \in Card => LacksDropped(contacts[u][id])
    /\ \A u \in UID : protonIdx[u] # NoCard => LacksDropped(protonIdx[u].vcard)
    /\ \A u \in UID : rows[u] # NoCard => LacksDropped(rows[u].protonBase)
    /\ pc \in {"put", "save"} => LacksDropped(work.protonBase)
    /\ pc = "refetch" => contacts[work.uid][work.id] \in Card

\* What a run indexed on CardDAV is still there, and a contact it is about to
\* create on a side has no row.
CreatesAreNew ==
    /\ pc = "idle" => \A u \in UID : carddavIdx[u] = NoCard
    /\ \A u \in UID : carddavIdx[u] # NoCard => HasObject(u)
    /\ pc = "put" => HasObject(work.uid) \/ rows[work.uid] = NoCard
    /\ pc = "create" => rows[work.uid] = NoCard
(***************************************************************************)
(* The inductive invariants behind NoDuplicateContact and QuietAgreement.  *)
(***************************************************************************)
Handling == pc \in {"put", "update", "create", "refetch", "save"}

\* Where Proton does not refuse a duplicate, the run must not miss a contact: the
\* one it is about to create is in no index, and nobody has made it since.
OneContact ==
    /\ \A u \in UID, i, j \in ID :
          contacts[u][i] \in Card /\ contacts[u][j] \in Card => i = j
    /\ ~RejectDuplicateUID =>
          /\ pc = "fetch" => \A u \in UID, id \in ID :
                contacts[u][id] \in Card => <<u, id>> \in pending \/ protonIdx[u] # NoCard
          /\ pc \notin {"idle", "fetch"} => \A u \in todo :
                HasContact(u) => protonIdx[u] # NoCard
          /\ pc = "create" => work.uid \notin todo /\ ~HasContact(work.uid)

\* What every card of CardDAV, and every card from Proton, looks like.
CardDAVStable(card) == card["VERSION"] # None /\ Fold[card["REV"]] = card["REV"]
ProtonStable(card) ==
    /\ card["VERSION"] = V4
    /\ \A name \in Name \ {"VERSION"} : Fold[card[name]] = card[name]

CardsAreStable ==
    /\ \A u \in UID, path \in Path :
          objects[u][path] # NoCard => path = OwnPath /\ CardDAVStable(objects[u][path])
    /\ \A u \in UID, id \in ID : contacts[u][id] \in Card => ProtonStable(contacts[u][id])
    /\ \A u \in UID : protonIdx[u] # NoCard => ProtonStable(protonIdx[u].vcard)
    /\ \A u \in UID : carddavIdx[u] # NoCard => CardDAVStable(carddavIdx[u])
    /\ Handling => CardDAVStable(work.merged)
    /\ pc = "idle" => \A u \in UID : protonIdx[u] = NoCard

\* A merge of these two, with them as bases, writes nothing that is not there:
\* Proton has what a write of c makes, or nothing that c has not.
Agree(p, c) ==
    /\ p["UID"] # None => c["UID"] # None
    /\ \/ p = ProtonStores(c)
       \/ \A name \in Keys(p) \ {"VERSION"} : c[name] = p[name]

\* Nothing is left to do for u: its two cards agree and the row holds them, or
\* it is on one side only and has a row.
Settled(u) ==
    /\ HasObject(u) \/ HasContact(u) => rows[u] # NoCard
    /\ \A id \in ID : HasObject(u) /\ contacts[u][id] \in Card =>
          /\ rows[u] = [protonBase |-> contacts[u][id], carddavBase |-> objects[u][OwnPath]]
          /\ Agree(contacts[u][id], objects[u][OwnPath])

\* The index entries of u are what the two sides have.
IndexedProton(u) ==
    IF protonIdx[u] = NoCard THEN ~HasContact(u)
    ELSE contacts[u][protonIdx[u].id] = protonIdx[u].vcard

\* In a run that nothing disturbs, what is indexed is still so, what was visited
\* is settled, and the contact in hand is on its way there.
RunSettles ==
    quiet # "no" =>
    /\ pc = "fetch" => \A u \in UID :
          /\ \A id \in ID : <<u, id>> \in pending => contacts[u][id] \in Card
          /\ IndexedProton(u) \/ \E id \in ID : <<u, id>> \in pending
    /\ pc \notin {"idle", "fetch"} =>
          /\ \A u \in todo : IndexedProton(u) /\ carddavIdx[u] = objects[u][OwnPath]
          /\ \A u \in UID \ todo : Settled(u) \/ (Handling /\ u = work.uid)
    /\ quiet = "yes" => pc \notin {"put", "create"} /\ \A u \in UID : Settled(u)

\* The contact in hand, call by call.
HandSettles ==
    quiet # "no" /\ Handling =>
    /\ work.uid \notin todo
    /\ pc # "put" => objects[work.uid][OwnPath] = work.merged
    /\ pc = "put" => /\ contacts[work.uid][work.id] = work.protonBase
                     /\ work.push \/ Agree(work.protonBase, work.merged)
    /\ pc = "update" => /\ contacts[work.uid][work.id] \in Card
                        /\ quiet = "yes" =>
                             /\ contacts[work.uid][work.id] = ProtonStores(work.merged)
                             /\ Normalised(work.merged)
    /\ pc = "create" => ~HasContact(work.uid)
    /\ pc = "refetch" => contacts[work.uid][work.id] = ProtonStores(work.merged)
    /\ pc = "save" => /\ Agree(work.protonBase, work.merged)
                      /\ \A id \in ID : contacts[work.uid][id] \in Card
                                        => contacts[work.uid][id] = work.protonBase
                      /\ quiet = "yes" => HasContact(work.uid)
(***************************************************************************)
(* The inductive invariant behind OneSidedEditsWin.                        *)
(***************************************************************************)
\* A property of u that no user changed since the row was saved is as the row has
\* it: nothing, if there is no row or the side has no card.
UnchangedIsBase(u) ==
    \A p \in Prop :
        /\ <<"P", p>> \notin Unsynced(u) =>
              /\ \A id \in ID : contacts[u][id] \in Card
                                 => contacts[u][id][p] = Bases(u).protonBase[p]
              /\ HasContact(u) \/ Bases(u).protonBase[p] = None
        /\ <<"C", p>> \notin Unsynced(u) =>
              Bases(u).carddavBase[p] = IF objects[u][OwnPath] \in Card
                                        THEN objects[u][OwnPath][p] ELSE None

\* So it is from the run that saved the row until the next run begins to write u.
EditsAreRecorded ==
    /\ \A u \in UID : UnchangedIsBase(u)
                      \/ (pc \in {"update", "refetch", "save"} /\ u = work.uid)
    /\ \A u \in UID, p \in Prop :
          Bases(u).protonBase[p] \in {None, Fold[Bases(u).carddavBase[p]]}

\* What a run indexed is what the sides have, until it visits the contact.
IndexIsCurrent ==
    /\ \A u \in UID : protonIdx[u] # NoCard /\ (pc = "fetch" \/ u \in todo)
                      => contacts[u][protonIdx[u].id] = protonIdx[u].vcard
    /\ pc \in {"idle", "fetch"} => todo = {}
    /\ \A u \in todo : carddavIdx[u] = objects[u][OwnPath]

\* What the run is about to write over the contact in hand is a change that a
\* user of the other side made, and what it saves is what both sides have.
HandKeepsEdits ==
    LET u       == work.uid
        card    == objects[u][OwnPath]
        contact == contacts[u][work.id]
    IN  Handling =>
        /\ u \notin todo
        /\ pc # "put" => card = work.merged
        /\ pc = "put" => /\ contact = work.protonBase
                         /\ work.push \/ Agree(work.protonBase, work.merged)
                         /\ card \in Card => \A p \in Prop :
                               work.merged[p] # card[p] => <<"P", p>> \in Unsynced(u)
        /\ pc = "update" => contact \in Card /\ work.push
        /\ pc \in {"put", "update"} /\ work.push => \A p \in Prop :
              contact[p] # None /\ contact[p] # ProtonStores(work.merged)[p]
                 => <<"C", p>> \in Unsynced(u)
        /\ pc = "refetch" => contact = ProtonStores(work.merged)
        /\ pc = "save" => /\ Agree(work.protonBase, work.merged)
                          /\ HasContact(u)
                          /\ \A id \in ID : contacts[u][id] \in Card
                                             => contacts[u][id] = work.protonBase

==============================================================================
