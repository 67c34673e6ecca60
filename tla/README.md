# A verification of proton-carddav-sync in TLA+

TLA+ models of the synchroniser of this repository, the TLC runs that check them
on small instances, and theorems about them that TLAPS proves for every value of
the constants. `PROJECT.json` lists the components, the runs, the source lines
each definition stands for, the mutants that show that each property can fail,
the hazards and the theorems. Every definition is read off the Go code; line
numbers are those of the commit checked.

## 1. The system

`proton-carddav-sync` keeps the contacts of a Proton account and one CardDAV
address book alike. It is a command-line program: `init` logs in and stores a
session, `sync` makes one run, `run` is a daemon that makes one run per interval,
`resync` forces single contacts. All but `init` pass through `withSyncer`
(`internal/cli/sync.go`).

| Component | State | Operations | Talks to | What makes it correct |
|---|---|---|---|---|
| Bidirectional reconcile (`syncer.go:250-394`) | the run's two indexes; the per-side bases in the local database | index both sides, merge a contact, copy a new one, defer, save the bases | both clients, contact store, merge | one-sided edits win; CardDAV-only properties survive; no contact is duplicated or brought back; the runs converge and stop writing |
| vCard merge (`vcardsync/merge.go`) | none | `ThreeWay`, `Overlay`, `EqualString`, `ProtonRelevantDiff` | - | a retry decides alike; a saved merge is settled |
| One-way directions (`syncer.go:87-233`) | hashes in the contact store | mirror Proton on CardDAV; push CardDAV to Proton | both clients, contact store | CardDAV-only properties survive; what was deleted stays deleted, but for the mirror; the mirror converges; a change arrives |
| Forced resync (`syncer.go:405-525`) | an index of its own | create on the missing side, push again | both clients, contact store | the contact gets to both sides; a daemon's runs beside it still converge |
| Proton contacts client (`protonmail/contacts.go`) | - | list, get, create, update; builds the signed and the encrypted card | Proton | every e-mail is alone in its group; no label is lost; what it wrote reads back as the same contact |
| CardDAV client (`carddav/client.go`) | the address book's path | query, unconditional PUT at `<uid>.vcf` | server | one object per contact |
| Contact store (`db/contact_store.go`) | table `contacts` | get, upsert, list, delete | SQLite | a row means that both sides had these cards |
| Stored session (`db/db.go`, `protonmail/client.go`, `crypto_shim.go`) | table `credentials` (one row); UID and tokens in memory | login, save, load, resume, refresh, persist | Proton, SQLite | the stored token is one that Proton accepts; the row decrypts |
| Request pacing (`protonmail/client.go:15-92`) | the next free slot | reserve, wait, send | every Proton call | the request rate |
| Daemon (`cli/run.go`) | ticker, signal channel, context | first run, run on each tick, stop on a signal | `withSyncer` | no failed run ends it; a signal does; runs go on |
| Migration (`db/db.go:64-139`) | the schema | add missing columns | SQLite | whoever uses the database finds every column, with several processes opening it |
| Setup, configuration, encryption, logging | files, environment | prompts, load, save, validate | - | sequential |

**Where it is hard.** A run makes hundreds of slow, rate-limited calls on indexes
that grow old while users edit; it writes to three stores with no transaction
over them, so a failure or a kill between two writes is the normal way for the
next run to start; the merge depends on bases that such a run did not save.
The refresh token is used up by each use, by whichever process comes first; `init` replaces the session without
asking who uses it.
The pages of the contact list are fetched by several goroutines, so that the
limiter and mid-run refreshes really are concurrent (refreshes are serialised by
the Proton client's `authLock`, which also covers the handler that stores the
token: a run stores its tokens in the order it got them).

## 2. The modules

| Module | What it models |
|---|---|
| `VCardMerge` | The card algebra of `merge.go`, as operators. A card is a total function from property names to a value; a value is a field group up to `fieldsEqual`; `None` is an absent property. |
| `MergeLaws` | The merge applied again and again, as runs that are cut short apply it, and the laws its users rely on. |
| `Reconcile` | The bidirectional runs: CardDAV, Proton and the `contacts` table as shared state; the run's indexes and contact in hand as local state; one action per remote call or database write; users as the environment. |
| `TokenLease` | The abstract promise about the stored refresh token: it is stored, or held by exactly one process, or lost; and it is lost only while `mayLose` is true, which it may cease to be. |
| `Session` | The credentials row, the copies of a token in the processes and Proton's view of them; `init` is one of the processes and is run at any time. Refines `TokenLease`. |
| `Daemon` | Extends `Session` by what is around its runs: opening and migrating the database, the daemon's loop with its ticker, signals and shutdown. |
| `OneWay` | Extends `Reconcile` by the two one-way directions, the hashes, and changes of the configured direction between runs. |
| `Resync` | Extends `Reconcile` by the resync command as a second process, which may take a step between any two of a run. |
| `ContactCards` | The loop of `buildContactCards` over the e-mails, and a second pass over what it made. |
| `RateLimiter` | `rateLimiter.wait` and `RoundTrip` with a discrete clock. |
| `MC*` | The instances that TLC checks; `MCParts` holds those of `MergeLaws`, `ContactCards` and `RateLimiter`, which share no state, side by side, one per behaviour. |
| `*_proofs` | Theorems and their proofs: `VCardMerge_proofs` and `MergeLaws_proofs` (with those of `ContactCards`), `Reconcile_proofs`, `Edits_proofs` (one-sided edits), `OneWay_proofs`, `Resync_proofs`, `Daemon_proofs` (with those of `Session`), `RateLimiter_proofs`. |

How state corresponds to code:

- `objects[uid][path]`, `contacts[uid][id]`, `rows[uid]` are the address book, the
  account and the table. Proton IDs are not reused. A Proton contact's card is
  what a write made of it: `ProtonStores` is `buildContactCards` followed by the
  read, which drops the labels it folded and normalises some values (`Fold`). In
  all instances `Fold` is `FoldEmail`: an e-mail of type INTERNET comes back without
  it, and one with a label comes back with the label as its type.
- `pc` names the call the run makes next. `StartRun` lists the contacts,
  `FetchCard`/`SkipCard` are one `GetContactVCard` each, `IndexCardDAV` is the one
  query, `MergeBoth` ... `Defer` are the cases of the switch in `reconcile`, `Put`,
  `Update`, `Create`, `Refetch` and `Save` the calls, and each has a failing twin.
  A fault named `...Lost` takes effect although the caller sees an error.
- The visiting order is any order (Go's map iteration). With two objects of one
  UID, the index keeps any of them (the server's order is not specified).
- `edited`, `edits`, `faults` and `quiet` are history variables: what users
  changed since the row was last saved, the bounds, and whether a whole
  undisturbed run has gone by.
- In `Session`, `row` holds whose session and whose key its fields belong to; a
  token is `current` or `used`; `pc[p]` is where a process is. `row.key` differs
  from `row.sess` exactly when `LoadDecryptedCredentials` would fail.
- In `Daemon`, `at[p]` is the column `ensureColumn` is at, `missing[p]` what its
  PRAGMA found before the ALTER TABLE; `loop`, `tick` and `ctx` are the daemon's
  position, the ticker's one-place channel and its context. A command is a process
  without a ticker. Under a cancelled context every call fails (`CancelledStep`).
- In `OneWay`, `owpc` names the call a one-way run makes next; its locals are kept
  in `Reconcile`'s variables, as only one of the two kinds of run is in progress.
  `hashes` holds the card that `vcard_hash` was taken of. `Shuffled` are values
  with several parameters: their text, and so their hash, differs between two
  encodings of one card.
- In `Resync`, `fpc` and the `f...` variables are the locals of `ForceContacts`; the
  lists are the ones that its two indexes hold, and grow stale as the daemon's do.
- In `ContactCards`, a natural number n is the group `item<n>`; `assigned`,
  `consumed` and `counter` are the code's variables; `kept` is what is left of the
  labels. `Rebuild` starts the second pass with what the first made.
- In `RateLimiter`, `next`, `start` are the limiter's and the caller's variables;
  `slot` and `sent` number the reservations.

Definitions named "Mutant of ..." are plausible bugs of the definition below them;
`PROJECT.json` says which property catches each. They take no part in any run.

### What is abstracted, and why it is sound here

- vCard text: parsing and encoding are the identity up to `fieldsEqual`, which is
  how the code compares cards. Cards that do not parse are skipped by the code and
  left out here.
- Every card has an FN: the rule that gives a contact without one a fixed FN
  (`contacts.go:201-204`) is left out, so nothing is shown of such cards.
- Every card has a UID. Without one `extractUID` takes Proton's contact ID on one
  side and the object's path on the other (`syncer.go:565, 597-607`), and the two
  cards are two contacts to the runs.
- `Fold` acts value by value. That a label and its e-mail's type go together is in
  the choice of the cards that users give contacts (`UserCard`): the e-mail
  `labelled` has the label `a`, the others have none. Labels of other properties,
  which Proton keeps, are left out; so are signing and encryption.
- In `ContactCards` a group has one label. Of several, `abLabelsByGroup` keeps the
  last and `removeABLabels` drops them all; `LabelsFollowEmails` does not say so.
- In `MergeLaws`, `UpdateMerged` makes the merge Proton's card as it is. What Proton
  drops or changes on a write is in `Reconcile`; here the two sides may start from
  any two cards, so every pair that a write could leave is met.
- Proton keeps or normalises a property but does not turn a present one into an
  absent one, unless it is in `Dropped`; normalising twice is normalising once
  (`ReconcileAssumption`).
- Reading a row of SQLite is part of the step that uses it, as the next statement
  of the code does. A failing read ends a run as `Stop` does.
- In `OneWay` each UID has one object, at `<uid>.vcf`: the run `path` shows what
  happens otherwise. A list answered by a server is complete.
- A signal is counted with the faults (it fails the calls it interrupts), and a
  process that gets a second one is not told apart from one that got one.
- A call that fails leaves nothing half-written.
- Whether Proton refuses a second contact with the same UID cannot be read off
  this code: `RejectDuplicateUID` is a constant, and both values are used.

## 3. What the runs check

| Run | Instance | Shows |
|---|---|---|
| `parts` | merge: one property, two values and absent; REVs absent, unparseable, older, newer; all policies. Cards: up to three e-mails over the groups none, item1, item2 and a named one, with the type INTERNET or another, beside other properties in any of three groups and labels in any of two. Limiter: 3 goroutines, 5 slots of 2 ticks. 325 181 states together | `RetryDecidesAlike`, `SavedStateStands`, `FirstMergeIsOverlay`, `EmailGroupsUnique`, `LabelsFollowEmails`, `RebuildIsStable`, `RateBound`, `SlotsApart` |
| `values` | one contact, e-mails that Proton keeps or normalises and a label that it drops, prefer-newer, 3 edits, 1 fault before a write; 191 110 states | `CardDAVOnlyKept`, `OneSidedEditsWin`, `QuietAgreement`, `QuietRunsChangeNothing` |
| `retries` | one contact, 3 faults of any kind but a failed fetch, Proton accepts duplicates, 2 edits; 10 615 states | `NoDuplicateContact`, `NoResurrection` |
| `faults` | two contacts, cap 1, an edit at any point of a run, any fault; 544 092 states | `TypeOK`, `QuietAgreement`, `QuietRunsChangeNothing`, `EventuallyQuiet`, `EveryContactCopied` |
| `resync` | a resync at any point beside the daemon's runs, one fault of any kind in either, one edit, lists with and without UIDs; 167 661 states | `QuietAgreement`, `QuietRunsChangeNothing`, `ForcedIsOnBothSides` |
| `oneway` | two contacts, cap 1, the direction changed at will between runs, one fault in a run (of any call but update and refetch, or a kill), one edit, a shuffled value; 214 015 states | `QuietAgreement`, `CardDAVOnlySurvives`, `DeletionsStand`, `MirrorConverges` |
| `daemon` | two daemons (one without an interval) and a command, two sessions, an old schema or a new one, one fault, kill or signal at any point, init at any time; 210 125 states | `SchemaWhole`, `UnfaultedTokenIsCurrent`, `LeaseIsKept`, `DaemonOutlivesErrors`, `SignalStops`, `RunsGoOn` |

Five runs end in a counterexample; each checks the property in parentheses and
refutes a sentence of the repository:

- `refetch` (`CardDAVOnlyKept`): a refetch fails after a create, the card sent
  becomes Proton's base, and the next run deletes from CardDAV what Proton dropped
  (`syncer.go:327-332` against `src/README.md:103-106`).
- `path` (`OneSidedEditsWin`): an object that another client stored under another
  name gets a second object of the same UID, and the stale one passes for an edit
  (`carddav/client.go:125`, `syncer.go:592` against `src/README.md:96-97`).
- `oneway_update` (`ChangedCardArrives`): in the direction CardDAV to Proton a
  changed card is sent under the vCard UID where the API wants Proton's ID; it never
  arrives, and the run ends (`syncer.go:213` against `src/README.md:112-113`).
- `churn` (`QuietMeansNoWrites`): an e-mail whose type Proton's cards cannot say
  (INTERNET, or a label, which becomes a type there) never reads back as it was
  written, and every run writes its contact to Proton again (`syncer.go:374`,
  `contacts.go:223-228` against `syncer.go:370-372` and `src/README.md:127`). The
  write changes nothing: `QuietRunsChangeNothing` is what holds.
- `mirror_restores` (`NeverResurrected`): a run of the direction Proton to CardDAV
  puts back a contact that was deleted from CardDAV (`syncer.go:134` against
  `src/README.md:117-119` and 126-127). `DeletionsStand` is what holds: no run of
  any direction brings one back to Proton, and no bidirectional run one to CardDAV.

Five more behaviours were met while modelling. The models of the passing runs
contain all five, and their properties say what holds beside them:

- The context ends between a rotation of the token and its UPDATE
  (`cli/sync.go:79`), and the stored token is used up, against the comment at 70-72.
  `LeaseIsKept` allows this after such a fault only, and until the next `init`;
  `UnfaultedTokenIsCurrent` says that without one it never happens.
- A run that goes on while `init` replaces the row stores its next token in the new
  row, under the key of the row before, and `RowDecrypts` is false (`db.go:165`,
  against the comment at 28-30). `LeaseIsKept` and `RunsGoOn` show that this is all
  that comes of it, until the next `init`, which writes the whole row.
- A resync that indexed a card before an edit undoes the edit after a daemon's run
  has copied it, as its stale push passes for an edit made on Proton
  (`syncer.go:509`, against `src/README.md:96-97`): `OneSidedEditsWin` is false
  beside a resync. `QuietAgreement` shows that the sides agree in the end, on the
  older card.
- A daemon with an interval of zero or less makes one run and panics
  (`cli/run.go:62`, against the command's description at 20-21).
  `DaemonOutlivesErrors` is claimed of the others.
- A contact that is deleted on Proton between a resync's put and its `saveBases` has
  no row, and is created again by the daemon. No sentence of the repository is
  against it.

### Bounds and why they are enough

The merge treats properties independently but for the winner, so one property of
each kind, kept or dropped, covers it. `FoldEmail` has a value of each kind: two
that Proton normalises (`internet`, `labelled`), what they become, and one that it
keeps (`home`). Two values and absence distinguish unchanged, changed, changed
differently and deleted; two REVs distinguish older, newer and tie. Contacts
interact only through the cap, so two contacts with a cap of one show deferral.
Three Proton IDs are as many contacts as the edits and faults of the instances can
create for one UID. `MaxEdit` and `MaxFault` bound the disturbances, never the runs:
TLC explores runs without end. Three processes let one hold the token, one try and
one be init. In `daemon` a single fault is enough for each of the failures, as no
property needs two, and two columns show one process behind the other in a
migration. In `oneway` and `resync` one edit or deletion, made at any time between
runs, meets rows that have bases, have none or do not exist, since the contacts may
start on either side, on both or differently; two Proton IDs are then all that one
UID can come by. The second contact of `oneway` is only there to meet the cap, and
starts on CardDAV. Five slots on three goroutines let a goroutine reserve again
while others wait.

`CHECK_DEADLOCK FALSE` is set for `parts`: a saved merge and a card that is built
have nothing left to do, and the limiter's slots are bounded.

### Fairness

`Reconcile!FairSpec` is `WF_vars(Run)`: the daemon's ticker starts run after run,
and a run goes on until it returns (`run.go:65-81`). Users owe nothing, and which
contact is visited is never fair, as Go's map order is not. `OneWay` has the same
fairness for runs of any direction; `MirrorConverges` has the condition that the
direction stays. In `Resync` the daemon and the command are two processes with a
weak fairness each. `DaemonSpec` is weakly fair to each process's own steps, to
time, to the ticker and to the signal goroutine, and strongly fair to leaving the
loop: where a tick is due as well, Go's `select` picks at random, so that it cannot
pass the cancelled context over for ever. Logins, mid-run refreshes, the starting
of processes and user edits need never happen. No fault is fair; faults are bounded.

### What the passing runs assume

- `OneSidedEditsWin` is checked with edits between runs and faults that come before
  a run's first write. With a failed `UpdateContact` after a `PutContact`, a kill
  or a failed save after a write, or an edit during a run, it does not hold: the
  old bases make the next one-sided edit look like a conflict, and the policy may
  decide against it. `RetryDecidesAlike` is what does hold there, and
  `QuietAgreement` in the run `faults` shows that the sides still end up alike.
- `NoResurrection` is for edits between runs: a contact deleted after it was
  indexed may be written back by that run, which has no way to know.
- `NoDuplicateContact` is for runs that could fetch every card they indexed
  (`syncer.go:561-564` skips the others).
- `resync` and `oneway` take Proton to refuse a second contact with the UID
  (`RejectDuplicateUID`): where it does not, two writers that both miss a contact
  both create it, as the hazards say. `OneSidedEditsWin` and `NoResurrection` are
  not claimed beside a resync, for the third and the fifth of the behaviours above.
- `DeletionsStand` leaves out CardDAV in the direction Proton to CardDAV: see
  `mirror_restores`.
- `Session` takes refresh tokens to be usable once, as `db.go:161-163` says. The
  lease counts as lost while the row is under two keys.
- `RateBound` counts from when the limiter was made: that no burst is credited after
  an idle time is not in it, nor in `SlotsApart`.
- `UnfaultedTokenIsCurrent` is claimed as long as no fault has happened that may
  lose an issued token (`Disturbed`); `RunsGoOn` lets a lost session, and a row that
  no longer decrypts, be an end.

## 4. What is proved

| Theorem | Says | Assumes |
|---|---|---|
| `MergeLaws_proofs!RetryTheorem`, `SavedTheorem`, `OverlayTheorem` | the three laws, for all properties, values, cards and policies | - |
| `MergeLaws_proofs!BuildTypeTheorem`, `GroupsTheorem`, `LabelsTheorem`, `StableTheorem` | types; `EmailGroupsUnique`; `LabelsFollowEmails`; `RebuildIsStable`, for cards of any length | - |
| `Reconcile_proofs!TypeTheorem` | `Spec => []TypeOK` | - |
| `Reconcile_proofs!CardDAVOnlyTheorem` | `Spec => []CardDAVOnlyKept` | no refetch fails, no edit between a write and its refetch |
| `Reconcile_proofs!NoResurrectionTheorem` | `Spec => NoResurrection` | users edit between runs |
| `Reconcile_proofs!NoDuplicateTheorem` | `Spec => []NoDuplicateContact` | `NoneIsMissed`: Proton refuses a second contact with the UID, or no fetch of a card fails and users edit between runs |
| `Reconcile_proofs!QuietTheorem` | `Spec => []QuietAgreement` | `NoneIsMissed`; `PlainClients`: clients write to `<uid>.vcf`, cards with a VERSION and a REV that Proton leaves alone |
| `Reconcile_proofs!NoChurnTheorem` | `Spec => QuietRunsChangeNothing` | the same |
| `Edits_proofs!OneSidedTheorem` | `Spec => OneSidedEditsWin` | `NoneIsMissed`, `PlainClients`; `WholeWrites`: users edit between runs, and what fails or stops a run does so before its first write of a contact or after its row is saved |
| `OneWay_proofs!OneWayQuietTheorem` | `OneWaySpec => []QuietAgreement` | Proton refuses a second contact with the UID; `PlainClients` |
| `OneWay_proofs!SurvivesTheorem` | `OneWaySpec => CardDAVOnlySurvives` | no refetch fails; users edit between runs |
| `OneWay_proofs!DeletionsStandTheorem` | `OneWaySpec => DeletionsStand` | users edit between runs |
| `Resync_proofs!ResyncQuietTheorem` | `ResyncSpec => []QuietAgreement` | Proton refuses a second contact with the UID; `PlainClients` |
| `Resync_proofs!ResyncNoChurnTheorem` | `ResyncSpec => QuietRunsChangeNothing` | the same |
| `Daemon_proofs!TypeTheorem` | `Spec => []TypeOK` | - |
| `Daemon_proofs!UnfaultedTheorem` | `Spec => []UnfaultedTokenIsCurrent` | - |
| `Daemon_proofs!TokenTheorem` | `Spec => []StoredTokenIsCurrent` | the model has no fault that loses an issued token |
| `Daemon_proofs!LeaseTheorem` | `Session` implements `TokenLease` | - |
| `Daemon_proofs!SchemaTheorem` | `DaemonSpec => []SchemaWhole` | - |
| `Daemon_proofs!OutlivesTheorem` | `DaemonSpec => DaemonOutlivesErrors` | - |
| `Daemon_proofs!DaemonUnfaultedTheorem` | `DaemonSpec => []UnfaultedTokenIsCurrent` | the model has a losing fault |
| `Daemon_proofs!DaemonLeaseTheorem` | `Daemon` implements `TokenLease` | the same |
| `RateLimiter_proofs!TypeTheorem`, `SlotsTheorem`, `RateTheorem` | the limiter's types, slot spacing and rate | - |

All of them are for any number of contacts, e-mails, properties, values, processes,
goroutines, faults and edits, from the ASSUMEs of the modules, which TLC evaluates
in every run.

The type invariants and every inductive invariant were checked with TLC on the instances above before they were proved.

The arguments:

- *Merge.* `MergeRepeats`: a property decided once is decided alike when CardDAV's
  card is replaced by the merge, whatever case of the switch it fell in;
  `WinnerRepeats`: so is the winner, as the merge's REV is the newer of the two.
- *E-mail groups.* `GroupsInv` adds to the property that every group given out is
  recorded in `assigned`. That the loop finds a free group is part of the action:
  among so many candidates as groups are taken, and one more, one is free.
  `LabelsInv` ties the types and `consumed` to the e-mails done so far. For the
  second pass, `StableInv` says that the e-mails come with groups of their own and
  that no label is left in one of them, so that `KeepGroup` is all that happens;
  its first instant, `Rebuild`, follows from the other two invariants.
  `RebuildIsStable` is what `Reconcile` takes for granted of `Fold`: normalising
  twice is normalising once.
- *CardDAV-only properties.* `CardDAVOnlyKept` is not inductive: it needs to know
  what bases earlier runs saved. `ProtonCardsAreStored` says that every card that
  the run or a row has as Proton's lacks the dropped properties: those of the
  account, of the index, of the rows and of the contact in hand. With it, the
  merge of such a property can only be CardDAV's (`MergeKeepsCardDAVOnly`). A
  failed refetch breaks exactly this invariant: the run `refetch` shows how.
- *No resurrection.* `CreatesAreNew`: what a run indexed on CardDAV is still
  there, and a contact that it is about to create has no row; `ContactInHand`
  names the contact between its calls.
- *No duplicates.* `OneContact`: where Proton does not refuse a second contact, a
  contact that is there is still to be fetched or is in the index, until its UID
  has been visited, so none is there when a run creates one.
- *Agreement.* No invariant about the history is needed, whatever runs were cut
  short before: a run with no edit and no fault in it settles a contact from any
  state. `Settled(u)`: the row holds the two cards and they `Agree` (Proton has what
  a write of CardDAV's card leaves, or nothing that CardDAV has not), or one side
  has none and there is a row. `RunSettles`: in an undisturbed run the indexes are
  what the sides have, for what is still to be visited, and what was visited is
  settled; `HandSettles` says how far the contact in hand is, call by call. That a
  settled contact stays so is `SettledMerge`: with two cards that agree as bases the
  merge is CardDAV's card; and `SettledPush`: a write to Proton that such a merge
  still asks for changes nothing there. `QuietRun` goes through a run's calls with
  both, and adds that only a merge with a value that Proton normalises
  (`Normalised`) is written at all, as any other is what Proton has already.
  `CardsAreStable` gives both what they need of VERSION and REV; the run `path`
  shows what happens without `PlainClients`.
- *One-sided edits.* What a run writes is decided from the bases, so the property is
  about them: `EditsAreRecorded` says that what no user changed since the row was
  saved is as the row has it, on either side, and that Proton's base is absent or
  what Proton stores of CardDAV's. `IndexIsCurrent` says that the indexes are
  current for what the run has still to visit. From the two, `MergeKeepsEdits`
  gives `HandKeepsEdits`: each change the contact in hand is about to write over a
  card was made by a user of the other side; and each call keeps this until the
  row is saved and nothing is unsynced. Between the first write and the row,
  `EditsAreRecorded` excepts the contact in hand. A run that ended there would
  leave the exception behind, which is why `WholeWrites` is assumed; without it
  the property fails (see above).
- *Directions.* A one-way run takes place while no bidirectional run is in progress
  and counts as a disturbance (`OneWayDisturbs`), so `RunSettles` and `HandSettles`
  carry over, while `OneContact` and `CardsAreStable` are shown to hold through its
  two kinds of write: a put of an overlay (`OverlayStable`), and a create that
  Proton would refuse. That rows without bases are harmless needs nothing more:
  a run settles a contact from any row. For `CardDAVOnlySurvives`,
  `DroppedIsIndexed` says that every object has the dropped properties that the
  run's index has of it, all through a one-way run, as that may put the same object
  twice. For `DeletionsStand`, `OneWayCreatesAreNew` extends `CreatesAreNew` to
  the one-way direction to Proton, which looks the row up before it creates.
- *Resync.* Every write of the command counts as a disturbance of the run beside it
  (`ForceWrites`), so the agreement needs only that its writes leave the stores in
  states a run can settle: one contact per UID (`ForceOne`) and cards as the two
  sides have them (`ForceCards`). `ForceStable` gives the second, for what the
  command read from either side, however long ago.
- *The lease.* With `init` run at any time, processes of several sessions are at work
  at once, and the row may hold fields of two. `SessionsKnown`: what is in use is of
  a session that Proton has seen, and a login not yet saved is of one that nobody
  else has. `OneCopy`: of each session there is one copy that Proton accepts, from a
  process's rotation until it has stored it. `NeverLost`: where the row's token is
  used, somebody is about to store the one that the row is for, unless a losing
  fault has happened (`Disturbed`); from these follow both token theorems. That the
  row decrypts is no part of it: an update by a run of the session before breaks it
  (see above), and `Lease` counts such a row as lost. Each action then takes the
  token, puts it back, loses it where that is allowed, is a login, or is no step:
  `RotateMoves` and `EndMoves` for those that several processes' copies are compared
  in, `ToStored`, `ToLost`, `HolderIsLease` and `LeaseSame` for what is left.
- *The daemon.* `SessionStep`: a step of `Daemon` is a step of `Session`, or a fault
  that only counts, or a resume or an update that a cancelled context fails; so
  the invariants of `Session` carry over, action by action, and every fault that a
  signal causes is counted (`SchemaInv`: a context that is not live means that
  `faults > 0`). That is why the last two theorems are for models in which a losing
  fault is possible at all: a signal is one, as it can fail the UPDATE of the row.
- *The schema.* `SchemaInv`: every column that a process is past is there, whoever
  added it, and a process at work is past them all. Columns are only ever added.
- *The rate.* `SlotsInOrder`: slot k starts no earlier than k intervals after the
  limiter was made, so by now at most 1 + now / interval numbers can have been
  sent. Late timers bunch requests, but cannot add to them.

**Model-checked only.** Liveness (`EventuallyQuiet`, `EveryContactCopied`,
`MirrorConverges`, `ForcedIsOnBothSides`, `SignalStops`, `RunsGoOn`) is beyond the
prover. Every safety property of the passing runs is proved, each under the
assumptions of the table; the instances of the runs satisfy them. Where an
assumption excludes something the code can meet (a failed refetch, an object of
another name, a run that ends between a write and its row), the runs that end in a
counterexample, or the paragraphs above, say what happens then.

## 5. What is not modelled, and why

- Prompts, the configuration file, `idle`, and logging: sequential I/O that no other
  part reads concurrently. `validate` does not look at the interval, which is why
  `Daemon` has daemons without one.
- Key derivation, AES-GCM, PGP signing and encryption: library calls; which key a
  field has is modelled, what a key does is not.
- Discovery of the address book: asked once per run, before it starts.
- The `DeleteContact` functions and the store's `ListContacts`: no caller.
- Vendored code: modelled from its use. What this program relies on is that a
  refresh and the handler that stores its token are under one lock.
- Cards that do not parse: each loop skips them with a warning.

Worth adding: two resyncs at once; a resync on an account that accepts duplicate
UIDs; what becomes of a one-sided edit after a run that was killed between a write
and its row, which `OneSidedEditsWin` does not claim.

## 6. Running it

    tlc -config MCReconcile_faults.cfg MCReconcile.tla
    tlc -config MCResync.cfg MCResync.tla
    tlapm Reconcile_proofs.tla
    tlapm Edits_proofs.tla
    tlapm OneWay_proofs.tla

`PROJECT.json` lists the other runs; the eight `*_proofs` modules are checked alike.
`Reconcile_proofs` takes longest; the three modules that extend it take its
theorems as facts and check their own only.
