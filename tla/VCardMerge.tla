----------------------------- MODULE VCardMerge -----------------------------
(***************************************************************************)
(* The card algebra of internal/vcardsync/merge.go: the overlay, the       *)
(* per-property three-way merge, the choice of a conflict's winner, and    *)
(* the two comparisons the syncer bases its writes on.                     *)
(*                                                                         *)
(* A vCard is a total function from property names to the value of the     *)
(* property's field group; None is the value of an absent property.  Two   *)
(* field groups are the same value here exactly when fieldsEqual calls     *)
(* them equal (values and parameters, in any order, groups ignored).       *)
(***************************************************************************)
EXTENDS Naturals

CONSTANTS
    Prop,     \* the mergeable property names (FN, EMAIL, TEL, NOTE, ...)
    Value,    \* the values a field group can have, up to fieldsEqual
    None,     \* "no such property": an empty field group
    V4,       \* the value "4.0" of VERSION
    Time      \* the instant a REV value denotes; 0 if absent or unparseable

Name == Prop \cup {"VERSION", "UID", "REV"}
Card == [Name -> Value \cup {None}]

ASSUME CardAssumption ==
    /\ {"VERSION", "UID", "REV"} \cap Prop = {}
    /\ None \notin Value
    /\ V4 \in Value
    /\ Time \in [Value \cup {None} -> Nat]
    /\ Time[None] = 0

Side   == {"SideProton", "SideCardDAV"}
Policy == {"PolicyPreferNewer", "PolicyPreferProton", "PolicyPreferCardDAV"}

\* The card an empty string decodes to: no base yet.
EmptyCard == [name \in Name |-> None]

\* The property names a card has.
Keys(card) == {name \in Name : card[name] # None}
unionKeys(a, b) == Keys(a) \cup Keys(b)

preservedFromDst == {"VERSION", "UID"}

Overlay(dst, src) ==
    [name \in Name |->
        IF name \in Keys(src) \ preservedFromDst THEN src[name] ELSE dst[name]]

RevTime(card) == Time[card["REV"]]

NewerSide(proton, carddav) ==
    IF RevTime(carddav) > RevTime(proton) THEN "SideCardDAV" ELSE "SideProton"

\* An identity property: the primary card's value, or else the fallback's.
setIdentity(name, primary, fallback) ==
    IF primary[name] # None THEN primary[name] ELSE fallback[name]

\* Mutants of MergeProp: a property unchanged on both sides is taken from Proton
\* only; the changed side is preferred the wrong way round.
MergePropProtonKept(pb, cb, pr, cd, winner) ==
    CASE pb = pr /\ cb = cd -> pr
      [] pb # pr /\ cb = cd -> pr
      [] pb = pr /\ cb # cd -> cd
      [] OTHER -> IF pr = cd \/ winner = "SideProton" THEN pr ELSE cd
MergePropSwapped(pb, cb, pr, cd, winner) ==
    CASE pb = pr /\ cb = cd -> IF cd # None THEN cd ELSE pr
      [] pb # pr /\ cb = cd -> cd
      [] pb = pr /\ cb # cd -> pr
      [] OTHER -> IF pr = cd \/ winner = "SideProton" THEN pr ELSE cd

\* One property of the merge: pb, cb are the sides' bases, pr, cd their
\* current values.
MergeProp(pb, cb, pr, cd, winner) ==
    CASE pb = pr /\ cb = cd -> IF cd # None THEN cd ELSE pr
      [] pb # pr /\ cb = cd -> pr
      [] pb = pr /\ cb # cd -> cd
      [] OTHER -> IF pr = cd \/ winner = "SideProton" THEN pr ELSE cd

\* Mutant of MergedRev: Proton's REV, whichever side is newer.
MergedRevProton(proton, carddav) == setIdentity("REV", proton, carddav)

\* REV of the merge: the newer side's value, Proton's on a tie.
MergedRev(proton, carddav) ==
    IF RevTime(carddav) > RevTime(proton)
    THEN setIdentity("REV", carddav, proton)
    ELSE setIdentity("REV", proton, carddav)

MergedVersion(proton, carddav) ==
    LET version == setIdentity("VERSION", carddav, proton)
    IN  IF version # None THEN version ELSE V4

ThreeWay(protonBase, carddavBase, proton, carddav, conflictWinner) ==
    [name \in Name |->
        CASE name = "UID"     -> setIdentity("UID", carddav, proton)
          [] name = "VERSION" -> MergedVersion(proton, carddav)
          [] name = "REV"     -> MergedRev(proton, carddav)
          [] OTHER -> MergeProp(protonBase[name], carddavBase[name],
                                proton[name], carddav[name], conflictWinner)]

Winner(policy, proton, carddav) ==
    CASE policy = "PolicyPreferProton"  -> "SideProton"
      [] policy = "PolicyPreferCardDAV" -> "SideCardDAV"
      [] OTHER -> NewerSide(proton, carddav)

\* Mutant of ThreeWayString: both sides are compared with one common base.
ThreeWayOneBase(protonBase, carddavBase, proton, carddav, policy) ==
    ThreeWay(carddavBase, carddavBase, proton, carddav,
             Winner(policy, proton, carddav))

ThreeWayString(protonBase, carddavBase, proton, carddav, policy) ==
    ThreeWay(protonBase, carddavBase, proton, carddav,
             Winner(policy, proton, carddav))

EqualString(a, b) == \A name \in unionKeys(a, b) : a[name] = b[name]

\* Mutants of ProtonRelevantDiff: VERSION counts; the base is taken for Proton's
\* current card.
ProtonDiffWithVersion(merged, protonCurrent, protonBase) ==
    \E name \in unionKeys(protonCurrent, protonBase) :
        merged[name] # protonCurrent[name]
ProtonDiffFromBase(merged, protonCurrent, protonBase) ==
    \E name \in unionKeys(protonCurrent, protonBase) \ {"VERSION"} :
        merged[name] # protonBase[name]

\* A write to Proton is warranted: merged differs from what Proton has in a
\* property that Proton has, or had at the last sync.
ProtonRelevantDiff(merged, protonCurrent, protonBase) ==
    \E name \in unionKeys(protonCurrent, protonBase) \ {"VERSION"} :
        merged[name] # protonCurrent[name]
=============================================================================
