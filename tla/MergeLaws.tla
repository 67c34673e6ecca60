------------------------------ MODULE MergeLaws ------------------------------
(***************************************************************************)
(* The laws of the card algebra that the syncer's retries rely on, over    *)
(* every combination of bases, current cards and policy, and over what a   *)
(* run that is cut short makes of them: the merge written to CardDAV only, *)
(* written to Proton too, or its bases saved.                              *)
(***************************************************************************)
EXTENDS VCardMerge

CONSTANT InitCard    \* the cards the laws start from

ASSUME InitCardAssumption == InitCard \subseteq Card

VARIABLES protonBase, carddavBase, proton, carddav, policy

vars == <<protonBase, carddavBase, proton, carddav, policy>>

TypeOK ==
    /\ protonBase \in Card /\ carddavBase \in Card
    /\ proton \in Card /\ carddav \in Card
    /\ policy \in Policy

Merged == ThreeWayString(protonBase, carddavBase, proton, carddav, policy)

Init ==
    /\ protonBase \in InitCard \cup {EmptyCard}
    /\ carddavBase \in InitCard \cup {EmptyCard}
    /\ proton \in InitCard /\ carddav \in InitCard
    /\ policy \in Policy

PutMerged ==
    /\ carddav' = Merged
    /\ UNCHANGED <<protonBase, carddavBase, proton, policy>>

\* Proton takes the merge as it is; what it drops or normalises is in Reconcile, and
\* here every pair of cards is where the two sides start.
UpdateMerged ==
    /\ EqualString(Merged, carddav)
    /\ ProtonRelevantDiff(Merged, proton, protonBase)
    /\ proton' = Merged
    /\ UNCHANGED <<protonBase, carddavBase, carddav, policy>>

SaveBases ==
    /\ EqualString(Merged, carddav)
    /\ ~ProtonRelevantDiff(Merged, proton, protonBase)
    /\ protonBase' = proton /\ carddavBase' = carddav
    /\ UNCHANGED <<proton, carddav, policy>>

Next == PutMerged \/ UpdateMerged \/ SaveBases

Spec == Init /\ [][Next]_vars
-----------------------------------------------------------------------------
\* A run that wrote the merge to CardDAV and then failed is repeated on the
\* old bases: it decides every property as the first attempt did, also under
\* prefer-newer, whose REVs the first attempt rewrote (ThreeWay, NewerSide).
RetryDecidesAlike ==
    ThreeWayString(protonBase, carddavBase, proton, Merged, policy) = Merged

\* When a merge and its write-backs are done and the bases saved, Proton lacking
\* only properties that it also lacks in its base, the next merge asks for no
\* write on either side.
SavedStateStands ==
    LET next == ThreeWayString(proton, carddav, proton, carddav, policy)
    IN  (/\ EqualString(Merged, carddav)
         /\ ~ProtonRelevantDiff(Merged, proton, protonBase))
        => /\ EqualString(next, carddav)
           /\ ~ProtonRelevantDiff(next, proton, proton)

\* The two strategies agree where they overlap: merging with no bases under
\* prefer-proton is the overlay of Proton's card on CardDAV's, REV apart.
FirstMergeIsOverlay ==
    \A name \in Name \ {"REV", "VERSION", "UID"} :
        ThreeWayString(EmptyCard, EmptyCard, proton, carddav, "PolicyPreferProton")[name]
            = Overlay(carddav, proton)[name]
=============================================================================
