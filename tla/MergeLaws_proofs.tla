--------------------------- MODULE MergeLaws_proofs ---------------------------
(***************************************************************************)
(* The laws of MergeLaws, for every set of properties and values; and      *)
(* theorems about ContactCards, whose cards a merge is given back, for     *)
(* every card: any number of EMAILs, groups and labels.                    *)
(***************************************************************************)
EXTENDS MergeLaws, ContactCards, VCardMerge_proofs

\* The five variables keep their types.
LEMMA TypeCorrect == Spec => []TypeOK
<1>1. Init => TypeOK
    BY InitCardAssumption, EmptyCardType DEF Init, TypeOK
<1>2. TypeOK /\ [Next]_vars => TypeOK'
  <2> SUFFICES ASSUME TypeOK, [Next]_vars PROVE TypeOK'
      OBVIOUS
  <2>1. Merged \in Card
      BY MergeType DEF TypeOK, Merged
  <2> QED BY <2>1 DEF TypeOK, Next, PutMerged, UpdateMerged, SaveBases, vars
<1> QED BY <1>1, <1>2, PTL DEF Spec
-----------------------------------------------------------------------------
\* RetryDecidesAlike holds in every reachable state: repeating a merge after a
\* run that wrote CardDAV and failed decides every property as before.
THEOREM RetryTheorem == Spec => []RetryDecidesAlike
<1>1. TypeOK => RetryDecidesAlike
    BY MergeRepeats DEF TypeOK, RetryDecidesAlike, Merged
<1> QED BY <1>1, TypeCorrect, PTL

\* SavedStateStands holds in every reachable state: once the write-backs are
\* done and the bases saved, the next run finds nothing to write.
THEOREM SavedTheorem == Spec => []SavedStateStands
<1>1. TypeOK => SavedStateStands
  <2> DEFINE next == ThreeWayString(proton, carddav, proton, carddav, policy)
  <2> SUFFICES ASSUME TypeOK, EqualString(Merged, carddav),
                      ~ProtonRelevantDiff(Merged, proton, protonBase)
               PROVE  /\ EqualString(next, carddav)
                      /\ ~ProtonRelevantDiff(next, proton, proton)
      BY DEF SavedStateStands
  <2>1. /\ Merged \in Card /\ proton \in Card /\ carddav \in Card
        /\ protonBase \in Card /\ carddavBase \in Card /\ policy \in Policy
      BY MergeType DEF TypeOK, Merged
  <2>2. Merged = carddav
      BY <2>1, EqualStringIsEquality
  <2>3. \A name \in Prop : proton[name] # None => carddav[name] # None
    <3>1. \A name \in Prop : name \in Name /\ name # "VERSION"
        BY CardAssumption DEF Name
    <3> QED BY <2>2, <3>1 DEF ProtonRelevantDiff, unionKeys, Keys
  <2>4. next = carddav
      BY <2>1, <2>2, <2>3, SavedMerge DEF Merged
  <2>5. ~ProtonRelevantDiff(next, proton, proton)
      BY <2>2, <2>4 DEF ProtonRelevantDiff, unionKeys
  <2> QED BY <2>1, <2>4, <2>5, EqualStringIsEquality
<1> QED BY <1>1, TypeCorrect, PTL

\* FirstMergeIsOverlay holds in every reachable state: a first merge under
\* prefer-proton and the one-way overlay decide every property alike.
THEOREM OverlayTheorem == Spec => []FirstMergeIsOverlay
<1>1. TypeOK => FirstMergeIsOverlay
  <2> SUFFICES ASSUME TypeOK, NEW name \in Name \ {"REV", "VERSION", "UID"}
               PROVE  ThreeWayString(EmptyCard, EmptyCard, proton, carddav,
                                     "PolicyPreferProton")[name]
                          = Overlay(carddav, proton)[name]
      BY DEF FirstMergeIsOverlay
  <2>1. ThreeWayString(EmptyCard, EmptyCard, proton, carddav, "PolicyPreferProton")[name]
          = MergeProp(None, None, proton[name], carddav[name], "SideProton")
      BY DEF ThreeWayString, ThreeWay, Winner, EmptyCard
  <2>2. Overlay(carddav, proton)[name]
          = IF proton[name] # None THEN proton[name] ELSE carddav[name]
      BY DEF Overlay, Keys, preservedFromDst
  <2> QED BY <2>1, <2>2 DEF MergeProp
<1> QED BY <1>1, TypeCorrect, PTL
-----------------------------------------------------------------------------
(***************************************************************************)
(* ContactCards.                                                           *)
(***************************************************************************)
\* Readying an EMAIL appends it: what it does to the sequence, point by point.
Appended(g) ==
    /\ field = emails[Len(built) + 1] /\ field \in Email
    /\ Len(built) + 1 \in DOMAIN emails
    /\ built' \in Seq(Email)
    /\ DOMAIN built' = DOMAIN built \cup {Len(built) + 1}
    /\ Len(built') = Len(built) + 1 /\ Len(built) + 1 \notin DOMAIN built
    /\ \A i \in DOMAIN built : built'[i] = built[i]
    /\ built'[Len(built) + 1].group = g
    /\ built'[Len(built) + 1].types = TypesOf(field)

LEMMA ReadyStep ==
    ASSUME BuildTypeOK, Busy, NEW g \in Group, Ready(g)
    PROVE  Appended(g)
<1>1. field \in Email /\ Len(built) + 1 \in DOMAIN emails
    BY DEF field, Busy, BuildTypeOK
<1>2. TypesOf(field) \in SUBSET Type
    BY <1>1 DEF TypesOf, BuildTypeOK, Email
<1>3. [group |-> g, types |-> TypesOf(field)] \in Email
    BY <1>2 DEF Email
<1> QED BY <1>1, <1>2, <1>3 DEF Ready, BuildTypeOK, field, Appended

\* The two ways to ready an EMAIL have this in common.
LEMMA ReadyCases ==
    ASSUME BuildTypeOK, KeepGroup \/ FreshGroup
    PROVE  /\ Busy /\ counter' \in Nat
           /\ \E g \in Group : Unique(g) /\ Ready(g) /\ (Unique(field.group) => g = field.group)
<1>1. CASE KeepGroup
  <2>1. Busy /\ field \in Email
      BY <1>1 DEF KeepGroup, Busy, field, BuildTypeOK
  <2> QED BY <1>1, <2>1 DEF KeepGroup, BuildTypeOK, Email
<1>2. CASE FreshGroup
  <2>1. PICK n \in counter .. counter + Cardinality(nonEmailGroups \cup assigned) :
            Unique(n) /\ Ready(n) /\ counter' = n + 1
      BY <1>2 DEF FreshGroup
  <2>2. n \in Nat
      BY <2>1 DEF BuildTypeOK
  <2> QED BY <1>2, <2>1, <2>2 DEF FreshGroup, Group
<1> QED BY <1>1, <1>2

LEMMA BuildTypeStep == BuildTypeOK /\ [BuildNext]_cardVars => BuildTypeOK'
<1> SUFFICES ASSUME BuildTypeOK, [BuildNext]_cardVars PROVE BuildTypeOK'
    OBVIOUS
<1>1. CASE KeepGroup \/ FreshGroup
  <2>1. Busy /\ counter' \in Nat
      BY <1>1, ReadyCases
  <2>2. PICK g \in Group : Ready(g)
      BY <1>1, ReadyCases
  <2>3. built' \in Seq(Email) /\ field \in Email
      BY <2>1, <2>2, ReadyStep DEF Appended
  <2> QED BY <2>1, <2>2, <2>3 DEF Ready, BuildTypeOK, Email
<1>2. CASE RemoveABLabels
    BY <1>2 DEF RemoveABLabels, BuildTypeOK
<1>3. CASE Rebuild
    BY <1>3 DEF Rebuild, BuildTypeOK
<1>4. CASE UNCHANGED cardVars
    BY <1>4 DEF cardVars, BuildTypeOK
<1> QED BY <1>1, <1>2, <1>3, <1>4 DEF BuildNext

LEMMA BuildTypeInit == BuildInit => BuildTypeOK
BY ContactCardsAssumption DEF BuildInit, Start, BuildTypeOK

\* The variables of buildContactCards have their types for every card.
THEOREM BuildTypeTheorem == BuildSpec => []BuildTypeOK
BY BuildTypeInit, BuildTypeStep, PTL DEF BuildSpec
-----------------------------------------------------------------------------
LEMMA GroupsStep == BuildTypeOK /\ GroupsInv /\ [BuildNext]_cardVars => GroupsInv'
<1> SUFFICES ASSUME BuildTypeOK, GroupsInv, [BuildNext]_cardVars PROVE GroupsInv'
    OBVIOUS
<1>1. CASE KeepGroup \/ FreshGroup
  <2>1. Busy
      BY <1>1, ReadyCases
  <2>2. PICK g \in Group : Unique(g) /\ Ready(g)
      BY <1>1, ReadyCases
  <2>3. assigned' = assigned \cup {g} /\ nonEmailGroups' = nonEmailGroups
      BY <2>2 DEF Ready, nonEmailGroups
  <2>4. Appended(g)
      BY <2>1, <2>2, ReadyStep
  <2>5. g \notin assigned /\ g \notin nonEmailGroups \cup {NoGroup}
      BY <2>2 DEF Unique
  <2> QED BY <2>3, <2>4, <2>5 DEF GroupsInv, Appended
<1>2. CASE RemoveABLabels
    BY <1>2 DEF RemoveABLabels, GroupsInv, nonEmailGroups
<1>3. CASE Rebuild
    BY <1>3 DEF Rebuild, GroupsInv
<1>4. CASE UNCHANGED cardVars
    BY <1>4 DEF cardVars, GroupsInv, nonEmailGroups
<1> QED BY <1>1, <1>2, <1>3, <1>4 DEF BuildNext

\* Every EMAIL readied is alone in its group, for every card and every choice
\* of groups in it (the rule by which Proton accepts a contact).
THEOREM GroupsTheorem == BuildSpec => []EmailGroupsUnique
<1>1. BuildInit => GroupsInv
    BY DEF BuildInit, Start, GroupsInv
<1>2. BuildTypeOK /\ GroupsInv => EmailGroupsUnique
    BY DEF GroupsInv, EmailGroupsUnique, nonEmailGroups, BuildTypeOK
<1> QED BY <1>1, <1>2, BuildTypeInit, BuildTypeStep, GroupsStep, PTL DEF BuildSpec
-----------------------------------------------------------------------------
LEMMA LabelsStep == BuildTypeOK /\ LabelsInv /\ [BuildNext]_cardVars => LabelsInv'
<1> SUFFICES ASSUME BuildTypeOK, LabelsInv, [BuildNext]_cardVars PROVE LabelsInv'
    OBVIOUS
<1>1. CASE KeepGroup \/ FreshGroup
  <2>1. Busy
      BY <1>1, ReadyCases
  <2>2. PICK g \in Group : Ready(g)
      BY <1>1, ReadyCases
  <2>3. /\ consumed' = consumed \cup ({field.group} \cap DOMAIN labels)
        /\ phase' = "emails" /\ emails' = emails /\ labels' = labels
        /\ \A e : TypesOf(e)' = TypesOf(e)
      BY <2>1, <2>2 DEF Ready, Busy, TypesOf
  <2>4. Appended(g)
      BY <2>1, <2>2, ReadyStep
  <2>5. Len(built') <= Len(emails)
      BY <2>4 DEF Appended, BuildTypeOK
  <2>6. ASSUME NEW i \in DOMAIN built'
        PROVE  /\ built'[i].types = TypesOf(emails[i])
               /\ emails[i].group \in DOMAIN labels => emails[i].group \in consumed'
    <3>1. CASE i \in DOMAIN built
        BY <2>3, <2>4, <3>1 DEF LabelsInv, Appended
    <3>2. CASE i = Len(built) + 1
        BY <2>3, <2>4, <3>2 DEF Appended
    <3> QED BY <2>4, <3>1, <3>2 DEF Appended
  <2>7. \A h \in consumed' : \E i \in DOMAIN emails : emails[i].group = h
      BY <2>3, <2>4 DEF LabelsInv, Appended
  <2> QED BY <2>3, <2>5, <2>6, <2>7 DEF LabelsInv
<1>2. CASE RemoveABLabels
    BY <1>2 DEF RemoveABLabels, LabelsInv, TypesOf
<1>3. CASE Rebuild
    BY <1>3 DEF Rebuild, LabelsInv, BuildTypeOK
<1>4. CASE UNCHANGED cardVars
    BY <1>4 DEF cardVars, LabelsInv, TypesOf
<1> QED BY <1>1, <1>2, <1>3, <1>4 DEF BuildNext

LEMMA LabelsInit == BuildInit => LabelsInv
BY ContactCardsAssumption DEF BuildInit, Start, LabelsInv

\* No label is lost, doubled or given to another address, for every card.
THEOREM LabelsTheorem == BuildSpec => []LabelsFollowEmails
<1>1. BuildTypeOK /\ LabelsInv => LabelsFollowEmails
  <2> SUFFICES ASSUME BuildTypeOK, LabelsInv, phase = "done" PROVE LabelsFollowEmails
      BY DEF LabelsFollowEmails
  <2>1. DOMAIN built = DOMAIN emails
      BY DEF LabelsInv, BuildTypeOK
  <2> QED BY <2>1 DEF LabelsInv, LabelsFollowEmails, TypesOf
<1> QED BY <1>1, LabelsInit, LabelsStep, BuildTypeInit, BuildTypeStep, PTL DEF BuildSpec
-----------------------------------------------------------------------------
LEMMA StableStep ==
    BuildTypeOK /\ GroupsInv /\ LabelsInv /\ StableInv /\ [BuildNext]_cardVars => StableInv'
<1> SUFFICES ASSUME BuildTypeOK, GroupsInv, LabelsInv, StableInv, [BuildNext]_cardVars
             PROVE  StableInv'
    OBVIOUS
<1>1. CASE KeepGroup \/ FreshGroup
  <2> SUFFICES ASSUME pass' = 2 PROVE StableInv'
      BY DEF StableInv
  <2>1. Busy
      BY <1>1, ReadyCases
  <2>2. PICK g \in Group : Ready(g) /\ (Unique(field.group) => g = field.group)
      BY <1>1, ReadyCases
  <2>3. pass = 2 /\ emails' = emails /\ labels' = labels /\ kept' = kept
        /\ nonEmailGroups' = nonEmailGroups /\ assigned' = assigned \cup {g}
        /\ consumed' = consumed \cup ({field.group} \cap DOMAIN labels)
      BY <2>2 DEF Ready, nonEmailGroups
  <2>4. DOMAIN built \subseteq DOMAIN emails
      BY DEF LabelsInv, BuildTypeOK
  <2>5. Appended(g)
      BY <2>1, <2>2, ReadyStep
  <2>6. field.group \notin nonEmailGroups \cup {NoGroup}
      BY <2>3, <2>5 DEF StableInv, Appended
  <2>7. field.group \notin assigned
      BY <2>3, <2>4, <2>5 DEF StableInv, Appended
  <2>8. g = field.group
      BY <2>2, <2>6, <2>7 DEF Unique
  <2>9. assigned' = {built'[i].group : i \in DOMAIN built'}
      BY <2>3, <2>5 DEF StableInv, Appended
  <2>10. \A i \in DOMAIN built' : built'[i].group = emails'[i].group
      BY <2>3, <2>8, <2>5 DEF StableInv, Appended
  <2>11. consumed' = {}
      BY <2>3, <2>6 DEF StableInv, nonEmailGroups
  <2> QED BY <2>3, <2>9, <2>10, <2>11 DEF StableInv
<1>2. CASE RemoveABLabels
  <2> SUFFICES ASSUME pass' = 2 PROVE StableInv'
      BY DEF StableInv
  <2>1. pass = 2 /\ consumed = {}
      BY <1>2 DEF RemoveABLabels, StableInv
  <2>2. kept' = labels
      BY <1>2, <2>1 DEF RemoveABLabels, BuildTypeOK
  <2> QED BY <1>2, <2>1, <2>2 DEF RemoveABLabels, StableInv, nonEmailGroups
<1>3. CASE Rebuild
  <2>1. \A i \in DOMAIN built : Generic \in built[i].types => built[i].types = {Generic}
      BY DEF LabelsInv, TypesOf
  <2>2. nonEmailGroups' \subseteq nonEmailGroups
      BY <1>3 DEF Rebuild, nonEmailGroups, BuildTypeOK
  <2> QED BY <1>3, <2>1, <2>2 DEF Rebuild, StableInv, GroupsInv, BuildTypeOK
<1>4. CASE UNCHANGED cardVars
    BY <1>4 DEF cardVars, StableInv, nonEmailGroups
<1> QED BY <1>1, <1>2, <1>3, <1>4 DEF BuildNext

\* A contact written as Proton gave it back stays as it is, for every card: the
\* ground of Reconcile's assumption that Fold is idempotent.
THEOREM StableTheorem == BuildSpec => []RebuildIsStable
<1>1. BuildInit => GroupsInv /\ StableInv
    BY DEF BuildInit, Start, GroupsInv, StableInv
<1>2. BuildTypeOK /\ LabelsInv /\ StableInv => RebuildIsStable
  <2> SUFFICES ASSUME BuildTypeOK, LabelsInv, StableInv, phase = "done", pass = 2
               PROVE  RebuildIsStable
      BY DEF RebuildIsStable
  <2>1. DOMAIN built = DOMAIN emails
      BY DEF LabelsInv, BuildTypeOK
  <2>2. ASSUME NEW i \in DOMAIN emails, emails[i].types # {Generic}
        PROVE  built[i] = emails[i]
    <3>1. emails[i] \in Email /\ built[i] \in Email
        BY <2>1 DEF BuildTypeOK
    <3>2. built[i].types = emails[i].types
      <4>1. Generic \notin emails[i].types /\ emails[i].group \notin DOMAIN labels
          BY <2>2 DEF StableInv, nonEmailGroups
      <4>2. emails[i].types \ {Generic} = emails[i].types
          BY <4>1
      <4> QED BY <2>1, <4>1, <4>2 DEF LabelsInv, TypesOf
    <3>3. built[i].group = emails[i].group
        BY <2>1 DEF StableInv
    <3> QED BY <3>1, <3>2, <3>3 DEF Email
  <2> QED BY <2>2 DEF RebuildIsStable, StableInv
<1> QED BY <1>1, <1>2, BuildTypeInit, BuildTypeStep, GroupsStep, LabelsInit, LabelsStep,
           StableStep, PTL DEF BuildSpec
=============================================================================
