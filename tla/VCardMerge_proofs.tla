-------------------------- MODULE VCardMerge_proofs --------------------------
(***************************************************************************)
(* Lemmas about the card algebra, for every set of properties and values:  *)
(* what the proofs of MergeLaws and of Reconcile need of each operator.    *)
(***************************************************************************)
EXTENDS VCardMerge, TLAPS

\* A merge of cards is a card (ThreeWayString never invents a value).
LEMMA MergeType ==
    ASSUME NEW pb \in Card, NEW cb \in Card, NEW pr \in Card, NEW cd \in Card,
           NEW pol \in Policy
    PROVE  ThreeWayString(pb, cb, pr, cd, pol) \in Card
<1> DEFINE winner == Winner(pol, pr, cd)
<1>1. \A name \in Name :
        ThreeWay(pb, cb, pr, cd, winner)[name] \in Value \cup {None}
  <2> SUFFICES ASSUME NEW name \in Name
               PROVE  ThreeWay(pb, cb, pr, cd, winner)[name] \in Value \cup {None}
      OBVIOUS
  <2>1. /\ pb[name] \in Value \cup {None} /\ cb[name] \in Value \cup {None}
        /\ pr[name] \in Value \cup {None} /\ cd[name] \in Value \cup {None}
      BY DEF Card
  <2>2. MergeProp(pb[name], cb[name], pr[name], cd[name], winner)
            \in Value \cup {None}
      BY <2>1 DEF MergeProp
  <2>3. setIdentity(name, cd, pr) \in Value \cup {None}
        /\ setIdentity(name, pr, cd) \in Value \cup {None}
      BY <2>1 DEF setIdentity
  <2>4. name = "VERSION" => MergedVersion(pr, cd) \in Value \cup {None}
      BY <2>3, CardAssumption DEF MergedVersion
  <2>5. name = "REV" => MergedRev(pr, cd) \in Value \cup {None}
      BY <2>3 DEF MergedRev
  <2> QED BY <2>2, <2>3, <2>4, <2>5 DEF ThreeWay
<1> QED BY <1>1 DEF ThreeWayString, ThreeWay, Card

LEMMA EmptyCardType == EmptyCard \in Card
BY DEF EmptyCard, Card

-----------------------------------------------------------------------------
\* Two cards that agree on every name are one card.
LEMMA CardExtensionality ==
    ASSUME NEW a \in Card, NEW b \in Card, \A name \in Name : a[name] = b[name]
    PROVE  a = b
BY DEF Card

\* The winner of a conflict is the same when a merge is repeated with the
\* merged card in CardDAV's place, and the repeated merge keeps its REV:
\* under prefer-newer the merged card has the newer of the two REVs.
LEMMA WinnerRepeats ==
    ASSUME NEW pb \in Card, NEW cb \in Card, NEW pr \in Card, NEW cd \in Card,
           NEW pol \in Policy, NEW m, m = ThreeWayString(pb, cb, pr, cd, pol)
    PROVE  /\ m["REV"] = MergedRev(pr, cd)
           /\ Winner(pol, pr, m) = Winner(pol, pr, cd)
           /\ MergedRev(pr, m) = m["REV"]
<1>1. "REV" \in Name
    BY DEF Name
<1>2. m["REV"] = MergedRev(pr, cd)
    BY <1>1 DEF ThreeWayString, ThreeWay
<1>3. /\ cd["REV"] \in Value \cup {None} /\ pr["REV"] \in Value \cup {None}
      /\ Time[cd["REV"]] \in Nat /\ Time[pr["REV"]] \in Nat
    BY <1>1, CardAssumption DEF Card
<1>4. CASE RevTime(cd) > RevTime(pr)
  <2>1. cd["REV"] # None
      BY <1>3, <1>4, CardAssumption DEF RevTime
  <2>2. m["REV"] = cd["REV"]
      BY <1>2, <1>4, <2>1 DEF MergedRev, setIdentity
  <2> QED BY <1>2, <1>4, <2>1, <2>2
          DEF RevTime, Winner, NewerSide, MergedRev, setIdentity
<1>5. CASE ~(RevTime(cd) > RevTime(pr))
  <2>1. m["REV"] = IF pr["REV"] # None THEN pr["REV"] ELSE cd["REV"]
      BY <1>2, <1>5 DEF MergedRev, setIdentity
  <2>2. ~(RevTime(m) > RevTime(pr))
      BY <1>3, <1>5, <2>1 DEF RevTime
  <2> QED BY <1>2, <1>5, <2>1, <2>2
          DEF RevTime, Winner, NewerSide, MergedRev, setIdentity
<1> QED BY <1>4, <1>5

\* Repeating a merge with the merged card in CardDAV's place changes nothing,
\* whatever the policy: a retry after a run that only got as far as PutContact.
LEMMA MergeRepeats ==
    ASSUME NEW pb \in Card, NEW cb \in Card, NEW pr \in Card, NEW cd \in Card,
           NEW pol \in Policy
    PROVE  LET m == ThreeWayString(pb, cb, pr, cd, pol)
           IN  ThreeWayString(pb, cb, pr, m, pol) = m
<1> DEFINE m == ThreeWayString(pb, cb, pr, cd, pol)
           again == ThreeWayString(pb, cb, pr, m, pol)
           winner == Winner(pol, pr, cd)
<1>1. m \in Card
    BY MergeType
<1>2. again \in Card
    BY <1>1, MergeType
<1> HIDE DEF m, again
<1>3. /\ m["REV"] = MergedRev(pr, cd) /\ Winner(pol, pr, m) = winner
      /\ MergedRev(pr, m) = m["REV"]
    BY WinnerRepeats DEF m
<1> HIDE DEF winner
<1>4. \A name \in Name : again[name] = m[name]
  <2> SUFFICES ASSUME NEW name \in Name PROVE again[name] = m[name]
      OBVIOUS
  <2>1. CASE name = "UID"
    <3>1. m[name] = setIdentity("UID", cd, pr) /\ again[name] = setIdentity("UID", m, pr)
        BY <2>1 DEF m, again, ThreeWayString, ThreeWay
    <3> QED BY <2>1, <3>1 DEF setIdentity
  <2>2. CASE name = "VERSION"
    <3>1. m[name] = MergedVersion(pr, cd) /\ again[name] = MergedVersion(pr, m)
        BY <2>2 DEF m, again, ThreeWayString, ThreeWay
    <3>2. m["VERSION"] # None
        BY <2>2, <3>1, CardAssumption DEF MergedVersion
    <3> QED BY <2>2, <3>1, <3>2 DEF MergedVersion, setIdentity
  <2>3. CASE name = "REV"
    <3>1. again[name] = MergedRev(pr, m)
        BY <2>3 DEF again, ThreeWayString, ThreeWay
    <3> QED BY <1>3, <2>3, <3>1
  <2>4. CASE name \notin {"UID", "VERSION", "REV"}
    <3>1. m[name] = MergeProp(pb[name], cb[name], pr[name], cd[name], winner)
        BY <2>4 DEF m, winner, ThreeWayString, ThreeWay
    <3>2. again[name] = MergeProp(pb[name], cb[name], pr[name], m[name], winner)
        BY <1>3, <2>4 DEF again, ThreeWayString, ThreeWay
    <3> QED BY <3>1, <3>2 DEF MergeProp
  <2> QED BY <2>1, <2>2, <2>3, <2>4
<1> QED BY <1>1, <1>2, <1>4, CardExtensionality DEF m, again

-----------------------------------------------------------------------------
\* EqualString compares every property: it is equality of cards.
LEMMA EqualStringIsEquality ==
    ASSUME NEW a \in Card, NEW b \in Card
    PROVE  EqualString(a, b) <=> a = b
<1>1. ASSUME EqualString(a, b) PROVE a = b
  <2>1. \A name \in Name : a[name] = b[name]
      BY <1>1 DEF EqualString, unionKeys, Keys
  <2> QED BY <2>1, CardExtensionality
<1>2. ASSUME a = b PROVE EqualString(a, b)
    BY <1>2 DEF EqualString
<1> QED BY <1>1, <1>2

\* With the current cards as bases a merge is CardDAV's card, provided Proton
\* has nothing that CardDAV lacks and the identity fields are settled.
LEMMA SavedMerge ==
    ASSUME NEW pr \in Card, NEW cd \in Card, NEW pol \in Policy,
           NEW pb \in Card, NEW cb \in Card,
           ThreeWayString(pb, cb, pr, cd, pol) = cd,
           \A name \in Prop : pr[name] # None => cd[name] # None
    PROVE  ThreeWayString(pr, cd, pr, cd, pol) = cd
<1> DEFINE next == ThreeWayString(pr, cd, pr, cd, pol)
           winner == Winner(pol, pr, cd)
<1>1. next \in Card
    BY MergeType
<1>2. \A name \in Name : next[name] = cd[name]
  <2> SUFFICES ASSUME NEW name \in Name PROVE next[name] = cd[name]
      OBVIOUS
  <2>1. CASE name \in {"UID", "VERSION", "REV"}
    <3>1. next[name] = ThreeWayString(pb, cb, pr, cd, pol)[name]
        BY <2>1 DEF ThreeWayString, ThreeWay
    <3> QED BY <3>1
  <2>2. CASE name \notin {"UID", "VERSION", "REV"}
    <3>1. next[name] = MergeProp(pr[name], cd[name], pr[name], cd[name], winner)
        BY <2>2 DEF ThreeWayString, ThreeWay
    <3>2. next[name] = IF cd[name] # None THEN cd[name] ELSE pr[name]
        BY <3>1 DEF MergeProp
    <3> QED BY <2>2, <3>2 DEF Name
  <2> QED BY <2>1, <2>2
<1> QED BY <1>1, <1>2, CardExtensionality

\* A property that Proton never had, at the last sync nor now, comes out of the
\* merge as CardDAV has it: no base of CardDAV's is needed for that.
LEMMA MergeKeepsCardDAVOnly ==
    ASSUME NEW pb \in Card, NEW cb \in Card, NEW pr \in Card, NEW cd \in Card,
           NEW pol \in Policy, NEW p \in Prop, pb[p] = None, pr[p] = None
    PROVE  ThreeWayString(pb, cb, pr, cd, pol)[p] = cd[p]
<1> DEFINE winner == Winner(pol, pr, cd)
<1>1. p \in Name /\ p \notin {"UID", "VERSION", "REV"}
    BY CardAssumption DEF Name
<1>2. ThreeWayString(pb, cb, pr, cd, pol)[p]
        = MergeProp(pb[p], cb[p], pr[p], cd[p], winner)
    BY <1>1 DEF ThreeWayString, ThreeWay
<1> QED BY <1>2 DEF MergeProp
=============================================================================
