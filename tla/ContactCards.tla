----------------------------- MODULE ContactCards -----------------------------
(***************************************************************************)
(* How buildContactCards (internal/protonmail/contacts.go) readies a       *)
(* contact's e-mail addresses for Proton: one EMAIL after another gets its *)
(* label as its type and a vCard group of its own, then the labels so      *)
(* folded are removed.  The result is what Proton gives back, and what the *)
(* next write of the contact starts from: Rebuild.                         *)
(***************************************************************************)
EXTENDS Naturals, Sequences, FiniteSets

CONSTANTS
    NoGroup,      \* a property without a vCard group
    NamedGroup,   \* groups other than item1, item2, ...
    Type,         \* the values of an EMAIL's TYPE, and of labels
    Generic,      \* the type INTERNET, which says nothing
    InitEmails, InitOthers, InitLabels   \* the cards to start from: see BuildInit

\* Group n stands for the name "item<n>".
Group == Nat \cup NamedGroup \cup {NoGroup}
Email == [group : Group, types : SUBSET Type]

ASSUME ContactCardsAssumption ==
    /\ NoGroup \notin Nat \cup NamedGroup
    /\ Generic \in Type
    /\ InitEmails \subseteq Seq(Email)
    /\ InitOthers \subseteq SUBSET (Group \ {NoGroup})
    /\ \A l \in InitLabels : l \in [DOMAIN l -> Type] /\ DOMAIN l \subseteq Group \ {NoGroup}

VARIABLES
    emails,     \* the EMAILs of the parsed card, in order
    others,     \* the groups of its other properties, labels not counted
    labels,     \* abLabelsByGroup: its X-ABLABELs, by group
    built,      \* the EMAILs readied so far
    assigned, consumed, counter,    \* buildContactCards's variables of these names
    kept,       \* the X-ABLABELs of the encrypted card
    phase,      \* "emails" or "done"
    pass        \* 2 for the card read back from Proton

cardVars == <<emails, others, labels, built, assigned, consumed, counter, kept,
              phase, pass>>

BuildTypeOK ==
    /\ emails \in Seq(Email) /\ built \in Seq(Email)
    /\ others \subseteq Group \ {NoGroup}
    /\ labels \in [DOMAIN labels -> Type] /\ DOMAIN labels \subseteq Group \ {NoGroup}
    /\ kept \in [DOMAIN kept -> Type] /\ DOMAIN kept \subseteq DOMAIN labels
    /\ assigned \subseteq Group /\ consumed \subseteq Group
    /\ counter \in Nat
    /\ phase \in {"emails", "done"} /\ pass \in {1, 2}

Start(e, o, l) ==
    /\ emails = e /\ others = o /\ labels = l
    /\ built = <<>> /\ assigned = {} /\ consumed = {} /\ counter = 1
    /\ kept = l /\ phase = "emails" /\ pass = 1

\* A group has one label.  Of several, abLabelsByGroup would keep the last, and
\* removeABLabels drop them all.
BuildInit == \E e \in InitEmails, o \in InitOthers, l \in InitLabels : Start(e, o, l)
-----------------------------------------------------------------------------
nonEmailGroups == others \cup DOMAIN labels

field == emails[Len(built) + 1]
Busy  == phase = "emails" /\ Len(built) < Len(emails)

\* Mutants of TypesOf: the label is forgotten; it is added to the type.
TypesUnlabelled(email) == email.types \ {Generic}
TypesAppended(email) ==
    IF email.group \in DOMAIN labels THEN email.types \cup {labels[email.group]}
                                     ELSE email.types \ {Generic}

\* setEmailType and dropGenericType.
TypesOf(email) ==
    IF email.group \in DOMAIN labels THEN {labels[email.group]} ELSE email.types \ {Generic}

Ready(g) ==
    /\ built' = Append(built, [group |-> g, types |-> TypesOf(field)])
    /\ assigned' = assigned \cup {g}
    /\ consumed' = consumed \cup ({field.group} \cap DOMAIN labels)
    /\ UNCHANGED <<emails, others, labels, kept, phase, pass>>

\* Mutant of Unique: groups of the other properties are not looked at.
UniqueAmongEmails(g) == g # NoGroup /\ g \notin assigned

Unique(g) == g # NoGroup /\ g \notin nonEmailGroups /\ g \notin assigned

KeepGroup ==
    /\ Busy /\ Unique(field.group)
    /\ Ready(field.group)
    /\ UNCHANGED counter

\* The first free item from the counter on; so many groups are taken at most.
FreshGroup ==
    /\ Busy /\ ~Unique(field.group)
    /\ \E n \in counter .. counter + Cardinality(nonEmailGroups \cup assigned) :
          /\ Unique(n) /\ \A m \in counter .. n - 1 : ~Unique(m)
          /\ Ready(n)
          /\ counter' = n + 1

RemoveABLabels ==
    /\ phase = "emails" /\ Len(built) = Len(emails)
    /\ kept' = [g \in DOMAIN labels \ consumed |-> labels[g]]
    /\ phase' = "done"
    /\ UNCHANGED <<emails, others, labels, built, assigned, consumed, counter, pass>>

\* Proton's card is read back and written again: resync, or a later edit.
Rebuild ==
    /\ phase = "done" /\ pass = 1
    /\ emails' = built /\ labels' = kept
    /\ built' = <<>> /\ assigned' = {} /\ consumed' = {} /\ counter' = 1
    /\ phase' = "emails" /\ pass' = 2
    /\ UNCHANGED <<others, kept>>

BuildNext == KeepGroup \/ FreshGroup \/ RemoveABLabels \/ Rebuild

BuildSpec == BuildInit /\ [][BuildNext]_cardVars
-----------------------------------------------------------------------------
\* "Each email gets a fresh group that collides with nothing": every EMAIL
\* readied is alone in its group, whatever groups the card came with
\* (the loop over EMAILs, which sees a later EMAIL's own group only then).
EmailGroupsUnique ==
    \A i \in DOMAIN built :
        /\ built[i].group \notin others \cup DOMAIN kept \cup {NoGroup}
        /\ \A j \in DOMAIN built : built[i].group = built[j].group => i = j

\* No label is lost or given to another address: it is in the encrypted card
\* still, or it is the type of the EMAILs it labelled, and never both.
LabelsFollowEmails ==
    phase = "done" =>
        /\ \A i \in DOMAIN emails : emails[i].group \in DOMAIN labels =>
              built[i].types = {labels[emails[i].group]} /\ emails[i].group \notin DOMAIN kept
        /\ \A g \in DOMAIN labels \ DOMAIN kept : \E i \in DOMAIN emails : emails[i].group = g

\* Writing what Proton gave back changes no address, group or type, unless a
\* label said INTERNET: the contact settles after one write, as Reconcile takes
\* for granted of Fold.
RebuildIsStable ==
    (phase = "done" /\ pass = 2) =>
        /\ \A i \in DOMAIN emails : emails[i].types = {Generic} \/ built[i] = emails[i]
        /\ kept = labels
-----------------------------------------------------------------------------
(***************************************************************************)
(* The inductive invariants behind the three properties.                   *)
(***************************************************************************)
\* Every group given out is recorded, and is no other property's.
GroupsInv ==
    /\ \A i \in DOMAIN built :
          /\ built[i].group \in assigned
          /\ built[i].group \notin nonEmailGroups \cup {NoGroup}
    /\ \A i, j \in DOMAIN built : built[i].group = built[j].group => i = j

\* The EMAILs readied have their types, and a label folded is consumed.
LabelsInv ==
    /\ Len(built) <= Len(emails)
    /\ \A i \in DOMAIN built :
          /\ built[i].types = TypesOf(emails[i])
          /\ emails[i].group \in DOMAIN labels => emails[i].group \in consumed
    /\ \A g \in consumed : \E i \in DOMAIN emails : emails[i].group = g
    /\ phase = "done" => /\ Len(built) = Len(emails)
                         /\ DOMAIN kept = DOMAIN labels \ consumed

\* In a card read back from Proton every EMAIL has a good group already, and
\* keeps it.
StableInv ==
    pass = 2 =>
        /\ consumed = {} /\ kept = labels
        /\ assigned = {built[i].group : i \in DOMAIN built}
        /\ \A i, j \in DOMAIN emails : emails[i].group = emails[j].group => i = j
        /\ \A i \in DOMAIN emails :
              /\ emails[i].group \notin nonEmailGroups \cup {NoGroup}
              /\ Generic \in emails[i].types => emails[i].types = {Generic}
        /\ \A i \in DOMAIN built : built[i].group = emails[i].group
=============================================================================
