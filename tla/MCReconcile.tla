---------------------------- MODULE MCReconcile ----------------------------
(***************************************************************************)
(* Small instances of Reconcile.  "EMAIL" is a property whose value Proton *)
(* may normalise (Fold), "X-ABLABEL" one that a write to Proton drops.     *)
(* Instants: "r1" is older than "r2".                                      *)
(***************************************************************************)
EXTENDS Reconcile, TLC

CONSTANTS u1, u2, id1, id2, id3

IDSymmetry == Permutations(ID)

MCTime == [v \in Value \cup {None} |->
              CASE v = "r1" -> 1 [] v = "r2" -> 2 [] OTHER -> 0]

\* buildContactCards on an e-mail: the generic type INTERNET is dropped, and the
\* label of its group becomes its type; any other type stays.
FoldEmail == [v \in Value \cup {None} |->
                 CASE v = "internet" -> "plain" [] v = "labelled" -> "typed" [] OTHER -> v]

\* A card with this address, label and REV.
CardWith(email, label, rev) ==
    [name \in Name |->
        CASE name = "UID" -> "uid"
          [] name = "VERSION" -> "v3"
          [] name = "REV" -> rev
          [] name = "EMAIL" -> email
          [] OTHER -> label]

\* The cards users give contacts.  An e-mail has a label or it has none.
CardsEmail      == {CardWith(email, None, None) : email \in {"internet", "home"}}
CardsLabel      == {CardWith("labelled", "a", None), CardWith("home", None, None)}
CardsEmailLabel == {CardWith(c[1], c[2], rev) :
                       c \in {<<"labelled", "a">>, <<"internet", None>>,
                              <<"home", None>>, <<None, None>>},
                       rev \in {"r1", "r2"}}
=============================================================================
