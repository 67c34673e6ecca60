---------------------------- MODULE MCParts ------------------------------
(***************************************************************************)
(* Small instances of the parts that share no state with the rest, each    *)
(* from all its inputs while the other two rest: MergeLaws, over one       *)
(* property with two values, and REVs of two instants, absent or not       *)
(* parsed; ContactCards, over up to three EMAILs and a few groups that     *)
(* clash; and RateLimiter, for three goroutines.                           *)
(***************************************************************************)
EXTENDS MergeLaws, ContactCards, RateLimiter, TLC

CONSTANTS
    grp,           \* a group that is no item<n>
    g1, g2, g3     \* goroutines

\* The goroutines are interchangeable.
Perms == Permutations(Proc)

MCTime == [v \in Value \cup {None} |->
              CASE v = "r1" -> 1 [] v = "r2" -> 2 [] OTHER -> 0]

MCCard(v, rev) ==
    [name \in Name |->
        CASE name = "UID" -> "uid"
          [] name = "VERSION" -> "v3"
          [] name = "REV" -> rev
          [] OTHER -> v]

MCInitCard == {MCCard(v, rev) : v \in {"a", "b", None}, rev \in {None, "bad", "r1", "r2"}}

MCEmails == UNION {[1 .. n -> [group : {NoGroup, 1, 2, grp}, types : {{Generic}, {"work"}}]] :
                      n \in 1 .. 3}
MCOthers == SUBSET {1, 3, grp}
MCLabels == UNION {[groups -> {"home", Generic}] : groups \in SUBSET {1, 2}}

MergeRests ==
    /\ protonBase = EmptyCard /\ carddavBase = EmptyCard
    /\ proton = MCCard("a", None) /\ carddav = MCCard("a", None)
    /\ policy = "PolicyPreferNewer"
CardsRest ==
    /\ emails = <<>> /\ others = {} /\ labels = <<>> /\ built = <<>> /\ assigned = {}
    /\ consumed = {} /\ counter = 1 /\ kept = <<>> /\ phase = "done" /\ pass = 2

MCInit == LimiterInit /\ (\/ Init /\ CardsRest
                          \/ MergeRests /\ BuildInit)
MCNext ==
    \/ CardsRest /\ LimiterInit /\ Next /\ UNCHANGED <<cardVars, limiterVars>>
    \/ MergeRests /\ BuildNext /\ UNCHANGED <<vars, limiterVars>>
    \/ MergeRests /\ CardsRest /\ LimiterNext /\ UNCHANGED <<vars, cardVars>>
MCSpec == MCInit /\ [][MCNext]_<<vars, cardVars, limiterVars>>
=============================================================================
