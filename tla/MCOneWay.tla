------------------------------ MODULE MCOneWay ------------------------------
\* Small instances of OneWay, over the cards of MCReconcile.
EXTENDS OneWay, MCReconcile

\* The second contact is there to meet the cap: a plain one, on CardDAV only.
\* The IDs are alike: a contact that is there at first has the first one.
MCOneWayInit ==
    /\ OneWayInit
    /\ objects[u2][OwnPath] = CardWith("home", None, None)
    /\ ~HasContact(u2)
    /\ contacts[u1][id2] = NoCard

MCOneWaySpec == MCOneWayInit /\ [][OneWayNext]_owVars /\ WF_owVars(AnyRun)
=============================================================================
