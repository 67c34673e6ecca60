------------------------------ MODULE MCResync ------------------------------
\* Small instances of Resync, over the cards of MCReconcile.
EXTENDS Resync, MCReconcile

\* The IDs are alike: a contact that is there at first has the first one.
MCResyncInit == ResyncInit /\ \A u \in UID : contacts[u][id2] = NoCard

MCResyncSpec == /\ MCResyncInit /\ [][ResyncNext]_allVars
                /\ WF_allVars(DaemonStep) /\ WF_allVars(ForceStep)
=============================================================================
