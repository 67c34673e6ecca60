------------------------------ MODULE TokenLease ------------------------------
(***************************************************************************)
(* What the stored Proton session promises.  A refresh token is good for   *)
(* one use, so the right to use the session is a lease: it lies in the     *)
(* database, or one process has taken it and owes the database a new one.  *)
(* Where a process may fail to pay, or a process that still has an older   *)
(* session writes over it, the lease can be lost; then the database has to *)
(* be given a new one.                                                     *)
(***************************************************************************)
CONSTANTS
    Proc,                   \* the processes
    Absent, Stored, Lost    \* the other values of lease

VARIABLES
    lease,    \* Absent before init, Stored, the process that holds it, Lost
    mayLose   \* something has happened that the lease may be lost by, and is not undone

Init == lease = Absent /\ mayLose = FALSE

Establish ==
    /\ lease \in {Absent, Stored, Lost}
    /\ lease' = Stored

Take(p) ==
    /\ lease = Stored
    /\ lease' = p

\* p puts a new one there, or a new login does in its stead.
GiveBack(p) ==
    /\ lease = p
    /\ lease' = Stored

Lose ==
    /\ mayLose'
    /\ lease \in Proc \cup {Stored}
    /\ lease' = Lost

Next ==
    \/ Establish \/ Lose \/ UNCHANGED lease
    \/ \E p \in Proc : Take(p) \/ GiveBack(p)

Spec == Init /\ [][Next]_<<lease, mayLose>>
=============================================================================
