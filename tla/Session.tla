------------------------------- MODULE Session -------------------------------
(***************************************************************************)
(* The stored Proton session: the credentials row of the local database,   *)
(* the session on Proton's side, and the processes that use both: init     *)
(* (internal/cli/init.go) and the runs of sync, run and resync, which all  *)
(* go through withSyncer (internal/cli/sync.go).                           *)
(*                                                                         *)
(* Proton accepts each refresh token once and answers with the next one.   *)
(* A copy of a token is therefore "current" or "used"; a rotation makes    *)
(* every other copy of that session's token used.                          *)
(***************************************************************************)
EXTENDS Naturals

CONSTANTS
    Proc,       \* processes; the daemon's runs follow each other in one of them
    Sess,       \* Proton sessions, one for each login; each login draws its salt
    None,       \* no row, no credentials in memory
    Fault,      \* what may go wrong: see Calls
    StopAt,     \* the program points where a process may be killed
    MaxFault    \* bound on faults in a behaviour

\* "net": a refresh fails before Proton acts on it; "lost": its answer is lost;
\* "cancel": the context is cancelled after the answer; "busy": SQLite refuses
\* the UPDATE.
Calls == {"net", "lost", "cancel", "busy"}
PC    == {"idle", "login", "resume", "persist", "work"}
Token == {"current", "used"}

ASSUME SessionAssumption ==
    /\ None \notin [sess : Sess, key : Sess, token : Token]
    /\ None \notin [sess : Sess, token : Token]
    /\ Fault \subseteq Calls /\ StopAt \subseteq PC
    /\ MaxFault \in Nat
    /\ {"absent", "stored", "lost"} \cap Proc = {}

VARIABLES
    row,        \* credentials: the session whose salt, UID and keys it has, the
                \* session whose key encrypts its refresh token, and the token
    sessions,   \* the logins that Proton has seen
    pc,         \* where each process is; "login" is init between login and save
    cred,       \* the session and token a process holds in memory
    faults      \* faults so far, for the bound MaxFault

vars == <<row, sessions, pc, cred, faults>>

Row  == [sess : Sess, key : Sess, token : Token]
Cred == [sess : Sess, token : Token]

TypeOK ==
    /\ row \in Row \cup {None}
    /\ sessions \subseteq Sess
    /\ pc \in [Proc -> PC]
    /\ cred \in [Proc -> Cred \cup {None}]
    /\ faults \in 0 .. MaxFault

Init ==
    /\ row = None
    /\ sessions = {}
    /\ pc = [p \in Proc |-> "idle"]
    /\ cred = [p \in Proc |-> None]
    /\ faults = 0

Goto(p, label) == pc' = [pc EXCEPT ![p] = label]

Fails(fault) ==
    /\ fault \in Fault /\ faults < MaxFault
    /\ faults' = faults + 1

\* The process returns or is killed: what it had in memory is gone.
End(p) ==
    /\ Goto(p, "idle")
    /\ cred' = [cred EXCEPT ![p] = None]
-----------------------------------------------------------------------------
(***************************************************************************)
(* init: log in, then store the new session over whatever row there is.    *)
(***************************************************************************)
Login(p) ==
    /\ pc[p] = "idle"
    /\ \E s \in Sess \ sessions :
          /\ sessions' = sessions \cup {s}
          /\ cred' = [cred EXCEPT ![p] = [sess |-> s, token |-> "current"]]
    /\ Goto(p, "login")
    /\ UNCHANGED <<row, faults>>

SaveCredentials(p) ==
    /\ pc[p] = "login"
    /\ row' = [sess |-> cred[p].sess, key |-> cred[p].sess, token |-> cred[p].token]
    /\ End(p)
    /\ UNCHANGED <<sessions, faults>>
-----------------------------------------------------------------------------
(***************************************************************************)
(* withSyncer: load the credentials, resume the session, work, and store   *)
(* every rotated token.                                                    *)
(***************************************************************************)
\* A row whose parts were encrypted with two keys does not decrypt.
LoadDecryptedCredentials(p) ==
    /\ pc[p] = "idle"
    /\ row # None /\ row.key = row.sess
    /\ cred' = [cred EXCEPT ![p] = [sess |-> row.sess, token |-> row.token]]
    /\ Goto(p, "resume")
    /\ UNCHANGED <<row, sessions, faults>>

\* Proton takes the process's token and issues a new one; "mine" is what the
\* process has in memory afterwards.
RotateToken(p, mine) ==
    LET s == cred[p].sess
    IN  /\ row' = IF row # None /\ row.key = s THEN [row EXCEPT !.token = "used"] ELSE row
        /\ cred' = [q \in Proc |->
              IF q = p THEN [sess |-> s, token |-> mine]
              ELSE IF cred[q] # None /\ cred[q].sess = s
                   THEN [cred[q] EXCEPT !.token = "used"]
                   ELSE cred[q]]

\* Mutant of ResumeSession: the first rotation is not reported to onRefresh.
ResumeUnreported(p) ==
    /\ pc[p] = "resume" /\ cred[p].token = "current"
    /\ RotateToken(p, "current")
    /\ Goto(p, "work")
    /\ UNCHANGED <<sessions, faults>>

ResumeSession(p) ==
    /\ pc[p] = "resume" /\ cred[p].token = "current"
    /\ RotateToken(p, "current")
    /\ Goto(p, "persist")
    /\ UNCHANGED <<sessions, faults>>

\* Proton refuses the token, or the call fails: the run ends, in both cases
\* with ErrSessionExpired.
ResumeFails(p) ==
    /\ pc[p] = "resume"
    /\ (cred[p].token = "used" /\ UNCHANGED faults) \/ Fails("net")
    /\ End(p)
    /\ UNCHANGED <<row, sessions>>

\* A 401 during the run: the Proton client refreshes, and reports the new token.
\* (If Proton refuses, the call fails and the run has what it had.)
AutoRefresh(p) ==
    /\ pc[p] = "work" /\ cred[p].token = "current"
    /\ RotateToken(p, "current")
    /\ Goto(p, "persist")
    /\ UNCHANGED <<sessions, faults>>

\* Proton acts on a refresh whose answer never arrives; the HTTP client repeats
\* it with the used token and is refused.
RefreshLost(p) ==
    /\ pc[p] \in {"resume", "work"} /\ cred[p].token = "current"
    /\ Fails("lost")
    /\ RotateToken(p, "used")
    /\ UNCHANGED <<pc, sessions>>

\* Mutant of UpdateProtonRefresh: the run's first token is stored again.
UpdateWithOldToken(p) ==
    /\ pc[p] = "persist"
    /\ row' = IF row = None THEN None ELSE [row EXCEPT !.key = cred[p].sess]
    /\ Goto(p, "work")
    /\ UNCHANGED <<sessions, cred, faults>>

\* onRefresh: the UPDATE names neither the session nor the salt of the row.
UpdateProtonRefresh(p) ==
    /\ pc[p] = "persist"
    /\ row' = IF row = None THEN None
              ELSE [row EXCEPT !.key = cred[p].sess, !.token = cred[p].token]
    /\ Goto(p, "work")
    /\ UNCHANGED <<sessions, cred, faults>>

\* onRefresh logs that the UPDATE failed, and the run goes on.
UpdateFails(p) ==
    /\ pc[p] = "persist"
    /\ Fails("cancel") \/ Fails("busy")
    /\ Goto(p, "work")
    /\ UNCHANGED <<row, sessions, cred>>

\* The run ends, with an error or without; Close revokes nothing.
Close(p) ==
    /\ pc[p] = "work"
    /\ End(p)
    /\ UNCHANGED <<row, sessions, faults>>

Stop(p) ==
    /\ pc[p] \in StopAt \ {"idle"} /\ faults < MaxFault
    /\ faults' = faults + 1
    /\ End(p)
    /\ UNCHANGED <<row, sessions>>
-----------------------------------------------------------------------------
Step(p) ==
    \/ SaveCredentials(p) \/ LoadDecryptedCredentials(p) \/ ResumeSession(p)
    \/ ResumeFails(p) \/ UpdateProtonRefresh(p) \/ UpdateFails(p) \/ Close(p)

Next == \E p \in Proc : Login(p) \/ Step(p) \/ AutoRefresh(p) \/ RefreshLost(p) \/ Stop(p)

Spec == Init /\ [][Next]_vars
-----------------------------------------------------------------------------
(***************************************************************************)
(* Properties.                                                             *)
(***************************************************************************)
\* "Propagating ctx here is correct": unless a process is just about to store a
\* rotated token, the stored token is the one Proton accepts, whatever the
\* processes' runs do to each other (onRefresh, UpdateProtonRefresh).
StoredTokenIsCurrent ==
    (row # None /\ \A p \in Proc : pc[p] # "persist") => row.token = "current"

\* "Every field is encrypted with a key derived from PCS_ENCRYPTION_KEY and the
\* stored Salt": the row always decrypts, so that the next run can load it.
RowDecrypts == row # None => row.key = row.sess

\* A process has the one copy left of the row's session's token.
HoldsLease(p) ==
    /\ row # None /\ row.token = "used"
    /\ pc[p] \in {"persist", "work"}
    /\ cred[p] = [sess |-> row.sess, token |-> "current"]

Lease ==
    IF row = None THEN "absent"
    ELSE IF ~RowDecrypts THEN "lost"
    ELSE IF row.token = "current" THEN "stored"
    ELSE IF \E p \in Proc : HoldsLease(p) THEN CHOOSE p \in Proc : HoldsLease(p)
    ELSE "lost"

\* The faults that lose a token Proton has issued.
MayLose == Fault \cap {"lost", "cancel", "busy"} # {} \/ "persist" \in StopAt

\* Such a fault may have happened.
Disturbed == MayLose /\ faults > 0

\* The stored token is the one Proton accepts at least until the first fault: the
\* processes' interleavings alone never lose it, whichever login it is of.
UnfaultedTokenIsCurrent == ~Disturbed => StoredTokenIsCurrent

Abstract == INSTANCE TokenLease
                WITH Absent <- "absent", Stored <- "stored", Lost <- "lost",
                     lease <- Lease, mayLose <- Disturbed \/ ~RowDecrypts

\* Processes that resume the same session pass its token on like a lease: one
\* at a time takes it out of the database and puts a new one back; it is lost
\* only by a fault, or to a run of the session before that writes its token over
\* that of a later init, and then until the next init.
LeaseIsKept == Abstract!Spec
-----------------------------------------------------------------------------
(***************************************************************************)
(* The inductive invariant behind LeaseIsKept and UnfaultedTokenIsCurrent. *)
(***************************************************************************)
Current(p) == cred[p] # None /\ cred[p].token = "current"

\* What is in use is of a session that Proton has seen; a login that is not
\* saved is known to its process only.
SessionsKnown ==
    /\ \A p \in Proc : (pc[p] = "idle") <=> (cred[p] = None)
    /\ \A p \in Proc : cred[p] # None => cred[p].sess \in sessions
    /\ row # None => row.sess \in sessions /\ row.key \in sessions
    /\ \A p \in Proc : pc[p] = "login" =>
          /\ Current(p)
          /\ \A q \in Proc \ {p} : cred[q] # None => cred[q].sess # cred[p].sess
          /\ row # None => row.sess # cred[p].sess /\ row.key # cred[p].sess
    /\ \A p \in Proc : pc[p] \in {"resume", "persist", "work"} => row # None

\* Of each session's token there is one copy that Proton accepts, once a process
\* has rotated it and until that process has stored it.
OneCopy ==
    /\ \A p, q \in Proc :
          /\ pc[p] \in {"persist", "work"} /\ pc[q] \in {"persist", "work"}
          /\ Current(p) /\ Current(q) /\ cred[p].sess = cred[q].sess
          => p = q
    /\ \A p \in Proc : pc[p] = "persist" =>
          /\ Current(p)
          /\ \A q \in Proc \ {p} : Current(q) => cred[q].sess # cred[p].sess
          /\ row.key = cred[p].sess => row.token = "used"
    /\ (row # None /\ row.token = "used") =>
          \A p \in Proc : pc[p] = "resume" /\ cred[p].sess = row.key => ~Current(p)

\* Before a fault that can lose it, the token is in the row or about to be.
NeverLost ==
    (row # None /\ row.token = "used") =>
        Disturbed \/ \E p \in Proc : pc[p] = "persist" /\ cred[p].sess = row.key
=============================================================================
