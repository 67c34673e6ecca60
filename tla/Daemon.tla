-------------------------------- MODULE Daemon --------------------------------
(***************************************************************************)
(* The processes around the runs of Session: every command opens the       *)
(* database and migrates its schema first (internal/db/db.go), and the     *)
(* daemon of internal/cli/run.go makes a run at once and then one for each *)
(* tick, until a signal has been turned into a cancelled context.          *)
(***************************************************************************)
EXTENDS Session

CONSTANTS
    Daemons,     \* the processes that are daemons; the others are commands
    NoInterval,  \* the daemons whose sync.interval_seconds is not positive
    NColumns,    \* the number of columns that migrate ensures, in a fixed order
    OldSchema    \* the columns that a database may be found with

Column == 1 .. NColumns
Open   == NColumns + 1

ASSUME DaemonAssumption ==
    /\ NoInterval \subseteq Daemons /\ Daemons \subseteq Proc
    /\ NColumns \in Nat \ {0}
    /\ OldSchema \subseteq SUBSET Column

VARIABLES
    columns,  \* the columns that the database has
    at,       \* 0: no database; k: ensureColumn is at column k; Open: migrated
    missing,  \* ensureColumn did not find the column, and is about to add it
    loop,     \* "run" while a process makes a run, "select" between them, or "off"
    tick,     \* the ticker's channel: none yet, empty ("armed") or full ("due")
    ctx       \* the daemon's context; "signalled" until the goroutine cancels it

daemonVars == <<columns, at, missing, loop, tick, ctx>>
allVars    == <<vars, daemonVars>>

DaemonTypeOK ==
    /\ TypeOK
    /\ columns \subseteq Column
    /\ at \in [Proc -> 0 .. Open]
    /\ missing \in [Proc -> BOOLEAN]
    /\ loop \in [Proc -> {"off", "run", "select"}]
    /\ tick \in [Proc -> {"none", "armed", "due"}]
    /\ ctx \in [Proc -> {"live", "signalled", "cancelled"}]

DaemonInit ==
    /\ Init
    /\ columns \in OldSchema
    /\ at = [p \in Proc |-> 0] /\ missing = [p \in Proc |-> FALSE]
    /\ loop = [p \in Proc |-> "off"]
    /\ tick = [p \in Proc |-> "none"] /\ ctx = [p \in Proc |-> "live"]

Cancelled(p) == ctx[p] = "cancelled"

\* The process ends: the daemon returns, panics or is killed.
Exit(p) ==
    /\ loop' = [loop EXCEPT ![p] = "off"]
    /\ tick' = [tick EXCEPT ![p] = "none"]
    /\ ctx' = [ctx EXCEPT ![p] = "live"]

\* Mutant of RunReturns: a run that fails before it is at work ends the daemon.
RunReturnsOrExits(p) ==
    /\ at' = [at EXCEPT ![p] = 0] /\ missing' = [missing EXCEPT ![p] = FALSE]
    /\ IF p \in Daemons \ NoInterval /\ (pc[p] = "work" \/ Cancelled(p))
       THEN /\ loop' = [loop EXCEPT ![p] = "select"]
            /\ tick' = [tick EXCEPT ![p] = IF @ = "none" THEN "armed" ELSE @]
            /\ UNCHANGED ctx
       ELSE Exit(p)
    /\ UNCHANGED columns

\* A run returns, with an error or without, and closes the database.  After the
\* first one the daemon makes its ticker, which panics without an interval.
RunReturns(p) ==
    /\ at' = [at EXCEPT ![p] = 0] /\ missing' = [missing EXCEPT ![p] = FALSE]
    /\ IF p \in Daemons \ NoInterval
       THEN /\ loop' = [loop EXCEPT ![p] = "select"]
            /\ tick' = [tick EXCEPT ![p] = IF @ = "none" THEN "armed" ELSE @]
            /\ UNCHANGED ctx
       ELSE Exit(p)
    /\ UNCHANGED columns
-----------------------------------------------------------------------------
(***************************************************************************)
(* Opening the database: one PRAGMA for each column, and an ALTER TABLE if *)
(* it did not name the column.                                             *)
(***************************************************************************)
\* Mutant of OpenDB: only the newest column is ensured.
OpenNewest(p) ==
    /\ loop[p] = "run" /\ at[p] = 0 /\ ~Cancelled(p)
    /\ at' = [at EXCEPT ![p] = Open - 1]
    /\ UNCHANGED <<vars, columns, missing, loop, tick, ctx>>

OpenDB(p) ==
    /\ loop[p] = "run" /\ at[p] = 0 /\ ~Cancelled(p)
    /\ at' = [at EXCEPT ![p] = 1]
    /\ UNCHANGED <<vars, columns, missing, loop, tick, ctx>>

SeeColumn(p) ==
    /\ at[p] \in Column /\ ~missing[p] /\ ~Cancelled(p)
    /\ IF at[p] \in columns
       THEN at' = [at EXCEPT ![p] = @ + 1] /\ UNCHANGED missing
       ELSE missing' = [missing EXCEPT ![p] = TRUE] /\ UNCHANGED at
    /\ UNCHANGED <<vars, columns, loop, tick, ctx>>

AddColumn(p) ==
    /\ missing[p] /\ at[p] \notin columns /\ ~Cancelled(p)
    /\ columns' = columns \cup {at[p]}
    /\ at' = [at EXCEPT ![p] = @ + 1]
    /\ missing' = [missing EXCEPT ![p] = FALSE]
    /\ UNCHANGED <<vars, loop, tick, ctx>>

\* Another process has added the column: SQLite refuses, and the command fails.
\* So does every statement under a cancelled context.
OpenFails(p) ==
    /\ loop[p] = "run" /\ at[p] # Open
    /\ Cancelled(p) \/ (missing[p] /\ at[p] \in columns)
    /\ RunReturns(p)
    /\ UNCHANGED vars

\* There is no row, or it does not decrypt, or the context is cancelled.
LoadFails(p) ==
    /\ at[p] = Open /\ pc[p] = "idle"
    /\ row = None \/ ~RowDecrypts \/ Cancelled(p)
    /\ RunReturns(p)
    /\ UNCHANGED vars
-----------------------------------------------------------------------------
(***************************************************************************)
(* A run, as in Session, under the daemon's context.                       *)
(***************************************************************************)
\* Calls and statements fail; the run's loops return at their next look at ctx.
CancelledStep(p) ==
    \/ ResumeFails(p)
    \/ pc[p] = "resume" /\ End(p) /\ UNCHANGED <<row, sessions, faults>>
    \/ pc[p] = "persist" /\ Goto(p, "work") /\ UNCHANGED <<row, sessions, cred, faults>>
    \/ Close(p)

Returning(p) ==
    IF pc[p] # "idle" /\ pc'[p] = "idle" THEN RunReturns(p) ELSE UNCHANGED daemonVars

RunStep(p) ==
    /\ at[p] = Open
    /\ (~Cancelled(p) /\ Step(p)) \/ (Cancelled(p) /\ CancelledStep(p))
    /\ Returning(p)

\* What a run may meet, and init's login: a command logs in, never a daemon.
RunChance(p) ==
    /\ at[p] = Open
    /\ \/ ~Cancelled(p) /\ AutoRefresh(p)
       \/ RefreshLost(p)
       \/ p \notin Daemons /\ Login(p)
    /\ UNCHANGED daemonVars
-----------------------------------------------------------------------------
(***************************************************************************)
(* The processes.                                                          *)
(***************************************************************************)
Start(p) ==
    /\ loop[p] = "off"
    /\ loop' = [loop EXCEPT ![p] = "run"]
    /\ UNCHANGED <<vars, columns, at, missing, tick, ctx>>

Tick(d) ==
    /\ tick[d] = "armed"
    /\ tick' = [tick EXCEPT ![d] = "due"]
    /\ UNCHANGED <<vars, columns, at, missing, loop, ctx>>

\* The select of the loop takes either case if both are ready.
TakeTick(d) ==
    /\ loop[d] = "select" /\ tick[d] = "due"
    /\ loop' = [loop EXCEPT ![d] = "run"]
    /\ tick' = [tick EXCEPT ![d] = "armed"]
    /\ UNCHANGED <<vars, columns, at, missing, ctx>>

\* Mutant of StopDaemon: a tick that is due goes first.
StopUnlessDue(d) ==
    /\ loop[d] = "select" /\ Cancelled(d) /\ tick[d] # "due"
    /\ Exit(d)
    /\ UNCHANGED <<vars, columns, at, missing>>

StopDaemon(d) ==
    /\ loop[d] = "select" /\ Cancelled(d)
    /\ Exit(d)
    /\ UNCHANGED <<vars, columns, at, missing>>

\* SIGINT or SIGTERM; counted with the faults, as it fails what it interrupts.
Signal(d) ==
    /\ loop[d] # "off" /\ ctx[d] = "live" /\ faults < MaxFault
    /\ faults' = faults + 1
    /\ ctx' = [ctx EXCEPT ![d] = "signalled"]
    /\ UNCHANGED <<row, sessions, pc, cred, columns, at, missing, loop, tick>>

\* The signal goroutine calls cancel.
Cancel(d) ==
    /\ ctx[d] = "signalled"
    /\ ctx' = [ctx EXCEPT ![d] = "cancelled"]
    /\ UNCHANGED <<vars, columns, at, missing, loop, tick>>

Kill(p) ==
    /\ loop[p] # "off"
    /\ \/ Stop(p)
       \/ /\ pc[p] = "idle" /\ StopAt # {} /\ faults < MaxFault
          /\ faults' = faults + 1
          /\ UNCHANGED <<row, sessions, pc, cred>>
    /\ at' = [at EXCEPT ![p] = 0] /\ missing' = [missing EXCEPT ![p] = FALSE]
    /\ Exit(p)
    /\ UNCHANGED columns
-----------------------------------------------------------------------------
Progress(p) ==
    \/ OpenDB(p) \/ SeeColumn(p) \/ AddColumn(p) \/ OpenFails(p) \/ LoadFails(p) \/ RunStep(p)

DaemonNext ==
    \/ \E p \in Proc : Progress(p) \/ RunChance(p) \/ Start(p) \/ Kill(p)
    \/ \E d \in Daemons : Tick(d) \/ TakeTick(d) \/ StopDaemon(d) \/ Signal(d) \/ Cancel(d)

\* A process that runs goes on, time passes, and the goroutine is scheduled.  Go's
\* select picks one of the ready cases at random, so that StopDaemon cannot be
\* passed over for ever.
DaemonSpec ==
    /\ DaemonInit /\ [][DaemonNext]_allVars
    /\ \A p \in Proc : WF_allVars(Progress(p))
    /\ \A d \in Daemons : /\ WF_allVars(Tick(d)) /\ WF_allVars(TakeTick(d))
                          /\ WF_allVars(Cancel(d)) /\ SF_allVars(StopDaemon(d))
-----------------------------------------------------------------------------
(***************************************************************************)
(* Properties.                                                             *)
(***************************************************************************)
\* Whoever reads or writes rows has found every column there, however many
\* processes were migrating an older schema at the same time (ensureColumn).
SchemaWhole == \A p \in Proc : pc[p] # "idle" => columns = Column

\* "Log error and continue daemon": a daemon that has an interval ends by a
\* cancelled context or a kill only, whatever its runs fail of (runDaemon).
DaemonOutlivesErrors ==
    [][ \A d \in Daemons \ NoInterval :
           (loop[d] # "off" /\ loop'[d] = "off") => Cancelled(d) \/ faults' > faults ]_allVars

\* "Gracefully shuts down on SIGINT or SIGTERM": after a signal the daemon ends,
\* whatever it was doing, ticks that are due included; the break in the loop of
\* runDaemon, which leaves the select only, is enough.
SignalStops ==
    \A d \in Daemons : (ctx[d] # "live") ~> (loop[d] = "off")

Resident == {d \in Daemons \ NoInterval : loop[d] # "off"}

\* Once there is a session, a daemon gets some process to work with it, unless it
\* is stopped or a fault, or a run of the session before, has cost the token:
\* migrating against each other, failed refreshes and taking each other's tokens
\* lock nobody out for good.
RunsGoOn ==
    (row # None /\ Resident # {})
        ~> (\/ \E p \in Proc : pc[p] = "work"
            \/ Resident = {} \/ ~RowDecrypts \/ (Lease = "lost" /\ Disturbed))
-----------------------------------------------------------------------------
(***************************************************************************)
(* The inductive invariant behind SchemaWhole and DaemonOutlivesErrors.    *)
(***************************************************************************)
\* A process has seen or added every column that it is past, and no column is
\* ever dropped; whoever is at something has a whole schema, and has credentials;
\* a context ends after a signal only.
SchemaInv ==
    /\ \A p \in Proc : (pc[p] = "idle") <=> (cred[p] = None)
    /\ \A p \in Proc : pc[p] # "idle" => at[p] = Open
    /\ \A p \in Proc, c \in Column : c < at[p] => c \in columns
    /\ \A p \in Proc : missing[p] => at[p] \in Column
    /\ \A p \in Proc : ctx[p] # "live" => faults > 0
=============================================================================
