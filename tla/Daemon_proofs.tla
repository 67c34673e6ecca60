---------------------------- MODULE Daemon_proofs ----------------------------
(***************************************************************************)
(* Theorems about Session, for every set of processes and logins, and      *)
(* about Daemon, for any number of daemons, commands and columns: those of *)
(* its own, and those of Session under the daemons' contexts.              *)
(***************************************************************************)
EXTENDS Daemon, TLAPS

(***************************************************************************)
(* Session.                                                                *)
(***************************************************************************)
\* Rotating a token keeps the row and the copies what they are, but for their
\* tokens.
LEMMA RotateType ==
    ASSUME TypeOK, NEW p \in Proc, cred[p] # None, NEW mine \in Token, RotateToken(p, mine)
    PROVE  row' \in Row \cup {None} /\ cred' \in [Proc -> Cred \cup {None}]
<1>1. cred[p] \in Cred
    BY DEF TypeOK
<1> QED BY <1>1 DEF TypeOK, RotateToken, Row, Cred, Token

\* The type invariant, which needs to know that a running process has credentials.
LEMMA TypeStep ==
    TypeOK /\ (\A p \in Proc : (pc[p] = "idle") <=> (cred[p] = None)) /\ [Next]_vars => TypeOK'
<1> SUFFICES ASSUME TypeOK, \A p \in Proc : (pc[p] = "idle") <=> (cred[p] = None),
                    [Next]_vars
             PROVE  TypeOK'
    OBVIOUS
<1>1. ASSUME NEW p \in Proc, Login(p) PROVE TypeOK'
    BY <1>1 DEF Login, Goto, TypeOK, PC, Cred, Token
<1>2. ASSUME NEW p \in Proc, SaveCredentials(p) PROVE TypeOK'
  <2>1. cred[p] \in Cred
      BY <1>2 DEF SaveCredentials, TypeOK
  <2> QED BY <1>2, <2>1 DEF SaveCredentials, End, Goto, TypeOK, PC, Cred, Row
<1>3. ASSUME NEW p \in Proc, LoadDecryptedCredentials(p) PROVE TypeOK'
    BY <1>3 DEF LoadDecryptedCredentials, Goto, TypeOK, PC, Cred, Row
<1>4. ASSUME NEW p \in Proc, ResumeSession(p) \/ AutoRefresh(p) PROVE TypeOK'
    BY <1>4, RotateType DEF ResumeSession, AutoRefresh, Goto, TypeOK, PC, Token
<1>5. ASSUME NEW p \in Proc, RefreshLost(p) PROVE TypeOK'
    BY <1>5, RotateType, SessionAssumption DEF RefreshLost, Fails, TypeOK, Token
<1>6. ASSUME NEW p \in Proc, ResumeFails(p) \/ Close(p) \/ Stop(p) PROVE TypeOK'
    BY <1>6, SessionAssumption DEF ResumeFails, Close, Stop, End, Goto, Fails, TypeOK, PC
<1>7. ASSUME NEW p \in Proc, UpdateProtonRefresh(p) PROVE TypeOK'
  <2>1. cred[p] \in Cred
      BY <1>7 DEF UpdateProtonRefresh, TypeOK
  <2> QED BY <1>7, <2>1 DEF UpdateProtonRefresh, Goto, TypeOK, PC, Cred, Row
<1>8. ASSUME NEW p \in Proc, UpdateFails(p) PROVE TypeOK'
    BY <1>8, SessionAssumption DEF UpdateFails, Fails, Goto, TypeOK, PC
<1>9. CASE UNCHANGED vars
    BY <1>9 DEF vars, TypeOK
<1> QED BY <1>1, <1>2, <1>3, <1>4, <1>5, <1>6, <1>7, <1>8, <1>9 DEF Next, Step

\* A process has credentials in memory exactly while it is at something.
LEMMA LoadedStep ==
    TypeOK /\ (\A p \in Proc : (pc[p] = "idle") <=> (cred[p] = None)) /\ [Next]_vars
        => (\A p \in Proc : (pc[p] = "idle") <=> (cred[p] = None))'
<1> DEFINE Loaded == \A p \in Proc : (pc[p] = "idle") <=> (cred[p] = None)
<1> SUFFICES ASSUME TypeOK, Loaded, [Next]_vars PROVE Loaded'
    OBVIOUS
<1>1. ASSUME NEW p \in Proc, Login(p) PROVE Loaded'
    BY <1>1, SessionAssumption DEF Login, Goto, TypeOK, Token
<1>2. ASSUME NEW p \in Proc, SaveCredentials(p) \/ ResumeFails(p) \/ Close(p) \/ Stop(p)
      PROVE  Loaded'
    BY <1>2 DEF SaveCredentials, ResumeFails, Close, Stop, End, Goto, TypeOK
<1>3. ASSUME NEW p \in Proc, LoadDecryptedCredentials(p) PROVE Loaded'
    BY <1>3, SessionAssumption DEF LoadDecryptedCredentials, Goto, TypeOK, Row, Token
<1>4. ASSUME NEW p \in Proc, ResumeSession(p) \/ AutoRefresh(p) \/ RefreshLost(p)
      PROVE  Loaded'
  <2>1. pc[p] # "idle" /\ pc'[p] # "idle"
        /\ \A q \in Proc \ {p} : pc'[q] = pc[q]
      BY <1>4 DEF ResumeSession, AutoRefresh, RefreshLost, Goto, TypeOK
  <2>2. PICK mine \in Token : RotateToken(p, mine)
      BY <1>4 DEF ResumeSession, AutoRefresh, RefreshLost, Token
  <2>3. \A q \in Proc : cred[q] # None => cred'[q] \in Cred
      BY <2>1, <2>2 DEF RotateToken, TypeOK, Cred, Token
  <2>4. \A q \in Proc : cred[q] = None => cred'[q] = None
      BY <2>1, <2>2 DEF RotateToken, TypeOK
  <2> QED BY <2>1, <2>3, <2>4, SessionAssumption DEF TypeOK, Cred, Token
<1>5. ASSUME NEW p \in Proc, UpdateProtonRefresh(p) \/ UpdateFails(p) PROVE Loaded'
    BY <1>5 DEF UpdateProtonRefresh, UpdateFails, Goto, TypeOK
<1>6. CASE UNCHANGED vars
    BY <1>6 DEF vars
<1> QED BY <1>1, <1>2, <1>3, <1>4, <1>5, <1>6 DEF Next, Step

\* The row, the processes' program counters and their copies always have their
\* types, also when init is run beside the daemon (Credentials, Session).
THEOREM TypeTheorem == Spec => []TypeOK
<1> DEFINE Loaded == \A p \in Proc : (pc[p] = "idle") <=> (cred[p] = None)
<1>1. Init => TypeOK /\ Loaded
    BY SessionAssumption DEF Init, TypeOK, PC
<1> QED BY <1>1, TypeStep, LoadedStep, PTL DEF Spec
-----------------------------------------------------------------------------
(***************************************************************************)
(* One copy of each session's token, whoever logs in beside whom.          *)
(***************************************************************************)
SessionInv == SessionsKnown /\ OneCopy

LEMMA NoNone == None \notin Cred /\ None \notin Row
BY SessionAssumption DEF Cred, Row, Token

\* What a rotation does to the row and to the copies: it uses up those of the
\* same session, and leaves the others alone.
LEMMA RotateStep ==
    ASSUME TypeOK, NEW p \in Proc, cred[p] # None, NEW mine \in Token, RotateToken(p, mine)
    PROVE  /\ cred'[p] = [sess |-> cred[p].sess, token |-> mine]
           /\ \A q \in Proc : /\ (cred'[q] = None) <=> (cred[q] = None)
                              /\ cred[q] # None => cred'[q].sess = cred[q].sess
           /\ \A q \in Proc \ {p} : IF cred[q] # None /\ cred[q].sess = cred[p].sess
                                    THEN ~Current(q)' ELSE cred'[q] = cred[q]
           /\ (row' = None) <=> (row = None)
           /\ row # None => /\ row'.sess = row.sess /\ row'.key = row.key
                            /\ row'.token = IF row.key = cred[p].sess THEN "used"
                                            ELSE row.token
<1>1. cred[p] \in Cred /\ cred'[p] = [sess |-> cred[p].sess, token |-> mine]
      /\ cred'[p] \in Cred
    BY DEF TypeOK, RotateToken, Cred
<1>2. \A q \in Proc \ {p} : cred'[q] = IF cred[q] # None /\ cred[q].sess = cred[p].sess
                                       THEN [cred[q] EXCEPT !.token = "used"] ELSE cred[q]
    BY DEF RotateToken
<1>3. ASSUME NEW q \in Proc, cred[q] # None
      PROVE  /\ [cred[q] EXCEPT !.token = "used"] \in Cred
             /\ [cred[q] EXCEPT !.token = "used"].sess = cred[q].sess
             /\ [cred[q] EXCEPT !.token = "used"].token = "used"
  <2>1. cred[q] \in Cred
      BY <1>3 DEF TypeOK
  <2> QED BY <2>1 DEF Cred, Token
<1>4. \A q \in Proc : /\ (cred'[q] = None) <=> (cred[q] = None)
                      /\ cred[q] # None => cred'[q].sess = cred[q].sess
  <2>1. ASSUME NEW q \in Proc \ {p}
        PROVE  /\ (cred'[q] = None) <=> (cred[q] = None)
               /\ cred[q] # None => cred'[q].sess = cred[q].sess
      BY <1>2, <1>3, NoNone
  <2>2. /\ cred'[p] # None /\ cred[p] # None
        /\ cred'[p].sess = cred[p].sess
      BY <1>1, NoNone
  <2> QED BY <2>1, <2>2
<1>5. \A q \in Proc \ {p} : IF cred[q] # None /\ cred[q].sess = cred[p].sess
                            THEN ~Current(q)' ELSE cred'[q] = cred[q]
    BY <1>2, <1>3 DEF Current
<1>6. CASE row = None
    BY <1>1, <1>4, <1>5, <1>6 DEF RotateToken
<1>7. CASE row # None
  <2>1. row \in Row
      BY <1>7 DEF TypeOK
  <2>2. /\ row' \in Row /\ row'.sess = row.sess /\ row'.key = row.key
        /\ row'.token = IF row.key = cred[p].sess THEN "used" ELSE row.token
      BY <1>7, <2>1 DEF RotateToken, Row, Token
  <2> QED BY <1>1, <1>4, <1>5, <1>7, <2>2, NoNone
<1> QED BY <1>6, <1>7

\* A rotation by a process that has the current token; it has the new one, or
\* has lost it.
LEMMA RotateKeeps ==
    ASSUME TypeOK, SessionInv, NEW p \in Proc, pc[p] \in {"resume", "work"}, Current(p),
           NEW mine \in Token, RotateToken(p, mine), sessions' = sessions,
           \/ mine = "current" /\ pc' = [pc EXCEPT ![p] = "persist"]
           \/ mine = "used" /\ pc' = pc
    PROVE  SessionInv'
<1> USE DEF SessionInv
<1>1. cred[p] # None /\ row # None
    BY DEF Current, SessionsKnown
<1>2. /\ cred'[p] = [sess |-> cred[p].sess, token |-> mine]
      /\ \A q \in Proc : /\ (cred'[q] = None) <=> (cred[q] = None)
                         /\ cred[q] # None => cred'[q].sess = cred[q].sess
      /\ \A q \in Proc \ {p} : IF cred[q] # None /\ cred[q].sess = cred[p].sess
                               THEN ~Current(q)' ELSE cred'[q] = cred[q]
      /\ row' # None /\ row'.sess = row.sess /\ row'.key = row.key
      /\ row'.token = IF row.key = cred[p].sess THEN "used" ELSE row.token
    BY <1>1, RotateStep
<1>3. /\ \A q \in Proc \ {p} : pc'[q] = pc[q]
      /\ pc'[p] \notin {"idle", "login"}
      /\ pc'[p] = "persist" => Current(p)'
      /\ pc'[p] = "resume" => ~Current(p)'
      /\ Current(p)' => pc'[p] = "persist"
    BY <1>1, <1>2 DEF TypeOK, Current
<1>4. SessionsKnown'
  <2>1. ASSUME NEW q \in Proc
        PROVE  /\ (pc'[q] = "idle") <=> (cred'[q] = None)
               /\ cred'[q] # None => cred'[q].sess \in sessions'
               /\ pc'[q] \in {"resume", "persist", "work"} => row' # None
      BY <1>1, <1>2, <1>3 DEF SessionsKnown
  <2>2. ASSUME NEW q \in Proc, pc'[q] = "login"
        PROVE  /\ Current(q)'
               /\ \A r \in Proc \ {q} : cred'[r] # None => cred'[r].sess # cred'[q].sess
               /\ row' # None => row'.sess # cred'[q].sess /\ row'.key # cred'[q].sess
    <3>1. /\ q # p /\ pc[q] = "login" /\ Current(q)
          /\ \A r \in Proc \ {q} : cred[r] # None => cred[r].sess # cred[q].sess
          /\ row.sess # cred[q].sess /\ row.key # cred[q].sess
        BY <1>1, <1>3, <2>2 DEF SessionsKnown
    <3>2. cred'[q] = cred[q]
        BY <1>1, <1>2, <3>1
    <3> QED BY <1>2, <3>1, <3>2 DEF Current
  <2>3. row' # None => row'.sess \in sessions' /\ row'.key \in sessions'
      BY <1>1, <1>2 DEF SessionsKnown
  <2> QED BY <2>1, <2>2, <2>3 DEF SessionsKnown
<1>5. \A q \in Proc \ {p} : Current(q)' =>
          Current(q) /\ cred'[q] = cred[q] /\ cred[q].sess # cred[p].sess
    BY <1>2 DEF Current
<1>6. ASSUME NEW q \in Proc, NEW r \in Proc,
             pc'[q] \in {"persist", "work"}, pc'[r] \in {"persist", "work"},
             Current(q)', Current(r)', cred'[q].sess = cred'[r].sess
      PROVE  q = r
    BY <1>1, <1>2, <1>3, <1>5, <1>6 DEF OneCopy
<1>7. ASSUME NEW q \in Proc, pc'[q] = "persist"
      PROVE  /\ Current(q)'
             /\ \A r \in Proc \ {q} : Current(r)' => cred'[r].sess # cred'[q].sess
             /\ row'.key = cred'[q].sess => row'.token = "used"
  <2>1. CASE q = p
      BY <1>1, <1>2, <1>3, <1>5, <1>7, <2>1
  <2>2. CASE q # p
    <3>1. /\ pc[q] = "persist" /\ Current(q)
          /\ \A r \in Proc \ {q} : Current(r) => cred[r].sess # cred[q].sess
          /\ row.key = cred[q].sess => row.token = "used"
        BY <1>3, <1>7, <2>2 DEF OneCopy
    <3>2. cred[p].sess # cred[q].sess /\ cred'[q] = cred[q]
        BY <1>2, <2>2, <3>1
    <3>3. Current(q)'
        BY <3>1, <3>2 DEF Current
    <3>4. \A r \in Proc \ {q} : Current(r)' => cred'[r].sess # cred'[q].sess
        BY <1>1, <1>2, <1>5, <3>1, <3>2
    <3> QED BY <1>2, <3>1, <3>2, <3>3, <3>4
  <2> QED BY <2>1, <2>2
<1>8. ASSUME row'.token = "used", NEW q \in Proc, pc'[q] = "resume",
             cred'[q].sess = row'.key, Current(q)'
      PROVE  FALSE
  <2>1. q # p /\ pc[q] = "resume" /\ Current(q) /\ cred[q].sess # cred[p].sess
        /\ cred'[q] = cred[q]
      BY <1>3, <1>5, <1>8
  <2> QED BY <1>1, <1>2, <1>8, <2>1 DEF OneCopy
<1> QED BY <1>4, <1>6, <1>7, <1>8 DEF OneCopy

\* A process that ends, whatever for, leaves the invariant to the others.
LEMMA EndKeeps ==
    ASSUME TypeOK, SessionInv, NEW p \in Proc, End(p), UNCHANGED <<row, sessions>>
    PROVE  SessionInv'
<1>1. /\ pc'[p] = "idle" /\ cred'[p] = None
      /\ \A q \in Proc \ {p} : pc'[q] = pc[q] /\ cred'[q] = cred[q]
    BY DEF End, Goto, TypeOK
<1>2. SessionsKnown'
    BY <1>1 DEF SessionInv, SessionsKnown, Current
<1>3. OneCopy'
    BY <1>1 DEF SessionInv, OneCopy, Current
<1> QED BY <1>2, <1>3 DEF SessionInv

\* So does one that goes to work without having stored its token.
LEMMA UnstoredKeeps ==
    ASSUME TypeOK, SessionInv, NEW p \in Proc, pc[p] = "persist", Goto(p, "work"),
           UNCHANGED <<row, sessions, cred>>
    PROVE  SessionInv'
<1>1. pc'[p] = "work" /\ \A q \in Proc \ {p} : pc'[q] = pc[q]
    BY DEF Goto, TypeOK
<1>2. SessionsKnown'
    BY <1>1 DEF SessionInv, SessionsKnown, Current
<1>3. OneCopy'
    BY <1>1 DEF SessionInv, OneCopy, Current
<1> QED BY <1>2, <1>3 DEF SessionInv

LEMMA LoginKeeps ==
    ASSUME TypeOK, SessionInv, NEW p \in Proc, Login(p)
    PROVE  SessionInv'
<1>1. PICK s \in Sess \ sessions :
          /\ sessions' = sessions \cup {s}
          /\ cred' = [cred EXCEPT ![p] = [sess |-> s, token |-> "current"]]
    BY DEF Login
<1>2. [sess |-> s, token |-> "current"] # None
    BY NoNone DEF Cred, Token
<1>3. /\ pc[p] = "idle" /\ pc'[p] = "login" /\ row' = row
      /\ cred'[p] # None /\ cred'[p].sess = s /\ cred'[p].token = "current"
      /\ \A q \in Proc \ {p} : pc'[q] = pc[q] /\ cred'[q] = cred[q]
    BY <1>1, <1>2 DEF Login, Goto, TypeOK
<1>4. \A q \in Proc : cred[q] # None => cred[q].sess # s
    BY DEF SessionInv, SessionsKnown
<1>5. row # None => row.sess # s /\ row.key # s
    BY DEF SessionInv, SessionsKnown
<1>6. SessionsKnown'
    BY <1>1, <1>3, <1>4, <1>5 DEF SessionInv, SessionsKnown, Current
<1>7. OneCopy'
    BY <1>3, <1>4 DEF SessionInv, OneCopy, Current
<1> QED BY <1>6, <1>7 DEF SessionInv

LEMMA SaveKeeps ==
    ASSUME TypeOK, SessionInv, NEW p \in Proc, SaveCredentials(p)
    PROVE  SessionInv' /\ row' # None /\ row'.token = "current" /\ row'.key = row'.sess
<1>1. /\ pc[p] = "login" /\ Current(p) /\ cred[p].sess \in sessions
      /\ \A q \in Proc \ {p} : cred[q] # None => cred[q].sess # cred[p].sess
    BY DEF SessionInv, SessionsKnown, Current, SaveCredentials
<1>2. cred[p] \in Cred
    BY <1>1 DEF TypeOK, Current
<1>3. /\ row' # None /\ row'.sess = cred[p].sess /\ row'.key = cred[p].sess
      /\ row'.token = "current"
      /\ pc'[p] = "idle" /\ cred'[p] = None /\ sessions' = sessions
      /\ \A q \in Proc \ {p} : pc'[q] = pc[q] /\ cred'[q] = cred[q]
  <2>1. [sess |-> cred[p].sess, key |-> cred[p].sess, token |-> cred[p].token] \in Row
      BY <1>2 DEF Row, Cred
  <2> QED BY <1>1, <2>1, NoNone DEF SaveCredentials, End, Goto, TypeOK, Current
<1>4. SessionsKnown'
    BY <1>1, <1>3 DEF SessionInv, SessionsKnown, Current
<1>5. OneCopy'
    BY <1>1, <1>3 DEF SessionInv, OneCopy, Current
<1> QED BY <1>3, <1>4, <1>5 DEF SessionInv

LEMMA LoadKeeps ==
    ASSUME TypeOK, SessionInv, NEW p \in Proc, LoadDecryptedCredentials(p)
    PROVE  SessionInv'
<1>1. /\ row # None /\ row \in Row /\ row.key = row.sess /\ pc[p] = "idle"
      /\ row' = row /\ sessions' = sessions
    BY DEF LoadDecryptedCredentials, TypeOK
<1>2. [sess |-> row.sess, token |-> row.token] # None
    BY <1>1, NoNone DEF Cred, Row
<1>3. /\ pc'[p] = "resume" /\ cred'[p] # None
      /\ cred'[p].sess = row.sess /\ cred'[p].token = row.token
      /\ \A q \in Proc \ {p} : pc'[q] = pc[q] /\ cred'[q] = cred[q]
    BY <1>2 DEF LoadDecryptedCredentials, Goto, TypeOK
<1>4. SessionsKnown'
    BY <1>1, <1>3 DEF SessionInv, SessionsKnown, Current
<1>5. OneCopy'
    BY <1>1, <1>3 DEF SessionInv, OneCopy, Current
<1> QED BY <1>4, <1>5 DEF SessionInv

\* The UPDATE makes the row that of the process's token, also where the row is one
\* of a later login.
LEMMA StoreKeeps ==
    ASSUME TypeOK, SessionInv, NEW p \in Proc, UpdateProtonRefresh(p)
    PROVE  /\ SessionInv'
           /\ row # None /\ row' # None /\ row'.sess = row.sess
           /\ row'.key = cred[p].sess /\ row'.token = "current"
<1>1. /\ pc[p] = "persist" /\ row # None /\ row \in Row /\ Current(p)
      /\ cred[p].sess \in sessions
      /\ \A q \in Proc \ {p} : Current(q) => cred[q].sess # cred[p].sess
    BY DEF SessionInv, SessionsKnown, OneCopy, UpdateProtonRefresh, TypeOK, Current
<1>2. cred[p] \in Cred
    BY <1>1 DEF TypeOK, Current
<1>3. /\ row' \in Row /\ row'.sess = row.sess /\ row'.key = cred[p].sess
      /\ row'.token = "current"
    BY <1>1, <1>2 DEF UpdateProtonRefresh, Row, Cred, Current
<1>4. row' # None
    BY <1>3, NoNone
<1>5. /\ pc'[p] = "work" /\ UNCHANGED <<cred, sessions>>
      /\ \A q \in Proc \ {p} : pc'[q] = pc[q]
    BY DEF UpdateProtonRefresh, Goto, TypeOK
<1>6. SessionsKnown'
    BY <1>1, <1>3, <1>4, <1>5 DEF SessionInv, SessionsKnown, Current
<1>7. OneCopy'
  <2>1. ASSUME NEW q \in Proc, pc'[q] = "persist"
        PROVE  row'.key # cred'[q].sess
      BY <1>1, <1>3, <1>5, <2>1 DEF SessionInv, OneCopy
  <2> QED BY <1>1, <1>3, <1>5, <2>1 DEF SessionInv, OneCopy, Current
<1> QED BY <1>1, <1>3, <1>4, <1>6, <1>7 DEF SessionInv

\* What the three steps that rotate a token have in common.
LEMMA Rotations ==
    ASSUME TypeOK, SessionInv, NEW p \in Proc,
           ResumeSession(p) \/ AutoRefresh(p) \/ RefreshLost(p)
    PROVE  /\ pc[p] \in {"resume", "work"} /\ Current(p) /\ row # None
           /\ sessions' = sessions
           /\ \/ /\ RotateToken(p, "current") /\ pc' = [pc EXCEPT ![p] = "persist"]
                 /\ ResumeSession(p) \/ AutoRefresh(p)
              \/ /\ RotateToken(p, "used") /\ pc' = pc
                 /\ MayLose /\ faults' = faults + 1
<1>1. /\ pc[p] \in {"resume", "work"} /\ cred[p].token = "current"
      /\ sessions' = sessions
      /\ \/ /\ RotateToken(p, "current") /\ pc' = [pc EXCEPT ![p] = "persist"]
            /\ ResumeSession(p) \/ AutoRefresh(p)
         \/ /\ RotateToken(p, "used") /\ pc' = pc
            /\ MayLose /\ faults' = faults + 1
    BY DEF ResumeSession, AutoRefresh, RefreshLost, Goto, Fails, MayLose
<1> QED BY <1>1 DEF SessionInv, SessionsKnown, Current

\* The inductive step of the invariant, whatever runs beside init.
LEMMA SessionInvStep ==
    TypeOK /\ SessionInv /\ [Next]_vars => SessionInv'
<1> SUFFICES ASSUME TypeOK, SessionInv, [Next]_vars PROVE SessionInv'
    OBVIOUS
<1>1. ASSUME NEW p \in Proc, Login(p) \/ SaveCredentials(p) \/ LoadDecryptedCredentials(p)
                               \/ UpdateProtonRefresh(p)
      PROVE  SessionInv'
    BY <1>1, LoginKeeps, SaveKeeps, LoadKeeps, StoreKeeps
<1>2. ASSUME NEW p \in Proc, ResumeSession(p) \/ AutoRefresh(p) \/ RefreshLost(p)
      PROVE  SessionInv'
    BY <1>2, Rotations, RotateKeeps DEF Token
<1>3. ASSUME NEW p \in Proc, ResumeFails(p) \/ Close(p) \/ Stop(p) PROVE SessionInv'
    BY <1>3, EndKeeps DEF ResumeFails, Close, Stop
<1>4. ASSUME NEW p \in Proc, UpdateFails(p) PROVE SessionInv'
    BY <1>4, UnstoredKeeps DEF UpdateFails
<1>5. CASE UNCHANGED vars
    BY <1>5 DEF vars, SessionInv, SessionsKnown, OneCopy, Current
<1> QED BY <1>1, <1>2, <1>3, <1>4, <1>5 DEF Next, Step

LEMMA InitInv == Init => TypeOK /\ SessionInv /\ NeverLost
BY SessionAssumption
   DEF Init, TypeOK, SessionInv, SessionsKnown, OneCopy, NeverLost, PC, Current

\* Faults are only ever added.
LEMMA FaultsGrow ==
    TypeOK /\ [Next]_vars => faults \in Nat /\ (faults' = faults \/ faults' = faults + 1)
<1> SUFFICES ASSUME TypeOK, [Next]_vars
             PROVE  faults \in Nat /\ (faults' = faults \/ faults' = faults + 1)
    OBVIOUS
<1>1. faults \in Nat
    BY SessionAssumption DEF TypeOK
<1>2. ASSUME NEW p \in Proc, Login(p) \/ Step(p) \/ AutoRefresh(p) \/ RefreshLost(p) \/ Stop(p)
      PROVE  faults' = faults \/ faults' = faults + 1
    BY <1>2 DEF Step, Login, SaveCredentials, LoadDecryptedCredentials, ResumeSession,
       AutoRefresh, ResumeFails, RefreshLost, UpdateProtonRefresh, UpdateFails, Close, Stop,
       Fails
<1>3. CASE UNCHANGED vars
    BY <1>1, <1>3 DEF vars
<1> QED BY <1>1, <1>2, <1>3 DEF Next

\* Before a fault that may lose an issued token, the token is in the row or in the
\* hands of a process that is about to put it there.
LEMMA NeverLostStep ==
    TypeOK /\ SessionInv /\ NeverLost /\ [Next]_vars => NeverLost'
<1> DEFINE Owed == \E p \in Proc : pc[p] = "persist" /\ cred[p].sess = row.key
<1> SUFFICES ASSUME TypeOK, SessionInv, NeverLost, [Next]_vars, ~Disturbed',
                    row' # None, row'.token = "used"
             PROVE  Owed'
    BY DEF NeverLost
<1>0. faults \in Nat /\ faults' \in Nat /\ faults' >= faults
    BY FaultsGrow
<1>a. ~Disturbed /\ (MayLose => faults' = faults)
    BY <1>0 DEF Disturbed
<1>b. (row # None /\ row.token = "used") => Owed
    BY <1>a DEF NeverLost
<1>1. ASSUME NEW p \in Proc, pc[p] # "persist", row' = row,
             \A q \in Proc \ {p} : pc'[q] = pc[q] /\ cred'[q] = cred[q]
      PROVE  Owed'
    BY <1>b, <1>1
<1>2. ASSUME NEW p \in Proc, Login(p) \/ LoadDecryptedCredentials(p) \/ ResumeFails(p)
                               \/ Close(p)
      PROVE  Owed'
  <2>1. /\ pc[p] # "persist" /\ row' = row
        /\ \A q \in Proc \ {p} : pc'[q] = pc[q] /\ cred'[q] = cred[q]
      BY <1>2 DEF Login, LoadDecryptedCredentials, ResumeFails, Close, End, Goto, TypeOK
  <2> QED BY <1>1, <2>1
<1>3. ASSUME NEW p \in Proc, Stop(p) PROVE Owed'
  <2>1. "persist" \notin StopAt
      BY <1>0, <1>a, <1>3 DEF Stop, MayLose
  <2>2. /\ pc[p] # "persist" /\ row' = row
        /\ \A q \in Proc \ {p} : pc'[q] = pc[q] /\ cred'[q] = cred[q]
      BY <1>3, <2>1 DEF Stop, End, Goto, TypeOK
  <2> QED BY <1>1, <2>2
<1>4. ASSUME NEW p \in Proc, SaveCredentials(p) \/ UpdateProtonRefresh(p) PROVE FALSE
  <2>1. row'.token = "current"
      BY <1>4, SaveKeeps, StoreKeeps
  <2> QED BY <2>1
<1>5. ASSUME NEW p \in Proc, ResumeSession(p) \/ AutoRefresh(p) \/ RefreshLost(p)
      PROVE  Owed'
  <2>1. /\ pc[p] \in {"resume", "work"} /\ Current(p) /\ row # None
        /\ RotateToken(p, "current") /\ pc' = [pc EXCEPT ![p] = "persist"]
      BY <1>0, <1>5, <1>a, Rotations
  <2>2. /\ row'.key = row.key
        /\ row'.token = IF row.key = cred[p].sess THEN "used" ELSE row.token
        /\ \A q \in Proc : cred[q] # None => cred'[q].sess = cred[q].sess
      BY <2>1, RotateStep DEF Token, Current
  <2>3. pc'[p] = "persist" /\ \A q \in Proc \ {p} : pc'[q] = pc[q]
      BY <2>1 DEF TypeOK
  <2>4. CASE row.key = cred[p].sess
      BY <2>1, <2>2, <2>3, <2>4 DEF Current
  <2>5. CASE row.key # cred[p].sess
    <3>1. PICK q \in Proc : pc[q] = "persist" /\ cred[q].sess = row.key
        BY <1>b, <2>1, <2>2, <2>5
    <3>2. pc'[q] = "persist" /\ cred'[q].sess = row'.key
        BY <2>1, <2>2, <2>3, <3>1 DEF SessionInv, SessionsKnown
    <3> QED BY <3>2
  <2> QED BY <2>4, <2>5
<1>6. ASSUME NEW p \in Proc, UpdateFails(p) PROVE FALSE
  <2>1. MayLose
      BY <1>6 DEF UpdateFails, Fails, MayLose
  <2> QED BY <1>0, <1>a, <1>6, <2>1 DEF UpdateFails, Fails
<1>7. CASE UNCHANGED vars
    BY <1>b, <1>7 DEF vars
<1> QED BY <1>2, <1>3, <1>4, <1>5, <1>6, <1>7 DEF Next, Step

LEMMA NeverLostCorrect == Spec => [](TypeOK /\ SessionInv /\ NeverLost)
<1>1. TypeOK /\ SessionInv /\ NeverLost /\ [Next]_vars
          => (TypeOK /\ SessionInv /\ NeverLost)'
    BY TypeStep, SessionInvStep, NeverLostStep DEF SessionInv, SessionsKnown
<1> QED BY <1>1, InitInv, PTL DEF Spec

\* Until a fault that may lose an issued token, the row holds a token that Proton
\* accepts whenever no process is about to write it, for any number of processes
\* that share the session, and of logins beside them (onRefresh,
\* UpdateProtonRefresh, SaveCredentials).
THEOREM UnfaultedTheorem == Spec => []UnfaultedTokenIsCurrent
<1>1. TypeOK /\ NeverLost => UnfaultedTokenIsCurrent
    BY DEF TypeOK, NeverLost, UnfaultedTokenIsCurrent, StoredTokenIsCurrent, Row, Token
<1> QED BY <1>1, NeverLostCorrect, PTL

\* Where no such fault can happen, it does so always.
THEOREM TokenTheorem ==
    ASSUME ~MayLose
    PROVE  Spec => []StoredTokenIsCurrent
<1>1. UnfaultedTokenIsCurrent => StoredTokenIsCurrent
    BY DEF UnfaultedTokenIsCurrent, Disturbed
<1> QED BY <1>1, UnfaultedTheorem, PTL
-----------------------------------------------------------------------------
(***************************************************************************)
(* The processes implement the lease.                                      *)
(***************************************************************************)
\* At most one process holds the lease, so that Lease names it.
LEMMA HolderIsLease ==
    ASSUME TypeOK, SessionInv, RowDecrypts, NEW p \in Proc, HoldsLease(p)
    PROVE  Lease = p /\ \A q \in Proc : HoldsLease(q) => q = p
<1>1. \A q \in Proc : HoldsLease(q) => Current(q) /\ cred[q].sess = row.sess
  <2>1. [sess |-> row.sess, token |-> "current"] \in Cred
      BY DEF HoldsLease, TypeOK, Row, Cred, Token
  <2> QED BY <2>1, NoNone DEF HoldsLease, Current
<1>2. \A q \in Proc : HoldsLease(q) => q = p
    BY <1>1 DEF SessionInv, OneCopy, HoldsLease
<1>3. (CHOOSE q \in Proc : HoldsLease(q)) = p
    BY <1>2
<1> QED BY <1>2, <1>3 DEF Lease, HoldsLease, TypeOK, Row

\* The lease is where the row and the holders say it is.
LEMMA LeaseSame ==
    ASSUME UNCHANGED row, \A q \in Proc : HoldsLease(q)' <=> HoldsLease(q)
    PROVE  Lease' = Lease
BY DEF Lease, RowDecrypts

\* What the refinement says of a step, whatever it is a step of.
LeaseMoves ==
    \/ Abstract!Establish \/ Abstract!Lose \/ Lease' = Lease
    \/ \E p \in Proc : Abstract!Take(p) \/ Abstract!GiveBack(p)

LEMMA ToStored ==
    ASSUME Lease' = "stored"
    PROVE  LeaseMoves
<1>1. Lease \in {"absent", "stored", "lost"} \/ \E p \in Proc : Lease = p
    BY DEF Lease
<1> QED BY <1>1 DEF LeaseMoves, Abstract!Establish, Abstract!GiveBack

LEMMA ToLost ==
    ASSUME row # None, Lease' = "lost", (Disturbed \/ ~RowDecrypts)'
    PROVE  LeaseMoves
<1>1. Lease \in {"stored", "lost"} \cup Proc
    BY DEF Lease
<1> QED BY <1>1 DEF LeaseMoves, Abstract!Lose

\* A rotation takes the lease, or passes it from a process to itself, if it is of
\* the row's session.
LEMMA RotateMoves ==
    ASSUME TypeOK, SessionInv, TypeOK', SessionInv', NEW p \in Proc,
           pc[p] \in {"resume", "work"}, Current(p), row # None,
           NEW mine \in Token, RotateToken(p, mine),
           \/ mine = "current" /\ pc' = [pc EXCEPT ![p] = "persist"]
           \/ mine = "used" /\ pc' = pc /\ Disturbed'
    PROVE  LeaseMoves
<1>1. /\ cred'[p] = [sess |-> cred[p].sess, token |-> mine]
      /\ \A q \in Proc \ {p} : IF cred[q] # None /\ cred[q].sess = cred[p].sess
                               THEN ~Current(q)' ELSE cred'[q] = cred[q]
      /\ row' # None /\ row'.sess = row.sess /\ row'.key = row.key
      /\ row'.token = IF row.key = cred[p].sess THEN "used" ELSE row.token
    BY RotateStep DEF Current
<1>2. cred[p] \in Cred /\ row \in Row
    BY DEF Current, TypeOK
<1>3. \A q \in Proc : HoldsLease(q) => cred[q].sess = row.sess /\ Current(q)
  <2>1. [sess |-> row.sess, token |-> "current"] \in Cred
      BY <1>2 DEF Row, Cred, Token
  <2> QED BY <2>1, NoNone DEF HoldsLease, Current
<1>4. \A q \in Proc : HoldsLease(q)' => cred'[q].sess = row.sess /\ Current(q)'
  <2>1. [sess |-> row.sess, token |-> "current"] \in Cred
      BY <1>2 DEF Row, Cred, Token
  <2> QED BY <1>1, <2>1, NoNone DEF HoldsLease, Current
<1>5. CASE ~RowDecrypts
  <2>1. ~RowDecrypts'
      BY <1>1, <1>5 DEF RowDecrypts
  <2>2. Lease = "lost" /\ Lease' = "lost"
      BY <1>1, <1>5, <2>1 DEF Lease
  <2> QED BY <2>2 DEF LeaseMoves
<1>6. CASE RowDecrypts /\ cred[p].sess # row.sess
  <2>1. row' = row
      BY <1>6 DEF RowDecrypts, RotateToken
  <2>2. ~HoldsLease(p) /\ ~HoldsLease(p)'
      BY <1>1, <1>3, <1>4, <1>6
  <2>3. ASSUME NEW q \in Proc \ {p} PROVE HoldsLease(q)' <=> HoldsLease(q)
    <3>1. pc'[q] = pc[q]
        BY DEF TypeOK
    <3>2. CASE cred[q] # None /\ cred[q].sess = cred[p].sess
        BY <1>1, <1>3, <1>4, <1>6, <3>2
    <3>3. CASE ~(cred[q] # None /\ cred[q].sess = cred[p].sess)
      <4>1. cred'[q] = cred[q]
          BY <1>1, <3>3
      <4> QED BY <2>1, <3>1, <4>1 DEF HoldsLease
    <3> QED BY <3>2, <3>3
  <2>4. Lease' = Lease
      BY <2>1, <2>2, <2>3, LeaseSame
  <2> QED BY <2>4 DEF LeaseMoves
<1>7. CASE RowDecrypts /\ cred[p].sess = row.sess
  <2>1. /\ row'.token = "used" /\ RowDecrypts'
        /\ \A q \in Proc \ {p} : ~HoldsLease(q)'
    <3>1. row'.token = "used" /\ RowDecrypts'
        BY <1>1, <1>7 DEF RowDecrypts
    <3>2. ASSUME NEW q \in Proc \ {p} PROVE ~HoldsLease(q)'
      <4>1. CASE cred[q] # None /\ cred[q].sess = cred[p].sess
          BY <1>1, <1>4, <4>1
      <4>2. CASE ~(cred[q] # None /\ cred[q].sess = cred[p].sess)
        <5>1. cred'[q] = cred[q]
            BY <1>1, <4>2
        <5> QED BY <1>4, <1>7, <4>2, <5>1 DEF Current
      <4> QED BY <4>1, <4>2
    <3> QED BY <3>1, <3>2
  <2>2. CASE mine = "used"
    <3>1. ~HoldsLease(p)'
        BY <1>1, <1>4, <2>2 DEF Current
    <3>2. Lease' = "lost"
        BY <1>1, <2>1, <3>1 DEF Lease
    <3>3. Disturbed'
        BY <2>2
    <3> QED BY <3>2, <3>3, ToLost
  <2>3. CASE mine = "current"
    <3>1. pc'[p] = "persist"
        BY <2>3 DEF TypeOK
    <3>2. HoldsLease(p)'
        BY <1>1, <1>7, <2>1, <2>3, <3>1 DEF HoldsLease
    <3>3. Lease' = p
      <4>1. \A q \in Proc : HoldsLease(q)' => q = p
          BY <2>1
      <4>2. (CHOOSE q \in Proc : HoldsLease(q)') = p
          BY <3>2, <4>1
      <4> QED BY <1>1, <2>1, <3>2, <4>2 DEF Lease
    <3>4. CASE row.token = "current"
      <4>1. Lease = "stored"
          BY <1>7, <3>4 DEF Lease
      <4> QED BY <3>3, <4>1 DEF LeaseMoves, Abstract!Take
    <3>5. CASE row.token = "used"
      <4>1. pc[p] = "work"
          BY <1>7, <3>5 DEF SessionInv, OneCopy, RowDecrypts
      <4>2. HoldsLease(p)
          BY <1>2, <1>7, <3>5, <4>1 DEF HoldsLease, Current, Cred
      <4>3. Lease = p
          BY <1>7, <4>2, HolderIsLease
      <4> QED BY <3>3, <4>3 DEF LeaseMoves
    <3> QED BY <1>2, <3>4, <3>5 DEF Row, Token
  <2> QED BY <2>2, <2>3
<1> QED BY <1>5, <1>6, <1>7

\* A process that ends lets the lease be, or loses it, and then a fault has been.
LEMMA EndMoves ==
    ASSUME TypeOK, SessionInv, NeverLost, NEW p \in Proc, End(p), row' = row,
           Disturbed => Disturbed', pc[p] = "persist" => Disturbed'
    PROVE  LeaseMoves
<1>1. /\ \A q \in Proc \ {p} : HoldsLease(q)' <=> HoldsLease(q)
      /\ ~HoldsLease(p)'
    BY DEF End, Goto, HoldsLease, TypeOK
<1>2. CASE ~HoldsLease(p)
    BY <1>1, <1>2, LeaseSame DEF LeaseMoves
<1>3. CASE HoldsLease(p) /\ ~RowDecrypts
  <2>1. ~RowDecrypts' /\ row # None /\ row' # None
      BY <1>3 DEF RowDecrypts, HoldsLease
  <2>2. Lease = "lost" /\ Lease' = "lost"
      BY <1>3, <2>1 DEF Lease
  <2> QED BY <2>2 DEF LeaseMoves
<1>4. CASE HoldsLease(p) /\ RowDecrypts
  <2>1. \A q \in Proc : ~HoldsLease(q)'
      BY <1>1, <1>4, HolderIsLease
  <2>2. row # None /\ row.token = "used" /\ row.key = row.sess
      BY <1>4 DEF HoldsLease, RowDecrypts
  <2>3. Lease' = "lost"
      BY <2>1, <2>2 DEF Lease
  <2>4. Disturbed'
    <3> SUFFICES ASSUME ~Disturbed PROVE Disturbed'
        OBVIOUS
    <3>1. PICK q \in Proc : pc[q] = "persist" /\ cred[q].sess = row.sess
        BY <2>2 DEF NeverLost
    <3>2. Current(q) /\ \A r \in Proc \ {q} : Current(r) => cred[r].sess # row.sess
        BY <3>1 DEF SessionInv, OneCopy
    <3>3. Current(p) /\ cred[p].sess = row.sess
      <4>1. [sess |-> row.sess, token |-> "current"] \in Cred
          BY <2>2 DEF TypeOK, Row, Cred, Token
      <4> QED BY <1>4, <4>1, NoNone DEF HoldsLease, Current
    <3> QED BY <3>1, <3>2, <3>3
  <2> QED BY <2>2, <2>3, <2>4, ToLost
<1> QED BY <1>2, <1>3, <1>4

\* Every step of the processes is a step of the lease, or none.
LEMMA LeaseRefines ==
    ASSUME TypeOK, SessionInv, TypeOK', SessionInv', NeverLost, [Next]_vars
    PROVE  LeaseMoves
<1>d. faults \in Nat /\ faults' \in Nat /\ (Disturbed => Disturbed')
    BY FaultsGrow DEF Disturbed
<1>1. ASSUME NEW p \in Proc, Login(p) \/ LoadDecryptedCredentials(p) \/ ResumeFails(p)
                               \/ UpdateFails(p)
      PROVE  LeaseMoves
  <2>1. UNCHANGED row
      BY <1>1 DEF Login, LoadDecryptedCredentials, ResumeFails, UpdateFails
  <2>2. \A q \in Proc : HoldsLease(q)' <=> HoldsLease(q)
      BY <1>1, <2>1 DEF Login, LoadDecryptedCredentials, ResumeFails, UpdateFails, End, Goto,
         HoldsLease, TypeOK
  <2> QED BY <2>1, <2>2, LeaseSame DEF LeaseMoves
<1>2. ASSUME NEW p \in Proc, SaveCredentials(p) PROVE LeaseMoves
  <2>1. row' # None /\ row'.token = "current" /\ RowDecrypts'
      BY <1>2, SaveKeeps DEF RowDecrypts
  <2>2. Lease' = "stored"
      BY <2>1 DEF Lease
  <2> QED BY <2>2, ToStored
<1>3. ASSUME NEW p \in Proc, UpdateProtonRefresh(p) PROVE LeaseMoves
  <2>1. /\ row # None /\ row' # None /\ row'.sess = row.sess
        /\ row'.key = cred[p].sess /\ row'.token = "current"
      BY <1>3, StoreKeeps
  <2>2. CASE RowDecrypts'
    <3>1. Lease' = "stored"
        BY <2>1, <2>2 DEF Lease
    <3> QED BY <3>1, ToStored
  <2>3. CASE ~RowDecrypts'
    <3>1. Lease' = "lost"
        BY <2>1, <2>3 DEF Lease
    <3> QED BY <2>1, <2>3, <3>1, ToLost
  <2> QED BY <2>2, <2>3
<1>4. ASSUME NEW p \in Proc, ResumeSession(p) \/ AutoRefresh(p) \/ RefreshLost(p)
      PROVE  LeaseMoves
  <2>1. /\ pc[p] \in {"resume", "work"} /\ Current(p) /\ row # None
        /\ \/ RotateToken(p, "current") /\ pc' = [pc EXCEPT ![p] = "persist"]
           \/ RotateToken(p, "used") /\ pc' = pc /\ MayLose /\ faults' = faults + 1
      BY <1>4, Rotations
  <2>2. MayLose /\ faults' = faults + 1 => Disturbed'
      BY <1>d DEF Disturbed
  <2> QED BY <2>1, <2>2, RotateMoves DEF Token
<1>5. ASSUME NEW p \in Proc, Close(p) \/ Stop(p) PROVE LeaseMoves
  <2>1. End(p) /\ row' = row /\ (pc[p] = "persist" => Stop(p))
      BY <1>5 DEF Close, Stop
  <2>2. pc[p] = "persist" => Disturbed'
      BY <1>d, <2>1 DEF Stop, MayLose, Disturbed
  <2> QED BY <1>d, <2>1, <2>2, EndMoves
<1>6. CASE UNCHANGED vars
  <2>1. UNCHANGED row /\ \A q \in Proc : HoldsLease(q)' <=> HoldsLease(q)
      BY <1>6 DEF vars, HoldsLease
  <2> QED BY <2>1, LeaseSame DEF LeaseMoves
<1> QED BY <1>1, <1>2, <1>3, <1>4, <1>5, <1>6 DEF Next, Step

LEMMA LeaseInit == Init => Abstract!Init
BY DEF Init, Abstract!Init, Lease, RowDecrypts, Disturbed

\* The processes that share the stored session implement the lease, for any
\* number of them, and of logins: one at a time takes the token out of the
\* database and owes it a new one (ResumeSession, onRefresh); it is lost by a
\* fault, or while a run of the session before has written over a later init's.
THEOREM LeaseTheorem == Spec => LeaseIsKept
<1> DEFINE Inv == TypeOK /\ SessionInv /\ NeverLost
<1>1. Inv /\ [Next]_vars /\ Inv' => [Abstract!Next]_<<Lease, Disturbed \/ ~RowDecrypts>>
    BY LeaseRefines DEF LeaseMoves, Abstract!Next
<1> QED BY <1>1, LeaseInit, NeverLostCorrect, PTL DEF Spec, LeaseIsKept, Abstract!Spec
-----------------------------------------------------------------------------
(***************************************************************************)
(* Daemon.                                                                 *)
(***************************************************************************)
\* What a cancelled context adds to the steps of Session: a run that ends before
\* it resumes, and an UPDATE that fails.
CancelledResume(p) ==
    /\ Cancelled(p) /\ pc[p] = "resume"
    /\ End(p)
    /\ UNCHANGED <<row, sessions, faults>>

CancelledUpdate(p) ==
    /\ Cancelled(p) /\ pc[p] = "persist"
    /\ Goto(p, "work")
    /\ UNCHANGED <<row, sessions, cred, faults>>

\* A signal, or a kill of a process that has nothing in memory.
CountsFault ==
    /\ faults < MaxFault
    /\ faults' = faults + 1
    /\ UNCHANGED <<row, sessions, pc, cred>>

\* Every step of the daemons is one of Session, or one of these.
LEMMA SessionStep ==
    [DaemonNext]_allVars =>
        \/ [Next]_vars \/ CountsFault
        \/ \E p \in Proc : CancelledResume(p) \/ CancelledUpdate(p)
<1> SUFFICES ASSUME [DaemonNext]_allVars
             PROVE  \/ [Next]_vars \/ CountsFault
                    \/ \E p \in Proc : CancelledResume(p) \/ CancelledUpdate(p)
    OBVIOUS
<1>1. ASSUME NEW p \in Proc, OpenDB(p) \/ SeeColumn(p) \/ AddColumn(p) \/ OpenFails(p)
                               \/ LoadFails(p) \/ Start(p)
      PROVE  UNCHANGED vars
    BY <1>1 DEF OpenDB, SeeColumn, AddColumn, OpenFails, LoadFails, Start
<1>2. ASSUME NEW d \in Daemons, Tick(d) \/ TakeTick(d) \/ StopDaemon(d) \/ Cancel(d)
      PROVE  UNCHANGED vars
    BY <1>2 DEF Tick, TakeTick, StopDaemon, Cancel
<1>3. ASSUME NEW p \in Proc, RunStep(p)
      PROVE  Next \/ CancelledResume(p) \/ CancelledUpdate(p)
    BY <1>3 DEF RunStep, CancelledStep, CancelledResume, CancelledUpdate, Next, Step
<1>4. ASSUME NEW p \in Proc, RunChance(p) PROVE Next
    BY <1>4 DEF RunChance, Next
<1>5. ASSUME NEW p \in Proc, Kill(p) PROVE Next \/ CountsFault
    BY <1>5 DEF Kill, CountsFault, Next
<1>6. ASSUME NEW d \in Daemons, Signal(d) PROVE CountsFault
    BY <1>6 DEF Signal, CountsFault
<1>7. CASE UNCHANGED allVars
    BY <1>7 DEF allVars
<1> QED BY <1>1, <1>2, <1>3, <1>4, <1>5, <1>6, <1>7 DEF DaemonNext, Progress

\* None of these steps breaks the types, or what a process has in memory.
LEMMA SessionTypes ==
    TypeOK /\ (\A p \in Proc : (pc[p] = "idle") <=> (cred[p] = None))
           /\ [DaemonNext]_allVars
        => TypeOK' /\ (\A p \in Proc : (pc[p] = "idle") <=> (cred[p] = None))'
<1> DEFINE Loaded == \A p \in Proc : (pc[p] = "idle") <=> (cred[p] = None)
<1> SUFFICES ASSUME TypeOK, Loaded, [DaemonNext]_allVars PROVE TypeOK' /\ Loaded'
    OBVIOUS
<1>1. CASE [Next]_vars
    BY <1>1, TypeStep, LoadedStep
<1>2. CASE CountsFault
    BY <1>2, SessionAssumption DEF CountsFault, TypeOK
<1>3. ASSUME NEW p \in Proc, CancelledResume(p) PROVE TypeOK' /\ Loaded'
    BY <1>3 DEF CancelledResume, End, Goto, TypeOK, PC
<1>4. ASSUME NEW p \in Proc, CancelledUpdate(p) PROVE TypeOK' /\ Loaded'
    BY <1>4 DEF CancelledUpdate, Goto, TypeOK, PC
<1> QED BY <1>1, <1>2, <1>3, <1>4, SessionStep

\* Faults are only ever added, here as well.
LEMMA DaemonFaultsGrow ==
    TypeOK /\ [DaemonNext]_allVars
        => faults \in Nat /\ faults' \in Nat /\ faults' >= faults
<1> SUFFICES ASSUME TypeOK, [DaemonNext]_allVars
             PROVE  faults \in Nat /\ faults' \in Nat /\ faults' >= faults
    OBVIOUS
<1>1. faults \in Nat
    BY SessionAssumption DEF TypeOK
<1>2. CASE [Next]_vars
    BY <1>1, <1>2, FaultsGrow
<1>3. CASE CountsFault
    BY <1>1, <1>3 DEF CountsFault
<1>4. CASE \E p \in Proc : CancelledResume(p) \/ CancelledUpdate(p)
    BY <1>1, <1>4 DEF CancelledResume, CancelledUpdate
<1> QED BY <1>2, <1>3, <1>4, SessionStep
-----------------------------------------------------------------------------
LEMMA DaemonTypeStep ==
    DaemonTypeOK /\ SchemaInv /\ [DaemonNext]_allVars => DaemonTypeOK'
<1> SUFFICES ASSUME DaemonTypeOK, SchemaInv, [DaemonNext]_allVars PROVE DaemonTypeOK'
    OBVIOUS
<1>1. TypeOK'
    BY SessionTypes DEF DaemonTypeOK, SchemaInv
<1>2. Open \in Nat /\ \A c \in Column : c \in Nat /\ c + 1 \in 0 .. Open /\ c \in 0 .. Open
    BY DaemonAssumption DEF Open, Column
<1> DEFINE Types == /\ columns \subseteq Column
                    /\ at \in [Proc -> 0 .. Open]
                    /\ missing \in [Proc -> BOOLEAN]
                    /\ loop \in [Proc -> {"off", "run", "select"}]
                    /\ tick \in [Proc -> {"none", "armed", "due"}]
                    /\ ctx \in [Proc -> {"live", "signalled", "cancelled"}]
<1>3. Types
    BY DEF DaemonTypeOK
<1>4. ASSUME NEW p \in Proc, RunReturns(p) PROVE Types'
  <2>1. 0 \in 0 .. Open
      BY <1>2
  <2>2. CASE p \in Daemons \ NoInterval
      BY <1>3, <1>4, <2>1, <2>2 DEF RunReturns
  <2>3. CASE p \notin Daemons \ NoInterval
      BY <1>3, <1>4, <2>1, <2>3 DEF RunReturns, Exit
  <2> QED BY <2>2, <2>3
<1>5. ASSUME NEW p \in Proc, OpenDB(p) \/ SeeColumn(p) \/ AddColumn(p) \/ Start(p)
      PROVE  Types'
  <2>1. at[p] = 0 => 1 \in 0 .. Open
      BY <1>2, DaemonAssumption DEF Open
  <2>2. at' \in [Proc -> 0 .. Open]
      BY <1>2, <1>3, <1>5, <2>1, DaemonAssumption
         DEF OpenDB, SeeColumn, AddColumn, Start, SchemaInv
  <2>3. columns' \subseteq Column
      BY <1>3, <1>5 DEF OpenDB, SeeColumn, AddColumn, Start, SchemaInv
  <2>4. missing' \in [Proc -> BOOLEAN]
      BY <1>3, <1>5 DEF OpenDB, SeeColumn, AddColumn, Start
  <2>5. /\ loop' \in [Proc -> {"off", "run", "select"}]
        /\ UNCHANGED <<tick, ctx>>
      BY <1>3, <1>5 DEF OpenDB, SeeColumn, AddColumn, Start
  <2> QED BY <1>3, <2>2, <2>3, <2>4, <2>5
<1>6. ASSUME NEW p \in Proc, OpenFails(p) \/ LoadFails(p) PROVE Types'
    BY <1>4, <1>6 DEF OpenFails, LoadFails
<1>7. ASSUME NEW p \in Proc, RunStep(p) \/ RunChance(p) PROVE Types'
  <2>1. CASE RunReturns(p)
      BY <1>4, <2>1
  <2>2. CASE UNCHANGED daemonVars
      BY <1>3, <2>2 DEF daemonVars
  <2> QED BY <1>7, <2>1, <2>2 DEF RunStep, RunChance, Returning
<1>8. ASSUME NEW p \in Proc, Kill(p) PROVE Types'
    BY <1>2, <1>3, <1>8 DEF Kill, Exit
<1>9. ASSUME NEW d \in Daemons, Tick(d) \/ TakeTick(d) \/ StopDaemon(d) \/ Signal(d)
                                  \/ Cancel(d)
      PROVE  Types'
    BY <1>3, <1>9 DEF Tick, TakeTick, StopDaemon, Exit, Signal, Cancel
<1>10. ASSUME UNCHANGED allVars PROVE Types'
    BY <1>3, <1>10 DEF allVars, daemonVars
<1>11. Types'
  <2> HIDE DEF Types
  <2> QED BY <1>5, <1>6, <1>7, <1>8, <1>9, <1>10 DEF DaemonNext, Progress
<1> QED BY <1>1, <1>11 DEF DaemonTypeOK

LEMMA SchemaStep ==
    DaemonTypeOK /\ SchemaInv /\ [DaemonNext]_allVars => SchemaInv'
<1> SUFFICES ASSUME DaemonTypeOK, SchemaInv, [DaemonNext]_allVars PROVE SchemaInv'
    OBVIOUS
<1> DEFINE Opened == \A p \in Proc : pc[p] # "idle" => at[p] = Open
           Seen   == /\ \A p \in Proc, c \in Column : c < at[p] => c \in columns
                     /\ \A p \in Proc : missing[p] => at[p] \in Column
           Warned == \A p \in Proc : ctx[p] # "live" => faults > 0
<1>1. (\A p \in Proc : (pc[p] = "idle") <=> (cred[p] = None))'
    BY SessionTypes DEF DaemonTypeOK, SchemaInv
<1>2. /\ Open \in Nat /\ Open # 0 /\ Column \subseteq Nat /\ 0 \notin Column
      /\ Open \notin Column /\ \A p \in Proc : at[p] \in Nat
    BY DaemonAssumption DEF Open, Column, DaemonTypeOK
<1>3. Warned'
  <2>1. faults \in Nat /\ faults' \in Nat /\ faults' >= faults
      BY DaemonFaultsGrow DEF DaemonTypeOK
  <2>2. ASSUME NEW p \in Proc, ctx'[p] # "live", ctx[p] = "live" PROVE faults' = faults + 1
    <3>1. ASSUME NEW q \in Proc, Exit(q) PROVE FALSE
        BY <2>2, <3>1 DEF Exit, DaemonTypeOK
    <3>2. ASSUME NEW q \in Proc, RunReturns(q) PROVE FALSE
        BY <2>2, <3>1, <3>2 DEF RunReturns
    <3>3. ASSUME NEW q \in Proc, Progress(q) \/ RunChance(q) \/ Start(q) \/ Kill(q) PROVE FALSE
        BY <2>2, <3>1, <3>2, <3>3
           DEF Progress, OpenDB, SeeColumn, AddColumn, OpenFails, LoadFails, RunStep,
               Returning, RunChance, Start, Kill, daemonVars
    <3>4. ASSUME NEW d \in Daemons, Tick(d) \/ TakeTick(d) \/ StopDaemon(d) \/ Cancel(d)
          PROVE  FALSE
        BY <2>2, <3>1, <3>4, DaemonAssumption
           DEF Tick, TakeTick, StopDaemon, Cancel, DaemonTypeOK
    <3>5. CASE UNCHANGED allVars
        BY <2>2, <3>5 DEF allVars, daemonVars
    <3> QED BY <3>3, <3>4, <3>5 DEF DaemonNext, Signal
  <2> QED BY <2>1, <2>2 DEF SchemaInv
<1>4. ASSUME NEW p \in Proc, RunReturns(p), UNCHANGED pc \/ pc' = [pc EXCEPT ![p] = "idle"],
             pc'[p] = "idle"
      PROVE  Opened' /\ Seen'
  <2>1. /\ at' = [at EXCEPT ![p] = 0] /\ missing' = [missing EXCEPT ![p] = FALSE]
        /\ columns' = columns
      BY <1>4 DEF RunReturns
  <2>2. Opened'
      BY <1>4, <2>1 DEF SchemaInv, DaemonTypeOK, TypeOK
  <2>3. /\ at'[p] = 0 /\ ~missing'[p]
        /\ \A q \in Proc \ {p} : at'[q] = at[q] /\ missing'[q] = missing[q]
      BY <2>1 DEF DaemonTypeOK
  <2>4. \A c \in Column : ~(c < 0)
      BY <1>2
  <2>5. Seen'
      BY <2>1, <2>3, <2>4 DEF SchemaInv
  <2> QED BY <2>2, <2>5
<1>5. ASSUME NEW p \in Proc, OpenDB(p) \/ SeeColumn(p) \/ AddColumn(p) PROVE Opened' /\ Seen'
  <2>1. pc[p] = "idle" /\ pc' = pc
      BY <1>2, <1>5 DEF OpenDB, SeeColumn, AddColumn, SchemaInv, vars
  <2>2. \A q \in Proc \ {p} : at'[q] = at[q] /\ missing'[q] = missing[q]
      BY <1>5 DEF OpenDB, SeeColumn, AddColumn, DaemonTypeOK
  <2>3. columns \subseteq columns'
      BY <1>5 DEF OpenDB, SeeColumn, AddColumn
  <2>4. \A c \in Column : c < at'[p] => c \in columns'
    <3>1. CASE OpenDB(p)
        BY <1>2, <3>1 DEF OpenDB, DaemonTypeOK, Column
    <3>2. CASE SeeColumn(p)
        BY <1>2, <3>2 DEF SeeColumn, SchemaInv, DaemonTypeOK
    <3>3. CASE AddColumn(p)
        BY <1>2, <3>3 DEF AddColumn, SchemaInv, DaemonTypeOK
    <3> QED BY <1>5, <3>1, <3>2, <3>3
  <2>5. missing'[p] => at'[p] \in Column
      BY <1>2, <1>5 DEF OpenDB, SeeColumn, AddColumn, SchemaInv, DaemonTypeOK
  <2> QED BY <2>1, <2>2, <2>3, <2>4, <2>5 DEF SchemaInv
<1>6. ASSUME NEW p \in Proc, OpenFails(p) \/ LoadFails(p) PROVE Opened' /\ Seen'
  <2>1. pc[p] = "idle" /\ pc' = pc /\ RunReturns(p)
      BY <1>6 DEF OpenFails, LoadFails, SchemaInv, vars
  <2> QED BY <1>4, <2>1
<1>7. ASSUME UNCHANGED <<at, missing, columns>>,
             \A q \in Proc : pc'[q] # "idle" => pc[q] # "idle" \/ at[q] = Open
      PROVE  Opened' /\ Seen'
    BY <1>7 DEF SchemaInv
<1>8. ASSUME NEW p \in Proc, RunStep(p) PROVE Opened' /\ Seen'
  <2>1. at[p] = Open /\ \E label \in PC : pc' = [pc EXCEPT ![p] = label]
      BY <1>8 DEF RunStep, CancelledStep, Step, SaveCredentials, LoadDecryptedCredentials,
         ResumeSession, ResumeFails, UpdateProtonRefresh, UpdateFails, Close, End, Goto, PC
  <2>2. CASE pc[p] # "idle" /\ pc'[p] = "idle"
    <3>1. RunReturns(p) /\ pc' = [pc EXCEPT ![p] = "idle"]
        BY <1>8, <2>1, <2>2 DEF RunStep, Returning, DaemonTypeOK, TypeOK
    <3> QED BY <1>4, <2>2, <3>1
  <2>3. CASE ~(pc[p] # "idle" /\ pc'[p] = "idle")
    <3>1. UNCHANGED <<at, missing, columns>>
        BY <1>8, <2>3 DEF RunStep, Returning, daemonVars
    <3> QED BY <1>7, <2>1, <3>1 DEF DaemonTypeOK, TypeOK
  <2> QED BY <2>2, <2>3
<1>9. ASSUME NEW p \in Proc, RunChance(p) PROVE Opened' /\ Seen'
  <2>1. /\ at[p] = Open /\ UNCHANGED <<at, missing, columns>>
        /\ \E label \in PC : pc' = [pc EXCEPT ![p] = label] \/ pc' = pc
      BY <1>9 DEF RunChance, AutoRefresh, RefreshLost, Login, Goto, PC, daemonVars
  <2> QED BY <1>7, <2>1 DEF DaemonTypeOK, TypeOK
<1>10. ASSUME NEW p \in Proc, Kill(p) PROVE Opened' /\ Seen'
  <2>1. /\ at' = [at EXCEPT ![p] = 0] /\ missing' = [missing EXCEPT ![p] = FALSE]
        /\ columns' = columns
        /\ pc'[p] = "idle" /\ \A q \in Proc \ {p} : pc'[q] = pc[q]
      BY <1>10 DEF Kill, Stop, End, Goto, DaemonTypeOK, TypeOK
  <2>2. /\ at'[p] = 0 /\ ~missing'[p]
        /\ \A q \in Proc \ {p} : at'[q] = at[q] /\ missing'[q] = missing[q]
      BY <2>1 DEF DaemonTypeOK
  <2>3. Opened'
      BY <2>1, <2>2 DEF SchemaInv
  <2>4. \A c \in Column : ~(c < 0)
      BY <1>2
  <2>5. Seen'
      BY <2>1, <2>2, <2>4 DEF SchemaInv
  <2> QED BY <2>3, <2>5
<1>11. ASSUME NEW p \in Proc, Start(p) PROVE Opened' /\ Seen'
    BY <1>7, <1>11 DEF Start, vars
<1>12. ASSUME NEW d \in Daemons, Tick(d) \/ TakeTick(d) \/ StopDaemon(d) \/ Signal(d)
                                   \/ Cancel(d)
       PROVE  Opened' /\ Seen'
    BY <1>7, <1>12 DEF Tick, TakeTick, StopDaemon, Signal, Cancel, vars
<1>13. ASSUME UNCHANGED allVars PROVE Opened' /\ Seen'
    BY <1>7, <1>13 DEF allVars, daemonVars, vars
<1>14. Opened' /\ Seen'
  <2> HIDE DEF Opened, Seen
  <2> QED BY <1>5, <1>6, <1>8, <1>9, <1>10, <1>11, <1>12, <1>13 DEF DaemonNext, Progress
<1> QED BY <1>1, <1>3, <1>14 DEF SchemaInv

LEMMA DaemonInitInv == DaemonInit => DaemonTypeOK /\ SchemaInv
<1> SUFFICES ASSUME DaemonInit PROVE DaemonTypeOK /\ SchemaInv
    OBVIOUS
<1>1. TypeOK /\ \A p \in Proc : pc[p] = "idle" /\ cred[p] = None
    BY SessionAssumption DEF DaemonInit, Init, TypeOK, PC
<1>2. Open \in Nat /\ Column \subseteq Nat \ {0} /\ \A c \in Column : ~(c < 0)
    BY DaemonAssumption DEF Open, Column
<1> QED BY <1>1, <1>2, DaemonAssumption DEF DaemonInit, DaemonTypeOK, SchemaInv, Column

LEMMA SchemaCorrect == DaemonSpec => [](DaemonTypeOK /\ SchemaInv)
<1>1. DaemonTypeOK /\ SchemaInv /\ [DaemonNext]_allVars => (DaemonTypeOK /\ SchemaInv)'
    BY DaemonTypeStep, SchemaStep
<1> QED BY <1>1, DaemonInitInv, PTL DEF DaemonSpec

\* Whoever uses the database finds every column there, for any number of columns
\* and of processes that migrate at once, from any older schema (ensureColumn).
THEOREM SchemaTheorem == DaemonSpec => []SchemaWhole
<1>1. \A c \in Column : c < Open
    BY DaemonAssumption DEF Open, Column
<1>2. DaemonTypeOK /\ SchemaInv => SchemaWhole
    BY <1>1 DEF DaemonTypeOK, SchemaInv, SchemaWhole
<1> QED BY <1>2, SchemaCorrect, PTL

\* A daemon with an interval ends by a cancelled context or a kill only, however
\* many runs fail, and of whatever (runDaemon).
THEOREM OutlivesTheorem == DaemonSpec => DaemonOutlivesErrors
<1> DEFINE Survives == \A d \in Daemons \ NoInterval :
               (loop[d] # "off" /\ loop'[d] = "off") => Cancelled(d) \/ faults' > faults
<1>1. DaemonTypeOK /\ [DaemonNext]_allVars => Survives
  <2> SUFFICES ASSUME DaemonTypeOK, [DaemonNext]_allVars, NEW d \in Daemons \ NoInterval,
                      loop[d] # "off", loop'[d] = "off"
               PROVE  Cancelled(d) \/ faults' > faults
      OBVIOUS
  <2>1. faults \in Nat /\ d \in Proc
      BY SessionAssumption, DaemonAssumption DEF DaemonTypeOK, TypeOK
  <2>2. ASSUME NEW p \in Proc, RunReturns(p) PROVE FALSE
    <3>1. CASE p \in Daemons \ NoInterval
        BY <2>1, <2>2, <3>1 DEF RunReturns, DaemonTypeOK
    <3>2. CASE p \notin Daemons \ NoInterval
        BY <2>1, <2>2, <3>2 DEF RunReturns, Exit, DaemonTypeOK
    <3> QED BY <3>1, <3>2
  <2>3. ASSUME NEW p \in Proc, Progress(p) \/ RunChance(p) PROVE FALSE
      BY <2>2, <2>3 DEF Progress, OpenDB, SeeColumn, AddColumn, OpenFails, LoadFails,
         RunStep, Returning, RunChance, daemonVars
  <2>4. ASSUME NEW p \in Proc, Start(p) PROVE FALSE
      BY <2>1, <2>4 DEF Start, DaemonTypeOK
  <2>5. ASSUME NEW p \in Proc, Kill(p) PROVE faults' > faults
      BY <2>1, <2>5 DEF Kill, Stop
  <2>6. ASSUME NEW e \in Daemons, StopDaemon(e) PROVE Cancelled(d)
      BY <2>1, <2>6, DaemonAssumption DEF StopDaemon, Exit, DaemonTypeOK
  <2>7. ASSUME NEW e \in Daemons, Tick(e) \/ TakeTick(e) \/ Signal(e) \/ Cancel(e)
        PROVE  FALSE
      BY <2>1, <2>7, DaemonAssumption DEF Tick, TakeTick, Signal, Cancel, DaemonTypeOK
  <2>8. CASE UNCHANGED allVars
      BY <2>8 DEF allVars, daemonVars
  <2> QED BY <2>3, <2>4, <2>5, <2>6, <2>7, <2>8 DEF DaemonNext
<1>2. Survives => [Survives]_allVars
    OBVIOUS
<1> QED BY <1>1, <1>2, SchemaCorrect, PTL DEF DaemonSpec, DaemonOutlivesErrors
-----------------------------------------------------------------------------
(***************************************************************************)
(* The session under the daemons' contexts.  A signal is a fault that can  *)
(* lose an issued token: it makes the UPDATE fail that would store it.     *)
(***************************************************************************)
LEMMA DaemonSessionStep ==
    TypeOK /\ SessionInv /\ [DaemonNext]_allVars => SessionInv'
<1> SUFFICES ASSUME TypeOK, SessionInv, [DaemonNext]_allVars PROVE SessionInv'
    OBVIOUS
<1>1. CASE [Next]_vars
    BY <1>1, SessionInvStep
<1>2. CASE CountsFault
    BY <1>2 DEF CountsFault, SessionInv, SessionsKnown, OneCopy, Current
<1>3. ASSUME NEW p \in Proc, CancelledResume(p) PROVE SessionInv'
    BY <1>3, EndKeeps DEF CancelledResume
<1>4. ASSUME NEW p \in Proc, CancelledUpdate(p) PROVE SessionInv'
    BY <1>4, UnstoredKeeps DEF CancelledUpdate
<1> QED BY <1>1, <1>2, <1>3, <1>4, SessionStep

LEMMA DaemonNeverLostStep ==
    ASSUME MayLose
    PROVE  TypeOK /\ SessionInv /\ NeverLost /\ SchemaInv /\ [DaemonNext]_allVars
               => NeverLost'
<1> SUFFICES ASSUME TypeOK, SessionInv, NeverLost, SchemaInv, [DaemonNext]_allVars
             PROVE  NeverLost'
    OBVIOUS
<1>0. faults \in Nat /\ faults' \in Nat /\ faults' >= faults
    BY DaemonFaultsGrow
<1>1. CASE [Next]_vars
    BY <1>1, NeverLostStep
<1>2. CASE CountsFault
    BY <1>0, <1>2 DEF CountsFault, NeverLost, Disturbed
<1>3. ASSUME NEW p \in Proc, CancelledResume(p) \/ CancelledUpdate(p) PROVE Disturbed'
    BY <1>0, <1>3 DEF CancelledResume, CancelledUpdate, Cancelled, SchemaInv, Disturbed
<1> QED BY <1>1, <1>2, <1>3, SessionStep DEF NeverLost

LEMMA DaemonNeverLost ==
    ASSUME MayLose
    PROVE  DaemonSpec => [](DaemonTypeOK /\ SchemaInv /\ SessionInv /\ NeverLost)
<1>1. DaemonInit => SessionInv /\ NeverLost
    BY InitInv DEF DaemonInit
<1>2. (DaemonTypeOK /\ SchemaInv) /\ SessionInv /\ NeverLost /\ [DaemonNext]_allVars
          => SessionInv' /\ NeverLost'
    BY DaemonSessionStep, DaemonNeverLostStep DEF DaemonTypeOK
<1> QED BY <1>1, <1>2, SchemaCorrect, PTL DEF DaemonSpec

\* Until the first fault or signal, the row holds a token that Proton accepts
\* whenever no process is about to write it: daemons and commands, inits included,
\* that start, migrate and run beside each other never lose it by themselves
\* (onRefresh, SaveCredentials).
THEOREM DaemonUnfaultedTheorem ==
    ASSUME MayLose
    PROVE  DaemonSpec => []UnfaultedTokenIsCurrent
<1>1. DaemonTypeOK /\ NeverLost => UnfaultedTokenIsCurrent
    BY DEF DaemonTypeOK, TypeOK, NeverLost, UnfaultedTokenIsCurrent, StoredTokenIsCurrent,
           Row, Token
<1> QED BY <1>1, DaemonNeverLost, PTL

LEMMA DaemonLeaseRefines ==
    ASSUME TypeOK, SessionInv, TypeOK', SessionInv', NeverLost, SchemaInv,
           [DaemonNext]_allVars, MayLose
    PROVE  LeaseMoves
<1>0. /\ Disturbed => Disturbed'
      /\ \A p \in Proc : Cancelled(p) => Disturbed'
    BY DaemonFaultsGrow DEF Disturbed, SchemaInv, Cancelled
<1>1. CASE [Next]_vars
    BY <1>1, LeaseRefines
<1>2. CASE CountsFault
  <2>1. UNCHANGED row /\ \A q \in Proc : HoldsLease(q)' <=> HoldsLease(q)
      BY <1>2 DEF CountsFault, HoldsLease
  <2> QED BY <2>1, LeaseSame DEF LeaseMoves
<1>3. ASSUME NEW p \in Proc, CancelledResume(p) PROVE LeaseMoves
    BY <1>0, <1>3, EndMoves DEF CancelledResume
<1>4. ASSUME NEW p \in Proc, CancelledUpdate(p) PROVE LeaseMoves
  <2>1. UNCHANGED row /\ \A q \in Proc : HoldsLease(q)' <=> HoldsLease(q)
      BY <1>4 DEF CancelledUpdate, Goto, HoldsLease, TypeOK
  <2> QED BY <2>1, LeaseSame DEF LeaseMoves
<1> QED BY <1>1, <1>2, <1>3, <1>4, SessionStep

\* Daemons and commands together implement the lease, for any number of them:
\* between a run's start and its end by a signal or a kill, one at a time takes
\* the token out of the database and owes it a new one, inits beside runs included.
THEOREM DaemonLeaseTheorem ==
    ASSUME MayLose
    PROVE  DaemonSpec => LeaseIsKept
<1>1. DaemonInit => Abstract!Init
    BY LeaseInit DEF DaemonInit
<1> DEFINE Inv == DaemonTypeOK /\ SchemaInv /\ SessionInv /\ NeverLost
<1>2. Inv /\ [DaemonNext]_allVars /\ Inv'
          => [Abstract!Next]_<<Lease, Disturbed \/ ~RowDecrypts>>
    BY DaemonLeaseRefines DEF DaemonTypeOK, LeaseMoves, Abstract!Next
<1> QED BY <1>1, <1>2, DaemonNeverLost, PTL DEF DaemonSpec, LeaseIsKept, Abstract!Spec
=============================================================================
