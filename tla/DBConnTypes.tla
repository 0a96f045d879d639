----------------------------- MODULE DBConnTypes -----------------------------
(***************************************************************************)
(* Lemmas about the external session operators of DBConn, and the proof    *)
(* that TypeOK is an invariant of the specification, for every pool size   *)
(* and every number of sessions and of sessions that end.                  *)
(***************************************************************************)
EXTENDS DBConn, TLAPS

USE DBConnAssumption DEF Index, Worker, Session, NilDB, NoConn, NoTx, NoRows

\* The part of TypeOK that taking and giving back a session depends on.
PoolTypeOK == /\ ConnPool \in [Index -> Session \cup {NilDB, NoConn}]
              /\ dialed \in 0 .. MaxSessions
              /\ use \in [Session -> SessionUse]
              /\ broken \subseteq Session
              /\ cancelled \in [Worker -> SUBSET Session]

\* What a call finds when database/sql lets it in: its handle now holds the
\* session it got, which was idle in that handle before or has just been
\* dialled, and at most the ended session it replaces has been closed.
LEMMA AcquireFacts ==
  ASSUME PoolTypeOK, NEW i \in Index, NEW s \in Session, NEW kind \in SessionUse,
         ~Busy(i), Acquire(i, s, kind)
  PROVE  /\ ConnPool' \in [Index -> Session \cup {NilDB, NoConn}]
         /\ dialed' \in 0 .. MaxSessions
         /\ use' \in [Session -> SessionUse]
         /\ ConnPool[i] # NilDB
         /\ ConnPool' = [ConnPool EXCEPT ![i] = s]
         /\ use'[s] = kind
         /\ \/ s = ConnPool[i] /\ use[s] = "free" /\ dialed' = dialed
            \/ /\ s = dialed + 1 /\ dialed' = s
               /\ ConnPool[i] = NoConn \/ Stale(i)
         /\ \A t \in Session : t # s =>
              use'[t] = IF t = ConnPool[i] THEN "closed" ELSE use[t]
<1>1. CASE s = ConnPool[i] /\ ~Stale(i) /\ use' = [use EXCEPT ![s] = kind]
           /\ UNCHANGED <<ConnPool, dialed>>
  <2>1. ConnPool' = [ConnPool EXCEPT ![i] = s]
    BY <1>1 DEF PoolTypeOK
  <2>2. use[s] = "free"
    BY <1>1 DEF PoolTypeOK, Busy
  <2>3. use' \in [Session -> SessionUse] /\ use'[s] = kind
    BY <1>1 DEF PoolTypeOK
  <2>4. \A t \in Session : t # s => use'[t] = use[t] /\ t # ConnPool[i]
    BY <1>1 DEF PoolTypeOK
  <2>5. dialed' = dialed /\ ConnPool' = ConnPool /\ s = ConnPool[i]
    BY <1>1
  <2>6. ConnPool[i] # NilDB
    BY <2>5
  <2>7. ConnPool' \in [Index -> Session \cup {NilDB, NoConn}] /\ dialed' \in 0 .. MaxSessions
    BY <2>5 DEF PoolTypeOK
  <2> HIDE DEF Index, Session, NilDB, NoConn
  <2> QED
    BY <2>1, <2>2, <2>3, <2>4, <2>5, <2>6, <2>7
<1>2. CASE /\ ConnPool[i] = NoConn \/ Stale(i)
           /\ s = dialed + 1
           /\ dialed' = s
           /\ use' = [t \in Session |-> IF t = s THEN kind
                                        ELSE IF t = ConnPool[i] THEN "closed" ELSE use[t]]
           /\ ConnPool' = [ConnPool EXCEPT ![i] = s]
  <2>1. ASSUME NEW t \in Session
        PROVE  use'[t] = IF t = s THEN kind ELSE IF t = ConnPool[i] THEN "closed" ELSE use[t]
    BY <1>2
  <2>2. use' \in [Session -> SessionUse]
    BY <1>2, <2>1 DEF PoolTypeOK, SessionUse
  <2> QED
    BY <1>2, <2>1, <2>2 DEF PoolTypeOK, Stale
<1> QED
  BY <1>1, <1>2 DEF Acquire

\* What a call that gets an error from database/sql may have changed: its own
\* handle has lost a session that had ended.
LEMMA AcquireFailsFacts ==
  ASSUME PoolTypeOK, NEW i \in Index, ~Busy(i), AcquireFails(i)
  PROVE  /\ ConnPool' \in [Index -> Session \cup {NilDB, NoConn}]
         /\ use' \in [Session -> SessionUse]
         /\ dialed' = dialed
         /\ \A j \in Index : j # i => ConnPool'[j] = ConnPool[j]
         /\ \/ ConnPool'[i] = ConnPool[i] /\ use' = use
            \/ /\ ConnPool'[i] = NoConn
               /\ Stale(i)
               /\ ConnPool[i] # NilDB
               /\ use' = [use EXCEPT ![ConnPool[i]] = "closed"]
<1>1. CASE Stale(i)
  <2>1. /\ ConnPool[i] \in Session /\ ConnPool[i] # NilDB
    BY <1>1 DEF Stale, PoolTypeOK
  <2>2. /\ ConnPool' = [ConnPool EXCEPT ![i] = NoConn] /\ dialed' = dialed
        /\ use' = [use EXCEPT ![ConnPool[i]] = "closed"]
    BY <1>1 DEF AcquireFails
  <2> QED
    BY <1>1, <2>1, <2>2 DEF PoolTypeOK, SessionUse
<1>2. CASE ~Stale(i)
  <2>1. UNCHANGED <<ConnPool, dialed, use>>
    BY <1>2 DEF AcquireFails
  <2> QED
    BY <2>1 DEF PoolTypeOK
<1> QED
  BY <1>1, <1>2

\* Giving a session back changes its use only: idle if a handle holds it,
\* closed if Close has emptied the handle meanwhile.
LEMMA GiveBackFacts ==
  ASSUME PoolTypeOK, NEW s \in Session, GiveBack(s)
  PROVE  /\ use' \in [Session -> SessionUse]
         /\ ConnPool' = ConnPool
         /\ \A t \in Session : t # s => use'[t] = use[t]
         /\ use'[s] = IF \E i \in Index : ConnPool[i] = s THEN "free" ELSE "closed"
  BY DEF GiveBack, PoolTypeOK, SessionUse

\* Running a statement changes who has used the session, and which sessions
\* cancelled contexts have closed.
LEMMA RunsFacts ==
  ASSUME TypeOK, NEW g \in Worker, NEW s \in Session, Runs(g, s)
  PROVE  /\ users' \in [Session -> SUBSET Worker]
         /\ cancelled' \in [Worker -> SUBSET Session]
         /\ users' = [users EXCEPT ![s] = @ \cup {g}]
         /\ \A h \in Worker : \A t \in cancelled'[h] : t \in cancelled[h] \/ (h = g /\ t = s)
  BY DEF Runs, CutOff, TypeOK

\* Every action keeps the variables in their types; the sessions a call
\* acquires are the only ones that need the lemmas above.
LEMMA TypeStep == TypeOK /\ [Next]_vars => TypeOK'
<1> SUFFICES ASSUME TypeOK, [Next]_vars PROVE TypeOK'
  OBVIOUS
<1> USE DEF TypeOK, Resting, Waiting, Inside
<1>0. PoolTypeOK
  BY DEF PoolTypeOK
<1>1. ASSUME NEW n \in -1 .. MaxConns, NEW u \in {"off", "on", "invalid"}, ConnectCall(n, u)
      PROVE  TypeOK'
  BY <1>1 DEF ConnectCall, ConnectAllowed, Allocate, poolVars, sqlVars, localVars
<1>2. ASSUME Probe PROVE TypeOK'
  <2>1. dialed' \in 0 .. MaxSessions
    BY <1>2 DEF Probe
  <2>2. use' \in [Session -> SessionUse]
    BY <1>2 DEF Probe, CloseProbe, SessionUse
  <2> QED
    BY <1>2, <2>1, <2>2 DEF Probe, localVars
<1>3. ASSUME NEW i \in Index, Dial(i) PROVE TypeOK'
  <2>1. /\ dialed' \in 0 .. MaxSessions
        /\ use' \in [Session -> SessionUse]
        /\ ConnPool' \in [Index -> Session \cup {NilDB, NoConn}]
        /\ home' \in [Index -> Session \cup {NoConn}]
    BY <1>3 DEF Dial, SessionUse
  <2>2. stage' \in {"dial", "version"} /\ txLen' \in 0 .. MaxConns /\ NumConns' \in 0 .. MaxConns
    BY <1>3 DEF Dial
  <2> QED
    BY <1>3, <2>1, <2>2 DEF Dial, localVars
<1>4. ASSUME DialFails PROVE TypeOK'
  BY <1>4 DEF DialFails, poolVars, sqlVars, localVars
<1>5. ASSUME VersionQuery PROVE TypeOK'
  <2>1. /\ ConnPool' \in [Index -> Session \cup {NilDB, NoConn}]
        /\ dialed' \in 0 .. MaxSessions
        /\ use' \in [Session -> SessionUse]
    <3>1. 0 \in Index
      OBVIOUS
    <3>2. CASE AcquireFails(0)
      BY <1>0, <1>5, <3>1, <3>2, AcquireFailsFacts DEF VersionQuery
    <3>3. CASE \E s \in Session : Acquire(0, s, "free")
      BY <1>0, <1>5, <3>1, <3>3, AcquireFacts DEF VersionQuery, SessionUse
    <3> QED
      BY <1>5, <3>2, <3>3 DEF VersionQuery
  <2> QED
    BY <1>5, <2>1 DEF VersionQuery, localVars
<1>6. ASSUME Close PROVE TypeOK'
  <2>1. use' \in [Session -> SessionUse]
    BY <1>6 DEF Close, SessionUse
  <2>2. abandoned' \subseteq Session
    BY <1>6 DEF Close
  <2>3. /\ ConnPool' \in [Index -> Session \cup {NilDB, NoConn}]
        /\ Tx' \in [Index -> Session \cup {NoTx}]
        /\ home' \in [Index -> Session \cup {NoConn}]
    BY <1>6 DEF Close
  <2> QED
    BY <1>6, <2>1, <2>2, <2>3 DEF Close, localVars
<1>7. ASSUME NEW g \in Worker, FatalCall(g) PROVE TypeOK'
  BY <1>7 DEF FatalCall, Goto, poolVars, sqlVars, localVars
<1>8. ASSUME NEW g \in Worker, CrashCall(g) PROVE TypeOK'
  BY <1>8 DEF CrashCall, Goto, poolVars, sqlVars, localVars
<1>9. ASSUME NEW g \in Worker, BeginCall(g) PROVE TypeOK'
  BY <1>9 DEF BeginCall, Admitted, ConnNum, Goto, poolVars, sqlVars, localVars
<1>10. ASSUME NEW g \in Worker, EndCall(g) PROVE TypeOK'
  BY <1>10 DEF EndCall, Admitted, ConnNum, Goto, poolVars, sqlVars, localVars
<1>11. ASSUME NEW g \in Worker, StmtCall(g) PROVE TypeOK'
  BY <1>11 DEF StmtCall, Admitted, ConnNum, Goto, poolVars, sqlVars, localVars
<1>12. ASSUME NEW g \in Worker, StmtInTx(g) PROVE TypeOK'
  <2>1. users' \in [Session -> SUBSET Worker] /\ cancelled' \in [Worker -> SUBSET Session]
    BY <1>12, RunsFacts DEF StmtInTx, Admitted, ConnNum
  <2> QED
    BY <1>12, <2>1 DEF StmtInTx, Returns, Goto, poolVars, sqlVars
<1>13. ASSUME NEW g \in Worker, QueryCall(g) PROVE TypeOK'
  BY <1>13 DEF QueryCall, Admitted, ConnNum, Goto, poolVars, sqlVars, localVars
<1>14. ASSUME NEW g \in Worker, QueryInTx(g) PROVE TypeOK'
  BY <1>14 DEF QueryInTx, Admitted, ConnNum, poolVars, sqlVars, localVars
<1>15. ASSUME NEW g \in Worker, RowsClose(g) \/ RowsCancelled(g) PROVE TypeOK'
  <2>1. RowsEnd(g) /\ (UNCHANGED cancelled \/ CutOff(g, rows[g]))
    BY <1>15 DEF RowsClose, RowsCancelled
  <2>2. use' \in [Session -> SessionUse] /\ ConnPool' = ConnPool
    BY <2>1 DEF RowsEnd, GiveBack, SessionUse
  <2>3. cancelled' \in [Worker -> SUBSET Session]
    BY <2>1 DEF RowsEnd, CutOff
  <2> QED
    BY <2>1, <2>2, <2>3 DEF RowsEnd, poolVars
<1>16. ASSUME NEW g \in Worker, CrashInside(g) PROVE TypeOK'
  BY <1>16 DEF CrashInside, Goto, Waiting, Inside, poolVars, sqlVars, localVars
<1>17. ASSUME NEW g \in Worker, BeginTx(g) PROVE TypeOK'
  <2>1. CASE AcquireFails(g) /\ Returns(g) /\ UNCHANGED <<tx, users>>
    <3>1. /\ ConnPool' \in [Index -> Session \cup {NilDB, NoConn}]
          /\ dialed' \in 0 .. MaxSessions
          /\ use' \in [Session -> SessionUse]
      BY <1>0, <1>17, <2>1, AcquireFailsFacts DEF BeginTx, ConnNum
    <3> QED
      BY <1>17, <2>1, <3>1 DEF BeginTx, Returns, Goto, poolVars
  <2>2. ASSUME NEW s \in Session, Acquire(g, s, "tx"),
               tx' = [tx EXCEPT ![g] = s],
               users' = [users EXCEPT ![s] = @ \cup {g}],
               Goto(g, "assign")
        PROVE  TypeOK'
    <3>1. /\ ConnPool' \in [Index -> Session \cup {NilDB, NoConn}]
          /\ dialed' \in 0 .. MaxSessions
          /\ use' \in [Session -> SessionUse]
      BY <1>0, <1>17, <2>2, AcquireFacts DEF BeginTx, ConnNum, SessionUse
    <3> QED
      BY <1>17, <2>2, <3>1 DEF BeginTx, Goto, poolVars
  <2> QED
    BY <1>17, <2>1, <2>2 DEF BeginTx, ConnNum
<1>18. ASSUME NEW g \in Worker, BeginAssign(g) PROVE TypeOK'
  BY <1>18 DEF BeginAssign, ConnNum, Goto, poolVars, sqlVars, localVars
<1>19. ASSUME NEW g \in Worker, EndTx(g) PROVE TypeOK'
  <2>1. use' \in [Session -> SessionUse] /\ ConnPool' = ConnPool
    BY <1>19 DEF EndTx, GiveBack, SessionUse
  <2>2. rows' \in [Worker -> Session \cup {NoRows}]
    BY <1>19 DEF EndTx
  <2> QED
    BY <1>19, <2>1, <2>2 DEF EndTx, Goto, poolVars
<1>20. ASSUME NEW g \in Worker, EndClear(g) PROVE TypeOK'
  BY <1>20 DEF EndClear, ConnNum, Returns, Goto, poolVars, sqlVars, localVars
<1>21. ASSUME NEW g \in Worker, Stmt(g) PROVE TypeOK'
  <2>1. CASE AcquireFails(g) /\ UNCHANGED <<users, cancelled>>
    <3>1. /\ ConnPool' \in [Index -> Session \cup {NilDB, NoConn}]
          /\ dialed' \in 0 .. MaxSessions
          /\ use' \in [Session -> SessionUse]
      BY <1>0, <1>21, <2>1, AcquireFailsFacts DEF Stmt, ConnNum
    <3> QED
      BY <1>21, <2>1, <3>1 DEF Stmt, Returns, Goto, poolVars
  <2>2. ASSUME NEW s \in Session, Acquire(g, s, "free"), Runs(g, s)
        PROVE  TypeOK'
    <3>1. /\ ConnPool' \in [Index -> Session \cup {NilDB, NoConn}]
          /\ dialed' \in 0 .. MaxSessions
          /\ use' \in [Session -> SessionUse]
      BY <1>0, <1>21, <2>2, AcquireFacts DEF Stmt, ConnNum, SessionUse
    <3>2. users' \in [Session -> SUBSET Worker] /\ cancelled' \in [Worker -> SUBSET Session]
      BY <2>2, RunsFacts
    <3> QED
      BY <1>21, <3>1, <3>2 DEF Stmt, Returns, Goto, poolVars
  <2> QED
    BY <1>21, <2>1, <2>2 DEF Stmt, ConnNum
<1>22. ASSUME NEW g \in Worker, Query(g) PROVE TypeOK'
  <2>1. CASE AcquireFails(g) /\ Returns(g) /\ UNCHANGED <<rows, users, cancelled>>
    <3>1. /\ ConnPool' \in [Index -> Session \cup {NilDB, NoConn}]
          /\ dialed' \in 0 .. MaxSessions
          /\ use' \in [Session -> SessionUse]
      BY <1>0, <1>22, <2>1, AcquireFailsFacts DEF Query, ConnNum
    <3> QED
      BY <1>22, <2>1, <3>1 DEF Query, Returns, Goto, poolVars
  <2>2. ASSUME NEW s \in Session, Acquire(g, s, "rows"),
               rows' = [rows EXCEPT ![g] = s],
               users' = [users EXCEPT ![s] = @ \cup {g}],
               Goto(g, "ready"), UNCHANGED cancelled
        PROVE  TypeOK'
    <3>1. /\ ConnPool' \in [Index -> Session \cup {NilDB, NoConn}]
          /\ dialed' \in 0 .. MaxSessions
          /\ use' \in [Session -> SessionUse]
      BY <1>0, <1>22, <2>2, AcquireFacts DEF Query, ConnNum, SessionUse
    <3> QED
      BY <1>22, <2>2, <3>1 DEF Query, Goto, poolVars
  <2>3. ASSUME NEW s \in Session, Acquire(g, s, "free"), Runs(g, s), Returns(g), UNCHANGED rows
        PROVE  TypeOK'
    <3>1. /\ ConnPool' \in [Index -> Session \cup {NilDB, NoConn}]
          /\ dialed' \in 0 .. MaxSessions
          /\ use' \in [Session -> SessionUse]
      BY <1>0, <1>22, <2>3, AcquireFacts DEF Query, ConnNum, SessionUse
    <3>2. users' \in [Session -> SUBSET Worker] /\ cancelled' \in [Worker -> SUBSET Session]
      BY <2>3, RunsFacts
    <3> QED
      BY <1>22, <2>3, <3>1, <3>2 DEF Query, Returns, Goto, poolVars
  <2> QED
    BY <1>22, <2>1, <2>2, <2>3 DEF Query, ConnNum
<1>23. ASSUME NEW s \in Session, Break(s) PROVE TypeOK'
  BY <1>23 DEF Break, poolVars, sqlVars, localVars
<1>24. CASE UNCHANGED vars
  BY <1>24 DEF vars, poolVars, sqlVars, localVars
<1>25. ASSUME NEW g \in Worker, CancelledWaiting(g) PROVE TypeOK'
  BY <1>25 DEF CancelledWaiting, Returns, Goto, poolVars, sqlVars
<1> QED
  BY <1>1, <1>2, <1>3, <1>4, <1>5, <1>6, <1>7, <1>8, <1>9, <1>10, <1>11, <1>12,
     <1>13, <1>14, <1>15, <1>16, <1>17, <1>18, <1>19, <1>20, <1>21, <1>22, <1>23, <1>24, <1>25
  DEF Next, Owner, Call, Cancel, Proceed

LEMMA TypeInit == Init => TypeOK
  BY DEF Init, TypeOK, Resting, Waiting, Inside, SessionUse

\* In every behaviour of the pool the variables keep their types: no handle,
\* slot or local transaction ever refers to a session that was never dialled
\* within the bound, and len(ConnPool) never exceeds the size asked for.
THEOREM TypeCorrect == Spec => []TypeOK
  BY TypeInit, TypeStep, PTL DEF Spec
=============================================================================
