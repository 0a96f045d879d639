----------------------------- MODULE DBConnProofs -----------------------------
(***************************************************************************)
(* The safety properties of DBConn, proved for every pool size, every      *)
(* number of sessions and every number of sessions that end.               *)
(*                                                                         *)
(* IInv is inductive.  There is one lemma per part of it, with one step    *)
(* per action; the lemmas of DBConnLemmas say what the actions that take   *)
(* or give back a session do to each part.                                 *)
(***************************************************************************)
EXTENDS DBConnLemmas, FiniteSetTheorems

USE DBConnAssumption DEF Index, Worker, Session, NilDB, NoConn, NoTx, NoRows

\* What Connect has built stays consistent: only Connect and Close change
\* poolLen, NumConns and the lengths, and no worker turns a handle to nil.
LEMMA PoolInvStep == IInv /\ [Next]_vars => PoolInv'
<1> SUFFICES ASSUME IInv, [Next]_vars PROVE PoolInv'
  OBVIOUS
<1>0. /\ TypeOK /\ PoolInv /\ CallInv /\ OwnInv /\ TxInv /\ OrphanInv
      /\ RowsInv /\ UserInv /\ UsedInv
  BY DEF IInv
<1> USE <1>0 DEF TypeOK, PoolInv, CallInv, Resting, Waiting, Inside, OwnInv, Held
<1>1. ASSUME NEW n \in -1 .. MaxConns, NEW u \in {"off", "on", "invalid"}, ConnectCall(n, u)
      PROVE  PoolInv'
  BY <1>1 DEF ConnectCall, ConnectAllowed, Allocate, poolVars, sqlVars, localVars
<1>2. ASSUME Probe PROVE PoolInv'
  BY <1>2 DEF Probe, CloseProbe, localVars
<1>3. ASSUME NEW i \in Index, Dial(i) PROVE PoolInv'
  BY <1>3 DEF Dial, NextToDial, localVars
<1>4. ASSUME DialFails PROVE PoolInv'
  BY <1>4 DEF DialFails, sqlVars, localVars
<1>5. ASSUME VersionQuery PROVE PoolInv'
  <2>1. CASE AcquireFails(0)
    BY <1>5, <2>1, PoolAcquireFails DEF VersionQuery, localVars
  <2>2. ASSUME NEW s \in Session, Acquire(0, s, "free")
        PROVE  PoolInv'
    <3>1. /\ ~Busy(0) /\ stage = "version" /\ stage' = "idle"
          /\ UNCHANGED <<poolLen, NumConns, txLen>>
      BY <1>5 DEF VersionQuery
    <3> HIDE DEF TypeOK, PoolInv, OwnInv
    <3> QED
      BY <1>0, <2>2, <3>1, PoolAcquire DEF SessionUse
  <2> QED
    BY <1>5, <2>1, <2>2 DEF VersionQuery, ConnNum
<1>6. ASSUME Close PROVE PoolInv'
  BY <1>6 DEF Close, localVars
<1>7. ASSUME NEW g \in Worker, FatalCall(g) PROVE PoolInv'
  BY <1>7 DEF FatalCall, Goto, poolVars, sqlVars
<1>8. ASSUME NEW g \in Worker, CrashCall(g) PROVE PoolInv'
  BY <1>8 DEF CrashCall, Goto, poolVars, sqlVars
<1>9. ASSUME NEW g \in Worker, BeginCall(g) PROVE PoolInv'
  BY <1>9 DEF BeginCall, Admitted, ConnNum, Goto, poolVars, sqlVars
<1>10. ASSUME NEW g \in Worker, EndCall(g) PROVE PoolInv'
  BY <1>10 DEF EndCall, Admitted, ConnNum, Goto, poolVars, sqlVars
<1>11. ASSUME NEW g \in Worker, StmtCall(g) PROVE PoolInv'
  BY <1>11 DEF StmtCall, Admitted, ConnNum, Goto, poolVars, sqlVars
<1>12. ASSUME NEW g \in Worker, StmtInTx(g) PROVE PoolInv'
  BY <1>12 DEF StmtInTx, Admitted, ConnNum, Returns, Goto, poolVars, sqlVars
<1>13. ASSUME NEW g \in Worker, QueryCall(g) PROVE PoolInv'
  BY <1>13 DEF QueryCall, Admitted, ConnNum, Goto, poolVars, sqlVars
<1>14. ASSUME NEW g \in Worker, QueryInTx(g) PROVE PoolInv'
  BY <1>14 DEF QueryInTx, Admitted, ConnNum, poolVars, sqlVars
<1>15. ASSUME NEW g \in Worker, RowsEnd(g) PROVE PoolInv'
  <2>1. ConnPool' = ConnPool /\ stage' = stage
    BY <1>15, RowsEndFacts DEF RowsEnd, poolVars
  <2>2. stage # "idle" => \A i \in Index : Held(i) => use'[ConnPool[i]] = "free"
    <3>1. \A i \in Index : Held(i) => ConnPool[i] \in Session
      OBVIOUS
    <3>2. stage # "idle" => \A i \in Index : Held(i) => use[ConnPool[i]] = "free"
      OBVIOUS
    <3>3. \A t \in Session : use[t] = "free" => use'[t] = "free"
      BY <1>15, RowsEndFacts
    <3> QED
      BY <3>1, <3>2, <3>3
  <2> QED
    BY <1>15, <2>1, <2>2 DEF RowsEnd, poolVars
<1>16. ASSUME NEW g \in Worker, CrashInside(g) PROVE PoolInv'
  BY <1>16 DEF CrashInside, Goto, poolVars, sqlVars
<1>17. ASSUME NEW g \in Worker, BeginTx(g) PROVE PoolInv'
  <2>1. CASE AcquireFails(g) /\ Returns(g) /\ UNCHANGED <<tx, users>>
    BY <1>17, <2>1, PoolAcquireFails DEF BeginTx, Goto, Returns, ConnNum, poolVars
  <2>2. ASSUME NEW s \in Session, Acquire(g, s, "tx"),
               tx' = [tx EXCEPT ![g] = s],
               users' = [users EXCEPT ![s] = @ \cup {g}],
               Goto(g, "assign")
        PROVE  PoolInv'
    BY <1>17, <2>2, PoolAcquire DEF BeginTx, Goto, Returns, ConnNum, poolVars, SessionUse
  <2> QED
    BY <1>17, <2>1, <2>2 DEF BeginTx, ConnNum
<1>18. ASSUME NEW g \in Worker, BeginAssign(g) PROVE PoolInv'
  BY <1>18 DEF BeginAssign, Goto, ConnNum, poolVars, sqlVars
<1>19. ASSUME NEW g \in Worker, EndTx(g) PROVE PoolInv'
  <2>1. ConnPool' = ConnPool /\ stage' = stage /\ stage = "idle"
    BY <1>19 DEF EndTx, GiveBack, poolVars
  <2> QED
    BY <1>19, <2>1 DEF EndTx, poolVars
<1>20. ASSUME NEW g \in Worker, EndClear(g) PROVE PoolInv'
  BY <1>20 DEF EndClear, Goto, Returns, ConnNum, poolVars, sqlVars
<1>21. ASSUME NEW g \in Worker, Stmt(g) PROVE PoolInv'
  <2>1. CASE AcquireFails(g) /\ UNCHANGED <<users, cancelled>>
    BY <1>21, <2>1, PoolAcquireFails DEF Stmt, Goto, Returns, ConnNum, poolVars
  <2>2. ASSUME NEW s \in Session, Acquire(g, s, "free"), Runs(g, s)
        PROVE  PoolInv'
    BY <1>21, <2>2, PoolAcquire DEF Stmt, Goto, Returns, ConnNum, poolVars, SessionUse
  <2> QED
    BY <1>21, <2>1, <2>2 DEF Stmt, ConnNum
<1>22. ASSUME NEW g \in Worker, Query(g) PROVE PoolInv'
  <2>1. CASE AcquireFails(g) /\ Returns(g) /\ UNCHANGED <<rows, users, cancelled>>
    BY <1>22, <2>1, PoolAcquireFails DEF Query, Goto, Returns, ConnNum, poolVars
  <2>2. ASSUME NEW s \in Session, Acquire(g, s, "rows"),
               rows' = [rows EXCEPT ![g] = s],
               users' = [users EXCEPT ![s] = @ \cup {g}],
               Goto(g, "ready"), UNCHANGED cancelled
        PROVE  PoolInv'
    BY <1>22, <2>2, PoolAcquire DEF Query, Goto, Returns, ConnNum, poolVars, SessionUse
  <2>3. ASSUME NEW s \in Session, Acquire(g, s, "free"), Runs(g, s), Returns(g), UNCHANGED rows
        PROVE  PoolInv'
    BY <1>22, <2>3, PoolAcquire DEF Query, Goto, Returns, ConnNum, poolVars, SessionUse
  <2> QED
    BY <1>22, <2>1, <2>2, <2>3 DEF Query, ConnNum
<1>23. ASSUME NEW s \in Session, Break(s) PROVE PoolInv'
  BY <1>23 DEF Break, poolVars, sqlVars, localVars
<1>24. ASSUME UNCHANGED vars PROVE PoolInv'
  BY <1>24 DEF vars, poolVars, sqlVars, localVars
<1>25. ASSUME NEW g \in Worker, CancelledWaiting(g) PROVE PoolInv'
  BY <1>25 DEF CancelledWaiting, Returns, Goto, poolVars, sqlVars
<1> HIDE DEF PoolInv
<1> QED
  BY <1>1, <1>2, <1>3, <1>4, <1>5, <1>6, <1>7, <1>8, <1>9, <1>10, <1>11, <1>12, <1>13, <1>14,
     <1>15, <1>16, <1>17, <1>18, <1>19, <1>20, <1>21, <1>22, <1>23, <1>24, <1>25 DEF Next, Owner, Call,
     Cancel, RowsClose, RowsCancelled, Proceed

\* A call in progress keeps its pool, or finds it emptied by Close: Connect
\* waits until no call is running.
LEMMA CallInvStep == IInv /\ [Next]_vars => CallInv'
<1> SUFFICES ASSUME IInv, [Next]_vars PROVE CallInv'
  OBVIOUS
<1>0. /\ TypeOK /\ PoolInv /\ CallInv /\ OwnInv /\ TxInv /\ OrphanInv
      /\ RowsInv /\ UserInv /\ UsedInv
  BY DEF IInv
<1> USE <1>0 DEF TypeOK, PoolInv, CallInv, Resting, Waiting, Inside
<1>1. ASSUME NEW n \in -1 .. MaxConns, NEW u \in {"off", "on", "invalid"}, ConnectCall(n, u)
      PROVE  CallInv'
  BY <1>1 DEF ConnectCall, ConnectAllowed, Allocate, poolVars, sqlVars, localVars
<1>2. ASSUME Probe PROVE CallInv'
  BY <1>2 DEF Probe, CloseProbe, localVars
<1>3. ASSUME NEW i \in Index, Dial(i) PROVE CallInv'
  BY <1>3 DEF Dial, NextToDial, localVars
<1>4. ASSUME DialFails PROVE CallInv'
  BY <1>4 DEF DialFails, sqlVars, localVars
<1>5. ASSUME VersionQuery PROVE CallInv'
  BY <1>5 DEF VersionQuery, localVars
<1>6. ASSUME Close PROVE CallInv'
  BY <1>6 DEF Close, localVars
<1>7. ASSUME NEW g \in Worker, FatalCall(g) PROVE CallInv'
  BY <1>7 DEF FatalCall, Goto, poolVars, sqlVars
<1>8. ASSUME NEW g \in Worker, CrashCall(g) PROVE CallInv'
  BY <1>8 DEF CrashCall, Goto, poolVars, sqlVars
<1>9. ASSUME NEW g \in Worker, BeginCall(g) PROVE CallInv'
  BY <1>9 DEF BeginCall, Admitted, ConnNum, Goto, poolVars, sqlVars
<1>10. ASSUME NEW g \in Worker, EndCall(g) PROVE CallInv'
  BY <1>10 DEF EndCall, Admitted, ConnNum, Goto, poolVars, sqlVars
<1>11. ASSUME NEW g \in Worker, StmtCall(g) PROVE CallInv'
  BY <1>11 DEF StmtCall, Admitted, ConnNum, Goto, poolVars, sqlVars
<1>12. ASSUME NEW g \in Worker, StmtInTx(g) PROVE CallInv'
  BY <1>12 DEF StmtInTx, Admitted, ConnNum, Returns, Goto, poolVars, sqlVars
<1>13. ASSUME NEW g \in Worker, QueryCall(g) PROVE CallInv'
  BY <1>13 DEF QueryCall, Admitted, ConnNum, Goto, poolVars, sqlVars
<1>14. ASSUME NEW g \in Worker, QueryInTx(g) PROVE CallInv'
  BY <1>14 DEF QueryInTx, Admitted, ConnNum, poolVars, sqlVars
<1>15. ASSUME NEW g \in Worker, RowsEnd(g) PROVE CallInv'
  BY <1>15 DEF RowsEnd, poolVars
<1>16. ASSUME NEW g \in Worker, CrashInside(g) PROVE CallInv'
  BY <1>16 DEF CrashInside, Goto, poolVars, sqlVars
<1>17. ASSUME NEW g \in Worker, BeginTx(g) PROVE CallInv'
  BY <1>17 DEF BeginTx, Goto, Returns, ConnNum, poolVars
<1>18. ASSUME NEW g \in Worker, BeginAssign(g) PROVE CallInv'
  BY <1>18 DEF BeginAssign, Goto, ConnNum, poolVars, sqlVars
<1>19. ASSUME NEW g \in Worker, EndTx(g) PROVE CallInv'
  BY <1>19 DEF EndTx, Goto, poolVars
<1>20. ASSUME NEW g \in Worker, EndClear(g) PROVE CallInv'
  BY <1>20 DEF EndClear, Goto, Returns, ConnNum, poolVars, sqlVars
<1>21. ASSUME NEW g \in Worker, Stmt(g) PROVE CallInv'
  BY <1>21 DEF Stmt, Goto, Returns, ConnNum, poolVars
<1>22. ASSUME NEW g \in Worker, Query(g) PROVE CallInv'
  BY <1>22 DEF Query, Goto, Returns, ConnNum, poolVars
<1>23. ASSUME NEW s \in Session, Break(s) PROVE CallInv'
  BY <1>23 DEF Break, poolVars, sqlVars, localVars
<1>24. ASSUME UNCHANGED vars PROVE CallInv'
  BY <1>24 DEF vars, poolVars, sqlVars, localVars
<1>25. ASSUME NEW g \in Worker, CancelledWaiting(g) PROVE CallInv'
  BY <1>25 DEF CancelledWaiting, Returns, Goto, poolVars, sqlVars
<1> HIDE DEF CallInv
<1> QED
  BY <1>1, <1>2, <1>3, <1>4, <1>5, <1>6, <1>7, <1>8, <1>9, <1>10, <1>11, <1>12, <1>13, <1>14,
     <1>15, <1>16, <1>17, <1>18, <1>19, <1>20, <1>21, <1>22, <1>23, <1>24, <1>25 DEF Next, Owner, Call,
     Cancel, RowsClose, RowsCancelled, Proceed

\* No two handles come to hold one session, and none holds a closed one: a new
\* session is numbered above all the sessions in the pool.
LEMMA OwnInvStep == IInv /\ [Next]_vars => OwnInv'
<1> SUFFICES ASSUME IInv, [Next]_vars PROVE OwnInv'
  OBVIOUS
<1>0. /\ TypeOK /\ PoolInv /\ CallInv /\ OwnInv /\ TxInv /\ OrphanInv
      /\ RowsInv /\ UserInv /\ UsedInv
  BY DEF IInv
<1> USE <1>0 DEF TypeOK, PoolInv, OwnInv, TxInv, Held
<1>1. ASSUME NEW n \in -1 .. MaxConns, NEW u \in {"off", "on", "invalid"}, ConnectCall(n, u)
      PROVE  OwnInv'
  BY <1>1 DEF ConnectCall, ConnectAllowed, Allocate, poolVars, sqlVars, localVars
<1>2. ASSUME Probe PROVE OwnInv'
  BY <1>2 DEF Probe, CloseProbe, localVars
<1>3. ASSUME NEW i \in Index, Dial(i) PROVE OwnInv'
  <2>1. /\ dialed' = dialed + 1 /\ dialed + 1 \in Session
        /\ use' = [use EXCEPT ![dialed + 1] = "free"]
        /\ ConnPool' = [ConnPool EXCEPT ![i] = dialed + 1]
    BY <1>3 DEF Dial
  <2>2. ConnPool'[i] = dialed + 1 /\ use'[dialed + 1] = "free"
    BY <2>1
  <2>3. \A j \in Index : j # i => ConnPool'[j] = ConnPool[j]
    BY <2>1
  <2>4. \A t \in Session : t # dialed + 1 => use'[t] = use[t]
    BY <2>1
  <2>5. \A j \in Index : Held(j) => ConnPool[j] <= dialed /\ ConnPool[j] # dialed + 1
    OBVIOUS
  <2>6. \A j, k \in Index : ConnPool'[j] \in Session /\ ConnPool'[j] = ConnPool'[k] => j = k
    BY <2>2, <2>3, <2>5
  <2>7. \A j \in Index : ConnPool'[j] \in Session => ConnPool'[j] <= dialed' /\ use'[ConnPool'[j]] # "closed"
    BY <2>1, <2>2, <2>3, <2>4, <2>5
  <2>8. ASSUME NEW t \in Session, use'[t] = "free"
        PROVE  \E j \in Index : ConnPool'[j] = t
    <3>1. CASE t = dialed + 1
      BY <2>2, <3>1
    <3>2. CASE t # dialed + 1
      <4>1. use[t] = "free"
        BY <2>4, <2>8, <3>2
      <4>2. \E j \in Index : ConnPool[j] = t
        BY ONLY <1>0, <4>1 DEF OwnInv
      <4>3. ConnPool[i] = NilDB
        BY <1>3 DEF Dial, NextToDial
      <4>4. PICK j \in Index : ConnPool[j] = t
        BY ONLY <4>2
      <4>5. j # i
        BY ONLY <4>3, <4>4 DEF Session, NilDB
      <4>6. ConnPool'[j] = t
        BY ONLY <2>3, <4>4, <4>5
      <4> QED
        BY ONLY <4>6, <4>4
    <3> QED
      BY <3>1, <3>2
  <2> QED
    BY <2>6, <2>7, <2>8
<1>4. ASSUME DialFails PROVE OwnInv'
  BY <1>4 DEF DialFails, sqlVars, localVars
<1>5. ASSUME VersionQuery PROVE OwnInv'
  <2>1. CASE AcquireFails(0)
    BY <1>5, <2>1, OwnAcquireFails DEF VersionQuery, localVars
  <2>2. ASSUME NEW s \in Session, Acquire(0, s, "free")
        PROVE  OwnInv'
    BY <1>5, <2>2, OwnAcquire DEF VersionQuery, localVars, SessionUse
  <2> QED
    BY <1>5, <2>1, <2>2 DEF VersionQuery, ConnNum
<1>6. ASSUME Close PROVE OwnInv'
  BY <1>6 DEF Close, localVars
<1>7. ASSUME NEW g \in Worker, FatalCall(g) PROVE OwnInv'
  BY <1>7 DEF FatalCall, Goto, poolVars, sqlVars
<1>8. ASSUME NEW g \in Worker, CrashCall(g) PROVE OwnInv'
  BY <1>8 DEF CrashCall, Goto, poolVars, sqlVars
<1>9. ASSUME NEW g \in Worker, BeginCall(g) PROVE OwnInv'
  BY <1>9 DEF BeginCall, Admitted, ConnNum, Goto, poolVars, sqlVars
<1>10. ASSUME NEW g \in Worker, EndCall(g) PROVE OwnInv'
  BY <1>10 DEF EndCall, Admitted, ConnNum, Goto, poolVars, sqlVars
<1>11. ASSUME NEW g \in Worker, StmtCall(g) PROVE OwnInv'
  BY <1>11 DEF StmtCall, Admitted, ConnNum, Goto, poolVars, sqlVars
<1>12. ASSUME NEW g \in Worker, StmtInTx(g) PROVE OwnInv'
  BY <1>12 DEF StmtInTx, Admitted, ConnNum, Returns, Goto, poolVars, sqlVars
<1>13. ASSUME NEW g \in Worker, QueryCall(g) PROVE OwnInv'
  BY <1>13 DEF QueryCall, Admitted, ConnNum, Goto, poolVars, sqlVars
<1>14. ASSUME NEW g \in Worker, QueryInTx(g) PROVE OwnInv'
  BY <1>14 DEF QueryInTx, Admitted, ConnNum, poolVars, sqlVars
<1>15. ASSUME NEW g \in Worker, RowsEnd(g) PROVE OwnInv'
  <2>1. CASE use[rows[g]] = "rows"
    <3>1. rows[g] \in Session /\ GiveBack(rows[g]) /\ dialed' = dialed
      BY <1>15, <2>1 DEF RowsEnd
    <3> QED
      BY <3>1, OwnGiveBack
  <2>2. CASE use[rows[g]] # "rows"
    <3>1. UNCHANGED <<ConnPool, use, dialed>>
      BY <1>15, <2>2 DEF RowsEnd
    <3> QED
      BY <3>1
  <2> QED
    BY <2>1, <2>2
<1>16. ASSUME NEW g \in Worker, CrashInside(g) PROVE OwnInv'
  BY <1>16 DEF CrashInside, Goto, poolVars, sqlVars
<1>17. ASSUME NEW g \in Worker, BeginTx(g) PROVE OwnInv'
  <2>1. CASE AcquireFails(g) /\ Returns(g) /\ UNCHANGED <<tx, users>>
    BY <1>17, <2>1, OwnAcquireFails DEF BeginTx, Goto, Returns, ConnNum, poolVars
  <2>2. ASSUME NEW s \in Session, Acquire(g, s, "tx"),
               tx' = [tx EXCEPT ![g] = s],
               users' = [users EXCEPT ![s] = @ \cup {g}],
               Goto(g, "assign")
        PROVE  OwnInv'
    BY <1>17, <2>2, OwnAcquire DEF BeginTx, ConnNum, SessionUse
  <2> QED
    BY <1>17, <2>1, <2>2 DEF BeginTx, ConnNum
<1>18. ASSUME NEW g \in Worker, BeginAssign(g) PROVE OwnInv'
  BY <1>18 DEF BeginAssign, Goto, ConnNum, poolVars, sqlVars
<1>19. ASSUME NEW g \in Worker, EndTx(g) PROVE OwnInv'
  <2>1. tx[g] \in Session /\ GiveBack(tx[g]) /\ dialed' = dialed
    BY <1>19 DEF EndTx
  <2> QED
    BY <2>1, OwnGiveBack
<1>20. ASSUME NEW g \in Worker, EndClear(g) PROVE OwnInv'
  BY <1>20 DEF EndClear, Goto, Returns, ConnNum, poolVars, sqlVars
<1>21. ASSUME NEW g \in Worker, Stmt(g) PROVE OwnInv'
  <2>1. CASE AcquireFails(g) /\ UNCHANGED <<users, cancelled>>
    BY <1>21, <2>1, OwnAcquireFails DEF Stmt, Goto, Returns, ConnNum, poolVars
  <2>2. ASSUME NEW s \in Session, Acquire(g, s, "free"), Runs(g, s)
        PROVE  OwnInv'
    BY <1>21, <2>2, OwnAcquire DEF Stmt, Goto, Returns, ConnNum, poolVars, SessionUse
  <2> QED
    BY <1>21, <2>1, <2>2 DEF Stmt, ConnNum
<1>22. ASSUME NEW g \in Worker, Query(g) PROVE OwnInv'
  <2>1. CASE AcquireFails(g) /\ Returns(g) /\ UNCHANGED <<rows, users, cancelled>>
    BY <1>22, <2>1, OwnAcquireFails DEF Query, Goto, Returns, ConnNum, poolVars
  <2>2. ASSUME NEW s \in Session, Acquire(g, s, "rows"),
               rows' = [rows EXCEPT ![g] = s],
               users' = [users EXCEPT ![s] = @ \cup {g}],
               Goto(g, "ready"), UNCHANGED cancelled
        PROVE  OwnInv'
    BY <1>22, <2>2, OwnAcquire DEF Query, Goto, Returns, ConnNum, poolVars, SessionUse
  <2>3. ASSUME NEW s \in Session, Acquire(g, s, "free"), Runs(g, s), Returns(g), UNCHANGED rows
        PROVE  OwnInv'
    BY <1>22, <2>3, OwnAcquire DEF Query, Goto, Returns, ConnNum, poolVars, SessionUse
  <2> QED
    BY <1>22, <2>1, <2>2, <2>3 DEF Query, ConnNum
<1>23. ASSUME NEW s \in Session, Break(s) PROVE OwnInv'
  BY <1>23 DEF Break, poolVars, sqlVars, localVars
<1>24. ASSUME UNCHANGED vars PROVE OwnInv'
  BY <1>24 DEF vars, poolVars, sqlVars, localVars
<1>25. ASSUME NEW g \in Worker, CancelledWaiting(g) PROVE OwnInv'
  BY <1>25 DEF CancelledWaiting, Returns, Goto, poolVars, sqlVars
<1> HIDE DEF OwnInv
<1> QED
  BY <1>1, <1>2, <1>3, <1>4, <1>5, <1>6, <1>7, <1>8, <1>9, <1>10, <1>11, <1>12, <1>13, <1>14,
     <1>15, <1>16, <1>17, <1>18, <1>19, <1>20, <1>21, <1>22, <1>23, <1>24, <1>25 DEF Next, Owner, Call,
     Cancel, RowsClose, RowsCancelled, Proceed

\* Slot, local transaction and session move together through Begin, Commit
\* and Rollback, and no step of one worker touches those of another.
LEMMA TxInvStep == IInv /\ [Next]_vars => TxInv'
<1> SUFFICES ASSUME IInv, [Next]_vars PROVE TxInv'
  OBVIOUS
<1>0. /\ TypeOK /\ PoolInv /\ CallInv /\ OwnInv /\ TxInv /\ OrphanInv
      /\ RowsInv /\ UserInv /\ UsedInv
  BY DEF IInv
<1> USE <1>0 DEF TypeOK, PoolInv, CallInv, OwnInv, TxInv, Held, InTx, Resting, Waiting, Inside
<1>1. ASSUME NEW n \in -1 .. MaxConns, NEW u \in {"off", "on", "invalid"}, ConnectCall(n, u)
      PROVE  TxInv'
  BY <1>1 DEF ConnectCall, ConnectAllowed, Allocate, poolVars, sqlVars, localVars
<1>2. ASSUME Probe PROVE TxInv'
  BY <1>2 DEF Probe, CloseProbe, localVars
<1>3. ASSUME NEW i \in Index, Dial(i) PROVE TxInv'
  BY <1>3 DEF Dial, NextToDial, localVars
<1>4. ASSUME DialFails PROVE TxInv'
  BY <1>4 DEF DialFails, sqlVars, localVars
<1>5. ASSUME VersionQuery PROVE TxInv'
  <2>1. CASE AcquireFails(0)
    BY <1>5, <2>1, AcquireFailsLocal DEF VersionQuery, localVars
  <2>2. ASSUME NEW s \in Session, Acquire(0, s, "free")
        PROVE  TxInv'
    <3>1. /\ ConnPool'[0] = s /\ use'[s] = "free"
          /\ Held(0) => use[ConnPool[0]] = "free"
          /\ \A j \in Index : j # 0 =>
               /\ ConnPool'[j] = ConnPool[j]
               /\ Held(j) => use'[ConnPool[j]] = use[ConnPool[j]]
      BY <1>5, <2>2, AcquireLocal DEF VersionQuery, SessionUse
    <3>2. /\ UNCHANGED <<NumConns, Tx, pc, tx>>
          /\ \A g \in Worker : pc[g] \in Resting
      BY <1>5 DEF VersionQuery, localVars
    <3>a. ~InTx(0)' /\ ~InTx(0)
      BY <3>1
    <3>b. \A g \in Worker : g # 0 => (InTx(g)' <=> InTx(g))
      BY <3>1
    <3>3. \A g \in Worker : InTx(g)' <=> InTx(g)
      BY <3>a, <3>b
    <3>4. \A g \in Worker : InTx(g) => ConnPool'[g] = ConnPool[g]
      BY <3>1, <3>a
    <3> QED
      BY <3>2, <3>3, <3>4
  <2> QED
    BY <1>5, <2>1, <2>2 DEF VersionQuery, ConnNum
<1>6. ASSUME Close PROVE TxInv'
  BY <1>6 DEF Close, localVars
<1>7. ASSUME NEW g \in Worker, FatalCall(g) PROVE TxInv'
  BY <1>7 DEF FatalCall, Goto, poolVars, sqlVars
<1>8. ASSUME NEW g \in Worker, CrashCall(g) PROVE TxInv'
  <2>1. UNCHANGED <<NumConns, ConnPool, use, Tx, tx>> /\ pc' = [pc EXCEPT ![g] = "crashed"]
        /\ pc[g] = "ready"
    BY <1>8 DEF CrashCall, Goto, poolVars, sqlVars
  <2> QED
    BY <2>1
<1>9. ASSUME NEW g \in Worker, BeginCall(g) PROVE TxInv'
  BY <1>9 DEF BeginCall, Admitted, ConnNum, Goto, poolVars, sqlVars
<1>10. ASSUME NEW g \in Worker, EndCall(g) PROVE TxInv'
  BY <1>10 DEF EndCall, Admitted, ConnNum, Goto, poolVars, sqlVars
<1>11. ASSUME NEW g \in Worker, StmtCall(g) PROVE TxInv'
  BY <1>11 DEF StmtCall, Admitted, ConnNum, Goto, poolVars, sqlVars
<1>12. ASSUME NEW g \in Worker, StmtInTx(g) PROVE TxInv'
  BY <1>12 DEF StmtInTx, Admitted, ConnNum, Returns, Goto, poolVars, sqlVars
<1>13. ASSUME NEW g \in Worker, QueryCall(g) PROVE TxInv'
  BY <1>13 DEF QueryCall, Admitted, ConnNum, Goto, poolVars, sqlVars
<1>14. ASSUME NEW g \in Worker, QueryInTx(g) PROVE TxInv'
  BY <1>14 DEF QueryInTx, Admitted, ConnNum, poolVars, sqlVars
<1>15. ASSUME NEW g \in Worker, RowsEnd(g) PROVE TxInv'
  <2>1. ConnPool' = ConnPool /\ \A t \in Session : use'[t] = "tx" <=> use[t] = "tx"
    BY <1>15, RowsEndFacts
  <2>2. \A h \in Worker : InTx(h)' <=> InTx(h)
    BY <2>1
  <2> QED
    BY <1>15, <2>1, <2>2 DEF RowsEnd, poolVars
<1>16. ASSUME NEW g \in Worker, CrashInside(g) PROVE TxInv'
  BY <1>16 DEF CrashInside, Goto, poolVars, sqlVars
<1>17. ASSUME NEW g \in Worker, BeginTx(g) PROVE TxInv'
  <2>1. CASE AcquireFails(g) /\ Returns(g) /\ UNCHANGED <<tx, users>>
    <3>1. /\ UNCHANGED <<Tx, tx, NumConns>> /\ ~Busy(g) /\ pc[g] = "begin"
          /\ \E l \in {"ready", "fatal"} : pc' = [pc EXCEPT ![g] = l]
      BY <1>17, <2>1 DEF BeginTx, Returns, ConnNum, Goto, poolVars
    <3>2. /\ pc[g] \in Waiting /\ pc'[g] \in Resting
          /\ \A h \in Worker : h # g => pc'[h] = pc[h]
      BY <3>1
    <3> HIDE DEF TxInv, Resting, Waiting
    <3> QED
      BY <2>1, <3>1, <3>2, TxAcquireFails
  <2>2. ASSUME NEW s \in Session, Acquire(g, s, "tx"),
               tx' = [tx EXCEPT ![g] = s],
               users' = [users EXCEPT ![s] = @ \cup {g}],
               Goto(g, "assign")
        PROVE  TxInv'
    <3>1. /\ UNCHANGED <<Tx, NumConns>> /\ ~Busy(g) /\ pc[g] = "begin"
          /\ pc' = [pc EXCEPT ![g] = "assign"]
      BY <1>17, <2>2 DEF BeginTx, ConnNum, Goto, poolVars
    <3>2. tx'[g] = s /\ \A h \in Worker : h # g => pc'[h] = pc[h] /\ tx'[h] = tx[h]
      BY <2>2, <3>1
    <3>3. pc[g] \in Waiting /\ pc'[g] \in {"assign"}
      BY <3>1
    <3> HIDE DEF TxInv, Resting, Waiting
    <3> QED
      BY <2>2, <3>1, <3>2, <3>3, TxAcquire DEF SessionUse
  <2> QED
    BY <1>17, <2>1, <2>2 DEF BeginTx, ConnNum
<1>18. ASSUME NEW g \in Worker, BeginAssign(g) PROVE TxInv'
  BY <1>18 DEF BeginAssign, Goto, ConnNum, poolVars, sqlVars
<1>19. ASSUME NEW g \in Worker, EndTx(g) PROVE TxInv'
  <2>1. tx[g] \in Session
    BY <1>19 DEF EndTx
  <2>2. /\ ConnPool' = ConnPool /\ use'[tx[g]] \in {"free", "closed"}
        /\ \A t \in Session : t # tx[g] => use'[t] = use[t]
    <3>1. GiveBack(tx[g])
      BY <1>19 DEF EndTx
    <3> HIDE DEF TypeOK, TxInv
    <3> QED
      BY <2>1, <3>1, GiveBackLocal
  <2>3. /\ pc' = [pc EXCEPT ![g] = "clear"] /\ tx' = [tx EXCEPT ![g] = NoTx]
        /\ Tx' = Tx /\ NumConns' = NumConns /\ pc[g] = "end"
    BY <1>19 DEF EndTx, Goto, poolVars
  <2>4. g < NumConns \/ NumConns = 0
    BY <2>3, CallAdmitted
  <2>5. CASE g < NumConns
    <3>1. ConnPool[g] = tx[g]
      BY <2>3, <2>5
    <3>2. ~InTx(g)' /\ Held(g)'
      BY <2>1, <2>2, <3>1
    <3>3. \A h \in Worker : h # g => (InTx(h)' <=> InTx(h)) /\ (Held(h)' <=> Held(h))
      BY <2>1, <2>2, <3>1
    <3> QED
      BY <2>2, <2>3, <2>5, <3>1, <3>2, <3>3
  <2>6. CASE NumConns = 0
    BY <2>3, <2>6
  <2> QED
    BY <2>4, <2>5, <2>6
<1>20. ASSUME NEW g \in Worker, EndClear(g) PROVE TxInv'
  BY <1>20 DEF EndClear, Goto, Returns, ConnNum, poolVars, sqlVars
<1>21. ASSUME NEW g \in Worker, Stmt(g) PROVE TxInv'
  <2>1. CASE AcquireFails(g) /\ UNCHANGED <<users, cancelled>>
    <3>1. /\ UNCHANGED <<Tx, tx, NumConns>> /\ ~Busy(g) /\ pc[g] = "stmt"
          /\ \E l \in {"ready", "fatal"} : pc' = [pc EXCEPT ![g] = l]
      BY <1>21, <2>1 DEF Stmt, Returns, ConnNum, Goto, poolVars
    <3>2. /\ pc[g] \in Waiting /\ pc'[g] \in Resting
          /\ \A h \in Worker : h # g => pc'[h] = pc[h]
      BY <3>1
    <3> HIDE DEF TxInv, Resting, Waiting
    <3> QED
      BY <2>1, <3>1, <3>2, TxAcquireFails
  <2>2. ASSUME NEW s \in Session, Acquire(g, s, "free"), Runs(g, s)
        PROVE  TxInv'
    <3>1. /\ UNCHANGED <<Tx, tx, NumConns>> /\ ~Busy(g) /\ pc[g] = "stmt"
          /\ \E l \in {"ready", "fatal"} : pc' = [pc EXCEPT ![g] = l]
      BY <1>21 DEF Stmt, Returns, ConnNum, Goto, poolVars
    <3>2. tx'[g] = tx[g] /\ \A h \in Worker : h # g => pc'[h] = pc[h] /\ tx'[h] = tx[h]
      BY <2>2, <3>1
    <3>3. pc[g] \in Waiting /\ pc'[g] \in Resting
      BY <3>1
    <3> HIDE DEF TxInv, Resting, Waiting
    <3> QED
      BY <2>2, <3>1, <3>2, <3>3, TxAcquire DEF SessionUse
  <2> QED
    BY <1>21, <2>1, <2>2 DEF Stmt, ConnNum
<1>22. ASSUME NEW g \in Worker, Query(g) PROVE TxInv'
  <2>1. CASE AcquireFails(g) /\ Returns(g) /\ UNCHANGED <<rows, users, cancelled>>
    <3>1. /\ UNCHANGED <<Tx, tx, NumConns>> /\ ~Busy(g) /\ pc[g] = "query"
          /\ \E l \in {"ready", "fatal"} : pc' = [pc EXCEPT ![g] = l]
      BY <1>22, <2>1 DEF Query, Returns, ConnNum, Goto, poolVars
    <3>2. /\ pc[g] \in Waiting /\ pc'[g] \in Resting
          /\ \A h \in Worker : h # g => pc'[h] = pc[h]
      BY <3>1
    <3> HIDE DEF TxInv, Resting, Waiting
    <3> QED
      BY <2>1, <3>1, <3>2, TxAcquireFails
  <2>2. ASSUME NEW s \in Session, Acquire(g, s, "rows"),
               rows' = [rows EXCEPT ![g] = s],
               users' = [users EXCEPT ![s] = @ \cup {g}],
               Goto(g, "ready"), UNCHANGED cancelled
        PROVE  TxInv'
    <3>1. /\ UNCHANGED <<Tx, tx, NumConns>> /\ ~Busy(g) /\ pc[g] = "query"
          /\ pc' = [pc EXCEPT ![g] = "ready"]
      BY <1>22, <2>2 DEF Query, ConnNum, Goto, poolVars
    <3>2. tx'[g] = tx[g] /\ \A h \in Worker : h # g => pc'[h] = pc[h] /\ tx'[h] = tx[h]
      BY <2>2, <3>1
    <3>3. pc[g] \in Waiting /\ pc'[g] \in Resting
      BY <3>1
    <3> HIDE DEF TxInv, Resting, Waiting
    <3> QED
      BY <2>2, <3>1, <3>2, <3>3, TxAcquire DEF SessionUse
  <2>3. ASSUME NEW s \in Session, Acquire(g, s, "free"), Runs(g, s), Returns(g), UNCHANGED rows
        PROVE  TxInv'
    <3>1. /\ UNCHANGED <<Tx, tx, NumConns>> /\ ~Busy(g) /\ pc[g] = "query"
          /\ \E l \in {"ready", "fatal"} : pc' = [pc EXCEPT ![g] = l]
      BY <1>22, <2>3 DEF Query, Returns, ConnNum, Goto, poolVars
    <3>2. tx'[g] = tx[g] /\ \A h \in Worker : h # g => pc'[h] = pc[h] /\ tx'[h] = tx[h]
      BY <2>3, <3>1
    <3>3. pc[g] \in Waiting /\ pc'[g] \in Resting
      BY <3>1
    <3> HIDE DEF TxInv, Resting, Waiting
    <3> QED
      BY <2>3, <3>1, <3>2, <3>3, TxAcquire DEF SessionUse
  <2> QED
    BY <1>22, <2>1, <2>2, <2>3 DEF Query, ConnNum
<1>23. ASSUME NEW s \in Session, Break(s) PROVE TxInv'
  BY <1>23 DEF Break, poolVars, sqlVars, localVars
<1>24. ASSUME UNCHANGED vars PROVE TxInv'
  BY <1>24 DEF vars, poolVars, sqlVars, localVars
<1>25. ASSUME NEW g \in Worker, CancelledWaiting(g) PROVE TxInv'
  BY <1>25 DEF CancelledWaiting, Returns, Goto, poolVars, sqlVars
<1> HIDE DEF TxInv
<1> QED
  BY <1>1, <1>2, <1>3, <1>4, <1>5, <1>6, <1>7, <1>8, <1>9, <1>10, <1>11, <1>12, <1>13, <1>14,
     <1>15, <1>16, <1>17, <1>18, <1>19, <1>20, <1>21, <1>22, <1>23, <1>24, <1>25 DEF Next, Owner, Call,
     Cancel, RowsClose, RowsCancelled, Proceed

\* A transaction that begins is in a local variable, then in a slot, then in a
\* local variable again until it has ended.
LEMMA OrphanInvStep == IInv /\ [Next]_vars => OrphanInv'
<1> SUFFICES ASSUME IInv, [Next]_vars PROVE OrphanInv'
  OBVIOUS
<1>0. /\ TypeOK /\ PoolInv /\ CallInv /\ OwnInv /\ TxInv /\ OrphanInv
      /\ RowsInv /\ UserInv /\ UsedInv
  BY DEF IInv
<1> USE <1>0 DEF TypeOK, PoolInv, CallInv, TxInv, OrphanInv, NoOrphanTransaction, Held, InTx, Resting, Waiting, Inside
<1>1. ASSUME NEW n \in -1 .. MaxConns, NEW u \in {"off", "on", "invalid"}, ConnectCall(n, u)
      PROVE  OrphanInv'
  BY <1>1 DEF ConnectCall, ConnectAllowed, Allocate, poolVars, sqlVars, localVars
<1>2. ASSUME Probe PROVE OrphanInv'
  BY <1>2 DEF Probe, CloseProbe, localVars
<1>3. ASSUME NEW i \in Index, Dial(i) PROVE OrphanInv'
  BY <1>3 DEF Dial, NextToDial, localVars
<1>4. ASSUME DialFails PROVE OrphanInv'
  BY <1>4 DEF DialFails, sqlVars, localVars
<1>5. ASSUME VersionQuery PROVE OrphanInv'
  <2>1. /\ UNCHANGED <<Tx, tx, NumConns, abandoned>> /\ ~Busy(0) /\ 0 \in Index
        /\ (\E s \in Session : Acquire(0, s, "free")) \/ AcquireFails(0)
    BY <1>5 DEF VersionQuery, localVars
  <2> HIDE DEF OrphanInv
  <2> QED
    BY <2>1, OrphanAcquire, OrphanAcquireFails DEF SessionUse
<1>6. ASSUME Close PROVE OrphanInv'
  BY <1>6 DEF Close, localVars
<1>7. ASSUME NEW g \in Worker, FatalCall(g) PROVE OrphanInv'
  BY <1>7 DEF FatalCall, Goto, poolVars, sqlVars
<1>8. ASSUME NEW g \in Worker, CrashCall(g) PROVE OrphanInv'
  BY <1>8 DEF CrashCall, Goto, poolVars, sqlVars
<1>9. ASSUME NEW g \in Worker, BeginCall(g) PROVE OrphanInv'
  BY <1>9 DEF BeginCall, Admitted, ConnNum, Goto, poolVars, sqlVars
<1>10. ASSUME NEW g \in Worker, EndCall(g) PROVE OrphanInv'
  <2>1. /\ tx' = [tx EXCEPT ![g] = Tx[g]] /\ Tx' = Tx /\ tx[g] = NoTx
        /\ use' = use /\ abandoned' = abandoned /\ NumConns' = NumConns
    BY <1>10 DEF EndCall, Admitted, ConnNum, poolVars, sqlVars
  <2>2. ASSUME NEW t \in Session, NEW h \in Worker, t \in {Tx[h], tx[h]}
        PROVE  \E k \in Worker : t \in {Tx'[k], tx'[k]}
    BY <2>1, <2>2
  <2> HIDE DEF TypeOK, PoolInv, CallInv, TxInv
  <2> QED
    BY <2>1, <2>2
<1>11. ASSUME NEW g \in Worker, StmtCall(g) PROVE OrphanInv'
  BY <1>11 DEF StmtCall, Admitted, ConnNum, Goto, poolVars, sqlVars
<1>12. ASSUME NEW g \in Worker, StmtInTx(g) PROVE OrphanInv'
  BY <1>12 DEF StmtInTx, Admitted, ConnNum, Returns, Goto, poolVars, sqlVars
<1>13. ASSUME NEW g \in Worker, QueryCall(g) PROVE OrphanInv'
  BY <1>13 DEF QueryCall, Admitted, ConnNum, Goto, poolVars, sqlVars
<1>14. ASSUME NEW g \in Worker, QueryInTx(g) PROVE OrphanInv'
  BY <1>14 DEF QueryInTx, Admitted, ConnNum, poolVars, sqlVars
<1>15. ASSUME NEW g \in Worker, RowsEnd(g) PROVE OrphanInv'
  <2>1. \A t \in Session : use'[t] = "tx" => use[t] = "tx"
    BY <1>15, RowsEndFacts
  <2> QED
    BY <1>15, <2>1 DEF RowsEnd, poolVars
<1>16. ASSUME NEW g \in Worker, CrashInside(g) PROVE OrphanInv'
  BY <1>16 DEF CrashInside, Goto, poolVars, sqlVars
<1>17. ASSUME NEW g \in Worker, BeginTx(g) PROVE OrphanInv'
  <2>1. CASE AcquireFails(g) /\ Returns(g) /\ UNCHANGED <<tx, users>>
    BY <1>17, <2>1, OrphanAcquireFails DEF BeginTx, Goto, Returns, ConnNum, poolVars
  <2>2. ASSUME NEW s \in Session, Acquire(g, s, "tx"),
               tx' = [tx EXCEPT ![g] = s],
               users' = [users EXCEPT ![s] = @ \cup {g}],
               Goto(g, "assign")
        PROVE  OrphanInv'
    <3>1. UNCHANGED <<Tx, NumConns, abandoned>> /\ ~Busy(g) /\ pc[g] = "begin"
      BY <1>17 DEF BeginTx, ConnNum, poolVars
    <3>2. ConnPool[g] # NilDB
      BY <2>2, <3>1, AcquireLocal DEF SessionUse
    <3>3. NumConns > 0
      <4>1. pc[g] \notin Resting
        BY <3>1
      <4>2. g < NumConns
        BY <1>0, <3>2, <4>1, CallAdmitted
      <4> QED
        BY <4>2
    <3>4. tx'[g] = s /\ \A h \in Worker : tx[h] # NoTx => tx'[h] = tx[h]
      BY <2>2, <3>1
    <3> HIDE DEF OrphanInv
    <3> QED
      BY <2>2, <3>1, <3>3, <3>4, OrphanAcquire DEF SessionUse
  <2> QED
    BY <1>17, <2>1, <2>2 DEF BeginTx, ConnNum
<1>18. ASSUME NEW g \in Worker, BeginAssign(g) PROVE OrphanInv'
  <2>1. /\ Tx' = [Tx EXCEPT ![g] = tx[g]] /\ tx' = [tx EXCEPT ![g] = NoTx]
        /\ Tx[g] = NoTx /\ tx[g] # NoTx
        /\ use' = use /\ abandoned' = abandoned /\ NumConns' = NumConns
    BY <1>18 DEF BeginAssign, ConnNum, poolVars, sqlVars
  <2>2. ASSUME NEW t \in Session, NEW h \in Worker, t \in {Tx[h], tx[h]}
        PROVE  \E k \in Worker : t \in {Tx'[k], tx'[k]}
    BY <2>1, <2>2
  <2> HIDE DEF TypeOK, PoolInv, CallInv, TxInv
  <2> QED
    BY <2>1, <2>2
<1>19. ASSUME NEW g \in Worker, EndTx(g) PROVE OrphanInv'
  <2>1. tx[g] \in Session
    BY <1>19 DEF EndTx
  <2>2. \A h \in Worker : tx[h] \in {tx[g], tx'[h]}
    BY <1>19 DEF EndTx
  <2> QED
    BY <1>19, <2>1, <2>2, OrphanGiveBack DEF EndTx, poolVars
<1>20. ASSUME NEW g \in Worker, EndClear(g) PROVE OrphanInv'
  <2>1. /\ Tx' = [Tx EXCEPT ![g] = NoTx] /\ tx' = tx /\ tx[g] = NoTx
        /\ use' = use /\ abandoned' = abandoned /\ NumConns' = NumConns
        /\ g < NumConns /\ Tx[g] = ConnPool[g] /\ Held(g) /\ ~InTx(g)
    BY <1>20 DEF EndClear, ConnNum, poolVars, sqlVars
  <2>2. ASSUME NEW t \in Session, use[t] = "tx", NEW h \in Worker, t \in {Tx[h], tx[h]}
        PROVE  t \in {Tx'[h], tx'[h]}
    BY <2>1, <2>2
  <2> HIDE DEF TypeOK, PoolInv, CallInv, TxInv
  <2> QED
    BY <2>1, <2>2
<1>21. ASSUME NEW g \in Worker, Stmt(g) PROVE OrphanInv'
  <2>1. CASE AcquireFails(g) /\ UNCHANGED <<users, cancelled>>
    BY <1>21, <2>1, OrphanAcquireFails DEF Stmt, Goto, Returns, ConnNum, poolVars
  <2>2. ASSUME NEW s \in Session, Acquire(g, s, "free"), Runs(g, s)
        PROVE  OrphanInv'
    BY <1>21, <2>2, OrphanAcquire DEF Stmt, Goto, Returns, ConnNum, poolVars, SessionUse
  <2> QED
    BY <1>21, <2>1, <2>2 DEF Stmt, ConnNum
<1>22. ASSUME NEW g \in Worker, Query(g) PROVE OrphanInv'
  <2>1. CASE AcquireFails(g) /\ Returns(g) /\ UNCHANGED <<rows, users, cancelled>>
    BY <1>22, <2>1, OrphanAcquireFails DEF Query, Goto, Returns, ConnNum, poolVars
  <2>2. ASSUME NEW s \in Session, Acquire(g, s, "rows"),
               rows' = [rows EXCEPT ![g] = s],
               users' = [users EXCEPT ![s] = @ \cup {g}],
               Goto(g, "ready"), UNCHANGED cancelled
        PROVE  OrphanInv'
    BY <1>22, <2>2, OrphanAcquire DEF Query, Goto, Returns, ConnNum, poolVars, SessionUse
  <2>3. ASSUME NEW s \in Session, Acquire(g, s, "free"), Runs(g, s), Returns(g), UNCHANGED rows
        PROVE  OrphanInv'
    BY <1>22, <2>3, OrphanAcquire DEF Query, Goto, Returns, ConnNum, poolVars, SessionUse
  <2> QED
    BY <1>22, <2>1, <2>2, <2>3 DEF Query, ConnNum
<1>23. ASSUME NEW s \in Session, Break(s) PROVE OrphanInv'
  BY <1>23 DEF Break, poolVars, sqlVars, localVars
<1>24. ASSUME UNCHANGED vars PROVE OrphanInv'
  BY <1>24 DEF vars, poolVars, sqlVars, localVars
<1>25. ASSUME NEW g \in Worker, CancelledWaiting(g) PROVE OrphanInv'
  BY <1>25 DEF CancelledWaiting, Returns, Goto, poolVars, sqlVars
<1> HIDE DEF OrphanInv
<1> QED
  BY <1>1, <1>2, <1>3, <1>4, <1>5, <1>6, <1>7, <1>8, <1>9, <1>10, <1>11, <1>12, <1>13, <1>14,
     <1>15, <1>16, <1>17, <1>18, <1>19, <1>20, <1>21, <1>22, <1>23, <1>24, <1>25 DEF Next, Owner, Call,
     Cancel, RowsClose, RowsCancelled, Proceed

\* Rows stay with the worker that reads them, and one that asks for rows has
\* none open on another session.
LEMMA RowsInvStep == IInv /\ [Next]_vars => RowsInv'
<1> SUFFICES ASSUME IInv, [Next]_vars PROVE RowsInv'
  OBVIOUS
<1>0. /\ TypeOK /\ PoolInv /\ CallInv /\ OwnInv /\ TxInv /\ OrphanInv
      /\ RowsInv /\ UserInv /\ UsedInv
  BY DEF IInv
<1> USE <1>0 DEF TypeOK, PoolInv, CallInv, OwnInv, TxInv, RowsInv, Held, InTx, Resting, Waiting, Inside
<1>1. ASSUME NEW n \in -1 .. MaxConns, NEW u \in {"off", "on", "invalid"}, ConnectCall(n, u)
      PROVE  RowsInv'
  BY <1>1 DEF ConnectCall, ConnectAllowed, Allocate, poolVars, sqlVars, localVars
<1>2. ASSUME Probe PROVE RowsInv'
  BY <1>2 DEF Probe, CloseProbe, localVars
<1>3. ASSUME NEW i \in Index, Dial(i) PROVE RowsInv'
  <2>1. /\ ConnPool' = [ConnPool EXCEPT ![i] = dialed + 1]
        /\ use' = [use EXCEPT ![dialed + 1] = "free"]
        /\ pc' = pc /\ rows' = rows /\ stage = "dial"
    BY <1>3 DEF Dial, localVars
  <2>2. \A t \in Session : use'[t] = "rows" => use[t] = "rows"
    BY <2>1
  <2>3. \A g \in Worker : Held(g)' /\ use'[ConnPool'[g]] = "rows" => g # i
    BY <2>1
  <2>4. \A g \in Worker : g # i => ConnPool'[g] = ConnPool[g]
    BY <2>1
  <2>5. \A g \in Worker : pc[g] # "query"
    BY <2>1
  <2> QED
    BY <2>1, <2>2, <2>3, <2>4, <2>5
<1>4. ASSUME DialFails PROVE RowsInv'
  BY <1>4 DEF DialFails, sqlVars, localVars
<1>5. ASSUME VersionQuery PROVE RowsInv'
  <2>a. UNCHANGED <<NumConns, rows, pc>>
    BY <1>5 DEF VersionQuery, localVars
  <2>b. ~Busy(0) /\ ((\E s \in Session : Acquire(0, s, "free")) \/ AcquireFails(0))
    BY <1>5 DEF VersionQuery
  <2>c. 0 \in Index
    OBVIOUS
  <2>1. /\ UNCHANGED <<NumConns, rows, pc>> /\ ~Busy(0) /\ 0 \in Index
        /\ (\E s \in Session : Acquire(0, s, "free")) \/ AcquireFails(0)
    BY <2>a, <2>b, <2>c
  <2>2. pc[0] # "query"
    <3>1. stage = "version"
      BY <1>5 DEF VersionQuery
    <3> QED
      BY ONLY <1>0, <2>c, <3>1 DEF CallInv, Resting, Worker, Index
  <2> HIDE DEF RowsInv, PoolInv, CallInv
  <2> QED
    BY <2>1, <2>2, RowsAcquire, RowsAcquireFails DEF SessionUse
<1>6. ASSUME Close PROVE RowsInv'
  BY <1>6 DEF Close, localVars
<1>7. ASSUME NEW g \in Worker, FatalCall(g) PROVE RowsInv'
  BY <1>7 DEF FatalCall, Goto, poolVars, sqlVars
<1>8. ASSUME NEW g \in Worker, CrashCall(g) PROVE RowsInv'
  BY <1>8 DEF CrashCall, Goto, poolVars, sqlVars
<1>9. ASSUME NEW g \in Worker, BeginCall(g) PROVE RowsInv'
  BY <1>9 DEF BeginCall, Admitted, ConnNum, Goto, poolVars, sqlVars
<1>10. ASSUME NEW g \in Worker, EndCall(g) PROVE RowsInv'
  BY <1>10 DEF EndCall, Admitted, ConnNum, Goto, poolVars, sqlVars
<1>11. ASSUME NEW g \in Worker, StmtCall(g) PROVE RowsInv'
  BY <1>11 DEF StmtCall, Admitted, ConnNum, Goto, poolVars, sqlVars
<1>12. ASSUME NEW g \in Worker, StmtInTx(g) PROVE RowsInv'
  BY <1>12 DEF StmtInTx, Admitted, ConnNum, Returns, Goto, poolVars, sqlVars
<1>13. ASSUME NEW g \in Worker, QueryCall(g) PROVE RowsInv'
  BY <1>13 DEF QueryCall, Admitted, ConnNum, Goto, poolVars, sqlVars
<1>14. ASSUME NEW g \in Worker, QueryInTx(g) PROVE RowsInv'
  BY <1>14 DEF QueryInTx, Admitted, ConnNum, poolVars, sqlVars
<1>15. ASSUME NEW g \in Worker, RowsEnd(g) PROVE RowsInv'
  <2>1. rows[g] \in Session
    BY <1>15 DEF RowsEnd
  <2>2. \A h \in Worker : rows'[h] = rows[h] \/ (rows[h] = rows[g] /\ rows'[h] = NoRows)
    BY <1>15 DEF RowsEnd
  <2>3. pc' = pc /\ NumConns' = NumConns
    BY <1>15 DEF RowsEnd, poolVars
  <2>4. CASE use[rows[g]] = "rows"
    <3> HIDE DEF RowsInv
    <3> QED
      BY <1>15, <2>1, <2>2, <2>3, <2>4, RowsGiveBack DEF RowsEnd
  <2>5. CASE use[rows[g]] # "rows"
    BY <1>15, <2>2, <2>3, <2>5 DEF RowsEnd
  <2> QED
    BY <2>4, <2>5
<1>16. ASSUME NEW g \in Worker, CrashInside(g) PROVE RowsInv'
  BY <1>16 DEF CrashInside, Goto, poolVars, sqlVars
<1>17. ASSUME NEW g \in Worker, BeginTx(g) PROVE RowsInv'
  <2>1. CASE AcquireFails(g) /\ Returns(g) /\ UNCHANGED <<tx, users>>
    BY <1>17, <2>1, RowsAcquireFails DEF BeginTx, Goto, Returns, ConnNum, poolVars
  <2>2. ASSUME NEW s \in Session, Acquire(g, s, "tx"),
               tx' = [tx EXCEPT ![g] = s],
               users' = [users EXCEPT ![s] = @ \cup {g}],
               Goto(g, "assign")
        PROVE  RowsInv'
    <3>1. ~Busy(g) /\ rows' = rows /\ NumConns' = NumConns
      BY <1>17 DEF BeginTx, ConnNum, poolVars
    <3>2. (\A h \in Worker : h # g => pc'[h] = pc[h]) /\ pc'[g] # "query"
      BY <2>2 DEF Goto
    <3> QED
      BY <2>2, <3>1, <3>2, RowsAcquire DEF SessionUse
  <2> QED
    BY <1>17, <2>1, <2>2 DEF BeginTx, ConnNum
<1>18. ASSUME NEW g \in Worker, BeginAssign(g) PROVE RowsInv'
  BY <1>18 DEF BeginAssign, Goto, ConnNum, poolVars, sqlVars
<1>19. ASSUME NEW g \in Worker, EndTx(g) PROVE RowsInv'
  <2>1. tx[g] \in Session
    BY <1>19 DEF EndTx
  <2>2. \A h \in Worker : rows'[h] = rows[h] \/ (rows[h] = tx[g] /\ rows'[h] = NoRows)
    BY <1>19 DEF EndTx
  <2>3. \A h \in Worker : pc'[h] = "query" => pc[h] = "query"
    BY <1>19 DEF EndTx, Goto
  <2> HIDE DEF RowsInv
  <2> QED
    BY <1>19, <2>1, <2>2, <2>3, RowsGiveBack DEF EndTx, poolVars
<1>20. ASSUME NEW g \in Worker, EndClear(g) PROVE RowsInv'
  BY <1>20 DEF EndClear, Goto, Returns, ConnNum, poolVars, sqlVars
<1>21. ASSUME NEW g \in Worker, Stmt(g) PROVE RowsInv'
  <2>1. CASE AcquireFails(g) /\ UNCHANGED <<users, cancelled>>
    <3>1. UNCHANGED <<NumConns, rows>> /\ ~Busy(g) /\ \E l \in {"ready", "fatal"} : Goto(g, l)
      BY <1>21 DEF Stmt, Returns, ConnNum, poolVars
    <3>2. (\A h \in Worker : h # g => pc'[h] = pc[h]) /\ pc'[g] # "query"
      BY <3>1 DEF Goto
    <3> HIDE DEF RowsInv
    <3> QED
      BY <2>1, <3>1, <3>2, RowsAcquireFails
  <2>2. ASSUME NEW s \in Session, Acquire(g, s, "free"), Runs(g, s)
        PROVE  RowsInv'
    <3>1. pc[g] = "stmt" /\ ~Busy(g) /\ rows' = rows /\ NumConns' = NumConns
      BY <1>21 DEF Stmt, ConnNum, poolVars
    <3>2. (\A h \in Worker : h # g => pc'[h] = pc[h]) /\ pc'[g] # "query"
      BY <1>21 DEF Stmt, Goto, Returns
    <3> QED
      BY <2>2, <3>1, <3>2, RowsAcquire DEF SessionUse
  <2> QED
    BY <1>21, <2>1, <2>2 DEF Stmt, ConnNum
<1>22. ASSUME NEW g \in Worker, Query(g) PROVE RowsInv'
  <2>1. CASE AcquireFails(g) /\ Returns(g) /\ UNCHANGED <<rows, users, cancelled>>
    BY <1>22, <2>1, RowsAcquireFails DEF Query, Goto, Returns, ConnNum, poolVars
  <2>2. ASSUME NEW s \in Session, Acquire(g, s, "rows"),
               rows' = [rows EXCEPT ![g] = s],
               users' = [users EXCEPT ![s] = @ \cup {g}],
               Goto(g, "ready"), UNCHANGED cancelled
        PROVE  RowsInv'
    <3>1. UNCHANGED NumConns /\ ~Busy(g) /\ pc[g] = "query" /\ pc' = [pc EXCEPT ![g] = "ready"]
      BY <1>22, <2>2 DEF Query, ConnNum, Goto, poolVars
    <3> HIDE DEF RowsInv, PoolInv, CallInv
    <3> QED
      BY <2>2, <3>1, RowsAcquire DEF SessionUse
  <2>3. ASSUME NEW s \in Session, Acquire(g, s, "free"), Runs(g, s), Returns(g), UNCHANGED rows
        PROVE  RowsInv'
    <3>1. pc[g] = "query" /\ ~Busy(g) /\ rows' = rows /\ NumConns' = NumConns
      BY <1>22, <2>3 DEF Query, ConnNum, poolVars
    <3>2. (\A h \in Worker : h # g => pc'[h] = pc[h]) /\ pc'[g] # "query"
      BY <1>22, <2>3 DEF Query, Goto, Returns
    <3> QED
      BY <2>3, <3>1, <3>2, RowsAcquire DEF SessionUse
  <2> QED
    BY <1>22, <2>1, <2>2, <2>3 DEF Query, ConnNum
<1>23. ASSUME NEW s \in Session, Break(s) PROVE RowsInv'
  BY <1>23 DEF Break, poolVars, sqlVars, localVars
<1>24. ASSUME UNCHANGED vars PROVE RowsInv'
  BY <1>24 DEF vars, poolVars, sqlVars, localVars
<1>25. ASSUME NEW g \in Worker, CancelledWaiting(g) PROVE RowsInv'
  BY <1>25 DEF CancelledWaiting, Returns, Goto, poolVars, sqlVars
<1> HIDE DEF RowsInv
<1> QED
  BY <1>1, <1>2, <1>3, <1>4, <1>5, <1>6, <1>7, <1>8, <1>9, <1>10, <1>11, <1>12, <1>13, <1>14,
     <1>15, <1>16, <1>17, <1>18, <1>19, <1>20, <1>21, <1>22, <1>23, <1>24, <1>25 DEF Next, Owner, Call,
     Cancel, RowsClose, RowsCancelled, Proceed

\* A worker runs statements only in the session of its own handle, or in the
\* transaction pinned to that session.
LEMMA UserInvStep == IInv /\ [Next]_vars => UserInv'
<1> SUFFICES ASSUME IInv, [Next]_vars PROVE UserInv'
  OBVIOUS
<1>0. /\ TypeOK /\ PoolInv /\ CallInv /\ OwnInv /\ TxInv /\ OrphanInv
      /\ RowsInv /\ UserInv /\ UsedInv
  BY DEF IInv
<1> USE <1>0 DEF TypeOK, OwnInv, UserInv, PoolInv, TxInv, CallInv, Held, InTx, Resting, Waiting, Inside
<1>1. ASSUME NEW n \in -1 .. MaxConns, NEW u \in {"off", "on", "invalid"}, ConnectCall(n, u)
      PROVE  UserInv'
  BY <1>1 DEF ConnectCall, ConnectAllowed, Allocate, poolVars, sqlVars, localVars
<1>2. ASSUME Probe PROVE UserInv'
  BY <1>2 DEF Probe, CloseProbe, localVars
<1>3. ASSUME NEW i \in Index, Dial(i) PROVE UserInv'
  BY <1>3 DEF Dial, NextToDial, localVars
<1>4. ASSUME DialFails PROVE UserInv'
  BY <1>4 DEF DialFails, sqlVars, localVars
<1>5. ASSUME VersionQuery PROVE UserInv'
  <2>1. CASE AcquireFails(0)
    BY <1>5, <2>1, UserAcquireFails DEF VersionQuery, localVars
  <2>2. ASSUME NEW s \in Session, Acquire(0, s, "free")
        PROVE  UserInv'
    <3>1. ~Busy(0) /\ users' = users
      BY <1>5 DEF VersionQuery
    <3>2. 0 \in Index /\ "free" \in SessionUse
      BY DEF SessionUse
    <3> HIDE DEF TypeOK, OwnInv, UserInv, PoolInv, TxInv, CallInv, Index
    <3> QED
      BY <2>2, <3>1, <3>2, UserAcquire
  <2> QED
    BY <1>5, <2>1, <2>2 DEF VersionQuery, ConnNum
<1>6. ASSUME Close PROVE UserInv'
  BY <1>6 DEF Close, localVars
<1>7. ASSUME NEW g \in Worker, FatalCall(g) PROVE UserInv'
  BY <1>7 DEF FatalCall, Goto, poolVars, sqlVars
<1>8. ASSUME NEW g \in Worker, CrashCall(g) PROVE UserInv'
  BY <1>8 DEF CrashCall, Goto, poolVars, sqlVars
<1>9. ASSUME NEW g \in Worker, BeginCall(g) PROVE UserInv'
  BY <1>9 DEF BeginCall, Admitted, ConnNum, Goto, poolVars, sqlVars
<1>10. ASSUME NEW g \in Worker, EndCall(g) PROVE UserInv'
  BY <1>10 DEF EndCall, Admitted, ConnNum, Goto, poolVars, sqlVars
<1>11. ASSUME NEW g \in Worker, StmtCall(g) PROVE UserInv'
  BY <1>11 DEF StmtCall, Admitted, ConnNum, Goto, poolVars, sqlVars
<1>12. ASSUME NEW g \in Worker, StmtInTx(g) PROVE UserInv'
  <2>1. /\ stage = "idle" /\ g < NumConns /\ Tx[g] # NoTx /\ pc[g] = "ready"
        /\ users' = [users EXCEPT ![Tx[g]] = @ \cup {g}]
        /\ ConnPool' = ConnPool /\ dialed' = dialed
    BY <1>12 DEF StmtInTx, Runs, Admitted, ConnNum, sqlVars
  <2> QED
    BY <2>1, UserInTx
<1>13. ASSUME NEW g \in Worker, QueryCall(g) PROVE UserInv'
  BY <1>13 DEF QueryCall, Admitted, ConnNum, Goto, poolVars, sqlVars
<1>14. ASSUME NEW g \in Worker, QueryInTx(g) PROVE UserInv'
  <2>1. /\ stage = "idle" /\ g < NumConns /\ Tx[g] # NoTx /\ pc[g] = "ready"
        /\ users' = [users EXCEPT ![Tx[g]] = @ \cup {g}]
        /\ ConnPool' = ConnPool /\ dialed' = dialed
    BY <1>14 DEF QueryInTx, Admitted, ConnNum, sqlVars
  <2> QED
    BY <2>1, UserInTx
<1>15. ASSUME NEW g \in Worker, RowsEnd(g) PROVE UserInv'
  <2>1. UNCHANGED <<ConnPool, dialed, users>>
    BY <1>15, RowsEndFacts DEF RowsEnd
  <2> QED
    BY <2>1
<1>16. ASSUME NEW g \in Worker, CrashInside(g) PROVE UserInv'
  BY <1>16 DEF CrashInside, Goto, poolVars, sqlVars
<1>17. ASSUME NEW g \in Worker, BeginTx(g) PROVE UserInv'
  <2>1. CASE AcquireFails(g) /\ Returns(g) /\ UNCHANGED <<tx, users>>
    BY <1>17, <2>1, UserAcquireFails DEF BeginTx, Goto, Returns, ConnNum, poolVars
  <2>2. ASSUME NEW s \in Session, Acquire(g, s, "tx"),
               tx' = [tx EXCEPT ![g] = s],
               users' = [users EXCEPT ![s] = @ \cup {g}],
               Goto(g, "assign")
        PROVE  UserInv'
    BY <1>17, <2>2, UserAcquire DEF BeginTx, Goto, Returns, ConnNum, poolVars, SessionUse
  <2> QED
    BY <1>17, <2>1, <2>2 DEF BeginTx, ConnNum
<1>18. ASSUME NEW g \in Worker, BeginAssign(g) PROVE UserInv'
  BY <1>18 DEF BeginAssign, Goto, ConnNum, poolVars, sqlVars
<1>19. ASSUME NEW g \in Worker, EndTx(g) PROVE UserInv'
  <2>1. ConnPool' = ConnPool /\ dialed' = dialed /\ users' = users
    BY <1>19 DEF EndTx, GiveBack
  <2> QED
    BY <2>1
<1>20. ASSUME NEW g \in Worker, EndClear(g) PROVE UserInv'
  BY <1>20 DEF EndClear, Goto, Returns, ConnNum, poolVars, sqlVars
<1>21. ASSUME NEW g \in Worker, Stmt(g) PROVE UserInv'
  <2>1. CASE AcquireFails(g) /\ UNCHANGED <<users, cancelled>>
    BY <1>21, <2>1, UserAcquireFails DEF Stmt, Goto, Returns, ConnNum, poolVars
  <2>2. ASSUME NEW s \in Session, Acquire(g, s, "free"), Runs(g, s)
        PROVE  UserInv'
    <3>1. ~Busy(g) /\ users' = [users EXCEPT ![s] = @ \cup {g}] /\ "free" \in SessionUse
      BY <1>21, <2>2 DEF Stmt, Runs, ConnNum, SessionUse
    <3> HIDE DEF TypeOK, OwnInv, UserInv, PoolInv, TxInv, CallInv
    <3> QED
      BY <2>2, <3>1, UserAcquire
  <2> QED
    BY <1>21, <2>1, <2>2 DEF Stmt, ConnNum
<1>22. ASSUME NEW g \in Worker, Query(g) PROVE UserInv'
  <2>1. CASE AcquireFails(g) /\ Returns(g) /\ UNCHANGED <<rows, users, cancelled>>
    BY <1>22, <2>1, UserAcquireFails DEF Query, Goto, Returns, ConnNum, poolVars
  <2>2. ASSUME NEW s \in Session, Acquire(g, s, "rows"),
               rows' = [rows EXCEPT ![g] = s],
               users' = [users EXCEPT ![s] = @ \cup {g}],
               Goto(g, "ready"), UNCHANGED cancelled
        PROVE  UserInv'
    BY <1>22, <2>2, UserAcquire DEF Query, Goto, Returns, ConnNum, poolVars, SessionUse
  <2>3. ASSUME NEW s \in Session, Acquire(g, s, "free"), Runs(g, s), Returns(g), UNCHANGED rows
        PROVE  UserInv'
    <3>1. ~Busy(g) /\ users' = [users EXCEPT ![s] = @ \cup {g}] /\ "free" \in SessionUse
      BY <1>22, <2>3 DEF Query, Runs, ConnNum, SessionUse
    <3> HIDE DEF TypeOK, OwnInv, UserInv, PoolInv, TxInv, CallInv
    <3> QED
      BY <2>3, <3>1, UserAcquire
  <2> QED
    BY <1>22, <2>1, <2>2, <2>3 DEF Query, ConnNum
<1>23. ASSUME NEW s \in Session, Break(s) PROVE UserInv'
  BY <1>23 DEF Break, poolVars, sqlVars, localVars
<1>24. ASSUME UNCHANGED vars PROVE UserInv'
  BY <1>24 DEF vars, poolVars, sqlVars, localVars
<1>25. ASSUME NEW g \in Worker, CancelledWaiting(g) PROVE UserInv'
  BY <1>25 DEF CancelledWaiting, Returns, Goto, poolVars, sqlVars
<1> HIDE DEF UserInv
<1> QED
  BY <1>1, <1>2, <1>3, <1>4, <1>5, <1>6, <1>7, <1>8, <1>9, <1>10, <1>11, <1>12, <1>13, <1>14,
     <1>15, <1>16, <1>17, <1>18, <1>19, <1>20, <1>21, <1>22, <1>23, <1>24, <1>25 DEF Next, Owner, Call,
     Cancel, RowsClose, RowsCancelled, Proceed

\* Whoever has rows open in a session, or lost it to a cancelled context, has
\* run a statement in it.
LEMMA UsedInvStep == IInv /\ [Next]_vars => UsedInv'
<1> SUFFICES ASSUME IInv, [Next]_vars PROVE UsedInv'
  OBVIOUS
<1>0. TypeOK /\ UsedInv
  BY DEF IInv
<1> USE <1>0
<1>1. ASSUME NEW n \in -1 .. MaxConns, NEW u \in {"off", "on", "invalid"}, ConnectCall(n, u) PROVE UsedInv'
  <2>1. UNCHANGED <<rows, users, cancelled>>
    BY <1>1 DEF ConnectCall, localVars
  <2> QED
    BY <2>1, UsedKept
<1>2. ASSUME Probe PROVE UsedInv'
  <2>1. UNCHANGED <<rows, users, cancelled>>
    BY <1>2 DEF Probe, localVars
  <2> QED
    BY <2>1, UsedKept
<1>3. ASSUME NEW i \in Index, Dial(i) PROVE UsedInv'
  <2>1. UNCHANGED <<rows, users, cancelled>>
    BY <1>3 DEF Dial, localVars
  <2> QED
    BY <2>1, UsedKept
<1>4. ASSUME DialFails PROVE UsedInv'
  <2>1. UNCHANGED <<rows, users, cancelled>>
    BY <1>4 DEF DialFails, localVars
  <2> QED
    BY <2>1, UsedKept
<1>5. ASSUME VersionQuery PROVE UsedInv'
  <2>1. UNCHANGED <<rows, users, cancelled>>
    BY <1>5 DEF VersionQuery, localVars
  <2> QED
    BY <2>1, UsedKept
<1>6. ASSUME Close PROVE UsedInv'
  <2>1. UNCHANGED <<rows, users, cancelled>>
    BY <1>6 DEF Close, localVars
  <2> QED
    BY <2>1, UsedKept
<1>7. ASSUME NEW g \in Worker, FatalCall(g) PROVE UsedInv'
  <2>1. UNCHANGED <<rows, users, cancelled>>
    BY <1>7 DEF FatalCall
  <2> QED
    BY <2>1, UsedKept
<1>8. ASSUME NEW g \in Worker, CrashCall(g) PROVE UsedInv'
  <2>1. UNCHANGED <<rows, users, cancelled>>
    BY <1>8 DEF CrashCall
  <2> QED
    BY <2>1, UsedKept
<1>9. ASSUME NEW g \in Worker, BeginCall(g) PROVE UsedInv'
  <2>1. UNCHANGED <<rows, users, cancelled>>
    BY <1>9 DEF BeginCall
  <2> QED
    BY <2>1, UsedKept
<1>10. ASSUME NEW g \in Worker, EndCall(g) PROVE UsedInv'
  <2>1. UNCHANGED <<rows, users, cancelled>>
    BY <1>10 DEF EndCall
  <2> QED
    BY <2>1, UsedKept
<1>11. ASSUME NEW g \in Worker, StmtCall(g) PROVE UsedInv'
  <2>1. UNCHANGED <<rows, users, cancelled>>
    BY <1>11 DEF StmtCall
  <2> QED
    BY <2>1, UsedKept
<1>12. ASSUME NEW g \in Worker, StmtInTx(g) PROVE UsedInv'
  <2>1. Tx[g] \in Session /\ Runs(g, Tx[g]) /\ UNCHANGED rows
    BY <1>12 DEF StmtInTx, Admitted, ConnNum, TypeOK
  <2> QED
    BY <2>1, UsedRuns
<1>13. ASSUME NEW g \in Worker, QueryCall(g) PROVE UsedInv'
  <2>1. UNCHANGED <<rows, users, cancelled>>
    BY <1>13 DEF QueryCall
  <2> QED
    BY <2>1, UsedKept
<1>14. ASSUME NEW g \in Worker, QueryInTx(g) PROVE UsedInv'
  <2>1. /\ Tx[g] \in Session /\ UNCHANGED cancelled
        /\ rows' = [rows EXCEPT ![g] = Tx[g]]
        /\ users' = [users EXCEPT ![Tx[g]] = @ \cup {g}]
    BY <1>14 DEF QueryInTx, Admitted, ConnNum, TypeOK
  <2> QED
    BY <2>1, UsedQuery
<1>15. ASSUME NEW g \in Worker, RowsClose(g) \/ RowsCancelled(g) PROVE UsedInv'
  <2>1. /\ rows[g] \in Session /\ UNCHANGED users
        /\ UNCHANGED cancelled \/ CutOff(g, rows[g])
        /\ \A h \in Worker : rows'[h] \in {rows[h], NoRows}
    BY <1>15 DEF RowsClose, RowsCancelled, RowsEnd, TypeOK
  <2>2. g \in users[rows[g]]
    BY <2>1 DEF UsedInv
  <2>3. \A h \in Worker : \A t \in cancelled'[h] : t \in cancelled[h] \/ (h = g /\ t = rows[g])
    BY <2>1 DEF CutOff, TypeOK
  <2> QED
    BY <2>1, <2>2, <2>3 DEF UsedInv
<1>16. ASSUME NEW g \in Worker, CrashInside(g) PROVE UsedInv'
  <2>1. UNCHANGED <<rows, users, cancelled>>
    BY <1>16 DEF CrashInside
  <2> QED
    BY <2>1, UsedKept
<1>17. ASSUME NEW g \in Worker, BeginTx(g) PROVE UsedInv'
  <2>1. UNCHANGED <<rows, cancelled>>
    BY <1>17 DEF BeginTx
  <2>2. \A t \in Session : users[t] \subseteq users'[t]
    BY <1>17 DEF BeginTx, TypeOK
  <2> QED
    BY <2>1, <2>2 DEF UsedInv, TypeOK
<1>18. ASSUME NEW g \in Worker, BeginAssign(g) PROVE UsedInv'
  <2>1. UNCHANGED <<rows, users, cancelled>>
    BY <1>18 DEF BeginAssign
  <2> QED
    BY <2>1, UsedKept
<1>19. ASSUME NEW g \in Worker, EndTx(g) PROVE UsedInv'
  <2>1. UNCHANGED <<users, cancelled>> /\ \A h \in Worker : rows'[h] \in {rows[h], NoRows}
    BY <1>19 DEF EndTx
  <2> QED
    BY <2>1, UsedKept
<1>20. ASSUME NEW g \in Worker, EndClear(g) PROVE UsedInv'
  <2>1. UNCHANGED <<rows, users, cancelled>>
    BY <1>20 DEF EndClear
  <2> QED
    BY <2>1, UsedKept
<1>21. ASSUME NEW g \in Worker, Stmt(g) PROVE UsedInv'
  <2>1. UNCHANGED rows
    BY <1>21 DEF Stmt
  <2>2. (\E s \in Session : Runs(g, s)) \/ UNCHANGED <<users, cancelled>>
    BY <1>21 DEF Stmt
  <2> QED
    BY <2>1, <2>2, UsedRuns, UsedKept
<1>22. ASSUME NEW g \in Worker, Query(g) PROVE UsedInv'
  <2>1. CASE UNCHANGED <<rows, users, cancelled>>
    BY <2>1, UsedKept
  <2>2. ASSUME NEW s \in Session, rows' = [rows EXCEPT ![g] = s],
               users' = [users EXCEPT ![s] = @ \cup {g}], UNCHANGED cancelled
        PROVE  UsedInv'
    BY <2>2, UsedQuery
  <2>3. ASSUME NEW s \in Session, Runs(g, s), UNCHANGED rows
        PROVE  UsedInv'
    BY <2>3, UsedRuns
  <2> QED
    BY <1>22, <2>1, <2>2, <2>3 DEF Query
<1>23. ASSUME NEW s \in Session, Break(s) PROVE UsedInv'
  <2>1. UNCHANGED <<rows, users, cancelled>>
    BY <1>23 DEF Break, localVars
  <2> QED
    BY <2>1, UsedKept
<1>24. ASSUME UNCHANGED vars PROVE UsedInv'
  <2>1. UNCHANGED <<rows, users, cancelled>>
    BY <1>24 DEF vars, localVars
  <2> QED
    BY <2>1, UsedKept
<1>25. ASSUME NEW g \in Worker, CancelledWaiting(g) PROVE UsedInv'
  <2>1. UNCHANGED <<rows, users, cancelled>>
    BY <1>25 DEF CancelledWaiting
  <2> QED
    BY <2>1, UsedKept
<1> QED
  BY <1>1, <1>2, <1>3, <1>4, <1>5, <1>6, <1>7, <1>8, <1>9, <1>10, <1>11, <1>12, <1>13, <1>14,
     <1>15, <1>16, <1>17, <1>18, <1>19, <1>20, <1>21, <1>22, <1>23, <1>24, <1>25 DEF Next, Owner, Call,
     Cancel, Proceed

-----------------------------------------------------------------------------

LEMMA InvInit == Init => IInv
<1> SUFFICES ASSUME Init PROVE IInv
  OBVIOUS
<1>1. TypeOK
  BY TypeInit
<1>2. PoolInv /\ CallInv
  BY DEF Init, PoolInv, CallInv, Held, Resting
<1>3. OwnInv /\ UsedInv
  BY DEF Init, OwnInv, UsedInv, Held
<1>4. TxInv
  BY DEF Init, TxInv, Held, InTx, Resting, Waiting
<1>5. OrphanInv /\ RowsInv
  BY DEF Init, OrphanInv, NoOrphanTransaction, RowsInv, Held
<1>6. UserInv
  <2>1. 0 \in Worker /\ \A x \in Session : users[x] = {}
    BY DEF Init
  <2> QED
    BY <2>1 DEF Init, UserInv, Held
<1> QED
  BY <1>1, <1>2, <1>3, <1>4, <1>5, <1>6 DEF IInv

LEMMA InvStep == IInv /\ [Next]_vars => IInv'
<1>1. IInv /\ [Next]_vars => TypeOK'
  BY TypeStep DEF IInv
<1> QED
  BY <1>1, PoolInvStep, CallInvStep, OwnInvStep, TxInvStep, OrphanInvStep,
     RowsInvStep, UserInvStep, UsedInvStep DEF IInv

\* The pool, its slots, its sessions and the calls in progress agree at every
\* step of dbconn.go, whatever the pool size.
THEOREM Inductive == Spec => []IInv
  BY InvInit, InvStep, PTL DEF Spec

\* After Connect has returned, with or without an error, NumConns and the
\* lengths of ConnPool and Tx agree and every admitted handle is open.
THEOREM PoolIsConsistent == Spec => []PoolConsistent
<1>1. IInv => PoolConsistent
  BY DEF IInv, PoolInv, PoolConsistent
<1> QED
  BY <1>1, Inductive, PTL

\* Begin, Commit and Rollback leave in slot g exactly the transaction of the
\* session that handle g holds.
THEOREM SlotMatches == Spec => []TxSlotMatchesSession
<1>1. IInv => TxSlotMatchesSession
  BY DEF IInv, TypeOK, TxInv, InTx, Held, TxSlotMatchesSession, Resting, Waiting, Inside
<1> QED
  BY <1>1, Inductive, PTL

\* No transaction is lost by an error path of Begin, Commit or Rollback; only
\* Close can abandon one.
THEOREM TransactionsHeld == Spec => []NoOrphanTransaction
<1>1. IInv => NoOrphanTransaction
  BY DEF IInv, OrphanInv
<1> QED
  BY <1>1, Inductive, PTL

\* Every idle session is in one handle and every session with open rows has a
\* reader: the probe of utilityModeConnStr and the replacement of an ended
\* session leave nothing behind.
THEOREM SessionsOwned == Spec => []NoLeakedSession
<1>1. IInv => NoLeakedSession
  <2> SUFFICES ASSUME IInv, NEW s \in Session
               PROVE  /\ use[s] = "free" => \E i \in Index : \A j \in Index : ConnPool[j] = s <=> i = j
                      /\ use[s] = "rows" => \E g \in Worker : rows[g] = s
    BY DEF NoLeakedSession
  <2>1. ASSUME use[s] = "free"
        PROVE  \E i \in Index : \A j \in Index : ConnPool[j] = s <=> i = j
    <3>1. PICK i \in Index : ConnPool[i] = s
      BY <2>1 DEF IInv, OwnInv
    <3>2. \A j \in Index : ConnPool[j] = s <=> i = j
      BY <3>1 DEF IInv, OwnInv, Held
    <3> QED
      BY <3>2
  <2> QED
    BY <2>1 DEF IInv, RowsInv
<1> QED
  BY <1>1, Inductive, PTL

\* Goroutines that pass their own connection number never share a session.
THEOREM SessionsNotShared == Spec => []OneGoroutinePerSession
<1>1. IInv => OneGoroutinePerSession
  <2> SUFFICES ASSUME IInv, NEW s \in Session
               PROVE  Cardinality(users[s]) <= 1
    BY DEF OneGoroutinePerSession
  <2>1. PICK g \in Worker : users[s] \subseteq {g}
    BY DEF IInv, UserInv
  <2>2. IsFiniteSet({g}) /\ Cardinality({g}) = 1
    BY FS_Singleton
  <2> QED
    BY <2>1, <2>2, FS_Subset
<1> QED
  BY <1>1, Inductive, PTL

\* A call waits for nothing but rows that its own goroutine left open.
THEOREM OnlyOwnRows == Spec => []OnlyOwnRowsBlock
<1>1. IInv => OnlyOwnRowsBlock
  <2> SUFFICES ASSUME IInv, NEW g \in Worker, pc[g] \in Waiting, Busy(g)
               PROVE  rows[g] = ConnPool[g]
    BY DEF OnlyOwnRowsBlock
  <2>1. Held(g) /\ use[ConnPool[g]] # "free"
    BY DEF Busy, Held
  <2>2. use[ConnPool[g]] # "closed"
    BY <2>1 DEF IInv, OwnInv
  <2>3. use[ConnPool[g]] # "tx"
    <3>1. g < NumConns
      BY <2>1, CallAdmitted DEF IInv, Held, Waiting, Resting
    <3> QED
      BY <2>1, <3>1 DEF IInv, TxInv, InTx
  <2>4. use[ConnPool[g]] = "rows"
    BY <2>1, <2>2, <2>3 DEF IInv, TypeOK, Held, SessionUse
  <2> QED
    BY <2>1, <2>4 DEF IInv, RowsInv
<1> QED
  BY <1>1, Inductive, PTL

\* No step lets go of a live session, except Close.
LEMMA KeptStep ==
  IInv /\ [Next]_vars =>
    \A i \in Index : Held(i) /\ ConnPool'[i] # ConnPool[i] /\ poolLen' > 0 => Stale(i)
<1> SUFFICES ASSUME IInv, [Next]_vars, NEW i \in Index, Held(i)
             PROVE  ConnPool'[i] # ConnPool[i] /\ poolLen' > 0 => Stale(i)
  OBVIOUS
<1> DEFINE LetsGo(k) == ConnPool'[k] # ConnPool[k] /\ poolLen' > 0 => Stale(k)
<1> USE DEF Held
<1>0. TypeOK /\ OwnInv
  BY DEF IInv
<1> USE <1>0
<1>a. ASSUME NEW k \in Index, NEW s \in Session, NEW kind \in SessionUse, ~Busy(k), Acquire(k, s, kind)
      PROVE  LetsGo(i)
  <2>1. /\ ConnPool'[k] = s /\ (Held(k) => s = ConnPool[k] \/ Stale(k))
        /\ \A j \in Index : j # k => ConnPool'[j] = ConnPool[j]
    BY <1>a, AcquireLocal
  <2> QED
    BY <2>1
<1>b. ASSUME NEW k \in Index, ~Busy(k), AcquireFails(k)
      PROVE  LetsGo(i)
  <2>1. /\ ConnPool'[k] # ConnPool[k] => Stale(k)
        /\ \A j \in Index : j # k => ConnPool'[j] = ConnPool[j]
    BY <1>b, AcquireFailsLocal
  <2> QED
    BY <2>1
<1>1. ASSUME NEW n \in -1 .. MaxConns, NEW u \in {"off", "on", "invalid"}, ConnectCall(n, u) PROVE LetsGo(i)
  BY <1>1 DEF ConnectCall, sqlVars
<1>2. ASSUME Probe PROVE LetsGo(i)
  BY <1>2 DEF Probe
<1>3. ASSUME NEW j \in Index, Dial(j) PROVE LetsGo(i)
  BY <1>3 DEF Dial, NextToDial, TypeOK
<1>4. ASSUME DialFails PROVE LetsGo(i)
  BY <1>4 DEF DialFails, sqlVars
<1>5. ASSUME VersionQuery PROVE LetsGo(i)
  <2>1. 0 \in Index /\ ~Busy(0) /\ ((\E s \in Session : Acquire(0, s, "free")) \/ AcquireFails(0))
    BY <1>5 DEF VersionQuery
  <2> QED
    BY <2>1, <1>a, <1>b DEF SessionUse
<1>6. ASSUME Close PROVE LetsGo(i)
  BY <1>6 DEF Close
<1>7. ASSUME NEW g \in Worker, FatalCall(g) PROVE LetsGo(i)
  BY <1>7 DEF FatalCall, sqlVars
<1>8. ASSUME NEW g \in Worker, CrashCall(g) PROVE LetsGo(i)
  BY <1>8 DEF CrashCall, sqlVars
<1>9. ASSUME NEW g \in Worker, BeginCall(g) PROVE LetsGo(i)
  BY <1>9 DEF BeginCall, sqlVars
<1>10. ASSUME NEW g \in Worker, EndCall(g) PROVE LetsGo(i)
  BY <1>10 DEF EndCall, sqlVars
<1>11. ASSUME NEW g \in Worker, StmtCall(g) PROVE LetsGo(i)
  BY <1>11 DEF StmtCall, sqlVars
<1>12. ASSUME NEW g \in Worker, StmtInTx(g) PROVE LetsGo(i)
  BY <1>12 DEF StmtInTx, sqlVars
<1>13. ASSUME NEW g \in Worker, QueryCall(g) PROVE LetsGo(i)
  BY <1>13 DEF QueryCall, sqlVars
<1>14. ASSUME NEW g \in Worker, QueryInTx(g) PROVE LetsGo(i)
  BY <1>14 DEF QueryInTx, sqlVars
<1>15. ASSUME NEW g \in Worker, RowsClose(g) \/ RowsCancelled(g) PROVE LetsGo(i)
  BY <1>15 DEF RowsClose, RowsCancelled, RowsEnd, GiveBack
<1>16. ASSUME NEW g \in Worker, CrashInside(g) PROVE LetsGo(i)
  BY <1>16 DEF CrashInside, sqlVars
<1>17. ASSUME NEW g \in Worker, BeginTx(g) PROVE LetsGo(i)
  <2>1. ~Busy(g) /\ ((\E s \in Session : Acquire(g, s, "tx")) \/ AcquireFails(g))
    BY <1>17 DEF BeginTx, ConnNum
  <2> QED
    BY <2>1, <1>a, <1>b DEF SessionUse
<1>18. ASSUME NEW g \in Worker, BeginAssign(g) PROVE LetsGo(i)
  BY <1>18 DEF BeginAssign, sqlVars
<1>19. ASSUME NEW g \in Worker, EndTx(g) PROVE LetsGo(i)
  BY <1>19 DEF EndTx, GiveBack
<1>20. ASSUME NEW g \in Worker, EndClear(g) PROVE LetsGo(i)
  BY <1>20 DEF EndClear, sqlVars
<1>21. ASSUME NEW g \in Worker, Stmt(g) PROVE LetsGo(i)
  <2>1. ~Busy(g) /\ ((\E s \in Session : Acquire(g, s, "free")) \/ AcquireFails(g))
    BY <1>21 DEF Stmt, ConnNum
  <2> QED
    BY <2>1, <1>a, <1>b DEF SessionUse
<1>22. ASSUME NEW g \in Worker, Query(g) PROVE LetsGo(i)
  <2>1. ~Busy(g) /\ ((\E s \in Session : (Acquire(g, s, "rows") \/ Acquire(g, s, "free"))) \/ AcquireFails(g))
    BY <1>22 DEF Query, ConnNum
  <2> QED
    BY <2>1, <1>a, <1>b DEF SessionUse
<1>23. ASSUME NEW s \in Session, Break(s) PROVE LetsGo(i)
  BY <1>23 DEF Break, sqlVars
<1>24. ASSUME UNCHANGED vars PROVE LetsGo(i)
  BY <1>24 DEF vars, sqlVars
<1>25. ASSUME NEW g \in Worker, CancelledWaiting(g) PROVE LetsGo(i)
  BY <1>25 DEF CancelledWaiting, sqlVars
<1> QED
  BY <1>1, <1>2, <1>3, <1>4, <1>5, <1>6, <1>7, <1>8, <1>9, <1>10, <1>11, <1>12, <1>13, <1>14,
     <1>15, <1>16, <1>17, <1>18, <1>19, <1>20, <1>21, <1>22, <1>23, <1>24, <1>25 DEF Next, Owner, Call,
     Cancel, Proceed

\* A goroutine keeps its session through every call until the server ends it or
\* a context of its own is cancelled; what other goroutines do, their cancelled
\* contexts included, never costs it.
THEOREM SessionsKept == Spec => SessionKept
<1>1. IInv /\ [Next]_vars =>
        (\A i \in Index :
           ConnPool[i] \in Session /\ ConnPool'[i] # ConnPool[i] /\ poolLen' > 0
             => ConnPool[i] \in broken \cup cancelled[i])
  BY KeptStep, StaleIsOwn DEF IInv, Held
<1> QED
  BY <1>1, Inductive, PTL DEF Spec, SessionKept
=============================================================================
