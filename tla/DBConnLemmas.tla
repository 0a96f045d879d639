----------------------------- MODULE DBConnLemmas -----------------------------
(***************************************************************************)
(* What taking, failing to take and giving back a session do to each part  *)
(* of DBConn's inductive invariant.  The four actions that call database/  *)
(* sql for a session, and the two that give one back, are proved from      *)
(* these lemmas in DBConnProofs.                                           *)
(***************************************************************************)
EXTENDS DBConnTypes

USE DBConnAssumption DEF Index, Worker, Session, NilDB, NoConn, NoTx, NoRows

\* Taking a session, seen from all the handles: handle i holds the session it
\* got, no other handle held it, and every other handle and its session are as
\* they were.
LEMMA AcquireLocal ==
  ASSUME TypeOK, OwnInv, NEW i \in Index, NEW s \in Session, NEW kind \in SessionUse,
         ~Busy(i), Acquire(i, s, kind)
  PROVE  /\ ConnPool[i] # NilDB
         /\ ConnPool'[i] = s /\ use'[s] = kind
         /\ Held(i) => use[ConnPool[i]] = "free"
         /\ s = ConnPool[i] \/ s = dialed + 1
         /\ s <= dialed' /\ dialed <= dialed'
         /\ Held(i) => s = ConnPool[i] \/ Stale(i)
         /\ \A j \in Index : j # i =>
              /\ ConnPool'[j] = ConnPool[j]
              /\ Held(j) => ConnPool[j] # s /\ use'[ConnPool[j]] = use[ConnPool[j]]
         /\ \A t \in Session : t # s =>
              use'[t] = IF t = ConnPool[i] THEN "closed" ELSE use[t]
<1>0. PoolTypeOK
  BY DEF TypeOK, PoolTypeOK
<1>1. /\ ConnPool' = [ConnPool EXCEPT ![i] = s]
      /\ use'[s] = kind /\ ConnPool[i] # NilDB
      /\ \/ s = ConnPool[i] /\ dialed' = dialed
         \/ s = dialed + 1 /\ dialed' = s /\ (ConnPool[i] = NoConn \/ Stale(i))
      /\ \A t \in Session : t # s => use'[t] = IF t = ConnPool[i] THEN "closed" ELSE use[t]
  BY <1>0, AcquireFacts
<1>2. ConnPool'[i] = s /\ \A j \in Index : j # i => ConnPool'[j] = ConnPool[j]
  BY <1>1 DEF TypeOK
<1>3. ASSUME NEW j \in Index, j # i, Held(j)
      PROVE  ConnPool[j] # s /\ ConnPool[j] # ConnPool[i]
  <2>1. ConnPool[j] # ConnPool[i] /\ ConnPool[j] <= dialed /\ ConnPool[j] \in Session
    BY <1>3 DEF OwnInv, Held
  <2> QED
    BY <1>1, <2>1 DEF TypeOK
<1>4. Held(i) => use[ConnPool[i]] = "free"
  BY DEF Held, Busy
<1>5. ASSUME NEW j \in Index, j # i, Held(j)
      PROVE  use'[ConnPool[j]] = use[ConnPool[j]]
  BY <1>1, <1>3, <1>5 DEF Held
<1>6. Held(i) => s = ConnPool[i] \/ Stale(i)
  BY <1>1 DEF Held
<1>7. s <= dialed' /\ dialed <= dialed'
  <2>1. Held(i) => ConnPool[i] <= dialed
    BY DEF OwnInv
  <2> QED
    BY <1>1, <2>1 DEF Held, TypeOK
<1> HIDE DEF Index, Session
<1> QED
  BY <1>1, <1>2, <1>3, <1>4, <1>5, <1>6, <1>7

\* A call that fails to get a session leaves every other handle and its session
\* as they were, and its own handle the same or empty.
LEMMA AcquireFailsLocal ==
  ASSUME TypeOK, OwnInv, NEW i \in Index, ~Busy(i), AcquireFails(i)
  PROVE  /\ dialed' = dialed
         /\ ConnPool'[i] \in {ConnPool[i], NoConn}
         /\ ConnPool'[i] # ConnPool[i] => Stale(i)
         /\ Held(i) => use[ConnPool[i]] = "free"
         /\ \A j \in Index : j # i =>
              /\ ConnPool'[j] = ConnPool[j]
              /\ Held(j) => use'[ConnPool[j]] = use[ConnPool[j]]
         /\ ConnPool[i] = NilDB <=> ConnPool'[i] = NilDB
         /\ \A t \in Session :
              use'[t] = IF t = ConnPool[i] /\ ConnPool'[i] = NoConn THEN "closed" ELSE use[t]
<1>0. PoolTypeOK
  BY DEF TypeOK, PoolTypeOK
<1>1. /\ dialed' = dialed
      /\ \A j \in Index : j # i => ConnPool'[j] = ConnPool[j]
      /\ \/ ConnPool'[i] = ConnPool[i] /\ use' = use
         \/ /\ ConnPool'[i] = NoConn /\ Stale(i) /\ ConnPool[i] # NilDB
            /\ use' = [use EXCEPT ![ConnPool[i]] = "closed"]
  BY <1>0, AcquireFailsFacts
<1>2. Held(i) => use[ConnPool[i]] = "free"
  BY DEF Held, Busy
<1>3. \A t \in Session :
        use'[t] = IF t = ConnPool[i] /\ ConnPool'[i] = NoConn THEN "closed" ELSE use[t]
  BY <1>1 DEF TypeOK
<1>4. ASSUME NEW j \in Index, j # i, Held(j)
      PROVE  use'[ConnPool[j]] = use[ConnPool[j]]
  BY <1>3, <1>4 DEF OwnInv, Held
<1> QED
  BY <1>1, <1>2, <1>3, <1>4

\* Giving a session back touches no other session and no handle.
LEMMA GiveBackLocal ==
  ASSUME TypeOK, NEW s \in Session, GiveBack(s)
  PROVE  /\ ConnPool' = ConnPool
         /\ \A t \in Session : t # s => use'[t] = use[t]
         /\ use'[s] = IF \E i \in Index : ConnPool[i] = s THEN "free" ELSE "closed"
  BY GiveBackFacts DEF TypeOK, PoolTypeOK

\* Acquiring neither opens nor closes a handle.
LEMMA PoolAcquire ==
  ASSUME TypeOK, OwnInv, PoolInv, NEW i \in Index, NEW s \in Session, NEW kind \in SessionUse,
         ~Busy(i), Acquire(i, s, kind),
         stage \in {"idle", "version"}, stage' = "idle", UNCHANGED <<poolLen, NumConns, txLen>>
  PROVE  PoolInv'
<1>1. /\ ConnPool[i] # NilDB /\ ConnPool'[i] = s
      /\ \A j \in Index : j # i => ConnPool'[j] = ConnPool[j]
  BY AcquireLocal
<1>2. \A j \in Index : ConnPool'[j] = NilDB <=> ConnPool[j] = NilDB
  BY <1>1
<1> QED
  BY <1>2 DEF PoolInv, TypeOK

\* Failing to acquire neither opens nor closes a handle.
LEMMA PoolAcquireFails ==
  ASSUME TypeOK, OwnInv, PoolInv, NEW i \in Index, ~Busy(i), AcquireFails(i),
         stage \in {"idle", "version"}, stage' = "idle", UNCHANGED <<poolLen, NumConns, txLen>>
  PROVE  PoolInv'
<1>1. \A j \in Index : ConnPool'[j] = NilDB <=> ConnPool[j] = NilDB
  BY AcquireFailsLocal
<1> QED
  BY <1>1 DEF PoolInv, TypeOK

\* A handle that lets go of its session had lost it to the server or to a
\* cancelled context of its own worker: nobody else has used the session.
LEMMA StaleIsOwn ==
  ASSUME TypeOK, UserInv, UsedInv, NEW i \in Index, Held(i), Stale(i)
  PROVE  ConnPool[i] \in broken \cup cancelled[i]
<1>1. CASE ConnPool[i] \in broken
  BY <1>1
<1>2. ASSUME NEW g \in Worker, ConnPool[i] \in cancelled[g]
      PROVE  ConnPool[i] \in cancelled[i]
  <2>1. g \in users[ConnPool[i]] /\ users[ConnPool[i]] \subseteq {i}
    BY <1>2 DEF UsedInv, UserInv
  <2> QED
    BY <1>2, <2>1
<1> QED
  BY <1>1, <1>2 DEF Stale

\* A worker that runs a statement in a session has used it, and so has the
\* reader of every row that stays open.
LEMMA UsedRuns ==
  ASSUME TypeOK, UsedInv, NEW g \in Worker, NEW s \in Session, Runs(g, s), UNCHANGED rows
  PROVE  UsedInv'
<1>1. /\ users' = [users EXCEPT ![s] = @ \cup {g}]
      /\ \A h \in Worker : \A t \in cancelled'[h] : t \in cancelled[h] \/ (h = g /\ t = s)
      /\ cancelled' \in [Worker -> SUBSET Session]
  BY RunsFacts
<1>2. g \in users'[s] /\ \A t \in Session : users[t] \subseteq users'[t]
  BY <1>1 DEF TypeOK
<1>3. \A h \in Worker : rows'[h] # NoRows => h \in users'[rows'[h]]
  BY <1>2 DEF UsedInv, TypeOK
<1>4. ASSUME NEW h \in Worker, NEW t \in cancelled'[h]
      PROVE  h \in users'[t]
  BY <1>1, <1>2, <1>4 DEF UsedInv, TypeOK
<1> QED
  BY <1>3, <1>4 DEF UsedInv

\* Rows that are handed out are read by a worker that ran their query.
LEMMA UsedQuery ==
  ASSUME TypeOK, UsedInv, NEW g \in Worker, NEW s \in Session, UNCHANGED cancelled,
         rows' = [rows EXCEPT ![g] = s], users' = [users EXCEPT ![s] = @ \cup {g}]
  PROVE  UsedInv'
<1>1. g \in users'[s] /\ \A t \in Session : users[t] \subseteq users'[t]
  BY DEF TypeOK
<1> QED
  BY <1>1 DEF UsedInv, TypeOK

\* Rows that are closed leave a use behind.
LEMMA UsedKept ==
  ASSUME TypeOK, UsedInv, UNCHANGED <<users, cancelled>>,
         \A h \in Worker : rows'[h] \in {rows[h], NoRows}
  PROVE  UsedInv'
  BY DEF UsedInv

\* The session a worker acquires has run no statements but its own.
LEMMA UserAcquire ==
  ASSUME TypeOK, OwnInv, UserInv, NEW i \in Index, NEW s \in Session, NEW kind \in SessionUse,
         ~Busy(i), Acquire(i, s, kind),
         users' = users \/ users' = [users EXCEPT ![s] = @ \cup {i}]
  PROVE  UserInv'
<1>1. /\ ConnPool'[i] = s
      /\ s = ConnPool[i] \/ s = dialed + 1
      /\ s <= dialed' /\ dialed <= dialed'
      /\ \A j \in Index : j # i => /\ ConnPool'[j] = ConnPool[j]
                                   /\ Held(j) => ConnPool[j] # s
  BY AcquireLocal
<1>2. \A t \in Session : t # s => users'[t] = users[t]
  BY DEF TypeOK
<1>3. users[s] \subseteq {i}
  <2>1. CASE s = ConnPool[i]
    BY <2>1 DEF UserInv, Held
  <2>2. CASE s = dialed + 1
    BY <2>2 DEF UserInv, TypeOK
  <2> QED
    BY <1>1, <2>1, <2>2
<1>4. users'[s] \subseteq {i}
  BY <1>3 DEF TypeOK
<1>5. ASSUME NEW t \in Session, t > dialed'
      PROVE  users'[t] = {}
  <2>1. dialed \in Int /\ dialed' \in Int
    BY <1>1 DEF Acquire, TypeOK
  <2>2. t # s /\ t > dialed
    BY <1>1, <1>5, <2>1
  <2> QED
    BY <1>2, <2>2 DEF UserInv
<1>6. \A t \in Session : \E g \in Worker : users'[t] \subseteq {g}
  BY <1>2, <1>4 DEF UserInv
<1>7. ASSUME NEW g \in Worker, ConnPool'[g] \in Session
      PROVE  users'[ConnPool'[g]] \subseteq {g}
  <2>1. CASE g = i
    BY <1>1, <1>4, <2>1
  <2>2. CASE g # i
    <3>1. ConnPool'[g] = ConnPool[g] /\ ConnPool[g] # s /\ Held(g)
      BY <1>1, <1>7, <2>2 DEF Held
    <3> QED
      BY <1>2, <3>1 DEF UserInv, Held
  <2> QED
    BY <2>1, <2>2
<1> QED
  BY <1>5, <1>6, <1>7 DEF UserInv, Held

\* The session of a worker's transaction is the one in its handle, which has
\* run no statements but its own.
LEMMA UserInTx ==
  ASSUME TypeOK, OwnInv, TxInv, UserInv, NEW g \in Worker, g < NumConns, Tx[g] # NoTx, pc[g] = "ready",
         users' = [users EXCEPT ![Tx[g]] = @ \cup {g}],
         ConnPool' = ConnPool, dialed' = dialed
  PROVE  UserInv'
<1>1. Tx[g] = ConnPool[g] /\ Held(g)
  BY DEF TypeOK, TxInv, InTx, Resting
<1>2. DEFINE s == ConnPool[g]
<1>3. s \in Session /\ s <= dialed /\ users[s] \subseteq {g}
  BY <1>1 DEF Held, OwnInv, UserInv
<1>4. users'[s] \subseteq {g} /\ \A t \in Session : t # s => users'[t] = users[t]
  BY <1>1, <1>3 DEF TypeOK
<1>5. \A t \in Session : t > dialed => t # s
  BY <1>3 DEF TypeOK
<1>6. \A t \in Session : t > dialed => users'[t] = {}
  BY <1>4, <1>5 DEF UserInv
<1>7. \A t \in Session : \E h \in Worker : users'[t] \subseteq {h}
  BY <1>4 DEF UserInv
<1>8. ASSUME NEW h \in Worker, Held(h)
      PROVE  users'[ConnPool[h]] \subseteq {h}
  <2>1. CASE h = g
    BY <1>4, <2>1
  <2>2. CASE h # g
    <3>1. ConnPool[h] # s
      BY <1>8, <2>2 DEF OwnInv
    <3> QED
      BY <1>4, <1>8, <3>1 DEF UserInv, Held
  <2> QED
    BY <2>1, <2>2
<1> QED
  BY <1>6, <1>7, <1>8 DEF UserInv, Held

\* Failing to acquire shows no worker a session it did not have.
LEMMA UserAcquireFails ==
  ASSUME TypeOK, OwnInv, UserInv, NEW i \in Index, ~Busy(i), AcquireFails(i), users' = users
  PROVE  UserInv'
<1>1. /\ dialed' = dialed
      /\ ConnPool'[i] \in {ConnPool[i], NoConn}
      /\ \A j \in Index : j # i => ConnPool'[j] = ConnPool[j]
  BY AcquireFailsLocal
<1> QED
  BY <1>1 DEF UserInv, Held

\* A session that is acquired is in one handle and open.
LEMMA OwnAcquire ==
  ASSUME TypeOK, OwnInv, NEW i \in Index, NEW s \in Session, NEW kind \in SessionUse,
         kind # "closed", ~Busy(i), Acquire(i, s, kind)
  PROVE  OwnInv'
<1>1. /\ ConnPool'[i] = s /\ use'[s] = kind
      /\ s <= dialed' /\ dialed <= dialed'
      /\ \A j \in Index : j # i =>
           /\ ConnPool'[j] = ConnPool[j]
           /\ Held(j) => ConnPool[j] # s /\ use'[ConnPool[j]] = use[ConnPool[j]]
      /\ \A t \in Session : t # s => use'[t] = IF t = ConnPool[i] THEN "closed" ELSE use[t]
  BY AcquireLocal
<1>2. ASSUME NEW j \in Index, NEW k \in Index, ConnPool'[j] \in Session, ConnPool'[j] = ConnPool'[k]
      PROVE  j = k
  BY <1>1, <1>2 DEF OwnInv, Held
<1>3. dialed \in Int /\ dialed' \in Int
  BY DEF Acquire, TypeOK
<1>4. ASSUME NEW j \in Index, ConnPool'[j] \in Session
      PROVE  ConnPool'[j] <= dialed' /\ use'[ConnPool'[j]] # "closed"
  <2>1. CASE j = i
    BY <1>1, <2>1
  <2>2. CASE j # i
    <3>1. ConnPool[j] <= dialed /\ use[ConnPool[j]] # "closed" /\ ConnPool'[j] = ConnPool[j] /\ Held(j)
      BY <1>1, <1>4, <2>2 DEF OwnInv, Held
    <3> QED
      BY <1>1, <1>3, <2>2, <3>1 DEF Held
  <2> QED
    BY <2>1, <2>2
<1>5. ASSUME NEW t \in Session, use'[t] = "free"
      PROVE  \E j \in Index : ConnPool'[j] = t
  <2>1. CASE t = s
    BY <1>1, <2>1
  <2>2. CASE t # s
    <3>1. use[t] = "free" /\ t # ConnPool[i]
      BY <1>1, <1>5, <2>2
    <3>2. PICK j \in Index : ConnPool[j] = t
      BY <3>1 DEF OwnInv
    <3> QED
      BY <1>1, <3>1, <3>2
  <2> QED
    BY <2>1, <2>2
<1> QED
  BY <1>2, <1>4, <1>5 DEF OwnInv, Held

\* The ended session a failing call discards is in no handle afterwards.
LEMMA OwnAcquireFails ==
  ASSUME TypeOK, OwnInv, NEW i \in Index, ~Busy(i), AcquireFails(i)
  PROVE  OwnInv'
<1>1. /\ dialed' = dialed
      /\ ConnPool'[i] \in {ConnPool[i], NoConn}
      /\ \A j \in Index : j # i => ConnPool'[j] = ConnPool[j]
      /\ \A t \in Session :
           use'[t] = IF t = ConnPool[i] /\ ConnPool'[i] = NoConn THEN "closed" ELSE use[t]
  BY AcquireFailsLocal
<1>2. \A j \in Index : ConnPool'[j] \in Session => ConnPool'[j] = ConnPool[j] /\ Held(j)
  BY <1>1 DEF Held
<1>3. \A j, k \in Index : ConnPool'[j] \in Session /\ ConnPool'[j] = ConnPool'[k] => j = k
  BY <1>2 DEF OwnInv
<1>4. ASSUME NEW j \in Index, ConnPool'[j] \in Session
      PROVE  ConnPool'[j] <= dialed' /\ use'[ConnPool'[j]] # "closed"
  BY <1>1, <1>2, <1>4 DEF OwnInv, Held
<1>5. ASSUME NEW t \in Session, use'[t] = "free"
      PROVE  \E j \in Index : ConnPool'[j] = t
  <2>1. use[t] = "free" /\ ~(t = ConnPool[i] /\ ConnPool'[i] = NoConn)
    BY <1>1, <1>5
  <2>2. PICK j \in Index : ConnPool[j] = t
    BY <2>1 DEF OwnInv
  <2> QED
    BY <1>1, <2>1, <2>2
<1> QED
  BY <1>3, <1>4, <1>5 DEF OwnInv, Held

\* A session given back is idle in its handle, or closed if it has none.
LEMMA OwnGiveBack ==
  ASSUME TypeOK, OwnInv, NEW s \in Session, GiveBack(s), dialed' = dialed
  PROVE  OwnInv'
  BY GiveBackLocal DEF OwnInv, Held

\* Acquiring a session loses no transaction, if the one that Begin opens is in
\* its local variable.
LEMMA OrphanAcquire ==
  ASSUME TypeOK, OwnInv, OrphanInv, NEW i \in Index, NEW s \in Session, NEW kind \in SessionUse,
         ~Busy(i), Acquire(i, s, kind),
         UNCHANGED <<Tx, NumConns, abandoned>>,
         \A g \in Worker : tx[g] # NoTx => tx'[g] = tx[g],
         kind = "tx" => NumConns > 0 /\ tx'[i] = s
  PROVE  OrphanInv'
<1>1. /\ use'[s] = kind
      /\ \A t \in Session : t # s => use'[t] \in {"closed", use[t]}
  BY AcquireLocal
<1>2. ASSUME NEW t \in Session, use'[t] = "tx"
      PROVE  t \in abandoned' \/ \E g \in Worker : t \in {Tx'[g], tx'[g]}
  <2>1. CASE t = s
    BY <1>1, <1>2, <2>1
  <2>2. CASE t # s
    <3>1. use[t] = "tx"
      BY <1>1, <1>2, <2>2
    <3> QED
      BY <3>1 DEF OrphanInv, NoOrphanTransaction
  <2> QED
    BY <2>1, <2>2
<1>3. ASSUME NumConns' = 0, NEW t \in Session, use'[t] = "tx"
      PROVE  t \in abandoned'
  <2>1. t # s /\ use[t] = "tx"
    BY <1>1, <1>3
  <2> QED
    BY <1>3, <2>1 DEF OrphanInv
<1> QED
  BY <1>2, <1>3 DEF OrphanInv, NoOrphanTransaction

\* Failing to acquire loses no transaction: the session discarded was idle.
LEMMA OrphanAcquireFails ==
  ASSUME TypeOK, OwnInv, OrphanInv, NEW i \in Index, ~Busy(i), AcquireFails(i),
         UNCHANGED <<Tx, tx, NumConns, abandoned>>
  PROVE  OrphanInv'
<1>1. \A t \in Session : use'[t] \in {"closed", use[t]}
  BY AcquireFailsLocal
<1>2. \A t \in Session : use'[t] = "tx" => use[t] = "tx"
  BY <1>1
<1> QED
  BY <1>2 DEF OrphanInv, NoOrphanTransaction

\* Acquiring a session keeps the readers of all others, and gives one opened
\* for rows its reader.
LEMMA RowsAcquire ==
  ASSUME TypeOK, OwnInv, PoolInv, CallInv, RowsInv,
         NEW i \in Index, NEW s \in Session, NEW kind \in SessionUse,
         ~Busy(i), Acquire(i, s, kind), UNCHANGED NumConns,
         \A g \in Worker : g # i => pc'[g] = pc[g],
         pc'[i] # "query",
         IF kind = "rows" THEN pc[i] = "query" /\ rows' = [rows EXCEPT ![i] = s]
                          ELSE rows' = rows
  PROVE  RowsInv'
<1>1. /\ ConnPool[i] # NilDB /\ ConnPool'[i] = s /\ use'[s] = kind
      /\ Held(i) => use[ConnPool[i]] = "free"
      /\ \A j \in Index : j # i =>
           /\ ConnPool'[j] = ConnPool[j]
           /\ Held(j) => use'[ConnPool[j]] = use[ConnPool[j]]
      /\ \A t \in Session : t # s => use'[t] \in {"closed", use[t]}
  BY AcquireLocal
<1>2. /\ \A g \in Worker : g # i => rows'[g] = rows[g]
      /\ kind = "rows" => rows'[i] = s
  BY DEF TypeOK
<1>3. ASSUME kind = "rows"
      PROVE  rows[i] \in {NoRows, ConnPool[i]}
  <2>1. pc[i] = "query" /\ i \in Worker
    BY <1>3
  <2>2. i < NumConns \/ poolLen = 0
    BY <2>1 DEF CallInv, Resting
  <2>3. poolLen # 0
    BY <1>1 DEF PoolInv
  <2> QED
    BY <2>1, <2>2, <2>3 DEF RowsInv
<1>4. ASSUME NEW t \in Session, use'[t] = "rows"
      PROVE  \E g \in Worker : rows'[g] = t
  <2>1. CASE t = s
    BY <1>1, <1>2, <1>4, <2>1
  <2>2. CASE t # s
    <3>1. use[t] = "rows"
      BY <1>1, <1>4, <2>2
    <3>2. PICK g \in Worker : rows[g] = t
      BY <3>1 DEF RowsInv
    <3>3. kind = "rows" => g # i
      BY <1>1, <1>3, <3>1, <3>2 DEF Held
    <3> QED
      BY <1>2, <3>2, <3>3
  <2> QED
    BY <2>1, <2>2
<1>5. ASSUME NEW g \in Worker, ConnPool'[g] \in Session, use'[ConnPool'[g]] = "rows"
      PROVE  rows'[g] = ConnPool'[g]
  <2>1. CASE g = i
    BY <1>1, <1>2, <1>5, <2>1
  <2>2. CASE g # i
    BY <1>1, <1>2, <1>5, <2>2 DEF RowsInv, Held
  <2> QED
    BY <2>1, <2>2
<1>6. ASSUME NEW g \in Worker, pc'[g] = "query", g < NumConns'
      PROVE  rows'[g] \in {NoRows, ConnPool'[g]}
  BY <1>1, <1>2, <1>6 DEF RowsInv
<1> QED
  BY <1>4, <1>5, <1>6 DEF RowsInv, Held

\* Failing to acquire opens no rows and takes none from a reader.
LEMMA RowsAcquireFails ==
  ASSUME TypeOK, OwnInv, RowsInv, NEW i \in Index, ~Busy(i), AcquireFails(i),
         UNCHANGED <<NumConns, rows>>,
         \A g \in Worker : g # i => pc'[g] = pc[g],
         pc'[i] # "query"
  PROVE  RowsInv'
<1>1. /\ ConnPool'[i] \in {ConnPool[i], NoConn}
      /\ \A j \in Index : j # i => ConnPool'[j] = ConnPool[j]
      /\ \A t \in Session : use'[t] \in {"closed", use[t]}
  BY AcquireFailsLocal
<1>2. \A t \in Session : use'[t] = "rows" => use[t] = "rows"
  BY <1>1
<1> QED
  BY <1>1, <1>2 DEF RowsInv, Held

\* A session is given back together with the rows read from it.
LEMMA RowsGiveBack ==
  ASSUME TypeOK, OwnInv, RowsInv, NEW s \in Session, GiveBack(s), UNCHANGED NumConns,
         \A g \in Worker : rows'[g] = rows[g] \/ (rows[g] = s /\ rows'[g] = NoRows),
         \A g \in Worker : pc'[g] = "query" => pc[g] = "query"
  PROVE  RowsInv'
<1>1. /\ ConnPool' = ConnPool
      /\ \A t \in Session : t # s => use'[t] = use[t]
      /\ use'[s] \in {"free", "closed"}
  BY GiveBackLocal
<1>2. \A t \in Session : use'[t] = "rows" => t # s /\ use[t] = "rows"
  BY <1>1
<1>3. ASSUME NEW t \in Session, use'[t] = "rows"
      PROVE  \E g \in Worker : rows'[g] = t
  BY <1>2, <1>3 DEF RowsInv
<1>4. ASSUME NEW g \in Worker, Held(g), use'[ConnPool[g]] = "rows"
      PROVE  rows'[g] = ConnPool[g]
  BY <1>2, <1>4 DEF RowsInv, Held
<1>5. ASSUME NEW g \in Worker, pc'[g] = "query", g < NumConns
      PROVE  rows'[g] \in {NoRows, ConnPool[g]}
  BY <1>5 DEF RowsInv
<1> QED
  BY <1>1, <1>3, <1>4, <1>5 DEF RowsInv, Held

\* The session that Commit or Rollback gives back was the only transaction in
\* its local variable.
LEMMA OrphanGiveBack ==
  ASSUME TypeOK, OrphanInv, NEW s \in Session, GiveBack(s),
         UNCHANGED <<Tx, NumConns, abandoned>>,
         \A g \in Worker : tx[g] \in {s, tx'[g]}
  PROVE  OrphanInv'
<1>1. \A t \in Session : use'[t] = "tx" => t # s /\ use[t] = "tx"
  BY GiveBackLocal
<1> QED
  BY <1>1 DEF OrphanInv, NoOrphanTransaction

\* Closing rows changes at most a session that was open for rows alone.
LEMMA RowsEndFacts ==
  ASSUME TypeOK, NEW g \in Worker, RowsEnd(g)
  PROVE  /\ ConnPool' = ConnPool
         /\ \A t \in Session :
              use'[t] = use[t] \/ (use[t] = "rows" /\ use'[t] \in {"free", "closed"})
<1>1. rows[g] \in Session
  BY DEF RowsEnd, TypeOK
<1>2. CASE use[rows[g]] = "rows"
  <2>1. GiveBack(rows[g])
    BY <1>2 DEF RowsEnd
  <2>2. /\ ConnPool' = ConnPool
        /\ \A t \in Session : t # rows[g] => use'[t] = use[t]
        /\ use'[rows[g]] \in {"free", "closed"}
    BY <1>1, <2>1, GiveBackLocal
  <2> QED
    BY <1>2, <2>2
<1>3. CASE use[rows[g]] # "rows"
  BY <1>3 DEF RowsEnd
<1> QED
  BY <1>2, <1>3

\* Acquiring a session puts a transaction in the handle only in Begin.
LEMMA TxAcquire ==
  ASSUME TypeOK, OwnInv, TxInv, NEW i \in Index, NEW s \in Session, NEW kind \in SessionUse,
         ~Busy(i), Acquire(i, s, kind), UNCHANGED <<Tx, NumConns>>, pc[i] \in Waiting,
         \/ kind = "tx" /\ pc'[i] = "assign" /\ tx'[i] = s
         \/ kind # "tx" /\ pc'[i] \in Resting /\ tx'[i] = tx[i],
         \A g \in Worker : g # i => pc'[g] = pc[g] /\ tx'[g] = tx[g]
  PROVE  TxInv'
<1>1. /\ ConnPool'[i] = s /\ use'[s] = kind
      /\ \A j \in Index : j # i =>
           /\ ConnPool'[j] = ConnPool[j]
           /\ Held(j) => use'[ConnPool[j]] = use[ConnPool[j]]
  BY AcquireLocal
<1>2. InTx(i)' <=> kind = "tx"
  BY <1>1 DEF InTx, Held
<1>3. \A j \in Index : j # i => (InTx(j)' <=> InTx(j)) /\ ConnPool'[j] = ConnPool[j]
  BY <1>1 DEF InTx, Held
<1>4. ASSUME NEW g \in Worker
      PROVE  /\ pc'[g] \in {"assign", "end"} <=> tx'[g] # NoTx
             /\ g >= NumConns => Tx'[g] = NoTx
             /\ g < NumConns =>
                  /\ pc'[g] \in Resting => Tx'[g] = IF InTx(g)' THEN ConnPool'[g] ELSE NoTx
                  /\ pc'[g] \in Waiting => Tx'[g] = NoTx /\ ~InTx(g)'
                  /\ pc'[g] = "assign" => Tx'[g] = NoTx /\ InTx(g)' /\ tx'[g] = ConnPool'[g]
                  /\ pc'[g] = "end" => Tx'[g] = ConnPool'[g] /\ InTx(g)' /\ tx'[g] = ConnPool'[g]
                  /\ pc'[g] = "clear" => Tx'[g] = ConnPool'[g] /\ Held(g)' /\ ~InTx(g)'
  <2>1. CASE g = i
    BY <1>1, <1>2, <2>1 DEF TxInv, Resting, Waiting
  <2>2. CASE g # i
    BY <1>3, <2>2 DEF TxInv, Held
  <2> QED
    BY <2>1, <2>2
<1> QED
  BY <1>4 DEF TxInv

\* Failing to acquire puts no transaction in any handle.
LEMMA TxAcquireFails ==
  ASSUME TypeOK, OwnInv, TxInv, NEW i \in Index, ~Busy(i), AcquireFails(i),
         UNCHANGED <<Tx, tx, NumConns>>, pc[i] \in Waiting, pc'[i] \in Resting,
         \A g \in Worker : g # i => pc'[g] = pc[g]
  PROVE  TxInv'
<1>1. /\ ConnPool'[i] \in {ConnPool[i], NoConn}
      /\ Held(i) => use[ConnPool[i]] = "free"
      /\ \A j \in Index : j # i =>
           /\ ConnPool'[j] = ConnPool[j]
           /\ Held(j) => use'[ConnPool[j]] = use[ConnPool[j]]
      /\ \A t \in Session : use'[t] \in {"closed", use[t]}
  BY AcquireFailsLocal
<1>2. ~InTx(i)'
  BY <1>1 DEF InTx, Held
<1>3. \A j \in Index : j # i => (InTx(j)' <=> InTx(j)) /\ ConnPool'[j] = ConnPool[j]
  BY <1>1 DEF InTx, Held
<1>4. ASSUME NEW g \in Worker
      PROVE  /\ pc'[g] \in {"assign", "end"} <=> tx'[g] # NoTx
             /\ g >= NumConns => Tx'[g] = NoTx
             /\ g < NumConns =>
                  /\ pc'[g] \in Resting => Tx'[g] = IF InTx(g)' THEN ConnPool'[g] ELSE NoTx
                  /\ pc'[g] \in Waiting => Tx'[g] = NoTx /\ ~InTx(g)'
                  /\ pc'[g] = "assign" => Tx'[g] = NoTx /\ InTx(g)' /\ tx'[g] = ConnPool'[g]
                  /\ pc'[g] = "end" => Tx'[g] = ConnPool'[g] /\ InTx(g)' /\ tx'[g] = ConnPool'[g]
                  /\ pc'[g] = "clear" => Tx'[g] = ConnPool'[g] /\ Held(g)' /\ ~InTx(g)'
  <2>1. CASE g = i
    BY <1>1, <1>2, <2>1 DEF TxInv, Resting, Waiting
  <2>2. CASE g # i
    BY <1>3, <2>2 DEF TxInv, Held
  <2> QED
    BY <2>1, <2>2
<1> QED
  BY <1>4 DEF TxInv

\* A call in progress has its handle, or finds the whole pool closed.
LEMMA CallAdmitted ==
  ASSUME TypeOK, PoolInv, CallInv, NEW g \in Worker, pc[g] \notin Resting
  PROVE  /\ stage = "idle"
         /\ \/ g < NumConns
            \/ NumConns = 0 /\ \A i \in Index : ConnPool[i] = NilDB
<1>1. stage = "idle" /\ (g < NumConns \/ poolLen = 0)
  BY DEF CallInv
<1>2. poolLen = 0 => NumConns = 0 /\ \A i \in Index : ConnPool[i] = NilDB
  BY <1>1 DEF PoolInv, TypeOK
<1> QED
  BY <1>1, <1>2
=============================================================================
