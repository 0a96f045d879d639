-------------------------------- MODULE DBConn --------------------------------
(***************************************************************************)
(* The connection pool of dbconn/dbconn.go.                                *)
(*                                                                         *)
(* A DBConn is a slice of *sql.DB handles, each capped at one physical     *)
(* connection, and a parallel slice of *sql.Tx.  The caller creates one    *)
(* goroutine per connection number; here that goroutine is the worker with *)
(* the same number.  Connect and Close are called by an owner goroutine.   *)
(*                                                                         *)
(* database/sql and the server are external and modelled by what dbconn.go *)
(* relies on: a handle owns at most one server session (SetMaxOpenConns(1) *)
(* and SetMaxIdleConns(1)); a call that finds the session in use waits for *)
(* it; a session that has ended is discarded when it is next used and a    *)
(* fresh one is dialled; Close on a handle closes an idle session and      *)
(* leaves one in use open until it is released.  A session ends when the   *)
(* server terminates it, and when the caller's context is cancelled while  *)
(* a statement runs in it: the driver then closes it from its side.        *)
(***************************************************************************)
EXTENDS Integers, FiniteSets

CONSTANTS MaxConns,      \* largest pool size a caller asks for
          MaxSessions,   \* bound: server sessions ever established
          MaxBreaks,     \* bound: sessions the server terminates
          MaxCancels     \* bound: sessions closed because of a cancelled context

ASSUME DBConnAssumption == /\ MaxConns \in Nat \ {0}
                           /\ MaxSessions \in Nat
                           /\ MaxBreaks \in Nat
                           /\ MaxCancels \in Nat

Index   == 0 .. MaxConns - 1
Worker  == Index
Session == 1 .. MaxSessions

NilDB  == -1             \* a nil *sql.DB
NoConn == 0              \* an open *sql.DB that holds no physical connection
NoTx   == 0
NoRows == 0

VARIABLES
  stage,      \* where Connect is: "idle" when it is not running
  poolLen,    \* len(dbconn.ConnPool); 0 is the nil slice
  ConnPool,   \* handle i: NilDB, NoConn or the session it holds
  NumConns,
  txLen,      \* len(dbconn.Tx); 0 is the nil slice
  Tx,         \* the session the transaction in slot i is pinned to, or NoTx
  dialed,     \* sessions 1 .. dialed have been established
  use,        \* what a session is used for; "closed" when it has ended
  broken,     \* sessions the server terminated
  cancelled,  \* sessions closed because a context of worker g was cancelled
  pc,         \* what each worker is doing
  tx,         \* a worker's local *sql.Tx inside Begin, Commit and Rollback
  rows,       \* the *sql.Rows a worker got from Query and has not closed
  home,       \* history: the session Connect opened for handle i
  users,      \* history: the workers whose statements a session has run
  abandoned   \* history: sessions Close left in a transaction

poolVars  == <<stage, poolLen, NumConns, txLen, home, abandoned>>
sqlVars   == <<ConnPool, dialed, use>>
localVars == <<pc, tx, rows>>
vars      == <<poolVars, sqlVars, Tx, broken, cancelled, localVars, users>>

\* A worker whose goroutine ended in gplog.Fatal's panic is "fatal", in a
\* runtime panic "crashed"; neither calls again.
Resting == {"ready", "fatal", "crashed"}
Waiting == {"begin", "stmt", "query"}     \* about to take a session
Inside  == {"assign", "end", "clear"}     \* inside Begin, Commit or Rollback

SessionUse == {"closed", "free", "tx", "rows"}

TypeOK ==
  /\ stage \in {"idle", "probe", "dial", "version"}
  /\ poolLen \in 0 .. MaxConns
  /\ ConnPool \in [Index -> Session \cup {NilDB, NoConn}]
  /\ NumConns \in 0 .. MaxConns
  /\ txLen \in 0 .. MaxConns
  /\ Tx \in [Index -> Session \cup {NoTx}]
  /\ dialed \in 0 .. MaxSessions
  /\ use \in [Session -> SessionUse]
  /\ broken \subseteq Session
  /\ cancelled \in [Worker -> SUBSET Session]
  /\ pc \in [Worker -> Resting \cup Waiting \cup Inside]
  /\ tx \in [Worker -> Session \cup {NoTx}]
  /\ rows \in [Worker -> Session \cup {NoRows}]
  /\ home \in [Index -> Session \cup {NoConn}]
  /\ users \in [Session -> SUBSET Worker]
  /\ abandoned \subseteq Session

Init ==
  /\ stage = "idle"
  /\ poolLen = 0
  /\ ConnPool = [i \in Index |-> NilDB]
  /\ NumConns = 0
  /\ txLen = 0
  /\ Tx = [i \in Index |-> NoTx]
  /\ dialed = 0
  /\ use = [s \in Session |-> "closed"]
  /\ broken = {}
  /\ cancelled = [g \in Worker |-> {}]
  /\ pc = [g \in Worker |-> "ready"]
  /\ tx = [g \in Worker |-> NoTx]
  /\ rows = [g \in Worker |-> NoRows]
  /\ home = [i \in Index |-> NoConn]
  /\ users = [s \in Session |-> {}]
  /\ abandoned = {}

-----------------------------------------------------------------------------
(* Connect and Close, called by the owner.                                 *)

ConnectUnchecked(n) == poolLen = 0      \* mutant: any pool size
ConnectAllowed(n)   == n > 0 /\ poolLen = 0

\* mutant: everything is allocated before the first dial
AllocateAll(n) == poolLen' = n /\ txLen' = n /\ NumConns' = n
Allocate(n)    == poolLen' = n /\ UNCHANGED <<txLen, NumConns>>

\* Connect passes its argument checks: a positive pool size and no pool yet.
\* It allocates ConnPool first, so the call with a second utility-mode
\* argument fails and leaves a pool of nil handles.  A refused call changes
\* nothing and is not a step.
\* It is called while no worker is inside a call.
ConnectCall(n, utility) ==
  /\ stage = "idle"
  /\ \A g \in Worker : pc[g] \in Resting
  /\ ConnectAllowed(n)
  /\ Allocate(n)
  /\ stage' = [off |-> "dial", on |-> "probe", invalid |-> "idle"][utility]
  /\ UNCHANGED <<home, abandoned, sqlVars, Tx, broken, cancelled, localVars, users>>

ProbeLeftOpen(s) == use' = [use EXCEPT ![s] = "free"]      \* mutant
\* The handle of a successful probe is closed at once.
CloseProbe(s)    == use' = [use EXCEPT ![s] = "closed"]

\* utilityModeConnStr: one connection with gp_session_role.  It succeeds, or
\* the server does not know the parameter and gp_role is used instead, or
\* Connect fails.
Probe ==
  /\ stage = "probe"
  /\ \/ /\ dialed < MaxSessions
        /\ dialed' = dialed + 1
        /\ CloseProbe(dialed + 1)
        /\ stage' = "dial"
     \/ /\ stage' \in {"dial", "idle"}
        /\ UNCHANGED <<dialed, use>>
  /\ UNCHANGED <<poolLen, NumConns, txLen, home, abandoned, ConnPool, Tx, broken, cancelled, localVars, users>>

NextToDial(i) == /\ i < poolLen
                 /\ ConnPool[i] = NilDB
                 /\ \A j \in Index : j < i => ConnPool[j] # NilDB

\* One round of the loop in Connect.  The last one is followed by the
\* allocation of Tx and the assignment of NumConns.
Dial(i) ==
  /\ stage = "dial"
  /\ NextToDial(i)
  /\ dialed < MaxSessions
  /\ dialed' = dialed + 1
  /\ use' = [use EXCEPT ![dialed + 1] = "free"]
  /\ ConnPool' = [ConnPool EXCEPT ![i] = dialed + 1]
  /\ home' = [home EXCEPT ![i] = dialed + 1]
  /\ IF i = poolLen - 1
       THEN /\ stage' = "version"
            /\ txLen' = poolLen
            /\ NumConns' = poolLen
       ELSE UNCHANGED <<stage, txLen, NumConns>>
  /\ UNCHANGED <<poolLen, abandoned, Tx, broken, cancelled, localVars, users>>

\* A dial that fails ends Connect with the handles opened so far in the pool.
DialFails ==
  /\ stage = "dial"
  /\ stage' = "idle"
  /\ UNCHANGED <<poolLen, NumConns, txLen, home, abandoned, sqlVars, Tx, broken, cancelled, localVars, users>>

\* Close: every non-nil handle, then the three fields.  A session in use
\* survives the Close of its handle.
Close ==
  /\ stage = "idle"
  /\ poolLen > 0
  /\ use' = [s \in Session |->
               IF use[s] = "free" /\ \E i \in Index : i < poolLen /\ ConnPool[i] = s
                 THEN "closed" ELSE use[s]]
  /\ ConnPool' = [i \in Index |-> NilDB]
  /\ poolLen' = 0
  /\ Tx' = [i \in Index |-> NoTx]
  /\ txLen' = 0
  /\ NumConns' = 0
  /\ home' = [i \in Index |-> NoConn]
  /\ abandoned' = abandoned \cup {s \in Session : use[s] = "tx"}
  /\ UNCHANGED <<stage, dialed, broken, cancelled, localVars, users>>
-----------------------------------------------------------------------------
(* database/sql, external: taking and giving back the one session of a     *)
(* handle.                                                                 *)

Busy(i)  == ConnPool[i] \in Session /\ use[ConnPool[i]] # "free"
Stale(i) == ConnPool[i] \in broken \/ \E g \in Worker : ConnPool[i] \in cancelled[g]

\* The call gets session s: the one the handle holds or, when there is none or
\* it has ended, a new one.
Acquire(i, s, kind) ==
  \/ /\ s = ConnPool[i]
     /\ ~Stale(i)
     /\ use' = [use EXCEPT ![s] = kind]
     /\ UNCHANGED <<ConnPool, dialed>>
  \/ /\ ConnPool[i] = NoConn \/ Stale(i)
     /\ s = dialed + 1
     /\ dialed' = s
     /\ use' = [t \in Session |-> IF t = s THEN kind
                                  ELSE IF t = ConnPool[i] THEN "closed" ELSE use[t]]
     /\ ConnPool' = [ConnPool EXCEPT ![i] = s]

\* The call gets an error: from the server, from the dial, or because the
\* handle is closed.  A session found ended is gone afterwards.
AcquireFails(i) ==
  /\ dialed' = dialed
  /\ IF Stale(i)
       THEN /\ ConnPool' = [ConnPool EXCEPT ![i] = NoConn]
            /\ use' = [use EXCEPT ![ConnPool[i]] = "closed"]
       ELSE UNCHANGED <<ConnPool, use>>

\* mutant: SetMaxIdleConns(0), nothing is kept
KeepNoIdle(s) ==
  /\ use' = [use EXCEPT ![s] = "closed"]
  /\ ConnPool' = [i \in Index |-> IF ConnPool[i] = s THEN NoConn ELSE ConnPool[i]]

\* A session is given back and kept for the next call, because the handle may
\* hold one idle connection; one whose handle was closed meanwhile ends.
GiveBack(s) ==
  /\ use' = [use EXCEPT ![s] = IF \E i \in Index : ConnPool[i] = s THEN "free" ELSE "closed"]
  /\ UNCHANGED ConnPool

\* The server ends a session: a segment restart, an idle timeout, a kill.
Break(s) ==
  /\ use[s] # "closed"
  /\ Cardinality(broken) < MaxBreaks
  /\ broken' = broken \cup {s}
  /\ UNCHANGED <<poolVars, sqlVars, Tx, cancelled, localVars, users>>

\* The context of a call of worker g is cancelled while its statement runs in
\* s.  The driver closes the connection; the call returns an error, and the
\* handle finds out when it next uses the session.
CutOff(g, s) ==
  /\ Cardinality(UNION {cancelled[h] : h \in Worker}) < MaxCancels
  /\ cancelled' = [cancelled EXCEPT ![g] = @ \cup {s}]

\* Worker g runs a statement in s, to its end or until its context is cancelled.
Runs(g, s) ==
  /\ users' = [users EXCEPT ![s] = @ \cup {g}]
  /\ UNCHANGED cancelled \/ CutOff(g, s)

\* The last step of Connect: InitializeVersion, a Get on connection 0.  Its
\* error is Connect's error, and the pool stays as it is.
VersionQuery ==
  /\ stage = "version"
  /\ ~Busy(0)
  /\ stage' = "idle"
  /\ (\E s \in Session : Acquire(0, s, "free")) \/ AcquireFails(0)
  /\ UNCHANGED <<poolLen, NumConns, txLen, home, abandoned, Tx, broken, cancelled, localVars, users>>

-----------------------------------------------------------------------------
(* The calls of a worker.                                                  *)

\* ValidateConnNum: no argument, the worker's own number, or several numbers.
\* Only worker 0 may leave the argument out.
Arg == {"none", "own", "many"}
Refused(g, arg) == arg = "many" \/ (arg = "own" /\ g >= NumConns)
FirstConn(g) == 0      \* mutant: the argument is ignored
ConnNum(g)   == g

Admitted(g) ==
  /\ stage = "idle" /\ pc[g] = "ready"
  /\ \E arg \in Arg : (arg = "none" => g = 0) /\ ~Refused(g, arg)
  /\ ConnNum(g) < txLen

Goto(g, l) == pc' = [pc EXCEPT ![g] = l]

\* An error reaches the caller, or ends its goroutine in a Must function.
Returns(g) == \E l \in {"ready", "fatal"} : Goto(g, l)

\* gplog.Fatal: the connection number is refused, or a Must function is
\* refused by the check on Tx.  The function without Must changes nothing.
FatalCall(g) ==
  /\ stage = "idle" /\ pc[g] = "ready"
  /\ \E arg \in Arg : Refused(g, arg)
  /\ Goto(g, "fatal")
  /\ UNCHANGED <<poolVars, sqlVars, Tx, broken, cancelled, tx, rows, users>>

\* With no argument nothing is checked, and a DBConn that is not connected
\* has no Tx[0].
CrashCall(g) ==
  /\ stage = "idle" /\ pc[g] = "ready"
  /\ g = 0 /\ txLen = 0
  /\ Goto(g, "crashed")
  /\ UNCHANGED <<poolVars, sqlVars, Tx, broken, cancelled, tx, rows, users>>

\* Close ran since the call was admitted: Tx or ConnPool has no such element.
CrashInside(g) ==
  /\ pc[g] \in Waiting \cup Inside
  /\ txLen = 0
  /\ Goto(g, "crashed")
  /\ tx' = [tx EXCEPT ![g] = NoTx]
  /\ UNCHANGED <<poolVars, sqlVars, Tx, broken, cancelled, rows, users>>

\* mutant: no check on the slot
BeginUnchecked(g) ==
  /\ Admitted(g)
  /\ Goto(g, "begin")
  /\ UNCHANGED <<poolVars, sqlVars, Tx, broken, cancelled, tx, rows, users>>

\* Begin: check the slot, begin on the handle, fill the slot.
BeginCall(g) ==
  /\ Admitted(g)
  /\ Tx[ConnNum(g)] = NoTx
  /\ Goto(g, "begin")
  /\ UNCHANGED <<poolVars, sqlVars, Tx, broken, cancelled, tx, rows, users>>

BeginTx(g) ==
  /\ pc[g] = "begin"
  /\ ~Busy(ConnNum(g))
  /\ \/ \E s \in Session : /\ Acquire(ConnNum(g), s, "tx")
                           /\ tx' = [tx EXCEPT ![g] = s]
                           /\ users' = [users EXCEPT ![s] = @ \cup {g}]
                           /\ Goto(g, "assign")
     \/ /\ AcquireFails(ConnNum(g))
        /\ Returns(g)
        /\ UNCHANGED <<tx, users>>
  /\ UNCHANGED <<poolVars, Tx, broken, cancelled, rows>>

\* mutant: the new sql.Tx is dropped
BeginForgets(g) ==
  /\ pc[g] = "assign"
  /\ tx' = [tx EXCEPT ![g] = NoTx]
  /\ Goto(g, "ready")
  /\ UNCHANGED <<poolVars, sqlVars, Tx, broken, cancelled, rows, users>>

BeginAssign(g) ==
  /\ pc[g] = "assign"
  /\ ConnNum(g) < txLen
  /\ Tx' = [Tx EXCEPT ![ConnNum(g)] = tx[g]]
  /\ tx' = [tx EXCEPT ![g] = NoTx]
  /\ Goto(g, "ready")
  /\ UNCHANGED <<poolVars, sqlVars, broken, cancelled, rows, users>>

\* Commit and Rollback: check the slot, end the transaction, clear the slot.
EndCall(g) ==
  /\ Admitted(g)
  /\ Tx[ConnNum(g)] # NoTx
  /\ tx' = [tx EXCEPT ![g] = Tx[ConnNum(g)]]
  /\ Goto(g, "end")
  /\ UNCHANGED <<poolVars, sqlVars, Tx, broken, cancelled, rows, users>>

\* Whatever the server answers, the sql.Tx is done: its session is given back
\* and rows read in it are closed.
EndTx(g) ==
  /\ pc[g] = "end"
  /\ GiveBack(tx[g])
  /\ rows' = [h \in Worker |-> IF rows[h] = tx[g] THEN NoRows ELSE rows[h]]
  /\ tx' = [tx EXCEPT ![g] = NoTx]
  /\ Goto(g, "clear")
  /\ UNCHANGED <<poolVars, dialed, Tx, broken, cancelled, users>>

\* mutant: the error is returned first, with the slot still filled
EndClearOnSuccess(g) ==
  /\ pc[g] = "clear"
  /\ ConnNum(g) < txLen
  /\ \/ Tx' = [Tx EXCEPT ![ConnNum(g)] = NoTx]
     \/ UNCHANGED Tx
  /\ Returns(g)
  /\ UNCHANGED <<poolVars, sqlVars, broken, cancelled, tx, rows, users>>

\* The slot is cleared before the error is returned.
EndClear(g) ==
  /\ pc[g] = "clear"
  /\ ConnNum(g) < txLen
  /\ Tx' = [Tx EXCEPT ![ConnNum(g)] = NoTx]
  /\ Returns(g)
  /\ UNCHANGED <<poolVars, sqlVars, broken, cancelled, tx, rows, users>>

\* mutant: the handle is used whether or not a transaction is open
StmtIgnoresTx(g) ==
  /\ Admitted(g)
  /\ Goto(g, "stmt")
  /\ UNCHANGED <<poolVars, sqlVars, Tx, broken, cancelled, tx, rows, users>>

\* Exec, and the reads that drain and close their rows before they return:
\* Get, Select, SelectString, SelectInt and their variants.  ExecContext,
\* MustExecContext and SelectContext pass the caller's context on; the others
\* have one that is never cancelled.
StmtCall(g) ==
  /\ Admitted(g)
  /\ Tx[ConnNum(g)] = NoTx
  /\ Goto(g, "stmt")
  /\ UNCHANGED <<poolVars, sqlVars, Tx, broken, cancelled, tx, rows, users>>

Stmt(g) ==
  /\ pc[g] = "stmt"
  /\ ~Busy(ConnNum(g))
  /\ \/ \E s \in Session : Acquire(ConnNum(g), s, "free") /\ Runs(g, s)
     \/ AcquireFails(ConnNum(g)) /\ UNCHANGED <<users, cancelled>>
  /\ Returns(g)
  /\ UNCHANGED <<poolVars, Tx, broken, tx, rows>>

\* The same functions, and a Query that gets an error instead of rows, while a
\* transaction is in the slot.  A transaction whose session is closed under it
\* stays in the slot until Commit or Rollback.
StmtInTx(g) ==
  /\ Admitted(g)
  /\ Tx[ConnNum(g)] # NoTx
  /\ Runs(g, Tx[ConnNum(g)])
  /\ Returns(g)
  /\ UNCHANGED <<poolVars, sqlVars, Tx, broken, tx, rows>>

\* Query and its variants hand the open rows to the caller.  QueryContext
\* passes the caller's context on, to the rows as well.
QueryCall(g) ==
  /\ Admitted(g)
  /\ Tx[ConnNum(g)] = NoTx
  /\ rows[g] \in {NoRows, ConnPool[ConnNum(g)]}
  /\ Goto(g, "query")
  /\ UNCHANGED <<poolVars, sqlVars, Tx, broken, cancelled, tx, rows, users>>

Query(g) ==
  /\ pc[g] = "query"
  /\ ~Busy(ConnNum(g))
  /\ \/ \E s \in Session : /\ Acquire(ConnNum(g), s, "rows")
                           /\ rows' = [rows EXCEPT ![g] = s]
                           /\ users' = [users EXCEPT ![s] = @ \cup {g}]
                           /\ Goto(g, "ready")
                           /\ UNCHANGED cancelled
     \/ \E s \in Session : /\ Acquire(ConnNum(g), s, "free")
                           /\ Runs(g, s)
                           /\ Returns(g)
                           /\ UNCHANGED rows
     \/ AcquireFails(ConnNum(g)) /\ Returns(g) /\ UNCHANGED <<rows, users, cancelled>>
  /\ UNCHANGED <<poolVars, Tx, broken, tx>>

QueryInTx(g) ==
  /\ Admitted(g)
  /\ Tx[ConnNum(g)] # NoTx
  /\ rows[g] = NoRows
  /\ rows' = [rows EXCEPT ![g] = Tx[ConnNum(g)]]
  /\ users' = [users EXCEPT ![Tx[ConnNum(g)]] = @ \cup {g}]
  /\ UNCHANGED <<poolVars, sqlVars, Tx, broken, cancelled, pc, tx>>

\* Rows are closed; a session used only by them is given back.
RowsEnd(g) ==
  /\ rows[g] # NoRows
  /\ IF use[rows[g]] = "rows" THEN GiveBack(rows[g]) ELSE UNCHANGED <<use, ConnPool>>
  /\ rows' = [rows EXCEPT ![g] = NoRows]
  /\ UNCHANGED <<poolVars, dialed, Tx, broken, pc, tx, users>>

\* The caller closes its rows.
RowsClose(g) == pc[g] = "ready" /\ RowsEnd(g) /\ UNCHANGED cancelled

\* The context of open rows is cancelled: database/sql closes them, whatever
\* their reader is doing, and the driver the session if more of them is to come.
RowsCancelled(g) == RowsEnd(g) /\ (UNCHANGED cancelled \/ CutOff(g, rows[g]))

\* The context of a call is cancelled before it has a session.
CancelledWaiting(g) ==
  /\ pc[g] \in {"stmt", "query"}
  /\ Returns(g)
  /\ UNCHANGED <<poolVars, sqlVars, Tx, broken, cancelled, tx, rows, users>>

-----------------------------------------------------------------------------
Owner == \/ \E n \in -1 .. MaxConns, u \in {"off", "on", "invalid"} : ConnectCall(n, u)
         \/ Probe
         \/ \E i \in Index : Dial(i)
         \/ DialFails
         \/ VersionQuery
         \/ Close

Call(g) == \/ FatalCall(g) \/ CrashCall(g)
           \/ BeginCall(g) \/ EndCall(g)
           \/ StmtCall(g) \/ StmtInTx(g)
           \/ QueryCall(g) \/ QueryInTx(g) \/ RowsClose(g)

\* A context that worker g passed to ExecContext, SelectContext or QueryContext
\* is cancelled.
Cancel(g) == RowsCancelled(g) \/ CancelledWaiting(g)

\* What a call does once it has been admitted.
Proceed(g) == \/ CrashInside(g)
              \/ BeginTx(g) \/ BeginAssign(g)
              \/ EndTx(g) \/ EndClear(g)
              \/ Stmt(g) \/ Query(g)

Next == \/ Owner
        \/ \E g \in Worker : Call(g) \/ Cancel(g) \/ Proceed(g)
        \/ \E s \in Session : Break(s)

Spec == Init /\ [][Next]_vars

\* Goroutines are scheduled and the server answers; no call has to be made
\* and no context has to be cancelled.
FairSpec == Spec /\ \A g \in Worker : WF_vars(Proceed(g))

-----------------------------------------------------------------------------
(* Properties.                                                             *)

\* Outside Connect the three views of the pool agree: after a Connect that
\* failed half way no connection number is accepted, and where one is
\* accepted its handle is not nil.
PoolConsistent ==
  stage = "idle" =>
    /\ txLen = NumConns
    /\ NumConns > 0 => poolLen = NumConns
    /\ \A i \in Index : i < NumConns => ConnPool[i] # NilDB

\* When worker g is between calls, slot g holds a transaction exactly while
\* its session is in a transaction: a failed Commit or Rollback, or a lost
\* session, leaves no finished transaction behind to refuse the next Begin.
TxSlotMatchesSession ==
  \A g \in Worker :
    pc[g] \in Resting /\ stage = "idle" /\ g < NumConns =>
      IF ConnPool[g] \in Session /\ use[ConnPool[g]] = "tx"
        THEN Tx[g] = ConnPool[g]
        ELSE Tx[g] = NoTx

\* Every server transaction can still be ended: it is in a slot or in the
\* hands of the Begin, Commit or Rollback that is running, unless Close threw
\* the slots away.
NoOrphanTransaction ==
  \A s \in Session :
    use[s] = "tx" => \/ s \in abandoned
                     \/ \E g \in Worker : s \in {Tx[g], tx[g]}

\* No server session outlives its owner: an idle one belongs to exactly one
\* handle of the pool, one with open rows to the worker that reads them.
NoLeakedSession ==
  \A s \in Session :
    /\ use[s] = "free" => \E i \in Index : \A j \in Index : ConnPool[j] = s <=> i = j
    /\ use[s] = "rows" => \E g \in Worker : rows[g] = s

\* The promise made to goroutines that pass their own number: a session never
\* runs the statements of two of them, whatever transactions they are in.
OneGoroutinePerSession == \A s \in Session : Cardinality(users[s]) <= 1

\* The only thing a call can wait for is rows its own goroutine left open;
\* never another goroutine's call, and never its own open transaction.
OnlyOwnRowsBlock ==
  \A g \in Worker :
    pc[g] \in Waiting /\ Busy(g) => rows[g] = ConnPool[g]

\* While the pool is there, handle i lets go of a session only if the server
\* ended it or a context of worker i itself was cancelled in it: no error, no
\* Commit or Rollback, and no other goroutine's cancelled context costs a
\* goroutine its session.
SessionKept ==
  [][\A i \in Index :
       ConnPool[i] \in Session /\ ConnPool'[i] # ConnPool[i] /\ poolLen' > 0
         => ConnPool[i] \in broken \cup cancelled[i]]_vars

\* A call made with no rows of the caller's own open comes to an end.
CallsReturn ==
  \A g \in Worker :
    pc[g] \notin Resting /\ rows[g] = NoRows ~> pc[g] \in Resting

-----------------------------------------------------------------------------
(* The inductive invariant behind the properties above.                    *)

Held(i) == ConnPool[i] \in Session
InTx(i) == Held(i) /\ use[ConnPool[i]] = "tx"

\* What Connect has built so far, at each of its stages.
PoolInv ==
  /\ stage \in {"probe", "dial"} => NumConns = 0 /\ txLen = 0
  /\ stage \in {"idle", "version"} => /\ txLen = NumConns
                                      /\ NumConns > 0 => poolLen = NumConns
  /\ \A i \in Index : i < NumConns => ConnPool[i] # NilDB
  /\ \A i \in Index : i >= poolLen => ConnPool[i] = NilDB
  /\ stage # "idle" => \A i \in Index : Held(i) => use[ConnPool[i]] = "free"

\* A call was admitted to a pool that is still there, or that Close emptied.
CallInv ==
  \A g \in Worker : pc[g] \notin Resting => stage = "idle" /\ (g < NumConns \/ poolLen = 0)

\* Handles own different, open sessions.
OwnInv ==
  /\ \A i, j \in Index : Held(i) /\ ConnPool[i] = ConnPool[j] => i = j
  /\ \A i \in Index : Held(i) => ConnPool[i] <= dialed /\ use[ConnPool[i]] # "closed"
  /\ \A s \in Session : use[s] = "free" => \E i \in Index : ConnPool[i] = s

\* Slot, local variable and session, at each step of Begin, Commit, Rollback.
TxInv ==
  \A g \in Worker :
    /\ pc[g] \in {"assign", "end"} <=> tx[g] # NoTx
    /\ g >= NumConns => Tx[g] = NoTx
    /\ g < NumConns =>
         /\ pc[g] \in Resting => Tx[g] = IF InTx(g) THEN ConnPool[g] ELSE NoTx
         /\ pc[g] \in Waiting => Tx[g] = NoTx /\ ~InTx(g)
         /\ pc[g] = "assign" => Tx[g] = NoTx /\ InTx(g) /\ tx[g] = ConnPool[g]
         /\ pc[g] = "end" => Tx[g] = ConnPool[g] /\ InTx(g) /\ tx[g] = ConnPool[g]
         /\ pc[g] = "clear" => Tx[g] = ConnPool[g] /\ Held(g) /\ ~InTx(g)

OrphanInv ==
  /\ NoOrphanTransaction
  /\ NumConns = 0 => \A s \in Session : use[s] = "tx" => s \in abandoned

\* Who reads from a session with open rows.
RowsInv ==
  /\ \A s \in Session : use[s] = "rows" => \E g \in Worker : rows[g] = s
  /\ \A g \in Worker : Held(g) /\ use[ConnPool[g]] = "rows" => rows[g] = ConnPool[g]
  /\ \A g \in Worker : pc[g] = "query" /\ g < NumConns => rows[g] \in {NoRows, ConnPool[g]}

\* Who has used a session.
UserInv ==
  /\ \A s \in Session : s > dialed => users[s] = {}
  /\ \A s \in Session : \E g \in Worker : users[s] \subseteq {g}
  /\ \A g \in Worker : Held(g) => users[ConnPool[g]] \subseteq {g}

\* Open rows and a cancelled context are a use of the session.
UsedInv ==
  /\ \A g \in Worker : rows[g] # NoRows => g \in users[rows[g]]
  /\ \A g \in Worker : \A s \in cancelled[g] : g \in users[s]

\* Each part is needed for another: a slot is right only if no two handles
\* share a session, which holds only if a new session is in no handle yet.
IInv ==
  /\ TypeOK /\ PoolInv /\ CallInv /\ OwnInv /\ TxInv /\ OrphanInv
  /\ RowsInv /\ UserInv /\ UsedInv

-----------------------------------------------------------------------------
(* What the comments say and the code does not do.                         *)


\* The comment on ValidateConnNum: ensure there isn't a mismatch between the
\* pool size and the number of jobs, so a call on a pool that is not there is
\* reported and does not index out of range.
MismatchIsReported ==
  [][\A g \in Worker : pc[g] = "ready" => pc'[g] # "crashed"]_vars
=============================================================================
