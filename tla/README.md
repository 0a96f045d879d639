# A verification of common-go-libs

This directory models the parts of the repository whose behaviour depends on
goroutines, on failures or on the order of calls, and the algorithms whose
correctness is in their details (row scanning, array literals, versions, number
conversion).  It checks them with TLC on small instances and proves the central
results with TLAPS for every value of the constants.

## 1. The system

`common-go-libs` is a library for Greenplum command line utilities.  A utility
opens a connection pool (`dbconn`), reads the segment configuration over it,
builds a `cluster`, runs shell commands on all hosts or segments, and logs what
happened (`gplog`), whose error code becomes the exit code of the utility.

| Component | State | Operations | Hard behaviour |
|---|---|---|---|
| connection pool, `dbconn/dbconn.go` | `ConnPool`, `Tx`, `NumConns`, and what database/sql and the server hold | `Connect`, `Close`, `Begin`, `Commit`, `Rollback`, `Exec`, `Get`, `Select*`, `Query*` | one goroutine per connection number; a connect that fails half way; sessions lost between calls; contexts cancelled during them; `Close` during a call; one session per handle, so a second use waits |
| version, `dbconn/version.go` | none | `InitializeVersion`, `ParseGPVersion`, `Before`, `AtLeast`, `Is` | banners with other programs' versions in them, before and after the database's; the query is the last step of `Connect` and can fail |
| row scanning, `dbconn/scan.go` | the caller's destination | `scanOne`, `scanAll` | rows that end early, failures half way, destinations used again, fields that shadow each other |
| array literals, `dbconn/array.go` | none | `StringArray.Scan` | quoting, NULL, second dimensions, subscripts |
| executor, `cluster/cluster.go` | the caller's `[]ShellCommand` | `ExecuteClusterCommand(WithRetries)`, `NewRemoteOutput` | a goroutine per command, retries with sleeps, an unbuffered channel, a list written by many and passed again |
| topology, `cluster/cluster.go` | `ByContent`, `ByHost` | `NewCluster`, getters, `GenerateCommandList` | order of primaries and mirrors, eight scopes |
| error reporting, `cluster/cluster.go` | none | `CheckClusterError`, `LogFatalClusterError` | which messages reach the log file at which verbosity, and which exit code results |
| segment configuration | none | from the catalog, from a file | which rows, in which order |
| logger, `gplog/gplog.go` | `logMutex`, `logger`, verbosities, `errorCode`, `exitFunc` | nine output functions, setters, `InitializeLogging` | goroutines, panics while the mutex is held, setters without the mutex |
| `conv` | the caller's buffer | integers and floats to decimal text | the smallest integer, buffers with no byte to spare, carries and ties |
| `gperror`, `iohelper`, `operating`, `structmatcher`, `testhelper` | none or tests only | | |

Interactions: `dbconn` calls `gplog.Fatal` for a wrong connection number and in
the `Must` functions; `cluster` reads its configuration through `dbconn` and
reports through `gplog`; everything that touches the operating system goes
through `operating.System`.

What makes each component correct:

* pool: slots, handles and sessions agree after every call, failed ones
  included; no session or transaction is lost; goroutines that use their own
  number share nothing and never wait for each other;
* executor: the output tells what happened, every call returns, no goroutine is
  left behind, a command that succeeded is not run again;
* logger: one writer at a time, one order in every sink, loud messages always
  printed, an error never forgotten, no panic that keeps the mutex;
* error reporting: the list of errors is complete at every verbosity and the exit
  code is that of a failure exactly if there was one;
* row scanning: no error means all rows, each in its own element, each column in
  the field that owns it;
* topology, conversions, parsers: the function computed is the documented one.

## 2. Modules

| Module | Models | Role |
|---|---|---|
| `DBConn` | `dbconn/dbconn.go`, with database/sql and the server as external operators | specification, properties and inductive invariant |
| `DBConnTypes`, `DBConnLemmas`, `DBConnProofs` | | proofs about `DBConn` |
| `ClusterExec` | the executor | specification, properties and inductive invariant |
| `Batch` | | what the executor promises; `ClusterExec` implements it |
| `ClusterReport` | `CheckClusterError` composed with the executor and the levels and codes of `gplog` | specification and properties |
| `ClusterExecProofs` | | proofs about `ClusterExec` and `ClusterReport`, and that the former implements `Batch` |
| `Gplog` | `gplog/gplog.go` | specification, properties and inductive invariant |
| `GplogProofs` | | proofs about `Gplog` |
| `Cluster` | topology, command generation and segment configuration of `cluster/cluster.go` | specification, properties and inductive invariant |
| `MCCluster` | | the symmetry of hosts for TLC |
| `ClusterProofs` | | proofs about `Cluster` |
| `Scan` | `dbconn/scan.go` and the callers in `dbconn.go`, with database/sql as external operators | specification, properties and inductive invariant |
| `ScanProofs` | | proofs about `Scan` |
| `StringArray` | `dbconn/array.go`, and external `array_out` | operators |
| `Version` | `dbconn/version.go` | operators |
| `MCScan` | | struct types, rows, arrays and banners for TLC |
| `Conv` | `conv/int.go`, `conv/uint.go` | specification and properties |
| `ConvFloat` | `conv/float.go`, beside `Conv` whose loop it uses | specification and properties |
| `MCConv` | | widths, buffers and floats for TLC |
| `ConvProofs` | | proofs about `Conv` and `ConvFloat` |

### DBConn

State: the fields of the struct keep their names.  `poolLen` and `txLen` are the
lengths of the two slices (a nil slice has length 0); `ConnPool[i]` is the
session handle `i` holds, `NoConn` for an open handle without one, `NilDB` for a
nil handle.  A session is a number, given in the order of dialling; `use` says
what it is used for (free, in a transaction, read by open rows, closed), `broken`
which the server has ended, and `cancelled` which the driver has closed because a
context of a worker was cancelled in them.  A worker is a goroutine with its own
connection number; `pc`, `tx` and `rows` are its control point, its local
`*sql.Tx` and its open `*sql.Rows`.  `home`, `users` and `abandoned` are history.

Actions: `ConnectCall`, `Probe`, `Dial`, `DialFails` and `VersionQuery` are the
steps of `Connect` between which a session is dialled; `Close` is one step.
Each call of a worker is split where it waits for the server: `Begin` into
`BeginCall` (the check of the slot), `BeginTx` and `BeginAssign`; `Commit` and
`Rollback`, which do the same to slot and session, into `EndCall`, `EndTx` and
`EndClear`; `Exec` and the reads that drain their rows into `StmtCall` and `Stmt`,
or `StmtInTx` when a transaction is open; `Query` and its variants into
`QueryCall` and `Query`, or `QueryInTx`, followed by the caller's `RowsClose`.
`FatalCall` is a refused connection number, `CrashCall` the unchecked default
number on a pool that is not there, `CrashInside` an index out of range after
`Close`.  `Break` is the server ending a session.

`ExecContext`, `MustExecContext`, `SelectContext` and `QueryContext` pass a context
on that the caller may cancel at any time (`dbconn.go:352-363`, `:417-429`,
`:445-448`).  If the call still waits for the session, it ends with an error
(`CancelledWaiting`); if its statement runs, the driver closes the connection, which
the handle finds out when it next uses the session, and then dials (`Runs`,
`CutOff`), in a transaction too, whose slot stays filled; open rows are closed, and
their session as well if more of them was to come (`RowsCancelled`).  The functions
without a context have one that is never cancelled, so the model lets no more happen
to them than to those with one.

Assumed of the callers, as the doc of `DBConn` asks: a goroutine uses its own
number, only worker 0 leaves it out, `Connect` is called while no call is running
and no call is made while it runs.  `Close` may come at any time.  Assumed of
database/sql: a handle limited to one open and one idle connection keeps its
session between calls, replaces one that has ended at the next use, makes a second
user wait, and on `Close` ends an idle session at once and one in use when it is
given back.

### ClusterExec and Batch

A command stands for its index in the list.  `commandList` holds the fields the
call changes (`RetryError` as the number of joined errors); each goroutine has
its local copy `command` and `err` and `attempt`.  `Begin`, `TryPasses`,
`TryFails`, `Wake`, `GiveUp` and `Store` are the goroutine, split at every run of
the process, at the sleep and at the send; `Call`, `Receive` and `Return` are the
caller.  Receiving from the unbuffered channel ends the goroutine in the same
step.  A call may be given the list of the one before it.  The code sets no
timeout: for a command of `MayHang`, `Hang` is a run that never ends.

`Batch` has one outcome per command and a call that returns when all are known.
`RefinesBatch` maps the outcome of a command to that of its last run, known from
the moment it is stored in the list, with or without retries; a command that
hangs has none.

### ClusterReport

`CheckClusterError` is one step, taken any time after a call has returned and as
often as the caller likes, with `noFatal` or without, at any verbosity of the log
file.  `report` is what it wrote there: the commands named as retried and as
failed, the kind of the closing message and the number in it.  `errorCode` is
`gplog`'s.  `ExecStep` is any step of the executor.  Which function the messages
are worded by is left out; the caller passes one that fits its generator.

### Gplog

The mutex, the logger pointer, its verbosities, `errorCode` and `exitFunc` are
variables; a message is the number of its call in the order of the mutex, a log
file or terminal a sequence of messages.  An output function is `Call`, `Lock`
(with the assignment of the error code), `WriteFile`, `WriteShell`, `Exit` (only
`FatalWithoutPanic`) and `Unlock`, the deferred unlock that also runs when the
function panics.  The setters take no mutex and interleave with all of these.
`Custom` stands for the one combination of levels the library uses
(`cluster.go:448`).  `InitializeLogging` is the check of the pointer, then
`InitFails` (the directory or the file cannot be made and `abort` panics) or
`NewLogger`, the assignment without a second look, and then `SetDefaultExit`, so
that messages may be logged between any two of them.

### Cluster

`catalog` is what gp_segment_configuration says: the host of the primary of
every content, and of its mirror if there is one.  `GetSegmentConfiguration`
reads the roles its booleans ask for, sorted; `GetSegmentConfigurationFromFile`
reads the lines in any order, and none of them when one does not parse.  The list
read is `Segments`; `AddSegment` is one turn of the loop of `NewCluster`,
`FinishBuild` the sort of the content ids.  The pointers in `ByContent` and
`ByHost` are positions in `Segments`; dbid, port and directory are left out, since
a segment is known by its content and role.  `Generate` begins
`GenerateSSHCommandList` with a scope and a generator of one of the two accepted
signatures or of another one; `GenerateForContent` and `GenerateForHost` are one
turn of the loops of `GenerateCommandList`.  A command has the fields `Content`
and `Host` with their conventions (-2 and the empty name), the host it is for, and
whether it is given to bash or to ssh.  The bit ON_HOSTS is not part of `Scope`:
the code decides by the signature of the generator alone.

The file is taken to have the rows of the catalog.  A failover after the read,
which the code has no way to notice, and a file written while it is read are left
out.

### Scan, StringArray and Version

A call is a `Get`, a `Select`, or `InitializeVersion`, which is a `Get` followed by
a parse.  A struct type is the sequence of the fields `reflect.VisibleFields`
gives, each with name, tag, depth and what is on its path; an object has a cell
for each, or one cell for a type that is scanned whole.  `objects` are those made,
`dest` is the caller's slice, whose elements are objects or copies of them.
`Columns` is `columnPaths`, `NextRow` and `FirstRow` are the calls of `rows.Next`,
`ScanRow` is `scanRowIntoStruct` or `rows.Scan` with the append, `SecondRow` the
second `Next` of `scanOne` and what `InitializeVersion` does after it.  Between any
two of these `RowsClosed` may happen: the context ends or the session is lost, and
the next use of the rows fails or, with `Next`, looks like their end.  `rows.Scan`
writes the columns in order and stops at the first that cannot be converted.  The
second call of a caller has the same destination, filled by the first one.

`StringArray` reads characters: the five that mean something in an array literal,
the word NULL as a character of its own, and any other, a space among them.  `ArrayOut`
is the server's side, by the rules of PostgreSQL's manual: quotes, backslashes, NULL,
inner braces for a second dimension, and the subscripts before the brace when the
first is not 1.  In `Version` a banner is a sequence of words and of numbers X.Y.Z,
some of which semver refuses (a leading zero); `BannerOut` makes one of its shape, its
marker, its release, if it tells one, and what stands around it; `Is`, `AtLeast` and
`Before` compare with one to three components, as the ranges of semver do.

### Conv and ConvFloat

The state is that of one call: the magnitude `u`, the position `pos`, the caller's
buffer `buf`, whose bytes are `Stale` at first, and the bytes of the returned slice.
`i16Dig`, `i32Dig`, `i64Dig`, `ui16Dig`, `ui32Dig` and `ui64Dig` are the same text but
for types and numbers, so `Kind` stands for them, with the modulus 2^w and the
length of the buffer of each; arithmetic on magnitudes is modulo 2^w.  `StartLoop`,
`TwoDigits`, `LastDigits`, `Sign` and `Return` are the routine, `FromTable` its
returns of table entries; `i8Dig` and `UInt8ToBytes` have no loop and are operators.

`ConvFloat` adds `Float64ToBytes` (`Float64ToString` makes the same choices and
returns the same text): `FloatAtOnce` the results that need no digits and those
left to `strconv`, `Split` the rounding and the carry, then the loop of `Conv`, then
`AfterSign`, `Decimals` and `ReturnFloat`.  A float is a numerator over a power of
two such that all products in `f64Dig` are exact.  What a rounded product does
within an ulp of a tie, and negative zero, are left out.

### Disagreements without a run of their own

* `GetSegmentConfiguration(conn, true, false)` reads no mirrors although the
  comment says the first boolean adds them (`cluster.go:572`, `:576`).
* INCLUDE_MIRRORS includes 'mirror segments and hosts' (`cluster.go:84`), but with a
  generator for contents the bit is not looked at (`:278-283`): a content gets one
  command, which goes to its primary, and its mirror gets none.  `EachAskedOnce`
  states what the code does: one command for each content, with every scope.
* `GenerateSSHCommandList` returns no commands for a generator that
  `GenerateCommandList`, which it says it wraps, would panic on (`:298`, `:319`).
* In a cluster built from mirrors only, `GetSegmentConfiguration(conn, false, true)`,
  the standby's host is taken for the local one, and its commands are given to
  bash although those for other hosts "are sent through SSH" (`:313-318`).
* With `maxAttempts` 0 nothing is executed and everything is reported completed
  without an error (`:360-379`).
* Of a server whose banner has a marker but no release, `ParseGPVersion` takes the
  first number after the marker (`version.go:94`), which in banners of the shape
  `(Greenplum Database dev build) ... compiled by gcc 11.5.0` is the compiler's;
  it returns no error, although 'if no marker or no version number can be found, an
  error is returned' and the compiler's version is meant to be kept out (`:68-77`).
  `VersionIsDatabases` states this case as it is.
* A `text[]` whose first subscript is not 1 is written by the server as `[0:1]={a,b}`,
  which `StringArray.Scan` refuses (`array.go:36`) although a `[]string` can hold it.
  `ArrayArrives` says so.
* `f64Dig` rounds a tie away from zero (`float.go:66`), `strconv.FormatFloat`, to
  which it leaves the other values and against which its tests compare, to even.
  `Rounds` states the difference.

## 3. Runs

| Run | Shows |
|---|---|
| `pool` | all safety properties of the pool, and that calls end |
| `executor` | truth of the output, retries, no goroutine left, a complete list of errors, the exit code, every call whose processes end returns, refinement of `Batch` |
| `logger` | mutual exclusion, order, printing, error code, and that calls end |
| `cluster` | lookups, the partition by hosts, who gets a command, once, in order, and on which machine it runs |
| `conv` | the text of every 8 and 16 bit integer and of floats around the carries, inside the buffer |
| `read` | complete results or an error, rows and columns in their places, arrays as the server has them or refused, the version of the release the server tells |
| `pool_session` | a lost session breaks the single-session promise (`dbconn.go:41-45`) |
| `pool_mismatch` | the default number is not checked (`dbconn.go:451-455`) |
| `logger_fatal_code` | `Error` after `Fatal` lowers the code from 2 to 1 (`gplog.go:22-25`, `:379`) |
| `logger_no_panic` | `FatalWithoutPanic` panics without an exit function (`gplog.go:97`, `:454`) |
| `cluster_mirrors` | hosts of mirrors are not excluded (`cluster.go:85`, `:286-294`) |
| `read_embedded` | an embedded pointer to an unexported type makes the scan panic (`scan.go:169-176`) |

The last six are disagreements between a comment and the code; each run checks
what the comment says and TLC finds a behaviour of the code that is different.

Bounds.
`pool`: `MaxConns = 2` gives two workers, pools of one and two handles and a dial
that fails between two others; the code treats all numbers alike, and no step
involves more than two handles.  `MaxSessions = 3` is enough to fill a pool of
two and replace a session, or to open the probe, a pool of one and a second pool or
a replacement.  `MaxBreaks = 1` loses a session at any point, in a transaction or
between calls, and `MaxCancels = 1` cancels a context in a session at any point, so
that a handle may lose its session in both ways.  When the
sessions are used up, dials fail, which is a behaviour the code has too.
`executor`: three commands, so that two may be in any relation while a third is
done; one and two attempts, so that a command fails for good, passes at once or
passes on the last attempt; a list is passed again once; the third command may
hang.  `Verbosities = {0, 2, 3}` are the log file's levels below, at and above those
at which commands are reported.  A hung process stops the call and with it the
model, so deadlock is not checked.
`logger`: two goroutines and two messages, so that one is inside a function while
the other waits or logs after it; two loggers to move between; two calls of
setters, any of them.  `Verbosities = {LOGERROR}` is the quietest level, the only
one at which "always prints" can fail.  The process may exit, so deadlock is not
checked.
`cluster`: the coordinator and one other content, because the loops treat a
content only by whether it is -1 and by its own one or two segments; three hosts,
so that primary, mirror and coordinator may share hosts in every way or not at
all; every placement, with and without mirrors; every order of the lines; every
scope and signature.  Hosts are interchangeable in the code, which only compares
them, so `MCCluster` declares their symmetry.  Nothing in the module is forced to
happen, so it has no liveness property.

`conv`: the whole range of 16 bits takes the loop through zero, one and two
rounds, to both ends of the buffer and through the smallest integer; more bits add
rounds and are covered by the proofs.  Floats are eighths, the least denominator
with ties at several precisions, around zero and around 100, 1000 and 10000, where a
carry makes a digit more; precisions below, at and above what writes them exactly,
and those left to `strconv`.  The buffers and limits of the float routine that a
small value cannot reach (19 digits, 17 decimals, 2^63) are left to the proofs.  A
behaviour is one call, so it ends.
`read`: six struct types that between them have tags, skipped and unexported
fields, embedded values and pointers, shadowing at another and at the same depth,
and no mappable field; at most two rows, because the code distinguishes none, one
and more; every array of up to two elements of up to two characters, one of the
elements from a shorter list, with the first subscript 0 or 1; banners of every shape
in the comments and of a server that is not Greenplum, with either marker, with a
release, with one that semver refuses and without one, and with a compiler before or
after it whose version is a number, is refused by semver or is no number; two calls
with one destination.  After those
the model stops, so deadlock is not checked.

Fairness.
In `DBConn` the step a worker is at is taken in the end: goroutines are
scheduled and the server or the driver answers.  No call is forced to be made,
rows need not be closed, no context has to be cancelled and no session has to break.  `CallsReturn` therefore
speaks of calls made while the worker itself has no rows open: a worker that
keeps rows and calls again on its own number waits for itself, by the design of
one connection per handle.  In `ClusterExec` goroutines and the caller run,
sleeps end, and so do the processes that do not hang: `CallReturns` says that a call
returns or has a command that hung.  In `Gplog` the steps inside an output function are
weakly fair, and taking the mutex is strongly fair, because `sync.Mutex` hands
the lock to a waiter that has starved for a millisecond.

## 4. Proofs

The constants are arbitrary: `MaxConns \in Nat \ {0}`, `MaxSessions \in Nat`,
`MaxBreaks \in Nat` and `MaxCancels \in Nat` (`DBConnAssumption`) is all the proofs
use.

* `DBConnTypes`: lemmas about `Acquire`, `AcquireFails` and `GiveBack`, and
  `TypeCorrect == Spec => []TypeOK`.
* `DBConnLemmas`: what those three do to each part of the invariant.
  `AcquireLocal` is the central one: whatever session a call gets, no other
  handle holds it and no other handle or session in a handle changes.
* `DBConnProofs`: one lemma per part of `IInv`, with a step for each action, then
  `Inductive == Spec => []IInv` and from it the seven safety properties.

Why an inductive invariant is needed: `TxSlotMatchesSession` speaks of workers
between calls, so `TxInv` adds what holds at each step inside a call; a slot is
right only if no two handles share a session, which is `OwnInv`; that holds only
because a new session has a number above those in all handles; a call may count
on its handle only because `Connect` does not run while it is in progress
(`CallInv`) and because `PoolInv` says which handles exist.  `UserInv` and
`UsedInv` carry the history needed for sharing and for session changes, `RowsInv`
the readers of open rows, and `OrphanInv` where each transaction can be found.

`SessionKept` is an action property: a step in which handle `i` changes its session
must find the session among those the server ended or a context of worker `i` closed.
A session is given up by `Acquire` and `AcquireFails` only, and only if it has ended;
that the cancelled context was the worker's own follows from `UsedInv` (a context is
cancelled in a session its worker has used) and `UserInv` (nobody else has used it).
A handle may still lose its session to the server or to its worker's own context; what
that means for the promise of a single session is shown by `pool_session`.

In `Cluster` the contents are any finite set of naturals and the hosts any set
(`ClusterAssumption`); the empty hostname is none of them.

* `ClusterProofs`: `OrderingFacts` and `RowFacts` say what reading in any order
  gives; `AddToContent` says what one turn of the loop does to a content's list,
  with the swap; then one lemma per part of `IInv` and per action,
  `Inductive == Spec => []IInv`, and from it `TypeCorrect`, `Lookup`,
  `HostsPartitioned` and `CommandsRunWhereMeant`.  `Generating == Spec => []GenerateInv`
  adds what the loops that generate have been through, and gives `InOrder`,
  `AskedOnce` and `LoneSkipped`: every safety property of the run.

`LookupIsRight` is a statement about the end of the loop, so `ContentInv` states
it for the segments entered so far: the list of a content has exactly its
positions, at most two, and with two the primary first.  That two is the most
follows from `ListInv`: the rows differ, and of one content there are only two
roles.  `CommandInv` says of each command what it was made from, and with
`LookupIsRight` it follows where the command runs.

Who gets a command is said by `ProgressInv`, for either loop: the commands are those
of the elements passed so far that are not left out, in their order (`OneMore` is one
turn, a statement about any two lists).  The rest is about hosts.  A host that is
asked for is not skipped, because it would have to be the coordinator's or the
standby's, whose row is another one on it (`AskedNotSkipped`, `TwoRows`).  A
host with nothing but the coordinator has a list of length one, because the list
of a host is strictly increasing (`OneRow`), so it is skipped.

In `ClusterExec` the commands are any finite set and the limits of attempts any
integers (`ClusterExecAssumption`).

* `ClusterExecProofs`, first part: one lemma per part of the invariant and per
  kind of step, `AnyLimit == Spec => []AnyLimitInv`, and from it `TypeCorrect`,
  `NoneLeft` and `NoneRunAgain`.
* Second part, under `AttemptsArePositive`: `Inductive`, then `OutputTrue`,
  `RetriedTrue`, `AttemptsUsed` and `ImplementsBatch`.  The assumption is needed:
  with `maxAttempts` 0 nothing is run and the output does not tell (see the
  disagreements above).  The callers in the library pass 1 (`cluster.go:356`) and
  5 (`:422`).
* Third part: `ReportExecutes`, that a behaviour of `ClusterReport` is one of
  `ClusterExec`, and from what is proved of that `ReportTypeCorrect`, `ListComplete`
  and `CodeTrue`.

`OutputIsTrue` is about the end of a call, when all goroutines are gone.  What makes
it true is that `AttemptInv` ties the control point of each goroutine to the history
of its command (a goroutine that sleeps has failed exactly the runs it has made, one
that sends has passed or used them up) and that `Settled` says what the goroutine
leaves behind in the list when it has sent.  `PhaseInv` keeps the caller's count in
step with the goroutines that have reported in, `CountInv` the number of errors, and
`OutputInv` the two lists.  A list passed again starts with the retry errors of the
earlier call, which `RetryInv` accounts for.

The refinement maps a command to `Outcome`, which changes only when its goroutine
stores it; `ImplementsBatch` shows that each step of the executor is then a step of
`Batch` or none.  That outcomes become known at all is left to TLC.

In `Gplog` goroutines are any finite set, and loggers, verbosities, the number of
messages and that of setter calls are arbitrary (`GplogAssumption`).

* `GplogProofs`: one lemma per part of `IInv`, `Inductive == Spec => []IInv`, and from it
  `TypeCorrect`, `MutexOwned`, `Ordered`, `ErrorsRemembered` and `Printed`.

`OneOrder` is not inductive: a file stays sorted only because the number of the
message that is about to be written is above those in every file, which holds because
the holder of the mutex has the last number given (`NumberInv`) and no file has it
before the step that writes it (`FileInv`, `ShellInv`).  `AlwaysPrinted` needs that a
message to be printed is, at each step of its call, where that step has put it
(`PrintInv`), even though the pointer, the verbosities and the exit function may have
been changed between any two steps; `LoggerInv` says that what a call reads there is a
logger once there has been one.

In `Scan` the struct types, the calls with their columns and rows, the conversion of
names to lower case and the number of calls are arbitrary; `ScanAssumption` says that
columns and rows are sequences, a row has a value for every column, and fields have
natural depths.

* `ScanProofs`: lemmas on sequences of anything (`IsSeq`); `FieldMapOwns`, that the field
  `buildFieldMap` picks is shadowed by none, and `FilledHolds`, that an object filled
  through such fields has the row in it, whichever columns share a field; one lemma per
  action, `Invariant == Spec => []IInv`, and from it `TypeCorrect`, `NoRowIsLost` and
  `RowsKeepTheirPlace`.

`RowsArrive` speaks of elements already appended and says nothing of the row being
scanned, so `ElementInv` adds that the object it goes into is blank and that no
element refers to it, and `PathInv` that the columns have their fields.  That the
elements are those of the rows so far, none left out, is `CountInv`; with it the end of
the loop gives `ErrorsSurface`.  The rows may be closed at any step and a row may fail at
any column: neither touches an element.  What a value is converted to plays no part
in this, so it holds whatever `StringArray` does.

`VersionAssumption` says what calls of `InitializeVersion` are: the destination has one
field for the column, and the server answers with what `BannerOut` makes, or with no
row: of any shape, with any release, any tokens for PostgreSQL and for the compiler, but
only one marker.

* `ScanProofs`, second part: `InsideOut` and `AfterOut`, where the marker, the release
  and the compiler are in a banner of each shape; `OneMarkerTells`, that what is
  parsed is the first number after the marker; `ReleaseTold`, that this is the release
  if there is one, and `CompilerTold`, that it is the compiler's or that there is an
  error if there is none; `IsBegins` and what `Before` says of a version with one part
  raised; then `VersionFound == Spec => []VersionIsDatabases`.

`VersionIsDatabases` is about the end of the call; `VersionInv` adds that the banner
that is parsed is that of the one row, and that what is recorded at the end is what
parsing it gives.  It is inductive relative to `IInv`, from which comes that the row has
arrived in the field.

`ArrayAssumption` says what a `Get` of an array is: one row with one column, in which is
what `array_out` writes for an array of texts and NULLs with any first subscript.

* `ScanProofs`, third part: `Recursion`, that a recursive function whose step depends only
  on places of a lesser rank exists, with which `Quoted`, `Elements` and `FlattenSeq` can
  be unfolded for a text of any length; `FlattenParts`, where the parts of a concatenation
  are; `QuotedReads` and `UnquotedReads`, that one element is read to its end as it was;
  `ListRead`, that so are all of them; `ArrayRead`, that `StringArray.Scan` inverts
  `array_out` for every array a `[]string` can hold and refuses the others; then
  `ArraysArrive == Spec => []ArrayArrives`.

These are inductions over the text: going backwards from the closing quote or from the
last element, the function has read at each place what is to its right (`ReadFrom`,
`ListFrom`), and `Backwards` carries that to the first place.  It takes a set of places
and no operator, and is proved from the least element of a set of numbers (`LeastOf`).  An unquoted
element cannot be mistaken for NULL, a comma or a brace because `NeedsQuotes` would have
quoted it (`PlainReads`), a quoted one because the reader has looked at its quote
(`QuotedElementReads`).  `ArrayInv` adds to `ArrayArrives` that a call goes past its row only
if the array could be read.

In `Conv` the widths, the buffers and the number of digits are arbitrary within
`ConvAssumption`: a buffer has room for the largest magnitude and for the sign,
which holds for the six routines of the code.

* `ConvProofs`: lemmas on `\div` and `%` (`Weights`, the digits of a number of one,
  two and more), one lemma per action, `Inductive == Spec => []ConvInv`, and from it
  `TypeCorrect`, which is that every write is inside the buffer, and `Decimal`, that
  the result is the decimal text; `DecimalBesideFloats` is the same of `FloatSpec`,
  whose steps for integers are those of `Spec`.

`Converts` speaks of the returned slice, so `ConvInv` states for each point of the
loop what is there already: `buf[pos ..]` holds the low digits of the magnitude, `u`
is the magnitude divided by ten to their number, and the bytes before `pos` are
enough for the digits of `u` and for the sign.  The magnitude itself is the absolute
value of the argument even for the smallest integer, because the negation is modulo
2^w.

In `ConvFloat` the values, precisions and the denominator are arbitrary within
`FloatAssumption`: some number of decimals writes every value exactly; an eligible
value has at most 19 digits before the point, which holds for `maxEligbleInt64`; no
value and no precision has more digits than `Weight` has entries.

* `ConvProofs`, second part: `WeightsMultiply`, `DigitsUnique` and the like about
  weights and digits; `RoundedParts`, that the integer part and the decimals that
  `Split` leaves are the quotient and the remainder of the rounded value, also when
  the decimals carry into the integer part and when a tie is rounded away; `FormatIs`,
  that the text of `strconv` at a precision that `f64Dig` takes is those two parts with
  a point between them; one lemma per action, `FloatInductive == FloatSpec => []FloatInv`,
  and from it `FloatTypeCorrect` and `RoundsCorrectly`.

`Rounds` speaks of the result, so `FloatInv` says where its parts are before: in the
loop the low digits of the integer part end at the point (`FloatLoopInv`), at `sign`
and `return` all of them are there (`FloatSignInv`, `FloatReturnInv`), and then the low
digits of the decimals end where the precision says (`DecimalsInv`), those at the
front being zeros that the code writes because `ul` has run out.  The two parts are
written into one buffer and do not meet: there are at most 19 digits and a sign
before index 20 and at most 17 decimals after it.  A precision above that which
writes every value exactly adds zeros on both sides (`PaddedText`, `ExactParts`).

Only model-checked: liveness (`CallsReturn`, `CallReturns`, `CallEnds` and the
liveness of `Batch` in `RefinesBatch`), which is out of the prover's reach.  Every
invariant and every action property that the passing runs check is also proved.

## 5. Not modelled

* Formatting of messages, colours, prefixes, file names and stack traces; the
  connection string and the wording of connection errors.
* `operating` is a table of functions of the operating system; `iohelper` wraps
  them, one file and one error at a time; `gperror` is an error with a code.  None
  has state or an order of calls to get wrong.
* `structmatcher` compares two values by reflection for tests, and `testhelper` has
  mocks; `TestExecutor` returns what its test prepared.
* `FormatMD5` looks up two digits per byte.
* Floats whose products with a power of ten are not exact, and negative zero.
* A goroutine that calls a `*WithArgs` function, which always uses connection 0,
  without being worker 0.
* An exit function that logs: it would wait for the mutex its caller holds.
* A catalog that changes after the segment configuration was read.

## 6. Plan

What is left are variants with a goroutine that uses `*WithArgs` on a number of its own
and with an exit function that logs.
