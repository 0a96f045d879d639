----------------------------- MODULE ClusterExec -----------------------------
(***************************************************************************)
(* ExecuteClusterCommandWithRetries of cluster/cluster.go: one goroutine   *)
(* per command of the list, each running its command until it succeeds or  *)
(* maxAttempts is used up, storing the result in the caller's list and     *)
(* sending its index on an unbuffered channel, on which the caller counts  *)
(* the goroutines in.                                                      *)
(*                                                                         *)
(* A command is an element of Cmd, standing for its index in the list.  A  *)
(* run of its process succeeds, fails or, for a command of MayHang, never  *)
(* ends: the code sets no timeout.  The caller may pass the list of an     *)
(* earlier call again, with the results that call left in it.              *)
(***************************************************************************)
EXTENDS Integers, FiniteSets

CONSTANTS Cmd,             \* the commands of a list
          MayHang,         \* those whose process may never end
          AttemptLimits,   \* values of maxAttempts a caller passes
          MaxReuse         \* bound: times a list is passed again

ASSUME ClusterExecAssumption == /\ IsFiniteSet(Cmd)
                                /\ MayHang \subseteq Cmd
                                /\ AttemptLimits \subseteq Int
                                /\ MaxReuse \in Nat

VARIABLES
  caller,       \* "idle", "collect" while it receives, then "returned"
  reuses,       \* times the list has been passed again
  maxAttempts,
  commandList,  \* the fields of each ShellCommand that the calls change
  pc,           \* where the goroutine of each command is
  command,      \* its local copy of the ShellCommand
  err,          \* its local err: TRUE for an error
  attempt,
  received,     \* commands whose index the caller has received
  numErrors,
  output,       \* the last RemoteOutput
  runs,         \* history: times the current call ran a command
  passed,       \* history: commands whose last run in this call succeeded
  failures      \* history: failed runs of a command since its list was new

callVars  == <<caller, reuses, maxAttempts, received, numErrors, output>>
goVars    == <<pc, command, err, attempt>>
histVars  == <<runs, passed, failures>>
vars      == <<callVars, commandList, goVars, histVars>>

\* Error and Completed as they are; RetryError as the number of errors joined.
ShellCommand == [Error : BOOLEAN, RetryError : Nat, Completed : BOOLEAN]
NewCommand   == [Error |-> FALSE, RetryError |-> 0, Completed |-> FALSE]

\* The field Commands of a RemoteOutput is the list itself, not a copy.
RemoteOutput == [NumErrors : Nat, FailedCommands : SUBSET Cmd, RetriedCommands : SUBSET Cmd]
NoOutput     == [NumErrors |-> 0, FailedCommands |-> {}, RetriedCommands |-> {}]

TypeOK ==
  /\ caller \in {"idle", "collect", "returned"}
  /\ reuses \in 0 .. MaxReuse
  /\ maxAttempts \in AttemptLimits \cup {0}
  /\ commandList \in [Cmd -> ShellCommand]
  /\ pc \in [Cmd -> {"none", "spawned", "loop", "hung", "sleep", "store", "send"}]
  /\ command \in [Cmd -> ShellCommand]
  /\ err \in [Cmd -> BOOLEAN]
  /\ attempt \in [Cmd -> Nat]
  /\ received \subseteq Cmd
  /\ numErrors \in 0 .. Cardinality(Cmd)
  /\ output \in RemoteOutput
  /\ runs \in [Cmd -> Nat]
  /\ passed \subseteq Cmd
  /\ failures \in [Cmd -> Nat]

Init ==
  /\ caller = "idle"
  /\ reuses = 0
  /\ maxAttempts = 0
  /\ commandList = [c \in Cmd |-> NewCommand]
  /\ pc = [c \in Cmd |-> "none"]
  /\ command = [c \in Cmd |-> NewCommand]
  /\ err = [c \in Cmd |-> FALSE]
  /\ attempt = [c \in Cmd |-> 0]
  /\ received = {}
  /\ numErrors = 0
  /\ output = NoOutput
  /\ runs = [c \in Cmd |-> 0]
  /\ passed = {}
  /\ failures = [c \in Cmd |-> 0]

-----------------------------------------------------------------------------
(* The caller.                                                             *)

KeepCount == received' = {} /\ UNCHANGED numErrors      \* mutant
ResetCount == received' = {} /\ numErrors' = 0

\* The call starts a goroutine for every command.  The list is a new one or
\* the one the last call worked on.
Call(m, reuse) ==
  /\ caller # "collect"
  /\ caller' = "collect"
  /\ maxAttempts' = m
  /\ ResetCount
  /\ pc' = [c \in Cmd |-> "spawned"]
  /\ runs' = [c \in Cmd |-> 0]
  /\ passed' = {}
  /\ IF reuse
       THEN /\ reuses < MaxReuse
            /\ reuses' = reuses + 1
            /\ UNCHANGED <<commandList, failures>>
       ELSE /\ reuses' = 0
            /\ commandList' = [c \in Cmd |-> NewCommand]
            /\ failures' = [c \in Cmd |-> 0]
  /\ UNCHANGED <<output, command, err, attempt>>

CountsRetried(c) == commandList[c].RetryError > 0      \* mutant
CountsAsError(c) == commandList[c].Error

\* index := <-finished.  The channel is unbuffered: the goroutine ends in the
\* same step.
Receive(c) ==
  /\ caller = "collect"
  /\ pc[c] = "send"
  /\ pc' = [pc EXCEPT ![c] = "none"]
  /\ received' = received \cup {c}
  /\ numErrors' = IF CountsAsError(c) THEN numErrors + 1 ELSE numErrors
  /\ UNCHANGED <<caller, reuses, maxAttempts, output, commandList, command, err, attempt, histVars>>

NewRemoteOutput ==
  [NumErrors       |-> numErrors,
   FailedCommands  |-> {c \in Cmd : commandList[c].Error},
   RetriedCommands |-> {c \in Cmd : ~commandList[c].Error /\ commandList[c].RetryError > 0}]

OneMissing == Cardinality(received) >= Cardinality(Cmd) - 1      \* mutant
AllIn      == Cardinality(received) = Cardinality(Cmd)

Return ==
  /\ caller = "collect"
  /\ AllIn
  /\ caller' = "returned"
  /\ output' = NewRemoteOutput
  /\ UNCHANGED <<reuses, maxAttempts, received, numErrors, commandList, goVars, histVars>>

-----------------------------------------------------------------------------
(* The goroutine of command c.                                             *)

Begin(c) ==
  /\ pc[c] = "spawned"
  /\ command' = [command EXCEPT ![c] = commandList[c]]
  /\ err' = [err EXCEPT ![c] = FALSE]
  /\ attempt' = [attempt EXCEPT ![c] = 1]
  /\ pc' = [pc EXCEPT ![c] = "loop"]
  /\ UNCHANGED <<callVars, commandList, histVars>>

NotLast(c) == attempt[c] < maxAttempts      \* mutant
MayRun(c)  == attempt[c] <= maxAttempts

\* mutant: the loop goes on after a success
TryPassesOn(c) ==
  /\ pc[c] = "loop"
  /\ MayRun(c)
  /\ runs' = [runs EXCEPT ![c] = @ + 1]
  /\ passed' = passed \cup {c}
  /\ err' = [err EXCEPT ![c] = FALSE]
  /\ attempt' = [attempt EXCEPT ![c] = @ + 1]
  /\ UNCHANGED <<callVars, commandList, command, pc, failures>>

\* The command succeeds, which ends the loop.
TryPasses(c) ==
  /\ pc[c] = "loop"
  /\ MayRun(c)
  /\ runs' = [runs EXCEPT ![c] = @ + 1]
  /\ passed' = passed \cup {c}
  /\ err' = [err EXCEPT ![c] = FALSE]
  /\ pc' = [pc EXCEPT ![c] = "store"]
  /\ UNCHANGED <<callVars, commandList, command, attempt, failures>>

KeepLastError(c) == command' = [command EXCEPT ![c].RetryError = 1]      \* mutant
JoinRetryError(c) == command' = [command EXCEPT ![c].RetryError = @ + 1]

\* The command fails; the goroutine sleeps unless that was the last attempt.
TryFails(c) ==
  /\ pc[c] = "loop"
  /\ MayRun(c)
  /\ runs' = [runs EXCEPT ![c] = @ + 1]
  /\ passed' = passed \ {c}
  /\ failures' = [failures EXCEPT ![c] = @ + 1]
  /\ err' = [err EXCEPT ![c] = TRUE]
  /\ JoinRetryError(c)
  /\ IF attempt[c] # maxAttempts
       THEN pc' = [pc EXCEPT ![c] = "sleep"] /\ UNCHANGED attempt
       ELSE attempt' = [attempt EXCEPT ![c] = @ + 1] /\ UNCHANGED pc
  /\ UNCHANGED <<callVars, commandList>>

\* The call to the command's process does not return.
Hang(c) ==
  /\ c \in MayHang
  /\ pc[c] = "loop"
  /\ MayRun(c)
  /\ runs' = [runs EXCEPT ![c] = @ + 1]
  /\ pc' = [pc EXCEPT ![c] = "hung"]
  /\ UNCHANGED <<callVars, commandList, command, err, attempt, passed, failures>>

Wake(c) ==
  /\ pc[c] = "sleep"
  /\ attempt' = [attempt EXCEPT ![c] = @ + 1]
  /\ pc' = [pc EXCEPT ![c] = "loop"]
  /\ UNCHANGED <<callVars, commandList, command, err, histVars>>

GiveUp(c) ==
  /\ pc[c] = "loop"
  /\ ~MayRun(c)
  /\ pc' = [pc EXCEPT ![c] = "store"]
  /\ UNCHANGED <<callVars, commandList, command, err, attempt, histVars>>

\* The goroutine's locals end with it.
EndLocals(c) ==
  /\ command' = [command EXCEPT ![c] = NewCommand]
  /\ err' = [err EXCEPT ![c] = FALSE]
  /\ attempt' = [attempt EXCEPT ![c] = 0]

\* mutant: the results stay in the local copy
StoreNothing(c) ==
  /\ pc[c] = "store"
  /\ pc' = [pc EXCEPT ![c] = "send"]
  /\ EndLocals(c)
  /\ UNCHANGED <<callVars, commandList, histVars>>

\* mutant: a goroutine with an error ends without reporting in
StoreOrQuit(c) ==
  /\ pc[c] = "store"
  /\ commandList' = [commandList EXCEPT ![c] = [command[c] EXCEPT !.Error = err[c], !.Completed = TRUE]]
  /\ pc' = [pc EXCEPT ![c] = IF err[c] THEN "none" ELSE "send"]
  /\ EndLocals(c)
  /\ UNCHANGED <<callVars, histVars>>

\* commandList[index] = command; the goroutine then waits on the channel.
Store(c) ==
  /\ pc[c] = "store"
  /\ commandList' = [commandList EXCEPT ![c] = [command[c] EXCEPT !.Error = err[c], !.Completed = TRUE]]
  /\ pc' = [pc EXCEPT ![c] = "send"]
  /\ EndLocals(c)
  /\ UNCHANGED <<callVars, histVars>>

-----------------------------------------------------------------------------
Goroutine(c) == Begin(c) \/ TryPasses(c) \/ TryFails(c) \/ Wake(c) \/ GiveUp(c) \/ Store(c)

Collect == Return \/ \E c \in Cmd : Receive(c)

Next == \/ \E m \in AttemptLimits, reuse \in BOOLEAN : Call(m, reuse)
        \/ Collect
        \/ \E c \in Cmd : Goroutine(c) \/ Hang(c)

Spec == Init /\ [][Next]_vars

\* Goroutines are scheduled, the processes that do not hang end, sleeps end,
\* and the caller receives while somebody sends.
FairSpec == Spec /\ WF_vars(Collect) /\ \A c \in Cmd : WF_vars(Goroutine(c))

-----------------------------------------------------------------------------
(* Properties.                                                             *)

Returned == caller = "returned"

\* What the caller is told is what happened: the commands reported as failed
\* are those whose last run failed, the count is theirs, and every command
\* has been run.
OutputIsTrue ==
  Returned => /\ output.FailedCommands = Cmd \ passed
              /\ output.NumErrors = Cardinality(output.FailedCommands)
              /\ \A c \in Cmd : commandList[c].Completed

\* A command is reported as retried when it failed before it passed, and its
\* RetryError then holds every failed run, those of earlier calls on the same
\* list included: no error is lost, and none is told of a command that failed.
RetriedIsTrue ==
  Returned =>
    /\ output.RetriedCommands = {c \in passed : failures[c] > 0}
    /\ \A c \in Cmd : commandList[c].RetryError = failures[c]

\* A command is given up only after maxAttempts runs, and never run more often.
AttemptsUsedUp ==
  /\ \A c \in Cmd : runs[c] <= maxAttempts
  /\ Returned => \A c \in output.FailedCommands : runs[c] = maxAttempts

\* When the call returns no goroutine of it is left, so the list may be read,
\* and given to the next call, without a race.
NoGoroutineLeft == caller # "collect" => \A c \in Cmd : pc[c] = "none"

\* A command that has succeeded is not run again in the same call: commands
\* need not be idempotent.
NoRunAfterSuccess ==
  [][\A c \in Cmd : c \in passed /\ caller = "collect" => runs'[c] = runs[c]]_vars

\* Every call returns unless a process hangs, whatever the others do.
CallReturns == caller = "collect" ~> (caller = "returned" \/ \E c \in MayHang : pc[c] = "hung")

\* What a call has made of c: the outcome of the last run of its process, known
\* when its goroutine has stored it in the list.
Outcome(c) == CASE pc[c] \notin {"send", "none"} -> "pending"
                [] pc[c] \in {"send", "none"} /\ c \notin passed -> "failed"
                [] pc[c] \in {"send", "none"} /\ c \in passed ->
                     IF failures[c] > 0 THEN "retried" ELSE "passed"

\* The call implements Batch, and an outcome becomes known for every command
\* that does not hang even if others do.
B == INSTANCE Batch WITH
       phase   <- IF caller = "collect" THEN "running" ELSE "idle",
       outcome <- [c \in Cmd |-> IF caller = "collect" THEN Outcome(c) ELSE "none"],
       failed  <- output.FailedCommands,
       retried <- output.RetriedCommands

RefinesBatch == B!Spec

-----------------------------------------------------------------------------
(* The inductive invariant.                                                *)

\* Callers in this library pass 1 or 5; with less than 1 no command is run and
\* the output does not tell.
AttemptsArePositive == AttemptLimits \subseteq Nat \ {0}

\* Goroutines exist only during a call, which has received from those that ended.
PhaseInv ==
  /\ caller # "collect" => \A c \in Cmd : pc[c] = "none"
  /\ caller = "collect" => received = {c \in Cmd : pc[c] = "none"}

\* A command has not passed while it may still be run.
PassedInv == \A c \in passed : pc[c] \in {"store", "send", "none"}

\* The errors joined so far are in the local copy while the goroutine works on
\* it, and in the list before and after.
RetryInv ==
  \A c \in Cmd : failures[c] = IF pc[c] \in {"loop", "hung", "sleep", "store"}
                                 THEN command[c].RetryError ELSE commandList[c].RetryError

\* The result of c is in the list.
Settled(c) == pc[c] = "send" \/ (pc[c] = "none" /\ caller # "idle")

AttemptInv ==
  \A c \in Cmd :
    /\ runs[c] <= maxAttempts
    /\ pc[c] = "spawned" => runs[c] = 0
    /\ pc[c] = "loop"    => attempt[c] = runs[c] + 1 /\ (err[c] <=> runs[c] > 0)
    /\ pc[c] = "sleep"   => attempt[c] = runs[c] /\ runs[c] \in 1 .. maxAttempts - 1 /\ err[c]
    /\ pc[c] = "store"   => (err[c] <=> c \notin passed) /\ (err[c] => runs[c] = maxAttempts)
    /\ Settled(c)        => /\ commandList[c].Completed
                            /\ commandList[c].Error <=> c \notin passed
                            /\ commandList[c].Error => runs[c] = maxAttempts

LimitInv == IF caller = "idle" THEN maxAttempts = 0 ELSE maxAttempts \in AttemptLimits

CountInv  == caller = "collect" => numErrors = Cardinality({c \in received : commandList[c].Error})

\* numErrors of the next call is not that of the output.
OutputInv ==
  Returned => output = [NumErrors       |-> Cardinality({c \in Cmd : commandList[c].Error}),
                        FailedCommands  |-> {c \in Cmd : commandList[c].Error},
                        RetriedCommands |-> {c \in Cmd : /\ ~commandList[c].Error
                                                         /\ commandList[c].RetryError > 0}]

\* What holds for every maxAttempts, and what needs a positive one.
AnyLimitInv == TypeOK /\ PhaseInv /\ PassedInv /\ RetryInv /\ LimitInv /\ CountInv /\ OutputInv
IInv        == AnyLimitInv /\ AttemptInv
=============================================================================
