-------------------------------- MODULE Gplog --------------------------------
(***************************************************************************)
(* The logger of gplog/gplog.go: a package-level pointer to a GpLogger, a  *)
(* package-level mutex that every output function holds from its first     *)
(* statement to its end, and the exit code of the utility.                 *)
(*                                                                         *)
(* A goroutine is a thread.  A message is the number of its call, counted  *)
(* in the order the calls took the mutex; a log file or a terminal is the  *)
(* sequence of messages written to it.  SetLogger, InitializeLogging, the  *)
(* setters of the verbosities and SetErrorCode take no mutex and may come  *)
(* between any two steps of an output function.                            *)
(*                                                                         *)
(* A panic leaves the output function through its deferred Unlock and is   *)
(* recovered by the caller, which is what the doc comment of abort asks    *)
(* of a utility.                                                           *)
(***************************************************************************)
EXTENDS Integers, Sequences, FiniteSets

CONSTANTS Thread, NoThread,
          Logger,         \* the GpLogger values a run may create
          NilLogger,
          Verbosities,    \* the verbosities callers set
          MaxMessages,    \* bound: calls of output functions
          MaxSettings     \* bound: calls of the setters

LOGERROR   == 0
LOGINFO    == 1
LOGVERBOSE == 2
LOGDEBUG   == 3

ASSUME GplogAssumption == /\ NoThread \notin Thread
                          /\ NilLogger \notin Logger
                          /\ IsFiniteSet(Thread)
                          /\ MaxMessages \in Nat
                          /\ MaxSettings \in Nat
                          /\ Verbosities \subseteq LOGERROR .. LOGDEBUG

\* Custom stands for its one use in the library, Custom(LOGERROR, LOGVERBOSE).
Fn == {"Info", "Success", "Warn", "Verbose", "Debug", "Error", "Custom",
       "Fatal", "FatalWithoutPanic"}

VARIABLES
  logMutex,     \* the thread that holds it, or NoThread
  logger,
  created,      \* the GpLoggers made by NewLogger
  verbosity,    \* shellVerbosity and fileVerbosity of each GpLogger
  errorCode,
  exitFunc,     \* "nil", "exit" (os.Exit) or "return" (set by a caller)
  set,          \* setters called so far
  exited,       \* the process has ended
  pc,           \* where each thread is
  fn,           \* the output function it is in
  msg,          \* the number of its message
  taken,        \* calls that have taken the mutex
  loud,         \* history: messages of Warn, Error and the Fatals
  raised,       \* history: messages Fatal panicked with
  cut,          \* history: messages cut short by a panic
  worst,        \* history: the gravest call since SetErrorCode
  logFile,      \* messages written to the file of each GpLogger
  shell         \* messages written to its logStdout or logStderr

settings == <<logger, created, verbosity, exitFunc, set>>
sinks    == <<logFile, shell>>
hist     == <<loud, raised, cut>>
calls    == <<pc, fn, msg, taken, hist>>
codes    == <<errorCode, worst>>
vars     == <<logMutex, settings, codes, exited, calls, sinks>>

Holding == {"file", "shell", "exit", "unlock"}

TypeOK ==
  /\ logMutex \in Thread \cup {NoThread}
  /\ logger \in Logger \cup {NilLogger}
  /\ created \subseteq Logger
  /\ verbosity \in [Logger -> [shell : LOGERROR .. LOGDEBUG, file : LOGERROR .. LOGDEBUG]]
  /\ errorCode \in 0 .. 2
  /\ exitFunc \in {"nil", "exit", "return"}
  /\ set \in 0 .. MaxSettings
  /\ exited \in BOOLEAN
  /\ pc \in [Thread -> {"idle", "init", "initExit", "lock"} \cup Holding]
  /\ fn \in [Thread -> Fn]
  /\ msg \in [Thread -> 0 .. MaxMessages]
  /\ taken \in 0 .. MaxMessages
  /\ loud \subseteq 1 .. MaxMessages
  /\ raised \subseteq 1 .. MaxMessages
  /\ cut \subseteq 1 .. MaxMessages
  /\ worst \in 0 .. 2
  /\ logFile \in [Logger -> Seq(1 .. MaxMessages)]
  /\ shell \in [Logger -> Seq(1 .. MaxMessages)]

Init ==
  /\ logMutex = NoThread
  /\ logger = NilLogger
  /\ created = {}
  /\ verbosity = [l \in Logger |-> [shell |-> LOGINFO, file |-> LOGDEBUG]]
  /\ errorCode = 0
  /\ exitFunc = "nil"
  /\ set = 0
  /\ exited = FALSE
  /\ pc = [t \in Thread |-> "idle"]
  /\ fn = [t \in Thread |-> "Info"]
  /\ msg = [t \in Thread |-> 0]
  /\ taken = 0
  /\ loud = {}
  /\ raised = {}
  /\ cut = {}
  /\ worst = 0
  /\ logFile = [l \in Logger |-> <<>>]
  /\ shell = [l \in Logger |-> <<>>]

Goto(t, l) == pc' = [pc EXCEPT ![t] = l]

-----------------------------------------------------------------------------
(* Settings, none of which takes the mutex.                                *)

\* InitializeLogging looks at the pointer, makes the directory and opens the
\* file, and then sets the pointer and, after it, the exit function.
InitializeLogging(t) ==
  /\ ~exited /\ pc[t] = "idle"
  /\ logger = NilLogger
  /\ Goto(t, "init")
  /\ UNCHANGED <<logMutex, settings, codes, exited, fn, msg, taken, hist, sinks>>

\* The directory cannot be made or the file not opened: abort panics.
InitFails(t) ==
  /\ ~exited /\ pc[t] = "init"
  /\ Goto(t, "idle")
  /\ UNCHANGED <<logMutex, settings, codes, exited, fn, msg, taken, hist, sinks>>

\* The pointer is set without a second look: another goroutine may have set it.
NewLogger(t) ==
  /\ ~exited /\ pc[t] = "init"
  /\ \E l \in Logger \ created : logger' = l /\ created' = created \cup {l}
  /\ Goto(t, "initExit")
  /\ UNCHANGED <<logMutex, verbosity, exitFunc, set, codes, exited, fn, msg, taken, hist, sinks>>

SetDefaultExit(t) ==
  /\ ~exited /\ pc[t] = "initExit"
  /\ exitFunc' = "exit"
  /\ Goto(t, "idle")
  /\ UNCHANGED <<logMutex, logger, created, verbosity, set, codes, exited, fn, msg, taken, hist, sinks>>

Setter == ~exited /\ set < MaxSettings /\ set' = set + 1

\* SetLogger, with a new GpLogger or one used before.
SetLogger(l) ==
  /\ Setter
  /\ logger' = l
  /\ created' = created \cup {l}
  /\ UNCHANGED <<logMutex, verbosity, exitFunc, codes, exited, calls, sinks>>

SetVerbosity(v) ==
  /\ Setter /\ logger # NilLogger
  /\ verbosity' = [verbosity EXCEPT ![logger].shell = v]
  /\ UNCHANGED <<logMutex, logger, created, exitFunc, codes, exited, calls, sinks>>

SetLogFileVerbosity(v) ==
  /\ Setter /\ logger # NilLogger
  /\ verbosity' = [verbosity EXCEPT ![logger].file = v]
  /\ UNCHANGED <<logMutex, logger, created, exitFunc, codes, exited, calls, sinks>>

SetExitFunc ==
  /\ Setter
  /\ exitFunc' = "return"
  /\ UNCHANGED <<logMutex, logger, created, verbosity, codes, exited, calls, sinks>>

SetErrorCode(code) ==
  /\ Setter
  /\ errorCode' = code
  /\ worst' = 0
  /\ UNCHANGED <<logMutex, logger, created, verbosity, exitFunc, exited, calls, sinks>>

-----------------------------------------------------------------------------
(* The output functions.                                                   *)

\* mutant: Warn obeys the verbosity
QuietWarnLevel(f) == CASE f \in {"Info", "Success", "Warn"} -> LOGINFO
                       [] f = "Verbose" -> LOGVERBOSE
                       [] f = "Debug" -> LOGDEBUG
                       [] OTHER -> LOGERROR

\* The verbosity from which a function prints; LOGERROR stands for always.
FileLevel(f) == CASE f \in {"Info", "Success"} -> LOGINFO
                  [] f = "Verbose" -> LOGVERBOSE
                  [] f = "Debug" -> LOGDEBUG
                  [] OTHER -> LOGERROR

ShellLevel(f) == CASE f \in {"Info", "Success"} -> LOGINFO
                   [] f \in {"Verbose", "Custom"} -> LOGVERBOSE
                   [] f = "Debug" -> LOGDEBUG
                   [] OTHER -> LOGERROR

\* The functions whose doc comments promise that, none of them for Custom.
AlwaysPrints == {"Warn", "Error", "Fatal", "FatalWithoutPanic"}

\* mutant: codes add up
CodeAdds(f) == CASE f = "Error" -> errorCode + 1
                 [] f \in {"Fatal", "FatalWithoutPanic"} -> errorCode + 2
                 [] OTHER -> errorCode

\* mutant: FatalWithoutPanic sets no code
CodeOfPanics(f) == CASE f = "Error" -> 1
                     [] f = "Fatal" -> 2
                     [] OTHER -> errorCode

\* What errorCode becomes: Error and the two Fatals assign it.
CodeOf(f) == CASE f = "Error" -> 1
               [] f \in {"Fatal", "FatalWithoutPanic"} -> 2
               [] OTHER -> errorCode

Gravity(f) == CASE f = "Error" -> 1
                [] f \in {"Fatal", "FatalWithoutPanic"} -> 2
                [] OTHER -> 0

Waiting == {t \in Thread : pc[t] = "lock"}

Call(t, f) ==
  /\ ~exited /\ pc[t] = "idle"
  /\ taken + Cardinality(Waiting) < MaxMessages
  /\ Goto(t, "lock")
  /\ fn' = [fn EXCEPT ![t] = f]
  /\ UNCHANGED <<logMutex, settings, codes, exited, msg, taken, hist, sinks>>

NoLock(t) == logMutex' = t      \* mutant
TakeLock(t) == logMutex = NoThread /\ logMutex' = t

\* Lock, then the assignment to errorCode.
Lock(t) ==
  /\ ~exited /\ pc[t] = "lock"
  /\ TakeLock(t)
  /\ taken' = taken + 1
  /\ msg' = [msg EXCEPT ![t] = taken']
  /\ loud' = IF fn[t] \in AlwaysPrints THEN loud \cup {taken'} ELSE loud
  /\ errorCode' = CodeOf(fn[t])
  /\ worst' = IF Gravity(fn[t]) > worst THEN Gravity(fn[t]) ELSE worst
  /\ Goto(t, "file")
  /\ UNCHANGED <<settings, exited, fn, raised, cut, sinks>>

\* The line for the log file.  Without a logger this is a nil dereference.
WriteFile(t) ==
  /\ ~exited /\ pc[t] = "file"
  /\ IF logger = NilLogger
       THEN /\ cut' = cut \cup {msg[t]}
            /\ Goto(t, "unlock")
            /\ UNCHANGED logFile
       ELSE /\ logFile' = IF verbosity[logger].file >= FileLevel(fn[t])
                            THEN [logFile EXCEPT ![logger] = Append(@, msg[t])]
                            ELSE logFile
            /\ Goto(t, "shell")
            /\ UNCHANGED cut
  /\ UNCHANGED <<logMutex, settings, codes, exited, fn, msg, taken, loud, raised, shell>>

\* The line for the terminal.  Fatal panics with its message instead.
WriteShell(t) ==
  /\ ~exited /\ pc[t] = "shell"
  /\ IF fn[t] = "Fatal"
       THEN /\ raised' = raised \cup {msg[t]}
            /\ Goto(t, "unlock")
            /\ UNCHANGED shell
       ELSE /\ shell' = IF verbosity[logger].shell >= ShellLevel(fn[t])
                          THEN [shell EXCEPT ![logger] = Append(@, msg[t])]
                          ELSE shell
            /\ Goto(t, IF fn[t] = "FatalWithoutPanic" THEN "exit" ELSE "unlock")
            /\ UNCHANGED raised
  /\ UNCHANGED <<logMutex, settings, codes, exited, fn, msg, taken, loud, cut, logFile>>

\* The last statement of FatalWithoutPanic; calling a nil function panics.
Exit(t) ==
  /\ ~exited /\ pc[t] = "exit"
  /\ exited' = (exitFunc = "exit")
  /\ cut' = IF exitFunc = "nil" THEN cut \cup {msg[t]} ELSE cut
  /\ Goto(t, "unlock")
  /\ UNCHANGED <<logMutex, settings, codes, fn, msg, taken, loud, raised, sinks>>

Leave(t) == /\ Goto(t, "idle")
            /\ fn' = [fn EXCEPT ![t] = "Info"]
            /\ msg' = [msg EXCEPT ![t] = 0]

\* mutant: Unlock is the last statement, not deferred; a panic skips it
UnlockAtEnd(t) ==
  /\ ~exited /\ pc[t] = "unlock"
  /\ logMutex' = IF fn[t] = "Fatal" \/ msg[t] \in cut THEN logMutex ELSE NoThread
  /\ Leave(t)
  /\ UNCHANGED <<settings, codes, exited, taken, hist, sinks>>

\* The deferred Unlock, at the end of the body and when it panics.
Unlock(t) ==
  /\ ~exited /\ pc[t] = "unlock"
  /\ logMutex' = NoThread
  /\ Leave(t)
  /\ UNCHANGED <<settings, codes, exited, taken, hist, sinks>>

-----------------------------------------------------------------------------
Body(t) == WriteFile(t) \/ WriteShell(t) \/ Exit(t) \/ Unlock(t)

Setting == \/ \E l \in Logger : SetLogger(l)
           \/ \E v \in Verbosities : SetVerbosity(v) \/ SetLogFileVerbosity(v)
           \/ SetExitFunc
           \/ \E code \in 0 .. 2 : SetErrorCode(code)

Next == \/ Setting
        \/ \E t \in Thread : \/ InitializeLogging(t) \/ InitFails(t)
                             \/ NewLogger(t) \/ SetDefaultExit(t)
                             \/ \E f \in Fn : Call(t, f)
                             \/ Lock(t) \/ Body(t)

Spec == Init /\ [][Next]_vars

\* Goroutines are scheduled, writes end, and sync.Mutex lets every waiter in
\* (its starvation mode hands the lock to the longest waiter).
FairSpec == Spec /\ \A t \in Thread : WF_vars(Body(t)) /\ SF_vars(Lock(t))

-----------------------------------------------------------------------------
(* Properties.                                                             *)

\* The mutex is held exactly by the goroutine inside an output function: two
\* never write at a time, and a Fatal, a nil logger or a nil exitFunc that
\* panics gives it up, so the utility's recover code can log.
MutexHeld == \A t \in Thread : pc[t] \in Holding <=> logMutex = t

Increasing(s) == \A i, j \in DOMAIN s : i < j => s[i] < s[j]

\* Every file and terminal shows the messages in one order, that of the
\* mutex, even while SetLogger moves the output from one logger to another.
OneOrder == \A l \in Logger : Increasing(logFile[l]) /\ Increasing(shell[l])

\* A utility that logged an error does not end with the code for success,
\* whatever other goroutines log, unless it sets the code itself.
ErrorIsRemembered == worst > 0 => errorCode > 0

Shows(s, m) == \E i \in DOMAIN s : s[i] = m
InAFile(m)  == \E l \in Logger : Shows(logFile[l], m)
InAShell(m) == \E l \in Logger : Shows(shell[l], m)

\* Warn, Error and Fatal always print, regardless of the current log level:
\* once the call is over its message is in a log file, and on a terminal or
\* in the panic that ended it.
AlwaysPrinted ==
  \A m \in loud \ cut :
    (\A t \in Thread : msg[t] # m) => InAFile(m) /\ (m \in raised \/ InAShell(m))

\* A call of an output function ends, or the process does.
CallEnds == \A t \in Thread : pc[t] = "lock" ~> pc[t] = "idle" \/ exited

\* The error code key: 2 stands for "did not complete, encountered a fatal
\* error", which only a caller that sets the code can take back.
FatalIsRemembered == worst = 2 => errorCode = 2

\* The comment on the output functions: FatalWithoutPanic does not panic.
NoPanicWithoutPanic ==
  [][\A t \in Thread : pc[t] = "exit" => msg[t] \notin cut']_vars

-----------------------------------------------------------------------------
(* The inductive invariant.                                                *)

\* Every waiter will get a number.
BudgetInv == taken + Cardinality(Waiting) <= MaxMessages

\* The holder of the mutex has the last number given, and nobody else has one;
\* it stays a message that must be printed, or not, until it is.
NumberInv ==
  \A t \in Thread :
    IF pc[t] \in Holding
      THEN msg[t] = taken /\ taken > 0 /\ (msg[t] \in loud <=> fn[t] \in AlwaysPrints)
      ELSE msg[t] = 0

Below(s, m) == \A i \in DOMAIN s : s[i] < m

\* No file or terminal shows a number before it is given and the line written.
FileInv ==
  \A l \in Logger :
    /\ Increasing(logFile[l]) /\ Below(logFile[l], taken + 1)
    /\ (\E t \in Thread : pc[t] = "file") => Below(logFile[l], taken)

ShellInv ==
  \A l \in Logger :
    /\ Increasing(shell[l]) /\ Below(shell[l], taken + 1)
    /\ (\E t \in Thread : pc[t] \in {"file", "shell"}) => Below(shell[l], taken)

\* A logger that has been set is never unset, so the one the terminal's line
\* goes to is there when the one for the log file was.
LoggerInv == \A t \in Thread : pc[t] = "shell" => logger # NilLogger

\* A message not yet in a file, or on a terminal, is one about to be written.
PrintInv ==
  /\ \A m \in loud : m <= taken
  /\ \A m \in loud \ cut :
       /\ InAFile(m) \/ \E t \in Thread : pc[t] = "file" /\ msg[t] = m
       /\ \/ m \in raised \/ InAShell(m)
          \/ \E t \in Thread : pc[t] \in {"file", "shell"} /\ msg[t] = m

IInv == /\ TypeOK /\ MutexHeld /\ BudgetInv /\ NumberInv /\ FileInv /\ ShellInv
        /\ LoggerInv /\ PrintInv /\ ErrorIsRemembered
=============================================================================
