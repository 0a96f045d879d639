----------------------------- MODULE GplogProofs ------------------------------
(***************************************************************************)
(* The safety properties of Gplog, proved for every number of goroutines,  *)
(* of loggers, of messages and of settings: IInv is inductive, with a      *)
(* lemma per part of it and a step per action.                             *)
(***************************************************************************)
EXTENDS Gplog, FiniteSetTheorems, TLAPS

-----------------------------------------------------------------------------
(* The output functions.                                                   *)

LEMMA LevelTypes == \A f \in Fn : FileLevel(f) \in 0 .. 3 /\ ShellLevel(f) \in 0 .. 3
BY DEF Fn, FileLevel, ShellLevel, LOGERROR, LOGINFO, LOGVERBOSE, LOGDEBUG

\* The functions that always print have the level every verbosity reaches.
LEMMA LoudLevels == \A f \in AlwaysPrints : FileLevel(f) = LOGERROR /\ ShellLevel(f) = LOGERROR
BY DEF AlwaysPrints, FileLevel, ShellLevel

LEMMA CodeTypes == \A f \in Fn : /\ Gravity(f) \in 0 .. 2
                                 /\ errorCode \in 0 .. 2 => CodeOf(f) \in 0 .. 2
                                 /\ Gravity(f) > 0 => CodeOf(f) > 0
                                 /\ Gravity(f) = 0 => CodeOf(f) = errorCode
BY DEF Fn, Gravity, CodeOf

-----------------------------------------------------------------------------
(* A message added to what a file or a terminal shows.                     *)

LEMMA Elements == ASSUME NEW S, NEW s \in Seq(S)
                  PROVE  DOMAIN s = 1 .. Len(s) /\ Len(s) \in Nat /\ \A i \in 1 .. Len(s) : s[i] \in S
OBVIOUS

LEMMA AppendType == ASSUME NEW S, NEW s \in Seq(S), NEW m \in S PROVE Append(s, m) \in Seq(S)
OBVIOUS

LEMMA AppendShows ==
  ASSUME NEW s \in Seq(1 .. MaxMessages), NEW m \in Nat
  PROVE  /\ Shows(Append(s, m), m)
         /\ \A n : Shows(s, n) => Shows(Append(s, m), n)
<1>1. /\ DOMAIN Append(s, m) = 1 .. Len(s) + 1 /\ DOMAIN s = 1 .. Len(s)
      /\ Append(s, m)[Len(s) + 1] = m
      /\ \A i \in 1 .. Len(s) : Append(s, m)[i] = s[i]
  OBVIOUS
<1> QED BY <1>1 DEF Shows

LEMMA AppendIncreases ==
  ASSUME NEW s \in Seq(1 .. MaxMessages), NEW m \in Nat, Increasing(s), Below(s, m)
  PROVE  Increasing(Append(s, m)) /\ Below(Append(s, m), m + 1)
<1>1. /\ DOMAIN Append(s, m) = 1 .. Len(s) + 1
      /\ Append(s, m)[Len(s) + 1] = m
      /\ \A i \in 1 .. Len(s) : Append(s, m)[i] = s[i]
  OBVIOUS
<1>2. /\ DOMAIN s = 1 .. Len(s) /\ Len(s) \in Nat
      /\ \A i \in 1 .. Len(s) : s[i] \in 1 .. MaxMessages
  BY Elements
<1> QED BY <1>1, <1>2 DEF Increasing, Below

LEMMA BelowWeaker == ASSUME NEW s \in Seq(1 .. MaxMessages), NEW m \in Nat, NEW n \in Nat, m <= n, Below(s, m)
                     PROVE  Below(s, n)
<1>1. DOMAIN s = 1 .. Len(s) /\ \A i \in 1 .. Len(s) : s[i] \in 1 .. MaxMessages
  BY Elements
<1> QED BY <1>1 DEF Below

-----------------------------------------------------------------------------
(* The parts of the invariant.                                             *)

LEMMA WaitersFinite == IsFiniteSet(Waiting) /\ Cardinality(Waiting) \in Nat
<1>1. Waiting \subseteq Thread
  BY DEF Waiting
<1> QED BY <1>1, FS_Subset, FS_CardinalityType, GplogAssumption

LEMMA WaiterCounted == ASSUME NEW t \in Thread, pc[t] = "lock"
                       PROVE  Cardinality(Waiting) \in Nat \ {0}
<1>1. Waiting # {}
  BY DEF Waiting
<1> QED BY <1>1, WaitersFinite, FS_EmptySet

\* The mutex is passed on only by the one who holds it.
LEMMA MutexKept == ASSUME TypeOK, MutexHeld, [Next]_vars PROVE MutexHeld'
<1> USE DEF TypeOK, Holding, settings, sinks, hist, calls, codes, Goto, MutexHeld
<1>1. ASSUME NEW t \in Thread, InitializeLogging(t) PROVE MutexHeld'
  BY <1>1 DEF InitializeLogging
<1>2. ASSUME NEW t \in Thread, InitFails(t) PROVE MutexHeld'
  BY <1>2 DEF InitFails
<1>3. ASSUME NEW t \in Thread, NewLogger(t) PROVE MutexHeld'
  BY <1>3 DEF NewLogger
<1>4. ASSUME NEW t \in Thread, SetDefaultExit(t) PROVE MutexHeld'
  BY <1>4 DEF SetDefaultExit
<1>5. ASSUME NEW l \in Logger, SetLogger(l) PROVE MutexHeld'
  BY <1>5 DEF SetLogger, Setter
<1>6. ASSUME NEW v \in Verbosities, SetVerbosity(v) PROVE MutexHeld'
  BY <1>6 DEF SetVerbosity, Setter
<1>7. ASSUME NEW v \in Verbosities, SetLogFileVerbosity(v) PROVE MutexHeld'
  BY <1>7 DEF SetLogFileVerbosity, Setter
<1>8. ASSUME SetExitFunc PROVE MutexHeld'
  BY <1>8 DEF SetExitFunc, Setter
<1>9. ASSUME NEW code \in 0 .. 2, SetErrorCode(code) PROVE MutexHeld'
  BY <1>9 DEF SetErrorCode, Setter
<1>10. ASSUME NEW t \in Thread, NEW f \in Fn, Call(t, f) PROVE MutexHeld'
  BY <1>10 DEF Call
<1>11. ASSUME NEW t \in Thread, Lock(t) PROVE MutexHeld'
  BY <1>11, GplogAssumption DEF Lock, TakeLock
<1>12. ASSUME NEW t \in Thread, WriteFile(t) PROVE MutexHeld'
  BY <1>12 DEF WriteFile
<1>13. ASSUME NEW t \in Thread, WriteShell(t) PROVE MutexHeld'
  BY <1>13 DEF WriteShell
<1>14. ASSUME NEW t \in Thread, Exit(t) PROVE MutexHeld'
  BY <1>14 DEF Exit
<1>15. ASSUME NEW t \in Thread, Unlock(t) PROVE MutexHeld'
  BY <1>15, GplogAssumption DEF Unlock, Leave
<1>16. ASSUME UNCHANGED vars PROVE MutexHeld'
  BY <1>16 DEF vars
<1> QED
  BY <1>1, <1>2, <1>3, <1>4, <1>5, <1>6, <1>7, <1>8, <1>9, <1>10, <1>11, <1>12, <1>13, <1>14, <1>15, <1>16
  DEF Next, Setting, Body

\* Only SetErrorCode takes a failure back.
LEMMA ErrorKept == ASSUME TypeOK, ErrorIsRemembered, [Next]_vars PROVE ErrorIsRemembered'
<1> USE DEF TypeOK, ErrorIsRemembered, settings, sinks, hist, calls, codes, Goto
<1>1. ASSUME NEW t \in Thread, InitializeLogging(t) PROVE ErrorIsRemembered'
  BY <1>1 DEF InitializeLogging
<1>2. ASSUME NEW t \in Thread, InitFails(t) PROVE ErrorIsRemembered'
  BY <1>2 DEF InitFails
<1>3. ASSUME NEW t \in Thread, NewLogger(t) PROVE ErrorIsRemembered'
  BY <1>3 DEF NewLogger
<1>4. ASSUME NEW t \in Thread, SetDefaultExit(t) PROVE ErrorIsRemembered'
  BY <1>4 DEF SetDefaultExit
<1>5. ASSUME NEW l \in Logger, SetLogger(l) PROVE ErrorIsRemembered'
  BY <1>5 DEF SetLogger, Setter
<1>6. ASSUME NEW v \in Verbosities, SetVerbosity(v) PROVE ErrorIsRemembered'
  BY <1>6 DEF SetVerbosity, Setter
<1>7. ASSUME NEW v \in Verbosities, SetLogFileVerbosity(v) PROVE ErrorIsRemembered'
  BY <1>7 DEF SetLogFileVerbosity, Setter
<1>8. ASSUME SetExitFunc PROVE ErrorIsRemembered'
  BY <1>8 DEF SetExitFunc, Setter
<1>9. ASSUME NEW code \in 0 .. 2, SetErrorCode(code) PROVE ErrorIsRemembered'
  BY <1>9 DEF SetErrorCode, Setter
<1>10. ASSUME NEW t \in Thread, NEW f \in Fn, Call(t, f) PROVE ErrorIsRemembered'
  BY <1>10 DEF Call
<1>11. ASSUME NEW t \in Thread, Lock(t) PROVE ErrorIsRemembered'
  <2>1. /\ worst' = IF Gravity(fn[t]) > worst THEN Gravity(fn[t]) ELSE worst
        /\ errorCode' = CodeOf(fn[t])
    BY <1>11 DEF Lock
  <2>2. /\ Gravity(fn[t]) \in 0 .. 2 /\ CodeOf(fn[t]) \in 0 .. 2
        /\ Gravity(fn[t]) > 0 => CodeOf(fn[t]) > 0
        /\ Gravity(fn[t]) = 0 => CodeOf(fn[t]) = errorCode
    BY CodeTypes
  <2> QED BY <2>1, <2>2
<1>12. ASSUME NEW t \in Thread, WriteFile(t) PROVE ErrorIsRemembered'
  BY <1>12 DEF WriteFile
<1>13. ASSUME NEW t \in Thread, WriteShell(t) PROVE ErrorIsRemembered'
  BY <1>13 DEF WriteShell
<1>14. ASSUME NEW t \in Thread, Exit(t) PROVE ErrorIsRemembered'
  BY <1>14 DEF Exit
<1>15. ASSUME NEW t \in Thread, Unlock(t) PROVE ErrorIsRemembered'
  BY <1>15 DEF Unlock
<1>16. ASSUME UNCHANGED vars PROVE ErrorIsRemembered'
  BY <1>16 DEF vars
<1> QED
  BY <1>1, <1>2, <1>3, <1>4, <1>5, <1>6, <1>7, <1>8, <1>9, <1>10, <1>11, <1>12, <1>13, <1>14, <1>15, <1>16
  DEF Next, Setting, Body

\* No step sets the logger to nil.
LEMMA LoggerKept == ASSUME TypeOK, MutexHeld, LoggerInv, [Next]_vars PROVE LoggerInv'
<1> USE DEF TypeOK, Holding, settings, sinks, hist, calls, codes, Goto, LoggerInv
<1>1. ASSUME NEW t \in Thread, InitializeLogging(t) PROVE LoggerInv'
  BY <1>1 DEF InitializeLogging
<1>2. ASSUME NEW t \in Thread, InitFails(t) PROVE LoggerInv'
  BY <1>2 DEF InitFails
<1>3. ASSUME NEW t \in Thread, NewLogger(t) PROVE LoggerInv'
  BY <1>3, GplogAssumption DEF NewLogger
<1>4. ASSUME NEW t \in Thread, SetDefaultExit(t) PROVE LoggerInv'
  BY <1>4 DEF SetDefaultExit
<1>5. ASSUME NEW l \in Logger, SetLogger(l) PROVE LoggerInv'
  BY <1>5, GplogAssumption DEF SetLogger
<1>6. ASSUME NEW v \in Verbosities, SetVerbosity(v) PROVE LoggerInv'
  BY <1>6 DEF SetVerbosity, Setter
<1>7. ASSUME NEW v \in Verbosities, SetLogFileVerbosity(v) PROVE LoggerInv'
  BY <1>7 DEF SetLogFileVerbosity, Setter
<1>8. ASSUME SetExitFunc PROVE LoggerInv'
  BY <1>8 DEF SetExitFunc, Setter
<1>9. ASSUME NEW code \in 0 .. 2, SetErrorCode(code) PROVE LoggerInv'
  BY <1>9 DEF SetErrorCode, Setter
<1>10. ASSUME NEW t \in Thread, NEW f \in Fn, Call(t, f) PROVE LoggerInv'
  BY <1>10 DEF Call
<1>11. ASSUME NEW t \in Thread, Lock(t) PROVE LoggerInv'
  BY <1>11 DEF Lock
<1>12. ASSUME NEW t \in Thread, WriteFile(t) PROVE LoggerInv'
  BY <1>12 DEF WriteFile
<1>13. ASSUME NEW t \in Thread, WriteShell(t) PROVE LoggerInv'
  BY <1>13 DEF WriteShell
<1>14. ASSUME NEW t \in Thread, Exit(t) PROVE LoggerInv'
  BY <1>14 DEF Exit
<1>15. ASSUME NEW t \in Thread, Unlock(t) PROVE LoggerInv'
  BY <1>15 DEF Unlock, Leave
<1>16. ASSUME UNCHANGED vars PROVE LoggerInv'
  BY <1>16 DEF vars
<1> QED
  BY <1>1, <1>2, <1>3, <1>4, <1>5, <1>6, <1>7, <1>8, <1>9, <1>10, <1>11, <1>12, <1>13, <1>14, <1>15, <1>16
  DEF Next, Setting, Body

\* Numbers are given with the mutex held.
LEMMA NumberKept == ASSUME TypeOK, MutexHeld, NumberInv, PrintInv, [Next]_vars PROVE NumberInv'
<1> USE DEF TypeOK, Holding, settings, sinks, hist, calls, codes, Goto, NumberInv, MutexHeld
<1>1. ASSUME NEW t \in Thread, InitializeLogging(t) PROVE NumberInv'
  BY <1>1 DEF InitializeLogging
<1>2. ASSUME NEW t \in Thread, InitFails(t) PROVE NumberInv'
  BY <1>2 DEF InitFails
<1>3. ASSUME NEW t \in Thread, NewLogger(t) PROVE NumberInv'
  BY <1>3 DEF NewLogger
<1>4. ASSUME NEW t \in Thread, SetDefaultExit(t) PROVE NumberInv'
  BY <1>4 DEF SetDefaultExit
<1>5. ASSUME NEW l \in Logger, SetLogger(l) PROVE NumberInv'
  BY <1>5 DEF SetLogger, Setter
<1>6. ASSUME NEW v \in Verbosities, SetVerbosity(v) PROVE NumberInv'
  BY <1>6 DEF SetVerbosity, Setter
<1>7. ASSUME NEW v \in Verbosities, SetLogFileVerbosity(v) PROVE NumberInv'
  BY <1>7 DEF SetLogFileVerbosity, Setter
<1>8. ASSUME SetExitFunc PROVE NumberInv'
  BY <1>8 DEF SetExitFunc, Setter
<1>9. ASSUME NEW code \in 0 .. 2, SetErrorCode(code) PROVE NumberInv'
  BY <1>9 DEF SetErrorCode, Setter
<1>10. ASSUME NEW t \in Thread, NEW f \in Fn, Call(t, f) PROVE NumberInv'
  BY <1>10 DEF Call
<1>11. ASSUME NEW t \in Thread, Lock(t) PROVE NumberInv'
  BY <1>11, GplogAssumption DEF Lock, TakeLock, PrintInv
<1>12. ASSUME NEW t \in Thread, WriteFile(t) PROVE NumberInv'
  BY <1>12 DEF WriteFile
<1>13. ASSUME NEW t \in Thread, WriteShell(t) PROVE NumberInv'
  BY <1>13 DEF WriteShell
<1>14. ASSUME NEW t \in Thread, Exit(t) PROVE NumberInv'
  BY <1>14 DEF Exit
<1>15. ASSUME NEW t \in Thread, Unlock(t) PROVE NumberInv'
  BY <1>15 DEF Unlock, Leave
<1>16. ASSUME UNCHANGED vars PROVE NumberInv'
  BY <1>16 DEF vars
<1> QED
  BY <1>1, <1>2, <1>3, <1>4, <1>5, <1>6, <1>7, <1>8, <1>9, <1>10, <1>11, <1>12, <1>13, <1>14, <1>15, <1>16
  DEF Next, Setting, Body

\* The numbers given do not run out while calls wait for theirs.
LEMMA TypeKept == ASSUME TypeOK, BudgetInv, NumberInv, LoggerInv, [Next]_vars PROVE TypeOK'
<1> USE DEF TypeOK, Holding, settings, sinks, hist, calls, codes, Goto
<1>1. ASSUME NEW t \in Thread, InitializeLogging(t) PROVE TypeOK'
  BY <1>1 DEF InitializeLogging
<1>2. ASSUME NEW t \in Thread, InitFails(t) PROVE TypeOK'
  BY <1>2 DEF InitFails
<1>3. ASSUME NEW t \in Thread, NewLogger(t) PROVE TypeOK'
  BY <1>3 DEF NewLogger
<1>4. ASSUME NEW t \in Thread, SetDefaultExit(t) PROVE TypeOK'
  BY <1>4 DEF SetDefaultExit
<1>5. ASSUME NEW l \in Logger, SetLogger(l) PROVE TypeOK'
  BY <1>5, GplogAssumption DEF SetLogger, Setter
<1>6. ASSUME NEW v \in Verbosities, SetVerbosity(v) PROVE TypeOK'
  <2>1. v \in 0 .. 3 /\ set' \in 0 .. MaxSettings
    BY <1>6, GplogAssumption DEF SetVerbosity, Setter, LOGERROR, LOGDEBUG
  <2>2. [verbosity EXCEPT ![logger].shell = v] \in [Logger -> [shell : 0 .. 3, file : 0 .. 3]]
    BY <2>1 DEF LOGERROR, LOGDEBUG
  <2> QED BY <1>6, <2>1, <2>2 DEF SetVerbosity, Setter, LOGERROR, LOGDEBUG
<1>7. ASSUME NEW v \in Verbosities, SetLogFileVerbosity(v) PROVE TypeOK'
  <2>1. v \in 0 .. 3 /\ set' \in 0 .. MaxSettings
    BY <1>7, GplogAssumption DEF SetLogFileVerbosity, Setter, LOGERROR, LOGDEBUG
  <2>2. [verbosity EXCEPT ![logger].file = v] \in [Logger -> [shell : 0 .. 3, file : 0 .. 3]]
    BY <2>1 DEF LOGERROR, LOGDEBUG
  <2> QED BY <1>7, <2>1, <2>2 DEF SetLogFileVerbosity, Setter, LOGERROR, LOGDEBUG
<1>8. ASSUME SetExitFunc PROVE TypeOK'
  BY <1>8, GplogAssumption DEF SetExitFunc, Setter
<1>9. ASSUME NEW code \in 0 .. 2, SetErrorCode(code) PROVE TypeOK'
  BY <1>9, GplogAssumption DEF SetErrorCode, Setter
<1>10. ASSUME NEW t \in Thread, NEW f \in Fn, Call(t, f) PROVE TypeOK'
  BY <1>10 DEF Call
<1>11. ASSUME NEW t \in Thread, Lock(t) PROVE TypeOK'
  <2>1. taken < MaxMessages
    <3>1. Cardinality(Waiting) \in Nat \ {0}
      BY <1>11, WaiterCounted DEF Lock
    <3> QED BY <3>1, GplogAssumption DEF BudgetInv
  <2>2. /\ taken' \in 0 .. MaxMessages /\ taken' \in 1 .. MaxMessages
        /\ worst' \in 0 .. 2 /\ errorCode' \in 0 .. 2
    BY <1>11, <2>1, CodeTypes, GplogAssumption DEF Lock
  <2> QED BY <1>11, <2>2 DEF Lock, TakeLock
<1>12. ASSUME NEW t \in Thread, WriteFile(t) PROVE TypeOK'
  <2>1. msg[t] \in 1 .. MaxMessages
    BY <1>12 DEF WriteFile, NumberInv
  <2>2. cut' \subseteq 1 .. MaxMessages
    BY <1>12, <2>1 DEF WriteFile
  <2>3. logFile' \in [Logger -> Seq(1 .. MaxMessages)]
    <3>1. \A l \in Logger : Append(logFile[l], msg[t]) \in Seq(1 .. MaxMessages)
      BY <2>1, AppendType
    <3> QED BY <1>12, <3>1 DEF WriteFile
  <2> QED BY <1>12, <2>2, <2>3 DEF WriteFile
<1>13. ASSUME NEW t \in Thread, WriteShell(t) PROVE TypeOK'
  <2>1. msg[t] \in 1 .. MaxMessages
    BY <1>13 DEF WriteShell, NumberInv
  <2>2. raised' \subseteq 1 .. MaxMessages
    BY <1>13, <2>1 DEF WriteShell
  <2>3. shell' \in [Logger -> Seq(1 .. MaxMessages)]
    <3>1. \A l \in Logger : Append(shell[l], msg[t]) \in Seq(1 .. MaxMessages)
      BY <2>1, AppendType
    <3>2. \/ shell' = shell
          \/ shell' = [shell EXCEPT ![logger] = Append(@, msg[t])]
      BY <1>13 DEF WriteShell
    <3>3. CASE shell' = shell
      BY <3>3
    <3>4. CASE shell' = [shell EXCEPT ![logger] = Append(@, msg[t])]
      BY <3>1, <3>4
    <3> QED BY <3>2, <3>3, <3>4
  <2> QED BY <1>13, <2>2, <2>3 DEF WriteShell
<1>14. ASSUME NEW t \in Thread, Exit(t) PROVE TypeOK'
  <2>1. msg[t] \in 1 .. MaxMessages
    BY <1>14 DEF Exit, NumberInv
  <2> QED BY <1>14, <2>1 DEF Exit
<1>15. ASSUME NEW t \in Thread, Unlock(t) PROVE TypeOK'
  BY <1>15, GplogAssumption DEF Unlock, Leave, Fn
<1>16. ASSUME UNCHANGED vars PROVE TypeOK'
  BY <1>16 DEF vars
<1> QED
  BY <1>1, <1>2, <1>3, <1>4, <1>5, <1>6, <1>7, <1>8, <1>9, <1>10, <1>11, <1>12, <1>13, <1>14, <1>15, <1>16
  DEF Next, Setting, Body

\* A call waits only if a number is left for it.
LEMMA BudgetKept == ASSUME TypeOK, BudgetInv, [Next]_vars PROVE BudgetInv'
<1> USE DEF TypeOK, Holding, BudgetInv, settings, sinks, hist, calls, codes, Goto
<1>1. ASSUME NEW t \in Thread, InitializeLogging(t) PROVE BudgetInv'
  BY <1>1 DEF InitializeLogging, Waiting
<1>2. ASSUME NEW t \in Thread, InitFails(t) PROVE BudgetInv'
  BY <1>2 DEF InitFails, Waiting
<1>3. ASSUME NEW t \in Thread, NewLogger(t) PROVE BudgetInv'
  BY <1>3 DEF NewLogger, Waiting
<1>4. ASSUME NEW t \in Thread, SetDefaultExit(t) PROVE BudgetInv'
  BY <1>4 DEF SetDefaultExit, Waiting
<1>5. ASSUME NEW l \in Logger, SetLogger(l) PROVE BudgetInv'
  BY <1>5 DEF SetLogger, Setter, Waiting
<1>6. ASSUME NEW v \in Verbosities, SetVerbosity(v) PROVE BudgetInv'
  BY <1>6 DEF SetVerbosity, Setter, Waiting
<1>7. ASSUME NEW v \in Verbosities, SetLogFileVerbosity(v) PROVE BudgetInv'
  BY <1>7 DEF SetLogFileVerbosity, Setter, Waiting
<1>8. ASSUME SetExitFunc PROVE BudgetInv'
  BY <1>8 DEF SetExitFunc, Setter, Waiting
<1>9. ASSUME NEW code \in 0 .. 2, SetErrorCode(code) PROVE BudgetInv'
  BY <1>9 DEF SetErrorCode, Setter, Waiting
<1>10. ASSUME NEW t \in Thread, NEW f \in Fn, Call(t, f) PROVE BudgetInv'
  <2>1. Waiting' = Waiting \cup {t} /\ t \notin Waiting
    BY <1>10 DEF Call, Waiting
  <2>2. Cardinality(Waiting') = Cardinality(Waiting) + 1
    BY <2>1, FS_AddElement, WaitersFinite
  <2> QED BY <1>10, <2>2, WaitersFinite, GplogAssumption DEF Call
<1>11. ASSUME NEW t \in Thread, Lock(t) PROVE BudgetInv'
  <2>1. Waiting' = Waiting \ {t} /\ t \in Waiting
    BY <1>11 DEF Lock, Waiting
  <2>2. Cardinality(Waiting') = Cardinality(Waiting) - 1
    BY <2>1, FS_RemoveElement, WaitersFinite
  <2> QED BY <1>11, <2>2, WaitersFinite, GplogAssumption DEF Lock
<1>12. ASSUME NEW t \in Thread, WriteFile(t) PROVE BudgetInv'
  BY <1>12 DEF WriteFile, Waiting
<1>13. ASSUME NEW t \in Thread, WriteShell(t) PROVE BudgetInv'
  BY <1>13 DEF WriteShell, Waiting
<1>14. ASSUME NEW t \in Thread, Exit(t) PROVE BudgetInv'
  BY <1>14 DEF Exit, Waiting
<1>15. ASSUME NEW t \in Thread, Unlock(t) PROVE BudgetInv'
  BY <1>15 DEF Unlock, Leave, Waiting
<1>16. ASSUME UNCHANGED vars PROVE BudgetInv'
  BY <1>16 DEF vars, Waiting
<1> QED
  BY <1>1, <1>2, <1>3, <1>4, <1>5, <1>6, <1>7, <1>8, <1>9, <1>10, <1>11, <1>12, <1>13, <1>14, <1>15, <1>16
  DEF Next, Setting, Body

\* Only one goroutine is inside an output function.
LEMMA Alone == ASSUME MutexHeld, NEW t \in Thread, pc[t] \in Holding
               PROVE  \A u \in Thread \ {t} : pc[u] \notin Holding
BY DEF MutexHeld

LEMMA NobodyHolds == ASSUME MutexHeld, logMutex = NoThread PROVE \A u \in Thread : pc[u] \notin Holding
BY GplogAssumption DEF MutexHeld

\* A line is written with the last number given, once.
LEMMA FileKept == ASSUME TypeOK, MutexHeld, NumberInv, FileInv, [Next]_vars PROVE FileInv'
<1> USE DEF TypeOK, Holding, FileInv, settings, sinks, hist, calls, codes, Goto
<1>1. ASSUME NEW t \in Thread, InitializeLogging(t) PROVE FileInv'
  BY <1>1 DEF InitializeLogging
<1>2. ASSUME NEW t \in Thread, InitFails(t) PROVE FileInv'
  BY <1>2 DEF InitFails
<1>3. ASSUME NEW t \in Thread, NewLogger(t) PROVE FileInv'
  BY <1>3 DEF NewLogger
<1>4. ASSUME NEW t \in Thread, SetDefaultExit(t) PROVE FileInv'
  BY <1>4 DEF SetDefaultExit
<1>5. ASSUME NEW l \in Logger, SetLogger(l) PROVE FileInv'
  BY <1>5 DEF SetLogger, Setter
<1>6. ASSUME NEW v \in Verbosities, SetVerbosity(v) PROVE FileInv'
  BY <1>6 DEF SetVerbosity, Setter
<1>7. ASSUME NEW v \in Verbosities, SetLogFileVerbosity(v) PROVE FileInv'
  BY <1>7 DEF SetLogFileVerbosity, Setter
<1>8. ASSUME SetExitFunc PROVE FileInv'
  BY <1>8 DEF SetExitFunc, Setter
<1>9. ASSUME NEW code \in 0 .. 2, SetErrorCode(code) PROVE FileInv'
  BY <1>9 DEF SetErrorCode, Setter
<1>10. ASSUME NEW t \in Thread, NEW f \in Fn, Call(t, f) PROVE FileInv'
  BY <1>10 DEF Call
<1>11. ASSUME NEW t \in Thread, Lock(t) PROVE FileInv'
  <2>1. /\ \A u \in Thread : pc[u] \notin Holding
        /\ taken' = taken + 1 /\ logFile' = logFile
    BY <1>11, NobodyHolds DEF Lock, TakeLock
  <2>2. ASSUME NEW l \in Logger
        PROVE  Increasing(logFile[l]) /\ Below(logFile[l], taken + 1) /\ Below(logFile[l], taken + 2)
    <3>1. logFile[l] \in Seq(1 .. MaxMessages)
      OBVIOUS
    <3>2. Increasing(logFile[l]) /\ Below(logFile[l], taken + 1) /\ taken + 1 \in Nat /\ taken + 2 \in Nat
      OBVIOUS
    <3> QED BY <3>1, <3>2, BelowWeaker
  <2> QED BY <2>1, <2>2
<1>12. ASSUME NEW t \in Thread, WriteFile(t) PROVE FileInv'
  <2>0. pc[t] = "file" /\ msg[t] = taken /\ taken' = taken
    BY <1>12 DEF WriteFile, NumberInv
  <2>1. /\ \A u \in Thread : pc'[u] \notin {"file"}
        /\ \A l \in Logger : Below(logFile[l], msg[t])
    <3>1. \A u \in Thread \ {t} : pc[u] \notin Holding
      BY <2>0, Alone
    <3>2. \A u \in Thread : pc'[u] \notin {"file"}
      BY <1>12, <3>1 DEF WriteFile
    <3> QED BY <2>0, <3>2
  <2>2. ASSUME NEW l \in Logger
        PROVE  /\ Increasing(logFile[l]) /\ Below(logFile[l], taken + 1)
               /\ Increasing(Append(logFile[l], msg[t])) /\ Below(Append(logFile[l], msg[t]), taken + 1)
    <3>1. logFile[l] \in Seq(1 .. MaxMessages)
      OBVIOUS
    <3> QED BY <2>0, <2>1, <3>1, AppendIncreases
  <2>3. \/ logFile' = logFile
        \/ logFile' = [logFile EXCEPT ![logger] = Append(@, msg[t])]
    BY <1>12 DEF WriteFile
  <2>4. \A l \in Logger : logFile'[l] \in {logFile[l], Append(logFile[l], msg[t])}
    BY <2>3
  <2> QED BY <2>0, <2>1, <2>2, <2>4
<1>13. ASSUME NEW t \in Thread, WriteShell(t) PROVE FileInv'
  BY <1>13 DEF WriteShell
<1>14. ASSUME NEW t \in Thread, Exit(t) PROVE FileInv'
  BY <1>14 DEF Exit
<1>15. ASSUME NEW t \in Thread, Unlock(t) PROVE FileInv'
  BY <1>15 DEF Unlock, Leave
<1>16. ASSUME UNCHANGED vars PROVE FileInv'
  BY <1>16 DEF vars
<1> QED
  BY <1>1, <1>2, <1>3, <1>4, <1>5, <1>6, <1>7, <1>8, <1>9, <1>10, <1>11, <1>12, <1>13, <1>14, <1>15, <1>16
  DEF Next, Setting, Body

\* The same of the terminal, one step later.
LEMMA ShellKept == ASSUME TypeOK, MutexHeld, NumberInv, ShellInv, [Next]_vars PROVE ShellInv'
<1> USE DEF TypeOK, Holding, ShellInv, settings, sinks, hist, calls, codes, Goto
<1>1. ASSUME NEW t \in Thread, InitializeLogging(t) PROVE ShellInv'
  BY <1>1 DEF InitializeLogging
<1>2. ASSUME NEW t \in Thread, InitFails(t) PROVE ShellInv'
  BY <1>2 DEF InitFails
<1>3. ASSUME NEW t \in Thread, NewLogger(t) PROVE ShellInv'
  BY <1>3 DEF NewLogger
<1>4. ASSUME NEW t \in Thread, SetDefaultExit(t) PROVE ShellInv'
  BY <1>4 DEF SetDefaultExit
<1>5. ASSUME NEW l \in Logger, SetLogger(l) PROVE ShellInv'
  BY <1>5 DEF SetLogger, Setter
<1>6. ASSUME NEW v \in Verbosities, SetVerbosity(v) PROVE ShellInv'
  BY <1>6 DEF SetVerbosity, Setter
<1>7. ASSUME NEW v \in Verbosities, SetLogFileVerbosity(v) PROVE ShellInv'
  BY <1>7 DEF SetLogFileVerbosity, Setter
<1>8. ASSUME SetExitFunc PROVE ShellInv'
  BY <1>8 DEF SetExitFunc, Setter
<1>9. ASSUME NEW code \in 0 .. 2, SetErrorCode(code) PROVE ShellInv'
  BY <1>9 DEF SetErrorCode, Setter
<1>10. ASSUME NEW t \in Thread, NEW f \in Fn, Call(t, f) PROVE ShellInv'
  BY <1>10 DEF Call
<1>11. ASSUME NEW t \in Thread, Lock(t) PROVE ShellInv'
  <2>1. /\ \A u \in Thread : pc[u] \notin Holding
        /\ taken' = taken + 1 /\ shell' = shell
    BY <1>11, NobodyHolds DEF Lock, TakeLock
  <2>2. ASSUME NEW l \in Logger
        PROVE  Increasing(shell[l]) /\ Below(shell[l], taken + 1) /\ Below(shell[l], taken + 2)
    <3>1. shell[l] \in Seq(1 .. MaxMessages)
      OBVIOUS
    <3>2. Increasing(shell[l]) /\ Below(shell[l], taken + 1) /\ taken + 1 \in Nat /\ taken + 2 \in Nat
      OBVIOUS
    <3> QED BY <3>1, <3>2, BelowWeaker
  <2> QED BY <2>1, <2>2
<1>12. ASSUME NEW t \in Thread, WriteFile(t) PROVE ShellInv'
  BY <1>12 DEF WriteFile
<1>13. ASSUME NEW t \in Thread, WriteShell(t) PROVE ShellInv'
  <2>0. pc[t] = "shell" /\ msg[t] = taken /\ taken' = taken
    BY <1>13 DEF WriteShell, NumberInv
  <2>1. /\ \A u \in Thread : pc'[u] \notin {"file", "shell"}
        /\ \A l \in Logger : Below(shell[l], msg[t])
    <3>1. \A u \in Thread \ {t} : pc[u] \notin Holding
      BY <2>0, Alone
    <3>2. \A u \in Thread : pc'[u] \notin {"file", "shell"}
      BY <1>13, <3>1 DEF WriteShell
    <3> QED BY <2>0, <3>2
  <2>2. ASSUME NEW l \in Logger
        PROVE  /\ Increasing(shell[l]) /\ Below(shell[l], taken + 1)
               /\ Increasing(Append(shell[l], msg[t])) /\ Below(Append(shell[l], msg[t]), taken + 1)
    <3>1. shell[l] \in Seq(1 .. MaxMessages)
      OBVIOUS
    <3> QED BY <2>0, <2>1, <3>1, AppendIncreases
  <2>3. \/ shell' = shell
        \/ shell' = [shell EXCEPT ![logger] = Append(@, msg[t])]
    BY <1>13 DEF WriteShell
  <2>4. \A l \in Logger : shell'[l] \in {shell[l], Append(shell[l], msg[t])}
    BY <2>3
  <2> QED BY <2>0, <2>1, <2>2, <2>4
<1>14. ASSUME NEW t \in Thread, Exit(t) PROVE ShellInv'
  BY <1>14 DEF Exit
<1>15. ASSUME NEW t \in Thread, Unlock(t) PROVE ShellInv'
  BY <1>15 DEF Unlock, Leave
<1>16. ASSUME UNCHANGED vars PROVE ShellInv'
  BY <1>16 DEF vars
<1> QED
  BY <1>1, <1>2, <1>3, <1>4, <1>5, <1>6, <1>7, <1>8, <1>9, <1>10, <1>11, <1>12, <1>13, <1>14, <1>15, <1>16
  DEF Next, Setting, Body

LEMMA MessageShows ==
  ASSUME NEW l \in Logger, NEW t \in Thread, TypeOK
  PROVE  /\ Shows(Append(logFile[l], msg[t]), msg[t])
         /\ Shows(Append(shell[l], msg[t]), msg[t])
         /\ \A m : Shows(logFile[l], m) => Shows(Append(logFile[l], msg[t]), m)
         /\ \A m : Shows(shell[l], m) => Shows(Append(shell[l], msg[t]), m)
<1>1. msg[t] \in Nat
  BY DEF TypeOK
<1>2. logFile[l] \in Seq(1 .. MaxMessages) /\ shell[l] \in Seq(1 .. MaxMessages)
  BY DEF TypeOK
<1> QED BY <1>1, <1>2, AppendShows

\* A file or a terminal is only added to.
LEMMA FileStays ==
  ASSUME NEW m, NEW t \in Thread, TypeOK, InAFile(m),
         \A l \in Logger : logFile'[l] = logFile[l] \/ logFile'[l] = Append(logFile[l], msg[t])
  PROVE  \E l \in Logger : Shows(logFile'[l], m)
<1>1. PICK l \in Logger : Shows(logFile[l], m)
  BY DEF InAFile
<1>2. Shows(Append(logFile[l], msg[t]), m)
  BY <1>1, MessageShows
<1>3. Shows(logFile'[l], m)
  <2>1. CASE logFile'[l] = logFile[l]
    BY <1>1, <2>1
  <2>2. CASE logFile'[l] = Append(logFile[l], msg[t])
    BY <1>2, <2>2
  <2> QED BY <2>1, <2>2
<1> QED BY <1>3

LEMMA ShellStays ==
  ASSUME NEW m, NEW t \in Thread, TypeOK, InAShell(m),
         \A l \in Logger : shell'[l] = shell[l] \/ shell'[l] = Append(shell[l], msg[t])
  PROVE  \E l \in Logger : Shows(shell'[l], m)
<1>1. PICK l \in Logger : Shows(shell[l], m)
  BY DEF InAShell
<1>2. Shows(Append(shell[l], msg[t]), m)
  BY <1>1, MessageShows
<1>3. Shows(shell'[l], m)
  <2>1. CASE shell'[l] = shell[l]
    BY <1>1, <2>1
  <2>2. CASE shell'[l] = Append(shell[l], msg[t])
    BY <1>2, <2>2
  <2> QED BY <2>1, <2>2
<1> QED BY <1>3

\* A message to be printed is printed by the step it waits for.
LEMMA PrintKept == ASSUME TypeOK, MutexHeld, NumberInv, LoggerInv, PrintInv, [Next]_vars PROVE PrintInv'
<1> USE DEF Holding, PrintInv, InAFile, InAShell, settings, sinks, hist, calls, codes, Goto
<1>1. ASSUME NEW t \in Thread, InitializeLogging(t) PROVE PrintInv'
  BY <1>1 DEF InitializeLogging, TypeOK
<1>2. ASSUME NEW t \in Thread, InitFails(t) PROVE PrintInv'
  BY <1>2 DEF InitFails, TypeOK
<1>3. ASSUME NEW t \in Thread, NewLogger(t) PROVE PrintInv'
  BY <1>3 DEF NewLogger, TypeOK
<1>4. ASSUME NEW t \in Thread, SetDefaultExit(t) PROVE PrintInv'
  BY <1>4 DEF SetDefaultExit, TypeOK
<1>5. ASSUME NEW l \in Logger, SetLogger(l) PROVE PrintInv'
  BY <1>5 DEF SetLogger, Setter, TypeOK
<1>6. ASSUME NEW v \in Verbosities, SetVerbosity(v) PROVE PrintInv'
  BY <1>6 DEF SetVerbosity, Setter, TypeOK
<1>7. ASSUME NEW v \in Verbosities, SetLogFileVerbosity(v) PROVE PrintInv'
  BY <1>7 DEF SetLogFileVerbosity, Setter, TypeOK
<1>8. ASSUME SetExitFunc PROVE PrintInv'
  BY <1>8 DEF SetExitFunc, Setter, TypeOK
<1>9. ASSUME NEW code \in 0 .. 2, SetErrorCode(code) PROVE PrintInv'
  BY <1>9 DEF SetErrorCode, Setter, TypeOK
<1>10. ASSUME NEW t \in Thread, NEW f \in Fn, Call(t, f) PROVE PrintInv'
  BY <1>10 DEF Call, TypeOK
<1>11. ASSUME NEW t \in Thread, Lock(t) PROVE PrintInv'
  <2>1. /\ \A u \in Thread : pc[u] \notin Holding
        /\ taken' = taken + 1 /\ pc' = [pc EXCEPT ![t] = "file"] /\ msg' = [msg EXCEPT ![t] = taken']
        /\ loud' \subseteq loud \cup {taken'}
        /\ UNCHANGED <<cut, raised, logFile, shell>>
    BY <1>11, NobodyHolds DEF Lock, TakeLock, TypeOK
  <2>2. \A m \in loud' : m <= taken'
    BY <2>1 DEF TypeOK
  <2>3. pc'[t] = "file" /\ msg'[t] = taken'
    BY <2>1 DEF TypeOK
  <2>4. \A m \in loud \ cut : InAFile(m)' /\ (m \in raised' \/ InAShell(m)')
    BY <2>1
  <2> QED BY <2>1, <2>2, <2>3, <2>4
<1>12. ASSUME NEW t \in Thread, WriteFile(t) PROVE PrintInv'
  <2>1. /\ \A u \in Thread \ {t} : pc[u] \notin Holding
        /\ pc[t] = "file" /\ pc'[t] \in {"shell", "unlock"} /\ \A u \in Thread \ {t} : pc'[u] = pc[u]
        /\ UNCHANGED <<msg, loud, raised, shell, taken>>
    BY <1>12, Alone DEF WriteFile, TypeOK
  <2>2. CASE logger = NilLogger
    <3>1. cut' = cut \cup {msg[t]} /\ logFile' = logFile
      BY <1>12, <2>2 DEF WriteFile
    <3> QED BY <2>1, <3>1
  <2>3. CASE logger # NilLogger
    <3>1. cut' = cut /\ pc'[t] = "shell"
      BY <1>12, <2>3 DEF WriteFile, TypeOK
    <3>2. \A m : InAFile(m) => InAFile(m)'
      <4>1. \A l \in Logger : logFile'[l] = logFile[l] \/ logFile'[l] = Append(logFile[l], msg[t])
        BY <1>12, <2>3 DEF WriteFile, TypeOK
      <4> QED BY <4>1, FileStays
    <3>3. ASSUME msg[t] \in loud PROVE \E l \in Logger : Shows(logFile'[l], msg[t])
      <4>1. fn[t] \in AlwaysPrints
        BY <2>1, <3>3 DEF NumberInv
      <4>2. verbosity[logger].file >= FileLevel(fn[t])
        <5>1. logger \in Logger /\ verbosity[logger].file \in 0 .. 3
          BY <2>3 DEF TypeOK, LOGERROR, LOGDEBUG
        <5> QED BY <4>1, <5>1, LoudLevels DEF LOGERROR
      <4>3. logFile' = [logFile EXCEPT ![logger] = Append(@, msg[t])]
        BY <1>12, <2>3, <4>2 DEF WriteFile
      <4>4. Shows(Append(logFile[logger], msg[t]), msg[t])
        BY <2>3, MessageShows DEF TypeOK
      <4>5. logger \in Logger /\ logFile'[logger] = Append(logFile[logger], msg[t])
        BY <2>3, <4>3 DEF TypeOK
      <4>6. Shows(logFile'[logger], msg[t])
        BY <4>4, <4>5, Zenon
      <4> QED BY <4>5, <4>6, Zenon
    <3> QED BY <2>1, <3>1, <3>2, <3>3
  <2> QED BY <2>2, <2>3
<1>13. ASSUME NEW t \in Thread, WriteShell(t) PROVE PrintInv'
  <2>1. /\ \A u \in Thread \ {t} : pc[u] \notin Holding
        /\ pc[t] = "shell" /\ pc'[t] \in {"exit", "unlock"} /\ \A u \in Thread \ {t} : pc'[u] = pc[u]
        /\ UNCHANGED <<msg, loud, cut, logFile, taken>>
    BY <1>13, Alone DEF WriteShell, TypeOK
  <2>2. CASE fn[t] = "Fatal"
    <3>1. raised' = raised \cup {msg[t]} /\ shell' = shell
      BY <1>13, <2>2 DEF WriteShell
    <3> QED BY <2>1, <3>1
  <2>3. CASE fn[t] # "Fatal"
    <3>1. raised' = raised /\ logger \in Logger
      BY <1>13, <2>1, <2>3 DEF WriteShell, LoggerInv, TypeOK
    <3>2. \A m : InAShell(m) => InAShell(m)'
      <4>1. \A l \in Logger : shell'[l] = shell[l] \/ shell'[l] = Append(shell[l], msg[t])
        BY <1>13, <2>3 DEF WriteShell, TypeOK
      <4> QED BY <4>1, ShellStays
    <3>3. ASSUME msg[t] \in loud PROVE \E l \in Logger : Shows(shell'[l], msg[t])
      <4>1. fn[t] \in AlwaysPrints
        BY <2>1, <3>3 DEF NumberInv
      <4>2. verbosity[logger].shell >= ShellLevel(fn[t])
        <5>1. verbosity[logger].shell \in 0 .. 3
          BY <3>1 DEF TypeOK, LOGERROR, LOGDEBUG
        <5> QED BY <4>1, <5>1, LoudLevels DEF LOGERROR
      <4>3. shell' = [shell EXCEPT ![logger] = Append(@, msg[t])]
        BY <1>13, <2>3, <4>2 DEF WriteShell
      <4>4. Shows(Append(shell[logger], msg[t]), msg[t])
        BY <3>1, MessageShows
      <4>5. shell'[logger] = Append(shell[logger], msg[t])
        BY <3>1, <4>3 DEF TypeOK
      <4>6. Shows(shell'[logger], msg[t])
        BY <4>4, <4>5, Zenon
      <4> QED BY <3>1, <4>6, Zenon
    <3> QED BY <2>1, <3>1, <3>2, <3>3
  <2> QED BY <2>2, <2>3
<1>14. ASSUME NEW t \in Thread, Exit(t) PROVE PrintInv'
  BY <1>14 DEF Exit, TypeOK
<1>15. ASSUME NEW t \in Thread, Unlock(t) PROVE PrintInv'
  BY <1>15 DEF Unlock, Leave, TypeOK
<1>16. ASSUME UNCHANGED vars PROVE PrintInv'
  BY <1>16 DEF vars, TypeOK
<1> QED
  BY <1>1, <1>2, <1>3, <1>4, <1>5, <1>6, <1>7, <1>8, <1>9, <1>10, <1>11, <1>12, <1>13, <1>14, <1>15, <1>16
  DEF Next, Setting, Body

-----------------------------------------------------------------------------
(* The theorems.                                                           *)

LEMMA InitInv == Init => IInv
<1> SUFFICES ASSUME Init PROVE IInv
  OBVIOUS
<1> USE GplogAssumption DEF Init
<1>1. TypeOK
  <2>1. \A l \in Logger : logFile[l] \in Seq(1 .. MaxMessages) /\ shell[l] \in Seq(1 .. MaxMessages)
    OBVIOUS
  <2>2. verbosity \in [Logger -> [shell : LOGERROR .. LOGDEBUG, file : LOGERROR .. LOGDEBUG]]
    BY DEF LOGERROR, LOGINFO, LOGDEBUG
  <2>3. exited \in BOOLEAN
    BY Zenon
  <2> QED BY <2>1, <2>2, <2>3 DEF TypeOK, Fn
<1>2. MutexHeld /\ NumberInv /\ LoggerInv
  BY DEF MutexHeld, NumberInv, LoggerInv, Holding
<1>3. BudgetInv
  <2>1. Waiting = {}
    BY DEF Waiting
  <2> QED BY <2>1, FS_EmptySet DEF BudgetInv
<1>4. FileInv /\ ShellInv
  BY DEF FileInv, ShellInv, Increasing, Below
<1>5. PrintInv /\ ErrorIsRemembered
  BY DEF PrintInv, ErrorIsRemembered
<1> QED BY <1>1, <1>2, <1>3, <1>4, <1>5 DEF IInv

LEMMA InductiveStep == IInv /\ [Next]_vars => IInv'
BY TypeKept, MutexKept, BudgetKept, NumberKept, FileKept, ShellKept, LoggerKept, PrintKept,
   ErrorKept DEF IInv

\* The mutex is what orders and completes the messages: numbers, files and
\* terminals agree with its holder at every step.
THEOREM Inductive == Spec => []IInv
BY InitInv, InductiveStep, PTL DEF Spec

\* The variables keep their types: no message is numbered beyond the calls made.
THEOREM TypeCorrect == Spec => []TypeOK
BY Inductive, PTL DEF IInv

\* The mutex is held exactly by the goroutine inside an output function,
\* after every panic as well.
THEOREM MutexOwned == Spec => []MutexHeld
BY Inductive, PTL DEF IInv

\* Files and terminals show the messages in the order of the mutex.
THEOREM Ordered == Spec => []OneOrder
<1>1. IInv => OneOrder
  BY DEF IInv, FileInv, ShellInv, OneOrder
<1> QED BY <1>1, Inductive, PTL

\* An error logged is never forgotten, unless the utility sets the code.
THEOREM ErrorsRemembered == Spec => []ErrorIsRemembered
BY Inductive, PTL DEF IInv

\* Warn, Error and Fatal print whatever the verbosity, whatever logger the
\* messages go to and whoever changes it meanwhile.
THEOREM Printed == Spec => []AlwaysPrinted
<1>1. IInv => AlwaysPrinted
  BY DEF IInv, PrintInv, AlwaysPrinted
<1> QED BY <1>1, Inductive, PTL
=============================================================================
