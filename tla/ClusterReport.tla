---------------------------- MODULE ClusterReport ----------------------------
(***************************************************************************)
(* The way a failed command takes from the executor to the log file and    *)
(* to the exit code of the utility: CheckClusterError of                   *)
(* cluster/cluster.go composed with ExecuteClusterCommandWithRetries and   *)
(* with the levels and the error code of gplog.                            *)
(*                                                                         *)
(* A message is the command it is about.  The caller passes a message      *)
(* function with the signature of its generator, by content or by host,    *)
(* which only decides the wording, and recovers the panic of Fatal, as     *)
(* utilities do to clean up, so calls may follow.  The verbosity of the    *)
(* log file is whatever was set last when the check begins.                *)
(***************************************************************************)
EXTENDS ClusterExec

CONSTANT Verbosities    \* the verbosities of the log file

LOGERROR   == 0
LOGVERBOSE == 2
LOGDEBUG   == 3

ASSUME ClusterReportAssumption == Verbosities \subseteq LOGERROR .. LOGDEBUG

VARIABLES
  errorCode,    \* of gplog
  report,       \* what the last check of this output wrote to the log file
  badOutput     \* history: an output was checked after a command had failed

reportVars == <<errorCode, report, badOutput>>

NoReport == [retried |-> {}, failed |-> {}, last |-> "none", count |-> 0]

ReportTypeOK ==
  /\ TypeOK
  /\ errorCode \in 0 .. 2
  /\ report \in [retried : SUBSET Cmd, failed : SUBSET Cmd,
                 last : {"none", "Error", "Fatal"}, count : 0 .. Cardinality(Cmd)]
  /\ badOutput \in BOOLEAN

ReportInit == Init /\ errorCode = 0 /\ report = NoReport /\ badOutput = FALSE

\* The commands among cs whose message reaches a log file of verbosity v.
Logged(cs, level, v) == IF v >= level THEN cs ELSE {}

ReportVerbosely(v) == Logged(output.FailedCommands, LOGVERBOSE, v)      \* mutant
ReportFailed(v)    == Logged(output.FailedCommands, LOGERROR, v)

OneIsNone      == output.NumErrors <= 1      \* mutant
NothingFailed  == output.NumErrors = 0

\* CheckClusterError, up to the panic when it ends with Fatal.
CheckClusterError(noFatal, v) ==
  /\ caller = "returned"
  /\ badOutput' = (badOutput \/ passed # Cmd)
  /\ LET retried == Logged(output.RetriedCommands, LOGDEBUG, v) IN
     IF NothingFailed
       THEN /\ report' = [NoReport EXCEPT !.retried = retried]
            /\ UNCHANGED errorCode
       ELSE /\ report' = [retried |-> retried,
                          failed  |-> ReportFailed(v),
                          last    |-> IF noFatal THEN "Error" ELSE "Fatal",
                          count   |-> output.NumErrors]
            /\ errorCode' = IF noFatal THEN 1 ELSE 2
  /\ UNCHANGED vars

\* A step of the executor; the report is about the output of the last call.
ExecStep ==
  /\ Next
  /\ report' = IF caller' = "collect" THEN NoReport ELSE report
  /\ UNCHANGED <<errorCode, badOutput>>

ReportNext == \/ ExecStep
              \/ \E noFatal \in BOOLEAN, v \in Verbosities : CheckClusterError(noFatal, v)

ReportSpec == /\ ReportInit /\ [][ReportNext]_<<vars, reportVars>>
              /\ WF_vars(Collect) /\ \A c \in Cmd : WF_vars(Goroutine(c))

-----------------------------------------------------------------------------
\* The message that ends a failed check sends its reader to the log file for
\* a complete list of errors: whatever the verbosity, every command whose last
\* run failed is there, none that passed is, and the number told is theirs.
ListIsComplete ==
  /\ report.last # "none" => /\ report.failed = Cmd \ passed
                             /\ report.count = Cardinality(Cmd \ passed)
  /\ report.retried \subseteq passed

\* The utility exits with a failure exactly if a command had failed in a call
\* whose output was checked: retries that passed in the end leave the code
\* alone, and no failure, of any number of commands, is left out of it.
FailureSetsCode == errorCode > 0 <=> badOutput

-----------------------------------------------------------------------------
\* The report is about the output the caller has: a call begins without one.
ReportInv ==
  /\ ReportTypeOK /\ ListIsComplete /\ FailureSetsCode
  /\ caller # "returned" => report = NoReport
=============================================================================
