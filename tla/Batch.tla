-------------------------------- MODULE Batch --------------------------------
(***************************************************************************)
(* What ExecuteClusterCommandWithRetries promises its caller: every        *)
(* command of the list gets one outcome, and the call returns, once all    *)
(* outcomes are known, with the commands that failed and those that failed *)
(* before they passed.  How often a command was tried, and how the         *)
(* goroutines report, is not visible here.  A command of MayHang may stay  *)
(* without an outcome for ever, and with it the call, but not the others.  *)
(***************************************************************************)
CONSTANTS Cmd, MayHang

VARIABLES phase,      \* "idle" or "running"
          outcome,    \* of each command in the current call
          failed,     \* the failed commands of the last RemoteOutput
          retried     \* and those that failed before they passed

vars == <<phase, outcome, failed, retried>>

Init == /\ phase = "idle"
        /\ outcome = [c \in Cmd |-> "none"]
        /\ failed = {}
        /\ retried = {}

Start == /\ phase = "idle"
         /\ phase' = "running"
         /\ outcome' = [c \in Cmd |-> "pending"]
         /\ UNCHANGED <<failed, retried>>

Finish(c) == /\ phase = "running"
             /\ outcome[c] = "pending"
             /\ \E o \in {"passed", "retried", "failed"} : outcome' = [outcome EXCEPT ![c] = o]
             /\ UNCHANGED <<phase, failed, retried>>

Return == /\ phase = "running"
          /\ \A c \in Cmd : outcome[c] # "pending"
          /\ failed' = {c \in Cmd : outcome[c] = "failed"}
          /\ retried' = {c \in Cmd : outcome[c] = "retried"}
          /\ phase' = "idle"
          /\ outcome' = [c \in Cmd |-> "none"]

Next == Start \/ Return \/ \E c \in Cmd : Finish(c)

Spec == /\ Init /\ [][Next]_vars
        /\ WF_vars(Return)
        /\ \A c \in Cmd \ MayHang : WF_vars(Finish(c))
=============================================================================
