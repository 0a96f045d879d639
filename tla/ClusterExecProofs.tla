------------------------- MODULE ClusterExecProofs --------------------------
(***************************************************************************)
(* Proof of the inductive invariant of ClusterExec for every finite list   *)
(* of commands, of the properties that follow from it, of the safety part  *)
(* of the refinement of Batch, and of ClusterReport's properties on top.   *)
(***************************************************************************)
EXTENDS ClusterReport, FiniteSetTheorems, TLAPS

-----------------------------------------------------------------------------
(* The parts of the invariant that hold for every maxAttempts.             *)

LEMMA Sizes == /\ Cardinality(Cmd) \in Nat
               /\ \A S \in SUBSET Cmd : IsFiniteSet(S) /\ Cardinality(S) \in 0 .. Cardinality(Cmd)
<1>1. Cardinality(Cmd) \in Nat
  BY FS_CardinalityType, ClusterExecAssumption
<1>2. ASSUME NEW S \in SUBSET Cmd
      PROVE  IsFiniteSet(S) /\ Cardinality(S) \in 0 .. Cardinality(Cmd)
  BY <1>1, FS_Subset, FS_CardinalityType, ClusterExecAssumption
<1> QED BY <1>1, <1>2

\* When as many have been received as there are commands, all have.
LEMMA AllInMeansAll == ASSUME received \subseteq Cmd PROVE AllIn <=> received = Cmd
BY FS_Subset, ClusterExecAssumption DEF AllIn

\* What the calls make of a ShellCommand is one.
LEMMA NewCommandType == NewCommand \in ShellCommand
BY DEF ShellCommand, NewCommand

LEMMA FieldTypes == ASSUME NEW s \in ShellCommand
                    PROVE  s.RetryError \in Nat /\ s.Error \in BOOLEAN
BY DEF ShellCommand

LEMMA RetriedType == ASSUME NEW f \in [Cmd -> ShellCommand], NEW c \in Cmd
                     PROVE  [f EXCEPT ![c].RetryError = @ + 1] \in [Cmd -> ShellCommand]
<1>1. f[c].RetryError + 1 \in Nat
  BY FieldTypes
<1> QED BY <1>1 DEF ShellCommand

LEMMA StoredType == ASSUME NEW s \in ShellCommand, NEW e \in BOOLEAN
                    PROVE  [s EXCEPT !.Error = e, !.Completed = TRUE] \in ShellCommand
BY DEF ShellCommand

\* A command is received once, and counted when its result is an error.
LEMMA ReceiveCounts ==
  ASSUME TypeOK, PhaseInv, CountInv, NEW c \in Cmd, Receive(c)
  PROVE  numErrors' = Cardinality({d \in received' : commandList'[d].Error})
<1> DEFINE Wrong(S) == {d \in S : commandList[d].Error}
<1>1. /\ received \subseteq Cmd /\ c \notin received /\ received' = received \cup {c}
      /\ commandList' = commandList
      /\ numErrors = Cardinality(Wrong(received))
      /\ numErrors' = IF commandList[c].Error THEN numErrors + 1 ELSE numErrors
  BY DEF TypeOK, PhaseInv, CountInv, Receive, CountsAsError
<1>2. IsFiniteSet(Wrong(received)) /\ c \notin Wrong(received)
  <2>1. Wrong(received) \subseteq Cmd
    BY <1>1
  <2> QED BY <1>1, <2>1, Sizes
<1>3. CASE commandList[c].Error
  <2>1. Wrong(received') = Wrong(received) \cup {c}
    BY <1>1, <1>3
  <2>2. Cardinality(Wrong(received) \cup {c}) = Cardinality(Wrong(received)) + 1
    BY <1>2, FS_AddElement
  <2> QED BY <1>1, <1>3, <2>1, <2>2
<1>4. CASE ~commandList[c].Error
  <2>1. Wrong(received') = Wrong(received)
    BY <1>1, <1>4
  <2> QED BY <1>1, <1>4, <2>1
<1> QED BY <1>1, <1>3, <1>4

LEMMA TypeKept == TypeOK /\ PhaseInv /\ CountInv /\ [Next]_vars => TypeOK'
<1> SUFFICES ASSUME TypeOK, PhaseInv, CountInv, [Next]_vars PROVE TypeOK'
  OBVIOUS
<1> USE DEF callVars, goVars, histVars
<1>1. ASSUME NEW m \in AttemptLimits, NEW reuse \in BOOLEAN, Call(m, reuse) PROVE TypeOK'
  <2>1. /\ numErrors' = 0 /\ received' = {} /\ passed' = {} /\ maxAttempts' = m /\ caller' = "collect"
        /\ pc' = [c \in Cmd |-> "spawned"] /\ runs' = [c \in Cmd |-> 0]
        /\ output' = output /\ command' = command /\ err' = err /\ attempt' = attempt
    BY <1>1 DEF Call, ResetCount
  <2>2. \/ commandList' = commandList /\ failures' = failures /\ reuses < MaxReuse /\ reuses' = reuses + 1
        \/ /\ reuses' = 0 /\ commandList' = [c \in Cmd |-> NewCommand]
           /\ failures' = [c \in Cmd |-> 0]
    BY <1>1 DEF Call
  <2>3. commandList' \in [Cmd -> ShellCommand] /\ failures' \in [Cmd -> Nat]
    BY <2>2, NewCommandType DEF TypeOK
  <2>4. reuses' \in 0 .. MaxReuse
    <3>1. reuses \in 0 .. MaxReuse /\ MaxReuse \in Nat
      BY ClusterExecAssumption DEF TypeOK
    <3> QED BY <2>2, <3>1
  <2>5. numErrors' \in 0 .. Cardinality(Cmd)
    BY <2>1, Sizes
  <2> QED BY <2>1, <2>3, <2>4, <2>5 DEF TypeOK
<1>2. ASSUME NEW c \in Cmd, Receive(c) PROVE TypeOK'
  <2>1. numErrors' = Cardinality({d \in received' : commandList'[d].Error})
    BY <1>2, ReceiveCounts
  <2>2. received' \subseteq Cmd
    BY <1>2 DEF Receive, TypeOK
  <2>3. {d \in received' : commandList'[d].Error} \in SUBSET Cmd
    BY <2>2
  <2>4. numErrors' \in 0 .. Cardinality(Cmd)
    BY <2>1, <2>3, Sizes
  <2> QED BY <1>2, <2>2, <2>4 DEF Receive, TypeOK
<1>3. ASSUME Return PROVE TypeOK'
  BY <1>3 DEF Return, NewRemoteOutput, RemoteOutput, TypeOK
<1>4. ASSUME NEW c \in Cmd, Begin(c) PROVE TypeOK'
  BY <1>4 DEF Begin, TypeOK
<1>5. ASSUME NEW c \in Cmd, TryPasses(c) PROVE TypeOK'
  BY <1>5 DEF TryPasses, TypeOK
<1>6. ASSUME NEW c \in Cmd, TryFails(c) PROVE TypeOK'
  <2>1. command' \in [Cmd -> ShellCommand]
    BY <1>6, RetriedType DEF TryFails, JoinRetryError, TypeOK
  <2>2. pc' \in [Cmd -> {"none", "spawned", "loop", "hung", "sleep", "store", "send"}]
    BY <1>6 DEF TryFails, TypeOK
  <2>3. runs' \in [Cmd -> Nat] /\ failures' \in [Cmd -> Nat] /\ attempt' \in [Cmd -> Nat]
    BY <1>6 DEF TryFails, TypeOK
  <2>4. passed' \subseteq Cmd /\ err' \in [Cmd -> BOOLEAN]
    BY <1>6 DEF TryFails, TypeOK
  <2>5. UNCHANGED <<callVars, commandList>>
    BY <1>6 DEF TryFails
  <2> QED BY <2>1, <2>2, <2>3, <2>4, <2>5 DEF TypeOK
<1>7. ASSUME NEW c \in Cmd, Hang(c) PROVE TypeOK'
  BY <1>7 DEF Hang, TypeOK
<1>8. ASSUME NEW c \in Cmd, Wake(c) PROVE TypeOK'
  BY <1>8 DEF Wake, TypeOK
<1>9. ASSUME NEW c \in Cmd, GiveUp(c) PROVE TypeOK'
  BY <1>9 DEF GiveUp, TypeOK
<1>10. ASSUME NEW c \in Cmd, Store(c) PROVE TypeOK'
  <2>1. [command[c] EXCEPT !.Error = err[c], !.Completed = TRUE] \in ShellCommand
    BY StoredType DEF TypeOK
  <2> QED BY <1>10, <2>1, NewCommandType DEF Store, EndLocals, TypeOK
<1>11. ASSUME UNCHANGED vars PROVE TypeOK'
  BY <1>11 DEF vars, TypeOK
<1> QED BY <1>1, <1>2, <1>3, <1>4, <1>5, <1>6, <1>7, <1>8, <1>9, <1>10, <1>11
        DEF Next, Collect, Goroutine

\* The channel is unbuffered: a goroutine ends when its index is received.
LEMMA PhaseKept == TypeOK /\ PhaseInv /\ [Next]_vars => PhaseInv'
<1> SUFFICES ASSUME TypeOK, PhaseInv, [Next]_vars PROVE PhaseInv'
  OBVIOUS
<1> USE DEF TypeOK, PhaseInv, callVars, goVars, histVars
<1>1. ASSUME NEW m \in AttemptLimits, NEW reuse \in BOOLEAN, Call(m, reuse) PROVE PhaseInv'
  BY <1>1 DEF Call, ResetCount
<1>2. ASSUME NEW c \in Cmd, Receive(c) PROVE PhaseInv'
  BY <1>2 DEF Receive
<1>3. ASSUME Return PROVE PhaseInv'
  BY <1>3, AllInMeansAll DEF Return
<1>4. ASSUME NEW c \in Cmd, Begin(c) PROVE PhaseInv'
  BY <1>4 DEF Begin
<1>5. ASSUME NEW c \in Cmd, TryPasses(c) PROVE PhaseInv'
  BY <1>5 DEF TryPasses
<1>6. ASSUME NEW c \in Cmd, TryFails(c) PROVE PhaseInv'
  BY <1>6 DEF TryFails
<1>7. ASSUME NEW c \in Cmd, Hang(c) PROVE PhaseInv'
  BY <1>7 DEF Hang
<1>8. ASSUME NEW c \in Cmd, Wake(c) PROVE PhaseInv'
  BY <1>8 DEF Wake
<1>9. ASSUME NEW c \in Cmd, GiveUp(c) PROVE PhaseInv'
  BY <1>9 DEF GiveUp
<1>10. ASSUME NEW c \in Cmd, Store(c) PROVE PhaseInv'
  BY <1>10 DEF Store
<1>11. ASSUME UNCHANGED vars PROVE PhaseInv'
  BY <1>11 DEF vars
<1> QED BY <1>1, <1>2, <1>3, <1>4, <1>5, <1>6, <1>7, <1>8, <1>9, <1>10, <1>11
        DEF Next, Collect, Goroutine

\* A success leaves the loop, and only a new call starts a goroutine.
LEMMA PassedKept == TypeOK /\ PassedInv /\ [Next]_vars => PassedInv'
<1> SUFFICES ASSUME TypeOK, PassedInv, [Next]_vars PROVE PassedInv'
  OBVIOUS
<1> USE DEF TypeOK, PassedInv, callVars, goVars, histVars
<1>1. ASSUME NEW m \in AttemptLimits, NEW reuse \in BOOLEAN, Call(m, reuse) PROVE PassedInv'
  BY <1>1 DEF Call
<1>2. ASSUME NEW c \in Cmd, Receive(c) PROVE PassedInv'
  BY <1>2 DEF Receive
<1>3. ASSUME Return PROVE PassedInv'
  BY <1>3 DEF Return
<1>4. ASSUME NEW c \in Cmd, Begin(c) PROVE PassedInv'
  BY <1>4 DEF Begin
<1>5. ASSUME NEW c \in Cmd, TryPasses(c) PROVE PassedInv'
  BY <1>5 DEF TryPasses
<1>6. ASSUME NEW c \in Cmd, TryFails(c) PROVE PassedInv'
  BY <1>6 DEF TryFails
<1>7. ASSUME NEW c \in Cmd, Hang(c) PROVE PassedInv'
  BY <1>7 DEF Hang
<1>8. ASSUME NEW c \in Cmd, Wake(c) PROVE PassedInv'
  BY <1>8 DEF Wake
<1>9. ASSUME NEW c \in Cmd, GiveUp(c) PROVE PassedInv'
  BY <1>9 DEF GiveUp
<1>10. ASSUME NEW c \in Cmd, Store(c) PROVE PassedInv'
  BY <1>10 DEF Store
<1>11. ASSUME UNCHANGED vars PROVE PassedInv'
  BY <1>11 DEF vars
<1> QED BY <1>1, <1>2, <1>3, <1>4, <1>5, <1>6, <1>7, <1>8, <1>9, <1>10, <1>11
        DEF Next, Collect, Goroutine

\* The joined errors travel from the list to the local copy and back.
LEMMA RetryKept == TypeOK /\ PhaseInv /\ RetryInv /\ [Next]_vars => RetryInv'
<1> SUFFICES ASSUME TypeOK, PhaseInv, RetryInv, [Next]_vars PROVE RetryInv'
  OBVIOUS
<1> USE DEF TypeOK, PhaseInv, RetryInv, callVars, goVars, histVars
<1>1. ASSUME NEW m \in AttemptLimits, NEW reuse \in BOOLEAN, Call(m, reuse) PROVE RetryInv'
  BY <1>1 DEF Call, NewCommand
<1>2. ASSUME NEW c \in Cmd, Receive(c) PROVE RetryInv'
  BY <1>2 DEF Receive
<1>3. ASSUME Return PROVE RetryInv'
  BY <1>3 DEF Return
<1>4. ASSUME NEW c \in Cmd, Begin(c) PROVE RetryInv'
  BY <1>4 DEF Begin
<1>5. ASSUME NEW c \in Cmd, TryPasses(c) PROVE RetryInv'
  BY <1>5 DEF TryPasses
<1>6. ASSUME NEW c \in Cmd, TryFails(c) PROVE RetryInv'
  BY <1>6 DEF TryFails, JoinRetryError
<1>7. ASSUME NEW c \in Cmd, Hang(c) PROVE RetryInv'
  BY <1>7 DEF Hang
<1>8. ASSUME NEW c \in Cmd, Wake(c) PROVE RetryInv'
  BY <1>8 DEF Wake
<1>9. ASSUME NEW c \in Cmd, GiveUp(c) PROVE RetryInv'
  BY <1>9 DEF GiveUp
<1>10. ASSUME NEW c \in Cmd, Store(c) PROVE RetryInv'
  BY <1>10 DEF Store, EndLocals
<1>11. ASSUME UNCHANGED vars PROVE RetryInv'
  BY <1>11 DEF vars
<1> QED BY <1>1, <1>2, <1>3, <1>4, <1>5, <1>6, <1>7, <1>8, <1>9, <1>10, <1>11
        DEF Next, Collect, Goroutine

\* maxAttempts is the argument of the call.
LEMMA LimitKept == LimitInv /\ [Next]_vars => LimitInv'
<1> SUFFICES ASSUME LimitInv, [Next]_vars PROVE LimitInv'
  OBVIOUS
<1> USE DEF LimitInv, callVars, goVars, histVars
<1>1. ASSUME NEW m \in AttemptLimits, NEW reuse \in BOOLEAN, Call(m, reuse) PROVE LimitInv'
  BY <1>1 DEF Call
<1>2. ASSUME NEW c \in Cmd, Receive(c) PROVE LimitInv'
  BY <1>2 DEF Receive
<1>3. ASSUME Return PROVE LimitInv'
  BY <1>3 DEF Return
<1>4. ASSUME NEW c \in Cmd, Begin(c) PROVE LimitInv'
  BY <1>4 DEF Begin
<1>5. ASSUME NEW c \in Cmd, TryPasses(c) PROVE LimitInv'
  BY <1>5 DEF TryPasses
<1>6. ASSUME NEW c \in Cmd, TryFails(c) PROVE LimitInv'
  BY <1>6 DEF TryFails
<1>7. ASSUME NEW c \in Cmd, Hang(c) PROVE LimitInv'
  BY <1>7 DEF Hang
<1>8. ASSUME NEW c \in Cmd, Wake(c) PROVE LimitInv'
  BY <1>8 DEF Wake
<1>9. ASSUME NEW c \in Cmd, GiveUp(c) PROVE LimitInv'
  BY <1>9 DEF GiveUp
<1>10. ASSUME NEW c \in Cmd, Store(c) PROVE LimitInv'
  BY <1>10 DEF Store
<1>11. ASSUME UNCHANGED vars PROVE LimitInv'
  BY <1>11 DEF vars
<1> QED BY <1>1, <1>2, <1>3, <1>4, <1>5, <1>6, <1>7, <1>8, <1>9, <1>10, <1>11
        DEF Next, Collect, Goroutine

\* A received command's goroutine has ended: its result in the list stays.
LEMMA CountKept == TypeOK /\ PhaseInv /\ CountInv /\ [Next]_vars => CountInv'
<1> SUFFICES ASSUME TypeOK, PhaseInv, CountInv, [Next]_vars PROVE CountInv'
  OBVIOUS
<1> USE DEF TypeOK, PhaseInv, CountInv, callVars, goVars, histVars
<1>1. ASSUME NEW m \in AttemptLimits, NEW reuse \in BOOLEAN, Call(m, reuse) PROVE CountInv'
  BY <1>1, FS_EmptySet DEF Call, ResetCount
<1>2. ASSUME NEW c \in Cmd, Receive(c) PROVE CountInv'
  BY <1>2, ReceiveCounts DEF CountInv
<1>3. ASSUME Return PROVE CountInv'
  BY <1>3 DEF Return
<1>4. ASSUME NEW c \in Cmd, Begin(c) PROVE CountInv'
  BY <1>4 DEF Begin
<1>5. ASSUME NEW c \in Cmd, TryPasses(c) PROVE CountInv'
  BY <1>5 DEF TryPasses
<1>6. ASSUME NEW c \in Cmd, TryFails(c) PROVE CountInv'
  BY <1>6 DEF TryFails
<1>7. ASSUME NEW c \in Cmd, Hang(c) PROVE CountInv'
  BY <1>7 DEF Hang
<1>8. ASSUME NEW c \in Cmd, Wake(c) PROVE CountInv'
  BY <1>8 DEF Wake
<1>9. ASSUME NEW c \in Cmd, GiveUp(c) PROVE CountInv'
  BY <1>9 DEF GiveUp
<1>10. ASSUME NEW c \in Cmd, Store(c) PROVE CountInv'
  BY <1>10 DEF Store
<1>11. ASSUME UNCHANGED vars PROVE CountInv'
  BY <1>11 DEF vars
<1> QED BY <1>1, <1>2, <1>3, <1>4, <1>5, <1>6, <1>7, <1>8, <1>9, <1>10, <1>11
        DEF Next, Collect, Goroutine

\* The list has not changed since it was reported: no goroutine is left.
LEMMA OutputKept == TypeOK /\ PhaseInv /\ CountInv /\ OutputInv /\ [Next]_vars => OutputInv'
<1> SUFFICES ASSUME TypeOK, PhaseInv, CountInv, OutputInv, [Next]_vars PROVE OutputInv'
  OBVIOUS
<1> USE DEF TypeOK, PhaseInv, CountInv, OutputInv, Returned, callVars, goVars, histVars
<1>1. ASSUME NEW m \in AttemptLimits, NEW reuse \in BOOLEAN, Call(m, reuse) PROVE OutputInv'
  BY <1>1 DEF Call
<1>2. ASSUME NEW c \in Cmd, Receive(c) PROVE OutputInv'
  BY <1>2 DEF Receive
<1>3. ASSUME Return PROVE OutputInv'
  BY <1>3, AllInMeansAll DEF Return, NewRemoteOutput
<1>4. ASSUME NEW c \in Cmd, Begin(c) PROVE OutputInv'
  BY <1>4 DEF Begin
<1>5. ASSUME NEW c \in Cmd, TryPasses(c) PROVE OutputInv'
  BY <1>5 DEF TryPasses
<1>6. ASSUME NEW c \in Cmd, TryFails(c) PROVE OutputInv'
  BY <1>6 DEF TryFails
<1>7. ASSUME NEW c \in Cmd, Hang(c) PROVE OutputInv'
  BY <1>7 DEF Hang
<1>8. ASSUME NEW c \in Cmd, Wake(c) PROVE OutputInv'
  BY <1>8 DEF Wake
<1>9. ASSUME NEW c \in Cmd, GiveUp(c) PROVE OutputInv'
  BY <1>9 DEF GiveUp
<1>10. ASSUME NEW c \in Cmd, Store(c) PROVE OutputInv'
  BY <1>10 DEF Store
<1>11. ASSUME UNCHANGED vars PROVE OutputInv'
  BY <1>11 DEF vars
<1> QED BY <1>1, <1>2, <1>3, <1>4, <1>5, <1>6, <1>7, <1>8, <1>9, <1>10, <1>11
        DEF Next, Collect, Goroutine

LEMMA MaxAttemptsType == TypeOK => maxAttempts \in Int
BY ClusterExecAssumption DEF TypeOK

\* With at least one attempt every command is run, and its last error is known.
LEMMA AttemptKept == AttemptsArePositive /\ TypeOK /\ PhaseInv /\ PassedInv /\ LimitInv /\ AttemptInv /\ [Next]_vars => AttemptInv'
<1> SUFFICES ASSUME AttemptsArePositive, TypeOK, PhaseInv, PassedInv, LimitInv, AttemptInv, [Next]_vars PROVE AttemptInv'
  OBVIOUS
<1> USE DEF TypeOK, AttemptInv, Settled, callVars, goVars, histVars
<1>1. ASSUME NEW m \in AttemptLimits, NEW reuse \in BOOLEAN, Call(m, reuse) PROVE AttemptInv'
  BY <1>1 DEF Call, AttemptsArePositive
<1>2. ASSUME NEW c \in Cmd, Receive(c) PROVE AttemptInv'
  BY <1>2 DEF Receive
<1>3. ASSUME Return PROVE AttemptInv'
  BY <1>3 DEF Return
<1>4. ASSUME NEW c \in Cmd, Begin(c) PROVE AttemptInv'
  BY <1>4 DEF Begin
<1>5. ASSUME NEW c \in Cmd, TryPasses(c) PROVE AttemptInv'
  BY <1>5 DEF TryPasses, MayRun
<1>6. ASSUME NEW c \in Cmd, TryFails(c) PROVE AttemptInv'
  <2>1. \A d \in Cmd \ {c} : UNCHANGED <<pc[d], attempt[d], runs[d], err[d]>> /\ (d \in passed' <=> d \in passed)
    BY <1>6 DEF TryFails
  <2>2. UNCHANGED <<caller, maxAttempts, commandList>>
    BY <1>6 DEF TryFails
  <2>3. /\ pc[c] = "loop" /\ attempt[c] = runs[c] + 1 /\ attempt[c] <= maxAttempts
        /\ runs'[c] = runs[c] + 1 /\ err'[c]
    BY <1>6 DEF TryFails, MayRun
  <2>4. \/ pc'[c] = "sleep" /\ attempt'[c] = attempt[c] /\ attempt[c] # maxAttempts
        \/ pc'[c] = "loop" /\ attempt'[c] = attempt[c] + 1
    BY <1>6 DEF TryFails
  <2>5. maxAttempts \in Int /\ runs[c] \in Nat
    BY MaxAttemptsType
  <2> QED BY <2>1, <2>2, <2>3, <2>4, <2>5
<1>7. ASSUME NEW c \in Cmd, Hang(c) PROVE AttemptInv'
  BY <1>7 DEF Hang, MayRun
<1>8. ASSUME NEW c \in Cmd, Wake(c) PROVE AttemptInv'
  <2>1. \A d \in Cmd \ {c} : UNCHANGED <<pc[d], attempt[d]>>
    BY <1>8 DEF Wake
  <2>2. /\ pc[c] = "sleep" /\ pc'[c] = "loop" /\ attempt'[c] = attempt[c] + 1
        /\ attempt[c] = runs[c] /\ runs[c] > 0 /\ err[c] /\ runs[c] <= maxAttempts
    BY <1>8, MaxAttemptsType DEF Wake
  <2>3. UNCHANGED <<caller, maxAttempts, commandList, err, runs, passed>>
    BY <1>8 DEF Wake
  <2> QED BY <2>1, <2>2, <2>3
<1>9. ASSUME NEW c \in Cmd, GiveUp(c) PROVE AttemptInv'
  BY <1>9 DEF GiveUp, MayRun, AttemptsArePositive, LimitInv, PhaseInv, PassedInv
<1>10. ASSUME NEW c \in Cmd, Store(c) PROVE AttemptInv'
  BY <1>10 DEF Store, EndLocals, PhaseInv
<1>11. ASSUME UNCHANGED vars PROVE AttemptInv'
  BY <1>11 DEF vars
<1> QED BY <1>1, <1>2, <1>3, <1>4, <1>5, <1>6, <1>7, <1>8, <1>9, <1>10, <1>11
        DEF Next, Collect, Goroutine

-----------------------------------------------------------------------------
(* The theorems.                                                           *)

LEMMA InitInv == Init => AnyLimitInv /\ AttemptInv
<1> SUFFICES ASSUME Init PROVE AnyLimitInv /\ AttemptInv
  OBVIOUS
<1> USE DEF Init
<1>1. TypeOK
  <2>1. /\ reuses \in 0 .. MaxReuse /\ numErrors \in 0 .. Cardinality(Cmd)
    BY Sizes, ClusterExecAssumption
  <2>2. output \in RemoteOutput
    BY DEF RemoteOutput, NoOutput
  <2> QED BY <2>1, <2>2, NewCommandType DEF TypeOK
<1>2. PhaseInv /\ PassedInv /\ LimitInv /\ CountInv /\ OutputInv
  BY DEF PhaseInv, PassedInv, LimitInv, CountInv, OutputInv, Returned
<1>3. RetryInv
  BY DEF RetryInv, NewCommand
<1>4. AttemptInv
  BY DEF AttemptInv, Settled
<1> QED BY <1>1, <1>2, <1>3, <1>4 DEF AnyLimitInv

LEMMA AnyLimitStep == AnyLimitInv /\ [Next]_vars => AnyLimitInv'
BY TypeKept, PhaseKept, PassedKept, RetryKept, LimitKept, CountKept, OutputKept DEF AnyLimitInv

LEMMA InductiveStep == AttemptsArePositive /\ IInv /\ [Next]_vars => IInv'
BY AnyLimitStep, AttemptKept DEF IInv, AnyLimitInv

\* Whatever maxAttempts is, and however many commands share the executor, the
\* caller counts every goroutine in and the output it returns is that of the
\* list it worked on.
THEOREM AnyLimit == Spec => []AnyLimitInv
BY InitInv, AnyLimitStep, PTL DEF Spec

\* Every variable keeps its type: numErrors never exceeds the number of
\* commands, which takes that a goroutine reports in only once.
THEOREM TypeCorrect == Spec => []TypeOK
BY AnyLimit, PTL DEF AnyLimitInv

\* When the call returns no goroutine of it is left.
THEOREM NoneLeft == Spec => []NoGoroutineLeft
<1>1. AnyLimitInv => NoGoroutineLeft
  BY DEF AnyLimitInv, PhaseInv, NoGoroutineLeft
<1> QED BY <1>1, AnyLimit, PTL

\* A command that has succeeded is not run again in the same call.
THEOREM NoneRunAgain == Spec => NoRunAfterSuccess
<1>1. AnyLimitInv /\ [Next]_vars
        => [\A c \in Cmd : c \in passed /\ caller = "collect" => runs'[c] = runs[c]]_vars
  <2> SUFFICES ASSUME AnyLimitInv, Next, NEW d \in Cmd, d \in passed, caller = "collect"
               PROVE  runs'[d] = runs[d]
    OBVIOUS
  <2>1. TypeOK /\ pc[d] \in {"store", "send", "none"}
    BY DEF AnyLimitInv, PassedInv
  <2>2. Goroutine(d) \/ Hang(d) => runs' = runs
    BY <2>1 DEF Goroutine, Hang, Begin, TryPasses, TryFails, Wake, GiveUp, Store, histVars
  <2>3. ASSUME NEW c \in Cmd, c # d, Goroutine(c) \/ Hang(c) PROVE runs'[d] = runs[d]
    BY <2>1, <2>3 DEF TypeOK, Goroutine, Hang, Begin, TryPasses, TryFails, Wake, GiveUp, Store, histVars
  <2>4. Collect => runs' = runs
    BY DEF Collect, Receive, Return, histVars
  <2>5. ~ \E m \in AttemptLimits, reuse \in BOOLEAN : Call(m, reuse)
    BY DEF Call
  <2> QED BY <2>2, <2>3, <2>4, <2>5 DEF Next
<1> QED BY <1>1, AnyLimit, PTL DEF Spec, NoRunAfterSuccess

\* With at least one attempt, the state of a goroutine determines what is known
\* of its command.
THEOREM Inductive == ASSUME AttemptsArePositive PROVE Spec => []IInv
<1>1. Init => IInv
  BY InitInv DEF IInv
<1>2. IInv /\ [Next]_vars => IInv'
  BY InductiveStep
<1> QED BY <1>1, <1>2, PTL DEF Spec

\* At the end of a call the result of every command is in the list.
LEMMA AllSettled == ASSUME IInv, Returned, NEW c \in Cmd
                    PROVE  /\ commandList[c].Completed
                           /\ commandList[c].Error <=> c \notin passed
                           /\ commandList[c].Error => runs[c] = maxAttempts
                           /\ commandList[c].RetryError = failures[c]
<1>1. pc[c] = "none" /\ Settled(c)
  BY DEF IInv, AnyLimitInv, PhaseInv, Returned, Settled
<1>2. AttemptInv /\ RetryInv
  BY DEF IInv, AnyLimitInv
<1> QED BY <1>1, <1>2 DEF AttemptInv, RetryInv

\* What the caller is told is what happened.
THEOREM OutputTrue == ASSUME AttemptsArePositive PROVE Spec => []OutputIsTrue
<1>1. ASSUME IInv PROVE OutputIsTrue
  <2> SUFFICES ASSUME Returned
               PROVE  /\ output.FailedCommands = Cmd \ passed
                      /\ output.NumErrors = Cardinality(output.FailedCommands)
                      /\ \A c \in Cmd : commandList[c].Completed
    BY DEF OutputIsTrue
  <2>1. /\ output.FailedCommands = {c \in Cmd : commandList[c].Error}
        /\ output.NumErrors = Cardinality({c \in Cmd : commandList[c].Error})
    BY <1>1 DEF IInv, AnyLimitInv, OutputInv
  <2> QED BY <1>1, <2>1, AllSettled
<1> QED BY <1>1, Inductive, PTL

\* The commands reported as retried are those that failed before they passed,
\* and no error of a run is lost.
THEOREM RetriedTrue == ASSUME AttemptsArePositive PROVE Spec => []RetriedIsTrue
<1>1. ASSUME IInv PROVE RetriedIsTrue
  <2> SUFFICES ASSUME Returned
               PROVE  /\ output.RetriedCommands = {c \in passed : failures[c] > 0}
                      /\ \A c \in Cmd : commandList[c].RetryError = failures[c]
    BY DEF RetriedIsTrue
  <2>1. /\ output.RetriedCommands = {c \in Cmd : ~commandList[c].Error /\ commandList[c].RetryError > 0}
        /\ passed \subseteq Cmd
    BY <1>1 DEF IInv, AnyLimitInv, OutputInv, TypeOK
  <2> QED BY <1>1, <2>1, AllSettled
<1> QED BY <1>1, Inductive, PTL

\* A command is given up only after maxAttempts runs, and never run more often.
THEOREM AttemptsUsed == ASSUME AttemptsArePositive PROVE Spec => []AttemptsUsedUp
<1>1. ASSUME IInv PROVE AttemptsUsedUp
  <2>1. \A c \in Cmd : runs[c] <= maxAttempts
    BY <1>1 DEF IInv, AttemptInv
  <2>2. Returned => output.FailedCommands = {c \in Cmd : commandList[c].Error}
    BY <1>1 DEF IInv, AnyLimitInv, OutputInv
  <2> QED BY <1>1, <2>1, <2>2, AllSettled DEF AttemptsUsedUp
<1> QED BY <1>1, Inductive, PTL

-----------------------------------------------------------------------------
(* The refinement: every step is one of Batch or leaves what it sees alone. *)

\* A step of a goroutine that neither stores nor ends it is not visible.
LEMMA Invisible ==
  ASSUME TypeOK, NEW c \in Cmd, caller' = caller, output' = output,
         \A d \in Cmd \ {c} : /\ pc'[d] = pc[d] /\ failures'[d] = failures[d]
                              /\ d \in passed' <=> d \in passed,
         \/ {pc[c], pc'[c]} \cap {"send", "none"} = {}
         \/ /\ {pc[c], pc'[c]} \subseteq {"send", "none"}
            /\ passed' = passed /\ failures' = failures
  PROVE  UNCHANGED B!vars
<1>1. \A d \in Cmd : Outcome(d)' = Outcome(d)
  BY DEF Outcome
<1> QED BY <1>1 DEF B!vars

LEMMA BInit == Init => B!Init
BY DEF Init, B!Init, NoOutput

LEMMA BStep == ASSUME IInv, [Next]_vars PROVE [B!Next]_(B!vars)
<1>0. TypeOK /\ PhaseInv /\ AttemptInv /\ RetryInv
  BY DEF IInv, AnyLimitInv
<1> USE DEF callVars, goVars, histVars
<1>1. ASSUME NEW m \in AttemptLimits, NEW reuse \in BOOLEAN, Call(m, reuse) PROVE B!Start
  <2>1. /\ caller # "collect" /\ caller' = "collect" /\ output' = output
        /\ \A c \in Cmd : pc'[c] = "spawned"
    BY <1>1 DEF Call
  <2>2. \A c \in Cmd : Outcome(c)' = "pending"
    BY <2>1 DEF Outcome
  <2> QED BY <2>1, <2>2 DEF B!Start
<1>2. ASSUME NEW c \in Cmd, Receive(c) PROVE UNCHANGED B!vars
  BY <1>0, <1>2, Invisible DEF Receive, TypeOK
<1>3. ASSUME Return PROVE B!Return
  <2>1. \A c \in Cmd : pc[c] = "none"
    BY <1>0, <1>3, AllInMeansAll DEF Return, PhaseInv, TypeOK
  <2>2. \A c \in Cmd : /\ commandList[c].Error <=> c \notin passed
                       /\ commandList[c].RetryError = failures[c]
    BY <1>0, <1>3, <2>1 DEF Return, AttemptInv, Settled, RetryInv
  <2>3. \A c \in Cmd : /\ Outcome(c) # "pending"
                       /\ Outcome(c) = "failed" <=> commandList[c].Error
                       /\ Outcome(c) = "retried" <=> ~commandList[c].Error /\ commandList[c].RetryError > 0
    BY <2>1, <2>2 DEF Outcome
  <2>4. /\ output'.FailedCommands = {c \in Cmd : commandList[c].Error}
        /\ output'.RetriedCommands = {c \in Cmd : ~commandList[c].Error /\ commandList[c].RetryError > 0}
        /\ caller = "collect" /\ caller' = "returned"
    BY <1>3 DEF Return, NewRemoteOutput
  <2> QED BY <2>3, <2>4 DEF B!Return, Outcome
<1>4. ASSUME NEW c \in Cmd, Begin(c) PROVE UNCHANGED B!vars
  BY <1>0, <1>4, Invisible DEF Begin, TypeOK
<1>5. ASSUME NEW c \in Cmd, TryPasses(c) PROVE UNCHANGED B!vars
  BY <1>0, <1>5, Invisible DEF TryPasses, TypeOK
<1>6. ASSUME NEW c \in Cmd, TryFails(c) PROVE UNCHANGED B!vars
  BY <1>0, <1>6, Invisible DEF TryFails, TypeOK
<1>7. ASSUME NEW c \in Cmd, Hang(c) PROVE UNCHANGED B!vars
  BY <1>0, <1>7, Invisible DEF Hang, TypeOK
<1>8. ASSUME NEW c \in Cmd, Wake(c) PROVE UNCHANGED B!vars
  BY <1>0, <1>8, Invisible DEF Wake, TypeOK
<1>9. ASSUME NEW c \in Cmd, GiveUp(c) PROVE UNCHANGED B!vars
  BY <1>0, <1>9, Invisible DEF GiveUp, TypeOK
<1>10. ASSUME NEW c \in Cmd, Store(c) PROVE B!Finish(c)
  <2>1. /\ caller = "collect" /\ caller' = "collect" /\ output' = output
        /\ pc[c] = "store" /\ pc' = [pc EXCEPT ![c] = "send"]
        /\ passed' = passed /\ failures' = failures
    BY <1>0, <1>10 DEF Store, PhaseInv, TypeOK
  <2>2. /\ Outcome(c) = "pending" /\ Outcome(c)' \in {"passed", "retried", "failed"}
        /\ \A d \in Cmd \ {c} : Outcome(d)' = Outcome(d)
    BY <1>0, <2>1 DEF Outcome, TypeOK
  <2>3. [d \in Cmd |-> Outcome(d)'] = [[d \in Cmd |-> Outcome(d)] EXCEPT ![c] = Outcome(c)']
    BY <2>2
  <2> QED BY <2>1, <2>2, <2>3 DEF B!Finish, Outcome
<1>11. ASSUME UNCHANGED vars PROVE UNCHANGED B!vars
  BY <1>11 DEF vars, B!vars, Outcome
<1> QED BY <1>1, <1>2, <1>3, <1>4, <1>5, <1>6, <1>7, <1>8, <1>9, <1>10, <1>11
        DEF Next, Collect, Goroutine, B!Next

\* The call implements Batch, but for its liveness: the outcome of a command
\* becomes known once and does not change, and the call returns with exactly
\* the failed and the retried among them, when all are known.
THEOREM ImplementsBatch == ASSUME AttemptsArePositive PROVE Spec => B!Init /\ [][B!Next]_(B!vars)
<1>1. IInv /\ [Next]_vars => [B!Next]_(B!vars)
  BY BStep
<1> QED BY <1>1, BInit, Inductive, PTL DEF Spec

-----------------------------------------------------------------------------
(* ClusterReport: the checks of an output leave the executor alone, so what  *)
(* is proved of it holds between them.                                       *)

LEMMA ReportStep == [ReportNext]_<<vars, reportVars>> => [Next]_vars
BY DEF ReportNext, ExecStep, CheckClusterError

\* ReportSpec is the executor's specification, fairness apart, with checks.
THEOREM ReportExecutes == ReportSpec => Spec
BY ReportStep, PTL DEF ReportSpec, ReportInit, Spec

LEMMA NoReportType ==
  NoReport \in [retried : SUBSET Cmd, failed : SUBSET Cmd,
                last : {"none", "Error", "Fatal"}, count : 0 .. Cardinality(Cmd)]
BY Sizes DEF NoReport

LEMMA ReportTypeStep ==
  ASSUME ReportTypeOK, AnyLimitInv, TypeOK', [ReportNext]_<<vars, reportVars>>
  PROVE  ReportTypeOK'
<1> USE DEF ReportTypeOK, reportVars
<1>1. CASE ExecStep
  BY <1>1, NoReportType DEF ExecStep
<1>2. ASSUME NEW noFatal \in BOOLEAN, NEW v \in Verbosities, CheckClusterError(noFatal, v)
      PROVE  ReportTypeOK'
  <2>1. /\ output.NumErrors \in 0 .. Cardinality(Cmd)
        /\ output.FailedCommands \subseteq Cmd
        /\ output.RetriedCommands \subseteq Cmd
    BY <1>2, Sizes DEF CheckClusterError, AnyLimitInv, OutputInv, Returned
  <2>2. \A cs \in SUBSET Cmd, level \in Int : Logged(cs, level, v) \in SUBSET Cmd
    BY DEF Logged
  <2>3. badOutput' \in BOOLEAN
    BY <1>2 DEF CheckClusterError
  <2>4. CASE NothingFailed
    BY <1>2, <2>1, <2>2, <2>3, <2>4, NoReportType DEF CheckClusterError, NoReport, LOGDEBUG
  <2>5. CASE ~NothingFailed
    BY <1>2, <2>1, <2>2, <2>3, <2>5 DEF CheckClusterError, ReportFailed, LOGDEBUG, LOGERROR
  <2> QED BY <2>4, <2>5
<1>3. CASE UNCHANGED <<vars, reportVars>>
  BY <1>3
<1> QED BY <1>1, <1>2, <1>3 DEF ReportNext

\* What is reported of a command, its output and the exit code keep their types.
THEOREM ReportTypeCorrect == ReportSpec => []ReportTypeOK
<1>1. ReportInit => ReportTypeOK
  <2>1. ReportInit => TypeOK
    BY InitInv DEF ReportInit, AnyLimitInv
  <2>2. ReportInit => errorCode \in 0 .. 2 /\ report = NoReport
    BY DEF ReportInit
  <2>3. ReportInit => badOutput \in BOOLEAN
    BY Zenon DEF ReportInit
  <2> QED BY <2>1, <2>2, <2>3, NoReportType DEF ReportTypeOK
<1>2. ReportTypeOK /\ AnyLimitInv /\ TypeOK' /\ [ReportNext]_<<vars, reportVars>> => ReportTypeOK'
  BY ReportTypeStep
<1> QED BY <1>1, <1>2, ReportExecutes, AnyLimit, TypeCorrect, PTL DEF ReportSpec

\* A check reports the failed commands of the last call, and a step of the
\* executor that changes them takes the report back.
LEMMA ReportInvStep ==
  ASSUME IInv, ReportInv, ReportTypeOK', [ReportNext]_<<vars, reportVars>>
  PROVE  ReportInv'
<1>0. TypeOK /\ PhaseInv
  BY DEF IInv, AnyLimitInv
<1>1. CASE ExecStep
  <2>1. CASE caller' = "collect"
    BY <1>1, <2>1 DEF ExecStep, ReportInv, ListIsComplete, FailureSetsCode, NoReport
  <2>2. CASE caller' # "collect" /\ caller = "collect"
    BY <1>1, <2>2 DEF ExecStep, ReportInv, ListIsComplete, FailureSetsCode, NoReport
  <2>3. CASE caller' # "collect" /\ caller # "collect"
    <3>1. FALSE
      BY <1>0, <1>1, <2>3 DEF ExecStep, Next, Call, Collect, Receive, Return, Goroutine, Hang,
         Begin, TryPasses, TryFails, Wake, GiveUp, Store, PhaseInv
    <3> QED BY <3>1
  <2> QED BY <2>1, <2>2, <2>3
<1>2. ASSUME NEW noFatal \in BOOLEAN, NEW v \in Verbosities, CheckClusterError(noFatal, v)
      PROVE  ReportInv'
  <2>1. /\ caller = "returned" /\ UNCHANGED vars
        /\ badOutput' = (badOutput \/ passed # Cmd)
    BY <1>2 DEF CheckClusterError
  <2>2. /\ output.FailedCommands = Cmd \ passed
        /\ output.NumErrors = Cardinality(Cmd \ passed)
        /\ output.RetriedCommands \subseteq passed
    <3>1. /\ output.FailedCommands = {c \in Cmd : commandList[c].Error}
          /\ output.NumErrors = Cardinality({c \in Cmd : commandList[c].Error})
          /\ output.RetriedCommands = {c \in Cmd : ~commandList[c].Error /\ commandList[c].RetryError > 0}
      BY <2>1 DEF IInv, AnyLimitInv, OutputInv, Returned
    <3>2. \A c \in Cmd : commandList[c].Error <=> c \notin passed
      BY <2>1, AllSettled DEF Returned
    <3> QED BY <3>1, <3>2
  <2>3. NothingFailed <=> passed = Cmd
    <3>1. IsFiniteSet(Cmd \ passed)
      BY Sizes
    <3>2. Cardinality(Cmd \ passed) = 0 <=> Cmd \ passed = {}
      BY <3>1, FS_EmptySet
    <3> QED BY <1>0, <2>2, <3>2 DEF NothingFailed, TypeOK
  <2>4. v \in 0 .. 3
    BY ClusterReportAssumption DEF LOGERROR, LOGDEBUG
  <2>5. CASE NothingFailed
    <3>1. report' = [NoReport EXCEPT !.retried = Logged(output.RetriedCommands, LOGDEBUG, v)]
          /\ errorCode' = errorCode
      BY <1>2, <2>5 DEF CheckClusterError
    <3>2. report'.last = "none" /\ report'.retried \subseteq passed
      BY <2>2, <3>1 DEF NoReport, Logged
    <3> QED BY <2>1, <2>3, <2>5, <3>1, <3>2 DEF ReportInv, ListIsComplete, FailureSetsCode, vars, callVars, histVars
  <2>6. CASE ~NothingFailed
    <3>1. /\ report'.retried \subseteq passed
          /\ report'.failed = Cmd \ passed
          /\ report'.count = Cardinality(Cmd \ passed)
          /\ errorCode' \in {1, 2}
      <4>1. /\ report' = [retried |-> Logged(output.RetriedCommands, LOGDEBUG, v),
                           failed  |-> ReportFailed(v),
                           last    |-> IF noFatal THEN "Error" ELSE "Fatal",
                           count   |-> output.NumErrors]
            /\ errorCode' = IF noFatal THEN 1 ELSE 2
        BY <1>2, <2>6 DEF CheckClusterError
      <4>2. /\ ReportFailed(v) = output.FailedCommands
            /\ Logged(output.RetriedCommands, LOGDEBUG, v) \subseteq output.RetriedCommands
        BY <2>4 DEF ReportFailed, Logged, LOGERROR
      <4> QED BY <2>2, <4>1, <4>2
    <3>2. ListIsComplete' /\ caller' = "returned"
      BY <2>1, <3>1 DEF ListIsComplete, vars, callVars, histVars
    <3>3. badOutput'
      BY <2>1, <2>3, <2>6, Zenon
    <3>4. FailureSetsCode'
      BY <3>1, <3>3 DEF FailureSetsCode
    <3> QED BY <3>2, <3>4 DEF ReportInv
  <2> QED BY <2>5, <2>6
<1>3. CASE UNCHANGED <<vars, reportVars>>
  BY <1>3 DEF ReportInv, ListIsComplete, FailureSetsCode, vars, callVars, histVars, reportVars
<1> QED BY <1>1, <1>2, <1>3 DEF ReportNext

LEMMA ReportInductive == ASSUME AttemptsArePositive PROVE ReportSpec => []ReportInv
<1>1. ReportInit /\ ReportTypeOK => ReportInv
  BY DEF ReportInit, Init, ReportInv, ListIsComplete, FailureSetsCode, NoReport
<1>2. IInv /\ ReportInv /\ ReportTypeOK' /\ [ReportNext]_<<vars, reportVars>> => ReportInv'
  BY ReportInvStep
<1> QED BY <1>1, <1>2, ReportExecutes, Inductive, ReportTypeCorrect, PTL DEF ReportSpec

\* Whatever the verbosity, the message that ends a failed check is preceded in
\* the log file by that of every failed command, and by none that passed.
THEOREM ListComplete == ASSUME AttemptsArePositive PROVE ReportSpec => []ListIsComplete
BY ReportInductive, PTL DEF ReportInv

\* The exit code tells a failure exactly if an output that was checked had one.
THEOREM CodeTrue == ASSUME AttemptsArePositive PROVE ReportSpec => []FailureSetsCode
BY ReportInductive, PTL DEF ReportInv
=============================================================================
