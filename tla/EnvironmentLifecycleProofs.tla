--------------------- MODULE EnvironmentLifecycleProofs ---------------------
(***************************************************************************)
(* EnvironmentLifecycle is type correct and keeps its invariants for every *)
(* value of its constants: any number of wakes, holds, suspend requests and*)
(* executions, any mix of faults.  First what each step leaves alone, the  *)
(* facts the proofs rest on; then one lemma about a step with a case for each*)
(* action.  Boolean-valued variables are a part of the type invariant of   *)
(* their own because Zenon, not SMT, reasons about them.                   *)
(***************************************************************************)
EXTENDS EnvironmentLifecycle, TLAPS

-----------------------------------------------------------------------------
(* Type correctness.                                                       *)

\* Every step keeps the flags Boolean.
LEMMA FlagsStep == TypeOK /\ [Next]_vars => FlagsOK'
<1> SUFFICES ASSUME TypeOK, [Next]_vars PROVE FlagsOK'
  OBVIOUS
<1> USE DEF TypeOK, FlagsOK,
    specVars, lifeVars, connVars, ctlVars, clusterUnchanged, ctlRest, unchangedByStep,
    SpecWrite, MetaWrite, Return, Continue, SetStatus
<1>1. CASE SetHold
  BY Zenon, <1>1 DEF SetHold
<1>2. CASE RecordActivity
  BY Zenon, <1>2 DEF RecordActivity
<1>3. CASE Claim
  BY Zenon, <1>3 DEF Claim
<1>4. CASE RunEnds
  BY Zenon, <1>4 DEF RunEnds
<1>5. CASE ReleaseClaim
  BY Zenon, <1>5 DEF ReleaseClaim
<1>6. CASE PodProgress
  BY Zenon, <1>6 DEF PodProgress
<1>7. CASE PodGone
  BY Zenon, <1>7 DEF PodGone
<1>8. CASE IdleTimeoutElapses
  BY Zenon, <1>8 DEF IdleTimeoutElapses
<1>9. CASE BackoffElapses
  BY Zenon, <1>9 DEF BackoffElapses
<1>10. CASE ConfigChanges
  BY Zenon, <1>10 DEF ConfigChanges
<1>11. CASE DiscardSuspend
  BY Zenon, <1>11 DEF DiscardSuspend
<1>12. CASE ReconcileLifecycleIntent
  BY Zenon, <1>12 DEF ReconcileLifecycleIntent, NextSuspended
<1>13. CASE Begin
  BY Zenon, <1>13 DEF Begin
<1>14. CASE PauseWithdraw
  BY Zenon, <1>14 DEF PauseWithdraw
<1>15. CASE PauseDeletePod
  BY Zenon, <1>15 DEF PauseDeletePod
<1>16. CASE PauseRevoke
  BY Zenon, <1>16 DEF PauseRevoke
<1>17. CASE PauseAcknowledge
  BY Zenon, <1>17 DEF PauseAcknowledge, FailStatus
<1>18. CASE PauseDone
  BY Zenon, <1>18 DEF PauseDone
<1>19. CASE InvalidWithdraw
  BY Zenon, <1>19 DEF InvalidWithdraw
<1>20. CASE InvalidFence
  BY Zenon, <1>20 DEF InvalidFence
<1>21. CASE RecoveryExhausted
  BY Zenon, <1>21 DEF RecoveryExhausted
<1>22. CASE RecoveryBackoff
  BY Zenon, <1>22 DEF RecoveryBackoff
<1>23. CASE RecoveryAttempt
  BY Zenon, <1>23 DEF RecoveryAttempt
<1>24. CASE ResumeFromPaused
  BY Zenon, <1>24 DEF ResumeFromPaused
<1>25. CASE PodTerminating
  BY Zenon, <1>25 DEF PodTerminating
<1>26. CASE PodReplacing
  BY Zenon, <1>26 DEF PodReplacing
<1>27. CASE DeleteReplaced
  BY Zenon, <1>27 DEF DeleteReplaced
<1>28. CASE TerminalPod
  BY Zenon, <1>28 DEF TerminalPod
<1>29. CASE PodMissing
  BY Zenon, <1>29 DEF PodMissing
<1>30. CASE RotateCredentials
  BY Zenon, <1>30 DEF RotateCredentials
<1>31. CASE ReserveExecutionGeneration
  BY Zenon, <1>31 DEF ReserveExecutionGeneration
<1>32. CASE CheckSources
  BY Zenon, <1>32 DEF CheckSources, FailStatus
<1>33. CASE CreatePod
  BY Zenon, <1>33 DEF CreatePod
<1>34. CASE RecheckSources
  BY Zenon, <1>34 DEF RecheckSources, FailStatus
<1>35. CASE BindCredentials
  BY Zenon, <1>35 DEF BindCredentials
<1>36. CASE ObservePod
  BY Zenon, <1>36 DEF ObservePod
<1>37. CASE SyncStatus
  BY Zenon, <1>37 DEF SyncStatus
<1>38. CASE IdleCheck
  BY Zenon, <1>38 DEF IdleCheck
<1>39. CASE SuspendIdle
  BY Zenon, <1>39 DEF SuspendIdle
<1>40. CASE Fail
  BY Zenon, <1>40 DEF Fail, FailStatus
<1>41. CASE Crash
  BY Zenon, <1>41 DEF Crash
<1>42. ASSUME NEW id \in WakeIDs, NEW r \in WakeReasons, RequestWakeForReason(id, r)
    PROVE FlagsOK'
  BY Zenon, <1>42 DEF RequestWakeForReason
<1>43. ASSUME NEW seq \in FenceSequences, RequestSuspend(seq) PROVE FlagsOK'
  BY Zenon, <1>43 DEF RequestSuspend, FenceSequences
<1>44. CASE UNCHANGED vars
  BY Zenon, <1>44 DEF vars
<1> HIDE DEF FlagsOK
<1> QED
  BY Zenon, <1>1, <1>2, <1>3, <1>4, <1>5, <1>6, <1>7, <1>8, <1>9, <1>10, <1>11, <1>12,
     <1>13, <1>14, <1>15, <1>16, <1>17, <1>18, <1>19, <1>20, <1>21, <1>22, <1>23,
     <1>24, <1>25, <1>26, <1>27, <1>28, <1>29, <1>30, <1>31, <1>32, <1>33, <1>34,
     <1>35, <1>36, <1>37, <1>38, <1>39, <1>40, <1>41, <1>42, <1>43, <1>44
  DEF Next, Publisher, Cluster, Reconcile, ReconcilePaused, ReconcileActive

\* The record a deleted Pod reads back as.
LEMMA NoPodType == NoPod \in PodType
  BY Zenon DEF NoPod, PodType, PodRuns

\* Deleting a Pod only marks it.
LEMMA DeletePodType == pod \in PodType /\ DeletePod => pod' \in PodType
  BY Zenon DEF DeletePod, PodType

\* Every step keeps the other variables in their types.
LEMMA DataStep == TypeOK /\ [Next]_vars => DataOK'
<1> SUFFICES ASSUME TypeOK, [Next]_vars PROVE DataOK'
  OBVIOUS
<1> USE NoPodType DEF TypeOK, DataOK, WakeReasons, Reasons, Phases, PodRuns, Configs, Steps,
    NoWake, NoSuspend, NoCred, PodType,
    specVars, lifeVars, connVars, ctlVars, clusterUnchanged, ctlRest, unchangedByStep,
    SpecWrite, MetaWrite, Return, Continue, SetStatus
<1>1. CASE SetHold
  BY <1>1 DEF SetHold
<1>2. CASE RecordActivity
  BY <1>2 DEF RecordActivity
<1>3. CASE Claim
  BY <1>3 DEF Claim
<1>4. CASE RunEnds
  BY <1>4 DEF RunEnds
<1>5. CASE ReleaseClaim
  BY <1>5 DEF ReleaseClaim
<1>6. CASE PodProgress
  BY <1>6 DEF PodProgress, PodNext
<1>7. CASE PodGone
  BY <1>7 DEF PodGone
<1>8. CASE IdleTimeoutElapses
  BY <1>8 DEF IdleTimeoutElapses
<1>9. CASE BackoffElapses
  <2>1. recovery' \in RecoveryType
    BY Zenon, <1>9 DEF BackoffElapses, RecoveryType
  <2> QED
    BY <2>1, <1>9 DEF BackoffElapses
<1>10. CASE ConfigChanges
  BY <1>10 DEF ConfigChanges
<1>11. CASE DiscardSuspend
  BY <1>11 DEF DiscardSuspend
<1>12. CASE ReconcileLifecycleIntent
  BY <1>12 DEF ReconcileLifecycleIntent, NextReason
<1>13. CASE Begin
  BY <1>13 DEF Begin, Gate
<1>14. CASE PauseWithdraw
  BY <1>14 DEF PauseWithdraw
<1>15. CASE PauseDeletePod
  BY DeletePodType, <1>15 DEF PauseDeletePod
<1>16. CASE PauseRevoke
  BY <1>16 DEF PauseRevoke
<1>17. CASE PauseAcknowledge
  BY <1>17 DEF PauseAcknowledge, FailStatus, ReplacementPhase
<1>18. CASE PauseDone
  BY <1>18 DEF PauseDone
<1>19. CASE InvalidWithdraw
  <2>1. pc' \in Steps /\ seen' \in PodType
    BY <1>19 DEF InvalidWithdraw
  <2>2. phase' \in Phases /\ endpoint' \in Nat
    BY <1>19 DEF InvalidWithdraw
  <2> QED
    BY <2>1, <2>2, <1>19 DEF InvalidWithdraw
<1>20. CASE InvalidFence
  BY DeletePodType, <1>20 DEF InvalidFence
<1>21. CASE RecoveryExhausted
  BY <1>21 DEF RecoveryExhausted
<1>22. CASE RecoveryBackoff
  BY <1>22 DEF RecoveryBackoff, ReplacementPhase
<1>23. CASE RecoveryAttempt
  <2>1. recovery.attempts + 1 \in Nat
    BY DEF RecoveryType
  <2>2. recovery' \in RecoveryType
    BY Zenon, <2>1, <1>23 DEF RecoveryAttempt, RecoveryType
  <2> QED
    BY <2>2, <1>23 DEF RecoveryAttempt, ReplacementPhase
<1>24. CASE ResumeFromPaused
  BY <1>24 DEF ResumeFromPaused
<1>25. CASE PodTerminating
  BY <1>25 DEF PodTerminating, ReplacementPhase
<1>26. CASE PodReplacing
  <2>1. pc' \in Steps /\ seen' \in PodType
    BY <1>26 DEF PodReplacing
  <2>2. phase' \in Phases /\ endpoint' \in Nat
    BY <1>26 DEF PodReplacing, ReplacementPhase
  <2> QED
    BY <2>1, <2>2, <1>26 DEF PodReplacing
<1>27. CASE DeleteReplaced
  BY DeletePodType, <1>27 DEF DeleteReplaced
<1>28. CASE TerminalPod
  <2>1. pod' \in PodType
    BY Zenon, DeletePodType, <1>28 DEF TerminalPod
  <2>2. pod.gen \in Nat
    BY Zenon DEF PodType
  <2>3. recovery' \in RecoveryType
    <3>1. CASE recovery' = [recovery EXCEPT !.exhausted = TRUE, !.gen = pod.gen]
      BY Zenon, <2>2, <3>1 DEF RecoveryType
    <3>2. CASE recovery' = [recovery EXCEPT !.gen = pod.gen, !.next = "wait"]
      BY Zenon, <2>2, <3>2 DEF RecoveryType
    <3>3. CASE recovery' = recovery
      BY Zenon, <3>3
    <3> QED
      BY Zenon, <3>1, <3>2, <3>3, <1>28 DEF TerminalPod
  <2>4. phase' \in Phases /\ endpoint' \in Nat
    BY <1>28 DEF TerminalPod, ReplacementPhase
  <2> QED
    BY <2>1, <2>3, <2>4, <1>28 DEF TerminalPod
<1>29. CASE PodMissing
  BY <1>29 DEF PodMissing
<1>30. CASE RotateCredentials
  BY <1>30 DEF RotateCredentials
<1>31. CASE ReserveExecutionGeneration
  <2>1. execGen' \in Nat /\ pc' \in Steps /\ seen' \in PodType
    BY <1>31 DEF ReserveExecutionGeneration, NextGeneration
  <2>2. phase' \in Phases /\ endpoint' \in Nat
    BY <1>31 DEF ReserveExecutionGeneration, ReplacementPhase
  <2> QED
    BY <2>1, <2>2, <1>31 DEF ReserveExecutionGeneration
<1>32. CASE CheckSources
  <2>1. pc' \in Steps /\ seen' \in PodType
    BY Zenon, <1>32 DEF CheckSources
  <2>2. phase' \in Phases /\ endpoint' \in Nat
    BY <1>32 DEF CheckSources, FailStatus, ReplacementPhase
  <2> QED
    BY <2>1, <2>2, <1>32 DEF CheckSources
<1>33. CASE CreatePod
  BY <1>33 DEF CreatePod
<1>34. CASE RecheckSources
  <2>1. pod' \in PodType
    BY Zenon, DeletePodType, <1>34 DEF RecheckSources
  <2>2. phase' \in Phases /\ endpoint' \in Nat
    BY <1>34 DEF RecheckSources, FailStatus, ReplacementPhase
  <2>3. pc' \in Steps /\ seen' \in PodType
    BY <1>34 DEF RecheckSources
  <2> QED
    BY <2>1, <2>2, <2>3, <1>34 DEF RecheckSources
<1>35. CASE BindCredentials
  BY <1>35 DEF BindCredentials
<1>36. CASE ObservePod
  BY <1>36 DEF ObservePod
<1>37. CASE SyncStatus
  <2>1. EnvironmentPodState \in Phases
    BY Zenon DEF EnvironmentPodState
  <2>2. phase' \in Phases /\ endpoint' \in Nat
    BY <2>1, <1>37 DEF SyncStatus, PodType
  <2>3. recovery' \in RecoveryType
    BY Zenon, <1>37 DEF SyncStatus, NoRecovery, RecoveryType
  <2>4. created' \in [gen : Nat, epoch : Nat, ready : BOOLEAN]
    BY Zenon, <1>37 DEF SyncStatus
  <2>5. pc' \in Steps /\ seen' \in PodType
    BY <1>37 DEF SyncStatus
  <2> QED
    BY <2>2, <2>3, <2>4, <2>5, <1>37 DEF SyncStatus
<1>38. CASE IdleCheck
  <2>1. pc' \in Steps /\ seen' \in PodType
    BY Zenon, <1>38 DEF IdleCheck
  <2>2. phase' \in Phases /\ endpoint' \in Nat
    BY Zenon, <1>38 DEF IdleCheck
  <2> QED
    BY <2>1, <2>2, <1>38 DEF IdleCheck
<1>39. CASE SuspendIdle
  BY <1>39 DEF SuspendIdle
<1>40. CASE Fail
  BY <1>40 DEF Fail, FailStatus, ReplacementPhase
<1>41. CASE Crash
  BY <1>41 DEF Crash
<1>42. ASSUME NEW id \in WakeIDs, NEW r \in WakeReasons, RequestWakeForReason(id, r)
    PROVE DataOK'
  BY <1>42 DEF RequestWakeForReason
<1>43. ASSUME NEW seq \in FenceSequences, RequestSuspend(seq) PROVE DataOK'
  BY <1>43 DEF RequestSuspend, FenceSequences
<1>44. CASE UNCHANGED vars
  BY <1>44 DEF vars
<1> HIDE DEF DataOK
<1> QED
  BY Zenon, <1>1, <1>2, <1>3, <1>4, <1>5, <1>6, <1>7, <1>8, <1>9, <1>10, <1>11, <1>12,
     <1>13, <1>14, <1>15, <1>16, <1>17, <1>18, <1>19, <1>20, <1>21, <1>22, <1>23,
     <1>24, <1>25, <1>26, <1>27, <1>28, <1>29, <1>30, <1>31, <1>32, <1>33, <1>34,
     <1>35, <1>36, <1>37, <1>38, <1>39, <1>40, <1>41, <1>42, <1>43, <1>44
  DEF Next, Publisher, Cluster, Reconcile, ReconcilePaused, ReconcileActive

\* Every variable of the Environment controller's model keeps its type.
THEOREM TypeCorrect == Spec => []TypeOK
<1>1. Init => TypeOK
  <2>1. Init => FlagsOK
    BY Zenon DEF Init, FlagsOK
  <2>2. Init => DataOK
    BY DEF Init, DataOK, PodType, RecoveryType, NoPod, NoWake, NoSuspend, NoCred,
        NoRecovery,
           WakeReasons, Reasons, Phases, PodRuns, Configs, Steps
  <2> QED
    BY Zenon, <2>1, <2>2 DEF TypeOK
<1>2. TypeOK /\ [Next]_vars => TypeOK'
  BY Zenon, FlagsStep, DataStep DEF TypeOK
<1> QED
  BY <1>1, <1>2, PTL DEF Spec

-----------------------------------------------------------------------------
(* What each action changes of the state the invariants compare.           *)

Numbers ==
    /\ pod.gen \in Nat /\ seen.gen \in Nat /\ cred.ident \in Nat /\ cred.bound \in Nat
    /\ created.gen \in Nat /\ created.epoch \in Nat /\ endpoint \in Nat /\ execGen \in Nat
    /\ epoch \in Nat /\ pending \in Nat /\ lastSeq \in Nat /\ suspend.seq \in Nat

\* The numbers the invariants compare are part of the type invariant.
LEMMA NumbersTyped == TypeOK /\ [Next]_vars => Numbers /\ Numbers'
<1>1. TypeOK => Numbers
  BY Zenon DEF TypeOK, DataOK, PodType, Numbers
<1>2. DataOK' => Numbers'
  BY Zenon DEF DataOK, PodType, Numbers
<1> QED
  BY Zenon, <1>1, <1>2, DataStep

\* A delete only marks the Pod.
LEMMA DeletePodFrame == TypeOK /\ DeletePod => pod'.gen = pod.gen /\ pod'.run = pod.run
  BY Zenon DEF TypeOK, DataOK, PodType, DeletePod

\* A step of others, or of the reconcile, that changes none of this state.
backend == <<suspended, reason, epoch, pending, lastSeq, execGen, recovery,
             pod.gen, cred.ident, created.gen, created.epoch>>
Quiet == UNCHANGED <<connVars, backend>>

\* The steps that at most rewrite phase, podName and endpoint, and the steps that
\* change more.
Withdrawal ==
    \/ PauseWithdraw \/ InvalidWithdraw \/ RecoveryExhausted \/ RecoveryBackoff
    \/ ResumeFromPaused \/ PodTerminating \/ PodReplacing \/ PodMissing
    \/ CheckSources \/ RecheckSources \/ Fail
Special ==
    \/ PodGone \/ BackoffElapses \/ ReconcileLifecycleIntent \/ PauseRevoke
    \/ PauseAcknowledge \/ PauseDone \/ InvalidFence \/ RecoveryAttempt \/ TerminalPod
    \/ RotateCredentials \/ ReserveExecutionGeneration \/ CreatePod \/ SyncStatus
    \/ SuspendIdle

\* Every other step is quiet.
LEMMA Effects == TypeOK /\ [Next]_vars => Quiet \/ Withdrawal \/ Special
<1> SUFFICES ASSUME TypeOK, [Next]_vars PROVE Quiet \/ Withdrawal \/ Special
  OBVIOUS
<1>d. DeletePod => pod'.gen = pod.gen
  BY Zenon, DeletePodFrame
<1> USE DEF backend, lifeVars, unchangedByStep, clusterUnchanged, ctlRest
<1>1. CASE SetHold
  BY Zenon, <1>1 DEF SetHold, Quiet
<1>2. CASE RecordActivity
  BY Zenon, <1>2 DEF RecordActivity, Quiet
<1>3. CASE Claim
  BY Zenon, <1>3 DEF Claim, Quiet
<1>4. CASE RunEnds
  BY Zenon, <1>4 DEF RunEnds, Quiet
<1>5. CASE ReleaseClaim
  BY Zenon, <1>5 DEF ReleaseClaim, Quiet
<1>6. CASE PodProgress
  <2>1. pod'.gen = pod.gen
    BY Zenon, <1>6 DEF PodProgress, TypeOK, DataOK, PodType
  <2> QED
    BY Zenon, <1>6, <2>1 DEF PodProgress, Quiet
<1>7. CASE IdleTimeoutElapses
  BY Zenon, <1>7 DEF IdleTimeoutElapses, Quiet
<1>8. CASE ConfigChanges
  BY Zenon, <1>8 DEF ConfigChanges, Quiet
<1>9. CASE DiscardSuspend
  BY Zenon, <1>9 DEF DiscardSuspend, Quiet
<1>10. CASE Begin
  BY Zenon, <1>10 DEF Begin, Quiet
<1>11. CASE PauseDeletePod
  BY Zenon, <1>11, <1>d DEF PauseDeletePod, Quiet
<1>12. CASE DeleteReplaced
  BY Zenon, <1>12, <1>d DEF DeleteReplaced, Quiet
<1>13. CASE BindCredentials
  <2>1. cred'.ident = cred.ident
    BY Zenon, <1>13 DEF BindCredentials, TypeOK, DataOK
  <2> QED
    BY Zenon, <1>13, <2>1 DEF BindCredentials, Quiet
<1>14. CASE ObservePod
  BY Zenon, <1>14 DEF ObservePod, Quiet
<1>15. CASE IdleCheck
  BY Zenon, <1>15 DEF IdleCheck, Quiet
<1>16. CASE Crash
  BY Zenon, <1>16 DEF Crash, Quiet
<1>17. ASSUME NEW id \in WakeIDs, NEW r \in WakeReasons, RequestWakeForReason(id, r) PROVE Quiet
  BY Zenon, <1>17 DEF RequestWakeForReason, Quiet
<1>18. ASSUME NEW seq \in FenceSequences, RequestSuspend(seq) PROVE Quiet
  BY Zenon, <1>18 DEF RequestSuspend, Quiet
<1>19. CASE UNCHANGED vars
  BY Zenon, <1>19 DEF vars, Quiet
<1> HIDE DEF Quiet, backend, lifeVars, unchangedByStep, clusterUnchanged, ctlRest
<1> QED
  BY Zenon, <1>1, <1>2, <1>3, <1>4, <1>5, <1>6, <1>7, <1>8, <1>9, <1>10, <1>11, <1>12,
     <1>13, <1>14, <1>15, <1>16, <1>17, <1>18, <1>19
  DEF Next, Publisher, Cluster, Reconcile, ReconcilePaused, ReconcileActive, Withdrawal,
      Special

\* A withdrawal publishes nothing and does not pause the Environment.
Withdrawn ==
    /\ endpoint' \in {endpoint, 0}
    /\ phase' # "Paused" \/ UNCHANGED connVars
    /\ UNCHANGED backend

\* The steps listed as withdrawals are.
LEMMA WithdrawalsWithdraw == TypeOK /\ Withdrawal => Withdrawn
<1> SUFFICES ASSUME TypeOK, Withdrawal PROVE Withdrawn
  OBVIOUS
<1>d. DeletePod => pod'.gen = pod.gen
  BY Zenon, DeletePodFrame
<1> USE DEF Withdrawn, backend, lifeVars, connVars, unchangedByStep, SetStatus, ReplacementPhase
<1>1. CASE PauseWithdraw
  BY Zenon, <1>1 DEF PauseWithdraw
<1>2. CASE InvalidWithdraw
  BY Zenon, <1>2 DEF InvalidWithdraw
<1>3. CASE RecoveryExhausted
  BY Zenon, <1>3 DEF RecoveryExhausted
<1>4. CASE RecoveryBackoff
  BY Zenon, <1>4 DEF RecoveryBackoff
<1>5. CASE ResumeFromPaused
  BY Zenon, <1>5 DEF ResumeFromPaused
<1>6. CASE PodTerminating
  BY Zenon, <1>6 DEF PodTerminating
<1>7. CASE PodReplacing
  BY Zenon, <1>7 DEF PodReplacing
<1>8. CASE PodMissing
  BY Zenon, <1>8 DEF PodMissing
<1>9. CASE CheckSources
  BY Zenon, <1>9 DEF CheckSources, FailStatus
<1>10. CASE RecheckSources
  BY Zenon, <1>10, <1>d DEF RecheckSources, FailStatus
<1>11. CASE Fail
  BY Zenon, <1>11 DEF Fail, FailStatus
<1> QED
  BY Zenon, <1>1, <1>2, <1>3, <1>4, <1>5, <1>6, <1>7, <1>8, <1>9, <1>10, <1>11 DEF Withdrawal

-----------------------------------------------------------------------------
(* The inductive invariant.                                                *)

\* The part of the inductive invariant that does not mention the running reconcile.
StateInvariant ==
    /\ ExecutionOrder /\ PausedMeansAbsent /\ PodHasCredential /\ PendingIsSuspended
    /\ NoConnectionFromOlderEpoch /\ RecoveryHoldsBack

\* Every step keeps the state invariant: each write of a reconcile relies on what the
\* earlier ones established.
LEMMA StateStep == TypeOK /\ InductiveInvariant /\ [Next]_vars => StateInvariant'
<1> SUFFICES ASSUME TypeOK, InductiveInvariant, [Next]_vars PROVE StateInvariant'
  OBVIOUS
<1>t. Numbers /\ Numbers' /\ FlagsOK /\ StateInvariant /\ ReconcileStanding
  BY Zenon, NumbersTyped DEF TypeOK, InductiveInvariant, StateInvariant
<1>d. DeletePod => pod'.gen = pod.gen
  BY Zenon, DeletePodFrame
<1> USE <1>t DEF Numbers, FlagsOK, PodExists, CredExists, StateInvariant, ExecutionOrder,
    PausedMeansAbsent, PodHasCredential, PendingIsSuspended, NoConnectionFromOlderEpoch,
    RecoveryHoldsBack, connVars, lifeVars, unchangedByStep
<1>1. CASE Quiet
  BY Zenon, <1>1 DEF Quiet, backend
<1>2. CASE Withdrawal
  BY <1>2, WithdrawalsWithdraw DEF Withdrawn, backend
<1>3. CASE PodGone
  BY <1>3 DEF PodGone, NoPod, clusterUnchanged
<1>4. CASE BackoffElapses
  <2>1. recovery'.gen = recovery.gen /\ recovery'.exhausted = recovery.exhausted
    BY Zenon, <1>4 DEF BackoffElapses, TypeOK, DataOK, RecoveryType
  <2> QED
    BY Zenon, <1>4, <2>1 DEF BackoffElapses
<1>5. CASE ReconcileLifecycleIntent
  <2>1. PendingIsSuspended'
    BY Zenon, <1>5 DEF ReconcileLifecycleIntent, NextSuspended, NextReason, MustSuspend,
      SuspendRequested, SuspendNew, SuspendInFlight
  <2>2. ~suspended' => ~suspended \/ phase = "Paused"
    BY Zenon, <1>5 DEF ReconcileLifecycleIntent, NextSuspended, MustSuspend, Resume, ReleaseHold,
      ReleaseWake, ConsumeWake, BackendFencePending, SuspendRequested, SuspendNew,
      SuspendInFlight
  <2>3. ~suspended' => epoch' = epoch
    BY Zenon, <1>5 DEF ReconcileLifecycleIntent
  <2> QED
    BY Zenon, <1>5, <2>1, <2>2, <2>3 DEF ReconcileLifecycleIntent, ctlRest
<1>6. CASE PauseRevoke
  BY Zenon, <1>6 DEF PauseRevoke, Published, NoCred
<1>7. CASE PauseAcknowledge
  BY Zenon, <1>7 DEF PauseAcknowledge, BackendAbsent, FailStatus, SetStatus, ReplacementPhase
<1>8. CASE PauseDone
  BY Zenon, <1>8 DEF PauseDone, BackendAbsent, Published, SetStatus
<1>9. CASE InvalidFence
  BY <1>9, <1>d DEF InvalidFence, NoCred
<1>10. CASE RecoveryAttempt
  <2>1. recovery'.next = "nil" /\ recovery'.exhausted = recovery.exhausted
    BY Zenon, <1>10 DEF RecoveryAttempt, TypeOK, DataOK, RecoveryType
  <2> QED
    BY Zenon, <1>10, <2>1 DEF RecoveryAttempt, ReplacementPhase
<1>11. CASE TerminalPod
  <2>1. recovery' = recovery \/ recovery'.gen = pod.gen
    <3>1. recovery \in RecoveryType
      BY Zenon DEF TypeOK, DataOK
    <3>2. CASE recovery' = [recovery EXCEPT !.exhausted = TRUE, !.gen = pod.gen]
      BY Zenon, <3>1, <3>2 DEF RecoveryType
    <3>3. CASE recovery' = [recovery EXCEPT !.gen = pod.gen, !.next = "wait"]
      BY Zenon, <3>1, <3>3 DEF RecoveryType
    <3> QED
      BY Zenon, <1>11, <3>2, <3>3 DEF TerminalPod
  <2>2. pod'.gen = pod.gen
    BY Zenon, <1>11, <1>d DEF TerminalPod
  <2> QED
    BY Zenon, <1>11, <2>1, <2>2 DEF TerminalPod, ReplacementPhase, EnsurePod, CurrentSandboxdPod
<1>12. CASE RotateCredentials
  BY Zenon, <1>12 DEF RotateCredentials, EnsurePod
<1>13. CASE ReserveExecutionGeneration
  <2>1. pc = "reserve" /\ UNCHANGED <<lifeVars, recovery, pod, cred, created>>
    BY Zenon, <1>13 DEF ReserveExecutionGeneration
  <2>2. /\ execGen' \in {execGen, execGen + 1}
        /\ (phase' # "Paused" /\ endpoint' = 0 /\ ~podName') \/ UNCHANGED <<connVars, execGen>>
    <3>1. CASE genFresh /\ execGen < MaxExec
      BY Zenon, <1>13, <3>1 DEF ReserveExecutionGeneration, ReplacementPhase, NextGeneration
    <3>2. CASE ~ (genFresh /\ execGen < MaxExec)
      BY Zenon, <1>13, <3>2 DEF ReserveExecutionGeneration, SetStatus
    <3> QED
      BY Zenon, <3>1, <3>2
  <2>3. CASE UNCHANGED <<connVars, execGen>>
    BY <2>1, <2>3
  <2>4. CASE phase' # "Paused" /\ endpoint' = 0 /\ ~podName'
    BY <2>1, <2>2, <2>4 DEF ReconcileStanding
  <2> QED
    BY Zenon, <2>2, <2>3, <2>4
<1>14. CASE CreatePod
  BY <1>14 DEF CreatePod, ReconcileStanding, ReadyToCreate, StepsOfActive
<1>15. CASE SyncStatus
  <2>1. created'.gen = created.gen /\ created'.epoch = created.epoch
    BY Zenon, <1>15 DEF SyncStatus, TypeOK, DataOK
  <2>2. recovery' = recovery \/ (recovery'.next = "nil" /\ ~recovery'.exhausted)
    BY Zenon, <1>15 DEF SyncStatus, NoRecovery
  <2>3. phase' # "Paused"
    BY Zenon, <1>15 DEF SyncStatus, SetStatus, EnvironmentPodState, ReconcileStanding, StepsOfActive
  <2>4. endpoint' \in {endpoint, 0, execGen}
    BY Zenon, <1>15 DEF SyncStatus, SetStatus
  <2> QED
    BY Zenon, <1>15, <2>1, <2>2, <2>3, <2>4 DEF SyncStatus, ReconcileStanding, JustCreated
<1>16. CASE SuspendIdle
  BY Zenon, <1>16 DEF SuspendIdle, ReconcileStanding, OnActivePath, StepsOfActive
<1> HIDE DEF StateInvariant
<1> QED
  BY Zenon, Effects, <1>1, <1>2, <1>3, <1>4, <1>5, <1>6, <1>7, <1>8, <1>9, <1>10, <1>11, <1>12,
     <1>13, <1>14, <1>15, <1>16 DEF Special

\* Every step keeps what the running reconcile relies on.  A reconcile that has
\* ended relies on nothing.
LEMMA StandingStep == TypeOK /\ InductiveInvariant /\ [Next]_vars => ReconcileStanding'
<1> SUFFICES ASSUME TypeOK, InductiveInvariant, [Next]_vars PROVE ReconcileStanding'
  OBVIOUS
<1>t. Numbers /\ Numbers' /\ FlagsOK /\ ReconcileStanding /\ ExecutionOrder
  BY Zenon, NumbersTyped DEF TypeOK, InductiveInvariant
<1>i. pc' \in {"idle", "fence", "invalid"} => ReconcileStanding'
  BY Zenon DEF ReconcileStanding, StepsOfActive
<1>d. DeletePod => pod'.gen = pod.gen
  BY DeletePodFrame
<1>1. CASE PauseWithdraw
  BY Zenon, <1>1, <1>i DEF PauseWithdraw, Return
<1>2. CASE PauseDeletePod
  BY Zenon, <1>2, <1>i DEF PauseDeletePod, Return
<1>3. CASE PauseRevoke
  BY Zenon, <1>3, <1>i DEF PauseRevoke, Return
<1>4. CASE PauseAcknowledge
  BY Zenon, <1>4, <1>i DEF PauseAcknowledge, Return
<1>5. CASE PauseDone
  BY Zenon, <1>5, <1>i DEF PauseDone, Return
<1>6. CASE InvalidFence
  BY Zenon, <1>6, <1>i DEF InvalidFence, Return
<1>7. CASE RecoveryExhausted
  BY Zenon, <1>7, <1>i DEF RecoveryExhausted, Return
<1>8. CASE RecoveryBackoff
  BY Zenon, <1>8, <1>i DEF RecoveryBackoff, Return
<1>9. CASE RecoveryAttempt
  BY Zenon, <1>9, <1>i DEF RecoveryAttempt, Return
<1>10. CASE ResumeFromPaused
  BY Zenon, <1>10, <1>i DEF ResumeFromPaused, Return
<1>11. CASE PodTerminating
  BY Zenon, <1>11, <1>i DEF PodTerminating, Return
<1>12. CASE DeleteReplaced
  BY Zenon, <1>12, <1>i DEF DeleteReplaced, Return
<1>13. CASE TerminalPod
  BY Zenon, <1>13, <1>i DEF TerminalPod, Return
<1>14. CASE PodMissing
  BY Zenon, <1>14, <1>i DEF PodMissing, Return
<1>15. CASE SuspendIdle
  BY Zenon, <1>15, <1>i DEF SuspendIdle, Return
<1>16. CASE Fail
  BY Zenon, <1>16, <1>i DEF Fail, Return
<1>17. CASE Crash
  BY Zenon, <1>17, <1>i DEF Crash, Return
<1>18. CASE DiscardSuspend
  BY Zenon, <1>18, <1>i DEF DiscardSuspend, ctlVars
<1>19. CASE ReconcileLifecycleIntent
  BY Zenon, <1>19, <1>i DEF ReconcileLifecycleIntent, ctlVars
<1>20. CASE InvalidWithdraw
  BY Zenon, <1>20, <1>i DEF InvalidWithdraw, Return, Continue
<1> DEFINE Kept ==
       /\ UNCHANGED <<pc, suspended, phase, cred, execGen, epoch, seen>>
       /\ created'.gen = created.gen /\ created'.epoch = created.epoch
       /\ pod'.gen \in {pod.gen, 0}
       /\ (recovery'.next = "nil") = (recovery.next = "nil")
       /\ recovery'.exhausted = recovery.exhausted
       /\ genFresh' => genFresh /\ holdOn' = holdOn
       /\ rvFresh' => /\ rvFresh /\ genFresh' = genFresh /\ activity' = activity
                      /\ claim' \in {claim, "done"}
<1>k. Kept => ReconcileStanding'
  <2> SUFFICES ASSUME Kept PROVE ReconcileStanding'
    OBVIOUS
  <2>1. OnActivePath => OnActivePath'
    BY <1>t DEF OnActivePath, PodExists, FlagsOK
  <2>2. ReadyToCreate => ReadyToCreate'
    BY <1>t DEF ReadyToCreate, PodExists, CredExists, Numbers
  <2>3. JustCreated => JustCreated'
    BY Zenon DEF JustCreated
  <2>4. ~PodExists => ~PodExists'
    BY <1>t DEF PodExists, Numbers
  <2> QED
    BY Zenon, <1>t, <2>1, <2>2, <2>3, <2>4 DEF ReconcileStanding
<1> USE DEF specVars, lifeVars, connVars, ctlVars, clusterUnchanged, SpecWrite, MetaWrite
<1>21. CASE SetHold
  BY Zenon, <1>21, <1>k DEF SetHold
<1>22. CASE RecordActivity
  BY Zenon, <1>22, <1>k DEF RecordActivity
<1>23. CASE Claim
  BY Zenon, <1>23, <1>k DEF Claim
<1>24. CASE RunEnds
  BY Zenon, <1>24, <1>k DEF RunEnds
<1>25. CASE ReleaseClaim
  BY Zenon, <1>25, <1>k DEF ReleaseClaim
<1>26. CASE IdleTimeoutElapses
  BY Zenon, <1>26, <1>k DEF IdleTimeoutElapses
<1>27. CASE ConfigChanges
  BY Zenon, <1>27, <1>k DEF ConfigChanges
<1>28. CASE PodGone
  BY Zenon, <1>28, <1>k DEF PodGone, NoPod
<1>29. CASE PodProgress
  <2>1. pod'.gen = pod.gen
    BY Zenon, <1>29 DEF PodProgress, TypeOK, DataOK, PodType
  <2> QED
    BY Zenon, <1>29, <1>k, <2>1 DEF PodProgress
<1>30. CASE BackoffElapses
  <2>1. recovery \in RecoveryType
    BY Zenon DEF TypeOK, DataOK
  <2>2. /\ recovery.next # "nil" /\ recovery'.next # "nil"
       /\ recovery'.exhausted = recovery.exhausted
    BY Zenon, <1>30, <2>1 DEF BackoffElapses, RecoveryType
  <2> QED
    BY Zenon, <1>30, <1>k, <2>2 DEF BackoffElapses
<1>31. ASSUME NEW id \in WakeIDs, NEW r \in WakeReasons, RequestWakeForReason(id, r)
    PROVE ReconcileStanding'
  BY Zenon, <1>31, <1>k DEF RequestWakeForReason
<1>32. ASSUME NEW seq \in FenceSequences, RequestSuspend(seq) PROVE ReconcileStanding'
  BY Zenon, <1>32, <1>k DEF RequestSuspend
<1>33. CASE UNCHANGED vars
  BY Zenon, <1>33, <1>k DEF vars
<1>34. CASE Begin
  <2>1. pc' \in {"fence", "invalid", "paused", "active"}
    BY Zenon, <1>34 DEF Begin, Gate
  <2>2. pc' = "paused" => suspended /\ ~FenceStarted
    BY Zenon, <1>34 DEF Begin, Gate
  <2>3. pc' = "active" => ~suspended /\ ~FenceStarted
    BY Zenon, <1>34 DEF Begin, Gate
  <2>4. holdOn => suspended
    BY Zenon, <1>34, <1>t DEF Begin, LifecycleSettled, NextSuspended, MustSuspend, FlagsOK
  <2>5. ~activity /\ UNCHANGED <<suspended, phase, pod, holdOn, activity>> /\ genFresh'
    BY Zenon, <1>34 DEF Begin, LifecycleSettled, unchangedByStep
  <2>6. pc' = "active" => OnActivePath'
    BY Zenon, <2>3, <2>4, <2>5 DEF OnActivePath, FenceStarted, PodExists
  <2>7. pc' = "paused" => suspended' /\ (phase' = "Invalid" => ~PodExists')
    BY Zenon, <2>2, <2>5 DEF FenceStarted, PodExists
  <2> QED
    BY Zenon, <2>1, <2>6, <2>7 DEF ReconcileStanding, StepsOfActive
<1>35. CASE PodReplacing
  <2>1. pc = "active" /\ phase # "Paused" /\ OnActivePath
    BY Zenon, <1>35, <1>t DEF PodReplacing, EnsurePod, Provisioning, ReconcileStanding, StepsOfActive
  <2>2. /\ phase' \in {phase, "Creating", "Resuming"}
       /\ UNCHANGED <<suspended, holdOn, activity, pod>>
    BY Zenon, <1>35 DEF PodReplacing, SetStatus, ReplacementPhase, unchangedByStep
  <2>3. CASE pc' = "delete" /\ UNCHANGED <<genFresh, rvFresh>>
    <3>1. OnActivePath'
      BY Zenon, <2>1, <2>2, <2>3 DEF OnActivePath, PodExists
    <3> QED
      BY Zenon, <2>1, <2>2, <2>3, <3>1 DEF ReconcileStanding
  <2>4. pc' = "idle" \/ (pc' = "delete" /\ UNCHANGED <<genFresh, rvFresh>>)
    BY Zenon, <1>35 DEF PodReplacing, Return
  <2> QED
    BY Zenon, <1>i, <2>3, <2>4
<1>36. CASE RotateCredentials
  <2>1. /\ pc = "active" /\ phase # "Paused" /\ OnActivePath /\ ~PodExists
       /\ recovery.next = "nil" /\ ~recovery.exhausted
    BY Zenon, <1>36, <1>t DEF RotateCredentials, EnsurePod, Provisioning, ReconcileStanding, StepsOfActive
  <2>2. /\ pc' = "reserve" /\ cred'.ident = execGen + 1
       /\ UNCHANGED <<phase, suspended, holdOn, activity, pod, genFresh, rvFresh, recovery>>
    BY Zenon, <1>36 DEF RotateCredentials, Continue, unchangedByStep
  <2>3. OnActivePath' /\ ReadyToCreate'
    BY <1>t, <2>1, <2>2 DEF OnActivePath, ReadyToCreate, PodExists, CredExists, Numbers
  <2> QED
    BY Zenon, <2>1, <2>2, <2>3 DEF ReconcileStanding
<1>37. CASE ReserveExecutionGeneration
  <2>1. pc = "reserve" /\ OnActivePath /\ ReadyToCreate
    BY Zenon, <1>37, <1>t DEF ReserveExecutionGeneration, ReconcileStanding, StepsOfActive
  <2>2. CASE genFresh /\ execGen < MaxExec
    <3>1. /\ pc' = "create" /\ phase' \in {"Creating", "Resuming"} /\ execGen' = execGen + 1
         /\ UNCHANGED <<genFresh, holdOn, suspended, pod, cred, created>>
      BY Zenon, <1>37, <2>2 DEF ReserveExecutionGeneration, NextGeneration, ReplacementPhase
    <3>2. activity' = FALSE
      BY Zenon, <1>37, <2>2 DEF ReserveExecutionGeneration
    <3>3. OnActivePath' /\ ReadyToCreate'
      BY Zenon, <2>1, <2>2, <3>1, <3>2 DEF OnActivePath, ReadyToCreate, PodExists, CredExists
    <3>4. created'.gen < execGen'
      BY <1>t, <3>1 DEF ExecutionOrder, Numbers
    <3> QED
      BY Zenon, <3>1, <3>3, <3>4 DEF ReconcileStanding
  <2>3. CASE ~ (genFresh /\ execGen < MaxExec)
    <3>1. pc' = "idle"
      BY Zenon, <1>37, <2>3 DEF ReserveExecutionGeneration, Return
    <3> QED
      BY Zenon, <1>i, <3>1
  <2> QED
    BY Zenon, <2>2, <2>3
<1>38. CASE CheckSources
  <2>1. /\ pc = "create" /\ phase # "Paused" /\ phase # "Invalid" /\ OnActivePath
       /\ ReadyToCreate /\ created.gen < execGen
    BY Zenon, <1>38, <1>t DEF CheckSources, ReconcileStanding, StepsOfActive
  <2>2. CASE CreationAuthorized
    <3>1. /\ pc' = "checked"
         /\ UNCHANGED <<phase, suspended, holdOn, activity, pod, cred, created, execGen,
                        genFresh, rvFresh>>
      BY Zenon, <1>38, <2>2 DEF CheckSources, Continue, unchangedByStep
    <3>2. OnActivePath' /\ ReadyToCreate'
      BY Zenon, <2>1, <3>1 DEF OnActivePath, ReadyToCreate, PodExists, CredExists
    <3> QED
      BY Zenon, <2>1, <3>1, <3>2 DEF ReconcileStanding
  <2>3. CASE ~CreationAuthorized
    BY Zenon, <1>38, <1>i, <2>3 DEF CheckSources, Return
  <2> QED
    BY Zenon, <2>2, <2>3
<1>39. CASE CreatePod
  <2>1. /\ pc = "checked" /\ phase # "Paused" /\ phase # "Invalid" /\ OnActivePath
       /\ created.gen < execGen
    BY Zenon, <1>39, <1>t DEF CreatePod, ReconcileStanding, StepsOfActive
  <2>2. /\ pc' = "recheck" /\ seen'.gen = execGen
       /\ created'.gen = execGen /\ created'.epoch = epoch
       /\ UNCHANGED <<phase, suspended, holdOn, activity, execGen, epoch, genFresh, rvFresh>>
    BY Zenon, <1>39 DEF CreatePod, unchangedByStep
  <2>3. OnActivePath'
    BY Zenon, <2>1, <2>2 DEF OnActivePath
  <2>4. JustCreated'
    BY <1>t, <2>1, <2>2 DEF JustCreated, Numbers
  <2> QED
    BY Zenon, <2>1, <2>2, <2>3, <2>4 DEF ReconcileStanding
<1>40. CASE RecheckSources
  <2>1. pc = "recheck" /\ phase # "Paused" /\ OnActivePath /\ JustCreated
    BY Zenon, <1>40, <1>t DEF RecheckSources, ReconcileStanding, StepsOfActive
  <2>2. CASE Continue("bind") /\ UNCHANGED <<connVars, pod>>
    <3>1. /\ pc' = "bind"
         /\ UNCHANGED <<phase, suspended, holdOn, activity, pod, created, execGen, epoch,
                        seen, genFresh, rvFresh>>
      BY Zenon, <1>40, <2>2 DEF RecheckSources, Continue, unchangedByStep
    <3>2. OnActivePath' /\ JustCreated'
      BY Zenon, <2>1, <3>1 DEF OnActivePath, JustCreated, PodExists
    <3> QED
      BY Zenon, <2>1, <3>1, <3>2 DEF ReconcileStanding
  <2>3. pc' = "idle" \/ (Continue("bind") /\ UNCHANGED <<connVars, pod>>)
    BY Zenon, <1>40 DEF RecheckSources, Return
  <2> QED
    BY Zenon, <1>i, <2>2, <2>3
<1>41. CASE BindCredentials
  <2>1. pc = "bind" /\ phase # "Paused" /\ OnActivePath /\ JustCreated
    BY Zenon, <1>41, <1>t DEF BindCredentials, ReconcileStanding, StepsOfActive
  <2>2. /\ pc' = "sync"
       /\ UNCHANGED <<phase, suspended, holdOn, activity, pod, created, execGen, epoch,
                        seen, genFresh, rvFresh>>
    BY Zenon, <1>41 DEF BindCredentials, Continue, unchangedByStep
  <2>3. OnActivePath' /\ JustCreated'
    BY Zenon, <2>1, <2>2 DEF OnActivePath, JustCreated, PodExists
  <2> QED
    BY Zenon, <2>1, <2>2, <2>3 DEF ReconcileStanding
<1>42. CASE ObservePod
  <2>1. pc = "active" /\ phase # "Paused" /\ OnActivePath
    BY Zenon, <1>42, <1>t DEF ObservePod, EnsurePod, Provisioning, ReconcileStanding, StepsOfActive
  <2>2. /\ pc' = "sync" /\ seen'.gen = pod.gen /\ PodExists /\ pod.gen = execGen
       /\ UNCHANGED <<phase, suspended, holdOn, activity, pod, created, execGen, epoch,
                        genFresh, rvFresh>>
    BY Zenon, <1>42 DEF ObservePod, CurrentSandboxdPod, unchangedByStep
  <2>3. OnActivePath'
    BY Zenon, <2>1, <2>2 DEF OnActivePath, PodExists
  <2>4. JustCreated'
    BY Zenon, <1>t, <2>1, <2>2 DEF JustCreated, ExecutionOrder, OnActivePath, PodExists, Numbers
  <2> QED
    BY Zenon, <2>1, <2>2, <2>3, <2>4 DEF ReconcileStanding
<1>43. CASE SyncStatus
  <2>1. pc = "sync" /\ phase # "Paused" /\ OnActivePath
    BY Zenon, <1>43, <1>t DEF SyncStatus, ReconcileStanding, StepsOfActive
  <2>2. pc' = "idle" \/ (pc' = "idlecheck" /\ genFresh' = genFresh /\ (rvFresh' => rvFresh))
    BY Zenon, <1>43 DEF SyncStatus, Return
  <2>3. /\ phase' \in {phase, "Ready", "Resuming", "Failed", "Setup", "Creating"}
       /\ UNCHANGED <<suspended, holdOn, activity, pod>>
    BY Zenon, <1>43 DEF SyncStatus, SetStatus, EnvironmentPodState, unchangedByStep
  <2>4. pc' = "idlecheck" => OnActivePath'
    BY Zenon, <2>1, <2>2, <2>3 DEF OnActivePath, PodExists
  <2> QED
    BY Zenon, <1>i, <2>1, <2>2, <2>3, <2>4 DEF ReconcileStanding, StepsOfActive
<1>44. CASE IdleCheck
  <2>1. pc = "idlecheck" /\ phase # "Paused" /\ OnActivePath
    BY Zenon, <1>44, <1>t DEF IdleCheck, ReconcileStanding, StepsOfActive
  <2>2. CASE claim # "active" /\ lastActive = "old"
    <3>1. /\ pc' = "suspendIdle" /\ claim' # "active"
         /\ UNCHANGED <<phase, suspended, holdOn, activity, pod, genFresh, rvFresh>>
      BY Zenon, <1>44, <2>2 DEF IdleCheck, Continue, unchangedByStep
    <3>2. OnActivePath'
      BY Zenon, <2>1, <3>1 DEF OnActivePath, PodExists
    <3> QED
      BY Zenon, <2>1, <3>1, <3>2 DEF ReconcileStanding
  <2>3. CASE ~ (claim # "active" /\ lastActive = "old")
    BY Zenon, <1>44, <1>i, <2>3 DEF IdleCheck, Return
  <2> QED
    BY Zenon, <2>2, <2>3
<1> HIDE DEF ReconcileStanding
<1>45. CASE Publisher
  BY Zenon, <1>45, <1>21, <1>22, <1>23, <1>24, <1>25, <1>31, <1>32 DEF Publisher
<1>46. CASE Cluster
  BY Zenon, <1>46, <1>26, <1>27, <1>28, <1>29, <1>30 DEF Cluster
<1>47. CASE ReconcilePaused
  BY Zenon, <1>47, <1>1, <1>2, <1>3, <1>4, <1>5 DEF ReconcilePaused
<1>48. CASE ReconcileActive
  BY Zenon, <1>48, <1>7, <1>8, <1>9, <1>10, <1>11, <1>12, <1>13, <1>14, <1>15, <1>35, <1>36, <1>37,
     <1>38, <1>39, <1>40, <1>41, <1>42, <1>43, <1>44 DEF ReconcileActive
<1>49. CASE Reconcile
  BY Zenon, <1>49, <1>6, <1>18, <1>19, <1>20, <1>34, <1>47, <1>48 DEF Reconcile
<1> QED
  BY Zenon, <1>16, <1>17, <1>33, <1>45, <1>46, <1>49 DEF Next

\* InductiveInvariant holds in every reachable state.
THEOREM Inductive == Spec => []InductiveInvariant
<1>1. Init => InductiveInvariant
  BY DEF Init, InductiveInvariant, ReconcileStanding, ExecutionOrder, PausedMeansAbsent,
      PodHasCredential, PendingIsSuspended, NoConnectionFromOlderEpoch, RecoveryHoldsBack,
      PodExists, CredExists, NoPod, NoCred, NoRecovery, StepsOfActive
<1>2. TypeOK /\ InductiveInvariant /\ [Next]_vars => InductiveInvariant'
  BY Zenon, StateStep, StandingStep DEF InductiveInvariant, StateInvariant
<1> QED
  BY <1>1, <1>2, TypeCorrect, PTL DEF Spec

\* A Paused Environment has no Pod, no credential and no connection
\* (reconcilePaused).
THEOREM PausedIsAbsent == Spec => []PausedMeansAbsent
<1>1. InductiveInvariant => PausedMeansAbsent
  BY Zenon DEF InductiveInvariant
<1> QED
  BY <1>1, Inductive, PTL

\* A Pod never outlives its credential: fences revoke it only after the Pod is gone.
THEOREM CredentialOutlivesPod == Spec => []PodHasCredential
<1>1. InductiveInvariant => PodHasCredential
  BY Zenon DEF InductiveInvariant
<1> QED
  BY <1>1, Inductive, PTL

\* An accepted suspend request keeps the Environment suspended until it is
\* acknowledged.
THEOREM PendingKeepsSuspended == Spec => []PendingIsSuspended
<1>1. InductiveInvariant => PendingIsSuspended
  BY Zenon DEF InductiveInvariant
<1> QED
  BY <1>1, Inductive, PTL

\* A running Environment publishes no connection to a Pod created before its last
\* suspension.
THEOREM OlderEpochsFenced == Spec => []NoConnectionFromOlderEpoch
<1>1. InductiveInvariant => NoConnectionFromOlderEpoch
  BY Zenon DEF InductiveInvariant
<1> QED
  BY <1>1, Inductive, PTL

\* No execution starts while a recovery is scheduled or exhausted.
THEOREM RecoveryStartsNothing == Spec => []RecoveryHoldsBack
<1>1. InductiveInvariant => RecoveryHoldsBack
  BY Zenon DEF InductiveInvariant
<1> QED
  BY <1>1, Inductive, PTL

\* The replacement budget needs no strengthening: reconcileTerminalPod schedules an
\* attempt only below the limit, and only the recovery gate counts it.
LEMMA BudgetStep == TypeOK /\ RecoveryBudget /\ [Next]_vars => RecoveryBudget'
<1> SUFFICES ASSUME TypeOK, RecoveryBudget, [Next]_vars PROVE RecoveryBudget'
  OBVIOUS
<1>1. UNCHANGED recovery => RecoveryBudget'
  BY Zenon DEF RecoveryBudget
<1>2. recovery \in RecoveryType /\ RecoveryLimit \in Nat
  BY Zenon, LifecycleAssumption DEF TypeOK, DataOK
<1>3. CASE Quiet
  BY Zenon, <1>1, <1>3 DEF Quiet, backend
<1>4. CASE Withdrawal
  BY Zenon, <1>1, <1>4, WithdrawalsWithdraw DEF Withdrawn, backend
<1>5. CASE BackoffElapses
  BY Zenon, <1>2, <1>5 DEF BackoffElapses, RecoveryBudget, RecoveryType
<1>6. CASE RecoveryAttempt
  BY <1>2, <1>6 DEF RecoveryAttempt, RecoveryBudget, RecoveryType
<1>7. CASE TerminalPod
  <2>1. CASE recovery' = [recovery EXCEPT !.exhausted = TRUE, !.gen = pod.gen]
    BY Zenon, <1>2, <2>1 DEF RecoveryBudget, RecoveryType
  <2>2. CASE /\ RecoveryLeft
             /\ recovery' = [recovery EXCEPT !.gen = pod.gen, !.next = "wait"]
    BY Zenon, <1>2, <2>2 DEF RecoveryLeft, RecoveryBudget, RecoveryType
  <2> QED
    BY Zenon, <1>1, <1>7, <2>1, <2>2 DEF TerminalPod
<1>8. CASE SyncStatus
  BY <1>2, <1>8 DEF SyncStatus, NoRecovery, RecoveryBudget
<1>9. CASE PodGone
  BY Zenon, <1>1, <1>9 DEF PodGone, clusterUnchanged
<1>10. CASE ReconcileLifecycleIntent
  BY Zenon, <1>1, <1>10 DEF ReconcileLifecycleIntent
<1>11. CASE PauseRevoke
  BY Zenon, <1>1, <1>11 DEF PauseRevoke
<1>12. CASE PauseAcknowledge
  BY Zenon, <1>1, <1>12 DEF PauseAcknowledge
<1>13. CASE PauseDone
  BY Zenon, <1>1, <1>13 DEF PauseDone
<1>14. CASE InvalidFence
  BY Zenon, <1>1, <1>14 DEF InvalidFence
<1>15. CASE RotateCredentials
  BY Zenon, <1>1, <1>15 DEF RotateCredentials
<1>16. CASE ReserveExecutionGeneration
  BY Zenon, <1>1, <1>16 DEF ReserveExecutionGeneration
<1>17. CASE CreatePod
  BY Zenon, <1>1, <1>17 DEF CreatePod
<1>18. CASE SuspendIdle
  BY Zenon, <1>1, <1>18 DEF SuspendIdle
<1> HIDE DEF RecoveryBudget
<1>19. CASE Special
  BY Zenon, <1>5, <1>6, <1>7, <1>8, <1>9, <1>10, <1>11, <1>12, <1>13, <1>14, <1>15, <1>16, <1>17,
     <1>18, <1>19 DEF Special
<1>20. Quiet \/ Withdrawal \/ Special
  BY Zenon, Effects
<1> QED
  BY Zenon, <1>3, <1>4, <1>19, <1>20

\* At most RecoveryLimit Pods are replaced without an execution becoming ready in
\* between.
THEOREM BudgetKept == Spec => []RecoveryBudget
<1>1. Init => RecoveryBudget
  BY LifecycleAssumption DEF Init, RecoveryBudget, NoRecovery
<1> QED
  BY <1>1, TypeCorrect, BudgetStep, PTL DEF Spec

\* Everything the runs check of a state of an execution (ExecutionSound) holds for any
\* bounds and faults: types, what reconcile steps rely on, and the recovery budget.
THEOREM Sound == Spec => []ExecutionSound
<1> QED
  BY TypeCorrect, Inductive, BudgetKept, PTL DEF ExecutionSound

-----------------------------------------------------------------------------
(* What a step may never do.                                               *)

\* The action properties about the fence, the connection and the generations ...
FenceStep ==
    /\ ReleaseAfterFenceStep
    /\ AcknowledgedAfterFenceStep
    /\ ReleaseIsAuthorizedStep
    /\ PublishedOnlyWhileAllowedStep
    /\ IdleNeverOvertakesStep
    /\ GenerationNeverReusedStep
\* ... and those about the phase.
PhaseStep == ResumeIntentDurableStep /\ InvalidFenceCompletesStep

\* A step breaks the properties of the fence only if it changes the suspension, the
\* acknowledgement, the connection or the Pod.
LEMMA FenceSteps == TypeOK /\ InductiveInvariant /\ [Next]_vars => FenceStep
<1> SUFFICES ASSUME TypeOK, InductiveInvariant, [Next]_vars PROVE FenceStep
  OBVIOUS
<1>t. /\ Numbers /\ Numbers' /\ FlagsOK /\ FlagsOK'
     /\ ReconcileStanding /\ ExecutionOrder /\ PausedMeansAbsent
  BY Zenon, NumbersTyped, FlagsStep DEF TypeOK, InductiveInvariant
<1>d. DeletePod => pod'.gen = pod.gen
  BY DeletePodFrame
<1> DEFINE Calm == /\ suspended' = suspended /\ pending' = pending
                   /\ endpoint' \in {endpoint, 0} /\ pod'.gen \in {pod.gen, 0}
<1>c. Calm => FenceStep
  BY DEF FenceStep, ReleaseAfterFenceStep, AcknowledgedAfterFenceStep, ReleaseIsAuthorizedStep,
      PublishedOnlyWhileAllowedStep, IdleNeverOvertakesStep, GenerationNeverReusedStep
<1> USE DEF connVars, lifeVars, unchangedByStep
<1>1. CASE Quiet
  BY Zenon, <1>1, <1>c DEF Quiet, backend
<1>2. CASE Withdrawal
  BY Zenon, <1>2, <1>c, WithdrawalsWithdraw DEF Withdrawn, backend
<1>3. CASE PodGone
  BY Zenon, <1>3, <1>c DEF PodGone, NoPod, clusterUnchanged
<1>4. CASE BackoffElapses
  BY Zenon, <1>4, <1>c DEF BackoffElapses
<1>5. CASE ReconcileLifecycleIntent
  <2>1. UNCHANGED <<connVars, pod>>
    BY Zenon, <1>5 DEF ReconcileLifecycleIntent, ctlRest
  <2>2. ASSUME suspended, ~suspended'
        PROVE  /\ ~MustSuspend /\ ~BackendFencePending /\ phase = "Paused"
               /\ reason # "Hold" => ReleaseWake
    <3>1. ~MustSuspend /\ Resume
      <4>1. suspended' = NextSuspended
        BY Zenon, <1>5 DEF ReconcileLifecycleIntent
      <4> QED
        BY Zenon, <2>2, <4>1, Zenon DEF NextSuspended
    <3>2. ~BackendFencePending
      BY Zenon, <3>1 DEF Resume, ReleaseHold, ReleaseWake, ConsumeWake, MustSuspend
    <3> QED
      BY Zenon, <2>2, <3>1, <3>2 DEF BackendFencePending, Resume, ReleaseHold
  <2>3. ReleaseAfterFenceStep
    BY Zenon, <1>t, <2>2 DEF ReleaseAfterFenceStep, PausedMeansAbsent, Published, MustSuspend,
      SuspendRequested, SuspendInFlight
  <2>4. ReleaseIsAuthorizedStep
    BY Zenon, <1>5, <2>2 DEF ReleaseIsAuthorizedStep, ReconcileLifecycleIntent, MustSuspend, ReleaseWake,
      ConsumeWake, WakeNew, WakeReasonMatches, WakeSuspensionReason, SuspendRequested
  <2>5. AcknowledgedAfterFenceStep
    BY Zenon, <1>5 DEF AcknowledgedAfterFenceStep, ReconcileLifecycleIntent, SuspendNew, SuspendInFlight
  <2>6. IdleNeverOvertakesStep
    BY Zenon, <1>5, <1>t DEF IdleNeverOvertakesStep, ReconcileLifecycleIntent, NextReason, NextSuspended,
      MustSuspend, SuspendRequested, SuspendNew, SuspendInFlight, FlagsOK
  <2> QED
    BY Zenon, <2>1, <2>3, <2>4, <2>5, <2>6 DEF FenceStep, PublishedOnlyWhileAllowedStep,
      GenerationNeverReusedStep
<1>6. CASE PauseRevoke
  BY Zenon, <1>6, <1>c DEF PauseRevoke
<1>7. CASE PauseAcknowledge
  <2>1. CASE pending' = pending
    BY Zenon, <1>7, <1>c, <2>1 DEF PauseAcknowledge, FailStatus, SetStatus
  <2>2. CASE pending' # pending
    BY Zenon, <1>7, <2>2 DEF PauseAcknowledge, BackendAbsent, FenceStep, ReleaseAfterFenceStep,
      AcknowledgedAfterFenceStep, ReleaseIsAuthorizedStep, PublishedOnlyWhileAllowedStep,
      IdleNeverOvertakesStep, GenerationNeverReusedStep
  <2> QED
    BY Zenon, <2>1, <2>2
<1>8. CASE PauseDone
  BY Zenon, <1>8, <1>c DEF PauseDone, SetStatus
<1>9. CASE InvalidFence
  BY Zenon, <1>9, <1>c, <1>d DEF InvalidFence
<1>10. CASE RecoveryAttempt
  BY Zenon, <1>10, <1>c DEF RecoveryAttempt
<1>11. CASE TerminalPod
  BY Zenon, <1>11, <1>c, <1>d DEF TerminalPod
<1>12. CASE RotateCredentials
  BY Zenon, <1>12, <1>c DEF RotateCredentials
<1>13. CASE ReserveExecutionGeneration
  BY Zenon, <1>13, <1>c DEF ReserveExecutionGeneration, SetStatus
<1>14. CASE CreatePod
  <2>1. GenerationNeverReusedStep
    BY Zenon, <1>14, <1>t DEF CreatePod, GenerationNeverReusedStep, ReconcileStanding, Numbers
  <2> QED
    BY Zenon, <1>14, <2>1 DEF CreatePod, FenceStep, ReleaseAfterFenceStep, AcknowledgedAfterFenceStep,
      ReleaseIsAuthorizedStep, PublishedOnlyWhileAllowedStep, IdleNeverOvertakesStep
<1>15. CASE SyncStatus
  <2>1. PublishedOnlyWhileAllowedStep
    BY Zenon, <1>15, <1>t DEF SyncStatus, SetStatus, PublishedOnlyWhileAllowedStep, ReconcileStanding,
      OnActivePath, StepsOfActive
  <2> QED
    BY Zenon, <1>15, <2>1 DEF SyncStatus, FenceStep, ReleaseAfterFenceStep, AcknowledgedAfterFenceStep,
      ReleaseIsAuthorizedStep, IdleNeverOvertakesStep, GenerationNeverReusedStep
<1>16. CASE SuspendIdle
  <2>1. IdleNeverOvertakesStep
    BY Zenon, <1>16, <1>t DEF SuspendIdle, IdleNeverOvertakesStep, ReconcileStanding,
      OnActivePath, StepsOfActive
  <2>2. ~ (suspended /\ ~suspended')
    BY Zenon, <1>16 DEF SuspendIdle
  <2> QED
    BY Zenon, <1>16, <2>1, <2>2 DEF SuspendIdle, FenceStep, ReleaseAfterFenceStep,
      AcknowledgedAfterFenceStep, ReleaseIsAuthorizedStep, PublishedOnlyWhileAllowedStep,
      GenerationNeverReusedStep
<1> QED
  BY Zenon, Effects, <1>1, <1>2, <1>3, <1>4, <1>5, <1>6, <1>7, <1>8, <1>9, <1>10, <1>11, <1>12,
     <1>13, <1>14, <1>15, <1>16 DEF Special

\* Only status writes change the phase; each leaves Resuming and Invalid only where
\* the properties allow it.
LEMMA PhaseSteps == TypeOK /\ InductiveInvariant /\ [Next]_vars => PhaseStep
<1> SUFFICES ASSUME TypeOK, InductiveInvariant, [Next]_vars PROVE PhaseStep
  OBVIOUS
<1>t. Numbers /\ FlagsOK /\ ReconcileStanding
  BY Zenon, NumbersTyped DEF TypeOK, InductiveInvariant
<1>u. phase' = phase => PhaseStep
  BY Zenon DEF PhaseStep, ResumeIntentDurableStep, InvalidFenceCompletesStep
<1>1. CASE Quiet
  BY Zenon, <1>1, <1>u DEF Quiet, connVars
<1>2. CASE PodGone
  BY Zenon, <1>2, <1>u DEF PodGone, connVars, clusterUnchanged
<1>3. CASE BackoffElapses
  BY Zenon, <1>3, <1>u DEF BackoffElapses, connVars
<1>4. CASE ReconcileLifecycleIntent
  BY Zenon, <1>4, <1>u DEF ReconcileLifecycleIntent, connVars
<1>5. CASE PauseRevoke
  BY Zenon, <1>5, <1>u DEF PauseRevoke, connVars
<1>6. CASE InvalidFence
  BY Zenon, <1>6, <1>u DEF InvalidFence, connVars
<1>7. CASE RotateCredentials
  BY Zenon, <1>7, <1>u DEF RotateCredentials, connVars
<1>8. CASE CreatePod
  BY Zenon, <1>8, <1>u DEF CreatePod, connVars
<1> USE <1>t DEF FlagsOK, PhaseStep, ResumeIntentDurableStep, InvalidFenceCompletesStep,
    ReconcileStanding, OnActivePath, StepsOfActive, connVars, lifeVars, unchangedByStep,
    SetStatus, ReplacementPhase, IsResumeReplacement
<1>9. CASE PauseWithdraw
  BY Zenon, <1>9 DEF PauseWithdraw
<1>10. CASE InvalidWithdraw
  BY Zenon, <1>10 DEF InvalidWithdraw
<1>11. CASE RecoveryExhausted
  BY Zenon, <1>11 DEF RecoveryExhausted
<1>12. CASE RecoveryBackoff
  BY Zenon, <1>12 DEF RecoveryBackoff
<1>13. CASE ResumeFromPaused
  BY Zenon, <1>13 DEF ResumeFromPaused, Provisioning
<1>14. CASE PodTerminating
  BY Zenon, <1>14 DEF PodTerminating, EnsurePod, Provisioning
<1>15. CASE PodReplacing
  BY Zenon, <1>15 DEF PodReplacing, EnsurePod, Provisioning
<1>16. CASE PodMissing
  BY Zenon, <1>16 DEF PodMissing
<1>17. CASE CheckSources
  BY Zenon, <1>17 DEF CheckSources, FailStatus
<1>18. CASE RecheckSources
  BY Zenon, <1>18 DEF RecheckSources, FailStatus
<1>19. CASE Fail
  BY Zenon, <1>19 DEF Fail, FailStatus
<1>20. CASE PauseAcknowledge
  BY Zenon, <1>20 DEF PauseAcknowledge
<1>21. CASE PauseDone
  BY Zenon, <1>21 DEF PauseDone, BackendAbsent
<1>22. CASE RecoveryAttempt
  BY Zenon, <1>22 DEF RecoveryAttempt
<1>23. CASE TerminalPod
  BY Zenon, <1>23 DEF TerminalPod, EnsurePod, Provisioning, CurrentSandboxdPod
<1>24. CASE ReserveExecutionGeneration
  BY Zenon, <1>24 DEF ReserveExecutionGeneration
<1>25. CASE SyncStatus
  BY Zenon, <1>25 DEF SyncStatus, EnvironmentPodState
<1>26. CASE SuspendIdle
  BY Zenon, <1>26 DEF SuspendIdle
<1> HIDE DEF PhaseStep
<1> QED
  BY Zenon, Effects, <1>1, <1>2, <1>3, <1>4, <1>5, <1>6, <1>7, <1>8, <1>9, <1>10, <1>11, <1>12,
     <1>13, <1>14, <1>15, <1>16, <1>17, <1>18, <1>19, <1>20, <1>21, <1>22, <1>23, <1>24,
     <1>25, <1>26
  DEF Withdrawal, Special

\* Suspension ends only after Pod, credential and connection are gone and every
\* accepted request is acknowledged.
THEOREM FenceBeforeRelease == Spec => ReleaseAfterFence
<1>1. TypeOK /\ InductiveInvariant /\ [Next]_vars => [ReleaseAfterFenceStep]_vars
  BY Zenon, FenceSteps DEF FenceStep
<1> QED
  BY <1>1, TypeCorrect, Inductive, PTL DEF Spec, ReleaseAfterFence

\* An accepted suspend request is acknowledged only after its fence.
THEOREM FenceBeforeAcknowledgement == Spec => AcknowledgedAfterFence
<1>1. TypeOK /\ InductiveInvariant /\ [Next]_vars => [AcknowledgedAfterFenceStep]_vars
  BY Zenon, FenceSteps DEF FenceStep
<1> QED
  BY <1>1, TypeCorrect, Inductive, PTL DEF Spec, AcknowledgedAfterFence

\* Only the end of a hold releases a Hold, only a matching new wake any other
\* suspension.
THEOREM ReleasesAreAuthorized == Spec => ReleaseIsAuthorized
<1>1. TypeOK /\ InductiveInvariant /\ [Next]_vars => [ReleaseIsAuthorizedStep]_vars
  BY Zenon, FenceSteps DEF FenceStep
<1> QED
  BY <1>1, TypeCorrect, Inductive, PTL DEF Spec, ReleaseIsAuthorized

\* A stale reconcile never publishes a connection under a hold or a suspension.
THEOREM PublishedWhileAllowed == Spec => PublishedOnlyWhileAllowed
<1>1. TypeOK /\ InductiveInvariant /\ [Next]_vars => [PublishedOnlyWhileAllowedStep]_vars
  BY Zenon, FenceSteps DEF FenceStep
<1> QED
  BY <1>1, TypeCorrect, Inductive, PTL DEF Spec, PublishedOnlyWhileAllowed

\* A stale reconcile never suspends an Environment as idle that was claimed, used or
\* held meanwhile.
THEOREM IdleIsNotStale == Spec => IdleNeverOvertakes
<1>1. TypeOK /\ InductiveInvariant /\ [Next]_vars => [IdleNeverOvertakesStep]_vars
  BY Zenon, FenceSteps DEF FenceStep
<1> QED
  BY <1>1, TypeCorrect, Inductive, PTL DEF Spec, IdleNeverOvertakes

\* No two Pods of an Environment have the same execution generation.
THEOREM GenerationsAreFresh == Spec => GenerationNeverReused
<1>1. TypeOK /\ InductiveInvariant /\ [Next]_vars => [GenerationNeverReusedStep]_vars
  BY Zenon, FenceSteps DEF FenceStep
<1> QED
  BY <1>1, TypeCorrect, Inductive, PTL DEF Spec, GenerationNeverReused

\* Resuming survives failed creates, replacements and operational errors until the
\* Pod is ready.
THEOREM ResumeIsDurable == Spec => ResumeIntentDurable
<1>1. TypeOK /\ InductiveInvariant /\ [Next]_vars => [ResumeIntentDurableStep]_vars
  BY Zenon, PhaseSteps DEF PhaseStep
<1> QED
  BY <1>1, TypeCorrect, Inductive, PTL DEF Spec, ResumeIntentDurable

\* The fence of an invalid configuration removes the Pod before the Environment is
\* used again.
THEOREM InvalidFenceFinishes == Spec => InvalidFenceCompletes
<1>1. TypeOK /\ InductiveInvariant /\ [Next]_vars => [InvalidFenceCompletesStep]_vars
  BY Zenon, PhaseSteps DEF PhaseStep
<1> QED
  BY <1>1, TypeCorrect, Inductive, PTL DEF Spec, InvalidFenceCompletes

-----------------------------------------------------------------------------
(* The controller implements ExecutionDomain.                              *)

DomainNext == [Domain!Next]_(Domain!domain)

\* Every step of the controller and its surroundings is a step of the abstract
\* execution domain or leaves it alone.
LEMMA DomainStep == TypeOK /\ InductiveInvariant /\ [Next]_vars => DomainNext
<1> SUFFICES ASSUME TypeOK, InductiveInvariant, [Next]_vars PROVE DomainNext
  OBVIOUS
<1>t. /\ Numbers /\ Numbers' /\ FlagsOK /\ FlagsOK'
     /\ ReconcileStanding /\ ExecutionOrder /\ PausedMeansAbsent
  BY NumbersTyped, FlagsStep DEF TypeOK, InductiveInvariant
<1>d. DeletePod => pod'.gen = pod.gen
  BY DeletePodFrame
<1> DEFINE Calm == /\ suspended' = suspended /\ created'.gen = created.gen
                   /\ endpoint' \in {endpoint, 0} /\ pod'.gen = pod.gen
<1>c. Calm => DomainNext
  BY Zenon DEF DomainNext, Domain!Next, Domain!Withdraw, Domain!domain, PodExists
<1> USE DEF connVars, lifeVars, unchangedByStep
<1>1. CASE Quiet
  BY Zenon, <1>1, <1>c DEF Quiet, backend
<1>2. CASE Withdrawal
  BY Zenon, <1>2, <1>c, WithdrawalsWithdraw DEF Withdrawn, backend
<1>3. CASE PodGone
  <2>1. Domain!Stop
    BY <1>3, <1>t DEF PodGone, NoPod, PodExists, clusterUnchanged, Domain!Stop
  <2> QED
    BY Zenon, <2>1 DEF DomainNext, Domain!Next
<1>4. CASE BackoffElapses
  BY Zenon, <1>4, <1>c DEF BackoffElapses
<1>5. CASE ReconcileLifecycleIntent
  <2>1. UNCHANGED <<pod, endpoint, created>>
    BY Zenon, <1>5 DEF ReconcileLifecycleIntent, ctlRest
  <2>2. CASE suspended' = suspended
    BY Zenon, <1>c, <2>1, <2>2
  <2>3. CASE ~suspended /\ suspended'
    <3>1. Domain!Suspend
      BY Zenon, <1>t, <2>1, <2>3 DEF FlagsOK, PodExists, Domain!Suspend
    <3> QED
      BY Zenon, <3>1 DEF DomainNext, Domain!Next
  <2>4. CASE suspended /\ ~suspended'
    <3>1. ~PodExists /\ endpoint = 0
      BY Zenon, <1>t, <2>4, FenceSteps DEF FenceStep, ReleaseAfterFenceStep, Published
    <3>2. Domain!Release
      BY Zenon, <1>t, <2>1, <2>4, <3>1 DEF FlagsOK, PodExists, Domain!Release
    <3> QED
      BY Zenon, <3>2 DEF DomainNext, Domain!Next
  <2> QED
    BY Zenon, <1>t, <2>2, <2>3, <2>4 DEF FlagsOK
<1>6. CASE PauseRevoke
  BY Zenon, <1>6, <1>c DEF PauseRevoke
<1>7. CASE PauseAcknowledge
  BY Zenon, <1>7, <1>c DEF PauseAcknowledge, FailStatus, SetStatus
<1>8. CASE PauseDone
  BY Zenon, <1>8, <1>c DEF PauseDone, SetStatus
<1>9. CASE InvalidFence
  BY Zenon, <1>9, <1>c, <1>d DEF InvalidFence
<1>10. CASE RecoveryAttempt
  BY Zenon, <1>10, <1>c DEF RecoveryAttempt
<1>11. CASE TerminalPod
  BY Zenon, <1>11, <1>c, <1>d DEF TerminalPod
<1>12. CASE RotateCredentials
  BY Zenon, <1>12, <1>c DEF RotateCredentials
<1>13. CASE ReserveExecutionGeneration
  BY Zenon, <1>13, <1>c DEF ReserveExecutionGeneration, SetStatus
<1>14. CASE CreatePod
  <2>1. ~PodExists /\ ~suspended /\ created.gen < execGen
    BY Zenon, <1>14, <1>t DEF CreatePod, ReconcileStanding, ReadyToCreate, OnActivePath, StepsOfActive
  <2>2. endpoint = 0
    BY <1>t, <2>1 DEF ExecutionOrder, Numbers
  <2>3. /\ pod'.gen = execGen /\ created'.gen = execGen
       /\ UNCHANGED <<endpoint, suspended>>
    BY Zenon, <1>14 DEF CreatePod
  <2>4. Domain!Start
    BY <1>t, <2>1, <2>2, <2>3 DEF Domain!Start, PodExists, Numbers
  <2> QED
    BY Zenon, <2>4 DEF DomainNext, Domain!Next
<1>15. CASE SyncStatus
  <2>1. created'.gen = created.gen /\ UNCHANGED <<pod, suspended>>
    BY Zenon, <1>15 DEF SyncStatus, TypeOK, DataOK
  <2>2. CASE endpoint' \in {endpoint, 0}
    BY Zenon, <1>c, <2>1, <2>2
  <2>3. CASE endpoint' \notin {endpoint, 0}
    <3>1. ~suspended /\ created.gen # 0 /\ endpoint' = created.gen
      BY Zenon, <1>15, <1>t, <2>3 DEF SyncStatus, SetStatus, ReconcileStanding, OnActivePath, JustCreated,
        StepsOfActive, Numbers
    <3>2. Domain!Publish
      BY Zenon, <2>1, <3>1 DEF Domain!Publish, PodExists
    <3> QED
      BY Zenon, <3>2 DEF DomainNext, Domain!Next
  <2> QED
    BY Zenon, <2>2, <2>3
<1>16. CASE SuspendIdle
  <2>1. CASE ~rvFresh
    BY Zenon, <1>16, <1>c, <2>1 DEF SuspendIdle
  <2>2. CASE rvFresh
    <3>1. ~suspended
      BY Zenon, <1>16, <1>t DEF SuspendIdle, ReconcileStanding, OnActivePath, StepsOfActive
    <3>2. Domain!Suspend
      BY Zenon, <1>16, <2>2, <3>1 DEF SuspendIdle, PodExists, Domain!Suspend
    <3> QED
      BY <3>2 DEF DomainNext, Domain!Next
  <2> QED
    BY Zenon, <2>1, <2>2
<1> QED
  BY Effects, <1>1, <1>2, <1>3, <1>4, <1>5, <1>6, <1>7, <1>8, <1>9, <1>10, <1>11, <1>12,
     <1>13, <1>14, <1>15, <1>16 DEF Special

\* What an Environment promises to whatever runs in it and connects to it
\* (ExecutionDomain) is kept by its controller.
THEOREM DomainRefined == Spec => ImplementsDomain
<1>1. Init => Domain!Init
  BY DEF Init, Domain!Init, PodExists, NoPod
<1>2. TypeOK /\ InductiveInvariant /\ [Next]_vars => [Domain!Next]_(Domain!domain)
  BY Zenon, DomainStep DEF DomainNext
<1> QED
  BY <1>1, <1>2, TypeCorrect, Inductive, PTL DEF Spec, ImplementsDomain, Domain!Spec
=============================================================================
