------------------------ MODULE EnvironmentLifecycle ------------------------
(***************************************************************************)
(* One Environment of the platform and the controller that owns it         *)
(* (internal/controllers/environment_*.go): the lifecycle intents other    *)
(* components publish (internal/lifecycle/intent.go), the status the       *)
(* controller derives from them, and the Pod and the sandboxd credential   *)
(* Secret it creates and destroys.                                         *)
(*                                                                         *)
(* A reconcile is a sequence of steps, one for each write to the API       *)
(* server, because other actors write between them.  `pc' is where the     *)
(* running reconcile stands.  The object it read at its start may have     *)
(* gone stale since: `genFresh' says metadata.generation is still the one  *)
(* it read (only spec writes advance it), `rvFresh' says resourceVersion   *)
(* is (every write advances it).  One reconcile of an Environment runs at  *)
(* a time, so a read followed by a compare-and-swap is one step.           *)
(*                                                                         *)
(* A Pod's UID and its random sandboxd identity are both stood for by its  *)
(* execution generation: no two Pods have the same (GenerationNeverReused).*)
(* A suspend request's ID is stood for by its sequence, from which every   *)
(* publisher derives it.  The empty string is "none".  The Environment has *)
(* one verified Project, so Pods have init containers.                     *)
(***************************************************************************)
EXTENDS Integers

CONSTANTS
    WakeIDs,        \* IDs of ordinary wake requests (a Run's is "run/UID/wake")
    RecoveryLimit,  \* podRecoveryLimit: replacements of terminal Pods
    MaxExec,        \* stands for math.MaxInt64, the last execution generation
    MaxHold,        \* bound: hold-policy revisions
    MaxSeq,         \* bound: sequence of a suspend request
    MaxEpoch,       \* bound: the idle timeout elapses only below this epoch
    Faults          \* what may go wrong: a subset of FaultKinds

FaultKinds == {"crash", "error", "podEnds", "podLost", "podStuck", "config"}

ASSUME LifecycleAssumption ==
    /\ "none" \notin WakeIDs
    /\ RecoveryLimit \in Nat
    /\ MaxExec \in Nat
    /\ MaxHold \in Nat
    /\ MaxSeq \in Nat
    /\ MaxEpoch \in Nat
    /\ Faults \subseteq FaultKinds

VARIABLES
    holdOn, revision,   \* spec.lifecycle.hold (revision 0: no hold yet)
    wake,               \* spec.lifecycle.wake
    suspend,            \* spec.lifecycle.suspend
    activity,           \* an activity annotation with a current fence and no receipt
    suspended, reason, epoch, pending, lastSeq, lastWake, seenRev,
                        \* status.lifecycle
    phase,              \* status.phase; "Invalid" is Failed for InvalidConfiguration
    podName,            \* status.podName is set
    endpoint,           \* status.endpoints.sandboxd: the execution it reaches, or 0
    execGen,            \* status.executionGeneration
    lastActive,         \* status.lastActiveAt: nil, within or past the idle timeout
    recovery,           \* status.recovery
    claim,              \* status.claimedBy: none, a Run still going, a terminal Run
    pod,                \* the Pod with the Environment's fixed name
    cred,               \* the credential Secret with the Environment's fixed name
    config,             \* what the provisioning sources say (see Configs)
    created,            \* history: the latest Pod created, its generation, the lifecycle
                        \* epoch then, and whether it has been published as ready
    pc, genFresh, rvFresh, seen   \* the running reconcile; `seen' is the Pod it read

specVars == <<holdOn, revision, wake, suspend>>
lifeVars == <<suspended, reason, epoch, pending, lastSeq, lastWake, seenRev>>
connVars == <<phase, podName, endpoint>>
ctlVars  == <<pc, genFresh, rvFresh, seen>>
vars == <<specVars, activity, lifeVars, connVars, execGen, lastActive, recovery,
          claim, pod, cred, config, created, ctlVars>>

WakeReasons == {"Idle", "Requested"}
Reasons == WakeReasons \cup {"none", "Hold"}
Phases == {"none", "Creating", "Setup", "Ready", "Resuming", "Idle", "Paused", "Failed", "Invalid"}
PodRuns == {"Pending", "Stuck", "Running", "Ready", "Terminal"}
\* "isolated": the Installation does not allow execution (checked before the
\* suspension gate); "broken": template, Project or RuntimeClass is missing,
\* deleting or unmanaged (checked after it).
Configs == {"ok", "isolated", "broken"}

NoWake == [id |-> "none", rev |-> 0, reason |-> "none"]
NoSuspend == [seq |-> 0, rev |-> 0]
NoPod == [gen |-> 0, resume |-> FALSE, run |-> "Pending", deleting |-> FALSE]
NoCred == [ident |-> 0, bound |-> 0]
NoRecovery == [attempts |-> 0, exhausted |-> FALSE, gen |-> 0, next |-> "nil"]

PodExists == pod.gen > 0
CredExists == cred.ident > 0
Published == podName \/ endpoint # 0 \/ phase = "Ready"

\* What has the controller left to do in one reconcile.
Steps == {"idle", "fence", "invalid", "paused", "active", "delete", "reserve",
          "create", "checked", "recheck", "bind", "sync", "idlecheck", "suspendIdle"}

PodType == [gen : Nat, resume : BOOLEAN, run : PodRuns, deleting : BOOLEAN]
RecoveryType ==
    [attempts : Nat, exhausted : BOOLEAN, gen : Nat, next : {"nil", "wait", "due"}]

FlagsOK ==
    /\ holdOn \in BOOLEAN /\ activity \in BOOLEAN /\ suspended \in BOOLEAN
    /\ podName \in BOOLEAN /\ genFresh \in BOOLEAN /\ rvFresh \in BOOLEAN

DataOK ==
    /\ revision \in Nat
    /\ wake \in [id : WakeIDs \cup {"none"}, rev : Nat, reason : WakeReasons \cup {"none"}]
    /\ suspend \in [seq : Nat, rev : Nat]
    /\ reason \in Reasons /\ epoch \in Nat
    /\ pending \in Nat /\ lastSeq \in Nat /\ lastWake \in WakeIDs \cup {"none"} /\ seenRev \in Nat
    /\ phase \in Phases /\ endpoint \in Nat
    /\ execGen \in Nat /\ created \in [gen : Nat, epoch : Nat, ready : BOOLEAN]
    /\ lastActive \in {"never", "recent", "old"}
    /\ recovery \in RecoveryType
    /\ claim \in {"none", "active", "done"}
    /\ pod \in PodType /\ seen \in PodType
    /\ cred \in [ident : Nat, bound : Nat]
    /\ config \in Configs
    /\ pc \in Steps

TypeOK == FlagsOK /\ DataOK

Init ==
    /\ holdOn = FALSE /\ revision = 0 /\ wake = NoWake /\ suspend = NoSuspend
    /\ activity = FALSE
    /\ suspended = FALSE /\ reason = "none" /\ epoch = 0
    /\ pending = 0 /\ lastSeq = 0 /\ lastWake = "none" /\ seenRev = 0
    /\ phase = "none" /\ podName = FALSE /\ endpoint = 0
    /\ execGen = 0 /\ lastActive = "never" /\ recovery = NoRecovery
    /\ claim = "none" /\ pod = NoPod /\ cred = NoCred /\ config = "ok"
    /\ created = [gen |-> 0, epoch |-> 0, ready |-> FALSE]
    /\ pc = "idle" /\ genFresh = FALSE /\ rvFresh = FALSE /\ seen = NoPod

-----------------------------------------------------------------------------
(* Who writes the Environment besides its controller.                      *)

\* Another actor's write, as the running reconcile will find out about it: a
\* spec write advances generation and resourceVersion, any other write only the
\* latter.
SpecWrite == genFresh' = FALSE /\ rvFresh' = FALSE /\ UNCHANGED <<pc, seen>>
MetaWrite == rvFresh' = FALSE /\ UNCHANGED <<pc, genFresh, seen>>

\* A user, or Project offboarding, flips the hold at the next revision.  Activity
\* recorded under the old revision is fenced off.
SetHold ==
    /\ revision < MaxHold
    /\ holdOn' = ~holdOn /\ revision' = revision + 1
    /\ activity' = FALSE
    /\ SpecWrite
    /\ UNCHANGED <<wake, suspend, lifeVars, connVars, execGen, lastActive, recovery,
                   claim, pod, cred, config, created>>

\* lifecycle.RequestWakeForReason: the latest wake replaces the earlier one.
\* Publishing the same wake again writes nothing.
RequestWakeForReason(id, r) ==
    LET request == [id |-> id, rev |-> revision, reason |-> r]
    IN  /\ wake # request
        /\ wake' = request
        /\ SpecWrite
        /\ UNCHANGED <<holdOn, revision, suspend, activity, lifeVars, connVars, execGen,
                       lastActive, recovery, claim, pod, cred, config, created>>

\* lifecycle.RequestSuspend: the publisher takes the sequence above the epoch and
\* the last sequence of a status it may have read long ago.
RequestSuspend(seq) ==
    /\ ~ (seq <= lastSeq \/ suspend.seq >= seq)
    /\ suspend' = [seq |-> seq, rev |-> revision]
    /\ SpecWrite
    /\ UNCHANGED <<holdOn, revision, wake, activity, lifeVars, connVars, execGen,
                   lastActive, recovery, claim, pod, cred, config, created>>

FenceSequences == 1 .. (IF epoch > lastSeq THEN epoch + 1 ELSE lastSeq + 1)

\* lifecycle.RecordActivity: the fence, captured from an execution published as
\* ready, is still valid: same execution, and no suspension advanced the epoch.
RecordActivity ==
    /\ created.ready /\ created.gen = execGen /\ ~suspended
    /\ activity' = TRUE
    /\ MetaWrite
    /\ UNCHANGED <<specVars, lifeVars, connVars, execGen, lastActive, recovery,
                   claim, pod, cred, config, created>>

\* A Run takes the explicit claim, ends, and gives it back.
Claim ==
    /\ claim = "none" /\ ~holdOn /\ (suspended => reason # "Hold")
    /\ claim' = "active"
    /\ MetaWrite
    /\ UNCHANGED <<specVars, activity, lifeVars, connVars, execGen, lastActive, recovery,
                   pod, cred, config, created>>

RunEnds ==
    /\ claim = "active"
    /\ claim' = "done"
    /\ UNCHANGED <<specVars, activity, lifeVars, connVars, execGen, lastActive, recovery,
                   pod, cred, config, created, ctlVars>>

ReleaseClaim ==
    /\ claim = "done"
    /\ claim' = "none"
    /\ MetaWrite
    /\ UNCHANGED <<specVars, activity, lifeVars, connVars, execGen, lastActive, recovery,
                   pod, cred, config, created>>

Publisher ==
    \/ SetHold
    \/ \E id \in WakeIDs, r \in WakeReasons : RequestWakeForReason(id, r)
    \/ \E seq \in FenceSequences : seq <= MaxSeq /\ RequestSuspend(seq)
    \/ RecordActivity
    \/ Claim
    \/ RunEnds
    \/ ReleaseClaim

-----------------------------------------------------------------------------
(* The cluster around the controller.                                      *)

\* What the kubelet reports of a Pod.  A Pod never restarts (restartPolicy
\* Never), so Terminal is final; a deleting Pod does not start.
PodNext(p) ==
    (IF p.deleting THEN {}
     ELSE CASE p.run = "Pending" -> {"Running"} \cup (IF "podStuck" \in Faults THEN {"Stuck"} ELSE {})
            [] p.run = "Stuck"   -> {"Pending"}
            [] p.run = "Running" -> {"Ready"}
            [] p.run = "Ready"   -> {"Running"}
            [] OTHER -> {})
    \cup (IF "podEnds" \in Faults /\ p.run # "Terminal" THEN {"Terminal"} ELSE {})

clusterUnchanged == <<specVars, activity, lifeVars, connVars, execGen, recovery, claim,
                      cred, created, ctlVars>>

PodProgress ==
    /\ PodExists
    /\ \E r \in PodNext(pod) : pod' = [pod EXCEPT !.run = r]
    /\ UNCHANGED <<clusterUnchanged, lastActive, config>>

\* A deleting Pod is gone once it has stopped; a lost one is collected unasked.
PodGone ==
    /\ PodExists
    /\ pod.deleting \/ "podLost" \in Faults
    /\ pod' = NoPod
    /\ UNCHANGED <<clusterUnchanged, lastActive, config>>

IdleTimeoutElapses ==
    /\ lastActive = "recent" /\ epoch < MaxEpoch
    /\ lastActive' = "old"
    /\ UNCHANGED <<clusterUnchanged, pod, config>>

BackoffElapses ==
    /\ recovery.next = "wait"
    /\ recovery' = [recovery EXCEPT !.next = "due"]
    /\ UNCHANGED <<specVars, activity, lifeVars, connVars, execGen, lastActive, claim,
                   pod, cred, config, created, ctlVars>>

ConfigChanges ==
    /\ "config" \in Faults
    /\ config' \in Configs \ {config}
    /\ UNCHANGED <<clusterUnchanged, lastActive, pod>>

Cluster == PodProgress \/ PodGone \/ IdleTimeoutElapses \/ BackoffElapses \/ ConfigChanges

-----------------------------------------------------------------------------
(* reconcileLifecycleIntent: what the published intents decide.            *)

SuspendInFlight == pending # 0
SuspendNew ==
    /\ suspend.rev = revision
    /\ ~SuspendInFlight
    /\ suspend.seq > lastSeq
SuspendRequested == SuspendNew \/ SuspendInFlight

\* The suspension a wake would have to release.
WakeSuspensionReason ==
    IF holdOn THEN "Hold" ELSE IF SuspendRequested THEN "Requested" ELSE reason
WakeNew == wake.id # "none" /\ wake.rev = revision /\ wake.id # lastWake
\* Mutant: any wake ends any suspension.
WakeReasonMatches_Any == TRUE
WakeReasonMatches == wake.reason = WakeSuspensionReason

\* Mutant: a suspension may end as soon as the connection is withdrawn.
BackendFencePending_Withdrawn == suspended /\ Published

\* Suspended, and the Pod and the credential are not yet known to be gone.
BackendFencePending == suspended /\ phase # "Paused"

ConsumeWake ==
    /\ WakeNew
    /\ \/ holdOn
       \/ ~WakeReasonMatches
       \/ ~SuspendRequested /\ ~BackendFencePending

MustSuspend == holdOn \/ SuspendRequested
ReleaseHold == suspended /\ reason = "Hold" /\ ~BackendFencePending
ReleaseWake == ConsumeWake /\ WakeReasonMatches /\ reason # "Hold"
Resume == ~MustSuspend /\ (ReleaseHold \/ ReleaseWake)

NextSuspended == MustSuspend \/ (suspended /\ ~Resume)
NextReason ==
    IF holdOn THEN "Hold"
    ELSE IF SuspendRequested THEN "Requested"
    ELSE IF Resume THEN "none" ELSE reason

\* The intents are already reflected in status: the gate writes nothing.
LifecycleSettled ==
    /\ ~activity
    /\ seenRev = revision
    /\ ~SuspendNew
    /\ ~ConsumeWake
    /\ NextSuspended = suspended
    /\ NextReason = reason

\* A replayed or outdated suspend request, other than the one being carried out.
SuspendStale ==
    /\ suspend.seq # 0
    /\ ~ (pending = suspend.seq /\ lastSeq = suspend.seq)
    /\ suspend.seq <= lastSeq \/ suspend.rev # revision

ctlRest == <<claim, pod, cred, config, created>>

DiscardSuspend ==
    /\ pc = "idle"
    /\ SuspendStale
    /\ suspend' = NoSuspend
    /\ UNCHANGED <<holdOn, revision, wake, activity, lifeVars, connVars, execGen,
                   lastActive, recovery, ctlRest, ctlVars>>

ReconcileLifecycleIntent ==
    /\ pc = "idle"
    /\ ~SuspendStale
    /\ ~LifecycleSettled
    /\ seenRev' = revision
    /\ activity' = FALSE
    /\ lastActive' = IF activity THEN "recent" ELSE lastActive
    /\ lastSeq' = IF SuspendNew THEN suspend.seq ELSE lastSeq
    /\ pending' = IF SuspendNew THEN suspend.seq ELSE pending
    /\ lastWake' = IF ConsumeWake THEN wake.id ELSE lastWake
    /\ suspended' = NextSuspended
    /\ reason' = NextReason
    /\ epoch' = IF NextSuspended /\ ~suspended THEN epoch + 1 ELSE epoch
    /\ UNCHANGED <<specVars, connVars, execGen, recovery, ctlRest, ctlVars>>

-----------------------------------------------------------------------------
(* The rest of Reconcile: which path the gates choose, and its writes.     *)

\* Mutant: the fence is continued only while the configuration is invalid.
FenceStarted_WhileInvalid == phase = "Invalid" /\ (PodExists \/ CredExists) /\ config # "ok"

FenceStarted == phase = "Invalid" /\ (PodExists \/ CredExists)

\* The gates after the lifecycle gate, in the order of environmentReconcilePhases.
Gate ==
    CASE FenceStarted -> "fence"
      [] ~FenceStarted /\ config = "isolated" -> "invalid"
      [] ~FenceStarted /\ config # "isolated" /\ suspended -> "paused"
      [] ~FenceStarted /\ config = "broken" /\ ~suspended -> "invalid"
      [] OTHER -> "active"

unchangedByStep == <<specVars, activity, lifeVars, claim, config>>

Begin ==
    /\ pc = "idle"
    /\ ~SuspendStale /\ LifecycleSettled
    /\ pc' = Gate /\ genFresh' = TRUE /\ rvFresh' = TRUE /\ seen' = NoPod
    /\ UNCHANGED <<unchangedByStep, connVars, execGen, lastActive, recovery, pod, cred, created>>

\* The reconcile ends (the object is requeued or watched).
Return == pc' = "idle" /\ genFresh' = FALSE /\ rvFresh' = FALSE /\ seen' = NoPod
Continue(step) == pc' = step /\ UNCHANGED <<genFresh, rvFresh, seen>>

\* Mutant: the status write does not check the generation it was derived from.
SetStatus_Unguarded(p, name, e) == phase' = p /\ podName' = name /\ endpoint' = e

\* updateEnvironmentStatus: written only if no spec write came in between.
SetStatus(p, name, e) ==
    IF genFresh
    THEN phase' = p /\ podName' = name /\ endpoint' = e
    ELSE UNCHANGED connVars

IsResumeReplacement ==
    \/ phase = "Resuming"
    \/ phase = "Creating" /\ podName /\ lastActive # "never"
    \/ podName /\ endpoint # 0 /\ phase \in {"Ready", "Idle"}
\* Mutant: a replacement always starts over.
ReplacementPhase_Creating(resume) == "Creating"
ReplacementPhase(resume) == IF resume THEN "Resuming" ELSE "Creating"

\* fail: an operational error withdraws the connection.
FailStatus == SetStatus(ReplacementPhase(IsResumeReplacement), FALSE, 0)

\* Mutant: the delete is never issued.
DeletePod_Skipped == pod' = pod

DeletePod == pod' = [pod EXCEPT !.deleting = TRUE]

\* reconcilePaused: withdraw the connection, delete the Pod, revoke the
\* credential, publish Paused, acknowledge the request; one write a reconcile.
PauseWithdraw ==
    /\ pc = "paused" /\ Published
    /\ SetStatus("Idle", FALSE, 0)
    /\ Return
    /\ UNCHANGED <<unchangedByStep, execGen, lastActive, recovery, pod, cred, created>>

PauseDeletePod ==
    /\ pc = "paused" /\ ~Published /\ PodExists
    /\ DeletePod
    /\ Return
    /\ UNCHANGED <<unchangedByStep, connVars, execGen, lastActive, recovery, cred, created>>

\* Mutant: the credential is revoked while the Pod is still stopping.
PauseRevoke_Early ==
    /\ pc = "paused" /\ ~Published /\ CredExists
    /\ cred' = NoCred
    /\ Return
    /\ UNCHANGED <<unchangedByStep, connVars, execGen, lastActive, recovery, pod, created>>

PauseRevoke ==
    /\ pc = "paused" /\ ~Published /\ ~PodExists /\ CredExists
    /\ cred' = NoCred
    /\ Return
    /\ UNCHANGED <<unchangedByStep, connVars, execGen, lastActive, recovery, pod, created>>

\* Mutant: Paused without waiting for the Pod.
BackendAbsent_Withdrawn == ~Published
\* Mutant: Paused only once the claim is released.
BackendAbsent_AfterClaim == ~Published /\ ~PodExists /\ ~CredExists /\ claim = "none"

BackendAbsent == ~Published /\ ~PodExists /\ ~CredExists

\* The acknowledgement is a compare-and-swap on resourceVersion; losing it is an
\* operational error.
PauseAcknowledge ==
    /\ pc = "paused" /\ BackendAbsent /\ phase = "Paused" /\ pending # 0
    /\ IF rvFresh
       THEN pending' = 0 /\ UNCHANGED connVars
       ELSE FailStatus /\ UNCHANGED pending
    /\ Return
    /\ UNCHANGED <<specVars, activity, suspended, reason, epoch, lastSeq, lastWake, seenRev,
                   claim, config, execGen, lastActive, recovery, pod, cred, created>>

PauseDone ==
    /\ pc = "paused" /\ BackendAbsent /\ ~(phase = "Paused" /\ pending # 0)
    /\ SetStatus("Paused", FALSE, 0)
    /\ Return
    /\ UNCHANGED <<unchangedByStep, execGen, lastActive, recovery, pod, cred, created>>

ReconcilePaused ==
    PauseWithdraw \/ PauseDeletePod \/ PauseRevoke \/ PauseAcknowledge \/ PauseDone

\* reconcileInvalidProvisioningConfiguration: publish the failure, then fence.
InvalidWithdraw ==
    /\ pc = "invalid"
    /\ SetStatus("Invalid", FALSE, 0)
    /\ IF genFresh /\ ~Published THEN Continue("fence") ELSE Return
    /\ UNCHANGED <<unchangedByStep, execGen, lastActive, recovery, pod, cred, created>>

\* reconcileInvalidProvisioningFence: the Pod first, then the credential.
InvalidFence ==
    /\ pc = "fence"
    /\ IF PodExists THEN DeletePod /\ UNCHANGED cred ELSE cred' = NoCred /\ UNCHANGED pod
    /\ Return
    /\ UNCHANGED <<unchangedByStep, connVars, execGen, lastActive, recovery, created>>

\* reconcilePendingPodRecovery: exhaustion and backoff hold back any new Pod.
RecoveryExhausted ==
    /\ pc = "active" /\ recovery.exhausted
    /\ SetStatus("Failed", podName, 0)
    /\ Return
    /\ UNCHANGED <<unchangedByStep, execGen, lastActive, recovery, pod, cred, created>>

RecoveryBackoff ==
    /\ pc = "active" /\ ~recovery.exhausted /\ recovery.next = "wait"
    /\ SetStatus(ReplacementPhase(IsResumeReplacement), FALSE, 0)
    /\ Return
    /\ UNCHANGED <<unchangedByStep, execGen, lastActive, recovery, pod, cred, created>>

RecoveryAttempt ==
    /\ pc = "active" /\ ~recovery.exhausted /\ recovery.next = "due"
    /\ phase' = ReplacementPhase(IsResumeReplacement) /\ podName' = FALSE /\ endpoint' = 0
    /\ recovery' = [recovery EXCEPT !.attempts = @ + 1, !.next = "nil"]
    /\ Return
    /\ UNCHANGED <<unchangedByStep, execGen, lastActive, pod, cred, created>>

\* The recovery gate lets the reconcile through to the provisioning gate.
Provisioning == pc = "active" /\ ~recovery.exhausted /\ recovery.next = "nil"

ResumeFromPaused ==
    /\ Provisioning /\ phase = "Paused"
    /\ SetStatus("Resuming", FALSE, 0)
    /\ lastActive' = IF genFresh THEN "recent" ELSE lastActive
    /\ Return
    /\ UNCHANGED <<unchangedByStep, execGen, recovery, pod, cred, created>>

EnsurePod == Provisioning /\ phase # "Paused"

\* currentSandboxdPod: the Pod of the current execution, with the credential
\* issued for it and bound to it.
CurrentSandboxdPod ==
    PodExists /\ pod.gen = execGen /\ cred.ident = pod.gen /\ cred.bound = pod.gen

PodTerminating ==
    /\ EnsurePod /\ PodExists /\ pod.deleting
    /\ ~(pod.run = "Terminal" /\ CurrentSandboxdPod)
    /\ SetStatus(ReplacementPhase(IsResumeReplacement \/ pod.resume), FALSE, 0)
    /\ Return
    /\ UNCHANGED <<unchangedByStep, execGen, lastActive, recovery, pod, cred, created>>

\* A Pod without a current credential is withdrawn, and only then deleted.
PodReplacing ==
    /\ EnsurePod /\ PodExists /\ ~pod.deleting /\ ~CurrentSandboxdPod
    /\ SetStatus(ReplacementPhase(IsResumeReplacement \/ pod.resume), FALSE, 0)
    /\ IF genFresh \/ (~podName /\ endpoint = 0)
       THEN pc' = "delete" /\ seen' = pod /\ UNCHANGED <<genFresh, rvFresh>>
       ELSE Return
    /\ UNCHANGED <<unchangedByStep, execGen, lastActive, recovery, pod, cred, created>>

DeleteReplaced ==
    /\ pc = "delete"
    /\ IF pod.gen = seen.gen THEN DeletePod ELSE UNCHANGED pod
    /\ Return
    /\ UNCHANGED <<unchangedByStep, connVars, execGen, lastActive, recovery, cred, created>>

RecoveryLeft == recovery.attempts < RecoveryLimit

\* reconcileTerminalPod: each failed execution is counted once; its Pod is deleted
\* only after the recovery gate has persisted the attempt.
TerminalPod ==
    /\ EnsurePod /\ CurrentSandboxdPod /\ pod.run = "Terminal"
    /\ Return
    /\ UNCHANGED <<unchangedByStep, execGen, lastActive, cred, created>>
    /\ \/ /\ recovery.gen # pod.gen /\ ~RecoveryLeft
          /\ phase' = "Failed" /\ podName' = TRUE /\ endpoint' = 0
          /\ recovery' = [recovery EXCEPT !.exhausted = TRUE, !.gen = pod.gen]
          /\ UNCHANGED pod
       \/ /\ recovery.gen # pod.gen /\ RecoveryLeft
          /\ phase' = ReplacementPhase(IsResumeReplacement \/ pod.resume)
          /\ podName' = FALSE /\ endpoint' = 0
          /\ recovery' = [recovery EXCEPT !.gen = pod.gen, !.next = "wait"]
          /\ UNCHANGED pod
       \/ /\ recovery.gen = pod.gen
          /\ DeletePod
          /\ UNCHANGED <<connVars, recovery>>

\* The Pod of a published execution is gone: persist the intent to resume first.
PodMissing ==
    /\ EnsurePod /\ ~PodExists /\ IsResumeReplacement /\ phase # "Resuming"
    /\ SetStatus("Resuming", FALSE, 0)
    /\ Return
    /\ UNCHANGED <<unchangedByStep, execGen, lastActive, recovery, pod, cred, created>>

\* rotateSandboxdCredentials: a new identity; an existing Secret keeps the UID of
\* the Pod it was bound to.
RotateCredentials ==
    /\ EnsurePod /\ ~PodExists /\ (IsResumeReplacement => phase = "Resuming")
    /\ cred' = [ident |-> execGen + 1, bound |-> cred.bound]
    /\ Continue("reserve")
    /\ UNCHANGED <<unchangedByStep, connVars, execGen, lastActive, recovery, pod, created>>

NextGeneration == execGen + 1

\* reserveExecutionGeneration.  A spec change, or running out of generations, is
\* an error.
ReserveExecutionGeneration ==
    /\ pc = "reserve"
    /\ IF genFresh /\ execGen < MaxExec
       THEN /\ execGen' = NextGeneration /\ activity' = FALSE
            /\ phase' = ReplacementPhase(phase = "Resuming") /\ podName' = FALSE /\ endpoint' = 0
            /\ pc' = "create" /\ rvFresh' = TRUE /\ UNCHANGED <<genFresh, seen>>
       ELSE /\ SetStatus("Invalid", FALSE, 0) /\ UNCHANGED <<execGen, activity>>
            /\ Return
    /\ UNCHANGED <<specVars, lifeVars, claim, config, lastActive, recovery, pod, cred, created>>

\* backendCreationSourcesCurrent: the uncached authority check around the create.
CreationAuthorized == genFresh /\ ~suspended /\ ~holdOn /\ config = "ok"

CheckSources ==
    /\ pc = "create"
    /\ IF CreationAuthorized
       THEN Continue("checked") /\ UNCHANGED connVars
       ELSE Return /\ FailStatus
    /\ UNCHANGED <<unchangedByStep, execGen, lastActive, recovery, pod, cred, created>>

CreatePod ==
    /\ pc = "checked"
    /\ pod' = [gen |-> execGen, resume |-> phase = "Resuming", run |-> "Pending", deleting |-> FALSE]
    /\ created' = [gen |-> execGen, epoch |-> epoch, ready |-> FALSE]
    /\ pc' = "recheck" /\ seen' = pod' /\ UNCHANGED <<genFresh, rvFresh>>
    /\ UNCHANGED <<unchangedByStep, connVars, execGen, lastActive, recovery, cred>>

\* The same check after the create; failing it, or failing to make it, deletes
\* the Pod just created.
RecheckSources ==
    /\ pc = "recheck"
    /\ \/ CreationAuthorized /\ Continue("bind") /\ UNCHANGED <<connVars, pod>>
       \/ /\ ~CreationAuthorized \/ "error" \in Faults
          /\ IF pod.gen = seen.gen THEN DeletePod ELSE UNCHANGED pod
          /\ FailStatus
          /\ Return
    /\ UNCHANGED <<unchangedByStep, execGen, lastActive, recovery, cred, created>>

BindCredentials ==
    /\ pc = "bind"
    /\ cred' = [cred EXCEPT !.bound = seen.gen]
    /\ Continue("sync")
    /\ UNCHANGED <<unchangedByStep, connVars, execGen, lastActive, recovery, pod, created>>

ObservePod ==
    /\ EnsurePod /\ CurrentSandboxdPod /\ ~pod.deleting /\ pod.run # "Terminal"
    /\ seen' = pod /\ pc' = "sync" /\ UNCHANGED <<genFresh, rvFresh>>
    /\ UNCHANGED <<unchangedByStep, connVars, execGen, lastActive, recovery, pod, cred, created>>

\* environmentPodState of the Pod read earlier in the reconcile.
EnvironmentPodState ==
    CASE seen.run = "Ready" -> "Ready"
      [] seen.run # "Ready" /\ (seen.resume \/ phase = "Resuming") -> "Resuming"
      [] seen.run = "Stuck" /\ ~(seen.resume \/ phase = "Resuming") -> "Failed"
      [] seen.run = "Pending" /\ ~(seen.resume \/ phase = "Resuming") -> "Setup"
      [] OTHER -> "Creating"

\* syncStatus.  Readiness ends a recovery sequence and restarts the idle timeout.
SyncStatus ==
    /\ pc = "sync" /\ seen.gen = execGen
    /\ SetStatus(EnvironmentPodState, TRUE, IF seen.run = "Ready" THEN seen.gen ELSE 0)
    /\ lastActive' = IF genFresh /\ seen.run = "Ready" /\ (lastActive = "never" \/ phase # "Ready")
                     THEN "recent" ELSE lastActive
    /\ recovery' = IF genFresh /\ seen.run = "Ready" THEN NoRecovery ELSE recovery
    /\ created' = [created EXCEPT !.ready = @ \/ (genFresh /\ seen.run = "Ready")]
    /\ IF seen.run \in {"Running", "Ready"}
       THEN /\ pc' = "idlecheck" /\ UNCHANGED <<genFresh, seen>>
            /\ rvFresh' = (rvFresh /\ <<connVars, lastActive, recovery>>' = <<connVars, lastActive, recovery>>)
       ELSE Return
    /\ UNCHANGED <<unchangedByStep, execGen, pod, cred>>

\* reconcileIdle: look for an active Run and the idle deadline ...
IdleCheck ==
    /\ pc = "idlecheck"
    /\ IF claim # "active" /\ lastActive = "old" THEN Continue("suspendIdle") ELSE Return
    /\ UNCHANGED <<unchangedByStep, connVars, execGen, lastActive, recovery, pod, cred, created>>

\* Mutant: the idle suspension is not a compare-and-swap.
SuspendIdle_Unguarded ==
    /\ pc = "suspendIdle"
    /\ suspended' = TRUE /\ reason' = "Idle" /\ epoch' = epoch + 1 /\ phase' = "Idle"
    /\ Return
    /\ UNCHANGED <<specVars, activity, pending, lastSeq, lastWake, seenRev, podName, endpoint,
                   claim, config, execGen, lastActive, recovery, pod, cred, created>>

\* ... then record the suspension, unless anything was written since the read.
SuspendIdle ==
    /\ pc = "suspendIdle"
    /\ IF rvFresh
       THEN suspended' = TRUE /\ reason' = "Idle" /\ epoch' = epoch + 1 /\ phase' = "Idle"
       ELSE UNCHANGED <<suspended, reason, epoch, phase>>
    /\ Return
    /\ UNCHANGED <<specVars, activity, pending, lastSeq, lastWake, seenRev, podName, endpoint,
                   claim, config, execGen, lastActive, recovery, pod, cred, created>>

ReconcileActive ==
    \/ RecoveryExhausted \/ RecoveryBackoff \/ RecoveryAttempt
    \/ ResumeFromPaused \/ PodTerminating \/ PodReplacing \/ DeleteReplaced \/ TerminalPod
    \/ PodMissing \/ RotateCredentials \/ ReserveExecutionGeneration \/ CheckSources
    \/ CreatePod \/ RecheckSources \/ BindCredentials \/ ObservePod \/ SyncStatus
    \/ IdleCheck \/ SuspendIdle

Reconcile ==
    \/ DiscardSuspend \/ ReconcileLifecycleIntent \/ Begin
    \/ ReconcilePaused \/ InvalidWithdraw \/ InvalidFence \/ ReconcileActive

\* An API call of the reconcile fails where the code answers with fail().
Fail ==
    /\ "error" \in Faults
    /\ pc \in {"paused", "active", "delete", "reserve", "create", "checked", "bind",
               "idlecheck", "suspendIdle"}
    /\ FailStatus
    /\ Return
    /\ UNCHANGED <<unchangedByStep, execGen, lastActive, recovery, pod, cred, created>>

\* The operator stops, or an error is only returned: the reconcile is abandoned.
Crash ==
    /\ "crash" \in Faults
    /\ pc # "idle"
    /\ Return
    /\ UNCHANGED <<unchangedByStep, connVars, execGen, lastActive, recovery, pod, cred, created>>

Next == Publisher \/ Cluster \/ Reconcile \/ Fail \/ Crash

Spec == Init /\ [][Next]_vars

-----------------------------------------------------------------------------
(* Safety.                                                                 *)

\* reconcilePaused publishes Paused only once nothing of the execution is left,
\* and nothing is created before Paused is left again: a Paused Environment has
\* no Pod, no credential and no connection.
PausedMeansAbsent == phase = "Paused" => ~PodExists /\ ~CredExists /\ ~podName /\ endpoint = 0

\* An accepted suspend request stays pending, across hold changes and failed
\* writes, for as long as it is not carried out: the Environment is suspended
\* for it or for a hold, and it is the last request accepted.
PendingIsSuspended ==
    pending # 0 => suspended /\ reason \in {"Requested", "Hold"} /\ pending = lastSeq

\* The credential is revoked only after the Pod that mounts it is gone
\* (reconcilePaused, reconcileInvalidProvisioningFence), so a Pod always has one.
PodHasCredential == PodExists => CredExists

\* While a recovery is scheduled, or after it was exhausted, the controller starts
\* no execution: the current one is still the one that failed.
RecoveryHoldsBack ==
    recovery.next # "nil" \/ recovery.exhausted => recovery.gen = execGen

\* The replacement budget of reconcileTerminalPod.
RecoveryBudget ==
    /\ recovery.attempts <= RecoveryLimit
    /\ recovery.next # "nil" => recovery.attempts < RecoveryLimit

\* "Backends and endpoints from an older epoch are fenced": the connection a
\* running Environment publishes belongs to a Pod created since the last suspension.
NoConnectionFromOlderEpoch ==
    ~suspended /\ endpoint # 0 => created.gen = endpoint /\ created.epoch = epoch

ReleaseAfterFenceStep ==
    suspended /\ ~suspended' => ~PodExists /\ ~CredExists /\ ~Published /\ pending = 0
\* Suspension ends only after the whole fence: Pod and credential gone, every
\* accepted suspend request acknowledged.
ReleaseAfterFence == [][ReleaseAfterFenceStep]_vars

AcknowledgedAfterFenceStep ==
    pending # 0 /\ pending' # pending => pending' = 0 /\ ~PodExists /\ ~CredExists /\ ~Published
\* An accepted suspend request is acknowledged only when the execution it fences
\* is gone, whatever has happened to the hold in the meantime.
AcknowledgedAfterFence == [][AcknowledgedAfterFenceStep]_vars

ReleaseIsAuthorizedStep ==
    suspended /\ ~suspended' =>
        /\ ~holdOn
        /\ reason # "Hold" => /\ wake.reason = reason /\ wake.rev = revision
                              /\ lastWake # wake.id /\ lastWake' = wake.id
\* Only the release of a hold ends a Hold, and only a wake scoped to it ends an
\* Idle or a Requested suspension; the wake is consumed by that.
ReleaseIsAuthorized == [][ReleaseIsAuthorizedStep]_vars

PublishedOnlyWhileAllowedStep ==
    endpoint' # 0 /\ endpoint' # endpoint => ~suspended /\ ~holdOn
\* A connection is published only to a running Environment, never after a hold was
\* asked for, however long ago the reconcile read it (updateEnvironmentStatus).
PublishedOnlyWhileAllowed == [][PublishedOnlyWhileAllowedStep]_vars

IdleNeverOvertakesStep ==
    ~suspended /\ suspended' /\ reason' = "Idle" => claim # "active" /\ ~activity /\ ~holdOn
\* An idle suspension never overtakes a claim, an activity or a hold that was
\* written while the reconcile was deciding.
IdleNeverOvertakes == [][IdleNeverOvertakesStep]_vars

GenerationNeverReusedStep ==
    pod'.gen # 0 /\ pod'.gen # pod.gen => pod'.gen > created.gen
\* "Values may be skipped after failed or uncertain creates, but are never reused."
GenerationNeverReused == [][GenerationNeverReusedStep]_vars

ResumeIntentDurableStep ==
    phase = "Resuming" /\ ~suspended' => phase' \in {"Resuming", "Ready", "Failed", "Invalid"}
\* "Keep resume intent durable across a failed create": until the resumed execution
\* is ready, Resuming is left only for a suspension or a permanent failure.
ResumeIntentDurable == [][ResumeIntentDurableStep]_vars

InvalidFenceCompletesStep ==
    phase = "Invalid" /\ phase' # "Invalid" => ~PodExists
\* Once an invalid configuration has begun to be fenced, the Pod is removed before
\* anything else happens to the Environment, even if the configuration was repaired
\* or a hold or a suspend request came in between (the provisioning-fence gate).
InvalidFenceCompletes == [][InvalidFenceCompletesStep]_vars

\* What the running reconcile has established stays true between its steps, whatever
\* others write meanwhile: on the active path a fresh generation or resourceVersion
\* still vouches for what was read ...
StepsOfActive == {"active", "delete", "reserve", "create", "checked", "recheck", "bind",
                  "sync", "idlecheck", "suspendIdle"}
OnActivePath ==
    /\ ~suspended
    /\ phase = "Invalid" => ~PodExists
    /\ genFresh => ~holdOn
    /\ rvFresh => genFresh /\ ~activity
\* ... before the create there is a credential and no Pod, and after it the Pod is the
\* latest execution, made in this epoch.
ReadyToCreate == ~PodExists /\ CredExists
JustCreated == seen.gen = execGen /\ created.gen = execGen /\ execGen > 0 /\ created.epoch = epoch
ReconcileStanding ==
    /\ pc = "paused" => suspended /\ (phase = "Invalid" => ~PodExists)
    /\ pc \in StepsOfActive => OnActivePath
    /\ pc \in StepsOfActive \ {"active"} => phase # "Paused"
    /\ pc \in {"reserve", "create", "checked"} => ReadyToCreate
    /\ pc = "reserve" => recovery.next = "nil" /\ ~recovery.exhausted
    /\ pc \in {"create", "checked"} => created.gen < execGen /\ phase # "Invalid"
    /\ pc \in {"recheck", "bind", "sync"} => JustCreated
    /\ pc = "suspendIdle" /\ rvFresh => claim # "active"

ExecutionOrder ==
    /\ created.gen <= execGen
    /\ PodExists => pod.gen = created.gen
    /\ endpoint # 0 => endpoint = created.gen /\ endpoint = execGen
    /\ ~suspended /\ PodExists => created.epoch = epoch

\* The inductive invariant behind the theorems of EnvironmentLifecycleProofs: the
\* invariants above, and what the steps of a reconcile establish for each other.
InductiveInvariant ==
    /\ ReconcileStanding
    /\ ExecutionOrder
    /\ PausedMeansAbsent
    /\ PodHasCredential
    /\ PendingIsSuspended
    /\ NoConnectionFromOlderEpoch
    /\ RecoveryHoldsBack

\* The controller keeps the promises of ExecutionDomain: Pods never overlap, Paused
\* and its acknowledgement come only after the Pod is gone, a withdrawn connection
\* never comes back under a suspension.
Domain == INSTANCE ExecutionDomain
    WITH Gens <- Nat, live <- PodExists, gen <- created.gen, conn <- endpoint, susp <- suspended
ImplementsDomain == Domain!Spec

-----------------------------------------------------------------------------
(* Liveness.                                                               *)

\* controller-runtime reconciles again after every change, requeue and timer; the
\* kubelet finishes deletions; a backoff runs out.  Activity heartbeats are too slow
\* to keep the gate from ever settling (Begin), and claims too rare to win every
\* race with the acknowledgement.  Wakes are not rewritten forever: each rewrite
\* makes a reconcile in progress stale.
Fairness ==
    /\ WF_vars(Reconcile)
    /\ WF_vars(pod.deleting /\ PodGone)
    /\ WF_vars(BackoffElapses)
    /\ SF_vars(Begin)
    /\ SF_vars(rvFresh /\ PauseAcknowledge)
    /\ <>[][wake' = wake]_vars

LiveSpec == Spec /\ Fairness

\* A hold that is not taken back fences the Environment completely.
HoldTakesEffect == holdOn ~> ~holdOn \/ (suspended /\ phase = "Paused")

\* The teardown an accepted suspend request started is carried out and acknowledged,
\* so the Run waiting for it can release its claim.
SuspendAcknowledged == pending # 0 ~> pending = 0

\* A valid wake is consumed: it does not wait forever behind a fence.
WakeConsumed == WakeNew ~> ~WakeNew

\* The fence of an invalid configuration ends, however often the configuration is
\* repaired and broken meanwhile (and, by InvalidFenceCompletes, not without the Pod
\* being gone).
InvalidIsFenced == phase = "Invalid" ~> phase # "Invalid" \/ (~PodExists /\ ~CredExists)

\* Unless it is suspended again or its Pods keep ending, an Environment gets a Pod
\* that holds the current credential.
ExecutionStarts ==
    ~suspended ~> suspended \/ (CurrentSandboxdPod /\ pod.run # "Terminal") \/ recovery.exhausted \/ phase = "Invalid"

\* What holds in every state of an execution: its variables keep their types, every
\* reconcile step finds what the step before it established, and terminal Pods are
\* replaced at most podRecoveryLimit times in a row.
ExecutionSound == TypeOK /\ InductiveInvariant /\ RecoveryBudget

\* What was asked of an Environment is carried out: a hold that stays pauses it, an
\* accepted suspend request is acknowledged, a wake is consumed.
IntentsCarriedOut == HoldTakesEffect /\ SuspendAcknowledged /\ WakeConsumed

\* Broken provisioning sources end in a fence without Pod and credential, and sound ones
\* in an execution.
SourcesSettle == InvalidIsFenced /\ ExecutionStarts
=============================================================================
