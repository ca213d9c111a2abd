------------------------ MODULE RepositoryCredentials ------------------------
(***************************************************************************)
(* The short-lived repository tokens of a Run: the Run controller issues   *)
(* one, keeps it in a lease Secret, rotates it before expiry or after its  *)
(* Pod is lost, and revokes it before the Run may go; a token that could   *)
(* not be leased is kept in a revocation log Secret until it is revoked.   *)
(* The Environment controller binds the lease to one execution and mounts  *)
(* it into that execution's Pod.  (internal/controllers/run_controller.go, *)
(* internal/controllers/environment_controller.go,                         *)
(* internal/repositorycredential.)                                         *)
(*                                                                         *)
(* A token names its Secret: no token is stored in two lease Secrets, so   *)
(* the token stands for the Secret's UID, and the token together with the  *)
(* execution it is bound to for the resourceVersion.  The canonical        *)
(* repository and the other fields of the frozen identity never change     *)
(* while the Environment exists, so proving them is the Environment's      *)
(* still being there.                                                      *)
(***************************************************************************)
EXTENDS Integers, FiniteSets

CONSTANTS MaxRepoTokens, \* tokens the provider issues in a behaviour
          MaxExecution,  \* execution generations of the Environment
          CredFaults     \* crashes, lost answers and failed calls, together

VARIABLES tok,       \* the age of each token at the provider
          credRevoked,   \* the tokens the provider revoked
          lost,      \* tokens no Secret and no pass ever got hold of
          credLease, \* the lease Secret
          wal,       \* the pending-revocation Secret
          credRun,   \* the Run: state, condition reason, rotation record
          credCache, \* the Run as the Run controller's cache has it
          credEnv,   \* the Environment: mode, hold, execution, record, Pod
          runPass,   \* the Run controller's pass
          envPass,   \* the Environment controller's pass
          delivered, \* the token last handed to an agent process
          credFaults \* faults so far

credVars == <<tok, credRevoked, lost, credLease, wal, credRun, credCache,
              credEnv, runPass, envPass, delivered, credFaults>>

credProvider == <<tok, credRevoked, lost>>
credSecrets == <<credLease, wal>>
credObjects == <<credRun, credCache, credEnv>>
credPasses == <<runPass, envPass>>
credRest == <<delivered, credFaults>>

Tokens == 1..MaxRepoTokens
NoCredLease == [token |-> 0, gen |-> 0, exec |-> 0]
NoWal == [token |-> 0, gen |-> 0, state |-> "none", bad |-> FALSE]
NoRotation == [old |-> 0, gen |-> 0, wake |-> FALSE]
NoProvisioning == [token |-> 0, exec |-> 0]
NoPod == [token |-> 0, exec |-> 0, dying |-> FALSE]
NoRunPass == [pc |-> "idle", lease |-> NoCredLease, record |-> NoProvisioning,
              bad |-> FALSE]
NoEnvPass == [pc |-> "idle", lease |-> NoCredLease]

CredInit ==
  /\ tok = [t \in Tokens |-> "none"]
  /\ credRevoked = {}
  /\ lost = {}
  /\ credLease = NoCredLease
  /\ wal = NoWal
  /\ credRun = [state |-> "active", cond |-> "none", rotation |-> NoRotation]
  /\ credCache = credRun
  /\ credEnv = [mode |-> "running", held |-> FALSE, exec |-> 0, woken |-> 0,
                record |-> NoProvisioning, pod |-> NoPod, gone |-> FALSE]
  /\ runPass = NoRunPass
  /\ envPass = NoEnvPass
  /\ delivered = [token |-> 0, exec |-> 0]
  /\ credFaults = 0

TokenExpired(t) == tok[t] = "expired"
TokenLive(t) == tok[t] \in {"fresh", "due"} /\ t \notin credRevoked
CredFault == credFaults < CredFaults /\ credFaults' = credFaults + 1

(***************************************************************************)
(* The Run controller.  A pass works on the cached Run, and its writes of  *)
(* the Run are refused unless the cached copy is the current one.          *)
(***************************************************************************)
WriteRun(new) ==
  /\ credCache = credRun
  /\ credRun' = new

SetCondition(reason) == WriteRun([credRun EXCEPT !.cond = reason])

FailRepositoryCredential(reason) ==
  WriteRun([credRun EXCEPT !.state = "failed", !.cond = reason])

EnvironmentFenced == credEnv.mode = "fenced"

RequestEnvironmentFence ==
  /\ credEnv.mode = "running"
  /\ credEnv' = [credEnv EXCEPT !.mode = "fencing"]

\* What a pass may do at all: an active Run's pass ensures the credential, a
\* terminal one's cleans up once its Environment is fenced or is gone.
Ensuring == runPass.pc = "idle" /\ credCache.state = "active" /\ ~credEnv.gone
Terminal == credCache.state \in {"ended", "failed"} /\ credRun.state # "gone"
Cleaning ==
  /\ runPass.pc = "idle" /\ Terminal
  /\ credEnv.gone \/ EnvironmentFenced

CleanupFences ==
  /\ runPass.pc = "idle" /\ Terminal
  /\ ~credEnv.gone
  /\ RequestEnvironmentFence
  /\ UNCHANGED <<credProvider, credSecrets, credRun, credCache, credPasses,
                 credRest>>

(***************************************************************************)
(* cleanupPendingRepositoryRevocation: the log comes first in every pass.  *)
(* A record whose generation, or whose frozen source, cannot be proven     *)
(* stays where it is and blocks the pass.                                  *)
(***************************************************************************)
ExpectedGeneration(run) ==
  IF run.rotation = NoRotation THEN 1 ELSE run.rotation.gen

WalTurn ==
  /\ Ensuring \/ Cleaning
  /\ wal # NoWal
  /\ ~credEnv.gone
  /\ wal.gen = ExpectedGeneration(credCache)

WalRevokes ==
  /\ WalTurn /\ wal.state = "pending"
  /\ \/ /\ credRevoked' = credRevoked \cup {wal.token}
        /\ runPass' = [runPass EXCEPT !.pc = "walRevoked"]
        /\ UNCHANGED <<credRun, credFaults>>
     \/ /\ CredFault /\ TokenExpired(wal.token)
        /\ runPass' = [runPass EXCEPT !.pc = "walRevoked"]
        /\ UNCHANGED <<credRevoked, credRun>>
     \/ /\ CredFault /\ ~TokenExpired(wal.token)
        /\ SetCondition("Other")
        /\ UNCHANGED <<credRevoked, runPass>>
  /\ UNCHANGED <<tok, lost, credSecrets, credCache, credEnv, envPass, delivered>>

WalCompletes ==
  /\ runPass.pc = "walRevoked"
  /\ wal' = [wal EXCEPT !.state = "complete"]
  /\ runPass' = NoRunPass
  /\ UNCHANGED <<credProvider, credLease, credObjects, envPass, credRest>>

DispositionDurable(run) == run.state = "failed" /\ run.cond = "Invalid"

WalDisposes ==
  /\ WalTurn /\ wal.state = "complete"
  /\ wal.bad /\ ~DispositionDurable(credCache)
  /\ FailRepositoryCredential("Invalid")
  /\ UNCHANGED <<credProvider, credSecrets, credCache, credEnv, credPasses,
                 credRest>>

\* The lease left by a create whose answer was lost goes before the record.
WalDeletes ==
  /\ WalTurn /\ wal.state = "complete"
  /\ wal.bad => DispositionDurable(credCache) /\ DispositionDurable(credRun)
  /\ \/ /\ credLease = NoCredLease
        /\ wal' = NoWal
        /\ UNCHANGED credLease
     \/ /\ credLease.token = wal.token /\ credLease.gen = wal.gen
        /\ credLease' = NoCredLease
        /\ UNCHANGED wal
  /\ UNCHANGED <<credProvider, credObjects, credPasses, credRest>>

(***************************************************************************)
(* ensureRepositoryCredential, the lease found or not after the log.       *)
(***************************************************************************)
Ensures == Ensuring /\ wal = NoWal
Rotating == credCache.rotation # NoRotation

\* The association with the Environment is gone: the Run fails.
EnvironmentMissing ==
  /\ runPass.pc = "idle" /\ credCache.state = "active" /\ credEnv.gone
  /\ wal = NoWal
  /\ FailRepositoryCredential("Other")
  /\ UNCHANGED <<credProvider, credSecrets, credCache, credEnv, credPasses,
                 credRest>>

\* A lease that is neither the recorded old one nor its successor.
RotationMatches(l, rotation) ==
  \/ l.token = rotation.old /\ l.gen + 1 = rotation.gen
  \/ l.token # rotation.old /\ l.gen = rotation.gen

LeaseForeign ==
  /\ Ensures /\ Rotating /\ credLease # NoCredLease
  /\ ~RotationMatches(credLease, credCache.rotation)
  /\ FailRepositoryCredential("Other")
  /\ UNCHANGED <<credProvider, credSecrets, credCache, credEnv, credPasses,
                 credRest>>

IsOld == credLease # NoCredLease /\ credLease.token = credCache.rotation.old
IsReplacement ==
  /\ credLease # NoCredLease /\ ~IsOld
  /\ credLease.gen = credCache.rotation.gen

\* The old lease: say so, fence its execution, then revoke and delete it.
RotationRefreshes ==
  /\ Ensures /\ Rotating /\ IsOld /\ credCache.rotation.wake
  /\ credCache.cond # "Refreshing"
  /\ SetCondition("Refreshing")
  /\ UNCHANGED <<credProvider, credSecrets, credCache, credEnv, credPasses,
                 credRest>>

RotationFences ==
  /\ Ensures /\ Rotating /\ credCache.rotation.wake
  /\ \/ IsOld /\ credCache.cond = "Refreshing"
     \/ IsReplacement /\ ~credEnv.held /\ credEnv.woken # credLease.token
  /\ RequestEnvironmentFence
  /\ UNCHANGED <<credProvider, credSecrets, credRun, credCache, credPasses,
                 credRest>>

MayRevokeOld ==
  /\ IsOld
  /\ credCache.rotation.wake =>
       credCache.cond = "Refreshing" /\ EnvironmentFenced

\* Mutant: the cleanup leaves a rotation alone.
CleanupMayRevoke_NotRotating == ~Rotating

CleanupMayRevoke ==
  Rotating => RotationMatches(credLease, credCache.rotation)

DecideRevoke ==
  /\ \/ Ensures /\ Rotating /\ MayRevokeOld
     \/ /\ Cleaning /\ wal = NoWal /\ credLease # NoCredLease
        /\ ~credEnv.gone /\ CleanupMayRevoke
  /\ runPass' = [runPass EXCEPT !.pc = "revoking", !.lease = credLease]
  /\ UNCHANGED <<credProvider, credSecrets, credObjects, envPass, credRest>>

LeaseRevokes ==
  /\ runPass.pc = "revoking"
  /\ LET t == runPass.lease.token IN
     \/ /\ credRevoked' = credRevoked \cup {t}
        /\ runPass' = [runPass EXCEPT !.pc = "revoked"]
        /\ UNCHANGED <<credRun, credFaults>>
     \/ /\ CredFault /\ TokenExpired(t)
        /\ runPass' = [runPass EXCEPT !.pc = "revoked"]
        /\ UNCHANGED <<credRevoked, credRun>>
     \/ /\ CredFault /\ ~TokenExpired(t)
        /\ runPass' = NoRunPass
        /\ credRun' = IF Terminal /\ credCache = credRun
                      THEN [credRun EXCEPT !.cond = "Other"] ELSE credRun
        /\ UNCHANGED credRevoked
  /\ UNCHANGED <<tok, lost, credSecrets, credCache, credEnv, envPass, delivered>>

\* The delete carries the UID and the resourceVersion that was read.
LeaseDeleteAllowed == credLease = runPass.lease

LeaseDeletes ==
  /\ runPass.pc = "revoked"
  /\ credLease' = IF LeaseDeleteAllowed THEN NoCredLease ELSE credLease
  /\ credRun' = IF /\ LeaseDeleteAllowed /\ credCache = credRun
                   /\ credRun.state = "active"
                THEN [credRun EXCEPT !.cond = "Issuing"] ELSE credRun
  /\ runPass' = NoRunPass
  /\ UNCHANGED <<credProvider, wal, credCache, credEnv, envPass, credRest>>

\* The replacement: wake the fenced Environment, then forget the rotation.
RotationWakes ==
  /\ Ensures /\ Rotating /\ IsReplacement /\ credCache.rotation.wake
  /\ credEnv.woken # credLease.token /\ ~credEnv.held /\ EnvironmentFenced
  /\ credEnv' = [credEnv EXCEPT !.mode = "running", !.woken = credLease.token]
  /\ UNCHANGED <<credProvider, credSecrets, credRun, credCache, credPasses,
                 credRest>>

RotationEnds ==
  /\ Ensures /\ Rotating /\ IsReplacement
  /\ credCache.rotation.wake => credEnv.woken = credLease.token
  /\ WriteRun([credRun EXCEPT !.rotation = NoRotation])
  /\ UNCHANGED <<credProvider, credSecrets, credCache, credEnv, credPasses,
                 credRest>>

\* Held: the fresh lease is ready although nothing may wake for it.
RotationHeld ==
  /\ Ensures /\ Rotating /\ IsReplacement /\ credCache.rotation.wake
  /\ credEnv.woken # credLease.token /\ credEnv.held
  /\ credCache.cond # "Ready"
  /\ SetCondition("Ready")
  /\ UNCHANGED <<credProvider, credSecrets, credCache, credEnv, credPasses,
                 credRest>>

\* A bound lease without a rotation: the Environment is read after the lease,
\* and the Pod after the Environment.
LeaseCheck ==
  /\ Ensures /\ ~Rotating /\ credLease.exec # 0
  /\ runPass' = [runPass EXCEPT !.pc = "checkEnv", !.lease = credLease]
  /\ UNCHANGED <<credProvider, credSecrets, credObjects, envPass, credRest>>

Rotation(l, wake) == [old |-> l.token, gen |-> l.gen + 1, wake |-> wake]

\* Mutant: the record of a Pod being created is ignored.
ProvisioningCurrent_Ignored(record, l) == FALSE

\* The record says that the Pod for this very lease may be on its way.
ProvisioningCurrent(record, l) == record = [token |-> l.token, exec |-> l.exec]

LeaseSettled(l, podMissing) ==
  IF credCache # credRun THEN credRun
  ELSE IF podMissing THEN [credRun EXCEPT !.rotation = Rotation(l, FALSE)]
  ELSE IF tok[l.token] \in {"due", "expired"}
       THEN [credRun EXCEPT !.rotation = Rotation(l, TRUE)]
  ELSE [credRun EXCEPT !.cond = "Ready"]

EnvCheck ==
  /\ runPass.pc = "checkEnv"
  /\ IF credEnv.gone
     THEN credRun' = LeaseSettled(runPass.lease, FALSE) /\ runPass' = NoRunPass
     ELSE /\ runPass' = [runPass EXCEPT !.pc = "checkPod", !.record = credEnv.record]
          /\ UNCHANGED credRun
  /\ UNCHANGED <<credProvider, credSecrets, credCache, credEnv, envPass,
                 credRest>>

PodCheck ==
  /\ runPass.pc = "checkPod"
  /\ credRun' = LeaseSettled(runPass.lease,
                  /\ credEnv.pod = NoPod
                  /\ ~ProvisioningCurrent(runPass.record, runPass.lease))
  /\ runPass' = NoRunPass
  /\ UNCHANGED <<credProvider, credSecrets, credCache, credEnv, envPass,
                 credRest>>

UnboundCheck ==
  /\ Ensures /\ ~Rotating /\ credLease # NoCredLease /\ credLease.exec = 0
  /\ credRun' = LeaseSettled(credLease, FALSE)
  /\ UNCHANGED <<credProvider, credSecrets, credCache, credEnv, credPasses,
                 credRest>>

\* No lease: announce it, then ask the provider for a token.
Announce ==
  /\ Ensures /\ credLease = NoCredLease
  /\ credCache.cond \notin {"Issuing", "Refreshing"}
  /\ SetCondition("Issuing")
  /\ UNCHANGED <<credProvider, credSecrets, credCache, credEnv, credPasses,
                 credRest>>

\* The answer is a good token, one the platform may not use, or is lost.
Issue ==
  /\ Ensures /\ credLease = NoCredLease
  /\ credCache.cond \in {"Issuing", "Refreshing"}
  /\ \E t \in Tokens :
       /\ tok[t] = "none" /\ \A u \in 1..(t - 1) : tok[u] # "none"
       /\ tok' = [tok EXCEPT ![t] = "fresh"]
       /\ LET l == [token |-> t, gen |-> ExpectedGeneration(credCache),
                    exec |-> 0]
          IN \/ /\ runPass' = [runPass EXCEPT !.pc = "issued", !.lease = l]
                /\ UNCHANGED <<lost, credFaults>>
             \/ /\ CredFault
                /\ runPass' = [runPass EXCEPT !.pc = "unpersisted",
                                              !.lease = l, !.bad = TRUE]
                /\ UNCHANGED lost
             \/ /\ CredFault
                /\ lost' = lost \cup {t}
                /\ UNCHANGED runPass
  /\ UNCHANGED <<credRevoked, credSecrets, credObjects, envPass, delivered>>

\* Refused for good, or to be tried again.
IssueRefused ==
  /\ Ensures /\ credLease = NoCredLease
  /\ credCache.cond \in {"Issuing", "Refreshing"}
  /\ CredFault
  /\ FailRepositoryCredential("Other") \/ SetCondition("Other")
  /\ UNCHANGED <<credProvider, credSecrets, credCache, credEnv, credPasses,
                 delivered>>

\* A create that failed may have happened, and reading it back may fail too.
StoreLease ==
  /\ runPass.pc = "issued"
  /\ \/ /\ credLease' = runPass.lease
        /\ runPass' = NoRunPass
        /\ UNCHANGED credFaults
     \/ /\ CredFault
        /\ credLease' \in {credLease, runPass.lease}
        /\ runPass' = [runPass EXCEPT !.pc = "unpersisted"]
  /\ UNCHANGED <<credProvider, wal, credObjects, envPass, delivered>>

WalRecord == [token |-> runPass.lease.token, gen |-> runPass.lease.gen,
              state |-> "pending", bad |-> runPass.bad]

StoreWal ==
  /\ runPass.pc = "unpersisted"
  /\ \/ /\ wal' = WalRecord
        /\ runPass' = NoRunPass
        /\ UNCHANGED credFaults
     \/ /\ CredFault
        /\ wal' \in {wal, WalRecord}
        /\ runPass' = [runPass EXCEPT !.pc = "fallback"]
  /\ UNCHANGED <<credProvider, credLease, credObjects, envPass, delivered>>

\* A token that leaves the pass with no Secret to remember it.
Dropped(t) == IF t \in {0, credLease.token, wal.token} THEN {} ELSE {t}

FallbackRevoke ==
  /\ runPass.pc = "fallback"
  /\ LET t == runPass.lease.token IN
     \/ credRevoked' = credRevoked \cup {t} /\ UNCHANGED <<lost, credFaults>>
     \/ CredFault /\ lost' = lost \cup Dropped(t) /\ UNCHANGED credRevoked
  /\ credRun' = IF credCache = credRun
                THEN [credRun EXCEPT !.state = "failed", !.cond = "Other"]
                ELSE credRun
  /\ runPass' = NoRunPass
  /\ UNCHANGED <<tok, credSecrets, credCache, credEnv, envPass, delivered>>

\* Nothing is left to clean: the Environment is let go and the finalizer too.
CleanupEnds ==
  /\ Cleaning /\ wal = NoWal /\ credLease = NoCredLease
  /\ WriteRun([credRun EXCEPT !.state = "gone", !.rotation = NoRotation])
  /\ UNCHANGED <<credProvider, credSecrets, credCache, credEnv, credPasses,
                 credRest>>

\* repositoryLaunchMaterial: an agent gets the token of its own execution.
LaunchAllowed(l) == l.token # 0 /\ ~TokenExpired(l.token) /\ l.exec = credEnv.exec

LaunchAgent ==
  /\ Ensures /\ ~Rotating /\ credCache.cond = "Ready"
  /\ credEnv.mode = "running" /\ envPass.pc = "idle"
  /\ credEnv.pod.token # 0 /\ ~credEnv.pod.dying /\ credEnv.record = NoProvisioning
  /\ LaunchAllowed(credLease)
  /\ delivered' = [token |-> credLease.token, exec |-> credEnv.exec]
  /\ UNCHANGED <<credProvider, credSecrets, credObjects, credPasses,
                 credFaults>>

(***************************************************************************)
(* The Environment controller: getOrCreatePod and its credential steps.    *)
(***************************************************************************)
Provisioning == envPass.pc = "idle" /\ ~credEnv.gone /\ credEnv.mode = "running"

\* A record without a Pod is ambiguous: it is given up.
RecordClears ==
  /\ Provisioning /\ credEnv.pod = NoPod /\ credEnv.record # NoProvisioning
  /\ credEnv' = [credEnv EXCEPT !.record = NoProvisioning]
  /\ UNCHANGED <<credProvider, credSecrets, credRun, credCache, credPasses,
                 credRest>>

\* repositoryCloneCredential.
RunOffers == credRun.state = "active"
             /\ (credRun.cond = "Ready" \/ credRun.rotation # NoRotation)
CloneUsable(l) ==
  /\ l # NoCredLease /\ ~TokenExpired(l.token)
  /\ l.exec # 0 => /\ credEnv.record = [token |-> l.token, exec |-> l.exec]
                   /\ l.exec = credEnv.exec

TakeLease ==
  /\ Provisioning /\ credEnv.pod = NoPod /\ credEnv.record = NoProvisioning
  /\ credEnv.exec < MaxExecution
  /\ RunOffers /\ CloneUsable(credLease)
  /\ credEnv' = [credEnv EXCEPT !.record = [token |-> credLease.token,
                                            exec |-> credEnv.exec + 1]]
  /\ envPass' = [pc |-> "recorded", lease |-> credLease]
  /\ UNCHANGED <<credProvider, credSecrets, credRun, credCache, runPass,
                 credRest>>

ReserveExecution ==
  /\ envPass.pc = "recorded"
  /\ credEnv' = [credEnv EXCEPT !.exec = @ + 1]
  /\ envPass' = [envPass EXCEPT !.pc = "reserved"]
  /\ UNCHANGED <<credProvider, credSecrets, credRun, credCache, runPass,
                 credRest>>

\* The Secret must still be the one that was read.
BindAllowed == credLease = envPass.lease

BindLease ==
  /\ envPass.pc = "reserved"
  /\ IF BindAllowed
     THEN /\ credLease' = [credLease EXCEPT !.exec = credEnv.exec]
          /\ envPass' = [pc |-> "bound", lease |-> credLease']
     ELSE envPass' = NoEnvPass /\ UNCHANGED credLease
  /\ UNCHANGED <<credProvider, wal, credObjects, runPass, credRest>>

CreatePod ==
  /\ envPass.pc = "bound"
  /\ \/ /\ credEnv' = [credEnv EXCEPT !.pod = [token |-> envPass.lease.token,
                                   exec |-> credEnv.exec, dying |-> FALSE]]
        /\ envPass' = [envPass EXCEPT !.pc = "created"]
     \/ envPass' = NoEnvPass /\ UNCHANGED credEnv
  /\ UNCHANGED <<credProvider, credSecrets, credRun, credCache, runPass,
                 credRest>>

AcknowledgePod ==
  /\ envPass.pc = "created"
  /\ \/ credEnv' = [credEnv EXCEPT !.record = NoProvisioning]
     \/ /\ credEnv.pod # NoPod
        /\ credEnv' = [credEnv EXCEPT !.record = NoProvisioning, !.pod.dying = TRUE]
  /\ envPass' = NoEnvPass
  /\ UNCHANGED <<credProvider, credSecrets, credRun, credCache, runPass,
                 credRest>>

\* recoverRepositoryProvisioningPod after a crash before the acknowledgement:
\* kept when the lease is still the Pod's, otherwise replaced.
RecoverPod ==
  /\ Provisioning /\ credEnv.pod # NoPod /\ ~credEnv.pod.dying
  /\ credEnv.record # NoProvisioning
  /\ RunOffers /\ CloneUsable(credLease)
  /\ credEnv' = [credEnv EXCEPT !.record = NoProvisioning,
                   !.pod.dying = ~(/\ credLease.exec = credEnv.pod.exec
                                   /\ credEnv.record.exec = credLease.exec)]
  /\ UNCHANGED <<credProvider, credSecrets, credRun, credCache, credPasses,
                 credRest>>

CredEnvFences ==
  /\ envPass.pc = "idle" /\ ~credEnv.gone /\ credEnv.mode = "fencing"
  /\ credEnv' = IF credEnv.pod = NoPod
                THEN [credEnv EXCEPT !.mode = "fenced"]
                ELSE [credEnv EXCEPT !.pod.dying = TRUE]
  /\ UNCHANGED <<credProvider, credSecrets, credRun, credCache, credPasses,
                 credRest>>

(***************************************************************************)
(* Everything else: Pods end, users hold, suspend, wake and cancel, time   *)
(* passes, the operator crashes and its cache follows.                     *)
(***************************************************************************)
PodEnds ==
  /\ credEnv.pod # NoPod
  /\ credEnv' = [credEnv EXCEPT !.pod = NoPod]
  /\ UNCHANGED <<credProvider, credSecrets, credRun, credCache, credPasses,
                 credRest>>

UserActs ==
  /\ ~credEnv.gone
  /\ \/ /\ credEnv.mode = "running"
        /\ \E hold \in BOOLEAN :
             credEnv' = [credEnv EXCEPT !.mode = "fencing", !.held = hold]
     \/ /\ EnvironmentFenced
        /\ credEnv' = [credEnv EXCEPT !.mode = "running", !.held = FALSE]
  /\ UNCHANGED <<credProvider, credSecrets, credRun, credCache, credPasses,
                 credRest>>

TokenAges(t) ==
  /\ \/ tok[t] = "fresh" /\ tok' = [tok EXCEPT ![t] = "due"]
     \/ tok[t] = "due" /\ tok' = [tok EXCEPT ![t] = "expired"]
  /\ UNCHANGED <<credRevoked, lost, credSecrets, credObjects, credPasses,
                 credRest>>

RunStops ==
  /\ credRun.state = "active"
  /\ credRun' = [credRun EXCEPT !.state = "ended"]
  /\ UNCHANGED <<credProvider, credSecrets, credCache, credEnv, credPasses,
                 credRest>>

EnvironmentVanishes ==
  /\ ~credEnv.gone /\ CredFault
  /\ credEnv' = [credEnv EXCEPT !.gone = TRUE, !.pod = NoPod]
  /\ envPass' = NoEnvPass
  /\ UNCHANGED <<credProvider, credSecrets, credRun, credCache, runPass,
                 delivered>>

CacheFollows ==
  /\ runPass.pc = "idle" /\ credCache # credRun
  /\ credCache' = credRun
  /\ UNCHANGED <<credProvider, credSecrets, credRun, credEnv, credPasses,
                 credRest>>

OperatorCrashes ==
  /\ runPass.pc # "idle" \/ envPass.pc # "idle"
  /\ CredFault
  /\ lost' = IF runPass.pc \in {"issued", "unpersisted", "fallback"}
             THEN lost \cup Dropped(runPass.lease.token) ELSE lost
  /\ runPass' = NoRunPass
  /\ envPass' = NoEnvPass
  /\ credCache' = credRun
  /\ UNCHANGED <<tok, credRevoked, credSecrets, credRun, credEnv, delivered>>

CredRunStep ==
  \/ CleanupFences \/ WalRevokes \/ WalCompletes \/ WalDisposes \/ WalDeletes
  \/ EnvironmentMissing \/ LeaseForeign \/ RotationRefreshes \/ RotationFences
  \/ DecideRevoke \/ LeaseRevokes \/ LeaseDeletes \/ RotationWakes
  \/ RotationEnds \/ RotationHeld \/ LeaseCheck \/ EnvCheck \/ PodCheck
  \/ UnboundCheck \/ Announce \/ Issue \/ IssueRefused \/ StoreLease
  \/ StoreWal \/ FallbackRevoke \/ CleanupEnds \/ LaunchAgent

CredEnvStep ==
  \/ RecordClears \/ TakeLease \/ ReserveExecution \/ BindLease \/ CreatePod
  \/ AcknowledgePod \/ RecoverPod \/ CredEnvFences

CredNext ==
  \/ CredRunStep \/ CredEnvStep \/ PodEnds \/ UserActs \/ RunStops
  \/ EnvironmentVanishes \/ CacheFollows \/ OperatorCrashes
  \/ \E t \in Tokens : TokenAges(t)

CredSpec == CredInit /\ [][CredNext]_credVars

CredTypeOK ==
  /\ tok \in [Tokens -> {"none", "fresh", "due", "expired"}]
  /\ credRevoked \subseteq Tokens /\ lost \subseteq Tokens
  /\ credLease.token \in 0..MaxRepoTokens /\ wal.token \in 0..MaxRepoTokens
  /\ credEnv.exec \in 0..MaxExecution /\ credFaults \in 0..CredFaults

\* Every token the provider still honours can be revoked: it is in the lease
\* Secret, in a pending log record, or in the hands of the pass that asked for
\* it, unless the answer that carried it was lost or neither Secret could be
\* written (ensureRepositoryCredential, persistPendingRepositoryRevocation).
TokensTracked ==
  \A t \in Tokens : TokenLive(t) =>
    \/ t = credLease.token
    \/ t = wal.token /\ wal.state = "pending"
    \/ /\ t = runPass.lease.token
       /\ runPass.pc \in {"issued", "unpersisted", "fallback"}
    \/ t \in lost

\* The rotation record of the Run always proves the generation of the log
\* record, so validatePendingRepositoryIdentity never blocks a record the
\* controller wrote itself.
WalProvable ==
  wal # NoWal => credRun.state # "gone"
                 /\ wal.gen = ExpectedGeneration(credRun)

\* An agent process is handed the very token its Pod cloned with
\* (repositoryLaunchMaterial against the binding of getOrCreatePod).
OneTokenPerExecution ==
  delivered.exec # 0 /\ delivered.exec = credEnv.pod.exec
    => delivered.token = credEnv.pod.token

\* A Run that is gone leaves no Secret and no live token behind
\* (cleanupRepositoryCredential before the finalizer is removed).
CleanEnd ==
  credRun.state = "gone" =>
    /\ credLease = NoCredLease /\ wal = NoWal
    /\ \A t \in Tokens : TokenLive(t) => t \in lost

PodHolds(l) == credEnv.pod.token = l.token /\ ~credEnv.pod.dying

\* A lease is never deleted while its Pod runs or is about to be created,
\* except for a token that the log has revoked: the rotation reads the lease,
\* then the provisioning record, then the Pod, and deletes what it read.
LeaseOutlivesPod ==
  (credLease # NoCredLease /\ credLease' = NoCredLease /\ wal.token # credLease.token)
    => ~PodHolds(credLease) /\ ~(/\ envPass.pc = "bound"
                                 /\ envPass.lease = credLease)

\* The steps and the states of the credential lifecycle.
CredCorrect ==
    /\ [](CredTypeOK /\ TokensTracked /\ WalProvable /\ OneTokenPerExecution /\ CleanEnd)
    /\ [][LeaseOutlivesPod]_credVars

\* What keeps the clean-up going: both controllers retry, a Pod that was told
\* to end ends, and the cache is updated between two passes sooner or later.
CredFairness ==
  /\ WF_credVars(CredRunStep)
  /\ WF_credVars(CredEnvFences)
  /\ WF_credVars(credEnv.pod.dying /\ PodEnds)
  /\ WF_credVars(envPass.pc # "idle" /\ CredEnvStep)
  /\ SF_credVars(CacheFollows)

\* A terminal Run's credential is cleaned up and the Run let go, as long as
\* its Environment is there to prove what is cleaned (cleanupTerminal).
CredEnds ==
  credRun.state \in {"ended", "failed"} ~> (credRun.state = "gone" \/ credEnv.gone)
=============================================================================
