--------------------------- MODULE ProjectTenancy ---------------------------
(***************************************************************************)
(* A Project's namespace claim: the onboarding and offboarding commands that *)
(* move it, the lease every reconcile takes on it, and the guard that      *)
(* verifies the lease again before each write of the Environment controller. *)
(* One action is one API call: verifying and writing are two.              *)
(***************************************************************************)
EXTENDS Integers, FiniteSets

CONSTANTS CliCommands,     \* invocations of project onboard and project offboard
          Spaces,       \* Environments that may exist in the namespace
          Jobs,         \* Runs that may exist in the namespace
          MaxProjects   \* bound on incarnations of the Project

ASSUME TenancyAssumption == MaxProjects \in Nat

\* The lifecycle annotation with its operation.
Lifecycles == {"unclaimed", "onboarding", "active", "offboarding", "fenced"}
Fencing == {"onboarding", "offboarding"}
NoClaim == [life |-> "unclaimed", project |-> 0]

VARIABLES claim,      \* the namespace's annotations: lifecycle and Project UID
          project,    \* UID of the live Project, 0 if none
          projects,   \* incarnations so far
          cmd,        \* the commands
          space,      \* the Environments
          spaceHeld,  \* who has read an Environment as it is now: commands and "operator"
          spacePods,  \* Environments that have a Pod
          tenancyWorker,     \* the Environment controller's reconcile of each
          job,        \* the Runs
          early       \* Runs that existed when the claim began to be fenced

tenancyVars == <<claim, project, projects, cmd, space, spaceHeld, spacePods, tenancyWorker, job, early>>

NewSpace == [exists |-> TRUE, hold |-> FALSE, suspended |-> FALSE]
NoSpace == [exists |-> FALSE, hold |-> FALSE, suspended |-> FALSE]
IdleTenancyWorker == [step |-> "idle", lease |-> NoClaim, fence |-> FALSE, write |-> "none"]
IdleCommand == [step |-> "idle", saw |-> NoClaim, lease |-> NoClaim, spaces |-> {}, drained |-> FALSE]

TenancyInit ==
    /\ claim = NoClaim /\ project = 0 /\ projects = 0
    /\ cmd = [c \in CliCommands |-> IdleCommand]
    /\ space = [e \in Spaces |-> NoSpace] /\ spaceHeld = [e \in Spaces |-> {}] /\ spacePods = {}
    /\ tenancyWorker = [e \in Spaces |-> IdleTenancyWorker]
    /\ job = [r \in Jobs |-> "absent"] /\ early = {}

\* verifyProjectClaim: the annotated Project is the one that is live.
ProjectValid(c) == project # 0 /\ c.project = project

\* VerifyNamespace with the lifecycles a caller permits.
Verified(c, permitted) == c.project # 0 /\ ProjectValid(c) /\ c.life \in permitted

WorldUnchanged == UNCHANGED <<project, projects, space, spaceHeld, spacePods, tenancyWorker, job>>
Command(c, step) == cmd' = [cmd EXCEPT ![c].step = step]
CommandEnds(c) == cmd' = [cmd EXCEPT ![c] = IdleCommand]

\* What patchNamespace requires to be as the command saw it.
Required(c) == claim = cmd[c].saw

\* patchNamespace: required annotations, then an update with the version read.
PatchClaim(c, new, step) ==
    IF Required(c)
    THEN /\ claim' = new
         /\ cmd' = [cmd EXCEPT ![c].step = step, ![c].saw = new]
    ELSE UNCHANGED claim /\ CommandEnds(c)

(* ---- project onboard -------------------------------------------------- *)

\* The namespace is created or adopted as onboarding; a claim of this Project is
\* taken up again unless it is being, or was, offboarded.
OnboardClaims(c) ==
    /\ cmd[c].step = "idle" /\ claim.life \in {"unclaimed", "onboarding", "active"}
    /\ claim' = IF claim.life = "unclaimed" THEN [claim EXCEPT !.life = "onboarding"] ELSE claim
    /\ cmd' = [cmd EXCEPT ![c] = [IdleCommand EXCEPT !.step = "project", !.saw = claim']]
    /\ UNCHANGED early /\ WorldUnchanged

\* An existing Project must be the claimed one; a missing claimed one is refused.
OnboardProject(c) ==
    /\ cmd[c].step = "project"
    /\ LET expected == cmd[c].saw.project
       IN  \/ /\ project = 0 /\ expected = 0 /\ projects < MaxProjects
              /\ project' = projects + 1 /\ projects' = projects + 1
              /\ cmd' = [cmd EXCEPT ![c].step = "pin", ![c].lease = [life |-> cmd[c].saw.life, project |-> project']]
           \/ /\ project # 0 /\ expected \in {0, project}
              /\ cmd' = [cmd EXCEPT ![c].step = "pin", ![c].lease = [life |-> cmd[c].saw.life, project |-> project]]
              /\ UNCHANGED <<project, projects>>
           \/ /\ expected # 0 /\ expected # project
              /\ CommandEnds(c) /\ UNCHANGED <<project, projects>>
    /\ UNCHANGED <<claim, space, spaceHeld, spacePods, tenancyWorker, job, early>>

OnboardPins(c) ==
    /\ cmd[c].step = "pin"
    /\ PatchClaim(c, [claim EXCEPT !.project = cmd[c].lease.project], "begin")
    /\ UNCHANGED early /\ WorldUnchanged

\* The lease under which Templates and the baseline are synchronized.
OnboardBegins(c) ==
    /\ cmd[c].step = "begin"
    /\ IF Verified(claim, {"active"} \cup Fencing) /\ claim.project = cmd[c].lease.project
       THEN cmd' = [cmd EXCEPT ![c].step = "sync", ![c].lease = claim]
       ELSE CommandEnds(c)
    /\ UNCHANGED <<claim, early>> /\ WorldUnchanged

\* A guarded write of the synchronization: the whole claim must be as leased.
OnboardSyncs(c) ==
    /\ cmd[c].step = "sync"
    /\ IF Verified(claim, Lifecycles) /\ claim = cmd[c].lease THEN Command(c, "activate") ELSE CommandEnds(c)
    /\ UNCHANGED <<claim, early>> /\ WorldUnchanged

OnboardActivates(c) ==
    /\ cmd[c].step = "activate"
    /\ PatchClaim(c, [claim EXCEPT !.life = "active"], "done")
    /\ UNCHANGED early /\ WorldUnchanged

(* ---- project offboard ------------------------------------------------- *)

OffboardReads(c) ==
    /\ cmd[c].step = "idle" /\ Verified(claim, {"active", "offboarding"})
    /\ cmd' = [cmd EXCEPT ![c] = [IdleCommand EXCEPT !.saw = claim,
                                  !.step = IF claim.life = "active" THEN "fence" ELSE "scan"]]
    /\ UNCHANGED <<claim, early>> /\ WorldUnchanged

OffboardFences(c) ==
    /\ cmd[c].step = "fence"
    /\ PatchClaim(c, [claim EXCEPT !.life = "offboarding"], "scan")
    /\ early' = IF claim' # claim THEN {r \in Jobs : job[r] # "absent"} ELSE early
    /\ WorldUnchanged

\* The claim is verified and Runs, Environments and Pods are listed, in turn.
OffboardScansRuns(c) ==
    /\ cmd[c].step = "scan"
    /\ IF Verified(claim, Fencing) /\ claim.project = cmd[c].saw.project
       THEN cmd' = [cmd EXCEPT ![c].step = "envs", ![c].lease = claim,
                               ![c].drained = \A r \in Jobs : job[r] \in {"absent", "ended"}]
       ELSE CommandEnds(c)
    /\ UNCHANGED <<claim, early>> /\ WorldUnchanged

SpaceDrained(e) == ~space[e].exists \/ space[e].suspended

OffboardListsEnvironments(c) ==
    /\ cmd[c].step = "envs"
    /\ cmd' = [cmd EXCEPT ![c].step = "pods", ![c].drained = @ /\ \A e \in Spaces : SpaceDrained(e),
                          ![c].spaces = {e \in Spaces : space[e].exists /\ ~space[e].hold}]
    /\ spaceHeld' = [e \in Spaces |-> spaceHeld[e] \cup {c}]
    /\ UNCHANGED <<claim, project, projects, space, spacePods, tenancyWorker, job, early>>

\* Mutant: the Pods of a namespace are not looked at.
PodsSeen_Ignored == FALSE

\* Pods owned by an Environment.
PodsSeen == spacePods # {}

OffboardListsPods(c) ==
    /\ cmd[c].step = "pods"
    /\ cmd' = [cmd EXCEPT ![c].step = "hold", ![c].drained = @ /\ ~PodsSeen]
    /\ UNCHANGED <<claim, early>> /\ WorldUnchanged

\* ensureOffboardingIntents: a guarded patch of every Environment without a hold,
\* with the version listed; a conflict ends the command.
OffboardHolds(c) ==
    /\ cmd[c].step = "hold"
    /\ \E e \in cmd[c].spaces :
         IF Verified(claim, Lifecycles) /\ claim = cmd[c].lease /\ c \in spaceHeld[e]
         THEN /\ space' = [space EXCEPT ![e].hold = TRUE] /\ spaceHeld' = [spaceHeld EXCEPT ![e] = {c}]
              /\ cmd' = [cmd EXCEPT ![c].spaces = @ \ {e}]
         ELSE CommandEnds(c) /\ UNCHANGED <<space, spaceHeld>>
    /\ UNCHANGED <<claim, project, projects, spacePods, tenancyWorker, job, early>>

\* Everything listed was drained: the claim is marked fenced; else another round.
OffboardMarks(c) ==
    /\ cmd[c].step = "hold" /\ cmd[c].spaces = {}
    /\ IF cmd[c].drained THEN PatchClaim(c, [claim EXCEPT !.life = "fenced"], "done")
       ELSE Command(c, "scan") /\ UNCHANGED claim
    /\ UNCHANGED early /\ WorldUnchanged

\* An error, the timeout or the operator interrupts a command between two calls.
CommandStops(c) ==
    /\ cmd[c].step # "idle" /\ CommandEnds(c)
    /\ UNCHANGED <<claim, early>> /\ WorldUnchanged

(* ---- the Environment controller --------------------------------------- *)

OthersUnchanged == UNCHANGED <<claim, project, projects, cmd, job, early>>

\* What the reconcile wants to write for an Environment in the state it read.
WriteWanted(e, life) ==
    IF life = "offboarding" /\ ~space[e].hold THEN {"hold"}
    ELSE IF space[e].hold \/ space[e].suspended
    THEN IF e \in spacePods THEN {"deletePod"}
         ELSE IF ~space[e].suspended THEN {"suspend"} ELSE IF space[e].hold THEN {} ELSE {"resume"}
    ELSE IF e \in spacePods THEN {"suspendIdle"} ELSE {"createPod"}

\* Begin, or the stale-Project fence when only the Project is no longer valid.
WorkerBegins(e) ==
    /\ tenancyWorker[e].step = "idle" /\ space[e].exists /\ claim.project # 0
    /\ \/ /\ Verified(claim, {"active", "offboarding"})
          /\ \E w \in WriteWanted(e, claim.life) :
               tenancyWorker' = [tenancyWorker EXCEPT ![e] = [step |-> "authorize", lease |-> claim, fence |-> FALSE, write |-> w]]
       \/ /\ ~ProjectValid(claim) /\ claim.life \in {"active"} \cup Fencing /\ e \in spacePods
          /\ tenancyWorker' = [tenancyWorker EXCEPT ![e] = [step |-> "authorize", lease |-> claim, fence |-> TRUE, write |-> "deletePod"]]
    /\ spaceHeld' = [spaceHeld EXCEPT ![e] = @ \cup {"operator"}]
    /\ UNCHANGED <<space, spacePods>> /\ OthersUnchanged

WorkerStops(e) == tenancyWorker' = [tenancyWorker EXCEPT ![e] = IdleTenancyWorker]

\* GuardedClient.authorize and authorizeFence: the whole claim as leased, and the
\* Project valid, or for a fence still invalid.
WriteAuthorized(e) == claim = tenancyWorker[e].lease /\ tenancyWorker[e].fence = ~ProjectValid(claim)

WorkerAuthorizes(e) ==
    /\ tenancyWorker[e].step \in {"authorize", "undo"}
    /\ IF WriteAuthorized(e) THEN tenancyWorker' = [tenancyWorker EXCEPT ![e].step = IF @ = "undo" THEN "undoing" ELSE "write"]
       ELSE WorkerStops(e)
    /\ UNCHANGED <<space, spaceHeld, spacePods>> /\ OthersUnchanged

\* A write of the Environment is refused when it changed since it was read.
WorkerWritesSpace(e) ==
    /\ tenancyWorker[e].step = "write" /\ tenancyWorker[e].write \in {"hold", "suspend", "suspendIdle", "resume"}
    /\ IF "operator" \in spaceHeld[e]
       THEN /\ space' = IF tenancyWorker[e].write = "hold" THEN [space EXCEPT ![e].hold = TRUE]
                        ELSE [space EXCEPT ![e].suspended = tenancyWorker[e].write # "resume"]
            /\ spaceHeld' = [spaceHeld EXCEPT ![e] = {}]
       ELSE UNCHANGED <<space, spaceHeld>>
    /\ WorkerStops(e)
    /\ UNCHANGED spacePods /\ OthersUnchanged

\* A Pod is created or deleted by name; a create is followed by a check.
WorkerWritesPod(e) ==
    /\ tenancyWorker[e].step = "write" /\ tenancyWorker[e].write \in {"createPod", "deletePod"}
    /\ IF tenancyWorker[e].write = "createPod"
       THEN spacePods' = spacePods \cup {e} /\ tenancyWorker' = [tenancyWorker EXCEPT ![e].step = "check"]
       ELSE spacePods' = spacePods \ {e} /\ WorkerStops(e)
    /\ UNCHANGED <<space, spaceHeld>> /\ OthersUnchanged

\* backendCreationSourcesCurrent after the create: a hold or another Project undoes
\* it, by a delete that is guarded by the same lease.
WorkerChecks(e) ==
    /\ tenancyWorker[e].step = "check"
    /\ IF space[e].exists /\ ~space[e].hold /\ ~space[e].suspended /\ ProjectValid(tenancyWorker[e].lease) THEN WorkerStops(e)
       ELSE tenancyWorker' = [tenancyWorker EXCEPT ![e].step = "undo"]
    /\ UNCHANGED <<space, spaceHeld, spacePods>> /\ OthersUnchanged

WorkerUndoes(e) ==
    /\ tenancyWorker[e].step = "undoing"
    /\ spacePods' = spacePods \ {e} /\ WorkerStops(e)
    /\ UNCHANGED <<space, spaceHeld>> /\ OthersUnchanged

WorkerCrashes(e) ==
    /\ tenancyWorker[e].step # "idle" /\ WorkerStops(e)
    /\ UNCHANGED <<space, spaceHeld, spacePods>> /\ OthersUnchanged

(* ---- users and Runs --------------------------------------------------- *)

CreateSpace(e) ==
    /\ ~space[e].exists /\ claim.life # "unclaimed"
    /\ space' = [space EXCEPT ![e] = NewSpace] /\ spaceHeld' = [spaceHeld EXCEPT ![e] = {}]
    /\ UNCHANGED <<spacePods, tenancyWorker>> /\ OthersUnchanged

\* environment release: a user lifts a hold.
ReleaseHold(e) ==
    /\ space[e].hold /\ claim.life = "active"
    /\ space' = [space EXCEPT ![e].hold = FALSE] /\ spaceHeld' = [spaceHeld EXCEPT ![e] = {}]
    /\ UNCHANGED <<spacePods, tenancyWorker>> /\ OthersUnchanged

DeleteProject ==
    /\ project # 0 /\ project' = 0
    /\ UNCHANGED <<claim, projects, cmd, space, spaceHeld, spacePods, tenancyWorker, job, early>>

RecreateProject ==
    /\ project = 0 /\ projects \in 1 .. MaxProjects - 1
    /\ project' = projects + 1 /\ projects' = projects + 1
    /\ UNCHANGED <<claim, cmd, space, spaceHeld, spacePods, tenancyWorker, job, early>>

\* A Run is created at any time; its controller ends it while the claim permits.
JobStep(r) ==
    /\ \/ job[r] = "absent" /\ claim.life # "unclaimed" /\ job' = [job EXCEPT ![r] = "live"]
       \/ job[r] = "live" /\ Verified(claim, {"active", "offboarding"}) /\ job' = [job EXCEPT ![r] = "ended"]
    /\ UNCHANGED <<claim, project, projects, cmd, space, spaceHeld, spacePods, tenancyWorker, early>>

CommandStep(c) ==
    \/ OnboardClaims(c) \/ OnboardProject(c) \/ OnboardPins(c) \/ OnboardBegins(c) \/ OnboardSyncs(c)
    \/ OnboardActivates(c) \/ OffboardReads(c) \/ OffboardFences(c) \/ OffboardScansRuns(c)
    \/ OffboardListsEnvironments(c) \/ OffboardListsPods(c) \/ OffboardHolds(c) \/ OffboardMarks(c)
WorkerStep(e) ==
    WorkerBegins(e) \/ WorkerAuthorizes(e) \/ WorkerWritesSpace(e) \/ WorkerWritesPod(e) \/ WorkerChecks(e) \/ WorkerUndoes(e)

TenancyNext ==
    \/ \E c \in CliCommands : CommandStep(c) \/ CommandStops(c)
    \/ \E e \in Spaces : WorkerStep(e) \/ WorkerCrashes(e) \/ CreateSpace(e) \/ ReleaseHold(e)
    \/ DeleteProject \/ RecreateProject
    \/ \E r \in Jobs : JobStep(r)

TenancySpec == TenancyInit /\ [][TenancyNext]_tenancyVars

(* ---- properties ------------------------------------------------------- *)

\* Types of the claim, the commands and the workers.
TenancyTypeOK ==
    /\ claim.life \in Lifecycles /\ claim.project \in 0 .. MaxProjects /\ spacePods \subseteq Spaces
    /\ \A e \in Spaces : spaceHeld[e] \subseteq CliCommands \cup {"operator"}

\* A namespace is marked fenced only when no Environment has a Pod, and none gets
\* one afterwards: a create authorized before the fence is undone or awaited, and
\* a reconcile of a fenced namespace writes nothing (offboardProject).
FencedHasNoPods == claim.life = "fenced" => spacePods = {}

\* Every Run that was there when offboarding began has ended when it is done.
FencedRunsEnded == claim.life = "fenced" => \A r \in early : job[r] = "ended"

\* The claim only moves forward and names one Project for ever: an onboarding that
\* began before the fence cannot reactivate the namespace (patchNamespace).
ClaimForwardStep ==
    /\ claim'.life # claim.life =>
         <<claim.life, claim'.life>> \in {<<"unclaimed", "onboarding">>, <<"onboarding", "active">>,
                                          <<"active", "offboarding">>, <<"offboarding", "fenced">>}
    /\ claim.project # 0 => claim'.project = claim.project
ClaimOnlyForward == [][ClaimForwardStep]_tenancyVars

\* Tenancy: its states, and the order of the lifecycle (internal/tenancy, swe project).
TenancyCorrect == [](TenancyTypeOK /\ FencedHasNoPods /\ FencedRunsEnded) /\ ClaimOnlyForward
=============================================================================
